------------------------------ MODULE Privacy ------------------------------
(***************************************************************************)
(* Consent in one document of a public page (consent.js) and what depends  *)
(* on it: the tags of analytics.js and the ads of display-ads.js. Choices  *)
(* come from the site's own banner and, where GDPR applies, from Google's  *)
(* consent platform (CMP), whose callbacks arrive late and in any order.   *)
(* localStorage is shared with other documents; their storage events       *)
(* arrive later.                                                           *)
(***************************************************************************)
EXTENDS Integers, FiniteSets

CONSTANTS Analytics, AdStorage, Personal, \* Google's purposes; AdStorage is ad_storage with ad_user_data
          Decisions, \* what a visitor may decide in the CMP, sets of purposes
          None

Purposes == {Analytics, AdStorage, Personal}
AdPurposes == Purposes \ {Analytics}

VARIABLES
  store,     \* the saved record of localStorage
  event,     \* a storage event is on its way to this document
  cmp,       \* this document's view of the CMP
  decision,  \* what the CMP itself has stored, None before the first decision
  gdpr,      \* does the CMP say that GDPR applies to the visitor?
  said,      \* history: the purposes the visitor's latest choice allows
  missed,    \* history: a failure of the CMP hid a choice of another document
  told,      \* the purposes the Google tag was last told
  ads,       \* display-ads.js: [starting, loading, shown, auto]
  sends      \* what of analytics.js waits for its configuration

vars == <<store, event, cmp, told, ads, sends, decision, gdpr, said, missed>>

\* A local choice is analytics, advertising, both or neither.
Choices == {{}, {Analytics}, AdPurposes, Purposes}
NoStore == [choice |-> {}, saved |-> FALSE, google |-> None, pending |-> FALSE, denied |-> {}]
FreshCmp == [state |-> "checking", script |-> FALSE, api |-> FALSE, mode |-> FALSE, seen |-> FALSE,
             ui |-> FALSE, fresh |-> FALSE, values |-> None, snap |-> None, moved |-> TRUE]
NoAds == [starting |-> TRUE, loading |-> FALSE, shown |-> FALSE, auto |-> FALSE]

-----------------------------------------------------------------------------
(* consent.js: reading and writing the record *)

GoogleChoices(st, c) ==
  CASE c.state \in {"checking", "loading", "unavailable"} \/ st.pending -> {}
    [] c.state = "google" /\ ~st.pending ->
         IF st.google = None \/ c.values = None THEN {} ELSE (c.values \cap st.google) \ st.denied
    [] c.state = "local" /\ ~st.pending ->
         (IF st.google = None THEN st.choice ELSE st.choice \cap st.google) \ st.denied

Pending(st, revoke) ==
  [st EXCEPT !.pending = TRUE, !.choice = IF revoke THEN {} ELSE @,
             !.google = IF revoke THEN {} ELSE @]

\* Mutant: a local choice overwrites the provider's refusals.
WideningWrite(st, choice, google) ==
  [choice |-> choice, saved |-> TRUE, google |-> google, pending |-> google = None /\ st.pending,
   denied |-> st.denied]

\* write: a local choice never widens an earlier decision of the CMP, and its
\* refusals are remembered while the CMP has been or may be involved.
Write(st, choice, google) ==
  LET previous == IF google # None THEN google ELSE st.google
  IN [choice |-> choice, saved |-> TRUE, google |-> previous,
      pending |-> google = None /\ st.pending,
      denied |-> st.denied \cup
        (IF google = None /\ (previous # None \/ st.pending) THEN Purposes \ choice ELSE {})]

\* choices() of analytics.js: measurement of the visit, or of a conversion.
MeasuresVisit(granted) == Analytics \in granted
MeasuresAds(granted) == AdStorage \in granted

\* A page that has just been loaded.
Fresh == cmp' = FreshCmp /\ told' = {} /\ ads' = NoAds /\ sends' = {}

\* analytics.js hears of the choices: it tells the tag, and start awaits the
\* configuration of the destinations that have consent.
UpdateConsent(granted) ==
  /\ told' = granted
  /\ sends' = sends \cup (IF MeasuresVisit(granted) THEN {"visit"} ELSE {})
                   \cup (IF MeasuresAds(granted) THEN {"conversion"} ELSE {})

\* display-ads.js hears of them: the ad is cleared and start is called again.
RefreshForConsent == ads' = [ads EXCEPT !.starting = TRUE, !.shown = FALSE]

\* notify: the listeners run at once. A withdrawn consent takes the ad away, or
\* reloads the page when Auto Ads runs; otherwise the ad starts over.
Notify(st, c) ==
  LET granted == GoogleChoices(st, c)
      reload == ads.auto /\ ~(AdPurposes \subseteq granted)
  IN /\ store' = st
     /\ IF reload THEN Fresh
        ELSE cmp' = c /\ UpdateConsent(granted) /\ RefreshForConsent

\* The two check boxes as the CMP's purposes set them.
Boxes(granted) == (granted \cap {Analytics}) \cup (IF granted \cap AdPurposes # {} THEN AdPurposes ELSE {})

\* refreshGoogleChoices: the CMP's snapshot is saved, unless another document,
\* or the banner, has changed the record since this document looked.
Refresh(st, c) ==
  IF c.state # "google" \/ ~c.mode \/ c.ui \/ c.fresh THEN [store |-> st, cmp |-> c]
  ELSE IF c.moved THEN [store |-> st, cmp |-> [c EXCEPT !.fresh = TRUE]]
  ELSE LET vals == IF c.snap = None THEN {} ELSE c.snap
       IN [store |-> Write(st, Boxes(vals \ st.denied), vals \ st.denied),
           cmp |-> [c EXCEPT !.values = vals, !.moved = FALSE]]

\* failCmp takes the record as it is now for the one this document has seen.
FailCmp ==
  /\ missed' = (missed \/ event)
  /\ Notify(Pending(store, FALSE),
            [cmp EXCEPT !.state = "unavailable", !.values = None, !.moved = FALSE])

Init ==
  /\ store = NoStore /\ event = FALSE /\ cmp = FreshCmp
  /\ decision = None /\ gdpr \in BOOLEAN /\ said = {} /\ missed = FALSE
  /\ told = {} /\ ads = NoAds /\ sends = {}

Reload ==
  /\ Fresh /\ event' = FALSE
  /\ UNCHANGED <<store, decision, gdpr, said, missed>>

-----------------------------------------------------------------------------
(* The CMP's start and its callbacks *)

\* startGoogleCmp: the configuration says whether the CMP is used.
ConfigReply(answer) ==
  /\ cmp.state = "checking"
  /\ \/ /\ answer = "off" /\ UNCHANGED missed
        /\ Notify([store EXCEPT !.pending = FALSE], [cmp EXCEPT !.state = "local"])
     \/ answer = "fails" /\ FailCmp
     \/ /\ answer = "on"
        /\ store' = Pending(store, FALSE)
        /\ cmp' = [cmp EXCEPT !.state = "loading", !.script = TRUE, !.moved = FALSE]
        /\ UNCHANGED <<missed, told, ads, sends>>
  /\ UNCHANGED <<event, decision, gdpr, said>>

\* The script did not load, or 12 s passed without data.
CmpTimeout ==
  /\ cmp.state = "loading"
  /\ FailCmp
  /\ UNCHANGED <<event, decision, gdpr, said>>

\* CONSENT_API_READY; the CMP has read its own cookie by now.
ApiReady ==
  /\ cmp.script /\ ~cmp.api
  /\ cmp' = [cmp EXCEPT !.api = TRUE, !.snap = decision]
  /\ UNCHANGED <<store, event, decision, gdpr, said, missed, told, ads, sends>>

\* CONSENT_MODE_DATA_READY.
ModeReady ==
  /\ cmp.script /\ ~cmp.mode /\ cmp.api
  /\ LET r == Refresh(store, [cmp EXCEPT !.mode = TRUE])
     IN IF r.cmp.values # cmp.values \/ r.cmp.fresh # cmp.fresh
          THEN Notify(r.store, r.cmp)
          ELSE cmp' = r.cmp /\ UNCHANGED <<store, told, ads, sends>>
  /\ UNCHANGED <<event, decision, gdpr, said, missed>>

\* consentData reports an error; or that GDPR does not apply.
ConsentError ==
  /\ cmp.api
  /\ FailCmp
  /\ UNCHANGED <<event, decision, gdpr, said>>

NoGdpr ==
  /\ cmp.api /\ ~gdpr
  /\ Notify([store EXCEPT !.pending = FALSE], [cmp EXCEPT !.state = "local", !.values = None])
  /\ UNCHANGED <<event, decision, gdpr, said, missed>>

\* consentData with a stored decision, or with the CMP's message on the
\* screen: the first answer, or the first one after a failure.
ConsentData ==
  /\ cmp.api /\ gdpr /\ cmp.state # "google"
  /\ LET ui == cmp.ui \/ cmp.snap = None
         c == [cmp EXCEPT !.state = "google", !.values = None, !.seen = TRUE, !.ui = ui,
                          !.fresh = @ \/ cmp.moved \/ ui, !.moved = FALSE]
         r == Refresh(Pending(store, ui), c)
     IN Notify(r.store, r.cmp)
  /\ UNCHANGED <<event, decision, gdpr, said, missed>>

\* "Manage" opens the CMP's own message again.
ManageGoogle ==
  /\ cmp.state = "google" /\ cmp.api
  /\ Notify(Pending(store, TRUE), [cmp EXCEPT !.values = None, !.ui = TRUE, !.fresh = TRUE, !.moved = FALSE])
  /\ UNCHANGED <<event, decision, gdpr, said, missed>>

\* The visitor decides in the CMP's message: useractioncomplete after an
\* earlier status. Everything is denied until the reloaded page looks afresh.
Decide(d) ==
  /\ cmp.ui /\ cmp.seen
  /\ decision' = d /\ said' = d
  /\ store' = [Pending(store, TRUE) EXCEPT !.denied = {}]
  /\ Fresh /\ event' = FALSE /\ missed' = FALSE
  /\ UNCHANGED <<gdpr>>

-----------------------------------------------------------------------------
(* The site's own banner, and other documents *)

Local(choice) ==
  /\ said' = choice
  /\ Notify(Write(store, choice, None), [cmp EXCEPT !.moved = TRUE])
  /\ UNCHANGED <<event, decision, gdpr, missed>>

\* Another document: its banner, a decision in its CMP, and its CMP's
\* snapshot saved after that.
OtherWrites(st) ==
  /\ store' = st /\ event' = TRUE /\ cmp' = [cmp EXCEPT !.moved = TRUE]
  /\ UNCHANGED <<gdpr, missed, told, ads, sends>>

OtherLocal(choice) ==
  said' = choice /\ OtherWrites(Write(store, choice, None)) /\ UNCHANGED decision

OtherDecides(d) ==
  /\ gdpr /\ decision' = d /\ said' = d
  /\ OtherWrites([Pending(store, TRUE) EXCEPT !.denied = {}])

OtherRefreshes ==
  /\ gdpr /\ decision # None
  /\ OtherWrites(Write(store, Boxes(decision \ store.denied), decision \ store.denied))
  /\ UNCHANGED <<said, decision>>

StorageEvent ==
  /\ event
  /\ event' = FALSE
  /\ Notify(store, [cmp EXCEPT !.fresh = TRUE])
  /\ UNCHANGED <<decision, gdpr, said, missed>>

-----------------------------------------------------------------------------
(* analytics.js: start, send and trackConversion await the configuration *)

elsewhere == <<store, event, cmp, decision, gdpr, said, missed>>
Granted == GoogleChoices(store, cmp)

Track(what) ==
  /\ what \notin sends
  /\ IF what = "conversion" THEN MeasuresAds(Granted) ELSE MeasuresVisit(Granted)
  /\ sends' = sends \cup {what}
  /\ UNCHANGED <<elsewhere, told, ads>>

\* configureDestinations: a destination needs its own purpose.
Purpose(what) == IF what = "conversion" THEN MeasuresAds(Granted) ELSE MeasuresVisit(Granted)

\* The configuration is there, or is not; consent is asked again before the
\* tag is told the choices and anything leaves.
Send(what, found) ==
  /\ what \in sends
  /\ sends' = sends \ {what}
  /\ told' = IF found /\ Purpose(what) THEN Granted ELSE told
  /\ UNCHANGED <<elsewhere, ads>>

-----------------------------------------------------------------------------
(* display-ads.js *)

AdvertisingAllowed == AdPurposes \subseteq Granted

\* publisherMode: one kind of publisher ads, only where ads are enabled at all.
PublisherModes == {"google_gpt", "google_adsense_auto", "off"}
\* accountAdMode: an account that is ad-free, or whose entitlement is not
\* known, sees no ads.
AdModes == {"none", "standard"}

\* start, after its configuration and the account's ad mode have come;
\* more: another call is still under way.
AdConfig(mode, account, more) ==
  /\ ads.starting
  /\ ads' = IF account = "none" \/ mode = "off" \/ ~AdvertisingAllowed THEN [ads EXCEPT !.starting = more]
            ELSE IF mode = "google_gpt" THEN [ads EXCEPT !.starting = more, !.loading = TRUE]
            ELSE [ads EXCEPT !.starting = more, !.auto = TRUE]
  /\ UNCHANGED <<elsewhere, told, sends>>

\* The ad server's script is there; consent is asked again before the slot.
AdLoaded(more) ==
  /\ ads.loading
  /\ ads' = [ads EXCEPT !.loading = more, !.shown = @ \/ AdvertisingAllowed]
  /\ UNCHANGED <<elsewhere, told, sends>>

Next ==
  \/ Reload \/ CmpTimeout \/ ApiReady \/ ModeReady \/ ConsentError \/ NoGdpr \/ ConsentData
  \/ ManageGoogle \/ OtherRefreshes \/ StorageEvent
  \/ \E a \in {"on", "off", "fails"} : ConfigReply(a)
  \/ \E w \in {"visit", "conversion"} : Track(w)
  \/ \E w \in {"visit", "conversion"}, found \in BOOLEAN : Send(w, found)
  \/ \E d \in Decisions : Decide(d) \/ OtherDecides(d)
  \/ \E ch \in Choices : Local(ch) \/ OtherLocal(ch)
  \/ \E m \in PublisherModes, account \in AdModes, more \in BOOLEAN : AdConfig(m, account, more)
  \/ \E more \in BOOLEAN : AdLoaded(more)

Spec == Init /\ [][Next]_vars

-----------------------------------------------------------------------------
\* The shape of the record and of the document's view.
TypeOK ==
  /\ store \in [choice: SUBSET Purposes, saved: BOOLEAN, google: SUBSET Purposes \cup {None},
                pending: BOOLEAN, denied: SUBSET Purposes]
  /\ cmp \in [state: {"checking", "loading", "unavailable", "local", "google"}, script: BOOLEAN,
              api: BOOLEAN, mode: BOOLEAN, seen: BOOLEAN, ui: BOOLEAN, fresh: BOOLEAN, moved: BOOLEAN,
              values: SUBSET Purposes \cup {None}, snap: SUBSET Purposes \cup {None}]
  /\ decision \in SUBSET Purposes \cup {None} /\ said \subseteq Purposes /\ told \subseteq Purposes
  /\ ads \in [starting: BOOLEAN, loading: BOOLEAN, shown: BOOLEAN, auto: BOOLEAN]
  /\ event \in BOOLEAN /\ gdpr \in BOOLEAN /\ missed \in BOOLEAN
  /\ sends \subseteq {"visit", "conversion"}

\* No purpose is ever granted that the visitor's latest choice, in whichever
\* document and message it was made, does not grant: late callbacks, old
\* snapshots and other documents only narrow. (missed: failCmp forgot that
\* another document had written before its storage event arrived.)
NothingUnsaid == missed \/ Granted \subseteq said

\* What runs keeps to the choices of this moment, however long it waited for
\* its configuration or script: the tag has been told no more than is granted
\* and no ad is up without consent, except while the storage event that will
\* say so is still on its way.
WithinConsent ==
  ~event => /\ told \subseteq Granted
            /\ ads.shown \/ ads.auto => AdvertisingAllowed

\* consent.js keeps the visitor's word, and the scripts that depend on it keep
\* to consent.js.
ConsentKept == NothingUnsaid /\ WithinConsent
=============================================================================
