---------------------------- MODULE AdminProofs -----------------------------
(***************************************************************************)
(* Theorems about the administrator's console, for every number of         *)
(* accounts, lessons, rewards, conversations, reads and draws.             *)
(***************************************************************************)
EXTENDS MCAdmin, FiniteSetTheorems, TLAPS

-----------------------------------------------------------------------------
(* AdminReferrals *)

Form == [ready : BOOLEAN, evidence : BOOLEAN, checked : BOOLEAN, age : Int, enabled : BOOLEAN, done : BOOLEAN]

RefsType ==
  /\ visible \in BOOLEAN
  /\ forms \in [Rewards -> Form \cup {None}]
  /\ drafts \subseteq Rewards
  /\ asking \in Rewards \cup {None}
  /\ releases \subseteq [reward : Rewards, draw : Int, served : BOOLEAN]
  /\ draws \in Int
  /\ left \in [Rewards -> BOOLEAN]

\* A confirmation that still stands was given since the form was last left, on
\* a form that is neither finished nor out of sight.
Confirmed ==
  \A r \in Rewards : forms[r] # None /\ forms[r].checked => visible /\ ~left[r] /\ ~forms[r].done

\* The window asks about a form that is on the page and may be released.
Asked == asking # None => forms[asking] # None /\ forms[asking].ready

\* A release the server has served is recorded there.
Served == \A c \in releases : c.served => c.reward \in released

\* An unfinished form shows the draft that would be kept if it were redrawn.
Drafted ==
  \A r \in Rewards : forms[r] # None /\ ~forms[r].done /\ r \notin released =>
    (forms[r].evidence <=> r \in drafts)

SentFresh == \A s \in sent : s.age <= TTL /\ ~s.left /\ s.ready

RefsInv == RefsType /\ Confirmed /\ Asked /\ Served /\ Drafted /\ SentFresh

LEMMA SyncedForm ==
  ASSUME NEW f \in Form
  PROVE  /\ Refs!Synced(f) \in Form
         /\ Refs!Synced(f).checked = f.checked /\ Refs!Synced(f).done = f.done
         /\ Refs!Synced(f).ready = f.ready /\ Refs!Synced(f).evidence = f.evidence
  BY DEF Refs!Synced, Refs!Fresh, Form

\* The provers need nested updates of a record spelled out.
LEMMA UncheckedIs ==
  ASSUME NEW f \in Form, NEW g, g = [f EXCEPT !.checked = FALSE, !.age = 0]
  PROVE  g = [ready |-> f.ready, evidence |-> f.evidence, checked |-> FALSE, age |-> 0,
              enabled |-> f.enabled, done |-> f.done]
  BY DEF Form

LEMMA UncheckedForm ==
  ASSUME NEW f \in Form
  PROVE  LET g == [f EXCEPT !.checked = FALSE, !.age = 0]
         IN /\ g \in Form /\ g.done = f.done /\ g.ready = f.ready
            /\ g.evidence = f.evidence /\ g.checked = FALSE
  <1> DEFINE g == [f EXCEPT !.checked = FALSE, !.age = 0]
  <1>1. g = [ready |-> f.ready, evidence |-> f.evidence, checked |-> FALSE, age |-> 0,
             enabled |-> f.enabled, done |-> f.done]
    BY UncheckedIs
  <1> HIDE DEF g
  <1>2. /\ g \in Form /\ g.done = f.done /\ g.ready = f.ready
        /\ g.evidence = f.evidence /\ g.checked = FALSE
    BY <1>1 DEF Form
  <1> USE DEF g
  <1> QED BY <1>2

LEMMA CheckedIs ==
  ASSUME NEW f \in Form, NEW g, g = [f EXCEPT !.checked = TRUE, !.age = 0]
  PROVE  g = [ready |-> f.ready, evidence |-> f.evidence, checked |-> TRUE, age |-> 0,
              enabled |-> f.enabled, done |-> f.done]
  BY DEF Form

LEMMA CheckedForm ==
  ASSUME NEW f \in Form
  PROVE  LET g == [f EXCEPT !.checked = TRUE, !.age = 0]
         IN g \in Form /\ g.done = f.done /\ g.ready = f.ready /\ g.evidence = f.evidence
  <1> DEFINE g == [f EXCEPT !.checked = TRUE, !.age = 0]
  <1>1. g = [ready |-> f.ready, evidence |-> f.evidence, checked |-> TRUE, age |-> 0,
             enabled |-> f.enabled, done |-> f.done]
    BY CheckedIs
  <1> HIDE DEF g
  <1>2. g \in Form /\ g.done = f.done /\ g.ready = f.ready /\ g.evidence = f.evidence
    BY <1>1 DEF Form
  <1> USE DEF g
  <1> QED BY <1>2

LEMMA FinishedIs ==
  ASSUME NEW f \in Form, NEW g, g = [f EXCEPT !.checked = FALSE, !.enabled = FALSE, !.done = TRUE]
  PROVE  g = [ready |-> f.ready, evidence |-> f.evidence, checked |-> FALSE, age |-> f.age,
              enabled |-> FALSE, done |-> TRUE]
  BY DEF Form

LEMMA FinishedForm ==
  ASSUME NEW f \in Form
  PROVE  LET g == [f EXCEPT !.checked = FALSE, !.enabled = FALSE, !.done = TRUE]
         IN g \in Form /\ g.done = TRUE /\ g.ready = f.ready /\ g.checked = FALSE
  <1> DEFINE g == [f EXCEPT !.checked = FALSE, !.enabled = FALSE, !.done = TRUE]
  <1>1. g = [ready |-> f.ready, evidence |-> f.evidence, checked |-> FALSE, age |-> f.age,
             enabled |-> FALSE, done |-> TRUE]
    BY FinishedIs
  <1> HIDE DEF g
  <1>2. g \in Form /\ g.done = TRUE /\ g.ready = f.ready /\ g.checked = FALSE
    BY <1>1 DEF Form
  <1> USE DEF g
  <1> QED BY <1>2

\* Typing, a tick of the clock and the release of the button each change one
\* field, none of which the confirmation depends on.
LEMMA TypedForm ==
  ASSUME NEW f \in Form
  PROVE  LET g == [f EXCEPT !.evidence = ~f.evidence]
         IN g \in Form /\ g.checked = f.checked /\ g.done = f.done /\ g.evidence = ~f.evidence
  <1>1. [f EXCEPT !.evidence = ~f.evidence] \in Form
    BY DEF Form
  <1>2. /\ [f EXCEPT !.evidence = ~f.evidence].checked = f.checked
        /\ [f EXCEPT !.evidence = ~f.evidence].done = f.done
        /\ [f EXCEPT !.evidence = ~f.evidence].evidence = ~f.evidence
    BY DEF Form
  <1> QED BY <1>1, <1>2

LEMMA AgedForm ==
  ASSUME NEW f \in Form
  PROVE  LET g == [f EXCEPT !.age = @ + 1]
         IN /\ g \in Form /\ g.checked = f.checked /\ g.done = f.done
            /\ g.ready = f.ready /\ g.evidence = f.evidence
  <1>1. [f EXCEPT !.age = @ + 1] \in Form
    BY DEF Form
  <1>2. /\ [f EXCEPT !.age = @ + 1].checked = f.checked
        /\ [f EXCEPT !.age = @ + 1].done = f.done
        /\ [f EXCEPT !.age = @ + 1].ready = f.ready
        /\ [f EXCEPT !.age = @ + 1].evidence = f.evidence
    BY DEF Form
  <1> QED BY <1>1, <1>2

LEMMA DisabledForm ==
  ASSUME NEW f \in Form
  PROVE  LET g == [f EXCEPT !.enabled = FALSE]
         IN g \in Form /\ g.checked = f.checked /\ g.done = f.done /\ g.evidence = f.evidence
  <1>1. [f EXCEPT !.enabled = FALSE] \in Form
    BY DEF Form
  <1>2. /\ [f EXCEPT !.enabled = FALSE].checked = f.checked
        /\ [f EXCEPT !.enabled = FALSE].done = f.done
        /\ [f EXCEPT !.enabled = FALSE].evidence = f.evidence
    BY DEF Form
  <1> QED BY <1>1, <1>2

LEMMA ResetForm ==
  ASSUME NEW f \in Form
  PROVE  /\ Refs!Reset(f) \in Form \cup {None}
         /\ Refs!Reset(f) # None =>
              /\ Refs!Reset(f).done = f.done /\ Refs!Reset(f).ready = f.ready
              /\ Refs!Reset(f).evidence = f.evidence
              /\ f.done \/ ~Refs!Reset(f).checked
         /\ f.done => Refs!Reset(f) = f
  <1> DEFINE g == [f EXCEPT !.checked = FALSE, !.age = 0]
  <1>1. CASE f = None \/ f.done
    BY <1>1 DEF Refs!Reset
  <1>2. CASE ~(f = None \/ f.done)
    <2>1. /\ g \in Form /\ g.done = f.done /\ g.ready = f.ready
          /\ g.evidence = f.evidence /\ g.checked = FALSE
      BY UncheckedForm
    <2>2. Refs!Reset(f) = Refs!Synced(g)
      BY <1>2 DEF Refs!Reset
    <2> HIDE DEF g
    <2> QED BY <1>2, <2>1, <2>2, SyncedForm
  <1> QED BY <1>1, <1>2

LEMMA RefsInitially == Refs!Init => RefsInv
  BY DEF Refs!Init, RefsInv, RefsType, Confirmed, Asked, Served, Drafted, SentFresh

\* Which parts of the state the named parts of the invariant speak about.
LEMMA RefsStutter == RefsInv /\ UNCHANGED refsVars => RefsInv'
  BY DEF refsVars, RefsInv, RefsType, Confirmed, Asked, Served, Drafted, SentFresh

\* A step that changes one form and nothing that the other forms depend on.
LEMMA OneForm ==
  ASSUME RefsInv, NEW r \in Rewards, NEW g \in Form \cup {None},
         forms' = [forms EXCEPT ![r] = g],
         visible' = visible, released' = released,
         drafts' \in SUBSET Rewards, \A q \in Rewards \ {r} : q \in drafts' <=> q \in drafts,
         left' \in [Rewards -> BOOLEAN], \A q \in Rewards \ {r} : left'[q] = left[q],
         g # None => /\ g.checked => visible /\ ~left'[r] /\ ~g.done
                     /\ ~g.done /\ r \notin released => (g.evidence <=> r \in drafts')
  PROVE  forms' \in [Rewards -> Form \cup {None}] /\ Confirmed' /\ Drafted'
  <1>1. forms \in [Rewards -> Form \cup {None}] /\ Confirmed /\ Drafted
    BY DEF RefsInv, RefsType
  <1>2. forms' \in [Rewards -> Form \cup {None}]
    BY <1>1
  <1>3. forms'[r] = g /\ \A q \in Rewards \ {r} : forms'[q] = forms[q]
    BY <1>1
  <1>4. Confirmed'
    <2> SUFFICES ASSUME NEW q \in Rewards, forms'[q] # None, forms'[q].checked
                 PROVE  visible' /\ ~left'[q] /\ ~forms'[q].done
      BY DEF Confirmed
    <2>1. CASE q = r
      BY <1>3, <2>1
    <2>2. CASE q # r
      BY <1>1, <1>3, <2>2 DEF Confirmed
    <2> QED BY <2>1, <2>2
  <1>5. Drafted'
    <2> SUFFICES ASSUME NEW q \in Rewards, forms'[q] # None, ~forms'[q].done, q \notin released'
                 PROVE  forms'[q].evidence <=> q \in drafts'
      BY DEF Drafted
    <2>1. CASE q = r
      BY <1>3, <2>1
    <2>2. CASE q # r
      BY <1>1, <1>3, <2>2 DEF Drafted
    <2> QED BY <2>1, <2>2
  <1> QED BY <1>2, <1>4, <1>5

LEMMA RefsDraw ==
  ASSUME RefsInv, NEW queue \in SUBSET Rewards, NEW ready \in SUBSET queue, Refs!Draw(queue, ready)
  PROVE  RefsInv'
  <1> DEFINE new(r) == [ready |-> r \in ready, evidence |-> r \in drafts, checked |-> FALSE, age |-> 0,
                        enabled |-> FALSE, done |-> FALSE]
  <1>0. \A r \in Rewards : /\ new(r) \in Form /\ new(r).checked = FALSE
                           /\ new(r).evidence = (r \in drafts)
    BY DEF Form
  <1>1. forms' = [r \in Rewards |-> IF r \notin queue THEN None ELSE new(r)]
    BY DEF Refs!Draw
  <1>2. /\ asking = None /\ asking' = None /\ visible' = visible /\ drafts' = drafts \cap queue
        /\ draws' = draws + 1 /\ releases' = releases /\ released' = released
        /\ left' = left /\ sent' = sent
    BY DEF Refs!Draw
  <1> HIDE DEF new
  <1>3. \A r \in Rewards : forms'[r] = None \/ (r \in queue /\ forms'[r] = new(r))
    BY <1>1
  <1>4. forms' \in [Rewards -> Form \cup {None}]
    BY <1>0, <1>1
  <1>5. RefsType'
    BY <1>2, <1>4 DEF RefsInv, RefsType
  <1>6. Confirmed'
    BY <1>0, <1>3 DEF Confirmed
  <1>7. Drafted'
    BY <1>0, <1>2, <1>3 DEF Drafted
  <1>8. Asked' /\ Served' /\ SentFresh'
    BY <1>2 DEF RefsInv, Asked, Served, SentFresh
  <1> QED BY <1>5, <1>6, <1>7, <1>8 DEF RefsInv

LEMMA RefsDrawError ==
  ASSUME RefsInv, Refs!DrawError
  PROVE  RefsInv'
  BY DEF Refs!DrawError, RefsInv, RefsType, Confirmed, Asked, Served, Drafted, SentFresh

\* What a reset of one form leaves behind.
LEMMA OneReset ==
  ASSUME RefsInv, NEW r \in Rewards, forms[r] # None,
         forms' = [forms EXCEPT ![r] = Refs!Reset(@)],
         visible' = visible, released' = released, drafts' = drafts,
         left' \in [Rewards -> BOOLEAN], \A q \in Rewards \ {r} : left'[q] = left[q]
  PROVE  forms' \in [Rewards -> Form \cup {None}] /\ Confirmed' /\ Drafted'
  <1> DEFINE g == Refs!Reset(forms[r])
  <1>1. forms[r] \in Form /\ forms \in [Rewards -> Form \cup {None}] /\ drafts \in SUBSET Rewards
    BY DEF RefsInv, RefsType
  <1>2. forms' = [forms EXCEPT ![r] = g]
    OBVIOUS
  <1>3. /\ g \in Form \cup {None}
        /\ g # None => /\ g.done = forms[r].done /\ g.evidence = forms[r].evidence
                       /\ forms[r].done \/ ~g.checked
        /\ forms[r].done => g = forms[r]
    BY <1>1, ResetForm
  <1> HIDE DEF g
  <1>4. g # None /\ g.checked => visible /\ ~left'[r] /\ ~g.done
    <2> SUFFICES ASSUME g # None, g.checked PROVE FALSE
      OBVIOUS
    <2>1. forms[r].done /\ g = forms[r]
      BY <1>3
    <2>2. ~forms[r].done
      BY <2>1 DEF RefsInv, Confirmed
    <2> QED BY <2>1, <2>2
  <1>5. g # None /\ ~g.done /\ r \notin released => (g.evidence <=> r \in drafts')
    BY <1>1, <1>3 DEF RefsInv, Drafted
  <1>6. g # None => /\ g.checked => visible /\ ~left'[r] /\ ~g.done
                    /\ ~g.done /\ r \notin released => (g.evidence <=> r \in drafts')
    BY <1>4, <1>5
  <1> QED BY <1>1, <1>2, <1>3, <1>6, OneForm

LEMMA RefsTypeEvidence ==
  ASSUME RefsInv, NEW r \in Rewards, Refs!TypeEvidence(r)
  PROVE  RefsInv'
  <1> DEFINE f == forms[r]
             h == [f EXCEPT !.evidence = ~f.evidence]
             g == Refs!Synced(h)
  <1>1. /\ visible /\ asking = None /\ f # None /\ ~f.done
        /\ forms' = [forms EXCEPT ![r] = g]
        /\ drafts' = IF f.evidence THEN drafts \ {r} ELSE drafts \cup {r}
        /\ visible' = visible /\ draws' = draws /\ asking' = asking /\ releases' = releases
        /\ released' = released /\ left' = left /\ sent' = sent
    BY DEF Refs!TypeEvidence, Refs!Usable
  <1>2. f \in Form /\ drafts \in SUBSET Rewards /\ left \in [Rewards -> BOOLEAN]
    BY <1>1 DEF RefsInv, RefsType
  <1>3. h \in Form /\ h.checked = f.checked /\ h.done = f.done /\ h.evidence = ~f.evidence
    BY <1>2, TypedForm
  <1> HIDE DEF h
  <1>4. g \in Form /\ g.checked = f.checked /\ g.done = f.done /\ g.evidence = ~f.evidence
    BY <1>3, SyncedForm
  <1> HIDE DEF g
  <1>5. g # None => /\ g.checked => visible /\ ~left'[r] /\ ~g.done
                    /\ ~g.done /\ r \notin released => (g.evidence <=> r \in drafts')
    <2>1. g.checked => visible /\ ~left'[r] /\ ~g.done
      BY <1>1, <1>4 DEF RefsInv, Confirmed
    <2>2. g.evidence <=> r \in drafts'
      <3>1. f.evidence \in BOOLEAN
        BY <1>2 DEF Form
      <3> QED BY <1>1, <1>4, <3>1
    <2> QED BY <2>1, <2>2
  <1>6. drafts' \in SUBSET Rewards /\ \A q \in Rewards \ {r} : q \in drafts' <=> q \in drafts
    BY <1>1, <1>2
  <1> HIDE DEF f
  <1>7. forms' \in [Rewards -> Form \cup {None}] /\ Confirmed' /\ Drafted'
    BY <1>1, <1>2, <1>4, <1>5, <1>6, OneForm
  <1>8. RefsType' /\ Asked' /\ Served' /\ SentFresh'
    BY <1>1, <1>6, <1>7 DEF RefsInv, RefsType, Asked, Served, SentFresh
  <1> QED BY <1>7, <1>8 DEF RefsInv

LEMMA RefsConfirm ==
  ASSUME RefsInv, NEW r \in Rewards, Refs!Confirm(r)
  PROVE  RefsInv'
  <1> DEFINE f == forms[r]
             h == [f EXCEPT !.checked = TRUE, !.age = 0]
             g == IF f.checked THEN Refs!Reset(f) ELSE Refs!Synced(h)
  <1>1. /\ visible /\ asking = None /\ f # None /\ ~f.done
        /\ forms' = [forms EXCEPT ![r] = g]
        /\ left' = [left EXCEPT ![r] = FALSE]
        /\ drafts' = drafts
        /\ visible' = visible /\ draws' = draws /\ asking' = asking /\ releases' = releases
        /\ released' = released /\ sent' = sent
    BY DEF Refs!Confirm, Refs!Usable
  <1>2. f \in Form /\ drafts \in SUBSET Rewards /\ left \in [Rewards -> BOOLEAN]
    BY <1>1 DEF RefsInv, RefsType
  <1>3. h \in Form /\ h.done = f.done /\ h.evidence = f.evidence
    BY <1>2, CheckedForm
  <1> HIDE DEF h
  <1>4. Refs!Synced(h) \in Form /\ Refs!Synced(h).done = f.done /\ Refs!Synced(h).evidence = f.evidence
    BY <1>3, SyncedForm
  <1>5. g \in Form \cup {None} /\ (g # None => g.done = f.done /\ g.evidence = f.evidence)
    <2>1. /\ Refs!Reset(f) \in Form \cup {None}
          /\ Refs!Reset(f) # None => Refs!Reset(f).done = f.done /\ Refs!Reset(f).evidence = f.evidence
      BY <1>2, ResetForm
    <2> QED BY <1>4, <2>1
  <1> HIDE DEF g
  <1>6. /\ left' \in [Rewards -> BOOLEAN] /\ left'[r] = FALSE
        /\ \A q \in Rewards \ {r} : left'[q] = left[q]
    BY <1>1, <1>2
  <1>7. g # None => /\ g.checked => visible /\ ~left'[r] /\ ~g.done
                    /\ ~g.done /\ r \notin released => (g.evidence <=> r \in drafts')
    <2>1. g # None /\ g.checked => visible /\ ~left'[r] /\ ~g.done
      BY <1>1, <1>5, <1>6
    <2>2. g # None /\ ~g.done /\ r \notin released => (g.evidence <=> r \in drafts')
      BY <1>1, <1>5 DEF RefsInv, Drafted
    <2> QED BY <2>1, <2>2
  <1> HIDE DEF f
  <1>8. forms' \in [Rewards -> Form \cup {None}] /\ Confirmed' /\ Drafted'
    BY <1>1, <1>2, <1>5, <1>6, <1>7, OneForm
  <1>9. RefsType' /\ Asked' /\ Served' /\ SentFresh'
    BY <1>1, <1>2, <1>6, <1>8 DEF RefsInv, RefsType, Asked, Served, SentFresh
  <1> QED BY <1>8, <1>9 DEF RefsInv

LEMMA RefsLeaveForm ==
  ASSUME RefsInv, NEW r \in Rewards, Refs!LeaveForm(r)
  PROVE  RefsInv'
  <1>1. /\ asking = None /\ forms[r] # None
        /\ forms' = [forms EXCEPT ![r] = Refs!Reset(@)]
        /\ left' = [left EXCEPT ![r] = TRUE]
        /\ drafts' = drafts
        /\ visible' = visible /\ draws' = draws /\ asking' = asking /\ releases' = releases
        /\ released' = released /\ sent' = sent
    BY DEF Refs!LeaveForm, Refs!Usable
  <1>2. left' \in [Rewards -> BOOLEAN] /\ \A q \in Rewards \ {r} : left'[q] = left[q]
    BY <1>1 DEF RefsInv, RefsType
  <1>3. forms' \in [Rewards -> Form \cup {None}] /\ Confirmed' /\ Drafted'
    BY <1>1, <1>2, OneReset
  <1>4. RefsType' /\ Asked' /\ Served' /\ SentFresh'
    BY <1>1, <1>2, <1>3 DEF RefsInv, RefsType, Asked, Served, SentFresh
  <1> QED BY <1>3, <1>4 DEF RefsInv

LEMMA RefsExpire ==
  ASSUME RefsInv, NEW r \in Rewards, Refs!Expire(r)
  PROVE  RefsInv'
  <1>1. /\ asking = None /\ forms[r] # None
        /\ forms' = [forms EXCEPT ![r] = Refs!Reset(@)]
        /\ left' = left /\ drafts' = drafts
        /\ visible' = visible /\ draws' = draws /\ asking' = asking /\ releases' = releases
        /\ released' = released /\ sent' = sent
    BY DEF Refs!Expire
  <1>2. left' \in [Rewards -> BOOLEAN] /\ \A q \in Rewards \ {r} : left'[q] = left[q]
    BY <1>1 DEF RefsInv, RefsType
  <1>3. forms' \in [Rewards -> Form \cup {None}] /\ Confirmed' /\ Drafted'
    BY <1>1, <1>2, OneReset
  <1>4. RefsType' /\ Asked' /\ Served' /\ SentFresh'
    BY <1>1, <1>2, <1>3 DEF RefsInv, RefsType, Asked, Served, SentFresh
  <1> QED BY <1>3, <1>4 DEF RefsInv

LEMMA RefsHideView ==
  ASSUME RefsInv, Refs!HideView
  PROVE  RefsInv'
  <1>1. /\ asking = None
        /\ forms' = [r \in Rewards |-> Refs!Reset(forms[r])]
        /\ left' = [r \in Rewards |-> TRUE] /\ drafts' = drafts
        /\ visible' = FALSE /\ draws' = draws /\ asking' = asking /\ releases' = releases
        /\ released' = released /\ sent' = sent
    BY DEF Refs!HideView
  <1>2. ASSUME NEW r \in Rewards
        PROVE  /\ forms'[r] \in Form \cup {None}
               /\ forms'[r] # None => /\ forms'[r].done = forms[r].done
                                      /\ forms'[r].evidence = forms[r].evidence
                                      /\ ~forms'[r].checked
                                      /\ forms[r] # None
    <2>1. forms'[r] = Refs!Reset(forms[r])
      BY <1>1
    <2>2. CASE forms[r] = None
      BY <2>1, <2>2 DEF Refs!Reset
    <2>3. CASE forms[r] # None
      <3>1. forms[r] \in Form
        BY <2>3 DEF RefsInv, RefsType
      <3>2. forms[r].done => ~forms[r].checked
        BY <2>3 DEF RefsInv, Confirmed
      <3> QED BY <2>1, <2>3, <3>1, <3>2, ResetForm
    <2> QED BY <2>2, <2>3
  <1>3. forms' \in [Rewards -> Form \cup {None}]
    BY <1>1, <1>2
  <1>4. Confirmed'
    BY <1>2 DEF Confirmed
  <1>5. Drafted'
    BY <1>1, <1>2 DEF RefsInv, Drafted
  <1>6. RefsType' /\ Asked' /\ Served' /\ SentFresh'
    BY <1>1, <1>3 DEF RefsInv, RefsType, Asked, Served, SentFresh
  <1> QED BY <1>4, <1>5, <1>6 DEF RefsInv

LEMMA RefsShowView ==
  ASSUME RefsInv, Refs!ShowView
  PROVE  RefsInv'
  BY DEF Refs!ShowView, RefsInv, RefsType, Confirmed, Asked, Served, Drafted, SentFresh

LEMMA RefsTime ==
  ASSUME RefsInv, Refs!Time
  PROVE  RefsInv'
  <1> DEFINE aged(r) == [forms[r] EXCEPT !.age = @ + 1]
             keep(r) == forms[r] = None \/ ~forms[r].checked \/ forms[r].age > TTL
  <1>1. /\ forms' = [r \in Rewards |-> IF keep(r) THEN forms[r] ELSE aged(r)]
        /\ left' = left /\ drafts' = drafts
        /\ visible' = visible /\ draws' = draws /\ asking' = asking /\ releases' = releases
        /\ released' = released /\ sent' = sent
    BY DEF Refs!Time
  <1>2. ASSUME NEW r \in Rewards
        PROVE  /\ forms'[r] \in Form \cup {None}
               /\ forms[r] # None => /\ forms'[r] \in Form
                                     /\ forms'[r].ready = forms[r].ready
                                     /\ forms'[r].done = forms[r].done
                                     /\ forms'[r].evidence = forms[r].evidence
                                     /\ forms'[r].checked = forms[r].checked
               /\ forms[r] = None => forms'[r] = None
    <2>1. CASE keep(r)
      <3>1. forms'[r] = forms[r]
        BY <1>1, <2>1
      <3> QED BY <3>1 DEF RefsInv, RefsType
    <2>2. CASE ~keep(r)
      <3>1. forms[r] \in Form /\ forms[r] # None
        BY <2>2 DEF RefsInv, RefsType
      <3>2. forms'[r] = aged(r)
        BY <1>1, <2>2
      <3> QED BY <3>1, <3>2, AgedForm
    <2> QED BY <2>1, <2>2
  <1>3. forms' \in [Rewards -> Form \cup {None}]
    BY <1>1, <1>2
  <1>4. Confirmed'
    BY <1>1, <1>2 DEF RefsInv, Confirmed
  <1>5. Drafted'
    BY <1>1, <1>2 DEF RefsInv, Drafted
  <1>6. RefsType' /\ Served' /\ SentFresh'
    BY <1>1, <1>3 DEF RefsInv, RefsType, Served, SentFresh
  <1>7. Asked'
    BY <1>1, <1>2, NoneIsNoForm DEF RefsInv, RefsType, Asked, Form
  <1> QED BY <1>4, <1>5, <1>6, <1>7 DEF RefsInv

LEMMA RefsSubmit ==
  ASSUME RefsInv, NEW r \in Rewards, Refs!Submit(r)
  PROVE  RefsInv'
  <1>1. /\ asking = None /\ forms[r] # None /\ forms[r].ready
        /\ left' = left /\ drafts' = drafts
        /\ visible' = visible /\ draws' = draws /\ releases' = releases
        /\ released' = released /\ sent' = sent
    BY DEF Refs!Submit, Refs!Usable
  <1>2. Served' /\ SentFresh'
    BY <1>1 DEF RefsInv, Served, SentFresh
  <1>3. CASE asking' = r /\ forms' = forms
    BY <1>1, <1>2, <1>3 DEF RefsInv, RefsType, Confirmed, Asked, Drafted
  <1>4. CASE forms' = [forms EXCEPT ![r] = Refs!Reset(@)] /\ asking' = asking
    <2>1. left' \in [Rewards -> BOOLEAN] /\ \A q \in Rewards \ {r} : left'[q] = left[q]
      BY <1>1 DEF RefsInv, RefsType
    <2>2. forms' \in [Rewards -> Form \cup {None}] /\ Confirmed' /\ Drafted'
      BY <1>1, <1>4, <2>1, OneReset
    <2> QED BY <1>1, <1>2, <1>4, <2>2 DEF RefsInv, RefsType, Asked
  <1> QED BY <1>3, <1>4 DEF Refs!Submit

LEMMA RefsAnswer ==
  ASSUME RefsInv, NEW yes \in BOOLEAN, Refs!Answer(yes)
  PROVE  RefsInv'
  <1> DEFINE f == forms[asking]
             g == [f EXCEPT !.enabled = FALSE]
  <1>1. /\ asking # None /\ asking' = None
        /\ left' = left /\ drafts' = drafts
        /\ visible' = visible /\ draws' = draws /\ released' = released
    BY DEF Refs!Answer
  <1>2. asking \in Rewards /\ f # None /\ f \in Form /\ f.ready
    BY <1>1 DEF RefsInv, RefsType, Asked
  <1>3. Asked'
    BY <1>1 DEF Asked
  <1>4. drafts' \in SUBSET Rewards /\ left' \in [Rewards -> BOOLEAN]
    BY <1>1 DEF RefsInv, RefsType
  <1>5. CASE yes /\ Refs!StillFresh(f)
    <2>1. /\ forms' = [forms EXCEPT ![asking] = g]
          /\ releases' = releases \cup {[reward |-> asking, draw |-> draws, served |-> FALSE]}
          /\ sent' = sent \cup {[age |-> f.age, left |-> left[asking], ready |-> f.ready]}
      BY <1>5 DEF Refs!Answer
    <2>2. f.checked /\ f.age <= TTL
      BY <1>5 DEF Refs!StillFresh, Refs!Fresh
    <2>3. g \in Form /\ g.checked = f.checked /\ g.done = f.done /\ g.evidence = f.evidence
      BY <1>2, DisabledForm
    <2>4. g # None => /\ g.checked => visible /\ ~left'[asking] /\ ~g.done
                      /\ ~g.done /\ asking \notin released => (g.evidence <=> asking \in drafts')
      <3> HIDE DEF g
      <3>1. g.checked => visible /\ ~left'[asking] /\ ~g.done
        BY <1>1, <1>2, <2>2, <2>3 DEF RefsInv, Confirmed
      <3>2. ~g.done /\ asking \notin released => (g.evidence <=> asking \in drafts')
        BY <1>1, <1>2, <2>3 DEF RefsInv, Drafted
      <3> QED BY <3>1, <3>2
    <2>5. forms' \in [Rewards -> Form \cup {None}] /\ Confirmed' /\ Drafted'
      <3> HIDE DEF g
      <3> QED BY <1>1, <1>2, <1>4, <2>1, <2>3, <2>4, OneForm
    <2>6. Served'
      BY <2>1, <1>1 DEF RefsInv, Served
    <2>7. SentFresh'
      <3>1. ~left[asking]
        BY <1>2, <2>2 DEF RefsInv, Confirmed
      <3> QED BY <1>2, <2>1, <2>2, <3>1 DEF RefsInv, SentFresh
    <2>8. RefsType'
      <3>1. asking \in Rewards /\ draws \in Int /\ releases \subseteq [reward : Rewards, draw : Int, served : BOOLEAN]
        BY <1>2 DEF RefsInv, RefsType
      <3>2. [reward |-> asking, draw |-> draws, served |-> FALSE] \in [reward : Rewards, draw : Int, served : BOOLEAN]
        BY <3>1
      <3>3. releases' = releases \cup {[reward |-> asking, draw |-> draws, served |-> FALSE]}
        BY <2>1
      <3>4. releases' \subseteq [reward : Rewards, draw : Int, served : BOOLEAN]
        BY <3>1, <3>2, <3>3
      <3> QED BY <1>1, <1>4, <2>5, <3>4 DEF RefsInv, RefsType
    <2> QED BY <1>3, <2>5, <2>6, <2>7, <2>8 DEF RefsInv
  <1>6. CASE ~(yes /\ Refs!StillFresh(f))
    <2>1. forms' = [forms EXCEPT ![asking] = Refs!Reset(@)] /\ releases' = releases /\ sent' = sent
      BY <1>6 DEF Refs!Answer
    <2>2. forms' \in [Rewards -> Form \cup {None}] /\ Confirmed' /\ Drafted'
      BY <1>1, <1>2, <1>4, <2>1, OneReset
    <2>3. RefsType' /\ Served' /\ SentFresh'
      BY <1>1, <1>4, <2>1, <2>2 DEF RefsInv, RefsType, Served, SentFresh
    <2> QED BY <1>3, <2>2, <2>3 DEF RefsInv
  <1> QED BY <1>5, <1>6

LEMMA RefsServe ==
  ASSUME RefsInv, Refs!Serve
  PROVE  RefsInv'
  <1>1. PICK c \in releases :
          /\ releases' = (releases \ {c}) \cup {[c EXCEPT !.served = TRUE]}
          /\ released' = released \cup {c.reward}
          /\ visible' = visible /\ forms' = forms /\ drafts' = drafts /\ draws' = draws
          /\ asking' = asking /\ left' = left /\ sent' = sent
    BY DEF Refs!Serve
  <1> DEFINE d == [c EXCEPT !.served = TRUE]
  <1>2. c \in [reward : Rewards, draw : Int, served : BOOLEAN]
    BY DEF RefsInv, RefsType
  <1>3. d \in [reward : Rewards, draw : Int, served : BOOLEAN] /\ d.reward = c.reward
    BY <1>2
  <1> HIDE DEF d
  <1>4. RefsType'
    BY <1>1, <1>3 DEF RefsInv, RefsType, d
  <1>5. Confirmed' /\ Asked' /\ SentFresh'
    BY <1>1 DEF RefsInv, Confirmed, Asked, SentFresh
  <1>6. Drafted'
    BY <1>1 DEF RefsInv, Drafted
  <1>7. Served'
    <2>1. releases' = (releases \ {c}) \cup {d}
      BY <1>1 DEF d
    <2> QED BY <1>1, <1>3, <2>1 DEF RefsInv, Served
  <1> QED BY <1>4, <1>5, <1>6, <1>7 DEF RefsInv

LEMMA RefsReleaseReply ==
  ASSUME RefsInv, Refs!ReleaseReply
  PROVE  RefsInv'
  <1>1. PICK c \in releases :
          /\ asking = None /\ c.served
          /\ releases' = releases \ {c}
          /\ drafts' = drafts \ {c.reward}
          /\ forms' = IF ~Refs!Connected(c) THEN forms
                      ELSE [forms EXCEPT ![c.reward] = [@ EXCEPT !.checked = FALSE, !.enabled = FALSE, !.done = TRUE]]
          /\ visible' = visible /\ draws' = draws /\ asking' = asking /\ released' = released
          /\ left' = left /\ sent' = sent
    BY DEF Refs!ReleaseReply
  <1> DEFINE f == forms[c.reward]
             g == [f EXCEPT !.checked = FALSE, !.enabled = FALSE, !.done = TRUE]
  <1>2. c.reward \in Rewards /\ c.reward \in released
    BY <1>1 DEF RefsInv, RefsType, Served
  <1>3. /\ drafts' \in SUBSET Rewards /\ left' \in [Rewards -> BOOLEAN]
        /\ \A q \in Rewards \ {c.reward} : q \in drafts' <=> q \in drafts
    BY <1>1 DEF RefsInv, RefsType
  <1>4. forms' \in [Rewards -> Form \cup {None}] /\ Confirmed' /\ Drafted'
    <2>1. CASE ~Refs!Connected(c)
      <3>1. forms' = forms
        BY <1>1, <2>1
      <3> QED BY <1>1, <1>2, <1>3, <3>1 DEF RefsInv, RefsType, Confirmed, Drafted
    <2>2. CASE Refs!Connected(c)
      <3>1. f \in Form
        BY <1>2, <2>2 DEF RefsInv, RefsType, Refs!Connected
      <3>2. g \in Form /\ g.done = TRUE /\ g.checked = FALSE
        BY <3>1, FinishedForm
      <3>3. forms' = [forms EXCEPT ![c.reward] = g]
        BY <1>1, <2>2
      <3> HIDE DEF g
      <3> QED BY <1>1, <1>2, <1>3, <3>2, <3>3, OneForm
    <2> QED BY <2>1, <2>2
  <1>5. RefsType' /\ Asked' /\ Served' /\ SentFresh'
    BY <1>1, <1>3, <1>4 DEF RefsInv, RefsType, Asked, Served, SentFresh
  <1> QED BY <1>4, <1>5 DEF RefsInv

LEMMA RefsReleaseFails ==
  ASSUME RefsInv, Refs!ReleaseFails
  PROVE  RefsInv'
  <1>1. PICK c \in releases :
          /\ asking = None
          /\ releases' = releases \ {c}
          /\ forms' = IF ~Refs!Connected(c) \/ forms[c.reward].done THEN forms
                      ELSE [forms EXCEPT ![c.reward] = Refs!Synced(@)]
          /\ visible' = visible /\ drafts' = drafts /\ draws' = draws /\ asking' = asking
          /\ released' = released /\ left' = left /\ sent' = sent
    BY DEF Refs!ReleaseFails
  <1> DEFINE f == forms[c.reward]
             g == Refs!Synced(f)
  <1>2. c.reward \in Rewards
    BY <1>1 DEF RefsInv, RefsType
  <1>3. drafts' \in SUBSET Rewards /\ left' \in [Rewards -> BOOLEAN]
    BY <1>1 DEF RefsInv, RefsType
  <1>4. forms' \in [Rewards -> Form \cup {None}] /\ Confirmed' /\ Drafted'
    <2>1. CASE forms' = forms
      BY <1>1, <1>3, <2>1 DEF RefsInv, RefsType, Confirmed, Drafted
    <2>2. CASE Refs!Connected(c) /\ forms' = [forms EXCEPT ![c.reward] = g]
      <3>1. f \in Form /\ f # None
        BY <1>2, <2>2 DEF RefsInv, RefsType, Refs!Connected
      <3>2. g \in Form /\ g.done = f.done /\ g.checked = f.checked /\ g.evidence = f.evidence
        BY <3>1, SyncedForm
      <3> HIDE DEF g
      <3>3. g.checked => visible /\ ~left'[c.reward] /\ ~g.done
        BY <1>1, <1>2, <3>1, <3>2 DEF RefsInv, Confirmed
      <3>4. ~g.done /\ c.reward \notin released => (g.evidence <=> c.reward \in drafts')
        BY <1>1, <1>2, <3>1, <3>2 DEF RefsInv, Drafted
      <3> QED BY <1>1, <1>2, <1>3, <2>2, <3>2, <3>3, <3>4, OneForm
    <2> QED BY <1>1, <2>1, <2>2
  <1>5. RefsType' /\ Asked' /\ Served' /\ SentFresh'
    BY <1>1, <1>3, <1>4 DEF RefsInv, RefsType, Asked, Served, SentFresh
  <1> QED BY <1>4, <1>5 DEF RefsInv

LEMMA RefsStep == RefsInv /\ Refs!Next => RefsInv'
  BY RefsDraw, RefsDrawError, RefsTypeEvidence, RefsConfirm, RefsLeaveForm, RefsExpire, RefsSubmit,
     RefsHideView, RefsShowView, RefsTime, RefsServe, RefsReleaseReply, RefsReleaseFails, RefsAnswer
  DEF Refs!Next

\* Releases rest on a fresh confirmation of the visible form, and the drafts
\* agree with the forms on the page (releaseAdminReferral, renderAdminReferrals),
\* for any number of rewards, draws and ticks.
THEOREM ReleasesAreConfirmed == Spec => []ReleaseConfirmed
  <1> DEFINE Inv == part = "referrals" => RefsInv
  <1>1. Init => Inv
    BY RefsInitially DEF Init
  <1>2. Inv /\ [Next]_vars => Inv'
    <2>1. CASE part = "referrals" /\ Refs!Next /\ part' = part
      BY <2>1, RefsStep
    <2>2. CASE UNCHANGED <<part, refsVars>>
      BY <2>2, RefsStutter
    <2>3. [Next]_vars => (part = "referrals" /\ Refs!Next /\ part' = part) \/ UNCHANGED <<part, refsVars>>
      BY DEF Next, vars
    <2> HIDE DEF Inv
    <2> QED BY <2>1, <2>2, <2>3 DEF Inv
  <1>3. Inv => ReleaseConfirmed
    BY DEF ReleaseConfirmed, Refs!ReleaseConfirmed, RefsInv, RefsType, Confirmed, Drafted, SentFresh
  <1> QED BY <1>1, <1>2, <1>3, PTL DEF Spec

-----------------------------------------------------------------------------
(* AdminWork *)

Scopes == Owners \cup {None}
Words == {"loading", "error", "problem"}
WorkLists == [busy : BOOLEAN, failed : BOOLEAN, version : Int]
Dialogs == [open : BOOLEAN, job : Jobs \cup {None}, version : Int, body : Jobs \cup {None, "error"}]

WorkType ==
  /\ owner \in Scopes
  /\ list \in WorkLists
  /\ trouble \in BOOLEAN
  /\ reads \subseteq [owner : Scopes, version : Int]
  /\ dialog \in Dialogs
  /\ details \subseteq [job : Jobs, version : Int]
  /\ fetches \subseteq [job : Jobs, version : Int]

\* The list says why it shows no rows, or shows the rows of the chosen scope.
DrawnRight ==
  /\ drawn \in Words \cup {None, Work!ScopeOf(owner)}
  /\ drawn = "loading" => list.busy
  /\ drawn = "problem" => trouble
  /\ drawn = "error" => list.failed

\* A busy list has a read on its way for the chosen scope.
BusyRead == list.busy => [owner |-> owner, version |-> list.version] \in reads

\* What is on its way for the dialog's version is about the dialog's lesson.
OneLesson ==
  /\ \A r \in details \cup fetches :
       r.version <= dialog.version /\ (r.version = dialog.version => r.job = dialog.job)
  /\ dialog.body \in Jobs => dialog.body = dialog.job

SavedShown == \A d \in saved : d.job = d.shown

WorkInv == WorkType /\ DrawnRight /\ BusyRead /\ OneLesson /\ SavedShown

LEMMA WorkInitially == Work!Init => WorkInv
  <1> SUFFICES ASSUME Work!Init PROVE WorkInv
    OBVIOUS
  <1>1. /\ owner = None /\ list = [busy |-> FALSE, failed |-> FALSE, version |-> 0] /\ trouble = FALSE
        /\ drawn = None /\ reads = {} /\ details = {} /\ fetches = {} /\ saved = {}
        /\ dialog = [open |-> FALSE, job |-> None, version |-> 0, body |-> None]
    BY DEF Work!Init
  <1>2. list \in WorkLists /\ list.busy = FALSE
    BY <1>1 DEF WorkLists
  <1>3. dialog \in Dialogs /\ dialog.body = None
    BY <1>1 DEF Dialogs
  <1>4. WorkType
    BY <1>1, <1>2, <1>3 DEF WorkType, Scopes
  <1>5. DrawnRight
    BY <1>1, WordsAreNoNames DEF DrawnRight, Words
  <1>6. BusyRead /\ OneLesson /\ SavedShown
    BY <1>1, <1>2, <1>3, WordsAreNoNames DEF BusyRead, OneLesson, SavedShown
  <1> QED BY <1>4, <1>5, <1>6 DEF WorkInv

LEMMA WorkStutter == WorkInv /\ UNCHANGED workVars => WorkInv'
  BY DEF workVars, WorkInv, WorkType, DrawnRight, BusyRead, OneLesson, SavedShown, Work!ScopeOf

\* Steps of the list leave the dialog alone.
LEMMA WorkListOnly ==
  ASSUME WorkInv, UNCHANGED <<dialog, details, fetches, saved>>,
         owner' \in Scopes, list' \in WorkLists,
         trouble' \in BOOLEAN, reads' \subseteq [owner : Scopes, version : Int],
         DrawnRight', BusyRead'
  PROVE  WorkInv'
  BY DEF WorkInv, WorkType, OneLesson, SavedShown

\* Steps of the dialog leave the list alone.
LEMMA WorkDialogOnly ==
  ASSUME WorkInv, UNCHANGED <<owner, list, scoped, known, trouble, drawn, reads, general>>,
         dialog' \in Dialogs,
         details' \subseteq [job : Jobs, version : Int], fetches' \subseteq [job : Jobs, version : Int],
         OneLesson', SavedShown'
  PROVE  WorkInv'
  BY DEF WorkInv, WorkType, DrawnRight, BusyRead, Work!ScopeOf

\* refreshAdminWorkList for the scope that is chosen.
LEMMA WorkRefreshed ==
  ASSUME WorkInv, NEW o \in Scopes, Work!RefreshWorkList(o)
  PROVE  /\ list' \in WorkLists /\ list'.busy
         /\ reads' \subseteq [owner : Scopes, version : Int]
         /\ [owner |-> o, version |-> list'.version] \in reads'
         /\ drawn' = "loading"
  <1>1. list.version + 1 \in Int /\ reads \subseteq [owner : Scopes, version : Int]
    BY DEF WorkInv, WorkType, WorkLists
  <1>2. [owner |-> o, version |-> list.version + 1] \in [owner : Scopes, version : Int]
    BY <1>1
  <1>3. list' = [busy |-> TRUE, failed |-> FALSE, version |-> list.version + 1]
    BY DEF Work!RefreshWorkList
  <1>4. list' \in WorkLists /\ list'.busy /\ list'.version = list.version + 1
    BY <1>1, <1>3 DEF WorkLists
  <1> QED BY <1>1, <1>2, <1>4 DEF Work!RefreshWorkList

LEMMA WorkShow ==
  ASSUME WorkInv, NEW o \in Scopes, Work!ShowUserWork(o)
  PROVE  WorkInv'
  <1>1. /\ owner' = o /\ trouble' = trouble /\ Work!RefreshWorkList(o)
        /\ UNCHANGED <<dialog, details, fetches, saved>>
    BY DEF Work!ShowUserWork
  <1>2. DrawnRight' /\ BusyRead'
    BY <1>1, WorkRefreshed DEF DrawnRight, BusyRead, Words
  <1> QED BY <1>1, <1>2, WorkRefreshed, WorkListOnly DEF WorkInv, WorkType

\* An answer takes the list out of its busy state.
LEMMA WorkAnswered ==
  ASSUME NEW l \in WorkLists, NEW f \in BOOLEAN, NEW m, m = [l EXCEPT !.busy = FALSE, !.failed = f]
  PROVE  m = [busy |-> FALSE, failed |-> f, version |-> l.version]
  BY DEF WorkLists

LEMMA WorkListReply ==
  ASSUME WorkInv, Work!ListReply
  PROVE  WorkInv'
  <1>1. PICK r \in reads :
          /\ reads' = reads \ {r}
          /\ IF Work!Newest(r)
             THEN /\ list' = [list EXCEPT !.busy = FALSE, !.failed = FALSE]
                  /\ scoped' = IF r.owner = None THEN scoped ELSE r.owner
                  /\ trouble' = FALSE
                  /\ drawn' = Work!Drawing(list', owner, scoped', drawn, TRUE)
             ELSE UNCHANGED <<list, scoped, trouble, drawn>>
          /\ owner' = owner /\ UNCHANGED <<dialog, details, fetches, saved>>
    BY DEF Work!ListReply
  <1>2. r \in [owner : Scopes, version : Int] /\ reads' \subseteq [owner : Scopes, version : Int]
    BY <1>1 DEF WorkInv, WorkType
  <1>3. CASE Work!Newest(r)
    <2>1. list \in WorkLists /\ list' = [list EXCEPT !.busy = FALSE, !.failed = FALSE]
      BY <1>1, <1>3 DEF WorkInv, WorkType
    <2>2. list' = [busy |-> FALSE, failed |-> FALSE, version |-> list.version]
      BY <2>1, WorkAnswered
    <2>3. list' \in WorkLists /\ list'.busy = FALSE /\ list'.failed = FALSE
      BY <2>1, <2>2 DEF WorkLists
    <2>4. drawn' = Work!ScopeOf(owner)
      BY <1>1, <1>3, <2>3 DEF Work!Newest, Work!Drawing, Work!ScopeOf, Work!Everybody
    <2>5. Work!ScopeOf(owner) \notin Words
      BY WordsAreNoNames DEF Work!ScopeOf, Work!Everybody, Words, WorkInv, WorkType, Scopes
    <2>6. DrawnRight' /\ BusyRead'
      BY <1>1, <2>3, <2>4, <2>5 DEF DrawnRight, BusyRead, Words, Work!ScopeOf
    <2> QED BY <1>1, <1>2, <1>3, <2>3, <2>6, WorkListOnly DEF WorkInv, WorkType
  <1>4. CASE ~Work!Newest(r)
    <2>1. UNCHANGED <<list, trouble, drawn, owner>>
      BY <1>1, <1>4
    <2>2. DrawnRight'
      BY <2>1 DEF WorkInv, DrawnRight, Work!ScopeOf
    <2>3. BusyRead'
      BY <1>1, <1>4, <2>1 DEF WorkInv, BusyRead, Work!Newest
    <2> QED BY <1>1, <1>2, <2>1, <2>2, <2>3, WorkListOnly DEF WorkInv, WorkType
  <1> QED BY <1>3, <1>4

LEMMA WorkListFails ==
  ASSUME WorkInv, Work!ListFails
  PROVE  WorkInv'
  <1>1. PICK r \in reads :
          /\ reads' = reads \ {r}
          /\ IF r.version = list.version
             THEN list' = [list EXCEPT !.busy = FALSE, !.failed = TRUE] /\ drawn' = "error"
             ELSE UNCHANGED <<list, drawn>>
          /\ UNCHANGED <<owner, trouble>> /\ UNCHANGED <<dialog, details, fetches, saved>>
    BY DEF Work!ListFails
  <1>2. reads' \subseteq [owner : Scopes, version : Int]
    BY <1>1 DEF WorkInv, WorkType
  <1>3. CASE r.version = list.version
    <2>1. list \in WorkLists /\ list' = [list EXCEPT !.busy = FALSE, !.failed = TRUE]
      BY <1>1, <1>3 DEF WorkInv, WorkType
    <2>2. list' = [busy |-> FALSE, failed |-> TRUE, version |-> list.version]
      BY <2>1, WorkAnswered
    <2>3. list' \in WorkLists /\ list'.busy = FALSE /\ list'.failed = TRUE
      BY <2>1, <2>2 DEF WorkLists
    <2>4. DrawnRight' /\ BusyRead'
      BY <1>1, <1>3, <2>3 DEF DrawnRight, BusyRead, Words
    <2> QED BY <1>1, <1>2, <2>3, <2>4, WorkListOnly DEF WorkInv, WorkType
  <1>4. CASE r.version # list.version
    <2>1. DrawnRight'
      BY <1>1, <1>4 DEF WorkInv, DrawnRight, Work!ScopeOf
    <2>2. BusyRead'
      BY <1>1, <1>4 DEF WorkInv, BusyRead
    <2> QED BY <1>1, <1>2, <1>4, <2>1, <2>2, WorkListOnly DEF WorkInv, WorkType
  <1> QED BY <1>3, <1>4

LEMMA WorkGeneralStart ==
  ASSUME WorkInv, Work!GeneralStart
  PROVE  WorkInv'
  BY DEF Work!GeneralStart, WorkInv, WorkType, DrawnRight, BusyRead, OneLesson, SavedShown, Work!ScopeOf

LEMMA WorkGeneralReply ==
  ASSUME WorkInv, Work!GeneralReply
  PROVE  WorkInv'
  <1>1. /\ trouble' = FALSE /\ owner' = owner /\ UNCHANGED <<dialog, details, fetches, saved>>
        /\ owner \in Scopes /\ list \in WorkLists /\ reads \subseteq [owner : Scopes, version : Int]
    BY DEF Work!GeneralReply, WorkInv, WorkType
  <1>2. CASE owner # None
    <2>1. Work!RefreshWorkList(owner)
      BY <1>2 DEF Work!GeneralReply
    <2>2. DrawnRight' /\ BusyRead'
      BY <1>1, <2>1, WorkRefreshed DEF DrawnRight, BusyRead, Words
    <2> QED BY <1>1, <2>1, <2>2, WorkRefreshed, WorkListOnly
  <1>3. CASE owner = None /\ general = list.version
    <2>1. /\ list' = [busy |-> FALSE, failed |-> FALSE, version |-> list.version + 1]
          /\ drawn' = Work!Everybody /\ reads' = reads
      BY <1>3 DEF Work!GeneralReply
    <2>2. list' \in WorkLists /\ list'.busy = FALSE
      BY <1>1, <2>1 DEF WorkLists
    <2>3. DrawnRight' /\ BusyRead'
      BY <1>1, <1>3, <2>1, <2>2 DEF DrawnRight, BusyRead, Words, Work!Everybody, Work!ScopeOf
    <2> QED BY <1>1, <2>1, <2>2, <2>3, WorkListOnly
  <1>4. CASE owner = None /\ general # list.version
    <2>1. drawn' = Work!Drawing(list, owner, scoped, drawn, TRUE) /\ list' = list /\ reads' = reads
      BY <1>4 DEF Work!GeneralReply
    <2>2. DrawnRight' /\ BusyRead'
      BY <1>1, <1>4, <2>1 DEF WorkInv, DrawnRight, BusyRead, Words, Work!Drawing, Work!Everybody, Work!ScopeOf
    <2> QED BY <1>1, <2>1, <2>2, WorkListOnly
  <1> QED BY <1>2, <1>3, <1>4

LEMMA WorkGeneralFails ==
  ASSUME WorkInv, Work!GeneralFails
  PROVE  WorkInv'
  <1>1. /\ trouble' = TRUE /\ drawn' = "problem" /\ UNCHANGED <<owner, list, reads>>
        /\ UNCHANGED <<dialog, details, fetches, saved>>
    BY DEF Work!GeneralFails
  <1>2. DrawnRight' /\ BusyRead'
    BY <1>1 DEF WorkInv, DrawnRight, BusyRead, Words
  <1> QED BY <1>1, <1>2, WorkListOnly DEF WorkInv, WorkType

LEMMA WorkOpenJob ==
  ASSUME WorkInv, NEW j \in Jobs, Work!OpenJob(j)
  PROVE  WorkInv'
  <1> DEFINE r == [job |-> j, version |-> dialog.version + 1]
  <1>1. /\ dialog' = [open |-> TRUE, job |-> j, version |-> dialog.version + 1, body |-> None]
        /\ details' = details \cup {r} /\ fetches' = fetches /\ saved' = saved
        /\ UNCHANGED <<owner, list, scoped, known, trouble, drawn, reads, general>>
    BY DEF Work!OpenJob
  <1>2. /\ dialog.version \in Int /\ details \subseteq [job : Jobs, version : Int]
        /\ fetches \subseteq [job : Jobs, version : Int]
    BY DEF WorkInv, WorkType, Dialogs
  <1>3. r \in [job : Jobs, version : Int] /\ r.job = j /\ r.version = dialog.version + 1
    BY <1>2
  <1>4. /\ dialog' \in Dialogs /\ dialog'.job = j /\ dialog'.version = dialog.version + 1
        /\ dialog'.body = None
    BY <1>1, <1>2 DEF Dialogs
  <1> HIDE DEF r
  <1>5. OneLesson'
    <2>1. \A q \in details \cup fetches : q.version \in Int /\ q.version <= dialog.version
      BY <1>2 DEF WorkInv, OneLesson
    <2> QED BY <1>1, <1>2, <1>3, <1>4, <2>1, WordsAreNoNames DEF OneLesson
  <1>6. SavedShown'
    BY <1>1 DEF WorkInv, SavedShown
  <1> QED BY <1>1, <1>2, <1>3, <1>4, <1>5, <1>6, WorkDialogOnly

LEMMA WorkCloseJob ==
  ASSUME WorkInv, Work!CloseJob
  PROVE  WorkInv'
  <1>1. /\ dialog' = [dialog EXCEPT !.open = FALSE] /\ UNCHANGED <<details, fetches, saved>>
        /\ UNCHANGED <<owner, list, scoped, known, trouble, drawn, reads, general>>
    BY DEF Work!CloseJob
  <1>2. dialog \in Dialogs
    BY DEF WorkInv, WorkType
  <1>3. /\ dialog' \in Dialogs /\ dialog'.job = dialog.job /\ dialog'.version = dialog.version
        /\ dialog'.body = dialog.body
    BY <1>1, <1>2 DEF Dialogs
  <1>4. OneLesson' /\ SavedShown'
    BY <1>1, <1>3 DEF WorkInv, OneLesson, SavedShown
  <1> QED BY <1>1, <1>3, <1>4, WorkDialogOnly DEF WorkInv, WorkType

LEMMA WorkDetailReply ==
  ASSUME WorkInv, NEW ok \in BOOLEAN, Work!DetailReply(ok)
  PROVE  WorkInv'
  <1>1. PICK r \in details :
          /\ details' = details \ {r} /\ UNCHANGED <<fetches, saved>>
          /\ dialog' = IF Work!Wanted(r) THEN [dialog EXCEPT !.body = IF ok THEN r.job ELSE "error"] ELSE dialog
          /\ UNCHANGED <<owner, list, scoped, known, trouble, drawn, reads, general>>
    BY DEF Work!DetailReply
  <1>2. dialog \in Dialogs /\ r.job \in Jobs
    BY DEF WorkInv, WorkType
  <1>3. CASE Work!Wanted(r)
    <2> DEFINE b == IF ok THEN r.job ELSE "error"
    <2>1. r.job = dialog.job
      BY <1>3 DEF Work!Wanted, WorkInv, OneLesson
    <2>2. b \in Jobs \cup {None, "error"} /\ (b \in Jobs => b = dialog.job)
      BY <1>2, <2>1, WordsAreNoNames
    <2>3. dialog' = [dialog EXCEPT !.body = b]
      BY <1>1, <1>3
    <2> HIDE DEF b
    <2>4. /\ dialog' \in Dialogs /\ dialog'.job = dialog.job /\ dialog'.version = dialog.version
          /\ dialog'.body = b
      BY <1>2, <2>2, <2>3 DEF Dialogs
    <2>5. OneLesson' /\ SavedShown'
      BY <1>1, <2>2, <2>4 DEF WorkInv, OneLesson, SavedShown
    <2> QED BY <1>1, <2>4, <2>5, WorkDialogOnly DEF WorkInv, WorkType
  <1>4. CASE ~Work!Wanted(r)
    <2>1. OneLesson' /\ SavedShown'
      BY <1>1, <1>4 DEF WorkInv, OneLesson, SavedShown
    <2> QED BY <1>1, <1>2, <1>4, <2>1, WorkDialogOnly DEF WorkInv, WorkType
  <1> QED BY <1>3, <1>4

LEMMA WorkDownload ==
  ASSUME WorkInv, Work!Download
  PROVE  WorkInv'
  <1> DEFINE r == [job |-> dialog.body, version |-> dialog.version]
  <1>1. /\ dialog.body \in Jobs /\ fetches' = fetches \cup {r} /\ UNCHANGED <<dialog, details, saved>>
        /\ UNCHANGED <<owner, list, scoped, known, trouble, drawn, reads, general>>
    BY DEF Work!Download
  <1>2. dialog.version \in Int
    BY DEF WorkInv, WorkType, Dialogs
  <1>3. r \in [job : Jobs, version : Int] /\ r.version = dialog.version /\ r.job = dialog.body
    BY <1>1, <1>2
  <1> HIDE DEF r
  <1>4. OneLesson' /\ SavedShown'
    BY <1>1, <1>2, <1>3 DEF WorkInv, OneLesson, SavedShown
  <1> QED BY <1>1, <1>3, <1>4, WorkDialogOnly DEF WorkInv, WorkType

LEMMA WorkDownloadReply ==
  ASSUME WorkInv, NEW ok \in BOOLEAN, Work!DownloadReply(ok)
  PROVE  WorkInv'
  <1>1. PICK r \in fetches :
          /\ fetches' = fetches \ {r} /\ UNCHANGED <<dialog, details>>
          /\ saved' = IF ok /\ Work!Wanted(r) THEN saved \cup {[job |-> r.job, shown |-> dialog.job]} ELSE saved
          /\ UNCHANGED <<owner, list, scoped, known, trouble, drawn, reads, general>>
    BY DEF Work!DownloadReply
  <1>2. Work!Wanted(r) => r.job = dialog.job
    BY DEF Work!Wanted, WorkInv, OneLesson
  <1>3. SavedShown'
    BY <1>1, <1>2 DEF WorkInv, SavedShown
  <1>4. OneLesson'
    BY <1>1 DEF WorkInv, OneLesson
  <1> QED BY <1>1, <1>3, <1>4, WorkDialogOnly DEF WorkInv, WorkType

LEMMA WorkReset ==
  ASSUME WorkInv, Work!ResetWork
  PROVE  WorkInv'
  <1>1. /\ owner' = None /\ trouble' = FALSE /\ drawn' = None
        /\ list' = [busy |-> FALSE, failed |-> FALSE, version |-> list.version + 1]
        /\ reads' = {} /\ details' = {} /\ fetches' = {} /\ saved' = saved
        /\ dialog' = [open |-> FALSE, job |-> None, version |-> dialog.version + 1, body |-> None]
    BY DEF Work!ResetWork
  <1>2. dialog.version \in Int /\ list.version \in Int
    BY DEF WorkInv, WorkType, Dialogs, WorkLists
  <1>3. list' \in WorkLists /\ list'.busy = FALSE
    BY <1>1, <1>2 DEF WorkLists
  <1>4. dialog' \in Dialogs /\ dialog'.body = None
    BY <1>1, <1>2 DEF Dialogs
  <1>5. WorkType'
    BY <1>1, <1>3, <1>4 DEF WorkType, Scopes
  <1>6. DrawnRight' /\ BusyRead' /\ OneLesson' /\ SavedShown'
    BY <1>1, <1>3, <1>4, WordsAreNoNames DEF DrawnRight, BusyRead, OneLesson, SavedShown, Words, WorkInv
  <1> QED BY <1>5, <1>6 DEF WorkInv

LEMMA WorkStep == WorkInv /\ Work!Next => WorkInv'
  BY WorkShow, WorkListReply, WorkListFails, WorkGeneralStart, WorkGeneralReply, WorkGeneralFails, WorkOpenJob,
     WorkCloseJob, WorkDownload, WorkReset, WorkDetailReply, WorkDownloadReply
  DEF Work!Next, Scopes

\* The list and the dialog are about the owner and the lesson chosen last, and
\* a busy list always has its read on the way (admin-work.js), for any number of
\* owners, lessons, reads and openings.
THEOREM WorkStaysScoped == Spec => []WorkScoped
  <1> DEFINE Inv == part = "work" => WorkInv
  <1>1. Init => Inv
    BY WorkInitially DEF Init
  <1>2. Inv /\ [Next]_vars => Inv'
    <2>1. CASE part = "work" /\ Work!Next /\ part' = part
      BY <2>1, WorkStep
    <2>2. CASE UNCHANGED <<part, workVars>>
      BY <2>2, WorkStutter
    <2>3. [Next]_vars => (part = "work" /\ Work!Next /\ part' = part) \/ UNCHANGED <<part, workVars>>
      BY DEF Next, vars
    <2> HIDE DEF Inv
    <2> QED BY <2>1, <2>2, <2>3 DEF Inv
  <1>3. Inv => WorkScoped
    <2> SUFFICES ASSUME WorkInv PROVE Work!WorkScoped
      BY DEF WorkScoped
    <2>1. /\ drawn \in Owners \cup {Work!Everybody} => drawn = Work!ScopeOf(owner)
          /\ drawn # "empty"
      BY WordsAreNoNames DEF WorkInv, WorkType, DrawnRight, Words, Scopes, Work!ScopeOf, Work!Everybody
    <2>2. list.busy => \E r \in reads : Work!Newest(r)
      BY DEF WorkInv, BusyRead, Work!Newest
    <2> QED BY <2>1, <2>2 DEF Work!WorkScoped, WorkInv, DrawnRight, OneLesson, SavedShown
  <1> QED BY <1>1, <1>2, <1>3, PTL DEF Spec

-----------------------------------------------------------------------------
(* AdminDesk *)

Contacts == [open : BOOLEAN, version : Int, body : Messages \cup {None, "error"}, form : Nat,
             draft : Messages \cup {None}]
DeskCalls == [do : {"read", "send", "status", "delete"}, msg : Messages, version : Int, form : Nat,
              draft : Messages \cup {None}]

ContactType == contact \in Contacts /\ wanted \in Messages \cup {None} /\ deskCalls \subseteq DeskCalls

\* An open dialog without a form shows no conversation; with one it shows the
\* conversation opened last, and a draft that was written for it.
DialogRight ==
  contact.open =>
    IF contact.form = Desk!NoForm THEN contact.body \notin Messages
    ELSE contact.body = wanted /\ contact.body \in Messages /\ contact.draft \in {None, contact.body}

\* Calls of the dialog's present version are about the conversation opened last;
\* each carries a draft for its own message, and what comes from a form says so.
CallsRight ==
  \A c \in deskCalls :
    /\ c.version <= contact.version
    /\ c.version = contact.version => c.msg = wanted
    /\ c.do = "read" => c.draft \in {None, c.msg}
    /\ c.do = "read" /\ c.version = contact.version => contact.form = Desk!NoForm
    /\ c.do = "send" => c.draft = c.msg
    /\ c.do \in {"send", "status"} => c.form # Desk!NoForm

\* A version of the dialog is read once.
OneRead ==
  \A c, d \in deskCalls : c.do = "read" /\ d.do = "read" /\ c.version = d.version => c = d

\* An edit that was made in the record's form is about the record's user.
EditsRight ==
  /\ userForms \in Int /\ edits \subseteq [user : Users, form : Int, closing : BOOLEAN]
  /\ record # None => record \in [user : Users, form : Int] /\ record.form <= userForms
  /\ \A e \in edits : e.form <= userForms /\ (record # None /\ e.form = record.form => e.user = record.user)
  /\ broken = FALSE

TalkInv == ContactType /\ DialogRight /\ CallsRight /\ OneRead /\ astray = FALSE

LEMMA DeskInitially == Desk!Init => TalkInv /\ EditsRight
  <1> SUFFICES ASSUME Desk!Init PROVE TalkInv /\ EditsRight
    OBVIOUS
  <1>1. /\ contact = [open |-> FALSE, version |-> 0, body |-> None, form |-> Desk!NoForm, draft |-> None]
        /\ wanted = None /\ deskCalls = {} /\ astray = FALSE
        /\ record = None /\ userForms = 0 /\ edits = {} /\ broken = FALSE
    BY DEF Desk!Init
  <1>2. contact \in Contacts /\ contact.open = FALSE
    BY <1>1 DEF Contacts, Desk!NoForm
  <1>3. TalkInv
    BY <1>1, <1>2 DEF TalkInv, ContactType, DialogRight, CallsRight, OneRead
  <1>4. EditsRight
    BY <1>1 DEF EditsRight
  <1> QED BY <1>3, <1>4

LEMMA TalkStutter ==
  ASSUME TalkInv, UNCHANGED <<contact, wanted, deskCalls, astray>>
  PROVE  TalkInv'
  BY DEF TalkInv, ContactType, DialogRight, CallsRight, OneRead, Desk!NoForm

LEMMA EditsStutter ==
  ASSUME EditsRight, UNCHANGED <<record, userForms, edits, broken>>
  PROVE  EditsRight'
  BY DEF EditsRight

\* A call that leaves the queue disturbs nothing else.
LEMMA CallGone ==
  ASSUME TalkInv, NEW c, deskCalls' = deskCalls \ {c}, UNCHANGED <<contact, wanted, astray>>
  PROVE  TalkInv'
  BY DEF TalkInv, ContactType, DialogRight, CallsRight, OneRead, Desk!NoForm

LEMMA DrawnIs ==
  ASSUME NEW k \in Contacts, NEW m, NEW d, NEW g, g = Desk!Drawn(k, m, d)
  PROVE  g = [open |-> k.open, version |-> k.version, body |-> m, form |-> k.form + 1, draft |-> d]
  BY DEF Contacts, Desk!Drawn

LEMMA ClosedIs ==
  ASSUME NEW k \in Contacts, NEW g, g = Desk!Closed(k)
  PROVE  g = [open |-> FALSE, version |-> k.version + 1, body |-> k.body, form |-> k.form, draft |-> k.draft]
  BY DEF Contacts, Desk!Closed

\* renderContactConversation draws the conversation opened last.
LEMMA TalkDrawn ==
  ASSUME TalkInv, contact.open, NEW c \in deskCalls, c.version = contact.version,
         NEW d \in {None, c.msg}, contact' = Desk!Drawn(contact, c.msg, d),
         c.do = "read" \/ contact.form # Desk!NoForm,
         deskCalls' = deskCalls \ {c}, wanted' = wanted, astray' = astray
  PROVE  TalkInv'
  <1>1. contact \in Contacts /\ c \in DeskCalls /\ c.msg = wanted /\ c.msg \in Messages
    BY DEF TalkInv, ContactType, CallsRight, DeskCalls
  <1>2. contact' = [open |-> contact.open, version |-> contact.version, body |-> c.msg, form |-> contact.form + 1, draft |-> d]
    BY <1>1, DrawnIs
  <1>3. contact.open \in BOOLEAN /\ contact.version \in Int /\ contact.form \in Nat /\ d \in Messages \cup {None}
    BY <1>1 DEF Contacts
  <1>4. /\ contact' \in Contacts /\ contact'.version = contact.version /\ contact'.body = c.msg
        /\ contact'.form = contact.form + 1 /\ contact'.draft = d
    <2>1. contact.form + 1 \in Nat /\ c.msg \in Messages \cup {None, "error"}
      BY <1>1, <1>3
    <2>2. contact' \in Contacts
      BY <1>2, <1>3, <2>1 DEF Contacts
    <2> QED BY <1>2, <2>2
  <1>5. ContactType'
    BY <1>4 DEF TalkInv, ContactType
  <1>6. DialogRight'
    BY <1>1, <1>3, <1>4 DEF DialogRight, Desk!NoForm
  <1>7. \A e \in deskCalls' : ~(e.do = "read" /\ e.version = contact.version)
    BY DEF TalkInv, CallsRight, OneRead
  <1>8. CallsRight'
    BY <1>4, <1>7 DEF TalkInv, CallsRight
  <1>9. OneRead' /\ astray' = FALSE
    BY DEF TalkInv, OneRead
  <1> QED BY <1>5, <1>6, <1>8, <1>9 DEF TalkInv

\* openContactConversation starts a version of its own.
LEMMA TalkOpening ==
  ASSUME TalkInv, NEW m \in Messages, NEW d \in {None, m}, NEW others \in SUBSET deskCalls,
         Desk!Opening(m, d, others), wanted' = m, astray' = astray
  PROVE  TalkInv'
  <1> DEFINE n == Desk!Call("read", m, contact.version + 1, d)
  <1>1. /\ contact' = [open |-> TRUE, version |-> contact.version + 1, body |-> None, form |-> Desk!NoForm, draft |-> None]
        /\ deskCalls' = others \cup {n}
    BY DEF Desk!Opening
  <1>2. contact \in Contacts /\ contact.version \in Int /\ contact.form \in Nat
    BY DEF TalkInv, ContactType, Contacts
  <1>3. n = [do |-> "read", msg |-> m, version |-> contact.version + 1, form |-> contact.form, draft |-> d]
    BY DEF Desk!Call
  <1>4. /\ n \in DeskCalls /\ n.do = "read" /\ n.msg = m /\ n.version = contact.version + 1 /\ n.draft = d
    BY <1>2, <1>3 DEF DeskCalls
  <1>5. /\ contact' \in Contacts /\ contact'.version = contact.version + 1 /\ contact'.form = Desk!NoForm
        /\ contact'.body = None
    BY <1>1, <1>2 DEF Contacts, Desk!NoForm
  <1>6. \A c \in deskCalls : c.version \in Int /\ c.version <= contact.version
    BY DEF TalkInv, ContactType, CallsRight, DeskCalls
  <1> HIDE DEF n
  <1>7. ContactType'
    BY <1>1, <1>4, <1>5 DEF TalkInv, ContactType
  <1>8. DialogRight'
    BY <1>5, WordsAreNoNames DEF DialogRight
  <1>9. CallsRight'
    <2>1. \A c \in others : /\ c.version <= contact.version + 1 /\ c.version # contact.version + 1
      BY <1>2, <1>6
    <2> QED BY <1>1, <1>2, <1>4, <1>5, <2>1 DEF TalkInv, CallsRight
  <1>10. OneRead'
    BY <1>1, <1>2, <1>4, <1>6 DEF TalkInv, OneRead
  <1> QED BY <1>7, <1>8, <1>9, <1>10 DEF TalkInv

\* A closed dialog has a version that nothing on its way has.
LEMMA TalkClosed ==
  ASSUME TalkInv, contact' = Desk!Closed(contact), deskCalls' \subseteq deskCalls, wanted' = wanted, astray' = astray
  PROVE  TalkInv'
  <1>1. contact \in Contacts /\ contact.version \in Int
    BY DEF TalkInv, ContactType, Contacts
  <1>2. contact' = [open |-> FALSE, version |-> contact.version + 1, body |-> contact.body, form |-> contact.form, draft |-> contact.draft]
    BY <1>1, ClosedIs
  <1>3. contact' \in Contacts /\ contact'.open = FALSE /\ contact'.version = contact.version + 1
    BY <1>1, <1>2 DEF Contacts
  <1>4. \A c \in deskCalls : c.version \in Int /\ c.version <= contact.version
    BY DEF TalkInv, ContactType, CallsRight, DeskCalls
  <1>5. \A c \in deskCalls : c.version <= contact.version + 1 /\ c.version # contact.version + 1
    BY <1>1, <1>4
  <1>6. ContactType' /\ DialogRight' /\ OneRead'
    BY <1>3 DEF TalkInv, ContactType, DialogRight, OneRead
  <1>7. CallsRight'
    BY <1>3, <1>5 DEF TalkInv, CallsRight
  <1> QED BY <1>6, <1>7 DEF TalkInv

\* A call made from the form that is shown.
LEMMA TalkCalls ==
  ASSUME TalkInv, Desk!Shows, NEW what \in {"send", "status", "delete"}, NEW d \in {None, contact.body},
         what = "send" => d # None,
         deskCalls' = deskCalls \cup {Desk!Call(what, contact.body, contact.version, d)},
         UNCHANGED <<contact, wanted, astray>>
  PROVE  TalkInv'
  <1> DEFINE n == Desk!Call(what, contact.body, contact.version, d)
  <1>1. /\ contact \in Contacts /\ contact.version \in Int /\ contact.form \in Nat
        /\ contact.body = wanted /\ contact.body \in Messages /\ contact.form # Desk!NoForm
    BY DEF TalkInv, ContactType, Contacts, DialogRight, Desk!Shows
  <1>2. n = [do |-> what, msg |-> contact.body, version |-> contact.version, form |-> contact.form, draft |-> d]
    BY DEF Desk!Call
  <1>3. /\ n \in DeskCalls /\ n.do = what /\ n.msg = contact.body /\ n.version = contact.version /\ n.draft = d
        /\ n.form = contact.form
    BY <1>1, <1>2 DEF DeskCalls
  <1> HIDE DEF n
  <1>4. deskCalls' = deskCalls \cup {n} /\ n.do # "read"
    BY <1>3 DEF n
  <1>5. ContactType' /\ DialogRight'
    BY <1>3, <1>4 DEF TalkInv, ContactType, DialogRight
  <1>6. CallsRight'
    BY <1>1, <1>3, <1>4 DEF TalkInv, CallsRight
  <1>7. OneRead'
    BY <1>4 DEF TalkInv, OneRead
  <1> QED BY <1>5, <1>6, <1>7 DEF TalkInv

LEMMA DeskOpenContact ==
  ASSUME TalkInv, NEW m \in Messages, Desk!OpenContact(m)
  PROVE  TalkInv'
  BY TalkOpening DEF Desk!OpenContact

LEMMA DeskReadReply ==
  ASSUME TalkInv, NEW ok \in BOOLEAN, Desk!ReadReply(ok)
  PROVE  TalkInv'
  <1>1. PICK c \in deskCalls :
          /\ c.do = "read" /\ deskCalls' = deskCalls \ {c}
          /\ contact' = IF ~Desk!Unchanged(c) THEN contact
                        ELSE IF ok THEN Desk!Drawn(contact, c.msg, c.draft)
                        ELSE [contact EXCEPT !.body = "error"]
          /\ UNCHANGED <<wanted, astray>>
    BY DEF Desk!ReadReply
  <1>2. CASE ~Desk!Unchanged(c)
    BY <1>1, <1>2, CallGone
  <1>3. CASE Desk!Unchanged(c) /\ ok
    <2>1. contact.open /\ c.version = contact.version /\ c.draft \in {None, c.msg}
      BY <1>1, <1>3 DEF Desk!Unchanged, TalkInv, CallsRight
    <2> QED BY <1>1, <1>3, <2>1, TalkDrawn
  <1>4. CASE Desk!Unchanged(c) /\ ~ok
    <2>1. contact \in Contacts /\ contact' = [contact EXCEPT !.body = "error"]
      BY <1>1, <1>4 DEF TalkInv, ContactType
    <2>2. contact' \in Contacts
      BY <2>1 DEF Contacts
    <2>3. /\ contact'.open = contact.open /\ contact'.version = contact.version /\ contact'.form = contact.form
          /\ contact'.body = "error"
      BY <2>1 DEF Contacts
    <2>4. contact.form = Desk!NoForm
      BY <1>1, <1>4 DEF Desk!Unchanged, TalkInv, CallsRight
    <2>5. ContactType' /\ OneRead'
      BY <1>1, <2>2 DEF TalkInv, ContactType, OneRead
    <2>6. DialogRight'
      BY <2>3, <2>4, WordsAreNoNames DEF DialogRight, Desk!NoForm
    <2>7. CallsRight'
      BY <1>1, <2>3 DEF TalkInv, CallsRight, Desk!NoForm
    <2> QED BY <1>1, <2>5, <2>6, <2>7 DEF TalkInv
  <1> QED BY <1>2, <1>3, <1>4

LEMMA DeskType ==
  ASSUME TalkInv, Desk!Type
  PROVE  TalkInv'
  <1>1. /\ Desk!Shows /\ contact' = [contact EXCEPT !.draft = contact.body]
        /\ UNCHANGED <<wanted, deskCalls, astray>>
    BY DEF Desk!Type
  <1>2. contact \in Contacts /\ contact.body \in Messages /\ contact.body = wanted
    BY <1>1 DEF TalkInv, ContactType, DialogRight, Desk!Shows
  <1>3. contact' \in Contacts
    BY <1>1, <1>2 DEF Contacts
  <1>4. /\ contact'.open = contact.open /\ contact'.version = contact.version /\ contact'.form = contact.form
        /\ contact'.body = contact.body /\ contact'.draft = contact.body
    BY <1>1, <1>2 DEF Contacts
  <1>5. ContactType' /\ OneRead'
    BY <1>1, <1>3 DEF TalkInv, ContactType, OneRead
  <1>6. DialogRight'
    BY <1>1, <1>2, <1>4 DEF DialogRight, Desk!NoForm, Desk!Shows
  <1>7. CallsRight'
    BY <1>1, <1>4 DEF TalkInv, CallsRight, Desk!NoForm
  <1> QED BY <1>1, <1>5, <1>6, <1>7 DEF TalkInv

LEMMA DeskSendReply ==
  ASSUME TalkInv, Desk!SendReply
  PROVE  TalkInv'
  <1>1. /\ Desk!Shows /\ contact.draft # None
        /\ deskCalls' = deskCalls \cup {Desk!Call("send", contact.body, contact.version, contact.draft)}
        /\ UNCHANGED <<contact, wanted, astray>>
    BY DEF Desk!SendReply
  <1>2. contact.draft \in {None, contact.body}
    BY <1>1 DEF TalkInv, DialogRight, Desk!Shows
  <1> QED BY <1>1, <1>2, TalkCalls

LEMMA DeskSendDone ==
  ASSUME TalkInv, NEW ok \in BOOLEAN, Desk!SendDone(ok)
  PROVE  TalkInv'
  <1>1. PICK c \in deskCalls :
          /\ c.do = "send" /\ deskCalls' = deskCalls \ {c}
          /\ contact' = IF ok /\ Desk!Unchanged(c) /\ Desk!Connected(c)
                        THEN Desk!Drawn(contact, c.msg, None) ELSE contact
          /\ astray' = (astray \/ c.draft # c.msg)
          /\ wanted' = wanted
    BY DEF Desk!SendDone
  <1>2. astray' = astray
    <2>1. astray = FALSE /\ c.draft = c.msg
      BY <1>1 DEF TalkInv, CallsRight
    <2> QED BY <1>1, <2>1
  <1>3. CASE ~(ok /\ Desk!Unchanged(c) /\ Desk!Connected(c))
    BY <1>1, <1>2, <1>3, CallGone
  <1>4. CASE ok /\ Desk!Unchanged(c) /\ Desk!Connected(c)
    <2>1. contact.open /\ c.version = contact.version /\ contact.form = c.form /\ None \in {None, c.msg}
      BY <1>4 DEF Desk!Unchanged, Desk!Connected
    <2>2. contact' = Desk!Drawn(contact, c.msg, None)
      BY <1>1, <1>4
    <2>3. c.form # Desk!NoForm
      BY <1>1 DEF TalkInv, CallsRight
    <2> QED BY <1>1, <1>2, <2>1, <2>2, <2>3, TalkDrawn
  <1> QED BY <1>3, <1>4

LEMMA DeskStatusReply ==
  ASSUME TalkInv, NEW ok \in BOOLEAN, Desk!StatusReply(ok)
  PROVE  TalkInv'
  <1>1. PICK c \in deskCalls :
          /\ c.do = "status"
          /\ IF ok /\ Desk!Unchanged(c) /\ Desk!Connected(c)
             THEN Desk!Opening(c.msg, contact.draft, deskCalls \ {c})
             ELSE deskCalls' = deskCalls \ {c} /\ contact' = contact
          /\ UNCHANGED <<wanted, astray>>
    BY DEF Desk!StatusReply
  <1>2. CASE ~(ok /\ Desk!Unchanged(c) /\ Desk!Connected(c))
    BY <1>1, <1>2, CallGone
  <1>3. CASE ok /\ Desk!Unchanged(c) /\ Desk!Connected(c)
    <2>1. contact.open /\ c.version = contact.version /\ c.form = contact.form
      BY <1>3 DEF Desk!Unchanged, Desk!Connected
    <2>2. c.msg = wanted /\ contact.form # Desk!NoForm /\ c.msg \in Messages
      BY <1>1, <2>1 DEF TalkInv, CallsRight, ContactType, DeskCalls
    <2>3. contact.draft \in {None, c.msg}
      BY <2>1, <2>2 DEF TalkInv, DialogRight
    <2>4. Desk!Opening(c.msg, contact.draft, deskCalls \ {c}) /\ wanted' = c.msg /\ astray' = astray
      BY <1>1, <1>3, <2>2
    <2> QED BY <2>2, <2>3, <2>4, TalkOpening
  <1> QED BY <1>2, <1>3

LEMMA DeskDeleteReply ==
  ASSUME TalkInv, NEW ok \in BOOLEAN, Desk!DeleteReply(ok)
  PROVE  TalkInv'
  <1>1. PICK c \in deskCalls :
          /\ deskCalls' = deskCalls \ {c}
          /\ contact' = IF ok /\ Desk!Shows /\ contact.body = c.msg THEN Desk!Closed(contact) ELSE contact
          /\ UNCHANGED <<wanted, astray>>
    BY DEF Desk!DeleteReply
  <1> QED BY <1>1, CallGone, TalkClosed

LEMMA TalkStep ==
  ASSUME TalkInv, Desk!Next
  PROVE  TalkInv'
  <1>1. CASE Desk!CloseContact
    BY <1>1, TalkClosed DEF Desk!CloseContact
  <1>2. CASE Desk!MarkStatus \/ Desk!DeleteContact
    BY <1>2, TalkCalls DEF Desk!MarkStatus, Desk!DeleteContact
  <1>3. CASE \/ \E u \in Users : Desk!OpenRecord(u)
             \/ Desk!CloseRecord
             \/ \E b \in BOOLEAN : Desk!Edit(b) \/ Desk!EditReply(b)
    <2>1. UNCHANGED <<contact, wanted, deskCalls, astray>>
      BY <1>3 DEF Desk!OpenRecord, Desk!CloseRecord, Desk!Edit, Desk!EditReply, Desk!conversation
    <2> QED BY <2>1, TalkStutter
  <1> QED
    BY <1>1, <1>2, <1>3, DeskOpenContact, DeskReadReply, DeskType, DeskSendReply, DeskSendDone, DeskStatusReply,
       DeskDeleteReply
    DEF Desk!Next

LEMMA DeskEdit ==
  ASSUME EditsRight, NEW closing \in BOOLEAN, Desk!Edit(closing)
  PROVE  EditsRight'
  <1> DEFINE e == [user |-> record.user, form |-> record.form, closing |-> closing]
  <1>1. record # None /\ edits' = edits \cup {e} /\ UNCHANGED <<record, userForms, broken>>
    BY DEF Desk!Edit
  <1>2. record.user \in Users /\ record.form \in Int /\ record.form <= userForms
    BY <1>1 DEF EditsRight
  <1>3. e \in [user : Users, form : Int, closing : BOOLEAN] /\ e.form = record.form /\ e.user = record.user
    BY <1>2
  <1> HIDE DEF e
  <1> QED BY <1>1, <1>2, <1>3 DEF EditsRight

LEMMA DeskOpenRecord ==
  ASSUME EditsRight, NEW u \in Users, Desk!OpenRecord(u)
  PROVE  EditsRight'
  <1>1. /\ record' = [user |-> u, form |-> userForms + 1] /\ userForms' = userForms + 1
        /\ UNCHANGED <<edits, broken>>
    BY DEF Desk!OpenRecord
  <1>2. userForms \in Int /\ \A e \in edits : e.form \in Int /\ e.form <= userForms
    BY DEF EditsRight
  <1>3. record' \in [user : Users, form : Int] /\ record'.form = userForms + 1
    BY <1>1, <1>2
  <1>4. \A e \in edits : e.form <= userForms + 1 /\ e.form # userForms + 1
    BY <1>2
  <1> QED BY <1>1, <1>2, <1>3, <1>4 DEF EditsRight

LEMMA DeskEditReply ==
  ASSUME EditsRight, NEW ok \in BOOLEAN, Desk!EditReply(ok)
  PROVE  EditsRight'
  <1>1. PICK e \in edits :
          /\ edits' = edits \ {e}
          /\ IF ok /\ Desk!ClosesRecord(e)
             THEN record' = None /\ broken' = (broken \/ record.user # e.user)
             ELSE UNCHANGED <<record, broken>>
          /\ userForms' = userForms
    BY DEF Desk!EditReply
  <1>2. Desk!ClosesRecord(e) => record.user = e.user
    BY DEF EditsRight, Desk!ClosesRecord
  <1>3. broken' = FALSE /\ record' \in {record, None}
    <2>1. broken = FALSE
      BY DEF EditsRight
    <2>2. record.user # e.user <=> ~(record.user = e.user)
      OBVIOUS
    <2> QED BY <1>1, <1>2, <2>1, <2>2
  <1> QED BY <1>1, <1>3 DEF EditsRight

LEMMA EditsStep ==
  ASSUME EditsRight, Desk!Next
  PROVE  EditsRight'
  <1>1. CASE Desk!CloseRecord
    BY <1>1 DEF Desk!CloseRecord, EditsRight
  <1>2. CASE \/ \E m \in Messages : Desk!OpenContact(m)
             \/ Desk!CloseContact \/ Desk!Type \/ Desk!SendReply \/ Desk!MarkStatus \/ Desk!DeleteContact
             \/ \E b \in BOOLEAN : Desk!ReadReply(b) \/ Desk!SendDone(b) \/ Desk!StatusReply(b) \/ Desk!DeleteReply(b)
    <2>1. UNCHANGED <<record, userForms, edits, broken>>
      BY <1>2 DEF Desk!OpenContact, Desk!CloseContact, Desk!Type, Desk!SendReply, Desk!MarkStatus,
         Desk!DeleteContact, Desk!ReadReply, Desk!SendDone, Desk!StatusReply, Desk!DeleteReply, Desk!editing
    <2> QED BY <2>1, EditsStutter
  <1> QED BY <1>1, <1>2, DeskEdit, DeskOpenRecord, DeskEditReply DEF Desk!Next

\* Answers reach only the conversation and the record they are about
\* (openContactConversation, submitContactReply, the editors of a user), for any
\* number of messages, users, openings and forms.
THEOREM DeskStaysApart == Spec => []DeskApart
  <1> DEFINE Inv == part = "desk" => TalkInv /\ EditsRight
  <1>1. Init => Inv
    BY DeskInitially DEF Init
  <1>2. Inv /\ [Next]_vars => Inv'
    <2>1. CASE part = "desk" /\ Desk!Next /\ part' = part
      BY <2>1, TalkStep, EditsStep
    <2>2. CASE UNCHANGED <<part, deskVars>>
      BY <2>2, TalkStutter, EditsStutter DEF deskVars
    <2>3. [Next]_vars => (part = "desk" /\ Desk!Next /\ part' = part) \/ UNCHANGED <<part, deskVars>>
      BY DEF Next, vars
    <2> HIDE DEF Inv
    <2> QED BY <2>1, <2>2, <2>3 DEF Inv
  <1>3. Inv => DeskApart
    <2> SUFFICES ASSUME TalkInv, EditsRight PROVE Desk!DeskApart
      BY DEF DeskApart
    <2> QED BY DEF Desk!DeskApart, Desk!Shows, TalkInv, DialogRight, EditsRight
  <1> QED BY <1>1, <1>2, <1>3, PTL DEF Spec

-----------------------------------------------------------------------------
(* AdminRecords *)

Answers == [rows : SUBSET Accounts, pages : Int]
RecordReads == [id : Int, f : Filters, page : Int, s : Int, answer : Answers \cup {None}]
Bulks == [users : SUBSET Accounts, done : (SUBSET Accounts) \cup {None}]

RecsType ==
  /\ recordsSession \in Int /\ filter \in Filters /\ latest \in Int /\ page \in Int
  /\ timer \in BOOLEAN /\ error \in BOOLEAN
  /\ recordReads \subseteq RecordReads
  /\ selected \subseteq Accounts
  /\ bulk \in Bulks \cup {None}

\* What the console was told is closed is closed.
ToldClosed ==
  /\ confirmed \subseteq closed
  /\ bulk # None /\ bulk.done # None => bulk.done \subseteq closed

\* Reads are the present session's, and the newest one's answer holds no account
\* that was confirmed to be closed.
ReadsRight ==
  \A c \in recordReads :
    /\ c.s = recordsSession /\ c.id <= latest
    /\ c.id = latest /\ c.answer # None => c.answer.rows \cap confirmed = {}

CurrentRead == \E c \in recordReads : Recs!Current(c)

\* The list shows what the filter says and nobody who was closed, unless a timer,
\* a reported problem or the newest read is to follow.
ShownRight ==
  shown # None =>
    /\ shown.s = recordsSession /\ page <= shown.pages
    /\ timer \/ error \/ CurrentRead \/ (shown.f = filter /\ shown.rows \cap confirmed = {})

RecsInv == RecsType /\ ToldClosed /\ ReadsRight /\ ShownRight

LEMMA RecsInitially == Recs!Init => RecsInv
  <1> SUFFICES ASSUME Recs!Init PROVE RecsInv
    OBVIOUS
  <1>1. timer \in BOOLEAN /\ error \in BOOLEAN
    BY DEF Recs!Init
  <1>2. /\ recordsSession \in Int /\ filter \in Filters /\ latest \in Int /\ page \in Int
        /\ recordReads \subseteq RecordReads /\ selected \subseteq Accounts /\ bulk \in Bulks \cup {None}
    BY DEF Recs!Init
  <1>3. ToldClosed /\ ReadsRight /\ ShownRight
    BY DEF Recs!Init, ToldClosed, ReadsRight, ShownRight
  <1> QED BY <1>1, <1>2, <1>3 DEF RecsInv, RecsType

LEMMA RecsStutter == RecsInv /\ UNCHANGED recsVars => RecsInv'
  BY DEF recsVars, RecsInv, RecsType, ToldClosed, ReadsRight, ShownRight, CurrentRead, Recs!Current

\* loadAdminRecords: the new read is the newest.
LEMMA RecsLoaded ==
  ASSUME RecsInv, NEW f \in Filters, NEW p \in Int, NEW others \in SUBSET recordReads,
         Recs!Load(f, p, others), filter' = f, UNCHANGED <<recordsSession, page, shown, error>>,
         timer' \in BOOLEAN, selected' \subseteq Accounts, bulk' \in Bulks \cup {None}, ToldClosed'
  PROVE  RecsInv'
  <1> DEFINE n == [id |-> latest + 1, f |-> f, page |-> p, s |-> recordsSession, answer |-> None]
  <1>1. latest' = latest + 1 /\ recordReads' = others \cup {n}
    BY DEF Recs!Load
  <1>2. /\ recordsSession \in Int /\ latest \in Int /\ recordReads \subseteq RecordReads
        /\ page \in Int /\ error \in BOOLEAN
    BY DEF RecsInv, RecsType
  <1>3. n \in RecordReads /\ n.id = latest + 1 /\ n.f = f /\ n.s = recordsSession /\ n.answer = None
    BY <1>2 DEF RecordReads
  <1> HIDE DEF n
  <1>4. RecsType'
    BY <1>1, <1>2, <1>3 DEF RecsType
  <1>5. \A c \in others : c.s = recordsSession /\ c.id <= latest + 1 /\ c.id # latest + 1
    BY <1>2 DEF RecsInv, ReadsRight, RecordReads
  <1>6. ReadsRight'
    BY <1>1, <1>2, <1>3, <1>5 DEF ReadsRight
  <1>7. CurrentRead'
    BY <1>1, <1>3 DEF CurrentRead, Recs!Current
  <1>8. ShownRight'
    BY <1>7 DEF RecsInv, ShownRight
  <1> QED BY <1>4, <1>6, <1>8 DEF RecsInv

LEMMA RecsPickFilter ==
  ASSUME RecsInv, NEW f \in Filters, Recs!PickFilter(f)
  PROVE  RecsInv'
  <1>1. /\ filter' = f /\ Recs!Load(f, 1, recordReads)
        /\ UNCHANGED <<recordsSession, timer, page, shown, error, selected, bulk, closed, confirmed>>
    BY DEF Recs!PickFilter
  <1>2. ToldClosed'
    BY <1>1 DEF RecsInv, ToldClosed
  <1> QED BY <1>1, <1>2, RecsLoaded DEF RecsInv, RecsType

LEMMA RecsTypeFilter ==
  ASSUME RecsInv, NEW f \in Filters, Recs!TypeFilter(f)
  PROVE  RecsInv'
  BY DEF Recs!TypeFilter, RecsInv, RecsType, ToldClosed, ReadsRight, ShownRight

LEMMA RecsSearchTimer ==
  ASSUME RecsInv, Recs!SearchTimer
  PROVE  RecsInv'
  <1>1. /\ timer' = FALSE /\ Recs!Load(filter, 1, recordReads)
        /\ UNCHANGED <<recordsSession, filter, page, shown, error, selected, bulk, closed, confirmed>>
    BY DEF Recs!SearchTimer
  <1>2. ToldClosed'
    BY <1>1 DEF RecsInv, ToldClosed
  <1>3. /\ filter \in Filters /\ filter' = filter /\ selected' \subseteq Accounts
        /\ bulk' \in Bulks \cup {None} /\ 1 \in Int /\ recordReads \in SUBSET recordReads
    BY <1>1 DEF RecsInv, RecsType
  <1>4. timer' \in BOOLEAN
    BY <1>1
  <1> QED BY <1>1, <1>2, <1>3, <1>4, RecsLoaded

LEMMA RecsReload ==
  ASSUME RecsInv, NEW p \in Int, Recs!Load(filter, p, recordReads),
         UNCHANGED <<recordsSession, filter, timer, page, shown, error, selected, bulk, closed, confirmed>>
  PROVE  RecsInv'
  <1>1. ToldClosed'
    BY DEF RecsInv, ToldClosed
  <1> QED BY <1>1, RecsLoaded DEF RecsInv, RecsType

\* AdminRecords counts with its own instance of FiniteSets.
LEMMA RecsCount ==
  ASSUME NEW S, IsFiniteSet(S)
  PROVE  Recs!Cardinality(S) \in Nat
  <1>1. Recs!Cardinality(S) = Cardinality(S)
    BY DEF Recs!Cardinality, Cardinality, Recs!IsFiniteSet, IsFiniteSet
  <1> QED BY <1>1, FS_CardinalityType

\* An answer to a read, as it leaves the server: no closed account is in it.
LEMMA RecsAnswer ==
  ASSUME NEW f \in Filters, NEW p \in Int
  PROVE  /\ [rows |-> Recs!Row(f, p), pages |-> Recs!Last(f)] \in Answers
         /\ Recs!Row(f, p) \cap closed = {}
  <1>1. Recs!Found(f) \subseteq Accounts /\ Recs!Found(f) \cap closed = {}
    BY FiltersFindAccounts DEF Recs!Found
  <1>2. IsFiniteSet(Recs!Found(f))
    BY <1>1, FiltersFindAccounts, FS_Subset
  <1>3. Recs!Cardinality(Recs!Found(f)) \in Nat
    BY <1>2, RecsCount
  <1>4. Recs!Last(f) \in Int
    BY <1>3 DEF Recs!Last
  <1>5. Recs!Row(f, p) \in SUBSET Accounts /\ Recs!Row(f, p) \cap closed = {}
    BY <1>1 DEF Recs!Row
  <1> QED BY <1>4, <1>5 DEF Answers

LEMMA RecsServe ==
  ASSUME RecsInv, Recs!Serve
  PROVE  RecsInv'
  <1> DEFINE a(c) == [rows |-> Recs!Row(c.f, c.page), pages |-> Recs!Last(c.f)]
  <1>1. PICK c \in recordReads :
          /\ recordReads' = (recordReads \ {c}) \cup {[c EXCEPT !.answer = a(c)]}
          /\ UNCHANGED <<recordsSession, filter, timer, latest, page, shown, error, selected, bulk, closed, confirmed>>
    BY DEF Recs!Serve
  <1> DEFINE d == [c EXCEPT !.answer = a(c)]
  <1>2. c \in RecordReads /\ c.f \in Filters /\ c.page \in Int
    BY DEF RecsInv, RecsType, RecordReads
  <1>3. a(c) \in Answers /\ a(c).rows \cap closed = {}
    BY <1>2, RecsAnswer
  <1> HIDE DEF a
  <1>4. d \in RecordReads
    BY <1>2, <1>3 DEF RecordReads
  <1>5. d.id = c.id /\ d.f = c.f /\ d.s = c.s /\ d.answer = a(c)
    BY <1>2 DEF RecordReads
  <1>6. recordReads' = (recordReads \ {c}) \cup {d}
    BY <1>1
  <1> HIDE DEF d
  <1>7. RecsType'
    BY <1>1, <1>4, <1>6 DEF RecsInv, RecsType
  <1>8. ToldClosed'
    BY <1>1 DEF RecsInv, ToldClosed
  <1>9. ReadsRight'
    BY <1>1, <1>3, <1>5, <1>6 DEF RecsInv, ReadsRight, ToldClosed
  <1>10. CurrentRead => CurrentRead'
    BY <1>1, <1>5, <1>6 DEF CurrentRead, Recs!Current
  <1>11. ShownRight'
    BY <1>1, <1>10 DEF RecsInv, ShownRight
  <1> QED BY <1>7, <1>8, <1>9, <1>11 DEF RecsInv

LEMMA RecsReadReply ==
  ASSUME RecsInv, Recs!ReadReply
  PROVE  RecsInv'
  <1>1. PICK c \in recordReads :
          /\ c.answer # None
          /\ IF ~Recs!Current(c) THEN recordReads' = recordReads \ {c} /\ UNCHANGED <<latest, page, shown, error>>
             ELSE IF c.page > c.answer.pages
             THEN Recs!Load(c.f, c.answer.pages, recordReads \ {c}) /\ UNCHANGED <<page, shown, error>>
             ELSE /\ shown' = [f |-> c.f, rows |-> c.answer.rows, pages |-> c.answer.pages, s |-> c.s]
                  /\ page' = c.page /\ error' = FALSE
                  /\ recordReads' = recordReads \ {c} /\ latest' = latest
          /\ UNCHANGED <<recordsSession, filter, timer, selected, bulk, closed, confirmed>>
    BY DEF Recs!ReadReply
  <1>2. c \in RecordReads /\ c.page \in Int /\ c.f \in Filters /\ c.answer \in Answers
    BY <1>1 DEF RecsInv, RecsType, RecordReads
  <1>3. c.answer.pages \in Int
    BY <1>2 DEF Answers
  <1>4. ToldClosed'
    BY <1>1 DEF RecsInv, ToldClosed
  <1>5. CASE ~Recs!Current(c)
    <2>1. recordReads' = recordReads \ {c} /\ UNCHANGED <<latest, page, shown, error>>
      BY <1>1, <1>5
    <2>2. CurrentRead => CurrentRead'
      BY <1>1, <1>5, <2>1 DEF CurrentRead, Recs!Current
    <2>3. ShownRight' /\ ReadsRight' /\ RecsType'
      BY <1>1, <2>1, <2>2 DEF RecsInv, ShownRight, ReadsRight, RecsType
    <2> QED BY <1>4, <2>3 DEF RecsInv
  <1>6. CASE Recs!Current(c) /\ c.page > c.answer.pages
    <2>1. Recs!Load(c.f, c.answer.pages, recordReads \ {c}) /\ UNCHANGED <<page, shown, error>> /\ c.f = filter
      BY <1>1, <1>6 DEF Recs!Current
    <2> QED BY <1>1, <1>2, <1>3, <1>4, <2>1, RecsLoaded DEF RecsInv, RecsType
  <1>7. CASE Recs!Current(c) /\ ~(c.page > c.answer.pages)
    <2>1. /\ shown' = [f |-> c.f, rows |-> c.answer.rows, pages |-> c.answer.pages, s |-> c.s]
          /\ page' = c.page /\ error' = FALSE /\ recordReads' = recordReads \ {c} /\ latest' = latest
      BY <1>1, <1>7
    <2>2. RecsType' /\ ReadsRight'
      BY <1>1, <1>2, <2>1 DEF RecsInv, RecsType, ReadsRight
    <2>3. c.f = filter /\ c.s = recordsSession /\ c.answer.rows \cap confirmed = {} /\ c.page <= c.answer.pages
      BY <1>1, <1>2, <1>3, <1>7 DEF Recs!Current, RecsInv, ReadsRight
    <2>4. ShownRight'
      BY <1>1, <2>1, <2>3 DEF ShownRight
    <2> QED BY <1>4, <2>2, <2>4 DEF RecsInv
  <1> QED BY <1>5, <1>6, <1>7

LEMMA RecsReadFails ==
  ASSUME RecsInv, Recs!ReadFails
  PROVE  RecsInv'
  <1>1. PICK c \in recordReads :
          /\ error' = (error \/ Recs!Current(c)) /\ recordReads' = recordReads \ {c}
          /\ UNCHANGED <<recordsSession, filter, timer, latest, page, shown, selected, bulk, closed, confirmed>>
    BY DEF Recs!ReadFails
  <1>2. RecsType' /\ ToldClosed' /\ ReadsRight'
    BY <1>1 DEF RecsInv, RecsType, ToldClosed, ReadsRight
  <1>3. CurrentRead => CurrentRead' \/ error'
    BY <1>1 DEF CurrentRead, Recs!Current
  <1>4. error => error'
    BY <1>1
  <1>5. ShownRight'
    BY <1>1, <1>3, <1>4 DEF RecsInv, ShownRight
  <1> QED BY <1>2, <1>5 DEF RecsInv

LEMMA RecsEndSession ==
  ASSUME RecsInv, Recs!EndSession
  PROVE  RecsInv'
  <1>1. /\ recordsSession' = recordsSession + 1 /\ latest' = latest + 1 /\ recordReads' = {} /\ bulk' = None
        /\ timer' = FALSE /\ error' = FALSE /\ shown' = None /\ page' = 1 /\ selected' = {}
        /\ UNCHANGED <<filter, closed, confirmed>>
    BY DEF Recs!EndSession
  <1>2. timer' \in BOOLEAN /\ error' \in BOOLEAN
    BY <1>1
  <1>3. /\ recordsSession' \in Int /\ filter' \in Filters /\ latest' \in Int /\ page' \in Int
        /\ recordReads' \subseteq RecordReads /\ selected' \subseteq Accounts /\ bulk' \in Bulks \cup {None}
    BY <1>1 DEF RecsInv, RecsType
  <1>4. ToldClosed' /\ ReadsRight' /\ ShownRight'
    BY <1>1 DEF RecsInv, ToldClosed, ReadsRight, ShownRight
  <1> QED BY <1>2, <1>3, <1>4 DEF RecsInv, RecsType

\* The selection and the bulk action leave the reads and the list alone.
LEMMA RecsSelection ==
  ASSUME RecsInv, UNCHANGED <<recordsSession, filter, timer, latest, page, shown, error, recordReads, confirmed>>,
         selected' \subseteq Accounts, bulk' \in Bulks \cup {None}, ToldClosed'
  PROVE  RecsInv'
  BY DEF RecsInv, RecsType, ReadsRight, ShownRight, CurrentRead, Recs!Current

LEMMA RecsTick ==
  ASSUME RecsInv, NEW u \in Accounts, Recs!Tick(u)
  PROVE  RecsInv'
  <1>1. selected' \subseteq Accounts
    BY DEF Recs!Tick, RecsInv, RecsType
  <1> QED BY <1>1, RecsSelection DEF Recs!Tick, RecsInv, RecsType, ToldClosed

LEMMA RecsClear ==
  ASSUME RecsInv, Recs!ClearSelection
  PROVE  RecsInv'
  BY RecsSelection DEF Recs!ClearSelection, RecsInv, RecsType, ToldClosed

LEMMA RecsApply ==
  ASSUME RecsInv, Recs!Apply
  PROVE  RecsInv'
  <1>1. /\ bulk' = [users |-> selected, done |-> None] /\ UNCHANGED <<selected, closed, confirmed>>
        /\ UNCHANGED <<recordsSession, filter, timer, latest, page, shown, error, recordReads, confirmed>>
    BY DEF Recs!Apply
  <1>2. selected \in SUBSET Accounts
    BY DEF RecsInv, RecsType
  <1>3. bulk' \in Bulks /\ bulk'.done = None
    BY <1>1, <1>2 DEF Bulks
  <1> QED BY <1>1, <1>2, <1>3, RecsSelection DEF RecsInv, ToldClosed

LEMMA RecsServeBulk ==
  ASSUME RecsInv, NEW some \in SUBSET Accounts, Recs!ServeBulk(some)
  PROVE  RecsInv'
  <1>1. /\ bulk # None /\ closed' = closed \cup some /\ bulk' = [bulk EXCEPT !.done = some]
        /\ selected' = selected
        /\ UNCHANGED <<recordsSession, filter, timer, latest, page, shown, error, recordReads, confirmed>>
    BY DEF Recs!ServeBulk
  <1>2. bulk \in Bulks
    BY <1>1 DEF RecsInv, RecsType
  <1>3. bulk' \in Bulks /\ bulk'.done = some
    BY <1>1, <1>2 DEF Bulks
  <1>4. ToldClosed'
    BY <1>1, <1>3 DEF RecsInv, ToldClosed
  <1> QED BY <1>1, <1>3, <1>4, RecsSelection DEF RecsInv, RecsType

LEMMA RecsBulkReply ==
  ASSUME RecsInv, Recs!BulkReply
  PROVE  RecsInv'
  <1>1. /\ bulk # None /\ bulk.done # None /\ bulk' = None /\ closed' = closed
        /\ selected' = selected \ bulk.done /\ confirmed' = confirmed \cup bulk.done
        /\ Recs!Load(filter, page, recordReads)
        /\ UNCHANGED <<recordsSession, filter, timer, page, shown, error>>
    BY DEF Recs!BulkReply
  <1>2. ToldClosed'
    BY <1>1 DEF RecsInv, ToldClosed
  <1> QED BY <1>1, <1>2, RecsLoaded DEF RecsInv, RecsType

LEMMA RecsBulkFails ==
  ASSUME RecsInv, Recs!BulkFails
  PROVE  RecsInv'
  <1>1. ToldClosed'
    BY DEF Recs!BulkFails, RecsInv, ToldClosed
  <1> QED BY <1>1, RecsSelection DEF Recs!BulkFails, RecsInv, RecsType

LEMMA RecsStep ==
  ASSUME RecsInv, Recs!Next
  PROVE  RecsInv'
  <1>1. page \in Int
    BY DEF RecsInv, RecsType
  <1>2. CASE Recs!Reload
    BY <1>1, <1>2, RecsReload DEF Recs!Reload
  <1>3. CASE \E p \in 1..Recs!Cardinality(Accounts) : Recs!TurnPage(p)
    <2>1. PICK p \in 1..Recs!Cardinality(Accounts) : Recs!TurnPage(p)
      BY <1>3
    <2>2. p \in Int
      BY FiltersFindAccounts, RecsCount
    <2> QED BY <2>1, <2>2, RecsReload DEF Recs!TurnPage
  <1> QED
    BY <1>2, <1>3, RecsServe, RecsSearchTimer, RecsReadReply, RecsReadFails, RecsEndSession, RecsClear, RecsApply,
       RecsBulkReply, RecsBulkFails, RecsPickFilter, RecsTypeFilter, RecsTick, RecsServeBulk
    DEF Recs!Next

\* The list of accounts settles on the filter, the session and the bulk answers
\* (loadAdminRecords, applyAdminBulkAction), for any number of accounts, filters,
\* reads and sessions.
THEOREM RecordsStayCurrent == Spec => []RecordsCurrent
  <1> DEFINE Inv == part = "records" => RecsInv
  <1>1. Init => Inv
    BY RecsInitially DEF Init
  <1>2. Inv /\ [Next]_vars => Inv'
    <2>1. CASE part = "records" /\ Recs!Next /\ part' = part
      BY <2>1, RecsStep
    <2>2. CASE UNCHANGED <<part, recsVars>>
      BY <2>2, RecsStutter
    <2>3. [Next]_vars => (part = "records" /\ Recs!Next /\ part' = part) \/ UNCHANGED <<part, recsVars>>
      BY DEF Next, vars
    <2> HIDE DEF Inv
    <2> QED BY <2>1, <2>2, <2>3 DEF Inv
  <1>3. Inv => RecordsCurrent
    BY DEF RecordsCurrent, Recs!RecordsCurrent, RecsInv, ShownRight, CurrentRead
  <1> QED BY <1>1, <1>2, <1>3, PTL DEF Spec

-----------------------------------------------------------------------------
(* AdminPanel *)

Plain == Panel!Sections \ Growth
Reports == [said : {"nothing", "quiet", "open"}, of : Int \cup {None}]

\* What is on its way, and what is known, belongs to the present session.
OwnSession ==
  /\ session \in Int
  /\ \A c \in calls : c.s = session
  /\ data \in [Panel!Sections -> Reports]
  /\ \A s \in Panel!Sections : data[s].of \in {None, session}

\* A load waits for its overview, then for sections; nothing else asks for the
\* sections that are not about advertising.
OneLoad ==
  /\ load = "overview" => \E c \in calls : c.to = "overview"
  /\ load = "sections" => \E c \in calls : c.to \in Panel!Sections
  /\ \A c \in calls : c.to = "overview" => load = "overview"
  /\ \A c, d \in calls : c.to = "overview" /\ d.to = "overview" => c = d
  /\ \A c \in calls : c.to \in Plain => load = "sections"

GrowthKnown ==
  /\ growth # None <=> \E c \in calls : c.to \in Growth
  /\ panel /\ growthOff => growth # None

TokenHeld == token = None => stored = None /\ panel = FALSE /\ load = None

\* A section of an open panel has answered, has failed or is on its way.
SectionsTold ==
  /\ panel => "overview" \in loaded
  /\ \A s \in Panel!Sections : s \in loaded /\ s \notin errors => data[s].said \in {"quiet", "open"}
  /\ panel => \A s \in Plain : s \in loaded \/ s \in errors \/ \E c \in calls : c.to = s

\* "No urgent alert" was drawn from what is known now, but for the lists that
\* were read alone since, or is left from before this load and will be drawn anew.
AlertTold ==
  panel /\ alert = "clear" =>
    \/ \A s \in Plain \ unseen : s \notin errors /\ data[s].said # "open"
    \/ load = "sections" /\ \A s \in Plain : \E c \in calls : c.to = s

PanelInv == OwnSession /\ OneLoad /\ GrowthKnown /\ TokenHeld /\ SectionsTold /\ AlertTold

LEMMA SectionNames ==
  /\ Growth \subseteq Panel!Sections /\ Queue \in Plain /\ Plain \subseteq Panel!Sections /\ Plain \cap Growth = {}
  /\ {"overview", "start", "verify"} \cap Panel!Sections = {}
  BY SectionsAreDistinct DEF Plain, Panel!Sections

LEMMA EmptyReport == Panel!Empty \in Reports /\ Panel!Empty.of = None
  BY DEF Panel!Empty, Reports

LEMMA PanelInitially == Panel!Init => PanelInv
  <1> SUFFICES ASSUME Panel!Init PROVE PanelInv
    OBVIOUS
  <1>1. /\ session = 0 /\ panel = FALSE /\ growth = None /\ loaded = {}
        /\ data = [s \in Panel!Sections |-> Panel!Empty] /\ token = stored
        /\ load = (IF token = None THEN None ELSE "overview")
        /\ calls = (IF token = None THEN {} ELSE {[to |-> "overview", tok |-> token, s |-> session]})
    BY DEF Panel!Init, Panel!FreshPage
  <1> DEFINE n == [to |-> "overview", tok |-> token, s |-> session]
  <1>a. n.to = "overview" /\ n.s = session
    OBVIOUS
  <1>b. calls = (IF token = None THEN {} ELSE {n})
    BY <1>1
  <1> HIDE DEF n
  <1>2. OwnSession
    <2>1. data \in [Panel!Sections -> Reports] /\ \A s \in Panel!Sections : data[s].of = None
      BY <1>1, EmptyReport
    <2>2. session \in Int
      BY <1>1
    <2> QED BY <1>a, <1>b, <2>1, <2>2 DEF OwnSession
  <1>3. OneLoad /\ GrowthKnown
    <2>1. CASE token = None
      BY <1>1, <1>b, <2>1, SectionsAreDistinct DEF OneLoad, GrowthKnown
    <2>2. CASE token # None
      <3>1. calls = {n} /\ load = "overview" /\ growth = None /\ panel = FALSE
        BY <1>1, <1>b, <2>2
      <3> QED BY <1>a, <3>1, SectionNames DEF OneLoad, GrowthKnown
    <2> QED BY <2>1, <2>2
  <1>4. TokenHeld /\ SectionsTold /\ AlertTold
    BY <1>1 DEF TokenHeld, SectionsTold, AlertTold
  <1> QED BY <1>2, <1>3, <1>4 DEF PanelInv

LEMMA PanelStutter == PanelInv /\ UNCHANGED panelVars => PanelInv'
  BY DEF panelVars, PanelInv, OwnSession, OneLoad, GrowthKnown, TokenHeld, SectionsTold, AlertTold

\* Requests of the sign-in forms come and go without touching a load.
LEMMA PanelForms ==
  ASSUME PanelInv, UNCHANGED <<session, panel, load, growth, growthOff, data, loaded, errors, alert, unseen>>, TokenHeld',
         \A c \in calls' : c \in calls \/ (c.s = session /\ c.to \in {"start", "verify"}),
         \A c \in calls : c \in calls' \/ c.to \in {"start", "verify"}
  PROVE  PanelInv'
  <1>1. \A c : c.to \in Panel!Sections \cup {"overview"} => (c \in calls <=> c \in calls')
    BY SectionNames
  <1>2. OwnSession'
    BY DEF PanelInv, OwnSession
  <1>3. OneLoad'
    BY <1>1, SectionNames DEF PanelInv, OneLoad
  <1>4. GrowthKnown'
    BY <1>1, SectionNames DEF PanelInv, GrowthKnown
  <1>5. SectionsTold' /\ AlertTold'
    BY <1>1, SectionNames DEF PanelInv, SectionsTold, AlertTold
  <1> QED BY <1>2, <1>3, <1>4, <1>5 DEF PanelInv

\* loadAdmin begins a load when none is under way.
LEMMA PanelLoads ==
  ASSUME PanelInv, load = None, load' = "overview", TokenHeld',
         UNCHANGED <<session, panel, growth, growthOff, data, loaded, errors, alert, unseen>>,
         NEW n \in calls', n.to = "overview", n.s = session, calls' \subseteq calls \cup {n},
         \A c \in calls : c \in calls' \/ c.to \in {"start", "verify"}
  PROVE  PanelInv'
  <1>1. \A c : c.to \in Panel!Sections => (c \in calls <=> c \in calls')
    BY SectionNames
  <1>2. \A c \in calls : c.to # "overview" /\ c.to \notin Plain
    BY SectionsAreDistinct DEF PanelInv, OneLoad
  <1>3. OwnSession'
    BY DEF PanelInv, OwnSession
  <1>4. OneLoad'
    BY <1>2, SectionNames DEF OneLoad
  <1>5. GrowthKnown'
    BY <1>1, SectionNames DEF PanelInv, GrowthKnown
  <1>6. SectionsTold'
    BY <1>1, SectionNames DEF PanelInv, SectionsTold
  <1>7. AlertTold'
    BY <1>2, SectionNames DEF PanelInv, AlertTold
  <1> QED BY <1>3, <1>4, <1>5, <1>6, <1>7 DEF PanelInv

LEMMA PanelRefresh ==
  ASSUME PanelInv, Panel!Refresh
  PROVE  PanelInv'
  <1>1. /\ token # None /\ Panel!LoadAdmin(token) /\ token' = token
        /\ UNCHANGED <<session, panel, growth, growthOff, data, loaded, errors, alert, unseen>>
    BY DEF Panel!Refresh, Panel!login
  <1>2. TokenHeld'
    BY <1>1 DEF TokenHeld
  <1>3. CASE load # None
    BY <1>1, <1>2, <1>3, PanelForms DEF Panel!LoadAdmin
  <1>4. CASE load = None
    <2>1. load' = "overview" /\ calls' = calls \cup {Panel!Overview(token)}
      BY <1>1, <1>4 DEF Panel!LoadAdmin
    <2>2. Panel!Overview(token).to = "overview" /\ Panel!Overview(token).s = session
      BY DEF Panel!Overview
    <2> QED BY <1>1, <1>2, <1>4, <2>1, <2>2, PanelLoads
  <1> QED BY <1>3, <1>4

LEMMA PanelKeyForm ==
  ASSUME PanelInv, NEW t \in Tokens, Panel!KeyForm(t)
  PROVE  PanelInv'
  <1>1. /\ token' = t /\ Panel!LoadAdmin(t)
        /\ UNCHANGED <<session, panel, growth, growthOff, data, loaded, errors, alert, unseen>>
    BY DEF Panel!KeyForm
  <1>2. TokenHeld'
    BY <1>1, SectionsAreDistinct DEF TokenHeld
  <1>3. CASE load # None
    BY <1>1, <1>2, <1>3, PanelForms DEF Panel!LoadAdmin
  <1>4. CASE load = None
    <2>1. load' = "overview" /\ calls' = calls \cup {Panel!Overview(t)}
      BY <1>1, <1>4 DEF Panel!LoadAdmin
    <2>2. Panel!Overview(t).to = "overview" /\ Panel!Overview(t).s = session
      BY DEF Panel!Overview
    <2> QED BY <1>1, <1>2, <1>4, <2>1, <2>2, PanelLoads
  <1> QED BY <1>3, <1>4

LEMMA PanelVerifyReply ==
  ASSUME PanelInv, NEW t \in Tokens, Panel!VerifyReply(t)
  PROVE  PanelInv'
  <1>1. PICK c \in calls :
          /\ c.to = "verify" /\ token' = t
          /\ IF load # None
             THEN calls' = calls \ {c} /\ load' = load
             ELSE load' = "overview" /\ calls' = (calls \ {c}) \cup {Panel!Overview(t)}
          /\ UNCHANGED <<session, panel, growth, growthOff, data, loaded, errors, alert, unseen>>
    BY DEF Panel!VerifyReply
  <1>2. TokenHeld'
    BY <1>1, SectionsAreDistinct DEF TokenHeld
  <1>3. CASE load # None
    BY <1>1, <1>2, <1>3, PanelForms
  <1>4. CASE load = None
    <2>1. load' = "overview" /\ calls' = (calls \ {c}) \cup {Panel!Overview(t)}
      BY <1>1, <1>4
    <2>2. Panel!Overview(t).to = "overview" /\ Panel!Overview(t).s = session
      BY DEF Panel!Overview
    <2> QED BY <1>1, <1>2, <1>4, <2>1, <2>2, PanelLoads
  <1> QED BY <1>3, <1>4

\* The forms that ask for a code, and their answers.
LEMMA PanelSignIn ==
  ASSUME PanelInv,
         \/ Panel!AccountForm \/ Panel!CodeForm
         \/ \E b \in BOOLEAN : Panel!StartReply(b) \/ Panel!VerifyFails(b)
  PROVE  PanelInv'
  <1>1. /\ UNCHANGED <<session, panel, load, growth, growthOff, data, loaded, errors, alert, unseen>>
        /\ UNCHANGED <<token, stored>>
    BY DEF Panel!AccountForm, Panel!CodeForm, Panel!StartReply, Panel!VerifyFails, Panel!login
  <1>2. TokenHeld'
    BY <1>1 DEF PanelInv, TokenHeld
  <1>3. CASE \E b \in BOOLEAN : Panel!StartReply(b) \/ Panel!VerifyFails(b)
    <2>1. PICK c \in calls : c.to \in {"start", "verify"} /\ calls' = calls \ {c}
      BY <1>3 DEF Panel!StartReply, Panel!VerifyFails
    <2> QED BY <1>1, <1>2, <2>1, PanelForms
  <1>4. CASE Panel!AccountForm \/ Panel!CodeForm
    <2>1. PICK to \in {"start", "verify"} : calls' = calls \cup {[to |-> to, tok |-> None, s |-> session]}
      BY <1>4 DEF Panel!AccountForm, Panel!CodeForm, Panel!Ask
    <2> DEFINE n == [to |-> to, tok |-> None, s |-> session]
    <2>2. n.to \in {"start", "verify"} /\ n.s = session
      OBVIOUS
    <2>3. calls' = calls \cup {n}
      BY <2>1
    <2> HIDE DEF n
    <2> QED BY <1>1, <1>2, <2>2, <2>3, PanelForms
  <1> QED BY <1>3, <1>4

LEMMA PanelEnds ==
  ASSUME PanelInv, Panel!EndAdminSession
  PROVE  PanelInv'
  <1>1. /\ session' = session + 1 /\ token' = None /\ stored' = None /\ growth' = None /\ calls' = {}
        /\ load' = None /\ loaded' = {} /\ data' = [s \in Panel!Sections |-> Panel!Empty] /\ panel' = FALSE
    BY DEF Panel!EndAdminSession, Panel!Surviving
  <1>2. OwnSession'
    <2>1. data' \in [Panel!Sections -> Reports] /\ \A s \in Panel!Sections : data'[s].of = None
      BY <1>1, EmptyReport
    <2>2. session' \in Int
      BY <1>1 DEF PanelInv, OwnSession
    <2> QED BY <1>1, <2>1, <2>2 DEF OwnSession
  <1>3. OneLoad' /\ GrowthKnown'
    BY <1>1, SectionsAreDistinct DEF OneLoad, GrowthKnown
  <1>4. TokenHeld' /\ SectionsTold' /\ AlertTold'
    BY <1>1 DEF TokenHeld, SectionsTold, AlertTold
  <1> QED BY <1>2, <1>3, <1>4 DEF PanelInv

LEMMA PanelOverviewReply ==
  ASSUME PanelInv, Panel!OverviewReply
  PROVE  PanelInv'
  <1> DEFINE R(s) == [to |-> s, tok |-> token, s |-> session]
             New == {R(s) : s \in (IF growth = None THEN Panel!Sections ELSE Panel!Sections \ Growth)}
  <1>1. PICK c \in calls :
          /\ c.to = "overview" /\ panel' = TRUE /\ load' = "sections" /\ growth' = "load"
          /\ calls' = (calls \ {c}) \cup New
          /\ errors' = errors \ {"overview"} /\ loaded' = loaded \cup {"overview"}
          /\ UNCHANGED <<session, data, alert, unseen>> /\ UNCHANGED <<token, stored>>
    BY DEF Panel!OverviewReply, Panel!login
  <1>2. \A s \in Panel!Sections : R(s).to = s /\ R(s).s = session
    OBVIOUS
  <1> HIDE DEF R
  <1>3. \A n \in New : n.s = session /\ n.to \in Panel!Sections
    BY <1>2
  <1>4. \A s \in Plain : \E n \in New : n.to = s
    BY <1>2 DEF Plain
  <1>5. growth = None => \E n \in New : n.to \in Growth
    BY <1>2, SectionNames, SectionsAreDistinct
  <1> HIDE DEF New
  <1>6. load = "overview" /\ \A d \in calls : d.to = "overview" => d = c
    BY <1>1 DEF PanelInv, OneLoad
  <1>7. token # None
    BY <1>6, SectionsAreDistinct DEF PanelInv, TokenHeld
  <1>8. OwnSession'
    BY <1>1, <1>3 DEF PanelInv, OwnSession
  <1>9. OneLoad'
    <2>1. \A d \in calls' : d.to # "overview"
      BY <1>1, <1>3, <1>6, SectionNames
    <2>2. \E d \in calls' : d.to \in Panel!Sections
      BY <1>1, <1>4, SectionNames
    <2> QED BY <1>1, <2>1, <2>2 DEF OneLoad
  <1>10. GrowthKnown'
    <2>1. \E d \in calls' : d.to \in Growth
      <3>1. CASE growth = None
        BY <1>1, <1>5, <3>1
      <3>2. CASE growth # None
        BY <1>1, <3>2, SectionNames DEF PanelInv, GrowthKnown
      <3> QED BY <3>1, <3>2
    <2> QED BY <1>1, <2>1, SectionsAreDistinct DEF GrowthKnown
  <1>11. TokenHeld'
    BY <1>1, <1>7 DEF TokenHeld
  <1>12. SectionsTold'
    <2>1. \A s \in Panel!Sections : (s \in loaded' <=> s \in loaded) /\ (s \in errors' <=> s \in errors)
      BY <1>1, SectionNames
    <2> QED BY <1>1, <1>4, <2>1 DEF PanelInv, SectionsTold
  <1>13. AlertTold'
    BY <1>1, <1>4 DEF AlertTold
  <1> QED BY <1>8, <1>9, <1>10, <1>11, <1>12, <1>13 DEF PanelInv

LEMMA PanelOverviewFails ==
  ASSUME PanelInv, Panel!OverviewFails
  PROVE  PanelInv'
  <1>1. PICK c \in calls :
          /\ c.to = "overview" /\ errors' = errors \cup {"overview"} /\ load' = None /\ calls' = calls \ {c}
          /\ UNCHANGED <<session, token, stored, panel, growth, growthOff, data, loaded, alert, unseen>>
    BY DEF Panel!OverviewFails
  <1>2. load = "overview" /\ \A d \in calls : d.to = "overview" => d = c
    BY <1>1 DEF PanelInv, OneLoad
  <1>3. \A d : d.to \in Panel!Sections => (d \in calls <=> d \in calls')
    BY <1>1, SectionNames
  <1>4. \A d \in calls' : d.to # "overview" /\ d.to \notin Plain
    BY <1>1, <1>2 DEF PanelInv, OneLoad
  <1>5. OwnSession'
    BY <1>1 DEF PanelInv, OwnSession
  <1>6. OneLoad'
    BY <1>1, <1>4, SectionsAreDistinct DEF OneLoad
  <1>7. GrowthKnown'
    BY <1>1, <1>3, SectionNames DEF PanelInv, GrowthKnown
  <1>8. TokenHeld'
    BY <1>1 DEF PanelInv, TokenHeld
  <1>9. SectionsTold'
    <2>1. \A s \in Panel!Sections : s \in errors' <=> s \in errors
      BY <1>1, SectionNames
    <2> QED BY <1>1, <1>3, <2>1, SectionNames DEF PanelInv, SectionsTold
  <1>10. AlertTold'
    BY <1>1, <1>2, SectionNames DEF PanelInv, AlertTold
  <1> QED BY <1>5, <1>6, <1>7, <1>8, <1>9, <1>10 DEF PanelInv

LEMMA PanelRefreshGrowth ==
  ASSUME PanelInv, Panel!RefreshGrowth
  PROVE  PanelInv'
  <1> DEFINE R(s) == [to |-> s, tok |-> token, s |-> session]
             New == {R(s) : s \in Growth}
  <1>1. /\ growth' = "alone" /\ calls' = calls \cup New
        /\ UNCHANGED <<session, panel, load, data, loaded, errors, alert, unseen>> /\ UNCHANGED <<token, stored>>
    BY DEF Panel!RefreshGrowth, Panel!login
  <1>2. \A s \in Growth : R(s).to = s /\ R(s).s = session
    OBVIOUS
  <1> HIDE DEF R
  <1>3. \A n \in New : n.s = session /\ n.to \in Growth
    BY <1>2
  <1>4. \E n \in New : n.to \in Growth
    BY <1>2, SectionsAreDistinct
  <1> HIDE DEF New
  <1>5. OwnSession'
    BY <1>1, <1>3 DEF PanelInv, OwnSession
  <1>6. OneLoad'
    <2>1. \A n \in New : n.to # "overview" /\ n.to \notin Plain
      BY <1>3, SectionNames
    <2>2. calls \subseteq calls' /\ load' = load
      BY <1>1
    <2>3. \A d \in calls' : d \in calls \/ (d.to # "overview" /\ d.to \notin Plain)
      BY <1>1, <2>1
    <2> QED BY <2>2, <2>3 DEF PanelInv, OneLoad
  <1>7. GrowthKnown'
    BY <1>1, <1>4, SectionsAreDistinct DEF GrowthKnown
  <1>8. TokenHeld'
    BY <1>1 DEF PanelInv, TokenHeld
  <1>9. SectionsTold' /\ AlertTold'
    BY <1>1 DEF PanelInv, SectionsTold, AlertTold
  <1> QED BY <1>5, <1>6, <1>7, <1>8, <1>9 DEF PanelInv

\* What follows a section: the alerts are drawn anew, and a load that waited for
\* the last of them ends or starts again.
LEMMA PanelSectionDone ==
  ASSUME PanelInv, NEW c \in calls, c.to \in Panel!Sections, Panel!SectionDone(c, data', errors'),
         data' \in [Panel!Sections -> Reports], \A s \in Panel!Sections : data'[s].of \in {None, session},
         loaded \subseteq loaded', c.to \in loaded' \/ c.to \in errors',
         \A s \in Panel!Sections : s \in loaded \/ s \in errors => s \in loaded' \/ s \in errors',
         \A s \in Panel!Sections : s \in loaded' /\ s \notin errors' => data'[s].said \in {"quiet", "open"}
  PROVE  PanelInv'
  <1> DEFINE rest == calls \ {c}
             growing == \E o \in rest : o.to \in Growth
             more == \E o \in rest : o.to \in (IF growth = "alone" THEN Panel!Sections \ Growth ELSE Panel!Sections)
             n == Panel!Overview(token)
  <1>1. /\ alert' = Panel!Alert(data', errors')
        /\ growth' = IF growing THEN growth ELSE None
        /\ growthOff' = (growthOff /\ growing)
        /\ UNCHANGED <<session, token, panel>>
    BY DEF Panel!SectionDone
  <1>2. n.to = "overview" /\ n.s = session
    BY DEF Panel!Overview
  <1> HIDE DEF n
  <1> DEFINE Kept == /\ OneLoad' /\ TokenHeld' /\ \A d \in calls' : d.s = session
                     /\ \A d : d.to \in Panel!Sections => (d \in calls' <=> d \in rest)
  <1>3. ASSUME load = "sections" /\ ~more PROVE Kept
    <2>1. \/ load' = "overview" /\ calls' = rest \cup {n}
          \/ load' = None /\ calls' = rest
      BY <1>3 DEF Panel!SectionDone, Panel!LoadEnds, n
    <2>2. token # None
      BY <1>3, SectionsAreDistinct DEF PanelInv, TokenHeld
    <2>3. \A d \in rest : d.to # "overview" /\ d.to \notin Plain
      BY <1>3, SectionNames DEF PanelInv, OneLoad, Plain
    <2>4. OneLoad'
      <3>1. \A d \in calls' : d.to \notin Plain /\ (d.to = "overview" => load' = "overview" /\ d = n)
        BY <1>2, <2>1, <2>3, SectionNames
      <3>2. load' # "sections" /\ (load' = "overview" => \E d \in calls' : d.to = "overview")
        BY <1>2, <2>1, SectionsAreDistinct
      <3> QED BY <3>1, <3>2 DEF OneLoad
    <2>5. TokenHeld'
      BY <1>1, <2>2 DEF TokenHeld
    <2>6. \A d \in calls' : d.s = session
      BY <1>2, <2>1 DEF PanelInv, OwnSession
    <2>7. \A d : d.to \in Panel!Sections => (d \in calls' <=> d \in rest)
      BY <1>2, <2>1, SectionNames
    <2> QED BY <2>4, <2>5, <2>6, <2>7
  <1>4. ASSUME ~(load = "sections" /\ ~more) PROVE Kept
    <2>1. calls' = rest /\ UNCHANGED <<load, stored>>
      BY <1>4 DEF Panel!SectionDone
    <2>2. OneLoad'
      <3>1. load = "sections" => \E d \in rest : d.to \in Panel!Sections
        BY <1>4
      <3>2. load = "overview" => \E d \in rest : d.to = "overview"
        BY SectionNames DEF PanelInv, OneLoad
      <3> QED BY <2>1, <3>1, <3>2 DEF PanelInv, OneLoad
    <2>3. TokenHeld'
      BY <1>1, <2>1 DEF PanelInv, TokenHeld
    <2>4. \A d \in calls' : d.s = session
      BY <2>1 DEF PanelInv, OwnSession
    <2> QED BY <2>1, <2>2, <2>3, <2>4
  <1>5. Kept
    BY <1>3, <1>4
  <1> HIDE DEF Kept
  <1>6. OwnSession'
    BY <1>1, <1>5 DEF Kept, PanelInv, OwnSession
  <1>7. GrowthKnown'
    <2>1. growing <=> \E o \in calls' : o.to \in Growth
      BY <1>5, SectionNames DEF Kept
    <2>2. growing => growth # None
      BY DEF PanelInv, GrowthKnown
    <2> HIDE DEF growing
    <2> QED BY <1>1, <2>1, <2>2 DEF GrowthKnown
  <1>8. SectionsTold'
    <2>1. \A s \in Plain : s \in loaded' \/ s \in errors' \/ ~(\E d \in calls : d.to = s) \/ \E d \in calls' : d.to = s
      BY <1>5, SectionNames DEF Kept
    <2> QED BY <1>1, <2>1, SectionNames DEF PanelInv, SectionsTold
  <1>9. AlertTold'
    BY <1>1 DEF AlertTold, Panel!Alert, Panel!Waits, Plain
  <1> QED BY <1>5, <1>6, <1>7, <1>8, <1>9 DEF Kept, PanelInv

LEMMA PanelSectionReply ==
  ASSUME PanelInv, NEW said \in {"quiet", "open"}, Panel!SectionReply(said)
  PROVE  PanelInv'
  <1>1. PICK c \in calls :
          /\ c.to \in Panel!Sections
          /\ data' = [data EXCEPT ![c.to] = [said |-> said, of |-> c.s]]
          /\ loaded' = loaded \cup {c.to} /\ errors' = errors \ {c.to}
          /\ Panel!SectionDone(c, data', errors')
    BY DEF Panel!SectionReply
  <1> DEFINE r == [said |-> said, of |-> c.s]
  <1>2. c.s = session /\ session \in Int /\ data \in [Panel!Sections -> Reports]
    BY DEF PanelInv, OwnSession
  <1>3. r \in Reports /\ r.of = session /\ r.said = said
    BY <1>2 DEF Reports
  <1>4. data' = [data EXCEPT ![c.to] = r]
    BY <1>1
  <1> HIDE DEF r
  <1>5. /\ data' \in [Panel!Sections -> Reports] /\ data'[c.to] = r
        /\ \A s \in Panel!Sections \ {c.to} : data'[s] = data[s]
    BY <1>1, <1>2, <1>3, <1>4
  <1>6. \A s \in Panel!Sections : data'[s].of \in {None, session}
    BY <1>3, <1>5 DEF PanelInv, OwnSession
  <1>7. \A s \in Panel!Sections : s \in loaded' /\ s \notin errors' => data'[s].said \in {"quiet", "open"}
    BY <1>1, <1>3, <1>5 DEF PanelInv, SectionsTold
  <1> QED BY <1>1, <1>5, <1>6, <1>7, PanelSectionDone

LEMMA PanelSectionFails ==
  ASSUME PanelInv, Panel!SectionFails
  PROVE  PanelInv'
  <1>1. PICK c \in calls :
          /\ c.to \in Panel!Sections
          /\ data' = [data EXCEPT ![c.to] = IF Panel!Forgets(c.to) THEN Panel!Empty ELSE @]
          /\ errors' = errors \cup {c.to} /\ loaded' = loaded
          /\ Panel!SectionDone(c, data', errors')
    BY DEF Panel!SectionFails
  <1>2. data \in [Panel!Sections -> Reports] /\ \A s \in Panel!Sections : data[s].of \in {None, session}
    BY DEF PanelInv, OwnSession
  <1>3. /\ data' \in [Panel!Sections -> Reports] /\ data'[c.to] \in {Panel!Empty, data[c.to]}
        /\ \A s \in Panel!Sections \ {c.to} : data'[s] = data[s]
    BY <1>1, <1>2, EmptyReport
  <1>4. \A s \in Panel!Sections : data'[s].of \in {None, session}
    BY <1>1, <1>2, <1>3, EmptyReport
  <1>5. \A s \in Panel!Sections : s \in loaded' /\ s \notin errors' => data'[s].said \in {"quiet", "open"}
    BY <1>1, <1>3 DEF PanelInv, SectionsTold
  <1> QED BY <1>1, <1>3, <1>4, <1>5, PanelSectionDone

\* A list that is read alone leaves the alerts as they were, and says so.
LEMMA PanelReadAlone ==
  ASSUME PanelInv, NEW x \in Lone, Panel!ReadAlone(x)
  PROVE  PanelInv'
  <1>1. /\ panel /\ UNCHANGED <<session, panel, load, growth, growthOff, calls, alert, token, stored>>
        /\ unseen' = unseen \cup {x}
    BY DEF Panel!ReadAlone, Panel!login
  <1>2. x \in Plain /\ x \in Panel!Sections /\ x # "overview"
    BY SectionsAreDistinct DEF Plain, Panel!Sections
  <1>3. session \in Int /\ data \in [Panel!Sections -> Reports]
    BY DEF PanelInv, OwnSession
  <1>4. /\ data' \in [Panel!Sections -> Reports] /\ \A s \in Panel!Sections \ {x} : data'[s] = data[s]
        /\ \A s \in Panel!Sections : data'[s].of \in {None, session}
        /\ \A s \in Panel!Sections \ {x} : (s \in loaded' <=> s \in loaded) /\ (s \in errors' <=> s \in errors)
        /\ "overview" \in loaded => "overview" \in loaded'
        /\ x \in loaded' \/ x \in errors'
        /\ x \in loaded' /\ x \notin errors' => data'[x].said \in {"quiet", "open"}
    <2>1. CASE errors' = errors \cup {x} /\ UNCHANGED <<data, loaded>>
      BY <1>2, <1>3, <2>1 DEF PanelInv, OwnSession
    <2>2. ASSUME NEW said \in {"quiet", "open"}, data' = [data EXCEPT ![x] = [said |-> said, of |-> session]],
                 loaded' = loaded \cup {x}, errors' = errors \ {x}
          PROVE  <1>4
      <3> DEFINE r == [said |-> said, of |-> session]
      <3>1. r \in Reports /\ r.of = session /\ r.said = said
        BY <1>3 DEF Reports
      <3>2. data' = [data EXCEPT ![x] = r]
        BY <2>2
      <3> HIDE DEF r
      <3> QED BY <1>2, <1>3, <2>2, <3>1, <3>2 DEF PanelInv, OwnSession
    <2> QED BY <2>1, <2>2 DEF Panel!ReadAlone
  <1>5. OwnSession' /\ OneLoad' /\ GrowthKnown' /\ TokenHeld'
    BY <1>1, <1>4 DEF PanelInv, OwnSession, OneLoad, GrowthKnown, TokenHeld
  <1>6. SectionsTold'
    BY <1>1, <1>2, <1>4 DEF PanelInv, SectionsTold, Plain
  <1>7. AlertTold'
    BY <1>1, <1>4 DEF PanelInv, AlertTold, Plain
  <1> QED BY <1>5, <1>6, <1>7 DEF PanelInv

LEMMA PanelStep == PanelInv /\ Panel!Next => PanelInv'
  BY PanelRefresh, PanelOverviewReply, PanelOverviewFails, PanelSectionFails, PanelRefreshGrowth, PanelSectionReply,
     PanelEnds, PanelSignIn, PanelKeyForm, PanelVerifyReply, PanelReadAlone
  DEF Panel!Next, Panel!Refused, Panel!LogOut

\* The console shows its own session, and "no urgent alert" only when it knew of
\* every section as the alerts were drawn (loadAdmin, renderAdminAlerts,
\* endAdminSession); a list read alone since is excepted. For any sections,
\* tokens, loads and sessions.
THEOREM PanelStaysTrue == Spec => []PanelTrue
  <1> DEFINE Inv == part = "panel" => PanelInv
  <1>1. Init => Inv
    BY PanelInitially DEF Init
  <1>2. Inv /\ [Next]_vars => Inv'
    <2>1. CASE part = "panel" /\ Panel!Next /\ part' = part
      BY <2>1, PanelStep
    <2>2. CASE UNCHANGED <<part, panelVars>>
      BY <2>2, PanelStutter
    <2>3. [Next]_vars => (part = "panel" /\ Panel!Next /\ part' = part) \/ UNCHANGED <<part, panelVars>>
      BY DEF Next, vars
    <2> HIDE DEF Inv
    <2> QED BY <2>1, <2>2, <2>3 DEF Inv
  <1>3. Inv => PanelTrue
    <2> SUFFICES ASSUME PanelInv PROVE Panel!PanelTrue
      BY DEF PanelTrue
    <2>1. ASSUME panel, load = None, alert = "clear", NEW s \in Panel!Sections \ (Growth \cup unseen)
          PROVE  s \in loaded /\ s \notin errors /\ data[s].said = "quiet"
      <3>1. s \in Plain /\ s \notin errors /\ data[s].said # "open"
        BY <2>1, SectionsAreDistinct DEF PanelInv, AlertTold, Plain
      <3>2. s \in loaded
        BY <2>1, <3>1, SectionsAreDistinct DEF PanelInv, SectionsTold, OneLoad, Plain
      <3> QED BY <3>1, <3>2 DEF PanelInv, SectionsTold
    <2> QED BY <2>1 DEF Panel!PanelTrue, PanelInv, OwnSession, OneLoad, GrowthKnown, TokenHeld, SectionsTold
  <1> QED BY <1>1, <1>2, <1>3, PTL DEF Spec
=============================================================================
