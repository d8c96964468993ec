--------------------------- MODULE AdminReferrals ---------------------------
(***************************************************************************)
(* Releasing referral rewards in the console (admin.js): a form per reward *)
(* with an evidence text and a confirmation that is valid for five minutes *)
(* and only while the form is in use, redrawn whenever the console reloads *)
(* and answered late or never.                                             *)
(***************************************************************************)
EXTENDS Integers, FiniteSets

CONSTANTS
  Rewards, None,
  TTL,      \* ticks a confirmation stays valid
  MaxDraws  \* bound: times the queue is drawn

VARIABLES
  visible,  \* the referrals are the view shown, in a visible page
  forms,    \* per reward: None or [ready, evidence, checked, age, enabled, done]
  drafts,   \* adminReferralDrafts: rewards with an evidence text
  draws,    \* times the queue was drawn; names the forms of a drawing
  asking,   \* None, or the reward of the open confirmation window
  calls,    \* releases on their way: [reward, draw, served]
  released, \* server: released rewards
  left,     \* history: per reward, the form was left since it was confirmed
  sent      \* history: [age, left, ready] of every release when it was sent

vars == <<visible, forms, drafts, draws, asking, calls, released, left, sent>>

Init ==
  /\ visible = TRUE /\ forms = [r \in Rewards |-> None] /\ drafts = {} /\ draws = 0 /\ asking = None
  /\ calls = {} /\ released = {} /\ left = [r \in Rewards |-> FALSE] /\ sent = {}

\* adminReferralConfirmationFresh
Fresh(f) == f.checked /\ f.age <= TTL

\* syncAdminReferralReleaseForm: the button follows the form.
Synced(f) == [f EXCEPT !.enabled = f.ready /\ Fresh(f) /\ f.evidence]

\* resetAdminReferralConfirmation
Reset(f) == IF f = None \/ f.done THEN f ELSE Synced([f EXCEPT !.checked = FALSE, !.age = 0])

\* renderAdminReferrals: new forms, with the drafts of the rewards in the queue
\* that was read; the drafts of others go. The queue may have been read before a
\* reward was released, and lists only the first of many. The confirmation
\* window blocks the page's scripts, this one among them.
Draw(queue, actionable) ==
  /\ asking = None /\ draws < MaxDraws /\ actionable \subseteq queue
  /\ draws' = draws + 1
  /\ drafts' = drafts \cap queue
  /\ forms' = [r \in Rewards |-> IF r \notin queue THEN None
                ELSE [ready |-> r \in actionable, evidence |-> r \in drafts, checked |-> FALSE, age |-> 0,
                      enabled |-> FALSE, done |-> FALSE]]
  /\ UNCHANGED <<visible, asking, calls, released, left, sent>>

\* The queue could not be read: its forms go, the drafts stay.
DrawError ==
  /\ asking = None /\ draws < MaxDraws
  /\ draws' = draws + 1
  /\ forms' = [r \in Rewards |-> None]
  /\ UNCHANGED <<visible, drafts, asking, calls, released, left, sent>>

Usable(r) == visible /\ asking = None /\ forms[r] # None /\ forms[r].ready /\ ~forms[r].done

\* The evidence is typed or emptied; also while a release is on its way.
TypeEvidence(r) ==
  /\ Usable(r)
  /\ forms' = [forms EXCEPT ![r] = Synced([@ EXCEPT !.evidence = ~forms[r].evidence])]
  /\ drafts' = IF forms[r].evidence THEN drafts \ {r} ELSE drafts \cup {r}
  /\ UNCHANGED <<visible, draws, asking, calls, released, left, sent>>

Confirm(r) ==
  /\ Usable(r)
  /\ forms' = [forms EXCEPT ![r] = IF @.checked THEN Reset(@) ELSE Synced([@ EXCEPT !.checked = TRUE, !.age = 0])]
  /\ left' = [left EXCEPT ![r] = FALSE]
  /\ UNCHANGED <<visible, drafts, draws, asking, calls, released, sent>>

\* Focus leaves the form.
LeaveForm(r) ==
  /\ Usable(r)
  /\ forms' = [forms EXCEPT ![r] = Reset(@)]
  /\ left' = [left EXCEPT ![r] = TRUE]
  /\ UNCHANGED <<visible, drafts, draws, asking, calls, released, sent>>

\* Another view is chosen or the page is hidden: every confirmation is reset.
HideView ==
  /\ visible /\ asking = None
  /\ visible' = FALSE
  /\ forms' = [r \in Rewards |-> Reset(forms[r])]
  /\ left' = [r \in Rewards |-> TRUE]
  /\ UNCHANGED <<drafts, draws, asking, calls, released, sent>>

ShowView ==
  /\ ~visible /\ visible' = TRUE
  /\ UNCHANGED <<forms, drafts, draws, asking, calls, released, left, sent>>

\* Time passes, also while the confirmation window blocks the page.
Time ==
  /\ \E r \in Rewards : forms[r] # None /\ forms[r].checked /\ forms[r].age <= TTL
  /\ forms' = [r \in Rewards |-> IF forms[r] = None \/ ~forms[r].checked \/ forms[r].age > TTL THEN forms[r]
                                 ELSE [forms[r] EXCEPT !.age = @ + 1]]
  /\ UNCHANGED <<visible, drafts, draws, asking, calls, released, left, sent>>

\* The form's own timer, which may be late and cannot run in a blocked page.
Expire(r) ==
  /\ asking = None /\ forms[r] # None /\ forms[r].checked /\ forms[r].age > TTL
  /\ forms' = [forms EXCEPT ![r] = Reset(@)]
  /\ UNCHANGED <<visible, drafts, draws, asking, calls, released, left, sent>>

\* releaseAdminReferral up to window.confirm.
Submit(r) ==
  /\ Usable(r) /\ forms[r].enabled
  /\ IF Fresh(forms[r]) THEN asking' = r /\ UNCHANGED forms
     ELSE forms' = [forms EXCEPT ![r] = Reset(@)] /\ UNCHANGED asking
  /\ UNCHANGED <<visible, drafts, draws, calls, released, left, sent>>

\* Mutant: the five minutes are checked before the window only.
FreshWhenAsked(f) == f.checked

\* Whether the confirmation still counts when the window has been answered.
StillFresh(f) == Fresh(f)

Answer(yes) ==
  /\ asking # None /\ asking' = None
  /\ LET f == forms[asking] IN
     IF yes /\ StillFresh(f)
     THEN /\ forms' = [forms EXCEPT ![asking].enabled = FALSE]
          /\ calls' = calls \cup {[reward |-> asking, draw |-> draws, served |-> FALSE]}
          /\ sent' = sent \cup {[age |-> f.age, left |-> left[asking], ready |-> f.ready]}
     ELSE forms' = [forms EXCEPT ![asking] = Reset(@)] /\ UNCHANGED <<calls, sent>>
  /\ UNCHANGED <<visible, drafts, draws, released, left>>

Serve ==
  \E c \in calls :
    /\ ~c.served
    /\ calls' = (calls \ {c}) \cup {[c EXCEPT !.served = TRUE]}
    /\ released' = released \cup {c.reward}
    /\ UNCHANGED <<visible, forms, drafts, draws, asking, left, sent>>

\* The form of the call is still on the page.
Connected(c) == c.draw = draws /\ forms[c.reward] # None

\* The reward is released or was blocked: its form is finished.
ReleaseReply ==
  \E c \in calls :
    /\ asking = None /\ c.served
    /\ calls' = calls \ {c}
    /\ drafts' = drafts \ {c.reward}
    /\ forms' = IF ~Connected(c) THEN forms
                ELSE [forms EXCEPT ![c.reward] = [@ EXCEPT !.checked = FALSE, !.enabled = FALSE, !.done = TRUE]]
    /\ UNCHANGED <<visible, draws, asking, released, left, sent>>

\* No answer: the form may be sent again while its confirmation is fresh.
ReleaseFails ==
  \E c \in calls :
    /\ asking = None
    /\ calls' = calls \ {c}
    /\ forms' = IF ~Connected(c) \/ forms[c.reward].done THEN forms
                ELSE [forms EXCEPT ![c.reward] = Synced(@)]
    /\ UNCHANGED <<visible, drafts, draws, asking, released, left, sent>>

Next ==
  \/ \E queue \in SUBSET Rewards : \E ready \in SUBSET queue : Draw(queue, ready)
  \/ \E r \in Rewards : TypeEvidence(r) \/ Confirm(r) \/ LeaveForm(r) \/ Expire(r) \/ Submit(r)
  \/ DrawError \/ HideView \/ ShowView \/ Time \/ Serve \/ ReleaseReply \/ ReleaseFails
  \/ \E yes \in BOOLEAN : Answer(yes)

Spec == Init /\ [][Next]_vars

-----------------------------------------------------------------------------
\* A reward is released only on a confirmation that is at most five minutes old
\* when the release is sent, however long the confirmation window stood open,
\* was given since the administrator last left the form, and concerns a reward
\* the queue said may be released. The form of a reward still to be released
\* holds an evidence text exactly when the draft is kept for the next drawing,
\* in whatever order drawings, typing and answers come; and no confirmation
\* outlives the view.
ReleaseConfirmed ==
  /\ \A s \in sent : s.age <= TTL /\ ~s.left /\ s.ready
  /\ \A r \in Rewards : forms[r] # None /\ ~forms[r].done /\ r \notin released =>
       (forms[r].evidence <=> r \in drafts)
  /\ ~visible => \A r \in Rewards : forms[r] # None => ~forms[r].checked
=============================================================================
