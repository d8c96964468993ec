----------------------------- MODULE RewardedAd -----------------------------
(***************************************************************************)
(* One rewarded ad (rewarded-ads.js and the account page's button in       *)
(* rollout.js): a session from the server, the provider's script and slot, *)
(* the provider's events in any order, events reported to the server one   *)
(* after another, a close that waits for a late grant, one deadline over   *)
(* everything, and the claim with its single retry.                        *)
(***************************************************************************)
EXTENDS Integers, Sequences, FiniteSets, SequencesExt

CONSTANT None

VARIABLES
  phase,     \* "idle", "session", "loading", "command", "slot", "claim", "claim2", "over"
  late,      \* the deadline of show() has passed
  expired,   \* the deadline of the claim has passed
  slot,      \* [ready, visible, grantPending, granted, closed] of the slot
  queue,     \* eventQueue: reports to the server still to be answered
  broken,    \* a queued report failed; all later ones fail with it
  finishing, \* None or [result, abandon]: finish() or cleanup() has started
  result,    \* None, "true", "false" or "error": how show() settled
  slotOpen,  \* the provider's slot and listeners exist
  reports,   \* history: reports the server has accepted, in order
  claims,    \* claims the server has received
  credited,  \* server: minutes were added for the session
  enabled    \* the button

vars == <<phase, late, expired, slot, queue, broken, finishing, result, slotOpen, reports, claims, credited, enabled>>

Fresh == [ready |-> FALSE, visible |-> FALSE, grantPending |-> FALSE, granted |-> FALSE, closed |-> FALSE]

Init ==
  /\ phase = "idle" /\ late = FALSE /\ expired = FALSE /\ slot = Fresh
  /\ queue = <<>> /\ broken = FALSE /\ finishing = None /\ result = None /\ slotOpen = FALSE
  /\ reports = <<>> /\ claims = 0 /\ credited = FALSE /\ enabled = TRUE

-----------------------------------------------------------------------------
(* The button, the session and the provider's script *)

Click ==
  /\ phase = "idle" /\ enabled
  /\ phase' = "session" /\ enabled' = FALSE
  /\ UNCHANGED <<late, expired, slot, queue, broken, finishing, result, slotOpen, reports, claims, credited>>

\* The session is refused, or too little of it is left for an ad.
SessionFails ==
  /\ phase = "session"
  /\ phase' = "over" /\ enabled' = TRUE
  /\ UNCHANGED <<late, expired, slot, queue, broken, finishing, result, slotOpen, reports, claims, credited>>

SessionReply ==
  /\ phase = "session"
  /\ phase' = "loading"
  /\ UNCHANGED <<late, expired, slot, queue, broken, finishing, result, slotOpen, reports, claims, credited, enabled>>

\* The script cannot be loaded, consent is missing or time is up: the server is
\* told if there is time, and the button comes back.
LoadFails ==
  /\ phase = "loading"
  /\ reports' \in {reports} \cup IF late THEN {} ELSE {Append(reports, "abandoned")}
  /\ result' = "error" /\ phase' = "over" /\ enabled' = TRUE
  /\ UNCHANGED <<late, expired, slot, queue, broken, finishing, slotOpen, claims, credited>>

Loaded ==
  /\ phase = "loading" /\ ~late
  /\ phase' = "command"
  /\ UNCHANGED <<late, expired, slot, queue, broken, finishing, result, slotOpen, reports, claims, credited, enabled>>

-----------------------------------------------------------------------------
(* Finishing *)

\* finish(): only the first caller decides.
Finish(r, abandon) == finishing' = IF finishing = None THEN [result |-> r, abandon |-> abandon] ELSE finishing

\* startSlot: the provider runs the command; it may offer no slot.
StartSlot(defined) ==
  /\ phase = "command" /\ finishing = None
  /\ phase' = "slot"
  /\ IF defined THEN slotOpen' = TRUE /\ UNCHANGED finishing
     ELSE slotOpen' = FALSE /\ Finish("error", TRUE)
  /\ UNCHANGED <<late, expired, slot, queue, broken, result, reports, claims, credited, enabled>>

CommandTimeout ==
  /\ phase = "command" /\ late /\ finishing = None
  /\ phase' = "slot" /\ Finish("error", TRUE)
  /\ UNCHANGED <<late, expired, slot, queue, broken, result, slotOpen, reports, claims, credited, enabled>>

\* The listeners are gone once cleanup has begun.
Listening == phase = "slot" /\ slotOpen /\ finishing = None

Queued(report) == queue' = Append(queue, report)

\* rewardedSlotReady; a grant that came first is recorded now.
OnReady(visible) ==
  /\ Listening /\ ~slot.ready
  /\ slot' = [slot EXCEPT !.ready = TRUE, !.visible = visible, !.granted = @ \/ (visible /\ slot.grantPending)]
  /\ IF visible
     THEN queue' = queue \o (IF slot.grantPending THEN <<"presented", "granted">> ELSE <<"presented">>)
          /\ UNCHANGED finishing
     ELSE Finish("error", TRUE) /\ UNCHANGED queue
  /\ UNCHANGED <<phase, late, expired, broken, result, slotOpen, reports, claims, credited, enabled>>

\* Mutant: a grant is reported before the slot is ready.
GrantAtOnce ==
  /\ Listening /\ ~slot.granted
  /\ slot' = [slot EXCEPT !.granted = TRUE] /\ Queued("granted")
  /\ UNCHANGED <<phase, late, expired, broken, finishing, result, slotOpen, reports, claims, credited, enabled>>

\* rewardedSlotGranted: before the slot is ready it is only remembered.
OnGranted ==
  /\ Listening /\ ~slot.granted
  /\ IF ~slot.ready THEN slot' = [slot EXCEPT !.grantPending = TRUE] /\ UNCHANGED queue
     ELSE slot' = [slot EXCEPT !.granted = TRUE] /\ Queued("granted")
  /\ UNCHANGED <<phase, late, expired, broken, finishing, result, slotOpen, reports, claims, credited, enabled>>

\* rewardedSlotClosed: without a grant it waits a while for one; at the
\* deadline it gives up at once.
OnClosed ==
  /\ Listening /\ ~slot.closed
  /\ slot' = [slot EXCEPT !.closed = TRUE]
  /\ IF ~slot.granted /\ late THEN Finish("false", TRUE) ELSE UNCHANGED finishing
  /\ UNCHANGED <<phase, late, expired, queue, broken, result, slotOpen, reports, claims, credited, enabled>>

\* The grace of 5 seconds is over; it replaces the deadline's timer.
CloseGrace ==
  /\ Listening /\ slot.closed /\ ~slot.granted
  /\ Finish("false", TRUE)
  /\ UNCHANGED <<phase, late, expired, slot, queue, broken, result, slotOpen, reports, claims, credited, enabled>>

OnRenderedEmpty ==
  /\ Listening
  /\ Finish("error", TRUE)
  /\ UNCHANGED <<phase, late, expired, slot, queue, broken, result, slotOpen, reports, claims, credited, enabled>>

\* The deadline's timer: a settled grant is only cleaned up.
OverallTimeout ==
  /\ Listening /\ late /\ (slot.closed => slot.granted)
  /\ IF result # None /\ slot.granted THEN Finish(result, FALSE) ELSE Finish("error", ~slot.granted)
  /\ UNCHANGED <<phase, late, expired, slot, queue, broken, result, slotOpen, reports, claims, credited, enabled>>

-----------------------------------------------------------------------------
(* Reports: one call at a time, none after the deadline *)

Settle(r) == result' = IF result = None THEN r ELSE result

\* The first queued report is answered. After the grant's report show() is
\* settled; once the ad is closed as well it is cleaned up.
ReportAccepted ==
  /\ queue # <<>> /\ ~broken /\ ~late
  /\ queue' = Tail(queue)
  /\ reports' = Append(reports, Head(queue))
  /\ IF Head(queue) = "granted"
     THEN Settle("true") /\ (IF slot.closed THEN Finish("true", FALSE) ELSE UNCHANGED finishing)
     ELSE UNCHANGED <<result, finishing>>
  /\ UNCHANGED <<phase, late, expired, slot, broken, slotOpen, claims, credited, enabled>>

\* A report fails, is lost after it was accepted, or meets the deadline.
ReportFails(accepted) ==
  /\ queue # <<>> /\ ~broken /\ (late => ~accepted)
  /\ broken' = TRUE /\ queue' = <<>>
  /\ reports' = IF accepted THEN Append(reports, Head(queue)) ELSE reports
  /\ Finish("error", Head(queue) = "presented")
  /\ UNCHANGED <<phase, late, expired, slot, result, slotOpen, claims, credited, enabled>>

\* A close after the grant settles when the reports are through.
ClosedAfterGrant ==
  /\ Listening /\ slot.closed /\ slot.granted /\ queue = <<>> /\ ~broken
  /\ Settle("true") /\ Finish("true", FALSE)
  /\ UNCHANGED <<phase, late, expired, slot, queue, broken, slotOpen, reports, claims, credited, enabled>>

\* Whether finish() still tells the server that the ad was abandoned.
Abandons == finishing.abandon /\ ~slot.granted

\* cleanup() has awaited the queue: the ad is abandoned unless granted, the slot
\* destroyed, show() settled.
Cleanup ==
  /\ phase = "slot" /\ finishing # None /\ queue = <<>>
  /\ reports' \in {reports} \cup IF Abandons /\ ~late THEN {Append(reports, "abandoned")} ELSE {}
  /\ slotOpen' = FALSE
  /\ Settle(IF broken THEN "error" ELSE finishing.result)
  /\ IF result' = "true" THEN UNCHANGED <<phase, enabled>> ELSE phase' = "over" /\ enabled' = TRUE
  /\ finishing' = IF result' = "true" THEN [finishing EXCEPT !.abandon = FALSE] ELSE finishing
  /\ <<slotOpen', phase', result'>> # <<slotOpen, phase, result>>
  /\ UNCHANGED <<late, expired, slot, queue, broken, claims, credited>>

-----------------------------------------------------------------------------
(* The claim *)

StartClaim ==
  /\ phase = "slot" /\ result = "true"
  /\ IF expired THEN phase' = "over" /\ enabled' = TRUE ELSE phase' = "claim" /\ UNCHANGED enabled
  /\ slotOpen' = slotOpen
  /\ UNCHANGED <<late, expired, slot, queue, broken, finishing, result, reports, claims, credited>>

Claiming == phase \in {"claim", "claim2"}

ClaimAccepted ==
  /\ Claiming /\ ~expired
  /\ claims' = claims + 1 /\ credited' = TRUE
  /\ phase' = "over" /\ enabled' \in BOOLEAN
  /\ UNCHANGED <<late, expired, slot, queue, broken, finishing, result, slotOpen, reports>>

\* An answer is lost or too slow: one more try, unless time is up.
RetryPhase == IF phase = "claim" /\ ~expired THEN "claim2" ELSE "over"

ClaimLost(received) ==
  /\ Claiming /\ (expired => ~received)
  /\ claims' = IF received THEN claims + 1 ELSE claims
  /\ credited' = (credited \/ received)
  /\ phase' = RetryPhase
  /\ enabled' = (RetryPhase = "over")
  /\ UNCHANGED <<late, expired, slot, queue, broken, finishing, result, slotOpen, reports>>

\* A refusal with a code is final.
ClaimRefused ==
  /\ Claiming
  /\ claims' = claims + 1
  /\ phase' = "over" /\ enabled' = TRUE
  /\ UNCHANGED <<late, expired, slot, queue, broken, finishing, result, slotOpen, reports, credited>>

\* Time: show() ends at least 10 seconds before the claim's deadline.
Deadline ==
  /\ phase \notin {"idle", "session", "over"}
  /\ IF ~late THEN late' = TRUE /\ UNCHANGED expired ELSE ~expired /\ expired' = TRUE /\ UNCHANGED late
  /\ UNCHANGED <<phase, slot, queue, broken, finishing, result, slotOpen, reports, claims, credited, enabled>>

Next ==
  \/ Click \/ SessionFails \/ SessionReply \/ LoadFails \/ Loaded
  \/ \E d \in BOOLEAN : StartSlot(d) \/ OnReady(d) \/ ReportFails(d) \/ ClaimLost(d)
  \/ CommandTimeout \/ OnGranted \/ OnClosed \/ CloseGrace \/ OnRenderedEmpty \/ OverallTimeout
  \/ ReportAccepted \/ ClosedAfterGrant \/ Cleanup
  \/ StartClaim \/ ClaimAccepted \/ ClaimRefused \/ Deadline

Spec == Init /\ [][Next]_vars

-----------------------------------------------------------------------------
\* A reward is claimed only for an ad that the server knows was presented and
\* then granted, at most once more after a lost answer; an ad that was granted
\* is never reported as abandoned, whatever order the provider's events, the
\* timers and the answers come in; and when all is over the button works again
\* unless the reward was credited, and nothing of a failed ad's slot is left.
RewardSound ==
  /\ "granted" \in ToSet(reports) => "presented" \in ToSet(reports) /\ "abandoned" \notin ToSet(reports)
  /\ \A i, j \in DOMAIN reports : reports[i] = "granted" /\ reports[j] = "presented" => j < i
  /\ Len(reports) <= 2
  /\ result = "true" \/ claims > 0 \/ credited => "granted" \in ToSet(reports)
  /\ claims <= 2
  /\ phase = "over" => enabled \/ credited
  /\ phase = "over" /\ result \in {"false", "error"} => ~slotOpen /\ claims = 0
=============================================================================
