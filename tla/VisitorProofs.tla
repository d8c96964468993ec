---------------------------- MODULE VisitorProofs ---------------------------
(***************************************************************************)
(* Theorems about what every visitor meets: the rewarded ad, the account   *)
(* pages, the checkout, and consent with analytics and ads, for every      *)
(* number of users, sessions, calls, currencies, loads and selections.     *)
(***************************************************************************)
EXTENDS MCSite, Sequences, SequenceTheorems, FiniteSetTheorems, TLAPS

-----------------------------------------------------------------------------
(* RewardedAd *)

Outcomes == {"true", "false", "error"}
Slots == [ready : BOOLEAN, visible : BOOLEAN, grantPending : BOOLEAN, granted : BOOLEAN, closed : BOOLEAN]
Ends == [result : Outcomes, abandon : BOOLEAN]
Early == {"idle", "session", "loading", "command"}

\* The reports the server can have accepted, in their order.
Nothing == <<>>
Presented == <<"presented">>
Granted == <<"presented", "granted">>
Abandoned == {<<"abandoned">>, <<"presented", "abandoned">>}

AdType ==
  /\ slot \in Slots /\ adResult \in Outcomes \cup {None} /\ finishing \in Ends \cup {None} /\ claims \in Int
  /\ phase \in Early \cup {"slot", "claim", "claim2", "over"}

\* Before the slot exists nothing has happened.
Untouched ==
  phase \in Early =>
    /\ reports = Nothing /\ queue = Nothing /\ ~slot.ready /\ adResult = None /\ slotOpen = FALSE /\ claims = 0
    /\ finishing = None /\ broken = FALSE /\ credited = FALSE

\* What the server has accepted and what is still queued make up the ad's course.
Course ==
  /\ reports \in {Nothing, Presented, Granted} \cup Abandoned
  /\ reports \in Abandoned => phase = "over" /\ ~slot.granted /\ claims = 0 /\ ~credited /\ adResult # "true"
  /\ reports = Granted => slot.granted
  /\ ~slot.ready => ~slot.granted /\ reports \notin {Presented, Granted}
  /\ queue # Nothing => phase = "slot" /\ broken = FALSE
  /\ \/ queue = Nothing
     \/ queue = Presented /\ reports = Nothing /\ slot.ready /\ ~slot.granted
     \/ queue = Granted /\ reports = Nothing /\ slot.ready /\ slot.granted
     \/ queue = <<"granted">> /\ reports = Presented /\ slot.ready /\ slot.granted
  /\ broken => finishing # None
  /\ phase = "slot" /\ queue = Nothing /\ ~broken /\ slot.granted => reports = Granted
  /\ phase = "slot" /\ queue = Nothing /\ finishing = None /\ slot.ready /\ ~slot.granted => reports = Presented

\* Every claim follows an accepted grant, and there are two at most.
Claimed ==
  /\ adResult = "true" => reports = Granted
  /\ finishing # None /\ finishing.result = "true" => reports = Granted
  /\ phase \in {"claim", "claim2"} => adResult = "true"
  /\ claims > 0 \/ credited => adResult = "true"
  /\ phase \in {"slot", "claim"} => claims = 0
  /\ phase = "claim2" => claims <= 1
  /\ claims <= 2

\* The button comes back, and a failed ad leaves nothing behind.
Settled ==
  /\ phase = "over" => enabled \/ credited
  /\ phase = "over" /\ adResult \in {"false", "error"} => slotOpen = FALSE /\ claims = 0

AdInv == AdType /\ Untouched /\ Course /\ Claimed /\ Settled

LEMMA AppendSecond ==
  ASSUME NEW a, NEW b
  PROVE  Append(<<a>>, b) = <<a, b>>
  <1> DEFINE s == <<a>>
             t == <<a, b>>
             S == {a, b}
  <1>1. s \in Seq(S) /\ Len(s) = 1 /\ s[1] = a
    OBVIOUS
  <1>2. t \in Seq(S) /\ Len(t) = 2 /\ t[1] = a /\ t[2] = b
    OBVIOUS
  <1>3. b \in S
    OBVIOUS
  <1> HIDE DEF s, t, S
  <1>4. /\ Append(s, b) \in Seq(S) /\ Len(Append(s, b)) = Len(s) + 1
        /\ \A i \in 1..Len(s) : Append(s, b)[i] = s[i]
        /\ Append(s, b)[Len(s) + 1] = b
    BY <1>1, <1>3, AppendProperties, ZenonT(60)
  <1>5. Append(s, b) \in Seq(S) /\ Len(Append(s, b)) = 2 /\ Append(s, b)[1] = a /\ Append(s, b)[2] = b
    BY <1>1, <1>4
  <1>6. \A i \in 1..2 : Append(s, b)[i] = t[i]
    BY <1>2, <1>5
  <1>7. Append(s, b) = t
    BY <1>2, <1>5, <1>6, SeqEqual
  <1> QED BY <1>7 DEF s, t

LEMMA SequenceFacts ==
  /\ Append(Nothing, "presented") = Presented /\ Append(Nothing, "granted") = <<"granted">>
  /\ Append(Presented, "granted") = Granted /\ Append(Nothing, "abandoned") \in Abandoned
  /\ Append(Presented, "abandoned") \in Abandoned
  /\ Nothing \o <<"presented">> = Presented /\ Nothing \o <<"presented", "granted">> = Granted
  /\ Head(Presented) = "presented" /\ Tail(Presented) = Nothing
  /\ Head(Granted) = "presented" /\ Tail(Granted) = <<"granted">>
  /\ Head(<<"granted">>) = "granted" /\ Tail(<<"granted">>) = Nothing
  <1>1. Append(Nothing, "presented") = Presented
    BY DEF Nothing, Presented
  <1>2. Append(Nothing, "granted") = <<"granted">>
    BY DEF Nothing
  <1>3. Append(Presented, "granted") = Granted
    BY AppendSecond DEF Presented, Granted
  <1>4. Append(Nothing, "abandoned") \in Abandoned
    BY DEF Nothing, Abandoned
  <1>5. Append(Presented, "abandoned") \in Abandoned
    BY AppendSecond DEF Presented, Abandoned
  <1>6. Nothing \o <<"presented">> = Presented
    BY DEF Nothing, Presented
  <1>7. Nothing \o <<"presented", "granted">> = Granted
    BY DEF Nothing, Granted
  <1>8. Head(Presented) = "presented" /\ Head(Granted) = "presented" /\ Head(<<"granted">>) = "granted"
    BY DEF Presented, Granted
  <1>9. Tail(Presented) = Nothing
    BY DEF Presented, Nothing
  <1>10. Tail(Granted) = <<"granted">>
    BY DEF Granted
  <1>11. Tail(<<"granted">>) = Nothing
    BY DEF Nothing
  <1> QED BY <1>1, <1>2, <1>3, <1>4, <1>5, <1>6, <1>7, <1>8, <1>9, <1>10, <1>11

LEMMA SequencesDiffer ==
  /\ Nothing # Presented /\ Nothing # Granted /\ Presented # Granted
  /\ <<"granted">> \notin {Nothing, Presented, Granted}
  /\ {Nothing, Presented, Granted} \cap Abandoned = {}
  BY DEF Nothing, Presented, Granted, Abandoned

LEMMA AdInitially == Ad!Init => AdInv
  <1> SUFFICES ASSUME Ad!Init PROVE AdInv
    OBVIOUS
  <1>1. /\ phase = "idle" /\ slot = Ad!Fresh /\ queue = Nothing /\ broken = FALSE /\ finishing = None
        /\ adResult = None /\ slotOpen = FALSE /\ reports = Nothing /\ claims = 0 /\ credited = FALSE
    BY DEF Ad!Init, Nothing
  <1>2. slot \in Slots /\ slot.ready = FALSE /\ slot.granted = FALSE
    BY <1>1 DEF Ad!Fresh, Slots
  <1>3. AdType
    BY <1>1, <1>2 DEF AdType, Early
  <1>4. Untouched
    BY <1>1, <1>2 DEF Untouched
  <1>5. Course
    BY <1>1, <1>2, SequencesDiffer DEF Course
  <1>6. Claimed /\ Settled
    BY <1>1, NoneIsNoOutcome DEF Claimed, Settled
  <1> QED BY <1>3, <1>4, <1>5, <1>6 DEF AdInv

LEMMA AdStutter == AdInv /\ UNCHANGED adVars => AdInv'
  BY DEF adVars, AdInv, AdType, Untouched, Course, Claimed, Settled

\* The page before there is a slot.
LEMMA AdEarly ==
  ASSUME AdInv, Ad!Click \/ Ad!SessionFails \/ Ad!SessionReply \/ Ad!Loaded
  PROVE  AdInv'
  <1>1. /\ phase \in Early /\ phase' \in Early \cup {"over"} /\ (phase' = "over" => enabled' = TRUE)
        /\ UNCHANGED <<late, expired, slot, queue, broken, finishing, adResult, slotOpen, reports, claims, credited>>
    BY DEF Ad!Click, Ad!SessionFails, Ad!SessionReply, Ad!Loaded, Early
  <1>2. /\ reports = Nothing /\ queue = Nothing /\ adResult = None /\ claims = 0 /\ finishing = None /\ broken = FALSE
        /\ credited = FALSE /\ slotOpen = FALSE /\ ~slot.ready
    BY <1>1 DEF AdInv, Untouched
  <1>3. AdType' /\ Untouched'
    BY <1>1 DEF AdInv, AdType, Untouched
  <1>4. Course'
    BY <1>1, <1>2, SequencesDiffer DEF AdInv, Course, Early
  <1>5. Claimed' /\ Settled'
    BY <1>1, <1>2, NoneIsNoOutcome DEF AdInv, Claimed, Settled, Early
  <1> QED BY <1>3, <1>4, <1>5 DEF AdInv

LEMMA AdLoadFails ==
  ASSUME AdInv, Ad!LoadFails
  PROVE  AdInv'
  <1>1. /\ phase = "loading" /\ reports' \in {reports, Append(reports, "abandoned")}
        /\ adResult' = "error" /\ phase' = "over" /\ enabled' = TRUE
        /\ UNCHANGED <<slot, queue, broken, finishing, slotOpen, claims, credited>>
    BY DEF Ad!LoadFails
  <1>2. /\ reports = Nothing /\ queue = Nothing /\ adResult = None /\ claims = 0 /\ finishing = None /\ broken = FALSE
        /\ credited = FALSE /\ slotOpen = FALSE /\ ~slot.ready
    BY <1>1 DEF AdInv, Untouched, Early
  <1>3. reports' \in {Nothing} \cup Abandoned
    BY <1>1, <1>2, SequenceFacts
  <1>4. AdType' /\ Untouched'
    BY <1>1 DEF AdInv, AdType, Untouched, Early, Outcomes
  <1>5. Course'
    BY <1>1, <1>2, <1>3, SequencesDiffer DEF AdInv, Course
  <1>6. Claimed' /\ Settled'
    BY <1>1, <1>2 DEF AdInv, Claimed, Settled
  <1> QED BY <1>4, <1>5, <1>6 DEF AdInv

LEMMA AdFinishes ==
  ASSUME finishing \in Ends \cup {None}, NEW r \in Outcomes, NEW a \in BOOLEAN, Ad!Finish(r, a)
  PROVE  /\ finishing' \in Ends /\ finishing' # None
         /\ finishing # None => finishing' = finishing
         /\ finishing = None => finishing'.result = r
  <1>1. [result |-> r, abandon |-> a] \in Ends /\ [result |-> r, abandon |-> a].result = r
    BY DEF Ends
  <1>2. None \notin Ends
    BY NoneIsNoOutcome DEF Ends, Outcomes
  <1> QED BY <1>1, <1>2 DEF Ad!Finish

\* A slot that changes nothing but its end.
LEMMA AdFinishOnly ==
  ASSUME AdInv, phase = "slot", finishing' \in Ends, finishing' # None,
         finishing # None => finishing' = finishing,
         finishing'.result = "true" => reports = Granted,
         UNCHANGED <<phase, slot, queue, broken, adResult, slotOpen, reports, claims, credited, enabled>>
  PROVE  AdInv'
  <1>1. AdType' /\ Untouched'
    BY DEF AdInv, AdType, Untouched, Early
  <1>2. Course'
    BY DEF AdInv, Course
  <1>3. Claimed' /\ Settled'
    BY DEF AdInv, Claimed, Settled
  <1> QED BY <1>1, <1>2, <1>3 DEF AdInv

LEMMA AdCommand ==
  ASSUME AdInv, (\E d \in BOOLEAN : Ad!StartSlot(d)) \/ Ad!CommandTimeout
  PROVE  AdInv'
  <1>1. /\ phase = "command" /\ phase' = "slot" /\ finishing = None
        /\ (finishing' = finishing \/ Ad!Finish("error", TRUE))
        /\ UNCHANGED <<slot, queue, broken, adResult, reports, claims, credited, enabled>>
    BY DEF Ad!StartSlot, Ad!CommandTimeout
  <1>2. /\ reports = Nothing /\ queue = Nothing /\ adResult = None /\ claims = 0 /\ broken = FALSE
        /\ credited = FALSE /\ ~slot.ready
    BY <1>1 DEF AdInv, Untouched, Early
  <1>3. finishing' \in Ends \cup {None} /\ (finishing' # None => finishing'.result = "error")
    <2>1. CASE finishing' = finishing
      BY <1>1, <2>1
    <2>2. CASE Ad!Finish("error", TRUE)
      BY <1>1, <2>2, AdFinishes DEF Outcomes
    <2> QED BY <1>1, <2>1, <2>2
  <1>4. AdType' /\ Untouched'
    BY <1>1, <1>3 DEF AdInv, AdType, Untouched, Early
  <1>5. Course'
    BY <1>1, <1>2, SequencesDiffer DEF AdInv, Course
  <1>6. Claimed' /\ Settled'
    BY <1>1, <1>2, <1>3, NoneIsNoOutcome DEF AdInv, Claimed, Settled
  <1> QED BY <1>4, <1>5, <1>6 DEF AdInv

\* What a step of the listening slot may rely on.
LEMMA AdListening ==
  ASSUME AdInv, Ad!Listening
  PROVE  /\ phase = "slot" /\ finishing = None /\ slot \in Slots /\ ~broken /\ reports \notin Abandoned
         /\ ~slot.ready => queue = Nothing /\ reports = Nothing /\ ~slot.granted
         /\ slot.ready /\ ~slot.granted =>
              (queue = Presented /\ reports = Nothing) \/ (queue = Nothing /\ reports = Presented)
  <1>1. phase = "slot" /\ finishing = None /\ slot \in Slots
    BY DEF Ad!Listening, AdInv, AdType
  <1>2. ~broken /\ reports \notin Abandoned
    BY <1>1 DEF AdInv, Course
  <1>3. ~slot.ready => queue = Nothing /\ reports = Nothing /\ ~slot.granted
    BY <1>2 DEF AdInv, Course
  <1>4. slot.ready /\ ~slot.granted =>
              (queue = Presented /\ reports = Nothing) \/ (queue = Nothing /\ reports = Presented)
    BY <1>1, <1>2 DEF AdInv, Course
  <1> QED BY <1>1, <1>2, <1>3, <1>4

\* The provider's events change the slot and what is queued, not what is known.
LEMMA AdSlotOnly ==
  ASSUME AdInv, phase = "slot", slot' \in Slots, finishing' \in Ends \cup {None},
         finishing # None => finishing' = finishing,
         finishing' # None /\ finishing'.result = "true" => reports = Granted,
         UNCHANGED <<phase, broken, adResult, slotOpen, reports, claims, credited, enabled>>, Course'
  PROVE  AdInv'
  <1>1. AdType' /\ Untouched'
    BY DEF AdInv, AdType, Untouched, Early
  <1>2. Claimed' /\ Settled'
    BY DEF AdInv, Claimed, Settled
  <1> QED BY <1>1, <1>2 DEF AdInv

LEMMA ReadyIs ==
  ASSUME NEW k \in Slots, NEW v \in BOOLEAN, NEW g,
         g = [k EXCEPT !.ready = TRUE, !.visible = v, !.granted = @ \/ (v /\ k.grantPending)]
  PROVE  g = [ready |-> TRUE, visible |-> v, grantPending |-> k.grantPending,
              granted |-> k.granted \/ (v /\ k.grantPending), closed |-> k.closed]
  BY DEF Slots

LEMMA AdReady ==
  ASSUME AdInv, NEW visible \in BOOLEAN, Ad!OnReady(visible)
  PROVE  AdInv'
  <1>1. /\ Ad!Listening /\ ~slot.ready
        /\ slot' = [slot EXCEPT !.ready = TRUE, !.visible = visible, !.granted = @ \/ (visible /\ slot.grantPending)]
        /\ IF visible
           THEN queue' = queue \o (IF slot.grantPending THEN <<"presented", "granted">> ELSE <<"presented">>)
                /\ finishing' = finishing
           ELSE Ad!Finish("error", TRUE) /\ queue' = queue
        /\ UNCHANGED <<phase, broken, adResult, slotOpen, reports, claims, credited, enabled>>
    BY DEF Ad!OnReady
  <1>2. /\ phase = "slot" /\ finishing = None /\ slot \in Slots /\ ~broken /\ queue = Nothing /\ reports = Nothing
        /\ ~slot.granted
    BY <1>1, AdListening
  <1>3. slot' = [ready |-> TRUE, visible |-> visible, grantPending |-> slot.grantPending,
                 granted |-> slot.granted \/ (visible /\ slot.grantPending), closed |-> slot.closed]
    BY <1>1, <1>2, ReadyIs
  <1>4. slot' \in Slots /\ slot'.ready /\ (slot'.granted <=> visible /\ slot.grantPending)
    <2>1. slot.grantPending \in BOOLEAN /\ slot.closed \in BOOLEAN /\ slot.granted \in BOOLEAN
      BY <1>2 DEF Slots
    <2>2. (slot.granted \/ (visible /\ slot.grantPending)) \in BOOLEAN
      OBVIOUS
    <2> QED BY <1>2, <1>3, <2>1, <2>2 DEF Slots
  <1>5. CASE visible
    <2>1. finishing' = None /\ queue' = IF slot.grantPending THEN Granted ELSE Presented
      BY <1>1, <1>2, <1>5, SequenceFacts DEF Granted, Presented
    <2>2. Course'
      BY <1>1, <1>2, <1>4, <1>5, <2>1, SequencesDiffer DEF AdInv, Course
    <2> QED BY <1>1, <1>2, <1>4, <2>1, <2>2, AdSlotOnly
  <1>6. CASE ~visible
    <2>1. queue' = Nothing /\ Ad!Finish("error", TRUE)
      BY <1>1, <1>2, <1>6
    <2>2. finishing' \in Ends /\ finishing' # None /\ finishing'.result = "error"
      BY <1>2, <2>1, AdFinishes DEF Outcomes
    <2>3. Course'
      BY <1>1, <1>2, <1>4, <1>6, <2>1, <2>2, SequencesDiffer DEF AdInv, Course
    <2> QED BY <1>1, <1>2, <1>4, <2>2, <2>3, AdSlotOnly
  <1> QED BY <1>5, <1>6

LEMMA AdGranted ==
  ASSUME AdInv, Ad!OnGranted
  PROVE  AdInv'
  <1>1. /\ Ad!Listening /\ ~slot.granted
        /\ IF ~slot.ready THEN slot' = [slot EXCEPT !.grantPending = TRUE] /\ queue' = queue
           ELSE slot' = [slot EXCEPT !.granted = TRUE] /\ queue' = Append(queue, "granted")
        /\ UNCHANGED <<phase, broken, finishing, adResult, slotOpen, reports, claims, credited, enabled>>
    BY DEF Ad!OnGranted, Ad!Queued
  <1>2. phase = "slot" /\ finishing = None /\ slot \in Slots /\ ~broken /\ reports \notin Abandoned
    BY <1>1, AdListening
  <1>3. CASE ~slot.ready
    <2>1. slot' = [slot EXCEPT !.grantPending = TRUE] /\ queue' = queue
      BY <1>1, <1>3
    <2>2. slot' \in Slots
      BY <1>2, <2>1 DEF Slots
    <2>3. slot'.ready = slot.ready /\ slot'.granted = slot.granted
      BY <1>2, <2>1 DEF Slots
    <2>4. Course'
      BY <1>1, <2>1, <2>3 DEF AdInv, Course
    <2> QED BY <1>1, <1>2, <2>2, <2>4, AdSlotOnly
  <1>4. CASE slot.ready
    <2>1. slot' = [slot EXCEPT !.granted = TRUE] /\ queue' = Append(queue, "granted")
      BY <1>1, <1>4
    <2>2. slot' \in Slots
      BY <1>2, <2>1 DEF Slots
    <2>3. slot'.ready = slot.ready /\ slot'.granted = TRUE
      BY <1>2, <2>1 DEF Slots
    <2>4. (queue' = Granted /\ reports = Nothing) \/ (queue' = <<"granted">> /\ reports = Presented)
      BY <1>1, <1>4, <2>1, AdListening, SequenceFacts
    <2>5. Course'
      BY <1>1, <1>2, <1>4, <2>3, <2>4, SequencesDiffer DEF AdInv, Course
    <2> QED BY <1>1, <1>2, <2>2, <2>5, AdSlotOnly
  <1> QED BY <1>3, <1>4

LEMMA AdClosed ==
  ASSUME AdInv, Ad!OnClosed
  PROVE  AdInv'
  <1>1. /\ Ad!Listening /\ slot' = [slot EXCEPT !.closed = TRUE]
        /\ (finishing' = finishing \/ Ad!Finish("false", TRUE))
        /\ UNCHANGED <<phase, queue, broken, adResult, slotOpen, reports, claims, credited, enabled>>
    BY DEF Ad!OnClosed
  <1>2. phase = "slot" /\ finishing = None /\ slot \in Slots
    BY <1>1, AdListening
  <1>3. slot' \in Slots
    BY <1>1, <1>2 DEF Slots
  <1>4. slot'.ready = slot.ready /\ slot'.granted = slot.granted
    BY <1>1, <1>2 DEF Slots
  <1>5. finishing' \in Ends \cup {None} /\ (finishing' # None => finishing'.result = "false")
    BY <1>1, <1>2, AdFinishes DEF Outcomes
  <1>6. Course'
    BY <1>1, <1>2, <1>4, <1>5 DEF AdInv, Course
  <1> QED BY <1>1, <1>2, <1>3, <1>5, <1>6, AdSlotOnly

\* The ways in which a slot gives up without a settled grant.
LEMMA AdGivesUp ==
  ASSUME AdInv, Ad!CloseGrace \/ Ad!OnRenderedEmpty \/ Ad!OverallTimeout
  PROVE  AdInv'
  <1>1. PICK r \in Outcomes, a \in BOOLEAN : Ad!Finish(r, a) /\ (r = "true" => adResult = "true")
    <2>1. adResult # None => adResult \in Outcomes
      BY DEF AdInv, AdType
    <2>2. slot.granted \in BOOLEAN
      BY DEF AdInv, AdType, Slots
    <2> QED BY <2>1, <2>2 DEF Ad!CloseGrace, Ad!OnRenderedEmpty, Ad!OverallTimeout, Outcomes
  <1>2. Ad!Listening /\ UNCHANGED <<phase, slot, queue, broken, adResult, slotOpen, reports, claims, credited, enabled>>
    BY DEF Ad!CloseGrace, Ad!OnRenderedEmpty, Ad!OverallTimeout
  <1>3. phase = "slot" /\ finishing = None
    BY <1>2 DEF Ad!Listening
  <1>4. finishing' \in Ends /\ finishing' # None /\ finishing'.result = r
    BY <1>1, <1>3, AdFinishes DEF AdInv, AdType
  <1>5. finishing'.result = "true" => reports = Granted
    BY <1>1, <1>4 DEF AdInv, Claimed
  <1> QED BY <1>2, <1>3, <1>4, <1>5, AdFinishOnly

LEMMA AdReportAccepted ==
  ASSUME AdInv, Ad!ReportAccepted
  PROVE  AdInv'
  <1>1. /\ queue # Nothing /\ queue' = Tail(queue) /\ reports' = Append(reports, Head(queue))
        /\ IF Head(queue) = "granted"
           THEN Ad!Settle("true") /\ (IF slot.closed THEN Ad!Finish("true", FALSE) ELSE finishing' = finishing)
           ELSE UNCHANGED <<adResult, finishing>>
        /\ UNCHANGED <<phase, slot, broken, slotOpen, claims, credited, enabled>>
    BY DEF Ad!ReportAccepted, Nothing
  <1>2. phase = "slot" /\ broken = FALSE /\ finishing \in Ends \cup {None} /\ adResult \in Outcomes \cup {None}
    BY <1>1 DEF AdInv, AdType, Course
  <1>3. CASE Head(queue) # "granted"
    <2>1. \/ queue = Presented /\ reports = Nothing /\ slot.ready /\ ~slot.granted
          \/ queue = Granted /\ reports = Nothing /\ slot.ready /\ slot.granted
      BY <1>1, <1>3, SequenceFacts DEF AdInv, Course
    <2>2. reports' = Presented /\ adResult' = adResult /\ finishing' = finishing
      BY <1>1, <1>3, <2>1, SequenceFacts
    <2>3. \/ queue' = Nothing /\ ~slot.granted
          \/ queue' = <<"granted">> /\ slot.granted
      BY <1>1, <2>1, SequenceFacts
    <2>4. reports # Granted
      BY <2>1, SequencesDiffer
    <2>5. AdType' /\ Untouched'
      BY <1>1, <1>2, <2>2 DEF AdInv, AdType, Untouched, Early
    <2>6. Course'
      BY <1>1, <1>2, <2>1, <2>2, <2>3, SequencesDiffer DEF AdInv, Course
    <2>7. Claimed' /\ Settled'
      BY <1>1, <1>2, <2>2, <2>4 DEF AdInv, Claimed, Settled
    <2> QED BY <2>5, <2>6, <2>7 DEF AdInv
  <1>4. CASE Head(queue) = "granted"
    <2>1. queue = <<"granted">> /\ reports = Presented /\ slot.ready /\ slot.granted
      BY <1>1, <1>4, SequenceFacts DEF AdInv, Course
    <2>2. reports' = Granted /\ queue' = Nothing
      BY <1>1, <2>1, SequenceFacts
    <2>3. adResult' \in Outcomes
      BY <1>1, <1>2, <1>4 DEF Ad!Settle, Outcomes
    <2>4. finishing' \in Ends \cup {None} /\ (finishing # None => finishing' = finishing)
      <3>1. CASE slot.closed
        BY <1>1, <1>2, <1>4, <3>1, AdFinishes DEF Outcomes
      <3>2. CASE ~slot.closed
        BY <1>1, <1>2, <1>4, <3>2
      <3> QED BY <3>1, <3>2
    <2>5. AdType' /\ Untouched'
      BY <1>1, <1>2, <2>3, <2>4 DEF AdInv, AdType, Untouched, Early
    <2>6. Course'
      BY <1>1, <1>2, <2>1, <2>2, SequencesDiffer DEF AdInv, Course
    <2>7. Claimed' /\ Settled'
      <3>1. adResult = "true" => adResult' = "true"
        BY <1>1, <1>2, <1>4, NoneIsNoOutcome DEF Ad!Settle
      <3> QED BY <1>1, <1>2, <2>2, <3>1 DEF AdInv, Claimed, Settled
    <2> QED BY <2>5, <2>6, <2>7 DEF AdInv
  <1> QED BY <1>3, <1>4

LEMMA AdReportFails ==
  ASSUME AdInv, NEW accepted \in BOOLEAN, Ad!ReportFails(accepted)
  PROVE  AdInv'
  <1>1. /\ queue # Nothing /\ broken' = TRUE /\ queue' = Nothing
        /\ reports' \in {reports, Append(reports, Head(queue))}
        /\ Ad!Finish("error", Head(queue) = "presented")
        /\ UNCHANGED <<phase, slot, adResult, slotOpen, claims, credited, enabled>>
    BY DEF Ad!ReportFails, Nothing
  <1>2. phase = "slot" /\ finishing \in Ends \cup {None}
    BY <1>1 DEF AdInv, AdType, Course
  <1>3. reports \in {Nothing, Presented} /\ slot.ready
    BY <1>1 DEF AdInv, Course
  <1>4. reports' \in {Nothing, Presented} \/ (reports' = Granted /\ slot.granted)
    BY <1>1, <1>3, SequenceFacts DEF AdInv, Course
  <1>5. reports # Granted
    BY <1>3, SequencesDiffer
  <1>6. (Head(queue) = "presented") \in BOOLEAN
    OBVIOUS
  <1>7. finishing' \in Ends /\ finishing' # None /\ (finishing' = finishing \/ finishing'.result = "error")
    BY <1>1, <1>2, <1>6, AdFinishes DEF Outcomes
  <1>8. AdType' /\ Untouched'
    BY <1>1, <1>2, <1>7 DEF AdInv, AdType, Untouched, Early
  <1>9. Course'
    BY <1>1, <1>2, <1>3, <1>4, <1>7, SequencesDiffer DEF AdInv, Course
  <1>10. Claimed' /\ Settled'
    BY <1>1, <1>2, <1>5, <1>7 DEF AdInv, Claimed, Settled
  <1> QED BY <1>8, <1>9, <1>10 DEF AdInv

LEMMA AdClosedAfterGrant ==
  ASSUME AdInv, Ad!ClosedAfterGrant
  PROVE  AdInv'
  <1>1. /\ Ad!Listening /\ slot.granted /\ queue = Nothing /\ ~broken
        /\ Ad!Settle("true") /\ Ad!Finish("true", FALSE)
        /\ UNCHANGED <<phase, slot, queue, broken, slotOpen, reports, claims, credited, enabled>>
    BY DEF Ad!ClosedAfterGrant, Nothing
  <1>2. phase = "slot" /\ finishing = None /\ adResult \in Outcomes \cup {None}
    BY <1>1 DEF Ad!Listening, AdInv, AdType
  <1>3. reports = Granted
    BY <1>1, <1>2 DEF AdInv, Course
  <1>4. adResult' \in Outcomes /\ (adResult = "true" => adResult' = "true")
    BY <1>1, <1>2, NoneIsNoOutcome DEF Ad!Settle, Outcomes
  <1>5. finishing' \in Ends /\ finishing' # None
    BY <1>1, <1>2, AdFinishes DEF Outcomes
  <1>6. AdType' /\ Untouched'
    BY <1>1, <1>2, <1>4, <1>5 DEF AdInv, AdType, Untouched, Early
  <1>7. Course'
    BY <1>1, <1>2, <1>3, <1>5, SequencesDiffer DEF AdInv, Course
  <1>8. Claimed' /\ Settled'
    BY <1>1, <1>2, <1>3, <1>4 DEF AdInv, Claimed, Settled
  <1> QED BY <1>6, <1>7, <1>8 DEF AdInv

LEMMA AdCleanup ==
  ASSUME AdInv, Ad!Cleanup
  PROVE  AdInv'
  <1>1. /\ phase = "slot" /\ finishing # None /\ queue = Nothing
        /\ reports' \in {reports} \cup IF Ad!Abandons /\ ~late THEN {Append(reports, "abandoned")} ELSE {}
        /\ slotOpen' = FALSE
        /\ Ad!Settle(IF broken THEN "error" ELSE finishing.result)
        /\ IF adResult' = "true" THEN UNCHANGED <<phase, enabled>> ELSE phase' = "over" /\ enabled' = TRUE
        /\ finishing' = IF adResult' = "true" THEN [finishing EXCEPT !.abandon = FALSE] ELSE finishing
        /\ UNCHANGED <<slot, queue, broken, claims, credited>>
    BY DEF Ad!Cleanup, Nothing
  <1>2. finishing \in Ends /\ adResult \in Outcomes \cup {None} /\ finishing.result \in Outcomes
    BY <1>1 DEF AdInv, AdType, Ends
  <1>3. adResult' \in Outcomes /\ (adResult = "true" => adResult' = "true")
    BY <1>1, <1>2, NoneIsNoOutcome DEF Ad!Settle, Outcomes
  <1>4. reports \notin Abandoned /\ claims = 0
    BY <1>1 DEF AdInv, Course, Claimed
  <1>5. finishing' \in Ends /\ finishing'.result = finishing.result
    <2> DEFINE e == [finishing EXCEPT !.abandon = FALSE]
    <2>1. e \in Ends
      BY <1>2 DEF Ends
    <2>2. e.result = finishing.result
      BY <1>2 DEF Ends
    <2> QED BY <1>1, <1>2, <2>1, <2>2
  <1>6. finishing' # None
    BY <1>5, NoneIsNoOutcome DEF Ends, Outcomes
  <1>7. CASE adResult' = "true"
    <2>1. reports = Granted
      BY <1>1, <1>2, <1>7 DEF Ad!Settle, AdInv, Claimed
    <2>2. slot.granted
      BY <2>1 DEF AdInv, Course
    <2>3. reports' = Granted /\ phase' = "slot"
      BY <1>1, <1>7, <2>1, <2>2 DEF Ad!Abandons
    <2>4. AdType' /\ Untouched'
      BY <1>1, <1>3, <1>5, <2>3 DEF AdInv, AdType, Untouched, Early
    <2>5. Course'
      BY <1>1, <1>6, <2>1, <2>2, <2>3, SequencesDiffer DEF AdInv, Course
    <2>6. Claimed' /\ Settled'
      BY <1>1, <1>4, <1>7, <2>3 DEF AdInv, Claimed, Settled
    <2> QED BY <2>4, <2>5, <2>6 DEF AdInv
  <1>8. CASE adResult' # "true"
    <2>1. phase' = "over" /\ enabled' = TRUE /\ adResult # "true" /\ ~credited
      BY <1>1, <1>3, <1>8 DEF AdInv, Claimed
    <2>2. reports' = reports \/ (reports' \in Abandoned /\ ~slot.granted)
      <3>1. CASE slot.granted
        BY <1>1, <3>1 DEF Ad!Abandons
      <3>2. CASE ~slot.granted
        <4>1. reports \in {Nothing, Presented}
          BY <1>4, <3>2 DEF AdInv, Course
        <4> QED BY <1>1, <3>2, <4>1, SequenceFacts
      <3> QED BY <3>1, <3>2
    <2>3. AdType' /\ Untouched'
      BY <1>1, <1>3, <1>5, <2>1 DEF AdInv, AdType, Untouched, Early
    <2>4. Course'
      <3>1. CASE reports' = reports
        BY <1>1, <1>4, <1>6, <2>1, <3>1, SequencesDiffer DEF AdInv, Course
      <3>2. CASE reports' \in Abandoned /\ ~slot.granted
        BY <1>1, <1>4, <1>6, <1>8, <2>1, <3>2, SequencesDiffer DEF AdInv, Course
      <3> QED BY <2>2, <3>1, <3>2
    <2>5. Claimed'
      <3>1. finishing.result = "true" => reports = Granted /\ slot.granted
        BY <1>1 DEF AdInv, Claimed, Course
      <3> QED BY <1>1, <1>4, <1>5, <1>8, <2>1, <2>2, <3>1 DEF AdInv, Claimed
    <2>6. Settled'
      BY <1>1, <1>4, <2>1 DEF Settled
    <2> QED BY <2>3, <2>4, <2>5, <2>6 DEF AdInv
  <1> QED BY <1>7, <1>8

\* The claim, once show() has promised the reward.
LEMMA AdClaims ==
  ASSUME AdInv, Ad!StartClaim \/ Ad!ClaimAccepted \/ Ad!ClaimRefused \/ \E b \in BOOLEAN : Ad!ClaimLost(b)
  PROVE  AdInv'
  <1>1. /\ UNCHANGED <<slot, queue, broken, finishing, adResult, slotOpen, reports>>
        /\ adResult = "true" /\ phase \in {"slot", "claim", "claim2"} /\ phase' \in {"claim", "claim2", "over"}
    BY DEF Ad!StartClaim, Ad!ClaimAccepted, Ad!ClaimRefused, Ad!ClaimLost, Ad!Claiming, Ad!RetryPhase, AdInv, Claimed
  <1>2. reports = Granted /\ slot.granted /\ queue = Nothing /\ claims \in Int
    BY <1>1, SequencesDiffer DEF AdInv, Claimed, Course, AdType
  <1>3. claims' \in Int /\ claims' <= 2 /\ (phase' = "claim" => claims' = 0) /\ (phase' = "claim2" => claims' <= 1)
    <2>1. /\ phase \in {"slot", "claim"} => claims = 0
          /\ phase = "claim2" => claims <= 1
      BY DEF AdInv, Claimed
    <2>2. CASE Ad!StartClaim
      BY <1>2, <2>1, <2>2 DEF Ad!StartClaim
    <2>3. CASE Ad!ClaimAccepted \/ Ad!ClaimRefused
      BY <1>2, <2>1, <2>3 DEF Ad!ClaimAccepted, Ad!ClaimRefused, Ad!Claiming
    <2>4. ASSUME NEW b \in BOOLEAN, Ad!ClaimLost(b) PROVE
            claims' \in Int /\ claims' <= 2 /\ (phase' = "claim" => claims' = 0) /\ (phase' = "claim2" => claims' <= 1)
      <3>1. (claims' = claims + 1 \/ claims' = claims) /\ phase \in {"claim", "claim2"}
        BY <2>4 DEF Ad!ClaimLost, Ad!Claiming
      <3>2. phase' = "over" \/ (phase' = "claim2" /\ phase = "claim")
        BY <2>4 DEF Ad!ClaimLost, Ad!RetryPhase
      <3> QED BY <1>2, <2>1, <3>1, <3>2
    <2> QED BY <2>2, <2>3, <2>4
  <1>7. phase' = "over" => enabled' \/ credited'
    BY DEF Ad!StartClaim, Ad!ClaimAccepted, Ad!ClaimRefused, Ad!ClaimLost, Ad!RetryPhase
  <1>4. AdType' /\ Untouched'
    BY <1>1, <1>3 DEF AdInv, AdType, Untouched, Early
  <1>5. Course'
    BY <1>1, <1>2, SequencesDiffer DEF AdInv, Course
  <1>6. Claimed' /\ Settled'
    BY <1>1, <1>2, <1>3, <1>7 DEF AdInv, Claimed, Settled
  <1> QED BY <1>4, <1>5, <1>6 DEF AdInv

LEMMA AdDeadline ==
  ASSUME AdInv, Ad!Deadline
  PROVE  AdInv'
  BY DEF Ad!Deadline, AdInv, AdType, Untouched, Course, Claimed, Settled

LEMMA AdStep == AdInv /\ Ad!Next => AdInv'
  BY AdEarly, AdLoadFails, AdCommand, AdReady, AdReportFails, AdClaims, AdGranted, AdClosed, AdGivesUp,
     AdReportAccepted, AdClosedAfterGrant, AdCleanup, AdDeadline
  DEF Ad!Next

\* The sequences of reports that the invariant allows keep the order.
LEMMA ReportOrder ==
  ASSUME AdInv
  PROVE  /\ "granted" \in Ad!ToSet(reports) <=> reports = Granted
         /\ reports = Granted => "presented" \in Ad!ToSet(reports) /\ "abandoned" \notin Ad!ToSet(reports)
         /\ \A i, j \in DOMAIN reports : reports[i] = "granted" /\ reports[j] = "presented" => j < i
         /\ Len(reports) <= 2
  <1>1. reports \in {Nothing, Presented, Granted} \cup Abandoned
    BY DEF AdInv, Course
  <1>2. CASE reports = Granted
    BY <1>2 DEF Granted, Ad!ToSet
  <1>3. CASE reports = Nothing
    BY <1>3, SequencesDiffer DEF Nothing, Ad!ToSet
  <1>4. CASE reports = Presented
    BY <1>4, SequencesDiffer DEF Presented, Ad!ToSet
  <1>5. CASE reports = <<"abandoned">>
    <2> DEFINE s == <<"abandoned">>
    <2>1. DOMAIN s = 1..1 /\ s[1] = "abandoned" /\ Len(s) = 1
      OBVIOUS
    <2> HIDE DEF s
    <2>2. reports = s
      BY <1>5 DEF s
    <2>3. "granted" \notin Ad!ToSet(reports)
      BY <2>1, <2>2 DEF Ad!ToSet
    <2>4. reports # Granted
      BY <2>1, <2>2 DEF Granted
    <2> QED BY <2>1, <2>2, <2>3, <2>4
  <1>6. CASE reports = <<"presented", "abandoned">>
    <2> DEFINE s == <<"presented", "abandoned">>
    <2>1. DOMAIN s = 1..2 /\ s[1] = "presented" /\ s[2] = "abandoned" /\ Len(s) = 2
      OBVIOUS
    <2> HIDE DEF s
    <2>2. reports = s
      BY <1>6 DEF s
    <2>3. "granted" \notin Ad!ToSet(reports)
      BY <2>1, <2>2 DEF Ad!ToSet
    <2>4. reports # Granted
      BY <2>1, <2>2 DEF Granted
    <2>5. \A i \in DOMAIN reports : reports[i] # "granted"
      BY <2>1, <2>2
    <2>6. Len(reports) = 2
      BY <2>1, <2>2, Zenon
    <2>7. \A i, j \in DOMAIN reports : reports[i] = "granted" /\ reports[j] = "presented" => j < i
      BY <2>5
    <2> QED BY <2>3, <2>4, <2>6, <2>7
  <1> QED BY <1>1, <1>2, <1>3, <1>4, <1>5, <1>6 DEF Abandoned

\* A reward is claimed at most twice and only for an ad that the server knows
\* was presented and granted, in whatever order the provider's events, timers
\* and answers come (rewarded-ads.js, claimRewardedAd in rollout.js).
THEOREM RewardsAreSound == Spec => []RewardSound
  <1> DEFINE Inv == part = "rewarded" => AdInv
  <1>1. Init => Inv
    BY AdInitially DEF Init
  <1>2. Inv /\ [Next]_vars => Inv'
    <2>1. CASE part = "rewarded" /\ Ad!Next /\ part' = part
      BY <2>1, AdStep
    <2>2. CASE UNCHANGED <<part, adVars>>
      BY <2>2, AdStutter
    <2>3. [Next]_vars => (part = "rewarded" /\ Ad!Next /\ part' = part) \/ UNCHANGED <<part, adVars>>
      BY DEF Next, vars
    <2> HIDE DEF Inv
    <2> QED BY <2>1, <2>2, <2>3 DEF Inv
  <1>3. Inv => RewardSound
    <2> SUFFICES ASSUME AdInv PROVE Ad!RewardSound
      BY DEF RewardSound
    <2> QED BY ReportOrder DEF Ad!RewardSound, AdInv, Claimed, Settled
  <1> QED BY <1>1, <1>2, <1>3, PTL DEF Spec

-----------------------------------------------------------------------------
(* Account *)

Sessions == 1 .. Len(owner)
Pages == [kind : Acc!Entry \cup {"account"}, held : Nat \cup {None}, email : Users \cup {None}]
CallKinds == Acc!Entry \cup Acc!Forms \cup {"me", "poll"}
CallForm == [kind : CallKinds, tok : Nat \cup {None}, user : Users \cup {None},
             answer : Users \cup Nat \cup {None}]
Shown == [account : Users \cup {None}, referrals : Users \cup {None}]

AccType ==
  /\ owner \in Seq(Users) /\ session \in Sessions \cup {None}
  /\ accPage \in Pages /\ shown \in Shown /\ accCalls \subseteq CallForm

\* The calls in flight are those of the open page. One made for another session
\* than the page's is for a session that is not stored, and never will be again.
CallsFit ==
  /\ accPage.kind = "account" => accPage.held \in Sessions
  /\ \A c \in accCalls :
       /\ accPage.kind \in Acc!Entry => c.kind = accPage.kind /\ c.tok = None /\ c.user \in Users
       /\ accPage.kind = "account" =>
            c.kind \notin Acc!Entry /\ c.tok \in Sessions /\ (c.tok = session => c.tok = accPage.held)

\* What an answer holds, by the kind of its call.
AnswersFit ==
  \A c \in accCalls : c.answer # None =>
    /\ c.kind \in {"login", "verify"} => c.answer \in Sessions
    /\ c.kind \in {"me", "poll", "profile", "referral"} => c.answer \in {401, owner[c.tok]}

\* The session of a new password is the page's user's, and new to the page.
PasswordFits ==
  /\ \A c, d \in accCalls : c.kind = "password" /\ d.kind = "password" => c = d
  /\ \A c \in accCalls : c.kind = "password" /\ c.answer \notin {None, 401} =>
       /\ c.answer \in Sessions /\ owner[c.answer] = owner[c.tok] /\ c.answer # accPage.held
       /\ \A d \in accCalls : d.tok # c.answer

ShownFits ==
  /\ accPage.kind = "account" =>
       shown.account \in {None, owner[accPage.held]} /\ shown.referrals \in {None, owner[accPage.held]}
  /\ ousted = FALSE
  /\ next # None => next.of \in {None, next.user}

AccInv == AccType /\ CallsFit /\ AnswersFit /\ PasswordFits /\ ShownFits

LEMMA NewCall ==
  ASSUME NEW k \in CallKinds, NEW t \in Nat \cup {None}, NEW u \in Users \cup {None}
  PROVE  /\ Acc!Call(k, t, u) \in CallForm
         /\ Acc!Call(k, t, u).kind = k /\ Acc!Call(k, t, u).tok = t /\ Acc!Call(k, t, u).user = u
         /\ Acc!Call(k, t, u).answer = None
  BY DEF Acc!Call, CallForm

LEMMA AccInitially == Acc!Init => AccInv
  <1> SUFFICES ASSUME Acc!Init PROVE AccInv
    OBVIOUS
  <1>1. /\ session = None /\ owner = <<>> /\ accCalls = {} /\ ousted = FALSE /\ next = None
        /\ accPage = [kind |-> "login", held |-> None, email |-> None] /\ shown = Acc!Nothing
    BY DEF Acc!Init
  <1>2. accPage \in Pages /\ accPage.kind = "login"
    BY <1>1 DEF Pages, Acc!Entry
  <1>3. shown \in Shown
    BY <1>1 DEF Acc!Nothing, Shown
  <1>4. owner \in Seq(Users)
    BY <1>1
  <1> QED BY <1>1, <1>2, <1>3, <1>4 DEF AccInv, AccType, CallsFit, AnswersFit, PasswordFits, ShownFits

LEMMA AccStutter == AccInv /\ UNCHANGED accVars => AccInv'
  BY DEF accVars, AccInv, AccType, CallsFit, AnswersFit, PasswordFits, ShownFits, Sessions

\* A page is opened afresh, with at most its first call.
LEMMA AccPage ==
  ASSUME AccInv, owner' = owner, session' \in Sessions \cup {None}, accPage' \in Pages,
         accPage'.kind = "account" => accPage'.held \in Sessions /\ accPage'.held = session',
         accCalls' = {} \/ (accPage'.kind = "account" /\ accCalls' = {Acc!Call("me", accPage'.held, None)}),
         shown' = Acc!Nothing, ousted' = ousted, next' = None
  PROVE  AccInv'
  <1>1. Sessions' = Sessions
    BY DEF Sessions
  <1>2. \A c \in accCalls' : accPage'.kind = "account" /\ c \in CallForm /\ c.kind = "me" /\ c.tok = accPage'.held
                          /\ c.answer = None
    <2>1. SUFFICES ASSUME accPage'.kind = "account", NEW c, c = Acc!Call("me", accPage'.held, None)
                   PROVE  c \in CallForm /\ c.kind = "me" /\ c.tok = accPage'.held
                          /\ c.answer = None
      OBVIOUS
    <2>2. accPage'.held \in Nat \cup {None}
      BY DEF Pages
    <2> DEFINE h == accPage'.held
    <2>3. h \in Nat \cup {None} /\ c = Acc!Call("me", h, None)
      BY <2>1, <2>2
    <2> HIDE DEF h
    <2>4. c \in CallForm /\ c.kind = "me" /\ c.tok = h /\ c.answer = None
      BY <2>3 DEF CallKinds, Acc!Call, CallForm
    <2> QED BY <2>4 DEF h
  <1>3. shown' \in Shown /\ shown'.account = None /\ shown'.referrals = None
    BY DEF Acc!Nothing, Shown
  <1>4. AccType'
    BY <1>1, <1>2, <1>3 DEF AccInv, AccType
  <1>5. CallsFit'
    BY <1>1, <1>2 DEF CallsFit, Acc!Entry
  <1>6. AnswersFit' /\ PasswordFits'
    BY <1>2 DEF AnswersFit, PasswordFits
  <1>7. ShownFits'
    BY <1>3 DEF AccInv, ShownFits
  <1> QED BY <1>4, <1>5, <1>6, <1>7 DEF AccInv

\* The login page without a session.
LEMMA LoginPage ==
  ASSUME NEW p, p = [kind |-> "login", held |-> None, email |-> None]
  PROVE  p \in Pages /\ p.kind = "login"
  BY DEF Pages, Acc!Entry

LEMMA AccOpened ==
  ASSUME AccInv, NEW k \in Acc!Entry \cup {"account"}, NEW e \in Users \cup {None}, NEW paid \in BOOLEAN,
         Acc!Opened(k, e, paid), UNCHANGED <<session, owner, ousted>>
  PROVE  AccInv'
  <1> DEFINE kind == IF k = "account" /\ session = None THEN "login"
                     ELSE IF k = "login" /\ session # None THEN "account" ELSE k
  <1>1. /\ accPage' = [kind |-> kind, held |-> session, email |-> e] /\ shown' = Acc!Nothing /\ next' = None
        /\ accCalls' = IF accPage'.kind = "account" THEN {Acc!Call("me", session, None)} ELSE {}
    BY DEF Acc!Opened
  <1>2. session \in Sessions \cup {None} /\ session \in Nat \cup {None}
    BY DEF AccInv, AccType, Sessions
  <1>3. kind \in Acc!Entry \cup {"account"} /\ (kind = "account" => session # None)
    BY DEF Acc!Entry
  <1> HIDE DEF kind
  <1>4. accPage' \in Pages /\ accPage'.kind = kind /\ accPage'.held = session
    BY <1>1, <1>2, <1>3 DEF Pages
  <1>5. accCalls' = {} \/ (accPage'.kind = "account" /\ accCalls' = {Acc!Call("me", accPage'.held, None)})
    BY <1>1, <1>4
  <1> QED BY <1>1, <1>2, <1>3, <1>4, <1>5, AccPage

LEMMA AccOpen ==
  ASSUME AccInv, NEW k \in Acc!Entry \cup {"account"}, NEW e \in Users \cup {None}, NEW paid \in BOOLEAN,
         Acc!Open(k, e, paid)
  PROVE  AccInv'
  BY AccOpened DEF Acc!Open

LEMMA AccStorageEvent ==
  ASSUME AccInv, Acc!StorageEvent
  PROVE  AccInv'
  <1>1. CASE session # accPage.held
    BY <1>1, AccOpened DEF Acc!StorageEvent
  <1>2. CASE session = accPage.held
    <2>1. UNCHANGED <<session, owner, ousted, accPage, accCalls, shown, next>>
      BY <1>2 DEF Acc!StorageEvent
    <2> QED BY <2>1 DEF AccInv, AccType, CallsFit, AnswersFit, PasswordFits, ShownFits, Sessions
  <1> QED BY <1>1, <1>2

\* Calls end, or nothing that the invariant speaks of changes; the page stays.
LEMMA AccFewerCalls ==
  ASSUME AccInv, UNCHANGED <<session, owner, accPage, shown, next, ousted>>, accCalls' \subseteq accCalls
  PROVE  AccInv'
  <1>1. Sessions' = Sessions
    BY DEF Sessions
  <1>2. AccType' /\ CallsFit'
    BY <1>1 DEF AccInv, AccType, CallsFit
  <1>3. AnswersFit' /\ PasswordFits'
    BY <1>1 DEF AccInv, AnswersFit, PasswordFits
  <1>4. ShownFits'
    BY DEF AccInv, ShownFits
  <1> QED BY <1>2, <1>3, <1>4 DEF AccInv

LEMMA AccQuiet ==
  ASSUME AccInv, Acc!ContinuationAges \/ \E c \in accCalls : Acc!CallFails(c) \/ Acc!RegisterReply(c)
  PROVE  AccInv'
  <1>1. UNCHANGED <<session, owner, accPage, shown, next, ousted>> /\ accCalls' \subseteq accCalls
    BY DEF Acc!ContinuationAges, Acc!CallFails, Acc!RegisterReply
  <1> QED BY <1>1, AccFewerCalls

\* A call of the open page joins those in flight.
LEMMA AccMoreCalls ==
  ASSUME AccInv, UNCHANGED <<session, owner, accPage, next, ousted>>,
         NEW n \in CallForm, accCalls' \subseteq accCalls \cup {n},
         n.answer = None,
         accPage.kind \in Acc!Entry => n.kind = accPage.kind /\ n.tok = None /\ n.user \in Users,
         accPage.kind = "account" => n.kind \notin Acc!Entry /\ n.tok = accPage.held,
         n.kind = "password" => \A d \in accCalls : d.kind # "password",
         shown' \in Shown,
         accPage.kind = "account" => shown'.account \in {None, owner[accPage.held]}
                                  /\ shown'.referrals \in {None, owner[accPage.held]}
  PROVE  AccInv'
  <1>1. Sessions' = Sessions
    BY DEF Sessions
  <1>2. AccType' /\ CallsFit'
    BY <1>1 DEF AccInv, AccType, CallsFit
  <1>3. AnswersFit'
    BY <1>1 DEF AccInv, AnswersFit
  <1>4. PasswordFits'
    <2>1. \A c, d \in accCalls' : c.kind = "password" /\ d.kind = "password" => c = d
      BY DEF AccInv, PasswordFits
    <2>2. ASSUME NEW c \in accCalls', c.kind = "password", c.answer \notin {None, 401}
          PROVE  /\ c.answer \in Sessions /\ owner[c.answer] = owner[c.tok] /\ c.answer # accPage.held
                 /\ \A d \in accCalls' : d.tok # c.answer
      <3>1. c \in accCalls
        BY <2>2
      <3>2. accPage.kind = "account"
        BY <2>2, <3>1 DEF AccInv, AccType, CallsFit, Pages, Acc!Entry
      <3> QED BY <2>2, <3>1, <3>2 DEF AccInv, PasswordFits
    <2> QED BY <1>1, <2>1, <2>2 DEF PasswordFits
  <1>5. ShownFits'
    BY DEF AccInv, ShownFits
  <1> QED BY <1>2, <1>3, <1>4, <1>5 DEF AccInv

\* What the page shows now is still its own session's.
LEMMA ShownStays ==
  ASSUME AccInv
  PROVE  shown \in Shown /\ (accPage.kind = "account" => /\ shown.account \in {None, owner[accPage.held]}
                                                      /\ shown.referrals \in {None, owner[accPage.held]}
                                                      /\ accPage.held \in Nat)
  BY DEF AccInv, AccType, ShownFits, CallsFit, Sessions

LEMMA AccSubmitEntry ==
  ASSUME AccInv, NEW u \in Users, Acc!SubmitEntry(u)
  PROVE  AccInv'
  <1> DEFINE n == Acc!Call(accPage.kind, None, u)
  <1>1. /\ accPage.kind \in Acc!Entry /\ accCalls' = accCalls \cup {n}
        /\ UNCHANGED <<session, owner, accPage, next, ousted, shown>>
    BY DEF Acc!SubmitEntry
  <1>2. accPage.kind \in CallKinds /\ accPage.kind # "account" /\ accPage.kind # "password"
    BY <1>1 DEF CallKinds, Acc!Entry
  <1>3. n \in CallForm /\ n.kind = accPage.kind /\ n.tok = None /\ n.user = u /\ n.answer = None
    <2> DEFINE k == accPage.kind
    <2>1. k \in CallKinds /\ n = Acc!Call(k, None, u) /\ u \in Users \cup {None} /\ None \in Nat \cup {None}
      BY <1>2
    <2> HIDE DEF k, n
    <2>2. n \in CallForm /\ n.kind = k /\ n.tok = None /\ n.user = u /\ n.answer = None
      BY <2>1 DEF Acc!Call, CallForm
    <2> QED BY <2>2 DEF k
  <1> HIDE DEF n
  <1> QED BY <1>1, <1>2, <1>3, ShownStays, AccMoreCalls

\* A call of the account page for its own session.
LEMMA AccAccountCall ==
  ASSUME AccInv, NEW k \in CallKinds \ Acc!Entry, accPage.kind = "account",
         accCalls' \subseteq accCalls \cup {Acc!Call(k, accPage.held, None)},
         k = "password" => \A d \in accCalls : d.kind # "password",
         UNCHANGED <<session, owner, accPage, next, ousted>>,
         shown' \in Shown,
         shown'.account \in {None, owner[accPage.held]} /\ shown'.referrals \in {None, owner[accPage.held]}
  PROVE  AccInv'
  <1> DEFINE n == Acc!Call(k, accPage.held, None)
  <1>1. accPage.held \in Nat \cup {None} /\ accPage.kind \notin Acc!Entry
    BY DEF AccInv, AccType, Pages, Acc!Entry
  <1>2. n \in CallForm /\ n.kind = k /\ n.tok = accPage.held /\ n.answer = None
    <2> DEFINE h == accPage.held
    <2>1. h \in Nat \cup {None} /\ n = Acc!Call(k, h, None)
      BY <1>1
    <2> HIDE DEF h, n
    <2>2. n \in CallForm /\ n.kind = k /\ n.tok = h /\ n.answer = None
      BY <2>1, NewCall
    <2> QED BY <2>2 DEF h
  <1>3. accCalls' \subseteq accCalls \cup {n}
    OBVIOUS
  <1> HIDE DEF n
  <1> QED BY <1>1, <1>2, <1>3, AccMoreCalls

LEMMA AccSubmitForm ==
  ASSUME AccInv, NEW k \in Acc!Forms, Acc!SubmitForm(k)
  PROVE  AccInv'
  <1>1. k \in CallKinds \ Acc!Entry
    BY DEF CallKinds, Acc!Entry, Acc!Forms
  <1>2. CASE session = accPage.held
    <2>1. /\ accPage.kind = "account" /\ accCalls' = accCalls \cup {Acc!Call(k, accPage.held, None)}
          /\ UNCHANGED <<session, owner, accPage, next, ousted, shown>>
          /\ \A d \in accCalls : d.kind # k
      BY <1>2 DEF Acc!SubmitForm, Acc!Idle
    <2> QED BY <1>1, <2>1, ShownStays, AccAccountCall
  <1>3. CASE session # accPage.held
    <2>1. /\ session' = None /\ accPage' = [kind |-> "login", held |-> None, email |-> None] /\ accCalls' = {}
          /\ shown' = Acc!Nothing /\ next' = None /\ UNCHANGED <<owner, ousted>>
      BY <1>3 DEF Acc!SubmitForm
    <2>2. accPage' \in Pages /\ accPage'.kind = "login"
      BY <2>1, LoginPage
    <2> QED BY <2>1, <2>2, AccPage
  <1> QED BY <1>2, <1>3

LEMMA AccRetryOrPoll ==
  ASSUME AccInv, Acc!Retry \/ Acc!Poll
  PROVE  AccInv'
  <1>1. /\ accPage.kind = "account"
        /\ \/ accCalls' \subseteq accCalls \cup {Acc!Call("me", accPage.held, None)}
           \/ accCalls' \subseteq accCalls \cup {Acc!Call("poll", accPage.held, None)}
        /\ UNCHANGED <<session, owner, accPage, next, ousted, shown>>
    BY DEF Acc!Retry, Acc!Poll
  <1>2. {"me", "poll"} \subseteq CallKinds \ Acc!Entry
    BY DEF CallKinds, Acc!Entry
  <1> QED BY <1>1, <1>2, ShownStays, AccAccountCall

\* An answer to the stored session is an answer to the page's own.
LEMMA MineIsHeld ==
  ASSUME AccInv, NEW c \in accCalls, Acc!Mine(c), c.kind \notin Acc!Entry
  PROVE  /\ accPage.kind = "account" /\ c.tok = accPage.held /\ session = accPage.held /\ accPage.held \in Sessions
         /\ c.answer # None
  <1>1. accPage.kind = "account"
    BY DEF AccInv, AccType, CallsFit, Pages
  <1>2. c.tok \in Nat /\ c.tok # None
    BY <1>1, NoneIsNoSession DEF AccInv, CallsFit, Sessions
  <1> QED BY <1>1, <1>2 DEF AccInv, CallsFit, Acc!Mine, Acc!SameSession

LEMMA ShownKnows ==
  ASSUME AccInv, NEW c \in accCalls, Acc!Mine(c), c.answer # 401,
         c.kind \in {"me", "poll", "profile", "referral"}
  PROVE  /\ accPage.kind = "account" /\ c.answer = owner[accPage.held] /\ c.answer \in Users
  <1>1. c.kind \notin Acc!Entry
    BY DEF Acc!Entry
  <1>2. c.answer = owner[accPage.held] /\ accPage.kind = "account" /\ accPage.held \in Sessions
    BY <1>1, MineIsHeld DEF AccInv, AnswersFit
  <1>3. owner[accPage.held] \in Users
    BY <1>2 DEF AccInv, AccType, Sessions
  <1> QED BY <1>2, <1>3

LEMMA AccShows ==
  ASSUME AccInv, NEW c \in accCalls, Acc!AccountReply(c) \/ Acc!PollReply(c) \/ Acc!ReferralReply(c)
  PROVE  AccInv'
  <1>1. /\ Acc!Mine(c) /\ c.kind \in {"me", "poll", "profile", "referral"} /\ c.answer # 401
        /\ accCalls' \subseteq accCalls \cup {Acc!Call("referral", accPage.held, None)}
        /\ UNCHANGED <<session, owner, accPage, next, ousted>>
        /\ shown' = [shown EXCEPT !.account = c.answer] \/ shown' = [shown EXCEPT !.referrals = c.answer]
    BY DEF Acc!AccountReply, Acc!PollReply, Acc!ReferralReply
  <1>2. accPage.kind = "account" /\ c.answer = owner[accPage.held] /\ c.answer \in Users
    BY <1>1, ShownKnows
  <1>3. shown' \in Shown
    BY <1>1, <1>2, ShownStays DEF Shown
  <1>4. shown'.account \in {None, owner[accPage.held]} /\ shown'.referrals \in {None, owner[accPage.held]}
    BY <1>1, <1>2, ShownStays DEF Shown
  <1>5. "referral" \in CallKinds \ Acc!Entry
    BY DEF CallKinds, Acc!Entry, Acc!Forms
  <1> QED BY <1>1, <1>2, <1>3, <1>4, <1>5, AccAccountCall

\* A session that the server issues is new.
LEMMA OwnerGrows ==
  ASSUME AccInv, NEW u \in Users, owner' = Append(owner, u)
  PROVE  /\ owner' \in Seq(Users) /\ Len(owner') = Len(owner) + 1 /\ owner'[Len(owner')] = u
         /\ Sessions \subseteq Sessions' /\ Len(owner') \in Sessions' /\ Len(owner') \notin Sessions
         /\ \A i \in Sessions : owner'[i] = owner[i]
  <1>1. owner \in Seq(Users) /\ Len(owner) \in Nat
    BY DEF AccInv, AccType
  <1>2. owner' \in Seq(Users) /\ Len(owner') = Len(owner) + 1 /\ owner'[Len(owner) + 1] = u
        /\ \A i \in 1 .. Len(owner) : owner'[i] = owner[i]
    BY <1>1, AppendProperties
  <1> QED BY <1>1, <1>2 DEF Sessions

\* Issuing a session, or not, leaves what the known sessions are.
LEMMA OwnerKept ==
  ASSUME AccInv, owner' = owner \/ \E u \in Users : owner' = Append(owner, u)
  PROVE  owner' \in Seq(Users) /\ Sessions \subseteq Sessions' /\ \A i \in Sessions : owner'[i] = owner[i]
  <1>1. CASE owner' = owner
    BY <1>1 DEF AccInv, AccType, Sessions
  <1>2. CASE \E u \in Users : owner' = Append(owner, u)
    BY <1>2, OwnerGrows
  <1> QED BY <1>1, <1>2

\* Another session, or none, is stored while the page stays.
LEMMA AccStores ==
  ASSUME AccInv, UNCHANGED <<accPage, shown, ousted>>, accCalls' \subseteq accCalls,
         owner' = owner \/ \E u \in Users : owner' = Append(owner, u),
         session' \in Sessions' \cup {None},
         accPage.kind = "account" => \A c \in accCalls : c.tok # session',
         next' # None => next'.of \in {None, next'.user}
  PROVE  AccInv'
  <1>1. owner' \in Seq(Users) /\ Sessions \subseteq Sessions' /\ \A i \in Sessions : owner'[i] = owner[i]
    BY OwnerKept
  <1>2. AccType' /\ CallsFit'
    BY <1>1 DEF AccInv, AccType, CallsFit
  <1>3. \A c \in accCalls : c.kind \notin Acc!Entry => accPage.kind = "account" /\ c.tok \in Sessions
    BY DEF AccInv, AccType, CallsFit, Pages
  <1>4. {"me", "poll", "profile", "referral", "password"} \cap Acc!Entry = {}
    BY DEF Acc!Entry
  <1>5. AnswersFit'
    BY <1>1, <1>3, <1>4 DEF AccInv, AnswersFit
  <1>6. PasswordFits'
    BY <1>1, <1>3, <1>4 DEF AccInv, PasswordFits
  <1>7. ShownFits'
    BY <1>1 DEF AccInv, ShownFits, CallsFit
  <1> QED BY <1>2, <1>5, <1>6, <1>7 DEF AccInv

LEMMA TokensAreSessions ==
  ASSUME AccInv, accPage.kind = "account"
  PROVE  \A c \in accCalls : c.tok \in Sessions /\ c.tok # None
  BY NoneIsNoSession DEF AccInv, CallsFit, Sessions

LEMMA AccOtherTab ==
  ASSUME AccInv, NEW u \in Users \cup {None}, Acc!OtherTab(u)
  PROVE  AccInv'
  <1>1. UNCHANGED <<accPage, shown, ousted, accCalls, next>>
    BY DEF Acc!OtherTab
  <1>2. next # None => next.of \in {None, next.user}
    BY DEF AccInv, ShownFits
  <1>3. CASE u = None
    <2>1. session' = None /\ owner' = owner
      BY <1>3 DEF Acc!OtherTab
    <2> QED BY <1>1, <1>2, <2>1, TokensAreSessions, AccStores
  <1>4. CASE u # None
    <2>1. u \in Users /\ owner' = Append(owner, u) /\ session' = Len(owner')
      BY <1>4 DEF Acc!OtherTab
    <2>2. session' \in Sessions' /\ session' \notin Sessions
      BY <2>1, OwnerGrows
    <2> QED BY <1>1, <1>2, <2>1, <2>2, TokensAreSessions, AccStores
  <1> QED BY <1>3, <1>4

LEMMA AccVerifyOrReset ==
  ASSUME AccInv, NEW c \in accCalls, Acc!VerifyReply(c) \/ Acc!ResetReply(c)
  PROVE  AccInv'
  <1>1. c.kind \in {"verify", "reset"} /\ accPage.kind # "account"
    BY DEF Acc!VerifyReply, Acc!ResetReply, AccInv, CallsFit, Acc!Entry
  <1>2. next # None => next.of \in {None, next.user}
    BY DEF AccInv, ShownFits
  <1>3. /\ UNCHANGED <<accPage, shown, ousted, owner>> /\ accCalls' \subseteq accCalls
        /\ session' \in Sessions \cup {None}
    BY DEF Acc!VerifyReply, Acc!ResetReply, Acc!Entered, AccInv, AnswersFit
  <1>4. Sessions' = Sessions
    BY <1>3 DEF Sessions
  <1>6. next' # None => next'.of \in {None, next'.user}
    <2>1. CASE Acc!ResetReply(c)
      BY <1>2, <2>1 DEF Acc!ResetReply
    <2>2. CASE Acc!VerifyReply(c)
      BY <2>2 DEF Acc!VerifyReply, Acc!VerificationNext
    <2> QED BY <2>1, <2>2
  <1> QED BY <1>1, <1>3, <1>4, <1>6, AccStores

LEMMA AccLeaves ==
  ASSUME AccInv, NEW c \in accCalls, Acc!RefusedLoad(c) \/ Acc!CloseReply(c) \/ Acc!LogoutReply(c)
  PROVE  AccInv'
  <1>1. /\ session' = None /\ accPage' = [kind |-> "login", held |-> None, email |-> None] /\ accCalls' = {}
        /\ shown' = Acc!Nothing /\ next' = None /\ UNCHANGED <<owner>>
    BY DEF Acc!RefusedLoad, Acc!CloseReply, Acc!LogoutReply, Acc!Stores
  <1>2. ousted' = ousted
    <2>1. CASE Acc!LogoutReply(c)
      BY <2>1 DEF Acc!LogoutReply
    <2>2. CASE Acc!RefusedLoad(c) \/ Acc!CloseReply(c)
      <3>1. Acc!Mine(c) /\ c.kind \notin Acc!Entry
        BY <2>2 DEF Acc!RefusedLoad, Acc!CloseReply, Acc!Entry
      <3>2. session = accPage.held
        BY <3>1, MineIsHeld
      <3>3. ousted = FALSE
        BY DEF AccInv, ShownFits
      <3> QED BY <2>2, <3>2, <3>3 DEF Acc!RefusedLoad, Acc!CloseReply, Acc!Stores
    <2> QED BY <2>1, <2>2
  <1>3. accPage' \in Pages /\ accPage'.kind = "login"
    BY <1>1, LoginPage
  <1> QED BY <1>1, <1>2, <1>3, AccPage

LEMMA AccLogin ==
  ASSUME AccInv, NEW c \in accCalls, Acc!LoginReply(c)
  PROVE  AccInv'
  <1>1. /\ c.kind = "login" /\ c.answer # None /\ session' = c.answer
        /\ accPage' = [kind |-> "account", held |-> c.answer, email |-> None]
        /\ accCalls' = {Acc!Call("me", c.answer, None)} /\ shown' = Acc!Nothing /\ next' = None
        /\ UNCHANGED <<owner, ousted>>
    BY DEF Acc!LoginReply, Acc!Entered
  <1>2. c.answer \in Sessions /\ c.answer \in Nat
    BY <1>1 DEF AccInv, AnswersFit, Sessions
  <1>3. accPage' \in Pages /\ accPage'.kind = "account" /\ accPage'.held = c.answer
    BY <1>1, <1>2 DEF Pages
  <1>4. accCalls' = {Acc!Call("me", accPage'.held, None)}
    BY <1>1, <1>3
  <1> QED BY <1>1, <1>2, <1>3, <1>4, AccPage

LEMMA AccPassword ==
  ASSUME AccInv, NEW c \in accCalls, Acc!PasswordReply(c)
  PROVE  AccInv'
  <1>1. /\ Acc!Mine(c) /\ c.kind = "password" /\ c.answer \notin {None, 401}
        /\ session' = c.answer /\ accPage' = [accPage EXCEPT !.held = c.answer]
        /\ shown' = [shown EXCEPT !.account = owner[c.answer]] /\ accCalls' = accCalls \ {c}
        /\ UNCHANGED <<owner, next>>
    BY DEF Acc!PasswordReply, Acc!Stores, Acc!Mine
  <1>2. c.kind \notin Acc!Entry
    BY <1>1 DEF Acc!Entry
  <1>3. accPage.kind = "account" /\ c.tok = accPage.held /\ session = accPage.held /\ accPage.held \in Sessions
    BY <1>1, <1>2, MineIsHeld
  <1>4. /\ c.answer \in Sessions /\ c.answer \in Nat /\ owner[c.answer] = owner[accPage.held]
        /\ \A d \in accCalls : d.tok # c.answer
    BY <1>1, <1>3 DEF AccInv, PasswordFits, Sessions
  <1>5. ousted' = FALSE
    BY <1>3 DEF Acc!PasswordReply, Acc!Stores, AccInv, ShownFits
  <1>6. accPage' \in Pages
    BY <1>1, <1>4 DEF AccInv, AccType, Pages
  <1>7. accPage'.kind = "account" /\ accPage'.held = c.answer
    BY <1>1, <1>3 DEF AccInv, AccType, Pages
  <1>8. shown' \in Shown
    <2>1. owner[c.answer] \in Users
      BY <1>4 DEF AccInv, AccType, Sessions
    <2> QED BY <1>1, <2>1 DEF AccInv, AccType, Shown
  <1>9. shown'.account = owner[c.answer] /\ shown'.referrals = shown.referrals
    BY <1>1 DEF AccInv, AccType, Shown
  <1>10. Sessions' = Sessions
    BY <1>1 DEF Sessions
  <1>11. AccType' /\ CallsFit'
    BY <1>1, <1>3, <1>4, <1>6, <1>7, <1>8, <1>10 DEF AccInv, AccType, CallsFit, Acc!Entry
  <1>12. AnswersFit'
    BY <1>1, <1>10 DEF AccInv, AnswersFit
  <1>13. PasswordFits'
    <2>1. \A d \in accCalls' : d.kind # "password"
      BY <1>1 DEF AccInv, PasswordFits
    <2> QED BY <2>1 DEF PasswordFits
  <1>14. ShownFits'
    BY <1>1, <1>3, <1>4, <1>5, <1>7, <1>9 DEF AccInv, ShownFits
  <1> QED BY <1>11, <1>12, <1>13, <1>14 DEF AccInv

\* The server answers one call.
LEMMA AccServed ==
  ASSUME AccInv, NEW c \in accCalls, c.answer = None, NEW a \in Users \cup Nat \cup {None},
         Acc!Answered(c, a), UNCHANGED <<session, accPage, shown, next, ousted>>,
         owner' = owner \/ \E u \in Users : owner' = Append(owner, u),
         c.kind \in {"login", "verify"} => a \in Sessions',
         c.kind \in {"me", "poll", "profile", "referral"} => a \in {401, owner[c.tok]},
         c.kind = "password" /\ a # 401 => owner' = Append(owner, owner[c.tok]) /\ a = Len(owner')
  PROVE  AccInv'
  <1> DEFINE n == [c EXCEPT !.answer = a]
  <1>1. accCalls' = (accCalls \ {c}) \cup {n}
    BY DEF Acc!Answered
  <1>2. c \in CallForm
    BY DEF AccInv, AccType
  <1>3. n \in CallForm
    BY <1>2 DEF CallForm
  <1>4. n.kind = c.kind /\ n.tok = c.tok /\ n.user = c.user /\ n.answer = a
    BY <1>2 DEF CallForm
  <1> HIDE DEF n
  <1>5. owner' \in Seq(Users) /\ Sessions \subseteq Sessions' /\ \A i \in Sessions : owner'[i] = owner[i]
    BY OwnerKept
  <1>6. AccType' /\ CallsFit'
    BY <1>1, <1>3, <1>4, <1>5 DEF AccInv, AccType, CallsFit
  <1>7. \A d \in accCalls : d.kind \notin Acc!Entry => accPage.kind = "account" /\ d.tok \in Sessions
    BY DEF AccInv, AccType, CallsFit, Pages
  <1>8. {"me", "poll", "profile", "referral", "password"} \cap Acc!Entry = {}
    BY DEF Acc!Entry
  <1>9. AnswersFit'
    <2>1. ASSUME NEW d \in accCalls', d.answer # None
          PROVE  /\ d.kind \in {"login", "verify"} => d.answer \in Sessions'
                 /\ d.kind \in {"me", "poll", "profile", "referral"} => d.answer \in {401, owner'[d.tok]}
      <3>1. CASE d \in accCalls
        BY <1>5, <1>7, <1>8, <2>1, <3>1 DEF AccInv, AnswersFit
      <3>2. CASE d = n
        BY <1>4, <1>5, <1>7, <1>8, <3>2
      <3> QED BY <1>1, <3>1, <3>2
    <2> QED BY <2>1 DEF AnswersFit
  <1>10. PasswordFits'
    <2>1. \A d, e \in accCalls' : d.kind = "password" /\ e.kind = "password" => d = e
      BY <1>1, <1>4 DEF AccInv, PasswordFits
    <2>2. ASSUME NEW d \in accCalls', d.kind = "password", d.answer \notin {None, 401}
          PROVE  /\ d.answer \in Sessions' /\ owner'[d.answer] = owner'[d.tok] /\ d.answer # accPage.held
                 /\ \A e \in accCalls' : e.tok # d.answer
      <3>1. accPage.kind = "account" /\ c.tok \in Sessions /\ d.tok \in Sessions /\ accPage.held \in Sessions
        BY <1>1, <1>4, <1>7, <1>8, <2>2 DEF AccInv, CallsFit
      <3>2. CASE d \in accCalls
        BY <1>1, <1>4, <1>5, <2>2, <3>1, <3>2 DEF AccInv, PasswordFits
      <3>3. CASE d = n
        <4>1. owner[c.tok] \in Users /\ owner' = Append(owner, owner[c.tok]) /\ d.answer = Len(owner')
          BY <1>4, <2>2, <3>1, <3>3 DEF AccInv, AccType, Sessions
        <4>2. d.answer \in Sessions' /\ d.answer \notin Sessions /\ owner'[d.answer] = owner[c.tok]
          BY <4>1, OwnerGrows
        <4>3. owner'[d.tok] = owner[c.tok] /\ d.answer # accPage.held
          BY <1>4, <1>5, <3>1, <3>3, <4>2
        <4>4. \A e \in accCalls' : e.tok \in Sessions
          BY <1>1, <1>4, <3>1 DEF AccInv, CallsFit
        <4> QED BY <4>2, <4>3, <4>4
      <3> QED BY <1>1, <3>2, <3>3
    <2> QED BY <2>1, <2>2 DEF PasswordFits
  <1>11. ShownFits'
    BY <1>5 DEF AccInv, ShownFits, CallsFit
  <1> QED BY <1>6, <1>9, <1>10, <1>11 DEF AccInv

LEMMA AccServe ==
  ASSUME AccInv, NEW c \in accCalls, Acc!Serve(c)
  PROVE  AccInv'
  <1>1. c.answer = None /\ UNCHANGED <<session, accPage, shown, next, ousted>>
    BY DEF Acc!Serve
  <1>2. c.kind \in CallKinds /\ owner \in Seq(Users)
    BY DEF AccInv, AccType, CallForm
  <1>3. c.kind \in Acc!Entry => c.tok = None /\ c.user \in Users
    BY DEF AccInv, AccType, CallsFit, Pages
  <1>4. c.kind \notin Acc!Entry => c.tok \in Sessions /\ owner[c.tok] \in Users /\ c.tok # None
    BY NoneIsNoSession DEF AccInv, AccType, CallsFit, Pages, Sessions
  <1>5. CASE c.kind \in {"login", "verify"}
    <2>1. /\ owner' = Append(owner, c.user) /\ Acc!Answered(c, Len(owner'))
      BY <1>3, <1>5 DEF Acc!Serve, Acc!Issued, Acc!Entry
    <2>2. c.user \in Users /\ c.user # None
      BY <1>3, <1>5, NoneIsNoSession DEF Acc!Entry
    <2>3. Len(owner') \in Sessions' /\ Len(owner') \in Nat
      BY <2>1, <2>2, OwnerGrows DEF Sessions
    <2> QED BY <1>1, <1>5, <2>1, <2>2, <2>3, AccServed
  <1>6. CASE c.kind \in {"register", "reset"}
    <2>1. Acc!Answered(c, c.user) /\ UNCHANGED owner
      BY <1>3, <1>6 DEF Acc!Serve, Acc!Entry
    <2>2. c.user \in Users
      BY <1>3, <1>6 DEF Acc!Entry
    <2> QED BY <1>1, <1>6, <2>1, <2>2, AccServed
  <1>7. CASE c.kind \notin Acc!Entry
    <2>1. c.kind \notin {"login", "verify", "register", "reset"}
      BY <1>7 DEF Acc!Entry
    <2>2. CASE c.tok \notin valid
      <3>1. Acc!Answered(c, 401) /\ UNCHANGED owner
        BY <1>4, <1>7, <2>1, <2>2 DEF Acc!Serve
      <3> QED BY <1>1, <2>1, <3>1, AccServed
    <2>3. CASE c.tok \in valid /\ c.kind = "password"
      <3>1. /\ owner' = Append(owner, owner[c.tok]) /\ Acc!Answered(c, Len(owner'))
        BY <1>4, <1>7, <2>1, <2>3 DEF Acc!Serve, Acc!Issued
      <3>2. Len(owner') \in Nat
        BY <1>4, <1>7, <3>1, OwnerGrows
      <3> QED BY <1>1, <1>4, <1>7, <2>3, <3>1, <3>2, AccServed
    <2>4. CASE c.tok \in valid /\ c.kind # "password"
      <3>1. Acc!Answered(c, owner[c.tok]) /\ UNCHANGED owner
        BY <1>4, <1>7, <2>1, <2>4 DEF Acc!Serve
      <3> QED BY <1>1, <1>4, <1>7, <2>1, <2>4, <3>1, AccServed
    <2> QED BY <2>2, <2>3, <2>4
  <1> QED BY <1>5, <1>6, <1>7 DEF Acc!Entry

LEMMA AccStep ==
  ASSUME AccInv, Acc!Next
  PROVE  AccInv'
  <1>1. CASE \E k \in Acc!Entry \cup {"account"}, e \in Users \cup {None}, paid \in BOOLEAN : Acc!Open(k, e, paid)
    BY <1>1, AccOpen
  <1>2. CASE Acc!ContinuationAges \/ Acc!StorageEvent \/ Acc!Retry \/ Acc!Poll
    BY <1>2, AccQuiet, AccStorageEvent, AccRetryOrPoll
  <1>3. CASE (\E u \in Users \cup {None} : Acc!OtherTab(u)) \/ \E u \in Users : Acc!SubmitEntry(u)
    BY <1>3, AccOtherTab, AccSubmitEntry
  <1>4. CASE \E k \in Acc!Forms : Acc!SubmitForm(k)
    BY <1>4, AccSubmitForm
  <1>5. CASE \E c \in accCalls : Acc!Serve(c) \/ Acc!CallFails(c) \/ Acc!RegisterReply(c)
    BY <1>5, AccServe, AccQuiet
  <1>6. CASE \E c \in accCalls : Acc!LoginReply(c) \/ Acc!VerifyReply(c) \/ Acc!ResetReply(c)
    BY <1>6, AccLogin, AccVerifyOrReset
  <1>7. CASE \E c \in accCalls : \/ Acc!AccountReply(c) \/ Acc!PollReply(c) \/ Acc!RefusedLoad(c) \/ Acc!ReferralReply(c)
                              \/ Acc!PasswordReply(c) \/ Acc!CloseReply(c) \/ Acc!LogoutReply(c)
    BY <1>7, AccShows, AccLeaves, AccPassword
  <1> QED BY <1>1, <1>2, <1>3, <1>4, <1>5, <1>6, <1>7 DEF Acc!Next

\* auth.js never mixes two sessions: the account page shows its own session's
\* account, answers do not oust a session another tab stored, and a destination
\* goes to the account that asked for it - for every number of users, sessions
\* and calls.
THEOREM SessionsStayApart == Spec => []SessionsApart
  <1> DEFINE Inv == part = "account" => AccInv
  <1>1. Init => Inv
    BY AccInitially DEF Init
  <1>2. Inv /\ [Next]_vars => Inv'
    <2>1. CASE part = "account" /\ Acc!Next /\ part' = part
      BY <2>1, AccStep
    <2>2. CASE UNCHANGED <<part, accVars>>
      BY <2>2, AccStutter
    <2>3. [Next]_vars => (part = "account" /\ Acc!Next /\ part' = part) \/ UNCHANGED <<part, accVars>>
      BY DEF Next, vars
    <2> HIDE DEF Inv
    <2> QED BY <2>1, <2>2, <2>3 DEF Inv
  <1>3. Inv => SessionsApart
    <2> SUFFICES ASSUME AccInv PROVE Acc!SessionsApart
      BY DEF SessionsApart
    <2>1. DOMAIN shown = {"account", "referrals"}
      BY DEF AccInv, AccType, Shown
    <2>2. accPage.kind = "account" => \A k \in DOMAIN shown : shown[k] \in {None, owner[accPage.held]}
      BY <2>1 DEF AccInv, ShownFits
    <2> QED BY <2>2 DEF Acc!SessionsApart, AccInv, ShownFits
  <1> QED BY <1>1, <1>2, <1>3, PTL DEF Spec

-----------------------------------------------------------------------------
(* Checkout *)

Selections == [id : Nat, plan : Shop!Plans, interval : {"monthly", "annual", "one_time"}, cur : Currencies,
               completed : BOOLEAN, notice : {"none", "fixed", "stacked", "replaced", "replaced_queued"}]
CatalogLoads == [v : Nat, cur : Currencies, stage : {"all", "me"}, assistant : BOOLEAN]

ShopType ==
  /\ currency \in Currencies /\ catalog.cur \in Currencies /\ version \in Nat /\ loads \subseteq CatalogLoads
  /\ acked \in Seq({0, 1}) /\ selection \in Selections \cup {None} /\ requested \in Shop!Plans \cup {None}

\* Only the newest load can take effect; without it the cards are the currency's.
LoadsFit ==
  /\ \A l \in loads : l.v <= version /\ (l.v = version => loading /\ l.cur = currency)
  /\ \A l, m \in loads : l.v = m.v => l = m
  /\ loading \in BOOLEAN /\ (~loading => catalog.cur = currency)

CardsFit ==
  /\ fresh \in BOOLEAN /\ (fresh => catalog.live)
  /\ \A p \in Shop!Plans : cards[p] \in {"fits", "insufficient"} => catalog.live

\* One order call, for a selection that is not acknowledged yet. The account is
\* read again only for a selection that has left the page.
OrdersFit ==
  /\ \A c \in orders :
       /\ c.kind \in {"order", "me"} /\ c.id \in 1 .. Len(acked)
       /\ c.kind = "order" =>
            /\ request = c.id /\ acked[c.id] = 0 /\ (c.method # "card" => c.cur = Lira)
            /\ selection # None /\ c.id = selection.id =>
                 c.plan = selection.plan /\ c.interval = selection.interval /\ c.cur = selection.cur
       /\ c.kind = "me" => acked[c.id] = 1 /\ (selection # None /\ c.id = selection.id => panel = "hidden")
  /\ \A c, d \in orders : c.kind = "order" /\ d.kind = "order" => c = d

ButtonsOf(sel, bs) ==
  sel # None => /\ sel.completed => bs = {}
                /\ "protected" \in bs \/ "manual" \in bs => sel.cur = Lira

SelectionFits ==
  /\ selection # None => /\ selection.id \in 1 .. Len(acked)
                         /\ acked[selection.id] = IF selection.completed THEN 1 ELSE 0
                         /\ panel = "hidden" => selection.completed
  /\ ButtonsOf(selection, buttons)

PanelFits ==
  panel # "hidden" =>
    /\ selection # None /\ locked /\ ~loading /\ selection.cur = currency
    /\ selection.notice = Shop!Notice(selection.plan, account)

LeftFits == left # None /\ "cur" \in DOMAIN left => left.cur = currency

ShopInv == ShopType /\ LoadsFit /\ CardsFit /\ OrdersFit /\ SelectionFits /\ PanelFits /\ LeftFits

\* Cards drawn without the server's catalog confirm nothing.
LEMMA CardsUnknown ==
  ASSUME NEW b \in BOOLEAN, NEW p \in Shop!Plans, Shop!RenderPlans(b)[p] \in {"fits", "insufficient"}
  PROVE  b
  <1>1. Shop!RenderPlans(b)[p] = Shop!DocumentPlanCapacity(p, b)
    BY DEF Shop!RenderPlans
  <1>2. "minutes" \in Shop!Keys
    BY DEF Shop!Keys
  <1>3. SUFFICES ASSUME b = FALSE PROVE Shop!DocumentPlanCapacity(p, b) \in {None, "check"}
    BY <1>1, NoneIsNoSelection
  <1> QED BY <1>2, <1>3 DEF Shop!DocumentPlanCapacity

LEMMA SelectionTyped == None \notin Selections
  BY NoneIsNoSelection DEF Selections, Shop!Plans

LEMMA ButtonsFollow ==
  ASSUME NEW sel \in Selections \cup {None}, NEW req, NEW cs
  PROVE  ButtonsOf(sel, Shop!UpdateCheckoutButtons(sel, req, cs))
  BY DEF ButtonsOf, Shop!UpdateCheckoutButtons, Selections

LEMMA ShopInitially == Shop!Init => ShopInv
  <1> SUFFICES ASSUME Shop!Init PROVE ShopInv
    OBVIOUS
  <1> DEFINE l == [v |-> 1, cur |-> currency, stage |-> "all", assistant |-> FALSE]
  <1>1. /\ currency \in Currencies /\ version = 1 /\ loading = TRUE /\ fresh = FALSE /\ loads = {l}
        /\ catalog = [cur |-> currency, live |-> FALSE, assistant |-> FALSE]
        /\ cards = Shop!RenderPlans(FALSE) /\ selection = None /\ orders = {} /\ panel = "hidden"
        /\ left = None /\ acked = <<>> /\ requested \in Shop!Plans \cup {None}
    BY DEF Shop!Init
  <1>2. l \in CatalogLoads /\ l.v = 1 /\ l.cur = currency
    BY <1>1 DEF CatalogLoads
  <1> HIDE DEF l
  <1>3. catalog.cur = currency
    BY <1>1
  <1>4. ShopType
    BY <1>1, <1>2, <1>3 DEF ShopType
  <1>5. LoadsFit
    BY <1>1, <1>2, <1>3 DEF LoadsFit
  <1>6. CardsFit
    BY <1>1, CardsUnknown DEF CardsFit
  <1> QED BY <1>1, <1>4, <1>5, <1>6 DEF ShopInv, OrdersFit, SelectionFits, PanelFits, LeftFits, ButtonsOf

LEMMA ShopStutter == ShopInv /\ UNCHANGED shopVars => ShopInv'
  BY DEF shopVars, ShopInv, ShopType, LoadsFit, CardsFit, OrdersFit, SelectionFits, PanelFits, LeftFits, ButtonsOf

\* While a catalog is awaited the panel is closed; the loads say nothing else of it.
LEMMA CheckoutKept ==
  ASSUME ShopInv, UNCHANGED <<selection, request, orders, panel, buttons, locked, left, acked>>, left = None,
         panel = "hidden" \/ UNCHANGED <<loading, currency, account>>
  PROVE  OrdersFit' /\ SelectionFits' /\ PanelFits' /\ LeftFits'
  BY DEF ShopInv, OrdersFit, SelectionFits, PanelFits, LeftFits, ButtonsOf

LEMMA ShopChangeCurrency ==
  ASSUME ShopInv, left = None, NEW c \in Currencies, Shop!ChangeCurrency(c)
  PROVE  ShopInv'
  <1> DEFINE n == [v |-> version + 1, cur |-> c, stage |-> "all", assistant |-> FALSE]
  <1>1. /\ ~locked /\ currency' = c /\ version' = version + 1 /\ loading' = TRUE /\ fresh' = FALSE
        /\ loads' = loads \cup {n} /\ UNCHANGED <<catalog, cards, requested>>
        /\ UNCHANGED <<selection, request, orders, panel, buttons, locked, left, acked>>
    BY DEF Shop!ChangeCurrency, Shop!checkoutVars
  <1>2. version \in Nat /\ loads \subseteq CatalogLoads
    BY DEF ShopInv, ShopType
  <1>3. n \in CatalogLoads /\ n.v = version + 1 /\ n.cur = c
    BY <1>2 DEF CatalogLoads
  <1> HIDE DEF n
  <1>4. panel = "hidden"
    BY <1>1 DEF ShopInv, PanelFits
  <1>5. ShopType'
    BY <1>1, <1>2, <1>3 DEF ShopInv, ShopType
  <1>6. LoadsFit'
    <2>1. \A l \in loads : l.v \in Nat /\ l.v <= version
      BY <1>2 DEF ShopInv, LoadsFit, CatalogLoads
    <2>2. \A l \in loads : l.v # n.v /\ l.v <= version + 1 /\ l.v # version + 1
      BY <1>2, <1>3, <2>1
    <2> QED BY <1>1, <1>2, <1>3, <2>2 DEF ShopInv, LoadsFit
  <1>7. CardsFit'
    BY <1>1 DEF ShopInv, CardsFit
  <1> QED BY <1>1, <1>4, <1>5, <1>6, <1>7, CheckoutKept DEF ShopInv

LEMMA ShopLoadDropped ==
  ASSUME ShopInv, left = None, NEW l \in loads, Shop!LoadDropped(l)
  PROVE  ShopInv'
  <1>1. /\ loads' = loads \ {l} /\ UNCHANGED <<currency, version, loading, fresh, catalog, cards, account, requested>>
        /\ UNCHANGED <<selection, request, orders, panel, buttons, locked, left, acked>>
    BY DEF Shop!LoadDropped, Shop!checkoutVars
  <1>2. ShopType' /\ LoadsFit' /\ CardsFit'
    BY <1>1 DEF ShopInv, ShopType, LoadsFit, CardsFit
  <1> QED BY <1>1, <1>2, CheckoutKept DEF ShopInv

\* The newest load is the only one in flight for its version, and nothing is on the panel.
LEMMA NewestLoad ==
  ASSUME ShopInv, NEW l \in loads, ~Shop!Outdated(l)
  PROVE  /\ l \in CatalogLoads /\ l.v = version /\ loading /\ l.cur = currency /\ panel = "hidden"
         /\ \A m \in loads \ {l} : m.v # version
  BY DEF ShopInv, ShopType, LoadsFit, PanelFits, Shop!Outdated

LEMMA LoadAnswered ==
  ASSUME NEW l \in CatalogLoads, NEW a \in BOOLEAN, NEW n, n = [l EXCEPT !.stage = "me", !.assistant = a]
  PROVE  n = [v |-> l.v, cur |-> l.cur, stage |-> "me", assistant |-> a]
  BY DEF CatalogLoads

LEMMA ShopCatalogReply ==
  ASSUME ShopInv, left = None, NEW l \in loads, NEW cs \in Capabilities, NEW pr \in BOOLEAN, NEW tr \in BOOLEAN,
         Shop!CatalogReply(l, cs, pr, tr)
  PROVE  ShopInv'
  <1> DEFINE n == [l EXCEPT !.stage = "me", !.assistant = cs.assistant]
  <1>1. /\ loads' = (loads \ {l}) \cup {n} /\ UNCHANGED <<currency, version, loading, fresh, catalog, cards, account, requested>>
        /\ UNCHANGED <<selection, request, orders, panel, buttons, locked, left, acked>> /\ ~Shop!Outdated(l)
    BY DEF Shop!CatalogReply, Shop!checkoutVars
  <1>2. /\ l \in CatalogLoads /\ l.v = version /\ loading /\ l.cur = currency /\ panel = "hidden"
        /\ \A m \in loads \ {l} : m.v # version
    BY <1>1, NewestLoad
  <1>3. cs.assistant \in BOOLEAN
    BY CapabilitiesAreFlags
  <1>4. n = [v |-> l.v, cur |-> l.cur, stage |-> "me", assistant |-> cs.assistant]
    BY <1>2, <1>3, LoadAnswered
  <1> HIDE DEF n
  <1>5. n \in CatalogLoads /\ n.v = version /\ n.cur = currency
    BY <1>2, <1>3, <1>4 DEF CatalogLoads
  <1>6. ShopType'
    BY <1>1, <1>5 DEF ShopInv, ShopType
  <1>7. LoadsFit'
    BY <1>1, <1>2, <1>5 DEF ShopInv, ShopType, LoadsFit
  <1>8. CardsFit'
    BY <1>1 DEF ShopInv, CardsFit
  <1> QED BY <1>1, <1>6, <1>7, <1>8, CheckoutKept DEF ShopInv

LEMMA ShopCatalogFails ==
  ASSUME ShopInv, left = None, NEW l \in loads, NEW cs \in Capabilities, NEW pr \in BOOLEAN, NEW tr \in BOOLEAN,
         Shop!CatalogFails(l, cs, pr, tr)
  PROVE  ShopInv'
  <1>1. /\ loads' = loads \ {l} /\ loading' = FALSE /\ currency' = catalog.cur /\ cards' = Shop!RenderPlans(fresh)
        /\ UNCHANGED <<version, fresh, catalog, account, requested>>
        /\ UNCHANGED <<selection, request, orders, panel, buttons, locked, left, acked>> /\ ~Shop!Outdated(l)
    BY DEF Shop!CatalogFails, Shop!checkoutVars
  <1>2. panel = "hidden" /\ \A m \in loads \ {l} : m.v # version
    BY <1>1, NewestLoad
  <1>3. ShopType' /\ LoadsFit'
    BY <1>1, <1>2 DEF ShopInv, ShopType, LoadsFit
  <1>4. CardsFit'
    BY <1>1, CardsUnknown DEF ShopInv, CardsFit
  <1> QED BY <1>1, <1>2, <1>3, <1>4, CheckoutKept DEF ShopInv

\* The checkout's part of a step that may open it: nothing is bought, the page
\* is left, or a new selection is opened under the account of the step.
LEMMA ShopBuy ==
  ASSUME ShopInv, left = None, NEW p \in Shop!Plans, NEW i \in Shop!Intervals(p), NEW cat, NEW acc, NEW cs,
         Shop!Buy(p, i, cat, acc, cs), currency' = currency, loading' = FALSE, account' = acc,
         panel = "hidden" \/ UNCHANGED <<loading, account>>
  PROVE  /\ OrdersFit' /\ SelectionFits' /\ PanelFits' /\ LeftFits'
         /\ acked' \in Seq({0, 1}) /\ selection' \in Selections \cup {None}
  <1> DEFINE sel == [id |-> Len(acked) + 1, plan |-> p, interval |-> i, cur |-> currency,
                     completed |-> FALSE, notice |-> Shop!Notice(p, acc)]
  <1>1. \/ /\ UNCHANGED <<selection, request, orders, panel, buttons, locked, acked>>
           /\ \/ left' = left
              \/ \E w \in {"contact", "workspace", "register"} : left' = [to |-> w]
              \/ left' = [to |-> "register", plan |-> p, interval |-> i, cur |-> cat.cur] /\ cat.cur = currency
        \/ /\ selection' = sel /\ locked' = TRUE /\ panel' = "form"
           /\ buttons' = Shop!UpdateCheckoutButtons(sel, request, cs)
           /\ acked' = Append(acked, 0)
           /\ UNCHANGED <<request, orders, left>>
    BY DEF Shop!Buy, Shop!checkoutVars
  <1>2. acked \in Seq({0, 1}) /\ Len(acked) \in Nat /\ currency \in Currencies /\ selection \in Selections \cup {None}
    BY DEF ShopInv, ShopType
  <1>3. CASE /\ UNCHANGED <<selection, request, orders, panel, buttons, locked, acked>>
             /\ \/ left' = left
                \/ \E w \in {"contact", "workspace", "register"} : left' = [to |-> w]
                \/ left' = [to |-> "register", plan |-> p, interval |-> i, cur |-> cat.cur] /\ cat.cur = currency
    <2>1. OrdersFit' /\ SelectionFits' /\ PanelFits'
      BY <1>3 DEF ShopInv, OrdersFit, SelectionFits, PanelFits, ButtonsOf
    <2>2. LeftFits'
      <3>1. CASE left' = left
        BY <3>1 DEF LeftFits
      <3>2. CASE \E w \in {"contact", "workspace", "register"} : left' = [to |-> w]
        BY <3>2 DEF LeftFits
      <3>3. CASE left' = [to |-> "register", plan |-> p, interval |-> i, cur |-> cat.cur] /\ cat.cur = currency
        BY <3>3 DEF LeftFits
      <3> QED BY <1>3, <3>1, <3>2, <3>3
    <2> QED BY <1>2, <1>3, <2>1, <2>2
  <1>4. CASE /\ selection' = sel /\ locked' = TRUE /\ panel' = "form"
             /\ buttons' = Shop!UpdateCheckoutButtons(sel, request, cs)
             /\ acked' = Append(acked, 0)
             /\ UNCHANGED <<request, orders, left>>
    <2>1. sel \in Selections
      <3>1. i \in {"monthly", "annual", "one_time"}
        BY DEF Shop!Intervals
      <3>2. Shop!Notice(p, acc) \in {"none", "fixed", "stacked", "replaced", "replaced_queued"}
        BY DEF Shop!Notice
      <3> QED BY <1>2, <3>1, <3>2 DEF Selections
    <2>2. /\ sel.id = Len(acked) + 1 /\ sel.plan = p /\ sel.cur = currency /\ sel.completed = FALSE
          /\ sel.notice = Shop!Notice(p, acc)
      OBVIOUS
    <2> HIDE DEF sel
    <2>3. sel # None
      BY <2>1, SelectionTyped
    <2>4. /\ acked' \in Seq({0, 1}) /\ Len(acked') = Len(acked) + 1 /\ acked'[Len(acked) + 1] = 0
          /\ \A k \in 1 .. Len(acked) : acked'[k] = acked[k]
      BY <1>2, <1>4, AppendProperties
    <2>5. OrdersFit'
      <3>1. \A c \in orders : c.id \in 1 .. Len(acked) /\ c.id \in 1 .. Len(acked') /\ c.id # sel.id /\ acked'[c.id] = acked[c.id]
        BY <1>2, <2>2, <2>4 DEF ShopInv, OrdersFit
      <3> QED BY <1>4, <3>1 DEF ShopInv, OrdersFit
    <2>6. SelectionFits'
      <3>1. ButtonsOf(sel, buttons')
        BY <1>4, <2>1, ButtonsFollow
      <3>2. sel.id \in 1 .. Len(acked') /\ acked'[sel.id] = 0
        BY <1>2, <2>2, <2>4
      <3> QED BY <1>4, <2>2, <3>1, <3>2 DEF SelectionFits, ButtonsOf
    <2>7. PanelFits'
      BY <1>4, <2>2, <2>3 DEF PanelFits, Shop!Notice
    <2>8. LeftFits'
      BY <1>4 DEF LeftFits
    <2> QED BY <1>4, <2>1, <2>4, <2>5, <2>6, <2>7, <2>8
  <1> QED BY <1>1, <1>3, <1>4

LEMMA ShopCatalogShown ==
  ASSUME ShopInv, left = None, NEW l \in loads, NEW acc, Shop!CatalogShown(l, acc)
  PROVE  ShopInv'
  <1>1. /\ loads' = loads \ {l} /\ loading' = FALSE /\ fresh' = TRUE /\ account' = acc /\ requested' = None
        /\ catalog' = [cur |-> l.cur, live |-> TRUE, assistant |-> l.assistant]
        /\ UNCHANGED <<currency, version>> /\ ~Shop!Outdated(l)
    BY DEF Shop!CatalogShown
  <1>2. /\ l.cur = currency /\ panel = "hidden" /\ \A m \in loads \ {l} : m.v # version
    BY <1>1, NewestLoad
  <1>3. catalog'.cur = currency /\ catalog'.live
    BY <1>1, <1>2
  <1>4. /\ OrdersFit' /\ SelectionFits' /\ PanelFits' /\ LeftFits'
        /\ acked' \in Seq({0, 1}) /\ selection' \in Selections \cup {None}
    <2>1. CASE UNCHANGED Shop!checkoutVars
      <3>1. UNCHANGED <<selection, request, orders, panel, buttons, locked, left, acked>>
        BY <2>1 DEF Shop!checkoutVars
      <3>2. acked \in Seq({0, 1}) /\ selection \in Selections \cup {None}
        BY DEF ShopInv, ShopType
      <3> QED BY <1>2, <3>1, <3>2, CheckoutKept
    <2>2. CASE requested # None
      <3>1. \E i \in Shop!Intervals(requested) : Shop!Buy(requested, i, catalog', acc, caps)
        BY <2>2 DEF Shop!CatalogShown
      <3>2. requested \in Shop!Plans
        BY <2>2 DEF ShopInv, ShopType
      <3> QED BY <1>1, <1>2, <3>1, <3>2, ShopBuy
    <2> QED BY <2>1, <2>2 DEF Shop!CatalogShown
  <1>5. ShopType' /\ LoadsFit'
    BY <1>1, <1>2, <1>3, <1>4 DEF ShopInv, ShopType, LoadsFit
  <1>6. CardsFit'
    BY <1>1, <1>3 DEF CardsFit
  <1> QED BY <1>4, <1>5, <1>6 DEF ShopInv

LEMMA CatalogKept ==
  ASSUME ShopInv, UNCHANGED <<currency, version, loading, fresh, loads, catalog, cards, requested>>,
         acked' \in Seq({0, 1}), selection' \in Selections \cup {None}
  PROVE  ShopType' /\ LoadsFit' /\ CardsFit'
  BY DEF ShopInv, ShopType, LoadsFit, CardsFit

LEMMA ShopBuyClicked ==
  ASSUME ShopInv, left = None, NEW p \in Shop!Plans, NEW i \in Shop!Intervals(p), Shop!BuyClicked(p, i)
  PROVE  ShopInv'
  <1>1. /\ ~loading /\ Shop!Buy(p, i, catalog, account, caps)
        /\ UNCHANGED <<currency, version, loading, fresh, loads, catalog, cards, requested, account>>
    BY DEF Shop!BuyClicked, Shop!catalogVars
  <1>2. loading' = FALSE
    <2>1. loading \in BOOLEAN
      BY DEF ShopInv, LoadsFit
    <2> QED BY <1>1, <2>1
  <1> QED BY <1>1, <1>2, ShopBuy, CatalogKept DEF ShopInv

LEMMA ShopPanel ==
  ASSUME ShopInv, left = None, Shop!CloseCheckout \/ Shop!ShowBankTransferGuide \/ Shop!HideBankTransferGuide
  PROVE  ShopInv'
  <1>1. /\ UNCHANGED <<currency, version, loading, fresh, loads, catalog, cards, requested, account>>
        /\ UNCHANGED <<request, orders, buttons, left, acked>> /\ panel # "hidden"
        /\ \/ selection' = None /\ panel' = "hidden"
           \/ UNCHANGED <<selection, locked>> /\ panel' # "hidden"
    BY DEF Shop!CloseCheckout, Shop!ShowBankTransferGuide, Shop!HideBankTransferGuide, Shop!catalogVars
  <1>2. ShopType' /\ LoadsFit' /\ CardsFit'
    BY <1>1, CatalogKept DEF ShopInv, ShopType
  <1>3. OrdersFit'
    BY <1>1 DEF ShopInv, OrdersFit
  <1>5. SelectionFits'
    BY <1>1 DEF ShopInv, SelectionFits, ButtonsOf
  <1>4. PanelFits' /\ LeftFits'
    <2>1. CASE panel' = "hidden"
      BY <1>1, <2>1 DEF ShopInv, PanelFits, LeftFits
    <2>2. CASE UNCHANGED <<selection, locked>>
      BY <1>1, <2>2 DEF ShopInv, PanelFits, LeftFits
    <2> QED BY <1>1, <2>1, <2>2
  <1> QED BY <1>2, <1>3, <1>4, <1>5 DEF ShopInv

LEMMA ShopPlaceOrder ==
  ASSUME ShopInv, left = None, NEW m \in {"card", "protected", "manual"}, Shop!PlaceOrder(m)
  PROVE  ShopInv'
  <1> DEFINE n == [kind |-> "order", id |-> selection.id, method |-> m, plan |-> selection.plan,
                   interval |-> selection.interval, cur |-> selection.cur]
  <1>1. /\ selection # None /\ request = None /\ m \in buttons /\ request' = selection.id /\ buttons' = {}
        /\ orders' = orders \cup {n}
        /\ UNCHANGED <<currency, version, loading, fresh, loads, catalog, cards, requested, account>>
        /\ UNCHANGED <<selection, panel, locked, left, acked>>
        /\ panel # "hidden"
    BY DEF Shop!PlaceOrder, Shop!Orderable, Shop!catalogVars
  <1>2. /\ n.kind = "order" /\ n.id = selection.id /\ n.method = m /\ n.plan = selection.plan
        /\ n.interval = selection.interval /\ n.cur = selection.cur
    OBVIOUS
  <1> HIDE DEF n
  <1>3. /\ selection.id \in 1 .. Len(acked) /\ acked[selection.id] = 0 /\ (m # "card" => selection.cur = Lira)
    BY <1>1 DEF ShopInv, SelectionFits, ButtonsOf
  <1>4. \A c \in orders : c.kind # "order"
    <2>1. \A c \in orders : c.id \in Nat
      BY DEF ShopInv, OrdersFit, ShopType
    <2> QED BY <1>1, <2>1, NoneIsNoSession DEF ShopInv, OrdersFit
  <1>5. ShopType' /\ LoadsFit' /\ CardsFit'
    BY <1>1, CatalogKept DEF ShopInv, ShopType
  <1>6. \A c \in orders : c.kind = "me" /\ c.id # selection.id
    BY <1>1, <1>3, <1>4 DEF ShopInv, OrdersFit
  <1>7. OrdersFit'
    <2>1. \A c \in orders : c.id \in 1 .. Len(acked) /\ acked[c.id] = 1
      BY <1>6 DEF ShopInv, OrdersFit
    <2> QED BY <1>1, <1>2, <1>3, <1>6, <2>1 DEF OrdersFit
  <1>8. SelectionFits'
    BY <1>1 DEF ShopInv, SelectionFits, ButtonsOf
  <1>9. PanelFits' /\ LeftFits'
    BY <1>1 DEF ShopInv, PanelFits, LeftFits
  <1> QED BY <1>5, <1>7, <1>8, <1>9 DEF ShopInv

\* An order call ends; it was the only one.
LEMMA LastOrder ==
  ASSUME ShopInv, NEW c \in orders, c.kind = "order", NEW sel, Shop!Finished(c, sel)
  PROVE  /\ request' = None /\ \A d \in orders \ {c} : d.kind = "me"
         /\ buttons' = Shop!UpdateCheckoutButtons(sel, None, caps)
  BY DEF ShopInv, OrdersFit, Shop!Finished

LEMMA ShopOrderEnds ==
  ASSUME ShopInv, left = None, NEW c \in orders, Shop!OrderFails(c) \/ Shop!OrderUnseen(c)
  PROVE  ShopInv'
  <1>1. /\ c.kind = "order" /\ orders' = orders \ {c} /\ Shop!Finished(c, selection)
        /\ UNCHANGED <<currency, version, loading, fresh, loads, catalog, cards, requested, account>>
        /\ UNCHANGED <<selection, panel, locked, left, acked>>
    BY DEF Shop!OrderFails, Shop!OrderUnseen, Shop!catalogVars
  <1>2. /\ \A d \in orders' : d \in orders /\ d.kind = "me"
        /\ buttons' = Shop!UpdateCheckoutButtons(selection, None, caps)
    BY <1>1, LastOrder
  <1>3. ButtonsOf(selection, buttons')
    BY <1>2, ButtonsFollow DEF ShopInv, ShopType
  <1>4. ShopType' /\ LoadsFit' /\ CardsFit'
    BY <1>1, CatalogKept DEF ShopInv, ShopType
  <1>5. OrdersFit'
    BY <1>1, <1>2 DEF ShopInv, OrdersFit
  <1>6. SelectionFits'
    BY <1>1, <1>3 DEF ShopInv, SelectionFits, ButtonsOf
  <1>7. PanelFits' /\ LeftFits'
    BY <1>1 DEF ShopInv, PanelFits, LeftFits
  <1> QED BY <1>4, <1>5, <1>6, <1>7 DEF ShopInv

\* An order on the page is acknowledged, once.
LEMMA Acknowledgement ==
  ASSUME ShopInv, NEW c \in orders, c.kind = "order", Shop!StillSelected(c), Shop!Acknowledged(c),
         selection' = [selection EXCEPT !.completed = TRUE], Shop!Finished(c, selection')
  PROVE  /\ acked' \in Seq({0, 1}) /\ Len(acked') = Len(acked)
         /\ acked'[c.id] = 1 /\ \A k \in 1 .. Len(acked) : k # c.id => acked'[k] = acked[k]
         /\ selection \in Selections /\ selection' \in Selections /\ selection'.id = c.id /\ selection.id = c.id
         /\ selection'.completed /\ selection'.cur = selection.cur
         /\ selection'.plan = selection.plan /\ selection'.notice = selection.notice
         /\ buttons' = {} /\ c.id \in 1 .. Len(acked) /\ panel # "hidden"
         /\ \A d \in orders \ {c} : d.kind = "me" /\ d.id # c.id
  <1>1. /\ selection \in Selections /\ selection.id = c.id /\ selection # None
        /\ c.id \in 1 .. Len(acked) /\ acked[c.id] = 0 /\ acked \in Seq({0, 1})
    BY DEF ShopInv, ShopType, OrdersFit, Shop!StillSelected
  <1>2. selection' \in Selections
    BY <1>1 DEF Selections
  <1>3. /\ selection'.id = c.id /\ selection'.completed /\ selection'.cur = selection.cur
        /\ selection'.plan = selection.plan /\ selection'.notice = selection.notice
    BY <1>1 DEF Selections
  <1>4. acked' = [acked EXCEPT ![c.id] = 1]
    BY <1>1 DEF Shop!Acknowledged
  <1>5. /\ acked' \in Seq({0, 1}) /\ Len(acked') = Len(acked)
        /\ \A k \in 1 .. Len(acked) : acked'[k] = IF k = c.id THEN 1 ELSE acked[k]
    <2> DEFINE i == c.id
    <2>1. i \in 1 .. Len(acked) /\ acked' = [acked EXCEPT ![i] = 1] /\ 1 \in {0, 1}
      BY <1>1, <1>4
    <2> HIDE DEF i
    <2>2. /\ acked' \in Seq({0, 1}) /\ Len(acked') = Len(acked)
          /\ \A k \in 1 .. Len(acked) : acked'[k] = IF k = i THEN 1 ELSE acked[k]
      BY <1>1, <2>1, ExceptSeq
    <2> QED BY <2>2 DEF i
  <1>6. ~selection.completed /\ panel # "hidden"
    BY <1>1 DEF ShopInv, SelectionFits
  <1>7. buttons' = Shop!UpdateCheckoutButtons(selection', None, caps) /\ \A d \in orders \ {c} : d.kind = "me"
    BY LastOrder
  <1>8. selection' # None
    BY <1>2, SelectionTyped
  <1>9. buttons' = {}
    BY <1>3, <1>7, <1>8, <1>2, ButtonsFollow DEF ButtonsOf
  <1>10. \A d \in orders \ {c} : d.id # c.id
    BY <1>1, <1>7 DEF ShopInv, OrdersFit
  <1> QED BY <1>1, <1>2, <1>3, <1>5, <1>6, <1>7, <1>9, <1>10

LEMMA ShopHostedReply ==
  ASSUME ShopInv, left = None, NEW c \in orders, NEW redirect \in BOOLEAN, Shop!HostedReply(c, redirect)
  PROVE  ShopInv'
  <1>1. /\ c.kind = "order" /\ Shop!StillSelected(c) /\ Shop!Acknowledged(c) /\ Shop!Finished(c, selection')
        /\ selection' = [selection EXCEPT !.completed = TRUE] /\ orders' = orders \ {c}
        /\ panel' \in {panel, "frame"} /\ locked' = locked
        /\ left' = left \/ left' = [to |-> "provider", plan |-> c.plan]
        /\ UNCHANGED <<currency, version, loading, fresh, loads, catalog, cards, requested, account>>
    BY DEF Shop!HostedReply, Shop!catalogVars
  <1>2. /\ acked' \in Seq({0, 1}) /\ Len(acked') = Len(acked) /\ acked'[c.id] = 1
        /\ \A k \in 1 .. Len(acked) : k # c.id => acked'[k] = acked[k]
        /\ selection \in Selections /\ selection' \in Selections /\ selection'.id = c.id
        /\ selection'.completed /\ selection'.cur = selection.cur
        /\ selection'.plan = selection.plan /\ selection'.notice = selection.notice
        /\ buttons' = {} /\ c.id \in 1 .. Len(acked) /\ panel # "hidden"
        /\ \A d \in orders \ {c} : d.kind = "me" /\ d.id # c.id
    BY <1>1, Acknowledgement
  <1>3. ShopType' /\ LoadsFit' /\ CardsFit'
    BY <1>1, <1>2, CatalogKept
  <1>4. OrdersFit'
    BY <1>1, <1>2 DEF ShopInv, OrdersFit
  <1>5. SelectionFits'
    BY <1>1, <1>2 DEF SelectionFits, ButtonsOf
  <1>6. PanelFits'
    <2>1. selection' # None
      BY <1>2, SelectionTyped
    <2>2. selection.cur = currency /\ ~loading /\ locked /\ selection.notice = Shop!Notice(selection.plan, account)
      BY <1>2 DEF ShopInv, PanelFits
    <2> QED BY <1>1, <1>2, <2>1, <2>2 DEF PanelFits, Shop!Notice
  <1>7. LeftFits'
    BY <1>1 DEF LeftFits
  <1> QED BY <1>3, <1>4, <1>5, <1>6, <1>7 DEF ShopInv

LEMMA ShopTransferReply ==
  ASSUME ShopInv, left = None, NEW c \in orders, Shop!TransferReply(c)
  PROVE  ShopInv'
  <1> DEFINE n == [kind |-> "me", id |-> c.id]
  <1>1. /\ c.kind = "order" /\ Shop!StillSelected(c) /\ Shop!Acknowledged(c) /\ Shop!Finished(c, selection')
        /\ selection' = [selection EXCEPT !.completed = TRUE] /\ orders' = (orders \ {c}) \cup {n}
        /\ panel' = "hidden" /\ left' = left
        /\ UNCHANGED <<currency, version, loading, fresh, loads, catalog, cards, requested, account>>
    BY DEF Shop!TransferReply, Shop!TransferShown, Shop!catalogVars
  <1>2. n.kind = "me" /\ n.id = c.id
    OBVIOUS
  <1> HIDE DEF n
  <1>3. /\ acked' \in Seq({0, 1}) /\ Len(acked') = Len(acked) /\ acked'[c.id] = 1
        /\ \A k \in 1 .. Len(acked) : k # c.id => acked'[k] = acked[k]
        /\ selection' \in Selections /\ selection'.id = c.id /\ selection'.completed
        /\ buttons' = {} /\ c.id \in 1 .. Len(acked)
        /\ \A d \in orders \ {c} : d.kind = "me" /\ d.id # c.id
    BY <1>1, Acknowledgement
  <1>4. ShopType' /\ LoadsFit' /\ CardsFit'
    BY <1>1, <1>3, CatalogKept
  <1>5. OrdersFit'
    BY <1>1, <1>2, <1>3 DEF ShopInv, OrdersFit
  <1>6. SelectionFits'
    BY <1>1, <1>3 DEF SelectionFits, ButtonsOf
  <1>7. PanelFits' /\ LeftFits'
    BY <1>1 DEF ShopInv, PanelFits, LeftFits
  <1> QED BY <1>4, <1>5, <1>6, <1>7 DEF ShopInv

LEMMA ShopTransferAccount ==
  ASSUME ShopInv, left = None, NEW c \in orders, NEW acc, Shop!TransferAccount(c, acc)
  PROVE  ShopInv'
  <1>1. /\ c.kind = "me" /\ orders' = orders \ {c} /\ buttons' = Shop!UpdateCheckoutButtons(selection, request, caps)
        /\ account' = IF Shop!StillSelected(c) /\ acc # None THEN acc ELSE account
        /\ UNCHANGED <<currency, version, loading, fresh, loads, catalog, cards, requested>>
        /\ UNCHANGED <<selection, request, panel, locked, left, acked>>
    BY DEF Shop!TransferAccount
  <1>2. ShopType' /\ LoadsFit' /\ CardsFit'
    BY <1>1, CatalogKept DEF ShopInv, ShopType
  <1>3. OrdersFit'
    BY <1>1 DEF ShopInv, OrdersFit
  <1>4. SelectionFits'
    <2>1. ButtonsOf(selection, buttons')
      BY <1>1, ButtonsFollow DEF ShopInv, ShopType
    <2> QED BY <1>1, <2>1 DEF ShopInv, SelectionFits, ButtonsOf
  <1>5. panel # "hidden" => account' = account
    BY <1>1 DEF ShopInv, OrdersFit, Shop!StillSelected
  <1>6. PanelFits' /\ LeftFits'
    BY <1>1, <1>5 DEF ShopInv, PanelFits, LeftFits
  <1> QED BY <1>2, <1>3, <1>4, <1>6 DEF ShopInv

LEMMA ShopStep ==
  ASSUME ShopInv, Shop!Next
  PROVE  ShopInv'
  <1>1. left = None
    BY DEF Shop!Next
  <1>2. CASE \E c \in Currencies : Shop!ChangeCurrency(c)
    BY <1>1, <1>2, ShopChangeCurrency
  <1>3. CASE \E l \in loads : Shop!LoadDropped(l)
    BY <1>1, <1>3, ShopLoadDropped
  <1>4. CASE \E l \in loads, cs \in Capabilities, pr, tr \in BOOLEAN : Shop!CatalogReply(l, cs, pr, tr)
    BY <1>1, <1>4, ShopCatalogReply
  <1>5. CASE \E l \in loads, cs \in Capabilities, pr, tr \in BOOLEAN : Shop!CatalogFails(l, cs, pr, tr)
    BY <1>1, <1>5, ShopCatalogFails
  <1>6. CASE \E l \in loads : \E acc \in IF token THEN Accounts \cup {None} ELSE {None} : Shop!CatalogShown(l, acc)
    <2>1. PICK l \in loads, acc \in IF token THEN Accounts \cup {None} ELSE {None} : Shop!CatalogShown(l, acc)
      BY <1>6
    <2> QED BY <1>1, <2>1, ShopCatalogShown
  <1>7. CASE \E p \in Shop!Plans : \E i \in Shop!Intervals(p) : Shop!BuyClicked(p, i)
    BY <1>1, <1>7, ShopBuyClicked
  <1>8. CASE Shop!CloseCheckout \/ Shop!ShowBankTransferGuide \/ Shop!HideBankTransferGuide
    BY <1>1, <1>8, ShopPanel
  <1>9. CASE \E m \in {"card", "protected", "manual"} : Shop!PlaceOrder(m)
    BY <1>1, <1>9, ShopPlaceOrder
  <1>10. CASE \E c \in orders : Shop!OrderFails(c) \/ Shop!OrderUnseen(c) \/ Shop!TransferReply(c)
    BY <1>1, <1>10, ShopOrderEnds, ShopTransferReply
  <1>11. CASE \E c \in orders, redirect \in BOOLEAN : Shop!HostedReply(c, redirect)
    BY <1>1, <1>11, ShopHostedReply
  <1>12. CASE \E c \in orders : \E acc \in Accounts \cup {None} : Shop!TransferAccount(c, acc)
    BY <1>1, <1>12, ShopTransferAccount
  <1> QED BY <1>2, <1>3, <1>4, <1>5, <1>6, <1>7, <1>8, <1>9, <1>10, <1>11, <1>12 DEF Shop!Next

LEMMA OneOrder ==
  ASSUME ShopInv
  PROVE  Shop!Cardinality(Shop!Orders) <= 1
  <1>1. Shop!Cardinality(Shop!Orders) = Cardinality(Shop!Orders)
    BY DEF Shop!Cardinality, Cardinality, Shop!IsFiniteSet, IsFiniteSet
  <1>2. CASE Shop!Orders = {}
    BY <1>1, <1>2, FS_EmptySet
  <1>3. CASE \E c : Shop!Orders = {c}
    BY <1>1, <1>3, FS_Singleton
  <1>4. Shop!Orders = {} \/ \E c : Shop!Orders = {c}
    BY DEF ShopInv, OrdersFit, Shop!Orders
  <1> QED BY <1>2, <1>3, <1>4

\* plans.js orders what the visitor saw, under the account and the currency of
\* the page, one order at a time and none twice, for every catalog, every number
\* of loads and selections and every set of currencies.
THEOREM OrdersAreAsShown == Spec => []OrderedAsShown
  <1> DEFINE Inv == part = "checkout" => ShopInv
  <1>1. Init => Inv
    BY ShopInitially DEF Init
  <1>2. Inv /\ [Next]_vars => Inv'
    <2>1. CASE part = "checkout" /\ Shop!Next /\ part' = part
      BY <2>1, ShopStep
    <2>2. CASE UNCHANGED <<part, shopVars>>
      BY <2>2, ShopStutter
    <2>3. [Next]_vars => (part = "checkout" /\ Shop!Next /\ part' = part) \/ UNCHANGED <<part, shopVars>>
      BY DEF Next, vars
    <2> HIDE DEF Inv
    <2> QED BY <2>1, <2>2, <2>3 DEF Inv
  <1>3. Inv => OrderedAsShown
    <2> SUFFICES ASSUME ShopInv PROVE Shop!OrderedAsShown
      BY DEF OrderedAsShown
    <2>1. panel # "hidden" =>
            /\ selection # None /\ ~loading /\ selection.cur = currency /\ catalog.cur = currency
            /\ selection.notice = Shop!Notice(selection.plan, account)
      BY DEF ShopInv, PanelFits, LoadsFit
    <2>2. \A c \in Shop!Orders :
            /\ c.method # "card" => c.cur = Lira
            /\ selection # None /\ c.id = selection.id =>
                 c.plan = selection.plan /\ c.interval = selection.interval /\ c.cur = selection.cur
      BY DEF ShopInv, OrdersFit, Shop!Orders
    <2>3. \A s \in DOMAIN acked : acked[s] <= 1
      BY DEF ShopInv, ShopType
    <2> QED BY <2>1, <2>2, <2>3, OneOrder DEF Shop!OrderedAsShown, ShopInv, LoadsFit, CardsFit, LeftFits
  <1> QED BY <1>1, <1>2, <1>3, PTL DEF Spec

-----------------------------------------------------------------------------
(* Privacy *)

Records == [choice : SUBSET Purposes, saved : BOOLEAN, google : (SUBSET Purposes) \cup {None},
            pending : BOOLEAN, denied : SUBSET Purposes]
States == {"checking", "loading", "unavailable", "local", "google"}
Views == [state : States, script : BOOLEAN, api : BOOLEAN, mode : BOOLEAN, seen : BOOLEAN, ui : BOOLEAN,
          fresh : BOOLEAN, values : (SUBSET Purposes) \cup {None}, snap : (SUBSET Purposes) \cup {None},
          moved : BOOLEAN]
AdViews == [starting : BOOLEAN, loading : BOOLEAN, shown : BOOLEAN, auto : BOOLEAN]

PrivType ==
  /\ store \in Records /\ cmp \in Views /\ ads \in AdViews
  /\ decision \in (SUBSET Purposes) \cup {None} /\ said \in SUBSET Purposes

PrivFlags == event \in BOOLEAN /\ missed \in BOOLEAN

\* A decision in the CMP is in the record, and what later choices took back of
\* it is remembered as denied.
Decided(st, dec, sd) == dec # None => st.google # None /\ dec \ st.denied \subseteq sd

\* The record allows no more than the visitor said.
Bounded(st, sd) == IF st.google = None THEN st.choice \subseteq sd ELSE st.google \ st.denied \subseteq sd

\* The CMP's snapshot exists once its script runs, and is of a decision.
Started(c, dec) ==
  /\ c.state = "checking" => c.script = FALSE
  /\ c.api => c.script
  /\ c.snap # None => c.api /\ dec # None

\* The snapshot allows no more than the visitor said, unless this document
\* knows, or will hear, that it is out of date.
Snapped(st, c, ev, sd) == c.fresh \/ (ev /\ c.moved) \/ c.snap = None \/ c.snap \ st.denied \subseteq sd

PrivBounds == ~missed => Bounded(store, said) /\ Snapped(store, cmp, event, said)

PrivInv ==
  /\ PrivType /\ PrivFlags /\ Decided(store, decision, said) /\ Started(cmp, decision)
  /\ PrivBounds /\ Priv!WithinConsent

LEMMA PrivPurposes ==
  /\ Priv!Purposes = Purposes /\ Priv!AdPurposes \subseteq Purposes /\ Priv!AdPurposes # {}
  BY DEF Priv!Purposes, Purposes, Priv!AdPurposes

\* What is granted under a record and a view of the CMP.
LEMMA GrantedBounds ==
  ASSUME NEW st \in Records, NEW c \in Views
  PROVE  /\ Priv!GoogleChoices(st, c) \subseteq Purposes
         /\ c.state = "checking" \/ c.state = "loading" => Priv!GoogleChoices(st, c) = {}
         /\ \A sd : Bounded(st, sd) => Priv!GoogleChoices(st, c) \subseteq sd
         /\ \A d \in Views : d.state = c.state /\ d.values = c.values => Priv!GoogleChoices(st, d) = Priv!GoogleChoices(st, c)
  <1>1. CASE c.state \in {"checking", "loading", "unavailable"} \/ st.pending
    <2>1. Priv!GoogleChoices(st, c) = {}
      BY <1>1 DEF Priv!GoogleChoices
    <2>2. \A d \in Views : d.state = c.state => Priv!GoogleChoices(st, d) = {}
      BY <1>1 DEF Priv!GoogleChoices
    <2> QED BY <2>1, <2>2
  <1>2. CASE c.state = "google" /\ ~st.pending
    <2>1. Priv!GoogleChoices(st, c) = IF st.google = None \/ c.values = None THEN {} ELSE (c.values \cap st.google) \ st.denied
      BY <1>2 DEF Priv!GoogleChoices
    <2>2. \A d \in Views : d.state = c.state =>
            Priv!GoogleChoices(st, d) = IF st.google = None \/ d.values = None THEN {} ELSE (d.values \cap st.google) \ st.denied
      BY <1>2 DEF Priv!GoogleChoices
    <2>3. Priv!GoogleChoices(st, c) \subseteq Purposes
      BY <2>1 DEF Records
    <2>4. \A sd : Bounded(st, sd) => Priv!GoogleChoices(st, c) \subseteq sd
      BY <2>1 DEF Bounded
    <2> QED BY <1>2, <2>1, <2>2, <2>3, <2>4
  <1>3. CASE c.state = "local" /\ ~st.pending
    <2>1. Priv!GoogleChoices(st, c) = (IF st.google = None THEN st.choice ELSE st.choice \cap st.google) \ st.denied
      BY <1>3 DEF Priv!GoogleChoices
    <2>2. \A d \in Views : d.state = c.state => Priv!GoogleChoices(st, d) = Priv!GoogleChoices(st, c)
      BY <1>3 DEF Priv!GoogleChoices
    <2>3. Priv!GoogleChoices(st, c) \subseteq Purposes
      BY <2>1 DEF Records
    <2>4. \A sd : Bounded(st, sd) => Priv!GoogleChoices(st, c) \subseteq sd
      BY <2>1 DEF Bounded
    <2> QED BY <1>3, <2>2, <2>3, <2>4
  <1> QED BY <1>1, <1>2, <1>3 DEF Views, States

LEMMA FreshView ==
  /\ Priv!FreshCmp \in Views /\ Priv!FreshCmp.state = "checking" /\ Priv!FreshCmp.snap = None
  /\ Priv!FreshCmp.script = FALSE /\ Priv!FreshCmp.api = FALSE
  BY DEF Priv!FreshCmp, Views, States

LEMMA FreshAds == Priv!NoAds \in AdViews /\ Priv!NoAds.shown = FALSE /\ Priv!NoAds.auto = FALSE
  BY DEF Priv!NoAds, AdViews

\* A page that was just loaded satisfies everything about its view.
LEMMA PrivFresh ==
  ASSUME NEW st \in Records, NEW dec, NEW sd, NEW ev
  PROVE  Started(Priv!FreshCmp, dec) /\ Snapped(st, Priv!FreshCmp, ev, sd)
  BY FreshView DEF Started, Snapped

\* Nothing has been granted by a page that was just loaded.
LEMMA FreshWithin ==
  ASSUME Priv!Fresh, store' \in Records
  PROVE  cmp' = Priv!FreshCmp /\ ads' \in AdViews /\ Priv!WithinConsent'
  <1>1. cmp' = Priv!FreshCmp /\ told' = {} /\ ads' = Priv!NoAds
    BY DEF Priv!Fresh
  <1> QED BY <1>1, FreshAds DEF Priv!WithinConsent

\* notify: whatever the listeners had done now keeps to the choices.
LEMMA NotifyWithin ==
  ASSUME ads \in AdViews, NEW st \in Records, NEW c \in Views, Priv!Notify(st, c)
  PROVE  /\ store' = st /\ cmp' \in {c, Priv!FreshCmp} /\ ads' \in AdViews /\ Priv!WithinConsent'
  <1> DEFINE granted == Priv!GoogleChoices(st, c)
             reload == ads.auto /\ ~(Priv!AdPurposes \subseteq granted)
  <1>1. store' = st /\ (IF reload THEN Priv!Fresh ELSE cmp' = c /\ Priv!UpdateConsent(granted) /\ Priv!RefreshForConsent)
    BY DEF Priv!Notify
  <1>2. CASE reload
    BY <1>1, <1>2, FreshWithin
  <1>3. CASE ~reload
    <2>1. cmp' = c /\ told' = granted /\ ads' = [ads EXCEPT !.starting = TRUE, !.shown = FALSE]
      BY <1>1, <1>3 DEF Priv!UpdateConsent, Priv!RefreshForConsent
    <2>2. ads' = [starting |-> TRUE, loading |-> ads.loading, shown |-> FALSE, auto |-> ads.auto]
      BY <2>1 DEF AdViews
    <2>3. ads' \in AdViews /\ ads'.shown = FALSE /\ ads'.auto = ads.auto
      BY <2>2 DEF AdViews
    <2>4. Priv!Granted' = granted
      BY <1>1, <2>1 DEF Priv!Granted, Priv!GoogleChoices
    <2>5. Priv!WithinConsent'
      BY <1>3, <2>1, <2>3, <2>4 DEF Priv!WithinConsent, Priv!AdvertisingAllowed
    <2> QED BY <1>1, <2>1, <2>3, <2>5
  <1> QED BY <1>2, <1>3

LEMMA PrivNotify ==
  ASSUME PrivInv, NEW st \in Records, NEW c \in Views, Priv!Notify(st, c),
         decision' \in (SUBSET Purposes) \cup {None}, said' \in SUBSET Purposes, PrivFlags',
         Decided(st, decision', said'), Started(c, decision'),
         ~missed' => Bounded(st, said') /\ Snapped(st, c, event', said')
  PROVE  PrivInv'
  <1>1. store' = st /\ cmp' \in {c, Priv!FreshCmp} /\ ads' \in AdViews /\ Priv!WithinConsent'
    BY NotifyWithin DEF PrivInv, PrivType
  <1>2. PrivType'
    BY <1>1, FreshView DEF PrivType
  <1>3. Decided(store', decision', said')
    BY <1>1
  <1>4. Started(cmp', decision') /\ (~missed' => Snapped(store', cmp', event', said'))
    BY <1>1, PrivFresh
  <1>5. ~missed' => Bounded(store', said')
    BY <1>1
  <1> QED BY <1>1, <1>2, <1>3, <1>4, <1>5 DEF PrivInv, PrivBounds, Decided, Started, Bounded, Snapped

\* The record is marked as pending, or everything in it is taken back as well.
LEMMA PendingForm ==
  ASSUME NEW st \in Records, NEW revoke \in BOOLEAN
  PROVE  /\ Priv!Pending(st, revoke) \in Records /\ Priv!Pending(st, revoke).denied = st.denied
         /\ revoke => Priv!Pending(st, revoke).google = {}
         /\ ~revoke => Priv!Pending(st, revoke).google = st.google /\ Priv!Pending(st, revoke).choice = st.choice
  <1> DEFINE p == Priv!Pending(st, revoke)
  <1>1. p = [choice |-> IF revoke THEN {} ELSE st.choice, saved |-> st.saved,
             google |-> IF revoke THEN {} ELSE st.google, pending |-> TRUE, denied |-> st.denied]
    <2>1. p = [st EXCEPT !.pending = TRUE, !.choice = IF revoke THEN {} ELSE st.choice,
                         !.google = IF revoke THEN {} ELSE st.google]
      BY DEF Priv!Pending, Records
    <2> HIDE DEF p
    <2> QED BY <2>1 DEF Records
  <1> HIDE DEF p
  <1>2. p \in Records
    BY <1>1 DEF Records
  <1>3. /\ p.denied = st.denied /\ (revoke => p.google = {})
        /\ (~revoke => p.google = st.google /\ p.choice = st.choice)
    BY <1>1
  <1> QED BY <1>2, <1>3 DEF p

\* A record that takes something back from another keeps to what was said.
Narrower(st, old) == st.denied = old.denied /\ (st.google = {} \/ (st.google = old.google /\ st.choice = old.choice))

LEMMA NarrowerKeeps ==
  ASSUME NEW st \in Records, NEW old \in Records, Narrower(st, old), NEW dec, NEW sd
  PROVE  /\ Decided(old, dec, sd) => Decided(st, dec, sd)
         /\ Bounded(old, sd) => Bounded(st, sd)
         /\ \A c, ev : Snapped(old, c, ev, sd) => Snapped(st, c, ev, sd)
  <1>1. {} # None
    BY DecisionsArePurposes
  <1> QED BY <1>1 DEF Narrower, Decided, Bounded, Snapped

LEMMA PendingNarrower ==
  ASSUME NEW st \in Records, NEW revoke \in BOOLEAN
  PROVE  Priv!Pending(st, revoke) \in Records /\ Narrower(Priv!Pending(st, revoke), st)
  BY PendingForm DEF Narrower

LEMMA SettledNarrower ==
  ASSUME NEW st \in Records, NEW p, p = [st EXCEPT !.pending = FALSE]
  PROVE  p \in Records /\ Narrower(p, st)
  <1>1. p \in Records
    BY DEF Records
  <1>2. p.denied = st.denied /\ p.google = st.google /\ p.choice = st.choice
    BY DEF Records
  <1> QED BY <1>1, <1>2 DEF Narrower

\* The listeners are told of a record that is no wider, under a view with the
\* same snapshot.
LEMMA NarrowerNotify ==
  ASSUME PrivInv, NEW st \in Records, Narrower(st, store), NEW c \in Views, Priv!Notify(st, c),
         UNCHANGED <<decision, said>>, PrivFlags',
         c.script = cmp.script, c.api = cmp.api, c.snap = cmp.snap, c.state = "checking" => cmp.state = "checking",
         ~missed' => ~missed /\ (c.fresh \/ (event' /\ c.moved) \/ (cmp.fresh = FALSE /\ ~(event /\ cmp.moved)))
  PROVE  PrivInv'
  <1>1. Decided(st, decision', said')
    <2>1. Decided(store, decision, said) /\ store \in Records
      BY DEF PrivInv, PrivType
    <2>2. Decided(st, decision, said)
      BY <2>1, NarrowerKeeps
    <2> QED BY <2>2
  <1>2. Started(c, decision')
    BY DEF PrivInv, Started
  <1>3. ~missed' => Bounded(st, said') /\ Snapped(st, c, event', said')
    <2> SUFFICES ASSUME ~missed' PROVE Bounded(st, said') /\ Snapped(st, c, event', said')
      OBVIOUS
    <2>1. Bounded(store, said) /\ Snapped(store, cmp, event, said)
      BY DEF PrivInv, PrivBounds
    <2>2. Bounded(st, said) /\ Snapped(st, cmp, event, said)
      BY <2>1, NarrowerKeeps DEF PrivInv, PrivType
    <2> QED BY <2>2 DEF Bounded, Snapped
  <1> QED BY <1>1, <1>2, <1>3, PrivNotify DEF PrivInv, PrivType

LEMMA FlagsOfView ==
  ASSUME NEW c \in Views
  PROVE  c.fresh \in BOOLEAN /\ c.moved \in BOOLEAN /\ c.script \in BOOLEAN /\ c.api \in BOOLEAN /\ c.ui \in BOOLEAN
  BY DEF Views

\* The views after a step, field by field.
LEMMA FailedView ==
  ASSUME NEW c \in Views, NEW d, d = [c EXCEPT !.state = "unavailable", !.values = None, !.moved = FALSE]
  PROVE  /\ d \in Views /\ d.state = "unavailable" /\ d.moved = FALSE
         /\ d.script = c.script /\ d.api = c.api /\ d.snap = c.snap /\ d.fresh = c.fresh
  <1>1. d = [state |-> "unavailable", script |-> c.script, api |-> c.api, mode |-> c.mode, seen |-> c.seen,
             ui |-> c.ui, fresh |-> c.fresh, values |-> None, snap |-> c.snap, moved |-> FALSE]
    BY DEF Views
  <1>2. d \in Views
    BY <1>1 DEF Views, States
  <1> QED BY <1>1, <1>2

LEMMA LoadingView ==
  ASSUME NEW c \in Views, NEW d, d = [c EXCEPT !.state = "loading", !.script = TRUE, !.moved = FALSE]
  PROVE  /\ d \in Views /\ d.state = "loading" /\ d.script = TRUE /\ d.values = c.values
         /\ d.api = c.api /\ d.snap = c.snap /\ d.fresh = c.fresh
  <1>1. d = [state |-> "loading", script |-> TRUE, api |-> c.api, mode |-> c.mode, seen |-> c.seen,
             ui |-> c.ui, fresh |-> c.fresh, values |-> c.values, snap |-> c.snap, moved |-> FALSE]
    BY DEF Views
  <1>2. d \in Views
    BY <1>1 DEF Views, States
  <1> QED BY <1>1, <1>2

LEMMA LocalView ==
  ASSUME NEW c \in Views, NEW d,
         d = [c EXCEPT !.state = "local", !.values = None] \/ d = [c EXCEPT !.state = "local"]
  PROVE  /\ d \in Views /\ d.state = "local" /\ d.moved = c.moved
         /\ d.script = c.script /\ d.api = c.api /\ d.snap = c.snap /\ d.fresh = c.fresh
  <1>1. CASE d = [c EXCEPT !.state = "local"]
    <2>1. d \in Views
      BY <1>1 DEF Views, States
    <2> QED BY <1>1, <2>1 DEF Views
  <1>2. CASE d = [c EXCEPT !.state = "local", !.values = None]
    <2>1. d = [state |-> "local", script |-> c.script, api |-> c.api, mode |-> c.mode, seen |-> c.seen,
               ui |-> c.ui, fresh |-> c.fresh, values |-> None, snap |-> c.snap, moved |-> c.moved]
      BY <1>2 DEF Views
    <2>2. d \in Views
      BY <2>1 DEF Views, States
    <2> QED BY <2>1, <2>2
  <1> QED BY <1>1, <1>2

LEMMA ManagedView ==
  ASSUME NEW c \in Views, NEW d, d = [c EXCEPT !.values = None, !.ui = TRUE, !.fresh = TRUE, !.moved = FALSE]
  PROVE  /\ d \in Views /\ d.state = c.state /\ d.moved = FALSE /\ d.fresh = TRUE
         /\ d.script = c.script /\ d.api = c.api /\ d.snap = c.snap
  <1>1. d = [state |-> c.state, script |-> c.script, api |-> c.api, mode |-> c.mode, seen |-> c.seen,
             ui |-> TRUE, fresh |-> TRUE, values |-> None, snap |-> c.snap, moved |-> FALSE]
    BY DEF Views
  <1>2. d \in Views
    BY <1>1 DEF Views
  <1> QED BY <1>1, <1>2

LEMMA MovedView ==
  ASSUME NEW c \in Views, NEW d, d = [c EXCEPT !.moved = TRUE]
  PROVE  /\ d \in Views /\ d.state = c.state /\ d.moved = TRUE /\ d.fresh = c.fresh
         /\ d.script = c.script /\ d.api = c.api /\ d.snap = c.snap
  <1>1. d \in Views
    BY DEF Views
  <1> QED BY <1>1 DEF Views

LEMMA FreshenedView ==
  ASSUME NEW c \in Views, NEW d, d = [c EXCEPT !.fresh = TRUE]
  PROVE  /\ d \in Views /\ d.state = c.state /\ d.moved = c.moved /\ d.fresh = TRUE
         /\ d.script = c.script /\ d.api = c.api /\ d.snap = c.snap
  <1>1. d \in Views
    BY DEF Views
  <1> QED BY <1>1 DEF Views

-----------------------------------------------------------------------------
\* write, of the CMP's decision and of a local choice.
LEMMA WriteGoogle ==
  ASSUME NEW st \in Records, NEW ch \in SUBSET Purposes, NEW g \in SUBSET Purposes
  PROVE  /\ Priv!Write(st, ch, g) \in Records
         /\ Priv!Write(st, ch, g).google = g /\ Priv!Write(st, ch, g).denied = st.denied
  <1> DEFINE w == Priv!Write(st, ch, g)
  <1>1. g # None
    BY DecisionsArePurposes
  <1>2. w = [choice |-> ch, saved |-> TRUE, google |-> g, pending |-> FALSE, denied |-> st.denied]
    BY <1>1 DEF Priv!Write
  <1> HIDE DEF w
  <1>3. w \in Records /\ w.google = g /\ w.denied = st.denied
    BY <1>2 DEF Records
  <1> QED BY <1>3 DEF w

LEMMA WriteLocal ==
  ASSUME NEW st \in Records, NEW ch \in SUBSET Purposes
  PROVE  /\ Priv!Write(st, ch, None) \in Records
         /\ Priv!Write(st, ch, None).google = st.google /\ Priv!Write(st, ch, None).choice = ch
         /\ st.google # None => Priv!Write(st, ch, None).denied = st.denied \cup (Purposes \ ch)
  <1> DEFINE w == Priv!Write(st, ch, None)
             den == st.denied \cup (IF st.google # None \/ st.pending THEN Purposes \ ch ELSE {})
  <1>1. w = [choice |-> ch, saved |-> TRUE, google |-> st.google, pending |-> st.pending, denied |-> den]
    BY PrivPurposes DEF Priv!Write, Records
  <1>2. den \in SUBSET Purposes /\ (st.google # None => den = st.denied \cup (Purposes \ ch))
    BY DEF Records
  <1> HIDE DEF w, den
  <1>3. w \in Records
    BY <1>1, <1>2 DEF Records
  <1>4. w.google = st.google /\ w.choice = ch /\ w.denied = den
    BY <1>1
  <1> QED BY <1>2, <1>3, <1>4 DEF w

\* A local choice: it is what was said, whatever the CMP knows.
LEMMA LocalChoice ==
  ASSUME PrivInv, NEW ch \in SUBSET Purposes, NEW w, w = Priv!Write(store, ch, None), NEW c, NEW ev, c.snap = cmp.snap
  PROVE  w \in Records /\ Decided(w, decision, ch) /\ Bounded(w, ch) /\ Snapped(w, c, ev, ch)
  <1>1. /\ w \in Records /\ w.google = store.google /\ w.choice = ch
        /\ store.google # None => w.denied = store.denied \cup (Purposes \ ch)
    BY WriteLocal DEF PrivInv, PrivType
  <1>2. /\ decision \in (SUBSET Purposes) \cup {None} /\ store.google \in (SUBSET Purposes) \cup {None}
        /\ cmp.snap \in (SUBSET Purposes) \cup {None}
    BY DEF PrivInv, PrivType, Records, Views
  <1>3. (decision # None => store.google # None) /\ (cmp.snap # None => decision # None)
    BY DEF PrivInv, Decided, Started
  <1>4. Decided(w, decision, ch)
    BY <1>1, <1>2, <1>3 DEF Decided
  <1>5. Bounded(w, ch)
    BY <1>1, <1>2 DEF Bounded
  <1>6. Snapped(w, c, ev, ch)
    BY <1>1, <1>2, <1>3 DEF Snapped
  <1> QED BY <1>1, <1>4, <1>5, <1>6

LEMMA ChoicesArePurposes == Priv!Choices \subseteq SUBSET Purposes
  BY PrivPurposes DEF Priv!Choices, Purposes

LEMMA PrivLocal ==
  ASSUME PrivInv, NEW ch \in Priv!Choices, Priv!Local(ch)
  PROVE  PrivInv'
  <1> DEFINE c == [cmp EXCEPT !.moved = TRUE]
             w == Priv!Write(store, ch, None)
  <1>1. said' = ch /\ Priv!Notify(w, c) /\ UNCHANGED <<event, decision, missed>>
    BY DEF Priv!Local
  <1>2. ch \in SUBSET Purposes /\ cmp \in Views
    BY ChoicesArePurposes DEF PrivInv, PrivType
  <1>3. c \in Views /\ c.state = cmp.state /\ c.script = cmp.script /\ c.api = cmp.api /\ c.snap = cmp.snap
    BY <1>2, MovedView
  <1> HIDE DEF c
  <1>4. w \in Records /\ Decided(w, decision, ch) /\ Bounded(w, ch) /\ Snapped(w, c, event, ch)
    BY <1>2, <1>3, LocalChoice
  <1> HIDE DEF w
  <1>5. Started(c, decision')
    BY <1>1, <1>3 DEF PrivInv, Started
  <1>6. /\ Decided(w, decision', said') /\ Bounded(w, said') /\ Snapped(w, c, event', said')
    BY <1>1, <1>4
  <1>7. decision' \in (SUBSET Purposes) \cup {None} /\ said' \in SUBSET Purposes
    BY <1>1, <1>2 DEF PrivInv, PrivType
  <1>8. PrivFlags'
    BY <1>1 DEF PrivInv, PrivFlags
  <1> QED BY <1>1, <1>3, <1>4, <1>5, <1>6, <1>7, <1>8, PrivNotify

\* The CMP fails.
LEMMA PrivFailCmp ==
  ASSUME PrivInv, Priv!FailCmp, UNCHANGED <<event, decision, said>>
  PROVE  PrivInv'
  <1> DEFINE c == [cmp EXCEPT !.state = "unavailable", !.values = None, !.moved = FALSE]
             st == Priv!Pending(store, FALSE)
  <1>1. missed' = (missed \/ event) /\ Priv!Notify(st, c)
    BY DEF Priv!FailCmp
  <1>2. store \in Records /\ cmp \in Views
    BY DEF PrivInv, PrivType
  <1>3. st \in Records /\ Narrower(st, store)
    BY <1>2, PendingNarrower
  <1> HIDE DEF st
  <1>4. /\ c \in Views /\ c.state = "unavailable" /\ c.script = cmp.script /\ c.api = cmp.api /\ c.snap = cmp.snap
        /\ c.fresh = cmp.fresh
    BY <1>2, FailedView
  <1> HIDE DEF c
  <1>5. event \in BOOLEAN /\ missed \in BOOLEAN
    BY DEF PrivInv, PrivFlags
  <1>6. PrivFlags'
    BY <1>1, <1>5 DEF PrivFlags
  <1>7. ~missed' => ~missed /\ ~event
    BY <1>1, <1>5
  <1>8. cmp.fresh \in BOOLEAN
    BY <1>2, FlagsOfView
  <1>9. ~missed' => ~missed /\ (c.fresh \/ (event' /\ c.moved) \/ (cmp.fresh = FALSE /\ ~(event /\ cmp.moved)))
    BY <1>4, <1>7, <1>8
  <1> QED BY <1>1, <1>3, <1>4, <1>6, <1>9, NarrowerNotify

\* The page goes on without the CMP.
LEMMA PrivGoesLocal ==
  ASSUME PrivInv, UNCHANGED <<event, decision, said, missed>>, NEW c,
         c = [cmp EXCEPT !.state = "local", !.values = None] \/ c = [cmp EXCEPT !.state = "local"],
         Priv!Notify([store EXCEPT !.pending = FALSE], c)
  PROVE  PrivInv'
  <1> DEFINE st == [store EXCEPT !.pending = FALSE]
  <1>1. store \in Records /\ cmp \in Views
    BY DEF PrivInv, PrivType
  <1>2. st \in Records /\ Narrower(st, store) /\ Priv!Notify(st, c)
    BY <1>1, SettledNarrower
  <1> HIDE DEF st
  <1>3. /\ c \in Views /\ c.state = "local" /\ c.script = cmp.script /\ c.api = cmp.api /\ c.snap = cmp.snap
        /\ c.fresh = cmp.fresh /\ c.moved = cmp.moved
    BY <1>1, LocalView
  <1>4. PrivFlags'
    BY DEF PrivInv, PrivFlags
  <1>5. cmp.fresh \in BOOLEAN
    BY <1>1, FlagsOfView
  <1>6. ~missed' => ~missed /\ (c.fresh \/ (event' /\ c.moved) \/ (cmp.fresh = FALSE /\ ~(event /\ cmp.moved)))
    BY <1>3, <1>5
  <1> QED BY <1>2, <1>3, <1>4, <1>6, NarrowerNotify

\* refreshGoogleChoices saves a snapshot only as far as it may be trusted.
LEMMA RefreshKeeps ==
  ASSUME NEW st \in Records, NEW c \in Views
  PROVE  LET r == Priv!Refresh(st, c)
         IN /\ r.store \in Records /\ r.cmp \in Views
            /\ r.cmp.state = c.state /\ r.cmp.script = c.script /\ r.cmp.api = c.api /\ r.cmp.snap = c.snap
            /\ r.cmp.moved = c.moved /\ (c.fresh => r.cmp.fresh)
            /\ r.store.denied = st.denied
            /\ r.store = st \/ (/\ r.store.google \in SUBSET Purposes /\ c.fresh = FALSE /\ c.moved = FALSE
                                /\ c.snap = None => r.store.google = {}
                                /\ c.snap # None => r.store.google = c.snap \ st.denied)
  <1> DEFINE r == Priv!Refresh(st, c)
  <1>1. c.fresh \in BOOLEAN /\ c.moved \in BOOLEAN
    BY FlagsOfView
  <1>2. CASE c.state # "google" \/ ~c.mode \/ c.ui \/ c.fresh
    <2>1. r = [store |-> st, cmp |-> c]
      BY <1>2 DEF Priv!Refresh
    <2>2. r.store = st /\ r.cmp = c
      BY <2>1
    <2> QED BY <2>2
  <1>3. CASE ~(c.state # "google" \/ ~c.mode \/ c.ui \/ c.fresh) /\ c.moved
    <2>1. r.store = st /\ r.cmp = [c EXCEPT !.fresh = TRUE]
      BY <1>3 DEF Priv!Refresh
    <2>2. /\ r.cmp \in Views /\ r.cmp.state = c.state /\ r.cmp.script = c.script /\ r.cmp.api = c.api
          /\ r.cmp.snap = c.snap /\ r.cmp.moved = c.moved /\ r.cmp.fresh = TRUE
      BY <2>1, FreshenedView
    <2> QED BY <2>1, <2>2
  <1>4. CASE ~(c.state # "google" \/ ~c.mode \/ c.ui \/ c.fresh) /\ ~c.moved
    <2> DEFINE vals == IF c.snap = None THEN {} ELSE c.snap
               g == vals \ st.denied
    <2>1. /\ r.store = Priv!Write(st, Priv!Boxes(g), g)
          /\ r.cmp = [c EXCEPT !.values = vals, !.moved = FALSE]
      BY <1>4 DEF Priv!Refresh
    <2>2. vals \in SUBSET Purposes /\ g \in SUBSET Purposes
      BY DEF Views
    <2>3. (c.snap = None => g = {}) /\ (c.snap # None => g = c.snap \ st.denied)
      OBVIOUS
    <2> HIDE DEF g
    <2>4. Priv!Boxes(g) \in SUBSET Purposes
      BY <2>2, PrivPurposes DEF Priv!Boxes, Purposes
    <2>5. r.store \in Records /\ r.store.google = g /\ r.store.denied = st.denied
      BY <2>1, <2>2, <2>4, WriteGoogle
    <2> HIDE DEF vals
    <2>6. r.cmp = [state |-> c.state, script |-> c.script, api |-> c.api, mode |-> c.mode, seen |-> c.seen,
                   ui |-> c.ui, fresh |-> c.fresh, values |-> vals, snap |-> c.snap, moved |-> FALSE]
      BY <2>1 DEF Views
    <2>7. r.cmp \in Views
      BY <2>2, <2>6 DEF Views
    <2>8. /\ r.cmp.state = c.state /\ r.cmp.script = c.script /\ r.cmp.api = c.api /\ r.cmp.snap = c.snap
          /\ r.cmp.moved = FALSE /\ r.cmp.fresh = c.fresh
      BY <2>6
    <2>9. c.fresh = FALSE /\ c.moved = FALSE
      BY <1>1, <1>4
    <2> QED BY <2>2, <2>3, <2>5, <2>7, <2>8, <2>9
  <1>5. /\ r.store \in Records /\ r.cmp \in Views
        /\ r.cmp.state = c.state /\ r.cmp.script = c.script /\ r.cmp.api = c.api /\ r.cmp.snap = c.snap
        /\ r.cmp.moved = c.moved /\ (c.fresh => r.cmp.fresh)
        /\ r.store.denied = st.denied
        /\ r.store = st \/ (/\ r.store.google \in SUBSET Purposes /\ c.fresh = FALSE /\ c.moved = FALSE
                            /\ c.snap = None => r.store.google = {}
                            /\ c.snap # None => r.store.google = c.snap \ st.denied)
    BY <1>2, <1>3, <1>4
  <1> QED BY <1>5

\* So a refresh keeps to what was said.
LEMMA RefreshBounds ==
  ASSUME NEW st \in Records, NEW c \in Views, NEW dec, NEW sd, NEW ev
  PROVE  /\ Decided(st, dec, sd) => Decided(Priv!Refresh(st, c).store, dec, sd)
         /\ Started(c, dec) => Started(Priv!Refresh(st, c).cmp, dec)
         /\ Bounded(st, sd) /\ Snapped(st, c, ev, sd) =>
              Bounded(Priv!Refresh(st, c).store, sd) /\ Snapped(Priv!Refresh(st, c).store, Priv!Refresh(st, c).cmp, ev, sd)
  <1> DEFINE r == Priv!Refresh(st, c)
             s == r.store
             d == r.cmp
  <1>1. /\ d.state = c.state /\ d.script = c.script /\ d.api = c.api /\ d.snap = c.snap
        /\ d.moved = c.moved /\ (c.fresh => d.fresh) /\ s.denied = st.denied
        /\ s = st \/ (/\ s.google \in SUBSET Purposes /\ c.fresh = FALSE /\ c.moved = FALSE
                      /\ c.snap = None => s.google = {}
                      /\ c.snap # None => s.google = c.snap \ st.denied)
    BY RefreshKeeps
  <1> HIDE DEF r, s, d
  <1>2. s.google \in SUBSET Purposes => s.google # None
    BY DecisionsArePurposes
  <1>3. Decided(st, dec, sd) => Decided(s, dec, sd)
    BY <1>1, <1>2 DEF Decided
  <1>4. Started(c, dec) => Started(d, dec)
    BY <1>1 DEF Started
  <1>5. Bounded(st, sd) /\ Snapped(st, c, ev, sd) => Bounded(s, sd)
    BY <1>1, <1>2 DEF Bounded, Snapped
  <1>6. Snapped(st, c, ev, sd) => Snapped(s, d, ev, sd)
    BY <1>1 DEF Snapped
  <1> QED BY <1>3, <1>4, <1>5, <1>6 DEF s, d, r

\* The CMP's callbacks end in a refresh of the record and the listeners.
LEMMA RefreshNotify ==
  ASSUME PrivInv, NEW st \in Records, NEW c \in Views,
         Priv!Notify(Priv!Refresh(st, c).store, Priv!Refresh(st, c).cmp),
         UNCHANGED <<event, decision, said, missed>>,
         Decided(st, decision, said), Started(c, decision),
         ~missed => Bounded(st, said) /\ Snapped(st, c, event, said)
  PROVE  PrivInv'
  <1> DEFINE s == Priv!Refresh(st, c).store
             d == Priv!Refresh(st, c).cmp
  <1>1. s \in Records /\ d \in Views
    BY RefreshKeeps
  <1>2. /\ Decided(s, decision, said) /\ Started(d, decision)
        /\ ~missed => Bounded(s, said) /\ Snapped(s, d, event, said)
    BY RefreshBounds
  <1>3. Priv!Notify(s, d)
    OBVIOUS
  <1> HIDE DEF s, d
  <1>4. PrivFlags' /\ decision' \in (SUBSET Purposes) \cup {None} /\ said' \in SUBSET Purposes
    BY DEF PrivInv, PrivType, PrivFlags
  <1>5. /\ Decided(s, decision', said') /\ Started(d, decision')
        /\ ~missed' => Bounded(s, said') /\ Snapped(s, d, event', said')
    BY <1>2
  <1> QED BY <1>1, <1>3, <1>4, <1>5, PrivNotify

LEMMA PrivModeReady ==
  ASSUME PrivInv, Priv!ModeReady
  PROVE  PrivInv'
  <1> DEFINE c == [cmp EXCEPT !.mode = TRUE]
             r == Priv!Refresh(store, c)
  <1>1. /\ UNCHANGED <<event, decision, said, missed>>
        /\ \/ Priv!Notify(r.store, r.cmp)
           \/ /\ cmp' = r.cmp /\ UNCHANGED <<store, told, ads>>
              /\ r.cmp.values = cmp.values /\ r.cmp.fresh = cmp.fresh
    BY DEF Priv!ModeReady
  <1>2. store \in Records /\ cmp \in Views
    BY DEF PrivInv, PrivType
  <1>3. c \in Views
    BY <1>2 DEF Views
  <1>4. /\ c.state = cmp.state /\ c.script = cmp.script /\ c.api = cmp.api /\ c.snap = cmp.snap
        /\ c.fresh = cmp.fresh /\ c.moved = cmp.moved
    BY <1>2 DEF Views
  <1> HIDE DEF c
  <1>5. Decided(store, decision, said) /\ Started(c, decision)
        /\ (~missed => Bounded(store, said) /\ Snapped(store, c, event, said))
    BY <1>4 DEF PrivInv, PrivBounds, Started, Snapped
  <1>6. CASE Priv!Notify(r.store, r.cmp)
    BY <1>1, <1>2, <1>3, <1>5, <1>6, RefreshNotify
  <1>7. CASE cmp' = r.cmp /\ UNCHANGED <<store, told, ads>> /\ r.cmp.values = cmp.values /\ r.cmp.fresh = cmp.fresh
    <2>1. /\ cmp' \in Views /\ cmp'.state = cmp.state /\ cmp'.script = cmp.script /\ cmp'.api = cmp.api
          /\ cmp'.snap = cmp.snap /\ cmp'.moved = cmp.moved
          /\ cmp'.values = cmp.values /\ cmp'.fresh = cmp.fresh
      <3>1. /\ r.cmp \in Views /\ r.cmp.state = c.state /\ r.cmp.script = c.script /\ r.cmp.api = c.api
            /\ r.cmp.snap = c.snap /\ r.cmp.moved = c.moved
        BY <1>2, <1>3, RefreshKeeps
      <3> QED BY <1>4, <1>7, <3>1
    <2>2. Priv!GoogleChoices(store, cmp') = Priv!GoogleChoices(store, cmp)
      BY <1>2, <2>1, GrantedBounds
    <2>3. Priv!Granted' = Priv!Granted
      BY <1>7, <2>2 DEF Priv!Granted, Priv!GoogleChoices
    <2>4. Priv!WithinConsent'
      BY <1>1, <1>7, <2>3 DEF PrivInv, Priv!WithinConsent, Priv!AdvertisingAllowed
    <2>5. PrivType' /\ PrivFlags'
      BY <1>1, <1>7, <2>1 DEF PrivInv, PrivType, PrivFlags
    <2>6. Decided(store, decision, said)' /\ Started(cmp, decision)' /\ PrivBounds'
      BY <1>1, <1>7, <2>1 DEF PrivInv, PrivBounds, Decided, Started, Bounded, Snapped
    <2> QED BY <2>4, <2>5, <2>6 DEF PrivInv
  <1> QED BY <1>1, <1>6, <1>7

LEMMA PrivConsentData ==
  ASSUME PrivInv, Priv!ConsentData
  PROVE  PrivInv'
  <1> DEFINE u == cmp.ui \/ cmp.snap = None
             c == [cmp EXCEPT !.state = "google", !.values = None, !.seen = TRUE, !.ui = u,
                              !.fresh = @ \/ cmp.moved \/ u, !.moved = FALSE]
             st == Priv!Pending(store, u)
  <1>1. /\ UNCHANGED <<event, decision, said, missed>>
        /\ Priv!Notify(Priv!Refresh(st, c).store, Priv!Refresh(st, c).cmp)
    BY DEF Priv!ConsentData
  <1>2. store \in Records /\ cmp \in Views /\ u \in BOOLEAN
    BY DEF PrivInv, PrivType
  <1> HIDE DEF u
  <1>3. st \in Records /\ Narrower(st, store)
    BY <1>2, PendingNarrower
  <1> HIDE DEF st
  <1>4. /\ c \in Views /\ c.state = "google" /\ c.fresh = (cmp.fresh \/ cmp.moved \/ u)
        /\ c.script = cmp.script /\ c.api = cmp.api /\ c.snap = cmp.snap
    <2> DEFINE f == cmp.fresh \/ cmp.moved \/ u
    <2>1. f \in BOOLEAN
      OBVIOUS
    <2>2. c = [cmp EXCEPT !.state = "google", !.values = None, !.seen = TRUE, !.ui = u, !.fresh = f, !.moved = FALSE]
      BY <1>2 DEF Views
    <2> HIDE DEF f, c
    <2>3. c = [state |-> "google", script |-> cmp.script, api |-> cmp.api, mode |-> cmp.mode, seen |-> TRUE,
               ui |-> u, fresh |-> f, values |-> None, snap |-> cmp.snap, moved |-> FALSE]
      BY <1>2, <2>2 DEF Views
    <2>4. c \in Views
      BY <1>2, <2>1, <2>3 DEF Views, States
    <2>5. c.state = "google" /\ c.fresh = f /\ c.script = cmp.script /\ c.api = cmp.api /\ c.snap = cmp.snap
      BY <2>3
    <2> QED BY <2>4, <2>5 DEF f
  <1> HIDE DEF c
  <1>5. Decided(st, decision, said)
    <2>1. Decided(store, decision, said)
      BY DEF PrivInv
    <2> QED BY <1>2, <1>3, <2>1, NarrowerKeeps
  <1>6. Started(c, decision)
    BY <1>4 DEF PrivInv, Started
  <1>7. ~missed => Bounded(st, said) /\ Snapped(st, c, event, said)
    <2> SUFFICES ASSUME ~missed PROVE Bounded(st, said) /\ Snapped(st, c, event, said)
      OBVIOUS
    <2>1. Bounded(store, said) /\ Snapped(store, cmp, event, said)
      BY DEF PrivInv, PrivBounds
    <2>2. Bounded(st, said) /\ Snapped(st, cmp, event, said)
      BY <1>2, <1>3, <2>1, NarrowerKeeps
    <2>3. cmp.fresh \/ cmp.moved => c.fresh
      BY <1>4
    <2> QED BY <1>4, <2>2, <2>3 DEF Snapped
  <1> QED BY <1>1, <1>3, <1>4, <1>5, <1>6, <1>7, RefreshNotify

LEMMA PrivManageOrEvent ==
  ASSUME PrivInv, Priv!ManageGoogle \/ Priv!StorageEvent
  PROVE  PrivInv'
  <1>1. store \in Records /\ cmp \in Views /\ event \in BOOLEAN /\ missed \in BOOLEAN
    BY DEF PrivInv, PrivType, PrivFlags
  <1>2. PICK st, c : /\ Priv!Notify(st, c) /\ UNCHANGED <<decision, said, missed>> /\ event' \in {event, FALSE}
                     /\ st \in Records /\ Narrower(st, store)
                     /\ c \in Views /\ c.state = cmp.state /\ c.fresh = TRUE
                     /\ c.script = cmp.script /\ c.api = cmp.api /\ c.snap = cmp.snap
    <2>1. CASE Priv!ManageGoogle
      <3> DEFINE st == Priv!Pending(store, TRUE)
                 c == [cmp EXCEPT !.values = None, !.ui = TRUE, !.fresh = TRUE, !.moved = FALSE]
      <3>1. Priv!Notify(st, c) /\ UNCHANGED <<event, decision, said, missed>>
        BY <2>1 DEF Priv!ManageGoogle
      <3>2. st \in Records /\ Narrower(st, store)
        BY <1>1, PendingNarrower
      <3>3. /\ c \in Views /\ c.state = cmp.state /\ c.fresh = TRUE
            /\ c.script = cmp.script /\ c.api = cmp.api /\ c.snap = cmp.snap
        BY <1>1, ManagedView
      <3> HIDE DEF st, c
      <3> QED BY <3>1, <3>2, <3>3
    <2>2. CASE Priv!StorageEvent
      <3> DEFINE c == [cmp EXCEPT !.fresh = TRUE]
      <3>1. Priv!Notify(store, c) /\ UNCHANGED <<decision, said, missed>> /\ event' = FALSE
        BY <2>2 DEF Priv!StorageEvent
      <3>2. Narrower(store, store)
        BY DEF Narrower
      <3>3. /\ c \in Views /\ c.state = cmp.state /\ c.fresh = TRUE
            /\ c.script = cmp.script /\ c.api = cmp.api /\ c.snap = cmp.snap
        BY <1>1, FreshenedView
      <3> HIDE DEF c
      <3> QED BY <1>1, <3>1, <3>2, <3>3
    <2> QED BY <2>1, <2>2
  <1>3. PrivFlags'
    BY <1>1, <1>2 DEF PrivFlags
  <1> QED BY <1>2, <1>3, NarrowerNotify

-----------------------------------------------------------------------------
\* The invariant, put together for a step that tells no listener.
LEMMA PrivTogether ==
  ASSUME store' \in Records, cmp' \in Views, ads' \in AdViews,
         decision' \in (SUBSET Purposes) \cup {None}, said' \in SUBSET Purposes, PrivFlags',
         Decided(store', decision', said'), Started(cmp', decision'),
         ~missed' => Bounded(store', said') /\ Snapped(store', cmp', event', said'), Priv!WithinConsent'
  PROVE  PrivInv'
  <1>1. PrivType'
    BY DEF PrivType
  <1> QED BY <1>1 DEF PrivInv, PrivBounds, Decided, Started, Bounded, Snapped

\* The configuration names the CMP: its script is fetched.
LEMMA PrivLoads ==
  ASSUME PrivInv, cmp.state = "checking", UNCHANGED <<event, decision, said, missed, told, ads>>,
         store' = Priv!Pending(store, FALSE), cmp' = [cmp EXCEPT !.state = "loading", !.script = TRUE, !.moved = FALSE]
  PROVE  PrivInv'
  <1>1. store \in Records /\ cmp \in Views /\ ads \in AdViews
    BY DEF PrivInv, PrivType
  <1>2. store' \in Records /\ Narrower(store', store)
    BY <1>1, PendingNarrower
  <1>3. /\ cmp' \in Views /\ cmp'.state = "loading" /\ cmp'.script = TRUE
        /\ cmp'.api = cmp.api /\ cmp'.snap = cmp.snap
    BY <1>1, LoadingView
  <1>4. cmp.script = FALSE /\ cmp.api = FALSE /\ cmp.snap = None
    BY <1>1, FlagsOfView DEF PrivInv, Started
  <1>5. Decided(store, decision, said) /\ (~missed => Bounded(store, said))
    BY DEF PrivInv, PrivBounds
  <1>6. Decided(store', decision, said) /\ (~missed => Bounded(store', said))
    BY <1>1, <1>2, <1>5, NarrowerKeeps
  <1>7. Started(cmp', decision') /\ Snapped(store', cmp', event', said')
    BY <1>3, <1>4 DEF Started, Snapped
  <1>8. Priv!WithinConsent'
    <2>1. Priv!Granted = {}
      BY <1>1, GrantedBounds DEF Priv!Granted
    <2>2. ~event => told = {} /\ ~ads.shown /\ ~ads.auto
      BY <2>1, PrivPurposes DEF PrivInv, Priv!WithinConsent, Priv!AdvertisingAllowed
    <2>3. event' = event /\ told' = told /\ ads' = ads
      OBVIOUS
    <2> QED BY <2>2, <2>3 DEF Priv!WithinConsent
  <1>9. PrivFlags' /\ decision' \in (SUBSET Purposes) \cup {None} /\ said' \in SUBSET Purposes
    BY DEF PrivInv, PrivType, PrivFlags
  <1>10. Decided(store', decision', said') /\ (~missed' => Bounded(store', said') /\ Snapped(store', cmp', event', said'))
    BY <1>6, <1>7
  <1>11. ads' \in AdViews
    BY <1>1
  <1> QED BY <1>2, <1>3, <1>7, <1>8, <1>9, <1>10, <1>11, PrivTogether

LEMMA PrivConfigReply ==
  ASSUME PrivInv, NEW a, Priv!ConfigReply(a)
  PROVE  PrivInv'
  <1>1. /\ cmp.state = "checking" /\ UNCHANGED <<event, decision, said>>
        /\ \/ UNCHANGED missed /\ Priv!Notify([store EXCEPT !.pending = FALSE], [cmp EXCEPT !.state = "local"])
           \/ Priv!FailCmp
           \/ /\ store' = Priv!Pending(store, FALSE) /\ UNCHANGED <<missed, told, ads>>
              /\ cmp' = [cmp EXCEPT !.state = "loading", !.script = TRUE, !.moved = FALSE]
    BY DEF Priv!ConfigReply
  <1>2. CASE UNCHANGED missed /\ Priv!Notify([store EXCEPT !.pending = FALSE], [cmp EXCEPT !.state = "local"])
    <2> DEFINE c == [cmp EXCEPT !.state = "local"]
    <2>1. c = [cmp EXCEPT !.state = "local"] /\ Priv!Notify([store EXCEPT !.pending = FALSE], c)
      BY <1>2
    <2> HIDE DEF c
    <2> QED BY <1>1, <1>2, <2>1, PrivGoesLocal
  <1>3. CASE Priv!FailCmp
    BY <1>1, <1>3, PrivFailCmp
  <1>4. CASE /\ store' = Priv!Pending(store, FALSE) /\ UNCHANGED <<missed, told, ads>>
             /\ cmp' = [cmp EXCEPT !.state = "loading", !.script = TRUE, !.moved = FALSE]
    BY <1>1, <1>4, PrivLoads
  <1> QED BY <1>1, <1>2, <1>3, <1>4

LEMMA PrivFailsOrNoGdpr ==
  ASSUME PrivInv, Priv!CmpTimeout \/ Priv!ConsentError \/ Priv!NoGdpr
  PROVE  PrivInv'
  <1>1. CASE Priv!CmpTimeout \/ Priv!ConsentError
    <2>1. Priv!FailCmp /\ UNCHANGED <<event, decision, said>>
      BY <1>1 DEF Priv!CmpTimeout, Priv!ConsentError
    <2> QED BY <2>1, PrivFailCmp
  <1>2. CASE Priv!NoGdpr
    <2> DEFINE c == [cmp EXCEPT !.state = "local", !.values = None]
    <2>1. /\ c = [cmp EXCEPT !.state = "local", !.values = None] /\ Priv!Notify([store EXCEPT !.pending = FALSE], c)
          /\ UNCHANGED <<event, decision, said, missed>>
      BY <1>2 DEF Priv!NoGdpr
    <2> HIDE DEF c
    <2> QED BY <2>1, PrivGoesLocal
  <1> QED BY <1>1, <1>2

\* The CMP reads its own cookie: the snapshot is of its latest decision.
LEMMA PrivApiReady ==
  ASSUME PrivInv, Priv!ApiReady
  PROVE  PrivInv'
  <1>1. /\ cmp.script /\ cmp' = [cmp EXCEPT !.api = TRUE, !.snap = decision]
        /\ UNCHANGED <<store, event, decision, said, missed, told, ads>>
    BY DEF Priv!ApiReady
  <1>2. store \in Records /\ cmp \in Views /\ decision \in (SUBSET Purposes) \cup {None}
    BY DEF PrivInv, PrivType
  <1>3. /\ cmp' \in Views /\ cmp'.state = cmp.state /\ cmp'.script = cmp.script /\ cmp'.values = cmp.values
        /\ cmp'.api = TRUE /\ cmp'.snap = decision
    <2>1. cmp' = [state |-> cmp.state, script |-> cmp.script, api |-> TRUE, mode |-> cmp.mode, seen |-> cmp.seen,
                  ui |-> cmp.ui, fresh |-> cmp.fresh, values |-> cmp.values, snap |-> decision, moved |-> cmp.moved]
      BY <1>1, <1>2 DEF Views
    <2>2. cmp' \in Views
      BY <1>2, <2>1 DEF Views
    <2> QED BY <2>1, <2>2
  <1>4. Priv!GoogleChoices(store, cmp') = Priv!GoogleChoices(store, cmp)
    BY <1>2, <1>3, GrantedBounds
  <1>5. Priv!Granted' = Priv!Granted
    BY <1>1, <1>4 DEF Priv!Granted, Priv!GoogleChoices
  <1>6. Priv!WithinConsent'
    BY <1>1, <1>5 DEF PrivInv, Priv!WithinConsent, Priv!AdvertisingAllowed
  <1>7. Started(cmp', decision')
    BY <1>1, <1>3 DEF PrivInv, Started
  <1>8. Decided(store', decision', said') /\ (~missed' => Bounded(store', said'))
    BY <1>1 DEF PrivInv, PrivBounds
  <1>9. Snapped(store', cmp', event', said')
    BY <1>1, <1>3, <1>8 DEF Snapped, Decided
  <1>10. /\ PrivFlags' /\ decision' \in (SUBSET Purposes) \cup {None} /\ said' \in SUBSET Purposes
         /\ store' \in Records /\ ads' \in AdViews
    BY <1>1 DEF PrivInv, PrivType, PrivFlags
  <1> QED BY <1>3, <1>6, <1>7, <1>8, <1>9, <1>10, PrivTogether

\* A decision in the CMP, here or in another document, takes everything back
\* until a page looks afresh.
LEMMA DecidedRecord ==
  ASSUME PrivInv, NEW d \in SUBSET Purposes, NEW w, w = [Priv!Pending(store, TRUE) EXCEPT !.denied = {}]
  PROVE  w \in Records /\ Decided(w, d, d) /\ Bounded(w, d)
  <1> DEFINE p == Priv!Pending(store, TRUE)
  <1>1. p \in Records /\ p.google = {} /\ w = [p EXCEPT !.denied = {}]
    BY PendingForm DEF PrivInv, PrivType
  <1> HIDE DEF p
  <1>2. w \in Records
    BY <1>1 DEF Records
  <1>3. w.google = {} /\ w.denied = {}
    BY <1>1 DEF Records
  <1>4. {} # None
    BY DecisionsArePurposes
  <1> QED BY <1>2, <1>3, <1>4 DEF Decided, Bounded

LEMMA PrivDecide ==
  ASSUME PrivInv, NEW d \in Decisions, Priv!Decide(d)
  PROVE  PrivInv'
  <1>1. /\ decision' = d /\ said' = d /\ store' = [Priv!Pending(store, TRUE) EXCEPT !.denied = {}]
        /\ Priv!Fresh /\ event' = FALSE /\ missed' = FALSE
    BY DEF Priv!Decide
  <1>2. d \in SUBSET Purposes
    BY DecisionsArePurposes
  <1>3. store' \in Records /\ Decided(store', d, d) /\ Bounded(store', d)
    BY <1>1, <1>2, DecidedRecord
  <1>4. cmp' = Priv!FreshCmp /\ ads' \in AdViews /\ Priv!WithinConsent'
    BY <1>1, <1>3, FreshWithin
  <1>5. cmp' \in Views /\ Started(cmp', decision') /\ Snapped(store', cmp', event', said')
    BY <1>3, <1>4, FreshView, PrivFresh
  <1>6. PrivFlags'
    BY <1>1 DEF PrivFlags
  <1>7. Decided(store', decision', said') /\ Bounded(store', said')
    BY <1>1, <1>3
  <1> QED BY <1>1, <1>2, <1>3, <1>4, <1>5, <1>6, <1>7, PrivTogether

LEMMA PrivReload ==
  ASSUME PrivInv, Priv!Reload
  PROVE  PrivInv'
  <1>1. Priv!Fresh /\ event' = FALSE /\ UNCHANGED <<store, decision, said, missed>>
    BY DEF Priv!Reload
  <1>2. store' \in Records
    BY <1>1 DEF PrivInv, PrivType
  <1>3. cmp' = Priv!FreshCmp /\ ads' \in AdViews /\ Priv!WithinConsent'
    BY <1>1, <1>2, FreshWithin
  <1>4. cmp' \in Views /\ Started(cmp', decision') /\ Snapped(store', cmp', event', said')
    BY <1>2, <1>3, FreshView, PrivFresh
  <1>5. PrivFlags' /\ decision' \in (SUBSET Purposes) \cup {None} /\ said' \in SUBSET Purposes
    BY <1>1 DEF PrivInv, PrivType, PrivFlags
  <1>6. Decided(store', decision', said') /\ (~missed' => Bounded(store', said'))
    BY <1>1 DEF PrivInv, PrivBounds
  <1> QED BY <1>2, <1>3, <1>4, <1>5, <1>6, PrivTogether

-----------------------------------------------------------------------------
(* Other documents *)

\* Another document writes the record: this one will hear of it.
LEMMA PrivOtherWrites ==
  ASSUME PrivInv, NEW st \in Records, Priv!OtherWrites(st),
         decision' \in (SUBSET Purposes) \cup {None}, said' \in SUBSET Purposes,
         Decided(st, decision', said'), decision # None => decision' # None,
         ~missed => Bounded(st, said')
  PROVE  PrivInv'
  <1>1. store' = st /\ event' = TRUE /\ cmp' = [cmp EXCEPT !.moved = TRUE] /\ UNCHANGED <<missed, told, ads>>
    BY DEF Priv!OtherWrites
  <1>2. cmp \in Views /\ ads \in AdViews /\ missed \in BOOLEAN
    BY DEF PrivInv, PrivType, PrivFlags
  <1>3. /\ cmp' \in Views /\ cmp'.state = cmp.state /\ cmp'.moved = TRUE
        /\ cmp'.script = cmp.script /\ cmp'.api = cmp.api /\ cmp'.snap = cmp.snap
    BY <1>1, <1>2, MovedView
  <1>4. Started(cmp', decision')
    BY <1>3 DEF PrivInv, Started
  <1>5. Snapped(store', cmp', event', said')
    BY <1>1, <1>3 DEF Snapped
  <1>6. Priv!WithinConsent'
    BY <1>1 DEF Priv!WithinConsent
  <1>7. PrivFlags' /\ store' \in Records /\ ads' \in AdViews
    BY <1>1, <1>2 DEF PrivFlags
  <1>8. Decided(store', decision', said') /\ (~missed' => Bounded(store', said'))
    BY <1>1
  <1> QED BY <1>3, <1>4, <1>5, <1>6, <1>7, <1>8, PrivTogether

LEMMA PrivOtherLocal ==
  ASSUME PrivInv, NEW ch \in Priv!Choices, Priv!OtherLocal(ch)
  PROVE  PrivInv'
  <1> DEFINE w == Priv!Write(store, ch, None)
  <1>1. said' = ch /\ Priv!OtherWrites(w) /\ decision' = decision
    BY DEF Priv!OtherLocal
  <1>2. ch \in SUBSET Purposes /\ decision \in (SUBSET Purposes) \cup {None}
    BY ChoicesArePurposes DEF PrivInv, PrivType
  <1>3. w \in Records /\ Decided(w, decision, ch) /\ Bounded(w, ch)
    BY <1>2, LocalChoice
  <1> HIDE DEF w
  <1>4. Decided(w, decision', said') /\ Bounded(w, said')
    BY <1>1, <1>3
  <1> QED BY <1>1, <1>2, <1>3, <1>4, PrivOtherWrites

LEMMA PrivOtherDecides ==
  ASSUME PrivInv, NEW d \in Decisions, Priv!OtherDecides(d)
  PROVE  PrivInv'
  <1> DEFINE w == [Priv!Pending(store, TRUE) EXCEPT !.denied = {}]
  <1>1. decision' = d /\ said' = d /\ Priv!OtherWrites(w)
    BY DEF Priv!OtherDecides
  <1>2. d \in SUBSET Purposes /\ d # None
    BY DecisionsArePurposes
  <1>3. w \in Records /\ Decided(w, d, d) /\ Bounded(w, d)
    BY <1>2, DecidedRecord
  <1> HIDE DEF w
  <1>4. Decided(w, decision', said') /\ Bounded(w, said')
    BY <1>1, <1>3
  <1> QED BY <1>1, <1>2, <1>3, <1>4, PrivOtherWrites

LEMMA PrivOtherRefreshes ==
  ASSUME PrivInv, Priv!OtherRefreshes
  PROVE  PrivInv'
  <1> DEFINE g == decision \ store.denied
             b == Priv!Boxes(g)
             w == Priv!Write(store, b, g)
  <1>1. decision # None /\ Priv!OtherWrites(w) /\ UNCHANGED <<said, decision>>
    BY DEF Priv!OtherRefreshes
  <1>2. /\ store \in Records /\ decision \in SUBSET Purposes /\ said \in SUBSET Purposes
        /\ decision \ store.denied \subseteq said
    BY <1>1 DEF PrivInv, PrivType, Decided
  <1>3. g \in SUBSET Purposes /\ g # None
    BY <1>2, DecisionsArePurposes
  <1>4. g \subseteq said
    BY <1>2
  <1>5. g = decision \ store.denied
    OBVIOUS
  <1> HIDE DEF g
  <1>6. b \in SUBSET Purposes
    BY <1>3, PrivPurposes DEF Priv!Boxes, Purposes
  <1> HIDE DEF b
  <1>7. w \in Records /\ w.google = g /\ w.denied = store.denied
    BY <1>2, <1>3, <1>6, WriteGoogle
  <1> HIDE DEF w
  <1>8. Decided(w, decision', said') /\ Bounded(w, said')
    BY <1>1, <1>3, <1>4, <1>5, <1>7 DEF Decided, Bounded
  <1> QED BY <1>1, <1>2, <1>7, <1>8, PrivOtherWrites

-----------------------------------------------------------------------------
(* analytics.js and display-ads.js *)

LEMMA PrivScripts ==
  ASSUME PrivInv, UNCHANGED <<store, event, cmp, decision, said, missed>>, ads' \in AdViews,
         told' = told \/ told' = Priv!Granted,
         ads'.shown => ads.shown \/ Priv!AdvertisingAllowed,
         ads'.auto => ads.auto \/ Priv!AdvertisingAllowed
  PROVE  PrivInv'
  <1>1. Priv!Granted' = Priv!Granted
    BY DEF Priv!Granted, Priv!GoogleChoices
  <1>2. Priv!AdvertisingAllowed' <=> Priv!AdvertisingAllowed
    BY <1>1 DEF Priv!AdvertisingAllowed
  <1>3. Priv!WithinConsent'
    BY <1>1, <1>2 DEF PrivInv, Priv!WithinConsent
  <1>4. PrivType' /\ PrivFlags' /\ Decided(store, decision, said)' /\ Started(cmp, decision)' /\ PrivBounds'
    BY DEF PrivInv, PrivType, PrivFlags, PrivBounds, Decided, Started, Bounded, Snapped
  <1> QED BY <1>3, <1>4 DEF PrivInv

LEMMA PrivTrackOrSend ==
  ASSUME PrivInv, NEW w, NEW found, Priv!Track(w) \/ Priv!Send(w, found)
  PROVE  PrivInv'
  <1>1. /\ UNCHANGED <<store, event, cmp, decision, said, missed, ads>>
        /\ told' = told \/ told' = Priv!Granted
    BY DEF Priv!Track, Priv!Send, Priv!elsewhere
  <1>2. ads' \in AdViews
    BY <1>1 DEF PrivInv, PrivType
  <1> QED BY <1>1, <1>2, PrivScripts

LEMMA PrivAdConfig ==
  ASSUME PrivInv, NEW mode, NEW acc, NEW more \in BOOLEAN, Priv!AdConfig(mode, acc, more)
  PROVE  PrivInv'
  <1>1. /\ UNCHANGED <<store, event, cmp, decision, said, missed, told>>
        /\ \/ ads' = [ads EXCEPT !.starting = more]
           \/ ads' = [ads EXCEPT !.starting = more, !.loading = TRUE]
           \/ Priv!AdvertisingAllowed /\ ads' = [ads EXCEPT !.starting = more, !.auto = TRUE]
    BY DEF Priv!AdConfig, Priv!elsewhere
  <1>2. ads \in AdViews
    BY DEF PrivInv, PrivType
  <1>3. /\ ads' \in AdViews /\ ads'.shown = ads.shown
        /\ ads'.auto = ads.auto \/ Priv!AdvertisingAllowed
    <2>1. CASE ads' = [ads EXCEPT !.starting = more]
      <3>1. ads' = [starting |-> more, loading |-> ads.loading, shown |-> ads.shown, auto |-> ads.auto]
        BY <1>2, <2>1 DEF AdViews
      <3> QED BY <1>2, <3>1 DEF AdViews
    <2>2. CASE ads' = [ads EXCEPT !.starting = more, !.loading = TRUE]
      <3>1. ads' = [starting |-> more, loading |-> TRUE, shown |-> ads.shown, auto |-> ads.auto]
        BY <1>2, <2>2 DEF AdViews
      <3> QED BY <1>2, <3>1 DEF AdViews
    <2>3. CASE Priv!AdvertisingAllowed /\ ads' = [ads EXCEPT !.starting = more, !.auto = TRUE]
      <3>1. ads' = [starting |-> more, loading |-> ads.loading, shown |-> ads.shown, auto |-> TRUE]
        BY <1>2, <2>3 DEF AdViews
      <3> QED BY <1>2, <2>3, <3>1 DEF AdViews
    <2> QED BY <1>1, <2>1, <2>2, <2>3
  <1> QED BY <1>1, <1>3, PrivScripts

LEMMA PrivAdLoaded ==
  ASSUME PrivInv, NEW more \in BOOLEAN, Priv!AdLoaded(more)
  PROVE  PrivInv'
  <1> DEFINE s == ads.shown \/ Priv!AdvertisingAllowed
  <1>1. ads \in AdViews
    BY DEF PrivInv, PrivType
  <1>2. /\ UNCHANGED <<store, event, cmp, decision, said, missed, told>>
        /\ ads' = [ads EXCEPT !.loading = more, !.shown = s]
    BY <1>1 DEF Priv!AdLoaded, Priv!elsewhere, AdViews
  <1>3. s \in BOOLEAN
    OBVIOUS
  <1>4. s => ads.shown \/ Priv!AdvertisingAllowed
    OBVIOUS
  <1> HIDE DEF s
  <1>5. ads' = [starting |-> ads.starting, loading |-> more, shown |-> s, auto |-> ads.auto]
    BY <1>1, <1>2 DEF AdViews
  <1>6. ads' \in AdViews /\ ads'.shown = s /\ ads'.auto = ads.auto
    BY <1>1, <1>3, <1>5 DEF AdViews
  <1> QED BY <1>2, <1>4, <1>6, PrivScripts

LEMMA PrivInitially ==
  ASSUME Priv!Init
  PROVE  PrivInv
  <1>1. /\ store = Priv!NoStore /\ event = FALSE /\ cmp = Priv!FreshCmp /\ decision = None /\ said = {}
        /\ missed = FALSE /\ told = {} /\ ads = Priv!NoAds
    BY DEF Priv!Init
  <1>2. store \in Records /\ store.google = None /\ store.choice = {}
    BY <1>1 DEF Priv!NoStore, Records
  <1>3. PrivType /\ PrivFlags
    BY <1>1, <1>2, FreshView, FreshAds DEF PrivType, PrivFlags
  <1>4. Decided(store, decision, said) /\ Started(cmp, decision) /\ PrivBounds
    BY <1>1, <1>2, PrivFresh DEF Decided, Bounded, PrivBounds
  <1>5. Priv!WithinConsent
    BY <1>1, FreshAds DEF Priv!WithinConsent
  <1> QED BY <1>3, <1>4, <1>5 DEF PrivInv

LEMMA PrivStutter ==
  ASSUME PrivInv, UNCHANGED privVars
  PROVE  PrivInv'
  <1>1. UNCHANGED <<store, event, cmp, decision, said, missed, told, ads>>
    BY DEF privVars
  <1>2. ads' \in AdViews
    BY <1>1 DEF PrivInv, PrivType
  <1> QED BY <1>1, <1>2, PrivScripts

LEMMA PrivStep ==
  ASSUME PrivInv, Priv!Next
  PROVE  PrivInv'
  <1>1. CASE Priv!Reload \/ Priv!ApiReady \/ Priv!ModeReady \/ Priv!ConsentData \/ Priv!OtherRefreshes
    BY <1>1, PrivReload, PrivApiReady, PrivModeReady, PrivConsentData, PrivOtherRefreshes
  <1>2. CASE Priv!CmpTimeout \/ Priv!ConsentError \/ Priv!NoGdpr
    BY <1>2, PrivFailsOrNoGdpr
  <1>3. CASE Priv!ManageGoogle \/ Priv!StorageEvent
    BY <1>3, PrivManageOrEvent
  <1>4. CASE \E a \in {"on", "off", "fails"} : Priv!ConfigReply(a)
    BY <1>4, PrivConfigReply
  <1>5. CASE \/ \E w \in {"visit", "conversion"} : Priv!Track(w)
             \/ \E w \in {"visit", "conversion"}, found \in BOOLEAN : Priv!Send(w, found)
    BY <1>5, PrivTrackOrSend
  <1>6. CASE \E d \in Decisions : Priv!Decide(d) \/ Priv!OtherDecides(d)
    BY <1>6, PrivDecide, PrivOtherDecides
  <1>7. CASE \E ch \in Priv!Choices : Priv!Local(ch) \/ Priv!OtherLocal(ch)
    BY <1>7, PrivLocal, PrivOtherLocal
  <1>8. CASE \E m \in Priv!PublisherModes, acc \in Priv!AdModes, more \in BOOLEAN : Priv!AdConfig(m, acc, more)
    BY <1>8, PrivAdConfig
  <1>9. CASE \E more \in BOOLEAN : Priv!AdLoaded(more)
    BY <1>9, PrivAdLoaded
  <1> QED BY <1>1, <1>2, <1>3, <1>4, <1>5, <1>6, <1>7, <1>8, <1>9 DEF Priv!Next

\* consent.js grants nothing that the visitor's latest choice does not, in
\* whatever order the CMP's callbacks, its failures and other documents' writes
\* come, and the tag and the ads keep to what is granted.
THEOREM ConsentIsKept == Spec => []ConsentKept
  <1> DEFINE Inv == part = "privacy" => PrivInv
  <1>1. Init => Inv
    BY PrivInitially DEF Init
  <1>2. Inv /\ [Next]_vars => Inv'
    <2>1. CASE part = "privacy" /\ Priv!Next /\ part' = part
      BY <2>1, PrivStep
    <2>2. CASE UNCHANGED <<part, privVars>>
      BY <2>2, PrivStutter
    <2>3. [Next]_vars => (part = "privacy" /\ Priv!Next /\ part' = part) \/ UNCHANGED <<part, privVars>>
      BY DEF Next, vars
    <2> HIDE DEF Inv
    <2> QED BY <2>1, <2>2, <2>3 DEF Inv
  <1>3. Inv => ConsentKept
    <2> SUFFICES ASSUME PrivInv PROVE Priv!ConsentKept
      BY DEF ConsentKept
    <2>1. store \in Records /\ cmp \in Views /\ (~missed => Bounded(store, said))
      BY DEF PrivInv, PrivType, PrivBounds
    <2>2. ~missed => Priv!Granted \subseteq said
      BY <2>1, GrantedBounds DEF Priv!Granted
    <2> QED BY <2>2 DEF PrivInv, Priv!ConsentKept, Priv!NothingUnsaid
  <1> QED BY <1>1, <1>2, <1>3, PTL DEF Spec
=============================================================================
