---------------------------- MODULE JobContract ----------------------------
(***************************************************************************)
(* What the durable runtime promises the owner of one uploaded lesson:     *)
(* it is pending until it is ready or has failed, and then changes no more *)
(* until it is erased. Its usage is recorded at most once and never for a  *)
(* lesson that is already shown as ready or failed; the recording may be   *)
(* lost. Erasing a pending lesson does not stop the worker, which may      *)
(* still record the usage of the erased lesson.                            *)
(***************************************************************************)
VARIABLES phase, billed

vars == <<phase, billed>>

Init == phase = "pending" /\ billed = FALSE

Bill    == phase \in {"pending", "gone"} /\ ~billed /\ billed' = TRUE /\ UNCHANGED phase
Succeed == phase = "pending" /\ phase' = "ready" /\ UNCHANGED billed
Fail    == phase = "pending" /\ phase' = "failed" /\ UNCHANGED billed
Erase   == phase # "gone" /\ phase' = "gone" /\ UNCHANGED billed

Next == Bill \/ Succeed \/ Fail \/ Erase

Spec == Init /\ [][Next]_vars
=============================================================================
