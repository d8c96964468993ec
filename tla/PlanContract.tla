---------------------------- MODULE PlanContract ----------------------------
(***************************************************************************)
(* What the purchases promise the rest of the system about the one that    *)
(* an account's entitlements come from: at most one is in force at a time, *)
(* and one that ended, was replaced or was cancelled is never in force     *)
(* again. The assistant wallet relies on it (PlanChanges): a period's      *)
(* allowance is granted once.                                              *)
(***************************************************************************)
VARIABLES
  running,   \* the purchases in force
  past       \* the purchases whose time has come and gone

vars == <<running, past>>

Init == running = {} /\ past = {}

Next ==
  /\ \A s, t \in running' : s = t
  /\ past \cup (running \ running') \subseteq past'
  /\ running' \cap past' = {}

Spec == Init /\ [][Next]_vars
=============================================================================
