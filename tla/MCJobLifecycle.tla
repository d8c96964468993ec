--------------------------- MODULE MCJobLifecycle ---------------------------
(* TLC instances of JobLifecycle; the configurations give the constants. *)
EXTENDS JobLifecycle, TLC

Messages == Permutations(Deliveries)
=============================================================================
