---------------------------- MODULE MCPurchases ----------------------------
(* TLC instances of Purchases; the configurations give the constants. *)
EXTENDS Purchases, TLC

References == Permutations(Orders)
=============================================================================
