------------------------- MODULE MCAssistantWallet -------------------------
EXTENDS AssistantWallet, TLC

\* Accounts and request ids are interchangeable.
Alike == Permutations(Users) \cup Permutations(Ids)
\* Two of these together make a reservation of two credits.
SmallGrants == [welcome |-> 0, plan |-> 1, topup |-> 1, admin |-> 1]
=============================================================================
