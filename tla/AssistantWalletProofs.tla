----------------------- MODULE AssistantWalletProofs -----------------------
(***************************************************************************)
(* What AssistantWallet guarantees for any number of accounts, requests,   *)
(* purchases and days, whatever the grants, prices and bounds are.         *)
(***************************************************************************)
EXTENDS AssistantWallet, FiniteSetTheorems, TLAPS

GrantTable == [Sources -> GrantRows]
Amounts == [Sources -> Nat]

-----------------------------------------------------------------------------
(* What the operators on a ledger return.                                  *)

\* The choice from a set that has one element is that element.
LEMMA OnlyOne ==
  ASSUME NEW T, NEW i \in T, \A j \in T : j = i
  PROVE (CHOOSE j \in T : TRUE) = i
  OBVIOUS

\* A source is a pair of a reference and a day.
LEMMA SourceShape ==
  ASSUME NEW s \in Sources
  PROVE s[2] \in Nat
  BY WalletAssumption DEF Sources, Days

\* What the open reservation holds of a grant is a number.
LEMMA HeldTyped ==
  ASSUME TypeOK, NEW u \in Users
  PROVE /\ \A s \in Sources : Held(u, s) \in Nat
        /\ Lost(u) \in Amounts
  <1>1. ASSUME NEW s \in Sources PROVE Held(u, s) \in Nat
    <2>1. CASE Reserved(u) = {}
      BY <2>1 DEF Held
    <2>2. CASE Reserved(u) # {}
      <3>1. (CHOOSE i \in Reserved(u) : TRUE) \in Ids
        BY <2>2 DEF Reserved
      <3> QED BY <2>2, <3>1 DEF Held, TypeOK, RequestRows
    <2> QED BY <2>1, <2>2
  <1> QED BY <1>1 DEF Lost, Amounts

\* Giving credits back, or taking what is there, leaves a well-typed ledger.
LEMMA PlusMinusTyped ==
  ASSUME NEW g \in GrantTable, NEW f \in Amounts
  PROVE /\ Plus(g, f) \in GrantTable
        /\ (\A s \in Sources : f[s] <= g[s].remaining) => Minus(g, f) \in GrantTable
  BY DEF GrantTable, Amounts, GrantRows, Plus, Minus

\* A request's row stays one when its state or its age changes.
LEMMA RowTyped ==
  ASSUME NEW r \in RequestRows, NEW st \in {"none", "reserved", "complete", "failed"}, NEW b \in BOOLEAN
  PROVE /\ [r EXCEPT !.state = st] \in RequestRows
        /\ [r EXCEPT !.old = b] \in RequestRows
  <1>1. r = [state |-> r.state, alloc |-> r.alloc, reserved |-> r.reserved, day |-> r.day, old |-> r.old]
    BY DEF RequestRows
  <1>2. /\ r.state \in {"none", "reserved", "complete", "failed"} /\ r.alloc \in [Sources -> Nat]
        /\ r.reserved \in Nat /\ r.day \in Days /\ r.old \in BOOLEAN
    BY DEF RequestRows
  <1>3. [r EXCEPT !.state = st] =
          [state |-> st, alloc |-> r.alloc, reserved |-> r.reserved, day |-> r.day, old |-> r.old]
    BY <1>1
  <1>4. [r EXCEPT !.old = b] =
          [state |-> r.state, alloc |-> r.alloc, reserved |-> r.reserved, day |-> r.day, old |-> b]
    BY <1>1
  <1> QED BY <1>2, <1>3, <1>4, Zenon DEF RequestRows

\* _sync and _expire_requests return well-typed tables.
LEMMA SyncTyped ==
  ASSUME TypeOK, NEW u \in Users
  PROVE /\ Returned(u) \in GrantTable
        /\ Synced(u) \in GrantTable
        /\ Expired(u) \in [Ids -> RequestRows]
  <1>1. Returned(u) \in GrantTable
    BY HeldTyped, PlusMinusTyped DEF Returned, TypeOK, GrantTable
  <1>2. Voided(u, Returned(u)) \in GrantTable
    BY <1>1 DEF Voided, GrantTable, GrantRows
  <1>3. ASSUME NEW s \in Sources PROVE Granted(u, Voided(u, Returned(u)))[s] \in GrantRows
    <2> DEFINE g == Voided(u, Returned(u))
    <2>1. g[s] \in GrantRows
      BY <1>2 DEF GrantTable
    <2>2. now \in Nat
      BY WalletAssumption DEF TypeOK, Days
    <2>3. ASSUME NEW k \in {"welcome", "plan", "topup", "admin"}, NEW e \in Nat
          PROVE NewGrant(k, e) \in GrantRows
      BY WalletAssumption DEF NewGrant, GrantRows
    <2>4. s \in Entitled(u) /\ s[1] \in Topups =>
            (CHOOSE x \in topups[u] : x.order = s[1]).at + Validity \in Nat
      <3> SUFFICES ASSUME s \in Entitled(u), s[1] \in Topups
                   PROVE (CHOOSE x \in topups[u] : x.order = s[1]).at + Validity \in Nat
        OBVIOUS
      <3>1. \E x \in topups[u] : x.order = s[1]
        BY WalletAssumption DEF Entitled, TypeOK
      <3>2. (CHOOSE x \in topups[u] : x.order = s[1]) \in topups[u]
        BY <3>1
      <3> QED BY <3>2, WalletAssumption DEF TypeOK, Days
    <2>5. NewGrant("welcome", now + Validity) \in GrantRows /\ NewGrant("plan", s[2] + Period) \in GrantRows
      BY <2>2, <2>3, SourceShape, WalletAssumption
    <2> HIDE DEF g
    <2> QED BY <2>1, <2>3, <2>4, <2>5 DEF Granted, g
  <1>4. Synced(u) \in GrantTable
    BY <1>3 DEF Synced, Granted, GrantTable
  <1>5. Expired(u) \in [Ids -> RequestRows]
    <2>1. ASSUME NEW i \in Ids PROVE req[u][i] \in RequestRows
      BY DEF TypeOK
    <2>2. ASSUME NEW i \in Ids PROVE [req[u][i] EXCEPT !.state = "failed"] \in RequestRows
      BY <2>1, RowTyped
    <2> QED BY <2>1, <2>2 DEF Expired
  <1> QED BY <1>1, <1>4, <1>5

\* What reserve takes from a ledger is there to be taken.
LEMMA TakesFacts ==
  ASSUME NEW g \in GrantTable, NEW S \in SUBSET Sources, NEW n \in Nat, NEW f \in Takes(g, S, n)
  PROVE /\ Extend(f, S) \in Amounts
        /\ \A s \in Sources : Extend(f, S)[s] <= g[s].remaining
        /\ \A s \in Sources : Extend(f, S)[s] > 0 => s \in S
  BY DEF Takes, Extend, Amounts, GrantTable, GrantRows

\* What settle gives back was taken by the request.
LEMMA GivesBackFacts ==
  ASSUME TypeOK, NEW u \in Users, NEW i \in Ids, NEW n \in Nat, NEW back \in GivesBack(u, i, n)
  PROVE back \in Amounts /\ \A s \in Sources : back[s] <= req[u][i].alloc[s]
  <1> DEFINE a == req[u][i].alloc
             S == {s \in Sources : a[s] > 0}
  <1>1. PICK f \in [S -> 0..n] : back = Extend(f, S) /\ \A s \in S : f[s] <= a[s]
    BY DEF GivesBack
  <1>2. a \in [Sources -> Nat]
    BY DEF TypeOK, RequestRows
  <1> QED BY <1>1, <1>2 DEF Extend, Amounts

\* An answer's charge never exceeds the reservation.
LEMMA OutcomeFacts ==
  ASSUME NEW n \in Nat, NEW o \in Outcomes(n)
  PROVE o.charge \in 0..n /\ o.cost \in Nat
  <1>1. \A c \in 1..MaxCost : Min({n, c}) \in 0..n
    <2> SUFFICES ASSUME NEW c \in 1..MaxCost PROVE Min({n, c}) \in 0..n
      OBVIOUS
    <2>1. CASE n <= c
      <3>1. Min({n, c}) = n
        BY <2>1, WalletAssumption DEF Min
      <3> QED BY <3>1
    <2>2. CASE c < n
      <3>1. Min({n, c}) = c
        BY <2>2, WalletAssumption DEF Min
      <3> QED BY <3>1, <2>2, WalletAssumption
    <2> QED BY <2>1, <2>2, WalletAssumption
  <1>2. CASE \E c \in 1..MaxCost : o = [charge |-> Min({n, c}), cost |-> c, known |-> TRUE]
    <2>1. PICK c \in 1..MaxCost : o = [charge |-> Min({n, c}), cost |-> c, known |-> TRUE]
      BY <1>2
    <2>2. o.charge = Min({n, c}) /\ o.cost = c
      BY <2>1
    <2> QED BY <1>1, <2>2, WalletAssumption
  <1>3. CASE \E c \in 1..MaxCost : o = [charge |-> n, cost |-> c, known |-> TRUE]
    BY <1>3, WalletAssumption
  <1>4. CASE o = [charge |-> n, cost |-> n, known |-> FALSE]
    BY <1>4
  <1> QED BY <1>2, <1>3, <1>4 DEF Outcomes

-----------------------------------------------------------------------------
(* Types.                                                                  *)

\* Every step keeps every table in its type and every day within the ceiling.
LEMMA TypeStep == TypeOK /\ [Next]_vars => TypeOK'
  <1> SUFFICES ASSUME TypeOK, [Next]_vars PROVE TypeOK'
    OBVIOUS
  <1> USE WalletAssumption
  <1>1. ASSUME NEW u \in Users, NEW i \in Ids, Reserve(u, i) PROVE TypeOK'
    <2> DEFINE g == Synced(u)
               S == Spendable(u, g)
               Row(f, n) == [state |-> "reserved", alloc |-> Extend(f, S), reserved |-> n,
                             day |-> now, old |-> FALSE]
    <2>0. PICK n \in Sizes :
            /\ WithinCeiling(n)
            /\ \E f \in Takes(g, S, n) :
                 /\ grant' = [grant EXCEPT ![u] = Minus(g, Extend(f, S))]
                 /\ req' = [req EXCEPT ![u] = [Expired(u) EXCEPT ![i] = Row(f, n)]]
            /\ budget' = [budget EXCEPT ![now] = @ + n]
            /\ cost' = [cost EXCEPT ![u][i] = [calls |-> @.calls + 1, day |-> now, credits |-> n]]
      BY <1>1 DEF Reserve
    <2>1. PICK f \in Takes(g, S, n) :
            /\ grant' = [grant EXCEPT ![u] = Minus(g, Extend(f, S))]
            /\ req' = [req EXCEPT ![u] = [Expired(u) EXCEPT ![i] = Row(f, n)]]
      BY <2>0
    <2>2. n \in Nat /\ S \in SUBSET Sources /\ g \in GrantTable
      BY SyncTyped DEF Spendable
    <2>3. Extend(f, S) \in Amounts /\ \A s \in Sources : Extend(f, S)[s] <= g[s].remaining
      BY <2>2, TakesFacts
    <2>4. Minus(g, Extend(f, S)) \in GrantTable
      BY <2>2, <2>3, PlusMinusTyped
    <2>5. Row(f, n) \in RequestRows
      BY <2>2, <2>3 DEF RequestRows, Amounts, TypeOK
    <2>6. grant' \in [Users -> [Sources -> GrantRows]]
      BY <2>1, <2>4 DEF TypeOK, GrantTable
    <2>7. req' \in [Users -> [Ids -> RequestRows]]
      BY <2>1, <2>5, SyncTyped DEF TypeOK
    <2>8. budget' \in [Days -> {m \in Int : m <= Ceiling}]
      BY <2>0, <2>2 DEF TypeOK, WithinCeiling
    <2>9. cost' \in [Users -> [Ids -> [calls : Nat, day : Days, credits : Nat]]]
      BY <2>0, <2>2 DEF TypeOK
    <2> QED BY <1>1, <2>6, <2>7, <2>8, <2>9 DEF Reserve, TypeOK, world
  <1>2. ASSUME NEW u \in Users, Returned(u) \in GrantTable, Synced(u) \in GrantTable,
               Expired(u) \in [Ids -> RequestRows],
               grant' = [grant EXCEPT ![u] = Returned(u)] \/ grant' = [grant EXCEPT ![u] = Synced(u)],
               req' = [req EXCEPT ![u] = Expired(u)],
               UNCHANGED <<call, budget, trial, world, closed, now, history>>
        PROVE TypeOK'
    <2>1. grant' \in [Users -> [Sources -> GrantRows]]
      BY <1>2 DEF TypeOK, GrantTable
    <2>2. req' \in [Users -> [Ids -> RequestRows]]
      BY <1>2 DEF TypeOK
    <2> QED BY <1>2, <2>1, <2>2, Zenon DEF TypeOK, world, history
  <1>3. ASSUME NEW u \in Users, NEW i \in Ids, Replay(u, i) PROVE TypeOK'
    BY <1>2, <1>3, SyncTyped DEF Replay
  <1>4. ASSUME NEW u \in Users, Status(u) PROVE TypeOK'
    BY <1>2, <1>4, SyncTyped DEF Status
  <1>5. ASSUME NEW u \in Users, NEW i \in Ids, SettleAnswered(u, i) PROVE TypeOK'
    <2> DEFINE n == req[u][i].reserved
               d == BudgetDay(u, i)
    <2>0. PICK o \in Outcomes(n) :
            /\ \E back \in GivesBack(u, i, n - o.charge) :
                 /\ grant' = [grant EXCEPT ![u] = Plus(grant[u], back)]
                 /\ spent' = [spent EXCEPT ![u] =
                      [s \in Sources |-> spent[u][s] + (req[u][i].alloc[s] - back[s])]]
            /\ budget' = [budget EXCEPT ![d] = IF o.cost > n THEN Ceiling
                                               ELSE IF o.known THEN @ - (n - o.cost) ELSE @]
            /\ drifted' = IF o.cost > n THEN drifted \cup {d} ELSE drifted
            /\ cost' = [cost EXCEPT ![u][i].credits = o.cost]
      BY <1>5 DEF SettleAnswered
    <2>1. PICK back \in GivesBack(u, i, n - o.charge) :
            /\ grant' = [grant EXCEPT ![u] = Plus(grant[u], back)]
            /\ spent' = [spent EXCEPT ![u] =
                 [s \in Sources |-> spent[u][s] + (req[u][i].alloc[s] - back[s])]]
      BY <2>0
    <2>2. n \in Nat /\ d \in Days /\ req[u][i].alloc \in Amounts
      BY DEF TypeOK, RequestRows, BudgetDay, Amounts
    <2>3. o.charge \in 0..n /\ o.cost \in Nat
      BY <2>2, OutcomeFacts
    <2>4. n - o.charge \in Nat
      BY <2>2, <2>3
    <2>5. back \in Amounts /\ \A s \in Sources : back[s] <= req[u][i].alloc[s]
      BY <2>4, GivesBackFacts
    <2>6. grant' \in [Users -> [Sources -> GrantRows]]
      BY <2>1, <2>5, PlusMinusTyped DEF TypeOK, GrantTable
    <2>7. spent' \in [Users -> [Sources -> Nat]]
      BY <2>1, <2>2, <2>5 DEF TypeOK, Amounts
    <2>8. budget' \in [Days -> {m \in Int : m <= Ceiling}]
      BY <2>0, <2>2, <2>3 DEF TypeOK
    <2>9. cost' \in [Users -> [Ids -> [calls : Nat, day : Days, credits : Nat]]] /\ drifted' \subseteq Days
      <3>1. cost[u][i] \in [calls : Nat, day : Days, credits : Nat]
        BY DEF TypeOK
      <3>2. [cost[u][i] EXCEPT !.credits = o.cost] \in [calls : Nat, day : Days, credits : Nat]
        BY <2>3, <3>1
      <3>3. cost' \in [Users -> [Ids -> [calls : Nat, day : Days, credits : Nat]]]
        BY <2>0, <3>2 DEF TypeOK
      <3>4. drifted' \subseteq Days
        BY <2>0, <2>2 DEF TypeOK
      <3> QED BY <3>3, <3>4
    <2>10. req' \in [Users -> [Ids -> RequestRows]]
      <3> DEFINE q == [req EXCEPT ![u][i].state = "complete"]
      <3>1. req[u][i] \in RequestRows
        BY DEF TypeOK
      <3>2. [req[u][i] EXCEPT !.state = "complete"] \in RequestRows
        BY <3>1, RowTyped
      <3>3. q \in [Users -> [Ids -> RequestRows]]
        BY <3>2 DEF TypeOK
      <3>4. req' = [q EXCEPT ![u][i].old = FALSE]
        BY <1>5 DEF SettleAnswered
      <3> HIDE DEF q
      <3>5. [q[u][i] EXCEPT !.old = FALSE] \in RequestRows
        BY <3>3, RowTyped
      <3> QED BY <3>3, <3>4, <3>5
    <2> QED BY <1>5, <2>6, <2>7, <2>8, <2>9, <2>10 DEF SettleAnswered, TypeOK, world
  <1>6. ASSUME NEW u \in Users, NEW i \in Ids, SettleFailed(u, i) PROVE TypeOK'
    <2>1. req[u][i].alloc \in Amounts
      BY DEF TypeOK, RequestRows, Amounts
    <2>2. grant' \in [Users -> [Sources -> GrantRows]]
      BY <1>6, <2>1, PlusMinusTyped DEF TypeOK, GrantTable, SettleFailed
    <2>3. req' \in [Users -> [Ids -> RequestRows]]
      <3>0. req[u][i] \in RequestRows
        BY DEF TypeOK
      <3>1. [req[u][i] EXCEPT !.state = "failed"] \in RequestRows
        BY <3>0, RowTyped
      <3> QED BY <1>6, <3>1 DEF TypeOK, SettleFailed
    <2> QED BY <1>6, <2>2, <2>3 DEF SettleFailed, TypeOK, world, history
  <1>7. ASSUME NEW u \in Users, NEW i \in Ids, CallLost(u, i) PROVE TypeOK'
    BY <1>7 DEF CallLost, TypeOK, ledger, world, history
  <1>8. ASSUME NEW u \in Users, NEW i \in Ids, Ages(u, i) PROVE TypeOK'
    <2>0. req[u][i] \in RequestRows
      BY DEF TypeOK
    <2>1. [req[u][i] EXCEPT !.old = TRUE] \in RequestRows
      BY <2>0, RowTyped
    <2>2. req' \in [Users -> [Ids -> RequestRows]]
      BY <1>8, <2>1 DEF Ages, TypeOK
    <2> QED BY <1>8, <2>2 DEF Ages, TypeOK, world, history
  <1>9. ASSUME NEW u \in Users, AdminCredits(u) PROVE TypeOK'
    <2>1. NewGrant("admin", now + Validity) \in GrantRows
      BY DEF NewGrant, GrantRows, TypeOK, Days
    <2>2. grant' \in [Users -> [Sources -> GrantRows]]
      BY <1>9, <2>1 DEF AdminCredits, TypeOK
    <2> QED BY <1>9, <2>2 DEF AdminCredits, TypeOK, world, history
  <1>10. ASSUME NEW u \in Users, PlanChanges(u) PROVE TypeOK'
    <2>1. plan' \in [Users -> [ref : Refs \cup {"none"}, starts : Days]]
      BY <1>10 DEF PlanChanges, TypeOK
    <2> QED BY <1>10, <2>1, Zenon DEF PlanChanges, TypeOK, ledger, history
  <1>11. ASSUME NEW u \in Users, CloseAccount(u) PROVE TypeOK'
    <2>1. NoGrant \in GrantRows /\ NoRequest \in RequestRows
      BY DEF NoGrant, NoRequest, GrantRows, RequestRows, Nothing, Days
    <2> QED BY <1>11, <2>1 DEF CloseAccount, TypeOK, world, history
  <1>12. ASSUME NEW u \in Users, NEW r \in Topups, TopupPaid(u, r) PROVE TypeOK'
    <2>1. topups' \in [Users -> SUBSET [order : Topups, at : Days]]
      BY <1>12 DEF TopupPaid, TypeOK
    <2> QED BY <1>12, <2>1, Zenon DEF TopupPaid, TypeOK, ledger, history
  <1>13. ASSUME NEW u \in Users, NEW r \in Refs \cup Topups, RefundChanges(u, r) PROVE TypeOK'
    <2>0. PICK d \in {"open", "rejected", "completed"} : refund' = [refund EXCEPT ![u][r] = d]
      BY <1>13 DEF RefundChanges
    <2>1. refund' \in [Users -> [Refs \cup Topups -> {"none", "open", "rejected", "completed"}]]
      BY <2>0 DEF TypeOK
    <2> QED BY <1>13, <2>1, Zenon DEF RefundChanges, TypeOK, ledger, history
  <1>14. ASSUME NEW g \in Guests, ReserveTrial(g) PROVE TypeOK'
    <2>1. budget' \in [Days -> {m \in Int : m <= Ceiling}]
      BY <1>14 DEF ReserveTrial, WithinCeiling, TypeOK
    <2>2. trial' \in [Guests -> [Days -> 0..TrialTurns]]
      BY <1>14 DEF ReserveTrial, TypeOK
    <2> QED BY <1>14, <2>1, <2>2, Zenon DEF ReserveTrial, TypeOK, ledger, world, history
  <1>15. CASE Midnight
    <2>1. now' \in Days
      BY <1>15 DEF Midnight, TypeOK, Days
    <2> QED BY <1>15, <2>1, Zenon DEF Midnight, TypeOK, ledger, world, history
  <1>16. CASE UNCHANGED vars
    BY <1>16 DEF vars, TypeOK, ledger, world, history
  <1> QED BY <1>1, <1>3, <1>4, <1>5, <1>6, <1>7, <1>8, <1>9, <1>10, <1>11, <1>12, <1>13,
             <1>14, <1>15, <1>16 DEF Next, Request, Account

\* The empty tables have their types.
LEMMA TypeInit == Init => TypeOK
  <1> SUFFICES ASSUME Init PROVE TypeOK
    OBVIOUS
  <1> USE WalletAssumption
  <1>1. NoGrant \in GrantRows /\ NoRequest \in RequestRows /\ Nothing \in [Sources -> Nat] /\ 0 \in Days
    BY DEF NoGrant, NoRequest, GrantRows, RequestRows, Nothing, Days
  <1>2. budget \in [Days -> {n \in Int : n <= Ceiling}] /\ trial \in [Guests -> [Days -> 0..TrialTurns]]
    BY DEF Init
  <1>3. /\ plan \in [Users -> [ref : Refs \cup {"none"}, starts : Days]]
        /\ refund \in [Users -> [Refs \cup Topups -> {"none", "open", "rejected", "completed"}]]
        /\ cost \in [Users -> [Ids -> [calls : Nat, day : Days, credits : Nat]]]
    BY <1>1 DEF Init
  <1>4. closed \in [Users -> BOOLEAN]
    BY DEF Init
  <1> QED BY <1>1, <1>2, <1>3, <1>4 DEF Init, TypeOK

\* The wallet's tables always have their types and no day exceeds the ceiling.
THEOREM TypeCorrect == Spec => []TypeOK
  BY TypeInit, TypeStep, PTL DEF Spec

-----------------------------------------------------------------------------
(* The account's invariant, as a predicate of the account's own rows.      *)

Open(rows) == {i \in Ids : rows[i].state = "reserved"}
HeldIn(rows, s) == IF Open(rows) = {} THEN 0 ELSE rows[CHOOSE i \in Open(rows) : TRUE].alloc[s]

\* Nothing was taken from a grant that was not made, so that making it later
\* neither loses nor doubles a credit.
Balanced(g, rows, sp) ==
  \A s \in Sources :
    LET total == g[s].remaining + HeldIn(rows, s) + sp[s]
    IN /\ total <= g[s].credits
       /\ s[1] \notin Refs => total = g[s].credits
       /\ ~g[s].made => g[s].credits = 0

\* A request that has no row was never sent to the provider, while the account exists.
Sound(g, rows, sp, c, cl) ==
  /\ \A i, j \in Open(rows) : i = j
  /\ \A i \in Ids : c[i].calls <= 1 /\ (~cl /\ rows[i].state = "none" => c[i].calls = 0)
  /\ ~cl => Balanced(g, rows, sp)
  /\ cl => \A s \in Sources : ~g[s].made

AccountInv(u) == Sound(grant[u], req[u], spent[u], cost[u], closed[u])

\* What the only open reservation holds.
LEMMA HeldOne ==
  ASSUME NEW rows, NEW i \in Open(rows), \A j \in Open(rows) : j = i, NEW s
  PROVE HeldIn(rows, s) = rows[i].alloc[s]
  BY OnlyOne DEF HeldIn

LEMMA HeldNone ==
  ASSUME NEW rows, Open(rows) = {}, NEW s
  PROVE HeldIn(rows, s) = 0
  BY DEF HeldIn

\* Held is HeldIn of the account's rows.
LEMMA HeldIsHeldIn ==
  ASSUME NEW u \in Users
  PROVE Reserved(u) = Open(req[u]) /\ \A s \in Sources : Held(u, s) = HeldIn(req[u], s)
  BY DEF Reserved, Open, Held, HeldIn

\* Rows that differ only in their age hold the same.
LEMMA HeldSame ==
  ASSUME NEW rows, NEW other, NEW s,
         \A i \in Ids : rows[i].state = other[i].state /\ rows[i].alloc = other[i].alloc
  PROVE Open(rows) = Open(other) /\ HeldIn(rows, s) = HeldIn(other, s)
  <1>1. Open(rows) = Open(other)
    BY DEF Open
  <1>2. CASE Open(rows) = {}
    BY <1>1, <1>2 DEF HeldIn
  <1>3. CASE Open(rows) # {}
    <2>1. (CHOOSE i \in Open(rows) : TRUE) \in Ids
      BY <1>3 DEF Open
    <2>2. (CHOOSE i \in Open(rows) : TRUE) = (CHOOSE i \in Open(other) : TRUE)
      BY <1>1
    <2> QED BY <1>1, <1>3, <2>1, <2>2 DEF HeldIn
  <1> QED BY <1>1, <1>2, <1>3

\* Rows change only in state and age when reservations time out.
LEMMA ExpiredRows ==
  ASSUME TypeOK, NEW u \in Users, NEW i \in Ids
  PROVE /\ Expired(u)[i].alloc = req[u][i].alloc
        /\ Expired(u)[i].state = IF i \in Late(u) THEN "failed" ELSE req[u][i].state
  <1>1. req[u][i] \in RequestRows
    BY DEF TypeOK
  <1> QED BY <1>1 DEF Expired, RequestRows

\* Giving back lost reservations moves credits from the reservation to the
\* grant; _sync then only voids allowances and makes what was not made.
LEMMA SyncBalanced ==
  ASSUME TypeOK, NEW u \in Users, AccountInv(u), ~closed[u]
  PROVE /\ \A i, j \in Open(Expired(u)) : i = j
        /\ Open(Expired(u)) = Reserved(u) \ Late(u)
        /\ Balanced(Returned(u), Expired(u), spent[u])
        /\ Balanced(Synced(u), Expired(u), spent[u])
  <1> USE WalletAssumption
  <1> DEFINE rows == Expired(u)
             sp == spent[u]
  <1>1. Open(rows) = Reserved(u) \ Late(u)
    BY ExpiredRows DEF Open, Reserved, Late
  <1>2. \A i, j \in Open(rows) : i = j
    BY <1>1, HeldIsHeldIn DEF AccountInv, Sound
  <1>3. ASSUME NEW s \in Sources
        PROVE Lost(u)[s] + HeldIn(rows, s) = Held(u, s) /\ Lost(u)[s] \in Nat /\ HeldIn(rows, s) \in Nat
    <2>1. Held(u, s) \in Nat /\ Lost(u) \in Amounts
      BY HeldTyped
    <2>2. CASE Late(u) = {}
      <3>1. \A i \in Ids : rows[i].state = req[u][i].state /\ rows[i].alloc = req[u][i].alloc
        BY <2>2, ExpiredRows
      <3>2. HeldIn(rows, s) = HeldIn(req[u], s)
        BY <3>1, HeldSame
      <3> QED BY <2>1, <2>2, <3>2, HeldIsHeldIn DEF Lost
    <2>3. CASE Late(u) # {}
      <3>1. Open(rows) = {}
        BY <1>1, <2>3, HeldIsHeldIn DEF Late, AccountInv, Sound
      <3>2. HeldIn(rows, s) = 0
        BY <3>1, HeldNone
      <3> QED BY <2>1, <2>3, <3>2 DEF Lost
    <2> QED BY <2>2, <2>3
  <1>4. ASSUME NEW s \in Sources
        PROVE /\ grant[u][s] \in GrantRows /\ sp[s] \in Nat
              /\ Returned(u)[s].remaining = grant[u][s].remaining + Lost(u)[s]
              /\ Returned(u)[s].credits = grant[u][s].credits
              /\ Returned(u)[s].made = grant[u][s].made
              /\ grant[u][s].remaining \in Nat /\ grant[u][s].credits \in Nat
    <2>1. grant[u][s] \in GrantRows /\ sp[s] \in Nat
      BY DEF TypeOK
    <2>2. Returned(u)[s] = [grant[u][s] EXCEPT !.remaining = @ + Lost(u)[s]]
      BY DEF Returned, Plus
    <2> QED BY <2>1, <2>2 DEF GrantRows
  <1>5. ASSUME NEW s \in Sources
        PROVE LET total == grant[u][s].remaining + Held(u, s) + sp[s]
              IN /\ total <= grant[u][s].credits
                 /\ s[1] \notin Refs => total = grant[u][s].credits
                 /\ ~grant[u][s].made => grant[u][s].credits = 0
    BY HeldIsHeldIn DEF AccountInv, Sound, Balanced
  <1> HIDE DEF rows, sp
  <1>6. ASSUME NEW s \in Sources
        PROVE LET g == Returned(u)
                  total == g[s].remaining + HeldIn(rows, s) + sp[s]
              IN /\ total <= g[s].credits
                 /\ s[1] \notin Refs => total = g[s].credits
                 /\ ~g[s].made => g[s].credits = 0
    <2>1. Returned(u)[s].remaining + HeldIn(rows, s) + sp[s] = grant[u][s].remaining + Held(u, s) + sp[s]
      BY <1>3, <1>4
    <2> QED BY <1>4, <1>5, <2>1
  <1>7. ASSUME NEW s \in Sources
        PROVE LET g == Synced(u)
                  total == g[s].remaining + HeldIn(rows, s) + sp[s]
              IN /\ total <= g[s].credits
                 /\ s[1] \notin Refs => total = g[s].credits
                 /\ ~g[s].made => g[s].credits = 0
    <2> DEFINE v == Voided(u, Returned(u))
    <2>1. Returned(u)[s] \in GrantRows
      BY SyncTyped DEF GrantTable
    <2>2. /\ v[s] \in GrantRows /\ v[s].credits = Returned(u)[s].credits /\ v[s].made = Returned(u)[s].made
          /\ v[s].remaining = Returned(u)[s].remaining \/ (s[1] \in Refs /\ v[s].remaining = 0)
      BY <2>1 DEF Voided, GrantRows
    <2>3. /\ v[s].remaining + HeldIn(rows, s) + sp[s] <= v[s].credits
          /\ s[1] \notin Refs => v[s].remaining + HeldIn(rows, s) + sp[s] = v[s].credits
          /\ ~v[s].made => v[s].credits = 0
      <3>1. /\ v[s].remaining \in Nat /\ Returned(u)[s].remaining \in Nat
            /\ HeldIn(rows, s) \in Nat /\ sp[s] \in Nat /\ Returned(u)[s].credits \in Nat
        BY <1>3, <1>4, <2>1, <2>2 DEF GrantRows
      <3> HIDE DEF v
      <3> QED BY <1>6, <2>2, <3>1
    <2>4. CASE Synced(u)[s] = v[s]
      BY <2>3, <2>4
    <2>5. CASE Synced(u)[s] # v[s]
      <3>1. ~v[s].made /\ \E k \in {"welcome", "plan", "topup"} : \E e : Synced(u)[s] = NewGrant(k, e)
        BY <2>5 DEF Synced, Granted
      <3>2. v[s].remaining \in Nat /\ HeldIn(rows, s) \in Nat /\ sp[s] \in Nat
        BY <1>3, <1>4, <2>2 DEF GrantRows
      <3> HIDE DEF v
      <3>3. HeldIn(rows, s) = 0 /\ sp[s] = 0
        BY <2>3, <3>1, <3>2
      <3> QED BY <3>1, <3>3 DEF NewGrant
    <2> QED BY <2>4, <2>5
  <1>8. Balanced(Returned(u), rows, sp) /\ Balanced(Synced(u), rows, sp)
    BY <1>6, <1>7 DEF Balanced
  <1> QED BY <1>1, <1>2, <1>8 DEF rows, sp

\* An operation on another account, or none, leaves the account's rows alone.
LEMMA Frame ==
  ASSUME NEW u \in Users, AccountInv(u),
         grant'[u] = grant[u], req'[u] = req[u], spent'[u] = spent[u],
         cost'[u] = cost[u], closed'[u] = closed[u]
  PROVE AccountInv(u)'
  BY DEF AccountInv

\* reserve: the credits that leave the grants are what the request holds.
LEMMA ReserveStep ==
  ASSUME TypeOK, NEW u \in Users, NEW i \in Ids, AccountInv(u), Reserve(u, i)
  PROVE AccountInv(u)'
  <1> USE WalletAssumption
  <1> DEFINE g == Synced(u)
             S == Spendable(u, g)
             Row(f, n) == [state |-> "reserved", alloc |-> Extend(f, S), reserved |-> n,
                           day |-> now, old |-> FALSE]
  <1>0. PICK n \in Sizes :
          /\ \E f \in Takes(g, S, n) :
               /\ grant' = [grant EXCEPT ![u] = Minus(g, Extend(f, S))]
               /\ req' = [req EXCEPT ![u] = [Expired(u) EXCEPT ![i] = Row(f, n)]]
          /\ cost' = [cost EXCEPT ![u][i] = [calls |-> @.calls + 1, day |-> now, credits |-> n]]
    BY DEF Reserve
  <1>1. PICK f \in Takes(g, S, n) :
          /\ grant' = [grant EXCEPT ![u] = Minus(g, Extend(f, S))]
          /\ req' = [req EXCEPT ![u] = [Expired(u) EXCEPT ![i] = Row(f, n)]]
          /\ cost' = [cost EXCEPT ![u][i] = [calls |-> @.calls + 1, day |-> now, credits |-> n]]
    BY <1>0
  <1>2. g \in GrantTable /\ S \in SUBSET Sources /\ n \in Nat /\ Expired(u) \in [Ids -> RequestRows]
    BY SyncTyped DEF Spendable
  <1>3. Extend(f, S) \in Amounts /\ \A s \in Sources : Extend(f, S)[s] <= g[s].remaining
    BY <1>2, TakesFacts
  <1>4. /\ ~closed[u] /\ closed'[u] = closed[u] /\ spent'[u] = spent[u]
        /\ req[u][i].state = "none" /\ Reserved(u) = Late(u)
    BY DEF Reserve, IsNew, IsOnlyCall
  <1>5. /\ grant'[u] = Minus(g, Extend(f, S))
        /\ req'[u] = [Expired(u) EXCEPT ![i] = Row(f, n)]
        /\ cost'[u] = [cost[u] EXCEPT ![i] = [calls |-> @.calls + 1, day |-> now, credits |-> n]]
    BY <1>1 DEF TypeOK
  <1>6. Open(Expired(u)) = {} /\ Balanced(g, Expired(u), spent[u])
    BY <1>4, SyncBalanced
  <1>7. Open(req'[u]) = {i} /\ req'[u][i].alloc = Extend(f, S)
    BY <1>2, <1>5, <1>6 DEF Open
  <1>8. \A s \in Sources : HeldIn(req'[u], s) = Extend(f, S)[s]
    BY <1>7, HeldOne
  <1> DEFINE e == Extend(f, S)
  <1>9. ASSUME NEW s \in Sources
        PROVE LET total == grant'[u][s].remaining + HeldIn(req'[u], s) + spent[u][s]
              IN /\ total <= grant'[u][s].credits
                 /\ s[1] \notin Refs => total = grant'[u][s].credits
                 /\ ~grant'[u][s].made => grant'[u][s].credits = 0
    <2>1. /\ g[s].remaining \in Nat /\ e[s] \in Nat /\ spent[u][s] \in Nat
          /\ grant'[u][s].remaining = g[s].remaining - e[s]
          /\ grant'[u][s].credits = g[s].credits /\ grant'[u][s].made = g[s].made
      BY <1>2, <1>3, <1>5 DEF Minus, GrantTable, GrantRows, Amounts, TypeOK
    <2>2. HeldIn(Expired(u), s) = 0
      BY <1>6, HeldNone
    <2>3. /\ g[s].remaining + spent[u][s] <= g[s].credits
          /\ s[1] \notin Refs => g[s].remaining + spent[u][s] = g[s].credits
          /\ ~g[s].made => g[s].credits = 0
      BY <1>6, <2>1, <2>2 DEF Balanced
    <2> HIDE DEF g, e
    <2>4. grant'[u][s].remaining + HeldIn(req'[u], s) + spent[u][s] = g[s].remaining + spent[u][s]
      BY <1>8, <2>1 DEF e
    <2> QED BY <2>1, <2>3, <2>4
  <1>10. Balanced(grant'[u], req'[u], spent[u])
    BY <1>9 DEF Balanced
  <1>11. ASSUME NEW j \in Ids
         PROVE cost'[u][j].calls <= 1 /\ (req'[u][j].state = "none" => cost'[u][j].calls = 0)
    <2>1. cost[u] \in [Ids -> [calls : Nat, day : Days, credits : Nat]]
      BY DEF TypeOK
    <2>2. CASE j = i
      <3>1. cost'[u][j].calls = cost[u][i].calls + 1 /\ cost[u][i].calls = 0
        BY <1>4, <1>5, <2>1, <2>2 DEF AccountInv, Sound
      <3>2. req'[u][j].state = "reserved"
        BY <1>2, <1>5, <2>2
      <3> QED BY <3>1, <3>2
    <2>3. CASE j # i
      <3>1. cost'[u][j] = cost[u][j] /\ req'[u][j] = Expired(u)[j]
        BY <1>2, <1>5, <2>1, <2>3
      <3>2. req'[u][j].state = "none" => req[u][j].state = "none"
        BY <3>1, ExpiredRows
      <3> QED BY <1>4, <3>1, <3>2 DEF AccountInv, Sound
    <2> QED BY <2>2, <2>3
  <1> QED BY <1>4, <1>7, <1>10, <1>11 DEF AccountInv, Sound

\* Replay and status: only lost reservations move, and what _sync makes.
LEMMA SyncStep ==
  ASSUME TypeOK, NEW u \in Users, AccountInv(u), ~closed[u],
         grant' = [grant EXCEPT ![u] = Returned(u)] \/ grant' = [grant EXCEPT ![u] = Synced(u)],
         req' = [req EXCEPT ![u] = Expired(u)], UNCHANGED <<spent, cost, closed>>
  PROVE AccountInv(u)'
  <1>1. (grant'[u] = Returned(u) \/ grant'[u] = Synced(u)) /\ req'[u] = Expired(u)
    BY DEF TypeOK
  <1>2. \A i \in Ids : req'[u][i].state = "none" => req[u][i].state = "none"
    BY <1>1, ExpiredRows
  <1> QED BY <1>1, <1>2, SyncBalanced DEF AccountInv, Sound

\* settle: the request's credits are split between the grants and the charge.
LEMMA SettleStep ==
  ASSUME TypeOK, NEW u \in Users, NEW i \in Ids, AccountInv(u), OpenToSettle(u, i),
         NEW back \in Amounts, \A s \in Sources : back[s] <= req[u][i].alloc[s],
         grant'[u] = Plus(grant[u], back),
         \A s \in Sources : spent'[u][s] = spent[u][s] + (req[u][i].alloc[s] - back[s]),
         NEW st \in {"complete", "failed"}, req'[u][i].state = st,
         \A j \in Ids \ {i} : req'[u][j] = req[u][j],
         \A j \in Ids : cost'[u][j].calls = cost[u][j].calls, closed'[u] = closed[u]
  PROVE AccountInv(u)'
  <1>1. ~closed[u] /\ i \in Open(req[u])
    BY DEF OpenToSettle, Open
  <1>2. \A j \in Open(req[u]) : j = i
    BY <1>1 DEF AccountInv, Sound
  <1>3. Open(req'[u]) = {}
    BY <1>2 DEF Open
  <1>4. ASSUME NEW s \in Sources
        PROVE LET total == grant'[u][s].remaining + HeldIn(req'[u], s) + spent'[u][s]
              IN /\ total <= grant'[u][s].credits
                 /\ s[1] \notin Refs => total = grant'[u][s].credits
                 /\ ~grant'[u][s].made => grant'[u][s].credits = 0
    <2> DEFINE a == req[u][i].alloc
    <2>1. a \in [Sources -> Nat] /\ spent[u][s] \in Nat /\ back[s] \in Nat /\ grant[u][s] \in GrantRows
      BY DEF TypeOK, RequestRows, Amounts
    <2>2. HeldIn(req[u], s) = a[s] /\ HeldIn(req'[u], s) = 0
      BY <1>1, <1>2, <1>3, HeldOne, HeldNone
    <2>3. /\ grant'[u][s].remaining = grant[u][s].remaining + back[s]
          /\ grant'[u][s].credits = grant[u][s].credits /\ grant'[u][s].made = grant[u][s].made
          /\ grant[u][s].remaining \in Nat
      BY <2>1 DEF Plus, GrantRows
    <2>4. /\ grant[u][s].remaining + a[s] + spent[u][s] <= grant[u][s].credits
          /\ s[1] \notin Refs => grant[u][s].remaining + a[s] + spent[u][s] = grant[u][s].credits
          /\ ~grant[u][s].made => grant[u][s].credits = 0
      BY <1>1, <2>2 DEF AccountInv, Sound, Balanced
    <2>5. spent'[u][s] = spent[u][s] + (a[s] - back[s]) /\ a[s] \in Nat
      BY <2>1
    <2> HIDE DEF a
    <2>6. grant'[u][s].remaining + HeldIn(req'[u], s) + spent'[u][s]
            = grant[u][s].remaining + a[s] + spent[u][s]
      BY <2>1, <2>2, <2>3, <2>5
    <2> QED BY <2>3, <2>4, <2>6
  <1>5. Balanced(grant'[u], req'[u], spent'[u])
    BY <1>4 DEF Balanced
  <1>6. \A j \in Ids : cost'[u][j].calls <= 1 /\ (req'[u][j].state = "none" => cost'[u][j].calls = 0)
    BY <1>1 DEF AccountInv, Sound
  <1> QED BY <1>1, <1>3, <1>5, <1>6 DEF AccountInv, Sound

\* Every step keeps every account's invariant.
LEMMA AccountStep ==
  ASSUME TypeOK, [Next]_vars, NEW v \in Users, \A u \in Users : AccountInv(u)
  PROVE AccountInv(v)'
  <1> USE WalletAssumption
  <1>1. ASSUME NEW u \in Users, u # v, Account(u) \/ \E i \in Ids : Request(u, i)
        PROVE AccountInv(v)'
    <2>1. grant'[v] = grant[v] /\ req'[v] = req[v] /\ closed'[v] = closed[v]
      <3>1. CASE Account(u)
        BY <1>1, <3>1 DEF Account, Status, AdminCredits, PlanChanges, CloseAccount, TypeOK, ledger
      <3>2. ASSUME NEW i \in Ids, Request(u, i)
            PROVE grant'[v] = grant[v] /\ req'[v] = req[v] /\ closed'[v] = closed[v]
        <4>1. CASE Reserve(u, i)
          BY <1>1, <4>1 DEF Reserve, TypeOK
        <4>2. CASE SettleAnswered(u, i)
          BY <1>1, <4>2 DEF SettleAnswered, TypeOK
        <4>3. CASE SettleFailed(u, i) \/ Ages(u, i)
          BY <1>1, <4>3 DEF SettleFailed, Ages, TypeOK
        <4>4. CASE Replay(u, i) \/ CallLost(u, i)
          BY <1>1, <4>4 DEF Replay, CallLost, TypeOK, ledger
        <4> QED BY <3>2, <4>1, <4>2, <4>3, <4>4 DEF Request
      <3> QED BY <1>1, <3>1, <3>2
    <2>2. spent'[v] = spent[v] /\ cost'[v] = cost[v]
      <3>1. ASSUME NEW i \in Ids, Reserve(u, i) PROVE spent' = spent /\ cost'[v] = cost[v]
        BY <1>1, <3>1 DEF Reserve, TypeOK
      <3>2. ASSUME NEW i \in Ids, SettleAnswered(u, i) PROVE spent'[v] = spent[v] /\ cost'[v] = cost[v]
        BY <1>1, <3>2 DEF SettleAnswered, TypeOK
      <3>3. CASE UNCHANGED history
        BY <3>3 DEF history
      <3> QED BY <1>1, <3>1, <3>2, <3>3 DEF Account, Request, Replay, SettleFailed, CallLost, Ages,
                                            Status, AdminCredits, PlanChanges, CloseAccount
    <2> QED BY <2>1, <2>2, Frame
  <1>2. ASSUME NEW i \in Ids, Reserve(v, i) PROVE AccountInv(v)'
    BY <1>2, ReserveStep
  <1>3. ASSUME NEW i \in Ids, Replay(v, i) PROVE AccountInv(v)'
    BY <1>3, SyncStep DEF Replay, history
  <1>4. CASE Status(v)
    BY <1>4, SyncStep DEF Status, history
  <1>5. ASSUME NEW i \in Ids, SettleAnswered(v, i) PROVE AccountInv(v)'
    <2> DEFINE n == req[v][i].reserved
    <2>0. PICK o \in Outcomes(n) :
            /\ \E back \in GivesBack(v, i, n - o.charge) :
                 /\ grant' = [grant EXCEPT ![v] = Plus(grant[v], back)]
                 /\ spent' = [spent EXCEPT ![v] =
                      [s \in Sources |-> spent[v][s] + (req[v][i].alloc[s] - back[s])]]
            /\ cost' = [cost EXCEPT ![v][i].credits = o.cost]
      BY <1>5 DEF SettleAnswered
    <2>1. PICK back \in GivesBack(v, i, n - o.charge) :
            /\ grant' = [grant EXCEPT ![v] = Plus(grant[v], back)]
            /\ spent' = [spent EXCEPT ![v] =
                 [s \in Sources |-> spent[v][s] + (req[v][i].alloc[s] - back[s])]]
      BY <2>0
    <2>2. req[v][i] \in RequestRows /\ n \in Nat
      BY DEF TypeOK, RequestRows
    <2>3. n - o.charge \in Nat
      BY <2>2, OutcomeFacts
    <2>4. back \in Amounts /\ \A s \in Sources : back[s] <= req[v][i].alloc[s]
      BY <2>3, GivesBackFacts
    <2>5. /\ grant'[v] = Plus(grant[v], back)
          /\ \A s \in Sources : spent'[v][s] = spent[v][s] + (req[v][i].alloc[s] - back[s])
      BY <2>1 DEF TypeOK
    <2>6. req' = [req EXCEPT ![v][i].state = "complete", ![v][i].old = FALSE]
      BY <1>5 DEF SettleAnswered
    <2>7. req'[v][i].state = "complete" /\ \A j \in Ids \ {i} : req'[v][j] = req[v][j]
      BY <2>2, <2>6 DEF TypeOK, RequestRows
    <2>8. \A j \in Ids : cost'[v][j].calls = cost[v][j].calls
      BY <2>0 DEF TypeOK
    <2>9. closed'[v] = closed[v] /\ OpenToSettle(v, i)
      BY <1>5 DEF SettleAnswered
    <2> QED BY <2>4, <2>5, <2>7, <2>8, <2>9, SettleStep
  <1>6. ASSUME NEW i \in Ids, SettleFailed(v, i) PROVE AccountInv(v)'
    <2>1. req[v][i] \in RequestRows /\ req[v][i].alloc \in Amounts
      BY DEF TypeOK, RequestRows, Amounts
    <2>2. grant'[v] = Plus(grant[v], req[v][i].alloc) /\ OpenToSettle(v, i)
      BY <1>6 DEF SettleFailed, TypeOK
    <2>3. req'[v][i].state = "failed" /\ \A j \in Ids \ {i} : req'[v][j] = req[v][j]
      BY <1>6, <2>1 DEF SettleFailed, TypeOK, RequestRows
    <2>4. spent' = spent /\ cost' = cost /\ closed' = closed
      BY <1>6 DEF SettleFailed, history
    <2>5. \A s \in Sources : /\ req[v][i].alloc[s] <= req[v][i].alloc[s]
                             /\ spent'[v][s] = spent[v][s] + (req[v][i].alloc[s] - req[v][i].alloc[s])
      BY <2>1, <2>4 DEF TypeOK, Amounts
    <2> QED BY <2>1, <2>2, <2>3, <2>4, <2>5, SettleStep
  <1>7. ASSUME NEW i \in Ids, CallLost(v, i) PROVE AccountInv(v)'
    BY <1>7, Frame DEF CallLost, ledger, history
  <1>8. ASSUME NEW i \in Ids, Ages(v, i) PROVE AccountInv(v)'
    <2>1. req[v][i] \in RequestRows
      BY DEF TypeOK
    <2>2. \A j \in Ids : req'[v][j].state = req[v][j].state /\ req'[v][j].alloc = req[v][j].alloc
      BY <1>8, <2>1 DEF Ages, TypeOK, RequestRows
    <2>3. \A s : Open(req'[v]) = Open(req[v]) /\ HeldIn(req'[v], s) = HeldIn(req[v], s)
      BY <2>2, HeldSame
    <2>4. grant' = grant /\ spent' = spent /\ cost' = cost /\ closed' = closed
      BY <1>8 DEF Ages, history
    <2> QED BY <2>2, <2>3, <2>4 DEF AccountInv, Sound, Balanced
  <1>9. CASE AdminCredits(v)
    <2> DEFINE t == <<"admin", 0>>
    <2>1. t \in Sources /\ t[1] = "admin" /\ ~closed[v] /\ ~grant[v][t].made
      BY <1>9 DEF AdminCredits, Sources
    <2>2. grant'[v] = [grant[v] EXCEPT ![t] = NewGrant("admin", now + Validity)]
      BY <1>9 DEF AdminCredits, TypeOK
    <2>3. req' = req /\ spent' = spent /\ cost' = cost /\ closed' = closed
      BY <1>9 DEF AdminCredits, history
    <2>4. grant[v] \in GrantTable /\ grant[v][t].remaining \in Nat /\ spent[v][t] \in Nat /\ Held(v, t) \in Nat
      <3>1. grant[v] \in GrantTable /\ spent[v][t] \in Nat
        BY <2>1 DEF TypeOK, GrantTable
      <3>2. grant[v][t] \in GrantRows
        BY <2>1, <3>1 DEF GrantTable
      <3>3. Held(v, t) \in Nat
        BY <2>1, HeldTyped
      <3> QED BY <3>1, <3>2, <3>3 DEF GrantRows
    <2>5. Balanced(grant[v], req[v], spent[v])
      BY <2>1 DEF AccountInv, Sound
    <2>6. HeldIn(req[v], t) = 0 /\ spent[v][t] = 0
      BY <2>1, <2>4, <2>5, HeldIsHeldIn DEF Balanced
    <2>7. Balanced(grant'[v], req[v], spent[v])
      <3> SUFFICES ASSUME NEW s \in Sources
                   PROVE LET g == grant'[v]
                             total == g[s].remaining + HeldIn(req[v], s) + spent[v][s]
                         IN /\ total <= g[s].credits
                            /\ s[1] \notin Refs => total = g[s].credits
                            /\ ~g[s].made => g[s].credits = 0
        BY DEF Balanced
      <3>1. CASE s = t
        <4>1. grant'[v][s] = NewGrant("admin", now + Validity)
          BY <2>1, <2>2, <2>4, <3>1 DEF GrantTable
        <4>2. HeldIn(req[v], s) = 0 /\ spent[v][s] = 0
          BY <2>6, <3>1
        <4> QED BY <4>1, <4>2 DEF NewGrant
      <3>2. CASE s # t
        <4>1. grant'[v][s] = grant[v][s]
          BY <2>2, <2>4, <3>2 DEF GrantTable
        <4> QED BY <2>5, <4>1 DEF Balanced
      <3> QED BY <3>1, <3>2
    <2> QED BY <2>1, <2>3, <2>7 DEF AccountInv, Sound
  <1>10. CASE CloseAccount(v)
    <2>1. /\ closed'[v] = TRUE /\ \A s \in Sources : ~grant'[v][s].made
          /\ \A i \in Ids : req'[v][i].state = "none"
      BY <1>10 DEF CloseAccount, TypeOK, NoGrant, NoRequest
    <2>2. cost' = cost
      BY <1>10 DEF CloseAccount, history
    <2> QED BY <2>1, <2>2 DEF AccountInv, Sound, Open
  <1>11. CASE PlanChanges(v)
    BY <1>11, Frame DEF PlanChanges, ledger, history
  <1>12. ASSUME \/ \E u \in Users : \/ \E r \in Topups : TopupPaid(u, r)
                                    \/ \E r \in Refs \cup Topups : RefundChanges(u, r)
                \/ \E g \in Guests : ReserveTrial(g)
                \/ Midnight
                \/ UNCHANGED vars
         PROVE AccountInv(v)'
    BY <1>12, Frame DEF TopupPaid, RefundChanges, ReserveTrial, Midnight, vars, ledger, history
  <1>13. CASE Account(v) \/ \E i \in Ids : Request(v, i)
    BY <1>2, <1>3, <1>4, <1>5, <1>6, <1>7, <1>8, <1>9, <1>10, <1>11, <1>13 DEF Account, Request
  <1> QED BY <1>1, <1>12, <1>13 DEF Next

-----------------------------------------------------------------------------
(* The properties.                                                         *)

WalletInv == TypeOK /\ \A u \in Users : AccountInv(u)

\* The inductive invariant: types, and every account's rows are sound.
THEOREM Inductive == Spec => []WalletInv
  <1>1. Init => WalletInv
    <2> SUFFICES ASSUME Init PROVE WalletInv
      OBVIOUS
    <2>1. TypeOK
      BY TypeInit
    <2>2. ASSUME NEW u \in Users PROVE AccountInv(u)
      <3>1. Open(req[u]) = {}
        BY DEF Init, NoRequest, Open
      <3>2. \A s \in Sources : HeldIn(req[u], s) = 0
        BY <3>1, HeldNone
      <3>3. /\ \A s \in Sources : grant[u][s] = NoGrant /\ spent[u][s] = 0
            /\ \A i \in Ids : cost[u][i].calls = 0
            /\ ~closed[u]
        BY <2>2 DEF Init, Nothing
      <3>4. Balanced(grant[u], req[u], spent[u])
        BY <3>2, <3>3 DEF Balanced, NoGrant
      <3> QED BY <3>1, <3>3, <3>4 DEF AccountInv, Sound
    <2> QED BY <2>1, <2>2 DEF WalletInv
  <1>2. WalletInv /\ [Next]_vars => WalletInv'
    <2> SUFFICES ASSUME WalletInv, [Next]_vars PROVE WalletInv'
      OBVIOUS
    <2>1. TypeOK'
      BY TypeStep DEF WalletInv
    <2>2. \A v \in Users : AccountInv(v)'
      BY AccountStep DEF WalletInv
    <2> QED BY <2>1, <2>2 DEF WalletInv
  <1> QED BY <1>1, <1>2, PTL DEF Spec

\* No credit of any grant is created, doubled or, save those of a replaced
\* subscription, lost.
THEOREM CreditsAreConserved == Spec => []CreditsConserved
  <1>1. WalletInv => CreditsConserved
    <2> SUFFICES ASSUME WalletInv, NEW u \in Users, NEW s \in Sources, grant[u][s].made
                 PROVE LET total == grant[u][s].remaining + Held(u, s) + spent[u][s]
                       IN total <= grant[u][s].credits /\ (s[1] \notin Refs => total = grant[u][s].credits)
      BY DEF CreditsConserved
    <2>1. closed[u] \in BOOLEAN /\ AccountInv(u)
      BY DEF WalletInv, TypeOK
    <2> QED BY <2>1, HeldIsHeldIn DEF AccountInv, Sound, Balanced
  <1> QED BY <1>1, Inductive, PTL

\* A request reaches the provider at most once and an account has at most one
\* reservation open.
THEOREM OneCallEach == Spec => []OneProviderCall
  <1>1. WalletInv => OneProviderCall
    <2> SUFFICES ASSUME WalletInv, NEW u \in Users
                 PROVE /\ Cardinality(Reserved(u)) <= 1
                       /\ \A i \in Ids : cost[u][i].calls <= 1
      BY DEF OneProviderCall
    <2>1. AccountInv(u)
      BY DEF WalletInv
    <2>2. Reserved(u) = {} \/ \E i : Reserved(u) = {i}
      <3>1. \A i, j \in Reserved(u) : i = j
        BY <2>1, HeldIsHeldIn DEF AccountInv, Sound
      <3>2. ASSUME NEW i \in Reserved(u) PROVE Reserved(u) = {i}
        BY <3>1
      <3> QED BY <3>2
    <2>3. Cardinality(Reserved(u)) <= 1
      BY <2>2, FS_EmptySet, FS_Singleton
    <2> QED BY <2>1, <2>3 DEF AccountInv, Sound
  <1> QED BY <1>1, Inductive, PTL

\* A replaced or refunded purchase's allowance is never reserved.
THEOREM StaleIsNeverSpent == Spec => StaleNeverSpent
  <1> DEFINE A == \A u \in Users, i \in Ids, s \in Sources :
                    IsNew(u, i) /\ req'[u][i].state = "reserved" /\ req'[u][i].alloc[s] > 0
                      => s[1] \notin Blocked(u) /\ (s[1] \in Refs => s[1] = plan[u].ref)
  <1>1. TypeOK /\ [Next]_vars => [A]_vars
    <2> SUFFICES ASSUME TypeOK, Next, NEW u \in Users, NEW i \in Ids, NEW s \in Sources,
                        IsNew(u, i), req'[u][i].state = "reserved", req'[u][i].alloc[s] > 0
                 PROVE s[1] \notin Blocked(u) /\ (s[1] \in Refs => s[1] = plan[u].ref)
      OBVIOUS
    <2> USE WalletAssumption
    <2>1. Reserve(u, i)
      <3>1. req[u][i].state = "none" /\ req'[u][i] # req[u][i]
        BY DEF IsNew
      <3>2. ASSUME NEW w \in Users, req' = [req EXCEPT ![w] = Expired(w)] PROVE FALSE
        <4>1. req'[u][i] = req[u][i] \/ req'[u][i] = Expired(u)[i]
          BY <3>2 DEF TypeOK
        <4> QED BY <3>1, <4>1, ExpiredRows
      <3>3. ASSUME NEW w \in Users, CloseAccount(w) PROVE FALSE
        BY <3>1, <3>3 DEF CloseAccount, TypeOK, NoRequest
      <3>4. ASSUME NEW w \in Users, NEW j \in Ids, SettleAnswered(w, j) \/ SettleFailed(w, j) \/ Ages(w, j)
            PROVE FALSE
        BY <3>1, <3>4 DEF SettleAnswered, SettleFailed, Ages, OpenToSettle, TypeOK
      <3>5. ASSUME NEW w \in Users, NEW j \in Ids, Reserve(w, j) PROVE w = u /\ j = i
        <4>1. PICK row : req' = [req EXCEPT ![w] = [Expired(w) EXCEPT ![j] = row]]
          BY <3>5 DEF Reserve
        <4>2. CASE w # u
          BY <3>1, <4>1, <4>2 DEF TypeOK
        <4>3. CASE w = u /\ j # i
          <5>1. req'[u][i] = Expired(u)[i]
            BY <4>1, <4>3, SyncTyped DEF TypeOK
          <5> QED BY <3>1, <5>1, ExpiredRows
        <4> QED BY <4>2, <4>3
      <3>6. CASE req' = req
        BY <3>1, <3>6
      <3> QED BY <3>2, <3>3, <3>4, <3>5, <3>6
              DEF Next, Account, Request, Replay, CallLost, Status, AdminCredits, PlanChanges,
                  TopupPaid, RefundChanges, ReserveTrial, Midnight, ledger
    <2> DEFINE g == Synced(u)
               S == Spendable(u, g)
    <2>2. PICK n \in Sizes : \E f \in Takes(g, S, n) :
            req' = [req EXCEPT ![u] = [Expired(u) EXCEPT ![i] =
              [state |-> "reserved", alloc |-> Extend(f, S), reserved |-> n, day |-> now, old |-> FALSE]]]
      BY <2>1 DEF Reserve
    <2>3. PICK f \in Takes(g, S, n) :
            req' = [req EXCEPT ![u] = [Expired(u) EXCEPT ![i] =
              [state |-> "reserved", alloc |-> Extend(f, S), reserved |-> n, day |-> now, old |-> FALSE]]]
      BY <2>2
    <2>4. g \in GrantTable /\ S \in SUBSET Sources /\ n \in Nat /\ Expired(u) \in [Ids -> RequestRows]
      BY SyncTyped DEF Spendable
    <2>5. req'[u][i].alloc = Extend(f, S)
      BY <2>3, <2>4 DEF TypeOK
    <2>6. s \in S
      BY <2>4, <2>5, TakesFacts
    <2>7. s[1] \notin Blocked(u) /\ g[s].remaining > 0
      BY <2>6 DEF Spendable
    <2>8. ASSUME s[1] \in Refs, s[1] # plan[u].ref PROVE FALSE
      <3>1. s \notin Entitled(u)
        BY <2>8 DEF Entitled, TypeOK
      <3>2. Returned(u)[s] \in GrantRows
        BY SyncTyped DEF GrantTable
      <3>3. g[s] = [Returned(u)[s] EXCEPT !.remaining = 0]
        BY <2>8, <3>1 DEF Synced, Granted, Voided
      <3>4. g[s].remaining = 0
        BY <3>2, <3>3 DEF GrantRows
      <3> QED BY <2>7, <3>4
    <2> QED BY <2>7, <2>8
  <1> QED BY <1>1, TypeCorrect, PTL DEF Spec, StaleNeverSpent

-----------------------------------------------------------------------------
(* Sums, counted unit by unit.                                             *)

LEMMA Unit ==
  ASSUME NEW S, NEW f \in [S -> Nat], NEW s \in S
  PROVE  IsFiniteSet({s} \X (1..f[s])) /\ Cardinality({s} \X (1..f[s])) = f[s]
  <1>1. f[s] \in Nat
    OBVIOUS
  <1>2. IsFiniteSet(1..f[s]) /\ Cardinality(1..f[s]) = f[s]
    BY <1>1, FS_Interval
  <1>3. IsFiniteSet({s}) /\ Cardinality({s}) = 1
    BY FS_Singleton
  <1>4. /\ IsFiniteSet({s} \X (1..f[s]))
        /\ Cardinality({s} \X (1..f[s])) = Cardinality({s}) * Cardinality(1..f[s])
    BY <1>2, <1>3, FS_Product
  <1> QED BY <1>1, <1>2, <1>3, <1>4

LEMMA UnitsFinite ==
  ASSUME NEW S, IsFiniteSet(S), NEW f \in [S -> Nat]
  PROVE  IsFiniteSet(UNION {{s} \X (1..f[s]) : s \in S})
  <1> DEFINE T == {{s} \X (1..f[s]) : s \in S}
             h == [s \in S |-> {s} \X (1..f[s])]
  <1>1. h \in Surjection(S, T)
    BY DEF Surjection
  <1>2. IsFiniteSet(T)
    BY <1>1, FS_Surjection
  <1>3. \A t \in T : IsFiniteSet(t)
    BY Unit
  <1> QED BY <1>2, <1>3, FS_UNION

\* A sum changes by what one of its terms changes by.
LEMMA SumChanges ==
  ASSUME NEW S, IsFiniteSet(S), NEW f \in [S -> Nat], NEW h \in [S -> Nat],
         NEW x \in S, \A y \in S \ {x} : h[y] = f[y]
  PROVE  Sum(h, S) = Sum(f, S) - f[x] + h[x] /\ Sum(f, S) \in Nat
  <1> DEFINE Units(e) == UNION {{s} \X (1..e[s]) : s \in S}
             Rest == UNION {{s} \X (1..f[s]) : s \in S \ {x}}
  <1>1. Rest = UNION {{s} \X (1..h[s]) : s \in S \ {x}}
    OBVIOUS
  <1>2. ASSUME NEW e \in [S -> Nat], Rest = UNION {{s} \X (1..e[s]) : s \in S \ {x}}
        PROVE  IsFiniteSet(Rest) /\ Cardinality(Units(e)) = Cardinality(Rest) + e[x]
    <2> DEFINE X == {x} \X (1..e[x])
    <2>1. Units(e) = Rest \cup X /\ Rest \cap X = {}
      BY <1>2
    <2>2. IsFiniteSet(Units(e))
      BY UnitsFinite
    <2>3. IsFiniteSet(Rest) /\ Cardinality(Rest) \in Nat
      BY <2>1, <2>2, FS_Subset, FS_CardinalityType
    <2>4. IsFiniteSet(X) /\ Cardinality(X) = e[x] /\ e[x] \in Nat
      BY Unit
    <2>5. Cardinality(Rest \cup X) = Cardinality(Rest) + Cardinality(X) - Cardinality(Rest \cap X)
      BY <2>3, <2>4, FS_Union
    <2>6. Cardinality(Rest \cap X) = 0
      BY <2>1, FS_EmptySet
    <2> HIDE DEF Rest, X, Units
    <2> QED BY <2>1, <2>3, <2>4, <2>5, <2>6
  <1>3. Cardinality(Units(f)) = Cardinality(Rest) + f[x] /\ IsFiniteSet(Rest)
    BY <1>2
  <1>4. Cardinality(Units(h)) = Cardinality(Rest) + h[x]
    BY <1>1, <1>2
  <1>5. Sum(f, S) = Cardinality(Units(f)) /\ Sum(h, S) = Cardinality(Units(h))
    BY DEF Sum
  <1>6. Cardinality(Rest) \in Nat
    BY <1>3, FS_CardinalityType
  <1> HIDE DEF Rest, Units
  <1>7. f[x] \in Nat /\ h[x] \in Nat
    OBVIOUS
  <1> QED BY <1>3, <1>4, <1>5, <1>6, <1>7

LEMMA SumTyped ==
  ASSUME NEW S, IsFiniteSet(S), NEW f \in [S -> Nat]
  PROVE  Sum(f, S) \in Nat
  BY UnitsFinite, FS_CardinalityType DEF Sum

LEMMA SumOfNothing ==
  ASSUME NEW S, NEW f, \A s \in S : f[s] = 0
  PROVE  Sum(f, S) = 0
  <1>1. \A s \in S : {s} \X (1..f[s]) = {}
    OBVIOUS
  <1>2. UNION {{s} \X (1..f[s]) : s \in S} = {}
    BY <1>1
  <1> QED BY <1>2, FS_EmptySet DEF Sum

-----------------------------------------------------------------------------
(* The daily budget.                                                       *)

\* A request that was not sent has no cost; an open one is accounted for with
\* its whole reservation, on the day it was made.
Priced ==
  \A u \in Users, i \in Ids :
    /\ cost[u][i].calls = 0 => cost[u][i].credits = 0
    /\ req[u][i].state = "reserved" =>
         cost[u][i].calls = 1 /\ cost[u][i].day = req[u][i].day /\ cost[u][i].credits = req[u][i].reserved

BudgetInv == WalletInv /\ Priced /\ BudgetExact

LEMMA Terms ==
  ASSUME TypeOK, NEW d \in Days
  PROVE  /\ CostOn(d) \in [Users \X Ids -> Nat] /\ IsFiniteSet(Users \X Ids)
         /\ TurnsOn(d) \in [Guests -> Nat] /\ IsFiniteSet(Guests)
  <1>1. \A p \in Users \X Ids : cost[p[1]][p[2]].credits \in Nat
    BY DEF TypeOK
  <1>2. \A g \in Guests : trial[g][d] \in Nat
    BY WalletAssumption DEF TypeOK
  <1>3. IsFiniteSet(Users \X Ids) /\ IsFiniteSet(Guests)
    BY WalletAssumption, FS_Product
  <1> QED BY <1>1, <1>2, <1>3 DEF CostOn, TurnsOn

\* Steps that leave the costs and the budget alone.
LEMMA BudgetFrame ==
  ASSUME BudgetInv, UNCHANGED <<budget, trial, cost, drifted>>,
         \A v \in Users, j \in Ids : req'[v][j].state = "reserved" =>
           /\ req[v][j].state = "reserved"
           /\ req'[v][j].day = req[v][j].day /\ req'[v][j].reserved = req[v][j].reserved
  PROVE  Priced' /\ BudgetExact'
  <1>1. Priced'
    BY DEF BudgetInv, Priced
  <1>2. \A d \in Days : CostOn(d)' = CostOn(d) /\ TurnsOn(d)' = TurnsOn(d)
    BY DEF CostOn, TurnsOn
  <1> QED BY <1>1, <1>2 DEF BudgetInv, BudgetExact

\* A row that timed out is no longer reserved; the others stay as they are.
LEMMA ExpiredKept ==
  ASSUME TypeOK, NEW u \in Users, NEW i \in Ids, Expired(u)[i].state = "reserved"
  PROVE  Expired(u)[i] = req[u][i]
  <1>1. req[u][i] \in RequestRows
    BY DEF TypeOK
  <1> QED BY <1>1 DEF Expired, RequestRows

LEMMA BudgetSync ==
  ASSUME BudgetInv, UNCHANGED <<budget, trial, cost, drifted>>,
         NEW u \in Users, req' = [req EXCEPT ![u] = Expired(u)]
  PROVE  Priced' /\ BudgetExact'
  <1>1. TypeOK
    BY DEF BudgetInv, WalletInv
  <1>2. ASSUME NEW v \in Users, NEW j \in Ids, req'[v][j].state = "reserved"
        PROVE  req'[v][j] = req[v][j]
    <2>1. req'[v][j] = IF v = u THEN Expired(u)[j] ELSE req[v][j]
      BY <1>1 DEF TypeOK
    <2> QED BY <1>1, <1>2, <2>1, ExpiredKept
  <1> QED BY <1>2, BudgetFrame

\* A sum after one of its terms changed.
Moved(after, before, old, new) == after = before - old + new

\* The cost of one request changes.
LEMMA CostChanges ==
  ASSUME TypeOK, TypeOK', NEW u \in Users, NEW i \in Ids, NEW d \in Days,
         \A v \in Users, j \in Ids : <<v, j>> # <<u, i>> => cost'[v][j] = cost[v][j],
         NEW h, h = CostOn(d)'
  PROVE  /\ Moved(Sum(h, Users \X Ids), Sum(CostOn(d), Users \X Ids), CostOn(d)[<<u, i>>], h[<<u, i>>])
         /\ Sum(CostOn(d), Users \X Ids) \in Nat
         /\ CostOn(d)[<<u, i>>] = IF cost[u][i].day = d THEN cost[u][i].credits ELSE 0
         /\ h[<<u, i>>] = IF cost'[u][i].day = d THEN cost'[u][i].credits ELSE 0
  <1> DEFINE P == Users \X Ids
             x == <<u, i>>
             f == CostOn(d)
  <1>1. f \in [P -> Nat] /\ IsFiniteSet(P)
    BY Terms
  <1>2. h \in [P -> Nat]
    <2>1. \A p \in P : cost'[p[1]][p[2]].credits \in Nat
      BY DEF TypeOK
    <2> QED BY <2>1 DEF CostOn
  <1>3. ASSUME NEW y \in P \ {x} PROVE h[y] = f[y]
    <2>1. y = <<y[1], y[2]>> /\ y[1] \in Users /\ y[2] \in Ids
      OBVIOUS
    <2>2. cost'[y[1]][y[2]] = cost[y[1]][y[2]]
      BY <1>3, <2>1
    <2> QED BY <2>2 DEF CostOn
  <1>4. x \in P
    OBVIOUS
  <1>5. f[x] = (IF cost[u][i].day = d THEN cost[u][i].credits ELSE 0)
    BY DEF CostOn
  <1>6. h[x] = (IF cost'[u][i].day = d THEN cost'[u][i].credits ELSE 0)
    BY DEF CostOn
  <1> HIDE DEF f, P, x
  <1>8. Sum(h, P) = Sum(f, P) - f[x] + h[x] /\ Sum(f, P) \in Nat
    BY <1>1, <1>2, <1>3, <1>4, SumChanges
  <1> QED BY <1>5, <1>6, <1>8 DEF f, P, x, Moved

LEMMA BudgetReserve ==
  ASSUME BudgetInv, TypeOK', NEW u \in Users, NEW i \in Ids, Reserve(u, i)
  PROVE  Priced' /\ BudgetExact'
  <1> USE WalletAssumption
  <1>1. PICK n \in Sizes :
          /\ \E f \in Takes(Synced(u), Spendable(u, Synced(u)), n) :
               req' = [req EXCEPT ![u] = [Expired(u) EXCEPT ![i] =
                 [state |-> "reserved", alloc |-> Extend(f, Spendable(u, Synced(u))), reserved |-> n,
                  day |-> now, old |-> FALSE]]]
          /\ budget' = [budget EXCEPT ![now] = @ + n]
          /\ cost' = [cost EXCEPT ![u][i] = [calls |-> @.calls + 1, day |-> now, credits |-> n]]
    BY DEF Reserve
  <1>2. PICK a : req' = [req EXCEPT ![u] = [Expired(u) EXCEPT ![i] =
                   [state |-> "reserved", alloc |-> a, reserved |-> n, day |-> now, old |-> FALSE]]]
    BY <1>1
  <1>3. TypeOK /\ AccountInv(u) /\ UNCHANGED <<trial, drifted>> /\ req[u][i].state = "none" /\ ~closed[u]
    BY DEF BudgetInv, WalletInv, Reserve, IsNew
  <1>4. /\ \A v \in Users, j \in Ids : <<v, j>> # <<u, i>> => cost'[v][j] = cost[v][j]
        /\ cost'[u][i] = [calls |-> cost[u][i].calls + 1, day |-> now, credits |-> n]
        /\ cost[u][i] \in [calls : Nat, day : Days, credits : Nat]
    BY <1>1, <1>3 DEF TypeOK
  <1>5. cost[u][i].calls = 0 /\ cost[u][i].credits = 0
    BY <1>3 DEF BudgetInv, Priced, AccountInv, Sound
  <1>6. Priced'
    <2> SUFFICES ASSUME NEW v \in Users, NEW j \in Ids
                 PROVE /\ cost'[v][j].calls = 0 => cost'[v][j].credits = 0
                       /\ req'[v][j].state = "reserved" =>
                            /\ cost'[v][j].calls = 1
                            /\ cost'[v][j].day = req'[v][j].day /\ cost'[v][j].credits = req'[v][j].reserved
      BY DEF Priced
    <2>1. Expired(u) \in [Ids -> RequestRows]
      BY <1>3, SyncTyped
    <2>2. CASE v = u /\ j = i
      <3>1. req'[u][i] = [state |-> "reserved", alloc |-> a, reserved |-> n, day |-> now, old |-> FALSE]
        BY <1>2, <1>3, <2>1 DEF TypeOK
      <3> QED BY <1>4, <1>5, <2>2, <3>1
    <2>3. CASE v = u /\ j # i
      <3>1. req'[u][j] = Expired(u)[j] /\ cost'[u][j] = cost[u][j]
        BY <1>2, <1>3, <1>4, <2>1, <2>3 DEF TypeOK
      <3> QED BY <1>3, <2>3, <3>1, ExpiredKept DEF BudgetInv, Priced
    <2>4. CASE v # u
      <3>1. req'[v][j] = req[v][j] /\ cost'[v][j] = cost[v][j]
        BY <1>2, <1>3, <1>4, <2>4 DEF TypeOK
      <3> QED BY <3>1 DEF BudgetInv, Priced
    <2> QED BY <2>2, <2>3, <2>4
  <1>7. ASSUME NEW d \in Days \ drifted
        PROVE  budget'[d] = Sum(CostOn(d), Users \X Ids)' + TrialCost * Sum(TurnsOn(d), Guests)'
    <2>1. budget[d] = Sum(CostOn(d), Users \X Ids) + TrialCost * Sum(TurnsOn(d), Guests)
      BY DEF BudgetInv, BudgetExact
    <2>2. Sum(TurnsOn(d), Guests)' = Sum(TurnsOn(d), Guests)
      BY <1>3 DEF TurnsOn, Sum
    <2>3. budget'[d] = IF d = now THEN budget[d] + n ELSE budget[d]
      BY <1>1, <1>3 DEF TypeOK
    <2> DEFINE before == Sum(CostOn(d), Users \X Ids)
               h == CostOn(d)'
               after == Sum(h, Users \X Ids)
               turns == TrialCost * Sum(TurnsOn(d), Guests)
    <2>4. Moved(after, before, CostOn(d)[<<u, i>>], h[<<u, i>>]) /\ before \in Nat
      <3>1. h = CostOn(d)'
        OBVIOUS
      <3> HIDE DEF h
      <3> QED BY <1>3, <1>4, <3>1, CostChanges
    <2>5. CostOn(d)[<<u, i>>] = 0 /\ h[<<u, i>>] = IF now = d THEN n ELSE 0
      <3>1. h = CostOn(d)'
        OBVIOUS
      <3> HIDE DEF h
      <3> QED BY <1>3, <1>4, <1>5, <3>1, CostChanges
    <2>6. n \in Nat /\ budget[d] \in Int
      BY <1>3 DEF TypeOK
    <2>7. after = IF d = now THEN before + n ELSE before
      <3> HIDE DEF before, after, h
      <3> QED BY <2>4, <2>5, <2>6 DEF Moved
    <2>8. turns \in Int
      <3>1. Sum(TurnsOn(d), Guests) \in Nat
        BY <1>3, SumTyped, Terms
      <3> QED BY <3>1
    <2>9. budget[d] = before + turns
      BY <2>1
    <2> HIDE DEF before, after, h, turns
    <2>10. budget'[d] = after + turns
      BY <2>3, <2>4, <2>6, <2>7, <2>8, <2>9
    <2>11. Sum(CostOn(d), Users \X Ids)' = after
      BY DEF after, h, Sum
    <2> QED BY <2>2, <2>10, <2>11 DEF turns
  <1> QED BY <1>3, <1>6, <1>7 DEF BudgetExact

LEMMA BudgetSettle ==
  ASSUME BudgetInv, TypeOK', NEW u \in Users, NEW i \in Ids, SettleAnswered(u, i)
  PROVE  Priced' /\ BudgetExact'
  <1> USE WalletAssumption
  <1> DEFINE n == req[u][i].reserved
             day == req[u][i].day
  <1>1. PICK o \in Outcomes(n) :
          /\ budget' = [budget EXCEPT ![day] = IF o.cost > n THEN Ceiling
                                               ELSE IF o.known THEN @ - (n - o.cost) ELSE @]
          /\ drifted' = IF o.cost > n THEN drifted \cup {day} ELSE drifted
          /\ cost' = [cost EXCEPT ![u][i].credits = o.cost]
    BY DEF SettleAnswered, BudgetDay
  <1>2. /\ TypeOK /\ UNCHANGED trial /\ req[u][i].state = "reserved"
        /\ req' = [req EXCEPT ![u][i].state = "complete", ![u][i].old = FALSE]
    BY DEF BudgetInv, WalletInv, SettleAnswered, OpenToSettle
  <1>3. req[u][i] \in RequestRows /\ n \in Nat /\ day \in Days
    BY <1>2 DEF TypeOK, RequestRows
  <1>4. o.cost \in Nat /\ (~o.known => o.cost = n)
    <2> HIDE DEF n
    <2>1. o.cost \in Nat
      BY <1>3, OutcomeFacts
    <2>2. (\E c, m : o = [charge |-> m, cost |-> c, known |-> TRUE]) \/ o = [charge |-> n, cost |-> n, known |-> FALSE]
      BY DEF Outcomes
    <2>3. o.known = TRUE \/ o.cost = n
      BY <2>2
    <2> QED BY <2>1, <2>3
  <1>5. /\ \A v \in Users, j \in Ids : <<v, j>> # <<u, i>> => cost'[v][j] = cost[v][j]
        /\ cost'[u][i] = [cost[u][i] EXCEPT !.credits = o.cost]
        /\ cost[u][i] \in [calls : Nat, day : Days, credits : Nat]
    BY <1>1, <1>2 DEF TypeOK
  <1>6. cost[u][i].day = day /\ cost[u][i].credits = n
    BY <1>2 DEF BudgetInv, Priced
  <1>7. cost'[u][i].day = day /\ cost'[u][i].credits = o.cost /\ cost'[u][i].calls = cost[u][i].calls
    BY <1>5, <1>6
  <1>8. Priced'
    <2> SUFFICES ASSUME NEW v \in Users, NEW j \in Ids
                 PROVE /\ cost'[v][j].calls = 0 => cost'[v][j].credits = 0
                       /\ req'[v][j].state = "reserved" =>
                            /\ cost'[v][j].calls = 1
                            /\ cost'[v][j].day = req'[v][j].day /\ cost'[v][j].credits = req'[v][j].reserved
      BY DEF Priced
    <2>1. CASE v = u /\ j = i
      <3>1. req'[u][i].state = "complete"
        BY <1>2, <1>3 DEF TypeOK, RequestRows
      <3>2. cost[u][i].calls = 1
        BY <1>2 DEF BudgetInv, Priced
      <3> QED BY <1>7, <2>1, <3>1, <3>2
    <2>2. CASE <<v, j>> # <<u, i>>
      <3>1. req'[v][j] = req[v][j] /\ cost'[v][j] = cost[v][j]
        BY <1>2, <1>5, <2>2 DEF TypeOK
      <3> QED BY <3>1 DEF BudgetInv, Priced
    <2> QED BY <2>1, <2>2
  <1>9. ASSUME NEW d \in Days \ drifted'
        PROVE  budget'[d] = Sum(CostOn(d), Users \X Ids)' + TrialCost * Sum(TurnsOn(d), Guests)'
    <2>1. d \in Days \ drifted /\ (d = day => o.cost <= n)
      BY <1>1, <1>3, <1>4
    <2>2. budget[d] = Sum(CostOn(d), Users \X Ids) + TrialCost * Sum(TurnsOn(d), Guests)
      BY <2>1 DEF BudgetInv, BudgetExact
    <2>3. Sum(TurnsOn(d), Guests)' = Sum(TurnsOn(d), Guests)
      BY <1>2 DEF TurnsOn, Sum
    <2>4. budget[d] \in Int
      BY <1>2 DEF TypeOK
    <2>5. budget'[d] = IF d = day THEN budget[d] - (n - o.cost) ELSE budget[d]
      <3> HIDE DEF n, day
      <3>1. CASE d = day /\ o.known
        BY <1>1, <1>2, <1>3, <1>4, <2>1, <3>1 DEF TypeOK
      <3>2. CASE d = day /\ ~o.known
        BY <1>1, <1>2, <1>3, <1>4, <2>1, <2>4, <3>2 DEF TypeOK
      <3>3. CASE d # day
        BY <1>1, <1>2, <1>3, <3>3 DEF TypeOK
      <3> QED BY <3>1, <3>2, <3>3
    <2> DEFINE before == Sum(CostOn(d), Users \X Ids)
               h == CostOn(d)'
               after == Sum(h, Users \X Ids)
               turns == TrialCost * Sum(TurnsOn(d), Guests)
    <2>6. Moved(after, before, CostOn(d)[<<u, i>>], h[<<u, i>>]) /\ before \in Nat
      <3>1. h = CostOn(d)'
        OBVIOUS
      <3> HIDE DEF h
      <3> QED BY <1>2, <1>5, <3>1, CostChanges
    <2>7. /\ CostOn(d)[<<u, i>>] = IF day = d THEN n ELSE 0
          /\ h[<<u, i>>] = IF day = d THEN o.cost ELSE 0
      <3>1. h = CostOn(d)'
        OBVIOUS
      <3> HIDE DEF h
      <3> QED BY <1>2, <1>5, <1>6, <1>7, <3>1, CostChanges
    <2>8. after = IF d = day THEN before - n + o.cost ELSE before
      <3> HIDE DEF before, after, h, n, day
      <3> QED BY <1>3, <1>4, <2>6, <2>7 DEF Moved
    <2>9. budget[d] = before + turns
      BY <2>2
    <2>10. turns \in Int
      <3>1. Sum(TurnsOn(d), Guests) \in Nat
        BY <1>2, SumTyped, Terms
      <3> QED BY <3>1
    <2> HIDE DEF before, after, h, turns, n, day
    <2>11. budget'[d] = after + turns
      BY <1>3, <1>4, <2>4, <2>5, <2>6, <2>8, <2>9, <2>10
    <2>12. Sum(CostOn(d), Users \X Ids)' = after
      BY DEF after, h, Sum
    <2> QED BY <2>3, <2>11, <2>12 DEF turns
  <1> QED BY <1>8, <1>9 DEF BudgetExact

\* A guest's turn.
LEMMA BudgetTrial ==
  ASSUME BudgetInv, TypeOK', NEW g \in Guests, ReserveTrial(g)
  PROVE  Priced' /\ BudgetExact'
  <1> USE WalletAssumption
  <1>1. /\ TypeOK /\ UNCHANGED <<req, cost, drifted>>
        /\ trial' = [trial EXCEPT ![g][now] = @ + 1]
        /\ budget' = [budget EXCEPT ![now] = @ + TrialCost]
    BY DEF BudgetInv, WalletInv, ReserveTrial, ledger, history
  <1>2. Priced'
    BY <1>1 DEF BudgetInv, Priced
  <1>3. ASSUME NEW d \in Days \ drifted
        PROVE  budget'[d] = Sum(CostOn(d), Users \X Ids)' + TrialCost * Sum(TurnsOn(d), Guests)'
    <2>1. budget[d] = Sum(CostOn(d), Users \X Ids) + TrialCost * Sum(TurnsOn(d), Guests)
      BY DEF BudgetInv, BudgetExact
    <2>2. Sum(CostOn(d), Users \X Ids)' = Sum(CostOn(d), Users \X Ids)
      BY <1>1 DEF CostOn, Sum
    <2> DEFINE f == TurnsOn(d)
               h == TurnsOn(d)'
    <2>3. f \in [Guests -> Nat]
      BY <1>1, Terms
    <2>4. h \in [Guests -> Nat]
      <3>1. \A e \in Guests : trial'[e][d] \in Nat
        BY DEF TypeOK
      <3> QED BY <3>1 DEF TurnsOn
    <2>5. /\ \A e \in Guests \ {g} : h[e] = f[e]
          /\ h[g] = IF d = now THEN f[g] + 1 ELSE f[g]
      BY <1>1 DEF TurnsOn, TypeOK
    <2>6. Sum(TurnsOn(d), Guests)' = Sum(h, Guests)
      BY DEF Sum
    <2> HIDE DEF f, h
    <2>7. Sum(h, Guests) = Sum(f, Guests) - f[g] + h[g] /\ Sum(f, Guests) \in Nat
      BY <2>3, <2>4, <2>5, SumChanges
    <2>8. Sum(h, Guests) = IF d = now THEN Sum(f, Guests) + 1 ELSE Sum(f, Guests)
      BY <2>3, <2>5, <2>7
    <2>9. TrialCost * (Sum(f, Guests) + 1) = TrialCost * Sum(f, Guests) + TrialCost
      BY <2>7
    <2>10. budget'[d] = IF d = now THEN budget[d] + TrialCost ELSE budget[d]
      BY <1>1 DEF TypeOK
    <2>11. Sum(CostOn(d), Users \X Ids) \in Nat /\ TrialCost * Sum(f, Guests) \in Nat
      <3>1. Sum(CostOn(d), Users \X Ids) \in Nat
        BY <1>1, Terms, SumTyped
      <3> QED BY <2>7, <3>1
    <2>12. budget[d] = Sum(CostOn(d), Users \X Ids) + TrialCost * Sum(f, Guests)
      BY <2>1 DEF f
    <2>13. budget'[d] = Sum(CostOn(d), Users \X Ids) + TrialCost * Sum(h, Guests)
      BY <2>8, <2>9, <2>10, <2>11, <2>12
    <2> QED BY <2>2, <2>6, <2>13
  <1> QED BY <1>1, <1>2, <1>3 DEF BudgetExact

LEMMA BudgetInitially == Init => Priced /\ BudgetExact
  <1> SUFFICES ASSUME Init PROVE Priced /\ BudgetExact
    OBVIOUS
  <1>1. Priced
    BY DEF Init, Priced, NoRequest
  <1>2. ASSUME NEW d \in Days
        PROVE  budget[d] = Sum(CostOn(d), Users \X Ids) + TrialCost * Sum(TurnsOn(d), Guests)
    <2>1. \A p \in Users \X Ids : CostOn(d)[p] = 0
      BY DEF Init, CostOn
    <2>2. \A g \in Guests : TurnsOn(d)[g] = 0
      BY DEF Init, TurnsOn
    <2>3. Sum(CostOn(d), Users \X Ids) = 0 /\ Sum(TurnsOn(d), Guests) = 0
      BY <2>1, <2>2, SumOfNothing
    <2>4. budget[d] = 0
      BY DEF Init
    <2> QED BY <2>3, <2>4, WalletAssumption
  <1> QED BY <1>1, <1>2 DEF BudgetExact

LEMMA BudgetStep == BudgetInv /\ WalletInv' /\ [Next]_vars => Priced' /\ BudgetExact'
  <1> SUFFICES ASSUME BudgetInv, WalletInv', [Next]_vars PROVE Priced' /\ BudgetExact'
    OBVIOUS
  <1>0. TypeOK /\ TypeOK'
    BY DEF BudgetInv, WalletInv
  <1>1. ASSUME NEW u \in Users, NEW i \in Ids, Request(u, i) PROVE Priced' /\ BudgetExact'
    <2>1. CASE Reserve(u, i)
      BY <1>0, <2>1, BudgetReserve
    <2>2. CASE SettleAnswered(u, i)
      BY <1>0, <2>2, BudgetSettle
    <2>3. CASE Replay(u, i)
      BY <2>3, BudgetSync DEF Replay, history
    <2>4. CASE SettleFailed(u, i)
      <3>1. ASSUME NEW v \in Users, NEW j \in Ids
            PROVE  req'[v][j] = req[v][j] \/ req'[v][j].state = "failed"
        BY <1>0, <2>4 DEF SettleFailed, TypeOK, RequestRows
      <3> QED BY <2>4, <3>1, BudgetFrame DEF SettleFailed, history
    <2>5. CASE CallLost(u, i)
      BY <2>5, BudgetFrame DEF CallLost, ledger, history
    <2>6. CASE Ages(u, i)
      <3>1. ASSUME NEW v \in Users, NEW j \in Ids
            PROVE  /\ req'[v][j].state = req[v][j].state
                   /\ req'[v][j].day = req[v][j].day /\ req'[v][j].reserved = req[v][j].reserved
        <4>1. req[v][j] \in RequestRows
          BY <1>0 DEF TypeOK
        <4>2. req'[v][j] = req[v][j] \/ req'[v][j] = [req[v][j] EXCEPT !.old = TRUE]
          BY <1>0, <2>6 DEF Ages, TypeOK
        <4> QED BY <4>1, <4>2 DEF RequestRows
      <3> QED BY <2>6, <3>1, BudgetFrame DEF Ages, history
    <2> QED BY <1>1, <2>1, <2>2, <2>3, <2>4, <2>5, <2>6 DEF Request
  <1>2. ASSUME NEW u \in Users, Account(u) PROVE Priced' /\ BudgetExact'
    <2>1. CASE Status(u)
      BY <2>1, BudgetSync DEF Status, history
    <2>2. CASE AdminCredits(u) \/ PlanChanges(u)
      BY <2>2, BudgetFrame DEF AdminCredits, PlanChanges, ledger, history
    <2>3. CASE CloseAccount(u)
      <3>1. ASSUME NEW v \in Users, NEW j \in Ids
            PROVE  req'[v][j] = req[v][j] \/ req'[v][j].state = "none"
        BY <1>0, <2>3 DEF CloseAccount, TypeOK, NoRequest
      <3> QED BY <2>3, <3>1, BudgetFrame DEF CloseAccount, history
    <2> QED BY <1>2, <2>1, <2>2, <2>3 DEF Account
  <1>3. CASE \E g \in Guests : ReserveTrial(g)
    BY <1>0, <1>3, BudgetTrial
  <1>4. ASSUME \/ \E u \in Users : \/ \E r \in Topups : TopupPaid(u, r)
                                   \/ \E r \in Refs \cup Topups : RefundChanges(u, r)
               \/ Midnight
               \/ UNCHANGED vars
        PROVE Priced' /\ BudgetExact'
    BY <1>4, BudgetFrame DEF TopupPaid, RefundChanges, Midnight, vars, ledger, history
  <1> QED BY <1>1, <1>2, <1>3, <1>4 DEF Next

\* On a day without a wrong estimate the budget's row is what the day's calls
\* may have cost and what guests took, to the credit: for any number of
\* accounts, requests, guests and days, whenever calls end (reserve, settle and
\* reserve_trial).
THEOREM BudgetIsExact == Spec => []BudgetExact
  <1>1. Init => Priced /\ BudgetExact
    BY BudgetInitially
  <1>2. (WalletInv /\ Priced /\ BudgetExact) /\ WalletInv' /\ [Next]_vars => (Priced /\ BudgetExact)'
    BY BudgetStep DEF BudgetInv
  <1> QED BY <1>1, <1>2, Inductive, PTL DEF Spec
=============================================================================
