-------------------------- MODULE AssistantWallet --------------------------
(***************************************************************************)
(* The assistant's prepaid credits (assistant_wallet.py): dated grants per *)
(* account, one reservation per provider call, and the daily budget that   *)
(* all accounts and guest trials share.                                    *)
(*                                                                         *)
(* A chat or image request reserves credits in one transaction, calls the  *)
(* provider without holding any lock, and settles in another transaction,  *)
(* if its process lives that long. Meanwhile the reservation may time out, *)
(* the plan may change, a refund may be asked for, the account may close   *)
(* and midnight may pass. Every transaction locks the account's row first  *)
(* and a refused one rolls back, so an operation is one step or none.      *)
(***************************************************************************)
EXTENDS Integers, FiniteSets, FiniteSetsExt

CONSTANTS
  Users,      \* verified accounts
  Ids,        \* request ids an account's client may send
  Refs,       \* purchase references of subscriptions
  Topups,     \* purchase references of credit packs
  Guests,     \* keyed address digests of anonymous visitors
  Credits,    \* credits of a "welcome", "plan", "topup" or "admin" grant
  Sizes,      \* credits a request may reserve (1..256 in the code)
  MaxCost,    \* bound: dearest answer of the provider, in credits
  Ceiling,    \* DAILY_CREDIT_CEILING (100000 in the code)
  TrialCost,  \* credits a guest turn takes from the budget (10 in the code)
  TrialTurns, \* guest turns a day (3 in the code)
  Period,     \* days of an allowance period (a month in the code)
  Validity,   \* days a welcome, pack or admin grant lasts (365 in the code)
  Horizon     \* bound: last day of the clock

ASSUME WalletAssumption ==
  /\ Credits \in [{"welcome", "plan", "topup", "admin"} -> Nat]
  /\ Sizes \subseteq Nat \ {0} /\ MaxCost \in Nat /\ Ceiling \in Nat
  /\ TrialCost \in Nat /\ TrialTurns \in Nat
  /\ Period \in Nat \ {0} /\ Validity \in Nat \ {0} /\ Horizon \in Nat
  /\ Refs \cap Topups = {}
  /\ {"welcome", "admin", "none"} \cap (Refs \cup Topups) = {}
  /\ IsFiniteSet(Users) /\ IsFiniteSet(Ids) /\ IsFiniteSet(Guests)

VARIABLES
  grant,    \* grant[u][s]: row of assistant_credit_grants
  req,      \* req[u][i]: row of assistant_credit_requests
  call,     \* call[u][i]: the API thread that made the provider call for i
  budget,   \* budget[d]: the day's row of assistant_daily_budget
  trial,    \* trial[g][d]: the guest's row of the same table
  plan,     \* plan[u]: the account's running subscription
  topups,   \* topups[u]: paid credit packs, with the day they were paid
  refund,   \* refund[u][r]: the refund request for purchase r
  closed,   \* closed[u]: the account was closed
  now,      \* the day
  spent,    \* history: credits of a grant that answers were charged to
  cost,     \* history: provider calls of a request and what they may have cost
  drifted   \* history: days on which an answer cost more than was reserved

ledger == <<grant, req>>
world == <<plan, topups, refund>>
history == <<spent, cost, drifted>>
vars == <<ledger, call, budget, trial, world, closed, now, history>>

Days == 0..Horizon
\* A grant is identified by its purchase reference and allowance period.
Sources == ({"welcome", "admin"} \X {0}) \cup (Refs \X Days) \cup (Topups \X {0})
NoGrant == [made |-> FALSE, credits |-> 0, remaining |-> 0, expires |-> 0]
Nothing == [s \in Sources |-> 0]
NoRequest == [state |-> "none", alloc |-> Nothing, reserved |-> 0, day |-> 0, old |-> FALSE]

GrantRows == [made : BOOLEAN, credits : Nat, remaining : Nat, expires : Nat]
RequestRows ==
  [state : {"none", "reserved", "complete", "failed"},
   alloc : [Sources -> Nat],   \* allocations_json
   reserved : Nat,
   day : Days,                 \* budget_day
   old : BOOLEAN]              \* reserved two, or answered fifteen, minutes ago

\* No day's budget exceeds the ceiling.
TypeOK ==
  /\ grant \in [Users -> [Sources -> GrantRows]]
  /\ req \in [Users -> [Ids -> RequestRows]]
  /\ call \in [Users -> [Ids -> {"idle", "calling"}]]
  /\ budget \in [Days -> {n \in Int : n <= Ceiling}]
  /\ trial \in [Guests -> [Days -> 0..TrialTurns]]
  /\ plan \in [Users -> [ref : Refs \cup {"none"}, starts : Days]]
  /\ topups \in [Users -> SUBSET [order : Topups, at : Days]]
  /\ refund \in [Users -> [Refs \cup Topups -> {"none", "open", "rejected", "completed"}]]
  /\ closed \in [Users -> BOOLEAN] /\ now \in Days
  /\ spent \in [Users -> [Sources -> Nat]]
  /\ cost \in [Users -> [Ids -> [calls : Nat, day : Days, credits : Nat]]]
  /\ drifted \subseteq Days

Init ==
  /\ grant = [u \in Users |-> [s \in Sources |-> NoGrant]]
  /\ req = [u \in Users |-> [i \in Ids |-> NoRequest]]
  /\ call = [u \in Users |-> [i \in Ids |-> "idle"]]
  /\ budget = [d \in Days |-> 0] /\ trial = [g \in Guests |-> [d \in Days |-> 0]]
  /\ plan = [u \in Users |-> [ref |-> "none", starts |-> 0]]
  /\ topups = [u \in Users |-> {}]
  /\ refund = [u \in Users |-> [r \in Refs \cup Topups |-> "none"]]
  /\ closed = [u \in Users |-> FALSE] /\ now = 0
  /\ spent = [u \in Users |-> Nothing]
  /\ cost = [u \in Users |-> [i \in Ids |-> [calls |-> 0, day |-> 0, credits |-> 0]]]
  /\ drifted = {}

-----------------------------------------------------------------------------
(* Grants: _expire_requests, then _sync, then _spendable.                  *)

Reserved(u) == {i \in Ids : req[u][i].state = "reserved"}
\* A reservation older than two minutes, whose worker counts as lost.
Late(u) == {i \in Reserved(u) : req[u][i].old}
\* At most one reservation is open (OneProviderCall), so this is all it holds of s.
Held(u, s) == IF Reserved(u) = {} THEN 0 ELSE req[u][CHOOSE i \in Reserved(u) : TRUE].alloc[s]

\* Credits that leave, or return to, the grants they were taken from.
Minus(g, f) == [s \in Sources |-> [g[s] EXCEPT !.remaining = @ - f[s]]]
Plus(g, f) == [s \in Sources |-> [g[s] EXCEPT !.remaining = @ + f[s]]]

\* _expire_requests: its credits return to their grants, the request has failed.
Lost(u) == [s \in Sources |-> IF Late(u) = {} THEN 0 ELSE Held(u, s)]
Returned(u) == Plus(grant[u], Lost(u))
Expired(u) ==
  [i \in Ids |-> IF i \in Late(u) THEN [req[u][i] EXCEPT !.state = "failed"] ELSE req[u][i]]

\* A refund request freezes its purchase unless it was rejected.
Blocked(u) == {r \in Refs \cup Topups : refund[u][r] \in {"open", "completed"}}

\* _subscription_usage_period_start of an annual subscription; a monthly one is
\* replaced or ends (PlanChanges) after its first period. Its allowance expires
\* with the period, or is voided with the subscription.
PeriodStart(u) == plan[u].starts + ((now - plan[u].starts) \div Period) * Period

\* Replaced and expired subscriptions leave no spendable allowance.
Voided(u, g) ==
  [s \in Sources |-> IF s[1] \in Refs /\ s[1] # plan[u].ref THEN [g[s] EXCEPT !.remaining = 0] ELSE g[s]]

\* The grants the account is entitled to today: the welcome one, the running
\* period of its subscription and the packs of the last year.
Entitled(u) ==
  {<<"welcome", 0>>}
  \cup (IF plan[u].ref \in Refs \ Blocked(u) THEN {<<plan[u].ref, PeriodStart(u)>>} ELSE {})
  \cup {<<t.order, 0>> : t \in {x \in topups[u] : x.at + Validity > now /\ x.order \notin Blocked(u)}}
NewGrant(kind, expires) ==
  [made |-> TRUE, credits |-> Credits[kind], remaining |-> Credits[kind], expires |-> expires]
\* _grant: a grant is made once, and only of a positive amount.
Granted(u, g) ==
  [s \in Sources |->
     IF g[s].made \/ s \notin Entitled(u) THEN g[s]
     ELSE CASE s[1] = "welcome" /\ Credits["welcome"] > 0 -> NewGrant("welcome", now + Validity)
            [] s[1] \in Refs /\ Credits["plan"] > 0 -> NewGrant("plan", s[2] + Period)
            [] s[1] \in Topups /\ Credits["topup"] > 0 ->
                 NewGrant("topup", (CHOOSE x \in topups[u] : x.order = s[1]).at + Validity)
            [] OTHER -> g[s]]

\* Mutant: allowances are voided before lost reservations are given back.
SyncedBeforeExpiry(u) == Plus(Granted(u, Voided(u, grant[u])), Lost(u))
Synced(u) == Granted(u, Voided(u, Returned(u)))

Spendable(u, g) ==
  {s \in Sources : /\ g[s].made /\ g[s].expires > now /\ g[s].remaining > 0
                   /\ s[1] \notin Blocked(u)}

-----------------------------------------------------------------------------
(* One request: reserve, the provider's call, settle.                      *)

\* The sum of f over S, counted unit by unit.
Sum(f, S) == Cardinality(UNION {{s} \X (1..f[s]) : s \in S})

\* The loop over the spendable grants: the one that expires first is drained
\* first; rows that expire together are ordered by a digest, that is anyhow.
Takes(g, S, n) ==
  {f \in [S -> 0..n] :
     /\ Sum(f, S) = n
     /\ \A s \in S : f[s] <= g[s].remaining
     /\ \A s, t \in S : f[s] > 0 /\ f[t] < g[t].remaining => g[s].expires <= g[t].expires
     /\ Cardinality({s \in S : 0 < f[s] /\ f[s] < g[s].remaining}) <= 1}
Extend(f, S) == [s \in Sources |-> IF s \in S THEN f[s] ELSE 0]

\* Mutant: an answer that left the cache makes the request new again.
IsNewOrForgotten(u, i) == req[u][i].state = "none" \/ req[u][i].old
\* No row for this request id: "same request never incurs a second provider call".
IsNew(u, i) == req[u][i].state = "none"

\* One provider request per account at a time, timed-out ones apart.
IsOnlyCall(u) == Reserved(u) = Late(u)

\* Mutant: the request itself is left out of the comparison.
WithinCeilingBefore(n) == budget[now] <= Ceiling
WithinCeiling(n) == budget[now] + n <= Ceiling

\* reserve, which commits before the provider is called.
Reserve(u, i) ==
  /\ ~closed[u] /\ IsNew(u, i) /\ IsOnlyCall(u)
  /\ \E n \in Sizes :
       LET g == Synced(u)
           S == Spendable(u, g)
       IN /\ WithinCeiling(n)
          /\ \E f \in Takes(g, S, n) :
               /\ grant' = [grant EXCEPT ![u] = Minus(g, Extend(f, S))]
               /\ req' = [req EXCEPT ![u] = [Expired(u) EXCEPT ![i] =
                    [state |-> "reserved", alloc |-> Extend(f, S), reserved |-> n, day |-> now, old |-> FALSE]]]
          /\ budget' = [budget EXCEPT ![now] = @ + n]
          /\ cost' = [cost EXCEPT ![u][i] = [calls |-> @.calls + 1, day |-> now, credits |-> n]]
  /\ call' = [call EXCEPT ![u][i] = "calling"]
  /\ UNCHANGED <<trial, world, closed, now, spent, drifted>>

\* reserve of a request answered less than fifteen minutes ago: the cached
\* answer is returned and only lost reservations are given back.
Replay(u, i) ==
  /\ ~closed[u] /\ req[u][i].state = "complete" /\ ~req[u][i].old
  /\ grant' = [grant EXCEPT ![u] = Returned(u)]
  /\ req' = [req EXCEPT ![u] = Expired(u)]
  /\ UNCHANGED <<call, budget, trial, world, closed, now, history>>

\* Mutant: a reservation that timed out is settled all the same.
OpenToSettleLate(u, i) == ~closed[u] /\ req[u][i].state \in {"reserved", "failed"}
OpenToSettle(u, i) == ~closed[u] /\ req[u][i].state = "reserved"

\* What an answer is charged and what it cost: a chat costs its tokens, an
\* image has a fixed price and a metered cost, or an unknown one.
Outcomes(n) ==
  {[charge |-> Min({n, c}), cost |-> c, known |-> TRUE] : c \in 1..MaxCost}
  \cup {[charge |-> n, cost |-> c, known |-> TRUE] : c \in 1..MaxCost}
  \cup {[charge |-> n, cost |-> n, known |-> FALSE]}

\* What is not charged goes back, to the grant that expires last first.
GivesBack(u, i, n) ==
  LET a == req[u][i].alloc
      S == {s \in Sources : a[s] > 0}
  IN {Extend(f, S) : f \in {h \in [S -> 0..n] :
       /\ Sum(h, S) = n
       /\ \A s \in S : h[s] <= a[s]
       /\ \A s, t \in S : h[s] > 0 /\ h[t] < a[t] => grant[u][s].expires >= grant[u][t].expires}}

\* Mutant: the refund goes to today's row.
BudgetDayToday(u, i) == now
BudgetDay(u, i) == req[u][i].day

\* settle with an answer.
SettleAnswered(u, i) ==
  /\ call[u][i] = "calling" /\ OpenToSettle(u, i)
  /\ \E o \in Outcomes(req[u][i].reserved) :
       LET n == req[u][i].reserved
           d == BudgetDay(u, i)
       IN /\ \E back \in GivesBack(u, i, n - o.charge) :
               /\ grant' = [grant EXCEPT ![u] = Plus(grant[u], back)]
               /\ spent' = [spent EXCEPT ![u] =
                    [s \in Sources |-> spent[u][s] + (req[u][i].alloc[s] - back[s])]]
          /\ budget' = [budget EXCEPT ![d] = IF o.cost > n THEN Ceiling
                                             ELSE IF o.known THEN @ - (n - o.cost) ELSE @]
          /\ drifted' = IF o.cost > n THEN drifted \cup {d} ELSE drifted
          /\ cost' = [cost EXCEPT ![u][i].credits = o.cost]
  /\ req' = [req EXCEPT ![u][i].state = "complete", ![u][i].old = FALSE]
  /\ call' = [call EXCEPT ![u][i] = "idle"]
  /\ UNCHANGED <<trial, world, closed, now>>

\* settle(unknown_cost=True) after an error: nothing is charged, and the whole
\* reservation stays in the day's budget.
SettleFailed(u, i) ==
  /\ call[u][i] = "calling" /\ OpenToSettle(u, i)
  /\ grant' = [grant EXCEPT ![u] = Plus(grant[u], req[u][i].alloc)]
  /\ req' = [req EXCEPT ![u][i].state = "failed"]
  /\ call' = [call EXCEPT ![u][i] = "idle"]
  /\ UNCHANGED <<budget, trial, world, closed, now, history>>

\* settle raises: the reservation timed out or the account is closed. The same
\* is left behind by a thread that is lost before it settles.
CallLost(u, i) ==
  /\ call[u][i] = "calling"
  /\ call' = [call EXCEPT ![u][i] = "idle"]
  /\ UNCHANGED <<ledger, budget, trial, world, closed, now, history>>

\* status, and admin_entitlements.
Status(u) ==
  /\ ~closed[u]
  /\ grant' = [grant EXCEPT ![u] = Synced(u)]
  /\ req' = [req EXCEPT ![u] = Expired(u)]
  /\ UNCHANGED <<call, budget, trial, world, closed, now, history>>

\* grant_credits by an administrator, once per request id.
AdminCredits(u) ==
  /\ ~closed[u] /\ ~grant[u][<<"admin", 0>>].made /\ Credits["admin"] > 0
  /\ grant' = [grant EXCEPT ![u][<<"admin", 0>>] = NewGrant("admin", now + Validity)]
  /\ UNCHANGED <<req, call, budget, trial, world, closed, now, history>>

\* reserve_trial: a guest's turn.
ReserveTrial(g) ==
  /\ trial[g][now] < TrialTurns /\ WithinCeiling(TrialCost)
  /\ trial' = [trial EXCEPT ![g][now] = @ + 1]
  /\ budget' = [budget EXCEPT ![now] = @ + TrialCost]
  /\ UNCHANGED <<ledger, call, world, closed, now, history>>

-----------------------------------------------------------------------------
(* What happens around the wallet.                                         *)

\* The running subscription begins, is replaced or ends (Purchases): one at a
\* time, and one that ended never runs again (PlanContract).
PlanChanges(u) ==
  /\ ~closed[u]
  /\ \E r \in (Refs \cup {"none"}) \ {plan[u].ref} :
       /\ \A d \in Days : r \in Refs => ~grant[u][<<r, d>>].made
       /\ plan' = [plan EXCEPT ![u] = [ref |-> r, starts |-> now]]
  /\ UNCHANGED <<ledger, call, budget, trial, topups, refund, closed, now, history>>

TopupPaid(u, r) ==
  /\ ~closed[u] /\ \A t \in topups[u] : t.order # r
  /\ topups' = [topups EXCEPT ![u] = @ \cup {[order |-> r, at |-> now]}]
  /\ UNCHANGED <<ledger, call, budget, trial, plan, refund, closed, now, history>>

\* create_refund_request and decide_refund_request, one request per purchase.
RefundChanges(u, r) ==
  /\ \/ /\ refund[u][r] = "none" /\ ~closed[u]
        /\ r = plan[u].ref \/ \E t \in topups[u] : t.order = r
        /\ refund' = [refund EXCEPT ![u][r] = "open"]
     \/ /\ refund[u][r] = "open"
        /\ \E decision \in {"rejected", "completed"} : refund' = [refund EXCEPT ![u][r] = decision]
  /\ UNCHANGED <<ledger, call, budget, trial, plan, topups, closed, now, history>>

\* close_account, within the closure's transaction.
CloseAccount(u) ==
  /\ ~closed[u]
  /\ closed' = [closed EXCEPT ![u] = TRUE]
  /\ grant' = [grant EXCEPT ![u] = [s \in Sources |-> NoGrant]]
  /\ req' = [req EXCEPT ![u] = [i \in Ids |-> NoRequest]]
  /\ UNCHANGED <<call, budget, trial, world, now, history>>

\* Two minutes pass since a reservation, or fifteen since an answered request.
Ages(u, i) ==
  /\ req[u][i].state \in {"reserved", "complete"} /\ ~req[u][i].old
  /\ req' = [req EXCEPT ![u][i].old = TRUE]
  /\ UNCHANGED <<grant, call, budget, trial, world, closed, now, history>>

Midnight ==
  /\ now < Horizon /\ now' = now + 1
  /\ UNCHANGED <<ledger, call, budget, trial, world, closed, history>>

-----------------------------------------------------------------------------
Request(u, i) == \/ Reserve(u, i) \/ Replay(u, i) \/ SettleAnswered(u, i)
                 \/ SettleFailed(u, i) \/ CallLost(u, i) \/ Ages(u, i)
Account(u) == Status(u) \/ AdminCredits(u) \/ PlanChanges(u) \/ CloseAccount(u)

Next ==
  \/ \E u \in Users : \/ Account(u)
                      \/ \E i \in Ids : Request(u, i)
                      \/ \E r \in Topups : TopupPaid(u, r)
                      \/ \E r \in Refs \cup Topups : RefundChanges(u, r)
  \/ \E g \in Guests : ReserveTrial(g)
  \/ Midnight

Spec == Init /\ [][Next]_vars

-----------------------------------------------------------------------------
(* Properties.                                                             *)

(* No credit is made or given back twice: what a grant still holds, what a *)
(* running request holds of it and what answers were charged never exceed  *)
(* it, and of a welcome, pack or admin grant not one credit is lost either,*)
(* whatever timeouts, late answers, refunds and plan changes occur.        *)
CreditsConserved ==
  \A u \in Users, s \in Sources :
    grant[u][s].made =>
      LET total == grant[u][s].remaining + Held(u, s) + spent[u][s]
      IN total <= grant[u][s].credits /\ (s[1] \notin Refs => total = grant[u][s].credits)

(* "Same request never incurs a second provider call", and an account has  *)
(* one open reservation at a time, though a request is repeated after its  *)
(* answer left the cache or its reservation timed out.                     *)
OneProviderCall ==
  \A u \in Users : /\ Cardinality(Reserved(u)) <= 1
                   /\ \A i \in Ids : cost[u][i].calls <= 1

\* What each request's call may have cost on day d, and the guests' turns.
CostOn(d) == [p \in Users \X Ids |-> IF cost[p[1]][p[2]].day = d THEN cost[p[1]][p[2]].credits ELSE 0]
TurnsOn(d) == [g \in Guests |-> trial[g][d]]

(* Unless an estimate was wrong that day, a day's budget row is exactly    *)
(* what its answers cost, plus the whole reservation of every request that *)
(* is open, failed, timed out or was erased, plus the guests' turns: calls *)
(* that end on another day, or never, do not distort it.                   *)
BudgetExact ==
  \A d \in Days \ drifted : budget[d] = Sum(CostOn(d), Users \X Ids) + TrialCost * Sum(TurnsOn(d), Guests)

(* An allowance of a subscription that was replaced, or of a purchase      *)
(* whose refund is open, is never reserved, though a request that began    *)
(* before gives its credits back to it afterwards.                         *)
StaleNeverSpent ==
  [][\A u \in Users, i \in Ids, s \in Sources :
       IsNew(u, i) /\ req'[u][i].state = "reserved" /\ req'[u][i].alloc[s] > 0
         => s[1] \notin Blocked(u) /\ (s[1] \in Refs => s[1] = plan[u].ref)]_vars
=============================================================================
