-------------------------- MODULE PurchasesProofs --------------------------
(***************************************************************************)
(* Proofs about Purchases for every number of orders, packages, handlers   *)
(* and instants: one activation per paid order, on proof, none after an    *)
(* order is dead; one active row, no overlapping periods, nothing in force *)
(* again once it ended (PlanContract); one discount per coupon; and, if no *)
(* transaction waits, no paid day lost.                                    *)
(***************************************************************************)
EXTENDS Purchases, FiniteSetTheorems, TLAPS

-----------------------------------------------------------------------------
(* The last of finitely many periods.                                      *)

\* A nonempty set of finitely many rows has one that ends last: a smallest set
\* without one would still lack it after losing an element.
LEMMA LatestExists ==
  ASSUME NEW U, IsFiniteSet(U), NEW e, \A u \in U : e[u] \in Nat, NEW S \in SUBSET U, S # {}
  PROVE  \E s \in S : \A t \in S : e[t] <= e[s]
<1> DEFINE Good(A) == \E s \in A : \A t \in A : e[t] <= e[s]
           Bad == {A \in SUBSET U : A # {} /\ ~Good(A)}
<1>1. SUFFICES ASSUME Bad # {} PROVE FALSE
  OBVIOUS
<1>2. IsWellFoundedOn(StrictSubsetOrdering(U), SUBSET U)
  BY FS_StrictSubsetOrderingWellFounded, FS_FiniteSubsetsOfFinite
<1>3. PICK A \in Bad : \A B \in Bad : ~(<<B, A>> \in StrictSubsetOrdering(U))
  <2>1. Bad \subseteq SUBSET U
    OBVIOUS
  <2> HIDE DEF Bad
  <2>2. QED
    BY <1>1, <1>2, <2>1, WFMin
<1>4. PICK a \in A : TRUE
  OBVIOUS
<1> DEFINE B == A \ {a}
<1>5. B \in SUBSET U /\ <<B, A>> \in StrictSubsetOrdering(U)
  BY <1>4 DEF StrictSubsetOrdering
<1>6. B \notin Bad
  BY <1>3, <1>5
<1>7. CASE B = {}
  <2>1. \A t \in A : t = a
    BY <1>7
  <2>2. e[a] <= e[a]
    BY <1>4
  <2>3. Good(A)
    BY <1>4, <2>1, <2>2
  <2>4. QED
    BY <2>3
<1>8. CASE Good(B)
  <2>1. PICK s \in B : \A t \in B : e[t] <= e[s]
    BY <1>8
  <2>2. e[s] \in Nat /\ e[a] \in Nat
    BY <1>4, <2>1
  <2>3. CASE e[a] <= e[s]
    <3>1. \A t \in A : e[t] <= e[s]
      BY <2>1, <2>3
    <3>2. QED
      BY <2>1, <3>1
  <2>4. CASE e[s] <= e[a]
    <3>1. \A t \in A : e[t] <= e[a]
      <4> TAKE t \in A
      <4>1. CASE t = a
        BY <2>2, <4>1
      <4>2. CASE t # a
        BY <2>1, <2>2, <2>4, <4>2
      <4>3. QED
        BY <4>1, <4>2
    <3>2. QED
      BY <1>4, <3>1
  <2>5. QED
    BY <2>2, <2>3, <2>4
<1>9. QED
  BY <1>5, <1>6, <1>7, <1>8

\* A renewal starts when the last open period ends.
LEMMA RenewalAfterOpen ==
  ASSUME TypeOK, NEW at \in Nat, OpenAt(at) # {}
  PROVE  /\ RenewalStart(at) \in Nat /\ \A s \in OpenAt(at) : period[s].ends <= RenewalStart(at)
         /\ \E s \in OpenAt(at) : period[s].ends = RenewalStart(at)
<1> DEFINE e == [s \in Sources |-> period[s].ends]
           Ends == {period[s].ends : s \in OpenAt(at)}
<1>1. \A s \in Sources : e[s] \in Nat /\ e[s] = period[s].ends
  BY DEF TypeOK, PeriodRecords
<1>2. IsFiniteSet(Sources)
  BY PurchaseAssumption, FS_AddElement DEF Sources
<1>3. OpenAt(at) \in SUBSET Sources
  BY DEF OpenAt
<1>4. PICK s \in OpenAt(at) : \A t \in OpenAt(at) : e[t] <= e[s]
  <2> HIDE DEF e
  <2>1. QED
    BY <1>1, <1>2, <1>3, LatestExists
<1>5. e[s] \in Ends /\ \A x \in Ends : e[s] >= x /\ x \in Nat
  BY <1>1, <1>3, <1>4
<1>6. Max(Ends) \in Ends /\ \A x \in Ends : Max(Ends) >= x
  BY <1>5 DEF Max
<1>7. QED
  BY <1>3, <1>5, <1>6 DEF RenewalStart

\* A transaction began at an instant that has come.
LEMMA BeganBefore == ASSUME TypeOK, NEW at \in Began PROVE at \in Nat /\ now \in Nat /\ at <= now
BY PurchaseAssumption DEF Began, TypeOK

-----------------------------------------------------------------------------
(* Type correctness. Besides its type, a busy handler must be known to be  *)
(* applying the answer for a real iyzico order: that is AskInv.            *)

\* A busy handler applies an answer it heard about an existing iyzico order;
\* orders that do not exist have no channel, and only bank transfers are rejected.
AskInv ==
  /\ \A o \in Orders : /\ order[o].status = "absent" => order[o].channel = "none"
                       /\ order[o].status = "rejected" => order[o].channel = "manual"
  /\ \A h \in Handlers : ask[h].step # "idle" =>
       /\ ask[h].order \in Orders /\ order[ask[h].order].channel = "iyzico"
       /\ ask[h].answer \in Answers

Statuses == {"absent", "created", "pending", "paid", "failed", "token_failed",
             "cancelled", "rejected"}

\* A row keeps its type when its status or its method is written.
LEMMA RowTyped ==
  ASSUME NEW r \in OrderRecords, NEW st \in Statuses, NEW m \in Methods
  PROVE  [r EXCEPT !.status = st] \in OrderRecords /\ [r EXCEPT !.method = m] \in OrderRecords
<1>1. [r EXCEPT !.status = st] \in OrderRecords
  BY DEF OrderRecords, Statuses
<1>2. [r EXCEPT !.method = m] \in OrderRecords
  BY DEF OrderRecords
<1>3. QED
  BY <1>1, <1>2

\* So does the table, whichever row's status is written,
LEMMA StatusTyped ==
  ASSUME TypeOK, NEW o \in Orders, NEW st \in Statuses
  PROVE  [order EXCEPT ![o].status = st] \in [Orders -> OrderRecords]
<1>1. order \in [Orders -> OrderRecords]
  BY DEF TypeOK
<1>2. [order[o] EXCEPT !.status = st] \in OrderRecords
  BY <1>1, RowTyped DEF Methods
<1>3. QED
  BY <1>1, <1>2

\* or method.
LEMMA MethodTyped ==
  ASSUME TypeOK, NEW o \in Orders, NEW m \in Methods
  PROVE  [order EXCEPT ![o].method = m] \in [Orders -> OrderRecords]
<1>1. order \in [Orders -> OrderRecords]
  BY DEF TypeOK
<1>2. [order[o] EXCEPT !.method = m] \in OrderRecords
  BY <1>1, RowTyped DEF Statuses
<1>3. QED
  BY <1>1, <1>2

\* _activate_purchase writes well-formed rows.
LEMMA ActivateTyped ==
  ASSUME TypeOK, NEW o \in Orders, Activate(o)
  PROVE  period' \in [Sources -> PeriodRecords] /\ granted' \in [Orders -> Nat] /\ credit' \in Nat
<1>0. PICK at \in Began : ActivateAt(o, at)
  BY DEF Activate
<1> DEFINE plan == order[o].plan
           same == Renews(o, at)
           from == IF same THEN RenewalStart(at) ELSE at
           old == [s \in Sources |-> IF same THEN Stacked(period[s], at) ELSE Replaced(period[s])]
<1>1. granted' \in [Orders -> Nat] /\ credit' \in Nat
  BY <1>0 DEF TypeOK, ActivateAt
<1>2. CASE plan \in Packs
  BY <1>0, <1>1, <1>2 DEF TypeOK, ActivateAt
<1>3. CASE plan \notin Packs
  <2>1. from \in Nat
    <3>1. CASE same
      <4>1. OpenAt(at) # {}
        BY <3>1 DEF Renews, RunningAt
      <4>2. QED
        BY <3>1, <4>1, BeganBefore, RenewalAfterOpen
    <3>2. CASE ~same
      BY <3>2, BeganBefore
    <3>3. QED
      BY <3>1, <3>2
  <2>2. old \in [Sources -> PeriodRecords]
    <3>1. \A s \in Sources : /\ Stacked(period[s], at) \in PeriodRecords
                             /\ Replaced(period[s]) \in PeriodRecords
      BY DEF TypeOK, Stacked, Replaced, Live, PeriodRecords
    <3>2. QED
      BY <3>1
  <2>3. NewPeriod(plan, from, order[o].term) \in PeriodRecords
    <3>1. plan \in Plans \cup {"none"} /\ order[o].term \in Nat
      <4>1. order[o] \in OrderRecords
        BY DEF TypeOK
      <4>2. plan \in Plans \cup Packs \cup {"none"} /\ order[o].term \in Terms \cup {0}
        BY <4>1 DEF OrderRecords
      <4>3. Terms \subseteq Nat
        BY PurchaseAssumption
      <4>4. \A x \in Terms \cup {0} : x \in Nat
        BY <4>3
      <4>5. order[o].term \in Nat
        BY <4>2, <4>4, Zenon
      <4>6. plan \in Plans \cup {"none"}
        BY <1>3, <4>2, Zenon
      <4>7. QED
        BY <4>5, <4>6
    <3> HIDE DEF from, plan
    <3>2. QED
      BY <2>1, <3>1 DEF NewPeriod, PeriodRecords
  <2>4. period' = [old EXCEPT ![o] = NewPeriod(plan, from, order[o].term)]
    BY <1>0, <1>3 DEF ActivateAt
  <2> HIDE DEF old, from, plan
  <2>5. QED
    BY <1>1, <2>2, <2>3, <2>4
<1>4. QED
  BY <1>2, <1>3

\* complete_payment_order writes well-formed rows.
LEMMA CompleteTyped ==
  ASSUME TypeOK, NEW o \in Orders, NEW ok \in BOOLEAN, Complete(o, ok)
  PROVE  /\ order' \in [Orders -> OrderRecords] /\ hook' \subseteq Orders
         /\ period' \in [Sources -> PeriodRecords] /\ granted' \in [Orders -> Nat] /\ credit' \in Nat
<1>1. hook' \subseteq Orders
  BY DEF TypeOK, Complete, CallHook
<1>2. CASE order[o].status \in Settled
  BY <1>1, <1>2 DEF TypeOK, Complete, entitlements
<1>3. CASE order[o].status \notin Settled
  <2>1. order' \in [Orders -> OrderRecords]
    <3>1. /\ [order EXCEPT ![o].status = "paid"] \in [Orders -> OrderRecords]
          /\ [order EXCEPT ![o].status = "failed"] \in [Orders -> OrderRecords]
      BY StatusTyped DEF Statuses
    <3>2. QED
      BY <1>3, <3>1 DEF Complete
  <2>2. CASE ok
    BY <1>1, <1>3, <2>1, <2>2, ActivateTyped DEF Complete
  <2>3. CASE ~ok
    BY <1>1, <1>3, <2>1, <2>3 DEF TypeOK, Complete, entitlements
  <2>4. QED
    BY <2>2, <2>3
<1>4. QED
  BY <1>2, <1>3

\* What a handler holds after asking is well formed.
LEMMA HearsTyped ==
  ASSUME TypeOK, NEW h \in Handlers, NEW o \in Orders, NEW m \in Methods,
         NEW st \in {"method", "settle"}, pay[o].state \in Answers, Hears(h, o, m, st)
  PROVE  TypeOK'
<1>1. ask' \in [Handlers -> Asks]
  BY DEF TypeOK, Hears, Asks
<1>2. QED
  BY <1>1 DEF TypeOK, Hears, entitlements

\* The disjuncts of Next, flat.
LEMMA NextCases ==
  ASSUME Next
  PROVE  \/ \E o \in Orders :
              \/ CreateOrder(o) \/ CheckoutOpens(o) \/ CheckoutFails(o) \/ Payer(o)
              \/ ReviewEnds(o) \/ PaytrCallback(o) \/ Reconcile(o) \/ ApproveManual(o)
              \/ RejectManual(o) \/ DecideRefund(o) \/ RunHook(o) \/ LoseHook(o)
              \/ RequestRefund(o) \/ Expires(o)
         \/ \E h \in Requests, o \in Orders : Callback(h, o) \/ Webhook(h, o)
         \/ \E h \in Handlers : MarkMethod(h) \/ Settle(h) \/ Drop(h)
         \/ CancelSubscription \/ AdminGrant \/ CloseAccount \/ Tick
BY DEF Next, Checkout, Provider, Reconciliation, Notified, Applies, Operator

\* Every step of Next keeps the types.
LEMMA TypeStep == TypeOK /\ AskInv /\ [Next]_vars => TypeOK'
<1> SUFFICES ASSUME TypeOK, AskInv, [Next]_vars PROVE TypeOK'
  OBVIOUS
<1> USE DEF entitlements
<1>1. ASSUME NEW o \in Orders, CreateOrder(o) PROVE TypeOK'
  <2>1. order' \in [Orders -> OrderRecords]
    BY <1>1 DEF TypeOK, CreateOrder, OrderRecords, Methods
  <2>2. /\ init' \in [Orders -> {"none", "calling", "done"}]
        /\ coupon' \in [status : {"ready", "reserved", "used", "void"}, order : Orders \cup {"none"}]
    BY <1>1 DEF TypeOK, CreateOrder
  <2>3. QED
    BY <1>1, <2>1, <2>2 DEF TypeOK, CreateOrder
<1>2. ASSUME NEW o \in Orders, CheckoutOpens(o) PROVE TypeOK'
  <2>1. pay' \in [Orders -> Payments]
    BY <1>2 DEF TypeOK, CheckoutOpens, Payments
  <2>2. QED
    BY <1>2, <2>1 DEF TypeOK, CheckoutOpens
<1>3. ASSUME NEW o \in Orders, CheckoutFails(o) PROVE TypeOK'
  <2>1. order' \in [Orders -> OrderRecords]
    BY <1>3, StatusTyped DEF TypeOK, CheckoutFails, Statuses
  <2>2. QED
    BY <1>3, <2>1 DEF TypeOK, CheckoutFails, CallHook
<1>4. ASSUME NEW o \in Orders, Payer(o) \/ ReviewEnds(o) PROVE TypeOK'
  <2>1. pay' \in [Orders -> Payments]
    BY <1>4 DEF TypeOK, Payer, ReviewEnds, Payments, Answers
  <2>2. QED
    BY <1>4, <2>1 DEF TypeOK, Payer, ReviewEnds
<1>5. ASSUME NEW o \in Orders, PaytrCallback(o) PROVE TypeOK'
  <2>1. (pay[o].state = "success") \in BOOLEAN
    OBVIOUS
  <2>2. QED
    BY <1>5, <2>1, CompleteTyped DEF TypeOK, PaytrCallback
<1>6. ASSUME NEW o \in Orders, Reconcile(o) PROVE TypeOK'
  BY <1>6, HearsTyped DEF Reconcile, Handlers, Methods, Answers
<1>7. ASSUME NEW o \in Orders, ApproveManual(o) PROVE TypeOK'
  <2>1. CASE order[o].status = "paid"
    BY <1>7, <2>1 DEF TypeOK, ApproveManual, CallHook
  <2>2. CASE order[o].status # "paid"
    <3>1. order' \in [Orders -> OrderRecords]
      <4>1. [order EXCEPT ![o].status = "paid"] \in [Orders -> OrderRecords]
        BY StatusTyped DEF Statuses
      <4>2. QED
        BY <1>7, <2>2, <4>1 DEF ApproveManual
    <3>2. QED
      BY <1>7, <2>2, <3>1, ActivateTyped DEF TypeOK, ApproveManual, CallHook
  <2>3. QED
    BY <2>1, <2>2
<1>8. ASSUME NEW o \in Orders, RejectManual(o) PROVE TypeOK'
  <2>1. order' \in [Orders -> OrderRecords]
    BY <1>8, StatusTyped DEF RejectManual, Statuses
  <2>2. QED
    BY <1>8, <2>1 DEF TypeOK, RejectManual, CallHook
<1>9. ASSUME NEW o \in Orders, DecideRefund(o) \/ RequestRefund(o) PROVE TypeOK'
  BY <1>9 DEF TypeOK, DecideRefund, RequestRefund
<1>10. ASSUME NEW o \in Orders, RunHook(o) PROVE TypeOK'
  <2>1. coupon' \in [status : {"ready", "reserved", "used", "void"}, order : Orders \cup {"none"}]
    BY <1>10 DEF TypeOK, RunHook
  <2>2. QED
    BY <1>10, <2>1 DEF TypeOK, RunHook
<1>11. ASSUME NEW o \in Orders, LoseHook(o) PROVE TypeOK'
  BY <1>11, PurchaseAssumption DEF TypeOK, LoseHook
<1>12. ASSUME NEW h \in Requests, NEW o \in Orders, Callback(h, o) PROVE TypeOK'
  <2>1. PICK m \in ResultMethods(pay[o]) : Hears(h, o, m, StepFor(m))
    BY <1>12 DEF Callback
  <2>2. m \in Methods
    BY <2>1 DEF TypeOK, Payments, ResultMethods, Methods
  <2>3. StepFor(m) \in {"method", "settle"}
    BY DEF StepFor
  <2>4. QED
    BY <1>12, <2>1, <2>2, <2>3, HearsTyped DEF Callback, Handlers
<1>13. ASSUME NEW h \in Requests, NEW o \in Orders, Webhook(h, o) PROVE TypeOK'
  <2>1. pay[o].by \in Methods
    BY DEF TypeOK, Payments, Methods
  <2>2. QED
    BY <1>13, <2>1, HearsTyped DEF Webhook, Handlers
<1>14. ASSUME NEW h \in Handlers, MarkMethod(h) PROVE TypeOK'
  <2>1. ask[h].order \in Orders /\ ask[h].method \in Methods
    BY <1>14 DEF TypeOK, AskInv, MarkMethod, Asks
  <2>2. order' \in [Orders -> OrderRecords]
    <3>1. order \in [Orders -> OrderRecords]
      BY DEF TypeOK
    <3>2. [order EXCEPT ![ask[h].order].method = ask[h].method] \in [Orders -> OrderRecords]
      BY <2>1, MethodTyped
    <3>3. QED
      BY <1>14, <3>1, <3>2 DEF MarkMethod
  <2>3. ask' \in [Handlers -> Asks]
    BY <1>14 DEF TypeOK, MarkMethod, Asks, Idle, Methods
  <2>4. QED
    BY <1>14, <2>2, <2>3 DEF TypeOK, MarkMethod
<1>15. ASSUME NEW h \in Handlers, Settle(h) PROVE TypeOK'
  <2>1. ask[h].order \in Orders
    BY <1>15 DEF AskInv, Settle
  <2>2. ask' \in [Handlers -> Asks]
    BY <1>15 DEF TypeOK, Settle, Asks, Idle, Methods
  <2>3. CASE StaysOpen(ask[h])
    <3>1. order' \in [Orders -> OrderRecords]
      <4>1. order \in [Orders -> OrderRecords]
        BY DEF TypeOK
      <4>2. [order EXCEPT ![ask[h].order].status = "pending"] \in [Orders -> OrderRecords]
        BY <2>1, StatusTyped DEF Statuses
      <4>3. QED
        BY <1>15, <2>3, <4>1, <4>2 DEF Settle
    <3>2. QED
      BY <1>15, <2>2, <2>3, <3>1 DEF TypeOK, Settle
  <2>4. CASE ~StaysOpen(ask[h])
    <3>1. Complete(ask[h].order, ask[h].answer = "success")
      BY <1>15, <2>4 DEF Settle
    <3>2. QED
      BY <1>15, <2>1, <2>2, <3>1, CompleteTyped DEF TypeOK, Settle
  <2>5. QED
    BY <2>3, <2>4
<1>16. ASSUME NEW h \in Handlers, Drop(h) PROVE TypeOK'
  <2>1. ask' \in [Handlers -> Asks]
    BY <1>16 DEF TypeOK, Drop, Asks, Idle, Methods
  <2>2. QED
    BY <1>16, <2>1, PurchaseAssumption DEF TypeOK, Drop
<1>17. CASE CancelSubscription
  <2>1. PICK at \in Began :
          period' = [period EXCEPT ![Last(OpenAt(at))].status = "cancel_at_end"]
    BY <1>17 DEF CancelSubscription
  <2>2. period' \in [Sources -> PeriodRecords]
    BY <2>1 DEF TypeOK, PeriodRecords
  <2>3. QED
    BY <1>17, <2>2 DEF TypeOK, CancelSubscription
<1>18. CASE AdminGrant
  <2>1. \A s \in Sources : Cancelled(period[s]) \in PeriodRecords
    BY DEF TypeOK, Cancelled, Live, PeriodRecords
  <2>2. \A plan \in Plans, term \in Terms, at \in Began : NewPeriod(plan, at, term) \in PeriodRecords
    BY PurchaseAssumption, BeganBefore DEF NewPeriod, PeriodRecords
  <2>3. period' \in [Sources -> PeriodRecords]
    BY <1>18, <2>1, <2>2 DEF AdminGrant
  <2>4. QED
    BY <1>18, <2>3 DEF TypeOK, AdminGrant
<1>19. CASE CloseAccount
  <2>1. order' \in [Orders -> OrderRecords]
    <3>1. \A o \in Orders : /\ order[o] \in OrderRecords
                            /\ [order[o] EXCEPT !.status = "cancelled"] \in OrderRecords
      BY RowTyped DEF TypeOK, Statuses, Methods
    <3>2. QED
      BY <1>19, <3>1 DEF CloseAccount
  <2>2. period' \in [Sources -> PeriodRecords]
    BY <1>19 DEF TypeOK, CloseAccount, Cancelled, Live, PeriodRecords
  <2>3. coupon' \in [status : {"ready", "reserved", "used", "void"}, order : Orders \cup {"none"}]
    BY <1>19 DEF TypeOK, CloseAccount
  <2>4. QED
    BY <1>19, <2>1, <2>2, <2>3 DEF TypeOK, CloseAccount
<1>20. CASE Tick
  BY <1>20, PurchaseAssumption DEF TypeOK, Tick
<1>21. CASE UNCHANGED vars
  BY <1>21 DEF TypeOK, vars
<1>22. ASSUME NEW o \in Orders, Expires(o) PROVE TypeOK'
  BY <1>22 DEF TypeOK, Expires, Ages
<1>23. QED
  BY <1>22, <1>1, <1>2, <1>3, <1>4, <1>5, <1>6, <1>7, <1>8, <1>9, <1>10, <1>11, <1>12, <1>13,
     <1>14, <1>15, <1>16, <1>17, <1>18, <1>19, <1>20, <1>21, NextCases

-----------------------------------------------------------------------------
(* What a step does to the orders.                                         *)

Dead == {"failed", "token_failed", "cancelled", "rejected"}

\* The actions that write orders; every other step leaves them, and what they
\* granted, alone.
OrderWriter ==
  \/ \E o \in Orders : \/ CreateOrder(o) \/ CheckoutFails(o) \/ PaytrCallback(o)
                       \/ ApproveManual(o) \/ RejectManual(o)
  \/ \E h \in Handlers : MarkMethod(h) \/ Settle(h)
  \/ CloseAccount

\* Which they are.
LEMMA OrderWriters == [Next]_vars => OrderWriter \/ UNCHANGED <<order, granted>>
<1> SUFFICES ASSUME [Next]_vars, ~OrderWriter PROVE UNCHANGED <<order, granted>>
  OBVIOUS
<1> USE DEF entitlements
<1>1. ASSUME NEW o \in Orders,
             \/ CheckoutOpens(o) \/ Payer(o) \/ ReviewEnds(o) \/ Reconcile(o)
             \/ DecideRefund(o) \/ RunHook(o) \/ LoseHook(o) \/ RequestRefund(o) \/ Expires(o)
      PROVE  UNCHANGED <<order, granted>>
  BY <1>1 DEF CheckoutOpens, Payer, ReviewEnds, Reconcile, Hears, DecideRefund, RunHook,
              LoseHook, RequestRefund, Expires
<1>2. ASSUME NEW h \in Requests, NEW o \in Orders, Callback(h, o) \/ Webhook(h, o)
      PROVE  UNCHANGED <<order, granted>>
  BY <1>2 DEF Callback, Webhook, Hears
<1>3. ASSUME NEW h \in Handlers, Drop(h) PROVE UNCHANGED <<order, granted>>
  BY <1>3 DEF Drop
<1>4. CASE CancelSubscription \/ AdminGrant \/ Tick \/ UNCHANGED vars
  BY <1>4 DEF CancelSubscription, AdminGrant, Tick, vars
<1>5. QED
  BY <1>1, <1>2, <1>3, <1>4, NextCases DEF OrderWriter

\* How one row may change: an existing order keeps its channel, price, term and a
\* proved method; only bank transfers are rejected; a dead order stays dead.
RowStep(o) ==
  /\ order'[o].status = "absent" => order[o].status = "absent" /\ order'[o] = order[o]
  /\ order'[o].status = "rejected" => order'[o].channel = "manual"
  /\ order[o].status # "absent" =>
       /\ order'[o].channel = order[o].channel /\ order'[o].discounted = order[o].discounted
       /\ order'[o].term = order[o].term
       /\ order[o].method # "unknown" => order'[o].method # "unknown"
  /\ order[o].status \in Dead => order'[o].status \in Dead

\* Writing "paid" or "failed" over an order that is not settled is such a change.
LEMMA CompleteRow ==
  ASSUME TypeOK, AskInv, NEW o \in Orders, NEW ok \in BOOLEAN, Complete(o, ok),
         order[o].channel # "manual", NEW q \in Orders
  PROVE  RowStep(q)
<1>0. order[o].status # "rejected"
  BY DEF AskInv
<1>1. CASE order[o].status \in Settled
  BY <1>1 DEF Complete, RowStep, AskInv
<1>2. CASE order[o].status \notin Settled
  <2>1. PICK st \in {"paid", "failed"} : order' = [order EXCEPT ![o].status = st]
    BY <1>2 DEF Complete
  <2>2. QED
    BY <1>0, <1>2, <2>1 DEF RowStep, AskInv, TypeOK, OrderRecords, Settled, Dead
<1>3. QED
  BY <1>1, <1>2

\* Every step changes every row that way.
LEMMA RowSteps == ASSUME TypeOK, AskInv, [Next]_vars, NEW q \in Orders PROVE RowStep(q)
<1>1. ASSUME NEW o \in Orders, CreateOrder(o) PROVE RowStep(q)
  BY <1>1 DEF CreateOrder, RowStep, AskInv, TypeOK, Dead
<1>2. ASSUME NEW o \in Orders, CheckoutFails(o) PROVE RowStep(q)
  <2>1. CASE order[o].status = "created"
    BY <1>2, <2>1 DEF CheckoutFails, RowStep, AskInv, TypeOK, OrderRecords, Dead
  <2>2. CASE order[o].status # "created"
    BY <1>2, <2>2 DEF CheckoutFails, RowStep, AskInv
  <2>3. QED
    BY <2>1, <2>2
<1>3. ASSUME NEW o \in Orders, PaytrCallback(o) PROVE RowStep(q)
  <2>1. order[o].channel # "manual" /\ (pay[o].state = "success") \in BOOLEAN
    BY <1>3 DEF PaytrCallback
  <2>2. QED
    BY <1>3, <2>1, CompleteRow DEF PaytrCallback
<1>4. ASSUME NEW o \in Orders, ApproveManual(o) PROVE RowStep(q)
  <2>1. CASE order[o].status = "paid"
    BY <1>4, <2>1 DEF ApproveManual, RowStep, AskInv
  <2>2. CASE order[o].status # "paid"
    <3>1. order[o].status = "pending" /\ order' = [order EXCEPT ![o].status = "paid"]
      BY <1>4, <2>2 DEF ApproveManual
    <3>2. QED
      BY <3>1 DEF RowStep, AskInv, TypeOK, OrderRecords, Dead
  <2>3. QED
    BY <2>1, <2>2
<1>5. ASSUME NEW o \in Orders, RejectManual(o) PROVE RowStep(q)
  BY <1>5 DEF RejectManual, RowStep, AskInv, TypeOK, OrderRecords, Dead
<1>6. ASSUME NEW h \in Handlers, MarkMethod(h) PROVE RowStep(q)
  <2>1. ask[h].order \in Orders /\ order[ask[h].order].status # "absent"
    BY <1>6 DEF AskInv, MarkMethod
  <2>2. \/ UNCHANGED order
        \/ /\ order' = [order EXCEPT ![ask[h].order].method = ask[h].method]
           /\ order[ask[h].order].method \in {"unknown", ask[h].method}
    BY <1>6 DEF MarkMethod
  <2>3. CASE UNCHANGED order
    BY <2>3 DEF RowStep, AskInv
  <2>4. CASE order' = [order EXCEPT ![ask[h].order].method = ask[h].method]
    <3>1. CASE q = ask[h].order
      BY <2>1, <2>2, <2>4, <3>1 DEF RowStep, AskInv, TypeOK, OrderRecords, Dead
    <3>2. CASE q # ask[h].order
      BY <2>1, <2>4, <3>2 DEF RowStep, AskInv, TypeOK
    <3>3. QED
      BY <3>1, <3>2
  <2>5. QED
    BY <2>2, <2>3, <2>4
<1>7. ASSUME NEW h \in Handlers, Settle(h) PROVE RowStep(q)
  <2>1. ask[h].order \in Orders /\ order[ask[h].order].channel = "iyzico"
    BY <1>7 DEF AskInv, Settle
  <2>2. CASE StaysOpen(ask[h])
    <3>1. CASE order[ask[h].order].status = "created"
      <4>1. order' = [order EXCEPT ![ask[h].order].status = "pending"]
        BY <1>7, <2>2, <3>1 DEF Settle
      <4>2. QED
        BY <2>1, <3>1, <4>1 DEF RowStep, AskInv, TypeOK, OrderRecords, Dead
    <3>2. CASE order[ask[h].order].status # "created"
      BY <1>7, <2>2, <3>2 DEF Settle, RowStep, AskInv
    <3>3. QED
      BY <3>1, <3>2
  <2>3. CASE ~StaysOpen(ask[h])
    BY <1>7, <2>1, <2>3, CompleteRow DEF Settle
  <2>4. QED
    BY <2>2, <2>3
<1>8. CASE CloseAccount
  BY <1>8 DEF CloseAccount, RowStep, AskInv, TypeOK, OrderRecords, Dead
<1>9. CASE UNCHANGED <<order, granted>>
  BY <1>9 DEF RowStep, AskInv
<1>10. QED
  BY <1>1, <1>2, <1>3, <1>4, <1>5, <1>6, <1>7, <1>8, <1>9, OrderWriters DEF OrderWriter

\* What a busy handler may be about to do: an order is paid by a handler whose
\* method, if it resolved one, is already on the order.
ProofInv ==
  \A h \in Handlers :
    ask[h].step = "settle" /\ ask[h].answer = "success" /\ ask[h].method # "unknown"
      => order[ask[h].order].method # "unknown"

\* Handlers change only by hearing about an iyzico order, recording, or ending.
AskStep(h) ==
  \/ ask'[h] = ask[h] \/ ask'[h].step = "idle"
  \/ /\ ask'[h].step # "idle" /\ ask'[h].order \in Orders
     /\ order[ask'[h].order].channel = "iyzico" /\ ask'[h].answer \in Answers
     /\ \/ ask'[h].step = "method" \/ ask'[h].answer = "review" \/ ask'[h].method = "unknown"
        \/ order'[ask'[h].order].method = ask'[h].method

\* Every step changes every handler that way.
LEMMA AskSteps == ASSUME TypeOK, AskInv, [Next]_vars, NEW g \in Handlers PROVE AskStep(g)
<1>1. ASSUME NEW h \in Handlers, NEW o \in Orders, NEW m, NEW st \in {"method", "settle"},
             Hears(h, o, m, st), order[o].channel = "iyzico", pay[o].state \in Answers,
             st = "method" \/ pay[o].state = "review" \/ m = "unknown"
      PROVE  AskStep(g)
  BY <1>1 DEF Hears, AskStep, TypeOK
<1>2. ASSUME NEW o \in Orders, Reconcile(o) PROVE AskStep(g)
  BY <1>1, <1>2 DEF Reconcile, Handlers, Answers
<1>3. ASSUME NEW h \in Requests, NEW o \in Orders, Callback(h, o) PROVE AskStep(g)
  <2>1. PICK m \in ResultMethods(pay[o]) : Hears(h, o, m, StepFor(m))
    BY <1>3 DEF Callback
  <2>2. StepFor(m) \in {"method", "settle"} /\ (StepFor(m) = "method" \/ m = "unknown")
    BY DEF StepFor
  <2>3. QED
    BY <1>1, <1>3, <2>1, <2>2 DEF Callback, Handlers
<1>4. ASSUME NEW h \in Requests, NEW o \in Orders, Webhook(h, o) PROVE AskStep(g)
  BY <1>1, <1>4 DEF Webhook, Handlers
<1>5. ASSUME NEW h \in Handlers, MarkMethod(h) PROVE AskStep(g)
  <2>1. /\ ask[h].order \in Orders /\ order[ask[h].order].channel = "iyzico"
        /\ ask[h].answer \in Answers
    BY <1>5 DEF AskInv, MarkMethod
  <2>2. CASE ask' = [ask EXCEPT ![h] = Idle]
    BY <2>2 DEF AskStep, TypeOK, Idle
  <2>3. CASE /\ order' = [order EXCEPT ![ask[h].order].method = ask[h].method]
             /\ ask' = [ask EXCEPT ![h].step = "settle"]
    <3>1. order'[ask[h].order].method = ask[h].method
      BY <2>1, <2>3 DEF TypeOK, OrderRecords
    <3>2. ask[h] \in Asks
      BY DEF TypeOK
    <3>3. CASE g = h
      <4>1. /\ ask'[g].step = "settle" /\ ask'[g].order = ask[h].order
            /\ ask'[g].answer = ask[h].answer /\ ask'[g].method = ask[h].method
        BY <2>3, <3>2, <3>3 DEF TypeOK, Asks
      <4>2. QED
        BY <2>1, <3>1, <4>1 DEF AskStep
    <3>4. CASE g # h
      BY <2>3, <3>4 DEF AskStep, TypeOK
    <3>5. QED
      BY <3>3, <3>4
  <2>4. QED
    BY <1>5, <2>2, <2>3 DEF MarkMethod
<1>6. ASSUME NEW h \in Handlers, Settle(h) \/ Drop(h) PROVE AskStep(g)
  BY <1>6 DEF Settle, Drop, AskStep, TypeOK, Idle
<1>7. ASSUME NEW o \in Orders,
             \/ CreateOrder(o) \/ CheckoutOpens(o) \/ CheckoutFails(o) \/ Payer(o)
             \/ ReviewEnds(o) \/ PaytrCallback(o) \/ ApproveManual(o) \/ RejectManual(o)
             \/ DecideRefund(o) \/ RunHook(o) \/ LoseHook(o) \/ RequestRefund(o) \/ Expires(o)
      PROVE  AskStep(g)
  BY <1>7 DEF CreateOrder, CheckoutOpens, CheckoutFails, Payer, ReviewEnds, PaytrCallback,
              ApproveManual, RejectManual, DecideRefund, RunHook, LoseHook, RequestRefund, Expires, AskStep
<1>8. CASE CancelSubscription \/ AdminGrant \/ CloseAccount \/ Tick \/ UNCHANGED vars
  BY <1>8 DEF CancelSubscription, AdminGrant, CloseAccount, Tick, vars, AskStep
<1>9. QED
  BY <1>2, <1>3, <1>4, <1>5, <1>6, <1>7, <1>8, NextCases

\* So AskInv and ProofInv are kept.
LEMMA AskStepInv == TypeOK /\ AskInv /\ ProofInv /\ [Next]_vars => AskInv' /\ ProofInv'
<1> SUFFICES ASSUME TypeOK, AskInv, ProofInv, [Next]_vars PROVE AskInv' /\ ProofInv'
  OBVIOUS
<1>1. \A o \in Orders : RowStep(o)
  BY RowSteps
<1>2. \A h \in Handlers : AskStep(h)
  BY AskSteps
<1>3. \A o \in Orders : /\ order'[o].status = "absent" => order'[o].channel = "none"
                        /\ order'[o].status = "rejected" => order'[o].channel = "manual"
  BY <1>1 DEF RowStep, AskInv
<1>4. \A o \in Orders : order[o].channel = "iyzico" => order'[o].channel = "iyzico"
  BY <1>1 DEF RowStep, AskInv
<1>5. ASSUME NEW h \in Handlers, ask'[h].step # "idle"
      PROVE  /\ ask'[h].order \in Orders /\ order'[ask'[h].order].channel = "iyzico"
             /\ ask'[h].answer \in Answers
  BY <1>2, <1>4, <1>5 DEF AskStep, AskInv
<1>6. ASSUME NEW h \in Handlers, ask'[h].step = "settle", ask'[h].answer = "success",
             ask'[h].method # "unknown"
      PROVE  order'[ask'[h].order].method # "unknown"
  <2>1. CASE ask'[h] = ask[h]
    <3>1. /\ ask[h].order \in Orders /\ order[ask[h].order].status # "absent"
          /\ order[ask[h].order].method # "unknown"
      BY <1>6, <2>1 DEF AskInv, ProofInv
    <3>2. QED
      BY <1>1, <2>1, <3>1 DEF RowStep
  <2>2. CASE ask'[h] # ask[h]
    BY <1>2, <1>6, <2>2 DEF AskStep
  <2>3. QED
    BY <2>1, <2>2
<1>7. AskInv'
  BY <1>3, <1>5 DEF AskInv
<1>8. ProofInv'
  BY <1>6 DEF ProofInv
<1>9. QED
  BY <1>7, <1>8

\* Before the first order nothing is asked or granted.
LEMMA InitInv == Init => TypeOK /\ AskInv /\ ProofInv
<1> SUFFICES ASSUME Init PROVE TypeOK /\ AskInv /\ ProofInv
  OBVIOUS
<1>1. AskInv /\ ProofInv
  BY DEF Init, AskInv, ProofInv, Idle
<1>2. order \in [Orders -> OrderRecords]
  BY DEF Init, OrderRecords, Methods
<1>3. ask \in [Handlers -> Asks] /\ pay \in [Orders -> Payments]
  BY DEF Init, Asks, Idle, Payments, Methods
<1>4. period \in [Sources -> PeriodRecords]
  BY DEF Init, PeriodRecords
<1>5. coupon \in [status : {"ready", "reserved", "used", "void"}, order : Orders \cup {"none"}]
  BY DEF Init
<1>6. /\ init \in [Orders -> {"none", "calling", "done"}]
      /\ granted \in [Orders -> Nat] /\ credit \in Nat /\ hook \subseteq Orders
      /\ refund \in [Orders -> {"none", "requested", "approved", "rejected", "completed"}]
      /\ now \in 0..Horizon /\ drops \in 0..MaxDrops /\ age \in [Orders -> Ages]
  BY PurchaseAssumption DEF Init, Ages
<1>7. closed \in BOOLEAN
  BY DEF Init
<1>8. QED
  BY <1>1, <1>2, <1>3, <1>4, <1>5, <1>6, <1>7 DEF TypeOK

\* Every table keeps its columns' types through any sequence of checkouts,
\* notifications, reconciliations, refunds, grants and closures.
THEOREM TypeCorrect == Spec => [](TypeOK /\ AskInv /\ ProofInv)
<1>1. Init => TypeOK /\ AskInv /\ ProofInv
  BY InitInv
<1>2. TypeOK /\ AskInv /\ ProofInv /\ [Next]_vars => TypeOK' /\ AskInv' /\ ProofInv'
  BY TypeStep, AskStepInv
<1>3. QED
  BY <1>1, <1>2, PTL DEF Spec

-----------------------------------------------------------------------------
(* One activation, on proof, and none after an order is closed.            *)

\* An order that is neither paid nor dead is paid and activated, with a proved
\* method if it is an iyzico order.
Paying(o) ==
  /\ order[o].status \notin Dead \cup {"paid"} /\ order[o].channel # "none"
  /\ order[o].channel = "iyzico" => order[o].method # "unknown"
  /\ order' = [order EXCEPT ![o].status = "paid"] /\ Activate(o)
Quiet == UNCHANGED granted /\ \A o \in Orders : order'[o].status = "paid" <=> order[o].status = "paid"

\* complete_payment_order pays an order that way or leaves what is paid alone.
LEMMA CompletePays ==
  ASSUME TypeOK, AskInv, NEW o \in Orders, NEW ok \in BOOLEAN, Complete(o, ok),
         order[o].channel \notin {"manual", "none"},
         ok /\ order[o].channel = "iyzico" => order[o].method # "unknown"
  PROVE  Quiet \/ Paying(o)
<1>0. order[o].status # "rejected"
  BY DEF AskInv
<1>1. CASE order[o].status \in Settled
  BY <1>1 DEF Complete, Quiet, entitlements
<1>2. CASE order[o].status \notin Settled /\ ok
  BY <1>0, <1>2 DEF Complete, Paying, Settled, Dead
<1>3. CASE order[o].status \notin Settled /\ ~ok
  <2>1. order' = [order EXCEPT ![o].status = "failed"] /\ UNCHANGED granted
    BY <1>3 DEF Complete, entitlements
  <2>2. QED
    BY <1>3, <2>1 DEF Quiet, TypeOK, OrderRecords, Settled
<1>4. QED
  BY <1>1, <1>2, <1>3

\* Every step pays one order, or leaves what is paid and granted alone.
LEMMA PaidStep ==
  ASSUME TypeOK, AskInv, ProofInv, [Next]_vars
  PROVE  Quiet \/ \E o \in Orders : Paying(o)
<1> USE DEF entitlements
<1>1. ASSUME NEW o \in Orders, CreateOrder(o) PROVE Quiet
  BY <1>1 DEF CreateOrder, Quiet, TypeOK
<1>2. ASSUME NEW o \in Orders, CheckoutFails(o) PROVE Quiet
  <2>1. CASE order[o].status = "created"
    BY <1>2, <2>1 DEF CheckoutFails, Quiet, TypeOK, OrderRecords
  <2>2. CASE order[o].status # "created"
    BY <1>2, <2>2 DEF CheckoutFails, Quiet
  <2>3. QED
    BY <2>1, <2>2
<1>3. ASSUME NEW o \in Orders, PaytrCallback(o) PROVE Quiet \/ Paying(o)
  <2>1. order[o].channel \notin {"manual", "iyzico", "none"} /\ (pay[o].state = "success") \in BOOLEAN
    BY <1>3 DEF PaytrCallback
  <2>2. QED
    BY <1>3, <2>1, CompletePays DEF PaytrCallback
<1>4. ASSUME NEW o \in Orders, ApproveManual(o) PROVE Quiet \/ Paying(o)
  BY <1>4 DEF ApproveManual, Quiet, Paying, Dead
<1>5. ASSUME NEW o \in Orders, RejectManual(o) PROVE Quiet
  BY <1>5 DEF RejectManual, Quiet, TypeOK, OrderRecords
<1>6. ASSUME NEW h \in Handlers, MarkMethod(h) PROVE Quiet
  <2>1. ask[h].order \in Orders
    BY <1>6 DEF AskInv, MarkMethod
  <2>2. CASE UNCHANGED order
    BY <1>6, <2>2 DEF MarkMethod, Quiet
  <2>3. CASE order' = [order EXCEPT ![ask[h].order].method = ask[h].method]
    BY <1>6, <2>1, <2>3 DEF MarkMethod, Quiet, TypeOK, OrderRecords
  <2>4. QED
    BY <1>6, <2>2, <2>3 DEF MarkMethod
<1>7. ASSUME NEW h \in Handlers, Settle(h) PROVE Quiet \/ Paying(ask[h].order)
  <2>1. ask[h].order \in Orders /\ order[ask[h].order].channel = "iyzico"
    BY <1>7 DEF AskInv, Settle
  <2>2. CASE StaysOpen(ask[h])
    <3>1. UNCHANGED granted
      BY <1>7, <2>2 DEF Settle
    <3>2. CASE order[ask[h].order].status = "created"
      <4>1. order' = [order EXCEPT ![ask[h].order].status = "pending"]
        BY <1>7, <2>2, <3>2 DEF Settle
      <4>2. QED
        BY <2>1, <3>1, <3>2, <4>1 DEF Quiet, TypeOK, OrderRecords
    <3>3. CASE order[ask[h].order].status # "created"
      BY <1>7, <2>2, <3>1, <3>3 DEF Settle, Quiet
    <3>4. QED
      BY <3>2, <3>3
  <2>3. CASE ~StaysOpen(ask[h])
    <3>1. Complete(ask[h].order, ask[h].answer = "success")
      BY <1>7, <2>3 DEF Settle
    <3>2. ask[h].answer = "success" => order[ask[h].order].method # "unknown"
      BY <1>7, <2>3 DEF Settle, StaysOpen, ProofInv
    <3>3. QED
      BY <2>1, <3>1, <3>2, CompletePays
  <2>4. QED
    BY <2>2, <2>3
<1>8. CASE CloseAccount
  BY <1>8 DEF CloseAccount, Quiet, TypeOK, OrderRecords
<1>9. CASE UNCHANGED <<order, granted>>
  BY <1>9 DEF Quiet
<1>10. ASSUME NEW h \in Handlers, Settle(h) PROVE ask[h].order \in Orders
  BY <1>10 DEF AskInv, Settle
<1>11. QED
  BY <1>1, <1>2, <1>3, <1>4, <1>5, <1>6, <1>7, <1>8, <1>9, <1>10, OrderWriters DEF OrderWriter

\* Paying an order changes nothing of the others, and only its status.
LEMMA PaidRow ==
  ASSUME TypeOK, NEW o \in Orders, Paying(o)
  PROVE  /\ order'[o].status = "paid" /\ granted'[o] = granted[o] + 1
         /\ order'[o].channel = order[o].channel /\ order'[o].method = order[o].method
         /\ \A q \in Orders \ {o} : order'[q] = order[q] /\ granted'[q] = granted[q]
<1>1. granted'[o] = granted[o] + 1 /\ \A q \in Orders \ {o} : granted'[q] = granted[q]
  BY DEF Paying, Activate, ActivateAt, TypeOK
<1>2. order \in [Orders -> OrderRecords] /\ order' = [order EXCEPT ![o].status = "paid"]
  BY DEF Paying, TypeOK
<1>3. QED
  BY <1>1, <1>2 DEF OrderRecords

\* A paid order was activated exactly once, and no other order ever was,
\* however callbacks, webhooks, reconciliation, PayTR's repeats, approvals,
\* lost handlers and the account's closure interleave.
THEOREM ActivatedExactlyOnce == Spec => []ActivatedOnce
<1>1. Init => ActivatedOnce
  BY DEF Init, ActivatedOnce
<1>2. TypeOK /\ AskInv /\ ProofInv /\ ActivatedOnce /\ [Next]_vars => ActivatedOnce'
  <2> SUFFICES ASSUME TypeOK, AskInv, ProofInv, ActivatedOnce, [Next]_vars PROVE ActivatedOnce'
    OBVIOUS
  <2>1. CASE Quiet
    BY <2>1 DEF Quiet, ActivatedOnce
  <2>2. ASSUME NEW o \in Orders, Paying(o) PROVE ActivatedOnce'
    <3>1. granted[o] = 0
      BY <2>2 DEF ActivatedOnce, Paying
    <3>2. granted'[o] = 1
      BY <2>2, <3>1, PaidRow
    <3>3. QED
      BY <2>2, <3>2, PaidRow DEF ActivatedOnce
  <2>3. QED
    BY <2>1, <2>2, PaidStep
<1>3. QED
  BY <1>1, <1>2, TypeCorrect, PTL DEF Spec

\* A dead order (failed, cancelled, rejected, or never opened) is neither paid
\* nor activated by any later step, whatever answer arrives late.
THEOREM DeadStaysDead == Spec => SettledIsFinal
<1>1. TypeOK /\ AskInv /\ ProofInv /\ [Next]_vars
        => \A o \in Orders :
             order[o].status \in {"failed", "token_failed", "cancelled", "rejected"}
               => order'[o].status # "paid" /\ granted'[o] = granted[o]
  <2> SUFFICES ASSUME TypeOK, AskInv, ProofInv, [Next]_vars, NEW q \in Orders,
                      order[q].status \in Dead
               PROVE  order'[q].status # "paid" /\ granted'[q] = granted[q]
    BY DEF Dead
  <2>1. CASE Quiet
    BY <2>1 DEF Quiet, Dead
  <2>2. ASSUME NEW o \in Orders, Paying(o)
        PROVE  order'[q].status # "paid" /\ granted'[q] = granted[q]
    <3>1. q # o
      BY <2>2 DEF Paying
    <3>2. QED
      BY <2>2, <3>1, PaidRow DEF Dead
  <2>3. QED
    BY <2>1, <2>2, PaidStep
<1>2. QED
  BY <1>1, TypeCorrect, PTL DEF Spec, SettledIsFinal

\* An iyzico order is paid only after the provider proved its method.
THEOREM PaidOnProof == Spec => []PaidIsProven
<1>1. Init => PaidIsProven
  BY DEF Init, PaidIsProven
<1>2. TypeOK /\ AskInv /\ ProofInv /\ PaidIsProven /\ [Next]_vars => PaidIsProven'
  <2> SUFFICES ASSUME TypeOK, AskInv, ProofInv, PaidIsProven, [Next]_vars, NEW q \in Orders,
                      order'[q].status = "paid", order'[q].channel = "iyzico"
               PROVE  order'[q].method # "unknown"
    BY DEF PaidIsProven
  <2>1. CASE order[q].status = "paid"
    BY <2>1, RowSteps DEF RowStep, PaidIsProven
  <2>2. CASE order[q].status # "paid"
    <3>1. PICK o \in Orders : Paying(o)
      BY <2>2, PaidStep DEF Quiet
    <3>2. q = o
      BY <2>2, <3>1, PaidRow
    <3>3. QED
      BY <3>1, <3>2, PaidRow DEF Paying
  <2>3. QED
    BY <2>1, <2>2
<1>3. QED
  BY <1>1, <1>2, TypeCorrect, PTL DEF Spec

-----------------------------------------------------------------------------
(* Subscription periods.                                                   *)

\* Rows of subscriptions are written by an activation, a cancellation, an
\* administrator's grant and a closure; otherwise at most the clock moves.
LEMMA PeriodWriters ==
  ASSUME TypeOK, AskInv, [Next]_vars
  PROVE  \/ \E o \in Orders : Activate(o) /\ UNCHANGED now
         \/ CancelSubscription \/ AdminGrant \/ CloseAccount
         \/ Tick \/ UNCHANGED <<period, now>>
<1> USE DEF entitlements
<1> DEFINE Still == UNCHANGED <<period, now>>
           Act == \E o \in Orders : Activate(o) /\ UNCHANGED now
<1>1. ASSUME NEW o \in Orders,
             \/ CreateOrder(o) \/ CheckoutOpens(o) \/ CheckoutFails(o) \/ Payer(o)
             \/ ReviewEnds(o) \/ Reconcile(o) \/ RejectManual(o) \/ DecideRefund(o)
             \/ RunHook(o) \/ LoseHook(o) \/ RequestRefund(o) \/ Expires(o)
      PROVE  Still
  BY <1>1 DEF CreateOrder, CheckoutOpens, CheckoutFails, Payer, ReviewEnds, Reconcile, Hears, Expires,
              RejectManual, DecideRefund, RunHook, LoseHook, RequestRefund
<1>2. ASSUME NEW o \in Orders, PaytrCallback(o) \/ ApproveManual(o) PROVE Still \/ Act
  BY <1>2 DEF PaytrCallback, ApproveManual, Complete
<1>3. ASSUME NEW h \in Requests, NEW o \in Orders, Callback(h, o) \/ Webhook(h, o) PROVE Still
  BY <1>3 DEF Callback, Webhook, Hears
<1>4. ASSUME NEW h \in Handlers, MarkMethod(h) \/ Drop(h) PROVE Still
  BY <1>4 DEF MarkMethod, Drop
<1>5. ASSUME NEW h \in Handlers, Settle(h) PROVE Still \/ Act
  <2>1. ask[h].order \in Orders
    BY <1>5 DEF AskInv, Settle
  <2>2. QED
    BY <1>5, <2>1 DEF Settle, Complete
<1>6. UNCHANGED vars => Still
  BY DEF vars
<1> HIDE DEF Still, Act
<1>7. Still \/ Act \/ CancelSubscription \/ AdminGrant \/ CloseAccount \/ Tick
  BY <1>1, <1>2, <1>3, <1>4, <1>5, <1>6, NextCases
<1>8. QED
  BY <1>7 DEF Still, Act

\* The clock moves by one or stands still, and a row that grants access at its
\* new value granted it before.
LEMMA ClockMoves ==
  ASSUME TypeOK, Tick \/ UNCHANGED <<period, now>>
  PROVE  /\ UNCHANGED period /\ now \in Nat /\ now' \in {now, now + 1}
         /\ \A s \in Sources : period[s].ends > now' => period[s].ends > now
<1>1. UNCHANGED period /\ now \in Nat /\ now' \in {now, now + 1}
  BY PurchaseAssumption DEF TypeOK, Tick, entitlements
<1>2. \A s \in Sources : period[s].ends \in Nat
  BY DEF TypeOK, PeriodRecords
<1>3. QED
  BY <1>1, <1>2

\* After an activation the only active row is the new one, and a row that is
\* live beside it was live and ends before the new one starts.
LEMMA ActivateRows ==
  ASSUME TypeOK, NEW o \in Orders, Activate(o)
  PROVE  \/ UNCHANGED period
         \/ /\ period'[o].starts \in Nat
            /\ \A s \in Sources \ {o} :
                 /\ period'[s].status # "active"
                 /\ Live(period'[s]) =>
                      /\ Live(period[s]) /\ period[s].ends <= period'[o].starts
                      /\ period'[s].starts = period[s].starts /\ period'[s].ends = period[s].ends
<1>0. PICK at \in Began : ActivateAt(o, at)
  BY DEF Activate
<1> DEFINE plan == order[o].plan
           same == Renews(o, at)
           from == IF same THEN RenewalStart(at) ELSE at
           old == [s \in Sources |-> IF same THEN Stacked(period[s], at) ELSE Replaced(period[s])]
<1>1. CASE plan \in Packs
  BY <1>0, <1>1 DEF ActivateAt
<1>2. CASE plan \notin Packs
  <2>1. period' = [old EXCEPT ![o] = NewPeriod(plan, from, order[o].term)]
    BY <1>0, <1>2 DEF ActivateAt
  <2>2. period'[o] = NewPeriod(plan, from, order[o].term) /\ period'[o].starts = from
    BY <2>1 DEF Sources, NewPeriod
  <2>3. \A s \in Sources \ {o} :
          period'[s] = IF same THEN Stacked(period[s], at) ELSE Replaced(period[s])
    BY <2>1
  <2>4. \A s \in Sources : period[s] \in PeriodRecords
    BY DEF TypeOK
  <2>5. at \in Nat
    BY BeganBefore
  <2>6. CASE same
    <3>1. from \in Nat /\ \A s \in OpenAt(at) : period[s].ends <= from
      <4>1. OpenAt(at) # {}
        BY <2>6 DEF Renews, RunningAt
      <4>2. from = RenewalStart(at)
        BY <2>6
      <4> HIDE DEF from, same
      <4>3. QED
        BY <2>5, <4>1, <4>2, RenewalAfterOpen
    <3>2. ASSUME NEW s \in Sources \ {o}
          PROVE  /\ period'[s].status # "active"
                 /\ Live(period'[s]) =>
                      /\ Live(period[s]) /\ s \in OpenAt(at)
                      /\ period'[s].starts = period[s].starts /\ period'[s].ends = period[s].ends
      <4>1. period'[s] = Stacked(period[s], at)
        BY <2>3, <2>6
      <4> HIDE DEF same, from, old, plan
      <4>2. QED
        BY <2>4, <2>5, <4>1 DEF Stacked, Live, OpenAt, PeriodRecords
    <3> HIDE DEF same, from, old, plan
    <3>3. QED
      BY <2>2, <3>1, <3>2
  <2>7. CASE ~same
    <3>1. from = at
      BY <2>7
    <3>2. ASSUME NEW s \in Sources \ {o} PROVE period'[s].status # "active" /\ ~Live(period'[s])
      <4>1. period'[s] = Replaced(period[s])
        BY <2>3, <2>7
      <4> HIDE DEF same, from, old, plan
      <4>2. QED
        BY <2>4, <4>1 DEF Replaced, Live, PeriodRecords
    <3> HIDE DEF same, from, old, plan
    <3>3. QED
      BY <2>2, <2>5, <3>1, <3>2
  <2>8. QED
    BY <2>6, <2>7
<1>3. QED
  BY <1>1, <1>2

\* Cancelled rows are not live.
LEMMA CancelledRows ==
  ASSUME TypeOK, NEW s \in Sources PROVE ~Live(Cancelled(period[s]))
<1>1. period[s] \in PeriodRecords
  BY DEF TypeOK
<1>2. QED
  BY <1>1 DEF Cancelled, Live, PeriodRecords

\* After an administrator's grant only the grant itself can be live.
LEMMA AdminRows ==
  ASSUME TypeOK, AdminGrant, NEW s \in Sources, s # "admin" PROVE ~Live(period'[s])
<1>1. period'[s] = Cancelled(period[s])
  BY DEF AdminGrant
<1>2. QED
  BY <1>1, CancelledRows

\* The open period that a cancellation picks is one of the open ones.
LEMMA LastOpen ==
  ASSUME TypeOK, NEW at \in Nat, NEW S \in SUBSET OpenAt(at), S # {} PROVE Last(S) \in S
<1>1. S \in SUBSET Sources
  BY DEF OpenAt
<1> DEFINE e == [t \in Sources |-> period[t].ends]
<1>2. \A t \in Sources : e[t] \in Nat /\ e[t] = period[t].ends
  BY DEF TypeOK, PeriodRecords
<1>3. IsFiniteSet(Sources)
  BY PurchaseAssumption, FS_AddElement DEF Sources
<1> HIDE DEF e
<1>4. PICK t \in S : \A u \in S : e[u] <= e[t]
  BY <1>1, <1>2, <1>3, LatestExists
<1>5. \A u \in S : period[u].ends <= period[t].ends
  BY <1>1, <1>2, <1>4
<1>6. QED
  BY <1>4, <1>5 DEF Last

\* A cancellation rewrites the status of one live row.
LEMMA CancelledRow ==
  ASSUME TypeOK, CancelSubscription
  PROVE  \E t \in Sources :
           Live(period[t]) /\ period' = [period EXCEPT ![t].status = "cancel_at_end"]
<1>1. PICK at \in Began : /\ RunningAt(at) # {}
                          /\ period' = [period EXCEPT ![Last(OpenAt(at))].status = "cancel_at_end"]
  BY DEF CancelSubscription
<1>2. OpenAt(at) # {} /\ OpenAt(at) \in SUBSET OpenAt(at)
  BY <1>1 DEF RunningAt
<1>3. at \in Nat
  BY BeganBefore
<1>4. Last(OpenAt(at)) \in OpenAt(at)
  BY <1>2, <1>3, LastOpen
<1>5. QED
  BY <1>1, <1>4 DEF OpenAt

\* Every row keeps its days, and none becomes active or live.
LEMMA CancelRows ==
  ASSUME TypeOK, CancelSubscription, NEW s \in Sources
  PROVE  /\ period'[s].starts = period[s].starts /\ period'[s].ends = period[s].ends
         /\ period'[s].status = "active" => period[s].status = "active"
         /\ period'[s].status = "none" <=> period[s].status = "none"
         /\ period'[s].plan = period[s].plan /\ (Live(period'[s]) <=> Live(period[s]))
<1>1. PICK t \in Sources :
        Live(period[t]) /\ period' = [period EXCEPT ![t].status = "cancel_at_end"]
  BY CancelledRow
<1>2. period[s] \in PeriodRecords /\ period \in [Sources -> PeriodRecords]
  BY DEF TypeOK
<1>3. CASE s = t
  <2>1. period'[s] = [period[s] EXCEPT !.status = "cancel_at_end"]
    BY <1>1, <1>2, <1>3
  <2>2. QED
    BY <1>1, <1>2, <1>3, <2>1 DEF PeriodRecords, Live
<1>4. CASE s # t
  BY <1>1, <1>2, <1>4
<1>5. QED
  BY <1>3, <1>4

\* At most one subscription row is active, whatever renewals, changes of
\* package, cancellations, grants and closures came before.
THEOREM OneActive == Spec => []OneActiveRow
<1>1. Init => OneActiveRow
  BY DEF Init, OneActiveRow
<1>2. TypeOK /\ AskInv /\ OneActiveRow /\ [Next]_vars => OneActiveRow'
  <2> SUFFICES ASSUME TypeOK, AskInv, OneActiveRow, [Next]_vars PROVE OneActiveRow'
    OBVIOUS
  <2>1. ASSUME NEW o \in Orders, Activate(o) PROVE OneActiveRow'
    <3>1. CASE UNCHANGED period
      BY <3>1 DEF OneActiveRow
    <3>2. CASE \A s \in Sources \ {o} : period'[s].status # "active"
      BY <3>2 DEF OneActiveRow
    <3>3. QED
      BY <2>1, <3>1, <3>2, ActivateRows
  <2>2. CASE CancelSubscription
    BY <2>2, CancelRows DEF OneActiveRow
  <2>3. CASE AdminGrant
    <3>1. \A s \in Sources : period'[s].status = "active" => s = "admin"
      BY <2>3, AdminRows DEF Live
    <3>2. QED
      BY <3>1 DEF OneActiveRow
  <2>4. CASE CloseAccount
    <3>1. \A s \in Sources : ~Live(period'[s])
      BY <2>4, CancelledRows DEF CloseAccount
    <3>2. QED
      BY <3>1 DEF OneActiveRow, Live
  <2>5. CASE UNCHANGED period
    BY <2>5 DEF OneActiveRow
  <2>6. QED
    BY <2>1, <2>2, <2>3, <2>4, <2>5, PeriodWriters, ClockMoves
<1>3. QED
  BY <1>1, <1>2, TypeCorrect, PTL DEF Spec

\* Two periods that still grant access never overlap, whichever instants the
\* renewals, changes of package and grants were decided with.
THEOREM NoOverlap == Spec => []PeriodsDisjoint
<1>1. Init => PeriodsDisjoint
  BY DEF Init, PeriodsDisjoint, Open, OpenAt, Live
<1>2. TypeOK /\ TypeOK' /\ AskInv /\ PeriodsDisjoint /\ [Next]_vars => PeriodsDisjoint'
  <2> SUFFICES ASSUME TypeOK, TypeOK', AskInv, PeriodsDisjoint, [Next]_vars,
                      NEW s \in Open', NEW t \in Open', s # t
               PROVE  period'[s].ends <= period'[t].starts \/ period'[t].ends <= period'[s].starts
    BY DEF PeriodsDisjoint
  <2>0. /\ s \in Sources /\ Live(period'[s]) /\ period'[s].ends > now'
        /\ t \in Sources /\ Live(period'[t]) /\ period'[t].ends > now'
    BY DEF Open, OpenAt
  <2>1. ASSUME NEW o \in Orders, Activate(o), UNCHANGED now
        PROVE  period'[s].ends <= period'[t].starts \/ period'[t].ends <= period'[s].starts
    <3>1. CASE UNCHANGED period
      BY <2>0, <2>1, <3>1 DEF PeriodsDisjoint, Open, OpenAt
    <3>2. CASE \A u \in Sources \ {o} :
                 Live(period'[u]) =>
                   /\ Live(period[u]) /\ period[u].ends <= period'[o].starts
                   /\ period'[u].starts = period[u].starts /\ period'[u].ends = period[u].ends
      <4>1. CASE s = o
        BY <2>0, <3>2, <4>1
      <4>2. CASE t = o
        BY <2>0, <3>2, <4>2
      <4>3. CASE s # o /\ t # o
        BY <2>0, <2>1, <3>2, <4>3 DEF PeriodsDisjoint, Open, OpenAt
      <4>4. QED
        BY <4>1, <4>2, <4>3
    <3>3. QED
      BY <2>1, <3>1, <3>2, ActivateRows
  <2>2. CASE CancelSubscription
    <3>1. UNCHANGED now
      BY <2>2 DEF CancelSubscription
    <3>2. s \in Open /\ t \in Open
      BY <2>0, <2>2, <3>1, CancelRows DEF Open, OpenAt
    <3>3. QED
      BY <2>0, <2>2, <3>2, CancelRows DEF PeriodsDisjoint
  <2>3. CASE AdminGrant
    BY <2>0, <2>3, AdminRows
  <2>4. CASE CloseAccount
    BY <2>0, <2>4, CancelledRows DEF CloseAccount
  <2>5. CASE Tick \/ UNCHANGED <<period, now>>
    <3>1. UNCHANGED period /\ s \in Open /\ t \in Open
      BY <2>0, <2>5, ClockMoves DEF Open, OpenAt
    <3>2. QED
      BY <3>1 DEF PeriodsDisjoint
  <2>6. QED
    BY <2>1, <2>2, <2>3, <2>4, <2>5, PeriodWriters
<1>3. QED
  BY <1>1, <1>2, TypeCorrect, PTL DEF Spec

-----------------------------------------------------------------------------
(* The coupon.                                                             *)

\* The coupon belongs to the one discounted order that is open or paid.
CouponInv ==
  \A o \in Orders : order[o].discounted /\ order[o].status \notin Dead \cup {"absent"} =>
    coupon.order = o /\ coupon.status \in {"reserved", "used"}

\* Only create_payment_order and create_manual_order bring an order into being.
LEMMA AbsentStays ==
  ASSUME TypeOK, AskInv, [Next]_vars, NEW q \in Orders, order[q].status = "absent"
  PROVE  CreateOrder(q) \/ order'[q].status = "absent"
<1>0. order[q].channel = "none"
  BY DEF AskInv
<1>1. ASSUME NEW o \in Orders, o # q,
             \/ CreateOrder(o) \/ CheckoutFails(o) \/ RejectManual(o)
      PROVE  order'[q].status = "absent"
  BY <1>1 DEF CreateOrder, CheckoutFails, RejectManual, TypeOK
<1>2. ASSUME NEW o \in Orders, o # q, NEW ok, Complete(o, ok) PROVE order'[q].status = "absent"
  BY <1>2 DEF Complete, TypeOK
<1>3. ASSUME NEW o \in Orders, o # q, PaytrCallback(o) \/ ApproveManual(o)
      PROVE  order'[q].status = "absent"
  BY <1>2, <1>3 DEF PaytrCallback, ApproveManual, TypeOK
<1>4. CheckoutFails(q) => order'[q].status = "absent"
  BY DEF CheckoutFails
<1>5. ~PaytrCallback(q) /\ ~ApproveManual(q) /\ ~RejectManual(q)
  BY <1>0 DEF PaytrCallback, ApproveManual, RejectManual
<1>6. ASSUME NEW h \in Handlers, MarkMethod(h) \/ Settle(h) PROVE order'[q].status = "absent"
  <2>1. ask[h].order \in Orders /\ ask[h].order # q
    BY <1>0, <1>6 DEF AskInv, MarkMethod, Settle
  <2>2. CASE MarkMethod(h)
    BY <2>1, <2>2 DEF MarkMethod, TypeOK
  <2>3. CASE Settle(h)
    BY <1>2, <2>1, <2>3 DEF Settle, TypeOK
  <2>4. QED
    BY <1>6, <2>2, <2>3
<1>7. CASE CloseAccount
  BY <1>7 DEF CloseAccount
<1>8. CASE UNCHANGED <<order, granted>>
  BY <1>8
<1>9. QED
  BY <1>1, <1>3, <1>4, <1>5, <1>6, <1>7, <1>8, OrderWriters DEF OrderWriter

\* The coupon changes when an order reserves it, when a hook sees its order's
\* end, and when a closure voids it.
LEMMA CouponWriters ==
  ASSUME [Next]_vars
  PROVE  \/ \E o \in Orders : CreateOrder(o) \/ RunHook(o)
         \/ CloseAccount \/ UNCHANGED coupon
<1>1. ASSUME NEW o \in Orders,
             \/ CheckoutOpens(o) \/ CheckoutFails(o) \/ Payer(o) \/ ReviewEnds(o)
             \/ PaytrCallback(o) \/ Reconcile(o) \/ ApproveManual(o) \/ RejectManual(o)
             \/ DecideRefund(o) \/ LoseHook(o) \/ RequestRefund(o) \/ Expires(o)
      PROVE  UNCHANGED coupon
  BY <1>1 DEF CheckoutOpens, CheckoutFails, Payer, ReviewEnds, PaytrCallback, Reconcile, Hears,
              ApproveManual, RejectManual, DecideRefund, LoseHook, RequestRefund, Expires
<1>2. ASSUME NEW h \in Requests, NEW o \in Orders, Callback(h, o) \/ Webhook(h, o)
      PROVE  UNCHANGED coupon
  BY <1>2 DEF Callback, Webhook, Hears
<1>3. ASSUME NEW h \in Handlers, MarkMethod(h) \/ Settle(h) \/ Drop(h) PROVE UNCHANGED coupon
  BY <1>3 DEF MarkMethod, Settle, Drop
<1>4. CASE CancelSubscription \/ AdminGrant \/ Tick \/ UNCHANGED vars
  BY <1>4 DEF CancelSubscription, AdminGrant, Tick, vars
<1>5. QED
  BY <1>1, <1>2, <1>3, <1>4, NextCases

\* Every step keeps the coupon with its order.
LEMMA CouponStep == TypeOK /\ AskInv /\ CouponInv /\ [Next]_vars => CouponInv'
<1> SUFFICES ASSUME TypeOK, AskInv, CouponInv, [Next]_vars, NEW q \in Orders,
                    order'[q].discounted, order'[q].status \notin Dead \cup {"absent"}
             PROVE  coupon'.order = q /\ coupon'.status \in {"reserved", "used"}
  BY DEF CouponInv
<1>0. coupon \in [status : {"ready", "reserved", "used", "void"}, order : Orders \cup {"none"}]
  BY DEF TypeOK
<1>1. CASE CreateOrder(q)
  <2>1. order'[q].discounted => coupon' = [status |-> "reserved", order |-> q]
    BY <1>1 DEF CreateOrder, TypeOK
  <2>2. QED
    BY <2>1
<1>2. CASE ~CreateOrder(q)
  <2>1. order[q].status # "absent" /\ order[q].status \notin Dead /\ order[q].discounted
    <3>1. order[q].status # "absent"
      BY <1>2, AbsentStays
    <3>2. QED
      BY <3>1, RowSteps DEF RowStep
  <2>2. coupon.order = q /\ coupon.status \in {"reserved", "used"}
    BY <2>1 DEF CouponInv
  <2>3. ASSUME NEW o \in Orders, CreateOrder(o) PROVE UNCHANGED coupon
    BY <2>2, <2>3 DEF CreateOrder, CouponUsable
  <2>4. ASSUME NEW o \in Orders, RunHook(o)
        PROVE  coupon'.order = q /\ coupon'.status \in {"reserved", "used"}
    <3>1. CASE coupon.status # "reserved" \/ o # q
      BY <2>2, <2>4, <3>1 DEF RunHook
    <3>2. CASE coupon.status = "reserved" /\ o = q /\ order[q].status = "paid"
      <4>1. coupon' = [coupon EXCEPT !.status = "used"]
        BY <2>2, <2>4, <3>2 DEF RunHook
      <4>2. QED
        BY <1>0, <2>2, <4>1
    <3>3. CASE coupon.status = "reserved" /\ o = q /\ order[q].status # "paid"
      <4>1. coupon' = coupon
        BY <2>1, <2>2, <2>4, <3>3 DEF RunHook, Dead
      <4>2. QED
        BY <2>2, <4>1
    <3>4. QED
      BY <3>1, <3>2, <3>3
  <2>5. CASE CloseAccount
    BY <2>2, <2>5 DEF CloseAccount
  <2>6. QED
    BY <2>2, <2>3, <2>4, <2>5, CouponWriters
<1>3. QED
  BY <1>1, <1>2

\* One coupon discounts at most one paid purchase, though dead orders give it
\* back and the hook that does so runs late, repeatedly or not at all.
THEOREM CouponSpentOnce == Spec => []CouponOnce
<1>1. Init => CouponInv
  BY DEF Init, CouponInv
<1>2. TypeOK /\ AskInv /\ CouponInv /\ [Next]_vars => CouponInv'
  BY CouponStep
<1>3. CouponInv => CouponOnce
  <2> SUFFICES ASSUME CouponInv PROVE CouponOnce
    OBVIOUS
  <2> DEFINE spent == {o \in Orders : order[o].status = "paid" /\ order[o].discounted}
  <2>1. spent \in SUBSET {coupon.order}
    BY DEF CouponInv, Dead
  <2>2. Cardinality(spent) <= 1
    <3> HIDE DEF spent
    <3>1. IsFiniteSet({coupon.order}) /\ Cardinality({coupon.order}) = 1
      BY FS_Singleton
    <3>2. QED
      BY <2>1, <3>1, FS_Subset
  <2>3. QED
    BY <2>2 DEF CouponOnce
<1>4. QED
  BY <1>1, <1>2, <1>3, TypeCorrect, PTL DEF Spec

-----------------------------------------------------------------------------
(* The purchases keep PlanContract's promise. A row is written once, by the *)
(* payment of its order or the administrator's grant; after that its days  *)
(* are fixed and it can only stop granting access.                         *)

RowKept(s) ==
  /\ period'[s].status = "none" <=> period[s].status = "none"
  /\ period'[s].starts = period[s].starts /\ period'[s].ends = period[s].ends
  /\ Live(period'[s]) => Live(period[s])
NewRow(s) == \/ s = "admin" /\ period[s].status = "none"
             \/ s \in Orders /\ Paying(s)

\* Every rewriting of an earlier row keeps its days, and never revives it.
LEMMA RewrittenRows ==
  ASSUME NEW p \in PeriodRecords, NEW at, NEW q \in {p, Stacked(p, at), Replaced(p), Cancelled(p)}
  PROVE  /\ q.status = "none" <=> p.status = "none"
         /\ q.starts = p.starts /\ q.ends = p.ends /\ (Live(q) => Live(p))
<1>1. CASE q = p
  BY <1>1
<1>2. CASE q = Stacked(p, at)
  BY <1>2 DEF Stacked, Live, PeriodRecords
<1>3. CASE q = Replaced(p)
  BY <1>3 DEF Replaced, Live, PeriodRecords
<1>4. CASE q = Cancelled(p)
  BY <1>4 DEF Cancelled, Live, PeriodRecords
<1>5. QED
  BY <1>1, <1>2, <1>3, <1>4

\* The order an activation is for is the one being paid.
LEMMA ActivatedIsPaying ==
  ASSUME TypeOK, AskInv, ProofInv, [Next]_vars, NEW o \in Orders, Activate(o)
  PROVE  Paying(o)
<1>1. granted'[o] = granted[o] + 1 /\ granted[o] \in Nat
  BY DEF Activate, ActivateAt, TypeOK
<1>2. granted'[o] # granted[o]
  BY <1>1
<1>3. ~Quiet
  BY <1>2 DEF Quiet
<1>4. PICK q \in Orders : Paying(q)
  BY <1>3, PaidStep
<1>5. q = o
  BY <1>2, <1>4, PaidRow
<1>6. QED
  BY <1>4, <1>5

LEMMA RowHistory ==
  ASSUME TypeOK, AskInv, ProofInv, [Next]_vars, NEW s \in Sources
  PROVE  RowKept(s) \/ NewRow(s)
<1>0. period[s] \in PeriodRecords
  BY DEF TypeOK
<1>1. ASSUME NEW at,
             period'[s] \in {period[s], Stacked(period[s], at), Replaced(period[s]), Cancelled(period[s])}
      PROVE  RowKept(s)
  BY <1>0, <1>1, RewrittenRows DEF RowKept
<1>2. ASSUME NEW o \in Orders, Activate(o) PROVE RowKept(s) \/ NewRow(s)
  <2>1. CASE s = o
    BY <1>2, <2>1, ActivatedIsPaying DEF NewRow
  <2>2. CASE s # o
    <3>1. PICK at \in Began : ActivateAt(o, at)
      BY <1>2 DEF Activate
    <3>2. period'[s] \in {period[s], Stacked(period[s], at), Replaced(period[s])}
      BY <2>2, <3>1 DEF ActivateAt
    <3>3. QED
      BY <1>1, <3>2
  <2>3. QED
    BY <2>1, <2>2
<1>3. CASE CancelSubscription
  BY <1>3, CancelRows DEF RowKept
<1>4. CASE AdminGrant
  BY <1>1, <1>4 DEF AdminGrant, NewRow
<1>5. CASE CloseAccount
  BY <1>1, <1>5 DEF CloseAccount
<1>6. CASE UNCHANGED period
  BY <1>1, <1>6
<1>7. QED
  BY <1>2, <1>3, <1>4, <1>5, <1>6, PeriodWriters, ClockMoves

\* Only a paid order has a row: what is paid now has not been in force before.
FreshRows == \A o \in Orders : order[o].status # "paid" => period[o].status = "none"

LEMMA FreshStep ==
  TypeOK /\ AskInv /\ ProofInv /\ FreshRows /\ [Next]_vars => FreshRows'
<1> SUFFICES ASSUME TypeOK, AskInv, ProofInv, FreshRows, [Next]_vars,
                    NEW o \in Orders, order'[o].status # "paid"
             PROVE  period'[o].status = "none"
  BY DEF FreshRows
<1>1. order[o].status # "paid" /\ ~Paying(o)
  <2>1. CASE Quiet
    <3>1. order[o].status # "paid"
      BY <2>1 DEF Quiet
    <3>2. ~Paying(o)
      BY PaidRow
    <3>3. QED
      BY <3>1, <3>2
  <2>2. ASSUME NEW q \in Orders, Paying(q) PROVE order[o].status # "paid" /\ ~Paying(o)
    BY <2>2, PaidRow
  <2>3. QED
    BY <2>1, <2>2, PaidStep
<1>2. o \in Sources /\ o # "admin"
  BY PurchaseAssumption DEF Sources
<1>3. RowKept(o)
  BY <1>1, <1>2, RowHistory DEF NewRow
<1>4. QED
  BY <1>1, <1>3 DEF RowKept, FreshRows

LEMMA ClockStep ==
  ASSUME TypeOK, AskInv, [Next]_vars PROVE now \in Nat /\ now' \in Nat /\ now <= now'
<1>1. now \in Nat
  BY PurchaseAssumption DEF TypeOK
<1>2. CancelSubscription \/ AdminGrant \/ CloseAccount => UNCHANGED now
  BY DEF CancelSubscription, AdminGrant, CloseAccount
<1>3. UNCHANGED now \/ now' = now + 1
  BY <1>2, PeriodWriters, ClockMoves
<1>4. QED
  BY <1>1, <1>3

\* A row whose first day has come has come for good, and once it is no longer
\* in force it never is again.
LEMMA BegunStep ==
  ASSUME TypeOK, AskInv, ProofInv, FreshRows, [Next]_vars, NEW s \in Begun
  PROVE  s \in Begun' /\ (s \in Running' => s \in Running)
<1>1. s \in Sources /\ period[s].status # "none" /\ period[s].starts <= now
  BY DEF Begun
<1>2. RowKept(s)
  BY <1>1, RowHistory DEF NewRow, Paying, FreshRows
<1>3. period[s].starts \in Nat /\ period[s].ends \in Nat
  BY <1>1 DEF TypeOK, PeriodRecords
<1>4. s \in Begun'
  BY <1>1, <1>2, <1>3, ClockStep DEF RowKept, Begun
<1>5. ASSUME s \in Running' PROVE s \in Running
  <2>1. Live(period'[s]) /\ period'[s].ends > now'
    BY <1>5 DEF Running, RunningAt, OpenAt
  <2>2. Live(period[s]) /\ period[s].ends > now
    BY <1>2, <1>3, <2>1, ClockStep DEF RowKept
  <2>3. QED
    BY <1>1, <2>2 DEF Running, RunningAt, OpenAt
<1>6. QED
  BY <1>4, <1>5

\* Periods that do not overlap leave at most one in force.
LEMMA OneRunning == TypeOK /\ PeriodsDisjoint => \A s, t \in Running : s = t
<1> SUFFICES ASSUME TypeOK, PeriodsDisjoint, NEW s \in Running, NEW t \in Running PROVE s = t
  OBVIOUS
<1>1. /\ s \in Open /\ period[s].starts <= now /\ period[s].ends > now
      /\ t \in Open /\ period[t].starts <= now /\ period[t].ends > now
  BY DEF Running, RunningAt, Open, OpenAt
<1>2. /\ period[s].starts \in Nat /\ period[s].ends \in Nat /\ now \in Nat
      /\ period[t].starts \in Nat /\ period[t].ends \in Nat
  BY <1>1, PurchaseAssumption DEF Open, OpenAt, TypeOK, PeriodRecords
<1>3. QED
  BY <1>1, <1>2 DEF PeriodsDisjoint

\* At most one purchase is in force, and one that ended, was replaced or was
\* cancelled never is again, whoever settles, renews, grants or closes: the
\* purchases implement PlanContract.
THEOREM PlanContractKept == Spec => EndedForGood
<1>1. Init => FreshRows /\ Entitles!Init
  <2>1. Init => \A s \in Sources : period[s].status = "none" /\ ~Live(period[s])
    BY DEF Init, Live
  <2>2. QED
    BY <2>1 DEF FreshRows, Entitles!Init, Running, RunningAt, OpenAt, Begun, Sources
<1>2. TypeOK /\ TypeOK' /\ AskInv /\ ProofInv /\ FreshRows /\ PeriodsDisjoint' /\ [Next]_vars
        => [Entitles!Next]_(Entitles!vars)
  <2> SUFFICES ASSUME TypeOK, TypeOK', AskInv, ProofInv, FreshRows, PeriodsDisjoint', [Next]_vars
               PROVE  Entitles!Next
    OBVIOUS
  <2>1. (\A s, t \in Running : s = t)'
    BY OneRunning, PTL
  <2>2. (Begun \ Running) \cup (Running \ Running') \subseteq (Begun \ Running)'
    <3>1. Running \subseteq Begun
      BY DEF Running, RunningAt, OpenAt, Begun, Live
    <3>2. QED
      BY <3>1, BegunStep
  <2>3. QED
    BY <2>1, <2>2 DEF Entitles!Next
<1>3. QED
  BY <1>1, <1>2, FreshStep, TypeCorrect, NoOverlap, PTL DEF Spec, EndedForGood, Entitles!Spec

-----------------------------------------------------------------------------
(* Paid days, if no transaction waits for the owner's row.                 *)

\* A period of an existing order has a length.
TermInv == \A o \in Orders : order[o].status = "absent" \/ order[o].term \in Terms

\* All open periods are of one package, and a queued one begins when another ends.
Continuous ==
  /\ \A s \in Open : period[s].starts < period[s].ends
  /\ \A s, t \in Open : period[s].plan = period[t].plan
  /\ \A s \in Open : period[s].starts <= now \/ \E t \in Open : period[t].ends = period[s].starts

LEMMA TermStep == TypeOK /\ AskInv /\ TermInv /\ [Next]_vars => TermInv'
<1> SUFFICES ASSUME TypeOK, AskInv, TermInv, [Next]_vars, NEW q \in Orders,
                    order'[q].status # "absent"
             PROVE  order'[q].term \in Terms
  BY DEF TermInv
<1>1. RowStep(q)
  BY RowSteps
<1>2. CASE order[q].status # "absent"
  BY <1>1, <1>2 DEF RowStep, TermInv
<1>3. CASE order[q].status = "absent"
  <2>1. CreateOrder(q)
    BY <1>3, AbsentStays
  <2>2. QED
    BY <2>1 DEF CreateOrder, TypeOK
<1>4. QED
  BY <1>2, <1>3

\* Of open periods without a gap one is in force: the earliest has begun.
LEMMA SomeRunning ==
  ASSUME TypeOK, Continuous, Open # {} PROVE Running # {}
<1> DEFINE b == [s \in Sources |-> period[s].starts]
<1>1. Open \in SUBSET Sources /\ IsFiniteSet(Sources)
  BY PurchaseAssumption, FS_AddElement DEF Sources, Open, OpenAt
<1>2. \A s \in Sources : b[s] = period[s].starts /\ b[s] \in Nat /\ period[s].ends \in Nat
  BY DEF TypeOK, PeriodRecords
<1> HIDE DEF b
<1>3. PICK m \in Open : \A t \in Open : b[t] <= b[m]
  BY <1>1, <1>2, LatestExists
<1> DEFINE e == [s \in Sources |-> IF b[s] <= b[m] THEN b[m] - b[s] ELSE 0]
<1>4. \A s \in Sources : e[s] \in Nat
  BY <1>1, <1>2
<1>5. \A s \in Open : e[s] = b[m] - b[s]
  BY <1>1, <1>3
<1> HIDE DEF e
<1>6. PICK s \in Open : \A t \in Open : e[t] <= e[s]
  BY <1>1, <1>4, LatestExists
<1>7. \A t \in Open : b[s] <= b[t]
  BY <1>1, <1>2, <1>5, <1>6
<1>8. ASSUME NEW t \in Open PROVE period[t].ends # period[s].starts
  <2>1. period[t].starts < period[t].ends
    BY <1>8 DEF Continuous
  <2>2. b[s] <= b[t] /\ b[t] = period[t].starts /\ b[s] = period[s].starts
    BY <1>1, <1>2, <1>7, <1>8
  <2>3. QED
    BY <1>1, <1>2, <2>1, <2>2
<1>9. period[s].starts <= now
  BY <1>8 DEF Continuous
<1>10. QED
  BY <1>9 DEF Running, RunningAt, Open

\* What a payment does, then, to the open periods: it renews them, and is
\* queued behind the last, or there are none of its package.
LEMMA PaidPeriods ==
  ASSUME Wait = 0, TypeOK, Continuous, NEW o \in Orders, Activate(o), o \notin Open
  PROVE  \/ UNCHANGED period /\ order[o].plan \in Packs
         \/ /\ \A s \in Open : period[s].plan = order[o].plan
            /\ Open # {} /\ RenewalStart(now) \in Nat
            /\ \E t \in Open : period[t].ends = RenewalStart(now)
            /\ period'[o] = NewPeriod(order[o].plan, RenewalStart(now), order[o].term)
            /\ \A s \in Sources \ {o} : period'[s] = Stacked(period[s], now)
         \/ /\ \A s \in Open : period[s].plan # order[o].plan
            /\ period'[o] = NewPeriod(order[o].plan, now, order[o].term)
            /\ \A s \in Sources \ {o} : period'[s] = Replaced(period[s])
<1>1. ActivateAt(o, now)
  <2>1. PICK at \in Began : ActivateAt(o, at)
    BY DEF Activate
  <2>2. at = now
    BY <2>1, BeganBefore DEF Began
  <2>3. QED
    BY <2>1, <2>2
<1>2. now \in Nat /\ o \in Sources
  BY PurchaseAssumption DEF TypeOK, Sources
<1> DEFINE plan == order[o].plan
           same == Renews(o, now)
           from == IF same THEN RenewalStart(now) ELSE now
           old == [s \in Sources |-> IF same THEN Stacked(period[s], now) ELSE Replaced(period[s])]
<1>3. CASE plan \in Packs
  BY <1>1, <1>3 DEF ActivateAt
<1>4. CASE plan \notin Packs
  <2>1. period' = [old EXCEPT ![o] = NewPeriod(plan, from, order[o].term)]
    BY <1>1, <1>4 DEF ActivateAt
  <2>2. /\ period'[o] = NewPeriod(plan, from, order[o].term)
        /\ \A s \in Sources \ {o} :
             period'[s] = IF same THEN Stacked(period[s], now) ELSE Replaced(period[s])
    BY <1>2, <2>1
  <2>3. CASE same
    <3>1. Running # {} /\ Running \in SUBSET OpenAt(now) /\ period[Last(Running)].plan = plan
      BY <2>3 DEF Renews, Running, RunningAt
    <3>2. Last(Running) \in Running
      BY <1>2, <3>1, LastOpen
    <3>3. \A s \in Open : period[s].plan = plan
      BY <3>1, <3>2 DEF Continuous, Open
    <3>4. Open # {} /\ Last(Open) \in Open
      BY <1>2, <3>1, <3>2, LastOpen DEF Open
    <3>5. RenewalStart(now) \in Nat /\ \E t \in Open : period[t].ends = RenewalStart(now)
      BY <1>2, <3>4, RenewalAfterOpen DEF Open
    <3> HIDE DEF old
    <3>6. QED
      BY <2>2, <2>3, <3>3, <3>4, <3>5
  <2>4. CASE ~same
    <3>1. ASSUME NEW s \in Open, period[s].plan = plan PROVE FALSE
      <4>1. Running # {} /\ Running \in SUBSET OpenAt(now)
        BY <3>1, SomeRunning DEF Running, RunningAt
      <4>2. Last(Running) \in Open
        BY <1>2, <4>1, LastOpen DEF Open
      <4>3. period[Last(Running)].plan = plan
        BY <3>1, <4>2 DEF Continuous
      <4>4. QED
        BY <2>4, <4>1, <4>3 DEF Renews, Running
    <3> HIDE DEF old
    <3>2. QED
      BY <2>2, <2>4, <3>1
  <2>5. QED
    BY <2>3, <2>4
<1>5. QED
  BY <1>3, <1>4

\* Nothing else that happens leaves a gap, and neither does a payment.
LEMMA ContinuousStep ==
  Wait = 0 => (TypeOK /\ AskInv /\ ProofInv /\ FreshRows /\ TermInv /\ Continuous /\ [Next]_vars
                 => Continuous')
<1> SUFFICES ASSUME Wait = 0, TypeOK, AskInv, ProofInv, FreshRows, TermInv, Continuous, [Next]_vars
             PROVE  Continuous'
  OBVIOUS
<1>0. now \in Nat /\ \A s \in Sources : period[s] \in PeriodRecords
  BY PurchaseAssumption DEF TypeOK
<1>1. ASSUME NEW o \in Orders, Activate(o), UNCHANGED now PROVE Continuous'
  <2>1. Paying(o)
    BY <1>1, ActivatedIsPaying
  <2>2. order[o].term \in Terms /\ order[o].term \in Nat \ {0}
    <3>1. order[o].status # "absent"
      BY <2>1 DEF Paying, AskInv
    <3>2. QED
      BY <3>1, PurchaseAssumption DEF TermInv
  <2>3. o \in Sources /\ o \notin Open
    BY <2>1 DEF Paying, FreshRows, Sources, Open, OpenAt, Live
  <2>4. CASE UNCHANGED period
    BY <1>1, <2>4 DEF Continuous, Open, OpenAt
  <2>5. CASE /\ \A s \in Open : period[s].plan = order[o].plan
             /\ Open # {} /\ RenewalStart(now) \in Nat
             /\ \E t \in Open : period[t].ends = RenewalStart(now)
             /\ period'[o] = NewPeriod(order[o].plan, RenewalStart(now), order[o].term)
             /\ \A s \in Sources \ {o} : period'[s] = Stacked(period[s], now)
    <3>1. ASSUME NEW s \in Sources \ {o}
          PROVE  /\ s \in Open' <=> s \in Open
                 /\ s \in Open => /\ period'[s].starts = period[s].starts /\ period'[s].ends = period[s].ends
                                  /\ period'[s].plan = period[s].plan
      <4>1. period'[s] = Stacked(period[s], now)
        BY <2>5
      <4>2. QED
        BY <1>0, <1>1, <4>1 DEF Stacked, Live, Open, OpenAt, PeriodRecords
    <3>2. /\ period'[o].plan = order[o].plan /\ period'[o].starts = RenewalStart(now)
          /\ period'[o].ends = RenewalStart(now) + order[o].term
      BY <2>5 DEF NewPeriod
    <3>3. Open \subseteq Sources \ {o} /\ Open' \subseteq Open \cup {o}
      BY <2>3, <3>1 DEF Open, OpenAt
    <3>4. PICK t \in Open : period[t].ends = RenewalStart(now)
      BY <2>5
    <3>5. period'[o].starts < period'[o].ends
      BY <2>2, <2>5, <3>2
    <3>6. \A s \in Open' : period'[s].starts < period'[s].ends
      BY <3>1, <3>3, <3>5 DEF Continuous
    <3>7. \A s, u \in Open' : period'[s].plan = period'[u].plan
      <4>1. \A s \in Open' : period'[s].plan = order[o].plan
        BY <2>5, <3>1, <3>2, <3>3
      <4>2. QED
        BY <4>1
    <3>8. ASSUME NEW s \in Open'
          PROVE  period'[s].starts <= now' \/ \E u \in Open' : period'[u].ends = period'[s].starts
      <4>1. CASE s = o
        BY <3>1, <3>2, <3>3, <3>4, <4>1
      <4>2. CASE s # o
        BY <1>1, <3>1, <3>3, <3>8, <4>2 DEF Continuous
      <4>3. QED
        BY <4>1, <4>2
    <3>9. QED
      BY <3>6, <3>7, <3>8 DEF Continuous
  <2>6. CASE /\ period'[o] = NewPeriod(order[o].plan, now, order[o].term)
             /\ \A s \in Sources \ {o} : period'[s] = Replaced(period[s])
    <3>1. ASSUME NEW s \in Sources \ {o} PROVE ~Live(period'[s])
      <4>1. period'[s] = Replaced(period[s])
        BY <2>6
      <4>2. QED
        BY <1>0, <4>1 DEF Replaced, Live, PeriodRecords
    <3>2. period'[o].starts = now /\ period'[o].ends = now + order[o].term
      BY <2>6 DEF NewPeriod
    <3>3. \A s \in Open' : s = o
      BY <3>1 DEF Open, OpenAt
    <3>4. period'[o].starts < period'[o].ends /\ period'[o].starts <= now'
      BY <1>0, <1>1, <2>2, <3>2
    <3>5. QED
      BY <3>3, <3>4 DEF Continuous
  <2>7. QED
    BY <1>1, <2>3, <2>4, <2>5, <2>6, PaidPeriods
<1>2. CASE CancelSubscription
  <2>1. UNCHANGED now
    BY <1>2 DEF CancelSubscription
  <2>2. \A s \in Sources :
          /\ period'[s].starts = period[s].starts /\ period'[s].ends = period[s].ends
          /\ period'[s].plan = period[s].plan /\ (Live(period'[s]) <=> Live(period[s]))
    BY <1>2, CancelRows
  <2>3. Open' = Open /\ Open \subseteq Sources
    BY <2>1, <2>2 DEF Open, OpenAt
  <2>4. QED
    BY <2>1, <2>2, <2>3 DEF Continuous
<1>3. CASE AdminGrant
  <2>1. \A s \in Open' : s = "admin"
    BY <1>3, AdminRows DEF Open, OpenAt
  <2>2. ASSUME "admin" \in Open'
        PROVE  period'["admin"].starts < period'["admin"].ends /\ period'["admin"].starts <= now'
    <3>1. PICK plan \in Plans \cup {"free"}, term \in Terms, at \in Began :
            period' = IF plan = "free" THEN [s \in Sources |-> Cancelled(period[s])]
                      ELSE [[s \in Sources |-> Cancelled(period[s])]
                              EXCEPT !["admin"] = NewPeriod(plan, at, term)]
      BY <1>3 DEF AdminGrant
    <3>2. "admin" \in Sources
      BY DEF Sources
    <3>3. plan # "free"
      BY <2>2, <3>1, <3>2, CancelledRows DEF Open, OpenAt
    <3>4. period'["admin"] = NewPeriod(plan, at, term)
      BY <3>1, <3>2, <3>3
    <3>5. period'["admin"].starts = at /\ period'["admin"].ends = at + term
      BY <3>4 DEF NewPeriod
    <3>6. term \in Nat \ {0} /\ at \in Nat /\ at <= now /\ now' = now
      BY <1>3, PurchaseAssumption, BeganBefore DEF AdminGrant
    <3>7. QED
      BY <1>0, <3>5, <3>6
  <2>3. QED
    BY <2>1, <2>2 DEF Continuous
<1>4. CASE CloseAccount
  <2>1. \A s \in Sources : ~Live(period'[s])
    BY <1>4, CancelledRows DEF CloseAccount
  <2>2. Open' = {}
    BY <2>1 DEF Open, OpenAt
  <2>3. QED
    BY <2>2 DEF Continuous
<1>5. CASE Tick \/ UNCHANGED <<period, now>>
  <2>1. /\ UNCHANGED period /\ now' \in {now, now + 1}
        /\ \A s \in Sources : period[s].ends > now' => period[s].ends > now
    BY <1>5, ClockMoves
  <2>2. Open' \subseteq Open
    BY <2>1 DEF Open, OpenAt
  <2>3. ASSUME NEW s \in Open', ~(period[s].starts <= now')
        PROVE  \E t \in Open' : period[t].ends = period[s].starts
    <3>1. s \in Sources /\ s \in Open /\ period[s].starts \in Nat
      BY <1>0, <2>2 DEF Open, OpenAt, PeriodRecords
    <3>2. ~(period[s].starts <= now)
      BY <1>0, <2>1, <2>3, <3>1
    <3>3. PICK t \in Open : period[t].ends = period[s].starts
      BY <3>1, <3>2 DEF Continuous
    <3>4. period[t].ends > now' /\ Live(period[t]) /\ t \in Sources
      BY <1>0, <2>1, <2>3, <3>1, <3>3 DEF Open, OpenAt
    <3>5. t \in Open'
      BY <2>1, <3>4 DEF Open, OpenAt
    <3>6. QED
      BY <3>3, <3>5
  <2>4. QED
    BY <2>1, <2>2, <2>3 DEF Continuous
<1>6. QED
  BY <1>1, <1>2, <1>3, <1>4, <1>5, PeriodWriters

\* A payment for a package takes no open period of it away, if no transaction
\* waits between reading the clock and having the owner's row.
THEOREM NoDayLost == ASSUME Wait = 0 PROVE Spec => NoPaidDayLost
<1>1. Init => FreshRows /\ TermInv /\ Continuous
  <2>1. Init => \A s \in Sources : period[s].status = "none" /\ ~Live(period[s])
    BY DEF Init, Live
  <2>2. QED
    BY <2>1 DEF Init, FreshRows, TermInv, Continuous, Open, OpenAt, Sources
<1>2. TypeOK /\ AskInv /\ ProofInv /\ FreshRows /\ TermInv /\ Continuous /\ [Next]_vars => Continuous'
  BY ContinuousStep
<1>3. TypeOK /\ AskInv /\ ProofInv /\ FreshRows /\ TermInv /\ Continuous /\ [Next]_vars
        => \A o \in Orders, s \in Open :
             granted'[o] # granted[o] /\ period[s].plan = order[o].plan => s \in Open'
  <2> SUFFICES ASSUME TypeOK, AskInv, ProofInv, FreshRows, TermInv, Continuous, [Next]_vars,
                      NEW o \in Orders, NEW s \in Open,
                      granted'[o] # granted[o], period[s].plan = order[o].plan
               PROVE  s \in Open'
    OBVIOUS
  <2>1. PICK q \in Orders : Paying(q)
    BY PaidStep DEF Quiet
  <2>2. Paying(o) /\ Activate(o)
    BY <2>1, PaidRow DEF Paying
  <2>3. o \in Sources /\ o \notin Open /\ s \in Sources \ {o}
    BY <2>2 DEF Paying, FreshRows, Sources, Open, OpenAt, Live
  <2>4. UNCHANGED now
    <3>1. granted[o] # granted'[o] => ~Tick
      BY DEF Tick, entitlements
    <3>2. CancelSubscription \/ AdminGrant \/ CloseAccount => UNCHANGED now
      BY DEF CancelSubscription, AdminGrant, CloseAccount
    <3>3. QED
      BY <3>1, <3>2, PeriodWriters
  <2>5. period[s] \in PeriodRecords /\ now \in Nat
    BY <2>3, PurchaseAssumption DEF TypeOK
  <2>6. CASE UNCHANGED period
    BY <2>4, <2>6 DEF Open, OpenAt
  <2>7. CASE period'[s] = Stacked(period[s], now)
    BY <2>3, <2>4, <2>5, <2>7 DEF Stacked, Live, Open, OpenAt, PeriodRecords
  <2>8. QED
    BY <2>2, <2>3, <2>6, <2>7, PaidPeriods
<1>4. QED
  BY <1>1, <1>2, <1>3, FreshStep, TermStep, TypeCorrect, PTL DEF Spec, NoPaidDayLost
=============================================================================
