----------------------------- MODULE Purchases -----------------------------
(***************************************************************************)
(* One account's purchases: from an order to a paid period or pack.        *)
(*                                                                         *)
(* Orders are settled by whoever learns the provider's verdict first: the  *)
(* browser callback, the signed webhook or the hourly reconciliation for   *)
(* iyzico, the notification for PayTR, an operator for a bank transfer     *)
(* (payments.py, billing_service.py). iyzico's answer is a snapshot: a     *)
(* handler asks, and applies what it heard in later transactions, while    *)
(* other handlers, the payer, the account's closure and an administrator   *)
(* act. A transaction locks the rows it decides on, the owner's first, so  *)
(* it is one step; but the clock is read before it waits for the owner's   *)
(* row, so it decides with the instant at which it began. A request        *)
(* authenticated before the closure may still run after it.                *)
(***************************************************************************)
EXTENDS Naturals, FiniteSets, FiniteSetsExt

CONSTANTS
  Orders,     \* order references
  Plans,      \* subscription packages
  Packs,      \* one-time packages, "ad_free" among them or not
  Channels,   \* subset of {"iyzico", "paytr", "manual"}
  Terms,      \* lengths of a paid period
  Requests,   \* iyzico callbacks and webhooks that can be in flight at once
  Horizon,    \* bound: last instant of the clock
  Wait,       \* bound: how long a transaction waits for the owner's row
  MaxDrops,   \* bound: handlers and referral hooks lost before their last step
  Features    \* parts of the system in use: "admin" (grants and cancellations),
              \* "refunds", "referrals" (enabled, and the account has a coupon),
              \* "windows" (orders become too old for the hourly run)

ASSUME PurchaseAssumption ==
  /\ Terms \subseteq Nat \ {0} /\ Terms # {} /\ IsFiniteSet(Terms)
  /\ IsFiniteSet(Orders) /\ Horizon \in Nat /\ Wait \in Nat /\ MaxDrops \in Nat
  /\ Plans \cap Packs = {} /\ Channels \subseteq {"iyzico", "paytr", "manual"}
  /\ "loop" \notin Requests /\ "admin" \notin Orders /\ "none" \notin Orders
  /\ {"none", "free"} \cap (Plans \cup Packs) = {}
  /\ Features \subseteq {"admin", "refunds", "referrals", "windows"}

VARIABLES
  order,    \* order[o]: the row of payment_orders or manual_orders
  init,     \* init[o]: the checkout request that created o is "calling" the provider
  pay,      \* pay[o]: what the provider knows of o's payment
  ask,      \* ask[h]: what handler h has heard and is about to apply
  period,   \* period[s]: the subscription row whose source_reference is s
  granted,  \* granted[o]: times order o was activated
  credit,   \* purchased packs on the account
  coupon,   \* the account's referral coupon
  hook,     \* orders whose referral hook has still to run
  refund,   \* refund[o]: the refund request for o
  closed,   \* the account was closed
  now,      \* the clock
  age,      \* age[o]: how old iyzico_reconciliation_loop finds the order o
  drops     \* handlers and hooks lost so far

entitlements == <<period, granted, credit>>
vars == <<order, init, pay, ask, entitlements, coupon, hook, refund, closed, now, age, drops>>

Handlers == Requests \cup {"loop"}    \* the loop is iyzico_reconciliation_loop
Sources == Orders \cup {"admin"}

Methods == {"unknown", "card", "transfer"}
OrderRecords ==
  [status : {"absent", "created", "pending", "paid", "failed", "token_failed",
             "cancelled", "rejected"},
   channel : Channels \cup {"none"}, plan : Plans \cup Packs \cup {"none"},
   term : Terms \cup {0},
   method : Methods,       \* as proved by the provider; before that only an intent
   discounted : BOOLEAN]   \* priced with the coupon
PeriodRecords ==
  [status : {"none", "active", "cancel_at_end", "replaced", "cancelled"},
   plan : Plans \cup {"none"}, starts : Nat, ends : Nat]
\* Less than 48 hours, less than 14 days, and older. (That the first 15 minutes
\* are left to the callback and the webhook only delays the hourly run.)
Ages == {"recent", "late", "old"}
\* async: a 3-D Secure step or a bank transfer still open; review: paid, the
\* fraud review is open; fraud: paid and rejected by the review.
Answers == {"async", "review", "success", "declined", "fraud"}
Payments == [state : Answers \cup {"none", "open"}, by : {"card", "transfer"}]
Idle == [step |-> "idle", order |-> "none", answer |-> "none", method |-> "unknown"]
Asks ==
  [step : {"idle", "method", "settle"}, order : Orders \cup {"none"},
   answer : Answers \cup {"none"}, method : Methods]

TypeOK ==
  /\ order \in [Orders -> OrderRecords]
  /\ init \in [Orders -> {"none", "calling", "done"}]
  /\ pay \in [Orders -> Payments]
  /\ ask \in [Handlers -> Asks]
  /\ period \in [Sources -> PeriodRecords]
  /\ granted \in [Orders -> Nat] /\ credit \in Nat
  /\ coupon \in [status : {"ready", "reserved", "used", "void"}, order : Orders \cup {"none"}]
  /\ hook \subseteq Orders
  /\ refund \in [Orders -> {"none", "requested", "approved", "rejected", "completed"}]
  /\ closed \in BOOLEAN /\ now \in 0..Horizon /\ drops \in 0..MaxDrops
  /\ age \in [Orders -> Ages]

Init ==
  /\ order = [o \in Orders |-> [status |-> "absent", channel |-> "none", plan |-> "none",
                                term |-> 0, method |-> "unknown", discounted |-> FALSE]]
  /\ init = [o \in Orders |-> "none"]
  /\ pay = [o \in Orders |-> [state |-> "none", by |-> "card"]]
  /\ ask = [h \in Handlers |-> Idle]
  /\ period = [s \in Sources |-> [status |-> "none", plan |-> "none", starts |-> 0, ends |-> 0]]
  /\ granted = [o \in Orders |-> 0] /\ credit = 0
  /\ coupon = [status |-> IF "referrals" \in Features THEN "ready" ELSE "void", order |-> "none"]
  /\ hook = {} /\ refund = [o \in Orders |-> "none"]
  /\ closed = FALSE /\ now = 0 /\ age = [o \in Orders |-> "recent"] /\ drops = 0

-----------------------------------------------------------------------------
(* Subscription periods.                                                   *)

Live(p) == p.status \in {"active", "cancel_at_end"}
\* _open_subscription_periods: the period that runs at an instant and any queued renewals.
OpenAt(at) == {s \in Sources : Live(period[s]) /\ period[s].ends > at}
\* _active_subscription: of the periods in force, the one that ends last.
RunningAt(at) == {s \in OpenAt(at) : period[s].starts <= at}
Last(S) == CHOOSE s \in S : \A t \in S : period[t].ends <= period[s].ends
\* What is open and in force now.
Open == OpenAt(now)
Running == RunningAt(now)
\* The instants that a transaction may have read before it got the owner's row.
Began == {at \in 0..now : now <= at + Wait}

\* Mutant: a renewal starts when the running period ends, queued ones or not.
RenewalStartsAfterRunning(at) == period[Last(RunningAt(at))].ends
\* An early renewal starts after every period already paid for.
RenewalStart(at) == Max({period[s].ends : s \in OpenAt(at)})

\* Mutant: the earlier period stays active.
StackedBeside(p, at) == IF Live(p) /\ p.ends <= at THEN [p EXCEPT !.status = "replaced"] ELSE p
\* The same package renewed: earlier periods keep access until their own end.
Stacked(p, at) == CASE p.status = "active" /\ p.ends > at -> [p EXCEPT !.status = "cancel_at_end"]
                    [] Live(p) /\ p.ends <= at -> [p EXCEPT !.status = "replaced"]
                    [] OTHER -> p
\* Mutant: a period that was renewed, or will not be, is overlooked.
ReplacedIfActive(p) == IF p.status = "active" THEN [p EXCEPT !.status = "replaced"] ELSE p
\* A different package: the running period and queued renewals are replaced.
Replaced(p) == IF Live(p) THEN [p EXCEPT !.status = "replaced"] ELSE p
Cancelled(p) == IF Live(p) THEN [p EXCEPT !.status = "cancelled"] ELSE p
NewPeriod(plan, from, term) ==
  [status |-> "active", plan |-> plan, starts |-> from, ends |-> from + term]

\* Is the package of order o the one in force?
Renews(o, at) == RunningAt(at) # {} /\ period[Last(RunningAt(at))].plan = order[o].plan

\* _activate_purchase, at the instant that its caller read before the lock.
ActivateAt(o, at) ==
  LET plan == order[o].plan
      from == IF Renews(o, at) THEN RenewalStart(at) ELSE at
      old == [s \in Sources |-> IF Renews(o, at) THEN Stacked(period[s], at) ELSE Replaced(period[s])]
  IN /\ granted' = [granted EXCEPT ![o] = @ + 1]
     /\ IF plan \in Packs
        THEN credit' = credit + 1 /\ UNCHANGED period
        ELSE period' = [old EXCEPT ![o] = NewPeriod(plan, from, order[o].term)] /\ UNCHANGED credit
Activate(o) == \E at \in Began : ActivateAt(o, at)

\* cancel_active_subscription: the last paid period will not be renewed.
CancelSubscription ==
  /\ "admin" \in Features
  /\ \E at \in Began : /\ RunningAt(at) # {}
                       /\ period' = [period EXCEPT ![Last(OpenAt(at))].status = "cancel_at_end"]
  /\ UNCHANGED <<order, init, pay, ask, granted, credit, coupon, hook, refund, closed, now, age, drops>>

\* admin_set_user_subscription: every live row is cancelled; "free" inserts none.
AdminGrant ==
  /\ "admin" \in Features /\ period["admin"].status = "none"     \* bound: one grant
  /\ \E plan \in Plans \cup {"free"}, term \in Terms, at \in Began :
       LET old == [s \in Sources |-> Cancelled(period[s])]
       IN period' = IF plan = "free" THEN old
                    ELSE [old EXCEPT !["admin"] = NewPeriod(plan, at, term)]
  /\ UNCHANGED <<order, init, pay, ask, granted, credit, coupon, hook, refund, closed, now, age, drops>>

Tick == /\ now < Horizon /\ now' = now + 1
        /\ UNCHANGED <<order, init, pay, ask, entitlements, coupon, hook, refund, closed, age, drops>>

-----------------------------------------------------------------------------
(* Checkout.                                                               *)

\* _reconcile_referral_order, called once the order's transaction has committed.
CallHook(o) == hook' = IF "referrals" \in Features THEN hook \cup {o} ELSE hook

\* _has_permanent_ad_free: the paid order is the durable entitlement.
PermanentAdFree == \E o \in Orders : order[o].plan = "ad_free" /\ order[o].status = "paid"

\* Mutant: the coupon is not re-read under its lock.
CouponUsableStale == coupon.status # "used" /\ ~closed
\* reserve_coupon: ready, of a verified owner.
CouponUsable == coupon.status = "ready" /\ ~closed

\* create_payment_order and create_manual_order, with the coupon in the same transaction.
CreateOrder(o) ==
  /\ order[o].status = "absent"
  /\ \E channel \in Channels, plan \in Plans \cup Packs, term \in Terms, discounted \in BOOLEAN :
       /\ plan = "ad_free" => ~PermanentAdFree
       /\ plan \in Packs => term = Min(Terms)
       /\ discounted => CouponUsable /\ plan \in Plans /\ term = Min(Terms)
       /\ order' = [order EXCEPT ![o] =
            [status |-> IF channel = "manual" THEN "pending" ELSE "created", channel |-> channel,
             plan |-> plan, term |-> term, method |-> "unknown", discounted |-> discounted]]
       /\ init' = [init EXCEPT ![o] = IF channel = "manual" THEN "done" ELSE "calling"]
       /\ coupon' = IF discounted THEN [status |-> "reserved", order |-> o] ELSE coupon
  /\ UNCHANGED <<pay, ask, entitlements, hook, refund, closed, now, age, drops>>

\* The provider opened its payment page; iyzico's token is bound to the order
\* (bind_payment_order_token_digest), PayTR's needs no binding.
CheckoutOpens(o) ==
  /\ init[o] = "calling" /\ (order[o].channel = "iyzico" => order[o].status = "created")
  /\ init' = [init EXCEPT ![o] = "done"]
  /\ pay' = [pay EXCEPT ![o].state = "open"]
  /\ UNCHANGED <<order, ask, entitlements, coupon, hook, refund, closed, now, age, drops>>

\* The provider refused or could not be reached, or the binding was refused:
\* mark_payment_order_token_failed.
CheckoutFails(o) ==
  /\ init[o] = "calling"
  /\ init' = [init EXCEPT ![o] = "done"]
  /\ order' = IF order[o].status = "created"
              THEN [order EXCEPT ![o].status = "token_failed"] ELSE order
  /\ CallHook(o)
  /\ UNCHANGED <<pay, ask, entitlements, coupon, refund, closed, now, age, drops>>

\* The payer at the provider (external): iyzico lets them change the method
\* while nothing is decided. A decline is final, as process_iyzico_callback takes it.
Payer(o) ==
  /\ pay[o].state \in {"open", "async"}
  /\ \E state \in IF order[o].channel = "iyzico" THEN {"async", "review", "success", "declined"}
                                                 ELSE {"success", "declined"},
        by \in IF order[o].channel = "iyzico" THEN {"card", "transfer"} ELSE {"card"} :
       pay' = [pay EXCEPT ![o] = [state |-> state, by |-> by]]
  /\ UNCHANGED <<order, init, ask, entitlements, coupon, hook, refund, closed, now, age, drops>>

\* The provider's fraud review ends (external).
ReviewEnds(o) ==
  /\ pay[o].state = "review"
  /\ \E state \in {"success", "fraud"} : pay' = [pay EXCEPT ![o].state = state]
  /\ UNCHANGED <<order, init, ask, entitlements, coupon, hook, refund, closed, now, age, drops>>

-----------------------------------------------------------------------------
(* Settlement.                                                             *)

\* Mutants: a settled order is completed again.
SettledButPaid == {"failed", "token_failed", "cancelled"}
SettledButCancelled == {"paid", "failed", "token_failed"}
Settled == {"paid", "failed", "token_failed", "cancelled"}

\* complete_payment_order: a settled order only has its referral hook repeated.
Complete(o, succeeded) ==
  /\ CallHook(o)
  /\ IF order[o].status \in Settled THEN UNCHANGED <<order, entitlements>>
     ELSE /\ order' = [order EXCEPT ![o].status = IF succeeded THEN "paid" ELSE "failed"]
          /\ IF succeeded THEN Activate(o) ELSE UNCHANGED entitlements

\* process_paytr_callback: signed, and repeated until it is answered.
PaytrCallback(o) ==
  /\ order[o].channel = "paytr" /\ pay[o].state \in {"success", "declined"}
  /\ Complete(o, pay[o].state = "success")
  /\ UNCHANGED <<init, pay, ask, coupon, refund, closed, now, age, drops>>

\* The handler holds iyzico's answer. A resolved method is recorded first.
Hears(h, o, method, step) ==
  /\ ask[h] = Idle
  /\ ask' = [ask EXCEPT ![h] = [step |-> step, order |-> o, answer |-> pay[o].state, method |-> method]]
  /\ UNCHANGED <<order, init, pay, entitlements, coupon, hook, refund, closed, now, age, drops>>
StepFor(method) == IF method = "unknown" THEN "settle" ELSE "method"

\* _iyzico_result_payment_method without an event: an open step names its
\* method, a payment only if it has card fields; a decline may not be signed.
ResultMethods(p) ==
  IF p.state = "async" THEN {p.by}
  ELSE (IF p.by = "card" THEN {"card"} ELSE {"unknown"})
       \cup (IF p.state = "declined" THEN {"unknown"} ELSE {})

\* process_iyzico_callback, from the browser: the token opens any order that has one.
Callback(h, o) ==
  /\ h \in Requests /\ order[o].channel = "iyzico" /\ pay[o].state \in Answers
  /\ \E method \in ResultMethods(pay[o]) : Hears(h, o, method, StepFor(method))

\* process_iyzico_webhook: the signed event proves the method; cancelled and
\* token_failed orders stay closed to it.
Webhook(h, o) ==
  /\ h \in Requests /\ order[o].channel = "iyzico" /\ pay[o].state \in Answers
  /\ order[o].status \in {"created", "pending", "paid", "failed"}
  /\ Hears(h, o, pay[o].by, "method")

\* Mutant: the hourly run only looks at created orders.
ReconciledCreated(o) == order[o].status = "created" /\ age[o] = "recent"
\* reconcile_iyzico_orders: the created orders of two days and the pending ones
\* of two weeks.
Reconciled(o) == \/ order[o].status = "created" /\ age[o] = "recent"
                 \/ order[o].status = "pending" /\ age[o] \in {"recent", "late"}
\* _reconcile_iyzico_order: only a paid card payment is acted on; one still
\* under review is marked pending without recording its method.
Reconcile(o) ==
  /\ order[o].channel = "iyzico" /\ Reconciled(o)
  /\ pay[o].state \in {"success", "fraud", "review"} /\ pay[o].by = "card"
  /\ Hears("loop", o, "card", IF pay[o].state = "review" THEN "settle" ELSE "method")

\* An unsettled order leaves a window of the hourly run: runs were skipped in
\* maintenance, were cut short, or were filled by newer orders.
Expires(o) ==
  /\ "windows" \in Features /\ order[o].channel = "iyzico" /\ age[o] # "old"
  /\ order[o].status \in {"created", "pending"}
  /\ age' = [age EXCEPT ![o] = IF @ = "recent" THEN "late" ELSE "old"]
  /\ UNCHANGED <<order, init, pay, ask, entitlements, coupon, hook, refund, closed, now, drops>>

\* mark_iyzico_payment_method: a contradiction, or an order that was closed
\* meanwhile, raises and ends the handler.
MarkMethod(h) ==
  LET a == ask[h]  o == ask[h].order
  IN /\ a.step = "method"
     /\ IF /\ order[o].status \in {"created", "pending", "paid", "failed"}
           /\ \/ order[o].method = a.method
              \/ order[o].method = "unknown" /\ order[o].status # "paid"
        THEN /\ order' = [order EXCEPT ![o].method = a.method]
             /\ ask' = [ask EXCEPT ![h].step = "settle"]
        ELSE ask' = [ask EXCEPT ![h] = Idle] /\ UNCHANGED order
     /\ UNCHANGED <<init, pay, entitlements, coupon, hook, refund, closed, now, age, drops>>

\* Mutant: a payment whose method nobody proved is taken as it is.
StaysOpenIfAsync(a) == a.answer \in {"async", "review"}
\* The answers that keep an order open without access.
StaysOpen(a) == \/ a.answer \in {"async", "review"}
                \/ a.answer \in {"success", "fraud"} /\ a.method = "unknown"

\* _settle_iyzico_payment: mark_payment_order_pending or complete_payment_order.
Settle(h) ==
  LET a == ask[h]  o == ask[h].order
  IN /\ a.step = "settle"
     /\ ask' = [ask EXCEPT ![h] = Idle]
     /\ \/ /\ StaysOpen(a)
           /\ order' = IF order[o].status = "created"
                       THEN [order EXCEPT ![o].status = "pending"] ELSE order
           /\ UNCHANGED <<entitlements, hook>>
        \/ ~StaysOpen(a) /\ Complete(o, a.answer = "success")
     /\ UNCHANGED <<init, pay, coupon, refund, closed, now, age, drops>>

\* A handler ends between two transactions: a lost process or database.
Drop(h) ==
  /\ drops < MaxDrops /\ ask[h] # Idle
  /\ drops' = drops + 1 /\ ask' = [ask EXCEPT ![h] = Idle]
  /\ UNCHANGED <<order, init, pay, entitlements, coupon, hook, refund, closed, now, age>>

\* approve_manual_order: approving again only repeats the hook.
ApproveManual(o) ==
  /\ order[o].channel = "manual" /\ order[o].status \in {"pending", "paid"}
  /\ CallHook(o)
  /\ IF order[o].status = "paid" THEN UNCHANGED <<order, entitlements>>
     ELSE order' = [order EXCEPT ![o].status = "paid"] /\ Activate(o)
  /\ UNCHANGED <<init, pay, ask, coupon, refund, closed, now, age, drops>>

\* reject_manual_order: anything but a paid order, a cancelled one too.
RejectManual(o) ==
  /\ order[o].channel = "manual" /\ order[o].status # "paid"
  /\ order' = [order EXCEPT ![o].status = "rejected"]
  /\ CallHook(o)
  /\ UNCHANGED <<init, pay, ask, entitlements, coupon, refund, closed, now, age, drops>>

-----------------------------------------------------------------------------
(* What follows an order: the coupon, the refund, the closed account.      *)

\* _coupon_order_changed: run after the order's transaction committed.
RunHook(o) ==
  /\ o \in hook /\ hook' = hook \ {o}
  /\ coupon' = IF coupon.status = "reserved" /\ coupon.order = o
               THEN CASE order[o].status = "paid" -> [coupon EXCEPT !.status = "used"]
                      [] order[o].status \in {"failed", "token_failed", "cancelled", "rejected"}
                           -> [status |-> "ready", order |-> "none"]
                      [] OTHER -> coupon
               ELSE coupon
  /\ UNCHANGED <<order, init, pay, ask, entitlements, refund, closed, now, age, drops>>

\* _reconcile_referral_order swallows every error, and the process may be lost.
LoseHook(o) ==
  /\ o \in hook /\ drops < MaxDrops
  /\ drops' = drops + 1 /\ hook' = hook \ {o}
  /\ UNCHANGED <<order, init, pay, ask, entitlements, coupon, refund, closed, now, age>>

\* create_refund_request: one per paid order.
RequestRefund(o) ==
  /\ "refunds" \in Features /\ order[o].status = "paid" /\ refund[o] = "none"
  /\ refund' = [refund EXCEPT ![o] = "requested"]
  /\ UNCHANGED <<order, init, pay, ask, entitlements, coupon, hook, closed, now, age, drops>>

\* decide_refund_request: approve or reject once, then complete; the order is left alone.
DecideRefund(o) ==
  /\ \/ refund[o] = "requested"
        /\ \E decision \in {"approved", "rejected"} : refund' = [refund EXCEPT ![o] = decision]
     \/ refund[o] = "approved" /\ refund' = [refund EXCEPT ![o] = "completed"]
  /\ UNCHANGED <<order, init, pay, ask, entitlements, coupon, hook, closed, now, age, drops>>

\* close_user_account, and admin_close_user_account.
CloseAccount ==
  /\ ~closed /\ closed' = TRUE
  /\ order' = [o \in Orders |->
       IF order[o].status \in (IF order[o].channel = "manual" THEN {"pending"}
                               ELSE {"created", "pending", "token_failed"})
       THEN [order[o] EXCEPT !.status = "cancelled"] ELSE order[o]]
  /\ period' = [s \in Sources |-> Cancelled(period[s])]
  /\ credit' = 0
  /\ coupon' = IF coupon.status = "ready" THEN [coupon EXCEPT !.status = "void"] ELSE coupon
  /\ UNCHANGED <<init, pay, ask, granted, hook, refund, now, age, drops>>

-----------------------------------------------------------------------------
Checkout(o) == CreateOrder(o) \/ CheckoutOpens(o) \/ CheckoutFails(o)
Provider(o) == Payer(o) \/ ReviewEnds(o) \/ PaytrCallback(o)
Reconciliation(o) == Reconcile(o) \/ Expires(o)
Notified(h, o) == Callback(h, o) \/ Webhook(h, o)
Applies(h) == MarkMethod(h) \/ Settle(h)
Operator(o) == ApproveManual(o) \/ RejectManual(o) \/ DecideRefund(o)

Next ==
  \/ \E o \in Orders : \/ Checkout(o) \/ Provider(o) \/ Reconciliation(o) \/ Operator(o)
                       \/ RunHook(o) \/ LoseHook(o) \/ RequestRefund(o)
  \/ \E h \in Requests, o \in Orders : Notified(h, o)
  \/ \E h \in Handlers : Applies(h) \/ Drop(h)
  \/ CancelSubscription \/ AdminGrant \/ CloseAccount \/ Tick

Spec == Init /\ [][Next]_vars

\* A handler that runs goes on; PayTR repeats its notification until it is
\* answered; the hourly run comes back to an order for as long as it is in its
\* window.
LiveSpec ==
  /\ Spec
  /\ \A h \in Handlers : WF_vars(Applies(h))
  /\ \A o \in Orders : WF_vars(PaytrCallback(o)) /\ SF_vars(Reconcile(o))

-----------------------------------------------------------------------------
(* Properties.                                                             *)

(* Callback, webhook, reconciliation, repeated notifications and repeated  *)
(* approvals activate an order exactly once when it is paid, and never     *)
(* otherwise.                                                              *)
ActivatedOnce ==
  \A o \in Orders : granted[o] = IF order[o].status = "paid" THEN 1 ELSE 0

(* "A user never has two active rows" (_activate_purchase), whatever       *)
(* renewals, changes of package, cancellations, administrator grants and   *)
(* closures came before.                                                   *)
OneActiveRow ==
  \A s, t \in Sources : period[s].status = "active" /\ period[t].status = "active" => s = t

(* No two periods that still grant access overlap, whichever instants the  *)
(* renewals, changes of package and grants were decided with: what is paid *)
(* for early is queued behind what runs.                                   *)
PeriodsDisjoint ==
  \A s, t \in Open : s # t =>
    period[s].ends <= period[t].starts \/ period[t].ends <= period[s].starts

(* "Renewing the same package early stacks the new period after every      *)
(* period already paid for, so no paid day or allowance is lost"           *)
(* (_activate_purchase): a payment for a package takes no open period of   *)
(* the same package away.                                                  *)
NoPaidDayLost ==
  [][\A o \in Orders, s \in Open :
       granted'[o] # granted[o] /\ period[s].plan = order[o].plan => s \in Open']_vars

\* Begun: a row whose first day has come, in force still or not.
Begun == {s \in Sources : period[s].status # "none" /\ period[s].starts <= now}
Entitles == INSTANCE PlanContract WITH running <- Running, past <- Begun \ Running

(* _active_subscription never has to choose: one purchase at most is in    *)
(* force, and one that ended, was replaced or was cancelled is never in    *)
(* force again, whatever is renewed, approved twice, granted or closed.    *)
EndedForGood == Entitles!Spec

(* An iyzico order is paid only with a method the provider proved, by its  *)
(* card fields or its signed event: the buyer's intent is never enough.    *)
PaidIsProven ==
  \A o \in Orders :
    order[o].status = "paid" /\ order[o].channel = "iyzico" => order[o].method # "unknown"

(* One coupon discounts at most one purchase that is paid, though failed   *)
(* and cancelled orders give it back and hooks run late or not at all.     *)
CouponOnce ==
  LET spent == {o \in Orders : order[o].status = "paid" /\ order[o].discounted}
  IN Cardinality(spent) <= 1

(* An order that failed, was cancelled or was rejected is never paid, nor  *)
(* activated, by an answer that arrives late.                              *)
SettledIsFinal ==
  [][\A o \in Orders :
       order[o].status \in {"failed", "token_failed", "cancelled", "rejected"}
         => order'[o].status # "paid" /\ granted'[o] = granted[o]]_vars

(* A card payment that passed iyzico's review, and a PayTR payment, is     *)
(* honoured although every callback is lost and passes of the hourly run   *)
(* are cut short, unless the account is closed first, the order already    *)
(* records another method, or the order leaves the hourly run's window.    *)
PaymentHonoured ==
  \A o \in Orders :
    (pay[o].state = "success" /\ pay[o].by = "card")
      ~> \/ order[o].status \in {"paid", "cancelled"} \/ order[o].method = "transfer"
         \/ age[o] = "old" \/ (age[o] = "late" /\ order[o].status = "created")
=============================================================================
