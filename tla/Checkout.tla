------------------------------ MODULE Checkout ------------------------------
(***************************************************************************)
(* The plans page (plans.js): the catalog of the chosen currency, the      *)
(* capacity hints on its cards and one order at a time. Catalog loads of   *)
(* several currencies, the account and order calls are answered in any     *)
(* order while the visitor picks a currency, a plan or closes the panel.   *)
(***************************************************************************)
EXTENDS Integers, Sequences, FiniteSets

CONSTANTS
  Currencies,     \* selectable currencies; the one of bank transfers is Lira
  Lira,
  PlanKinds,      \* catalog codes and their kinds
  Accounts,       \* [plan, sub, queued, adfree] of a signed-in visitor
  Capabilities,   \* [card: SUBSET Currencies, protected, manual, commerce, assistant]
  Needs,          \* query parameters of the page: [Keys -> Seq(Nat \cup {Bad})]
  Bad,            \* a parameter that is not a number
  None,
  MaxLoads, MaxSelections

Keys == {"minutes", "pages"}
Plans == DOMAIN PlanKinds

VARIABLES
  token,      \* a session token is stored
  need,       \* documentNeed
  requested,  \* the plan the page's address asks for
  currency, saved,
  version, loading, fresh, loads,
  catalog,    \* [cur, live, assistant]: what is offered and whether the server sent it
  cards,      \* capacity notices as last drawn
  caps, account,
  selection,  \* checkoutSelection: [id, plan, interval, cur, completed, notice]
  request,    \* selection id of checkoutRequest
  calls,      \* order calls and account refreshes in flight
  panel, buttons, locked,
  left,       \* where the page has gone
  acked       \* history: acknowledged orders by selection

catalogVars == <<currency, saved, version, loading, fresh, loads, catalog, cards, caps, account, requested>>
checkoutVars == <<selection, request, calls, panel, buttons, locked, left, acked>>
vars == <<token, need, catalogVars, checkoutVars>>

-----------------------------------------------------------------------------
(* Capacity hints *)

\* One query parameter: given once, a number, within its maximum.
Read(values, maximum) ==
  IF Len(values) = 1 /\ values[1] # Bad /\ values[1] \in 0 .. maximum THEN values[1] ELSE None

MeasuredDocumentNeed(params) ==
  LET n == [k \in Keys |-> Read(params[k], 1000000)]
  IN IF n.minutes = None \/ n.minutes = 0 THEN None ELSE n

\* What a live catalog says of a plan; a field may be missing.
Entitled(p) == IF PlanKinds[p] = "subscription" THEN [minutes |-> 60, pages |-> 50] ELSE [minutes |-> 20, pages |-> None]

DocumentPlanCapacity(p, isFresh) ==
  LET known(k) == isFresh /\ need[k] # None /\ Entitled(p)[k] # None
  IN IF need = None THEN None
     ELSE IF \E k \in Keys : known(k) /\ need[k] > Entitled(p)[k] THEN "insufficient"
     ELSE IF \A k \in Keys : known(k) THEN "fits" ELSE "check"

RenderPlans(isFresh) == [p \in Plans |-> DocumentPlanCapacity(p, isFresh)]

-----------------------------------------------------------------------------
(* Opening the checkout *)

Intervals(p) == IF PlanKinds[p] = "subscription" THEN {"monthly", "annual"} ELSE {"one_time"}

\* What the summary says of the term that is bought.
Notice(p, acc) ==
  IF PlanKinds[p] # "subscription" THEN "none"
  ELSE IF acc = None THEN "fixed"
  ELSE IF acc.sub /\ acc.plan = p THEN "stacked"
  ELSE IF acc.sub THEN (IF acc.queued THEN "replaced_queued" ELSE "replaced")
  ELSE "fixed"

\* updateCheckoutButtons: the enabled buttons under these capabilities.
UpdateCheckoutButtons(sel, req, cs) ==
  IF sel = None \/ req # None \/ ~cs.commerce THEN {}
  ELSE IF sel.completed THEN {}
  ELSE (IF sel.cur \in cs.card THEN {"card"} ELSE {})
       \cup (IF cs.protected /\ sel.cur = Lira THEN {"protected"} ELSE {})
       \cup (IF cs.manual /\ sel.cur = Lira THEN {"manual"} ELSE {})

\* buy(): p, i under a catalog, an account and capabilities that may have been
\* loaded in this very step.
Buy(p, i, cat, acc, cs) ==
  LET owned == acc # None /\ acc.adfree
      refused == \/ PlanKinds[p] = "ad_free" /\ (~cat.live \/ owned)
                 \/ PlanKinds[p] = "assistant" /\ ~cat.assistant
      payable == currency \in cs.card \/ (currency = Lira /\ (cs.protected \/ cs.manual))
      sel == [id |-> Len(acked) + 1, plan |-> p, interval |-> i, cur |-> currency,
              completed |-> FALSE, notice |-> Notice(p, acc)]
  IN IF PlanKinds[p] = "business"
     THEN left' = [to |-> "contact"] /\ UNCHANGED <<selection, request, calls, panel, buttons, locked, acked>>
     ELSE IF PlanKinds[p] = "free"
     THEN left' = [to |-> IF token /\ (acc = None \/ acc.plan # "guest") THEN "workspace" ELSE "register"]
          /\ UNCHANGED <<selection, request, calls, panel, buttons, locked, acked>>
     ELSE IF cat.cur # currency \/ refused THEN UNCHANGED checkoutVars
     ELSE IF ~token
     THEN left' = [to |-> "register", plan |-> p, interval |-> i, cur |-> cat.cur]
          /\ UNCHANGED <<selection, request, calls, panel, buttons, locked, acked>>
     ELSE IF ~payable THEN UNCHANGED checkoutVars
     ELSE /\ sel.id <= MaxSelections
          /\ selection' = sel /\ locked' = TRUE /\ panel' = "form"
          /\ buttons' = UpdateCheckoutButtons(sel, request, cs)
          /\ acked' = Append(acked, 0)
          /\ UNCHANGED <<request, calls, left>>

-----------------------------------------------------------------------------
(* The catalog *)

Init ==
  /\ token \in BOOLEAN
  /\ need \in {MeasuredDocumentNeed(n) : n \in Needs}
  /\ requested \in {None} \cup {p \in Plans : PlanKinds[p] = "subscription"}
  /\ currency \in Currencies /\ saved = None
  /\ version = 1 /\ loading = TRUE /\ fresh = FALSE
  /\ loads = {[v |-> 1, cur |-> currency, stage |-> "all", assistant |-> FALSE]}
  /\ catalog = [cur |-> currency, live |-> FALSE, assistant |-> FALSE]
  /\ cards = RenderPlans(FALSE)
  /\ caps = [card |-> {}, protected |-> FALSE, manual |-> FALSE, commerce |-> FALSE]
  /\ account = None
  /\ selection = None /\ request = None /\ calls = {}
  /\ panel = "hidden" /\ buttons = {} /\ locked = FALSE /\ left = None /\ acked = <<>>

\* The select's change handler, and load() up to its first await.
ChangeCurrency(c) ==
  /\ ~locked /\ c # currency /\ version < MaxLoads
  /\ currency' = c /\ saved' = c
  /\ version' = version + 1 /\ loading' = TRUE /\ fresh' = FALSE
  /\ loads' = loads \cup {[v |-> version + 1, cur |-> c, stage |-> "all", assistant |-> FALSE]}
  /\ UNCHANGED <<token, need, requested, catalog, cards, caps, account, checkoutVars>>

\* Mutant: every catalog load takes effect.
NeverOutdated(l) == FALSE
Outdated(l) == l.v # version

\* A load that is no longer the newest ends without effect.
LoadDropped(l) ==
  /\ l \in loads /\ Outdated(l)
  /\ loads' = loads \ {l}
  /\ UNCHANGED <<token, need, requested, currency, saved, version, loading, fresh, catalog, cards, caps, account, checkoutVars>>

\* The four answers: capabilities are kept from a failed call, except manual
\* transfers, which a failed call switches off.
Answered(cs, provided, transferred) ==
  [card |-> IF provided THEN cs.card ELSE caps.card,
   protected |-> IF provided THEN cs.protected ELSE caps.protected,
   commerce |-> IF provided THEN cs.commerce ELSE caps.commerce,
   manual |-> transferred /\ cs.manual]

CatalogReply(l, cs, provided, transferred) ==
  /\ l \in loads /\ ~Outdated(l) /\ l.stage = "all"
  /\ caps' = Answered(cs, provided, transferred)
  /\ loads' = (loads \ {l}) \cup {[l EXCEPT !.stage = "me", !.assistant = cs.assistant]}
  /\ UNCHANGED <<token, need, requested, currency, saved, version, loading, fresh, catalog, cards, account, checkoutVars>>

\* Without plans the previous catalog stays, and with it its currency.
CatalogFails(l, cs, provided, transferred) ==
  /\ l \in loads /\ ~Outdated(l) /\ l.stage = "all"
  /\ caps' = Answered(cs, provided, transferred)
  /\ loads' = loads \ {l} /\ loading' = FALSE
  /\ currency' = catalog.cur
  /\ saved' = IF catalog.cur # currency THEN catalog.cur ELSE saved
  /\ cards' = RenderPlans(fresh)
  /\ UNCHANGED <<token, need, requested, version, fresh, catalog, account, checkoutVars>>

\* The account, or none, arrived: the catalog is shown and a plan named in the
\* page's address is opened once.
CatalogShown(l, acc) ==
  /\ l \in loads /\ ~Outdated(l) /\ l.stage = "me"
  /\ loads' = loads \ {l} /\ loading' = FALSE /\ fresh' = TRUE
  /\ catalog' = [cur |-> l.cur, live |-> TRUE, assistant |-> l.assistant]
  /\ account' = acc /\ cards' = RenderPlans(TRUE)
  /\ requested' = None
  /\ IF requested = None THEN UNCHANGED checkoutVars
     ELSE \E i \in Intervals(requested) : Buy(requested, i, catalog', acc, caps)
  /\ UNCHANGED <<token, need, currency, saved, version, caps>>

\* A click on a plan; the buttons are disabled while a catalog is loading.
BuyClicked(p, i) ==
  /\ ~loading
  /\ Buy(p, i, catalog, account, caps)
  /\ checkoutVars' # checkoutVars
  /\ UNCHANGED <<token, need, catalogVars>>

-----------------------------------------------------------------------------
(* The checkout panel *)

CloseCheckout ==
  /\ panel # "hidden"
  /\ selection' = None /\ locked' = FALSE /\ panel' = "hidden"
  /\ UNCHANGED <<token, need, catalogVars, request, calls, buttons, left, acked>>

ShowBankTransferGuide ==
  /\ panel = "form" /\ "protected" \in buttons /\ panel' = "guide"
  /\ UNCHANGED <<token, need, catalogVars, selection, request, calls, buttons, locked, left, acked>>

HideBankTransferGuide ==
  /\ panel = "guide" /\ panel' = "form"
  /\ UNCHANGED <<token, need, catalogVars, selection, request, calls, buttons, locked, left, acked>>

Orderable(method) ==
  /\ selection # None /\ request = None
  /\ method \in buttons /\ panel = IF method = "protected" THEN "guide" ELSE "form"

\* startHostedCheckout and createTransfer up to the call.
PlaceOrder(method) ==
  /\ Orderable(method)
  /\ request' = selection.id
  /\ buttons' = {}
  /\ calls' = calls \cup {[kind |-> "order", id |-> selection.id, method |-> method, plan |-> selection.plan,
                           interval |-> selection.interval, cur |-> selection.cur]}
  /\ UNCHANGED <<token, need, catalogVars, selection, panel, locked, left, acked>>

StillSelected(c) == selection # None /\ selection.id = c.id

\* The end of every order call: the request is over, whoever is selected now.
Finished(c, sel) ==
  /\ request' = IF request = c.id THEN None ELSE request
  /\ buttons' = UpdateCheckoutButtons(sel, request', caps)

OrderFails(c) ==
  /\ c \in calls /\ c.kind = "order"
  /\ calls' = calls \ {c}
  /\ Finished(c, selection)
  /\ UNCHANGED <<token, need, catalogVars, selection, panel, locked, left, acked>>

\* The order exists, but another selection, or none, is on the page.
OrderUnseen(c) ==
  /\ c \in calls /\ c.kind = "order" /\ ~StillSelected(c)
  /\ calls' = calls \ {c}
  /\ Finished(c, selection)
  /\ UNCHANGED <<token, need, catalogVars, selection, panel, locked, left, acked>>

Acknowledged(c) == acked' = [acked EXCEPT ![c.id] = @ + 1]

HostedReply(c, redirect) ==
  LET sel == [selection EXCEPT !.completed = TRUE]
  IN /\ c \in calls /\ c.kind = "order" /\ c.method # "manual" /\ StillSelected(c)
     /\ calls' = calls \ {c} /\ selection' = sel
     /\ panel' = IF redirect THEN panel ELSE "frame"
     /\ left' = IF redirect THEN [to |-> "provider", plan |-> c.plan] ELSE left
     /\ Finished(c, sel) /\ Acknowledged(c)
     /\ UNCHANGED <<token, need, catalogVars, locked>>

\* A transfer order: its panel replaces the checkout, the currency is free
\* again and the account is read once more.
TransferShown(c) ==
  /\ calls' = (calls \ {c}) \cup {[kind |-> "me", id |-> c.id]}
  /\ selection' = [selection EXCEPT !.completed = TRUE]
  /\ panel' = "hidden" /\ locked' = FALSE
  /\ Finished(c, selection') /\ Acknowledged(c)
  /\ UNCHANGED <<token, need, catalogVars, left>>

TransferReply(c) ==
  /\ c \in calls /\ c.kind = "order" /\ c.method = "manual" /\ StillSelected(c)
  /\ TransferShown(c)

TransferAccount(c, acc) ==
  /\ c \in calls /\ c.kind = "me"
  /\ calls' = calls \ {c}
  /\ account' = IF StillSelected(c) /\ acc # None THEN acc ELSE account
  /\ buttons' = UpdateCheckoutButtons(selection, request, caps)
  /\ UNCHANGED <<token, need, requested, currency, saved, version, loading, fresh, loads, catalog, cards, caps,
                 selection, request, panel, locked, left, acked>>

Next ==
  /\ left = None
  /\ \/ \E c \in Currencies : ChangeCurrency(c)
     \/ \E l \in loads : LoadDropped(l)
     \/ \E l \in loads, cs \in Capabilities, pr, tr \in BOOLEAN : CatalogReply(l, cs, pr, tr)
     \/ \E l \in loads, cs \in Capabilities, pr, tr \in BOOLEAN : CatalogFails(l, cs, pr, tr)
     \/ \E l \in loads : \E acc \in IF token THEN Accounts \cup {None} ELSE {None} : CatalogShown(l, acc)
     \/ \E p \in Plans : \E i \in Intervals(p) : BuyClicked(p, i)
     \/ CloseCheckout \/ ShowBankTransferGuide \/ HideBankTransferGuide
     \/ \E m \in {"card", "protected", "manual"} : PlaceOrder(m)
     \/ \E c \in calls : OrderFails(c) \/ OrderUnseen(c) \/ TransferReply(c)
     \/ \E c \in calls, redirect \in BOOLEAN : HostedReply(c, redirect)
     \/ \E c \in calls : \E acc \in Accounts \cup {None} : TransferAccount(c, acc)

Spec == Init /\ [][Next]_vars

-----------------------------------------------------------------------------
Orders == {c \in calls : c.kind = "order"}

\* What is ordered is what the page shows. While the panel is open its
\* selection is in the page's currency and that is the catalog's, its term
\* notice is the one of the account on the page, and every order in flight for
\* it asks for exactly it. One order call runs at a time; bank transfers are in
\* liras; no selection is acknowledged twice, however calls, closed panels and
\* new selections cross. Without a load in flight the cards are in the page's
\* currency, and a capacity is confirmed only from the server's own catalog.
OrderedAsShown ==
  /\ panel # "hidden" =>
       /\ selection # None
       /\ ~loading /\ selection.cur = currency /\ catalog.cur = currency
       /\ selection.notice = Notice(selection.plan, account)
       /\ \A c \in Orders : c.id = selection.id => c.plan = selection.plan /\ c.interval = selection.interval
                                                   /\ c.cur = selection.cur
  /\ Cardinality(Orders) <= 1
  /\ \A c \in Orders : c.method # "card" => c.cur = Lira
  /\ \A s \in DOMAIN acked : acked[s] <= 1
  /\ ~loading => catalog.cur = currency
  /\ \A p \in Plans : cards[p] \in {"fits", "insufficient"} => catalog.live
  /\ left # None /\ "cur" \in DOMAIN left => left.cur = currency
=============================================================================
