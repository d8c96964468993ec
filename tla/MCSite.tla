------------------------------- MODULE MCSite -------------------------------
(***************************************************************************)
(* Instances of the pages beside the workspace, for TLC. What every        *)
(* visitor meets: consent with analytics and ads, the rewarded ad, the     *)
(* account pages and the checkout; and what a student works with beside    *)
(* the analysis itself: the choice of outputs, the shown result, the       *)
(* library of lessons and the assistant. They share no variable of the     *)
(* browser, so a behaviour is about one of them.                           *)
(***************************************************************************)
EXTENDS Integers, Sequences, TLC

CONSTANTS
  Users, MaxSessions, MaxCalls, MaxPolls,
  Currencies, Lira, Bad, MaxLoads, MaxSelections, PlanKinds, Accounts, Capabilities, Needs,
  Decisions,
  Folders, Names, Lessons, MaxRemote,
  Students, Questions, MaxAsks, MaxSwitches, MaxOpens, MaxFiles,
  Limits, FreePlan, Results,
  None, Off

Purposes == {"analytics_storage", "ad_storage", "ad_personalization"}

\* A visitor decides on purposes, and None is no such decision.
ASSUME DecisionsArePurposes == Decisions \subseteq SUBSET Purposes /\ \A d \in SUBSET Purposes : d # None

\* None is no outcome of an ad, and no way in which it ends.
ASSUME NoneIsNoOutcome ==
  /\ None \notin {"true", "false", "error"}
  /\ None \notin [result : {"true", "false", "error"}, abandon : BOOLEAN]

\* None is no user and no number of a session.
ASSUME NoneIsNoSession == None \notin Users /\ None \notin Nat

\* What the server says that it can do, and what the cards and the panel say.
ASSUME CapabilitiesAreFlags ==
  Capabilities \subseteq [card : SUBSET Currencies, protected : BOOLEAN, manual : BOOLEAN, commerce : BOOLEAN,
                          assistant : BOOLEAN]
ASSUME NoneIsNoSelection ==
  /\ None \notin {"fits", "insufficient"}
  /\ None \notin [id : Nat, plan : DOMAIN PlanKinds, interval : {"monthly", "annual", "one_time"}, cur : Currencies,
                  completed : BOOLEAN, notice : {"none", "fixed", "stacked", "replaced", "replaced_queued"}]

\* What the entitlements of an account are.
ASSUME PlansAreLimits == Limits \cup {FreePlan} \subseteq [quiz : Nat, cards : Nat, precise : BOOLEAN]

\* None is no user, no number and no request whose outcome is open.
ASSUME NoneIsNoRequest ==
  /\ None \notin Students /\ None \notin Nat
  /\ None \notin [sig : Questions \X {"chat", "image"} \X BOOLEAN, id : Nat]

VARIABLES
  part,  \* the part of the site that this behaviour is about
  store, event, cmp, decision, gdpr, said, missed, told, ads, sends,
  phase, late, expired, slot, queue, broken, finishing, adResult, slotOpen, reports, claims,
  credited, enabled,
  session, owner, valid, guest, saved, accPage, accCalls, notified, shown, polls, next,
  ousted,
  token, need, requested, currency, savedCurrency, version, loading, fresh, loads, catalog, cards,
  caps, account, selection, request, orders, panel, buttons, locked, left, acked,
  on, count, formats, chosen, limit, plan, same, kept,
  result, items, answers, score, answered, pane, card, revealed,
  server, state, loaded, folder, call, remote, confirmed,
  stored, page, calls, trials, asked, run, wallet, charged, switches, opens, files

SomeDecisions == {{}, {"ad_storage"}, Purposes}
SomeKinds == [plus |-> "subscription", ai |-> "assistant", ad_free |-> "ad_free",
              free |-> "free", business |-> "business"]
SomeAccounts == {[plan |-> "plus", sub |-> TRUE, queued |-> TRUE, adfree |-> TRUE],
                 [plan |-> "free", sub |-> FALSE, queued |-> FALSE, adfree |-> FALSE]}
SomeCaps == {[card |-> Currencies, protected |-> FALSE, manual |-> TRUE, commerce |-> TRUE, assistant |-> TRUE],
             [card |-> {Lira}, protected |-> TRUE, manual |-> FALSE, commerce |-> TRUE, assistant |-> FALSE]}
SomeNeeds == {[minutes |-> <<30>>, pages |-> <<40>>], [minutes |-> <<Bad>>, pages |-> <<>>]}

Free == [quiz |-> 10, cards |-> 20, precise |-> FALSE]
SomePlans == {[quiz |-> 3, cards |-> 20, precise |-> FALSE],
              [quiz |-> 20, cards |-> 40, precise |-> FALSE],
              [quiz |-> 99, cards |-> 99, precise |-> TRUE]}
\* Two results; the answer to the second's question is unknown.
SomeResults ==
  {[quiz |-> <<[id |-> 1, options |-> <<11, 12, 13>>, answer_index |-> 2],
               [id |-> 2, options |-> <<21, 22>>, answer_index |-> 0]>>,
    cards |-> 2, panes |-> {"summary", "quiz", "cards"}],
   [quiz |-> <<[id |-> 3, options |-> <<31, 32>>, answer_index |-> -1]>>,
    cards |-> 0, panes |-> {"quiz", "files"}]}

Priv == INSTANCE Privacy WITH
  Analytics <- "analytics_storage", AdStorage <- "ad_storage", Personal <- "ad_personalization"
Ad == INSTANCE RewardedAd WITH result <- adResult
Acc == INSTANCE Account WITH stored <- session, page <- accPage, calls <- accCalls
Shop == INSTANCE Checkout WITH saved <- savedCurrency, calls <- orders
Pack == INSTANCE StudyPack WITH Plans <- Limits
View == INSTANCE ResultView WITH Nothing <- None
Lib == INSTANCE Library
Asst == INSTANCE Assistant WITH Users <- Students

\* A pack's questions are told apart, and so are the options of a question.
ASSUME ResultsAreLessons ==
  /\ None \notin Results
  /\ \A r \in Results :
       /\ r.quiz \in Seq([id : Int, options : Seq(Int), answer_index : Int])
       /\ r.cards \in Nat /\ r.panes \subseteq View!Panes
       /\ \A i, j \in DOMAIN r.quiz : r.quiz[i].id = r.quiz[j].id => i = j
       /\ \A i \in DOMAIN r.quiz : \A a, b \in DOMAIN r.quiz[i].options :
            r.quiz[i].options[a] = r.quiz[i].options[b] => a = b

\* The variables of the parts that are not open hold nothing.
PrivOff ==
  /\ store = Off /\ event = Off /\ cmp = Off /\ decision = Off /\ gdpr = Off /\ said = Off
  /\ missed = Off /\ told = Off /\ ads = Off /\ sends = Off
AdOff ==
  /\ phase = Off /\ late = Off /\ expired = Off /\ slot = Off /\ queue = Off /\ broken = Off
  /\ finishing = Off /\ adResult = Off /\ slotOpen = Off /\ reports = Off /\ claims = Off
  /\ credited = Off /\ enabled = Off
AccOff ==
  /\ session = Off /\ owner = Off /\ valid = Off /\ guest = Off
  /\ saved = Off /\ accPage = Off /\ accCalls = Off /\ notified = Off /\ shown = Off /\ polls = Off
  /\ next = Off /\ ousted = Off
ShopOff ==
  /\ token = Off /\ need = Off /\ requested = Off /\ currency = Off /\ savedCurrency = Off
  /\ version = Off /\ loading = Off /\ fresh = Off /\ loads = Off /\ catalog = Off /\ cards = Off
  /\ caps = Off /\ account = Off /\ selection = Off /\ request = Off /\ orders = Off /\ panel = Off
  /\ buttons = Off /\ locked = Off /\ left = Off /\ acked = Off
PackOff ==
  /\ on = Off /\ count = Off /\ formats = Off /\ chosen = Off /\ limit = Off /\ plan = Off
  /\ same = Off /\ kept = Off
ViewOff ==
  /\ result = Off /\ items = Off /\ answers = Off /\ score = Off /\ answered = Off /\ pane = Off
  /\ card = Off /\ revealed = Off
LibOff ==
  /\ server = Off /\ state = Off /\ loaded = Off /\ folder = Off /\ call = Off /\ remote = Off
  /\ confirmed = Off
AsstOff ==
  /\ stored = Off /\ page = Off /\ calls = Off /\ trials = Off /\ asked = Off /\ run = Off
  /\ wallet = Off /\ charged = Off /\ switches = Off /\ opens = Off /\ files = Off

privVars == <<store, event, cmp, decision, gdpr, said, missed, told, ads, sends>>
adVars == <<phase, late, expired, slot, queue, broken, finishing, adResult, slotOpen, reports, claims,
            credited, enabled>>
accVars == <<session, owner, valid, guest, saved, accPage, accCalls, notified, shown,
             polls, next, ousted>>
shopVars == <<token, need, requested, currency, savedCurrency, version, loading, fresh, loads,
              catalog, cards, caps, account, selection, request, orders, panel, buttons, locked,
              left, acked>>
packVars == <<on, count, formats, chosen, limit, plan, same, kept>>
viewVars == <<result, items, answers, score, answered, pane, card, revealed>>
libVars == <<server, state, loaded, folder, call, remote, confirmed>>
asstVars == <<stored, page, calls, trials, asked, run, wallet, charged, switches, opens, files>>
vars == <<part, privVars, adVars, accVars, shopVars,
          packVars, viewVars, libVars, asstVars>>

Init ==
  \/ /\ part = "privacy" /\ Priv!Init
     /\ AdOff /\ AccOff /\ ShopOff /\ PackOff /\ ViewOff /\ LibOff /\ AsstOff
  \/ /\ part = "rewarded" /\ Ad!Init
     /\ PrivOff /\ AccOff /\ ShopOff /\ PackOff /\ ViewOff /\ LibOff /\ AsstOff
  \/ /\ part = "account" /\ Acc!Init
     /\ PrivOff /\ AdOff /\ ShopOff /\ PackOff /\ ViewOff /\ LibOff /\ AsstOff
  \/ /\ part = "checkout" /\ Shop!Init
     /\ PrivOff /\ AdOff /\ AccOff /\ PackOff /\ ViewOff /\ LibOff /\ AsstOff
  \/ /\ part = "pack" /\ Pack!Init
     /\ PrivOff /\ AdOff /\ AccOff /\ ShopOff /\ ViewOff /\ LibOff /\ AsstOff
  \/ /\ part = "result" /\ View!Init
     /\ PrivOff /\ AdOff /\ AccOff /\ ShopOff /\ PackOff /\ LibOff /\ AsstOff
  \/ /\ part = "library" /\ Lib!Init
     /\ PrivOff /\ AdOff /\ AccOff /\ ShopOff /\ PackOff /\ ViewOff /\ AsstOff
  \/ /\ part = "assistant" /\ Asst!Init
     /\ PrivOff /\ AdOff /\ AccOff /\ ShopOff /\ PackOff /\ ViewOff /\ LibOff

Next ==
  \/ /\ part = "privacy" /\ Priv!Next
     /\ UNCHANGED <<part, adVars, accVars, shopVars, packVars, viewVars, libVars, asstVars>>
  \/ /\ part = "rewarded" /\ Ad!Next
     /\ UNCHANGED <<part, privVars, accVars, shopVars, packVars, viewVars, libVars, asstVars>>
  \/ /\ part = "account" /\ Acc!Next
     /\ UNCHANGED <<part, privVars, adVars, shopVars, packVars, viewVars, libVars, asstVars>>
  \/ /\ part = "checkout" /\ Shop!Next
     /\ UNCHANGED <<part, privVars, adVars, accVars, packVars, viewVars, libVars, asstVars>>
  \/ /\ part = "pack" /\ Pack!Next
     /\ UNCHANGED <<part, privVars, adVars, accVars, shopVars, viewVars, libVars, asstVars>>
  \/ /\ part = "result" /\ View!Next
     /\ UNCHANGED <<part, privVars, adVars, accVars, shopVars, packVars, libVars, asstVars>>
  \/ /\ part = "library" /\ Lib!Next
     /\ UNCHANGED <<part, privVars, adVars, accVars, shopVars, packVars, viewVars, asstVars>>
  \/ /\ part = "assistant" /\ Asst!Next
     /\ UNCHANGED <<part, privVars, adVars, accVars, shopVars, packVars, viewVars, libVars>>

Spec == Init /\ [][Next]_vars

\* Two users of the account pages are alike.
Alike == Permutations(Users)

-----------------------------------------------------------------------------
\* consent.js keeps the visitor's word and the scripts keep to it:
\* ConsentKept of Privacy.
ConsentKept == part = "privacy" => Priv!ConsentKept

\* A reward is claimed once, after the ad was watched to the end and reported
\* in order: RewardSound of RewardedAd.
RewardSound == part = "rewarded" => Ad!RewardSound

\* auth.js never mixes two sessions: SessionsApart of Account.
SessionsApart == part = "account" => Acc!SessionsApart

\* plans.js orders what the visitor saw: OrderedAsShown of Checkout.
OrderedAsShown == part = "checkout" => Shop!OrderedAsShown

\* app.js asks for what the preset says and the loaded plan allows:
\* PackAsPlanned of StudyPack.
PackAsPlanned == part = "pack" => Pack!PackAsPlanned

\* app.js scores what was answered: ScoreIsTrue of ResultView.
ScoreIsTrue == part = "result" => View!ScoreIsTrue

\* library.js never goes back on a confirmed change: ConfirmedStays of
\* Library.
ConfirmedStays == part = "library" => Lib!ConfirmedStays

\* assistant.js applies answers to the session and the question they belong
\* to: AssistantInOrder of Assistant.
AssistantInOrder == part = "assistant" => Asst!AssistantInOrder
=============================================================================
