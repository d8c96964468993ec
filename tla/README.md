# A TLA+ verification of LectureSift

LectureSift turns uploaded lectures into study packs. A FastAPI process accepts
uploads, sells subscriptions and credits and answers the site assistant; Celery
workers process the uploads; Redis holds job records, messages and locks;
PostgreSQL holds accounts, orders, subscriptions, usage and credits; an
S3-compatible store keeps sources and results. The site's pages are plain
scripts in the browser: each keeps its own state in variables, local and session
storage, and talks to the API with calls whose answers come in any order. This
project models the parts in which several actors meet in the same state, on the
server and in the pages, checks them with TLC on small instances and proves
every safety property of the passing runs with TLAPS for instances of any size
(two of them for jobs whose message is delivered once, see section 5).

## 1. Inventory

| Component | State | Operations | Meets |
|---|---|---|---|
| Job lifecycle: `jobs.py`, `tasks.py`, `durable_runtime.py`, `queue.py`, `pipeline.py`, `storage.py` | job record, per-job processing lock, broker message, sources and published copy | create, dispatch, deliver, retry, process, meter, publish, time limits, sweep, delete, purge, recover | usage rows, failure notices, account closure |
| Purchases: `payments.py`, `billing_service.py`, `rollout_service.py` | orders, provider sessions, subscription rows, credit, refund requests | checkout, callback, webhook, reconciliation, manual approval, activation, cancellation, refund, closure | coupon (`referrals.py`), wallet (`_sync` reads orders and the running subscription) |
| Assistant wallet: `assistant_wallet.py`, with `site_assistant.py`, `assistant_images.py`, `workspace_state.py` | dated grants, request rows, the daily budget | reserve, settle, status, guest turn, administrator's grant, cache pruning, closure | purchases, refunds, the AI provider |
| Usage and entitlements: `billing_service.py` | usage rows, purchased minutes | check before processing, charge after it | jobs, purchases, rewards |
| Referral rewards: `referrals.py` | invitations, rewards, coupons | register, qualify, choose, release | purchases |
| Rewarded ads: `rollout_service.py` | ad sessions, shared budget | issue, event, redeem | purchased minutes |
| Guest trial and claim: `guest_claim.py` | guest identities, claim markers | create, run one job, claim | jobs, accounts |
| Notifications: `job_notifications.py`, `order_notifications.py`, `renewal_reminders.py` | notice in the job record, event rows | queue, claim, send, finish | jobs, orders |
| Accounts: `billing_service.py`, `google_signin.py` | profiles, tokens, session versions | register, verify, sign in, reset, close | everything owned |
| Workspace page: `app.js`, `rollout.js` | who the visitor is, picked sources, one analysis, the result shown, the study-pack form, quiz and cards | pick, click, upload, poll, open, ask, rate, download, answer, score | jobs and accounts through the API; other tabs through `localStorage` |
| Library: `library.js` | copy of folders and lessons, selection | save, delete, move, read again | the server's library, another device |
| Assistant window: `assistant.js` | session, pending question, attachment, balance | open, attach, ask, repeat, clear | assistant wallet through the API; other tabs |
| Consent, analytics, display ads: `consent.js`, `analytics.js`, `display-ads.js` | stored choice, view of the consent platform, what the tag was told | choose, refresh, measure, show | Google's platform, other documents |
| Rewarded ad player: `rewarded-ads.js` | slot, reports, claim | show, report, grant, close, claim | the provider's events, the API's ad sessions |
| Account pages: `auth.js` | session, guest token, kept destination | sign in, register, verify, reset, edit, sign out | accounts; other tabs |
| Plans and checkout: `plans.js` | catalog, currency, selection, order call | load, pick, order, close | purchases through the API |
| Admin console: `admin.js`, `admin-work.js` | session, sections, lists, forms, dialogs | sign in, load, search, close accounts, release, reply | everything the API reports |
| Content processing, social publishing, advertising management, translated texts, site build, deployment scripts | none of the above | | |

What makes the modelled ones hard, and what makes them correct:

* **Jobs.** Acknowledgement is late, so a message outlives its worker: it comes
  back after a crash or when its visibility timeout elapses, perhaps while the
  first delivery is still running. The processing lock is a lease that a thread
  renews. The pipeline, the worker, the main process of the worker, the sweep,
  the API thread, a deletion and an operator write the same record, each after
  a read made earlier. Correct means: one writer at a time, nothing shown that is
  not durable, nothing charged once the outcome is known, failures that stay
  failures, sources that are kept as long as they are needed, and an end for
  every delivery.
* **Purchases.** The provider's verdict is fetched without a lock and applied in
  later transactions by up to three handlers; notifications are lost, repeated
  and late; renewals are stacked, upgrades replace, administrators and the
  account's closure interfere, all by a clock read before the lock; referral hooks
  run after the commit, or never; reconciliation asks about young orders only.
  Correct means: an order is activated exactly when it is paid, once and on
  proof; what died stays dead; paid periods do not overlap and none is lost; a coupon
  pays once; a payment is honoured though every callback is lost.
* **Wallet.** A provider call runs between two transactions and may end after
  its reservation timed out, after midnight, after the plan changed, after a
  refund was asked for or after the account was closed. Correct means: no credit
  is created or lost, one provider call per request, no spending of a dead
  allowance, and a daily budget that is exact and never above its ceiling.

* **Pages.** A script runs undisturbed only to its next `await`. What it read
  before (job, token, selection, form, session version) may be replaced when it
  continues: by a click, another answer, another tab's `localStorage` or a
  deadline. Answers are lost, late and out of order, and a repeat may meet a
  call that was served. Correct means: what is shown belongs together and to the
  session and the object that is open; a choice (a sample, a refused consent, a
  selected plan, an expired confirmation) is never overtaken by an older one;
  nothing is charged, claimed, sent or ordered twice; a confirmed change stays;
  and the page becomes usable again.

`PROJECT.json` lists every component, the ones left out included, and the
hazards of this code, each at the line where it bites.

## 2. Modules

| Module | Content |
|---|---|
| `JobLifecycle` | one job: record, broker, lock, storage, usage row; all its actors |
| `JobContract` | what the owner of a lesson is promised; `JobLifecycle!KeepsContract` states that the detailed protocol implements it |
| `MCJobLifecycle` | TLC instance, with the symmetry of messages |
| `JobLifecycleProofs` | theorems about `JobLifecycle` |
| `Purchases` | one account's orders, periods, coupon and refunds, the payment provider and its handlers |
| `PlanContract` | what the purchases promise about the one in force; `Purchases!EndedForGood` states that they implement it, and `AssistantWallet!PlanChanges` relies on it |
| `MCPurchases`, `PurchasesProofs` | TLC instance and theorems |
| `AssistantWallet` | grants, requests, provider calls and the daily budget of all accounts |
| `MCAssistantWallet`, `AssistantWalletProofs` | TLC instance and theorems |
| `Workspace` | one tab of the workspace from the visitor's identity to the opened result |
| `MCWorkspace`, `WorkspaceProofs` | TLC instance and theorems |
| `StudyPack` | the settings form of a study pack under changing plans |
| `ResultView` | tabs, quiz, mock exam and cards of an opened result |
| `Library` | the lesson library beside another device |
| `Assistant` | the assistant's window across sessions |
| `StudyProofs` | theorems about the four modules above |
| `Privacy` | consent, measurement and display ads in one document |
| `RewardedAd` | one rewarded ad from the click to the claim |
| `Account` | the account pages of one tab, with another tab |
| `Checkout` | the plans page and its order panel |
| `VisitorProofs` | theorems about the four modules above |
| `MCSite` | TLC instance of these eight modules, which both proof modules extend |
| `AdminPanel` | sign-in, loading and alerts of the console |
| `AdminRecords` | its lists with filters, pages and the bulk action |
| `AdminWork` | lessons of one user and a lesson's dialog |
| `AdminReferrals` | release of referral rewards |
| `AdminDesk` | support conversations and the user's record |
| `MCAdmin`, `AdminProofs` | TLC instance of the five modules above, and theorems |

The modules of one page group share neither variables nor browser storage that their
properties speak about, so `MCSite` and `MCAdmin` do not interleave them: a variable
`part` says which module a behaviour is about, and the variables of the other modules
keep the value `Off`. One run then checks each of them on its own state space.

### JobLifecycle

`job` is the record in Redis reduced to what decisions read: status,
`worker_state`, whether it points to a durable copy, whether a failure notice is
queued. Every `JobStore` write is one step because it runs under the store's
distributed write lock. `pc[d]` is where delivery `d` of the message stands in
`process_uploaded_job`; `msg[d]` counts its retries. Each Redis write, storage
call and metering call is a step of its own, so every other actor can run
between two of them. The pipeline is one step with the outcomes the worker can
see: a local result, a transient error, a final error, a refusal. `Meter` records
the usage or does not, because `_record_billing_usage` swallows whatever goes wrong
and needs an open account. `SoftLimit` raises at any step of a delivery but that
one, which swallows it too; where no handler of the task is in charge, or one of
them has recorded a retry and not yet published it, the record stays as it is.
The hard limit is three steps of the worker's main process, in billiard's order:
`HardLimit` acknowledges the message, `OnTimeout` fails the job, `Kill` ends the
child; with `LateKill` the child goes on between them. `WorkerCrash` and `ApiCrash`
lose a process at any point; `LockExpires` frees the lock of a lost holder,
`LockLapses` the one of a live holder whose renewing thread died; `Redeliver` is
the visibility timeout.

### Purchases

`order[o]` is a row of `payment_orders` or `manual_orders`, `pay[o]` what the
provider knows (external: the payer may switch the method while nothing is
decided, a decline is final, a review ends either way). A handler `h` first
hears an answer (`Callback`, `Webhook`, `Reconcile`) and keeps it in `ask[h]`;
`MarkMethod` and `Settle` apply it in later transactions. `period[s]` is the
subscription row bought by `s`, `granted[o]` counts activations, `hook` holds
the orders whose referral hook has still to run. A transaction reads the clock
before it waits for the owner's row, so `Activate`, `AdminGrant` and
`CancelSubscription` decide with any instant of `Began`, up to `Wait` before `now`.
`age[o]` is what the hourly run's windows tell apart; `Expires` moves an order out
of a window for any reason the code has: time, maintenance, a run that was cut
short or the cap that newer orders fill.

### AssistantWallet

`grant[u][s]` is a row of `assistant_credit_grants_v1`, identified as in the
code by account, purchase reference and allowance period. `req[u][i]` is a row
of `assistant_credit_requests_v1`; its `old` flag says that two minutes have
passed since the reservation or fifteen since an answered request. `call[u][i]`
is the API thread between `reserve` and `settle`. `Synced` is `_sync`: lost
reservations are returned, allowances of replaced subscriptions are voided, and
missing grants are made. `Takes` and `GivesBack` are the loops over grants as
the set of their possible results: rows with the same expiry are ordered by a
digest, which the model leaves open. `spent`, `cost` and `drifted` are history
variables for the properties. The plan, packs and refunds change as
`Purchases` allows: of the plan, `PlanChanges` assumes no more than
`PlanContract`, which `Purchases` implements, namely one purchase in force at a
time, and none again once it ended. A budget row is compared with `Sum`, which
counts credits one by one: the sum of `f` over `S` is the number of pairs of an
element `s` and a number from 1 to `f[s]`.

### The pages

In all of them an `await` is a record in `calls` (or `reads`, `loads`, `edits`)
that holds what the script captured before it. The server's part of a call
(`Serve`) and the answer's handler are two steps, so an answer may be lost after
the server acted. A revision counter of the code (`sessionRevision`,
`adminListVersions`, `catalogLoadVersion`) is a natural number that the call
copies, and the handler's early return compares it.

* `Workspace`: `page` is the record of `app.js`'s variables; `stored` and
  `guest` are the two token stores; `clicks` are the handlers of the analyze
  button that `rollout.js` lets wait for a guest session; `timer` is the
  scheduled poll; `server[j]` is the owner and status of a job. A click runs
  through `Analyze`, `LengthsReply`, `UploadReply`, `PollTimer`, `PollReply` and
  `ResultReply`; `OpenRequested` is the job named by the page's address.
* `StudyPack`: the ticked boxes, counts, formats and preset, and the limits with
  which the count menus were last synchronised. `AccountArrives` is the account
  reply that runs every synchronisation of the code in its order.
* `ResultView`: questions are records with options and the answer's index; a
  mock exam replaces them by any permutation, as a random sort may. The tabs are
  a set with their places from left to right.
* `Library`: `run()` admits one operation at a time; the write and the read
  after it fail independently; `OtherDevice` changes the server in between.
* `Assistant`: the window's four revisions, `pending` with its signature and
  request id, and the server's charges; a failure is lost, a conflict, a
  gateway's failure or a refusal, and only the first three keep the id.
* `Privacy`: `store` is the saved record, `cmp` this document's view of the
  provider's consent platform with its late callbacks, `told` what the tag was
  told. Another document's writes reach this one as a later storage event.
* `RewardedAd`: the provider's events come in any order; `queue` is the chain of
  reports, which breaks as a whole; the deadline, the close grace and the claim
  with its single retry are steps that time may take at any point.
* `Account`: sessions are numbered as they are issued; `owner` and `valid` are
  the server's; the account page holds the token it was opened with; `guest` says
  that the tab holds a guest token, which an entry drops whatever became of the
  guest's result.
* `Checkout`: a load carries its version and currency; an order call carries its
  selection.
* `AdminPanel`, `AdminRecords`, `AdminWork`, `AdminReferrals`, `AdminDesk`: the
  console's session version, its promises that later callers join, and per list
  or dialog the version that its answers are compared with. `ReadAlone` is a list
  read outside a load, after which the alerts are not drawn; `unseen` keeps these
  lists. `Draw` takes any queue answer, one read before a release included; it
  waits for the confirmation window, which stops the page's scripts while open.

## 3. Runs

| Run | Instance | Shows |
|---|---|---|
| `job_crash` | one message, two retries, two lost processes, time limits, fairness | `SourcesOutliveWork`, `KeepsContract` (the contract is implemented), `NoJobStuckWorking`, `EveryDeliveryEnds`, `TypeOK` (the budget of retries) |
| `job_race` | two messages, redelivery, recovery, children acting past their hard limit, one lapsed lease, failing stores, deletion and purge; 3.6 million states | `SingleWriter`, `ReadyIsDurable`, `FailureIsFinal` |
| `purchase_race` | two iyzico orders, one request beside the reconciliation loop, one lost handler, coupon, refunds, closure | `ActivatedOnce`, `PaidIsProven`, `CouponOnce`, `SettledIsFinal` |
| `purchase_periods` | three orders, two packages, two lengths, an administrator, clocks up to one instant old; 1.2 million states | `OneActiveRow`, `PeriodsDisjoint`, `EndedForGood` (`PlanContract` is implemented) |
| `purchase_live` | an iyzico or PayTR order that may leave the hourly run's windows, two lost handlers, fairness | `PaymentHonoured` |
| `wallet` | one account, two request ids, a guest, a subscription, a pack, an administrator's grant, two days | `CreditsConserved`, `OneProviderCall`, `BudgetExact`, `StaleNeverSpent`, `TypeOK` |
| `workspace` | one account and the guest, two jobs, three files, two waiting clicks, fairness | `OneAnalysis`, `ShownTogether`, `SampleNeverFull`, `SessionKept`, `BusyEnds` (an analysis ends and the page is free again) |
| `site` | eight parts of the site. Visitors: the consent platform with a second document, one ad, two users and two sessions, two currencies with three loads and two selections. Students: three plans, results of two questions, two folders and a lesson, one question asked twice over two changes of session; 2.75 million states | `ConsentKept`, `RewardSound`, `SessionsApart`, `OrderedAsShown`, `PackAsPlanned`, `ScoreIsTrue`, `ConfirmedStays`, `AssistantInOrder` |
| `admin` | one list (also read alone), queue, health and advertising section, three reads, two owners and lessons, one reward, two conversations and users; 2.2 million states | `PanelTrue`, `RecordsCurrent`, `WorkScoped`, `ReleaseConfirmed`, `DeskApart` |
| `job_charged_failure` | one message, one retry, no lost process and no failing store | violates `FailedIsNotCharged`: a comment of `fail_unfinished_job` says that nothing is charged for a failed job, but usage is recorded before publishing, and a time limit, an exhausted retry or the sweep can then fail the job for good |
| `job_unpublished` | the same, with fairness | violates `UnpublishedIsBrief`: a comment of `_public_job` calls a result that is done but not published a brief state, but when a time limit strikes between the pipeline's "done" and the publishing mark, `fail_unfinished` and the sweep both leave the job alone, and it is shown as working for ever |
| `paid_month` | two orders of one package, clocks up to one instant old | violates `NoPaidDayLost`: a comment of `_activate_purchase` says that no paid day is lost by renewing early, but a payment that waited for the owner's row decides with a time before the period just created and replaces it; without the wait the property holds |

**Bounds.** All bounds are constants or named in the configurations. Two copies of a
message are enough for every race between deliveries, because the lock admits one and
the properties relate two of them; one retry reaches the exhausted path, two retries
let a resumed publish fail once more. In `job_race` a message has no retry, so that
every failure is its last: that is where a failed job could be restarted; retries are
the matter of `job_crash`. Two crashes allow one during the recovery from the other.
Two orders let one be settled or hold the coupon while the other acts; a clock one
instant old already lies before a period that begins now; in `purchase_live` one order
is enough, since handlers of different orders share nothing but the reconciliation
loop; three periods let a renewal be stacked behind a stacked one. Two request ids let
one be open while the other has timed out; a reservation of two credits needs two
one-credit grants, so every reservation is split; the provider's cost ranges below, at
and above it, and a ceiling of four is met exactly by two reservations, and by one
with guest turns. In the pages, two of a kind (jobs, tabs, sessions, loads,
conversations, users) are what a handler can confuse, and the bounds let a third step
come in between: three reads let an old answer arrive between two newer ones, three
loads let a currency be picked twice, three dialogs let one be reopened for the same
conversation. One tick of `TTL` separates a fresh confirmation from an expired one.
`SYMMETRY` permutes messages, orders, accounts, users and request ids, which no
definition tells apart, and is used only without liveness properties.

**Deadlock** is not checked: a job, an order or a day ends, the bounded
clock stops, and a page may rest until its user acts.

**Fairness.** Jobs: weak fairness of each delivery's steps, of dispatch, of the sweep
loop, of lease expiry and of the passing deadline: processes that are not lost keep
running and time passes. Nothing is assumed of users, operators, time limits, crashes
or redelivery. Purchases: weak fairness of the steps of a handler that has heard an
answer and of PayTR's notification, which PayTR repeats until it is answered; strong
fairness of the reconciliation of each order, because the hourly loop comes back to an
order for as long as it is in its window but is busy with others in between. Nothing
is assumed of an order outside its window, and nothing keeps an order inside.
Workspace: weak fairness of the poll's timer, of the storage event and of each reply
(a call ends, if only with an error: browsers do not keep a request for ever), of the
server's ending each job (what `EveryDeliveryEnds` and the sweep are about), and
strong fairness of an answered poll, because polling is repeated without limit and a
network that fails every single poll would keep any page waiting. Nothing is assumed
of clicks and other tabs.

**SourcesOutliveWork** is claimed while no process is lost: a worker lost between the
deletion of sources and the last write leaves a job without sources.
`EveryDeliveryEnds` and `NoJobStuckWorking` hold with losses. They say that no message
is worked on for ever and that no job is shown as working for ever by its status, not
that every job ends: an API process lost before the enqueue leaves a job for the
operator's recovery, and section 4 names ways in which one stays queued or
unpublished. `FailureIsFinal` speaks of the time from which nobody is left who looked
at the job before it failed; section 4 says what these can do. `job_crash` lets no
child act past its hard limit (`LateKill`), since such a child may revive the job
(section 4), and `KeepsContract` lets the usage go unrecorded. `PaymentHonoured` ends
with the windows. `PanelTrue` leaves out lists read alone since the alerts were drawn.
`OneAnalysis` leaves out behaviours in which two clicks waited for one guest session
and the error of one interrupted the other's upload (`crossed`), and `ConsentKept`
those in which a failure of the consent platform hid a choice of another document
(`missed`); both are in section 4.

**Mutants.** For each property of each passing run, `PROJECT.json` names a
changed form of a definition (a lock taken without NX, a retry that is not counted,
a refund credited to today's row) under which TLC finds the property violated.

## 4. Disagreements found while modelling

`job_charged_failure`, `job_unpublished` and `paid_month` are runs. The following were
met with TLC or while reading and are left to the maintainers; the models follow the
code.

* **Last retry dropped** (`tasks.py:476`). A resumed publish does not renew the
  processing deadline; when the sweep holds the lock as the last retry arrives,
  the retry is taken for a duplicate and the job stays queued without a message,
  although `sweep_stuck_jobs` says that a queued job's message is still valid.
* **Retry lost to the soft limit** (`tasks.py:412`, `681`). The limit may strike after
  the record says queued and retrying and before `task.retry` has published: the
  exception ends the task, and the job stays queued without a message. The
  docstring of `sweep_stuck_jobs` (`durable_runtime.py:39`) says that a queued job's
  message is still valid, and leaves such a job alone.
* **Revived failure** (`tasks.py:516`). "A late or redelivered message must not
  restart it" holds for a delivery that reads the record after the failure. One
  that is past its read does write over it: the other copy, when a duplicate out of
  retries saw a free lock (`tasks.py:318`) or the sweep acted on a lapsed one; the
  child whose main process has just recorded its hard limit; a message already
  published when `dispatch` fails; and an operator's recovery, which writes queued
  without reading again. `FailureIsFinal` begins when none of them is left.
* **Ready but unbilled** (`pipeline.py:155`). Every exception of the metering is
  swallowed, the soft time limit among them, so that limit is lost as well and the
  delivery runs on to its hard one.
* **Paid month replaced** (`billing_service.py:2909`, `3362`). The run `paid_month`.
* **Refunded ad-free order** (`billing_service.py:1867`). The comment says that
  refunded purchases grant no access; a completed refund leaves the order paid.
* **Reopened day** (`assistant_wallet.py:312`). "Estimate drift closes the budget
  for this day"; the settlement of another request subtracts from the row again.
  `BudgetExact` leaves such days out.
* **Guest's download** (`app.js:1710`, `rollout.js:458`). The comment says that a
  guest's download asks for an account; the wrapper of `renderResult` replaces
  the button's handler by `downloadProtected` for everybody.
* **Two waiting clicks** (`rollout.js:416`). When one of two clicks that waited for
  the guest session is refused for its sample, its error ends the busy state of
  the other's upload.
* **E-mail change** (`rollout.js:526`). The new token is stored although another
  tab may have signed in to another account meanwhile.
* **Provider failure after another document's choice** (`consent.js:97`, `207`).
  `providerPending` takes the record as seen, so a later snapshot may overwrite
  the choice that the storage listener's comment (line 185) protects.
* **Sessions of other tabs** (`auth.js:616`, `1398`). A password reset and a sign-out
  remove whatever session is stored by then.
* **Guest's result** (`auth.js:359`, `534`, `559`). The claim of a guest's result is a
  best effort (`guest_claim.py:167`, `test_short_signup.py:233`: the login succeeds,
  the claim is refused), but every entry drops the guest token, also where
  the answer says that nothing was claimed.
* **Alerts out of date** (`admin.js:891`, `1395`, `admin-work.js:56`). A list read alone
  may fail, or bring failed jobs, while "no urgent alert" stays until the next load
  or advertising refresh.
* **Kept console session** (`admin.js:1978`). "Keep the session even if the first
  load fails"; a late 401 of a request with an older token still ends it.
* **Release button** (`admin.js:449`). Typing while a release is on its way enables
  the button again, so the same release can be sent twice; the server decides.
* **Draft lost** (`admin.js:755`, `488`). Text typed while a reopened conversation is
  being read is replaced by the draft from before. An evidence text is forgotten
  when a drawn queue does not list its reward, as when the queue is capped or
  its read has failed.

## 5. Theorems

All proofs are checked by TLAPS for arbitrary constants that satisfy the named
`ASSUME`s; there is no bound on crashes, messages, orders, renewals, accounts,
days, sessions, calls or loads. `JobAssumption`, `PurchaseAssumption`,
`WalletAssumption` and `WorkspaceAssumption` ask for finite sets, natural bounds
and distinct names. The assumptions of `MCSite` and `MCAdmin`
belong to the encoding: `None` and the words a list may show are no names
(`NoneIsNo...`, `WordsAreNoNames`, `SectionsAreDistinct`), and constants have the
type the code gives them (`PlansAreLimits`, `DecisionsArePurposes`,
`CapabilitiesAreFlags`, `FiltersFindAccounts`). `ResultsAreLessons` says a little
more: the questions of a pack, and the options of a question, are told apart by
their place in the pack, and a pack's tabs are tabs of the page. TLC evaluates
all of them in the runs.

The constants of the two instances are arbitrary in the proofs, so their
theorems hold for any plans, results, folders, currencies, accounts, filters and
bounds. An inductive invariant was first checked by TLC as an invariant of the
run.

* **JobLifecycleProofs.** `TypeCorrect` needs `RetryBudget`: a delivery about to
  requeue itself has a retry left. `OneWriter` rests on `LockInv`: while no lease
  lapsed, whoever is in a locked region holds the lock. `ShownIsDurable` rests on
  `DurableInv`: past the upload the copy exists unless a deletion began, and "done"
  is only written with the pointer to it. `FailuresAreFinal` is proved without any
  hypothesis, from the types: who has not read the record before the failure
  reads it and drops the job (`SettledDelivery`, `SettledOthers`).
  `SourcesAreKept` and `ContractIsKept` (the refinement of `JobContract`) are proved
  under `Calm`: no redelivery, no failing store, no operator's recovery, no lapsed
  lease, and no child that acts past its hard limit; crashes, time limits, retries,
  the sweep, deletion and purge remain. They rest on
  `PromiseInv`: only one delivery was ever sent; the record's status, worker
  state, notice and durable pointer fit together (`RecordFits`); dispatch and
  deletion find the record they expect (`DispatchFits`, `ErasureFits`); sources
  exist wherever they will be read again (`SourcesKept`); and a delivery's place
  in `process_uploaded_job` determines what the record says (`StepFits`). Every
  step is then a `PromiseStep`, and `ContractStep` maps that to a step of the
  contract or to a stuttering one. The mapping is `Phase`, what the owner sees.
* **PurchasesProofs.** `TypeCorrect` needs `AskInv` and `ProofInv`: a busy handler
  applies an answer about an existing iyzico order, and one about to settle a proven
  success has recorded its method. `ActivatedExactlyOnce`, `DeadStaysDead` and
  `PaidOnProof` follow with one lemma on how a step may change an order. `OneActive`
  and `NoOverlap` show that stacking behind the last open period keeps periods
  disjoint, also when the instant of the decision is older than the lock. `NoDayLost`
  assumes `Wait = 0`, without which it is false (`paid_month`): open periods then
  leave no gap before their last end (`Continuous`), so a package that has an open
  period is in force or renewed. `PlanContractKept` is the refinement of
  `PlanContract`: periods that do not overlap leave at most one in force; every
  rewriting of a row keeps its days and never revives it (`RowKept`); and a row is
  only written anew for an order that is being paid, which had none before
  (`FreshRows`, with `ActivatedExactlyOnce`'s lemma on paying steps). The mapping
  takes the rows whose first day has come. `CouponSpentOnce` rests on `CouponInv`: a
  discounted order that is not dead holds the coupon.
* **AssistantWalletProofs.** `TypeCorrect` includes the ceiling. `Inductive`
  proves `WalletInv`: for each account, reservations are unique; a request
  without a row was never sent; and for each grant, what is left, what is held
  and what was charged add up, with nothing taken from a grant that was not
  made. The last part is what makes `_sync` safe to repeat: making a grant later
  neither loses nor doubles a credit. `CreditsAreConserved` and `OneCallEach`
  follow; `StaleIsNeverSpent` is proved from the types alone, because `_sync`
  runs in the transaction that reserves. `BudgetIsExact` rests on `BudgetInv`:
  `WalletInv`, the budget rows, and `Priced`: an open reservation was charged to
  the day written in its row, with the credits it holds. Without `Priced` a
  settlement could correct another day, or by another amount, than was charged.
  Sums are cardinalities of finite sets, so one request's change of cost changes
  a sum by the same amount (`SumChanges`) without induction over the accounts.
* **WorkspaceProofs.** `WsInv` relates the page, the calls on their way, the poll's
  timer and the guest's token: what the page shows is of its own job (`PageFits`),
  a result on its way is of that job and an upload keeps the sample that was asked
  for (`CallFits`), and while the page is busy there is either the timer or exactly
  one call of the analysis (`One`). `One` is the part that
  `OneAnalysis` lacks: without it a late reply could end the busy state of another
  analysis. `OneAtATime`, `ShownStaysTogether`, `SamplesStaySamples` and the action
  property `SessionsAreKept` follow.
* **StudyProofs.** `ConfirmedChangesStay` rests on `LibInv`: the operation admitted by
  `run()` knows what it asked for, and until the next read the page's copy contains
  what the server confirmed. `AnswersStayInOrder` rests on `AsstInv`: each request
  fits the window's revisions or is recognised as outdated, two requests never share
  an operation number, and of the ids of a repeated question only the pending one can
  still be charged. `PackKeepsToPlan` rests on `PackInv`: the form fits the limits it
  was last synchronised with, these are the loaded plan's, and an unedited form is its
  preset cut to them. `ScoresAreTrue` rests on `ViewInv`: each shown question is the
  pack's with its options in some order and the answer's index moved along, so a score
  counted on shuffled questions is the score by the pack.
* **VisitorProofs.** `RewardsAreSound` rests on `AdInv`, which ties the phase of the
  ad to the reports made and still queued (`Course`) and a claim to both (`Claimed`).
  `SessionsStayApart` rests on `AccInv`: a call for another session than the page's is
  for one that is not stored, and an answer is about the owner of its call's session.
  `OrdersAreAsShown` rests on `ShopInv`: only the newest load can take effect, an open
  panel's selection has the page's currency, and the one order call is for a selection
  that is not acknowledged yet. `ConsentIsKept` rests on `PrivInv`: the saved record
  and a snapshot of the consent platform that may still be applied both stay within
  what the visitor said last.
* **AdminProofs.** `ReleasesAreConfirmed` rests on `RefsInv` (a standing confirmation
  was given since the form was last left, and the window asks about a form that may be
  released); `WorkStaysScoped` on `WorkInv` (a list is of its owner, and a busy list
  has the read with its version on the way); `DeskStaysApart` on `TalkInv` and
  `EditsRight` (a call whose version is current is about the open conversation or
  record); `RecordsStayCurrent` on `RecsInv` (the list fits the filter and shows
  nobody reported closed, unless a timer, an error or the newest read is to follow);
  `PanelStaysTrue` on `PanelInv` (one load at a time, of this session; "no urgent
  alert" was drawn from what is known now, the lists read alone apart, or will be
  drawn anew).

`OneAnalysis` and `ConsentKept` are proved as they are checked: they leave out the
behaviours marked `crossed` and `missed`, which section 4 describes.

Only model-checked: the liveness properties (`EveryDeliveryEnds`, `NoJobStuckWorking`,
`PaymentHonoured`, `BusyEnds`), which are beyond TLAPS.

## 6. Not modelled

* What the pipeline computes (transcription, OCR, documents, slides, exports)
  and the wording of anything.
* Progress, ETA, cost records, feedback, audit rows: written, never decided on.
* PostgreSQL's and Redis's own failures beyond a failing call; a transaction
  that locks its rows first is one step.
* Two status changes, or two deletions, of one conversation at once (`AdminDesk`).
* Amounts: prices, currencies and amount checks of a callback; a callback that
  fails them is refused before any state changes.
* Server side of referral rewards, ad rewards, guest claims, notices and
  sessions, beyond what the modelled parts need of them; the page modules model
  the server's part of a call only as far as the page can tell.
* The pages' rendering, wording, translations, drag and drop, charts and exports;
  the smaller scripts (`site-shell.js`, `theme.js`, `contact.js`, `support.js`
  and the like) and the localized site build, which are sequential.
* Social publishing, advertising management, deployment and cutover scripts.
* Assumed of the outside: a provider's decline is final; callbacks come only
  after a payment attempt; PayTR repeats a notification until it is answered.

## 7. Plan

1. Done: `JobLifecycle` with `JobContract`, `Purchases`, `AssistantWallet`, each
   with runs and proofs; the page modules with runs.
2. Done: proofs of the safety properties of the page modules, and of the contract
   of a job under `Calm`.
3. Done: proofs of the exact daily budget and of `PlanContract`.
4. Candidates for further modules: `Referrals` (qualification, hold, monthly cap,
   release beside a refund), `GuestClaim` (a claim across two stores),
   `Notifications` (leases of notices), `Quota` (minutes checked before and charged
   after processing), the server's `RewardedAds` and session versions.
