----------------------------- MODULE Workspace -----------------------------
(***************************************************************************)
(* The study workspace in one browser tab (app.js, rollout.js): who the    *)
(* visitor is, the sources picked, one analysis from the click to the      *)
(* opened result, and what may reach the page meanwhile.                   *)
(*                                                                         *)
(* A script runs to its next await without interruption. Every await is a  *)
(* record in calls that holds what the script captured before it; the      *)
(* reply is a later step, and clicks, other tabs and other replies may     *)
(* come first. Only localStorage is shared with other tabs.                *)
(***************************************************************************)
EXTENDS Integers, Sequences, FiniteSets, SequencesExt

CONSTANTS
  Accounts,    \* session tokens of signed-in accounts
  Jobs,        \* job ids the server may hand out
  Wanted,      \* the job a link asks for (?job=), or None
  Sources,     \* files: [name, type \in {"pdf", "doc", "media"}, size]
  GuestLimit,  \* [files, size] of the trial without an account
  PlanLimit,   \* [files, size] of an account's plan
  MaxClicks,   \* bound: clicks on "analyze" waiting for a guest session
  None

Guest == "guest"
Tokens == Accounts \cup {Guest}

ASSUME WorkspaceAssumption ==
  /\ Guest \notin Accounts /\ None \notin Tokens \cup Jobs
  /\ Wanted \in Jobs \cup {None} /\ MaxClicks \in Nat
  /\ Sources \subseteq [name: STRING, type: {"pdf", "doc", "media"}, size: Nat]
  /\ GuestLimit \in [files: Nat, size: Nat] /\ PlanLimit \in [files: Nat, size: Nat]

VARIABLES
  stored,   \* localStorage: the session token every tab shares
  guest,    \* sessionStorage: this tab's guest token
  event,    \* a storage event of another tab is not delivered yet
  page,     \* the scripts' variables, see PageType
  files,    \* classicVideos
  catalog,  \* billingCatalog: does it offer PDF samples?
  calls,    \* what the scripts are waiting for
  clicks,   \* analyze handlers waiting for a guest session
  timer,    \* pollHandle is armed
  server,   \* server[j]: owner and status of the job
  rated,    \* localStorage: jobs this browser has rated
  crossed   \* history: an error of one click interrupted another's upload

tab == <<stored, guest, event>>
work == <<page, files, catalog, calls, clicks, timer>>
vars == <<tab, work, server, rated, crossed>>

PageType == [token: Tokens \cup {None}, account: Tokens \cup {None},
             job: Jobs \cup {None}, result: Jobs \cup {None}, busy: BOOLEAN,
             opened: BOOLEAN, used: BOOLEAN, sample: BOOLEAN,
             answer: Jobs \cup {None}, thumb: Jobs \cup {None}]

FreshPage(token) ==
  [token |-> token, account |-> None, job |-> None, result |-> None,
   busy |-> FALSE, opened |-> FALSE, used |-> FALSE, sample |-> FALSE,
   answer |-> None, thumb |-> None]

InFlight(op) == {c \in calls : c.op = op}

-----------------------------------------------------------------------------
(* Identity *)

ActiveToken == IF page.token # None THEN page.token
               ELSE IF stored # None THEN stored ELSE guest

\* Loading the page: app.js starts loadBilling, rollout.js drops a guest token
\* beside a session or begins to restore the guest.
LoadWith(token, keep) ==
  /\ page' = FreshPage(token)
  /\ files' = <<>> /\ clicks' = {} /\ timer' = FALSE /\ catalog' = FALSE
  /\ guest' = IF token # None THEN None ELSE keep
  /\ calls' = {[op |-> "catalog"]} \cup
       (IF token = None /\ keep # None THEN {[op |-> "restore", token |-> keep]} ELSE {})

Init ==
  /\ stored \in Accounts \cup {None} /\ event = FALSE
  /\ page = FreshPage(stored)
  /\ files = <<>> /\ clicks = {} /\ timer = FALSE /\ catalog = FALSE
  /\ guest = None /\ calls = {[op |-> "catalog"]}
  /\ server = [j \in Jobs |-> [owner |-> IF j = Wanted THEN stored ELSE None,
                               status |-> IF j = Wanted THEN "working" ELSE "free"]]
  /\ rated = {} /\ crossed = FALSE

\* The visitor reloads the page or follows a language link.
Reload ==
  /\ LoadWith(stored, guest)
  /\ event' = FALSE /\ crossed' = FALSE
  /\ UNCHANGED <<stored, server, rated>>

\* Another tab signs in, out or into another account.
OtherTab(t) ==
  /\ stored # t
  /\ stored' = t /\ event' = TRUE
  /\ UNCHANGED <<guest, work, server, rated, crossed>>

StorageEvent ==
  /\ event
  /\ event' = FALSE
  /\ IF stored # page.token
       THEN LoadWith(stored, guest) /\ crossed' = FALSE
       ELSE UNCHANGED <<guest, work, crossed>>
  /\ UNCHANGED <<stored, server, rated>>

\* Mutant: the linked job is opened over a running analysis.
OpensLinkWhileBusy(p) == ~p.opened /\ p.token # None /\ p.account # None /\ Wanted # None

\* restoreRequestedJob: the start of opening the linked job, on page p.
OpensLink(p) == ~p.opened /\ ~p.busy /\ p.token # None /\ p.account # None /\ Wanted # None

OpenRequested(p, others) ==
  IF OpensLink(p)
    THEN /\ page' = [p EXCEPT !.opened = TRUE, !.job = Wanted, !.busy = TRUE]
         /\ calls' = others \cup {[op |-> "open", job |-> Wanted, token |-> p.token]}
    ELSE page' = p /\ calls' = others

\* refreshBillingAccount up to its await; open: loadBilling continues after it.
RefreshAccount(p, others, open) ==
  IF p.token # None /\ stored \in {None, p.token}
    THEN /\ page' = p
         /\ calls' = others \cup
              {[op |-> "me", token |-> p.token, stored |-> stored, open |-> open]}
    ELSE LET q == IF p.token = None THEN [p EXCEPT !.account = None] ELSE p
         IN IF open THEN OpenRequested(q, others) ELSE page' = q /\ calls' = others

\* loadBilling: the catalog, or its built-in fallback, which offers no sample.
CatalogReply(offers) ==
  \E c \in InFlight("catalog") :
    /\ catalog' = offers
    /\ RefreshAccount(page, calls \ {c}, TRUE)
    /\ UNCHANGED <<tab, files, clicks, timer, server, rated, crossed>>

\* Mutant: another tab's session is not looked at.
SameToken(c) == page.token = c.token

SameSession(c) == page.token = c.token /\ stored = c.stored

\* refreshBillingAccount after its await; "failed" shows an error that leaves
\* a running analysis alone.
AccountReply(outcome) ==
  \E c \in InFlight("me") :
    LET q == IF ~SameSession(c) \/ outcome = "failed" THEN page
             ELSE IF outcome = "denied" THEN [page EXCEPT !.token = None, !.account = None]
             ELSE [page EXCEPT !.account = c.token]
    IN /\ stored' = IF SameSession(c) /\ outcome = "denied" THEN None ELSE stored
       /\ IF c.open THEN OpenRequested(q, calls \ {c})
          ELSE page' = q /\ calls' = calls \ {c}
       /\ UNCHANGED <<guest, event, files, catalog, clicks, timer, server, rated, crossed>>

\* setWorkspaceIdentity for a guest; used: the device's trial is spent.
AsGuest(used) == [page EXCEPT !.token = Guest, !.account = Guest, !.used = used]

\* restoreGuestIdentity after its awaits.
RestoreReply(ok, used) ==
  \E c \in InFlight("restore") :
    /\ page' = IF ok THEN AsGuest(used) ELSE page
    /\ guest' = IF ok THEN c.token ELSE None
    /\ calls' = calls \ {c}
    /\ UNCHANGED <<stored, event, files, catalog, clicks, timer, server, rated, crossed>>

-----------------------------------------------------------------------------
(* Picking sources *)

ActiveSourceLimits ==
  IF page.account \in Accounts \/ (page.account = None /\ page.token # None /\ stored = page.token)
    THEN PlanLimit ELSE GuestLimit

Document(f) == f.type # "media"
Bytes(fs) == FoldSeq(LAMBDA f, n : f.size + n, 0, fs)
WithinLimits(fs) == Len(fs) <= ActiveSourceLimits.files /\ Bytes(fs) <= ActiveSourceLimits.size

Picks(fs) ==
  /\ ~page.busy
  /\ files' = fs
  \* a different or no eligible PDF unticks the sample box (updateDocumentSample)
  /\ page' = [page EXCEPT !.sample = @ /\ fs = files]
  /\ UNCHANGED <<tab, catalog, calls, clicks, timer, server, rated, crossed>>

AddFile(f) ==
  /\ \A g \in ToSet(files) : Document(g) = Document(f)
  /\ f \notin ToSet(files)
  /\ WithinLimits(Append(files, f))
  /\ Picks(Append(files, f))

RemoveFile(i) == i \in DOMAIN files /\ Picks(RemoveAt(files, i))

MoveFile(i, k) ==
  /\ {i, k} \subseteq DOMAIN files /\ i # k
  /\ Picks(InsertAt(RemoveAt(files, i), k, files[i]))

\* "Choose another PDF" and "choose a shorter file" of the error box.
ReplaceFile(f) ==
  /\ f.type = "pdf" /\ f.size <= ActiveSourceLimits.size /\ files # <<f>>
  /\ Picks(<<f>>)

ClearFiles == files # <<>> /\ Picks(<<>>)

SampleEligible == catalog /\ Len(files) = 1 /\ files[1].type = "pdf"
SampleSelected == SampleEligible /\ page.sample

TickSample ==
  /\ ~page.busy /\ SampleEligible
  /\ page' = [page EXCEPT !.sample = ~@]
  /\ UNCHANGED <<tab, files, catalog, calls, clicks, timer, server, rated, crossed>>

-----------------------------------------------------------------------------
(* One analysis *)

\* showError with its default: the page is free again and polling stops.
Stop(p, others) ==
  /\ page' = [p EXCEPT !.busy = FALSE]
  /\ timer' = FALSE
  /\ calls' = others

\* The page as it sends the upload, and the request it sends.
Sending(p) == [p EXCEPT !.busy = TRUE, !.opened = TRUE, !.result = None, !.job = None]
UploadCall(p, asked) == [op |-> "upload", token |-> p.token, files |-> files,
                         asked |-> asked, sample |-> SampleEligible /\ p.sample]

\* guestMediaOverLimit reads the lengths of a guest's media before sending.
ReadsLengths(p) == p.account = Guest /\ ~Document(files[1])
Begun(p) == IF ReadsLengths(p) THEN [p EXCEPT !.busy = TRUE] ELSE Sending(p)
BegunCall(p, asked) == IF ReadsLengths(p) THEN [op |-> "lengths", asked |-> asked]
                       ELSE UploadCall(p, asked)

MayBegin(p) == p.token # None /\ p.account # None /\ files # <<>> /\ WithinLimits(files)

\* The analyze handler of app.js up to its request; asked: the visitor had the
\* sample ticked at the click; others are the calls still running.
Analyze(p, others, asked) ==
  IF p.busy THEN page' = p /\ calls' = others /\ timer' = timer
  ELSE IF MayBegin(p)
    THEN page' = Begun(p) /\ calls' = others \cup {BegunCall(p, asked)} /\ timer' = timer
  ELSE Stop(p, others)

\* The wrapper of rollout.js around that handler.
Click ==
  /\ ~page.busy
  /\ IF page.account = Guest /\ page.used THEN Stop(page, calls) /\ UNCHANGED clicks
     ELSE IF ActiveToken # None THEN Analyze(page, calls, SampleSelected) /\ UNCHANGED clicks
     ELSE \E n \in 1 .. MaxClicks \ {c.n : c \in clicks} :
            /\ clicks' = clicks \cup {[n |-> n, asked |-> SampleSelected]}
            /\ calls' = calls \cup {[op |-> "guest"]}
            /\ UNCHANGED <<page, timer>>
  /\ UNCHANGED <<tab, files, catalog, server, rated, crossed>>

\* Mutant: the sample is not checked again after the guest session came.
ResumeUnchecked(p, others) ==
  \E c \in clicks : Analyze(p, others, c.asked) /\ crossed' = crossed

\* The handlers waiting for the guest session run one after the other, in any
\* order; one whose sample is no longer selected is refused (LS-DOC-17).
ResumeClicks(p, others) ==
  LET refused == {c \in clicks : c.asked /\ ~(SampleEligible /\ p.sample)} IN
  \/ \E c \in clicks \ refused : Analyze(p, others, c.asked) /\ crossed' = crossed
  \/ /\ refused # {} /\ ~p.busy /\ MayBegin(p)  \* refused after another began
     /\ \E c \in clicks \ refused : Stop(Begun(p), others \cup {BegunCall(p, c.asked)})
     /\ crossed' = TRUE
  \/ refused = clicks /\ Stop(p, others) /\ crossed' = crossed

GuestReply(ok, used) ==
  \E c \in InFlight("guest") :
    LET fresh == ok /\ ActiveToken = None
        p == IF fresh THEN AsGuest(used) ELSE page
    IN /\ guest' = IF fresh THEN Guest ELSE guest
       /\ IF ok THEN ResumeClicks(p, calls \ {c})
          ELSE Stop(p, calls \ {c}) /\ crossed' = crossed
       /\ clicks' = {}
       /\ UNCHANGED <<stored, event, files, catalog, server, rated>>

LengthsReply(over) ==
  \E c \in InFlight("lengths") :
    /\ IF over THEN Stop(page, calls \ {c})
       ELSE /\ page' = Sending(page)
            /\ calls' = (calls \ {c}) \cup {UploadCall(page, c.asked)}
            /\ timer' = timer
    /\ UNCHANGED <<tab, files, catalog, clicks, server, rated, crossed>>

PollCall(p) == [op |-> "poll", job |-> p.job, token |-> p.token]

MarkUsed(p) == [p EXCEPT !.used = @ \/ p.account = Guest]

\* request.onload and request.onerror of the upload; "spent" is LS-GUEST-05.
UploadReply(outcome) ==
  \E c \in InFlight("upload") :
    /\ IF outcome = "ok" /\ c.token # None /\ \E j \in Jobs : server[j].status = "free"
         THEN \E j \in Jobs :
                /\ server[j].status = "free"
                /\ server' = [server EXCEPT ![j] = [owner |-> c.token, status |-> "working"]]
                /\ page' = [page EXCEPT !.job = j]
                /\ calls' = (calls \ {c}) \cup {PollCall([page EXCEPT !.job = j])}
                /\ timer' = timer
         ELSE /\ Stop(IF outcome = "spent" THEN MarkUsed(page) ELSE page, calls \ {c})
              /\ server' = server
    /\ UNCHANGED <<tab, files, catalog, clicks, rated, crossed>>

\* The server's answer about a job: refused unless the token owns it.
Status(c) == IF c.job # None /\ server[c.job].owner = c.token THEN server[c.job].status
             ELSE "refused"

ResultCall(p, polled) == [op |-> "result", job |-> p.job, token |-> p.token, polled |-> polled]

\* Mutant: the next poll is not scheduled.
PollNever == timer' = FALSE

\* pollJob asks again in 1.3 s, or in 2.5 s after a network error.
PollAgain == timer' = TRUE

\* pollJob after its fetch.
PollReply(outcome) ==
  \E c \in InFlight("poll") :
    LET st == IF outcome = "answer" THEN Status(c) ELSE outcome IN
    /\ CASE st = "network" -> PollAgain /\ page' = page /\ calls' = calls \ {c}
         [] st = "working" -> PollAgain /\ page' = MarkUsed(page) /\ calls' = calls \ {c}
         [] st = "done" -> /\ page' = MarkUsed(page) /\ timer' = timer
                           /\ calls' = (calls \ {c}) \cup {ResultCall(page, TRUE)}
         [] OTHER -> Stop(page, calls \ {c})
    /\ UNCHANGED <<tab, files, catalog, clicks, server, rated, crossed>>

PollTimer ==
  /\ timer
  /\ timer' = FALSE
  /\ calls' = calls \cup {PollCall(page)}
  /\ UNCHANGED <<tab, page, files, catalog, clicks, server, rated, crossed>>

\* restoreRequestedJob after its fetch.
OpenReply(outcome) ==
  \E c \in InFlight("open") :
    LET st == IF outcome = "answer" THEN Status(c) ELSE outcome IN
    /\ CASE st = "working" -> /\ calls' = (calls \ {c}) \cup {PollCall(page)}
                              /\ page' = page /\ timer' = timer
         [] st = "done" -> /\ calls' = (calls \ {c}) \cup {ResultCall(page, FALSE)}
                           /\ page' = page /\ timer' = timer
         [] OTHER -> Stop(page, calls \ {c})
    /\ UNCHANGED <<tab, files, catalog, clicks, server, rated, crossed>>

\* renderResult: the panels below the result start afresh for its job.
Rendered(p, j) == [p EXCEPT !.result = j, !.answer = None,
                            !.thumb = IF p.job \in rated THEN p.job ELSE None]

\* loadResult after its fetch; pollJob then refreshes the account.
ResultReply(outcome) ==
  \E c \in InFlight("result") :
    LET ok == outcome = "answer" /\ Status(c) = "done"
        p == [IF ok THEN MarkUsed(Rendered(page, c.job)) ELSE page EXCEPT !.busy = FALSE]
    IN /\ timer' = IF ok THEN timer ELSE FALSE
       /\ IF c.polled THEN RefreshAccount(p, calls \ {c}, FALSE)
          ELSE page' = p /\ calls' = calls \ {c}
       /\ UNCHANGED <<tab, files, catalog, clicks, server, rated, crossed>>

-----------------------------------------------------------------------------
(* Working with the result *)

Send(op) ==
  /\ page.result # None /\ page.job # None /\ InFlight(op) = {}
  /\ calls' = calls \cup {[op |-> op, job |-> page.job, result |-> page.result]}
  /\ UNCHANGED <<tab, page, files, catalog, clicks, timer, server, rated, crossed>>

Ask == Send("ask")
Rate == Send("feedback")

\* Mutant: an answer is shown whatever job the page is about.
AskReplyToAny(ok) ==
  \E c \in InFlight("ask") :
    /\ page' = IF ok THEN [page EXCEPT !.answer = c.job] ELSE page
    /\ calls' = calls \ {c}
    /\ UNCHANGED <<tab, files, catalog, clicks, timer, server, rated, crossed>>

AskReply(ok) ==
  \E c \in InFlight("ask") :
    /\ page' = IF ok /\ page.job = c.job /\ page.result = c.result
                 THEN [page EXCEPT !.answer = c.job] ELSE page
    /\ calls' = calls \ {c}
    /\ UNCHANGED <<tab, files, catalog, clicks, timer, server, rated, crossed>>

\* sendJobFeedback: the thumb is remembered and shown for its own job only.
RateReply(ok) ==
  \E c \in InFlight("feedback") :
    /\ IF ok /\ page.job = c.job
         THEN rated' = rated \cup {c.job} /\ page' = [page EXCEPT !.thumb = c.job]
         ELSE UNCHANGED <<rated, page>>
    /\ calls' = calls \ {c}
    /\ UNCHANGED <<tab, files, catalog, clicks, timer, server, crossed>>

\* The server ends a job (the component JobLifecycle in full).
ServerEnds(j, st) ==
  /\ server[j].status = "working"
  /\ server' = [server EXCEPT ![j].status = st]
  /\ UNCHANGED <<tab, work, rated, crossed>>

-----------------------------------------------------------------------------
Outcomes == {"answer", "network", "refused"}

Replies ==
  \/ \E b \in BOOLEAN : CatalogReply(b) \/ AskReply(b) \/ RateReply(b) \/ LengthsReply(b)
  \/ \E o \in {"ok", "denied", "failed"} : AccountReply(o)
  \/ \E ok, used \in BOOLEAN : RestoreReply(ok, used) \/ GuestReply(ok, used)
  \/ \E o \in {"ok", "refused", "spent"} : UploadReply(o)
  \/ \E o \in Outcomes : PollReply(o) \/ OpenReply(o) \/ ResultReply(o)

Visitor ==
  \/ Reload \/ Click \/ TickSample \/ ClearFiles \/ Ask \/ Rate
  \/ \E f \in Sources : AddFile(f) \/ ReplaceFile(f)
  \/ \E i \in 1 .. Len(files) : RemoveFile(i) \/ \E k \in 1 .. Len(files) : MoveFile(i, k)

Next ==
  \/ Replies \/ Visitor \/ PollTimer \/ StorageEvent
  \/ \E t \in Accounts \cup {None} : OtherTab(t)
  \/ \E j \in Jobs, st \in {"done", "error"} : ServerEnds(j, st)

Spec == Init /\ [][Next]_vars
-----------------------------------------------------------------------------
(* What is checked *)

CallTypes ==
  [op: {"catalog", "guest"}]
  \cup [op: {"restore"}, token: Tokens]
  \cup [op: {"me"}, token: Tokens, stored: Tokens \cup {None}, open: BOOLEAN]
  \cup [op: {"open"}, job: Jobs, token: Tokens]
  \cup [op: {"lengths"}, asked: BOOLEAN]
  \cup [op: {"upload"}, token: Tokens \cup {None}, files: Seq(Sources),
        asked: BOOLEAN, sample: BOOLEAN]
  \cup [op: {"poll"}, job: Jobs \cup {None}, token: Tokens \cup {None}]
  \cup [op: {"result"}, job: Jobs \cup {None}, token: Tokens \cup {None}, polled: BOOLEAN]
  \cup [op: {"ask", "feedback"}, job: Jobs, result: Jobs]

\* The shape of the page's state and of everything it waits for.
TypeOK ==
  /\ stored \in Accounts \cup {None} /\ guest \in {Guest, None} /\ event \in BOOLEAN
  /\ page \in PageType /\ files \in Seq(Sources) /\ catalog \in BOOLEAN
  /\ \A c \in calls : c \in CallTypes
  /\ clicks \subseteq [n: 1 .. MaxClicks, asked: BOOLEAN]
  /\ timer \in BOOLEAN /\ rated \subseteq Jobs /\ crossed \in BOOLEAN
  /\ server \in [Jobs -> [owner: Tokens \cup {None},
                            status: {"free", "working", "done", "error"}]]

\* The steps of one analysis that are under way.
Analyses == InFlight("lengths") \cup InFlight("upload") \cup InFlight("poll")
            \cup InFlight("result") \cup InFlight("open")

\* Busy and at work are the same thing: while the page shows an analysis as
\* running exactly one step of one analysis is under way (its request or the
\* timer of the next poll), so no source list changes under an upload and no
\* second job is sent. The known exception is a click whose PDF sample became
\* ineligible while it waited for the guest session together with another.
OneAnalysis ==
  ~crossed => Cardinality(Analyses) + (IF timer THEN 1 ELSE 0) = IF page.busy THEN 1 ELSE 0

\* What is shown belongs together: the result on the page, the answer to a
\* question and the thumb below it are of the job the page is about, although
\* each arrived with a request that was sent for some earlier job.
ShownTogether == ~crossed =>
  /\ page.result \in {None, page.job}
  /\ page.result # None => /\ page.answer \in {None, page.result}
                           /\ page.thumb \in {None, page.result}

\* A visitor who asked for a sample never starts a full analysis: the box may
\* be unticked, or the catalog reloaded, while the guest session is created.
SampleNeverFull == \A c \in InFlight("upload") : c.asked => c.sample

\* A late "unauthorized" ends only the session it was asked about: a session
\* that another tab has started since stays.
SessionKept ==
  [][stored' # stored /\ calls' # calls
       => stored' = None /\ \E c \in InFlight("me") \ calls' : c.token = stored]_vars

\* An analysis ends: the page becomes free again, if the server ends its jobs
\* and the network lets a poll through again and again.
BusyEnds == page.busy ~> ~page.busy

Fairness ==
  /\ WF_vars(PollTimer) /\ WF_vars(StorageEvent)
  /\ WF_vars(\E b \in BOOLEAN : LengthsReply(b))
  /\ WF_vars(\E o \in {"ok", "refused", "spent"} : UploadReply(o))
  /\ WF_vars(\E o \in Outcomes : OpenReply(o)) /\ WF_vars(\E o \in Outcomes : ResultReply(o))
  /\ WF_vars(\E o \in Outcomes : PollReply(o)) /\ SF_vars(PollReply("answer"))
  /\ \A j \in Jobs : WF_vars(\E st \in {"done", "error"} : ServerEnds(j, st))

FairSpec == Spec /\ Fairness
=============================================================================
