----------------------------- MODULE Assistant ------------------------------
(***************************************************************************)
(* The assistant's window (assistant.js): a session that another tab may   *)
(* change at any time, openings that read the catalogue and the wallet,    *)
(* attachments that take a while to prepare, questions with a request id   *)
(* that is kept while their outcome is uncertain, and answers, failures    *)
(* and balances that arrive in any order.                                  *)
(***************************************************************************)
EXTENDS Integers, FiniteSets

CONSTANTS
  Users, None, Questions,
  MaxAsks,      \* bound: questions sent
  MaxSwitches,  \* bound: changes of the stored session
  MaxOpens,     \* bound: openings of the window
  MaxFiles      \* bound: files attached

VARIABLES
  stored,    \* the session token in localStorage
  page,      \* the window's variables
  calls,     \* requests and preparations on their way
  trials,    \* trialCount
  asked,     \* questions sent so far; names a new request id
  run,       \* history: [sig, ids] of the question being repeated
  wallet,    \* server: charges per user so far
  charged,   \* server: request ids charged
  switches, opens, files

vars == <<stored, page, calls, trials, asked, run, wallet, charged, switches, opens, files>>

TrialLimit == 3
NoRun == [sig |-> None, ids |-> {}]

\* mine: sessionToken; rev, op, opening, bal: the four revisions; talk: owners of
\* the answers in the window; balance: None or [owner, at].
Init ==
  /\ stored \in {None} \cup Users
  /\ page = [mine |-> stored, rev |-> 0, op |-> 0, opening |-> 0, bal |-> 0, busy |-> FALSE, available |-> FALSE,
             mode |-> "chat", pending |-> None, talk |-> {}, attachment |-> None, balance |-> None, answered |-> 0]
  /\ calls = {} /\ trials = 0 /\ asked = 0 /\ run = NoRun
  /\ wallet = [u \in Users |-> 0] /\ charged = {}
  /\ switches = 0 /\ opens = 0 /\ files = 0

-----------------------------------------------------------------------------
(* Session *)

\* reset(): the conversation is emptied.
Reset(p) == [p EXCEPT !.op = @ + 1, !.busy = FALSE, !.mode = "chat", !.pending = None, !.talk = {}, !.attachment = None]

\* syncSession(): everything of the old session goes.
Sync(p) ==
  [Reset(p) EXCEPT !.rev = @ + 1, !.opening = @ + 1, !.bal = @ + 1, !.mine = stored, !.available = FALSE,
                   !.balance = None, !.answered = 0]

\* A change that was not announced yet is noticed wherever the session is used.
Noticed(p) == IF p.mine # stored THEN Sync(p) ELSE p

OtherTab(tok) ==
  /\ switches < MaxSwitches /\ tok # stored
  /\ stored' = tok /\ switches' = switches + 1
  /\ UNCHANGED <<page, calls, trials, asked, run, wallet, charged, opens, files>>

StorageEvent ==
  /\ page.mine # stored
  /\ page' = Sync(page) /\ run' = NoRun
  /\ UNCHANGED <<stored, calls, trials, asked, wallet, charged, switches, opens, files>>

\* currentSession() for a request made by c.owner in revision c.rev.
SameSession(p, c) == c.rev = p.rev /\ c.owner = p.mine

Call(p, what, n, sig, id) ==
  [do |-> what, owner |-> p.mine, rev |-> p.rev, n |-> n, bal |-> p.bal, sig |-> sig, id |-> id, answer |-> None, gone |-> FALSE]

-----------------------------------------------------------------------------
(* Opening *)

Open ==
  /\ opens < MaxOpens /\ opens' = opens + 1
  /\ LET p == [Noticed(page) EXCEPT !.opening = @ + 1] IN
       /\ page' = p
       /\ calls' = calls \cup {Call(p, "catalog", p.opening, None, None)}
       /\ run' = IF page.mine # stored THEN NoRun ELSE run
  /\ UNCHANGED <<stored, trials, asked, wallet, charged, switches, files>>

CurrentOpening(p, c) == SameSession(p, c) /\ c.n = p.opening

\* The catalogue: the wallet is read next; without images the mode is chat.
CatalogReply(available, images) ==
  \E c \in calls :
    /\ c.do = "catalog"
    /\ LET p == Noticed(page)
           now == CurrentOpening(p, c)
           shown == available /\ images /\ stored # None IN
       /\ page' = IF now THEN [p EXCEPT !.available = available, !.mode = IF shown THEN @ ELSE "chat"] ELSE p
       /\ calls' = (calls \ {c}) \cup (IF now /\ available /\ c.owner # None THEN {[c EXCEPT !.do = "wallet"]} ELSE {})
    /\ run' = IF page.mine # stored THEN NoRun ELSE run
    /\ UNCHANGED <<stored, trials, asked, wallet, charged, switches, opens, files>>

ServeWallet ==
  \E c \in calls :
    /\ c.do = "wallet" /\ c.answer = None
    /\ calls' = (calls \ {c}) \cup {[c EXCEPT !.answer = wallet[c.owner]]}
    /\ UNCHANGED <<stored, page, trials, asked, run, wallet, charged, switches, opens, files>>

\* A balance counts only if no question was sent or answered meanwhile.
BalanceCounts(p, c) == CurrentOpening(p, c) /\ c.bal = p.bal

WalletReply ==
  \E c \in calls :
    /\ c.do = "wallet" /\ c.answer # None
    /\ LET p == Noticed(page) IN
       page' = IF BalanceCounts(p, c) THEN [p EXCEPT !.balance = [owner |-> c.owner, at |-> c.answer]] ELSE p
    /\ calls' = calls \ {c}
    /\ run' = IF page.mine # stored THEN NoRun ELSE run
    /\ UNCHANGED <<stored, trials, asked, wallet, charged, switches, opens, files>>

OpeningFails ==
  \E c \in calls :
    /\ c.do \in {"catalog", "wallet"}
    /\ LET p == Noticed(page) IN
       page' = IF BalanceCounts(p, c) /\ ~p.busy THEN [p EXCEPT !.available = FALSE] ELSE p
    /\ calls' = calls \ {c}
    /\ run' = IF page.mine # stored THEN NoRun ELSE run
    /\ UNCHANGED <<stored, trials, asked, wallet, charged, switches, opens, files>>

-----------------------------------------------------------------------------
(* Mode, attachments and clearing *)

\* Choosing a mode, even the present one, forgets the pending request.
PickMode(m) ==
  /\ ~page.busy /\ page.mine # None /\ page.available
  /\ page' = [page EXCEPT !.mode = m, !.pending = None, !.attachment = IF m = "image" THEN None ELSE @]
  /\ run' = NoRun
  /\ page' # page
  /\ UNCHANGED <<stored, calls, trials, asked, wallet, charged, switches, opens, files>>

Clear ==
  /\ ~page.busy /\ page.talk # {}
  /\ page' = Reset(page) /\ run' = NoRun
  /\ UNCHANGED <<stored, calls, trials, asked, wallet, charged, switches, opens, files>>

\* A file is chosen; preparing it takes a while.
Attach ==
  /\ files < MaxFiles /\ page.available /\ page.mode = "chat"
  /\ IF page.mine # stored
     THEN page' = Sync(page) /\ run' = NoRun /\ UNCHANGED <<calls, files>>
     ELSE /\ ~page.busy /\ page.mine # None
          /\ page' = [page EXCEPT !.op = @ + 1, !.busy = TRUE]
          /\ calls' = calls \cup {Call(page', "prepare", page'.op, None, None)}
          /\ files' = files + 1 /\ UNCHANGED run
  /\ UNCHANGED <<stored, trials, asked, wallet, charged, switches, opens>>

\* current() of an operation: same session, and nothing was begun or cleared since.
CurrentOperation(p, c) == SameSession(p, c) /\ c.n = p.op

PrepareDone(ok) ==
  \E c \in calls :
    /\ c.do = "prepare"
    /\ LET p == Noticed(page) IN
       page' = IF CurrentOperation(p, c)
               THEN [p EXCEPT !.attachment = IF ok THEN c.owner ELSE None, !.busy = FALSE] ELSE p
    /\ calls' = calls \ {c}
    /\ run' = IF page.mine # stored THEN NoRun ELSE run
    /\ UNCHANGED <<stored, trials, asked, wallet, charged, switches, opens, files>>

-----------------------------------------------------------------------------
(* Questions *)

Signature(q) == <<q, page.mode, page.attachment # None>>

\* The same question keeps its request id while its outcome is uncertain.
PendingFor(sig) == IF page.pending # None /\ page.pending.sig = sig THEN page.pending ELSE [sig |-> sig, id |-> asked + 1]

Submit(q) ==
  /\ ~page.busy /\ asked < MaxAsks
  /\ IF page.mine # stored
     THEN page' = Sync(page) /\ run' = NoRun /\ UNCHANGED <<calls, asked>>
     ELSE /\ page.available /\ (page.mine = None => trials < TrialLimit)
          /\ LET sig == Signature(q)
                 pending == IF page.mine = None THEN None ELSE PendingFor(sig)
                 id == IF pending = None THEN None ELSE pending.id IN
             /\ page' = [page EXCEPT !.op = @ + 1, !.bal = @ + 1, !.busy = TRUE, !.pending = pending]
             /\ calls' = calls \cup {Call(page', "ask", page'.op, sig, id)}
             /\ run' = IF id = None THEN NoRun ELSE [sig |-> sig, ids |-> (IF run.sig = sig THEN run.ids ELSE {}) \cup {id}]
          /\ asked' = asked + 1
  /\ UNCHANGED <<stored, trials, wallet, charged, switches, opens, files>>

\* The server answers and charges an id once; an id it has already charged is
\* answered again. What it refuses, it has not charged.
ServeAsk(kind) ==
  \E c \in calls :
    /\ c.do = "ask" /\ c.answer = None
    /\ kind = "refused" /\ c.id # None => c.id \notin charged /\ ~\E o \in calls : o.id = c.id /\ o # c
    /\ IF kind = "ok" /\ c.id # None /\ c.id \notin charged
       THEN charged' = charged \cup {c.id} /\ wallet' = [wallet EXCEPT ![c.owner] = @ + 1]
       ELSE UNCHANGED <<charged, wallet>>
    /\ calls' = IF c.gone THEN calls \ {c}
                ELSE (calls \ {c}) \cup {[c EXCEPT !.answer = [kind |-> kind, at |-> IF c.owner = None THEN 0 ELSE wallet'[c.owner]]]}
    /\ UNCHANGED <<stored, page, trials, asked, run, switches, opens, files>>

\* Mutant: only a lost answer keeps the request id.
UncertainIfLost(kind) == kind = "lost"
\* Which failures leave it open whether the question was charged: no answer at
\* all, a request still being processed, a gateway's failure.
Uncertain(kind) == kind \in {"lost", "conflict", "gateway"}

AskReply ==
  \E c \in calls :
    /\ c.do = "ask" /\ ~c.gone /\ c.answer # None
    /\ LET p == Noticed(page)
           now == CurrentOperation(p, c)
           ok == c.answer.kind = "ok" IN
       /\ page' = IF ~now THEN p
                  ELSE IF ok THEN [p EXCEPT !.busy = FALSE, !.pending = None, !.talk = @ \cup {c.owner}, !.attachment = None,
                                            !.bal = @ + 1, !.answered = c.answer.at,
                                            !.balance = IF c.owner = None THEN @ ELSE [owner |-> c.owner, at |-> c.answer.at]]
                  ELSE [p EXCEPT !.busy = FALSE, !.pending = None]
       /\ run' = IF page.mine # stored \/ (now /\ ok) THEN NoRun ELSE run
       /\ trials' = IF c.owner = None /\ ok THEN trials + 1 ELSE trials
    /\ calls' = calls \ {c}
    /\ UNCHANGED <<stored, asked, wallet, charged, switches, opens, files>>

\* The answer is lost, times out or fails on the way, while the server may have
\* charged it or go on working on it.
AskFails(kind) ==
  \E c \in calls :
    /\ c.do = "ask" /\ ~c.gone
    /\ kind = "conflict" => c.id # None /\ \E o \in calls : o.id = c.id /\ o # c
    /\ LET p == Noticed(page) IN
       page' = IF CurrentOperation(p, c) THEN [p EXCEPT !.busy = FALSE, !.pending = IF Uncertain(kind) THEN @ ELSE None] ELSE p
    /\ calls' = (calls \ {c}) \cup (IF c.answer = None /\ kind # "conflict" THEN {[c EXCEPT !.gone = TRUE]} ELSE {})
    /\ run' = IF page.mine # stored THEN NoRun ELSE run
    /\ UNCHANGED <<stored, trials, asked, wallet, charged, switches, opens, files>>

Next ==
  \/ \E tok \in Users \cup {None} : OtherTab(tok)
  \/ StorageEvent \/ Open \/ ServeWallet \/ WalletReply \/ OpeningFails \/ Clear \/ Attach \/ AskReply
  \/ \E a, i \in BOOLEAN : CatalogReply(a, i)
  \/ \E m \in {"chat", "image"} : PickMode(m)
  \/ \E ok \in BOOLEAN : PrepareDone(ok)
  \/ \E q \in Questions : Submit(q)
  \/ \E kind \in {"ok", "refused"} : ServeAsk(kind)
  \/ \E kind \in {"lost", "conflict", "gateway"} : AskFails(kind)

Spec == Init /\ [][Next]_vars

-----------------------------------------------------------------------------
\* What the window holds - answers, an attachment, a balance - belongs to the
\* session it works for, whichever replies of an earlier session still arrive;
\* a question repeated until it is answered is charged at most once, although
\* its answers get lost, time out or meet an attempt still being processed; the
\* balance shown is never older than the last answer's; and the window is busy
\* only while an operation of its own is under way.
AssistantInOrder ==
  /\ page.talk \subseteq {page.mine}
  /\ page.attachment \in {None, page.mine}
  /\ page.balance # None => page.balance.owner = page.mine /\ page.balance.at >= page.answered
  /\ Cardinality(run.ids \cap charged) <= 1
  /\ page.busy => \E c \in calls : CurrentOperation(page, c) /\ ~c.gone
=============================================================================
