-------------------------- MODULE WorkspaceProofs --------------------------
(***************************************************************************)
(* Proofs about Workspace: what the page shows belongs together, one       *)
(* analysis runs at a time, a sample stays a sample and a late answer ends *)
(* no other session, for any accounts, jobs, sources and limits.           *)
(***************************************************************************)
EXTENDS Workspace, FiniteSetTheorems, TLAPS

\* The calls that are a step of an analysis.
AnalysisOps == {"lengths", "upload", "poll", "result", "open"}

IsPage(p) ==
  p = [token |-> p.token, account |-> p.account, job |-> p.job, result |-> p.result, busy |-> p.busy,
       opened |-> p.opened, used |-> p.used, sample |-> p.sample, answer |-> p.answer, thumb |-> p.thumb]

Shown(p) ==
  /\ p.result \in {None, p.job}
  /\ p.result # None => p.answer \in {None, p.result} /\ p.thumb \in {None, p.result}

\* What a call knows of the page p that waits for it, under the guest token g;
\* x: one click has interrupted another's upload.
CallFits(c, p, g, x) ==
  /\ c.op = "me" => c.stored \in {None, c.token}
  /\ c.op = "upload" => (c.asked => c.sample)
  /\ c.op = "lengths" => ~c.asked
  /\ c.op = "restore" => c = [op |-> "restore", token |-> Guest] /\ g # None /\ ~x
  /\ c.op = "guest" => c = [op |-> "guest"] /\ p.token = None /\ g = None /\ ~p.busy
  /\ ~p.opened => c.op \notin {"upload", "poll", "result", "open"}
  /\ ~x => (c.op = "upload" => p.result = None) /\ (c.op = "result" => c.job = p.job)

PageFits(p, t, x) ==
  /\ IsPage(p)
  /\ ~p.opened => p.result = None /\ ~t
  /\ ~x => Shown(p)

GuestFits(g, x) == g \in {Guest, None} /\ (x => g # None)

Loose(p, cs, t, g, x) ==
  PageFits(p, t, x) /\ GuestFits(g, x) /\ \A c \in cs : CallFits(c, p, g, x)

Idle(cs) == \A c \in cs : c.op \notin AnalysisOps
Single(cs) == \E c \in cs : c.op \in AnalysisOps /\ \A d \in cs : d.op \in AnalysisOps => d = c

\* At most one step of an analysis is under way, exactly while the page is busy.
One(cs, busy, t, x) == ~x => (t => busy) /\ (IF busy /\ ~t THEN Single(cs) ELSE Idle(cs))

Fits(p, cs, t, g, x) == Loose(p, cs, t, g, x) /\ One(cs, p.busy, t, x)

WsInv == Fits(page, calls, timer, guest, crossed)

LEMMA GuestIsToken == Guest # None
  BY WorkspaceAssumption DEF Tokens

LEMMA Together ==
  ASSUME Fits(page', calls', timer', guest', crossed')
  PROVE  WsInv'
  BY DEF WsInv, Fits, Loose, One, PageFits, IsPage, Shown, GuestFits, CallFits, Idle, Single

-----------------------------------------------------------------------------
(* The page after a step, field by field *)

\* Two pages agree on who works on which job.
Alike(q, p) ==
  /\ IsPage(q) /\ q.job = p.job /\ q.result = p.result /\ q.opened = p.opened
  /\ q.answer = p.answer /\ q.thumb = p.thumb

LEMMA Freed ==
  ASSUME NEW p, IsPage(p), NEW q, q = [p EXCEPT !.busy = FALSE]
  PROVE  Alike(q, p) /\ q.busy = FALSE /\ q.token = p.token
  <1>1. q = [token |-> p.token, account |-> p.account, job |-> p.job, result |-> p.result, busy |-> FALSE,
             opened |-> p.opened, used |-> p.used, sample |-> p.sample, answer |-> p.answer, thumb |-> p.thumb]
    BY DEF IsPage
  <1> QED BY <1>1 DEF Alike, IsPage

LEMMA SendingPage ==
  ASSUME NEW p, IsPage(p)
  PROVE  /\ IsPage(Sending(p)) /\ Sending(p).busy = TRUE /\ Sending(p).opened = TRUE
         /\ Sending(p).result = None /\ Sending(p).job = None /\ Sending(p).token = p.token
  <1>0. PICK yes : yes = TRUE
    OBVIOUS
  <1> DEFINE a == [p EXCEPT !.busy = yes]
             b == [a EXCEPT !.opened = yes]
             c == [b EXCEPT !.result = None]
             q == [c EXCEPT !.job = None]
  <1>1. Sending(p) = q
    BY <1>0 DEF Sending
  <1>2. a = [token |-> p.token, account |-> p.account, job |-> p.job, result |-> p.result, busy |-> yes,
             opened |-> p.opened, used |-> p.used, sample |-> p.sample, answer |-> p.answer, thumb |-> p.thumb]
    BY DEF IsPage
  <1> HIDE DEF a
  <1>3. b = [token |-> p.token, account |-> p.account, job |-> p.job, result |-> p.result, busy |-> yes,
             opened |-> yes, used |-> p.used, sample |-> p.sample, answer |-> p.answer, thumb |-> p.thumb]
    BY <1>2
  <1> HIDE DEF b
  <1>4. c = [token |-> p.token, account |-> p.account, job |-> p.job, result |-> None, busy |-> yes,
             opened |-> yes, used |-> p.used, sample |-> p.sample, answer |-> p.answer, thumb |-> p.thumb]
    BY <1>3
  <1> HIDE DEF c
  <1>5. q = [token |-> p.token, account |-> p.account, job |-> None, result |-> None, busy |-> yes,
             opened |-> yes, used |-> p.used, sample |-> p.sample, answer |-> p.answer, thumb |-> p.thumb]
    BY <1>4
  <1> HIDE DEF q
  <1> QED BY <1>0, <1>1, <1>5 DEF IsPage

LEMMA UsedPage ==
  ASSUME NEW p, IsPage(p)
  PROVE  Alike(MarkUsed(p), p) /\ MarkUsed(p).busy = p.busy /\ MarkUsed(p).token = p.token
  <1> DEFINE q == MarkUsed(p)
             u == p.used \/ p.account = Guest
  <1>1. q = [p EXCEPT !.used = u]
    BY DEF IsPage, MarkUsed
  <1> HIDE DEF q, u
  <1>2. q = [token |-> p.token, account |-> p.account, job |-> p.job, result |-> p.result, busy |-> p.busy,
             opened |-> p.opened, used |-> u, sample |-> p.sample, answer |-> p.answer, thumb |-> p.thumb]
    BY <1>1 DEF IsPage
  <1>3. Alike(q, p) /\ q.busy = p.busy /\ q.token = p.token
    BY <1>2 DEF Alike, IsPage
  <1> QED BY <1>3 DEF q

LEMMA GuestPage ==
  ASSUME IsPage(page), NEW used
  PROVE  Alike(AsGuest(used), page) /\ AsGuest(used).busy = page.busy /\ AsGuest(used).token = Guest
  <1> DEFINE a == [page EXCEPT !.token = Guest]
             b == [a EXCEPT !.account = Guest]
             q == [b EXCEPT !.used = used]
  <1>1. AsGuest(used) = q
    BY DEF AsGuest
  <1>2. a = [token |-> Guest, account |-> page.account, job |-> page.job, result |-> page.result, busy |-> page.busy,
             opened |-> page.opened, used |-> page.used, sample |-> page.sample, answer |-> page.answer, thumb |-> page.thumb]
    BY DEF IsPage
  <1> HIDE DEF a
  <1>3. b = [token |-> Guest, account |-> Guest, job |-> page.job, result |-> page.result, busy |-> page.busy,
             opened |-> page.opened, used |-> page.used, sample |-> page.sample, answer |-> page.answer, thumb |-> page.thumb]
    BY <1>2
  <1> HIDE DEF b
  <1>4. q = [token |-> Guest, account |-> Guest, job |-> page.job, result |-> page.result, busy |-> page.busy,
             opened |-> page.opened, used |-> used, sample |-> page.sample, answer |-> page.answer, thumb |-> page.thumb]
    BY <1>3
  <1> HIDE DEF q
  <1> QED BY <1>1, <1>4 DEF Alike, IsPage

LEMMA BusyPage ==
  ASSUME NEW p, IsPage(p), NEW q, q = [p EXCEPT !.busy = TRUE]
  PROVE  Alike(q, p) /\ q.busy = TRUE /\ q.token = p.token
  <1>1. q = [token |-> p.token, account |-> p.account, job |-> p.job, result |-> p.result, busy |-> TRUE,
             opened |-> p.opened, used |-> p.used, sample |-> p.sample, answer |-> p.answer, thumb |-> p.thumb]
    BY DEF IsPage
  <1> QED BY <1>1 DEF Alike, IsPage

-----------------------------------------------------------------------------
(* Calls come and go *)

LEMMA FewerCalls ==
  ASSUME NEW p, NEW cs, NEW t, NEW g, NEW x, Loose(p, cs, t, g, x), NEW ds, ds \subseteq cs
  PROVE  Loose(p, ds, t, g, x)
  BY DEF Loose

LEMMA OneLess ==
  ASSUME NEW cs, NEW busy, NEW t, NEW x, One(cs, busy, t, x), NEW c \in cs, c.op \in AnalysisOps
  PROVE  ~x => Idle(cs \ {c}) /\ busy /\ ~t
  BY DEF One, Idle, Single

LEMMA OtherLess ==
  ASSUME NEW cs, NEW busy, NEW t, NEW x, One(cs, busy, t, x), NEW c, c.op \notin AnalysisOps
  PROVE  One(cs \ {c}, busy, t, x)
  BY DEF One, Idle, Single

LEMMA OneMore ==
  ASSUME NEW cs, NEW x, ~x => Idle(cs), NEW n, n.op \in AnalysisOps, NEW busy, NEW t, ~x => busy /\ ~t
  PROVE  One(cs \cup {n}, busy, t, x)
  BY DEF One, Idle, Single

LEMMA OtherMore ==
  ASSUME NEW cs, NEW busy, NEW t, NEW x, One(cs, busy, t, x), NEW n, n.op \notin AnalysisOps
  PROVE  One(cs \cup {n}, busy, t, x)
  BY DEF One, Idle, Single

LEMMA NoneUnderWay ==
  ASSUME NEW cs, NEW x, ~x => Idle(cs), NEW busy, ~x => ~busy
  PROVE  One(cs, busy, FALSE, x)
  BY DEF One

\* A page that agrees with another, and has not begun to work, fits the same calls.
LEMMA AlikeFits ==
  ASSUME NEW p, NEW cs, NEW t, NEW g, NEW x, Loose(p, cs, t, g, x), NEW q, Alike(q, p), NEW u, u => t,
         q.busy => p.busy, q.token = p.token \/ q.token = None
  PROVE  Loose(q, cs, u, g, x)
  <1>1. PageFits(q, u, x)
    BY DEF Loose, PageFits, Alike, Shown
  <1>2. ASSUME NEW c \in cs PROVE CallFits(c, q, g, x)
    <2>1. CallFits(c, p, g, x)
      BY DEF Loose
    <2> QED BY <2>1 DEF CallFits, Alike
  <1> QED BY <1>1, <1>2 DEF Loose

LEMMA MoreCalls ==
  ASSUME NEW p, NEW cs, NEW t, NEW g, NEW x, Loose(p, cs, t, g, x), NEW n, CallFits(n, p, g, x)
  PROVE  Loose(p, cs \cup {n}, t, g, x)
  BY DEF Loose

\* showError: the page is free again.
LEMMA StopFits ==
  ASSUME NEW p, NEW others, NEW t, Loose(p, others, t, guest', crossed'), ~crossed' => Idle(others), Stop(p, others)
  PROVE  WsInv'
  <1> DEFINE q == [p EXCEPT !.busy = FALSE]
  <1>1. page' = q /\ timer' = FALSE /\ calls' = others
    BY DEF Stop
  <1>2. IsPage(p)
    BY DEF Loose, PageFits
  <1>3. Alike(q, p) /\ q.busy = FALSE /\ q.token = p.token
    BY <1>2, Freed
  <1> HIDE DEF q
  <1>4. Loose(q, others, FALSE, guest', crossed')
    BY <1>3, AlikeFits
  <1>5. One(others, q.busy, FALSE, crossed')
    BY <1>3, NoneUnderWay
  <1>6. Fits(page', calls', timer', guest', crossed')
    BY <1>1, <1>4, <1>5 DEF Fits
  <1> QED BY <1>6, Together

-----------------------------------------------------------------------------
(* Loading the page, the session and the link *)

LEMMA LoadFits ==
  ASSUME NEW token, GuestFits(guest, crossed), LoadWith(token, guest), crossed' = FALSE
  PROVE  WsInv'
  <1> DEFINE fresh == FreshPage(token)
  <1>1. /\ page' = fresh /\ timer' = FALSE /\ guest' = (IF token # None THEN None ELSE guest)
        /\ calls' = {[op |-> "catalog"]} \cup
             (IF token = None /\ guest # None THEN {[op |-> "restore", token |-> guest]} ELSE {})
    BY DEF LoadWith
  <1>2. IsPage(fresh) /\ fresh.busy = FALSE /\ fresh.opened = FALSE /\ fresh.result = None
    BY DEF FreshPage, IsPage
  <1> HIDE DEF fresh
  <1>3. guest \in {Guest, None}
    BY DEF GuestFits
  <1>4. \A c \in calls' : c = [op |-> "catalog"] \/ (c = [op |-> "restore", token |-> Guest] /\ guest' # None)
    BY <1>1, <1>3
  <1>5. \A c \in calls' : CallFits(c, page', guest', crossed') /\ c.op \notin AnalysisOps
    BY <1>4 DEF CallFits, AnalysisOps
  <1>6. PageFits(page', timer', crossed') /\ GuestFits(guest', crossed')
    BY <1>1, <1>2, <1>3 DEF PageFits, Shown, GuestFits
  <1>7. One(calls', page'.busy, timer', crossed')
    BY <1>1, <1>2, <1>5 DEF One, Idle
  <1> QED BY <1>5, <1>6, <1>7, Together DEF Fits, Loose

\* The link's job is opened on a page that has not opened anything.
LEMMA OpenFits ==
  ASSUME NEW p, NEW others, Fits(p, others, timer', guest, crossed), OpenRequested(p, others),
         UNCHANGED <<guest, crossed>>
  PROVE  WsInv'
  <1>1. CASE OpensLink(p)
    <2> DEFINE n == [op |-> "open", job |-> Wanted, token |-> p.token]
    <2>0. PICK yes : yes = TRUE
      OBVIOUS
    <2>1. ~p.opened /\ ~p.busy /\ p.token # None
      BY <1>1 DEF OpensLink
    <2>2. page' = [p EXCEPT !.opened = yes, !.job = Wanted, !.busy = yes] /\ calls' = others \cup {n}
      BY <1>1, <2>0 DEF OpenRequested
    <2>3. IsPage(p)
      BY DEF Fits, Loose, PageFits
    <2>4. page' = [token |-> p.token, account |-> p.account, job |-> Wanted, result |-> p.result, busy |-> yes,
                   opened |-> yes, used |-> p.used, sample |-> p.sample, answer |-> p.answer, thumb |-> p.thumb]
      BY <2>2, <2>3 DEF IsPage
    <2>5. IsPage(page') /\ page'.busy = TRUE /\ page'.opened = TRUE /\ page'.result = p.result /\ page'.token = p.token
      BY <2>0, <2>4 DEF IsPage
    <2>6. p.result = None /\ ~timer'
      BY <2>1 DEF Fits, Loose, PageFits
    <2>7. PageFits(page', timer', crossed')
      BY <2>5, <2>6 DEF PageFits, Shown
    <2>8. ASSUME NEW c \in others PROVE CallFits(c, page', guest', crossed')
      <3>1. CallFits(c, p, guest, crossed)
        BY DEF Fits, Loose
      <3> QED BY <2>1, <2>5, <2>6, <3>1 DEF CallFits
    <2>9. CallFits(n, page', guest', crossed') /\ n.op \in AnalysisOps
      BY <2>5 DEF CallFits, AnalysisOps
    <2> HIDE DEF n
    <2>10. Loose(page', calls', timer', guest', crossed')
      BY <2>2, <2>7, <2>8, <2>9 DEF Fits, Loose
    <2>11. ~crossed => Idle(others)
      BY <2>1 DEF Fits, One
    <2>12. One(others \cup {n}, page'.busy, timer', crossed')
      BY <2>5, <2>6, <2>9, <2>11, OneMore
    <2> QED BY <2>2, <2>10, <2>12, Together DEF Fits
  <1>2. CASE ~OpensLink(p)
    <2>1. page' = p /\ calls' = others
      BY <1>2 DEF OpenRequested
    <2> QED BY <2>1, Together
  <1> QED BY <1>1, <1>2

\* refreshBillingAccount asks under a session that is the stored one, or that
\* no other tab replaced.
LEMMA RefreshFits ==
  ASSUME NEW p, NEW others, NEW open, Fits(p, others, timer', guest, crossed), RefreshAccount(p, others, open),
         UNCHANGED <<guest, crossed>>
  PROVE  WsInv'
  <1>1. CASE p.token # None /\ stored \in {None, p.token}
    <2> DEFINE n == [op |-> "me", token |-> p.token, stored |-> stored, open |-> open]
    <2>1. page' = p /\ calls' = others \cup {n}
      BY <1>1 DEF RefreshAccount
    <2>2. CallFits(n, p, guest, crossed) /\ n.op \notin AnalysisOps
      BY <1>1 DEF CallFits, AnalysisOps
    <2> HIDE DEF n
    <2>3. Loose(p, others \cup {n}, timer', guest, crossed) /\ One(others \cup {n}, p.busy, timer', crossed)
      BY <2>2, MoreCalls, OtherMore DEF Fits
    <2> QED BY <2>1, <2>3, Together DEF Fits
  <1>2. CASE ~(p.token # None /\ stored \in {None, p.token})
    <2> DEFINE q == IF p.token = None THEN [p EXCEPT !.account = None] ELSE p
    <2>1. IF open THEN OpenRequested(q, others) ELSE page' = q /\ calls' = others
      BY <1>2 DEF RefreshAccount
    <2>2. IsPage(p)
      BY DEF Fits, Loose, PageFits
    <2>3. Alike(q, p) /\ q.busy = p.busy /\ q.token = p.token
      <3>1. CASE p.token = None
        <4>1. q = [token |-> p.token, account |-> None, job |-> p.job, result |-> p.result, busy |-> p.busy,
                   opened |-> p.opened, used |-> p.used, sample |-> p.sample, answer |-> p.answer, thumb |-> p.thumb]
          BY <2>2, <3>1 DEF IsPage
        <4> QED BY <4>1 DEF Alike, IsPage
      <3>2. CASE p.token # None
        BY <2>2, <3>2 DEF Alike
      <3> QED BY <3>1, <3>2
    <2> HIDE DEF q
    <2>4. Loose(q, others, timer', guest, crossed)
      BY <2>3, AlikeFits DEF Fits
    <2>5. Fits(q, others, timer', guest, crossed)
      BY <2>3, <2>4 DEF Fits
    <2>6. CASE open
      BY <2>1, <2>5, <2>6, OpenFits
    <2>7. CASE ~open
      BY <2>1, <2>5, <2>7, Together
    <2> QED BY <2>6, <2>7
  <1> QED BY <1>1, <1>2

\* A call of no analysis has been answered.
LEMMA Answered ==
  ASSUME NEW c \in calls, WsInv, c.op \notin AnalysisOps
  PROVE  Fits(page, calls \ {c}, timer, guest, crossed)
  <1>1. Loose(page, calls \ {c}, timer, guest, crossed)
    BY FewerCalls DEF WsInv, Fits
  <1>2. One(calls \ {c}, page.busy, timer, crossed)
    BY OtherLess DEF WsInv, Fits
  <1> QED BY <1>1, <1>2 DEF Fits

LEMMA StepCatalogReply ==
  ASSUME WsInv, NEW offers, CatalogReply(offers)
  PROVE  WsInv'
  <1>1. PICK c \in calls : /\ c.op = "catalog" /\ RefreshAccount(page, calls \ {c}, TRUE)
                           /\ UNCHANGED <<timer, guest, crossed>>
    BY DEF CatalogReply, InFlight, tab
  <1>2. Fits(page, calls \ {c}, timer, guest, crossed)
    BY <1>1, Answered DEF AnalysisOps
  <1> QED BY <1>1, <1>2, RefreshFits

LEMMA StepAccountReply ==
  ASSUME WsInv, NEW outcome, AccountReply(outcome)
  PROVE  WsInv'
  <1>1. PICK c \in InFlight("me") :
          LET q == IF ~SameSession(c) \/ outcome = "failed" THEN page
                   ELSE IF outcome = "denied" THEN [page EXCEPT !.token = None, !.account = None]
                   ELSE [page EXCEPT !.account = c.token]
          IN /\ IF c.open THEN OpenRequested(q, calls \ {c}) ELSE page' = q /\ calls' = calls \ {c}
             /\ UNCHANGED <<timer, guest, crossed>>
    BY DEF AccountReply
  <1> DEFINE q == IF ~SameSession(c) \/ outcome = "failed" THEN page
                  ELSE IF outcome = "denied" THEN [page EXCEPT !.token = None, !.account = None]
                  ELSE [page EXCEPT !.account = c.token]
  <1>2. c \in calls /\ c.op = "me"
    BY DEF InFlight
  <1>3. IsPage(page)
    BY DEF WsInv, Fits, Loose, PageFits
  <1>4. Alike(q, page) /\ q.busy = page.busy /\ (q.token = page.token \/ q.token = None)
    <2>1. CASE q = page
      BY <1>3, <2>1 DEF Alike
    <2>2. CASE q = [page EXCEPT !.token = None, !.account = None]
      <3>1. q = [token |-> None, account |-> None, job |-> page.job, result |-> page.result, busy |-> page.busy,
                 opened |-> page.opened, used |-> page.used, sample |-> page.sample, answer |-> page.answer, thumb |-> page.thumb]
        <4> HIDE DEF q
        <4> QED BY <1>3, <2>2 DEF IsPage
      <3> HIDE DEF q
      <3> QED BY <3>1 DEF Alike, IsPage
    <2>3. CASE q = [page EXCEPT !.account = c.token]
      <3>1. q = [token |-> page.token, account |-> c.token, job |-> page.job, result |-> page.result, busy |-> page.busy,
                 opened |-> page.opened, used |-> page.used, sample |-> page.sample, answer |-> page.answer, thumb |-> page.thumb]
        <4> HIDE DEF q
        <4> QED BY <1>3, <2>3 DEF IsPage
      <3> HIDE DEF q
      <3> QED BY <3>1 DEF Alike, IsPage
    <2> QED BY <2>1, <2>2, <2>3
  <1>5. /\ IF c.open THEN OpenRequested(q, calls \ {c}) ELSE page' = q /\ calls' = calls \ {c}
        /\ UNCHANGED <<timer, guest, crossed>>
    BY <1>1
  <1> HIDE DEF q
  <1>6. Fits(page, calls \ {c}, timer, guest, crossed)
    BY <1>2, Answered DEF AnalysisOps
  <1>7. Loose(q, calls \ {c}, timer, guest, crossed)
    BY <1>4, <1>6, AlikeFits DEF Fits
  <1>8. Fits(q, calls \ {c}, timer, guest, crossed)
    BY <1>4, <1>6, <1>7 DEF Fits
  <1>9. CASE c.open
    BY <1>5, <1>8, <1>9, OpenFits
  <1>10. CASE ~c.open
    BY <1>5, <1>8, <1>10, Together
  <1> QED BY <1>9, <1>10

\* The guest session of this tab is restored, or is gone.
LEMMA StepRestoreReply ==
  ASSUME WsInv, NEW ok, NEW used, RestoreReply(ok, used)
  PROVE  WsInv'
  <1>1. PICK c \in calls : /\ c.op = "restore" /\ page' = (IF ok THEN AsGuest(used) ELSE page)
                           /\ guest' = (IF ok THEN c.token ELSE None) /\ calls' = calls \ {c}
                           /\ UNCHANGED <<timer, crossed>>
    BY DEF RestoreReply, InFlight
  <1>2. Loose(page, calls, timer, guest, crossed) /\ One(calls, page.busy, timer, crossed)
    BY DEF WsInv, Fits
  <1>3. CallFits(c, page, guest, crossed)
    BY <1>2 DEF Loose
  <1>4. c = [op |-> "restore", token |-> Guest] /\ guest # None /\ ~crossed
    BY <1>1, <1>3 DEF CallFits
  <1>5. c.token = Guest
    BY <1>4
  <1>6. PageFits(page, timer, crossed) /\ IsPage(page)
    BY <1>2 DEF Loose, PageFits
  <1>7. Alike(page', page) /\ page'.busy = page.busy
    BY <1>1, <1>6, GuestPage DEF Alike
  <1>8. PageFits(page', timer', crossed') /\ GuestFits(guest', crossed')
    BY <1>1, <1>4, <1>5, <1>6, <1>7 DEF PageFits, Shown, Alike, GuestFits
  <1>9. ASSUME NEW d \in calls' PROVE CallFits(d, page', guest', crossed')
    <2>1. d \in calls /\ d # c
      BY <1>1
    <2>2. CallFits(d, page, guest, crossed)
      BY <1>2, <2>1 DEF Loose
    <2>3. d.op # "restore" /\ d.op # "guest"
      BY <1>4, <2>1, <2>2 DEF CallFits
    <2> QED BY <1>1, <1>7, <2>2, <2>3 DEF CallFits, Alike
  <1>10. One(calls', page'.busy, timer', crossed')
    BY <1>1, <1>2, <1>7, OtherLess DEF AnalysisOps
  <1> QED BY <1>8, <1>9, <1>10, Together DEF Fits, Loose

-----------------------------------------------------------------------------
(* Beginning an analysis *)

\* The page begins: the lengths of a guest's media are read first.
LEMMA BeginFits ==
  ASSUME NEW p, NEW cs, NEW t, NEW g, NEW x, Loose(p, cs, t, g, x), ~x => Idle(cs) /\ ~t,
         p.token # None, NEW asked, asked => SampleEligible /\ p.sample
  PROVE  /\ Loose(Begun(p), cs \cup {BegunCall(p, asked)}, t, g, x)
         /\ One(cs \cup {BegunCall(p, asked)}, Begun(p).busy, t, x)
  <1> DEFINE q == Begun(p)
             n == BegunCall(p, asked)
  <1>1. IsPage(p) /\ PageFits(p, t, x) /\ GuestFits(g, x) /\ \A c \in cs : CallFits(c, p, g, x)
    BY DEF Loose, PageFits
  <1>2. CASE ReadsLengths(p)
    <2>1. q = [p EXCEPT !.busy = TRUE] /\ n = [op |-> "lengths", asked |-> asked]
      BY <1>2 DEF Begun, BegunCall
    <2>2. ~asked
      BY <1>2 DEF ReadsLengths, Document, SampleEligible
    <2> HIDE DEF q, n
    <2>3. Alike(q, p) /\ q.busy = TRUE /\ q.token = p.token
      BY <1>1, <2>1, BusyPage
    <2>4. n.op = "lengths" /\ n.asked = asked
      BY <2>1
    <2>5. PageFits(q, t, x)
      BY <1>1, <2>3 DEF PageFits, Shown, Alike
    <2>6. ASSUME NEW c \in cs PROVE CallFits(c, q, g, x)
      <3>1. CallFits(c, p, g, x)
        BY <1>1
      <3> QED BY <2>3, <3>1 DEF CallFits, Alike
    <2>7. CallFits(n, q, g, x) /\ n.op \in AnalysisOps
      BY <2>2, <2>4 DEF CallFits, AnalysisOps
    <2>8. Loose(q, cs \cup {n}, t, g, x)
      BY <1>1, <2>5, <2>6, <2>7 DEF Loose
    <2>9. One(cs \cup {n}, q.busy, t, x)
      BY <2>3, <2>7, OneMore
    <2> QED BY <2>8, <2>9 DEF q, n
  <1>3. CASE ~ReadsLengths(p)
    <2>1. q = Sending(p) /\ n = UploadCall(p, asked)
      BY <1>3 DEF Begun, BegunCall
    <2>2. n.op = "upload" /\ n.asked = asked /\ n.sample = (SampleEligible /\ p.sample)
      BY <2>1 DEF UploadCall
    <2> HIDE DEF q, n
    <2>3. IsPage(q) /\ q.busy = TRUE /\ q.opened = TRUE /\ q.result = None /\ q.token = p.token
      BY <1>1, <2>1, SendingPage
    <2>4. PageFits(q, t, x)
      BY <2>3 DEF PageFits, Shown
    <2>5. ASSUME NEW c \in cs PROVE CallFits(c, q, g, x)
      <3>1. CallFits(c, p, g, x)
        BY <1>1
      <3>2. ~x => c.op # "result"
        BY DEF Idle, AnalysisOps
      <3> QED BY <2>3, <3>1, <3>2 DEF CallFits
    <2>6. CallFits(n, q, g, x) /\ n.op \in AnalysisOps
      BY <2>2, <2>3 DEF CallFits, AnalysisOps
    <2>7. Loose(q, cs \cup {n}, t, g, x)
      BY <1>1, <2>4, <2>5, <2>6 DEF Loose
    <2>8. One(cs \cup {n}, q.busy, t, x)
      BY <2>3, <2>6, OneMore
    <2> QED BY <2>7, <2>8 DEF q, n
  <1> QED BY <1>2, <1>3

LEMMA AnalyzeFits ==
  ASSUME NEW p, NEW others, NEW asked, Fits(p, others, timer, guest', crossed'), Analyze(p, others, asked),
         asked => SampleEligible /\ p.sample
  PROVE  WsInv'
  <1>1. CASE p.busy
    <2>1. page' = p /\ calls' = others /\ timer' = timer
      BY <1>1 DEF Analyze
    <2> QED BY <2>1, Together
  <1>2. ~p.busy => (~crossed' => Idle(others) /\ ~timer)
    BY DEF Fits, One
  <1>3. CASE ~p.busy /\ MayBegin(p)
    <2> DEFINE q == Begun(p)
               cs == others \cup {BegunCall(p, asked)}
    <2>1. page' = q /\ calls' = cs /\ timer' = timer
      BY <1>3 DEF Analyze
    <2>2. p.token # None
      BY <1>3 DEF MayBegin
    <2>3. Loose(q, cs, timer, guest', crossed') /\ One(cs, q.busy, timer, crossed')
      BY <1>2, <1>3, <2>2, BeginFits DEF Fits
    <2> HIDE DEF q, cs
    <2>4. Fits(q, cs, timer, guest', crossed')
      BY <2>3 DEF Fits
    <2> QED BY <2>1, <2>4, Together
  <1>4. CASE ~p.busy /\ ~MayBegin(p)
    <2>1. Stop(p, others)
      BY <1>4 DEF Analyze
    <2> QED BY <1>2, <1>4, <2>1, StopFits DEF Fits
  <1> QED BY <1>1, <1>3, <1>4

\* A click on "analyze"; without a session it waits for a guest's.
LEMMA StepClick ==
  ASSUME WsInv, Click
  PROVE  WsInv'
  <1>1. ~page.busy /\ UNCHANGED <<guest, crossed>>
    BY DEF Click, tab
  <1>2. Fits(page, calls, timer, guest', crossed')
    BY <1>1 DEF WsInv
  <1>3. CASE Stop(page, calls)
    <2>1. ~crossed' => Idle(calls)
      BY <1>1, <1>2 DEF Fits, One
    <2> QED BY <1>2, <1>3, <2>1, StopFits DEF Fits
  <1>4. CASE Analyze(page, calls, SampleSelected)
    <2>1. SampleSelected => SampleEligible /\ page.sample
      BY DEF SampleSelected
    <2> QED BY <1>2, <1>4, <2>1, AnalyzeFits
  <1>5. CASE ActiveToken = None /\ calls' = calls \cup {[op |-> "guest"]} /\ UNCHANGED <<page, timer>>
    <2> DEFINE n == [op |-> "guest"]
    <2>1. page.token = None /\ guest = None
      BY <1>5 DEF ActiveToken
    <2>2. CallFits(n, page, guest, crossed) /\ n.op \notin AnalysisOps
      BY <1>1, <2>1 DEF CallFits, AnalysisOps
    <2>3. calls' = calls \cup {n}
      BY <1>5
    <2> HIDE DEF n
    <2>4. Loose(page, calls \cup {n}, timer, guest, crossed) /\ One(calls \cup {n}, page.busy, timer, crossed)
      BY <2>2, MoreCalls, OtherMore DEF WsInv, Fits
    <2>5. Fits(page', calls', timer', guest', crossed')
      BY <1>1, <1>5, <2>3, <2>4 DEF Fits
    <2> QED BY <2>5, Together
  <1>6. \/ Stop(page, calls) \/ Analyze(page, calls, SampleSelected)
        \/ (ActiveToken = None /\ calls' = calls \cup {[op |-> "guest"]} /\ UNCHANGED <<page, timer>>)
    BY DEF Click
  <1> QED BY <1>3, <1>4, <1>5, <1>6

\* The guest session is there, or is refused: the waiting clicks go on.
LEMMA StepGuestReply ==
  ASSUME WsInv, NEW ok, NEW used, GuestReply(ok, used)
  PROVE  WsInv'
  <1>1. PICK c \in InFlight("guest") :
          LET fresh == ok /\ ActiveToken = None
              p == IF fresh THEN AsGuest(used) ELSE page
          IN /\ guest' = IF fresh THEN Guest ELSE guest
             /\ IF ok THEN ResumeClicks(p, calls \ {c}) ELSE Stop(p, calls \ {c}) /\ crossed' = crossed
    BY DEF GuestReply
  <1> DEFINE fresh == ok /\ ActiveToken = None
             p == IF fresh THEN AsGuest(used) ELSE page
             others == calls \ {c}
  <1>2. c \in calls /\ c.op = "guest"
    BY DEF InFlight
  <1>3. Loose(page, calls, timer, guest, crossed) /\ One(calls, page.busy, timer, crossed)
    BY DEF WsInv, Fits
  <1>4. c = [op |-> "guest"] /\ page.token = None /\ guest = None /\ ~page.busy
    BY <1>2, <1>3 DEF Loose, CallFits
  <1>5. ~crossed /\ GuestFits(guest, crossed) /\ PageFits(page, timer, crossed) /\ IsPage(page)
    BY <1>3, <1>4 DEF Loose, GuestFits, PageFits
  <1>6. Idle(others) /\ ~timer
    BY <1>3, <1>4, <1>5 DEF One, Idle
  <1>7. /\ guest' = IF fresh THEN Guest ELSE guest
        /\ IF ok THEN ResumeClicks(p, others) ELSE Stop(p, others) /\ crossed' = crossed
    BY <1>1
  <1>8. Alike(p, page) /\ p.busy = page.busy
    BY <1>5, GuestPage DEF Alike
  <1>9. p.token # None => guest' # None
    BY <1>4, <1>7, GuestIsToken
  <1>10. guest' \in {Guest, None}
    BY <1>4, <1>7
  <1> HIDE DEF fresh, p
  <1>11. ASSUME NEW d \in others, NEW x, NEW q, IsPage(q), q.opened = page.opened, q.result = page.result, q.job = page.job
         PROVE  CallFits(d, q, guest', x)
    <2>1. d \in calls /\ d # c
      OBVIOUS
    <2>2. CallFits(d, page, guest, crossed)
      BY <1>3, <2>1 DEF Loose
    <2>3. d.op # "restore" /\ d.op # "guest"
      BY <1>4, <2>1, <2>2 DEF CallFits
    <2> QED BY <1>5, <1>11, <2>2, <2>3 DEF CallFits
  <1> HIDE DEF others
  <1>12. Loose(p, others, timer, guest', FALSE)
    <2>1. PageFits(p, timer, FALSE) /\ GuestFits(guest', FALSE)
      BY <1>5, <1>8, <1>10 DEF PageFits, GuestFits, Shown, Alike
    <2> QED BY <1>8, <1>11, <2>1 DEF Loose, Alike
  <1>13. Fits(p, others, timer, guest', FALSE)
    BY <1>4, <1>6, <1>8, <1>12 DEF Fits, One
  <1>14. CASE Stop(p, others) /\ crossed' = crossed
    <2>1. ~crossed'
      BY <1>5, <1>14
    <2>2. Loose(p, others, timer, guest', crossed')
      BY <1>12, <2>1 DEF Loose, PageFits, GuestFits, CallFits
    <2> QED BY <1>6, <1>14, <2>2, StopFits
  <1>15. CASE \E k \in clicks : /\ ~(k.asked /\ ~(SampleEligible /\ p.sample))
                                /\ Analyze(p, others, k.asked) /\ crossed' = crossed
    <2>1. PICK k \in clicks : /\ ~(k.asked /\ ~(SampleEligible /\ p.sample))
                              /\ Analyze(p, others, k.asked) /\ crossed' = crossed
      BY <1>15
    <2>2. ~crossed'
      BY <1>5, <2>1
    <2>3. Fits(p, others, timer, guest', crossed')
      BY <1>13, <2>2 DEF Fits, One, Loose, PageFits, GuestFits, CallFits
    <2>4. k.asked => SampleEligible /\ p.sample
      BY <2>1
    <2> QED BY <2>1, <2>3, <2>4, AnalyzeFits
  <1>16. CASE /\ MayBegin(p) /\ crossed' = TRUE
              /\ \E k \in clicks : /\ ~(k.asked /\ ~(SampleEligible /\ p.sample))
                                   /\ Stop(Begun(p), others \cup {BegunCall(p, k.asked)})
    <2>1. PICK k \in clicks : /\ ~(k.asked /\ ~(SampleEligible /\ p.sample))
                              /\ Stop(Begun(p), others \cup {BegunCall(p, k.asked)})
      BY <1>16
    <2> DEFINE q == Begun(p)
               n == BegunCall(p, k.asked)
    <2>2. p.token # None
      BY <1>16 DEF MayBegin
    <2>3. Loose(p, others, timer, guest', crossed')
      <3>1. PageFits(p, timer, TRUE) /\ GuestFits(guest', TRUE)
        BY <1>9, <1>12, <2>2 DEF Loose, PageFits, GuestFits
      <3> QED BY <1>8, <1>11, <1>16, <3>1 DEF Loose, Alike
    <2>4. Loose(q, others \cup {n}, timer, guest', crossed')
      BY <1>16, <2>1, <2>2, <2>3, BeginFits
    <2> HIDE DEF q
    <2>5. ~crossed' => Idle(others \cup {n})
      BY <1>16
    <2>6. Stop(q, others \cup {n})
      BY <2>1 DEF q
    <2> HIDE DEF n
    <2> QED BY <2>4, <2>5, <2>6, StopFits
  <1>17. CASE ok
    <2>1. ResumeClicks(p, others)
      BY <1>7, <1>17
    <2> QED BY <1>14, <1>15, <1>16, <2>1 DEF ResumeClicks
  <1>18. CASE ~ok
    BY <1>7, <1>14, <1>18
  <1> QED BY <1>17, <1>18

-----------------------------------------------------------------------------
(* The steps of a running analysis *)

\* A step of the analysis has been answered: nothing else of it is under way.
LEMMA StepAnswered ==
  ASSUME WsInv, NEW c \in calls, c.op \in AnalysisOps
  PROVE  /\ Loose(page, calls \ {c}, timer, guest, crossed) /\ IsPage(page) /\ CallFits(c, page, guest, crossed)
         /\ ~crossed => Idle(calls \ {c}) /\ page.busy /\ ~timer
  <1>1. Loose(page, calls, timer, guest, crossed) /\ One(calls, page.busy, timer, crossed)
    BY DEF WsInv, Fits
  <1>2. Loose(page, calls \ {c}, timer, guest, crossed)
    BY <1>1, FewerCalls
  <1>3. ~crossed => Idle(calls \ {c}) /\ page.busy /\ ~timer
    BY <1>1, OneLess
  <1>4. IsPage(page) /\ CallFits(c, page, guest, crossed)
    BY <1>1 DEF Loose, PageFits
  <1> QED BY <1>2, <1>3, <1>4

\* The answer ends the analysis.
LEMMA StopAfter ==
  ASSUME WsInv, NEW c \in calls, c.op \in AnalysisOps, UNCHANGED <<guest, crossed>>,
         Stop(page, calls \ {c}) \/ Stop(MarkUsed(page), calls \ {c})
  PROVE  WsInv'
  <1> DEFINE others == calls \ {c}
  <1>1. Loose(page, others, timer, guest', crossed') /\ IsPage(page) /\ (~crossed' => Idle(others))
    BY StepAnswered
  <1> HIDE DEF others
  <1>2. CASE Stop(page, calls \ {c})
    BY <1>1, <1>2, StopFits DEF others
  <1>3. CASE Stop(MarkUsed(page), calls \ {c})
    <2>1. Alike(MarkUsed(page), page) /\ MarkUsed(page).busy = page.busy /\ MarkUsed(page).token = page.token
      BY <1>1, UsedPage
    <2>2. Loose(MarkUsed(page), others, timer, guest', crossed')
      BY <1>1, <2>1, AlikeFits
    <2> QED BY <1>1, <1>3, <2>2, StopFits DEF others
  <1> QED BY <1>2, <1>3

\* The next step of the analysis follows, on a page that agrees with this one.
LEMMA NextAfter ==
  ASSUME WsInv, NEW c \in calls, c.op \in AnalysisOps, NEW n, n.op \in AnalysisOps,
         UNCHANGED <<guest, crossed, timer>>, calls' = (calls \ {c}) \cup {n},
         Alike(page', page), page'.busy = page.busy, page'.token = page.token,
         CallFits(n, page', guest, crossed)
  PROVE  WsInv'
  <1> DEFINE others == calls \ {c}
  <1>1. Loose(page, others, timer, guest, crossed) /\ (~crossed => Idle(others) /\ page.busy /\ ~timer)
    BY StepAnswered
  <1>2. calls' = others \cup {n}
    OBVIOUS
  <1> HIDE DEF others
  <1>3. Loose(page', others, timer, guest, crossed)
    BY <1>1, AlikeFits
  <1>4. Loose(page', others \cup {n}, timer, guest, crossed)
    BY <1>3, MoreCalls
  <1>5. One(others \cup {n}, page'.busy, timer, crossed)
    BY <1>1, OneMore
  <1>6. Fits(page', calls', timer', guest', crossed')
    BY <1>2, <1>4, <1>5 DEF Fits
  <1> QED BY <1>6, Together

LEMMA StepLengthsReply ==
  ASSUME WsInv, NEW over, LengthsReply(over)
  PROVE  WsInv'
  <1>1. PICK c \in calls :
          /\ c.op = "lengths" /\ UNCHANGED <<guest, crossed>>
          /\ IF over THEN Stop(page, calls \ {c})
             ELSE /\ page' = Sending(page) /\ timer' = timer
                  /\ calls' = (calls \ {c}) \cup {UploadCall(page, c.asked)}
    BY DEF LengthsReply, InFlight, tab
  <1>2. c.op \in AnalysisOps
    BY <1>1 DEF AnalysisOps
  <1>3. CASE over
    BY <1>1, <1>2, <1>3, StopAfter
  <1>4. CASE ~over
    <2> DEFINE n == UploadCall(page, c.asked)
               others == calls \ {c}
    <2>1. page' = Sending(page) /\ timer' = timer /\ calls' = others \cup {n}
      BY <1>1, <1>4
    <2>2. /\ Loose(page, others, timer, guest, crossed) /\ IsPage(page) /\ CallFits(c, page, guest, crossed)
          /\ ~crossed => Idle(others) /\ page.busy /\ ~timer
      BY <1>2, StepAnswered
    <2>3. n.op = "upload" /\ n.asked = c.asked
      BY DEF UploadCall
    <2>4. ~c.asked
      BY <1>1, <2>2 DEF CallFits
    <2>5. IsPage(page') /\ page'.busy = TRUE /\ page'.opened = TRUE /\ page'.result = None /\ page'.token = page.token
      BY <2>1, <2>2, SendingPage
    <2> HIDE DEF n, others
    <2>6. PageFits(page', timer', crossed') /\ GuestFits(guest, crossed)
      BY <1>1, <2>1, <2>2, <2>5 DEF PageFits, Shown, Loose
    <2>7. ASSUME NEW d \in others PROVE CallFits(d, page', guest', crossed')
      <3>1. CallFits(d, page, guest, crossed)
        BY <2>2 DEF Loose
      <3>2. d.op # "guest"
        BY <2>2, <2>6, <3>1 DEF CallFits, GuestFits
      <3>3. ~crossed => d.op # "result"
        BY <2>2 DEF Idle, AnalysisOps
      <3> QED BY <1>1, <2>5, <3>1, <3>2, <3>3 DEF CallFits
    <2>8. CallFits(n, page', guest', crossed') /\ n.op \in AnalysisOps
      BY <2>3, <2>4, <2>5 DEF CallFits, AnalysisOps
    <2>9. Loose(page', calls', timer', guest', crossed')
      BY <1>1, <2>1, <2>6, <2>7, <2>8 DEF Loose
    <2>10. One(others \cup {n}, page'.busy, timer', crossed')
      BY <1>1, <2>1, <2>2, <2>5, <2>8, OneMore
    <2>11. Fits(page', calls', timer', guest', crossed')
      BY <2>1, <2>9, <2>10 DEF Fits
    <2> QED BY <2>11, Together
  <1> QED BY <1>3, <1>4

LEMMA StepUploadReply ==
  ASSUME WsInv, NEW outcome, UploadReply(outcome)
  PROVE  WsInv'
  <1>1. PICK c \in calls :
          /\ c.op = "upload" /\ UNCHANGED <<guest, crossed>>
          /\ \/ \E j \in Jobs : /\ page' = [page EXCEPT !.job = j] /\ timer' = timer
                                /\ calls' = (calls \ {c}) \cup {PollCall([page EXCEPT !.job = j])}
             \/ Stop(page, calls \ {c}) \/ Stop(MarkUsed(page), calls \ {c})
    BY DEF UploadReply, InFlight, tab
  <1>2. c.op \in AnalysisOps
    BY <1>1 DEF AnalysisOps
  <1>3. CASE Stop(page, calls \ {c}) \/ Stop(MarkUsed(page), calls \ {c})
    BY <1>1, <1>2, <1>3, StopAfter
  <1>4. CASE \E j \in Jobs : /\ page' = [page EXCEPT !.job = j] /\ timer' = timer
                             /\ calls' = (calls \ {c}) \cup {PollCall([page EXCEPT !.job = j])}
    <2>1. PICK j \in Jobs : /\ page' = [page EXCEPT !.job = j] /\ timer' = timer
                            /\ calls' = (calls \ {c}) \cup {PollCall([page EXCEPT !.job = j])}
      BY <1>4
    <2> DEFINE n == PollCall(page')
               others == calls \ {c}
    <2>2. calls' = others \cup {n}
      BY <2>1
    <2>3. /\ Loose(page, others, timer, guest, crossed) /\ IsPage(page) /\ CallFits(c, page, guest, crossed)
          /\ ~crossed => Idle(others) /\ page.busy /\ ~timer
      BY <1>2, StepAnswered
    <2>4. page' = [token |-> page.token, account |-> page.account, job |-> j, result |-> page.result, busy |-> page.busy,
                   opened |-> page.opened, used |-> page.used, sample |-> page.sample, answer |-> page.answer, thumb |-> page.thumb]
      BY <2>1, <2>3 DEF IsPage
    <2>5. /\ IsPage(page') /\ page'.busy = page.busy /\ page'.opened = page.opened /\ page'.result = page.result
          /\ page'.token = page.token
      BY <2>4 DEF IsPage
    <2>6. n.op = "poll"
      BY DEF PollCall
    <2>7. page.opened /\ (~crossed => page.result = None)
      BY <1>1, <2>3 DEF CallFits
    <2> HIDE DEF n, others
    <2>8. PageFits(page', timer', crossed') /\ GuestFits(guest', crossed')
      BY <1>1, <2>1, <2>3, <2>5, <2>7 DEF PageFits, Shown, Loose
    <2>9. ASSUME NEW d \in others PROVE CallFits(d, page', guest', crossed')
      <3>1. CallFits(d, page, guest, crossed)
        BY <2>3 DEF Loose
      <3>2. ~crossed => d.op # "result"
        BY <2>3 DEF Idle, AnalysisOps
      <3> QED BY <1>1, <2>5, <3>1, <3>2 DEF CallFits
    <2>10. CallFits(n, page', guest', crossed') /\ n.op \in AnalysisOps
      BY <2>5, <2>6, <2>7 DEF CallFits, AnalysisOps
    <2>11. Loose(page', calls', timer', guest', crossed')
      BY <2>2, <2>8, <2>9, <2>10 DEF Loose
    <2>12. One(others \cup {n}, page'.busy, timer', crossed')
      BY <1>1, <2>1, <2>3, <2>5, <2>10, OneMore
    <2>13. Fits(page', calls', timer', guest', crossed')
      BY <2>2, <2>11, <2>12 DEF Fits
    <2> QED BY <2>13, Together
  <1> QED BY <1>1, <1>3, <1>4

\* The analysis has reached the server: its next request is for the page's job.
LEMMA NextCall ==
  ASSUME NEW p, NEW q, q.job = p.job, q.opened, NEW g, NEW x, NEW polled
  PROVE  /\ CallFits(ResultCall(p, polled), q, g, x) /\ CallFits(PollCall(p), q, g, x)
         /\ ResultCall(p, polled).op \in AnalysisOps /\ PollCall(p).op \in AnalysisOps
  BY DEF CallFits, ResultCall, PollCall, AnalysisOps

LEMMA StepPollReply ==
  ASSUME WsInv, NEW outcome, PollReply(outcome)
  PROVE  WsInv'
  <1>1. PICK c \in calls :
          /\ c.op = "poll" /\ UNCHANGED <<guest, crossed>>
          /\ \/ timer' = TRUE /\ page' \in {page, MarkUsed(page)} /\ calls' = calls \ {c}
             \/ /\ page' = MarkUsed(page) /\ timer' = timer
                /\ calls' = (calls \ {c}) \cup {ResultCall(page, TRUE)}
             \/ Stop(page, calls \ {c})
    BY DEF PollReply, InFlight, tab, PollAgain
  <1>2. c.op \in AnalysisOps
    BY <1>1 DEF AnalysisOps
  <1>3. /\ Loose(page, calls \ {c}, timer, guest, crossed) /\ IsPage(page) /\ CallFits(c, page, guest, crossed)
        /\ ~crossed => Idle(calls \ {c}) /\ page.busy /\ ~timer
    BY <1>2, StepAnswered
  <1>4. page.opened
    BY <1>1, <1>3 DEF CallFits
  <1>5. Alike(MarkUsed(page), page) /\ MarkUsed(page).busy = page.busy /\ MarkUsed(page).token = page.token
    BY <1>3, UsedPage
  <1>6. CASE Stop(page, calls \ {c})
    BY <1>1, <1>2, <1>6, StopAfter
  <1>7. CASE page' = MarkUsed(page) /\ timer' = timer /\ calls' = (calls \ {c}) \cup {ResultCall(page, TRUE)}
    <2> DEFINE n == ResultCall(page, TRUE)
    <2>1. Alike(page', page) /\ page'.busy = page.busy /\ page'.token = page.token
      BY <1>5, <1>7
    <2>2. CallFits(n, page', guest, crossed) /\ n.op \in AnalysisOps
      BY <1>4, <2>1, NextCall DEF Alike
    <2>3. calls' = (calls \ {c}) \cup {n}
      BY <1>7
    <2> HIDE DEF n
    <2> QED BY <1>1, <1>2, <1>7, <2>1, <2>2, <2>3, NextAfter
  <1>8. CASE timer' = TRUE /\ page' \in {page, MarkUsed(page)} /\ calls' = calls \ {c}
    <2>1. Alike(page', page) /\ page'.busy = page.busy /\ page'.token = page.token
      BY <1>3, <1>5, <1>8 DEF Alike
    <2>2. Loose(page', calls', timer, guest, crossed)
      BY <1>3, <1>8, <2>1, AlikeFits
    <2>3. Loose(page', calls', timer', guest', crossed')
      BY <1>1, <1>4, <2>1, <2>2 DEF Loose, PageFits, Alike
    <2>4. One(calls', page'.busy, timer', crossed')
      BY <1>1, <1>3, <1>8, <2>1 DEF One
    <2> QED BY <2>3, <2>4, Together DEF Fits
  <1> QED BY <1>1, <1>6, <1>7, <1>8

LEMMA StepPollTimer ==
  ASSUME WsInv, PollTimer
  PROVE  WsInv'
  <1> DEFINE n == PollCall(page)
  <1>1. timer /\ timer' = FALSE /\ calls' = calls \cup {n} /\ UNCHANGED <<page, guest, crossed>>
    BY DEF PollTimer, tab
  <1>2. Loose(page, calls, timer, guest, crossed) /\ One(calls, page.busy, timer, crossed)
    BY DEF WsInv, Fits
  <1>3. PageFits(page, timer, crossed)
    BY <1>2 DEF Loose
  <1>4. page.opened /\ IsPage(page)
    BY <1>1, <1>3 DEF PageFits
  <1>5. CallFits(n, page, guest, crossed) /\ n.op \in AnalysisOps
    BY <1>4, NextCall
  <1> HIDE DEF n
  <1>6. Loose(page, calls \cup {n}, FALSE, guest, crossed)
    <2>1. Alike(page, page)
      BY <1>4 DEF Alike
    <2>2. Loose(page, calls, FALSE, guest, crossed)
      BY <1>2, <2>1, AlikeFits
    <2> QED BY <1>5, <2>2, MoreCalls
  <1>7. ~crossed => Idle(calls) /\ page.busy
    BY <1>1, <1>2 DEF One
  <1>8. One(calls \cup {n}, page.busy, FALSE, crossed)
    BY <1>5, <1>7, OneMore
  <1>9. Fits(page', calls', timer', guest', crossed')
    BY <1>1, <1>6, <1>8 DEF Fits
  <1> QED BY <1>9, Together

LEMMA StepOpenReply ==
  ASSUME WsInv, NEW outcome, OpenReply(outcome)
  PROVE  WsInv'
  <1>1. PICK c \in calls :
          /\ c.op = "open" /\ UNCHANGED <<guest, crossed>>
          /\ \/ /\ page' = page /\ timer' = timer
                /\ \E n \in {PollCall(page), ResultCall(page, FALSE)} : calls' = (calls \ {c}) \cup {n}
             \/ Stop(page, calls \ {c})
    BY DEF OpenReply, InFlight, tab
  <1>2. c.op \in AnalysisOps
    BY <1>1 DEF AnalysisOps
  <1>3. IsPage(page) /\ CallFits(c, page, guest, crossed)
    BY <1>2, StepAnswered
  <1>4. page.opened
    BY <1>1, <1>3 DEF CallFits
  <1>5. CASE Stop(page, calls \ {c})
    BY <1>1, <1>2, <1>5, StopAfter
  <1>6. CASE /\ page' = page /\ timer' = timer
             /\ \E n \in {PollCall(page), ResultCall(page, FALSE)} : calls' = (calls \ {c}) \cup {n}
    <2>1. PICK n \in {PollCall(page), ResultCall(page, FALSE)} : calls' = (calls \ {c}) \cup {n}
      BY <1>6
    <2>2. CallFits(n, page', guest, crossed) /\ n.op \in AnalysisOps
      BY <1>4, <1>6, NextCall
    <2>3. Alike(page', page)
      BY <1>3, <1>6 DEF Alike
    <2> QED BY <1>1, <1>2, <1>6, <2>1, <2>2, <2>3, NextAfter
  <1> QED BY <1>1, <1>5, <1>6

-----------------------------------------------------------------------------
(* The result *)

\* The result is rendered for the job that the page is about.
LEMMA RenderedPage ==
  ASSUME NEW p, IsPage(p), NEW j
  PROVE  /\ IsPage(Rendered(p, j)) /\ Rendered(p, j).result = j /\ Rendered(p, j).job = p.job
         /\ Rendered(p, j).answer = None /\ Rendered(p, j).thumb \in {None, p.job}
         /\ Rendered(p, j).opened = p.opened /\ Rendered(p, j).token = p.token
  <1> DEFINE th == IF p.job \in rated THEN p.job ELSE None
             a == [p EXCEPT !.result = j]
             b == [a EXCEPT !.answer = None]
             q == [b EXCEPT !.thumb = th]
  <1>1. Rendered(p, j) = q
    BY DEF Rendered
  <1>2. th \in {None, p.job}
    OBVIOUS
  <1> HIDE DEF th
  <1>3. a = [token |-> p.token, account |-> p.account, job |-> p.job, result |-> j, busy |-> p.busy,
             opened |-> p.opened, used |-> p.used, sample |-> p.sample, answer |-> p.answer, thumb |-> p.thumb]
    BY DEF IsPage
  <1> HIDE DEF a
  <1>4. b = [token |-> p.token, account |-> p.account, job |-> p.job, result |-> j, busy |-> p.busy,
             opened |-> p.opened, used |-> p.used, sample |-> p.sample, answer |-> None, thumb |-> p.thumb]
    BY <1>3
  <1> HIDE DEF b
  <1>5. q = [token |-> p.token, account |-> p.account, job |-> p.job, result |-> j, busy |-> p.busy,
             opened |-> p.opened, used |-> p.used, sample |-> p.sample, answer |-> None, thumb |-> th]
    BY <1>4
  <1> HIDE DEF q
  <1> QED BY <1>1, <1>2, <1>5 DEF IsPage

LEMMA StepResultReply ==
  ASSUME WsInv, NEW outcome, ResultReply(outcome)
  PROVE  WsInv'
  <1>1. PICK c \in InFlight("result") :
          LET ok == outcome = "answer" /\ Status(c) = "done"
              p == [IF ok THEN MarkUsed(Rendered(page, c.job)) ELSE page EXCEPT !.busy = FALSE]
          IN /\ timer' = IF ok THEN timer ELSE FALSE
             /\ IF c.polled THEN RefreshAccount(p, calls \ {c}, FALSE) ELSE page' = p /\ calls' = calls \ {c}
             /\ UNCHANGED <<guest, crossed>>
    BY DEF ResultReply, tab
  <1> DEFINE ok == outcome = "answer" /\ Status(c) = "done"
             r == IF ok THEN MarkUsed(Rendered(page, c.job)) ELSE page
             p == [r EXCEPT !.busy = FALSE]
             others == calls \ {c}
  <1>2. /\ timer' = IF ok THEN timer ELSE FALSE
        /\ IF c.polled THEN RefreshAccount(p, others, FALSE) ELSE page' = p /\ calls' = others
        /\ UNCHANGED <<guest, crossed>>
    BY <1>1
  <1>3. c \in calls /\ c.op = "result" /\ c.op \in AnalysisOps
    BY DEF InFlight, AnalysisOps
  <1>4. /\ Loose(page, others, timer, guest, crossed) /\ IsPage(page) /\ CallFits(c, page, guest, crossed)
        /\ ~crossed => Idle(others) /\ page.busy /\ ~timer
    BY <1>3, StepAnswered
  <1>5. page.opened /\ (~crossed => c.job = page.job)
    BY <1>3, <1>4 DEF CallFits
  <1>6. /\ IsPage(r) /\ r.job = page.job /\ r.opened = page.opened /\ r.token = page.token
        /\ ~crossed => Shown(r)
    <2>1. CASE ok
      <3> DEFINE s == Rendered(page, c.job)
      <3>1. /\ IsPage(s) /\ s.result = c.job /\ s.job = page.job /\ s.answer = None /\ s.thumb \in {None, page.job}
            /\ s.opened = page.opened /\ s.token = page.token
        BY <1>4, RenderedPage
      <3> HIDE DEF s
      <3>2. Alike(MarkUsed(s), s) /\ MarkUsed(s).token = s.token
        BY <3>1, UsedPage
      <3>3. r = MarkUsed(s)
        BY <2>1 DEF s
      <3> HIDE DEF r
      <3> QED BY <1>5, <3>1, <3>2, <3>3 DEF Alike, Shown
    <2>2. CASE ~ok
      BY <1>4, <2>2 DEF Loose, PageFits
    <2> QED BY <2>1, <2>2
  <1> HIDE DEF r, ok
  <1>7. Alike(p, r) /\ p.busy = FALSE /\ p.token = r.token
    BY <1>6, Freed
  <1> HIDE DEF p, others
  <1>8. PageFits(p, timer', crossed)
    BY <1>5, <1>6, <1>7 DEF PageFits, Alike, Shown
  <1>9. ASSUME NEW d \in others PROVE CallFits(d, p, guest, crossed)
    <2>1. CallFits(d, page, guest, crossed)
      BY <1>4 DEF Loose
    <2>2. ~crossed => d.op # "upload"
      BY <1>4 DEF Idle, AnalysisOps
    <2> QED BY <1>5, <1>6, <1>7, <2>1, <2>2 DEF CallFits, Alike
  <1>10. Loose(p, others, timer', guest, crossed)
    BY <1>4, <1>8, <1>9 DEF Loose
  <1>11. One(others, p.busy, timer', crossed)
    BY <1>2, <1>4, <1>7 DEF One
  <1>12. CASE c.polled
    <2>1. RefreshAccount(p, others, FALSE)
      BY <1>2, <1>12
    <2> QED BY <1>2, <1>10, <1>11, <2>1, RefreshFits DEF Fits
  <1>13. CASE ~c.polled
    <2>1. page' = p /\ calls' = others
      BY <1>2, <1>13
    <2>2. Fits(page', calls', timer', guest', crossed')
      BY <1>2, <1>10, <1>11, <2>1 DEF Fits
    <2> QED BY <2>2, Together
  <1> QED BY <1>12, <1>13

\* A question or a rating is sent; neither is a step of the analysis.
LEMMA StepSend ==
  ASSUME WsInv, Ask \/ Rate
  PROVE  WsInv'
  <1>1. PICK n : /\ n.op \in {"ask", "feedback"} /\ calls' = calls \cup {n}
                 /\ UNCHANGED <<page, timer, guest, crossed>>
    <2>1. PICK op \in {"ask", "feedback"} : Send(op)
      BY DEF Ask, Rate
    <2> DEFINE n == [op |-> op, job |-> page.job, result |-> page.result]
    <2>2. n.op = op /\ calls' = calls \cup {n} /\ UNCHANGED <<page, timer, guest, crossed>>
      BY <2>1 DEF Send, tab
    <2> HIDE DEF n
    <2> QED BY <2>2
  <1>2. CallFits(n, page, guest, crossed) /\ n.op \notin AnalysisOps
    BY <1>1 DEF CallFits, AnalysisOps
  <1>3. Loose(page, calls \cup {n}, timer, guest, crossed) /\ One(calls \cup {n}, page.busy, timer, crossed)
    BY <1>2, MoreCalls, OtherMore DEF WsInv, Fits
  <1>4. Fits(page', calls', timer', guest', crossed')
    BY <1>1, <1>3 DEF Fits
  <1> QED BY <1>4, Together

\* The page shows an answer or a thumb, or the box of the sample changes.
LEMMA TouchedFits ==
  ASSUME NEW cs, Fits(page, cs, timer, guest, crossed), calls' = cs, UNCHANGED <<timer, guest, crossed>>,
         IsPage(page'), page'.job = page.job, page'.result = page.result, page'.opened = page.opened,
         page'.busy = page.busy, page'.token = page.token, ~crossed => Shown(page')
  PROVE  WsInv'
  <1>1. PageFits(page', timer', crossed') /\ GuestFits(guest', crossed')
    BY DEF Fits, Loose, PageFits
  <1>2. ASSUME NEW c \in cs PROVE CallFits(c, page', guest', crossed')
    <2>1. CallFits(c, page, guest, crossed)
      BY DEF Fits, Loose
    <2> QED BY <2>1 DEF CallFits
  <1>3. One(calls', page'.busy, timer', crossed')
    BY DEF Fits
  <1> QED BY <1>1, <1>2, <1>3, Together DEF Fits, Loose

LEMMA StepAskReply ==
  ASSUME WsInv, NEW ok, AskReply(ok)
  PROVE  WsInv'
  <1>1. PICK c \in calls :
          /\ c.op = "ask" /\ calls' = calls \ {c} /\ UNCHANGED <<timer, guest, crossed>>
          /\ page' = page \/ (page.job = c.job /\ page.result = c.result /\ page' = [page EXCEPT !.answer = c.job])
    BY DEF AskReply, InFlight, tab
  <1>2. Fits(page, calls \ {c}, timer, guest, crossed)
    BY <1>1, Answered DEF AnalysisOps
  <1>3. IsPage(page) /\ (~crossed => Shown(page))
    BY <1>2 DEF Fits, Loose, PageFits
  <1>4. CASE page' = page
    BY <1>1, <1>2, <1>3, <1>4, TouchedFits
  <1>5. CASE page.job = c.job /\ page' = [page EXCEPT !.answer = c.job]
    <2>1. page' = [token |-> page.token, account |-> page.account, job |-> page.job, result |-> page.result, busy |-> page.busy,
                   opened |-> page.opened, used |-> page.used, sample |-> page.sample, answer |-> c.job, thumb |-> page.thumb]
      BY <1>3, <1>5 DEF IsPage
    <2>2. /\ IsPage(page') /\ page'.job = page.job /\ page'.result = page.result /\ page'.opened = page.opened
          /\ page'.busy = page.busy /\ page'.token = page.token /\ page'.answer = c.job /\ page'.thumb = page.thumb
      BY <2>1 DEF IsPage
    <2>3. ~crossed => Shown(page')
      BY <1>3, <1>5, <2>2 DEF Shown
    <2> QED BY <1>1, <1>2, <2>2, <2>3, TouchedFits
  <1> QED BY <1>1, <1>4, <1>5

LEMMA StepRateReply ==
  ASSUME WsInv, NEW ok, RateReply(ok)
  PROVE  WsInv'
  <1>1. PICK c \in calls :
          /\ c.op = "feedback" /\ calls' = calls \ {c} /\ UNCHANGED <<timer, guest, crossed>>
          /\ page' = page \/ (page.job = c.job /\ page' = [page EXCEPT !.thumb = c.job])
    BY DEF RateReply, InFlight, tab
  <1>2. Fits(page, calls \ {c}, timer, guest, crossed)
    BY <1>1, Answered DEF AnalysisOps
  <1>3. IsPage(page) /\ (~crossed => Shown(page))
    BY <1>2 DEF Fits, Loose, PageFits
  <1>4. CASE page' = page
    BY <1>1, <1>2, <1>3, <1>4, TouchedFits
  <1>5. CASE page.job = c.job /\ page' = [page EXCEPT !.thumb = c.job]
    <2>1. page' = [token |-> page.token, account |-> page.account, job |-> page.job, result |-> page.result, busy |-> page.busy,
                   opened |-> page.opened, used |-> page.used, sample |-> page.sample, answer |-> page.answer, thumb |-> c.job]
      BY <1>3, <1>5 DEF IsPage
    <2>2. /\ IsPage(page') /\ page'.job = page.job /\ page'.result = page.result /\ page'.opened = page.opened
          /\ page'.busy = page.busy /\ page'.token = page.token /\ page'.thumb = c.job /\ page'.answer = page.answer
      BY <2>1 DEF IsPage
    <2>3. ~crossed => Shown(page')
      BY <1>3, <1>5, <2>2 DEF Shown
    <2> QED BY <1>1, <1>2, <2>2, <2>3, TouchedFits
  <1> QED BY <1>1, <1>4, <1>5

\* Picking sources touches nothing but the list and the box.
LEMMA StepPicks ==
  ASSUME WsInv, TickSample \/ \E fs : Picks(fs)
  PROVE  WsInv'
  <1>1. PICK v : page' = [page EXCEPT !.sample = v] /\ UNCHANGED <<calls, timer, guest, crossed>>
    <2>1. CASE TickSample
      BY <2>1 DEF TickSample, tab
    <2>2. CASE \E fs : Picks(fs)
      <3>1. PICK fs : Picks(fs)
        BY <2>2
      <3>2. page' = [page EXCEPT !.sample = page.sample /\ fs = files] /\ UNCHANGED <<calls, timer, guest, crossed>>
        BY <3>1 DEF Picks, tab
      <3> QED BY <3>2
    <2> QED BY <2>1, <2>2
  <1>2. Fits(page, calls, timer, guest, crossed)
    BY DEF WsInv
  <1>3. IsPage(page) /\ (~crossed => Shown(page))
    BY <1>2 DEF Fits, Loose, PageFits
  <1>4. page' = [token |-> page.token, account |-> page.account, job |-> page.job, result |-> page.result, busy |-> page.busy,
                 opened |-> page.opened, used |-> page.used, sample |-> v, answer |-> page.answer, thumb |-> page.thumb]
    BY <1>1, <1>3 DEF IsPage
  <1>5. /\ IsPage(page') /\ page'.job = page.job /\ page'.result = page.result /\ page'.opened = page.opened
        /\ page'.busy = page.busy /\ page'.token = page.token /\ page'.answer = page.answer /\ page'.thumb = page.thumb
    BY <1>4 DEF IsPage
  <1>6. ~crossed => Shown(page')
    BY <1>3, <1>5 DEF Shown
  <1> QED BY <1>1, <1>2, <1>5, <1>6, TouchedFits

-----------------------------------------------------------------------------
(* The whole page *)

LEMMA StepElsewhere ==
  ASSUME WsInv, UNCHANGED <<page, calls, timer, guest, crossed>>
  PROVE  WsInv'
  <1>1. Fits(page', calls', timer', guest', crossed')
    BY DEF WsInv
  <1> QED BY <1>1, Together

LEMMA StepLoads ==
  ASSUME WsInv, Reload \/ StorageEvent
  PROVE  WsInv'
  <1>1. GuestFits(guest, crossed)
    BY DEF WsInv, Fits, Loose
  <1>2. CASE LoadWith(stored, guest) /\ crossed' = FALSE
    BY <1>1, <1>2, LoadFits
  <1>3. CASE UNCHANGED <<guest, work, crossed>>
    BY <1>3, StepElsewhere DEF work
  <1> QED BY <1>2, <1>3 DEF Reload, StorageEvent

LEMMA Initially ==
  ASSUME Init
  PROVE  WsInv
  <1> DEFINE fresh == FreshPage(stored)
  <1>1. page = fresh /\ timer = FALSE /\ guest = None /\ calls = {[op |-> "catalog"]} /\ crossed = FALSE
    BY DEF Init
  <1>2. IsPage(fresh) /\ fresh.busy = FALSE /\ fresh.opened = FALSE /\ fresh.result = None
    BY DEF FreshPage, IsPage
  <1> HIDE DEF fresh
  <1>3. PageFits(page, timer, crossed) /\ GuestFits(guest, crossed)
    BY <1>1, <1>2 DEF PageFits, Shown, GuestFits
  <1>4. \A c \in calls : CallFits(c, page, guest, crossed) /\ c.op \notin AnalysisOps
    BY <1>1 DEF CallFits, AnalysisOps
  <1>5. One(calls, page.busy, timer, crossed)
    BY <1>1, <1>2, <1>4 DEF One, Idle
  <1> QED BY <1>3, <1>4, <1>5 DEF WsInv, Fits, Loose

LEMMA Step ==
  ASSUME WsInv, [Next]_vars
  PROVE  WsInv'
  <1>1. CASE UNCHANGED vars
    BY <1>1, StepElsewhere DEF vars, tab, work
  <1>2. CASE Replies
    <2>1. CASE \E b \in BOOLEAN : CatalogReply(b) \/ AskReply(b) \/ RateReply(b) \/ LengthsReply(b)
      BY <2>1, StepCatalogReply, StepAskReply, StepRateReply, StepLengthsReply
    <2>2. CASE \E o \in {"ok", "denied", "failed"} : AccountReply(o)
      BY <2>2, StepAccountReply
    <2>3. CASE \E ok, used \in BOOLEAN : RestoreReply(ok, used) \/ GuestReply(ok, used)
      BY <2>3, StepRestoreReply, StepGuestReply
    <2>4. CASE \E o \in {"ok", "refused", "spent"} : UploadReply(o)
      BY <2>4, StepUploadReply
    <2>5. CASE \E o \in Outcomes : PollReply(o) \/ OpenReply(o) \/ ResultReply(o)
      BY <2>5, StepPollReply, StepOpenReply, StepResultReply
    <2> QED BY <1>2, <2>1, <2>2, <2>3, <2>4, <2>5 DEF Replies
  <1>3. CASE Visitor
    <2>1. CASE Reload
      BY <2>1, StepLoads
    <2>2. CASE Click
      BY <2>2, StepClick
    <2>3. CASE Ask \/ Rate
      BY <2>3, StepSend
    <2>4. CASE TickSample \/ \E fs : Picks(fs)
      BY <2>4, StepPicks
    <2>5. (\/ TickSample \/ ClearFiles
           \/ \E f \in Sources : AddFile(f) \/ ReplaceFile(f)
           \/ \E i \in 1 .. Len(files) : RemoveFile(i) \/ \E k \in 1 .. Len(files) : MoveFile(i, k))
          => TickSample \/ \E fs : Picks(fs)
      BY DEF ClearFiles, AddFile, ReplaceFile, RemoveFile, MoveFile
    <2> QED BY <1>3, <2>1, <2>2, <2>3, <2>4, <2>5 DEF Visitor
  <1>4. CASE PollTimer
    BY <1>4, StepPollTimer
  <1>5. CASE StorageEvent
    BY <1>5, StepLoads
  <1>6. CASE \/ \E t \in Accounts \cup {None} : OtherTab(t)
             \/ \E j \in Jobs, st \in {"done", "error"} : ServerEnds(j, st)
    <2>1. UNCHANGED <<page, calls, timer, guest, crossed>>
      BY <1>6 DEF OtherTab, ServerEnds, tab, work
    <2> QED BY <2>1, StepElsewhere
  <1> QED BY <1>1, <1>2, <1>3, <1>4, <1>5, <1>6 DEF Next

LEMMA Inductive == Spec => []WsInv
  BY Initially, Step, PTL DEF Spec

\* While the page is busy exactly one step of one analysis is under way, and
\* none while it is not: no click, link, late answer or timer of app.js starts a
\* second one, however replies are ordered.
THEOREM OneAtATime == Spec => []OneAnalysis
  <1>1. WsInv => OneAnalysis
    <2> SUFFICES ASSUME WsInv, ~crossed
                 PROVE  Cardinality(Analyses) + (IF timer THEN 1 ELSE 0) = IF page.busy THEN 1 ELSE 0
      BY DEF OneAnalysis
    <2>1. Analyses = {c \in calls : c.op \in AnalysisOps}
      BY DEF Analyses, InFlight, AnalysisOps
    <2>2. (timer => page.busy) /\ (IF page.busy /\ ~timer THEN Single(calls) ELSE Idle(calls))
      BY DEF WsInv, Fits, One
    <2>3. CASE page.busy /\ ~timer
      <3>1. PICK c \in calls : c.op \in AnalysisOps /\ \A d \in calls : d.op \in AnalysisOps => d = c
        BY <2>2, <2>3 DEF Single
      <3>2. Analyses = {c}
        BY <2>1, <3>1
      <3>3. Cardinality(Analyses) = 1
        BY <3>2, FS_Singleton
      <3> QED BY <2>3, <3>3
    <2>4. CASE ~(page.busy /\ ~timer)
      <3>1. Analyses = {}
        BY <2>1, <2>2, <2>4 DEF Idle
      <3>2. Cardinality(Analyses) = 0
        BY <3>1, FS_EmptySet
      <3> QED BY <2>2, <2>4, <3>2
    <2> QED BY <2>3, <2>4
  <1> QED BY <1>1, Inductive, PTL

\* The result, the answer and the thumb on the page are of the job the page is
\* about, although each came with a request that was sent for some earlier job.
THEOREM ShownStaysTogether == Spec => []ShownTogether
  <1>1. WsInv => ShownTogether
    BY DEF WsInv, Fits, Loose, PageFits, Shown, ShownTogether
  <1> QED BY <1>1, Inductive, PTL

\* A visitor who asked for a sample never sends a full analysis, although the
\* box and the catalog may change while the guest session is created.
THEOREM SamplesStaySamples == Spec => []SampleNeverFull
  <1>1. WsInv => SampleNeverFull
    BY DEF WsInv, Fits, Loose, CallFits, SampleNeverFull, InFlight
  <1> QED BY <1>1, Inductive, PTL

\* A late "unauthorized" of refreshBillingAccount ends only the session that it
\* was asked about, never one that another tab has started since.
THEOREM SessionsAreKept == Spec => SessionKept
  <1> DEFINE A == stored' # stored /\ calls' # calls
                    => stored' = None /\ \E c \in InFlight("me") \ calls' : c.token = stored
  <1>1. WsInv /\ [Next]_vars => [A]_vars
    <2> SUFFICES ASSUME WsInv, Next, stored' # stored, calls' # calls
                 PROVE  stored' = None /\ \E c \in InFlight("me") \ calls' : c.token = stored
      OBVIOUS
    <2>1. PICK o : AccountReply(o)
      BY DEF Next, Replies, Visitor, Reload, Click, TickSample, ClearFiles, Ask, Rate, Send, AddFile, ReplaceFile,
             RemoveFile, MoveFile, Picks, PollTimer, StorageEvent, OtherTab, ServerEnds, CatalogReply, AskReply,
             RateReply, LengthsReply, RestoreReply, GuestReply, UploadReply, PollReply, OpenReply, ResultReply,
             tab, work
    <2>2. PICK c \in InFlight("me") :
            /\ stored' = IF SameSession(c) /\ o = "denied" THEN None ELSE stored
            /\ calls' = calls \ {c} \/ \E n : n.op = "open" /\ calls' = (calls \ {c}) \cup {n}
      <3>1. PICK c \in InFlight("me") :
              /\ stored' = IF SameSession(c) /\ o = "denied" THEN None ELSE stored
              /\ \/ calls' = calls \ {c}
                 \/ \E q : OpenRequested(q, calls \ {c})
        BY <2>1 DEF AccountReply
      <3>2. ASSUME NEW q, OpenRequested(q, calls \ {c})
            PROVE  calls' = calls \ {c} \/ \E n : n.op = "open" /\ calls' = (calls \ {c}) \cup {n}
        <4> DEFINE n == [op |-> "open", job |-> Wanted, token |-> q.token]
        <4>1. n.op = "open" /\ (calls' = calls \ {c} \/ calls' = (calls \ {c}) \cup {n})
          BY <3>2 DEF OpenRequested
        <4> HIDE DEF n
        <4> QED BY <4>1
      <3> QED BY <3>1, <3>2
    <2>3. c \in calls /\ c.op = "me" /\ c \notin calls'
      BY <2>2 DEF InFlight
    <2>4. stored' = None /\ stored = c.stored
      BY <2>2 DEF SameSession
    <2>5. c.stored \in {None, c.token}
      BY <2>3 DEF WsInv, Fits, Loose, CallFits
    <2> QED BY <2>2, <2>3, <2>4, <2>5
  <1> QED BY <1>1, Inductive, PTL DEF Spec, SessionKept
=============================================================================
