---------------------------- MODULE AdminRecords ----------------------------
(***************************************************************************)
(* The console's list of users (admin.js; the list of orders runs the same *)
(* code): filters that load at once or after a pause in typing, pages,     *)
(* answers that arrive late or out of order, the selection, and the bulk   *)
(* action that closes accounts and may succeed for some of them only.      *)
(***************************************************************************)
EXTENDS Integers, FiniteSets

CONSTANTS
  Users,       \* accounts, numbered in the order of the list
  Filters, Matches,  \* Matches[f]: the accounts a filter finds; a page shows one
  None,
  MaxReads,    \* bound: reads of the list
  MaxSessions  \* bound: sessions that end

VARIABLES
  session,   \* adminSessionVersion
  filter,    \* what the filter fields say now
  timer,     \* adminUserSearchTimer is set
  latest,    \* adminListVersions.users
  page,      \* adminState.userPagination.page
  shown,     \* adminState.users: None or [f, rows, pages, s]
  error,     \* adminLoadErrors has users
  calls,     \* reads on their way: [id, f, page, s, answer]
  selected,  \* selectedAdminUsers
  bulk,      \* None or the bulk action on its way: [users, done]
  closed,    \* server: closed accounts
  confirmed  \* history: accounts the console was told are closed

vars == <<session, filter, timer, latest, page, shown, error, calls, selected, bulk, closed, confirmed>>

Init ==
  /\ session = 0 /\ filter \in Filters /\ timer = FALSE /\ latest = 0 /\ page = 1 /\ shown = None
  /\ error = FALSE /\ calls = {} /\ selected = {} /\ bulk = None /\ closed = {} /\ confirmed = {}

-----------------------------------------------------------------------------
(* Server *)

Found(f) == Matches[f] \ closed
Last(f) == IF Found(f) = {} THEN 1 ELSE Cardinality(Found(f))
Row(f, p) == {u \in Found(f) : Cardinality({v \in Found(f) : v <= u}) = p}

Serve ==
  \E c \in calls :
    /\ c.answer = None
    /\ calls' = (calls \ {c}) \cup {[c EXCEPT !.answer = [rows |-> Row(c.f, c.page), pages |-> Last(c.f)]]}
    /\ UNCHANGED <<session, filter, timer, latest, page, shown, error, selected, bulk, closed, confirmed>>

-----------------------------------------------------------------------------
(* Reading the list *)

\* loadAdminRecords for page p of filter f, keeping the other reads.
Load(f, p, others) ==
  /\ latest < MaxReads
  /\ latest' = latest + 1
  /\ calls' = others \cup {[id |-> latest + 1, f |-> f, page |-> p, s |-> session, answer |-> None]}

\* A select element is changed: the first page is read at once.
PickFilter(f) ==
  /\ f # filter
  /\ filter' = f /\ Load(f, 1, calls)
  /\ UNCHANGED <<session, timer, page, shown, error, selected, bulk, closed, confirmed>>

\* Text is typed: the read waits for a pause.
TypeFilter(f) ==
  /\ f # filter /\ latest < MaxReads
  /\ filter' = f /\ timer' = TRUE
  /\ UNCHANGED <<session, latest, page, shown, error, calls, selected, bulk, closed, confirmed>>

SearchTimer ==
  /\ timer /\ timer' = FALSE
  /\ Load(filter, 1, calls)
  /\ UNCHANGED <<session, filter, page, shown, error, selected, bulk, closed, confirmed>>

\* The general load reads the page that is shown again.
Reload ==
  /\ Load(filter, page, calls)
  /\ UNCHANGED <<session, filter, timer, page, shown, error, selected, bulk, closed, confirmed>>

TurnPage(p) ==
  /\ shown # None /\ p \in 1..shown.pages /\ p # page
  /\ Load(filter, p, calls)
  /\ UNCHANGED <<session, filter, timer, page, shown, error, selected, bulk, closed, confirmed>>

\* Mutant: an older read of the same filter counts.
CurrentQuery(c) == c.f = filter

\* An answer counts when no read was begun after it and the filter is the same.
Current(c) == c.id = latest /\ c.f = filter

\* A page that no longer exists is replaced by the last one.
ReadReply ==
  \E c \in calls :
    /\ c.answer # None
    /\ IF ~Current(c) THEN calls' = calls \ {c} /\ UNCHANGED <<latest, page, shown, error>>
       ELSE IF c.page > c.answer.pages
       THEN Load(c.f, c.answer.pages, calls \ {c}) /\ UNCHANGED <<page, shown, error>>
       ELSE /\ shown' = [f |-> c.f, rows |-> c.answer.rows, pages |-> c.answer.pages, s |-> c.s]
            /\ page' = c.page /\ error' = FALSE
            /\ calls' = calls \ {c} /\ UNCHANGED latest
    /\ UNCHANGED <<session, filter, timer, selected, bulk, closed, confirmed>>

ReadFails ==
  \E c \in calls :
    /\ error' = (error \/ Current(c))
    /\ calls' = calls \ {c}
    /\ UNCHANGED <<session, filter, timer, latest, page, shown, selected, bulk, closed, confirmed>>

\* endAdminSession: reads are aborted, timers cleared, state emptied.
EndSession ==
  /\ session < MaxSessions
  /\ session' = session + 1 /\ latest' = latest + 1
  /\ calls' = {} /\ bulk' = None /\ timer' = FALSE /\ error' = FALSE
  /\ shown' = None /\ page' = 1 /\ selected' = {}
  /\ UNCHANGED <<filter, closed, confirmed>>

-----------------------------------------------------------------------------
(* Selection and the bulk action *)

Rows == IF shown = None THEN {} ELSE shown.rows

Tick(u) ==
  /\ u \in Rows
  /\ selected' = IF u \in selected THEN selected \ {u} ELSE selected \cup {u}
  /\ UNCHANGED <<session, filter, timer, latest, page, shown, error, calls, bulk, closed, confirmed>>

ClearSelection ==
  /\ selected # {} /\ selected' = {}
  /\ UNCHANGED <<session, filter, timer, latest, page, shown, error, calls, bulk, closed, confirmed>>

\* applyAdminBulkAction with the deletion confirmed; the button is off till the end.
Apply ==
  /\ bulk = None /\ selected # {}
  /\ bulk' = [users |-> selected, done |-> None]
  /\ UNCHANGED <<session, filter, timer, latest, page, shown, error, calls, selected, closed, confirmed>>

ServeBulk(some) ==
  /\ bulk # None /\ bulk.done = None /\ some \subseteq bulk.users
  /\ closed' = closed \cup some
  /\ bulk' = [bulk EXCEPT !.done = some]
  /\ UNCHANGED <<session, filter, timer, latest, page, shown, error, calls, selected, confirmed>>

\* Closed accounts leave the selection, the others stay; the list is read again.
BulkReply ==
  /\ bulk # None /\ bulk.done # None
  /\ selected' = selected \ bulk.done
  /\ confirmed' = confirmed \cup bulk.done
  /\ bulk' = None
  /\ Load(filter, page, calls)
  /\ UNCHANGED <<session, filter, timer, page, shown, error, closed>>

BulkFails ==
  /\ bulk # None /\ bulk' = None
  /\ UNCHANGED <<session, filter, timer, latest, page, shown, error, calls, selected, closed, confirmed>>

Next ==
  \/ Serve \/ SearchTimer \/ Reload \/ ReadReply \/ ReadFails \/ EndSession
  \/ ClearSelection \/ Apply \/ BulkReply \/ BulkFails
  \/ \E f \in Filters : PickFilter(f) \/ TypeFilter(f)
  \/ \E p \in 1..Cardinality(Users) : TurnPage(p)
  \/ \E u \in Users : Tick(u)
  \/ \E some \in SUBSET Users : ServeBulk(some)

Spec == Init /\ [][Next]_vars

-----------------------------------------------------------------------------
\* Once nothing is on its way and no problem is reported, the list shows what the
\* filter fields say, was read in this session, and holds no account the
\* console was told is closed, although answers arrive late, out of order or
\* while something else is being typed, and a page may vanish between two reads.
RecordsCurrent ==
  /\ shown # None => shown.s = session
  /\ shown # None /\ calls = {} /\ ~timer /\ ~error =>
       shown.f = filter /\ shown.rows \cap confirmed = {} /\ page <= shown.pages
=============================================================================
