----------------------------- MODULE AdminWork ------------------------------
(***************************************************************************)
(* Lessons in the console (admin-work.js): the list of everybody's lessons *)
(* or of one user's, read on its own and again by the general load, and    *)
(* one lesson's dialog with its downloads.                                 *)
(***************************************************************************)
EXTENDS Integers, FiniteSets

CONSTANTS
  Owners, Jobs, None,
  MaxReads,  \* bound: reads of the list
  MaxOpens   \* bound: openings of the dialog

VARIABLES
  owner,     \* adminWorkOwner; None: everybody
  list,      \* adminWorkState with its list version: [busy, failed, version]
  scoped,    \* adminWorkScopedJobs: None or the owner it was read for
  known,     \* the section of everybody's lessons has been read
  trouble,   \* adminLoadErrors has jobs: the general read failed
  drawn,     \* adminJobs: None, "loading", "error", "problem" or the owner whose rows it shows
  reads,     \* reads of the list: [owner, version]
  general,   \* None, or the list version when the general load began to read
  dialog,    \* the lesson's dialog: [open, job, version, body], body None, a lesson or "error"
  details,   \* reads of one lesson: [job, version]
  fetches,   \* downloads on their way: [job, version]
  saved      \* history: [job, shown] of downloads handed to the browser

vars == <<owner, list, scoped, known, trouble, drawn, reads, general, dialog, details, fetches, saved>>

Everybody == "everybody"
ScopeOf(o) == IF o = None THEN Everybody ELSE o

Init ==
  /\ owner = None /\ list = [busy |-> FALSE, failed |-> FALSE, version |-> 0] /\ scoped = None /\ known = FALSE
  /\ trouble = FALSE /\ drawn = None /\ reads = {} /\ general = None
  /\ dialog = [open |-> FALSE, job |-> None, version |-> 0, body |-> None]
  /\ details = {} /\ fetches = {} /\ saved = {}

-----------------------------------------------------------------------------
(* The list *)

\* adminWorkList through applyAdminFilters: rows of the owner's lessons, or of
\* everybody's; with nothing read yet for an owner the rows are empty.
Drawing(l, o, s, old, isKnown) ==
  IF l.busy THEN "loading"
  ELSE IF l.failed THEN "error"
  ELSE IF ~isKnown THEN old
  ELSE IF o = None THEN Everybody
  ELSE IF s = None THEN "empty" ELSE s

\* refreshAdminWorkList for owner o.
RefreshWorkList(o) ==
  /\ list' = [busy |-> TRUE, failed |-> FALSE, version |-> list.version + 1]
  /\ reads' = reads \cup {[owner |-> o, version |-> list.version + 1]}
  /\ drawn' = "loading"

\* showAdminUserWork: a user's lessons, or everybody's again; also "try again".
ShowUserWork(o) ==
  /\ list.version < MaxReads
  /\ owner' = o /\ scoped' = None
  /\ RefreshWorkList(o)
  /\ UNCHANGED <<known, trouble, general, dialog, details, fetches, saved>>

\* Mutant: every list answer counts.
Any(r) == TRUE

\* An answer counts when it is the newest read's, for the owner chosen now.
Newest(r) == r.version = list.version /\ r.owner = owner

ListReply ==
  \E r \in reads :
    /\ reads' = reads \ {r}
    /\ IF Newest(r)
       THEN /\ list' = [list EXCEPT !.busy = FALSE, !.failed = FALSE]
            /\ scoped' = IF r.owner = None THEN scoped ELSE r.owner
            /\ known' = TRUE /\ trouble' = FALSE
            /\ drawn' = Drawing(list', owner, scoped', drawn, TRUE)
       ELSE UNCHANGED <<list, scoped, known, trouble, drawn>>
    /\ UNCHANGED <<owner, general, dialog, details, fetches, saved>>

ListFails ==
  \E r \in reads :
    /\ reads' = reads \ {r}
    /\ IF r.version = list.version
       THEN list' = [list EXCEPT !.busy = FALSE, !.failed = TRUE] /\ drawn' = "error"
       ELSE UNCHANGED <<list, drawn>>
    /\ UNCHANGED <<owner, scoped, known, trouble, general, dialog, details, fetches, saved>>

\* refreshJobs: the general load reads everybody's lessons.
GeneralStart ==
  /\ general = None /\ list.version < MaxReads
  /\ general' = list.version
  /\ UNCHANGED <<owner, list, scoped, known, trouble, drawn, reads, dialog, details, fetches, saved>>

\* A chosen owner's list is read again; otherwise the answer also stands for a
\* read of everybody's lessons that failed or is still on its way.
GeneralReply ==
  /\ general # None /\ general' = None
  /\ known' = TRUE /\ trouble' = FALSE
  /\ IF owner # None THEN RefreshWorkList(owner)
     ELSE IF general = list.version
     THEN /\ list' = [busy |-> FALSE, failed |-> FALSE, version |-> list.version + 1]
          /\ drawn' = Everybody /\ UNCHANGED reads
     ELSE drawn' = Drawing(list, owner, scoped, drawn, TRUE) /\ UNCHANGED <<list, reads>>
  /\ UNCHANGED <<owner, scoped, dialog, details, fetches, saved>>

\* The list shows the failure until the next answer is drawn.
GeneralFails ==
  /\ general # None /\ general' = None
  /\ trouble' = TRUE /\ drawn' = "problem"
  /\ UNCHANGED <<owner, list, scoped, known, reads, dialog, details, fetches, saved>>

-----------------------------------------------------------------------------
(* One lesson *)

OpenJob(j) ==
  /\ dialog.version < MaxOpens
  /\ dialog' = [open |-> TRUE, job |-> j, version |-> dialog.version + 1, body |-> None]
  /\ details' = details \cup {[job |-> j, version |-> dialog.version + 1]}
  /\ UNCHANGED <<owner, list, scoped, known, trouble, drawn, reads, general, fetches, saved>>

\* Closing leaves the version alone: a later opening has its own.
CloseJob ==
  /\ dialog.open
  /\ dialog' = [dialog EXCEPT !.open = FALSE]
  /\ UNCHANGED <<owner, list, scoped, known, trouble, drawn, reads, general, details, fetches, saved>>

Wanted(r) == dialog.open /\ r.version = dialog.version

DetailReply(ok) ==
  \E r \in details :
    /\ details' = details \ {r}
    /\ dialog' = IF Wanted(r) THEN [dialog EXCEPT !.body = IF ok THEN r.job ELSE "error"] ELSE dialog
    /\ UNCHANGED <<owner, list, scoped, known, trouble, drawn, reads, general, fetches, saved>>

Download ==
  /\ dialog.open /\ dialog.body \in Jobs
  /\ fetches' = fetches \cup {[job |-> dialog.body, version |-> dialog.version]}
  /\ fetches' # fetches
  /\ UNCHANGED <<owner, list, scoped, known, trouble, drawn, reads, general, dialog, details, saved>>

DownloadReply(ok) ==
  \E r \in fetches :
    /\ fetches' = fetches \ {r}
    /\ saved' = IF ok /\ Wanted(r) THEN saved \cup {[job |-> r.job, shown |-> dialog.job]} ELSE saved
    /\ UNCHANGED <<owner, list, scoped, known, trouble, drawn, reads, general, dialog, details>>

\* resetAdminWork at the end of a session; what was on its way is aborted.
ResetWork ==
  /\ list.version < MaxReads
  /\ owner' = None /\ scoped' = None /\ known' = FALSE /\ trouble' = FALSE /\ drawn' = None
  /\ list' = [busy |-> FALSE, failed |-> FALSE, version |-> list.version + 1]
  /\ reads' = {} /\ general' = None /\ details' = {} /\ fetches' = {}
  /\ dialog' = [open |-> FALSE, job |-> None, version |-> dialog.version + 1, body |-> None]
  /\ UNCHANGED saved

Next ==
  \/ \E o \in Owners \cup {None} : ShowUserWork(o)
  \/ ListReply \/ ListFails \/ GeneralStart \/ GeneralReply \/ GeneralFails
  \/ \E j \in Jobs : OpenJob(j)
  \/ CloseJob \/ Download \/ ResetWork
  \/ \E ok \in BOOLEAN : DetailReply(ok) \/ DownloadReply(ok)

Spec == Init /\ [][Next]_vars

-----------------------------------------------------------------------------
\* Under a user's name the list never shows somebody else's lessons or an
\* empty list that was never read; it does not stay "loading" or in error once
\* a newer answer has come; and the dialog shows, and saves, only the lesson it
\* was last opened for.
WorkScoped ==
  /\ drawn \in Owners \cup {Everybody} => drawn = ScopeOf(owner)
  /\ drawn # "empty"
  /\ drawn = "loading" => list.busy
  /\ drawn = "problem" => trouble
  /\ drawn = "error" => list.failed
  /\ list.busy => \E r \in reads : Newest(r)
  /\ dialog.body \in Jobs => dialog.body = dialog.job
  /\ \A d \in saved : d.job = d.shown
=============================================================================
