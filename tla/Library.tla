------------------------------ MODULE Library ------------------------------
(***************************************************************************)
(* The lesson library of the workspace (library.js): folders and lessons,  *)
(* changed through one call at a time and read again after every change.   *)
(* Calls and the reads that follow them fail independently, and another    *)
(* device changes the same library.                                        *)
(***************************************************************************)
EXTENDS Integers, FiniteSets, Functions

CONSTANTS
  Folders, Names, Lessons,
  None,
  MaxRemote   \* changes made by another device

Root == ""    \* lessons without a folder
All == "all"

VARIABLES
  server,   \* [folders: folder -> name, lessons: lesson -> folder or Root]
  state,    \* the page's copy of it
  loaded,
  folder,   \* the selected folder, Root or All
  call,     \* the operation run() is in: [op, id, value, stage] or None
  remote,
  confirmed \* history: the last confirmed change not yet followed by a read

vars == <<server, state, loaded, folder, call, remote, confirmed>>

Extended(f, x, v) == [y \in DOMAIN f \cup {x} |-> IF y = x THEN v ELSE f[y]]
Without(f, x) == Restrict(f, DOMAIN f \ {x})

Init ==
  /\ server \in {[folders |-> [f \in F |-> CHOOSE n \in Names : TRUE], lessons |-> [l \in Lessons |-> Root]]
                   : F \in SUBSET Folders}
  /\ state = [folders |-> <<>>, lessons |-> <<>>]
  /\ loaded = FALSE /\ folder = All /\ call = None /\ remote = 0 /\ confirmed = None

\* render(): a selected folder that is not listed falls back to all lessons.
Rendered(sel, st) == IF sel \in DOMAIN st.folders \cup {Root, All} THEN sel ELSE All

-----------------------------------------------------------------------------
(* What a change does to a library, at the server and in the page's copy. *)

Saved(lib, id, name) == [lib EXCEPT !.folders = Extended(@, id, name)]

FolderDeleted(lib, id) ==
  [folders |-> Without(lib.folders, id),
   lessons |-> [l \in DOMAIN lib.lessons |-> IF lib.lessons[l] = id THEN Root ELSE lib.lessons[l]]]

Moved(lib, id, to) == [lib EXCEPT !.lessons = IF id \in DOMAIN @ THEN [@ EXCEPT ![id] = to] ELSE @]

LessonDeleted(lib, id) == [lib EXCEPT !.lessons = Without(@, id)]

Changed(lib, c) ==
  CASE c.op \in {"create", "rename"} -> Saved(lib, c.id, c.value)
    [] c.op = "delete_folder" -> FolderDeleted(lib, c.id)
    [] c.op = "move" -> Moved(lib, c.id, c.value)
    [] c.op = "delete" -> LessonDeleted(lib, c.id)
    [] OTHER -> lib

\* The server knows what the change is about.
Accepts(c) ==
  CASE c.op = "create" -> c.id \notin DOMAIN server.folders
    [] c.op \in {"rename", "delete_folder"} -> c.id \in DOMAIN server.folders
    [] c.op = "move" -> c.id \in DOMAIN server.lessons /\ c.value \in DOMAIN server.folders \cup {Root}
    [] c.op = "delete" -> c.id \in DOMAIN server.lessons
    [] OTHER -> TRUE

-----------------------------------------------------------------------------
(* Clicks *)

\* run(): one operation at a time; a click during another one is ignored.
Run(c) == call = None /\ call' = c

Operation(op, id, value) == [op |-> op, id |-> id, value |-> value,
                             stage |-> IF op = "read" THEN "read" ELSE "write"]

Open ==
  /\ Run(Operation("read", None, None))
  /\ UNCHANGED <<server, state, loaded, folder, remote, confirmed>>

SaveFolder(op, id, name) ==
  /\ IF op = "create" THEN id \notin DOMAIN state.folders \cup DOMAIN server.folders ELSE id = folder
  /\ Run(Operation(op, id, name))
  /\ UNCHANGED <<server, state, loaded, folder, remote, confirmed>>

DeleteFolder ==
  /\ folder \notin {Root, All}
  /\ Run(Operation("delete_folder", folder, None))
  /\ UNCHANGED <<server, state, loaded, folder, remote, confirmed>>

MoveLesson(l, to) ==
  /\ l \in DOMAIN state.lessons /\ to \in DOMAIN state.folders \cup {Root} /\ to # state.lessons[l]
  /\ Run(Operation("move", l, to))
  /\ UNCHANGED <<server, state, loaded, folder, remote, confirmed>>

DeleteLesson(l) ==
  /\ l \in DOMAIN state.lessons
  /\ Run(Operation("delete", l, None))
  /\ UNCHANGED <<server, state, loaded, folder, remote, confirmed>>

\* Mutant: folders can be picked while a change is on its way.
PickAlways(f) ==
  /\ f \in DOMAIN state.folders \cup {Root, All} /\ f # folder
  /\ folder' = Rendered(f, state)
  /\ UNCHANGED <<server, state, loaded, call, remote, confirmed>>

\* A folder is picked only while nothing runs: the handlers read the selection
\* again after their call.
PickFolder(f) ==
  /\ call = None
  /\ f \in DOMAIN state.folders \cup {Root, All} /\ f # folder
  /\ folder' = Rendered(f, state)
  /\ UNCHANGED <<server, state, loaded, call, remote, confirmed>>

-----------------------------------------------------------------------------
(* Answers *)

Serve ==
  /\ call # None /\ call.stage = "write" /\ Accepts(call)
  /\ server' = Changed(server, call)
  /\ call' = [call EXCEPT !.stage = "written"]
  /\ UNCHANGED <<state, loaded, folder, remote, confirmed>>

\* The change is confirmed: the page's copy and selection follow, then the
\* library is read again. The deleted folder is the one selected now.
WriteReply ==
  LET c == IF call.op = "delete_folder" THEN [call EXCEPT !.id = folder] ELSE call
  IN /\ call # None /\ call.stage = "written"
     /\ state' = Changed(state, c)
     /\ folder' = Rendered(CASE call.op \in {"create", "rename"} -> call.id
                             [] call.op = "delete_folder" -> Root
                             [] OTHER -> folder, state')
     /\ call' = [call EXCEPT !.stage = "read"]
     /\ confirmed' = call
     /\ UNCHANGED <<server, loaded, remote>>

ServeRead ==
  /\ call # None /\ call.stage = "read"
  /\ call' = [call EXCEPT !.stage = "answer", !.value = server]
  /\ UNCHANGED <<server, state, loaded, folder, remote, confirmed>>

ReadReply ==
  /\ call # None /\ call.stage = "answer"
  /\ state' = call.value /\ loaded' = TRUE
  /\ folder' = Rendered(folder, state')
  /\ call' = None /\ confirmed' = None
  /\ UNCHANGED <<server, remote>>

\* Refused, lost, or an answer of the wrong shape: a notice; a failed read
\* keeps what the page shows.
CallFails ==
  /\ call # None
  /\ call' = None
  /\ UNCHANGED <<server, state, loaded, folder, remote, confirmed>>

OtherDevice(c) ==
  /\ remote < MaxRemote /\ Accepts(c)
  /\ remote' = remote + 1
  /\ server' = Changed(server, c)
  /\ UNCHANGED <<state, loaded, folder, call, confirmed>>

Next ==
  \/ Open \/ DeleteFolder \/ Serve \/ WriteReply \/ ServeRead \/ ReadReply \/ CallFails
  \/ \E op \in {"create", "rename"}, f \in Folders, n \in Names : SaveFolder(op, f, n)
  \/ \E l \in Lessons, to \in Folders \cup {Root} : MoveLesson(l, to)
  \/ \E l \in Lessons : DeleteLesson(l)
  \/ \E f \in Folders \cup {Root, All} : PickFolder(f)
  \/ \E f \in Folders : OtherDevice([op |-> "delete_folder", id |-> f])
  \/ \E l \in Lessons, f \in Folders : OtherDevice([op |-> "move", id |-> l, value |-> f])

Spec == Init /\ [][Next]_vars

-----------------------------------------------------------------------------
\* A confirmed change stays visible until the library has been read again, even
\* when that read fails, so that nobody is led to repeat it; and it is the
\* change that was asked for, not one of a folder selected meanwhile. What the
\* page lists is consistent: lessons lie in listed folders or in none, and the
\* selection is listed.
ConfirmedStays ==
  /\ confirmed # None =>
       CASE confirmed.op \in {"create", "rename"} ->
              confirmed.id \in DOMAIN state.folders /\ state.folders[confirmed.id] = confirmed.value
         [] confirmed.op = "delete_folder" -> confirmed.id \notin DOMAIN state.folders
         [] confirmed.op = "move" -> state.lessons[confirmed.id] = confirmed.value
         [] confirmed.op = "delete" -> confirmed.id \notin DOMAIN state.lessons
  /\ \A l \in DOMAIN state.lessons : state.lessons[l] \in DOMAIN state.folders \cup {Root}
  /\ folder \in DOMAIN state.folders \cup {Root, All}
=============================================================================
