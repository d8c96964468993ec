---------------------------- MODULE StudyProofs ----------------------------
(***************************************************************************)
(* Proofs about what a student works with beside the analysis: the library *)
(* of lessons, the assistant's window and the choice of outputs, for any   *)
(* folders, users, plans and bounds of the model.                          *)
(***************************************************************************)
EXTENDS MCSite, FiniteSetTheorems, TLAPS

-----------------------------------------------------------------------------
(* Library *)

\* Lessons lie in listed folders, or in none.
Orderly(lib) ==
  /\ lib = [folders |-> lib.folders, lessons |-> lib.lessons]
  /\ \A l \in DOMAIN lib.lessons : lib.lessons[l] \in DOMAIN lib.folders \cup {Lib!Root}

Changes == {"create", "rename", "delete_folder", "move", "delete"}

\* The change that is on its way is about what the page shows.
RunFits ==
  call # None =>
    /\ call = [op |-> call.op, id |-> call.id, value |-> call.value, stage |-> call.stage]
    /\ call.stage \in {"write", "written"} =>
         /\ call.op \in Changes
         /\ call.op = "delete_folder" => call.id = folder
         /\ call.op = "move" => call.id \in DOMAIN state.lessons /\ call.value \in DOMAIN state.folders \cup {Lib!Root}
    /\ call.stage = "answer" => Orderly(call.value)

ConfirmedFits ==
  confirmed # None =>
    /\ confirmed.op \in Changes
    /\ confirmed.op \in {"create", "rename"} =>
         confirmed.id \in DOMAIN state.folders /\ state.folders[confirmed.id] = confirmed.value
    /\ confirmed.op = "delete_folder" => confirmed.id \notin DOMAIN state.folders
    /\ confirmed.op = "move" => state.lessons[confirmed.id] = confirmed.value
    /\ confirmed.op = "delete" => confirmed.id \notin DOMAIN state.lessons

LibInv ==
  /\ Orderly(server) /\ Orderly(state) /\ folder \in DOMAIN state.folders \cup {Lib!Root, Lib!All}
  /\ RunFits /\ ConfirmedFits

LEMMA Restricted ==
  ASSUME NEW f, NEW x
  PROVE  DOMAIN Lib!Without(f, x) = DOMAIN f \ {x} /\ \A y \in DOMAIN f \ {x} : Lib!Without(f, x)[y] = f[y]
  BY DEF Lib!Without, Lib!Restrict

\* What each change leaves, at the server and in the page's copy.
LEMMA SavedOrderly ==
  ASSUME NEW lib, Orderly(lib), NEW id, NEW name, NEW r, r = Lib!Saved(lib, id, name)
  PROVE  Orderly(r) /\ id \in DOMAIN r.folders /\ r.folders[id] = name
  <1> DEFINE fs == Lib!Extended(lib.folders, id, name)
  <1>1. DOMAIN fs = DOMAIN lib.folders \cup {id} /\ fs[id] = name
    BY DEF Lib!Extended
  <1>2. r = [lib EXCEPT !.folders = fs]
    BY DEF Lib!Saved
  <1> HIDE DEF fs
  <1>3. r = [folders |-> fs, lessons |-> lib.lessons]
    BY <1>2 DEF Orderly
  <1> QED BY <1>1, <1>3 DEF Orderly

LEMMA FolderDeletedOrderly ==
  ASSUME NEW lib, Orderly(lib), NEW id, NEW r, r = Lib!FolderDeleted(lib, id)
  PROVE  Orderly(r) /\ id \notin DOMAIN r.folders
  <1> DEFINE fs == Lib!Without(lib.folders, id)
             ls == [l \in DOMAIN lib.lessons |-> IF lib.lessons[l] = id THEN Lib!Root ELSE lib.lessons[l]]
  <1>1. DOMAIN fs = DOMAIN lib.folders \ {id}
    BY Restricted
  <1>2. r = [folders |-> fs, lessons |-> ls]
    BY DEF Lib!FolderDeleted
  <1> HIDE DEF fs
  <1>3. \A l \in DOMAIN ls : ls[l] \in DOMAIN fs \cup {Lib!Root}
    BY <1>1 DEF Orderly
  <1> HIDE DEF ls
  <1> QED BY <1>1, <1>2, <1>3 DEF Orderly

LEMMA MovedOrderly ==
  ASSUME NEW lib, Orderly(lib), NEW id, NEW to, to \in DOMAIN lib.folders \cup {Lib!Root},
         NEW r, r = Lib!Moved(lib, id, to)
  PROVE  Orderly(r) /\ (id \in DOMAIN lib.lessons => r.lessons[id] = to)
  <1> DEFINE ls == IF id \in DOMAIN lib.lessons THEN [lib.lessons EXCEPT ![id] = to] ELSE lib.lessons
  <1>1. DOMAIN ls = DOMAIN lib.lessons /\ (id \in DOMAIN lib.lessons => ls[id] = to)
    OBVIOUS
  <1>2. \A l \in DOMAIN ls : ls[l] \in DOMAIN lib.folders \cup {Lib!Root}
    BY DEF Orderly
  <1>3. r = [lib EXCEPT !.lessons = ls]
    BY DEF Lib!Moved, Orderly
  <1> HIDE DEF ls
  <1>4. r = [folders |-> lib.folders, lessons |-> ls]
    BY <1>3 DEF Orderly
  <1> QED BY <1>1, <1>2, <1>4 DEF Orderly

LEMMA LessonDeletedOrderly ==
  ASSUME NEW lib, Orderly(lib), NEW id, NEW r, r = Lib!LessonDeleted(lib, id)
  PROVE  Orderly(r) /\ id \notin DOMAIN r.lessons
  <1> DEFINE ls == Lib!Without(lib.lessons, id)
  <1>1. DOMAIN ls = DOMAIN lib.lessons \ {id} /\ \A l \in DOMAIN ls : ls[l] = lib.lessons[l]
    BY Restricted
  <1>2. r = [lib EXCEPT !.lessons = ls]
    BY DEF Lib!LessonDeleted, Orderly
  <1> HIDE DEF ls
  <1>3. r = [folders |-> lib.folders, lessons |-> ls]
    BY <1>2 DEF Orderly
  <1> QED BY <1>1, <1>3 DEF Orderly

LEMMA ChangedOrderly ==
  ASSUME NEW lib, Orderly(lib), NEW c, c.op \in Changes, c.op = "move" => c.value \in DOMAIN lib.folders \cup {Lib!Root},
         NEW r, r = Lib!Changed(lib, c)
  PROVE  /\ Orderly(r)
         /\ c.op \in {"create", "rename"} => c.id \in DOMAIN r.folders /\ r.folders[c.id] = c.value
         /\ c.op = "delete_folder" => c.id \notin DOMAIN r.folders
         /\ c.op = "move" /\ c.id \in DOMAIN lib.lessons => r.lessons[c.id] = c.value
         /\ c.op = "delete" => c.id \notin DOMAIN r.lessons
  <1>1. CASE c.op \in {"create", "rename"}
    <2>1. r = Lib!Saved(lib, c.id, c.value)
      BY <1>1 DEF Lib!Changed
    <2> QED BY <1>1, <2>1, SavedOrderly
  <1>2. CASE c.op = "delete_folder"
    <2>1. r = Lib!FolderDeleted(lib, c.id)
      BY <1>2 DEF Lib!Changed
    <2> QED BY <1>2, <2>1, FolderDeletedOrderly
  <1>3. CASE c.op = "move"
    <2>1. r = Lib!Moved(lib, c.id, c.value)
      BY <1>3 DEF Lib!Changed
    <2> QED BY <1>3, <2>1, MovedOrderly
  <1>4. CASE c.op = "delete"
    <2>1. r = Lib!LessonDeleted(lib, c.id)
      BY <1>4 DEF Lib!Changed
    <2> QED BY <1>4, <2>1, LessonDeletedOrderly
  <1> QED BY <1>1, <1>2, <1>3, <1>4 DEF Changes

LEMMA RenderedListed ==
  ASSUME NEW sel, NEW st
  PROVE  Lib!Rendered(sel, st) \in DOMAIN st.folders \cup {Lib!Root, Lib!All}
  BY DEF Lib!Rendered

-----------------------------------------------------------------------------
\* A click begins an operation about what the page shows.
LEMMA LibBegins ==
  ASSUME LibInv, UNCHANGED <<server, state, folder, confirmed>>, NEW op, NEW id, NEW value,
         op \in Changes \cup {"read"}, call' = Lib!Operation(op, id, value),
         op = "delete_folder" => id = folder,
         op = "move" => id \in DOMAIN state.lessons /\ value \in DOMAIN state.folders \cup {Lib!Root}
  PROVE  LibInv'
  <1>1. call' = [op |-> op, id |-> id, value |-> value, stage |-> IF op = "read" THEN "read" ELSE "write"]
    BY DEF Lib!Operation
  <1>2. /\ call'.op = op /\ call'.id = id /\ call'.value = value
        /\ call'.stage = IF op = "read" THEN "read" ELSE "write"
    BY <1>1
  <1>3. RunFits'
    BY <1>1, <1>2 DEF RunFits, Changes
  <1>4. (Orderly(server) /\ Orderly(state) /\ folder \in DOMAIN state.folders \cup {Lib!Root, Lib!All} /\ ConfirmedFits)'
    BY DEF LibInv, Orderly, ConfirmedFits
  <1> QED BY <1>3, <1>4 DEF LibInv

LEMMA LibClicks ==
  ASSUME LibInv,
         \/ Lib!Open \/ Lib!DeleteFolder
         \/ \E op \in {"create", "rename"}, f \in Folders, n \in Names : Lib!SaveFolder(op, f, n)
         \/ \E l \in Lessons, to \in Folders \cup {Lib!Root} : Lib!MoveLesson(l, to)
         \/ \E l \in Lessons : Lib!DeleteLesson(l)
  PROVE  LibInv'
  <1>1. CASE Lib!Open
    <2>1. call' = Lib!Operation("read", None, None) /\ UNCHANGED <<server, state, folder, confirmed>>
      BY <1>1 DEF Lib!Open, Lib!Run
    <2> QED BY <2>1, LibBegins
  <1>2. CASE Lib!DeleteFolder
    <2>1. call' = Lib!Operation("delete_folder", folder, None) /\ UNCHANGED <<server, state, folder, confirmed>>
      BY <1>2 DEF Lib!DeleteFolder, Lib!Run
    <2> QED BY <2>1, LibBegins DEF Changes
  <1>3. CASE \E op \in {"create", "rename"}, f \in Folders, n \in Names : Lib!SaveFolder(op, f, n)
    <2>1. PICK op \in {"create", "rename"}, f \in Folders, n \in Names : Lib!SaveFolder(op, f, n)
      BY <1>3
    <2>2. call' = Lib!Operation(op, f, n) /\ UNCHANGED <<server, state, folder, confirmed>>
      BY <2>1 DEF Lib!SaveFolder, Lib!Run
    <2> QED BY <2>1, <2>2, LibBegins DEF Changes
  <1>4. CASE \E l \in Lessons, to \in Folders \cup {Lib!Root} : Lib!MoveLesson(l, to)
    <2>1. PICK l \in Lessons, to \in Folders \cup {Lib!Root} : Lib!MoveLesson(l, to)
      BY <1>4
    <2>2. /\ call' = Lib!Operation("move", l, to) /\ UNCHANGED <<server, state, folder, confirmed>>
          /\ l \in DOMAIN state.lessons /\ to \in DOMAIN state.folders \cup {Lib!Root}
      BY <2>1 DEF Lib!MoveLesson, Lib!Run
    <2> QED BY <2>2, LibBegins DEF Changes
  <1>5. CASE \E l \in Lessons : Lib!DeleteLesson(l)
    <2>1. PICK l \in Lessons : call' = Lib!Operation("delete", l, None) /\ UNCHANGED <<server, state, folder, confirmed>>
      BY <1>5 DEF Lib!DeleteLesson, Lib!Run
    <2> QED BY <2>1, LibBegins DEF Changes
  <1> QED BY <1>1, <1>2, <1>3, <1>4, <1>5

LEMMA LibPickFolder ==
  ASSUME LibInv, NEW f, Lib!PickFolder(f)
  PROVE  LibInv'
  <1>1. call = None /\ folder' = Lib!Rendered(f, state) /\ UNCHANGED <<server, state, call, confirmed>>
    BY DEF Lib!PickFolder
  <1>2. folder' \in DOMAIN state.folders \cup {Lib!Root, Lib!All}
    BY <1>1, RenderedListed
  <1> QED BY <1>1, <1>2 DEF LibInv, Orderly, RunFits, ConfirmedFits

LEMMA LibServe ==
  ASSUME LibInv, Lib!Serve
  PROVE  LibInv'
  <1>1. /\ call # None /\ call.stage = "write" /\ Lib!Accepts(call) /\ server' = Lib!Changed(server, call)
        /\ call' = [call EXCEPT !.stage = "written"] /\ UNCHANGED <<state, folder, confirmed>>
    BY DEF Lib!Serve
  <1>2. /\ call = [op |-> call.op, id |-> call.id, value |-> call.value, stage |-> call.stage]
        /\ call.op \in Changes /\ (call.op = "delete_folder" => call.id = folder)
        /\ call.op = "move" => call.id \in DOMAIN state.lessons /\ call.value \in DOMAIN state.folders \cup {Lib!Root}
    BY <1>1 DEF LibInv, RunFits
  <1>3. call.op = "move" => call.value \in DOMAIN server.folders \cup {Lib!Root}
    BY <1>1 DEF Lib!Accepts
  <1>4. Orderly(server')
    BY <1>1, <1>2, <1>3, ChangedOrderly DEF LibInv
  <1>5. call' = [op |-> call.op, id |-> call.id, value |-> call.value, stage |-> "written"]
    BY <1>1, <1>2
  <1>6. call'.op = call.op /\ call'.id = call.id /\ call'.value = call.value /\ call'.stage = "written"
    BY <1>5
  <1>7. RunFits'
    BY <1>1, <1>2, <1>5, <1>6 DEF RunFits
  <1>8. (Orderly(server) /\ Orderly(state) /\ folder \in DOMAIN state.folders \cup {Lib!Root, Lib!All} /\ ConfirmedFits)'
    BY <1>1, <1>4 DEF LibInv, Orderly, ConfirmedFits
  <1> QED BY <1>7, <1>8 DEF LibInv

\* The confirmed change is done in the page's copy as well.
LEMMA LibWriteReply ==
  ASSUME LibInv, Lib!WriteReply
  PROVE  LibInv'
  <1> DEFINE c == IF call.op = "delete_folder" THEN [call EXCEPT !.id = folder] ELSE call
  <1>1. /\ call # None /\ call.stage = "written" /\ state' = Lib!Changed(state, c)
        /\ call' = [call EXCEPT !.stage = "read"] /\ confirmed' = call /\ UNCHANGED server
        /\ \E sel : folder' = Lib!Rendered(sel, state')
    BY DEF Lib!WriteReply
  <1>2. /\ call = [op |-> call.op, id |-> call.id, value |-> call.value, stage |-> call.stage]
        /\ call.op \in Changes /\ (call.op = "delete_folder" => call.id = folder)
        /\ call.op = "move" => call.id \in DOMAIN state.lessons /\ call.value \in DOMAIN state.folders \cup {Lib!Root}
    BY <1>1 DEF LibInv, RunFits
  <1>3. c = call
    BY <1>2
  <1>4. state' = Lib!Changed(state, call)
    BY <1>1, <1>3
  <1>5. /\ Orderly(state')
        /\ call.op \in {"create", "rename"} => call.id \in DOMAIN state'.folders /\ state'.folders[call.id] = call.value
        /\ call.op = "delete_folder" => call.id \notin DOMAIN state'.folders
        /\ call.op = "move" => state'.lessons[call.id] = call.value
        /\ call.op = "delete" => call.id \notin DOMAIN state'.lessons
    BY <1>2, <1>4, ChangedOrderly DEF LibInv
  <1>6. ConfirmedFits'
    BY <1>1, <1>2, <1>5 DEF ConfirmedFits
  <1>7. folder' \in DOMAIN state'.folders \cup {Lib!Root, Lib!All}
    BY <1>1, RenderedListed
  <1>8. call' = [op |-> call.op, id |-> call.id, value |-> call.value, stage |-> "read"]
    BY <1>1, <1>2
  <1>9. RunFits'
    BY <1>8 DEF RunFits
  <1>10. Orderly(server)'
    BY <1>1 DEF LibInv, Orderly
  <1> QED BY <1>5, <1>6, <1>7, <1>9, <1>10 DEF LibInv, Orderly

LEMMA LibReads ==
  ASSUME LibInv, Lib!ServeRead \/ Lib!ReadReply \/ Lib!CallFails
  PROVE  LibInv'
  <1>1. CASE Lib!ServeRead
    <2>1. /\ call # None /\ call' = [call EXCEPT !.stage = "answer", !.value = server]
          /\ UNCHANGED <<server, state, folder, confirmed>>
      BY <1>1 DEF Lib!ServeRead
    <2>2. call = [op |-> call.op, id |-> call.id, value |-> call.value, stage |-> call.stage]
      BY <2>1 DEF LibInv, RunFits
    <2>3. call' = [op |-> call.op, id |-> call.id, value |-> server, stage |-> "answer"]
      BY <2>1, <2>2
    <2>4. call'.value = server /\ call'.stage = "answer"
      BY <2>3
    <2>5. Orderly(call'.value)
      BY <2>4 DEF LibInv
    <2>6. RunFits'
      BY <2>3, <2>4, <2>5 DEF RunFits, Orderly
    <2> QED BY <2>1, <2>6 DEF LibInv, Orderly, ConfirmedFits
  <1>2. CASE Lib!ReadReply
    <2>1. /\ call # None /\ call.stage = "answer" /\ state' = call.value /\ folder' = Lib!Rendered(folder, state')
          /\ call' = None /\ confirmed' = None /\ UNCHANGED server
      BY <1>2 DEF Lib!ReadReply
    <2>2. Orderly(call.value)
      BY <2>1 DEF LibInv, RunFits
    <2>3. Orderly(state)' /\ folder' \in DOMAIN state'.folders \cup {Lib!Root, Lib!All}
      BY <2>1, <2>2, RenderedListed DEF Orderly
    <2> QED BY <2>1, <2>3 DEF LibInv, RunFits, ConfirmedFits, Orderly
  <1>3. CASE Lib!CallFails
    BY <1>3 DEF Lib!CallFails, LibInv, RunFits, ConfirmedFits, Orderly
  <1> QED BY <1>1, <1>2, <1>3

\* Another device changes the library; this page learns of it by reading.
LEMMA LibOtherDevice ==
  ASSUME LibInv, NEW c, c.op \in {"delete_folder", "move"}, Lib!OtherDevice(c)
  PROVE  LibInv'
  <1>1. Lib!Accepts(c) /\ server' = Lib!Changed(server, c) /\ UNCHANGED <<state, folder, call, confirmed>>
    BY DEF Lib!OtherDevice
  <1>2. c.op = "move" => c.value \in DOMAIN server.folders \cup {Lib!Root}
    BY <1>1 DEF Lib!Accepts
  <1>3. Orderly(server')
    BY <1>1, <1>2, ChangedOrderly DEF LibInv, Changes
  <1> QED BY <1>1, <1>3 DEF LibInv, Orderly, RunFits, ConfirmedFits

LEMMA LibInitially ==
  ASSUME Lib!Init
  PROVE  LibInv
  <1>1. /\ state = [folders |-> <<>>, lessons |-> <<>>] /\ folder = Lib!All /\ call = None /\ confirmed = None
        /\ \E F \in SUBSET Folders : server = [folders |-> [f \in F |-> CHOOSE n \in Names : TRUE],
                                               lessons |-> [l \in Lessons |-> Lib!Root]]
    BY DEF Lib!Init
  <1>2. Orderly(state)
    BY <1>1 DEF Orderly
  <1>3. Orderly(server)
    BY <1>1 DEF Orderly
  <1> QED BY <1>1, <1>2, <1>3 DEF LibInv, RunFits, ConfirmedFits

LEMMA LibStutter ==
  ASSUME LibInv, UNCHANGED libVars
  PROVE  LibInv'
  BY DEF libVars, LibInv, Orderly, RunFits, ConfirmedFits

LEMMA LibStep ==
  ASSUME LibInv, Lib!Next
  PROVE  LibInv'
  <1>1. CASE \/ Lib!Open \/ Lib!DeleteFolder
             \/ \E op \in {"create", "rename"}, f \in Folders, n \in Names : Lib!SaveFolder(op, f, n)
             \/ \E l \in Lessons, to \in Folders \cup {Lib!Root} : Lib!MoveLesson(l, to)
             \/ \E l \in Lessons : Lib!DeleteLesson(l)
    BY <1>1, LibClicks
  <1>2. CASE Lib!Serve \/ Lib!WriteReply
    BY <1>2, LibServe, LibWriteReply
  <1>3. CASE Lib!ServeRead \/ Lib!ReadReply \/ Lib!CallFails
    BY <1>3, LibReads
  <1>4. CASE \E f \in Folders \cup {Lib!Root, Lib!All} : Lib!PickFolder(f)
    BY <1>4, LibPickFolder
  <1>5. CASE \E f \in Folders : Lib!OtherDevice([op |-> "delete_folder", id |-> f])
    <2>1. PICK f \in Folders : Lib!OtherDevice([op |-> "delete_folder", id |-> f])
      BY <1>5
    <2> DEFINE c == [op |-> "delete_folder", id |-> f]
    <2>2. c.op = "delete_folder" /\ Lib!OtherDevice(c)
      BY <2>1
    <2> HIDE DEF c
    <2> QED BY <2>2, LibOtherDevice
  <1>6. CASE \E l \in Lessons, f \in Folders : Lib!OtherDevice([op |-> "move", id |-> l, value |-> f])
    <2>1. PICK l \in Lessons, f \in Folders : Lib!OtherDevice([op |-> "move", id |-> l, value |-> f])
      BY <1>6
    <2> DEFINE c == [op |-> "move", id |-> l, value |-> f]
    <2>2. c.op = "move" /\ Lib!OtherDevice(c)
      BY <2>1
    <2> HIDE DEF c
    <2> QED BY <2>2, LibOtherDevice
  <1> QED BY <1>1, <1>2, <1>3, <1>4, <1>5, <1>6 DEF Lib!Next

\* A confirmed change of library.js stays visible until the library was read
\* again, it is the change that was asked for, and what the page lists is
\* consistent, for any folders and lessons and any changes of another device.
THEOREM ConfirmedChangesStay == Spec => []ConfirmedStays
  <1> DEFINE Inv == part = "library" => LibInv
  <1>1. Init => Inv
    BY LibInitially DEF Init
  <1>2. Inv /\ [Next]_vars => Inv'
    <2>1. CASE part = "library" /\ Lib!Next /\ part' = part
      BY <2>1, LibStep
    <2>2. CASE UNCHANGED <<part, libVars>>
      BY <2>2, LibStutter
    <2>3. [Next]_vars => (part = "library" /\ Lib!Next /\ part' = part) \/ UNCHANGED <<part, libVars>>
      BY DEF Next, vars
    <2> HIDE DEF Inv
    <2> QED BY <2>1, <2>2, <2>3 DEF Inv
  <1>3. Inv => ConfirmedStays
    <2> SUFFICES ASSUME LibInv PROVE Lib!ConfirmedStays
      BY DEF ConfirmedStays
    <2>1. ConfirmedFits
      BY DEF LibInv
    <2>2. confirmed # None =>
            CASE confirmed.op \in {"create", "rename"} ->
                   confirmed.id \in DOMAIN state.folders /\ state.folders[confirmed.id] = confirmed.value
              [] confirmed.op = "delete_folder" -> confirmed.id \notin DOMAIN state.folders
              [] confirmed.op = "move" -> state.lessons[confirmed.id] = confirmed.value
              [] confirmed.op = "delete" -> confirmed.id \notin DOMAIN state.lessons
      BY <2>1 DEF ConfirmedFits, Changes
    <2> QED BY <2>2 DEF LibInv, Orderly, Lib!ConfirmedStays
  <1> QED BY <1>1, <1>2, <1>3, PTL DEF Spec

-----------------------------------------------------------------------------
(* Assistant *)

Window(mine, rev, op, opening, bal, busy, available, mode, pending, talk, attachment, balance, last) ==
  [mine |-> mine, rev |-> rev, op |-> op, opening |-> opening, bal |-> bal, busy |-> busy, available |-> available,
   mode |-> mode, pending |-> pending, talk |-> talk, attachment |-> attachment, balance |-> balance, answered |-> last]

IsWindow(p) ==
  p = Window(p.mine, p.rev, p.op, p.opening, p.bal, p.busy, p.available, p.mode, p.pending, p.talk, p.attachment,
             p.balance, p.answered)

Request(what, asker, rev, n, bal, sig, id, answer, gone) ==
  [do |-> what, owner |-> asker, rev |-> rev, n |-> n, bal |-> bal, sig |-> sig, id |-> id, answer |-> answer, gone |-> gone]

IsRequest(c) == c = Request(c.do, c.owner, c.rev, c.n, c.bal, c.sig, c.id, c.answer, c.gone)

\* A question or a preparation, and whether the window waits for it.
Doing(c) == c.do \in {"ask", "prepare"}
Awaited(p, c) == Doing(c) /\ Asst!CurrentOperation(p, c) /\ ~c.gone

\* What the window shows is of its session and no older than the last answer.
WindowFits(p, w) ==
  /\ IsWindow(p) /\ p.mine \in Students \cup {None} /\ p.mode \in {"chat", "image"}
  /\ p.rev \in Nat /\ p.op \in Nat /\ p.bal \in Nat /\ p.answered \in Nat
  /\ p.talk \subseteq {p.mine} /\ p.attachment \in {None, p.mine}
  /\ p.balance # None => p.mine # None /\ p.balance.owner = p.mine /\ p.balance.at \in Nat /\ p.balance.at >= p.answered
  /\ p.mine # None => p.answered <= w[p.mine]

\* A request is of this revision of the session or an earlier one; the window is
\* busy with the one it waits for, whose id is the pending one; a balance that
\* would still be shown is no older than the last answer.
RequestFits(c, p, w) ==
  /\ IsRequest(c) /\ c.do \in {"catalog", "wallet", "prepare", "ask"} /\ c.owner \in Students \cup {None}
  /\ c.rev \in Nat /\ c.rev <= p.rev /\ c.bal \in Nat /\ c.bal <= p.bal
  /\ Doing(c) => c.n \in Nat /\ c.n <= p.op
  /\ c.do # "ask" => c.id = None /\ ~c.gone
  /\ c.do = "catalog" => c.answer = None
  /\ c.do = "ask" => (IF c.owner = None THEN c.id = None ELSE c.id \in Nat)
  /\ c.do = "ask" /\ c.answer # None =>
       c.answer.kind \in {"ok", "refused"} /\ c.answer.at \in Nat /\ (c.owner # None => c.answer.at <= w[c.owner])
  /\ c.do = "wallet" => c.owner # None
  /\ c.do = "wallet" /\ c.answer # None =>
       c.answer \in Nat /\ (Asst!SameSession(p, c) /\ c.bal = p.bal => c.answer >= p.answered)
  /\ Awaited(p, c) => p.busy /\ (c.id # None => p.pending # None /\ p.pending.id = c.id)

Apart(cs) == \A c, d \in cs : Doing(c) /\ Doing(d) /\ c.n = d.n => c = d

\* A refusal the window waits for is of an id that is never charged.
RefusalsFit(p, cs, ch) ==
  \A c \in cs : c.do = "ask" /\ c.answer # None /\ c.id # None /\ Awaited(p, c) =>
    (c.answer.kind = "refused" => c.id \notin ch /\ \A o \in cs : o.id = c.id => o = c)

Dead(i, cs, ch) == i \notin ch /\ \A c \in cs : c.id # i

\* Of the ids of a repeated question only the pending one can be charged.
RepeatFits(p, cs, r, k, ch) ==
  /\ p.pending # None => p.pending.id \in Nat /\ p.pending.id <= k /\ r.sig = p.pending.sig /\ p.mine # None
  /\ \A i \in r.ids : i \in Nat /\ i <= k /\ ((p.pending # None /\ i = p.pending.id) \/ Dead(i, cs, ch))

AsstFits(p, cs, r, k, w, ch) ==
  /\ k \in Nat /\ w \in [Students -> Nat] /\ WindowFits(p, w)
  /\ \A c \in cs : RequestFits(c, p, w)
  /\ Apart(cs) /\ RefusalsFit(p, cs, ch) /\ RepeatFits(p, cs, r, k, ch)
  /\ p.busy => \E c \in cs : Awaited(p, c)

AsstInv == stored \in Students \cup {None} /\ AsstFits(page, calls, run, asked, wallet, charged)

LEMMA AsstTogether ==
  ASSUME stored' \in Students \cup {None}, AsstFits(page', calls', run', asked', wallet', charged')
  PROVE  AsstInv'
  BY DEF AsstInv, AsstFits, WindowFits, IsWindow, Window, RequestFits, IsRequest, Request, Apart, RefusalsFit, Awaited,
         Doing, RepeatFits, Dead, Asst!CurrentOperation, Asst!SameSession

\* Windows that differ in nothing an answer is compared with.
AsstAlike(q, p) ==
  /\ q.mine = p.mine /\ q.rev = p.rev /\ q.op = p.op /\ q.bal = p.bal /\ q.busy = p.busy
  /\ q.pending = p.pending /\ q.answered = p.answered

LEMMA AsstAlikeFits ==
  ASSUME NEW p, NEW cs, NEW r, NEW k, NEW w, NEW ch, AsstFits(p, cs, r, k, w, ch), NEW q, AsstAlike(q, p),
         WindowFits(q, w)
  PROVE  AsstFits(q, cs, r, k, w, ch)
  <1>2. \A c : Awaited(q, c) <=> Awaited(p, c)
    BY DEF AsstAlike, Awaited, Asst!CurrentOperation, Asst!SameSession
  <1>3. ASSUME NEW c \in cs PROVE RequestFits(c, q, w)
    <2>1. RequestFits(c, p, w)
      BY DEF AsstFits
    <2> QED BY <1>2, <2>1 DEF RequestFits, AsstAlike, Asst!SameSession
  <1>4. RefusalsFit(q, cs, ch)
    BY <1>2 DEF AsstFits, RefusalsFit
  <1>5. RepeatFits(q, cs, r, k, ch)
    BY DEF AsstFits, RepeatFits, AsstAlike
  <1>6. q.busy => \E c \in cs : Awaited(q, c)
    BY <1>2 DEF AsstFits, AsstAlike
  <1> QED BY <1>3, <1>4, <1>5, <1>6 DEF AsstFits

\* An answer nobody waits for arrives, or fails to.
LEMMA AsstFewer ==
  ASSUME NEW p, NEW cs, NEW r, NEW k, NEW w, NEW ch, AsstFits(p, cs, r, k, w, ch), NEW c, ~Awaited(p, c)
  PROVE  AsstFits(p, cs \ {c}, r, k, w, ch)
  <1>1. Apart(cs \ {c})
    BY DEF AsstFits, Apart
  <1>2. RefusalsFit(p, cs \ {c}, ch)
    BY DEF AsstFits, RefusalsFit
  <1>3. RepeatFits(p, cs \ {c}, r, k, ch)
    BY DEF AsstFits, RepeatFits, Dead
  <1> QED BY <1>1, <1>2, <1>3 DEF AsstFits

\* A request is sent that asks no question.
LEMMA AsstMore ==
  ASSUME NEW p, NEW cs, NEW r, NEW k, NEW w, NEW ch, AsstFits(p, cs, r, k, w, ch), NEW n, RequestFits(n, p, w),
         ~Doing(n)
  PROVE  AsstFits(p, cs \cup {n}, r, k, w, ch)
  <1>0. n.id = None
    BY DEF RequestFits, Doing
  <1>1. Apart(cs \cup {n})
    BY DEF AsstFits, Apart
  <1>2. RefusalsFit(p, cs \cup {n}, ch)
    BY <1>0 DEF AsstFits, RefusalsFit, Awaited
  <1>3. RepeatFits(p, cs \cup {n}, r, k, ch)
    <2>1. \A i \in r.ids : i # None
      BY NoneIsNoRequest DEF AsstFits, RepeatFits
    <2> QED BY <1>0, <2>1 DEF AsstFits, RepeatFits, Dead
  <1>4. p.busy => \E c \in cs \cup {n} : Awaited(p, c)
    BY DEF AsstFits
  <1> QED BY <1>1, <1>2, <1>3, <1>4 DEF AsstFits

\* reset(): everything that was under way is abandoned.
LEMMA ResetWindow ==
  ASSUME NEW p, IsWindow(p)
  PROVE  Asst!Reset(p) = Window(p.mine, p.rev, p.op + 1, p.opening, p.bal, FALSE, p.available, "chat", None, {}, None,
                                p.balance, p.answered)
  <1>0. PICK no : no = FALSE
    OBVIOUS
  <1> DEFINE a == [p EXCEPT !.op = @ + 1]
             b == [a EXCEPT !.busy = no]
             c == [b EXCEPT !.mode = "chat"]
             d == [c EXCEPT !.pending = None]
             e == [d EXCEPT !.talk = {}]
             q == [e EXCEPT !.attachment = None]
  <1>1. Asst!Reset(p) = q
    BY <1>0 DEF Asst!Reset
  <1>2. a = Window(p.mine, p.rev, p.op + 1, p.opening, p.bal, p.busy, p.available, p.mode, p.pending, p.talk, p.attachment,
                   p.balance, p.answered)
    BY DEF IsWindow, Window
  <1> HIDE DEF a
  <1>3. b = Window(p.mine, p.rev, p.op + 1, p.opening, p.bal, no, p.available, p.mode, p.pending, p.talk, p.attachment,
                   p.balance, p.answered)
    BY <1>2 DEF Window
  <1> HIDE DEF b
  <1>4. c = Window(p.mine, p.rev, p.op + 1, p.opening, p.bal, no, p.available, "chat", p.pending, p.talk, p.attachment,
                   p.balance, p.answered)
    BY <1>3 DEF Window
  <1> HIDE DEF c
  <1>5. d = Window(p.mine, p.rev, p.op + 1, p.opening, p.bal, no, p.available, "chat", None, p.talk, p.attachment,
                   p.balance, p.answered)
    BY <1>4 DEF Window
  <1> HIDE DEF d
  <1>6. e = Window(p.mine, p.rev, p.op + 1, p.opening, p.bal, no, p.available, "chat", None, {}, p.attachment,
                   p.balance, p.answered)
    BY <1>5 DEF Window
  <1> HIDE DEF e
  <1>7. q = Window(p.mine, p.rev, p.op + 1, p.opening, p.bal, no, p.available, "chat", None, {}, None,
                   p.balance, p.answered)
    BY <1>6 DEF Window
  <1> HIDE DEF q
  <1> QED BY <1>0, <1>1, <1>7

LEMMA ResetFits ==
  ASSUME NEW p, NEW cs, NEW r, NEW k, NEW w, NEW ch, AsstFits(p, cs, r, k, w, ch)
  PROVE  AsstFits(Asst!Reset(p), cs, Asst!NoRun, k, w, ch)
  <1> DEFINE q == Asst!Reset(p)
  <1>1. IsWindow(p)
    BY DEF AsstFits, WindowFits
  <1>2. q = Window(p.mine, p.rev, p.op + 1, p.opening, p.bal, FALSE, p.available, "chat", None, {}, None,
                   p.balance, p.answered)
    BY <1>1, ResetWindow
  <1> HIDE DEF q
  <1>3. /\ IsWindow(q) /\ q.mine = p.mine /\ q.rev = p.rev /\ q.op = p.op + 1 /\ q.bal = p.bal
        /\ q.busy = FALSE /\ q.mode = "chat" /\ q.pending = None /\ q.talk = {} /\ q.attachment = None /\ q.balance = p.balance
        /\ q.answered = p.answered
    BY <1>2 DEF IsWindow, Window
  <1>4. p.op \in Nat /\ p.rev \in Nat
    BY DEF AsstFits, WindowFits
  <1>5. WindowFits(q, w)
    BY <1>3 DEF AsstFits, WindowFits
  <1>6. ASSUME NEW c \in cs PROVE ~Awaited(q, c) /\ RequestFits(c, q, w)
    <2>1. RequestFits(c, p, w)
      BY DEF AsstFits
    <2>2. ~Awaited(q, c)
      BY <1>3, <1>4, <2>1 DEF RequestFits, Awaited, Asst!CurrentOperation
    <2> QED BY <1>3, <1>4, <2>1, <2>2 DEF RequestFits, Asst!SameSession
  <1>7. RefusalsFit(q, cs, ch)
    BY <1>6 DEF RefusalsFit
  <1>8. RepeatFits(q, cs, Asst!NoRun, k, ch)
    BY <1>3 DEF RepeatFits, Asst!NoRun
  <1>9. AsstFits(q, cs, Asst!NoRun, k, w, ch)
    BY <1>3, <1>5, <1>6, <1>7, <1>8 DEF AsstFits
  <1> QED BY <1>9 DEF q

LEMMA SyncWindow ==
  ASSUME NEW p, IsWindow(p), NEW q, q = Asst!Reset(p)
  PROVE  Asst!Sync(p) = Window(stored, p.rev + 1, p.op + 1, p.opening + 1, p.bal + 1, FALSE, FALSE, "chat", None, {}, None,
                               None, 0)
  <1>0. PICK no : no = FALSE
    OBVIOUS
  <1> DEFINE a == [q EXCEPT !.rev = @ + 1]
             b == [a EXCEPT !.opening = @ + 1]
             c == [b EXCEPT !.bal = @ + 1]
             d == [c EXCEPT !.mine = stored]
             e == [d EXCEPT !.available = no]
             f == [e EXCEPT !.balance = None]
             g == [f EXCEPT !.answered = 0]
  <1>1. Asst!Sync(p) = g
    BY <1>0 DEF Asst!Sync
  <1>2. q = Window(p.mine, p.rev, p.op + 1, p.opening, p.bal, no, p.available, "chat", None, {}, None,
                   p.balance, p.answered)
    BY <1>0, ResetWindow
  <1>3. a = Window(p.mine, p.rev + 1, p.op + 1, p.opening, p.bal, no, p.available, "chat", None, {}, None,
                   p.balance, p.answered)
    BY <1>2 DEF Window
  <1> HIDE DEF a
  <1>4. b = Window(p.mine, p.rev + 1, p.op + 1, p.opening + 1, p.bal, no, p.available, "chat", None, {}, None,
                   p.balance, p.answered)
    BY <1>3 DEF Window
  <1> HIDE DEF b
  <1>5. c = Window(p.mine, p.rev + 1, p.op + 1, p.opening + 1, p.bal + 1, no, p.available, "chat", None, {}, None,
                   p.balance, p.answered)
    BY <1>4 DEF Window
  <1> HIDE DEF c
  <1>6. d = Window(stored, p.rev + 1, p.op + 1, p.opening + 1, p.bal + 1, no, p.available, "chat", None, {}, None,
                   p.balance, p.answered)
    BY <1>5 DEF Window
  <1> HIDE DEF d
  <1>7. e = Window(stored, p.rev + 1, p.op + 1, p.opening + 1, p.bal + 1, no, no, "chat", None, {}, None,
                   p.balance, p.answered)
    BY <1>6 DEF Window
  <1> HIDE DEF e
  <1>8. f = Window(stored, p.rev + 1, p.op + 1, p.opening + 1, p.bal + 1, no, no, "chat", None, {}, None,
                   None, p.answered)
    BY <1>7 DEF Window
  <1> HIDE DEF f
  <1>9. g = Window(stored, p.rev + 1, p.op + 1, p.opening + 1, p.bal + 1, no, no, "chat", None, {}, None,
                   None, 0)
    BY <1>8 DEF Window
  <1> HIDE DEF g
  <1> QED BY <1>0, <1>1, <1>9

\* syncSession(): no request of the old session is of the new one.
LEMMA SyncFits ==
  ASSUME NEW p, NEW cs, NEW r, NEW k, NEW w, NEW ch, AsstFits(p, cs, r, k, w, ch), stored \in Students \cup {None}
  PROVE  AsstFits(Asst!Sync(p), cs, Asst!NoRun, k, w, ch)
  <1> DEFINE q == Asst!Sync(p)
  <1>1. IsWindow(p)
    BY DEF AsstFits, WindowFits
  <1>2. q = Window(stored, p.rev + 1, p.op + 1, p.opening + 1, p.bal + 1, FALSE, FALSE, "chat", None, {}, None, None, 0)
    BY <1>1, SyncWindow
  <1> HIDE DEF q
  <1>3. /\ IsWindow(q) /\ q.mine = stored /\ q.rev = p.rev + 1 /\ q.op = p.op + 1 /\ q.bal = p.bal + 1
        /\ q.busy = FALSE /\ q.mode = "chat" /\ q.pending = None /\ q.talk = {} /\ q.attachment = None /\ q.balance = None
        /\ q.answered = 0
    BY <1>2 DEF IsWindow, Window
  <1>4. p.op \in Nat /\ p.rev \in Nat /\ p.bal \in Nat
    BY DEF AsstFits, WindowFits
  <1>5. WindowFits(q, w)
    BY <1>3, <1>4 DEF AsstFits, WindowFits
  <1>6. ASSUME NEW c \in cs PROVE ~Awaited(q, c) /\ RequestFits(c, q, w)
    <2>1. RequestFits(c, p, w)
      BY DEF AsstFits
    <2>2. ~Asst!SameSession(q, c)
      BY <1>3, <1>4, <2>1 DEF RequestFits, Asst!SameSession
    <2>3. ~Awaited(q, c)
      BY <2>2 DEF Awaited, Asst!CurrentOperation
    <2> QED BY <1>3, <1>4, <2>1, <2>2, <2>3 DEF RequestFits
  <1>7. RefusalsFit(q, cs, ch)
    BY <1>6 DEF RefusalsFit
  <1>8. RepeatFits(q, cs, Asst!NoRun, k, ch)
    BY <1>3 DEF RepeatFits, Asst!NoRun
  <1>9. AsstFits(q, cs, Asst!NoRun, k, w, ch)
    BY <1>3, <1>5, <1>6, <1>7, <1>8 DEF AsstFits
  <1> QED BY <1>9 DEF q

\* The window when an answer arrives, and the question it repeats.
NoticedRun == IF page.mine # stored THEN Asst!NoRun ELSE run

LEMMA NoticedFits ==
  ASSUME AsstInv
  PROVE  AsstFits(Asst!Noticed(page), calls, NoticedRun, asked, wallet, charged)
  <1>1. CASE page.mine # stored
    <2>1. Asst!Noticed(page) = Asst!Sync(page) /\ NoticedRun = Asst!NoRun
      BY <1>1 DEF Asst!Noticed, NoticedRun
    <2>2. AsstFits(Asst!Sync(page), calls, Asst!NoRun, asked, wallet, charged)
      BY SyncFits DEF AsstInv
    <2> QED BY <2>1, <2>2
  <1>2. CASE page.mine = stored
    BY <1>2 DEF AsstInv, Asst!Noticed, NoticedRun
  <1> QED BY <1>1, <1>2

\* Only the opening, what is available and the mode change.
LEMMA OpeningWindow ==
  ASSUME NEW p, NEW w, WindowFits(p, w), NEW x,
         NEW q, q = Window(p.mine, p.rev, p.op, x, p.bal, p.busy, p.available, p.mode, p.pending, p.talk, p.attachment,
                           p.balance, p.answered)
  PROVE  AsstAlike(q, p) /\ WindowFits(q, w)
  BY DEF WindowFits, AsstAlike, IsWindow, Window

LEMMA CatalogWindow ==
  ASSUME NEW p, NEW w, WindowFits(p, w), NEW a, NEW m \in {"chat", "image"},
         NEW q, q = Window(p.mine, p.rev, p.op, p.opening, p.bal, p.busy, a, m, p.pending, p.talk, p.attachment,
                           p.balance, p.answered)
  PROVE  AsstAlike(q, p) /\ WindowFits(q, w)
  BY DEF WindowFits, AsstAlike, IsWindow, Window

LEMMA StepOtherTab ==
  ASSUME AsstInv, NEW tok \in Students \cup {None}, Asst!OtherTab(tok)
  PROVE  AsstInv'
  <1>1. stored' = tok /\ UNCHANGED <<page, calls, run, asked, wallet, charged>>
    BY DEF Asst!OtherTab
  <1> QED BY <1>1, AsstTogether DEF AsstInv

LEMMA StepStorageEvent ==
  ASSUME AsstInv, Asst!StorageEvent
  PROVE  AsstInv'
  <1>1. page' = Asst!Sync(page) /\ run' = Asst!NoRun /\ UNCHANGED <<stored, calls, asked, wallet, charged>>
    BY DEF Asst!StorageEvent
  <1>2. AsstFits(Asst!Sync(page), calls, Asst!NoRun, asked, wallet, charged)
    BY SyncFits DEF AsstInv
  <1>3. stored' \in Students \cup {None}
    BY <1>1 DEF AsstInv
  <1> QED BY <1>1, <1>2, <1>3, AsstTogether

LEMMA StepOpenWindow ==
  ASSUME AsstInv, Asst!Open
  PROVE  AsstInv'
  <1> DEFINE p == Asst!Noticed(page)
             q == [p EXCEPT !.opening = @ + 1]
             n == Asst!Call(q, "catalog", q.opening, None, None)
  <1>1. /\ page' = q /\ calls' = calls \cup {n} /\ run' = NoticedRun
        /\ UNCHANGED <<stored, asked, wallet, charged>>
    BY DEF Asst!Open, NoticedRun
  <1>2. AsstFits(p, calls, NoticedRun, asked, wallet, charged)
    BY NoticedFits
  <1> HIDE DEF p
  <1>3. WindowFits(p, wallet)
    BY <1>2 DEF AsstFits
  <1>4. q = Window(p.mine, p.rev, p.op, p.opening + 1, p.bal, p.busy, p.available, p.mode, p.pending, p.talk, p.attachment,
                   p.balance, p.answered)
    BY <1>3 DEF WindowFits, IsWindow, Window
  <1> HIDE DEF q
  <1>5. AsstAlike(q, p) /\ WindowFits(q, wallet)
    BY <1>3, <1>4, OpeningWindow
  <1>6. AsstFits(q, calls, NoticedRun, asked, wallet, charged)
    BY <1>2, <1>5, AsstAlikeFits
  <1>7. n = Request("catalog", q.mine, q.rev, q.opening, q.bal, None, None, None, FALSE)
    BY DEF Asst!Call, Request
  <1> HIDE DEF n
  <1>8. RequestFits(n, q, wallet) /\ ~Doing(n)
    BY <1>5, <1>7 DEF RequestFits, Doing, Awaited, WindowFits, Request, IsRequest
  <1>9. AsstFits(q, calls \cup {n}, NoticedRun, asked, wallet, charged)
    BY <1>6, <1>8, AsstMore
  <1>10. stored' \in Students \cup {None}
    BY <1>1 DEF AsstInv
  <1> QED BY <1>1, <1>9, <1>10, AsstTogether

LEMMA StepCatalog ==
  ASSUME AsstInv, NEW available, NEW images, Asst!CatalogReply(available, images)
  PROVE  AsstInv'
  <1> DEFINE p == Asst!Noticed(page)
  <1>1. PICK c \in calls :
          /\ c.do = "catalog"
          /\ \/ page' = p
             \/ \E m \in {"chat", p.mode} : page' = [p EXCEPT !.available = available, !.mode = m]
          /\ \/ calls' = calls \ {c}
             \/ c.owner # None /\ calls' = (calls \ {c}) \cup {[c EXCEPT !.do = "wallet"]}
          /\ run' = NoticedRun /\ UNCHANGED <<stored, asked, wallet, charged>>
    <2>1. PICK c \in calls :
            /\ c.do = "catalog"
            /\ page' = IF Asst!CurrentOpening(p, c)
                       THEN [p EXCEPT !.available = available,
                                      !.mode = IF available /\ images /\ stored # None THEN @ ELSE "chat"] ELSE p
            /\ calls' = (calls \ {c}) \cup
                 (IF Asst!CurrentOpening(p, c) /\ available /\ c.owner # None THEN {[c EXCEPT !.do = "wallet"]} ELSE {})
            /\ run' = NoticedRun /\ UNCHANGED <<stored, asked, wallet, charged>>
      BY DEF Asst!CatalogReply, NoticedRun
    <2>2. calls' = calls \ {c} \/ (c.owner # None /\ calls' = (calls \ {c}) \cup {[c EXCEPT !.do = "wallet"]})
      <3>1. CASE Asst!CurrentOpening(p, c) /\ available /\ c.owner # None
        BY <2>1, <3>1
      <3>2. CASE ~(Asst!CurrentOpening(p, c) /\ available /\ c.owner # None)
        <4>1. calls' = (calls \ {c}) \cup {}
          BY <2>1, <3>2
        <4> QED BY <4>1
      <3> QED BY <3>1, <3>2
    <2>3. page' = p \/ \E m \in {"chat", p.mode} : page' = [p EXCEPT !.available = available, !.mode = m]
      BY <2>1
    <2> QED BY <2>1, <2>2, <2>3
  <1>2. AsstFits(p, calls, NoticedRun, asked, wallet, charged)
    BY NoticedFits
  <1> HIDE DEF p
  <1>3. WindowFits(p, wallet)
    BY <1>2 DEF AsstFits
  <1>4. AsstAlike(page', p) /\ WindowFits(page', wallet)
    <2>1. CASE page' = p
      BY <1>3, <2>1 DEF AsstAlike
    <2>2. CASE \E m \in {"chat", p.mode} : page' = [p EXCEPT !.available = available, !.mode = m]
      <3>1. PICK m \in {"chat", p.mode} : page' = [p EXCEPT !.available = available, !.mode = m]
        BY <2>2
      <3>2. page' = Window(p.mine, p.rev, p.op, p.opening, p.bal, p.busy, available, m, p.pending, p.talk, p.attachment,
                           p.balance, p.answered)
        BY <1>3, <3>1 DEF WindowFits, IsWindow, Window
      <3>3. m \in {"chat", "image"}
        BY <1>3 DEF WindowFits
      <3> QED BY <1>3, <3>2, <3>3, CatalogWindow
    <2> QED BY <1>1, <2>1, <2>2
  <1>5. AsstFits(page', calls, NoticedRun, asked, wallet, charged)
    BY <1>2, <1>4, AsstAlikeFits
  <1>6. ~Awaited(page', c)
    BY <1>1 DEF Awaited, Doing
  <1>7. AsstFits(page', calls \ {c}, NoticedRun, asked, wallet, charged)
    BY <1>5, <1>6, AsstFewer
  <1>8. AsstFits(page', calls', NoticedRun, asked, wallet, charged)
    <2>1. CASE calls' = calls \ {c}
      BY <1>7, <2>1
    <2>2. CASE c.owner # None /\ calls' = (calls \ {c}) \cup {[c EXCEPT !.do = "wallet"]}
      <3> DEFINE n == [c EXCEPT !.do = "wallet"]
      <3>1. RequestFits(c, page', wallet)
        BY <1>5 DEF AsstFits
      <3>2. n = Request("wallet", c.owner, c.rev, c.n, c.bal, c.sig, c.id, c.answer, c.gone)
        BY <3>1 DEF RequestFits, IsRequest, Request
      <3> HIDE DEF n
      <3>3. n.do = "wallet" /\ IsRequest(n) /\ ~Doing(n) /\ n.gone = c.gone
        BY <3>2 DEF IsRequest, Request, Doing
      <3>4. RequestFits(n, page', wallet)
        BY <1>1, <2>2, <3>1, <3>2, <3>3 DEF RequestFits, Doing, Awaited, Request
      <3>5. calls' = (calls \ {c}) \cup {n}
        BY <2>2 DEF n
      <3> QED BY <1>7, <3>3, <3>4, <3>5, AsstMore
    <2> QED BY <1>1, <2>1, <2>2
  <1>9. stored' \in Students \cup {None}
    BY <1>1 DEF AsstInv
  <1> QED BY <1>1, <1>8, <1>9, AsstTogether

LEMMA StepServeWallet ==
  ASSUME AsstInv, Asst!ServeWallet
  PROVE  AsstInv'
  <1>1. PICK c \in calls :
          /\ c.do = "wallet" /\ c.answer = None
          /\ calls' = (calls \ {c}) \cup {[c EXCEPT !.answer = wallet[c.owner]]}
          /\ UNCHANGED <<stored, page, run, asked, wallet, charged>>
    BY DEF Asst!ServeWallet
  <1> DEFINE n == [c EXCEPT !.answer = wallet[c.owner]]
  <1>2. AsstFits(page, calls, run, asked, wallet, charged)
    BY DEF AsstInv
  <1>3. RequestFits(c, page, wallet) /\ WindowFits(page, wallet) /\ wallet \in [Students -> Nat]
    BY <1>2 DEF AsstFits
  <1>4. n = Request(c.do, c.owner, c.rev, c.n, c.bal, c.sig, c.id, wallet[c.owner], c.gone)
    BY <1>3 DEF RequestFits, IsRequest, Request
  <1>5. calls' = (calls \ {c}) \cup {n}
    BY <1>1
  <1> HIDE DEF n
  <1>6. /\ n.do = "wallet" /\ IsRequest(n) /\ n.owner = c.owner /\ n.rev = c.rev /\ n.bal = c.bal /\ n.id = c.id
        /\ n.gone = c.gone /\ n.answer = wallet[c.owner] /\ ~Doing(n)
    BY <1>1, <1>4 DEF IsRequest, Request, Doing
  <1>7. c.owner \in Students /\ wallet[c.owner] \in Nat
    BY <1>1, <1>3 DEF RequestFits
  <1>8. Asst!SameSession(page, n) => wallet[c.owner] >= page.answered
    BY <1>3, <1>6, <1>7, NoneIsNoRequest DEF Asst!SameSession, WindowFits
  <1>9. RequestFits(n, page, wallet)
    BY <1>1, <1>3, <1>6, <1>7, <1>8 DEF RequestFits, Awaited
  <1>10. AsstFits(page, calls \ {c}, run, asked, wallet, charged)
    BY <1>1, <1>2, AsstFewer DEF Awaited, Doing
  <1>11. AsstFits(page, calls', run, asked, wallet, charged)
    BY <1>5, <1>6, <1>9, <1>10, AsstMore
  <1>12. stored' \in Students \cup {None}
    BY <1>1 DEF AsstInv
  <1> QED BY <1>1, <1>11, <1>12, AsstTogether

LEMMA StepWalletReply ==
  ASSUME AsstInv, Asst!WalletReply
  PROVE  AsstInv'
  <1> DEFINE p == Asst!Noticed(page)
  <1>1. PICK c \in calls :
          /\ c.do = "wallet" /\ c.answer # None
          /\ page' = IF Asst!BalanceCounts(p, c) THEN [p EXCEPT !.balance = [owner |-> c.owner, at |-> c.answer]] ELSE p
          /\ calls' = calls \ {c} /\ run' = NoticedRun /\ UNCHANGED <<stored, asked, wallet, charged>>
    BY DEF Asst!WalletReply, NoticedRun
  <1>2. AsstFits(p, calls, NoticedRun, asked, wallet, charged)
    BY NoticedFits
  <1> HIDE DEF p
  <1>3. WindowFits(p, wallet) /\ RequestFits(c, p, wallet)
    BY <1>2 DEF AsstFits
  <1>4. AsstAlike(page', p) /\ WindowFits(page', wallet)
    <2>1. CASE ~Asst!BalanceCounts(p, c)
      BY <1>1, <1>3, <2>1 DEF AsstAlike
    <2>2. CASE Asst!BalanceCounts(p, c)
      <3> DEFINE b == [owner |-> c.owner, at |-> c.answer]
      <3>1. b.owner = p.mine /\ b.owner # None /\ b.at \in Nat /\ b.at >= p.answered
        BY <1>1, <1>3, <2>2 DEF RequestFits, Asst!BalanceCounts, Asst!CurrentOpening, Asst!SameSession
      <3>2. page' = [p EXCEPT !.balance = b]
        BY <1>1, <2>2
      <3> HIDE DEF b
      <3>3. page' = Window(p.mine, p.rev, p.op, p.opening, p.bal, p.busy, p.available, p.mode, p.pending, p.talk, p.attachment,
                           b, p.answered)
        BY <1>3, <3>2 DEF WindowFits, IsWindow, Window
      <3> QED BY <1>3, <3>1, <3>3 DEF WindowFits, AsstAlike, IsWindow, Window
    <2> QED BY <2>1, <2>2
  <1>5. AsstFits(page', calls, NoticedRun, asked, wallet, charged)
    BY <1>2, <1>4, AsstAlikeFits
  <1>6. ~Awaited(page', c)
    BY <1>1 DEF Awaited, Doing
  <1>7. AsstFits(page', calls \ {c}, NoticedRun, asked, wallet, charged)
    BY <1>5, <1>6, AsstFewer
  <1>8. stored' \in Students \cup {None}
    BY <1>1 DEF AsstInv
  <1> QED BY <1>1, <1>7, <1>8, AsstTogether

LEMMA StepOpeningFails ==
  ASSUME AsstInv, Asst!OpeningFails
  PROVE  AsstInv'
  <1> DEFINE p == Asst!Noticed(page)
  <1>1. PICK c \in calls :
          /\ c.do \in {"catalog", "wallet"}
          /\ page' = IF Asst!BalanceCounts(p, c) /\ ~p.busy THEN [p EXCEPT !.available = FALSE] ELSE p
          /\ calls' = calls \ {c} /\ run' = NoticedRun /\ UNCHANGED <<stored, asked, wallet, charged>>
    BY DEF Asst!OpeningFails, NoticedRun
  <1>2. AsstFits(p, calls, NoticedRun, asked, wallet, charged)
    BY NoticedFits
  <1> HIDE DEF p
  <1>3. WindowFits(p, wallet)
    BY <1>2 DEF AsstFits
  <1>4. AsstAlike(page', p) /\ WindowFits(page', wallet)
    <2>1. CASE page' = p
      BY <1>3, <2>1 DEF AsstAlike
    <2>2. CASE page' = [p EXCEPT !.available = FALSE]
      <3>1. page' = Window(p.mine, p.rev, p.op, p.opening, p.bal, p.busy, FALSE, p.mode, p.pending, p.talk, p.attachment,
                           p.balance, p.answered)
        BY <1>3, <2>2 DEF WindowFits, IsWindow, Window
      <3>2. p.mode \in {"chat", "image"}
        BY <1>3 DEF WindowFits
      <3> QED BY <1>3, <3>1, <3>2, CatalogWindow
    <2> QED BY <1>1, <2>1, <2>2
  <1>5. AsstFits(page', calls, NoticedRun, asked, wallet, charged)
    BY <1>2, <1>4, AsstAlikeFits
  <1>6. ~Awaited(page', c)
    BY <1>1 DEF Awaited, Doing
  <1>7. AsstFits(page', calls \ {c}, NoticedRun, asked, wallet, charged)
    BY <1>5, <1>6, AsstFewer
  <1>8. stored' \in Students \cup {None}
    BY <1>1 DEF AsstInv
  <1> QED BY <1>1, <1>7, <1>8, AsstTogether

LEMMA StepClear ==
  ASSUME AsstInv, Asst!Clear
  PROVE  AsstInv'
  <1>1. page' = Asst!Reset(page) /\ run' = Asst!NoRun /\ UNCHANGED <<stored, calls, asked, wallet, charged>>
    BY DEF Asst!Clear
  <1>2. AsstFits(Asst!Reset(page), calls, Asst!NoRun, asked, wallet, charged)
    BY ResetFits DEF AsstInv
  <1>3. stored' \in Students \cup {None}
    BY <1>1 DEF AsstInv
  <1> QED BY <1>1, <1>2, <1>3, AsstTogether

\* A window that is free waits for nothing.
LEMMA FreeWindow ==
  ASSUME NEW p, NEW cs, NEW r, NEW k, NEW w, NEW ch, AsstFits(p, cs, r, k, w, ch), ~p.busy
  PROVE  \A c \in cs : ~Awaited(p, c)
  BY DEF AsstFits, RequestFits

LEMMA StepPickMode ==
  ASSUME AsstInv, NEW m \in {"chat", "image"}, Asst!PickMode(m)
  PROVE  AsstInv'
  <1>1. /\ ~page.busy /\ run' = Asst!NoRun /\ UNCHANGED <<stored, calls, asked, wallet, charged>>
        /\ \E a \in {None, page.attachment} : page' = [page EXCEPT !.mode = m, !.pending = None, !.attachment = a]
    BY DEF Asst!PickMode
  <1>2. AsstFits(page, calls, run, asked, wallet, charged)
    BY DEF AsstInv
  <1>3. WindowFits(page, wallet)
    BY <1>2 DEF AsstFits
  <1>4. PICK a \in {None, page.attachment} : page' = [page EXCEPT !.mode = m, !.pending = None, !.attachment = a]
    BY <1>1
  <1>5. page' = Window(page.mine, page.rev, page.op, page.opening, page.bal, page.busy, page.available, m, None, page.talk, a,
                       page.balance, page.answered)
    BY <1>3, <1>4 DEF WindowFits, IsWindow, Window
  <1>6. /\ page'.mine = page.mine /\ page'.rev = page.rev /\ page'.op = page.op /\ page'.bal = page.bal
        /\ page'.busy = page.busy /\ page'.pending = None /\ page'.answered = page.answered /\ WindowFits(page', wallet)
    BY <1>3, <1>5 DEF WindowFits, IsWindow, Window
  <1>7. ASSUME NEW c \in calls PROVE ~Awaited(page', c) /\ RequestFits(c, page', wallet)
    <2>1. RequestFits(c, page, wallet) /\ ~Awaited(page, c)
      BY <1>1, <1>2, FreeWindow DEF AsstFits
    <2>2. ~Awaited(page', c)
      BY <1>6, <2>1 DEF Awaited, Asst!CurrentOperation, Asst!SameSession
    <2> QED BY <1>6, <2>1, <2>2 DEF RequestFits, Asst!SameSession
  <1>8. RefusalsFit(page', calls, charged)
    BY <1>7 DEF RefusalsFit
  <1>9. RepeatFits(page', calls, Asst!NoRun, asked, charged)
    BY <1>6 DEF RepeatFits, Asst!NoRun
  <1>10. AsstFits(page', calls, Asst!NoRun, asked, wallet, charged)
    BY <1>1, <1>2, <1>6, <1>7, <1>8, <1>9 DEF AsstFits
  <1>11. stored' \in Students \cup {None}
    BY <1>1 DEF AsstInv
  <1> QED BY <1>1, <1>10, <1>11, AsstTogether

\* A preparation or a question begins: nothing earlier is waited for any more.
LEMMA Begun ==
  ASSUME NEW p, NEW cs, NEW r, NEW k, NEW w, NEW ch, AsstFits(p, cs, r, k, w, ch),
         NEW q, WindowFits(q, w), q.mine = p.mine, q.rev = p.rev, q.op = p.op + 1, q.bal \in {p.bal, p.bal + 1},
         q.answered = p.answered, q.busy,
         NEW n, RequestFits(n, q, w), Awaited(q, n), n.answer = None
  PROVE  /\ \A c \in cs \cup {n} : RequestFits(c, q, w)
         /\ Apart(cs \cup {n}) /\ RefusalsFit(q, cs \cup {n}, ch) /\ \E c \in cs \cup {n} : Awaited(q, c)
  <1>1. p.op \in Nat /\ p.bal \in Nat
    BY DEF AsstFits, WindowFits
  <1>2. n.n = q.op
    BY DEF Awaited, Asst!CurrentOperation
  <1>3. ASSUME NEW c \in cs PROVE ~Awaited(q, c) /\ RequestFits(c, q, w) /\ (Doing(c) => c.n # n.n)
    <2>1. RequestFits(c, p, w)
      BY DEF AsstFits
    <2>2. Doing(c) => c.n # q.op
      BY <1>1, <2>1 DEF RequestFits
    <2>3. ~Awaited(q, c)
      BY <2>2 DEF Awaited, Asst!CurrentOperation
    <2>4. c.bal \in Nat /\ c.bal <= q.bal /\ (c.bal = q.bal => c.bal = p.bal)
      BY <1>1, <2>1 DEF RequestFits
    <2>5. Doing(c) => c.n \in Nat /\ c.n <= q.op
      BY <1>1, <2>1 DEF RequestFits
    <2>6. RequestFits(c, q, w)
      BY <2>1, <2>3, <2>4, <2>5 DEF RequestFits, Asst!SameSession
    <2> QED BY <1>2, <2>2, <2>3, <2>6
  <1>4. Apart(cs \cup {n})
    BY <1>3 DEF AsstFits, Apart
  <1>5. RefusalsFit(q, cs \cup {n}, ch)
    BY <1>3 DEF RefusalsFit
  <1> QED BY <1>3, <1>4, <1>5

\* The operation the window waits for ends: it is free, and nothing else is
\* waited for.
LEMMA Ended ==
  ASSUME NEW p, NEW cs, NEW r, NEW k, NEW w, NEW ch, AsstFits(p, cs, r, k, w, ch), NEW c \in cs, Awaited(p, c),
         NEW q, WindowFits(q, w), q.mine = p.mine, q.rev = p.rev, q.op = p.op, ~q.busy,
         (q.bal = p.bal /\ q.answered = p.answered) \/ q.bal = p.bal + 1,
         NEW s, RepeatFits(q, cs \ {c}, s, k, ch)
  PROVE  AsstFits(q, cs \ {c}, s, k, w, ch)
  <1>1. p.bal \in Nat
    BY DEF AsstFits, WindowFits
  <1>2. ASSUME NEW d \in cs \ {c} PROVE ~Awaited(q, d) /\ RequestFits(d, q, w)
    <2>1. RequestFits(d, p, w)
      BY DEF AsstFits
    <2>2. Doing(d) => d.n # c.n
      BY DEF AsstFits, Apart, Awaited
    <2>3. ~Awaited(q, d)
      BY <2>2 DEF Awaited, Asst!CurrentOperation
    <2>4. d.bal <= q.bal /\ (d.bal = q.bal => q.bal = p.bal /\ q.answered = p.answered)
      BY <1>1, <2>1 DEF RequestFits
    <2> QED BY <2>1, <2>3, <2>4 DEF RequestFits, Asst!SameSession
  <1>3. Apart(cs \ {c})
    BY DEF AsstFits, Apart
  <1>4. RefusalsFit(q, cs \ {c}, ch)
    BY <1>2 DEF RefusalsFit
  <1> QED BY <1>2, <1>3, <1>4 DEF AsstFits

\* A question whose answer nobody waits for stays at the server.
LEMMA LeftBehind ==
  ASSUME NEW p, NEW cs, NEW r, NEW k, NEW w, NEW ch, NEW c \in cs, AsstFits(p, cs \ {c}, r, k, w, ch), Apart(cs),
         RepeatFits(p, cs, r, k, ch), NEW n, RequestFits(n, p, w), Doing(c), Doing(n), n.n = c.n, n.id = c.id, ~Awaited(p, n),
         \A d \in cs \ {c} : ~(d.do = "ask" /\ d.answer # None /\ d.id # None /\ Awaited(p, d) /\ d.answer.kind = "refused"
                               /\ d.id = c.id)
  PROVE  AsstFits(p, (cs \ {c}) \cup {n}, r, k, w, ch)
  <1>1. Apart((cs \ {c}) \cup {n})
    BY DEF Apart
  <1>2. RefusalsFit(p, (cs \ {c}) \cup {n}, ch)
    BY DEF AsstFits, RefusalsFit
  <1>3. RepeatFits(p, (cs \ {c}) \cup {n}, r, k, ch)
    BY DEF RepeatFits, Dead
  <1> QED BY <1>1, <1>2, <1>3 DEF AsstFits

LEMMA StepAttach ==
  ASSUME AsstInv, Asst!Attach
  PROVE  AsstInv'
  <1>1. UNCHANGED <<stored, asked, wallet, charged>>
    BY DEF Asst!Attach
  <1>2. stored' \in Students \cup {None}
    BY <1>1 DEF AsstInv
  <1>3. AsstFits(page, calls, run, asked, wallet, charged)
    BY DEF AsstInv
  <1>4. CASE page.mine # stored
    <2>1. page' = Asst!Sync(page) /\ run' = Asst!NoRun /\ calls' = calls
      BY <1>4 DEF Asst!Attach
    <2>2. AsstFits(Asst!Sync(page), calls, Asst!NoRun, asked, wallet, charged)
      BY <1>3, SyncFits DEF AsstInv
    <2> QED BY <1>1, <1>2, <2>1, <2>2, AsstTogether
  <1>5. CASE page.mine = stored
    <2>0. PICK yes : yes = TRUE
      OBVIOUS
    <2> DEFINE q == [page EXCEPT !.op = @ + 1, !.busy = yes]
               n == Asst!Call(q, "prepare", q.op, None, None)
    <2>1. page' = q /\ calls' = calls \cup {n} /\ run' = run
      BY <1>5, <2>0 DEF Asst!Attach
    <2>2. WindowFits(page, wallet)
      BY <1>3 DEF AsstFits
    <2>3. q = Window(page.mine, page.rev, page.op + 1, page.opening, page.bal, yes, page.available, page.mode, page.pending,
                     page.talk, page.attachment, page.balance, page.answered)
      <3> DEFINE e == [page EXCEPT !.op = @ + 1]
      <3>1. IsWindow(page)
        BY <2>2 DEF WindowFits
      <3>2. e = Window(page.mine, page.rev, page.op + 1, page.opening, page.bal, page.busy, page.available, page.mode,
                       page.pending, page.talk, page.attachment, page.balance, page.answered)
        BY <3>1 DEF IsWindow, Window
      <3>3. q = [e EXCEPT !.busy = yes]
        OBVIOUS
      <3> HIDE DEF e, q
      <3> QED BY <3>2, <3>3 DEF Window
    <2> HIDE DEF q
    <2>4. /\ q.mine = page.mine /\ q.rev = page.rev /\ q.op = page.op + 1 /\ q.bal = page.bal /\ q.busy
          /\ q.answered = page.answered /\ q.pending = page.pending /\ WindowFits(q, wallet)
      BY <2>0, <2>2, <2>3 DEF WindowFits, IsWindow, Window
    <2>5. n = Request("prepare", q.mine, q.rev, q.op, q.bal, None, None, None, FALSE)
      BY DEF Asst!Call, Request
    <2> HIDE DEF n
    <2>6. /\ IsRequest(n) /\ n.do = "prepare" /\ n.owner = q.mine /\ n.rev = q.rev /\ n.n = q.op /\ n.bal = q.bal /\ n.id = None
          /\ n.answer = None /\ ~n.gone
      BY <2>5 DEF IsRequest, Request
    <2>7. RequestFits(n, q, wallet)
      BY <2>4, <2>6 DEF RequestFits, WindowFits
    <2>8. Awaited(q, n)
      BY <2>6 DEF Awaited, Doing, Asst!CurrentOperation, Asst!SameSession
    <2>9. /\ \A c \in calls \cup {n} : RequestFits(c, q, wallet)
          /\ Apart(calls \cup {n}) /\ RefusalsFit(q, calls \cup {n}, charged) /\ \E c \in calls \cup {n} : Awaited(q, c)
      BY <1>3, <2>4, <2>6, <2>7, <2>8, Begun
    <2>10. RepeatFits(q, calls \cup {n}, run, asked, charged)
      <3>1. \A i \in run.ids : i # None
        BY <1>3, NoneIsNoRequest DEF AsstFits, RepeatFits
      <3> QED BY <1>3, <2>4, <2>6, <3>1 DEF AsstFits, RepeatFits, Dead
    <2>11. AsstFits(q, calls \cup {n}, run, asked, wallet, charged)
      BY <1>3, <2>4, <2>9, <2>10 DEF AsstFits
    <2> QED BY <1>1, <1>2, <2>1, <2>11, AsstTogether
  <1> QED BY <1>4, <1>5

LEMMA StepPrepareDone ==
  ASSUME AsstInv, NEW ok, Asst!PrepareDone(ok)
  PROVE  AsstInv'
  <1> DEFINE p == Asst!Noticed(page)
  <1>1. PICK c \in calls :
          /\ c.do = "prepare"
          /\ page' = IF Asst!CurrentOperation(p, c)
                     THEN [p EXCEPT !.attachment = IF ok THEN c.owner ELSE None, !.busy = FALSE] ELSE p
          /\ calls' = calls \ {c} /\ run' = NoticedRun /\ UNCHANGED <<stored, asked, wallet, charged>>
    BY DEF Asst!PrepareDone, NoticedRun
  <1>2. AsstFits(p, calls, NoticedRun, asked, wallet, charged)
    BY NoticedFits
  <1> HIDE DEF p
  <1>3. WindowFits(p, wallet) /\ RequestFits(c, p, wallet)
    BY <1>2 DEF AsstFits
  <1>4. stored' \in Students \cup {None}
    BY <1>1 DEF AsstInv
  <1>5. CASE ~Asst!CurrentOperation(p, c)
    <2>1. AsstFits(p, calls \ {c}, NoticedRun, asked, wallet, charged)
      BY <1>2, <1>5, AsstFewer DEF Awaited
    <2> QED BY <1>1, <1>4, <1>5, <2>1, AsstTogether
  <1>6. CASE Asst!CurrentOperation(p, c)
    <2>0. PICK no : no = FALSE
      OBVIOUS
    <2> DEFINE a == IF ok THEN c.owner ELSE None
               q == [p EXCEPT !.attachment = a, !.busy = no]
    <2>1. page' = q
      BY <1>1, <1>6, <2>0
    <2>2. a \in {None, p.mine}
      BY <1>6 DEF Asst!CurrentOperation, Asst!SameSession
    <2> HIDE DEF a
    <2>3. q = Window(p.mine, p.rev, p.op, p.opening, p.bal, no, p.available, p.mode, p.pending, p.talk, a,
                     p.balance, p.answered)
      <3> DEFINE e == [p EXCEPT !.attachment = a]
      <3>1. IsWindow(p)
        BY <1>3 DEF WindowFits
      <3>2. e = Window(p.mine, p.rev, p.op, p.opening, p.bal, p.busy, p.available, p.mode, p.pending, p.talk, a,
                       p.balance, p.answered)
        BY <3>1 DEF IsWindow, Window
      <3>3. q = [e EXCEPT !.busy = no]
        OBVIOUS
      <3> HIDE DEF e, q
      <3> QED BY <3>2, <3>3 DEF Window
    <2> HIDE DEF q
    <2>4. /\ q.mine = p.mine /\ q.rev = p.rev /\ q.op = p.op /\ q.bal = p.bal /\ ~q.busy
          /\ q.answered = p.answered /\ q.pending = p.pending /\ WindowFits(q, wallet)
      BY <1>3, <2>0, <2>2, <2>3 DEF WindowFits, IsWindow, Window
    <2>5. Awaited(p, c)
      BY <1>1, <1>3, <1>6 DEF Awaited, Doing, RequestFits
    <2>6. RepeatFits(q, calls \ {c}, NoticedRun, asked, charged)
      BY <1>2, <2>4 DEF AsstFits, RepeatFits, Dead
    <2>7. AsstFits(q, calls \ {c}, NoticedRun, asked, wallet, charged)
      BY <1>2, <2>4, <2>5, <2>6, Ended
    <2> QED BY <1>1, <1>4, <2>1, <2>7, AsstTogether
  <1> QED BY <1>5, <1>6

LEMMA AskedId ==
  ASSUME NEW p, NEW cs, NEW r, NEW k, NEW w, NEW ch, AsstFits(p, cs, r, k, w, ch),
         NEW sig \in Questions \X {"chat", "image"} \X BOOLEAN,
         NEW pending, pending = (IF p.pending # None /\ p.pending.sig = sig THEN p.pending ELSE [sig |-> sig, id |-> k + 1])
  PROVE  pending # None /\ pending.id \in Nat
  <1>1. k \in Nat /\ RepeatFits(p, cs, r, k, ch)
    BY DEF AsstFits
  <1>2. CASE p.pending # None /\ p.pending.sig = sig
    BY <1>1, <1>2 DEF RepeatFits
  <1>3. CASE ~(p.pending # None /\ p.pending.sig = sig)
    <2>1. pending = [sig |-> sig, id |-> k + 1]
      BY <1>3
    <2>2. k + 1 \in Nat
      BY <1>1
    <2>3. pending \in [sig : Questions \X {"chat", "image"} \X BOOLEAN, id : Nat]
      BY <2>1, <2>2
    <2> QED BY <2>1, <2>2, <2>3, NoneIsNoRequest
  <1> QED BY <1>2, <1>3

\* The ids of a question after it was sent once more.
LEMMA AskedRuns ==
  ASSUME NEW p, NEW cs, NEW r, NEW k, NEW w, NEW ch, AsstFits(p, cs, r, k, w, ch), p.mine # None,
         NEW sig \in Questions \X {"chat", "image"} \X BOOLEAN,
         NEW pending, pending = (IF p.pending # None /\ p.pending.sig = sig THEN p.pending ELSE [sig |-> sig, id |-> k + 1]),
         NEW q, q.mine = p.mine, q.pending = pending, NEW n, n.id = pending.id,
         NEW s, s.sig = sig, s.ids = (IF r.sig = sig THEN r.ids ELSE {}) \cup {pending.id}
  PROVE  RepeatFits(q, cs \cup {n}, s, k + 1, ch)
  <1>1. k \in Nat /\ RepeatFits(p, cs, r, k, ch)
    BY DEF AsstFits
  <1>2. CASE p.pending # None /\ p.pending.sig = sig
    <2>1. pending = p.pending /\ pending.id \in Nat /\ pending.id <= k /\ r.sig = sig
      BY <1>1, <1>2 DEF RepeatFits
    <2>2. s.ids = r.ids \cup {pending.id}
      BY <2>1
    <2>3. \A i \in s.ids : i \in Nat /\ i <= k + 1 /\ (i = pending.id \/ Dead(i, cs \cup {n}, ch))
      BY <1>1, <1>2, <2>1, <2>2 DEF RepeatFits, Dead
    <2> QED BY <1>1, <1>2, <2>1, <2>3 DEF RepeatFits
  <1>3. CASE ~(p.pending # None /\ p.pending.sig = sig)
    <2>1. pending = [sig |-> sig, id |-> k + 1]
      BY <1>3
    <2>2. pending.sig = sig /\ pending.id = k + 1
      BY <2>1
    <2>3. \A i \in s.ids \ {pending.id} : i \in Nat /\ i <= k /\ Dead(i, cs, ch)
      BY <1>1, <1>3 DEF RepeatFits
    <2>4. \A i \in s.ids : i \in Nat /\ i <= k + 1 /\ (i = pending.id \/ Dead(i, cs \cup {n}, ch))
      BY <1>1, <2>2, <2>3 DEF Dead
    <2>5. pending # None
      BY AskedId
    <2> QED BY <1>1, <2>2, <2>4, <2>5 DEF RepeatFits
  <1> QED BY <1>2, <1>3

LEMMA StepSubmit ==
  ASSUME AsstInv, NEW q \in Questions, Asst!Submit(q)
  PROVE  AsstInv'
  <1>1. UNCHANGED <<stored, wallet, charged>>
    BY DEF Asst!Submit
  <1>2. stored' \in Students \cup {None}
    BY <1>1 DEF AsstInv
  <1>3. AsstFits(page, calls, run, asked, wallet, charged)
    BY DEF AsstInv
  <1>4. CASE page.mine # stored
    <2>1. page' = Asst!Sync(page) /\ run' = Asst!NoRun /\ calls' = calls /\ asked' = asked
      BY <1>4 DEF Asst!Submit
    <2>2. AsstFits(Asst!Sync(page), calls, Asst!NoRun, asked, wallet, charged)
      BY <1>3, SyncFits DEF AsstInv
    <2> QED BY <1>1, <1>2, <2>1, <2>2, AsstTogether
  <1>5. CASE page.mine = stored
    <2>0. PICK yes : yes = TRUE
      OBVIOUS
    <2> DEFINE sig == Asst!Signature(q)
               pending == IF page.mine = None THEN None ELSE Asst!PendingFor(sig)
               id == IF pending = None THEN None ELSE pending.id
               a == [page EXCEPT !.op = @ + 1]
               b == [a EXCEPT !.bal = @ + 1]
               e == [b EXCEPT !.busy = yes]
               p == [e EXCEPT !.pending = pending]
               n == Asst!Call(p, "ask", p.op, sig, id)
    <2>1. /\ page' = p /\ calls' = calls \cup {n} /\ asked' = asked + 1
          /\ run' = IF id = None THEN Asst!NoRun ELSE [sig |-> sig, ids |-> (IF run.sig = sig THEN run.ids ELSE {}) \cup {id}]
      BY <1>5, <2>0 DEF Asst!Submit
    <2>2. WindowFits(page, wallet) /\ IsWindow(page) /\ asked \in Nat
      BY <1>3 DEF AsstFits, WindowFits
    <2>3. sig \in Questions \X {"chat", "image"} \X BOOLEAN
      <3>1. (page.attachment # None) \in BOOLEAN /\ page.mode \in {"chat", "image"}
        BY <2>2 DEF WindowFits
      <3> QED BY <3>1 DEF Asst!Signature
    <2>4. page.mine # None => pending = (IF page.pending # None /\ page.pending.sig = sig THEN page.pending
                                         ELSE [sig |-> sig, id |-> asked + 1])
      BY DEF Asst!PendingFor
    <2>5. page.mine = None => pending = None
      OBVIOUS
    <2> HIDE DEF sig, pending
    <2>6. a = Window(page.mine, page.rev, page.op + 1, page.opening, page.bal, page.busy, page.available, page.mode,
                     page.pending, page.talk, page.attachment, page.balance, page.answered)
      BY <2>2 DEF IsWindow, Window
    <2> HIDE DEF a
    <2>7. b = Window(page.mine, page.rev, page.op + 1, page.opening, page.bal + 1, page.busy, page.available, page.mode,
                     page.pending, page.talk, page.attachment, page.balance, page.answered)
      BY <2>6 DEF Window
    <2> HIDE DEF b
    <2>8. e = Window(page.mine, page.rev, page.op + 1, page.opening, page.bal + 1, yes, page.available, page.mode,
                     page.pending, page.talk, page.attachment, page.balance, page.answered)
      BY <2>7 DEF Window
    <2> HIDE DEF e
    <2>9. p = Window(page.mine, page.rev, page.op + 1, page.opening, page.bal + 1, yes, page.available, page.mode,
                     pending, page.talk, page.attachment, page.balance, page.answered)
      BY <2>8 DEF Window
    <2> HIDE DEF p
    <2>10. /\ p.mine = page.mine /\ p.rev = page.rev /\ p.op = page.op + 1 /\ p.bal = page.bal + 1 /\ p.busy
           /\ p.answered = page.answered /\ p.pending = pending /\ WindowFits(p, wallet)
      BY <2>0, <2>2, <2>9 DEF WindowFits, IsWindow, Window
    <2>11. n = Request("ask", p.mine, p.rev, p.op, p.bal, sig, id, None, FALSE)
      BY DEF Asst!Call, Request
    <2>12. id = IF pending = None THEN None ELSE pending.id
      OBVIOUS
    <2> HIDE DEF n, id
    <2>13. /\ IsRequest(n) /\ n.do = "ask" /\ n.owner = p.mine /\ n.rev = p.rev /\ n.n = p.op /\ n.bal = p.bal /\ n.id = id
           /\ n.answer = None /\ ~n.gone
      BY <2>11 DEF IsRequest, Request
    <2>14. /\ RepeatFits(p, calls \cup {n}, run', asked + 1, charged)
           /\ page.mine = None => id = None
           /\ page.mine # None => id \in Nat /\ pending # None /\ id = pending.id
      <3>1. CASE page.mine = None
        <4>1. id = None /\ p.pending = None /\ run' = Asst!NoRun
          BY <2>1, <2>5, <2>10, <2>12, <3>1
        <4> QED BY <3>1, <4>1 DEF RepeatFits, Asst!NoRun
      <3>2. CASE page.mine # None
        <4> DEFINE s == [sig |-> sig, ids |-> (IF run.sig = sig THEN run.ids ELSE {}) \cup {pending.id}]
        <4>1. s.sig = sig /\ s.ids = (IF run.sig = sig THEN run.ids ELSE {}) \cup {pending.id}
          OBVIOUS
        <4> HIDE DEF s
        <4>2. pending # None /\ pending.id \in Nat
          BY <1>3, <2>3, <2>4, <3>2, AskedId
        <4>3. id = pending.id
          BY <2>12, <4>2
        <4>4. RepeatFits(p, calls \cup {n}, s, asked + 1, charged)
          BY <1>3, <2>3, <2>4, <2>10, <2>13, <3>2, <4>1, <4>3, AskedRuns
        <4>5. run' = s
          BY <2>1, <4>2, <4>3, NoneIsNoRequest DEF s
        <4> QED BY <3>2, <4>2, <4>3, <4>4, <4>5
      <3> QED BY <3>1, <3>2
    <2>15. RequestFits(n, p, wallet)
      BY <2>10, <2>13, <2>14 DEF RequestFits, WindowFits
    <2>16. Awaited(p, n)
      BY <2>13 DEF Awaited, Doing, Asst!CurrentOperation, Asst!SameSession
    <2>17. /\ \A c \in calls \cup {n} : RequestFits(c, p, wallet)
           /\ Apart(calls \cup {n}) /\ RefusalsFit(p, calls \cup {n}, charged) /\ \E c \in calls \cup {n} : Awaited(p, c)
      BY <1>3, <2>10, <2>13, <2>15, <2>16, Begun
    <2>18. AsstFits(p, calls \cup {n}, run', asked + 1, wallet, charged)
      BY <1>3, <2>2, <2>10, <2>14, <2>17 DEF AsstFits
    <2> QED BY <1>1, <1>2, <2>1, <2>18, AsstTogether
  <1> QED BY <1>4, <1>5

\* The server's balances only grow.
LEMMA StepServeAsk ==
  ASSUME AsstInv, NEW kind \in {"ok", "refused"}, Asst!ServeAsk(kind)
  PROVE  AsstInv'
  <1> DEFINE at(c) == IF c.owner = None THEN 0 ELSE wallet'[c.owner]
             reply(c) == [c EXCEPT !.answer = [kind |-> kind, at |-> at(c)]]
  <1>1. PICK c \in calls :
          /\ c.do = "ask" /\ c.answer = None
          /\ kind = "refused" /\ c.id # None => c.id \notin charged /\ ~\E o \in calls : o.id = c.id /\ o # c
          /\ \/ kind = "ok" /\ c.id # None /\ charged' = charged \cup {c.id} /\ wallet' = [wallet EXCEPT ![c.owner] = @ + 1]
             \/ charged' = charged /\ wallet' = wallet
          /\ calls' = IF c.gone THEN calls \ {c} ELSE (calls \ {c}) \cup {reply(c)}
          /\ UNCHANGED <<stored, page, run, asked>>
    BY DEF Asst!ServeAsk
  <1>2. AsstFits(page, calls, run, asked, wallet, charged)
    BY DEF AsstInv
  <1>3. RequestFits(c, page, wallet) /\ WindowFits(page, wallet) /\ wallet \in [Students -> Nat]
    BY <1>2 DEF AsstFits
  <1>4. wallet' \in [Students -> Nat] /\ \A u \in Students : wallet'[u] >= wallet[u]
    <2>1. CASE charged' = charged /\ wallet' = wallet
      BY <1>3, <2>1
    <2>2. CASE c.id # None /\ wallet' = [wallet EXCEPT ![c.owner] = @ + 1]
      <3>1. c.owner \in Students
        BY <1>1, <1>3, <2>2 DEF RequestFits
      <3> QED BY <1>3, <2>2, <3>1
    <2> QED BY <1>1, <2>1, <2>2
  <1>5. WindowFits(page, wallet')
    <2>1. page.mine # None => page.answered <= wallet'[page.mine]
      BY <1>3, <1>4 DEF WindowFits
    <2> QED BY <1>3, <2>1 DEF WindowFits
  <1>6. ASSUME NEW d \in calls PROVE RequestFits(d, page, wallet')
    <2>1. RequestFits(d, page, wallet)
      BY <1>2 DEF AsstFits
    <2>2. d.do = "ask" /\ d.answer # None /\ d.owner # None => d.answer.at <= wallet'[d.owner]
      BY <1>3, <1>4, <2>1 DEF RequestFits
    <2> QED BY <2>1, <2>2 DEF RequestFits
  <1>7. charged' \subseteq charged \cup {c.id} /\ (kind # "ok" \/ c.id = None => charged' = charged)
    BY <1>1
  <1>8. ASSUME NEW d \in calls \ {c}, d.do = "ask", d.answer # None, d.id # None, Awaited(page, d), d.answer.kind = "refused"
        PROVE  d.id \notin charged' /\ d.id # c.id /\ \A o \in calls : o.id = d.id => o = d
    <2>1. d.id \notin charged /\ \A o \in calls : o.id = d.id => o = d
      BY <1>2, <1>8 DEF AsstFits, RefusalsFit
    <2> QED BY <1>7, <1>8, <2>1
  <1>9. RepeatFits(page, calls, run, asked, charged')
    BY <1>2, <1>7 DEF AsstFits, RepeatFits, Dead
  <1>10. stored' \in Students \cup {None}
    BY <1>1 DEF AsstInv
  <1>11. CASE c.gone
    <2>1. calls' = calls \ {c} /\ ~Awaited(page, c)
      BY <1>1, <1>11 DEF Awaited
    <2>2. Apart(calls \ {c})
      BY <1>2 DEF AsstFits, Apart
    <2>3. RefusalsFit(page, calls \ {c}, charged')
      BY <1>8 DEF RefusalsFit
    <2>4. RepeatFits(page, calls \ {c}, run, asked, charged')
      BY <1>9 DEF RepeatFits, Dead
    <2>5. page.busy => \E d \in calls \ {c} : Awaited(page, d)
      BY <1>2, <2>1 DEF AsstFits
    <2>6. AsstFits(page, calls', run, asked, wallet', charged')
      BY <1>2, <1>4, <1>5, <1>6, <2>1, <2>2, <2>3, <2>4, <2>5 DEF AsstFits
    <2> QED BY <1>1, <1>10, <2>6, AsstTogether
  <1>12. CASE ~c.gone
    <2> DEFINE x == at(c)
               v == [kind |-> kind, at |-> x]
               n == [c EXCEPT !.answer = v]
    <2>1. calls' = (calls \ {c}) \cup {n}
      BY <1>1, <1>12
    <2>2. x \in Nat /\ (c.owner # None => x <= wallet'[c.owner])
      BY <1>3, <1>4 DEF RequestFits
    <2> HIDE DEF x
    <2>3. v.kind = kind /\ v.at = x
      OBVIOUS
    <2> HIDE DEF v
    <2>4. n = Request(c.do, c.owner, c.rev, c.n, c.bal, c.sig, c.id, v, c.gone)
      BY <1>3 DEF RequestFits, IsRequest, Request
    <2> HIDE DEF n
    <2>5. /\ IsRequest(n) /\ n.do = c.do /\ n.owner = c.owner /\ n.rev = c.rev /\ n.n = c.n /\ n.bal = c.bal /\ n.id = c.id
          /\ n.answer = v /\ n.gone = c.gone
      BY <2>4 DEF IsRequest, Request
    <2>6. Awaited(page, n) <=> Awaited(page, c)
      BY <2>5 DEF Awaited, Doing, Asst!CurrentOperation, Asst!SameSession
    <2>7. RequestFits(n, page, wallet')
      BY <1>1, <1>6, <2>2, <2>3, <2>5, <2>6 DEF RequestFits, Doing
    <2>8. Apart((calls \ {c}) \cup {n})
      BY <1>1, <1>2, <2>5 DEF AsstFits, Apart, Doing
    <2>9. RefusalsFit(page, (calls \ {c}) \cup {n}, charged')
      <3>1. n.id # None /\ kind = "refused" => n.id \notin charged' /\ \A o \in calls \ {c} : o.id # n.id
        BY <1>1, <1>7, <2>5
      <3>2. ASSUME NEW d \in calls \ {c}, d.do = "ask", d.answer # None, d.id # None, Awaited(page, d), d.answer.kind = "refused"
            PROVE  d.id \notin charged' /\ \A o \in (calls \ {c}) \cup {n} : o.id = d.id => o = d
        BY <1>8, <2>5, <3>2
      <3> QED BY <2>3, <2>5, <3>1, <3>2 DEF RefusalsFit
    <2>10. RepeatFits(page, (calls \ {c}) \cup {n}, run, asked, charged')
      BY <1>9, <2>5 DEF RepeatFits, Dead
    <2>11. page.busy => \E d \in (calls \ {c}) \cup {n} : Awaited(page, d)
      BY <1>2, <2>6 DEF AsstFits
    <2>12. AsstFits(page, calls', run, asked, wallet', charged')
      BY <1>2, <1>4, <1>5, <1>6, <2>1, <2>7, <2>8, <2>9, <2>10, <2>11 DEF AsstFits
    <2> QED BY <1>1, <1>10, <2>12, AsstTogether
  <1> QED BY <1>11, <1>12

\* A question is answered: what it cost is known, and its id is done with.
LEMMA StepAskReply ==
  ASSUME AsstInv, Asst!AskReply
  PROVE  AsstInv'
  <1> DEFINE p == Asst!Noticed(page)
             balance(c) == IF c.owner = None THEN p.balance ELSE [owner |-> c.owner, at |-> c.answer.at]
  <1>1. PICK c \in calls :
          /\ c.do = "ask" /\ ~c.gone /\ c.answer # None
          /\ page' = IF ~Asst!CurrentOperation(p, c) THEN p
                     ELSE IF c.answer.kind = "ok"
                     THEN [p EXCEPT !.busy = FALSE, !.pending = None, !.talk = @ \cup {c.owner}, !.attachment = None,
                                    !.bal = @ + 1, !.answered = c.answer.at,
                                    !.balance = IF c.owner = None THEN @ ELSE [owner |-> c.owner, at |-> c.answer.at]]
                     ELSE [p EXCEPT !.busy = FALSE, !.pending = None]
          /\ run' = IF page.mine # stored \/ (Asst!CurrentOperation(p, c) /\ c.answer.kind = "ok") THEN Asst!NoRun ELSE run
          /\ calls' = calls \ {c} /\ UNCHANGED <<stored, asked, wallet, charged>>
    BY DEF Asst!AskReply
  <1>2. AsstFits(p, calls, NoticedRun, asked, wallet, charged)
    BY NoticedFits
  <1>3. WindowFits(p, wallet) /\ RequestFits(c, p, wallet) /\ IsWindow(p)
    BY <1>2 DEF AsstFits, WindowFits
  <1>4. stored' \in Students \cup {None}
    BY <1>1 DEF AsstInv
  <1>5. CASE ~Asst!CurrentOperation(p, c)
    <2>1. AsstFits(p, calls \ {c}, NoticedRun, asked, wallet, charged)
      BY <1>2, <1>5, AsstFewer DEF Awaited
    <2>2. page' = p /\ run' = NoticedRun
      BY <1>1, <1>5 DEF NoticedRun
    <2> QED BY <1>1, <1>4, <2>1, <2>2, AsstTogether
  <1>6. CASE Asst!CurrentOperation(p, c)
    <2>0. PICK no : no = FALSE
      OBVIOUS
    <2>1. Awaited(p, c) /\ c.owner = p.mine
      BY <1>1, <1>6 DEF Awaited, Doing, Asst!CurrentOperation, Asst!SameSession
    <2>2. CASE c.answer.kind = "ok"
      <3>0. PICK t : t = p.talk \cup {c.owner}
        OBVIOUS
      <3> DEFINE at == c.answer.at
                 bal == balance(c)
                 a == [p EXCEPT !.busy = no]
                 b == [a EXCEPT !.pending = None]
                 d == [b EXCEPT !.talk = t]
                 e == [d EXCEPT !.attachment = None]
                 f == [e EXCEPT !.bal = @ + 1]
                 g == [f EXCEPT !.answered = at]
                 q == [g EXCEPT !.balance = IF c.owner = None THEN @ ELSE [owner |-> c.owner, at |-> c.answer.at]]
      <3>1. page' = q /\ run' = Asst!NoRun
        BY <1>1, <1>6, <2>0, <2>2, <3>0
      <3>2. at \in Nat /\ (c.owner # None => at <= wallet[c.owner])
        BY <1>1, <1>3 DEF RequestFits
      <3>3. bal # None => p.mine # None /\ bal.owner = p.mine /\ bal.at \in Nat /\ bal.at >= at
        <4>1. CASE c.owner = None
          BY <1>3, <2>1, <4>1 DEF WindowFits
        <4>2. CASE c.owner # None
          BY <2>1, <3>2, <4>2
        <4> QED BY <4>1, <4>2
      <3> HIDE DEF p
      <3>4. a = Window(p.mine, p.rev, p.op, p.opening, p.bal, no, p.available, p.mode, p.pending, p.talk, p.attachment,
                       p.balance, p.answered)
        BY <1>3 DEF IsWindow, Window
      <3> HIDE DEF a
      <3>5. b = Window(p.mine, p.rev, p.op, p.opening, p.bal, no, p.available, p.mode, None, p.talk, p.attachment,
                       p.balance, p.answered)
        BY <3>4 DEF Window
      <3> HIDE DEF b
      <3>6. d = Window(p.mine, p.rev, p.op, p.opening, p.bal, no, p.available, p.mode, None, t, p.attachment,
                       p.balance, p.answered)
        BY <3>5 DEF Window
      <3> HIDE DEF d
      <3>7. e = Window(p.mine, p.rev, p.op, p.opening, p.bal, no, p.available, p.mode, None, t, None,
                       p.balance, p.answered)
        BY <3>6 DEF Window
      <3> HIDE DEF e
      <3>8. f = Window(p.mine, p.rev, p.op, p.opening, p.bal + 1, no, p.available, p.mode, None, t, None,
                       p.balance, p.answered)
        BY <3>7 DEF Window
      <3> HIDE DEF f, at
      <3>9. g = Window(p.mine, p.rev, p.op, p.opening, p.bal + 1, no, p.available, p.mode, None, t, None,
                       p.balance, at)
        BY <3>8 DEF Window
      <3>10. g.balance = p.balance
        BY <3>9 DEF Window
      <3>11. q = [g EXCEPT !.balance = bal]
        BY <3>10
      <3> HIDE DEF g, bal, q
      <3>12. q = Window(p.mine, p.rev, p.op, p.opening, p.bal + 1, no, p.available, p.mode, None, t, None,
                        bal, at)
        BY <3>9, <3>11 DEF Window
      <3>13. /\ q.mine = p.mine /\ q.rev = p.rev /\ q.op = p.op /\ q.bal = p.bal + 1 /\ ~q.busy /\ q.pending = None
             /\ IsWindow(q) /\ q.mode = p.mode /\ q.talk = t /\ q.attachment = None /\ q.balance = bal
             /\ q.answered = at
        BY <2>0, <3>12 DEF IsWindow, Window
      <3>14. WindowFits(q, wallet)
        BY <1>3, <2>1, <3>0, <3>2, <3>3, <3>13 DEF WindowFits
      <3>15. RepeatFits(q, calls \ {c}, Asst!NoRun, asked, charged)
        BY <3>13 DEF RepeatFits, Asst!NoRun
      <3>16. AsstFits(q, calls \ {c}, Asst!NoRun, asked, wallet, charged)
        BY <1>2, <2>1, <3>13, <3>14, <3>15, Ended
      <3> QED BY <1>1, <1>4, <3>1, <3>16, AsstTogether
    <2>3. CASE c.answer.kind # "ok"
      <3> HIDE DEF p
      <3> DEFINE a == [p EXCEPT !.busy = no]
                 q == [a EXCEPT !.pending = None]
      <3>1. page' = q /\ run' = NoticedRun
        BY <1>1, <1>6, <2>0, <2>3 DEF NoticedRun
      <3>2. a = Window(p.mine, p.rev, p.op, p.opening, p.bal, no, p.available, p.mode, p.pending, p.talk, p.attachment,
                       p.balance, p.answered)
        BY <1>3 DEF IsWindow, Window
      <3> HIDE DEF a
      <3>3. q = Window(p.mine, p.rev, p.op, p.opening, p.bal, no, p.available, p.mode, None, p.talk, p.attachment,
                       p.balance, p.answered)
        BY <3>2 DEF Window
      <3> HIDE DEF q
      <3>4. /\ q.mine = p.mine /\ q.rev = p.rev /\ q.op = p.op /\ q.bal = p.bal /\ ~q.busy /\ q.pending = None
            /\ q.answered = p.answered /\ WindowFits(q, wallet)
        BY <1>3, <2>0, <3>3 DEF WindowFits, IsWindow, Window
      <3>5. \A i \in NoticedRun.ids : i \in Nat /\ i <= asked /\ Dead(i, calls \ {c}, charged)
        <4>1. RepeatFits(p, calls, NoticedRun, asked, charged) /\ RefusalsFit(p, calls, charged)
          BY <1>2 DEF AsstFits
        <4>2. CASE c.id = None
          <5>1. p.pending = None
            BY <1>1, <1>3, <2>1, <4>1, <4>2, NoneIsNoRequest DEF RequestFits, RepeatFits
          <5> QED BY <4>1, <5>1 DEF RepeatFits, Dead
        <4>3. CASE c.id # None
          <5>1. p.pending # None /\ p.pending.id = c.id /\ c.answer.kind = "refused"
            BY <1>1, <1>3, <2>1, <2>3, <4>3 DEF RequestFits
          <5>2. Dead(c.id, calls \ {c}, charged)
            BY <1>1, <2>1, <4>1, <4>3, <5>1 DEF RefusalsFit, Dead
          <5> QED BY <4>1, <5>1, <5>2 DEF RepeatFits, Dead
        <4> QED BY <4>2, <4>3
      <3>6. RepeatFits(q, calls \ {c}, NoticedRun, asked, charged)
        BY <3>4, <3>5 DEF RepeatFits
      <3>7. AsstFits(q, calls \ {c}, NoticedRun, asked, wallet, charged)
        BY <1>2, <2>1, <3>4, <3>6, Ended
      <3> QED BY <1>1, <1>4, <3>1, <3>7, AsstTogether
    <2> QED BY <2>2, <2>3
  <1> QED BY <1>5, <1>6

\* An answer is lost: the question may go on at the server, and its id is kept.
LEMMA StepAskFails ==
  ASSUME AsstInv, NEW kind \in {"lost", "conflict", "gateway"}, Asst!AskFails(kind)
  PROVE  AsstInv'
  <1> DEFINE p == Asst!Noticed(page)
  <1>0. PICK yes, no : yes = TRUE /\ no = FALSE
    OBVIOUS
  <1>1. PICK c \in calls :
          /\ c.do = "ask" /\ ~c.gone
          /\ page' = IF Asst!CurrentOperation(p, c)
                     THEN [p EXCEPT !.busy = FALSE, !.pending = IF Asst!Uncertain(kind) THEN @ ELSE None] ELSE p
          /\ calls' = (calls \ {c}) \cup (IF c.answer = None /\ kind # "conflict" THEN {[c EXCEPT !.gone = TRUE]} ELSE {})
          /\ run' = NoticedRun /\ UNCHANGED <<stored, asked, wallet, charged>>
    BY DEF Asst!AskFails, NoticedRun
  <1>2. AsstFits(p, calls, NoticedRun, asked, wallet, charged)
    BY NoticedFits
  <1> HIDE DEF p
  <1>3. WindowFits(p, wallet) /\ RequestFits(c, p, wallet) /\ IsWindow(p)
    BY <1>2 DEF AsstFits, WindowFits
  <1>4. stored' \in Students \cup {None}
    BY <1>1 DEF AsstInv
  <1>5. /\ AsstFits(page', calls \ {c}, NoticedRun, asked, wallet, charged)
        /\ RepeatFits(page', calls, NoticedRun, asked, charged)
        /\ page'.rev = p.rev /\ page'.op = p.op /\ page'.bal = p.bal /\ page'.mine = p.mine
        /\ \A d \in calls \ {c} : ~(d.do = "ask" /\ d.answer # None /\ d.id # None /\ Awaited(page', d)
                                     /\ d.answer.kind = "refused" /\ d.id = c.id)
    <2>1. CASE ~Asst!CurrentOperation(p, c)
      <3>1. AsstFits(p, calls \ {c}, NoticedRun, asked, wallet, charged)
        BY <1>2, <2>1, AsstFewer DEF Awaited
      <3>2. page' = p
        BY <1>1, <2>1
      <3>3. \A d \in calls \ {c} : ~(d.do = "ask" /\ d.answer # None /\ d.id # None /\ Awaited(p, d)
                                     /\ d.answer.kind = "refused" /\ d.id = c.id)
        BY <1>2 DEF AsstFits, RefusalsFit
      <3>4. RepeatFits(p, calls, NoticedRun, asked, charged)
        BY <1>2 DEF AsstFits
      <3> QED BY <3>1, <3>2, <3>3, <3>4
    <2>2. CASE Asst!CurrentOperation(p, c)
      <3> DEFINE q == [p EXCEPT !.busy = no]
      <3>1. q = Window(p.mine, p.rev, p.op, p.opening, p.bal, no, p.available, p.mode, p.pending, p.talk, p.attachment,
                       p.balance, p.answered)
        BY <1>3 DEF IsWindow, Window
      <3>2. page' = [q EXCEPT !.pending = p.pending]
        BY <1>0, <1>1, <2>2 DEF Asst!Uncertain
      <3> HIDE DEF q
      <3>3. page' = Window(p.mine, p.rev, p.op, p.opening, p.bal, no, p.available, p.mode, p.pending, p.talk, p.attachment,
                           p.balance, p.answered)
        BY <3>1, <3>2 DEF Window
      <3>4. /\ page'.mine = p.mine /\ page'.rev = p.rev /\ page'.op = p.op /\ page'.bal = p.bal /\ ~page'.busy
            /\ page'.pending = p.pending /\ page'.answered = p.answered /\ WindowFits(page', wallet)
        BY <1>0, <1>3, <3>3 DEF WindowFits, IsWindow, Window
      <3>5. Awaited(p, c)
        BY <1>1, <2>2 DEF Awaited, Doing
      <3>6. RepeatFits(page', calls, NoticedRun, asked, charged)
        BY <1>2, <3>4 DEF AsstFits, RepeatFits
      <3>7. RepeatFits(page', calls \ {c}, NoticedRun, asked, charged)
        BY <3>6 DEF RepeatFits, Dead
      <3>8. AsstFits(page', calls \ {c}, NoticedRun, asked, wallet, charged)
        BY <1>2, <3>4, <3>5, <3>7, Ended
      <3>9. \A d \in calls \ {c} : ~Awaited(page', d)
        BY <3>4, <3>8, FreeWindow
      <3> QED BY <3>4, <3>6, <3>8, <3>9
    <2> QED BY <2>1, <2>2
  <1>6. CASE ~(c.answer = None /\ kind # "conflict")
    <2>1. calls' = (calls \ {c}) \cup {}
      BY <1>1, <1>6
    <2>2. calls' = calls \ {c}
      BY <2>1
    <2> QED BY <1>1, <1>4, <1>5, <2>2, AsstTogether
  <1>7. CASE c.answer = None /\ kind # "conflict"
    <2> DEFINE n == [c EXCEPT !.gone = yes]
    <2>1. calls' = (calls \ {c}) \cup {n}
      BY <1>0, <1>1, <1>7
    <2>2. n = Request(c.do, c.owner, c.rev, c.n, c.bal, c.sig, c.id, c.answer, yes)
      BY <1>3 DEF RequestFits, IsRequest, Request
    <2> HIDE DEF n
    <2>3. /\ IsRequest(n) /\ n.do = c.do /\ n.owner = c.owner /\ n.rev = c.rev /\ n.n = c.n /\ n.bal = c.bal /\ n.id = c.id
          /\ n.answer = c.answer /\ n.gone
      BY <1>0, <2>2 DEF IsRequest, Request
    <2>4. ~Awaited(page', n) /\ Doing(c) /\ Doing(n)
      BY <1>1, <2>3 DEF Awaited, Doing
    <2>5. RequestFits(n, page', wallet)
      BY <1>1, <1>3, <1>5, <1>7, <2>3, <2>4 DEF RequestFits, Doing
    <2>6. Apart(calls)
      BY <1>2 DEF AsstFits
    <2>7. AsstFits(page', (calls \ {c}) \cup {n}, NoticedRun, asked, wallet, charged)
      BY <1>5, <2>3, <2>4, <2>5, <2>6, LeftBehind
    <2> QED BY <1>1, <1>4, <2>1, <2>7, AsstTogether
  <1> QED BY <1>6, <1>7

LEMMA AsstInitially ==
  ASSUME Asst!Init
  PROVE  AsstInv
  <1>1. /\ stored \in {None} \cup Students /\ calls = {} /\ asked = 0 /\ run = Asst!NoRun /\ charged = {}
        /\ wallet = [u \in Students |-> 0]
        /\ page = Window(stored, 0, 0, 0, 0, FALSE, FALSE, "chat", None, {}, None, None, 0)
    BY DEF Asst!Init, Window
  <1>2. /\ IsWindow(page) /\ page.mine = stored /\ page.rev = 0 /\ page.op = 0 /\ page.bal = 0 /\ page.busy = FALSE
        /\ page.mode = "chat" /\ page.pending = None /\ page.talk = {} /\ page.attachment = None /\ page.balance = None
        /\ page.answered = 0
    BY <1>1 DEF IsWindow, Window
  <1>3. WindowFits(page, wallet)
    <2>1. page.mine \in Students \cup {None} /\ (page.mine # None => wallet[page.mine] = 0)
      BY <1>1, <1>2
    <2> QED BY <1>2, <2>1 DEF WindowFits
  <1>4. RepeatFits(page, calls, run, asked, charged)
    BY <1>1, <1>2 DEF RepeatFits, Asst!NoRun
  <1> QED BY <1>1, <1>2, <1>3, <1>4 DEF AsstInv, AsstFits, Apart, RefusalsFit

LEMMA AsstStutter ==
  ASSUME AsstInv, UNCHANGED asstVars
  PROVE  AsstInv'
  <1>1. UNCHANGED <<stored, page, calls, run, asked, wallet, charged>>
    BY DEF asstVars
  <1> QED BY <1>1, AsstTogether DEF AsstInv

LEMMA AsstStep ==
  ASSUME AsstInv, Asst!Next
  PROVE  AsstInv'
  <1>1. CASE \/ Asst!StorageEvent \/ Asst!Open \/ Asst!ServeWallet \/ Asst!WalletReply \/ Asst!OpeningFails
             \/ \E tok \in Students \cup {None} : Asst!OtherTab(tok)
             \/ \E a, i \in BOOLEAN : Asst!CatalogReply(a, i)
    BY <1>1, StepStorageEvent, StepOpenWindow, StepServeWallet, StepWalletReply, StepOpeningFails, StepOtherTab, StepCatalog
  <1>2. CASE \/ Asst!Clear \/ Asst!Attach
             \/ \E m \in {"chat", "image"} : Asst!PickMode(m)
             \/ \E ok \in BOOLEAN : Asst!PrepareDone(ok)
    BY <1>2, StepClear, StepAttach, StepPickMode, StepPrepareDone
  <1>3. CASE \/ Asst!AskReply
             \/ \E q \in Questions : Asst!Submit(q)
             \/ \E kind \in {"ok", "refused"} : Asst!ServeAsk(kind)
             \/ \E kind \in {"lost", "conflict", "gateway"} : Asst!AskFails(kind)
    BY <1>3, StepAskReply, StepSubmit, StepServeAsk, StepAskFails
  <1> QED BY <1>1, <1>2, <1>3 DEF Asst!Next

\* What assistant.js shows belongs to the session the window works for, a
\* question repeated until it is answered is charged at most once, the balance
\* shown is no older than the last answer, and the window is busy only while an
\* operation of its own is under way: for any users and questions, and however
\* often the session changes and requests fail or arrive late.
THEOREM AnswersStayInOrder == Spec => []AssistantInOrder
  <1> DEFINE Inv == part = "assistant" => AsstInv
  <1>1. Init => Inv
    BY AsstInitially DEF Init
  <1>2. Inv /\ [Next]_vars => Inv'
    <2>1. CASE part = "assistant" /\ Asst!Next /\ part' = part
      BY <2>1, AsstStep
    <2>2. CASE UNCHANGED <<part, asstVars>>
      BY <2>2, AsstStutter
    <2>3. [Next]_vars => (part = "assistant" /\ Asst!Next /\ part' = part) \/ UNCHANGED <<part, asstVars>>
      BY DEF Next, vars
    <2> HIDE DEF Inv
    <2> QED BY <2>1, <2>2, <2>3 DEF Inv
  <1>3. Inv => AssistantInOrder
    <2> SUFFICES ASSUME AsstInv PROVE Asst!AssistantInOrder
      BY DEF AssistantInOrder
    <2>1. AsstFits(page, calls, run, asked, wallet, charged)
      BY DEF AsstInv
    <2>2. /\ page.talk \subseteq {page.mine}
          /\ page.attachment \in {None, page.mine}
          /\ page.balance # None => page.balance.owner = page.mine /\ page.balance.at >= page.answered
          /\ page.busy => \E c \in calls : Asst!CurrentOperation(page, c) /\ ~c.gone
      BY <2>1 DEF AsstFits, WindowFits, Awaited
    <2>3. run.ids \cap charged \subseteq {page.pending.id}
      BY <2>1 DEF AsstFits, RepeatFits, Dead
    <2>4. Cardinality(run.ids \cap charged) <= 1
      <3>1. IsFiniteSet({page.pending.id}) /\ Cardinality({page.pending.id}) = 1
        BY FS_Singleton
      <3>2. /\ IsFiniteSet(run.ids \cap charged)
            /\ Cardinality(run.ids \cap charged) <= Cardinality({page.pending.id})
        BY <2>3, <3>1, FS_Subset
      <3> QED BY <3>1, <3>2
    <2>5. Asst!Cardinality(run.ids \cap charged) = Cardinality(run.ids \cap charged)
      BY DEF Asst!Cardinality, Cardinality, Asst!IsFiniteSet, IsFiniteSet
    <2> QED BY <2>2, <2>4, <2>5 DEF Asst!AssistantInOrder
  <1> QED BY <1>1, <1>2, <1>3, PTL DEF Spec

-----------------------------------------------------------------------------
(* Study pack *)

PackForm(o, c, fs, n, l) == [on |-> o, count |-> c, formats |-> fs, chosen |-> n, limit |-> l]
IsForm(f) == f = PackForm(f.on, f.count, f.formats, f.chosen, f.limit)
LimitsOf(pl) == [quiz |-> pl.quiz, cards |-> pl.cards]

\* The form is what preset n gives under the limits it was synchronised with.
AsPreset(f, n) ==
  /\ f.on \cap Pack!Presented = Pack!PACK_PRESETS[n].on
  /\ f.count = Pack!AllowedCounts(f.limit, Pack!PACK_PRESETS[n].count)
  /\ f.formats = Pack!PACK_PRESETS[n].formats

\* The form was synchronised with this plan and these languages.
FormFits(f, pl, eq) ==
  /\ IsForm(f) /\ f.limit = LimitsOf(pl)
  /\ \A id \in Pack!Counted : id \in f.on => f.count[id] <= f.limit[id]
  /\ {"transcript", "timestamps"} \subseteq f.on => pl.precise
  /\ {"transcript", "translate"} \subseteq f.on => ~eq

PackInv ==
  /\ plan \in Limits \cup {FreePlan} /\ FormFits(Pack!Form, plan, same)
  /\ kept => chosen \in Pack!Presets /\ AsPreset(Pack!Form, chosen)

LEMMA LargestIsOption ==
  ASSUME NEW S, S # {}, S \subseteq {5, 10, 20, 30} \/ S \subseteq {10, 20, 40, 60}
  PROVE  Pack!Max(S) \in S
  <1>1. \E x \in S : \A y \in S : x >= y
    <2>1. CASE S \subseteq {5, 10, 20, 30}
      <3>1. CASE 30 \in S
        BY <2>1, <3>1
      <3>2. CASE 30 \notin S /\ 20 \in S
        BY <2>1, <3>2
      <3>3. CASE 30 \notin S /\ 20 \notin S /\ 10 \in S
        BY <2>1, <3>3
      <3>4. CASE 30 \notin S /\ 20 \notin S /\ 10 \notin S
        <4>1. 5 \in S
          BY <2>1, <3>4
        <4> QED BY <2>1, <3>4, <4>1
      <3> QED BY <3>1, <3>2, <3>3, <3>4
    <2>2. CASE S \subseteq {10, 20, 40, 60}
      <3>1. CASE 60 \in S
        BY <2>2, <3>1
      <3>2. CASE 60 \notin S /\ 40 \in S
        BY <2>2, <3>2
      <3>3. CASE 60 \notin S /\ 40 \notin S /\ 20 \in S
        BY <2>2, <3>3
      <3>4. CASE 60 \notin S /\ 40 \notin S /\ 20 \notin S
        <4>1. 10 \in S
          BY <2>2, <3>4
        <4> QED BY <2>2, <3>4, <4>1
      <3> QED BY <3>1, <3>2, <3>3, <3>4
    <2> QED BY <2>1, <2>2
  <1> QED BY <1>1 DEF Pack!Max

\* A count that is offered at all is offered within the limit.
LEMMA AllowedWithin ==
  ASSUME NEW id \in Pack!Counted, NEW lim, NEW wanted, ~(Pack!Min(Pack!Options[id]) > lim[id]), lim[id] \in Nat
  PROVE  Pack!AllowedCount(id, lim, wanted) <= lim[id]
  <1> DEFINE O == Pack!Options[id]
             fit == {v \in O : v <= lim[id] /\ v <= wanted}
  <1>1. O = {5, 10, 20, 30} \/ O = {10, 20, 40, 60}
    BY DEF Pack!Options, Pack!Counted
  <1>2. Pack!AllowedCount(id, lim, wanted) = IF fit = {} THEN Pack!Min(O) ELSE Pack!Max(fit)
    BY DEF Pack!AllowedCount
  <1> HIDE DEF O
  <1>3. CASE fit # {}
    <2>1. Pack!Max(fit) \in fit
      <3>1. fit \subseteq {5, 10, 20, 30} \/ fit \subseteq {10, 20, 40, 60}
        BY <1>1
      <3> HIDE DEF fit
      <3> QED BY <1>3, <3>1, LargestIsOption
    <2>2. Pack!Max(fit) <= lim[id]
      BY <2>1
    <2> HIDE DEF fit
    <2> QED BY <1>2, <1>3, <2>2
  <1>4. CASE fit = {}
    <2>1. \E x \in O : \A y \in O : x <= y
      BY <1>1
    <2>2. Pack!Min(O) \in O
      BY <2>1 DEF Pack!Min
    <2>3. Pack!Min(O) \in Nat
      BY <1>1, <2>2
    <2>4. ~(Pack!Min(O) > lim[id])
      BY DEF O
    <2> HIDE DEF fit
    <2> QED BY <1>2, <1>4, <2>3, <2>4
  <1> QED BY <1>3, <1>4

\* syncCountLimits.
LEMMA CountsSynced ==
  ASSUME NEW f, IsForm(f), NEW pl \in Limits \cup {FreePlan}
  PROVE  LET g == Pack!SyncCountLimits(f, pl) IN
         /\ IsForm(g) /\ g.limit = LimitsOf(pl) /\ g.formats = f.formats /\ g.chosen = f.chosen
         /\ g.on \subseteq f.on /\ f.on \ g.on \subseteq Pack!Counted
         /\ \A id \in Pack!Counted : id \in g.on => g.count[id] <= g.limit[id]
         /\ f.chosen \in Pack!Presets /\ AsPreset(f, f.chosen) =>
              g.count = Pack!AllowedCounts(LimitsOf(pl), Pack!PACK_PRESETS[f.chosen].count)
  <1> DEFINE preset == Pack!ActivePreset(f)
             lim == LimitsOf(pl)
             wanted == IF preset # "" THEN Pack!PACK_PRESETS[preset].count ELSE f.count
             counts == Pack!AllowedCounts(lim, wanted)
             o == f.on \ {id \in Pack!Counted : Pack!Min(Pack!Options[id]) > lim[id]}
             g == Pack!SyncCountLimits(f, pl)
  <1>1. g = [f EXCEPT !.limit = lim, !.count = counts, !.on = o]
    BY DEF Pack!SyncCountLimits, LimitsOf
  <1>2. f.chosen \in Pack!Presets /\ AsPreset(f, f.chosen) => preset = f.chosen /\ preset # ""
    BY DEF Pack!ActivePreset, AsPreset, Pack!Presets, Pack!PACK_PRESETS
  <1>3. f.chosen \in Pack!Presets /\ AsPreset(f, f.chosen) =>
          counts = Pack!AllowedCounts(lim, Pack!PACK_PRESETS[f.chosen].count)
    BY <1>2
  <1>4. lim \in [Pack!Counted -> Nat]
    <2>1. pl \in [quiz : Nat, cards : Nat, precise : BOOLEAN]
      BY PlansAreLimits
    <2>2. pl.quiz \in Nat /\ pl.cards \in Nat
      BY <2>1
    <2> QED BY <2>2 DEF LimitsOf, Pack!Counted
  <1>5. \A id \in Pack!Counted : id \in o => counts[id] <= lim[id]
    <2> SUFFICES ASSUME NEW id \in Pack!Counted, id \in o PROVE counts[id] <= lim[id]
      OBVIOUS
    <2>1. counts[id] = Pack!AllowedCount(id, lim, wanted[id])
      BY DEF Pack!AllowedCounts
    <2>2. ~(Pack!Min(Pack!Options[id]) > lim[id]) /\ lim[id] \in Nat
      BY <1>4
    <2> HIDE DEF lim, wanted, counts
    <2> QED BY <2>1, <2>2, AllowedWithin
  <1>6. o \subseteq f.on /\ f.on \ o \subseteq Pack!Counted
    OBVIOUS
  <1> HIDE DEF preset, wanted, counts, o, g, lim
  <1>7. g = PackForm(o, counts, f.formats, f.chosen, lim)
    <2> DEFINE a == [f EXCEPT !.limit = lim]
               b == [a EXCEPT !.count = counts]
    <2>1. a = PackForm(f.on, f.count, f.formats, f.chosen, lim)
      BY DEF IsForm, PackForm
    <2>2. g = [b EXCEPT !.on = o]
      BY <1>1
    <2> HIDE DEF a
    <2>3. b = PackForm(f.on, counts, f.formats, f.chosen, lim)
      BY <2>1 DEF PackForm
    <2> HIDE DEF b
    <2> QED BY <2>2, <2>3 DEF PackForm
  <1>8. g.on = o /\ g.count = counts /\ g.formats = f.formats /\ g.chosen = f.chosen /\ g.limit = lim /\ IsForm(g)
    BY <1>7 DEF PackForm, IsForm
  <1>9. /\ IsForm(g) /\ g.limit = lim /\ g.formats = f.formats /\ g.chosen = f.chosen
        /\ g.on \subseteq f.on /\ f.on \ g.on \subseteq Pack!Counted
        /\ \A id \in Pack!Counted : id \in g.on => g.count[id] <= g.limit[id]
        /\ f.chosen \in Pack!Presets /\ AsPreset(f, f.chosen) =>
             g.count = Pack!AllowedCounts(lim, Pack!PACK_PRESETS[f.chosen].count)
    BY <1>3, <1>5, <1>6, <1>8
  <1> QED BY <1>9 DEF g, lim

\* syncTranslationChoice and syncTranscriptEnhancements only untick boxes.
LEMMA TranslationSynced ==
  ASSUME NEW f, IsForm(f), NEW eq
  PROVE  LET g == Pack!SyncTranslationChoice(f, eq) IN
         /\ IsForm(g) /\ g.count = f.count /\ g.formats = f.formats /\ g.chosen = f.chosen /\ g.limit = f.limit
         /\ g.on \subseteq f.on /\ f.on \ g.on \subseteq {"translate"}
         /\ {"transcript", "translate"} \subseteq g.on => ~eq
  <1> DEFINE o == IF eq \/ "transcript" \notin f.on THEN f.on \ {"translate"} ELSE f.on
             g == Pack!SyncTranslationChoice(f, eq)
  <1>1. g = [f EXCEPT !.on = o]
    BY DEF Pack!SyncTranslationChoice
  <1>2. o \subseteq f.on /\ f.on \ o \subseteq {"translate"} /\ ({"transcript", "translate"} \subseteq o => ~eq)
    OBVIOUS
  <1> HIDE DEF o, g
  <1>3. g = PackForm(o, f.count, f.formats, f.chosen, f.limit)
    BY <1>1 DEF IsForm, PackForm
  <1>4. g.on = o /\ g.count = f.count /\ g.formats = f.formats /\ g.chosen = f.chosen /\ g.limit = f.limit /\ IsForm(g)
    BY <1>3 DEF PackForm, IsForm
  <1> QED BY <1>2, <1>4 DEF g

LEMMA EnhancementsSynced ==
  ASSUME NEW f, IsForm(f), NEW pl
  PROVE  LET g == Pack!SyncTranscriptEnhancements(f, pl) IN
         /\ IsForm(g) /\ g.count = f.count /\ g.formats = f.formats /\ g.chosen = f.chosen /\ g.limit = f.limit
         /\ g.on \subseteq f.on
         /\ {"transcript", "timestamps"} \subseteq g.on => pl.precise
  <1> DEFINE o == IF "transcript" \in f.on /\ pl.precise /\ "timestamps" \in f.on THEN f.on
                  ELSE f.on \ {"timestamps", "speakers"}
             g == Pack!SyncTranscriptEnhancements(f, pl)
  <1>1. g = [f EXCEPT !.on = o]
    BY DEF Pack!SyncTranscriptEnhancements
  <1>2. o \subseteq f.on /\ ({"transcript", "timestamps"} \subseteq o => pl.precise)
    OBVIOUS
  <1> HIDE DEF o, g
  <1>3. g = PackForm(o, f.count, f.formats, f.chosen, f.limit)
    BY <1>1 DEF IsForm, PackForm
  <1>4. g.on = o /\ g.count = f.count /\ g.formats = f.formats /\ g.chosen = f.chosen /\ g.limit = f.limit /\ IsForm(g)
    BY <1>3 DEF PackForm, IsForm
  <1> QED BY <1>2, <1>4 DEF g

\* syncContentChoices: whatever the form was, it keeps to the plan afterwards.
LEMMA ContentSynced ==
  ASSUME NEW f, IsForm(f), NEW pl \in Limits \cup {FreePlan}
  PROVE  LET g == Pack!SyncContentChoices(f, pl) IN
         /\ FormFits(g, pl, same) /\ g.formats = f.formats /\ g.chosen = f.chosen /\ g.on \subseteq f.on
         /\ f.chosen \in Pack!Presets /\ AsPreset(f, f.chosen) /\ Pack!PACK_PRESETS[f.chosen].on \subseteq g.on =>
              AsPreset(g, f.chosen)
  <1> DEFINE a == Pack!SyncCountLimits(f, pl)
             b == Pack!SyncTranslationChoice(a, same)
             c == Pack!SyncTranscriptEnhancements(b, pl)
             g == Pack!SyncContentChoices(f, pl)
  <1>1. g = c
    BY DEF Pack!SyncContentChoices
  <1>2. /\ IsForm(a) /\ a.limit = LimitsOf(pl) /\ a.formats = f.formats /\ a.chosen = f.chosen
        /\ a.on \subseteq f.on
        /\ \A id \in Pack!Counted : id \in a.on => a.count[id] <= a.limit[id]
        /\ f.chosen \in Pack!Presets /\ AsPreset(f, f.chosen) =>
             a.count = Pack!AllowedCounts(LimitsOf(pl), Pack!PACK_PRESETS[f.chosen].count)
    BY CountsSynced
  <1> HIDE DEF a
  <1>3. /\ IsForm(b) /\ b.count = a.count /\ b.formats = a.formats /\ b.chosen = a.chosen /\ b.limit = a.limit
        /\ b.on \subseteq a.on /\ ({"transcript", "translate"} \subseteq b.on => ~same)
    BY <1>2, TranslationSynced
  <1> HIDE DEF b
  <1>4. /\ IsForm(c) /\ c.count = b.count /\ c.formats = b.formats /\ c.chosen = b.chosen /\ c.limit = b.limit
        /\ c.on \subseteq b.on /\ ({"transcript", "timestamps"} \subseteq c.on => pl.precise)
    BY <1>3, EnhancementsSynced
  <1> HIDE DEF c, g
  <1>5. FormFits(c, pl, same)
    BY <1>2, <1>3, <1>4 DEF FormFits
  <1>6. ASSUME f.chosen \in Pack!Presets, AsPreset(f, f.chosen), Pack!PACK_PRESETS[f.chosen].on \subseteq c.on
        PROVE  AsPreset(c, f.chosen)
    <2>1. c.on \subseteq f.on
      BY <1>2, <1>3, <1>4
    <2>2. c.on \cap Pack!Presented = Pack!PACK_PRESETS[f.chosen].on
      BY <1>6, <2>1 DEF AsPreset
    <2>3. c.count = Pack!AllowedCounts(c.limit, Pack!PACK_PRESETS[f.chosen].count)
      BY <1>2, <1>3, <1>4, <1>6
    <2> QED BY <1>2, <1>3, <1>4, <1>6, <2>2, <2>3 DEF AsPreset
  <1>7. c.formats = f.formats /\ c.chosen = f.chosen /\ c.on \subseteq f.on
    BY <1>2, <1>3, <1>4
  <1>8. /\ FormFits(g, pl, same) /\ g.formats = f.formats /\ g.chosen = f.chosen /\ g.on \subseteq f.on
        /\ f.chosen \in Pack!Presets /\ AsPreset(f, f.chosen) /\ Pack!PACK_PRESETS[f.chosen].on \subseteq g.on =>
             AsPreset(g, f.chosen)
    BY <1>1, <1>5, <1>6, <1>7
  <1> QED BY <1>8 DEF g

LEMMA FormIsForm == IsForm(Pack!Form) /\ Pack!Form = PackForm(on, count, formats, chosen, limit)
  BY DEF IsForm, PackForm, Pack!Form

LEMMA FormShown ==
  ASSUME NEW f, IsForm(f), Pack!Shows(f)
  PROVE  Pack!Form' = f /\ chosen' = f.chosen
  BY DEF IsForm, PackForm, Pack!Form, Pack!Shows

\* An edit that is followed by syncContentChoices.
LEMMA PackEdited ==
  ASSUME PackInv, NEW f, IsForm(f), Pack!Shows(Pack!SyncContentChoices(f, plan)), kept' = FALSE, UNCHANGED <<plan, same>>
  PROVE  PackInv'
  <1> DEFINE g == Pack!SyncContentChoices(f, plan)
  <1>1. plan \in Limits \cup {FreePlan}
    BY DEF PackInv
  <1>2. FormFits(g, plan, same)
    BY <1>1, ContentSynced
  <1>3. IsForm(g) /\ Pack!Shows(g)
    BY <1>2 DEF FormFits
  <1> HIDE DEF g
  <1>4. Pack!Form' = g
    BY <1>3, FormShown
  <1>5. FormFits(Pack!Form', plan', same')
    BY <1>2, <1>4
  <1>6. FormFits(Pack!Form, plan, same)'
    BY <1>5 DEF FormFits, IsForm, PackForm, LimitsOf
  <1> QED BY <1>1, <1>6 DEF PackInv

LEMMA PackTogether ==
  ASSUME NEW g, FormFits(g, plan', same'), Pack!Shows(g), plan' \in Limits \cup {FreePlan},
         kept' => g.chosen \in Pack!Presets /\ AsPreset(g, g.chosen)
  PROVE  PackInv'
  <1>1. IsForm(g)
    BY DEF FormFits
  <1>2. Pack!Form' = g /\ chosen' = g.chosen
    BY <1>1, FormShown
  <1>3. FormFits(Pack!Form', plan', same') /\ (kept' => chosen' \in Pack!Presets /\ AsPreset(Pack!Form', chosen'))
    BY <1>2
  <1>4. FormFits(Pack!Form, plan, same)'
    BY <1>3 DEF FormFits, IsForm, PackForm, LimitsOf
  <1>5. kept' => (chosen \in Pack!Presets /\ AsPreset(Pack!Form, chosen))'
    BY <1>3 DEF AsPreset
  <1> QED BY <1>4, <1>5 DEF PackInv

LEMMA StepToggle ==
  ASSUME PackInv, NEW b \in Pack!Boxes, Pack!Toggle(b)
  PROVE  PackInv'
  <1> DEFINE f == Pack!Form
             o == Pack!Flipped(on, b)
             e == [f EXCEPT !.on = o]
  <1>1. IsForm(f) /\ f.on = on /\ f.count = count /\ f.formats = formats /\ f.chosen = chosen /\ f.limit = limit
    BY FormIsForm DEF PackForm
  <1>2. /\ ~Pack!Disabled(b) /\ kept' = (kept /\ b = "translate") /\ UNCHANGED <<plan, same>>
        /\ Pack!Shows(IF b = "translate" THEN e ELSE Pack!SyncContentChoices(e, plan))
    BY <1>1 DEF Pack!Toggle
  <1>3. FormFits(f, plan, same) /\ plan \in Limits \cup {FreePlan} /\ (kept => chosen \in Pack!Presets /\ AsPreset(f, chosen))
    BY DEF PackInv
  <1>4. b = "translate" => ~same
    BY <1>2 DEF Pack!Disabled, Pack!Counted
  <1>5. b = "translate" => o \ {"translate"} = on \ {"translate"}
    BY DEF Pack!Flipped
  <1> HIDE DEF f, o
  <1>6. e = PackForm(o, count, formats, chosen, limit)
    BY <1>1 DEF IsForm, PackForm
  <1> HIDE DEF e
  <1>7. IsForm(e) /\ e.on = o /\ e.count = count /\ e.formats = formats /\ e.chosen = chosen /\ e.limit = limit
    BY <1>6 DEF IsForm, PackForm
  <1>8. CASE b # "translate"
    BY <1>2, <1>7, <1>8, PackEdited
  <1>9. CASE b = "translate"
    <2>1. \A x : x # "translate" => (x \in e.on <=> x \in f.on)
      BY <1>1, <1>5, <1>7, <1>9
    <2>2. FormFits(e, plan, same)
      BY <1>1, <1>3, <1>4, <1>7, <1>9, <2>1 DEF FormFits, Pack!Counted
    <2>3. kept => chosen \in Pack!Presets /\ AsPreset(e, chosen)
      <3>1. e.on \cap Pack!Presented = f.on \cap Pack!Presented
        BY <2>1 DEF Pack!Presented
      <3> QED BY <1>1, <1>3, <1>7, <3>1 DEF AsPreset
    <2> QED BY <1>2, <1>3, <1>7, <1>9, <2>2, <2>3, PackTogether
  <1> QED BY <1>8, <1>9

LEMMA StepEdits ==
  ASSUME PackInv,
         \/ \E x \in {"pdf", "txt"} : Pack!ToggleFormat(x)
         \/ \E id \in Pack!Counted : \E v \in Pack!Options[id] : Pack!PickCount(id, v)
  PROVE  PackInv'
  <1> DEFINE f == Pack!Form
  <1>1. IsForm(f) /\ f.formats = formats /\ f.count = count
    BY FormIsForm DEF PackForm
  <1>2. CASE \E x \in {"pdf", "txt"} : Pack!ToggleFormat(x)
    <2>1. PICK x \in {"pdf", "txt"} : Pack!ToggleFormat(x)
      BY <1>2
    <2> DEFINE fs == Pack!Flipped(formats, x)
               e == [f EXCEPT !.formats = fs]
    <2>2. Pack!Shows(Pack!SyncContentChoices(e, plan)) /\ kept' = FALSE /\ UNCHANGED <<plan, same>>
      BY <1>1, <2>1 DEF Pack!ToggleFormat
    <2> HIDE DEF f, fs
    <2>3. e = PackForm(f.on, f.count, fs, f.chosen, f.limit)
      BY <1>1 DEF IsForm, PackForm
    <2> HIDE DEF e
    <2>4. IsForm(e)
      BY <2>3 DEF IsForm, PackForm
    <2> QED BY <2>2, <2>4, PackEdited
  <1>3. CASE \E id \in Pack!Counted : \E v \in Pack!Options[id] : Pack!PickCount(id, v)
    <2>1. PICK id \in Pack!Counted : \E v \in Pack!Options[id] : Pack!PickCount(id, v)
      BY <1>3
    <2>2. PICK v \in Pack!Options[id] : Pack!PickCount(id, v)
      BY <2>1
    <2> DEFINE cs == [f.count EXCEPT ![id] = v]
               e == [f EXCEPT !.count = cs]
    <2>3. Pack!Shows(Pack!SyncContentChoices(e, plan)) /\ kept' = FALSE /\ UNCHANGED <<plan, same>>
      BY <1>1, <2>2 DEF Pack!PickCount
    <2> HIDE DEF f, cs
    <2>4. e = PackForm(f.on, cs, f.formats, f.chosen, f.limit)
      BY <1>1 DEF IsForm, PackForm
    <2> HIDE DEF e
    <2>5. IsForm(e)
      BY <2>4 DEF IsForm, PackForm
    <2> QED BY <2>3, <2>5, PackEdited
  <1> QED BY <1>2, <1>3

\* applyPackPreset: the preset is chosen before it is cut to the plan.
LEMMA StepPreset ==
  ASSUME PackInv, NEW n \in Pack!Presets, Pack!ApplyPackPreset(n)
  PROVE  PackInv'
  <1> DEFINE p == Pack!PACK_PRESETS[n]
             o == (p.on \cap (Pack!Presented \ (IF plan.precise THEN {} ELSE {"timestamps", "speakers"})))
                  \cup (IF "transcript" \in p.on /\ ~same THEN {"translate"} ELSE {})
             f == PackForm(o, Pack!AllowedCounts(limit, p.count), p.formats, n, limit)
             g == Pack!SyncContentChoices(f, plan)
  <1>1. Pack!Shows(g) /\ kept' = (p.on \subseteq g.on) /\ UNCHANGED <<plan, same>>
    BY DEF Pack!ApplyPackPreset, PackForm
  <1>2. p.on \subseteq Pack!Presented \ {"timestamps", "speakers"}
    BY DEF Pack!PACK_PRESETS, Pack!Presets, Pack!Presented
  <1>3. o \cap Pack!Presented = p.on
    BY <1>2 DEF Pack!Presented
  <1>4. plan \in Limits \cup {FreePlan}
    BY DEF PackInv
  <1> HIDE DEF o
  <1>5. IsForm(f) /\ f.chosen = n /\ f.on = o /\ f.count = Pack!AllowedCounts(limit, p.count) /\ f.formats = p.formats
        /\ f.limit = limit
    BY DEF IsForm, PackForm
  <1>6. AsPreset(f, f.chosen)
    BY <1>3, <1>5 DEF AsPreset
  <1> HIDE DEF f
  <1>7. /\ FormFits(g, plan, same) /\ g.chosen = f.chosen
        /\ f.chosen \in Pack!Presets /\ AsPreset(f, f.chosen) /\ Pack!PACK_PRESETS[f.chosen].on \subseteq g.on =>
             AsPreset(g, f.chosen)
    BY <1>4, <1>5, ContentSynced
  <1> HIDE DEF g
  <1>8. kept' => g.chosen \in Pack!Presets /\ AsPreset(g, g.chosen)
    BY <1>1, <1>5, <1>6, <1>7
  <1> QED BY <1>1, <1>4, <1>7, <1>8, PackTogether

\* renderBillingAccount: the counts follow the new plan.
LEMMA StepAccount ==
  ASSUME PackInv, NEW pl \in Limits \cup {FreePlan}, Pack!AccountArrives(pl)
  PROVE  PackInv'
  <1> DEFINE f == Pack!Form
             g == Pack!SyncContentChoices(f, pl)
  <1>1. /\ Pack!Shows(g) /\ plan' = pl /\ kept' = (kept /\ Pack!PACK_PRESETS[chosen].on \subseteq g.on)
        /\ UNCHANGED same
    BY DEF Pack!AccountArrives
  <1>2. IsForm(f) /\ f.chosen = chosen /\ (kept => chosen \in Pack!Presets /\ AsPreset(f, chosen))
    BY FormIsForm DEF PackInv, PackForm
  <1> HIDE DEF f
  <1>3. /\ FormFits(g, pl, same) /\ g.chosen = f.chosen
        /\ f.chosen \in Pack!Presets /\ AsPreset(f, f.chosen) /\ Pack!PACK_PRESETS[f.chosen].on \subseteq g.on =>
             AsPreset(g, f.chosen)
    BY <1>2, ContentSynced
  <1> HIDE DEF g
  <1>4. kept' => g.chosen \in Pack!Presets /\ AsPreset(g, g.chosen)
    BY <1>1, <1>2, <1>3
  <1> QED BY <1>1, <1>3, <1>4, PackTogether

LEMMA StepLanguages ==
  ASSUME PackInv, NEW eq \in BOOLEAN, Pack!PickLanguages(eq)
  PROVE  PackInv'
  <1> DEFINE f == Pack!Form
             g == Pack!SyncTranslationChoice(f, eq)
  <1>1. Pack!Shows(g) /\ same' = eq /\ UNCHANGED <<plan, kept>>
    BY DEF Pack!PickLanguages
  <1>2. /\ IsForm(f) /\ f.chosen = chosen /\ FormFits(f, plan, same) /\ plan \in Limits \cup {FreePlan}
        /\ kept => chosen \in Pack!Presets /\ AsPreset(f, chosen)
    BY FormIsForm DEF PackInv, PackForm
  <1> HIDE DEF f
  <1>3. /\ IsForm(g) /\ g.count = f.count /\ g.formats = f.formats /\ g.chosen = f.chosen /\ g.limit = f.limit
        /\ g.on \subseteq f.on /\ f.on \ g.on \subseteq {"translate"}
        /\ {"transcript", "translate"} \subseteq g.on => ~eq
    BY <1>2, TranslationSynced
  <1> HIDE DEF g
  <1>4. FormFits(g, plan, eq)
    BY <1>2, <1>3 DEF FormFits
  <1>5. g.on \cap Pack!Presented = f.on \cap Pack!Presented
    BY <1>3 DEF Pack!Presented
  <1>6. kept' => g.chosen \in Pack!Presets /\ AsPreset(g, g.chosen)
    BY <1>1, <1>2, <1>3, <1>5 DEF AsPreset
  <1>7. FormFits(g, plan', same') /\ plan' \in Limits \cup {FreePlan}
    BY <1>1, <1>2, <1>4
  <1> QED BY <1>1, <1>6, <1>7, PackTogether

LEMMA PackInitially ==
  ASSUME Pack!Init
  PROVE  PackInv
  <1> DEFINE f == PackForm(Pack!PACK_PRESETS.balanced.on \cup {"translate"}, Pack!PACK_PRESETS.balanced.count, {"pdf"}, "",
                           [quiz |-> 30, cards |-> 60])
             a == Pack!SyncCountLimits(f, FreePlan)
             g == Pack!SyncTranscriptEnhancements(a, FreePlan)
  <1>1. /\ on = g.on /\ count = g.count /\ formats = g.formats /\ chosen = "" /\ limit = g.limit
        /\ plan = FreePlan /\ same = FALSE /\ kept = FALSE
    BY DEF Pack!Init, PackForm
  <1>2. IsForm(f)
    BY DEF IsForm, PackForm
  <1>3. f.chosen = ""
    BY DEF PackForm
  <1> HIDE DEF f
  <1>4. /\ IsForm(a) /\ a.limit = LimitsOf(FreePlan) /\ a.chosen = f.chosen
        /\ \A id \in Pack!Counted : id \in a.on => a.count[id] <= a.limit[id]
    BY <1>2, CountsSynced
  <1> HIDE DEF a
  <1>5. /\ IsForm(g) /\ g.count = a.count /\ g.chosen = a.chosen /\ g.limit = a.limit /\ g.on \subseteq a.on
        /\ {"transcript", "timestamps"} \subseteq g.on => FreePlan.precise
    BY <1>4, EnhancementsSynced
  <1> HIDE DEF g
  <1>6. Pack!Form = g
    BY <1>1, <1>3, <1>4, <1>5, FormIsForm DEF IsForm
  <1>7. FormFits(g, FreePlan, FALSE)
    BY <1>4, <1>5 DEF FormFits
  <1> QED BY <1>1, <1>6, <1>7 DEF PackInv

LEMMA PackStutter ==
  ASSUME PackInv, UNCHANGED packVars
  PROVE  PackInv'
  <1>1. UNCHANGED <<on, count, formats, chosen, limit, plan, same, kept>>
    BY DEF packVars
  <1>2. Pack!Form' = Pack!Form
    BY <1>1 DEF Pack!Form
  <1>3. FormFits(Pack!Form', plan', same') /\ (kept' => chosen' \in Pack!Presets /\ AsPreset(Pack!Form', chosen'))
    BY <1>1, <1>2 DEF PackInv
  <1>4. FormFits(Pack!Form, plan, same)'
    BY <1>3 DEF FormFits, IsForm, PackForm, LimitsOf
  <1>5. kept' => (chosen \in Pack!Presets /\ AsPreset(Pack!Form, chosen))'
    BY <1>3 DEF AsPreset
  <1> QED BY <1>1, <1>4, <1>5 DEF PackInv

\* Whatever app.js lets a visitor tick, count or choose, and whichever
\* entitlements arrive when, the form asks for nothing beyond the loaded plan,
\* and an unedited preset gives as much as the plan allows: for any plans.
THEOREM PackKeepsToPlan == Spec => []PackAsPlanned
  <1> DEFINE Inv == part = "pack" => PackInv
  <1>1. Init => Inv
    BY PackInitially DEF Init
  <1>2. Inv /\ [Next]_vars => Inv'
    <2>1. CASE part = "pack" /\ Pack!Next /\ part' = part
      <3>1. PackInv /\ Pack!Next => PackInv'
        BY StepToggle, StepEdits, StepPreset, StepAccount, StepLanguages DEF Pack!Next
      <3> QED BY <2>1, <3>1
    <2>2. CASE UNCHANGED <<part, packVars>>
      BY <2>2, PackStutter
    <2>3. [Next]_vars => (part = "pack" /\ Pack!Next /\ part' = part) \/ UNCHANGED <<part, packVars>>
      BY DEF Next, vars
    <2> HIDE DEF Inv
    <2> QED BY <2>1, <2>2, <2>3 DEF Inv
  <1>3. Inv => PackAsPlanned
    <2> SUFFICES ASSUME PackInv PROVE Pack!PackAsPlanned
      BY DEF PackAsPlanned
    <2> DEFINE f == Pack!Form
    <2>1. f.on = on /\ f.count = count /\ f.formats = formats /\ f.chosen = chosen /\ f.limit = limit
      BY FormIsForm DEF PackForm
    <2>2. FormFits(f, plan, same) /\ plan \in Limits \cup {FreePlan} /\ (kept => chosen \in Pack!Presets /\ AsPreset(f, chosen))
      BY DEF PackInv
    <2> HIDE DEF f
    <2>3. \A id \in Pack!Counted : limit[id] = plan[id] /\ plan[id] \in Nat
      <3>1. plan \in [quiz : Nat, cards : Nat, precise : BOOLEAN]
        BY <2>2, PlansAreLimits
      <3>2. limit = [quiz |-> plan.quiz, cards |-> plan.cards]
        BY <2>1, <2>2 DEF FormFits, LimitsOf
      <3> QED BY <3>1, <3>2 DEF Pack!Counted
    <2>4. \A id \in Pack!Counted : Pack!SentCount(id) <= plan[id]
      BY <2>1, <2>2, <2>3 DEF FormFits, Pack!SentCount
    <2>5. Pack!WithinPlan
      BY <2>1, <2>2, <2>4 DEF FormFits, Pack!WithinPlan, Pack!SentTimestamps, Pack!SentTranslation
    <2>6. ASSUME kept PROVE Pack!ActivePreset(Pack!Form) = chosen
      <3>1. chosen \in Pack!Presets /\ AsPreset(f, chosen)
        BY <2>2, <2>6
      <3>2. Pack!ActivePreset(f) = chosen
        BY <2>1, <3>1 DEF Pack!ActivePreset, AsPreset
      <3> QED BY <3>2 DEF f
    <2>7. ASSUME kept PROVE count = Pack!AllowedCounts([quiz |-> plan.quiz, cards |-> plan.cards], Pack!PACK_PRESETS[chosen].count)
      <3>1. AsPreset(f, chosen) /\ f.limit = [quiz |-> plan.quiz, cards |-> plan.cards]
        BY <2>2, <2>7 DEF FormFits, LimitsOf
      <3> QED BY <2>1, <3>1 DEF AsPreset
    <2> QED BY <2>5, <2>6, <2>7 DEF Pack!PackAsPlanned, Pack!PresetFollowsPlan
  <1> QED BY <1>1, <1>2, <1>3, PTL DEF Spec

-----------------------------------------------------------------------------
(* The opened study pack: app.js counts what was answered. *)

\* The shown question is the pack's question q with its options in some order,
\* and its answer's place, if it has one, is where the correct option went.
ShownAs(item, q, order) ==
  /\ order \in View!Orders(Len(q.options))
  /\ item.id = q.id
  /\ Len(item.options) = Len(q.options)
  /\ \A j \in 1 .. Len(q.options) : item.options[j] = q.options[order[j]]
  /\ item.answer_index \in 0 .. Len(q.options) - 1 => order[item.answer_index + 1] = q.answer_index + 1

\* Every shown question is one of the opened pack.
ItemsFit(r, its) ==
  \A i \in DOMAIN its : \E k \in DOMAIN r.quiz :
    \E order \in View!Orders(Len(r.quiz[k].options)) : ShownAs(its[i], r.quiz[k], order)

\* Answers are options of shown questions that have a correct one.
AnswersFit(its, as) ==
  /\ DOMAIN as \subseteq DOMAIN its
  /\ \A i \in DOMAIN as : /\ as[i] \in 0 .. Len(its[i].options) - 1
                          /\ its[i].answer_index \in 0 .. Len(its[i].options) - 1

QuizFits(r, its, as, right, given) ==
  /\ ItemsFit(r, its) /\ AnswersFit(its, as)
  /\ given = View!Cardinality(DOMAIN as)
  /\ right = View!Cardinality(View!Right(its, as))

ViewInv ==
  /\ result \in Results \cup {None} /\ card \in Int
  /\ result # None =>
       /\ QuizFits(result, items, answers, score, answered)
       /\ result.panes # {} => pane \in result.panes
       /\ result.cards > 0 => card < result.cards

\* A question of a pack.
Question == [id : Int, options : Seq(Int), answer_index : Int]

LEMMA LessonShape ==
  ASSUME NEW r \in Results
  PROVE  /\ r # None /\ r.quiz \in Seq(Question) /\ r.cards \in Nat /\ r.panes \subseteq View!Panes
         /\ \A i \in DOMAIN r.quiz : r.quiz[i] \in Question
<1>1. /\ r # None /\ r.quiz \in Seq(Question) /\ r.cards \in Nat /\ r.panes \subseteq View!Panes
  BY ResultsAreLessons, Zenon DEF Question
<1>2. ASSUME NEW s \in Seq(Question) PROVE \A i \in DOMAIN s : s[i] \in Question
  OBVIOUS
<1> QED BY <1>1, <1>2

\* The order in which a pack has its options is an order.
LEMMA OwnOrder ==
  ASSUME NEW n \in Nat
  PROVE  [i \in 1 .. n |-> i] \in View!Orders(n)
BY DEF View!Orders, View!IsInjective

\* A question that is shown as it is.
LEMMA ShownItself ==
  ASSUME NEW q \in Question
  PROVE  \E order \in View!Orders(Len(q.options)) : ShownAs(q, q, order)
<1> DEFINE order == [i \in 1 .. Len(q.options) |-> i]
<1>1. Len(q.options) \in Nat /\ q.answer_index \in Int
  BY DEF Question
<1>2. order \in View!Orders(Len(q.options))
  BY <1>1, OwnOrder
<1>3. ShownAs(q, q, order)
  BY <1>1, <1>2 DEF ShownAs
<1> QED BY <1>2, <1>3

\* shuffledExamQuestions moves the answer's place with the correct option.
LEMMA ShownShuffled ==
  ASSUME NEW q \in Question, NEW order \in View!Orders(Len(q.options))
  PROVE  ShownAs(View!Shuffled(q, order), q, order)
<1> DEFINE n == Len(q.options)
           turned == [i \in DOMAIN order |-> q.options[order[i]]]
           place == IF \E i \in DOMAIN order : order[i] = q.answer_index + 1
                    THEN (CHOOSE i \in DOMAIN order : order[i] = q.answer_index + 1) - 1
                    ELSE -1
<1>1. n \in Nat /\ order \in [1 .. n -> 1 .. n] /\ q.options \in Seq(Int)
  BY DEF Question, View!Orders
<1>2. turned \in Seq(Int) /\ Len(turned) = n /\ \A j \in 1 .. n : turned[j] = q.options[order[j]]
  BY <1>1
<1>3. place \in 0 .. n - 1 => order[place + 1] = q.answer_index + 1
  <2>1. CASE \E i \in DOMAIN order : order[i] = q.answer_index + 1
    <3> DEFINE c == CHOOSE i \in DOMAIN order : order[i] = q.answer_index + 1
    <3>1. c \in DOMAIN order /\ order[c] = q.answer_index + 1
      BY <2>1
    <3>2. place = c - 1 /\ c \in 1 .. n
      BY <1>1, <2>1, <3>1
    <3> HIDE DEF c, place
    <3>3. place + 1 = c
      BY <1>1, <3>2
    <3> QED BY <3>1, <3>3
  <2>2. CASE ~ \E i \in DOMAIN order : order[i] = q.answer_index + 1
    BY <1>1, <2>2
  <2> QED BY <2>1, <2>2
<1> HIDE DEF turned, place
<1>4. View!Shuffled(q, order) = [q EXCEPT !.options = turned, !.answer_index = place]
  BY DEF View!Shuffled, turned, place
<1>5. /\ View!Shuffled(q, order).id = q.id /\ View!Shuffled(q, order).options = turned
      /\ View!Shuffled(q, order).answer_index = place
  BY <1>4 DEF Question
<1> QED BY <1>1, <1>2, <1>3, <1>5 DEF ShownAs

\* What was answered right is what a teacher would count.
LEMMA RightIsTrue ==
  ASSUME NEW r \in Results, result = r, NEW its, NEW as, ItemsFit(r, its), AnswersFit(its, as),
         items = its, answers = as
  PROVE  View!Right(its, as) =
           {i \in DOMAIN as : LET q == View!Original(its[i].id)
                              IN its[i].options[as[i] + 1] = q.options[q.answer_index + 1]}
<1> SUFFICES ASSUME NEW i \in DOMAIN as
             PROVE  (i \in DOMAIN its /\ as[i] = its[i].answer_index) <=>
                    (LET q == View!Original(its[i].id)
                     IN its[i].options[as[i] + 1] = q.options[q.answer_index + 1])
  BY DEF View!Right
<1>1. i \in DOMAIN its
  BY DEF AnswersFit
<1>2. PICK k \in DOMAIN r.quiz : \E order \in View!Orders(Len(r.quiz[k].options)) : ShownAs(its[i], r.quiz[k], order)
  BY <1>1 DEF ItemsFit
<1>3. PICK order \in View!Orders(Len(r.quiz[k].options)) : ShownAs(its[i], r.quiz[k], order)
  BY <1>2
<1> DEFINE p == r.quiz[k]
<1>4. View!Original(its[i].id) = p
  <2>1. p \in View!ToSet(result.quiz) /\ p.id = its[i].id
    BY <1>3 DEF View!ToSet, ShownAs
  <2>2. \A o \in View!ToSet(result.quiz) : o.id = its[i].id => o = p
    BY <1>3, ResultsAreLessons DEF View!ToSet, ShownAs
  <2> QED BY <2>1, <2>2 DEF View!Original
<1>5. p \in Question
  BY LessonShape
<1>6. \A a, b \in DOMAIN p.options : p.options[a] = p.options[b] => a = b
  BY ResultsAreLessons
<1> HIDE DEF p
<1>7. ShownAs(its[i], p, order) /\ order \in View!Orders(Len(p.options))
  BY <1>3 DEF p
<1>8. PICK n \in Nat : n = Len(p.options) /\ DOMAIN p.options = 1 .. n
  BY <1>5 DEF Question
<1>9. /\ order \in [1 .. n -> 1 .. n]
      /\ \A x, y \in 1 .. n : order[x] = order[y] => x = y
  BY <1>7, <1>8 DEF View!Orders, View!IsInjective
<1>10. PICK x \in 0 .. n - 1, y \in 0 .. n - 1 : x = as[i] /\ y = its[i].answer_index
  BY <1>7, <1>8 DEF ShownAs, AnswersFit
<1>11. x + 1 \in 1 .. n /\ y + 1 \in 1 .. n /\ (x = y <=> x + 1 = y + 1)
  OBVIOUS
<1>12. its[i].options[x + 1] = p.options[order[x + 1]] /\ order[y + 1] = p.answer_index + 1
  BY <1>7, <1>8, <1>10, <1>11 DEF ShownAs
<1>13. x = y <=> (p.options[order[x + 1]] = p.options[order[y + 1]])
  BY <1>6, <1>8, <1>9, <1>11
<1> QED BY <1>1, <1>4, <1>10, <1>12, <1>13

\* There is a first tab among those that are not hidden.
LEMMA LeftmostIn ==
  ASSUME NEW tabs \in SUBSET View!Panes, tabs # {}
  PROVE  View!Leftmost(tabs) \in tabs
<1>1. View!Panes = {"summary", "notes", "transcript", "slides", "quiz", "exam", "cards", "ask", "files"}
  BY DEF View!Panes, View!PaneOrder
<1>2. \A p \in View!Panes : View!PaneOrder[p] \in 1 .. 9
  BY <1>1 DEF View!PaneOrder
<1>3. /\ View!PaneOrder["summary"] = 1 /\ View!PaneOrder["notes"] = 2 /\ View!PaneOrder["transcript"] = 3
      /\ View!PaneOrder["slides"] = 4 /\ View!PaneOrder["quiz"] = 5 /\ View!PaneOrder["exam"] = 6
      /\ View!PaneOrder["cards"] = 7 /\ View!PaneOrder["ask"] = 8 /\ View!PaneOrder["files"] = 9
  BY DEF View!PaneOrder
<1>4. \E p \in tabs : \A q \in tabs : View!PaneOrder[p] <= View!PaneOrder[q]
  <2> DEFINE First(p) == \A q \in tabs : View!PaneOrder[p] <= View!PaneOrder[q]
  <2>1. (\A q \in tabs : View!PaneOrder[q] > 5) \/ \E p \in tabs : First(p)
    BY <1>1, <1>3, SMTT(60)
  <2>2. ASSUME \A q \in tabs : View!PaneOrder[q] > 5 PROVE \E p \in tabs : First(p)
    <3>1. tabs \subseteq {"exam", "cards", "ask", "files"}
      BY <1>1, <1>3, <2>2
    <3>2. "exam" \in tabs \/ "cards" \in tabs \/ "ask" \in tabs \/ "files" \in tabs
      BY <3>1
    <3> QED BY <1>3, <3>1, <3>2
  <2> QED BY <2>1, <2>2
<1> QED BY <1>4 DEF View!Leftmost

\* activateResultPane opens a tab of the pack whenever it has one.
LEMMA ActivatedIn ==
  ASSUME NEW r \in Results, NEW wanted, NEW now, r.panes # {}
  PROVE  View!Activated(r.panes, wanted, now) \in r.panes
BY LessonShape, LeftmostIn DEF View!Activated

\* renderCards clamps the card's index.
LEMMA CardIn ==
  ASSUME NEW r \in Results, NEW i \in Int
  PROVE  /\ View!RenderCards(r, i) \in Int
         /\ r.cards > 0 => View!RenderCards(r, i) < r.cards
<1>1. PICK n \in Nat : n = r.cards
  BY LessonShape
<1>2. ASSUME NEW x \in Int, NEW y \in Int
      PROVE  /\ View!Max({x, y}) \in {x, y} /\ View!Max({x, y}) >= x /\ View!Max({x, y}) >= y
             /\ View!Min({x, y}) \in {x, y} /\ View!Min({x, y}) <= x /\ View!Min({x, y}) <= y
  <2>1. \E m \in {x, y} : \A z \in {x, y} : m >= z
    BY <1>2
  <2>2. \E m \in {x, y} : \A z \in {x, y} : m <= z
    BY <1>2
  <2> QED BY <2>1, <2>2 DEF View!Max, View!Min
<1>3. CASE n = 0
  BY <1>1, <1>3 DEF View!RenderCards
<1>4. CASE n > 0
  <2>1. PICK top \in Int : top = n - 1
    OBVIOUS
  <2>2. PICK low \in Int : low = View!Min({i, top}) /\ low <= top
    BY <1>2
  <2>3. View!Max({0, low}) \in {0, low}
    <3>1. PICK zero \in Int : zero = 0
      OBVIOUS
    <3> QED BY <1>2, <3>1
  <2>4. View!RenderCards(r, i) = View!Max({0, low})
    BY <1>1, <1>4, <2>1, <2>2 DEF View!RenderCards
  <2> QED BY <1>1, <1>4, <2>1, <2>2, <2>3, <2>4
<1> QED BY <1>3, <1>4

\* renderQuiz counts anew.
LEMMA RenderFits ==
  ASSUME NEW r, NEW qs, NEW as, ItemsFit(r, qs), AnswersFit(qs, as), View!RenderQuiz(qs, as)
  PROVE  QuizFits(r, items', answers', score', answered')
<1>1. DOMAIN as \cap DOMAIN qs = DOMAIN as
  BY DEF AnswersFit
<1> QED BY <1>1 DEF View!RenderQuiz, QuizFits

LEMMA NoAnswers == ASSUME NEW qs PROVE AnswersFit(qs, << >>)
BY DEF AnswersFit

\* Steps that open a pack, answer, draw again or start the exam.
LEMMA StepRender ==
  ASSUME ViewInv, NEW r \in Results, View!RenderResult(r)
  PROVE  ViewInv'
<1>1. ItemsFit(r, r.quiz)
  BY LessonShape, ShownItself DEF ItemsFit
<1>2. result' = r /\ View!RenderQuiz(r.quiz, << >>) /\ card' = View!RenderCards(r, card)
      /\ pane' = View!Activated(r.panes, None, pane)
  BY DEF View!RenderResult
<1>3. QuizFits(r, items', answers', score', answered')
  BY <1>1, <1>2, NoAnswers, RenderFits
<1>4. card \in Int
  BY DEF ViewInv
<1>5. r.panes # {} => pane' \in r.panes
  BY <1>2, ActivatedIn
<1>6. card' \in Int /\ (r.cards > 0 => card' < r.cards)
  BY <1>2, <1>4, CardIn
<1> QED BY <1>2, <1>3, <1>5, <1>6 DEF ViewInv

LEMMA StepAnswer ==
  ASSUME ViewInv, result # None, NEW q, NEW o, View!Answer(q, o)
  PROVE  ViewInv'
<1> DEFINE as == [i \in DOMAIN answers \cup {q} |-> IF i = q THEN o ELSE answers[i]]
<1>1. /\ q \in DOMAIN items /\ View!RenderQuiz(items, as)
      /\ o \in 0 .. Len(items[q].options) - 1
      /\ items[q].answer_index \in 0 .. Len(items[q].options) - 1
      /\ UNCHANGED <<result, pane, card>>
  BY DEF View!Answer, View!Answerable
<1>2. ItemsFit(result, items) /\ AnswersFit(items, answers)
  BY DEF ViewInv, QuizFits
<1>3. AnswersFit(items, as)
  BY <1>1, <1>2 DEF AnswersFit
<1> HIDE DEF as
<1>4. QuizFits(result, items', answers', score', answered')
  BY <1>1, <1>2, <1>3, RenderFits
<1> QED BY <1>1, <1>4 DEF ViewInv

LEMMA StepLanguage ==
  ASSUME ViewInv, View!ChangeLanguage
  PROVE  ViewInv'
<1>1. /\ result # None /\ View!RenderQuiz(items, answers)
      /\ UNCHANGED <<result, pane, card>>
  BY DEF View!ChangeLanguage
<1>2. ItemsFit(result, items) /\ AnswersFit(items, answers)
  BY <1>1 DEF ViewInv, QuizFits
<1>3. QuizFits(result, items', answers', score', answered')
  BY <1>1, <1>2, RenderFits
<1> QED BY <1>1, <1>3 DEF ViewInv

LEMMA StepExam ==
  ASSUME ViewInv, View!StartExam
  PROVE  ViewInv'
<1>1. /\ result \in Results /\ result # None /\ UNCHANGED <<result, card>>
      /\ pane' = View!Activated(result.panes, "quiz", pane)
  BY DEF View!StartExam, View!Available, ViewInv
<1>2. PICK qs \in View!Orders(Len(result.quiz)) :
        \E os \in [DOMAIN result.quiz -> UNION {View!Orders(Len(result.quiz[i].options)) : i \in DOMAIN result.quiz}] :
          /\ \A i \in DOMAIN result.quiz : os[i] \in View!Orders(Len(result.quiz[i].options))
          /\ View!RenderQuiz([i \in DOMAIN qs |-> View!Shuffled(result.quiz[qs[i]], os[qs[i]])], << >>)
  BY DEF View!StartExam
<1>3. PICK os :
        /\ \A i \in DOMAIN result.quiz : os[i] \in View!Orders(Len(result.quiz[i].options))
        /\ View!RenderQuiz([i \in DOMAIN qs |-> View!Shuffled(result.quiz[qs[i]], os[qs[i]])], << >>)
  BY <1>2
<1> DEFINE its == [i \in DOMAIN qs |-> View!Shuffled(result.quiz[qs[i]], os[qs[i]])]
<1>4. \A i \in DOMAIN qs : qs[i] \in DOMAIN result.quiz
  <2>1. qs \in [1 .. Len(result.quiz) -> 1 .. Len(result.quiz)]
    BY <1>2 DEF View!Orders
  <2>2. DOMAIN result.quiz = 1 .. Len(result.quiz)
    BY <1>1, LessonShape
  <2> QED BY <2>1, <2>2
<1>5. ItemsFit(result, its)
  <2> SUFFICES ASSUME NEW i \in DOMAIN qs
               PROVE  \E k \in DOMAIN result.quiz :
                        \E order \in View!Orders(Len(result.quiz[k].options)) :
                          ShownAs(View!Shuffled(result.quiz[qs[i]], os[qs[i]]), result.quiz[k], order)
    BY DEF ItemsFit
  <2>1. qs[i] \in DOMAIN result.quiz /\ result.quiz[qs[i]] \in Question
    BY <1>1, <1>4, LessonShape
  <2>2. os[qs[i]] \in View!Orders(Len(result.quiz[qs[i]].options))
    BY <1>3, <2>1
  <2>3. ShownAs(View!Shuffled(result.quiz[qs[i]], os[qs[i]]), result.quiz[qs[i]], os[qs[i]])
    BY <2>1, <2>2, ShownShuffled
  <2> QED BY <2>1, <2>2, <2>3
<1>6. View!RenderQuiz(its, << >>)
  BY <1>3
<1> HIDE DEF its
<1>7. QuizFits(result, items', answers', score', answered')
  BY <1>5, <1>6, NoAnswers, RenderFits
<1>8. result.panes # {} => pane' \in result.panes
  BY <1>1, ActivatedIn
<1> QED BY <1>1, <1>7, <1>8 DEF ViewInv

\* Steps that open another tab.
LEMMA StepTab ==
  ASSUME ViewInv, NEW wanted, pane' = View!Activated(View!Available, wanted, pane),
         UNCHANGED <<result, items, answers, score, answered, card>>
  PROVE  ViewInv'
<1>1. CASE result = None
  BY <1>1 DEF ViewInv
<1>2. CASE result # None
  <2>1. result \in Results /\ View!Available = result.panes
    BY <1>2 DEF ViewInv, View!Available
  <2>2. result.panes # {} => pane' \in result.panes
    BY <2>1, ActivatedIn
  <2> QED BY <1>2, <2>2 DEF ViewInv
<1> QED BY <1>1, <1>2

\* Steps on the cards.
LEMMA StepCards ==
  ASSUME ViewInv, View!Turn \/ View!RepeatCard \/ \E d \in {-1, 1} : View!StepCard(d)
  PROVE  ViewInv'
<1>1. CASE View!Turn \/ View!RepeatCard
  BY <1>1 DEF ViewInv, View!Turn, View!RepeatCard
<1>2. ASSUME NEW d \in {-1, 1}, View!StepCard(d) PROVE ViewInv'
  <2>1. /\ result \in Results /\ result # None /\ result.cards > 0
        /\ UNCHANGED <<result, items, answers, score, answered, pane>>
        /\ card' = View!RenderCards(result, (card + d + result.cards) % result.cards)
    BY <1>2 DEF View!StepCard, View!HasCards, ViewInv
  <2>2. PICK n \in Nat : n = result.cards /\ n > 0
    BY <2>1, LessonShape
  <2>3. PICK x \in Int : x = card + d + n
    BY <1>2 DEF ViewInv
  <2>4. x % n \in Int
    BY <2>2
  <2>5. PICK j \in Int : card' = View!RenderCards(result, j)
    BY <2>1, <2>2, <2>3, <2>4
  <2>6. card' \in Int /\ card' < result.cards
    BY <2>1, <2>5, CardIn
  <2> QED BY <2>1, <2>6 DEF ViewInv
<1> QED BY <1>1, <1>2

LEMMA ViewStep == ViewInv /\ View!Next => ViewInv'
<1> SUFFICES ASSUME ViewInv, View!Next PROVE ViewInv'
  OBVIOUS
<1>1. CASE \E p \in View!Panes : View!OpenTab(p)
  BY <1>1, StepTab DEF View!OpenTab
<1>2. ASSUME NEW k \in {"left", "right", "home", "end"}, View!KeyTab(k) PROVE ViewInv'
  <2>1. /\ \E wanted : pane' = View!Activated(View!Available, wanted, pane)
        /\ UNCHANGED <<result, items, answers, score, answered, card>>
    BY <1>2 DEF View!KeyTab
  <2> QED BY <2>1, StepTab
<1>3. ASSUME NEW q \in DOMAIN items, NEW o, View!Answer(q, o) PROVE ViewInv'
  <2>1. CASE result = None
    BY <1>3, <2>1 DEF ViewInv, View!Answer
  <2> QED BY <1>3, <2>1, StepAnswer
<1> QED BY <1>1, <1>2, <1>3, StepRender, StepLanguage, StepExam, StepCards DEF View!Next

\* app.js counts what was answered: the score is the number of answers that are
\* right by the lesson's own quiz, in whatever order an exam shows it and however
\* often it is drawn again, and the open tab and card exist, for any packs.
THEOREM ScoresAreTrue == Spec => []ScoreIsTrue
  <1> DEFINE Inv == part = "result" => ViewInv
  <1>1. Init => Inv
    BY DEF Init, View!Init, ViewInv
  <1>2. Inv /\ [Next]_vars => Inv'
    <2>1. CASE part = "result" /\ View!Next /\ part' = part
      BY <2>1, ViewStep
    <2>2. CASE UNCHANGED <<part, viewVars>>
      BY <2>2 DEF viewVars, ViewInv
    <2>3. [Next]_vars => (part = "result" /\ View!Next /\ part' = part) \/ UNCHANGED <<part, viewVars>>
      BY DEF Next, vars
    <2> HIDE DEF Inv
    <2> QED BY <2>1, <2>2, <2>3 DEF Inv
  <1>3. Inv => ScoreIsTrue
    <2> SUFFICES ASSUME ViewInv, result # None PROVE View!ScoreIsTrue
      BY DEF ScoreIsTrue, View!ScoreIsTrue
    <2>1. /\ result \in Results /\ QuizFits(result, items, answers, score, answered)
          /\ result.panes # {} => pane \in result.panes
          /\ result.cards > 0 => card < result.cards
      BY DEF ViewInv
    <2>2. View!Right(items, answers) =
            {i \in DOMAIN answers : LET q == View!Original(items[i].id)
                                    IN items[i].options[answers[i] + 1] = q.options[q.answer_index + 1]}
      BY <2>1, RightIsTrue DEF QuizFits
    <2> QED BY <2>1, <2>2 DEF QuizFits, View!ScoreIsTrue
  <1> QED BY <1>1, <1>2, <1>3, PTL DEF Spec
=============================================================================
