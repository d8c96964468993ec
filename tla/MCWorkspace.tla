---------------------------- MODULE MCWorkspace ----------------------------
(* Instances of Workspace for TLC. *)
EXTENDS Workspace

MCSources == {[name |-> "notes", type |-> "pdf", size |-> 1],
              [name |-> "slides", type |-> "doc", size |-> 1],
              [name |-> "talk", type |-> "media", size |-> 2]}
MCGuestLimit == [files |-> 1, size |-> 2]
MCPlanLimit == [files |-> 2, size |-> 3]
=============================================================================
