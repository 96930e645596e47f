---------------------------- MODULE MCImageTasks ----------------------------
(* Instances of ImageTasks for TLC. *)
EXTENDS ImageTasks

CONSTANTS alice, t1, t2

\* All tasks of one owner, so that a limit of one task is met.
MCOwner == [t \in Tasks |-> alice]

=============================================================================
