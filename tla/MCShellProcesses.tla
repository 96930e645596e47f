--------------------------- MODULE MCShellProcesses ---------------------------
(* The instance of ShellProcesses: two starts of one owner.                  *)
EXTENDS ShellProcesses, TLC

CONSTANTS p1, p2, o1, o2, r1, r2

Mine == (p1 :> o1) @@ (p2 :> o1)
===============================================================================
