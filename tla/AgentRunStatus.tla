--------------------------- MODULE AgentRunStatus ---------------------------
(***************************************************************************)
(* What a deployment of one server at a time promises about a persisted    *)
(* agent run: the control outcomes of diagram 8 of                         *)
(* docs/architecture-diagrams.md, as the writers of the row produce them.  *)
(*                                                                         *)
(* At most one execution is granted at a time.  Only a granted execution   *)
(* moves a run forward (including PAUSED back to RUNNING); an interrupted  *)
(* run is settled only once its execution is over; FINISHED, FAILED and    *)
(* CANCELED are final.                                                     *)
(***************************************************************************)
VARIABLES status, granted

vars == <<status, granted>>

Open     == {"RUNNING", "PAUSED"}
Terminal == {"FINISHED", "FAILED", "CANCELED"}

Init ==
  /\ status = "ABSENT"
  /\ granted = FALSE

Create ==
  /\ status = "ABSENT"
  /\ status' = "RUNNING"
  /\ UNCHANGED granted

\* A lease may be granted whatever the status: the execution checks it.
Grant ==
  /\ ~granted
  /\ status # "ABSENT"
  /\ granted' = TRUE
  /\ UNCHANGED status

\* The execution stores a snapshot: more work, a pause or an outcome.  It may
\* be the last thing it does.
Progress ==
  /\ granted
  /\ status \in Open
  /\ status' \in Open \cup {"FINISHED", "FAILED"}
  /\ granted' \in BOOLEAN

Revoke ==
  /\ granted
  /\ granted' = FALSE
  /\ UNCHANGED status

\* Recovery, shutdown and the timeout recorder settle an interrupted run with
\* the outcome its journal records, or pause it.
Settle ==
  /\ status = "RUNNING"
  /\ status' \in {"PAUSED"} \cup Terminal
  /\ granted' = FALSE

Cancel ==
  /\ status \in Open
  /\ status' = "CANCELED"
  /\ UNCHANGED granted

Next == Create \/ Grant \/ Progress \/ Revoke \/ Settle \/ Cancel

Spec == Init /\ [][Next]_vars

=============================================================================
