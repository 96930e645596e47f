--------------------------- MODULE AgentRunLease ---------------------------
(***************************************************************************)
(* One persisted agent run: its row of agent_run_states (status snapshot   *)
(* and execution lease), its trace journal, and the processes of the       *)
(* program that share the SQLite file.  Every process has an executor      *)
(* (infra/adapters/agent/executor.py), the run application                 *)
(* (application/agent_runs.py), the shutdown lifecycle                     *)
(* (application/agent_lifecycle.py) and the recovery watcher               *)
(* (bootstrap/runtime.py).                                                 *)
(*                                                                         *)
(* Each SQLite transaction is atomic.  A handler that reads the row and    *)
(* later saves a snapshot is therefore two steps, between which OTHER      *)
(* processes may run; coroutines of the same process may not, because the  *)
(* code awaits nothing in between: Busy(p) says that p's event loop is     *)
(* inside such a stretch.                                                  *)
(*                                                                         *)
(* What a run computes (messages, tool calls, steps) is abstracted to the  *)
(* kinds of trace events it emits; whether a pause is resumable depends on *)
(* that data and is a choice here.                                         *)
(***************************************************************************)
EXTENDS Integers, Sequences

CONSTANTS
  Proc,        \* process lifetimes: a restart is another element
  NoProc,      \* lease_owner IS NULL
  Requests,    \* the kinds of requests clients make
  Concurrent,  \* BOOLEAN: several processes may share the database
  MaxEvents,   \* bound: no run emits ordinary events past this journal length
  MaxGen       \* bound: no lease is granted past this generation

ASSUME ConstantsAssumption ==
  /\ NoProc \notin Proc
  /\ Requests \subseteq {"start", "startStream", "resume", "resumeStream",
                        "pause", "cancel", "annotate"}
  /\ Concurrent \in BOOLEAN
  /\ MaxEvents \in Nat
  /\ MaxGen \in Nat

VARIABLES
  snap,      \* the persisted snapshot of the run
  owner,     \* lease_owner
  expired,   \* lease_expires_at has passed
  gen,       \* lease_generation
  young,     \* the run is younger than the unleased grace period
  journal,   \* agent_trace_events: "event", or the status a RUN_STOPPED sets
  recGen,    \* history: the generation at the last recovery of the run
  up,        \* life of each process
  ph,        \* where the process's task for the run is
  myGen,     \* generation of the lease context the task holds
  mem,       \* the AgentRunState the task (or its failure recorder) works on
  at,        \* the event being handled is a checkpoint event
  pend,      \* a start or resume whose lease is not acquired yet ...
  read,      \* ... and the state it was given when it was called
  ctl,       \* what the event loop of the process is in the middle of
  tmp        \* the state a control operation is about to save

db    == <<snap, owner, expired, gen, young, journal, recGen>>
task  == <<ph, myGen, mem, at>>
entry == <<pend, read>>
ctrl  == <<ctl, tmp>>
vars  == <<db, up, task, entry, ctrl>>

-----------------------------------------------------------------------------

Terminal == {"FINISHED", "FAILED", "CANCELED"}
Status   == {"ABSENT", "RUNNING", "PAUSED"} \cup Terminal

\* What this module tells apart in an AgentRunState.
Snapshot == [status : Status, applied : Nat, pauseReq : BOOLEAN]

Absent   == [status |-> "ABSENT", applied |-> 0, pauseReq |-> FALSE]
NewState == [status |-> "RUNNING", applied |-> 0, pauseReq |-> FALSE]

\* The snapshot s moved to a status, with the first n events applied to it; and
\* s with or without a pause request.
Moved(s, status, n)   == [status |-> status, applied |-> n, pauseReq |-> s.pauseReq]
Requested(s, request) == [status |-> s.status, applied |-> s.applied, pauseReq |-> request]

Life == {"new", "up", "draining", "closed", "down"}

\* Phases of a task in which its process runs without awaiting anything.
SyncPhase == {"save", "markFailed", "refused", "markTimeout", "record"}
Phase     == {"idle", "exec", "reject", "yielded", "unwind", "unwindTimeout", "ending"}
               \cup SyncPhase

Alive(p) == up[p] \in {"up", "draining", "closed"}
Busy(p)  == ph[p] \in SyncPhase \/ ctl[p] # "none"

\* The WHERE clause of a fenced save_state, heartbeat_lease and release_lease.
Fenced(p) == owner = p /\ gen = myGen[p]

Goto(p, phase) == ph' = [ph EXCEPT ![p] = phase]

\* A slip: save_state without the WHERE clause on owner and generation.
SaveUnfenced(p, s, next) == snap' = s /\ Goto(p, next)

\* save_state under the lease context: a snapshot of a task that lost its
\* lease is refused, and the refusal unwinds the task without a report.
Save(p, s, next) ==
  \/ Fenced(p)  /\ snap' = s /\ Goto(p, next)
  \/ ~Fenced(p) /\ UNCHANGED snap /\ Goto(p, "ending")

\* The last RUN_STOPPED of the journal's tail, and the status that
\* inspect_agent_run_checkpoint restores from it.
StopsRun(i, s) ==
  /\ i > s.applied
  /\ journal[i] \in Terminal
  /\ \A j \in (i + 1)..Len(journal) : journal[j] \notin Terminal

Inspected(s) ==
  IF \E i \in 1..Len(journal) : StopsRun(i, s)
  THEN journal[CHOOSE i \in 1..Len(journal) : StopsRun(i, s)]
  ELSE "RUNNING"

\* A slip: the journal's tail is not looked at before the run is paused.
InterruptedUninspected(s) ==
  Moved(s, "PAUSED", Len(journal) + 1)

\* An interrupted run gets the outcome its journal records, or is paused with
\* one more trace event.
Interrupted(s) ==
  IF Inspected(s) = "RUNNING"
  THEN Moved(s, "PAUSED", Len(journal) + 1)
  ELSE Moved(s, Inspected(s), Len(journal))

InterruptedJournal(s) ==
  IF Inspected(s) = "RUNNING" THEN Append(journal, "event") ELSE journal

PauseRequested == snap.status = "RUNNING" /\ snap.pauseReq
-----------------------------------------------------------------------------

Init ==
  /\ snap = Absent
  /\ owner = NoProc
  /\ expired = FALSE
  /\ gen = 0
  /\ young = FALSE
  /\ journal = <<>>
  /\ recGen = 0
  /\ up = [p \in Proc |-> "new"]
  /\ ph = [p \in Proc |-> "idle"]
  /\ myGen = [p \in Proc |-> 0]
  /\ mem = [p \in Proc |-> Absent]
  /\ at = [p \in Proc |-> FALSE]
  /\ pend = [p \in Proc |-> "none"]
  /\ read = [p \in Proc |-> Absent]
  /\ ctl = [p \in Proc |-> "none"]
  /\ tmp = [p \in Proc |-> Absent]

-----------------------------------------------------------------------------
(* Recovery: one immediate transaction.  The lease is cleared, but its     *)
(* generation is kept.                                                     *)

\* A slip: only runs that had an owner are recovered.
RecoverableLeased == snap.status = "RUNNING" /\ owner # NoProc /\ expired

\* An active lease, or the grace period of a run without one, is respected.
Recoverable ==
  /\ snap.status = "RUNNING"
  /\ IF owner = NoProc THEN ~young ELSE expired

\* A slip: the lease of the interrupted execution is left in the row.
LeaseKept == UNCHANGED <<owner, expired>>

ClearLease == owner' = NoProc /\ expired' = FALSE

RecoverRun ==
  /\ snap' = Interrupted(snap)
  /\ journal' = InterruptedJournal(snap)
  /\ ClearLease
  /\ recGen' = gen
  /\ UNCHANGED <<gen, young>>

\* The runtime recovers what it finds before it serves anything.
Boot(p) ==
  /\ up[p] = "new"
  /\ Concurrent \/ \A q \in Proc : ~Alive(q)
  /\ up' = [up EXCEPT ![p] = "up"]
  /\ IF Recoverable THEN RecoverRun ELSE UNCHANGED db
  /\ UNCHANGED <<task, entry, ctrl>>

Recover(p) ==
  /\ Alive(p)
  /\ ~Busy(p)
  /\ Recoverable
  /\ RecoverRun
  /\ UNCHANGED <<up, task, entry, ctrl>>

\* Time passes: the grace period of a run, the lease of an owner.
Age ==
  /\ young
  /\ young' = FALSE
  /\ UNCHANGED <<snap, owner, expired, gen, journal, recGen, up, task, entry, ctrl>>

LeaseExpires ==
  /\ owner # NoProc
  /\ ~expired
  /\ expired' = TRUE
  /\ UNCHANGED <<snap, owner, gen, young, journal, recGen, up, task, entry, ctrl>>

-----------------------------------------------------------------------------
(* Entry: start and resume read or create the state, then acquire.  A      *)
(* stream acquires only when its consumer asks for the first event.        *)

Enter(p, mode, s, loop) ==
  /\ up[p] \in {"up", "draining"}
  /\ ~Busy(p)
  /\ pend[p] = "none"
  /\ pend' = [pend EXCEPT ![p] = mode]
  /\ read' = [read EXCEPT ![p] = s]
  /\ ctl' = [ctl EXCEPT ![p] = loop]

Create(p, loop) ==
  /\ snap.status = "ABSENT"
  /\ Enter(p, "start", NewState, loop)
  /\ snap' = NewState
  /\ young' = TRUE
  /\ UNCHANGED <<owner, expired, gen, journal, recGen, up, task, tmp>>

Open(p, loop) ==
  /\ snap.status # "ABSENT"
  /\ Enter(p, "resume", snap, loop)
  /\ UNCHANGED <<db, up, task, tmp>>

Start(p)        == "start" \in Requests /\ Create(p, "acquire")
StartStream(p)  == "startStream" \in Requests /\ Create(p, "none")
Resume(p)       == "resume" \in Requests /\ Open(p, "acquire")
ResumeStream(p) == "resumeStream" \in Requests /\ Open(p, "none")

CanAcquire(p) ==
  /\ up[p] # "closed"
  /\ ph[p] = "idle"
  /\ owner = NoProc \/ expired \/ owner = p
  /\ gen < MaxGen

\* A slip: taking a lease over keeps the generation of the previous owner.
SameGeneration == IF owner = NoProc THEN gen + 1 ELSE gen

NextGeneration == gen + 1

\* A resumed operation works on the state read before the lease was acquired.
\* Unless that one is PAUSED and resumable it raises.  Resuming from a
\* checkpoint drops a pause request, resuming from an approval keeps it.
Resumed(s) ==
  {Requested(Moved(s, "RUNNING", s.applied), r) : r \in {s.pauseReq, FALSE}}

Begin(p) ==
  \/ /\ pend[p] = "start" \/ read[p].status = "PAUSED"
     /\ \E s \in IF pend[p] = "start" THEN {read[p]} ELSE Resumed(read[p]) :
          mem' = [mem EXCEPT ![p] = s]
     /\ Goto(p, IF up[p] = "draining" THEN "refused" ELSE "exec")
  \/ /\ pend[p] = "resume"
     /\ mem' = [mem EXCEPT ![p] = read[p]]
     /\ Goto(p, IF up[p] = "draining" THEN "refused" ELSE "reject")

Acquire(p) ==
  /\ Alive(p)
  /\ pend[p] # "none"
  /\ ph[p] \notin SyncPhase /\ ctl[p] \in {"none", "acquire"}
  /\ CanAcquire(p)
  /\ owner' = p
  /\ expired' = FALSE
  /\ gen' = NextGeneration
  /\ myGen' = [myGen EXCEPT ![p] = NextGeneration]
  /\ Begin(p)
  /\ pend' = [pend EXCEPT ![p] = "none"]
  /\ read' = [read EXCEPT ![p] = Absent]
  /\ ctl' = [ctl EXCEPT ![p] = "none"]
  /\ UNCHANGED <<snap, young, journal, recGen, up, at, tmp>>

AcquireRefused(p) ==
  /\ Alive(p)
  /\ pend[p] # "none"
  /\ ph[p] \notin SyncPhase /\ ctl[p] \in {"none", "acquire"}
  /\ ~CanAcquire(p)
  /\ pend' = [pend EXCEPT ![p] = "none"]
  /\ read' = [read EXCEPT ![p] = Absent]
  /\ ctl' = [ctl EXCEPT ![p] = "none"]
  /\ UNCHANGED <<db, up, task, tmp>>

-----------------------------------------------------------------------------
(* _stream_and_store: what happens to each event the run emits.            *)

Running(p) == ph[p] = "exec" /\ ctl[p] = "none"

\* The row was canceled: the event is dropped and nothing is written.
ObserveCanceled(p) ==
  /\ Running(p)
  /\ snap.status = "CANCELED"
  /\ Goto(p, "unwind")
  /\ UNCHANGED <<db, up, myGen, mem, at, entry, ctrl>>

\* CHAT_DELTA goes to the journal only; the snapshot stays behind.
ObserveDelta(p) ==
  /\ Running(p)
  /\ snap.status # "CANCELED"
  /\ Len(journal) < MaxEvents
  /\ journal' = Append(journal, "event")
  /\ mem' = [mem EXCEPT ![p] = Moved(mem[p], mem[p].status, Len(journal) + 1)]
  /\ UNCHANGED <<snap, owner, expired, gen, young, recGen, up, ph, myGen, at,
                 entry, ctrl>>

PausedAt(n) == [status |-> "PAUSED", applied |-> n, pauseReq |-> FALSE]

\* A slip: the request stays in the row only, under the next snapshot.
RequestNotCarried(s) == s

CarryRequest(s) == Requested(s, s.pauseReq \/ PauseRequested)

\* An ordinary event: journaled, then a pending pause request either pauses
\* the run (checkpoint events) or is carried onto the snapshot to be saved.
ObserveEvent(p, checkpoint) ==
  /\ Running(p)
  /\ snap.status # "CANCELED"
  /\ Len(journal) < MaxEvents
  /\ at' = [at EXCEPT ![p] = checkpoint]
  /\ Goto(p, "save")
  /\ \/ /\ PauseRequested /\ checkpoint
        /\ journal' = Append(Append(journal, "event"), "event")
        /\ mem' = [mem EXCEPT ![p] = PausedAt(Len(journal) + 2)]
     \/ /\ ~(PauseRequested /\ checkpoint)
        /\ journal' = Append(journal, "event")
        /\ mem' = [mem EXCEPT ![p] =
                     CarryRequest(Moved(mem[p], mem[p].status, Len(journal) + 1))]
  /\ UNCHANGED <<snap, owner, expired, gen, young, recGen, up, myGen, entry, ctrl>>

\* A slip: an approval pause is journaled as if it stopped the run.
JournaledAsStop(outcome) == outcome

Journaled(outcome) == IF outcome = "PAUSED" THEN "event" ELSE outcome

\* The operation sets its outcome before it emits RUN_STOPPED, or RUN_PAUSED
\* when a tool call needs approval; a pause request is not looked at then.
ObserveOutcome(p, outcome) ==
  /\ Running(p)
  /\ snap.status # "CANCELED"
  /\ journal' = Append(journal, Journaled(outcome))
  /\ mem' = [mem EXCEPT ![p] = Moved(mem[p], outcome, Len(journal) + 1)]
  /\ at' = [at EXCEPT ![p] = FALSE]
  /\ Goto(p, "save")
  /\ UNCHANGED <<snap, owner, expired, gen, young, recGen, up, myGen, entry, ctrl>>

SaveSnapshot(p) ==
  /\ ph[p] = "save"
  /\ Save(p, mem[p], "yielded")
  /\ UNCHANGED <<owner, expired, gen, young, journal, recGen, up, myGen, mem, at,
                 entry, ctrl>>

\* The consumer took the event: a request made meanwhile is looked at again.
Recheck(p) ==
  /\ ph[p] = "yielded"
  /\ ctl[p] = "none"
  /\ \/ /\ mem[p].status # "RUNNING"
        /\ Goto(p, "unwind")
        /\ UNCHANGED <<journal, mem>>
     \/ /\ mem[p].status = "RUNNING" /\ PauseRequested /\ at[p]
        /\ journal' = Append(journal, "event")
        /\ mem' = [mem EXCEPT ![p] = PausedAt(Len(journal) + 1)]
        /\ Goto(p, "save")
     \/ /\ mem[p].status = "RUNNING" /\ ~(PauseRequested /\ at[p])
        /\ mem' = [mem EXCEPT ![p] = CarryRequest(mem[p])]
        /\ Goto(p, "exec")
        /\ UNCHANGED journal
  /\ UNCHANGED <<snap, owner, expired, gen, young, recGen, up, myGen, at, entry, ctrl>>

-----------------------------------------------------------------------------
(* How a task ends.                                                        *)

\* An exception of the operation: its state is saved unless the row was
\* canceled, then the run is marked failed.
Fault(p) ==
  /\ ph[p] \in {"exec", "reject"}
  /\ ctl[p] = "none"
  /\ IF snap.status = "CANCELED"
     THEN UNCHANGED snap /\ Goto(p, "markFailed")
     ELSE Save(p, mem[p], "markFailed")
  /\ UNCHANGED <<owner, expired, gen, young, journal, recGen, up, myGen, mem, at,
                 entry, ctrl>>

\* _mark_failed, after Fault or as the recorder of an operation the closing
\* lifecycle refused.
MarkFailed(p) ==
  /\ ph[p] \in {"markFailed", "refused"}
  /\ IF snap.status = "RUNNING"
     THEN /\ journal' = Append(journal, "FAILED")
          /\ mem' = [mem EXCEPT ![p] = Moved(snap, "FAILED", Len(journal) + 1)]
          /\ Goto(p, "record")
     ELSE /\ Goto(p, IF ph[p] = "refused" THEN "ending" ELSE "unwind")
          /\ UNCHANGED <<journal, mem>>
  /\ UNCHANGED <<snap, owner, expired, gen, young, recGen, up, myGen, at, entry, ctrl>>

\* The deadline cancels the operation, which unwinds before the recorder runs.
Timeout(p) ==
  /\ ph[p] \in {"exec", "reject", "yielded"}
  /\ ctl[p] = "none"
  /\ Goto(p, "unwindTimeout")
  /\ UNCHANGED <<db, up, myGen, mem, at, entry, ctrl>>

\* The finally block of _stream_and_store leaves these rows alone.
KeepStored == snap.status \in {"CANCELED", "FAILED"}

Unwind(p) ==
  /\ ph[p] \in {"unwind", "unwindTimeout"}
  /\ ctl[p] = "none"
  /\ LET next == IF ph[p] = "unwind" THEN "ending" ELSE "markTimeout"
     IN  IF KeepStored
         THEN UNCHANGED snap /\ Goto(p, next)
         ELSE Save(p, mem[p], next)
  /\ UNCHANGED <<owner, expired, gen, young, journal, recGen, up, myGen, mem, at,
                 entry, ctrl>>

\* _mark_interrupted with cause TIMEOUT.
MarkTimeout(p) ==
  /\ ph[p] = "markTimeout"
  /\ IF snap.status = "RUNNING"
     THEN /\ journal' = InterruptedJournal(snap)
          /\ mem' = [mem EXCEPT ![p] = Interrupted(snap)]
          /\ Goto(p, "record")
     ELSE /\ Goto(p, "ending")
          /\ UNCHANGED <<journal, mem>>
  /\ UNCHANGED <<snap, owner, expired, gen, young, recGen, up, myGen, at, entry, ctrl>>

RecordFailure(p) ==
  /\ ph[p] = "record"
  /\ Save(p, mem[p], "ending")
  /\ UNCHANGED <<owner, expired, gen, young, journal, recGen, up, myGen, mem, at,
                 entry, ctrl>>

ReleaseLease(p) ==
  IF Fenced(p) THEN ClearLease ELSE UNCHANGED <<owner, expired>>

\* _finish_execution: the task is gone, its lease is released if still held.
Release(p) ==
  /\ ph[p] = "ending"
  /\ ctl[p] = "none"
  /\ ReleaseLease(p)
  /\ Goto(p, "idle")
  /\ myGen' = [myGen EXCEPT ![p] = 0]
  /\ mem' = [mem EXCEPT ![p] = Absent]
  /\ at' = [at EXCEPT ![p] = FALSE]
  /\ UNCHANGED <<snap, gen, young, journal, recGen, up, entry, ctrl>>

HeartbeatRenews(p) ==
  /\ ph[p] \in {"exec", "reject", "yielded", "unwind", "unwindTimeout"}
  /\ ctl[p] = "none"
  /\ Fenced(p)
  /\ expired
  /\ expired' = FALSE
  /\ UNCHANGED <<snap, owner, gen, young, journal, recGen, up, task, entry, ctrl>>

\* The lease is gone, or the renewal raised: the task is canceled and nothing
\* is reported.
HeartbeatLost(p) ==
  /\ ph[p] \in {"exec", "reject", "yielded", "unwindTimeout"}
  /\ ctl[p] = "none"
  /\ Goto(p, "unwind")
  /\ UNCHANGED <<db, up, myGen, mem, at, entry, ctrl>>

-----------------------------------------------------------------------------
(* Control operations: read the row, journal, then save unfenced.          *)

Prepare(p, s) ==
  /\ tmp' = [tmp EXCEPT ![p] = s]
  /\ ctl' = [ctl EXCEPT ![p] = "write"]

Pause(p) ==
  /\ "pause" \in Requests
  /\ up[p] = "up"
  /\ ~Busy(p)
  /\ snap.status = "RUNNING"
  /\ Prepare(p, Requested(snap, TRUE))
  /\ UNCHANGED <<db, up, task, entry>>

Cancel(p) ==
  /\ "cancel" \in Requests
  /\ up[p] = "up"
  /\ ~Busy(p)
  /\ snap.status \in {"RUNNING", "PAUSED"}
  /\ Goto(p, IF ph[p] \in {"exec", "reject", "yielded", "unwindTimeout"}
             THEN "unwind" ELSE ph[p])
  /\ journal' = Append(journal, "CANCELED")
  /\ Prepare(p, Moved(snap, "CANCELED", Len(journal) + 1))
  /\ UNCHANGED <<snap, owner, expired, gen, young, recGen, up, myGen, mem, at, entry>>

\* resolve_tool_execution, and the trace retry leaves on a run it abandons:
\* a paused run gets one more event and its snapshot is saved again.
Annotate(p) ==
  /\ "annotate" \in Requests
  /\ up[p] = "up"
  /\ ~Busy(p)
  /\ snap.status = "PAUSED"
  /\ Len(journal) < MaxEvents
  /\ journal' = Append(journal, "event")
  /\ Prepare(p, Moved(snap, snap.status, Len(journal) + 1))
  /\ UNCHANGED <<snap, owner, expired, gen, young, recGen, up, task, entry>>

ControlSave(p) ==
  /\ ctl[p] \in {"write", "shutdown"}
  /\ snap' = tmp[p]
  /\ tmp' = [tmp EXCEPT ![p] = Absent]
  /\ ctl' = [ctl EXCEPT ![p] = "none"]
  /\ up' = IF ctl[p] = "shutdown" THEN [up EXCEPT ![p] = "closed"] ELSE up
  /\ UNCHANGED <<owner, expired, gen, young, journal, recGen, task, entry>>

-----------------------------------------------------------------------------
(* Shutdown: block new runs, drain this process's own, then pause every    *)
(* RUNNING row of the database; and crashes.                               *)

Close(p) ==
  /\ up[p] = "up"
  /\ ~Busy(p)
  /\ up' = [up EXCEPT ![p] = "draining"]
  /\ UNCHANGED <<db, task, entry, ctrl>>

PauseRunningStates(p) ==
  /\ up[p] = "draining"
  /\ ~Busy(p)
  /\ ph[p] \in {"idle", "ending"}
  /\ \/ /\ snap.status = "RUNNING"
        /\ journal' = InterruptedJournal(snap)
        /\ tmp' = [tmp EXCEPT ![p] = Interrupted(snap)]
        /\ ctl' = [ctl EXCEPT ![p] = "shutdown"]
        /\ UNCHANGED up
     \/ /\ snap.status # "RUNNING"
        /\ up' = [up EXCEPT ![p] = "closed"]
        /\ UNCHANGED <<journal, ctrl>>
  /\ UNCHANGED <<snap, owner, expired, gen, young, recGen, task, entry>>

Gone(p) ==
  /\ up' = [up EXCEPT ![p] = "down"]
  /\ ph' = [ph EXCEPT ![p] = "idle"]
  /\ myGen' = [myGen EXCEPT ![p] = 0]
  /\ mem' = [mem EXCEPT ![p] = Absent]
  /\ at' = [at EXCEPT ![p] = FALSE]
  /\ pend' = [pend EXCEPT ![p] = "none"]
  /\ read' = [read EXCEPT ![p] = Absent]
  /\ ctl' = [ctl EXCEPT ![p] = "none"]
  /\ tmp' = [tmp EXCEPT ![p] = Absent]
  /\ UNCHANGED db

Exit(p)  == up[p] = "closed" /\ ph[p] = "idle" /\ ctl[p] = "none" /\ Gone(p)
Crash(p) == Alive(p) /\ Gone(p)

-----------------------------------------------------------------------------

Entering(p)    == Start(p) \/ StartStream(p) \/ Resume(p) \/ ResumeStream(p)
Acquiring(p)   == Acquire(p) \/ AcquireRefused(p)
Observing(p)   == \/ ObserveCanceled(p) \/ ObserveDelta(p)
                  \/ \E c \in BOOLEAN : ObserveEvent(p, c)
                  \/ \E o \in {"FINISHED", "FAILED", "PAUSED"} : ObserveOutcome(p, o)
Controlling(p) == Pause(p) \/ Cancel(p) \/ Annotate(p)
Stopping(p)    == Close(p) \/ PauseRunningStates(p) \/ Exit(p) \/ Crash(p)

\* The rest of what the event loop is in the middle of.
Finishing(p) ==
  \/ SaveSnapshot(p) \/ MarkFailed(p) \/ MarkTimeout(p) \/ RecordFailure(p)
  \/ ControlSave(p)
  \/ (ctl[p] = "acquire" /\ Acquiring(p))

\* A suspended task that has something to do, or whose deadline fires.
Scheduled(p) == Recheck(p) \/ Timeout(p) \/ Unwind(p) \/ Release(p)

Next ==
  \/ Age \/ LeaseExpires
  \/ \E p \in Proc :
       \/ Boot(p) \/ Recover(p) \/ Entering(p) \/ Acquiring(p) \/ Observing(p)
       \/ Finishing(p) \/ Scheduled(p) \/ Fault(p)
       \/ HeartbeatRenews(p) \/ HeartbeatLost(p)
       \/ Controlling(p) \/ Stopping(p)

\* Time passes; the watcher looks at the database every few seconds; the
\* deadline of an operation fires.  An event loop runs what is ready between
\* any two other things it does, so what becomes ready again and again is run:
\* strong fairness, where a request may occupy the loop in between.
Fairness ==
  /\ WF_vars(Age)
  /\ WF_vars(LeaseExpires)
  /\ \A p \in Proc :
       /\ WF_vars(Finishing(p))
       /\ SF_vars(Scheduled(p))
       /\ SF_vars(Recover(p))

Spec     == Init /\ [][Next]_vars
FairSpec == Spec /\ Fairness

-----------------------------------------------------------------------------

\* The type invariant of the row, the journal and the processes.
TypeOK ==
  /\ snap \in Snapshot
  /\ owner \in Proc \cup {NoProc}
  /\ expired \in BOOLEAN
  /\ gen \in Nat
  /\ young \in BOOLEAN
  /\ journal \in Seq({"event"} \cup Terminal)
  /\ recGen \in Nat
  /\ up \in [Proc -> Life]
  /\ ph \in [Proc -> Phase]
  /\ myGen \in [Proc -> Nat]
  /\ mem \in [Proc -> Snapshot]
  /\ at \in [Proc -> BOOLEAN]
  /\ pend \in [Proc -> {"none", "start", "resume"}]
  /\ read \in [Proc -> Snapshot]
  /\ ctl \in [Proc -> {"none", "acquire", "write", "shutdown"}]
  /\ tmp \in [Proc -> Snapshot]

\* Executions are told apart by their generation: no two processes ever hold a
\* lease context with the same generation, however leases expire, are taken
\* over, renewed late or cleared (acquire_lease, clear_execution_lease).
FencingTokensUnique ==
  \A p, q \in Proc :
    p # q /\ ph[p] # "idle" /\ ph[q] # "idle" => myGen[p] # myGen[q]

\* A live process never keeps a lease it has no task for: whatever way a task
\* ends, _finish_execution releases what _acquire took, or somebody else
\* already holds it.
LeaseHeldByTask ==
  \A p \in Proc : owner = p /\ Alive(p) => ph[p] # "idle" /\ myGen[p] = gen

\* Once recovery has rewritten a run, no execution granted before it passes
\* the fence of save_state, heartbeat_lease or release_lease again, even if
\* its process wakes up later.
NoZombieWrite ==
  \A p \in Proc : ph[p] # "idle" /\ myGen[p] <= recGen => ~Fenced(p)

\* A pause request written to a running row is there until the run leaves
\* RUNNING, or its execution is being wound up after a failure, a timeout or a
\* lost heartbeat: snapshots saved meanwhile carry it (agent_runs.py:728, 836).
PauseKept ==
  [][ /\ PauseRequested
      /\ snap'.status = "RUNNING"
      /\ \A p \in Proc : ph'[p] \notin {"markFailed", "markTimeout", "ending"}
      => snap'.pauseReq ]_snap

\* CANCELED is final, also where two processes share the database.  The code
\* keeps this within one server only, where ImplementsStatus says it: a snapshot
\* of another process overwrites a cancellation (_stream_and_store).
CancelFinal ==
  [][snap.status = "CANCELED" => snap'.status = "CANCELED"]_snap

\* FINISHED and FAILED are final as well: diagram 8 has no edge out of them
\* but a retry, which is a new run.  A stream that read the row before the run
\* ended overwrites them (resume_stream).
OutcomeFinal ==
  [][snap.status \in {"FINISHED", "FAILED"} => snap'.status = snap.status]_snap

\* A run whose RUN_STOPPED is in the journal has committed its transcript; if
\* the snapshot was lost in a crash while it said RUNNING, nobody presents the
\* run as paused (docs/architecture-dependencies.md:353).
StoppedNotPaused ==
  [][snap.status = "RUNNING" /\ Inspected(snap) # "RUNNING"
       => snap'.status # "PAUSED"]_snap

\* Nor does an execution replay it: none begins from a snapshot behind which
\* the journal already stops the run.
StoppedNotReplayed ==
  \A p \in Proc : ph[p] = "exec" => Inspected(mem[p]) = "RUNNING"

\* Recovery waits for the lease: an execution that holds an active lease is
\* not taken for an interrupted one.  A shutdown drains its own executions
\* before it pauses what is left, so a run it pauses is "stopped at a
\* checkpoint" (AgentRunPause).
ShutdownPausesStoppedRuns ==
  [][\A p \in Proc : ctl[p] = "shutdown" /\ snap'.status = "PAUSED"
       => \A q \in Proc : Fenced(q) /\ ~expired => ph[q] \notin {"exec", "yielded"}]_snap

\* Seen from outside, one server at a time implements the status machine.
Granted == \E p \in Proc : Fenced(p) /\ ph[p] \notin {"idle", "ending"}

Abstract == INSTANCE AgentRunStatus WITH status <- snap.status, granted <- Granted

ImplementsStatus == Abstract!Spec

\* No run stays RUNNING for ever while a server is up: it finishes, times out,
\* or is recovered after its lease or its grace period ran out, whatever
\* crashed, lost its lease or was never started.
RunSettles ==
  []<>(snap.status # "RUNNING" \/ \A p \in Proc : up[p] # "up")

=============================================================================
