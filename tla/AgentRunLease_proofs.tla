------------------------ MODULE AgentRunLease_proofs ------------------------
(***************************************************************************)
(* Theorems about AgentRunLease, for any number of processes and any       *)
(* bounds.                                                                 *)
(***************************************************************************)
EXTENDS AgentRunLease, TLAPS

JournalType == Seq({"event"} \cup Terminal)

\* The ways snapshots are built.
LEMMA SnapshotType ==
  /\ Absent \in Snapshot
  /\ NewState \in Snapshot
  /\ \A s \in Snapshot :
       /\ s.status \in Status
       /\ s.applied \in Nat
       /\ s.pauseReq \in BOOLEAN
  /\ \A st \in Status, n \in Nat, r \in BOOLEAN :
       [status |-> st, applied |-> n, pauseReq |-> r] \in Snapshot
BY DEF Absent, NewState, Snapshot, Status

LEMMA MovedType ==
  ASSUME NEW s \in Snapshot, NEW st \in Status, NEW n \in Nat
  PROVE  Moved(s, st, n) \in Snapshot
BY SnapshotType DEF Moved

LEMMA RequestedType ==
  ASSUME NEW s \in Snapshot, NEW r \in BOOLEAN
  PROVE  Requested(s, r) \in Snapshot
BY SnapshotType DEF Requested

\* What is appended to the journal keeps it a journal.
LEMMA AppendType ==
  ASSUME NEW j \in JournalType, NEW e \in {"event"} \cup Terminal
  PROVE  Append(j, e) \in JournalType /\ Len(j) \in Nat
BY DEF JournalType

\* What the journal restores is RUNNING or a status that stops a run.
LEMMA InspectedType ==
  ASSUME TypeOK, NEW s \in Snapshot
  PROVE  Inspected(s) \in {"RUNNING"} \cup Terminal
<1> DEFINE k == CHOOSE i \in 1..Len(journal) : StopsRun(i, s)
<1>1. CASE \E i \in 1..Len(journal) : StopsRun(i, s)
  <2>1. StopsRun(k, s)
    BY <1>1
  <2>2. Inspected(s) = journal[k]
    BY <1>1 DEF Inspected
  <2> QED BY <2>1, <2>2 DEF StopsRun
<1>2. CASE ~ \E i \in 1..Len(journal) : StopsRun(i, s)
  BY <1>2 DEF Inspected
<1> QED BY <1>1, <1>2

\* Recovery, shutdown and the timeout recorder write well-formed snapshots and
\* journals.
LEMMA InterruptedType ==
  ASSUME TypeOK, NEW s \in Snapshot
  PROVE  Interrupted(s) \in Snapshot /\ InterruptedJournal(s) \in JournalType
<1>1. Inspected(s) \in {"RUNNING"} \cup Terminal
  BY InspectedType
<1>2. Len(journal) \in Nat /\ journal \in JournalType
  BY DEF TypeOK, JournalType
<1>3. {"RUNNING", "PAUSED"} \cup Terminal \subseteq Status
  BY DEF Status
<1>4. Interrupted(s) \in Snapshot
  BY <1>1, <1>2, <1>3, MovedType DEF Interrupted
<1>5. InterruptedJournal(s) \in JournalType
  BY <1>2, AppendType DEF InterruptedJournal
<1> QED BY <1>4, <1>5

LEMMA TypeInit == Init => TypeOK
<1> SUFFICES ASSUME Init PROVE TypeOK
  OBVIOUS
<1>1. /\ snap \in Snapshot
      /\ mem \in [Proc -> Snapshot] /\ read \in [Proc -> Snapshot]
      /\ tmp \in [Proc -> Snapshot]
  BY SnapshotType DEF Init
<1>2. journal \in Seq({"event"} \cup Terminal)
  BY DEF Init
<1>3. up \in [Proc -> Life] /\ ph \in [Proc -> Phase] /\ at \in [Proc -> BOOLEAN]
  BY DEF Init, Life, Phase
<1> QED BY <1>1, <1>2, <1>3 DEF Init, TypeOK

LEMMA TypeNext == TypeOK /\ [Next]_vars => TypeOK'
<1> SUFFICES ASSUME TypeOK, [Next]_vars PROVE TypeOK'
  OBVIOUS
<1> USE ConstantsAssumption
<1>a. /\ snap \in Snapshot
      /\ journal \in JournalType /\ Len(journal) + 1 \in Nat
      /\ \A p \in Proc : {mem[p], read[p], tmp[p]} \subseteq Snapshot
  BY DEF TypeOK, JournalType
<1>b. /\ {"RUNNING", "PAUSED", "FINISHED", "FAILED", "CANCELED"} \subseteq Status
      /\ Terminal = {"FINISHED", "FAILED", "CANCELED"}
  BY DEF Status, Terminal
<1>c. /\ Interrupted(snap) \in Snapshot
      /\ InterruptedJournal(snap) \in JournalType
  BY <1>a, InterruptedType
<1>d. \A e \in {"event"} \cup Terminal : Append(journal, e) \in JournalType
  BY <1>a, AppendType
<1>e. \A s \in Snapshot, st \in Status, n \in Nat : Moved(s, st, n) \in Snapshot
  BY MovedType
<1>f. \A s \in Snapshot, r \in BOOLEAN : Requested(s, r) \in Snapshot
  BY RequestedType
<1>g. PauseRequested \in BOOLEAN
  BY DEF PauseRequested
<1>h. \A s \in Snapshot : CarryRequest(s) \in Snapshot
  <2> TAKE s \in Snapshot
  <2>1. (s.pauseReq \/ PauseRequested) \in BOOLEAN
    OBVIOUS
  <2> QED BY <2>1, <1>f DEF CarryRequest
<1>i. \A n \in Nat : PausedAt(n) \in Snapshot
  BY <1>b, SnapshotType DEF PausedAt
<1>1. ASSUME NEW p \in Proc, Entering(p) PROVE TypeOK'
  <2>1. \E m \in {"start", "resume"}, s \in Snapshot, l \in {"none", "acquire"} :
          /\ pend' = [pend EXCEPT ![p] = m]
          /\ read' = [read EXCEPT ![p] = s]
          /\ ctl' = [ctl EXCEPT ![p] = l]
    BY <1>1, <1>a, SnapshotType DEF Entering, Start, StartStream, Resume,
       ResumeStream, Create, Open, Enter
  <2>2. /\ snap' \in Snapshot /\ young' \in BOOLEAN
        /\ UNCHANGED <<owner, expired, gen, journal, recGen, up, task, tmp>>
    BY <1>1, <1>a, SnapshotType DEF TypeOK, Entering, Start, StartStream, Resume,
       ResumeStream, Create, Open, db
  <2> QED BY <2>1, <2>2 DEF TypeOK, task
<1>2. ASSUME NEW p \in Proc, Acquiring(p) PROVE TypeOK'
  <2>1. CASE Acquire(p)
    <3>1. \A s \in Resumed(read[p]) : s \in Snapshot
      <4>1. Moved(read[p], "RUNNING", read[p].applied) \in Snapshot
        BY <1>a, <1>b, <1>e, SnapshotType
      <4> QED BY <4>1, <1>a, <1>f, SnapshotType DEF Resumed
    <3>2. \E s \in Snapshot : mem' = [mem EXCEPT ![p] = s]
      <4>1. \A s \in IF pend[p] = "start" THEN {read[p]} ELSE Resumed(read[p]) :
              s \in Snapshot
        BY <3>1, <1>a
      <4> QED BY <2>1, <4>1, <1>a DEF Acquire, Begin
    <3>3. \E next \in Phase : Goto(p, next)
      BY <2>1 DEF Acquire, Begin, Phase, SyncPhase
    <3>4. Absent \in Snapshot
      BY SnapshotType
    <3>5. mem' \in [Proc -> Snapshot] /\ ph' \in [Proc -> Phase]
      BY <3>2, <3>3 DEF TypeOK, Goto
    <3>6. /\ pend' \in [Proc -> {"none", "start", "resume"}]
          /\ read' \in [Proc -> Snapshot]
          /\ ctl' \in [Proc -> {"none", "acquire", "write", "shutdown"}]
      BY <2>1, <3>4 DEF TypeOK, Acquire
    <3>7. /\ owner' \in Proc \cup {NoProc} /\ expired' \in BOOLEAN
          /\ gen' \in Nat /\ myGen' \in [Proc -> Nat]
      <4>1. /\ owner' = p /\ expired' = FALSE
            /\ gen' = gen + 1 /\ myGen' = [myGen EXCEPT ![p] = gen + 1]
        BY <2>1 DEF Acquire, NextGeneration
      <4>2. gen \in Nat /\ myGen \in [Proc -> Nat]
        BY DEF TypeOK
      <4>3. expired' \in BOOLEAN
        BY <4>1
      <4>4. gen' \in Nat /\ myGen' \in [Proc -> Nat]
        BY <4>1, <4>2
      <4> QED BY <4>1, <4>3, <4>4
    <3>8. UNCHANGED <<snap, young, journal, recGen, up, at, tmp>>
      BY <2>1 DEF Acquire
    <3> QED BY <3>5, <3>6, <3>7, <3>8 DEF TypeOK
  <2>2. CASE AcquireRefused(p)
    BY <2>2, SnapshotType DEF TypeOK, AcquireRefused, db, task
  <2> QED BY <1>2, <2>1, <2>2 DEF Acquiring
<1>3. ASSUME NEW p \in Proc, Observing(p) PROVE TypeOK'
  <2>1. CASE ObserveCanceled(p)
    BY <2>1 DEF TypeOK, Goto, Phase, ObserveCanceled, db, entry, ctrl
  <2>2. CASE ObserveDelta(p)
    BY <2>2, <1>a, <1>d, <1>e, SnapshotType DEF TypeOK, JournalType, ObserveDelta,
       entry, ctrl
  <2>3. ASSUME NEW c \in BOOLEAN, ObserveEvent(p, c) PROVE TypeOK'
    <3>1. mem' \in [Proc -> Snapshot]
      <4>1. CarryRequest(Moved(mem[p], mem[p].status, Len(journal) + 1)) \in Snapshot
        BY <1>a, <1>e, <1>h, SnapshotType
      <4>2. PausedAt(Len(journal) + 2) \in Snapshot
        <5>1. Len(journal) + 2 \in Nat
          BY DEF TypeOK
        <5> QED BY <5>1, <1>i
      <4> QED BY <2>3, <4>1, <4>2 DEF TypeOK, ObserveEvent
    <3>2. journal' \in JournalType
      <4>1. Append(journal, "event") \in JournalType
        BY <1>d
      <4>2. Append(Append(journal, "event"), "event") \in JournalType
        BY <4>1, AppendType
      <4> QED BY <2>3, <4>1, <4>2 DEF ObserveEvent
    <3> QED BY <2>3, <3>1, <3>2 DEF TypeOK, JournalType, Goto, Phase, SyncPhase,
               ObserveEvent, entry, ctrl
  <2>4. ASSUME NEW o \in {"FINISHED", "FAILED", "PAUSED"}, ObserveOutcome(p, o)
        PROVE TypeOK'
    <3>1. journal' \in JournalType
      BY <2>4, <1>b, <1>d DEF ObserveOutcome, Journaled
    <3>2. mem' \in [Proc -> Snapshot]
      BY <2>4, <1>a, <1>b, <1>e DEF TypeOK, ObserveOutcome
    <3> QED BY <2>4, <3>1, <3>2 DEF TypeOK, JournalType, Goto, Phase, SyncPhase,
               ObserveOutcome, entry, ctrl
  <2> QED BY <1>3, <2>1, <2>2, <2>3, <2>4 DEF Observing
<1>4. ASSUME NEW p \in Proc, Finishing(p) PROVE TypeOK'
  <2>1. CASE SaveSnapshot(p)
    BY <2>1, <1>a DEF TypeOK, SaveSnapshot, Save, Goto, Phase, entry, ctrl
  <2>2. CASE MarkFailed(p)
    <3>1. Moved(snap, "FAILED", Len(journal) + 1) \in Snapshot
      BY <1>a, <1>b, <1>e
    <3>2. mem' \in [Proc -> Snapshot]
      BY <2>2, <3>1 DEF TypeOK, MarkFailed
    <3>3. journal' \in JournalType
      BY <2>2, <1>a, <1>b, <1>d DEF MarkFailed
    <3>4. \E next \in Phase : Goto(p, next)
      BY <2>2 DEF MarkFailed, Phase, SyncPhase
    <3>5. UNCHANGED <<snap, owner, expired, gen, young, recGen, up, myGen, at, entry, ctrl>>
      BY <2>2 DEF MarkFailed
    <3> QED BY <3>2, <3>3, <3>4, <3>5 DEF TypeOK, JournalType, Goto, entry, ctrl
  <2>3. CASE MarkTimeout(p)
    <3>1. mem' \in [Proc -> Snapshot] /\ journal' \in JournalType
      <4>1. mem \in [Proc -> Snapshot]
        BY DEF TypeOK
      <4>2. \/ /\ journal' = InterruptedJournal(snap)
               /\ mem' = [mem EXCEPT ![p] = Interrupted(snap)]
            \/ journal' = journal /\ mem' = mem
        BY <2>3 DEF MarkTimeout
      <4>3. CASE journal' = InterruptedJournal(snap) /\ mem' = [mem EXCEPT ![p] = Interrupted(snap)]
        BY <4>1, <4>3, <1>c
      <4>4. CASE journal' = journal /\ mem' = mem
        BY <4>1, <4>4, <1>a
      <4> QED BY <4>2, <4>3, <4>4
    <3>2. \E next \in Phase : Goto(p, next)
      BY <2>3 DEF MarkTimeout, Phase, SyncPhase
    <3>3. UNCHANGED <<snap, owner, expired, gen, young, recGen, up, myGen, at, entry, ctrl>>
      BY <2>3 DEF MarkTimeout
    <3> QED BY <3>1, <3>2, <3>3 DEF TypeOK, JournalType, Goto, entry, ctrl
  <2>4. CASE RecordFailure(p)
    BY <2>4, <1>a DEF TypeOK, RecordFailure, Save, Goto, Phase, entry, ctrl
  <2>5. CASE ControlSave(p)
    BY <2>5, <1>a, SnapshotType DEF TypeOK, Life, ControlSave, entry, task
  <2>6. CASE Acquiring(p)
    BY <2>6, <1>2
  <2> QED BY <1>4, <2>1, <2>2, <2>3, <2>4, <2>5, <2>6 DEF Finishing
<1>5. ASSUME NEW p \in Proc, Scheduled(p) PROVE TypeOK'
  <2>1. CASE Recheck(p)
    <3>1. PausedAt(Len(journal) + 1) \in Snapshot /\ CarryRequest(mem[p]) \in Snapshot
      BY <1>a, <1>h, <1>i
    <3>2. mem' \in [Proc -> Snapshot]
      BY <2>1, <3>1 DEF TypeOK, Recheck
    <3>3. journal' \in JournalType
      BY <2>1, <1>a, <1>d DEF Recheck
    <3>4. \E next \in Phase : Goto(p, next)
      BY <2>1 DEF Recheck, Phase, SyncPhase
    <3>5. UNCHANGED <<snap, owner, expired, gen, young, recGen, up, myGen, at, entry, ctrl>>
      BY <2>1 DEF Recheck
    <3> QED BY <3>2, <3>3, <3>4, <3>5 DEF TypeOK, JournalType, Goto, entry, ctrl
  <2>2. CASE Timeout(p)
    BY <2>2 DEF TypeOK, Goto, Phase, Timeout, db, entry, ctrl
  <2>3. CASE Unwind(p)
    <3>1. snap' \in Snapshot
      BY <2>3, <1>a DEF Unwind, Save
    <3>2. \E next \in Phase : Goto(p, next)
      BY <2>3 DEF Unwind, Save, Phase, SyncPhase
    <3>3. UNCHANGED <<owner, expired, gen, young, journal, recGen, up, myGen, mem, at,
                      entry, ctrl>>
      BY <2>3 DEF Unwind
    <3> QED BY <3>1, <3>2, <3>3 DEF TypeOK, Goto, entry, ctrl
  <2>4. CASE Release(p)
    BY <2>4, SnapshotType DEF TypeOK, Goto, Phase, Release, ReleaseLease,
       ClearLease, entry, ctrl
  <2> QED BY <1>5, <2>1, <2>2, <2>3, <2>4 DEF Scheduled
<1>6. ASSUME NEW p \in Proc, Boot(p) PROVE TypeOK'
  BY <1>6, <1>c DEF TypeOK, JournalType, Life, Boot, RecoverRun, ClearLease, db,
     task, entry, ctrl
<1>7. ASSUME NEW p \in Proc, Recover(p) PROVE TypeOK'
  BY <1>7, <1>c DEF TypeOK, JournalType, Recover, RecoverRun, ClearLease, task,
     entry, ctrl
<1>8. ASSUME NEW p \in Proc, Fault(p) PROVE TypeOK'
  <2>1. snap' \in Snapshot
    BY <1>8, <1>a DEF Fault, Save
  <2>2. \E next \in Phase : Goto(p, next)
    BY <1>8 DEF Fault, Save, Phase, SyncPhase
  <2>3. UNCHANGED <<owner, expired, gen, young, journal, recGen, up, myGen, mem, at,
                    entry, ctrl>>
    BY <1>8 DEF Fault
  <2> QED BY <2>1, <2>2, <2>3 DEF TypeOK, Goto, entry, ctrl
<1>9. ASSUME NEW p \in Proc, HeartbeatRenews(p) \/ HeartbeatLost(p) PROVE TypeOK'
  BY <1>9 DEF TypeOK, Goto, Phase, HeartbeatRenews, HeartbeatLost, db, task, entry,
     ctrl
<1>10. ASSUME NEW p \in Proc, Controlling(p) PROVE TypeOK'
  <2>1. CASE Pause(p)
    BY <2>1, <1>a, <1>f DEF TypeOK, Pause, Prepare, db, task, entry
  <2>2. CASE Cancel(p)
    <3>1. Moved(snap, "CANCELED", Len(journal) + 1) \in Snapshot
      BY <1>a, <1>b, <1>e
    <3>2. ph' \in [Proc -> Phase]
      BY <2>2 DEF TypeOK, Cancel, Goto, Phase
    <3> QED BY <2>2, <3>1, <3>2, <1>b, <1>d DEF TypeOK, JournalType, Cancel, Prepare,
               entry
  <2>3. CASE Annotate(p)
    <3>1. Moved(snap, snap.status, Len(journal) + 1) \in Snapshot
      BY <1>a, <1>e, SnapshotType
    <3> QED BY <2>3, <3>1, <1>d DEF TypeOK, JournalType, Annotate, Prepare, task,
               entry
  <2> QED BY <1>10, <2>1, <2>2, <2>3 DEF Controlling
<1>11. ASSUME NEW p \in Proc, Stopping(p) PROVE TypeOK'
  <2>1. CASE Close(p)
    BY <2>1 DEF TypeOK, Life, Close, db, task, entry, ctrl
  <2>2. CASE PauseRunningStates(p)
    <3>1. UNCHANGED <<snap, owner, expired, gen, young, recGen, task, entry>>
      BY <2>2 DEF PauseRunningStates
    <3>2. CASE snap.status = "RUNNING"
      <4>1. /\ tmp' = [tmp EXCEPT ![p] = Interrupted(snap)]
            /\ journal' = InterruptedJournal(snap)
            /\ ctl' = [ctl EXCEPT ![p] = "shutdown"]
            /\ up' = up
        BY <2>2, <3>2 DEF PauseRunningStates
      <4> QED BY <3>1, <4>1, <1>c DEF TypeOK, JournalType, task, entry
    <3>3. CASE snap.status # "RUNNING"
      BY <2>2, <3>1, <3>3 DEF TypeOK, Life, PauseRunningStates, task, entry, ctrl
    <3> QED BY <3>2, <3>3
  <2>3. CASE Gone(p)
    BY <2>3, SnapshotType DEF TypeOK, Life, Phase, Gone, db
  <2> QED BY <1>11, <2>1, <2>2, <2>3 DEF Stopping, Exit, Crash
<1>12. CASE Age \/ LeaseExpires
  BY <1>12 DEF TypeOK, Age, LeaseExpires, task, entry, ctrl
<1>13. CASE UNCHANGED vars
  BY <1>13 DEF TypeOK, vars, db, task, entry, ctrl
<1> QED
  BY <1>1, <1>2, <1>3, <1>4, <1>5, <1>6, <1>7, <1>8, <1>9, <1>10, <1>11, <1>12,
     <1>13 DEF Next

\* The row, the journal and every process stay well-formed.
THEOREM TypeCorrect == Spec => []TypeOK
<1>1. Init => TypeOK
  BY TypeInit
<1>2. TypeOK /\ [Next]_vars => TypeOK'
  BY TypeNext
<1> QED BY <1>1, <1>2, PTL DEF Spec

-----------------------------------------------------------------------------
(* Fencing: which executions pass the WHERE clause of a fenced save.       *)
(* FencingTokensUnique and LeaseHeldByTask are not inductive: a fresh      *)
(* generation is new because no context is ahead of the row's, a lease     *)
(* that recovery cleared stays behind because nobody is granted the        *)
(* generation of the recovery, and a process that has not started or is    *)
(* gone has no task.                                                       *)

GenerationsBounded ==
  /\ recGen <= gen
  /\ \A p \in Proc : myGen[p] <= gen

GrantedSinceRecovery == owner # NoProc => recGen < gen

TasksOfTheLiving == \A p \in Proc : ~Alive(p) => ph[p] = "idle"

ShutdownOfTheLiving == \A p \in Proc : ctl[p] = "shutdown" => up[p] = "draining"

NoLeaseBeforeBoot == \A p \in Proc : up[p] = "new" => owner # p

FencingInv ==
  /\ TypeOK
  /\ GenerationsBounded
  /\ GrantedSinceRecovery
  /\ TasksOfTheLiving
  /\ ShutdownOfTheLiving
  /\ NoLeaseBeforeBoot
  /\ LeaseHeldByTask
  /\ FencingTokensUnique

\* A step that moves no lease and neither begins nor ends a task or a process.
LeasesUndisturbed ==
  /\ UNCHANGED <<owner, gen, recGen, myGen>>
  /\ \A q \in Proc : /\ ph'[q] = "idle" <=> ph[q] = "idle"
                     /\ up'[q] = "new" <=> up[q] = "new"
                     /\ Alive(q)' <=> Alive(q)

\* Recovery clears the lease of the row and remembers its generation.
LeaseCleared ==
  /\ owner' = NoProc
  /\ gen' = gen
  /\ recGen' = gen
  /\ UNCHANGED <<myGen, ph>>

\* Every other way a task advances leaves the leases alone.
LEMMA AdvanceUndisturbed ==
  ASSUME NEW p \in Proc, TypeOK, UNCHANGED <<owner, gen, recGen, myGen, up>>,
         ph[p] # "idle", NEW next \in Phase \ {"idle"}, Goto(p, next)
  PROVE  LeasesUndisturbed
BY DEF TypeOK, Goto, LeasesUndisturbed, Alive

LEMMA RestUndisturbed ==
  ASSUME UNCHANGED <<owner, gen, recGen, myGen, up, ph>>
  PROVE  LeasesUndisturbed
BY DEF LeasesUndisturbed, Alive

\* What each step of the program does to the lease.
LEMMA LeaseSteps ==
  ASSUME FencingInv, [Next]_vars
  PROVE  \/ LeasesUndisturbed
         \/ LeaseCleared /\ UNCHANGED up
         \/ \E p \in Proc : Acquire(p) \/ Release(p) \/ Boot(p) \/ Gone(p)
<1> DEFINE Goal == \/ LeasesUndisturbed
                   \/ LeaseCleared /\ UNCHANGED up
                   \/ \E p \in Proc : Acquire(p) \/ Release(p) \/ Boot(p) \/ Gone(p)
<1>0. TypeOK
  BY DEF FencingInv
<1>1. ASSUME NEW p \in Proc, Entering(p) PROVE Goal
  BY <1>1, RestUndisturbed DEF Entering, Start, StartStream, Resume, ResumeStream,
     Create, Open, Enter, task, db
<1>2. ASSUME NEW p \in Proc, Acquiring(p) PROVE Goal
  BY <1>2, RestUndisturbed DEF Acquiring, AcquireRefused, db, task
<1>3. ASSUME NEW p \in Proc, Observing(p) PROVE Goal
  <2>1. CASE ObserveCanceled(p)
    BY <1>0, <2>1, AdvanceUndisturbed DEF ObserveCanceled, Running, db, Phase
  <2>2. CASE ObserveDelta(p)
    BY <2>2, RestUndisturbed DEF ObserveDelta
  <2>3. ASSUME NEW c \in BOOLEAN, ObserveEvent(p, c) PROVE Goal
    BY <1>0, <2>3, AdvanceUndisturbed DEF ObserveEvent, Running, Phase, SyncPhase
  <2>4. ASSUME NEW o \in {"FINISHED", "FAILED", "PAUSED"}, ObserveOutcome(p, o)
        PROVE Goal
    BY <1>0, <2>4, AdvanceUndisturbed DEF ObserveOutcome, Running, Phase, SyncPhase
  <2> QED BY <1>3, <2>1, <2>2, <2>3, <2>4 DEF Observing
<1>4. ASSUME NEW p \in Proc, Finishing(p) PROVE Goal
  <2>1. CASE SaveSnapshot(p)
    BY <1>0, <2>1, AdvanceUndisturbed DEF SaveSnapshot, Save, Phase
  <2>2. CASE MarkFailed(p)
    BY <1>0, <2>2, AdvanceUndisturbed DEF MarkFailed, Phase, SyncPhase
  <2>3. CASE MarkTimeout(p)
    BY <1>0, <2>3, AdvanceUndisturbed DEF MarkTimeout, Phase, SyncPhase
  <2>4. CASE RecordFailure(p)
    BY <1>0, <2>4, AdvanceUndisturbed DEF RecordFailure, Save, Phase
  <2>5. CASE ControlSave(p)
    <3>1. UNCHANGED <<owner, gen, recGen, myGen, ph>>
      BY <2>5 DEF ControlSave, task
    <3>2. CASE ctl[p] = "shutdown"
      <4>1. up[p] = "draining" /\ up' = [up EXCEPT ![p] = "closed"]
        BY <2>5, <3>2 DEF ControlSave, FencingInv, ShutdownOfTheLiving
      <4> QED BY <1>0, <3>1, <4>1 DEF TypeOK, LeasesUndisturbed, Alive
    <3>3. CASE ctl[p] # "shutdown"
      BY <2>5, <3>1, <3>3, RestUndisturbed DEF ControlSave
    <3> QED BY <3>2, <3>3
  <2> QED BY <1>2, <1>4, <2>1, <2>2, <2>3, <2>4, <2>5 DEF Finishing
<1>5. ASSUME NEW p \in Proc, Scheduled(p) PROVE Goal
  <2>1. CASE Recheck(p)
    BY <1>0, <2>1, AdvanceUndisturbed DEF Recheck, Phase, SyncPhase
  <2>2. CASE Timeout(p)
    BY <1>0, <2>2, AdvanceUndisturbed DEF Timeout, db, Phase
  <2>3. CASE Unwind(p)
    BY <1>0, <2>3, AdvanceUndisturbed DEF Unwind, Save, Phase, SyncPhase
  <2> QED BY <1>5, <2>1, <2>2, <2>3 DEF Scheduled
<1>6. ASSUME NEW p \in Proc, Recover(p) PROVE Goal
  BY <1>6 DEF Recover, RecoverRun, ClearLease, LeaseCleared, task
<1>7. ASSUME NEW p \in Proc, Fault(p) PROVE Goal
  BY <1>0, <1>7, AdvanceUndisturbed DEF Fault, Save, Phase, SyncPhase
<1>8. ASSUME NEW p \in Proc, HeartbeatRenews(p) \/ HeartbeatLost(p) PROVE Goal
  <2>1. CASE HeartbeatRenews(p)
    BY <2>1, RestUndisturbed DEF HeartbeatRenews, task
  <2>2. CASE HeartbeatLost(p)
    BY <1>0, <2>2, AdvanceUndisturbed DEF HeartbeatLost, db, Phase
  <2> QED BY <1>8, <2>1, <2>2
<1>9. ASSUME NEW p \in Proc, Controlling(p) PROVE Goal
  <2>1. CASE Cancel(p)
    <3>1. UNCHANGED <<owner, gen, recGen, myGen, up>>
      BY <2>1 DEF Cancel
    <3>2. CASE ph[p] \in {"exec", "reject", "yielded", "unwindTimeout"}
      BY <1>0, <2>1, <3>1, <3>2, AdvanceUndisturbed DEF Cancel, Phase
    <3>3. CASE ph[p] \notin {"exec", "reject", "yielded", "unwindTimeout"}
      <4>1. ph' = ph
        BY <1>0, <2>1, <3>3 DEF Cancel, Goto, TypeOK
      <4> QED BY <3>1, <4>1, RestUndisturbed
    <3> QED BY <3>2, <3>3
  <2> QED BY <1>9, <2>1, RestUndisturbed DEF Controlling, Pause, Annotate, task, db
<1>10. ASSUME NEW p \in Proc, Stopping(p) PROVE Goal
  <2>1. CASE Close(p)
    BY <1>0, <2>1 DEF Close, LeasesUndisturbed, Alive, TypeOK, db, task
  <2>2. CASE PauseRunningStates(p)
    BY <1>0, <2>2 DEF PauseRunningStates, LeasesUndisturbed, Alive, TypeOK, task
  <2> QED BY <1>10, <2>1, <2>2 DEF Stopping, Exit, Crash
<1>11. CASE Age \/ LeaseExpires \/ UNCHANGED vars
  BY <1>11, RestUndisturbed DEF Age, LeaseExpires, vars, db, task
<1>12. \A p \in Proc : Boot(p) \/ Release(p) => Goal
  OBVIOUS
<1> QED
  BY <1>1, <1>2, <1>3, <1>4, <1>5, <1>6, <1>7, <1>8, <1>9, <1>10, <1>11, <1>12 DEF Next

\* Only a process that is draining gets into the pausing half of its shutdown,
\* and only that half, or its end, takes it out of draining.
LEMMA ShutdownNext ==
  ASSUME TypeOK, ShutdownOfTheLiving, [Next]_vars
  PROVE  ShutdownOfTheLiving'
<1> USE DEF TypeOK, ShutdownOfTheLiving
<1>1. ASSUME UNCHANGED <<up, ctl>> PROVE ShutdownOfTheLiving'
  BY <1>1
<1>2. ASSUME NEW p \in Proc, UNCHANGED up, NEW c \in {"none", "acquire", "write"},
             ctl' = [ctl EXCEPT ![p] = c]
      PROVE  ShutdownOfTheLiving'
  BY <1>2
<1>3. ASSUME NEW p \in Proc, Entering(p) PROVE ShutdownOfTheLiving'
  BY <1>3, <1>2 DEF Entering, Start, StartStream, Resume, ResumeStream, Create,
     Open, Enter
<1>4. ASSUME NEW p \in Proc, Acquiring(p) PROVE ShutdownOfTheLiving'
  BY <1>4, <1>2 DEF Acquiring, Acquire, AcquireRefused
<1>5. ASSUME NEW p \in Proc, Observing(p) \/ Scheduled(p) \/ Fault(p) \/ Recover(p)
             \/ HeartbeatRenews(p) \/ HeartbeatLost(p)
      PROVE ShutdownOfTheLiving'
  BY <1>5, <1>1 DEF Observing, ObserveCanceled, ObserveDelta, ObserveEvent,
     ObserveOutcome, Scheduled, Recheck, Timeout, Unwind, Release, Fault, Recover,
     HeartbeatRenews, HeartbeatLost, ctrl
<1>6. ASSUME NEW p \in Proc, Finishing(p) PROVE ShutdownOfTheLiving'
  <2>1. CASE ControlSave(p)
    BY <2>1 DEF ControlSave
  <2> QED BY <1>6, <2>1, <1>1, <1>4 DEF Finishing, SaveSnapshot, MarkFailed,
             MarkTimeout, RecordFailure, ctrl
<1>7. ASSUME NEW p \in Proc, Controlling(p) PROVE ShutdownOfTheLiving'
  BY <1>7, <1>2 DEF Controlling, Pause, Cancel, Annotate, Prepare
<1>8. ASSUME NEW p \in Proc, Boot(p) PROVE ShutdownOfTheLiving'
  BY <1>8 DEF Boot, ctrl
<1>9. ASSUME NEW p \in Proc, Stopping(p) PROVE ShutdownOfTheLiving'
  <2>1. CASE Close(p)
    BY <2>1 DEF Close, ctrl
  <2>2. CASE PauseRunningStates(p)
    <3>1. up[p] = "draining" /\ ctl[p] = "none"
      BY <2>2 DEF PauseRunningStates, Busy
    <3>2. \/ UNCHANGED up /\ ctl' = [ctl EXCEPT ![p] = "shutdown"]
          \/ UNCHANGED ctl /\ up' = [up EXCEPT ![p] = "closed"]
      BY <2>2 DEF PauseRunningStates, ctrl
    <3> QED BY <3>1, <3>2
  <2>3. CASE Gone(p)
    BY <2>3 DEF Gone
  <2> QED BY <1>9, <2>1, <2>2, <2>3 DEF Stopping, Exit, Crash
<1>10. CASE Age \/ LeaseExpires \/ UNCHANGED vars
  BY <1>10, <1>1 DEF Age, LeaseExpires, vars, ctrl
<1> QED BY <1>3, <1>4, <1>5, <1>6, <1>7, <1>8, <1>9, <1>10 DEF Next

LEMMA FencingInit == Init => FencingInv
<1> SUFFICES ASSUME Init PROVE FencingInv
  OBVIOUS
<1>1. TypeOK
  BY TypeInit
<1> QED
  BY <1>1, ConstantsAssumption DEF Init, FencingInv, GenerationsBounded,
     GrantedSinceRecovery, TasksOfTheLiving, ShutdownOfTheLiving,
     NoLeaseBeforeBoot, LeaseHeldByTask, FencingTokensUnique, Alive

\* The part of the invariant that is about leases and tasks.
LeaseInv ==
  /\ GenerationsBounded
  /\ GrantedSinceRecovery
  /\ TasksOfTheLiving
  /\ NoLeaseBeforeBoot
  /\ LeaseHeldByTask
  /\ FencingTokensUnique

LEMMA FencingNext == FencingInv /\ [Next]_vars => FencingInv'
<1> SUFFICES ASSUME FencingInv, [Next]_vars PROVE FencingInv'
  OBVIOUS
<1>1. TypeOK'
  BY TypeNext DEF FencingInv
<1>2. ShutdownOfTheLiving'
  BY ShutdownNext DEF FencingInv
<1>3. LeaseInv'
  <2> USE DEF LeaseInv, GenerationsBounded, GrantedSinceRecovery,
          TasksOfTheLiving, NoLeaseBeforeBoot, LeaseHeldByTask, FencingTokensUnique
  <2>0. LeaseInv /\ gen \in Nat /\ recGen \in Nat /\ myGen \in [Proc -> Nat]
          /\ ph \in [Proc -> Phase] /\ up \in [Proc -> Life] /\ NoProc \notin Proc
    BY ConstantsAssumption DEF FencingInv, TypeOK
  <2>1. CASE LeasesUndisturbed
    BY <2>0, <2>1 DEF LeasesUndisturbed
  <2>2. CASE LeaseCleared /\ UNCHANGED up
    BY <2>0, <2>2 DEF LeaseCleared, Alive
  <2>3. ASSUME NEW p \in Proc, Acquire(p) PROVE LeaseInv'
    <3>1. /\ gen' = gen + 1 /\ owner' = p
          /\ myGen' = [myGen EXCEPT ![p] = gen + 1]
          /\ UNCHANGED <<recGen, up>> /\ Alive(p)
      BY <2>3 DEF Acquire, NextGeneration
    <3>2. \E next \in Phase \ {"idle"} : ph' = [ph EXCEPT ![p] = next]
      BY <2>3 DEF Acquire, Begin, Goto, Phase, SyncPhase
    <3>3. \A q \in Proc : (Alive(q)' <=> Alive(q)) /\ up'[q] = up[q]
      BY <3>1 DEF Alive
    <3>4. up[p] # "new"
      BY <3>1 DEF Alive
    <3>5. GenerationsBounded' /\ GrantedSinceRecovery'
      BY <2>0, <3>1
    <3>6. TasksOfTheLiving' /\ NoLeaseBeforeBoot'
      BY <2>0, <3>1, <3>2, <3>3, <3>4
    <3>7. LeaseHeldByTask'
      BY <2>0, <3>1, <3>2
    <3>8. FencingTokensUnique'
      <4> SUFFICES ASSUME NEW q \in Proc, NEW r \in Proc, q # r,
                          ph'[q] # "idle", ph'[r] # "idle"
                   PROVE  myGen'[q] # myGen'[r]
        OBVIOUS
      <4>1. CASE q # p /\ r # p
        BY <2>0, <3>1, <3>2, <4>1
      <4>2. \A t \in Proc \ {p} : myGen'[t] <= gen /\ myGen'[p] = gen + 1
        BY <2>0, <3>1
      <4>3. \A t \in Proc \ {p} : myGen'[t] # myGen'[p]
        BY <2>0, <3>1, <4>2
      <4> QED BY <4>1, <4>3
    <3> QED BY <3>5, <3>6, <3>7, <3>8
  <2>4. ASSUME NEW p \in Proc, Release(p) PROVE LeaseInv'
    <3>1. /\ ph' = [ph EXCEPT ![p] = "idle"] /\ myGen' = [myGen EXCEPT ![p] = 0]
          /\ UNCHANGED <<gen, recGen, up>>
          /\ owner' = IF Fenced(p) THEN NoProc ELSE owner
      BY <2>4 DEF Release, ReleaseLease, ClearLease, Goto
    <3>2. \A q \in Proc : Alive(q)' <=> Alive(q)
      BY <3>1 DEF Alive
    <3>3. owner' \in {owner, NoProc}
      BY <3>1
    <3>4. owner' = p => ~Alive(p)
      BY <2>0, <3>1 DEF Fenced
    <3> QED BY <2>0, <3>1, <3>2, <3>3, <3>4
  <2>5. ASSUME NEW p \in Proc, Boot(p) PROVE LeaseInv'
    <3>1. up[p] = "new" /\ up' = [up EXCEPT ![p] = "up"] /\ UNCHANGED <<ph, myGen>>
      BY <2>5 DEF Boot, task
    <3>2. LeaseCleared \/ UNCHANGED <<owner, gen, recGen>>
      BY <2>5, <3>1 DEF Boot, RecoverRun, ClearLease, LeaseCleared, db
    <3> QED BY <2>0, <3>1, <3>2 DEF LeaseCleared, Alive
  <2>6. ASSUME NEW p \in Proc, Gone(p) PROVE LeaseInv'
    BY <2>0, <2>6 DEF Gone, Alive, db
  <2> QED BY <2>1, <2>2, <2>3, <2>4, <2>5, <2>6, LeaseSteps
<1> QED BY <1>1, <1>2, <1>3 DEF FencingInv, LeaseInv

LEMMA FencingInvariant == Spec => []FencingInv
BY FencingInit, FencingNext, PTL DEF Spec

\* No two lease contexts ever carry the same generation, for any number of
\* processes and however leases expire, are taken over or are cleared.
THEOREM FencingTokens == Spec => []FencingTokensUnique
<1>1. FencingInv => FencingTokensUnique
  BY DEF FencingInv
<1> QED BY <1>1, FencingInvariant, PTL

\* A live process never keeps a lease it has no task for: every way a task can
\* end goes through _finish_execution, or somebody else already holds it.
THEOREM LeasesReleased == Spec => []LeaseHeldByTask
<1>1. FencingInv => LeaseHeldByTask
  BY DEF FencingInv
<1> QED BY <1>1, FencingInvariant, PTL

\* An execution granted before the last recovery of its run never again passes
\* the fence of save_state, heartbeat_lease or release_lease.
THEOREM ZombiesFenced == Spec => []NoZombieWrite
<1>1. FencingInv => NoZombieWrite
  <2> SUFFICES ASSUME FencingInv, NEW p \in Proc, myGen[p] <= recGen, Fenced(p)
               PROVE  FALSE
    BY DEF NoZombieWrite
  <2>1. recGen < gen
    BY ConstantsAssumption DEF FencingInv, GrantedSinceRecovery, Fenced
  <2> QED BY <2>1 DEF FencingInv, TypeOK, Fenced
<1> QED BY <1>1, FencingInvariant, PTL

-----------------------------------------------------------------------------
(***************************************************************************)
(* One server at a time.                                                   *)
(*                                                                         *)
(* What its deployment promises about a run: that it implements            *)
(* AgentRunStatus, that a run the journal stops is not paused, and that a  *)
(* pause request is kept.  Two things are assumed of the behaviour, and    *)
(* needed: one process at a time is alive, one after another and however   *)
(* each ends; and no stream resumes a run from a row that was written      *)
(* since resume_stream read it, as a stale read would be saved over it     *)
(* (see CancelFinal and OutcomeFinal).  A deployment with one server whose *)
(* clients do not use resume_stream gives both (SingleServer).             *)
(***************************************************************************)

\* A stream acquires its lease while the row is what it has read.
StreamsAreFresh ==
  \A p \in Proc :
    Acquire(p) /\ pend[p] = "resume" /\ ctl[p] # "acquire" => read[p] = snap

FreshStreams == [][StreamsAreFresh]_vars

\* The invariant relates, for the one process alive, the row to what its event
\* loop and its task are about to write.
Quiet(p) == ph[p] = "idle" /\ pend[p] = "none" /\ ctl[p] = "none"

OneServer == \A p, q \in Proc : Alive(p) /\ Alive(q) => p = q

DeadAreQuiet == \A p \in Proc : ~Alive(p) => Quiet(p)

UntouchedBeforeCreate ==
  snap.status = "ABSENT" => journal = <<>> /\ \A p \in Proc : Quiet(p)

\* No event that the snapshot has not applied stops the run.
NoStopBehind ==
  \A i \in 1..Len(journal) : i > snap.applied => journal[i] \notin Terminal

Canceling(p) == ctl[p] = "write" /\ tmp[p].status = "CANCELED"

\* A start not acquired yet is alone with its row, which others may pause or
\* cancel; a resume that is not a stream acquires the row it read.
EntryCoherent(p) ==
  /\ ctl[p] = "acquire" => pend[p] # "none"
  /\ pend[p] = "start" =>
       /\ ph[p] = "idle"
       /\ read[p] = NewState
       /\ snap.status \in {"RUNNING", "PAUSED", "CANCELED"}
       /\ snap.status = "RUNNING" /\ ~Canceling(p) => NoStopBehind
  /\ pend[p] = "resume" /\ ctl[p] = "acquire" => read[p] = snap

\* A control operation is about to save the row it read, as it is, with a
\* request, canceled (then the task is winding up), or settled by a shutdown.
ControlCoherent(p) ==
  /\ ctl[p] # "none" => ph[p] \notin SyncPhase
  /\ ctl[p] = "write" =>
       /\ snap.status \in {"RUNNING", "PAUSED"}
       /\ \/ tmp[p].status = snap.status
          \/ /\ tmp[p].status = "CANCELED"
             /\ ph[p] \notin {"exec", "reject", "yielded", "unwindTimeout"}
       /\ tmp[p].status = "RUNNING" => tmp[p].pauseReq /\ tmp[p].applied = snap.applied
  /\ ctl[p] = "shutdown" =>
       /\ snap.status = "RUNNING"
       /\ ph[p] \in {"idle", "ending"}
       /\ tmp[p].status \in {"PAUSED"} \cup Terminal
       /\ tmp[p].status = "PAUSED" => Inspected(snap) = "RUNNING"
       /\ pend[p] = "start" => tmp[p].status = "PAUSED"

Stored(p) == snap.status \in {mem[p].status, "CANCELED"}

\* What a task that holds the lease works on, and what is stored meanwhile.
TaskCoherent(p) ==
  /\ ph[p] = "exec" =>
       /\ mem[p].status = "RUNNING"
       /\ snap.status \in {"RUNNING", "PAUSED", "CANCELED"}
       /\ snap.status = "RUNNING" => NoStopBehind
  /\ ph[p] = "save" =>
       /\ snap.status \in {"RUNNING", "PAUSED"}
       /\ mem[p].status \in {"RUNNING", "PAUSED", "FINISHED", "FAILED"}
       /\ mem[p].applied = Len(journal)
       /\ snap.status = "RUNNING" /\ mem[p].status = "PAUSED" => Inspected(snap) = "RUNNING"
       /\ PauseRequested /\ mem[p].status = "RUNNING" => mem[p].pauseReq
  /\ ph[p] = "yielded" =>
       /\ snap.status = mem[p].status
       /\ snap.status = "RUNNING" => NoStopBehind
  /\ ph[p] \in {"reject", "markFailed"} => Stored(p)
  /\ ph[p] \in {"unwind", "unwindTimeout"} =>
       Stored(p) \/ (snap.status = "PAUSED" /\ mem[p].status = "RUNNING")
  /\ ph[p] = "record" =>
       /\ snap.status = "RUNNING"
       /\ mem[p].status \in {"PAUSED"} \cup Terminal
       /\ mem[p].status = "PAUSED" => Inspected(snap) = "RUNNING"

Coherent(p) ==
  /\ EntryCoherent(p)
  /\ ControlCoherent(p)
  /\ Fenced(p) => TaskCoherent(p)

ServerInv ==
  /\ TypeOK
  /\ OneServer
  /\ DeadAreQuiet
  /\ UntouchedBeforeCreate
  /\ \A p \in Proc : Coherent(p)

-----------------------------------------------------------------------------
(* The journal behind the snapshot.                                        *)

LEMMA NothingBehind ==
  ASSUME TypeOK, NoStopBehind
  PROVE  Inspected(snap) = "RUNNING"
BY DEF NoStopBehind, Inspected, StopsRun

\* A journal from which RUNNING is restored has no event that stops the run.
LEMMA RunningHasNoStop ==
  ASSUME TypeOK, NEW s \in Snapshot, Inspected(s) = "RUNNING"
  PROVE  \A i \in 1..Len(journal) : ~StopsRun(i, s)
<1> SUFFICES ASSUME \E i \in 1..Len(journal) : StopsRun(i, s) PROVE FALSE
  OBVIOUS
<1> DEFINE k == CHOOSE i \in 1..Len(journal) : StopsRun(i, s)
<1>1. StopsRun(k, s)
  OBVIOUS
<1>2. Inspected(s) = journal[k]
  BY DEF Inspected
<1> QED BY <1>1, <1>2 DEF StopsRun, Terminal

\* The journal grew by ordinary events, which stop nothing.
GrownByEvents ==
  /\ Len(journal') >= Len(journal)
  /\ \A i \in 1..Len(journal) : journal'[i] = journal[i]
  /\ \A i \in 1..Len(journal') : i > Len(journal) => journal'[i] = "event"

LEMMA AppendGrows ==
  ASSUME TypeOK,
         \/ journal' = Append(journal, "event")
         \/ journal' = Append(Append(journal, "event"), "event")
  PROVE  GrownByEvents
<1> DEFINE one == Append(journal, "event")
           two == Append(one, "event")
<1>0. journal \in JournalType /\ Len(journal) \in Nat
  BY DEF TypeOK, JournalType
<1>1. /\ one \in JournalType /\ Len(one) = Len(journal) + 1
      /\ \A i \in 1..Len(journal) : one[i] = journal[i]
      /\ one[Len(journal) + 1] = "event"
  BY <1>0 DEF JournalType
<1>2. /\ Len(two) = Len(journal) + 2
      /\ \A i \in 1..Len(one) : two[i] = one[i]
      /\ two[Len(journal) + 2] = "event"
  BY <1>0, <1>1 DEF JournalType
<1>3. CASE journal' = one
  BY <1>0, <1>1, <1>3 DEF GrownByEvents
<1>4. CASE journal' = two
  BY <1>0, <1>1, <1>2, <1>4 DEF GrownByEvents
<1> QED BY <1>3, <1>4

LEMMA EventsStopNothing ==
  ASSUME TypeOK, TypeOK', snap' = snap, GrownByEvents
  PROVE  /\ NoStopBehind => NoStopBehind'
         /\ Inspected(snap) = "RUNNING" => Inspected(snap)' = "RUNNING"
<1>1. /\ Len(journal') >= Len(journal) /\ Len(journal) \in Nat /\ Len(journal') \in Nat
      /\ \A i \in 1..Len(journal) : journal'[i] = journal[i]
      /\ \A i \in 1..Len(journal') : i > Len(journal) => journal'[i] = "event"
  BY DEF TypeOK, GrownByEvents
<1>2. \A i \in 1..Len(journal') : i \in 1..Len(journal) \/ i > Len(journal)
  BY <1>1
<1>3. "event" \notin Terminal /\ "RUNNING" \notin Terminal
  BY DEF Terminal
<1>4. NoStopBehind => NoStopBehind'
  BY <1>1, <1>2, <1>3 DEF NoStopBehind
<1>5. ASSUME Inspected(snap) = "RUNNING" PROVE Inspected(snap)' = "RUNNING"
  <2>1. \A i \in 1..Len(journal) : ~StopsRun(i, snap)
    BY <1>5, RunningHasNoStop DEF TypeOK
  <2>2. ASSUME NEW i \in 1..Len(journal'), StopsRun(i, snap)' PROVE FALSE
    <3>1. i > snap.applied /\ journal'[i] \in Terminal
          /\ \A j \in (i + 1)..Len(journal') : journal'[j] \notin Terminal
      BY <2>2 DEF StopsRun
    <3>2. i \in 1..Len(journal)
      BY <1>1, <1>2, <1>3, <3>1
    <3>3. \A j \in (i + 1)..Len(journal) : j \in 1..Len(journal) /\ j \in (i + 1)..Len(journal')
      BY <1>1, <3>2
    <3>4. StopsRun(i, snap)
      BY <1>1, <3>1, <3>2, <3>3 DEF StopsRun
    <3> QED BY <2>1, <3>2, <3>4
  <2> QED BY <2>2 DEF Inspected
<1> QED BY <1>4, <1>5

\* What recovery, shutdown and the timeout recorder make of a running run.
LEMMA InterruptedSettles ==
  ASSUME TypeOK, TypeOK'
  PROVE  /\ Interrupted(snap).status \in {"PAUSED"} \cup Terminal
         /\ Interrupted(snap).status = "PAUSED" <=> Inspected(snap) = "RUNNING"
         /\ snap' = snap /\ journal' = InterruptedJournal(snap)
              /\ Interrupted(snap).status = "PAUSED" => Inspected(snap)' = "RUNNING"
<1>1. Inspected(snap) \in {"RUNNING"} \cup Terminal
  BY InspectedType DEF TypeOK
<1>2. Interrupted(snap).status = IF Inspected(snap) = "RUNNING" THEN "PAUSED"
                                 ELSE Inspected(snap)
  BY DEF Interrupted, Moved
<1>3. "PAUSED" \notin Terminal
  BY DEF Terminal
<1> QED BY <1>1, <1>2, <1>3, AppendGrows, EventsStopNothing DEF InterruptedJournal

-----------------------------------------------------------------------------
(* Every step of a process keeps what its loop and its task know.          *)

Steps(p) ==
  \/ Recover(p) \/ Entering(p) \/ Acquiring(p) \/ Observing(p) \/ Finishing(p)
  \/ Scheduled(p) \/ Fault(p) \/ HeartbeatRenews(p) \/ HeartbeatLost(p)
  \/ Controlling(p) \/ Stopping(p)

LEMMA EnteringCoherent ==
  ASSUME TypeOK, UntouchedBeforeCreate, NEW p \in Proc, Coherent(p), Entering(p)
  PROVE  Coherent(p)'
<1>1. CASE Start(p) \/ StartStream(p)
  <2>1. /\ snap.status = "ABSENT" /\ snap' = NewState
        /\ pend' = [pend EXCEPT ![p] = "start"] /\ read' = [read EXCEPT ![p] = NewState]
        /\ UNCHANGED <<journal, ph>>
        /\ \E loop \in {"acquire", "none"} : ctl' = [ctl EXCEPT ![p] = loop]
    BY <1>1 DEF Start, StartStream, Create, Enter, task
  <2>2. journal = <<>> /\ ph[p] = "idle"
    BY <2>1 DEF UntouchedBeforeCreate, Quiet
  <2>3. NoStopBehind'
    BY <2>1, <2>2 DEF NoStopBehind
  <2>4. /\ ctl'[p] \in {"acquire", "none"} /\ pend'[p] = "start" /\ ph'[p] = "idle"
        /\ read'[p] = NewState
    BY <2>1, <2>2 DEF TypeOK
  <2>5. EntryCoherent(p)' /\ ControlCoherent(p)' /\ TaskCoherent(p)'
    BY <2>1, <2>3, <2>4 DEF EntryCoherent, ControlCoherent, TaskCoherent, NewState, SyncPhase
  <2> QED BY <2>5 DEF Coherent
<1>2. CASE Resume(p)
  <2>1. /\ snap' = snap /\ journal' = journal
        /\ UNCHANGED <<ph, owner, gen, myGen, mem, tmp>>
        /\ ~Busy(p)
        /\ pend'[p] = "resume" /\ read'[p] = snap /\ ctl'[p] = "acquire"
    BY <1>2 DEF Resume, Open, Enter, db, task, TypeOK
  <2>2. EntryCoherent(p)' /\ ControlCoherent(p)'
    BY <2>1 DEF EntryCoherent, ControlCoherent, Busy
  <2>3. Fenced(p)' => TaskCoherent(p)'
    BY <2>1 DEF Coherent, Fenced, TaskCoherent, Stored, NoStopBehind, Inspected, StopsRun, PauseRequested
  <2> QED BY <2>2, <2>3 DEF Coherent
<1>3. CASE ResumeStream(p)
  <2>1. /\ snap' = snap /\ journal' = journal
        /\ UNCHANGED <<ph, owner, gen, myGen, mem, tmp>>
        /\ ~Busy(p)
        /\ pend'[p] = "resume" /\ ctl'[p] = "none"
    BY <1>3 DEF ResumeStream, Open, Enter, db, task, TypeOK
  <2>2. EntryCoherent(p)' /\ ControlCoherent(p)'
    BY <2>1 DEF EntryCoherent, ControlCoherent
  <2>3. Fenced(p)' => TaskCoherent(p)'
    BY <2>1 DEF Coherent, Fenced, TaskCoherent, Stored, NoStopBehind, Inspected, StopsRun, PauseRequested
  <2> QED BY <2>2, <2>3 DEF Coherent
<1> QED BY <1>1, <1>2, <1>3 DEF Entering

\* What a granted execution begins with is what the row says, or the state it
\* was started with.
LEMMA AcquiringCoherent ==
  ASSUME TypeOK, NEW p \in Proc, Coherent(p), Acquiring(p), StreamsAreFresh
  PROVE  Coherent(p)'
<1>0. EntryCoherent(p) /\ ControlCoherent(p) /\ pend[p] \in {"none", "start", "resume"}
      /\ snap \in Snapshot
  BY DEF Coherent, TypeOK
<1>1. /\ pend'[p] = "none" /\ ctl'[p] = "none"
      /\ UNCHANGED <<snap, journal>> /\ ph[p] \notin SyncPhase
      /\ pend[p] # "none" /\ ctl[p] \in {"none", "acquire"}
  BY DEF Acquiring, Acquire, AcquireRefused, TypeOK, db
<1>2. EntryCoherent(p)' /\ ControlCoherent(p)'
  BY <1>1 DEF EntryCoherent, ControlCoherent
<1>3. CASE AcquireRefused(p)
  <2>1. UNCHANGED <<ph, owner, gen, myGen, mem>>
    BY <1>3 DEF AcquireRefused, db, task
  <2>2. Fenced(p)' => TaskCoherent(p)'
    BY <1>1, <2>1 DEF Coherent, Fenced, TaskCoherent, Stored, NoStopBehind, Inspected,
       StopsRun, PauseRequested
  <2> QED BY <1>2, <2>2 DEF Coherent
<1>4. CASE Acquire(p)
  <2>1. ph[p] = "idle" /\ ph'[p] \in {"refused", "exec", "reject"}
    BY <1>4 DEF Acquire, CanAcquire, Begin, Goto, TypeOK
  <2>2. ~Canceling(p)
    BY <1>1 DEF Canceling
  <2>3. CASE pend[p] = "start"
    <3>1. mem'[p] = NewState /\ ph'[p] # "reject"
      BY <1>4, <2>3, <1>0 DEF Acquire, Begin, Goto, TypeOK, EntryCoherent
    <3>2. /\ snap.status \in {"RUNNING", "PAUSED", "CANCELED"}
          /\ snap.status = "RUNNING" => NoStopBehind
      BY <1>0, <2>2, <2>3 DEF EntryCoherent
    <3>3. TaskCoherent(p)'
      BY <1>1, <2>1, <3>1, <3>2 DEF TaskCoherent, NewState, NoStopBehind
    <3> QED BY <1>2, <3>3 DEF Coherent
  <2>4. CASE pend[p] = "resume"
    <3>1. read[p] = snap
      BY <1>0, <1>4, <2>4 DEF EntryCoherent, StreamsAreFresh
    <3>2. \/ ph'[p] = "refused"
          \/ ph'[p] = "exec" /\ snap.status = "PAUSED" /\ mem'[p].status = "RUNNING"
          \/ ph'[p] = "reject" /\ mem'[p] = snap
      BY <1>4, <2>4, <3>1 DEF Acquire, Begin, Goto, Resumed, Requested, Moved, TypeOK
    <3>3. TaskCoherent(p)'
      BY <1>1, <3>2 DEF TaskCoherent, Stored
    <3> QED BY <1>2, <3>3 DEF Coherent
  <2> QED BY <1>0, <1>1, <2>3, <2>4
<1> QED BY <1>3, <1>4 DEF Acquiring

\* An event handled by the task: what it saves next carries the requests made
\* so far, and nothing that was journaled before it stops the run.
LEMMA ObservingCoherent ==
  ASSUME TypeOK, TypeOK', NEW p \in Proc, Coherent(p), Observing(p)
  PROVE  Coherent(p)'
<1>0. EntryCoherent(p) /\ ControlCoherent(p) /\ (Fenced(p) => TaskCoherent(p))
  BY DEF Coherent
<1>1. /\ ph[p] = "exec" /\ ctl[p] = "none"
      /\ UNCHANGED <<snap, owner, gen, myGen, pend, read, ctl, tmp>>
  BY DEF Observing, ObserveCanceled, ObserveDelta, ObserveEvent, ObserveOutcome,
     Running, db, entry, ctrl
<1>2. EntryCoherent(p)' /\ ControlCoherent(p)'
  BY <1>0, <1>1 DEF EntryCoherent, ControlCoherent
<1>3. SUFFICES ASSUME Fenced(p) PROVE TaskCoherent(p)'
  BY <1>1, <1>2 DEF Coherent, Fenced
<1>4. /\ mem[p].status = "RUNNING"
      /\ snap.status \in {"RUNNING", "PAUSED", "CANCELED"}
      /\ snap.status = "RUNNING" => NoStopBehind
  BY <1>0, <1>1, <1>3 DEF TaskCoherent
<1>5. snap.status = "RUNNING" => Inspected(snap) = "RUNNING"
  BY <1>4, NothingBehind
<1>6. CASE ObserveCanceled(p)
  <2>1. ph'[p] = "unwind" /\ snap.status = "CANCELED"
    BY <1>6 DEF ObserveCanceled, Goto, TypeOK
  <2> QED BY <1>1, <2>1 DEF TaskCoherent, Stored
<1>7. CASE ObserveDelta(p)
  <2>1. /\ ph'[p] = "exec" /\ mem'[p].status = "RUNNING"
        /\ journal' = Append(journal, "event")
    BY <1>1, <1>4, <1>7 DEF ObserveDelta, Moved, TypeOK
  <2> QED BY <1>1, <1>4, <2>1, AppendGrows, EventsStopNothing DEF TaskCoherent
<1>8. ASSUME NEW c \in BOOLEAN, ObserveEvent(p, c) PROVE TaskCoherent(p)'
  <2>1. /\ ph'[p] = "save"
        /\ snap.status \in {"RUNNING", "PAUSED"}
    BY <1>4, <1>8 DEF ObserveEvent, Goto, TypeOK
  <2>2. CASE PauseRequested /\ c
    <3>1. /\ journal' = Append(Append(journal, "event"), "event")
          /\ mem'[p] = PausedAt(Len(journal) + 2)
      BY <1>8, <2>2 DEF ObserveEvent, TypeOK
    <3>2. mem'[p].status = "PAUSED" /\ mem'[p].applied = Len(journal')
      BY <3>1 DEF PausedAt, TypeOK
    <3>3. Inspected(snap) = "RUNNING" => Inspected(snap)' = "RUNNING"
      BY <1>1, <3>1, AppendGrows, EventsStopNothing
    <3> QED BY <1>1, <1>5, <2>1, <3>2, <3>3 DEF TaskCoherent
  <2>3. CASE ~(PauseRequested /\ c)
    <3>1. /\ journal' = Append(journal, "event")
          /\ mem'[p] = CarryRequest(Moved(mem[p], mem[p].status, Len(journal) + 1))
      BY <1>8, <2>3 DEF ObserveEvent, TypeOK
    <3>2. mem'[p].status = "RUNNING" /\ mem'[p].applied = Len(journal')
      BY <1>4, <3>1 DEF CarryRequest, Requested, Moved, TypeOK
    <3>3. mem'[p].pauseReq = (mem[p].pauseReq \/ PauseRequested)
      BY <3>1 DEF CarryRequest, Requested, Moved
    <3>4. PauseRequested' = PauseRequested
      BY <1>1 DEF PauseRequested
    <3> QED BY <1>1, <2>1, <3>2, <3>3, <3>4 DEF TaskCoherent
  <2> QED BY <2>2, <2>3
<1>9. ASSUME NEW o \in {"FINISHED", "FAILED", "PAUSED"}, ObserveOutcome(p, o)
      PROVE  TaskCoherent(p)'
  <2>1. /\ ph'[p] = "save" /\ snap.status \in {"RUNNING", "PAUSED"}
        /\ mem'[p].status = o /\ mem'[p].applied = Len(journal')
    BY <1>4, <1>9 DEF ObserveOutcome, Goto, Moved, TypeOK
  <2>2. CASE o = "PAUSED"
    <3>1. journal' = Append(journal, "event")
      BY <1>9, <2>2 DEF ObserveOutcome, Journaled
    <3>2. Inspected(snap) = "RUNNING" => Inspected(snap)' = "RUNNING"
      BY <1>1, <3>1, AppendGrows, EventsStopNothing
    <3> QED BY <1>1, <1>5, <2>1, <2>2, <3>2 DEF TaskCoherent
  <2>3. CASE o # "PAUSED"
    BY <1>1, <2>1, <2>3 DEF TaskCoherent
  <2> QED BY <2>2, <2>3
<1> QED BY <1>6, <1>7, <1>8, <1>9 DEF Observing

\* Whoever writes under the fence leaves what the task knows in the row, and
\* whoever writes unfenced has read the row in the same stretch of its loop.
LEMMA FinishingCoherent ==
  ASSUME TypeOK, TypeOK', NEW p \in Proc, Coherent(p), Finishing(p), StreamsAreFresh
  PROVE  Coherent(p)'
<1>0. EntryCoherent(p) /\ ControlCoherent(p) /\ (Fenced(p) => TaskCoherent(p))
  BY DEF Coherent
<1>1. ASSUME ph[p] \in SyncPhase, ph'[p] # "idle", UNCHANGED <<pend, read, ctl, tmp>>,
             ctl[p] = "none" => (Fenced(p)' => TaskCoherent(p)')
      PROVE  Coherent(p)'
  <2>1. ctl[p] = "none" /\ ph[p] # "idle"
    BY <1>0, <1>1 DEF ControlCoherent, SyncPhase
  <2>2. pend[p] # "start"
    BY <1>0, <2>1 DEF EntryCoherent
  <2>3. EntryCoherent(p)' /\ ControlCoherent(p)'
    BY <1>1, <2>1, <2>2 DEF EntryCoherent, ControlCoherent
  <2> QED BY <1>1, <2>1, <2>3 DEF Coherent
<1>2. CASE SaveSnapshot(p)
  <2>1. /\ ph[p] = "save" /\ UNCHANGED <<journal, owner, gen, myGen, mem, pend, read, ctl, tmp>>
        /\ \/ Fenced(p) /\ snap' = mem[p] /\ ph'[p] = "yielded"
           \/ ~Fenced(p) /\ ph'[p] = "ending"
    BY <1>2 DEF SaveSnapshot, Save, Goto, TypeOK, entry, ctrl
  <2>2. Fenced(p)' => TaskCoherent(p)'
    <3> SUFFICES ASSUME Fenced(p) PROVE TaskCoherent(p)'
      BY <2>1 DEF Fenced
    <3>1. mem[p].applied = Len(journal)
      BY <1>0, <2>1 DEF TaskCoherent
    <3>2. NoStopBehind'
      BY <2>1, <3>1 DEF NoStopBehind, TypeOK
    <3> QED BY <2>1, <3>2 DEF TaskCoherent
  <2> QED BY <1>1, <2>1, <2>2 DEF SyncPhase
<1>3. CASE MarkFailed(p)
  <2>1. /\ ph[p] \in {"markFailed", "refused"}
        /\ UNCHANGED <<snap, owner, gen, myGen, pend, read, ctl, tmp>>
        /\ \/ snap.status = "RUNNING" /\ ph'[p] = "record" /\ mem'[p].status = "FAILED"
           \/ ph[p] = "refused" /\ ph'[p] = "ending"
           \/ ph[p] = "markFailed" /\ ph'[p] = "unwind" /\ mem' = mem
    BY <1>3 DEF MarkFailed, Goto, Moved, TypeOK, entry, ctrl
  <2>2. Fenced(p)' => TaskCoherent(p)'
    BY <1>0, <2>1 DEF TaskCoherent, Fenced, Stored, Terminal
  <2> QED BY <1>1, <2>1, <2>2 DEF SyncPhase
<1>4. CASE MarkTimeout(p)
  <2>1. /\ ph[p] = "markTimeout"
        /\ UNCHANGED <<snap, owner, gen, myGen, pend, read, ctl, tmp>>
        /\ \/ /\ snap.status = "RUNNING" /\ ph'[p] = "record"
              /\ mem'[p] = Interrupted(snap) /\ journal' = InterruptedJournal(snap)
           \/ ph'[p] = "ending"
    BY <1>4 DEF MarkTimeout, Goto, TypeOK, entry, ctrl
  <2>2. TaskCoherent(p)'
    BY <2>1, InterruptedSettles DEF TaskCoherent
  <2> QED BY <1>1, <2>1, <2>2 DEF SyncPhase
<1>5. CASE RecordFailure(p)
  <2>1. /\ ph[p] = "record" /\ ph'[p] = "ending"
        /\ UNCHANGED <<pend, read, ctl, tmp>>
    BY <1>5 DEF RecordFailure, Save, Goto, TypeOK, entry, ctrl
  <2>2. TaskCoherent(p)'
    BY <2>1 DEF TaskCoherent
  <2> QED BY <1>1, <2>1, <2>2 DEF SyncPhase
<1>6. CASE ControlSave(p)
  <2>1. /\ ctl[p] \in {"write", "shutdown"} /\ ctl'[p] = "none" /\ snap' = tmp[p]
        /\ UNCHANGED <<journal, owner, gen, myGen, ph, mem, pend, read>>
    BY <1>6 DEF ControlSave, TypeOK, task, entry
  <2>2. ControlCoherent(p)'
    BY <2>1 DEF ControlCoherent
  <2>3. CASE ctl[p] = "shutdown"
    <3>1. TaskCoherent(p)'
      BY <1>0, <2>1, <2>3 DEF ControlCoherent, TaskCoherent
    <3>2. EntryCoherent(p)'
      BY <1>0, <2>1, <2>3 DEF ControlCoherent, EntryCoherent
    <3> QED BY <2>2, <3>1, <3>2 DEF Coherent
  <2>4. CASE ctl[p] = "write"
    <3>1. /\ snap.status \in {"RUNNING", "PAUSED"} /\ ph[p] \notin SyncPhase
          /\ \/ tmp[p].status = snap.status
             \/ /\ tmp[p].status = "CANCELED"
                /\ ph[p] \notin {"exec", "reject", "yielded", "unwindTimeout"}
          /\ tmp[p].status = "RUNNING" => tmp[p].applied = snap.applied
      BY <1>0, <2>4 DEF ControlCoherent
    <3>2. tmp[p].status = "RUNNING" /\ NoStopBehind => NoStopBehind'
      BY <2>1, <3>1 DEF NoStopBehind
    <3>3. Fenced(p)' => TaskCoherent(p)'
      BY <1>0, <2>1, <3>1, <3>2 DEF TaskCoherent, Stored, Fenced, SyncPhase
    <3>4. EntryCoherent(p)'
      BY <1>0, <2>1, <2>4, <3>1, <3>2 DEF EntryCoherent, Canceling
    <3> QED BY <2>2, <3>3, <3>4 DEF Coherent
  <2> QED BY <2>1, <2>3, <2>4
<1>7. CASE Acquiring(p)
  BY <1>7, AcquiringCoherent
<1> QED BY <1>2, <1>3, <1>4, <1>5, <1>6, <1>7 DEF Finishing

\* The other ways a task advances: none of them touches the entry or the
\* control operation of its process.
LEMMA TaskStepsCoherent ==
  ASSUME TypeOK, TypeOK', NEW p \in Proc, Coherent(p),
         Scheduled(p) \/ Fault(p) \/ HeartbeatRenews(p) \/ HeartbeatLost(p)
  PROVE  Coherent(p)'
<1>0. EntryCoherent(p) /\ ControlCoherent(p) /\ (Fenced(p) => TaskCoherent(p))
  BY DEF Coherent
<1>1. /\ ph[p] # "idle" /\ ctl[p] = "none"
      /\ UNCHANGED <<pend, read, ctl, tmp>>
  BY DEF Scheduled, Recheck, Timeout, Unwind, Release, Fault, HeartbeatRenews,
     HeartbeatLost, entry, ctrl
<1>2. pend[p] # "start"
  BY <1>0, <1>1 DEF EntryCoherent
<1>3. EntryCoherent(p)' /\ ControlCoherent(p)'
  BY <1>1, <1>2 DEF EntryCoherent, ControlCoherent
<1>4. SUFFICES Fenced(p)' => TaskCoherent(p)'
  BY <1>3 DEF Coherent
<1>5. CASE Recheck(p)
  <2>1. /\ ph[p] = "yielded" /\ UNCHANGED <<snap, owner, gen, myGen>>
        /\ \/ ph'[p] = "unwind" /\ mem' = mem
           \/ /\ ph'[p] = "save" /\ mem[p].status = "RUNNING"
              /\ mem'[p] = PausedAt(Len(journal) + 1) /\ journal' = Append(journal, "event")
           \/ /\ ph'[p] = "exec" /\ mem[p].status = "RUNNING"
              /\ mem'[p] = CarryRequest(mem[p]) /\ journal' = journal
    BY <1>5 DEF Recheck, Goto, TypeOK
  <2> SUFFICES ASSUME Fenced(p) PROVE TaskCoherent(p)'
    BY <2>1 DEF Fenced
  <2>2. snap.status = mem[p].status /\ (snap.status = "RUNNING" => NoStopBehind)
    BY <1>0, <2>1 DEF TaskCoherent
  <2>3. CASE ph'[p] = "unwind"
    BY <2>1, <2>2, <2>3 DEF TaskCoherent, Stored
  <2>4. CASE ph'[p] = "save"
    <3>1. mem'[p].status = "PAUSED" /\ mem'[p].applied = Len(journal')
      BY <2>1, <2>4 DEF PausedAt, TypeOK
    <3>2. Inspected(snap)' = "RUNNING"
      BY <2>1, <2>2, <2>4, NothingBehind, AppendGrows, EventsStopNothing
    <3> QED BY <2>1, <2>2, <2>4, <3>1, <3>2 DEF TaskCoherent
  <2>5. CASE ph'[p] = "exec"
    <3>1. mem'[p].status = "RUNNING"
      BY <2>1, <2>5 DEF CarryRequest, Requested
    <3> QED BY <2>1, <2>2, <2>5, <3>1 DEF TaskCoherent, NoStopBehind
  <2> QED BY <2>1, <2>3, <2>4, <2>5
<1>6. CASE Timeout(p) \/ HeartbeatLost(p)
  <2>1. /\ ph[p] \in {"exec", "reject", "yielded", "unwindTimeout"}
        /\ ph'[p] \in {"unwind", "unwindTimeout"}
        /\ UNCHANGED <<snap, owner, gen, myGen, mem>>
    BY <1>6 DEF Timeout, HeartbeatLost, Goto, TypeOK, db
  <2> QED BY <1>0, <2>1 DEF TaskCoherent, Stored, Fenced
<1>7. CASE Unwind(p)
  <2>1. ph'[p] \in {"ending", "markTimeout"}
    BY <1>7 DEF Unwind, Save, Goto, TypeOK
  <2> QED BY <2>1 DEF TaskCoherent
<1>8. CASE Release(p)
  <2>1. ph'[p] = "idle"
    BY <1>8 DEF Release, Goto, TypeOK
  <2> QED BY <2>1 DEF TaskCoherent
<1>9. CASE Fault(p)
  <2>1. /\ ph[p] \in {"exec", "reject"} /\ UNCHANGED <<owner, gen, myGen, mem>>
        /\ \/ snap.status = "CANCELED" /\ snap' = snap /\ ph'[p] = "markFailed"
           \/ Fenced(p) /\ snap' = mem[p] /\ ph'[p] = "markFailed"
           \/ ~Fenced(p) /\ ph'[p] = "ending"
    BY <1>9 DEF Fault, Save, Goto, TypeOK
  <2> QED BY <2>1 DEF TaskCoherent, Stored, Fenced
<1>10. CASE HeartbeatRenews(p)
  <2>1. UNCHANGED <<snap, journal, owner, gen, ph, myGen, mem>>
    BY <1>10 DEF HeartbeatRenews, task
  <2> QED BY <1>0, <2>1 DEF TaskCoherent, Stored, Fenced, NoStopBehind, Inspected,
             StopsRun, PauseRequested
<1> QED BY <1>5, <1>6, <1>7, <1>8, <1>9, <1>10 DEF Scheduled

\* A control operation journals and prepares what it saves in one stretch.
LEMMA ControllingCoherent ==
  ASSUME TypeOK, TypeOK', NEW p \in Proc, Coherent(p), Controlling(p)
  PROVE  Coherent(p)'
<1>0. EntryCoherent(p) /\ ControlCoherent(p) /\ (Fenced(p) => TaskCoherent(p))
  BY DEF Coherent
<1>1. /\ ctl[p] = "none" /\ ctl'[p] = "write" /\ ph[p] \notin SyncPhase
      /\ UNCHANGED <<snap, owner, gen, myGen, mem, pend, read>>
  BY <1>0 DEF Controlling, Pause, Cancel, Annotate, Prepare, Busy, EntryCoherent, TypeOK,
     db, task, entry
<1>2. CASE Pause(p)
  <2>1. /\ snap.status = "RUNNING" /\ tmp'[p] = Requested(snap, TRUE)
        /\ UNCHANGED <<ph, journal>>
    BY <1>2 DEF Pause, Prepare, TypeOK, db, task
  <2>2. tmp'[p].status = "RUNNING" /\ tmp'[p].pauseReq /\ tmp'[p].applied = snap.applied
    BY <2>1 DEF Requested
  <2>3. ControlCoherent(p)'
    BY <1>1, <2>1, <2>2 DEF ControlCoherent
  <2>4. EntryCoherent(p)'
    BY <1>0, <1>1, <2>1 DEF EntryCoherent, Canceling, NoStopBehind
  <2>5. Fenced(p)' => TaskCoherent(p)'
    BY <1>0, <1>1, <2>1 DEF TaskCoherent, Fenced, Stored, NoStopBehind, Inspected,
       StopsRun, PauseRequested
  <2> QED BY <2>3, <2>4, <2>5 DEF Coherent
<1>3. CASE Cancel(p)
  <2>1. /\ snap.status \in {"RUNNING", "PAUSED"} /\ tmp'[p].status = "CANCELED"
        /\ \/ ph[p] \in {"exec", "reject", "yielded", "unwindTimeout"} /\ ph'[p] = "unwind"
           \/ ph[p] \notin {"exec", "reject", "yielded", "unwindTimeout"} /\ ph'[p] = ph[p]
    BY <1>3 DEF Cancel, Prepare, Moved, Goto, TypeOK
  <2>2. ControlCoherent(p)'
    BY <1>1, <2>1 DEF ControlCoherent, SyncPhase
  <2>3. EntryCoherent(p)'
    BY <1>0, <1>1, <2>1 DEF EntryCoherent, Canceling
  <2>4. Fenced(p)' => TaskCoherent(p)'
    BY <1>0, <1>1, <2>1 DEF TaskCoherent, Fenced, Stored, SyncPhase
  <2> QED BY <2>2, <2>3, <2>4 DEF Coherent
<1>4. CASE Annotate(p)
  <2>1. /\ snap.status = "PAUSED" /\ tmp'[p].status = "PAUSED" /\ UNCHANGED ph
    BY <1>4 DEF Annotate, Prepare, Moved, TypeOK, task
  <2>2. ControlCoherent(p)'
    BY <1>1, <2>1 DEF ControlCoherent
  <2>3. EntryCoherent(p)'
    BY <1>0, <1>1, <2>1 DEF EntryCoherent
  <2>4. Fenced(p)' => TaskCoherent(p)'
    BY <1>0, <1>1, <2>1 DEF TaskCoherent, Fenced, Stored, SyncPhase
  <2> QED BY <2>2, <2>3, <2>4 DEF Coherent
<1> QED BY <1>2, <1>3, <1>4 DEF Controlling

\* Recovery settles the row: a start not acquired yet finds it paused, and the
\* task of an expired lease is fenced off.
LEMMA RecoverCoherent ==
  ASSUME TypeOK, TypeOK', NEW p \in Proc, Coherent(p), Recover(p)
  PROVE  Coherent(p)'
<1>0. EntryCoherent(p) /\ ControlCoherent(p)
  BY DEF Coherent
<1>1. /\ ctl[p] = "none" /\ snap.status = "RUNNING" /\ snap' = Interrupted(snap)
      /\ owner' = NoProc /\ UNCHANGED <<ph, pend, read, ctl, tmp>>
  BY DEF Recover, Recoverable, RecoverRun, ClearLease, Busy, task, entry, ctrl
<1>2. ~Fenced(p)'
  BY <1>1, ConstantsAssumption DEF Fenced
<1>3. pend[p] = "start" => snap'.status = "PAUSED"
  <2> SUFFICES ASSUME pend[p] = "start" PROVE snap'.status = "PAUSED"
    OBVIOUS
  <2>1. NoStopBehind
    BY <1>0, <1>1 DEF EntryCoherent, Canceling
  <2> QED BY <1>1, <2>1, NothingBehind, InterruptedSettles
<1> QED BY <1>0, <1>1, <1>2, <1>3 DEF Coherent, EntryCoherent, ControlCoherent

\* A shutdown settles the row it read.
LEMMA StoppingCoherent ==
  ASSUME TypeOK, TypeOK', NEW p \in Proc, Coherent(p), Stopping(p)
  PROVE  Coherent(p)'
<1>0. EntryCoherent(p) /\ ControlCoherent(p) /\ (Fenced(p) => TaskCoherent(p))
  BY DEF Coherent
<1>1. ASSUME UNCHANGED <<snap, journal, owner, gen, ph, myGen, mem, pend, read, ctl, tmp>>
      PROVE  Coherent(p)'
  BY <1>0, <1>1 DEF Coherent, EntryCoherent, Canceling, ControlCoherent, TaskCoherent,
     Fenced, Stored, NoStopBehind, Inspected, StopsRun, PauseRequested
<1>2. CASE Close(p)
  BY <1>1, <1>2 DEF Close, db, task, entry, ctrl
<1>3. CASE PauseRunningStates(p)
  <2>1. CASE snap.status # "RUNNING"
    <3>1. tmp' = tmp
      BY <1>3, <2>1 DEF PauseRunningStates, ctrl
    <3> QED BY <1>1, <1>3, <2>1, <3>1 DEF PauseRunningStates, task, entry, ctrl
  <2>2. CASE snap.status = "RUNNING"
    <3>1. /\ snap' = snap /\ journal' = InterruptedJournal(snap) /\ ctl[p] = "none"
          /\ tmp'[p] = Interrupted(snap) /\ ctl'[p] = "shutdown"
          /\ ph[p] \in {"idle", "ending"} /\ UNCHANGED <<ph, pend, read>>
      BY <1>3, <2>2 DEF PauseRunningStates, Busy, TypeOK, task, entry
    <3>2. pend[p] = "start" => NoStopBehind
      BY <1>0, <2>2, <3>1 DEF EntryCoherent, Canceling
    <3>3. pend[p] = "start" => Inspected(snap) = "RUNNING"
      BY <3>2, NothingBehind
    <3>4. pend[p] = "start" => NoStopBehind'
      BY <3>1, <3>2, <3>3, AppendGrows, EventsStopNothing DEF InterruptedJournal
    <3>5. ControlCoherent(p)'
      BY <2>2, <3>1, <3>3, InterruptedSettles DEF ControlCoherent, SyncPhase
    <3>6. EntryCoherent(p)' /\ TaskCoherent(p)'
      BY <1>0, <3>1, <3>4 DEF EntryCoherent, TaskCoherent
    <3> QED BY <3>5, <3>6 DEF Coherent
  <2> QED BY <2>1, <2>2
<1>4. CASE Gone(p)
  <2>1. ph'[p] = "idle" /\ pend'[p] = "none" /\ ctl'[p] = "none"
    BY <1>4 DEF Gone, TypeOK
  <2> QED BY <2>1 DEF Coherent, EntryCoherent, ControlCoherent, TaskCoherent, SyncPhase
<1> QED BY <1>2, <1>3, <1>4 DEF Stopping, Exit, Crash

-----------------------------------------------------------------------------
(* What a step of the process alive does to the status and to the grant.   *)

Working(p) == Fenced(p) /\ ph[p] \notin {"idle", "ending"}

\* The actions of AgentRunStatus, the execution of p being the one granted.
StatusMoves(p) ==
  \/ snap'.status = snap.status /\ (Working(p)' => Working(p))
  \/ snap.status = "ABSENT" /\ snap'.status = "RUNNING" /\ (Working(p)' <=> Working(p))
  \/ /\ snap'.status = snap.status /\ snap.status # "ABSENT"
     /\ ~Working(p) /\ Working(p)'
  \/ /\ Working(p) /\ snap.status \in {"RUNNING", "PAUSED"}
     /\ snap'.status \in {"RUNNING", "PAUSED", "FINISHED", "FAILED"}
  \/ /\ snap.status = "RUNNING" /\ snap'.status \in {"PAUSED"} \cup Terminal
     /\ ~Working(p)'
  \/ /\ snap.status \in {"RUNNING", "PAUSED"} /\ snap'.status = "CANCELED"
     /\ (Working(p)' <=> Working(p))

StopHonoured ==
  snap.status = "RUNNING" /\ Inspected(snap) # "RUNNING" => snap'.status # "PAUSED"

RequestHonoured ==
  /\ PauseRequested
  /\ snap'.status = "RUNNING"
  /\ \A p \in Proc : ph'[p] \notin {"markFailed", "markTimeout", "ending"}
  => snap'.pauseReq

Promised(p) == StatusMoves(p) /\ StopHonoured /\ RequestHonoured

StatusStep == Abstract!Next \/ UNCHANGED <<snap.status, Granted>>

\* With everybody else idle, what p's execution does is what the deployment
\* does.
LEMMA MovesImplement ==
  ASSUME NEW p \in Proc, \A q \in Proc \ {p} : ph[q] = "idle" /\ ph'[q] = "idle",
         StatusMoves(p)
  PROVE  StatusStep
<1>1. (Granted <=> Working(p)) /\ (Granted' <=> Working(p)')
  BY DEF Granted, Working
<1>2. Granted \in BOOLEAN /\ Granted' \in BOOLEAN
  BY DEF Granted
<1>3. snap'.status = snap.status /\ (Working(p)' => Working(p)) => StatusStep
  BY <1>1, <1>2 DEF StatusStep, Abstract!Next, Abstract!Revoke
<1>4. snap.status = "ABSENT" /\ snap'.status = "RUNNING" /\ (Working(p)' <=> Working(p))
        => StatusStep
  BY <1>1, <1>2 DEF StatusStep, Abstract!Next, Abstract!Create
<1>5. /\ snap'.status = snap.status /\ snap.status # "ABSENT"
      /\ ~Working(p) /\ Working(p)'
      => StatusStep
  BY <1>1, <1>2 DEF StatusStep, Abstract!Next, Abstract!Grant
<1>6. /\ Working(p) /\ snap.status \in {"RUNNING", "PAUSED"}
      /\ snap'.status \in {"RUNNING", "PAUSED", "FINISHED", "FAILED"}
      => StatusStep
  BY <1>1, <1>2 DEF StatusStep, Abstract!Next, Abstract!Progress, Abstract!Open
<1>7. /\ snap.status = "RUNNING" /\ snap'.status \in {"PAUSED"} \cup Terminal
      /\ ~Working(p)'
      => StatusStep
  BY <1>1, <1>2 DEF StatusStep, Abstract!Next, Abstract!Settle, Abstract!Terminal, Terminal
<1>8. /\ snap.status \in {"RUNNING", "PAUSED"} /\ snap'.status = "CANCELED"
      /\ (Working(p)' <=> Working(p))
      => StatusStep
  BY <1>1, <1>2 DEF StatusStep, Abstract!Next, Abstract!Cancel, Abstract!Open
<1> QED BY <1>3, <1>4, <1>5, <1>6, <1>7, <1>8 DEF StatusMoves

\* A step that saves nothing and grants nothing promises everything.
LEMMA UnsavedPromised ==
  ASSUME NEW p \in Proc, snap' = snap, Working(p)' => Working(p)
  PROVE  Promised(p)
BY DEF Promised, StatusMoves, StopHonoured, RequestHonoured, PauseRequested

LEMMA SavePromised ==
  ASSUME TypeOK, NEW p \in Proc, Coherent(p),
         SaveSnapshot(p) \/ Fault(p) \/ Unwind(p) \/ RecordFailure(p)
  PROVE  Promised(p)
<1>1. /\ UNCHANGED <<owner, gen, myGen>> /\ ph[p] \notin {"idle", "ending"}
      /\ Fenced(p)' <=> Fenced(p)
  BY DEF SaveSnapshot, Fault, Unwind, RecordFailure, Fenced
<1>2. ASSUME snap' = snap PROVE Promised(p)
  BY <1>1, <1>2, UnsavedPromised DEF Working
<1> SUFFICES ASSUME snap' # snap PROVE Promised(p)
  BY <1>2
<1>3. Fenced(p) /\ snap' = mem[p]
  BY DEF SaveSnapshot, Fault, Unwind, RecordFailure, Save
<1>4. TaskCoherent(p) /\ Working(p)
  BY <1>1, <1>3 DEF Coherent, Working
<1>5. CASE SaveSnapshot(p)
  <2>1. /\ snap.status \in {"RUNNING", "PAUSED"}
        /\ mem[p].status \in {"RUNNING", "PAUSED", "FINISHED", "FAILED"}
        /\ snap.status = "RUNNING" /\ mem[p].status = "PAUSED" => Inspected(snap) = "RUNNING"
        /\ PauseRequested /\ mem[p].status = "RUNNING" => mem[p].pauseReq
    BY <1>4, <1>5 DEF SaveSnapshot, TaskCoherent
  <2> QED BY <1>3, <1>4, <2>1 DEF Promised, StatusMoves, StopHonoured, RequestHonoured
<1>6. CASE Fault(p) \/ Unwind(p)
  <2>1. /\ ph[p] \in {"exec", "reject", "unwind", "unwindTimeout"}
        /\ snap.status # "CANCELED"
        /\ ph'[p] \in {"markFailed", "markTimeout", "ending"}
    BY <1>3, <1>6 DEF Fault, Unwind, Save, KeepStored, Goto, TypeOK
  <2>2. \/ mem[p].status = snap.status
        \/ snap.status = "PAUSED" /\ mem[p].status = "RUNNING"
    BY <1>4, <2>1 DEF TaskCoherent, Stored
  <2> QED BY <1>3, <1>4, <2>1, <2>2 DEF Promised, StatusMoves, StopHonoured, RequestHonoured
<1>7. CASE RecordFailure(p)
  <2>1. ph'[p] = "ending"
    BY <1>3, <1>7 DEF RecordFailure, Save, Goto, TypeOK
  <2>2. /\ snap.status = "RUNNING"
        /\ mem[p].status \in {"PAUSED"} \cup Terminal
        /\ mem[p].status = "PAUSED" => Inspected(snap) = "RUNNING"
    BY <1>4, <1>7 DEF RecordFailure, TaskCoherent
  <2>3. ~Working(p)'
    BY <2>1 DEF Working
  <2> QED BY <1>3, <2>2, <2>3 DEF Promised, StatusMoves, StopHonoured, RequestHonoured, Terminal
<1> QED BY <1>5, <1>6, <1>7

LEMMA StepsPromised ==
  ASSUME TypeOK, TypeOK', UntouchedBeforeCreate, NEW p \in Proc, Coherent(p), Steps(p)
  PROVE  Promised(p)
<1>0. EntryCoherent(p) /\ ControlCoherent(p) /\ (Fenced(p) => TaskCoherent(p))
  BY DEF Coherent
<1>1. ASSUME UNCHANGED <<snap, owner, gen, myGen>>, ph[p] \notin {"idle", "ending"} \/ ph' = ph
      PROVE  Promised(p)
  BY <1>1, UnsavedPromised DEF Working, Fenced
<1>2. CASE Entering(p)
  <2>1. CASE Start(p) \/ StartStream(p)
    <3>1. /\ snap.status = "ABSENT" /\ snap' = NewState
          /\ UNCHANGED <<owner, gen, ph, myGen>>
      BY <2>1 DEF Start, StartStream, Create, task
    <3>2. Working(p)' <=> Working(p)
      BY <3>1 DEF Working, Fenced
    <3> QED BY <3>1, <3>2 DEF Promised, StatusMoves, StopHonoured, RequestHonoured,
               PauseRequested, NewState
  <2>2. CASE Resume(p) \/ ResumeStream(p)
    BY <1>1, <2>2 DEF Resume, ResumeStream, Open, db, task
  <2> QED BY <1>2, <2>1, <2>2 DEF Entering
<1>3. ASSUME Acquiring(p) PROVE Promised(p)
  <2>1. CASE AcquireRefused(p)
    BY <1>1, <2>1 DEF AcquireRefused, db, task
  <2>2. CASE Acquire(p)
    <3>1. snap' = snap /\ ph[p] = "idle" /\ pend[p] # "none"
      BY <2>2 DEF Acquire, CanAcquire
    <3>2. snap.status # "ABSENT"
      BY <3>1 DEF UntouchedBeforeCreate, Quiet
    <3> QED BY <3>1, <3>2 DEF Promised, StatusMoves, StopHonoured, RequestHonoured,
               PauseRequested, Working
  <2> QED BY <1>3, <2>1, <2>2 DEF Acquiring
<1>4. CASE Observing(p)
  BY <1>1, <1>4 DEF Observing, ObserveCanceled, ObserveDelta, ObserveEvent, ObserveOutcome,
     Running, db
<1>5. CASE ControlSave(p)
  <2>1. /\ ctl[p] \in {"write", "shutdown"} /\ snap' = tmp[p]
        /\ UNCHANGED <<owner, gen, ph, myGen>>
    BY <1>5 DEF ControlSave, task
  <2>2. Working(p)' <=> Working(p)
    BY <2>1 DEF Working, Fenced
  <2>3. CASE ctl[p] = "write"
    <3>1. /\ snap.status \in {"RUNNING", "PAUSED"}
          /\ tmp[p].status \in {snap.status, "CANCELED"}
          /\ tmp[p].status = "RUNNING" => tmp[p].pauseReq
      BY <1>0, <2>3 DEF ControlCoherent
    <3> QED BY <2>1, <2>2, <3>1 DEF Promised, StatusMoves, StopHonoured, RequestHonoured
  <2>4. CASE ctl[p] = "shutdown"
    <3>1. /\ snap.status = "RUNNING" /\ ph[p] \in {"idle", "ending"}
          /\ tmp[p].status \in {"PAUSED"} \cup Terminal
          /\ tmp[p].status = "PAUSED" => Inspected(snap) = "RUNNING"
      BY <1>0, <2>4 DEF ControlCoherent
    <3>2. ~Working(p)'
      BY <2>1, <3>1 DEF Working
    <3> QED BY <2>1, <3>1, <3>2 DEF Promised, StatusMoves, StopHonoured, RequestHonoured, Terminal
  <2> QED BY <2>1, <2>3, <2>4
<1>6. CASE Finishing(p)
  BY <1>1, <1>3, <1>5, <1>6, SavePromised DEF Finishing, MarkFailed, MarkTimeout
<1>7. CASE Scheduled(p)
  <2>1. CASE Release(p)
    <3>1. snap' = snap /\ ph'[p] = "idle"
      BY <2>1 DEF Release, Goto, TypeOK
    <3> QED BY <3>1, UnsavedPromised DEF Working
  <2> QED BY <1>1, <1>7, <2>1, SavePromised DEF Scheduled, Recheck, Timeout, db
<1>8. CASE Fault(p)
  BY <1>8, SavePromised
<1>9. CASE HeartbeatRenews(p) \/ HeartbeatLost(p)
  BY <1>1, <1>9 DEF HeartbeatRenews, HeartbeatLost, db, task
<1>10. CASE Controlling(p)
  <2>1. UNCHANGED <<snap, owner, gen, myGen>>
    BY <1>10 DEF Controlling, Pause, Cancel, Annotate, db, task
  <2>2. ph[p] \notin {"idle", "ending"} \/ ph' = ph
    BY <1>10 DEF Controlling, Pause, Cancel, Annotate, task, Goto, TypeOK
  <2> QED BY <1>1, <2>1, <2>2
<1>11. CASE Recover(p)
  <2>1. snap.status = "RUNNING" /\ snap' = Interrupted(snap) /\ owner' = NoProc
    BY <1>11 DEF Recover, Recoverable, RecoverRun, ClearLease
  <2>2. ~Working(p)'
    BY <2>1, ConstantsAssumption DEF Working, Fenced
  <2>3. /\ snap'.status \in {"PAUSED"} \cup Terminal
        /\ snap'.status = "PAUSED" => Inspected(snap) = "RUNNING"
    BY <2>1, InterruptedSettles
  <2> QED BY <2>1, <2>2, <2>3 DEF Promised, StatusMoves, StopHonoured, RequestHonoured, Terminal
<1>12. CASE Stopping(p)
  <2>1. CASE Close(p)
    BY <1>1, <2>1 DEF Close, db, task
  <2>2. CASE PauseRunningStates(p)
    BY <1>1, <2>2 DEF PauseRunningStates, task
  <2>3. CASE Gone(p)
    <3>1. snap' = snap /\ ph'[p] = "idle"
      BY <2>3 DEF Gone, TypeOK, db
    <3> QED BY <3>1, UnsavedPromised DEF Working
  <2> QED BY <1>12, <2>1, <2>2, <2>3 DEF Stopping, Exit, Crash
<1> QED BY <1>2, <1>3, <1>4, <1>6, <1>7, <1>8, <1>9, <1>10, <1>11, <1>12 DEF Steps

-----------------------------------------------------------------------------
(* The invariant is inductive while one server at a time is up.            *)

LEMMA QuietIsCoherent ==
  ASSUME NEW p \in Proc, Quiet(p)'
  PROVE  Coherent(p)'
BY DEF Quiet, Coherent, EntryCoherent, ControlCoherent, TaskCoherent, SyncPhase

\* Only a living process takes a step, it touches no other process, and it
\* leaves nothing behind if it goes.
LEMMA StepsAreLocal ==
  ASSUME TypeOK, ShutdownOfTheLiving, DeadAreQuiet, NEW p \in Proc, Steps(p)
  PROVE  /\ Alive(p)
         /\ Alive(p)' \/ Quiet(p)'
         /\ \A q \in Proc \ {p} : /\ up'[q] = up[q] /\ ph'[q] = ph[q]
                                  /\ pend'[q] = pend[q] /\ ctl'[q] = ctl[q]
<1> DEFINE Untouched == \A q \in Proc \ {p} : /\ up'[q] = up[q] /\ ph'[q] = ph[q]
                                             /\ pend'[q] = pend[q] /\ ctl'[q] = ctl[q]
<1>1. Alive(p)
  <2> SUFFICES ASSUME ~Alive(p) PROVE FALSE
    OBVIOUS
  <2>1. ph[p] = "idle" /\ pend[p] = "none" /\ ctl[p] = "none"
    BY DEF DeadAreQuiet, Quiet
  <2>2. up[p] \notin {"up", "draining", "closed"}
    BY DEF Alive
  <2> QED BY <2>1, <2>2 DEF Steps, Recover, Alive, Entering, Start, StartStream, Resume,
             ResumeStream, Create, Open, Enter, Acquiring, Acquire, AcquireRefused,
             Observing, ObserveCanceled, ObserveDelta, ObserveEvent, ObserveOutcome, Running,
             Finishing, SaveSnapshot, MarkFailed, MarkTimeout, RecordFailure, ControlSave,
             Scheduled, Recheck, Timeout, Unwind, Release, Fault, HeartbeatRenews,
             HeartbeatLost, Controlling, Pause, Cancel, Annotate, Stopping, Close,
             PauseRunningStates, Exit, Crash
<1> SUFFICES (Alive(p)' \/ Quiet(p)') /\ Untouched
  BY <1>1
<1>2. ASSUME \A q \in Proc \ {p} : ph'[q] = ph[q],
             UNCHANGED up, UNCHANGED pend \/ \E c : pend' = [pend EXCEPT ![p] = c],
             UNCHANGED ctl \/ \E c : ctl' = [ctl EXCEPT ![p] = c]
      PROVE  Alive(p)' /\ Untouched
  <2>1. \A q \in Proc \ {p} : pend'[q] = pend[q] /\ ctl'[q] = ctl[q]
    BY <1>2 DEF TypeOK
  <2> QED BY <1>1, <1>2, <2>1 DEF Alive
<1>3. CASE Entering(p)
  <2>1. \E m, c : pend' = [pend EXCEPT ![p] = m] /\ ctl' = [ctl EXCEPT ![p] = c]
    BY <1>3 DEF Entering, Start, StartStream, Resume, ResumeStream, Create, Open, Enter
  <2>2. UNCHANGED <<up, ph>>
    BY <1>3 DEF Entering, Start, StartStream, Resume, ResumeStream, Create, Open, task
  <2> QED BY <1>2, <2>1, <2>2
<1>4. ASSUME Acquiring(p) PROVE Alive(p)' /\ Untouched
  <2>1. pend' = [pend EXCEPT ![p] = "none"] /\ ctl' = [ctl EXCEPT ![p] = "none"] /\ up' = up
    BY <1>4 DEF Acquiring, Acquire, AcquireRefused
  <2>2. \A q \in Proc \ {p} : ph'[q] = ph[q]
    BY <1>4 DEF Acquiring, Acquire, AcquireRefused, Begin, Goto, TypeOK, task
  <2> QED BY <1>2, <2>1, <2>2
<1>5. CASE Observing(p)
  <2>1. UNCHANGED <<up, ctl, pend>>
    BY <1>5 DEF Observing, ObserveCanceled, ObserveDelta, ObserveEvent, ObserveOutcome,
       entry, ctrl
  <2>2. \A q \in Proc \ {p} : ph'[q] = ph[q]
    BY <1>5 DEF Observing, ObserveCanceled, ObserveDelta, ObserveEvent, ObserveOutcome,
       Goto, TypeOK
  <2> QED BY <1>2, <2>1, <2>2
<1>6. CASE Finishing(p)
  <2>1. CASE ControlSave(p)
    <3>1. /\ UNCHANGED <<ph, pend>> /\ ctl' = [ctl EXCEPT ![p] = "none"]
          /\ up' = IF ctl[p] = "shutdown" THEN [up EXCEPT ![p] = "closed"] ELSE up
      BY <2>1 DEF ControlSave, task, entry
    <3> QED BY <1>1, <3>1 DEF Alive, TypeOK
  <2>2. CASE SaveSnapshot(p) \/ MarkFailed(p) \/ MarkTimeout(p) \/ RecordFailure(p)
    <3>1. UNCHANGED <<up, ctl, pend>>
      BY <2>2 DEF SaveSnapshot, MarkFailed, MarkTimeout, RecordFailure, entry, ctrl
    <3>2. \A q \in Proc \ {p} : ph'[q] = ph[q]
      BY <2>2 DEF SaveSnapshot, MarkFailed, MarkTimeout, RecordFailure, Save, Goto, TypeOK
    <3> QED BY <1>2, <3>1, <3>2
  <2> QED BY <1>4, <1>6, <2>1, <2>2 DEF Finishing
<1>7. CASE Scheduled(p) \/ Fault(p) \/ HeartbeatLost(p)
  <2>1. UNCHANGED <<up, ctl, pend>>
    BY <1>7 DEF Scheduled, Recheck, Timeout, Unwind, Release, Fault, HeartbeatLost, entry, ctrl
  <2>2. \A q \in Proc \ {p} : ph'[q] = ph[q]
    BY <1>7 DEF Scheduled, Recheck, Timeout, Unwind, Release, Fault, HeartbeatLost, Save,
       Goto, TypeOK
  <2> QED BY <1>2, <2>1, <2>2
<1>8. CASE HeartbeatRenews(p) \/ Recover(p)
  <2>1. UNCHANGED <<up, ctl, pend, ph>>
    BY <1>8 DEF HeartbeatRenews, Recover, task, entry, ctrl
  <2> QED BY <1>2, <2>1
<1>9. CASE Controlling(p)
  <2>1. UNCHANGED <<up, pend>> /\ ctl' = [ctl EXCEPT ![p] = "write"]
    BY <1>9 DEF Controlling, Pause, Cancel, Annotate, Prepare, entry
  <2>2. \A q \in Proc \ {p} : ph'[q] = ph[q]
    BY <1>9 DEF Controlling, Pause, Cancel, Annotate, Goto, TypeOK, task
  <2> QED BY <1>2, <2>1, <2>2
<1>10. CASE Close(p) \/ PauseRunningStates(p)
  <2>1. UNCHANGED <<ph, pend>>
    BY <1>10 DEF Close, PauseRunningStates, task, entry
  <2>2. up' = up \/ \E u \in {"draining", "closed"} : up' = [up EXCEPT ![p] = u]
    BY <1>10 DEF Close, PauseRunningStates
  <2>3. ctl' = ctl \/ ctl' = [ctl EXCEPT ![p] = "shutdown"]
    BY <1>10 DEF Close, PauseRunningStates, ctrl
  <2> QED BY <1>1, <2>1, <2>2, <2>3 DEF Alive, TypeOK
<1>11. CASE Gone(p)
  BY <1>11 DEF Gone, Quiet, TypeOK
<1> QED BY <1>1, <1>3, <1>4, <1>5, <1>6, <1>7, <1>8, <1>9, <1>10, <1>11
        DEF Steps, Stopping, Exit, Crash

\* Before the run is created there is nothing to do for it.
LEMMA NothingBeforeCreate ==
  ASSUME TypeOK, UntouchedBeforeCreate, NEW p \in Proc, Steps(p),
         snap.status = "ABSENT", snap'.status = "ABSENT"
  PROVE  journal' = <<>> /\ Quiet(p)'
<1>1. /\ journal = <<>> /\ ph[p] = "idle" /\ pend[p] = "none" /\ ctl[p] = "none"
      /\ ph[p] \notin SyncPhase
  BY DEF UntouchedBeforeCreate, Quiet, SyncPhase
<1>2. Stopping(p)
  BY <1>1 DEF Steps, Recover, Recoverable, Entering, Start, StartStream, Resume,
     ResumeStream, Create, Open, Enter, NewState, Acquiring, Acquire, AcquireRefused,
     Observing, ObserveCanceled, ObserveDelta, ObserveEvent, ObserveOutcome, Running,
     Finishing, SaveSnapshot, MarkFailed, MarkTimeout, RecordFailure, ControlSave,
     Scheduled, Recheck, Timeout, Unwind, Release, Fault, HeartbeatRenews, HeartbeatLost,
     Controlling, Pause, Cancel, Annotate
<1>3. CASE Close(p) \/ PauseRunningStates(p)
  BY <1>1, <1>3 DEF Close, PauseRunningStates, Quiet, db, task, entry, ctrl
<1>4. CASE Gone(p)
  BY <1>1, <1>4 DEF Gone, Quiet, TypeOK, db
<1> QED BY <1>2, <1>3, <1>4 DEF Stopping, Exit, Crash

LEMMA ServerInit == Init => ServerInv
<1> SUFFICES ASSUME Init PROVE ServerInv
  OBVIOUS
<1>1. TypeOK /\ FencingInv
  BY TypeInit, FencingInit
<1>2. \A p \in Proc : ~Alive(p) /\ Quiet(p)
  BY DEF Init, Alive, Quiet
<1>3. \A p \in Proc : Coherent(p)
  BY <1>2 DEF Quiet, Coherent, EntryCoherent, ControlCoherent, TaskCoherent, SyncPhase
<1> QED BY <1>1, <1>2, <1>3 DEF Init, ServerInv, OneServer, DeadAreQuiet, UntouchedBeforeCreate

\* One step of a deployment with one server at a time keeps the invariant and
\* the promises.
LEMMA ServerNext ==
  ASSUME ServerInv, ShutdownOfTheLiving, [Next]_vars, OneServer', [StreamsAreFresh]_vars
  PROVE  ServerInv' /\ StatusStep /\ StopHonoured /\ RequestHonoured
<1> DEFINE Goal == ServerInv' /\ StatusStep /\ StopHonoured /\ RequestHonoured
<1>1. TypeOK /\ TypeOK'
  BY TypeNext DEF ServerInv
<1>2. ASSUME NEW p \in Proc, Steps(p), StreamsAreFresh PROVE Goal
  <2>1. /\ Alive(p) /\ (Alive(p)' \/ Quiet(p)')
        /\ \A q \in Proc \ {p} : /\ up'[q] = up[q] /\ ph'[q] = ph[q]
                                 /\ pend'[q] = pend[q] /\ ctl'[q] = ctl[q]
    BY <1>1, <1>2, StepsAreLocal DEF ServerInv
  <2>2. \A q \in Proc \ {p} : ~Alive(q) /\ ~Alive(q)' /\ Quiet(q) /\ Quiet(q)'
    BY <2>1 DEF ServerInv, OneServer, DeadAreQuiet, Alive, Quiet
  <2>3. DeadAreQuiet'
    BY <2>1, <2>2 DEF DeadAreQuiet
  <2>4. Promised(p)
    BY <1>1, <1>2, StepsPromised DEF ServerInv
  <2>5. UntouchedBeforeCreate'
    <3> SUFFICES ASSUME snap'.status = "ABSENT" PROVE journal' = <<>> /\ \A q \in Proc : Quiet(q)'
      BY DEF UntouchedBeforeCreate
    <3>1. snap.status = "ABSENT"
      BY <2>4 DEF Promised, StatusMoves, Terminal
    <3> QED BY <1>1, <1>2, <2>2, <3>1, NothingBeforeCreate DEF ServerInv
  <2>6. Coherent(p)'
    BY <1>1, <1>2, EnteringCoherent, AcquiringCoherent, ObservingCoherent, FinishingCoherent,
       TaskStepsCoherent, ControllingCoherent, RecoverCoherent, StoppingCoherent
       DEF Steps, ServerInv
  <2>7. \A q \in Proc : Coherent(q)'
    BY <2>2, <2>6, QuietIsCoherent
  <2>8. StatusStep
    BY <2>2, <2>4, MovesImplement DEF Promised, Quiet
  <2> QED BY <1>1, <2>3, <2>4, <2>5, <2>7, <2>8 DEF ServerInv, Promised
<1>3. ASSUME NEW p \in Proc, Boot(p) PROVE Goal
  <2>0. up[p] = "new" /\ up' = [up EXCEPT ![p] = "up"] /\ UNCHANGED <<ph, pend, ctl, myGen>>
    BY <1>3 DEF Boot, task, entry, ctrl
  <2>1. \A q \in Proc : ~Alive(q)
    BY <1>1, <2>0 DEF OneServer, Alive, TypeOK
  <2>2. \A q \in Proc : Quiet(q) /\ Quiet(q)'
    BY <2>0, <2>1 DEF ServerInv, DeadAreQuiet, Quiet
  <2>3. \A q \in Proc : Coherent(q)'
    BY <2>2, QuietIsCoherent
  <2>4. DeadAreQuiet'
    BY <2>2 DEF DeadAreQuiet
  <2>5. ~Working(p) /\ ~Working(p)'
    BY <2>2 DEF Working, Quiet
  <2>6. CASE UNCHANGED db
    <3>1. snap' = snap /\ journal' = journal
      BY <2>6 DEF db
    <3>2. Promised(p)
      BY <2>5, <3>1, UnsavedPromised
    <3>3. UntouchedBeforeCreate'
      BY <2>2, <3>1 DEF ServerInv, UntouchedBeforeCreate
    <3> QED BY <1>1, <2>2, <2>3, <2>4, <3>2, <3>3, MovesImplement DEF ServerInv, Promised, Quiet
  <2>7. CASE Recoverable /\ RecoverRun
    <3>1. snap.status = "RUNNING" /\ snap' = Interrupted(snap)
      BY <2>7 DEF Recoverable, RecoverRun
    <3>2. /\ snap'.status \in {"PAUSED"} \cup Terminal
          /\ snap'.status = "PAUSED" => Inspected(snap) = "RUNNING"
      BY <1>1, <3>1, InterruptedSettles
    <3>3. Promised(p)
      BY <2>5, <3>1, <3>2 DEF Promised, StatusMoves, StopHonoured, RequestHonoured, Terminal
    <3>4. UntouchedBeforeCreate'
      BY <3>2 DEF UntouchedBeforeCreate, Terminal
    <3> QED BY <1>1, <2>2, <2>3, <2>4, <3>3, <3>4, MovesImplement DEF ServerInv, Promised, Quiet
  <2> QED BY <1>3, <2>6, <2>7 DEF Boot
<1>4. CASE Age \/ LeaseExpires \/ UNCHANGED vars
  <2>1. UNCHANGED <<snap, owner, gen, journal, up, task, entry, ctrl>>
    BY <1>4 DEF Age, LeaseExpires, vars, db
  <2>2. UNCHANGED <<ph, myGen, mem, pend, read, ctl, tmp>>
    BY <2>1 DEF task, entry, ctrl
  <2>3. \A p \in Proc : Coherent(p)'
    BY <2>1, <2>2 DEF ServerInv, Coherent, EntryCoherent, Canceling, ControlCoherent, TaskCoherent,
       Fenced, Stored, NoStopBehind, Inspected, StopsRun, PauseRequested
  <2>4. DeadAreQuiet' /\ UntouchedBeforeCreate'
    BY <2>1, <2>2 DEF ServerInv, DeadAreQuiet, UntouchedBeforeCreate, Quiet, Alive
  <2>5. StatusStep /\ StopHonoured /\ RequestHonoured
    BY <2>1, <2>2 DEF StatusStep, Granted, Fenced, StopHonoured, RequestHonoured, PauseRequested
  <2> QED BY <1>1, <2>3, <2>4, <2>5 DEF ServerInv
<1>5. CASE ~UNCHANGED vars
  <2>1. StreamsAreFresh /\ Next
    BY <1>5
  <2> QED BY <2>1, <1>2, <1>3, <1>4 DEF Next, Steps
<1> QED BY <1>4, <1>5

LEMMA ServerInvariant ==
  Spec /\ []OneServer /\ FreshStreams => [](ServerInv /\ ShutdownOfTheLiving)
<1>1. Init => ServerInv /\ ShutdownOfTheLiving
  BY ServerInit, FencingInit DEF FencingInv
<1>2. /\ ServerInv /\ ShutdownOfTheLiving /\ [Next]_vars /\ OneServer' /\ [StreamsAreFresh]_vars
      => (ServerInv /\ ShutdownOfTheLiving)'
  BY ServerNext, ShutdownNext DEF ServerInv
<1> QED BY <1>1, <1>2, PTL DEF Spec, FreshStreams

-----------------------------------------------------------------------------

\* One server at a time implements AgentRunStatus: its fenced saves, its
\* unfenced control operations, recovery and shutdown move the status of the
\* row as diagram 8 allows, by one granted execution, and leave a terminal
\* status alone.
THEOREM ServersImplementStatus ==
  Spec /\ []OneServer /\ FreshStreams => ImplementsStatus
<1>1. Init => Abstract!Init
  BY DEF Init, Abstract!Init, Granted, Absent
<1>2. /\ ServerInv /\ ShutdownOfTheLiving /\ [Next]_vars /\ OneServer' /\ [StreamsAreFresh]_vars
      => [Abstract!Next]_(Abstract!vars)
  BY ServerNext DEF StatusStep, Abstract!vars
<1> QED BY <1>1, <1>2, ServerInvariant, PTL
        DEF Spec, FreshStreams, ImplementsStatus, Abstract!Spec

\* While one server is alive at a time and no stream resumes from a stale
\* read: a run whose journal stops it is not paused, neither by recovery after
\* a crash nor by a shutdown or a timeout (inspect_agent_run_checkpoint).
THEOREM StoppedRunsAreNotPaused ==
  Spec /\ []OneServer /\ FreshStreams => StoppedNotPaused
<1>1. ServerInv /\ ShutdownOfTheLiving /\ [Next]_vars /\ OneServer' /\ [StreamsAreFresh]_vars
        => [snap.status = "RUNNING" /\ Inspected(snap) # "RUNNING" => snap'.status # "PAUSED"]_snap
  BY ServerNext DEF StopHonoured
<1> QED BY <1>1, ServerInvariant, PTL DEF Spec, FreshStreams, StoppedNotPaused

\* Under the same assumptions, a pause request written to a running row is
\* carried by every snapshot that is saved while the run goes on, unless its
\* execution is being wound up.
THEOREM PauseRequestsAreKept ==
  Spec /\ []OneServer /\ FreshStreams => PauseKept
<1>1. ServerInv /\ ShutdownOfTheLiving /\ [Next]_vars /\ OneServer' /\ [StreamsAreFresh]_vars
        => [ /\ PauseRequested
             /\ snap'.status = "RUNNING"
             /\ \A p \in Proc : ph'[p] \notin {"markFailed", "markTimeout", "ending"}
             => snap'.pauseReq ]_snap
  BY ServerNext DEF RequestHonoured
<1> QED BY <1>1, ServerInvariant, PTL DEF Spec, FreshStreams, PauseKept

\* A deployment with one server, whose clients do not use resume_stream, gives
\* what the theorems above assume.
THEOREM SingleServer ==
  ASSUME Concurrent = FALSE, "resumeStream" \notin Requests
  PROVE  Spec => []OneServer /\ FreshStreams
<1> DEFINE NoStream == \A p \in Proc : pend[p] = "resume" => ctl[p] = "acquire"
           Inv == OneServer /\ ShutdownOfTheLiving /\ NoStream
<1>1. Init => Inv
  BY DEF Init, OneServer, Alive, ShutdownOfTheLiving
<1>2. TypeOK /\ Inv /\ [Next]_vars => Inv' /\ [StreamsAreFresh]_vars
  <2> SUFFICES ASSUME TypeOK, Inv, [Next]_vars PROVE Inv' /\ StreamsAreFresh
    OBVIOUS
  <2>1. StreamsAreFresh
    BY DEF StreamsAreFresh
  <2>2. OneServer'
    <3>1. ASSUME NEW p \in Proc, Boot(p) PROVE OneServer'
      BY <3>1 DEF Boot, OneServer, Alive, TypeOK
    <3>2. ASSUME \A q \in Proc : Alive(q)' => Alive(q) PROVE OneServer'
      BY <3>2 DEF OneServer
    <3>3. CASE UNCHANGED up
      BY <3>2, <3>3 DEF Alive
    <3>4. ASSUME NEW p \in Proc, ControlSave(p) \/ Stopping(p) PROVE OneServer'
      <4>1. CASE ControlSave(p)
        <5>1. \/ up' = up
              \/ ctl[p] = "shutdown" /\ up' = [up EXCEPT ![p] = "closed"]
          BY <4>1 DEF ControlSave
        <5>2. ctl[p] = "shutdown" => Alive(p)
          BY DEF ShutdownOfTheLiving, Alive
        <5> QED BY <3>2, <5>1, <5>2 DEF Alive, TypeOK
      <4>2. CASE Close(p) \/ PauseRunningStates(p)
        <5>1. \/ up' = up
              \/ Alive(p) /\ (up' = [up EXCEPT ![p] = "draining"] \/ up' = [up EXCEPT ![p] = "closed"])
          BY <4>2 DEF Close, PauseRunningStates, Alive
        <5> QED BY <3>2, <5>1 DEF Alive, TypeOK
      <4>3. CASE Exit(p) \/ Crash(p)
        BY <3>2, <4>3 DEF Exit, Crash, Gone, Alive, TypeOK
      <4> QED BY <3>4, <4>1, <4>2, <4>3 DEF Stopping
    <3>5. ASSUME NEW p \in Proc, Entering(p) \/ Acquiring(p) \/ Controlling(p) \/ Recover(p) PROVE UNCHANGED up
      BY <3>5 DEF Entering, Start, StartStream, Resume, ResumeStream, Create, Open, Acquiring,
         Acquire, AcquireRefused, Controlling, Pause, Cancel, Annotate, Recover
    <3>6. ASSUME NEW p \in Proc, Observing(p) \/ Scheduled(p) \/ Fault(p) PROVE UNCHANGED up
      BY <3>6 DEF Observing, ObserveCanceled, ObserveDelta, ObserveEvent, ObserveOutcome,
         Scheduled, Recheck, Timeout, Unwind, Release, Fault
    <3>7. ASSUME NEW p \in Proc,
                 \/ HeartbeatRenews(p) \/ HeartbeatLost(p)
                 \/ SaveSnapshot(p) \/ MarkFailed(p) \/ MarkTimeout(p) \/ RecordFailure(p)
          PROVE  UNCHANGED up
      BY <3>7 DEF HeartbeatRenews, HeartbeatLost, SaveSnapshot, MarkFailed, MarkTimeout, RecordFailure
    <3>8. CASE Age \/ LeaseExpires \/ UNCHANGED vars
      BY <3>8, <3>3 DEF Age, LeaseExpires, vars
    <3> QED BY <3>1, <3>3, <3>4, <3>5, <3>6, <3>7, <3>8 DEF Next, Finishing
  <2>3. NoStream'
    <3>1. ASSUME NEW p \in Proc, Entering(p) PROVE NoStream'
      BY <3>1 DEF Entering, Start, StartStream, Resume, ResumeStream, Create, Open, Enter, TypeOK
    <3>2. ASSUME NEW p \in Proc, Acquiring(p) PROVE NoStream'
      BY <3>2 DEF Acquiring, Acquire, AcquireRefused, TypeOK
    <3>3. ASSUME NEW p \in Proc, Controlling(p) \/ PauseRunningStates(p) PROVE NoStream'
      <4>1. ctl[p] = "none" /\ pend' = pend
        BY <3>3 DEF Controlling, Pause, Cancel, Annotate, PauseRunningStates, Busy, entry
      <4>2. \A q \in Proc \ {p} : ctl'[q] = ctl[q]
        BY <3>3 DEF Controlling, Pause, Cancel, Annotate, Prepare, PauseRunningStates, ctrl, TypeOK
      <4>3. pend[p] # "resume"
        BY <4>1
      <4> QED BY <4>1, <4>2, <4>3
    <3>4. ASSUME NEW p \in Proc, ControlSave(p) PROVE NoStream'
      BY <3>4 DEF ControlSave, entry, TypeOK
    <3>5. ASSUME NEW p \in Proc, Exit(p) \/ Crash(p) PROVE NoStream'
      BY <3>5 DEF Exit, Crash, Gone, TypeOK
    <3>6. ASSUME NEW p \in Proc, Boot(p) \/ Recover(p) \/ Close(p) PROVE NoStream'
      BY <3>6 DEF Boot, Recover, Close, entry, ctrl
    <3>7. ASSUME NEW p \in Proc, Observing(p) PROVE NoStream'
      BY <3>7 DEF Observing, ObserveCanceled, ObserveDelta, ObserveEvent, ObserveOutcome, entry, ctrl
    <3>8. ASSUME NEW p \in Proc, SaveSnapshot(p) \/ MarkFailed(p) \/ MarkTimeout(p) \/ RecordFailure(p)
          PROVE  NoStream'
      BY <3>8 DEF SaveSnapshot, MarkFailed, MarkTimeout, RecordFailure, entry, ctrl
    <3>9. ASSUME NEW p \in Proc, Scheduled(p) \/ Fault(p) \/ HeartbeatRenews(p) \/ HeartbeatLost(p)
          PROVE  NoStream'
      BY <3>9 DEF Scheduled, Recheck, Timeout, Unwind, Release, Fault, HeartbeatRenews, HeartbeatLost,
         entry, ctrl
    <3>10. CASE Age \/ LeaseExpires \/ UNCHANGED vars
      BY <3>10 DEF Age, LeaseExpires, vars, entry, ctrl
    <3> QED BY <3>1, <3>2, <3>3, <3>4, <3>5, <3>6, <3>7, <3>8, <3>9, <3>10 DEF Next, Finishing, Stopping
  <2>4. ShutdownOfTheLiving'
    BY ShutdownNext
  <2> QED BY <2>1, <2>2, <2>3, <2>4
<1> QED BY <1>1, <1>2, TypeCorrect, PTL DEF Spec, FreshStreams

=============================================================================
