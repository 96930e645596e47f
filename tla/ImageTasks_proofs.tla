--------------------------- MODULE ImageTasks_proofs ---------------------------
(* Proofs about ImageTasks for any tasks, processes, workers and bounds: no  *)
(* accepted task is generated twice, a deleted record does not come back, a  *)
(* task that has ended stays ended, and a renewed lease is respected.        *)
EXTENDS ImageTasks, FiniteSetTheorems, TLAPS

-----------------------------------------------------------------------------
(* Types.                                                                    *)

(* A row has a worker exactly while it is running, and a lease at most then. *)
RowType ==
  /\ status \in [Tasks -> {"absent"} \cup Active \cup Terminal]
  /\ holder \in [Tasks -> Workers \cup {NoWorker}]
  /\ live \in [Tasks -> BOOLEAN]
  /\ born \in [Tasks -> Nat]
  /\ \A t \in Tasks : (holder[t] = NoWorker) <=> (status[t] # "running")
  /\ \A t \in Tasks : live[t] => status[t] = "running"

(* A worker that has a task to do, or has just done it, knows it.            *)
Busy == InOperation \cup {"done", "failed", "cancelled", "finished"}

WorkType ==
  /\ pc \in [Workers -> Phase]
  /\ job \in [Workers -> Tasks \cup {NoTask}]
  /\ seen \in [Workers -> SUBSET Tasks]
  /\ result \in [Workers -> {"succeeded", "failed"}]
  /\ \A w \in Workers :
       pc[w] \in Busy => job[w] \in Tasks

RestType ==
  /\ records \subseteq Tasks
  /\ proc \in [Procs -> {"up", "closing", "down"}]
  /\ submitting \subseteq Submission
  /\ deleting \subseteq Procs \X Tasks
  /\ submits \in Nat /\ stops \in Nat /\ faults \in Nat
  /\ created \in [Tasks -> Nat]
  /\ calls \in [Tasks -> Nat]
  /\ gone \subseteq Tasks

LEMMA TypeIsParts == TypeOK <=> RowType /\ WorkType /\ RestType
  BY DEF TypeOK, RowType, WorkType, RestType, Busy

LEMMA NoWorkerIsNone == NoWorker \notin Workers
  BY DEF NoWorker, Workers

LEMMA RowKept == ASSUME RowType, UNCHANGED row PROVE RowType'
  BY DEF RowType, row

(* Workers that start go to the top of their loop.                           *)
LEMMA StartedWork ==
    ASSUME NEW p \in Procs, NEW active \in BOOLEAN, StartWorkers(p, active), WorkType
    PROVE  /\ pc' \in [Workers -> Phase]
           /\ \A w \in Workers : pc'[w] \in {pc[w], "top"}
  BY DEF StartWorkers, WorkType, Phase

LEMMA WorkKept ==
    ASSUME WorkType, UNCHANGED <<job, seen, result>>, pc' \in [Workers -> Phase],
           \A w \in Workers : pc'[w] \in Busy => pc[w] \in Busy
    PROVE  WorkType'
  BY DEF WorkType

(* What becomes of the row a worker finishes: nothing unless it holds it.    *)
LEMMA FinishedRow ==
    ASSUME RowType, NEW t \in Tasks, NEW w \in Workers, NEW s \in Terminal, Finish(t, w, s)
    PROVE  /\ RowType'
           /\ \A u \in Tasks : status'[u] = status[u] \/ (u = t /\ Own(w, t) /\ status'[u] = s)
           /\ \A u \in Tasks : holder'[u] \in {holder[u], NoWorker}
  <1>1. CASE Own(w, t)
    BY <1>1 DEF Finish, RowType, Terminal, Active
  <1>2. CASE ~Own(w, t)
    BY <1>2 DEF Finish, RowType, row
  <1> QED BY <1>1, <1>2

LEMMA DroppedRow ==
    ASSUME RowType, NEW t \in Tasks, Drop(t)
    PROVE  /\ RowType'
           /\ \A u \in Tasks : status'[u] = IF u = t THEN "absent" ELSE status[u]
           /\ \A u \in Tasks : holder'[u] = IF u = t THEN NoWorker ELSE holder[u]
  BY DEF Drop, RowType

(* Only rows whose lease has run out are interrupted.                        *)
LEMMA RecoveredRow ==
    ASSUME RowType, NEW w \in Workers, RecoverExpired(w)
    PROVE  /\ RowType'
           /\ \A u \in Tasks : \/ status'[u] = status[u] /\ holder'[u] = holder[u]
                              \/ /\ status[u] = "running" /\ ~live[u]
                                 /\ status'[u] = "interrupted" /\ holder'[u] = NoWorker
  <1>1. /\ status' \in [Tasks -> {"absent"} \cup Active \cup Terminal]
        /\ holder' \in [Tasks -> Workers \cup {NoWorker}]
        /\ live' \in [Tasks -> BOOLEAN] /\ UNCHANGED born
    BY DEF RecoverExpired, RowType, Terminal
  <1>2. \A u \in Tasks :
          \/ ~Recoverable(u, w) /\ status'[u] = status[u] /\ holder'[u] = holder[u] /\ live'[u] = live[u]
          \/ /\ status[u] = "running" /\ ~live[u]
             /\ status'[u] = "interrupted" /\ holder'[u] = NoWorker /\ ~live'[u]
    BY DEF RecoverExpired, Recoverable, Expired, RowType
  <1> QED BY <1>1, <1>2 DEF RowType

LEMMA ClaimedRow ==
    ASSUME RowType, NEW w \in Workers, NEW t \in Tasks, Claim(w, t)
    PROVE  /\ RowType'
           /\ \A u \in Tasks : status'[u] = IF u = t THEN "running" ELSE status[u]
           /\ \A u \in Tasks : holder'[u] = IF u = t THEN w ELSE holder[u]
  BY NoWorkerIsNone DEF Claim, RowType, Active

-----------------------------------------------------------------------------
(* Steps.                                                                    *)

(* Steps of a worker that write no row and no record and call nobody.        *)
Quietly(w) ==
  \/ ReadExpired(w) \/ ClaimNothing(w) \/ PersistFails(w) \/ ExecuteFails(w) \/ Archived(w)
  \/ ArchiveFails(w) \/ FinishRaises(w) \/ FinishInterruptedRaises(w) \/ LoopAgain(w)
  \/ RenewRefused(w) \/ RenewRaises(w)

(* Steps of a worker that finish a row.                                      *)
Finishes(w) == FinishDone(w) \/ FinishInterrupted(w)

(* Steps of a process.                                                       *)
OfProcess(p) == Boot(p) \/ Close(p) \/ Closed(p) \/ Crash(p)

LEMMA StepsOfNext ==
    ASSUME Next
    PROVE  \/ \E p \in Procs : OfProcess(p)
           \/ \E p \in Procs, t \in Tasks : Submit(p, t) \/ DeleteRecord(p, t) \/ DeleteForRecord(p, t)
           \/ \E s \in submitting : Create(s)
           \/ \E t \in Tasks : DeleteTask(t) \/ LeaseExpires(t)
           \/ \E w \in Workers : \/ Quietly(w) \/ Finishes(w) \/ RecoverExpired(w)
                                 \/ \E t \in Tasks : Claim(w, t)
                                 \/ CallProvider(w) \/ Persist(w) \/ Renew(w)
  BY DEF Next, Process, User, Worker, Heartbeat, OfProcess, Quietly, Finishes

LEMMA QuietStep ==
    ASSUME TypeOK, NEW w \in Workers, Quietly(w)
    PROVE  /\ UNCHANGED <<row, records, proc, job, request, submits, stops, history>>
           /\ faults' \in Nat /\ pc' \in [Workers -> Phase]
           /\ seen' \in [Workers -> SUBSET Tasks]
           /\ result' \in [Workers -> {"succeeded", "failed"}]
           /\ \A v \in Workers \ {w} : pc'[v] = pc[v] /\ result'[v] = result[v]
           /\ \/ pc'[w] \in {"top", "recovering", "dead"}
              \/ pc'[w] \in {"done", "failed", "cancelled"} /\ pc[w] \in Busy
  <1>1. CASE ReadExpired(w)
    BY <1>1 DEF ReadExpired, Go, TypeOK, Phase, bounds, history, request
  <1>2. CASE ClaimNothing(w) \/ LoopAgain(w)
    BY <1>2 DEF ClaimNothing, LoopAgain, Go, TypeOK, Phase, bounds, history, request
  <1>3. CASE PersistFails(w)
    BY <1>3 DEF PersistFails, Ends, Go, TypeOK, Phase, Busy, InOperation, bounds, history, request
  <1>4. CASE ExecuteFails(w) \/ ArchiveFails(w)
    BY <1>4 DEF ExecuteFails, ArchiveFails, Ends, Go, TypeOK, Phase, Busy, InOperation, bounds, history, request
  <1>5. CASE Archived(w)
    BY <1>5 DEF Archived, Ends, Go, TypeOK, Phase, Busy, InOperation, bounds, history, request
  <1>6. CASE FinishRaises(w) \/ FinishInterruptedRaises(w)
    BY <1>6 DEF FinishRaises, FinishInterruptedRaises, Go, TypeOK, Phase, Busy, InOperation, bounds,
       history, request
  <1>7. CASE RenewRefused(w) \/ RenewRaises(w)
    BY <1>7 DEF RenewRefused, RenewRaises, Go, TypeOK, Phase, Busy, InOperation, bounds, history, request
  <1> QED BY <1>1, <1>2, <1>3, <1>4, <1>5, <1>6, <1>7 DEF Quietly

(* A process that stops leaves its workers off, or about to give up what     *)
(* they do; one that starts them puts them at the top of their loop.         *)
LEMMA ProcessStep ==
    ASSUME TypeOK, NEW p \in Procs, OfProcess(p)
    PROVE  /\ UNCHANGED <<row, records, job, seen, result, history>>
           /\ pc' \in [Workers -> Phase] /\ RestType'
           /\ submitting' \subseteq submitting
           /\ \A v \in Workers :
                \/ pc'[v] \in {pc[v], "top", "off"}
                \/ pc'[v] = "cancelled" /\ pc[v] \in Busy
  <1>1. CASE Boot(p)
    <2>1. pc' \in [Workers -> Phase] /\ \A v \in Workers : pc'[v] \in {pc[v], "top"}
      BY <1>1, TypeIsParts, StartedWork DEF Boot, HasActive
    <2> QED BY <1>1, <2>1 DEF Boot, TypeOK, RestType, request, bounds, history
  <1>2. CASE Close(p)
    BY <1>2 DEF Close, TypeOK, RestType, Phase, Busy, InOperation, request, history
  <1>3. CASE Closed(p)
    BY <1>3 DEF Closed, TypeOK, RestType, Phase, request, bounds, history
  <1>4. CASE Crash(p)
    BY <1>4 DEF Crash, TypeOK, RestType, Phase, history
  <1> QED BY <1>1, <1>2, <1>3, <1>4 DEF OfProcess

(* How a request changes the rows and the workers.                           *)
LEMMA CreateStep ==
    ASSUME TypeOK, NEW s \in submitting, Create(s)
    PROVE  /\ RowType' /\ WorkType' /\ RestType'
           /\ \A v \in Workers : pc'[v] \in {pc[v], "top"}
           /\ UNCHANGED <<records, job, result, deleting, calls, gone>>
           /\ \A u \in Tasks :
                \/ status'[u] = status[u] /\ holder'[u] = holder[u] /\ created'[u] = created[u]
                \/ /\ status[u] = "absent" /\ status'[u] = "queued"
                   /\ created'[u] = created[u] + 1
  <1>1. s.task \in Tasks /\ s.proc \in Procs /\ s.born \in Nat
    BY DEF TypeOK, Submission
  <1>2. pc' \in [Workers -> Phase] /\ \A v \in Workers : pc'[v] \in {pc[v], "top"}
    <2>1. CASE UNCHANGED pc
      BY <2>1 DEF TypeOK
    <2>2. CASE StartWorkers(s.proc, HasActive \/ Accepts(s))
      BY <1>1, <2>2, TypeIsParts, StartedWork DEF HasActive, Accepts
    <2> QED BY <2>1, <2>2 DEF Create
  <1>3. UNCHANGED <<records, proc, job, seen, result, deleting, bounds, calls, gone>>
    BY DEF Create
  <1>4. WorkType'
    BY <1>2, <1>3, TypeIsParts, WorkKept DEF Busy, InOperation
  <1>5. CASE Accepts(s)
    <2>1. /\ status[s.task] = "absent"
          /\ status' = [status EXCEPT ![s.task] = "queued"]
          /\ born' = [born EXCEPT ![s.task] = s.born]
          /\ created' = [created EXCEPT ![s.task] = created[s.task] + 1]
          /\ UNCHANGED <<holder, live>> /\ submitting' = submitting \ {s}
      BY <1>5 DEF Create, Accepts
    <2>2. RowType' /\ RestType'
      BY <1>1, <1>3, <2>1 DEF TypeOK, RowType, RestType, Active, bounds
    <2> QED BY <1>1, <1>2, <1>3, <1>4, <2>1, <2>2 DEF TypeOK
  <1>6. CASE ~Accepts(s)
    <2>1. UNCHANGED <<row, created>> /\ submitting' = submitting \ {s}
      BY <1>6 DEF Create
    <2> QED BY <1>2, <1>3, <1>4, <2>1 DEF TypeOK, RowType, RestType, row, bounds
  <1> QED BY <1>5, <1>6

LEMMA TypeNext == TypeOK /\ [Next]_vars => TypeOK'
  <1> SUFFICES ASSUME TypeOK, [Next]_vars PROVE TypeOK'
    OBVIOUS
  <1>0. RowType /\ WorkType /\ RestType
    BY TypeIsParts
  <1> SUFFICES RowType' /\ WorkType' /\ RestType'
    BY DEF TypeOK, RowType, WorkType, RestType, Busy
  <1>1. ASSUME NEW p \in Procs, OfProcess(p) PROVE RowType' /\ WorkType' /\ RestType'
    <2>1. WorkType'
      BY <1>0, <1>1, ProcessStep DEF WorkType, Busy, InOperation
    <2> QED BY <1>0, <1>1, <2>1, ProcessStep, RowKept
  <1>2. ASSUME NEW p \in Procs, NEW t \in Tasks, Submit(p, t) \/ DeleteRecord(p, t)
        PROVE  RowType' /\ WorkType' /\ RestType'
    <2>1. UNCHANGED <<row, work>>
      BY <1>2 DEF Submit, DeleteRecord
    <2>2. RestType'
      BY <1>0, <1>2 DEF Submit, DeleteRecord, RestType, Submission, bounds, history
    <2> QED BY <1>0, <2>1, <2>2, RowKept DEF WorkType, work
  <1>3. ASSUME NEW p \in Procs, NEW t \in Tasks, DeleteForRecord(p, t)
        PROVE  RowType' /\ WorkType' /\ RestType'
    BY <1>0, <1>3, DroppedRow DEF DeleteForRecord, WorkType, RestType, work, bounds, history
  <1>4. ASSUME NEW t \in Tasks, DeleteTask(t) PROVE RowType' /\ WorkType' /\ RestType'
    BY <1>0, <1>4, DroppedRow DEF DeleteTask, WorkType, RestType, work, bounds, history, request
  <1>5. ASSUME NEW t \in Tasks, LeaseExpires(t) PROVE RowType' /\ WorkType' /\ RestType'
    BY <1>0, <1>5 DEF LeaseExpires, RowType, WorkType, RestType, work, bounds, history, request
  <1>6. ASSUME NEW s \in submitting, Create(s) PROVE RowType' /\ WorkType' /\ RestType'
    BY <1>6, CreateStep
  <1>7. ASSUME NEW w \in Workers PROVE
          Quietly(w) => RowType' /\ WorkType' /\ RestType'
    <2> SUFFICES ASSUME Quietly(w) PROVE RowType' /\ WorkType' /\ RestType'
      OBVIOUS
    <2>1. WorkType'
      BY <1>0, QuietStep DEF WorkType, Busy, InOperation
    <2>2. RestType'
      BY <1>0, QuietStep DEF RestType, request, history
    <2> QED BY <1>0, <2>1, <2>2, QuietStep, RowKept
  <1>8. ASSUME NEW w \in Workers, Finishes(w) PROVE RowType' /\ WorkType' /\ RestType'
    <2>1. job[w] \in Tasks /\ pc[w] \in Busy
      BY <1>0, <1>8 DEF Finishes, FinishDone, FinishInterrupted, WorkType, Busy
    <2>2. RowType'
      BY <1>0, <1>8, <2>1, FinishedRow DEF Finishes, FinishDone, FinishInterrupted, WorkType, Terminal
    <2>3. UNCHANGED <<records, proc, job, seen, result, request, bounds, history>>
      BY <1>8 DEF Finishes, FinishDone, FinishInterrupted
    <2>4. pc' \in [Workers -> Phase]
      BY <1>0, <1>8 DEF Finishes, FinishDone, FinishInterrupted, Go, WorkType, Phase
    <2>5. \A v \in Workers : pc'[v] \in Busy => pc[v] \in Busy
      BY <1>0, <1>8, <2>1 DEF Finishes, FinishDone, FinishInterrupted, Go, WorkType
    <2> QED BY <1>0, <2>2, <2>3, <2>4, <2>5, WorkKept DEF RestType, request, bounds, history
  <1>9. ASSUME NEW w \in Workers, RecoverExpired(w) PROVE RowType' /\ WorkType' /\ RestType'
    <2>1. pc' = [pc EXCEPT ![w] = "claiming"]
          /\ UNCHANGED <<records, proc, job, seen, result, request, bounds, history>>
      BY <1>9 DEF RecoverExpired, Go
    <2>2. WorkType'
      BY <1>0, <2>1 DEF WorkType, Phase, Busy, InOperation
    <2> QED BY <1>0, <1>9, <2>1, <2>2, RecoveredRow DEF RestType, request, bounds, history
  <1>10. ASSUME NEW w \in Workers, NEW t \in Tasks, Claim(w, t)
         PROVE  RowType' /\ WorkType' /\ RestType'
    <2>1. /\ pc' = [pc EXCEPT ![w] = "claimed"] /\ job' = [job EXCEPT ![w] = t]
          /\ UNCHANGED <<records, proc, seen, result, request, bounds, history>>
      BY <1>10 DEF Claim, Go
    <2>2. WorkType'
      BY <1>0, <2>1 DEF WorkType, Phase, InOperation
    <2> QED BY <1>0, <1>10, <2>1, <2>2, ClaimedRow DEF RestType, request, bounds, history
  <1>11. ASSUME NEW w \in Workers, CallProvider(w) \/ Persist(w)
         PROVE  RowType' /\ WorkType' /\ RestType'
    <2>1. pc[w] \in Busy /\ job[w] \in Tasks /\ UNCHANGED <<row, proc, job, seen, request, bounds>>
      BY <1>0, <1>11 DEF CallProvider, Persist, WorkType, Busy, InOperation
    <2>2. WorkType'
      <3>1. pc' \in [Workers -> Phase] /\ result' \in [Workers -> {"succeeded", "failed"}]
        BY <1>0, <1>11 DEF CallProvider, Persist, Go, Ends, WorkType, Phase, InOperation
      <3>2. \A v \in Workers \ {w} : pc'[v] = pc[v]
        BY <1>0, <1>11 DEF CallProvider, Persist, Go, Ends, WorkType
      <3> QED BY <1>0, <2>1, <3>1, <3>2 DEF WorkType
    <2>3. RestType'
      BY <1>0, <1>11, <2>1 DEF CallProvider, Persist, RestType, request, bounds, history
    <2> QED BY <1>0, <2>1, <2>2, <2>3, RowKept
  <1>12. ASSUME NEW w \in Workers, Renew(w) PROVE RowType' /\ WorkType' /\ RestType'
    <2>1. live' = [live EXCEPT ![job[w]] = TRUE] /\ status[job[w]] = "running"
          /\ UNCHANGED <<status, holder, born, records, proc, work, request, bounds, history>>
      BY <1>12 DEF Renew, Own
    <2>2. RowType'
      BY <1>0, <2>1 DEF RowType
    <2> QED BY <1>0, <2>1, <2>2 DEF WorkType, RestType, work, request, bounds, history
  <1>13. CASE UNCHANGED vars
    BY <1>0, <1>13, RowKept DEF vars, WorkType, RestType, work, request, bounds, history
  <1> QED BY <1>1, <1>2, <1>3, <1>4, <1>5, <1>6, <1>7, <1>8, <1>9, <1>10, <1>11, <1>12, <1>13,
             StepsOfNext

(* In every state rows, workers and requests have their types.               *)
LEMMA TypeInit == Init => TypeOK
  BY DEF Init, TypeOK, Active, Terminal, Phase, InOperation

-----------------------------------------------------------------------------
(* Generating once. What an accepted task may still cause is counted: its    *)
(* row while it is queued, and the workers between their claim and their     *)
(* call. The same worker may have lost the row meanwhile, and the row may be *)
(* deleted and submitted again; each submission still pays for one call.     *)

Pending(t) == {w \in Workers : pc[w] = "claimed" /\ job[w] = t}

Calling(t) == {w \in Workers : pc[w] = "calling" /\ job[w] = t}

One(b) == IF b THEN 1 ELSE 0

(* A call in turn saves at most one record, be it still there or deleted.    *)
CountedFor(t) ==
  /\ Cardinality(Pending(t)) + One(status[t] = "queued") + calls[t] <= created[t]
  /\ Cardinality(Calling(t)) + One(t \in records) + One(t \in gone) <= calls[t]

CountInv == TypeOK /\ \A t \in Tasks : CountedFor(t)

LEMMA FiniteCounts ==
    /\ \A t \in Tasks : IsFiniteSet(Pending(t)) /\ Cardinality(Pending(t)) \in Nat
    /\ \A t \in Tasks : IsFiniteSet(Calling(t)) /\ Cardinality(Calling(t)) \in Nat
  <1>1. IsFiniteSet(1..Concurrency)
    BY ImageAssumption, FS_Interval
  <1>2. IsFiniteSet(Workers)
    BY <1>1, ImageAssumption, FS_Product DEF Workers
  <1>3. \A t \in Tasks : Pending(t) \subseteq Workers /\ Calling(t) \subseteq Workers
    BY DEF Pending, Calling
  <1> QED BY <1>2, <1>3, FS_Subset, FS_CardinalityType

LEMMA CountInit == Init => CountInv
  <1> SUFFICES ASSUME Init, NEW t \in Tasks PROVE CountedFor(t)
    BY TypeInit DEF CountInv
  <1>1. Pending(t) = {} /\ Calling(t) = {}
    BY DEF Init, Pending, Calling
  <1>2. Cardinality(Pending(t)) = 0 /\ Cardinality(Calling(t)) = 0
    BY <1>1, FS_EmptySet
  <1> QED BY <1>2 DEF Init, CountedFor, One

(* Nothing is gained where no worker claims or calls, no row is accepted and *)
(* no record saved.                                                          *)
LEMMA CountsKept ==
    ASSUME CountInv, NEW t \in Tasks, UNCHANGED <<job, created, calls, records, gone>>,
           \A w \in Workers : pc'[w] \in {"claimed", "calling"} => pc'[w] = pc[w],
           status'[t] = "queued" => status[t] = "queued"
    PROVE  CountedFor(t)'
  <1>1. Pending(t)' \subseteq Pending(t) /\ Calling(t)' \subseteq Calling(t)
    BY DEF Pending, Calling
  <1>2. /\ Cardinality(Pending(t)') <= Cardinality(Pending(t))
        /\ Cardinality(Calling(t)') <= Cardinality(Calling(t))
        /\ Cardinality(Pending(t)') \in Nat /\ Cardinality(Pending(t)) \in Nat
        /\ Cardinality(Calling(t)') \in Nat /\ Cardinality(Calling(t)) \in Nat
    BY <1>1, FiniteCounts, FS_Subset, FS_CardinalityType
  <1>3. created[t] \in Nat /\ calls[t] \in Nat
    BY DEF CountInv, TypeOK
  <1>4. One(status'[t] = "queued") <= One(status[t] = "queued")
    BY DEF One
  <1>5. One(status'[t] = "queued") \in {0, 1} /\ One(status[t] = "queued") \in {0, 1}
    BY DEF One
  <1>6. One(t \in records) \in {0, 1} /\ One(t \in gone) \in {0, 1}
    BY DEF One
  <1> QED BY <1>2, <1>3, <1>4, <1>5, <1>6 DEF CountInv, CountedFor

LEMMA CountNumbers ==
    ASSUME CountInv, NEW t \in Tasks
    PROVE  /\ created[t] \in Nat /\ calls[t] \in Nat
           /\ IsFiniteSet(Pending(t)) /\ Cardinality(Pending(t)) \in Nat
           /\ IsFiniteSet(Calling(t)) /\ Cardinality(Calling(t)) \in Nat
           /\ Cardinality(Pending(t)) + One(status[t] = "queued") + calls[t] <= created[t]
           /\ Cardinality(Calling(t)) + One(t \in records) + One(t \in gone) <= calls[t]
  BY FiniteCounts DEF CountInv, CountedFor, TypeOK

(* A submission that is accepted adds a row to be done, and is counted.      *)
LEMMA CreateCounts ==
    ASSUME CountInv, NEW s \in submitting, Create(s), NEW t \in Tasks
    PROVE  CountedFor(t)'
  <1>0. TypeOK
    BY DEF CountInv
  <1>1. Pending(t)' = Pending(t) /\ Calling(t)' = Calling(t)
    <2>1. UNCHANGED job /\ \A v \in Workers : pc'[v] \in {pc[v], "top"}
      BY <1>0, CreateStep
    <2>2. \A v \in Workers : pc'[v] # pc[v] => pc[v] = "off"
      BY <1>0 DEF Create, StartWorkers, TypeOK
    <2> QED BY <2>1, <2>2 DEF Pending, Calling
  <1>2. UNCHANGED <<records, calls, gone>>
    BY <1>0, CreateStep
  <1>3. CASE status'[t] = status[t] /\ created'[t] = created[t]
    BY <1>1, <1>2, <1>3 DEF CountInv, CountedFor
  <1>4. CASE status[t] = "absent" /\ status'[t] = "queued" /\ created'[t] = created[t] + 1
    BY <1>1, <1>2, <1>4, CountNumbers DEF CountedFor, One
  <1> QED BY <1>0, <1>3, <1>4, CreateStep

(* The row that was queued becomes a worker before its call.                 *)
LEMMA ClaimCounts ==
    ASSUME CountInv, NEW w \in Workers, NEW u \in Tasks, Claim(w, u), NEW t \in Tasks
    PROVE  CountedFor(t)'
  <1>0. TypeOK
    BY DEF CountInv
  <1>1. /\ pc[w] = "claiming" /\ pc' = [pc EXCEPT ![w] = "claimed"] /\ job' = [job EXCEPT ![w] = u]
        /\ UNCHANGED <<records, history>> /\ status[u] = "queued"
        /\ status' = [status EXCEPT ![u] = "running"]
    BY DEF Claim, Claimable, Go
  <1>2. Calling(t)' = Calling(t)
    BY <1>0, <1>1 DEF TypeOK, Calling
  <1>3. CASE t = u
    <2>1. Pending(t)' = Pending(t) \cup {w} /\ w \notin Pending(t)
      BY <1>0, <1>1, <1>3 DEF TypeOK, Pending
    <2>2. Cardinality(Pending(t)') = Cardinality(Pending(t)) + 1
      BY <2>1, CountNumbers, FS_AddElement
    <2>3. One(status'[t] = "queued") = 0 /\ One(status[t] = "queued") = 1
      BY <1>0, <1>1, <1>3 DEF TypeOK, One
    <2> QED BY <1>1, <1>2, <2>2, <2>3, CountNumbers DEF CountedFor, history
  <1>4. CASE t # u
    <2>1. Pending(t)' = Pending(t) /\ status'[t] = status[t]
      BY <1>0, <1>1, <1>4 DEF TypeOK, Pending
    <2> QED BY <1>1, <1>2, <2>1 DEF CountInv, CountedFor, history
  <1> QED BY <1>3, <1>4

(* The worker calls, and will save a record or not.                          *)
LEMMA CallCounts ==
    ASSUME CountInv, NEW w \in Workers, CallProvider(w), NEW t \in Tasks
    PROVE  CountedFor(t)'
  <1>0. TypeOK
    BY DEF CountInv
  <1>1. /\ pc[w] = "claimed" /\ pc' = [pc EXCEPT ![w] = "calling"]
        /\ calls' = [calls EXCEPT ![job[w]] = calls[job[w]] + 1]
        /\ UNCHANGED <<status, job, records, created, gone>>
    BY DEF CallProvider, Go, row
  <1>2. job[w] \in Tasks
    BY <1>0, <1>1 DEF TypeOK, InOperation
  <1>3. CASE t = job[w]
    <2>1. /\ Pending(t)' = Pending(t) \ {w} /\ w \in Pending(t)
          /\ Calling(t)' = Calling(t) \cup {w} /\ w \notin Calling(t)
      BY <1>0, <1>1, <1>3 DEF TypeOK, Pending, Calling
    <2>2. /\ Cardinality(Pending(t)') = Cardinality(Pending(t)) - 1
          /\ Cardinality(Calling(t)') = Cardinality(Calling(t)) + 1
      <3>1. Cardinality(Pending(t)') = Cardinality(Pending(t)) - 1
        BY <2>1, CountNumbers, FS_RemoveElement
      <3>2. Cardinality(Calling(t)') = Cardinality(Calling(t)) + 1
        BY <2>1, CountNumbers, FS_AddElement
      <3> QED BY <3>1, <3>2
    <2>3. calls'[t] = calls[t] + 1
      BY <1>0, <1>1, <1>3 DEF TypeOK
    <2>4. One(status[t] = "queued") \in Nat /\ One(t \in records) \in Nat /\ One(t \in gone) \in Nat
      BY DEF One
    <2> QED BY <1>1, <2>2, <2>3, <2>4, CountNumbers DEF CountedFor
  <1>4. CASE t # job[w]
    <2>1. Pending(t)' = Pending(t) /\ Calling(t)' = Calling(t) /\ calls'[t] = calls[t]
      BY <1>0, <1>1, <1>4 DEF TypeOK, Pending, Calling
    <2> QED BY <1>1, <2>1 DEF CountInv, CountedFor
  <1> QED BY <1>3, <1>4

LEMMA PersistCounts ==
    ASSUME CountInv, NEW w \in Workers, Persist(w), NEW t \in Tasks
    PROVE  CountedFor(t)'
  <1>0. TypeOK
    BY DEF CountInv
  <1>1. /\ pc[w] = "calling" /\ records' = records \cup {job[w]}
        /\ UNCHANGED <<status, job, created, calls, gone>>
    BY DEF Persist, row, history
  <1>2. pc'[w] \in {"archiving", "done"} /\ \A v \in Workers \ {w} : pc'[v] = pc[v]
    BY <1>0 DEF Persist, Ends, Go, TypeOK
  <1>3. Pending(t)' = Pending(t)
    BY <1>1, <1>2 DEF Pending
  <1>4. CASE t = job[w]
    <2>1. Calling(t)' = Calling(t) \ {w} /\ w \in Calling(t)
      BY <1>1, <1>2, <1>4 DEF Calling
    <2>2. Cardinality(Calling(t)') = Cardinality(Calling(t)) - 1
      BY <2>1, CountNumbers, FS_RemoveElement
    <2>3. One(t \in records') = 1 /\ One(t \in records) \in {0, 1} /\ One(t \in gone) \in {0, 1}
      BY <1>1, <1>4 DEF One
    <2> QED BY <1>1, <1>3, <2>2, <2>3, CountNumbers DEF CountedFor
  <1>5. CASE t # job[w]
    <2>1. Calling(t)' = Calling(t)
      BY <1>1, <1>2, <1>5 DEF Calling
    <2>2. t \in records' <=> t \in records
      BY <1>1, <1>5
    <2> QED BY <1>1, <1>3, <2>1, <2>2 DEF CountInv, CountedFor, One
  <1> QED BY <1>4, <1>5

LEMMA DeleteRecordCounts ==
    ASSUME CountInv, NEW p \in Procs, NEW u \in Tasks, DeleteRecord(p, u), NEW t \in Tasks
    PROVE  CountedFor(t)'
  <1>1. /\ u \in records /\ records' = records \ {u} /\ gone' = gone \cup {u}
        /\ UNCHANGED <<status, pc, job, created, calls>>
    BY DEF DeleteRecord, row, work
  <1>2. Pending(t)' = Pending(t) /\ Calling(t)' = Calling(t)
    BY <1>1 DEF Pending, Calling
  <1>3. One(t \in records') + One(t \in gone') <= One(t \in records) + One(t \in gone)
    BY <1>1 DEF One
  <1>4. /\ One(t \in records') \in Nat /\ One(t \in gone') \in Nat
        /\ One(t \in records) \in Nat /\ One(t \in gone) \in Nat
    BY DEF One
  <1> QED BY <1>1, <1>2, <1>3, <1>4, CountNumbers DEF CountedFor

LEMMA CountNext == CountInv /\ [Next]_vars => CountInv'
  <1> SUFFICES ASSUME CountInv, [Next]_vars, NEW t \in Tasks PROVE CountedFor(t)'
    BY TypeNext DEF CountInv
  <1>0. TypeOK /\ RowType
    BY TypeIsParts DEF CountInv
  <1>1. ASSUME NEW p \in Procs, OfProcess(p) PROVE CountedFor(t)'
    BY <1>0, <1>1, ProcessStep, CountsKept DEF row, history
  <1>2. ASSUME NEW p \in Procs, NEW u \in Tasks, Submit(p, u) PROVE CountedFor(t)'
    BY <1>2, CountsKept DEF Submit, row, work, history
  <1>3. ASSUME NEW p \in Procs, NEW u \in Tasks, DeleteForRecord(p, u) PROVE CountedFor(t)'
    BY <1>0, <1>3, DroppedRow, CountsKept DEF DeleteForRecord, work, history
  <1>4. ASSUME NEW u \in Tasks, DeleteTask(u) PROVE CountedFor(t)'
    BY <1>0, <1>4, DroppedRow, CountsKept DEF DeleteTask, work, history
  <1>5. ASSUME NEW u \in Tasks, LeaseExpires(u) PROVE CountedFor(t)'
    BY <1>5, CountsKept DEF LeaseExpires, work, history
  <1>6. ASSUME NEW w \in Workers, Quietly(w) PROVE CountedFor(t)'
    <2>1. UNCHANGED <<status, job, created, calls, records, gone>>
      BY <1>0, <1>6, QuietStep DEF row, history
    <2>2. \A v \in Workers : pc'[v] \in {"claimed", "calling"} => pc'[v] = pc[v]
      BY <1>0, <1>6, QuietStep
    <2> QED BY <2>1, <2>2, CountsKept
  <1>7. ASSUME NEW w \in Workers, Finishes(w) PROVE CountedFor(t)'
    <2>1. UNCHANGED <<job, created, calls, records, gone>> /\ job[w] \in Tasks
      BY <1>0, <1>7 DEF Finishes, FinishDone, FinishInterrupted, history, TypeOK
    <2>2. \A v \in Workers : pc'[v] \in {"claimed", "calling"} => pc'[v] = pc[v]
      BY <1>0, <1>7 DEF Finishes, FinishDone, FinishInterrupted, Go, TypeOK
    <2>3. status'[t] = "queued" => status[t] = "queued"
      BY <1>0, <1>7, <2>1, FinishedRow DEF Finishes, FinishDone, FinishInterrupted, TypeOK, Terminal
    <2> QED BY <2>1, <2>2, <2>3, CountsKept
  <1>8. ASSUME NEW w \in Workers, RecoverExpired(w) PROVE CountedFor(t)'
    <2>1. UNCHANGED <<job, created, calls, records, gone>> /\ pc' = [pc EXCEPT ![w] = "claiming"]
      BY <1>8 DEF RecoverExpired, Go, history
    <2>2. status'[t] = "queued" => status[t] = "queued"
      BY <1>0, <1>8, RecoveredRow
    <2>3. \A v \in Workers : pc'[v] \in {"claimed", "calling"} => pc'[v] = pc[v]
      BY <1>0, <2>1 DEF TypeOK
    <2> QED BY <2>1, <2>2, <2>3, CountsKept
  <1>9. ASSUME NEW w \in Workers, Renew(w) PROVE CountedFor(t)'
    BY <1>9, CountsKept DEF Renew, work, history
  <1>10. CASE UNCHANGED vars
    BY <1>10, CountsKept DEF vars, row, work, history
  <1> QED BY <1>1, <1>2, <1>3, <1>4, <1>5, <1>6, <1>7, <1>8, <1>9, <1>10, StepsOfNext,
             CreateCounts, ClaimCounts, CallCounts, PersistCounts, DeleteRecordCounts

(* Types, and the counts of what each submission has caused and may still    *)
(* cause, hold in every state.                                               *)
THEOREM ImagesCounted == Spec => []CountInv
  BY CountInit, CountNext, PTL DEF Spec

(* No accepted task reaches the provider twice: not after a crash or a lease *)
(* that ran out in the middle of an operation, not because processes claim   *)
(* at once, not because a submission is repeated or a task submitted again   *)
(* (claim, recover_expired and create in tasks.py).                          *)
THEOREM NoTaskIsGeneratedTwice == Spec => []GeneratedOnce
  <1>1. CountInv => GeneratedOnce
    <2> SUFFICES ASSUME CountInv, NEW t \in Tasks PROVE calls[t] <= created[t]
      BY DEF GeneratedOnce
    <2>1. One(status[t] = "queued") \in Nat
      BY DEF One
    <2> QED BY <2>1, CountNumbers
  <1> QED BY <1>1, ImagesCounted, PTL

(* A record that was deleted does not come back from a generation or an      *)
(* archive still under way: the only call of its task has saved it already,  *)
(* and the archive updates but never inserts (update in sqlite.py).          *)
THEOREM DeletedRecordsStayDeleted == Spec => []DeletedStaysDeleted
  <1>1. CountInv => DeletedStaysDeleted
    <2> SUFFICES ASSUME CountInv, NEW t \in gone, created[t] = 1, t \in records PROVE FALSE
      BY DEF DeletedStaysDeleted
    <2>1. t \in Tasks
      BY DEF CountInv, TypeOK
    <2>2. One(status[t] = "queued") \in Nat /\ One(t \in records) = 1 /\ One(t \in gone) = 1
      BY DEF One
    <2> QED BY <2>1, <2>2, CountNumbers
  <1> QED BY <1>1, ImagesCounted, PTL

-----------------------------------------------------------------------------
(* What a worker writes of a row it has claimed, and nobody else.            *)

RowStep(t) ==
  \/ status'[t] = status[t]
  \/ status'[t] = "absent"
  \/ status[t] \in {"absent", "queued"}
  \/ status[t] = "running" /\ ~live[t]
  \/ \E w \in Workers : Own(w, t) /\ \A v \in Workers \ {w} : pc'[v] = pc[v]

LEMMA RowSteps ==
    ASSUME TypeOK, [Next]_vars
    PROVE  \A t \in Tasks : RowStep(t)
  <1> SUFFICES ASSUME NEW t \in Tasks PROVE RowStep(t)
    OBVIOUS
  <1>0. RowType
    BY TypeIsParts
  <1>1. ASSUME NEW p \in Procs, OfProcess(p) PROVE  RowStep(t)
    BY <1>1, ProcessStep DEF row, RowStep
  <1>2. ASSUME NEW p \in Procs, NEW u \in Tasks, Submit(p, u) \/ DeleteRecord(p, u)
        PROVE  RowStep(t)
    BY <1>2 DEF Submit, DeleteRecord, row, RowStep
  <1>3. ASSUME NEW p \in Procs, NEW u \in Tasks, DeleteForRecord(p, u)
        PROVE  RowStep(t)
    BY <1>0, <1>3, DroppedRow DEF DeleteForRecord, RowStep
  <1>4. ASSUME NEW s \in submitting, Create(s)
        PROVE  RowStep(t)
    BY <1>4, CreateStep DEF RowStep
  <1>5. ASSUME NEW w \in Workers, Quietly(w) PROVE  RowStep(t)
    BY <1>5, QuietStep DEF row, RowStep
  <1>6. ASSUME NEW w \in Workers, Finishes(w) PROVE RowStep(t)
    <2>1. job[w] \in Tasks /\ \A v \in Workers \ {w} : pc'[v] = pc[v]
      BY <1>6 DEF Finishes, FinishDone, FinishInterrupted, Go, TypeOK
    <2>2. status'[t] # status[t] => Own(w, t)
      BY <1>0, <1>6, <2>1, FinishedRow DEF Finishes, FinishDone, FinishInterrupted, TypeOK, Terminal
    <2> QED BY <2>1, <2>2 DEF RowStep
  <1>7. ASSUME NEW w \in Workers, RecoverExpired(w)
        PROVE  RowStep(t)
    BY <1>0, <1>7, RecoveredRow DEF RowStep
  <1>8. ASSUME NEW w \in Workers, NEW u \in Tasks, Claim(w, u)
        PROVE  RowStep(t)
    BY <1>8 DEF Claim, Claimable, TypeOK, RowStep
  <1>9. ASSUME NEW w \in Workers, CallProvider(w) \/ Persist(w) \/ Renew(w)
        PROVE  RowStep(t)
    BY <1>9 DEF CallProvider, Persist, Renew, row, RowStep
  <1>10. ASSUME NEW u \in Tasks, LeaseExpires(u) PROVE  RowStep(t)
    BY <1>10 DEF LeaseExpires, RowStep
  <1>11. CASE UNCHANGED vars
    BY <1>11 DEF vars, row, RowStep
  <1>12. CASE Next
    <2>1. ASSUME NEW p \in Procs, NEW u \in Tasks,
                 Submit(p, u) \/ DeleteRecord(p, u) \/ DeleteForRecord(p, u)
          PROVE  RowStep(t)
      BY <2>1, <1>2, <1>3
    <2>2. ASSUME NEW u \in Tasks, DeleteTask(u) \/ LeaseExpires(u) PROVE RowStep(t)
      <3>1. CASE DeleteTask(u)
        BY <1>0, <3>1, DroppedRow DEF DeleteTask, RowStep
      <3>2. CASE LeaseExpires(u)
        BY <3>2, <1>10
      <3> QED BY <2>2, <3>1, <3>2
    <2>3. ASSUME NEW w \in Workers,
                 \/ Quietly(w) \/ Finishes(w) \/ RecoverExpired(w)
                 \/ \E u \in Tasks : Claim(w, u)
                 \/ CallProvider(w) \/ Persist(w) \/ Renew(w)
          PROVE  RowStep(t)
      BY <2>3, <1>5, <1>6, <1>7, <1>8, <1>9
    <2> QED BY <1>12, <1>1, <2>1, <1>4, <2>2, <2>3, StepsOfNext
  <1> QED BY <1>11, <1>12

(* A task that has ended stays as it ended until it is deleted: whoever      *)
(* writes a row must find it running or queued (SQLiteImageTaskStore._update,*)
(* claim, recover_expired).                                                  *)
LEMMA EndedStaysEnded ==
    ASSUME TypeOK, [Next]_vars PROVE KeepsEnds
  <1> SUFFICES ASSUME NEW t \in Tasks, status[t] \in Terminal
               PROVE  status'[t] \in {status[t], "absent"}
    BY DEF KeepsEnds
  <1>1. status[t] \notin {"absent", "queued", "running"}
    BY DEF Terminal
  <1> QED BY <1>1, RowSteps DEF RowStep, Own

(* What one worker claimed is interrupted by another only while its lease    *)
(* has run out: recover_expired looks again in its own transaction, so that  *)
(* a renewal between its two looks counts.                                   *)
LEMMA RenewalsCount ==
    ASSUME TypeOK, [Next]_vars PROVE KeepsRenewed
  <1> SUFFICES ASSUME NEW t \in Tasks, NEW w \in Workers, status[t] = "running", live[t],
                      status'[t] = "interrupted", pc'[w] # pc[w]
               PROVE  w = holder[t]
    BY DEF KeepsRenewed
  <1>1. PICK v \in Workers : Own(v, t) /\ \A u \in Workers \ {v} : pc'[u] = pc[u]
    BY RowSteps DEF RowStep
  <1> QED BY <1>1 DEF Own

(* So no step of any worker, process or request undoes the end of a task or  *)
(* takes a task from a worker that has renewed its lease.                    *)
THEOREM WorkersYieldToRows == Spec => WorkersYield
  <1>1. TypeOK /\ [Next]_vars => [KeepsEnds /\ KeepsRenewed]_vars
    BY EndedStaysEnded, RenewalsCount
  <1> QED BY <1>1, TypeInit, TypeNext, PTL DEF Spec, WorkersYield

-----------------------------------------------------------------------------
(* What a task that succeeded shows.                                         *)

CanBeRead(t) == t \in records \/ \E p \in Procs : <<p, t>> \in deleting

(* A worker that will finish its task as succeeded, as it stands.            *)
HasSaved(w) == pc[w] = "archiving" \/ (pc[w] = "done" /\ result[w] = "succeeded")

RowRecorded(t)  == status[t] = "succeeded" => CanBeRead(t)
WorkRecorded(w) == HasSaved(w) /\ Own(w, job[w]) => CanBeRead(job[w])

(* A task that has succeeded, or will as its worker saved the record while   *)
(* it holds the row, has that record, or loses its row with it: the deletion *)
(* of the record has yet to drop the row.                                    *)
Recorded == (\A t \in Tasks : RowRecorded(t)) /\ \A w \in Workers : WorkRecorded(w)

LEMMA RecordedKept ==
    ASSUME Recorded,
           \A t \in Tasks : CanBeRead(t) /\ status'[t] # "absent" => CanBeRead(t)',
           \A t \in Tasks : status'[t] = "succeeded" => status[t] = "succeeded" \/ CanBeRead(t),
           \A w \in Workers : HasSaved(w)' /\ Own(w, job[w])' =>
             \/ HasSaved(w) /\ Own(w, job[w]) /\ job'[w] = job[w] /\ job[w] \in Tasks
             \/ job'[w] \in records'
    PROVE  Recorded'
  <1>1. ASSUME NEW t \in Tasks PROVE RowRecorded(t)'
    BY DEF Recorded, RowRecorded
  <1>2. ASSUME NEW w \in Workers PROVE WorkRecorded(w)'
    <2> SUFFICES ASSUME HasSaved(w)', Own(w, job[w])', job'[w] \notin records'
                 PROVE  CanBeRead(job[w])'
      BY DEF WorkRecorded, CanBeRead
    <2>1. CanBeRead(job[w]) /\ job'[w] = job[w] /\ job[w] \in Tasks /\ status'[job[w]] = "running"
      BY DEF Recorded, WorkRecorded, Own
    <2>2. CanBeRead(job[w])' <=> job'[w] \in records' \/ \E p \in Procs : <<p, job'[w]>> \in deleting'
      BY DEF CanBeRead
    <2>3. job[w] \in records' \/ \E p \in Procs : <<p, job[w]>> \in deleting'
      BY <2>1 DEF CanBeRead
    <2> QED BY <2>1, <2>2, <2>3
  <1> QED BY <1>1, <1>2 DEF Recorded

LEMMA QuietSaves ==
    ASSUME TypeOK, NEW w \in Workers, Quietly(w), HasSaved(w)'
    PROVE  pc[w] = "archiving"
  <1>1. pc'[w] = "archiving" \/ (pc'[w] = "done" /\ result'[w] = "succeeded")
    BY DEF HasSaved
  <1>2. CASE PersistFails(w) \/ ExecuteFails(w)
    BY <1>1, <1>2 DEF PersistFails, ExecuteFails, Ends, Go, TypeOK
  <1>3. CASE Archived(w) \/ ArchiveFails(w)
    BY <1>3 DEF Archived, ArchiveFails
  <1>4. CASE ReadExpired(w) \/ ClaimNothing(w) \/ LoopAgain(w)
    BY <1>1, <1>4 DEF ReadExpired, ClaimNothing, LoopAgain, Go, TypeOK
  <1>5. CASE FinishRaises(w) \/ FinishInterruptedRaises(w) \/ RenewRefused(w) \/ RenewRaises(w)
    BY <1>1, <1>5 DEF FinishRaises, FinishInterruptedRaises, RenewRefused, RenewRaises, Go, TypeOK
  <1> QED BY <1>2, <1>3, <1>4, <1>5 DEF Quietly

(* A step that ends the deletion of a record has dropped the row of its      *)
(* task: no process crashes between the two transactions of a deletion.      *)
DropsItsRow == \A d \in deleting \ deleting' : status'[d[2]] = "absent"

DeletionsFinish == [][DropsItsRow]_vars

LEMMA RecordedNext ==
    ASSUME TypeOK, Recorded, [Next]_vars, [DropsItsRow]_vars
    PROVE  Recorded'
  <1>0. RowType /\ \A w \in Workers : HasSaved(w) => job[w] \in Tasks
    BY TypeIsParts DEF HasSaved, TypeOK, InOperation
  <1>1. ASSUME NEW p \in Procs, OfProcess(p) PROVE Recorded'
    <2>1. UNCHANGED <<row, records, job, result>>
      BY <1>1, ProcessStep
    <2>2. \A v \in Workers : pc'[v] \in {pc[v], "top", "off", "cancelled"}
      BY <1>1, ProcessStep
    <2>3. \A t \in Tasks : CanBeRead(t) /\ status'[t] # "absent" => CanBeRead(t)'
      <3> SUFFICES ASSUME NEW t \in Tasks, NEW q \in Procs, <<q, t>> \in deleting, status'[t] # "absent"
                   PROVE  <<q, t>> \in deleting'
        BY <2>1 DEF CanBeRead
      <3>1. CASE UNCHANGED vars
        BY <3>1 DEF vars, request
      <3>2. CASE DropsItsRow
        BY <3>2 DEF DropsItsRow
      <3> QED BY <3>1, <3>2
    <2>4. \A v \in Workers : HasSaved(v)' => HasSaved(v)
      BY <2>1, <2>2 DEF HasSaved
    <2> QED BY <1>0, <2>1, <2>3, <2>4, RecordedKept DEF CanBeRead, Own, row
  <1>2. ASSUME NEW p \in Procs, NEW u \in Tasks, Submit(p, u) PROVE Recorded'
    BY <1>0, <1>2, RecordedKept DEF Submit, HasSaved, CanBeRead, Own, row, work
  <1>3. ASSUME NEW p \in Procs, NEW u \in Tasks, DeleteRecord(p, u) PROVE Recorded'
    <2>1. UNCHANGED <<row, pc, job, result>>
      BY <1>3 DEF DeleteRecord, work
    <2>2. \A t \in Tasks : CanBeRead(t) => CanBeRead(t)'
      BY <1>3 DEF DeleteRecord, CanBeRead
    <2> QED BY <1>0, <2>1, <2>2, RecordedKept DEF HasSaved, Own, row
  <1>4. ASSUME NEW u \in Tasks, Drop(u), UNCHANGED <<records, pc, job, result>>,
               \A p \in Procs, t \in Tasks : <<p, t>> \in deleting /\ t # u => <<p, t>> \in deleting'
        PROVE  Recorded'
    <2>1. \A t \in Tasks : CanBeRead(t) /\ status'[t] # "absent" => CanBeRead(t)'
      BY <1>0, <1>4, DroppedRow DEF CanBeRead
    <2>2. \A t \in Tasks : status'[t] = "succeeded" => status[t] = "succeeded"
      BY <1>0, <1>4, DroppedRow
    <2>3. \A w \in Workers : HasSaved(w)' /\ Own(w, job[w])' => HasSaved(w) /\ Own(w, job[w])
      BY <1>0, <1>4, DroppedRow DEF HasSaved, Own
    <2> QED BY <1>0, <1>4, <2>1, <2>2, <2>3, RecordedKept
  <1>5. ASSUME NEW p \in Procs, NEW u \in Tasks, DeleteForRecord(p, u) PROVE Recorded'
    BY <1>4, <1>5 DEF DeleteForRecord, work
  <1>6. ASSUME NEW u \in Tasks, DeleteTask(u) PROVE Recorded'
    BY <1>4, <1>6 DEF DeleteTask, work, request
  <1>7. ASSUME NEW u \in Tasks, LeaseExpires(u) PROVE Recorded'
    BY <1>0, <1>7, RecordedKept DEF LeaseExpires, HasSaved, CanBeRead, Own, work, request
  <1>8. ASSUME NEW s \in submitting, Create(s) PROVE Recorded'
    <2>1. UNCHANGED <<records, job, result, deleting>>
      BY <1>8, CreateStep
    <2>2. \A v \in Workers : pc'[v] \in {pc[v], "top"}
      BY <1>8, CreateStep
    <2>3. \A t \in Tasks : \/ status'[t] = status[t] /\ holder'[t] = holder[t]
                           \/ status'[t] = "queued"
      BY <1>8, CreateStep
    <2>4. \A w \in Workers : HasSaved(w)' /\ Own(w, job[w])' => HasSaved(w) /\ Own(w, job[w])
      BY <1>0, <2>1, <2>2, <2>3 DEF HasSaved, Own
    <2> QED BY <1>0, <2>1, <2>3, <2>4, RecordedKept DEF CanBeRead
  <1>9. ASSUME NEW w \in Workers, Quietly(w) PROVE Recorded'
    <2>1. /\ UNCHANGED <<row, records, deleting, job>>
          /\ \A v \in Workers \ {w} : pc'[v] = pc[v] /\ result'[v] = result[v]
      BY <1>9, QuietStep DEF request
    <2>2. \A v \in Workers : HasSaved(v)' => HasSaved(v)
      BY <1>9, <2>1, QuietSaves DEF HasSaved
    <2> QED BY <1>0, <2>1, <2>2, RecordedKept DEF CanBeRead, Own, row
  <1>10. ASSUME NEW w \in Workers, Finishes(w) PROVE Recorded'
    <2>1. /\ UNCHANGED <<records, deleting, job, result>>
          /\ \A v \in Workers : pc'[v] \in {pc[v], "off", "finished"}
      BY <1>10 DEF Finishes, FinishDone, FinishInterrupted, Go, TypeOK, request
    <2>2. \A t \in Tasks : status'[t] = "succeeded" => status[t] = "succeeded" \/ CanBeRead(t)
      BY <1>0, <1>10, FinishedRow DEF Finishes, FinishDone, FinishInterrupted, TypeOK, Terminal,
         Recorded, WorkRecorded, HasSaved
    <2>3. \A v \in Workers : HasSaved(v)' /\ Own(v, job[v])' => HasSaved(v) /\ Own(v, job[v])
      <3>1. /\ \A u \in Tasks : status'[u] = status[u] \/ status'[u] \in Terminal
            /\ \A u \in Tasks : holder'[u] \in {holder[u], NoWorker}
        BY <1>0, <1>10, FinishedRow DEF Finishes, FinishDone, FinishInterrupted, TypeOK, Terminal
      <3>2. \A v \in Workers : HasSaved(v)' => HasSaved(v)
        BY <2>1 DEF HasSaved
      <3> QED BY <1>0, <2>1, <3>1, <3>2, NoWorkerIsNone DEF Own, Terminal
    <2> QED BY <1>0, <2>1, <2>2, <2>3, RecordedKept DEF CanBeRead
  <1>11. ASSUME NEW w \in Workers, RecoverExpired(w) PROVE Recorded'
    <2>1. /\ UNCHANGED <<records, deleting, job, result>>
          /\ \A v \in Workers : pc'[v] \in {pc[v], "claiming"}
      BY <1>11 DEF RecoverExpired, Go, TypeOK, request
    <2>2. \A t \in Tasks : \/ status'[t] = status[t] /\ holder'[t] = holder[t]
                           \/ status'[t] = "interrupted"
      BY <1>0, <1>11, RecoveredRow
    <2>3. \A v \in Workers : HasSaved(v)' /\ Own(v, job[v])' => HasSaved(v) /\ Own(v, job[v])
      BY <1>0, <2>1, <2>2 DEF HasSaved, Own
    <2> QED BY <1>0, <2>1, <2>2, <2>3, RecordedKept DEF CanBeRead
  <1>12. ASSUME NEW w \in Workers, NEW u \in Tasks, Claim(w, u) PROVE Recorded'
    <2>1. /\ UNCHANGED <<records, deleting, result>> /\ pc'[w] = "claimed"
          /\ \A v \in Workers \ {w} : pc'[v] = pc[v] /\ job'[v] = job[v]
      BY <1>12 DEF Claim, Go, TypeOK, request
    <2>2. \A v \in Workers : HasSaved(v)' /\ Own(v, job[v])' =>
            HasSaved(v) /\ Own(v, job[v]) /\ job'[v] = job[v]
      BY <1>0, <1>12, <2>1, ClaimedRow DEF HasSaved, Own
    <2>3. \A t \in Tasks : status'[t] = "succeeded" => status[t] = "succeeded"
      BY <1>0, <1>12, ClaimedRow
    <2> QED BY <1>0, <2>1, <2>2, <2>3, RecordedKept DEF CanBeRead
  <1>13. ASSUME NEW w \in Workers, CallProvider(w) PROVE Recorded'
    <2>1. /\ UNCHANGED <<row, records, deleting, job, result>>
          /\ \A v \in Workers : pc'[v] \in {pc[v], "calling"}
      BY <1>13 DEF CallProvider, Go, TypeOK, request
    <2> QED BY <1>0, <2>1, RecordedKept DEF CanBeRead, HasSaved, Own, row
  <1>14. ASSUME NEW w \in Workers, Persist(w) PROVE Recorded'
    <2>1. /\ UNCHANGED <<row, deleting, job>> /\ records' = records \cup {job[w]}
          /\ \A v \in Workers \ {w} : pc'[v] = pc[v] /\ result'[v] = result[v]
      BY <1>14 DEF Persist, Ends, Go, TypeOK, request
    <2>2. \A v \in Workers : HasSaved(v)' => HasSaved(v) \/ v = w
      BY <2>1 DEF HasSaved
    <2> QED BY <1>0, <2>1, <2>2, RecordedKept DEF CanBeRead, Own, row
  <1>15. ASSUME NEW w \in Workers, Renew(w) PROVE Recorded'
    BY <1>0, <1>15, RecordedKept DEF Renew, HasSaved, CanBeRead, Own, work, request
  <1>16. CASE UNCHANGED vars
    BY <1>0, <1>16, RecordedKept DEF vars, HasSaved, CanBeRead, Own, row, work, request
  <1>17. CASE Next
    <2>1. ASSUME NEW p \in Procs, NEW u \in Tasks,
                 Submit(p, u) \/ DeleteRecord(p, u) \/ DeleteForRecord(p, u)
          PROVE  Recorded'
      BY <2>1, <1>2, <1>3, <1>5
    <2>2. ASSUME NEW w \in Workers,
                 \/ Quietly(w) \/ Finishes(w) \/ RecoverExpired(w)
                 \/ \E u \in Tasks : Claim(w, u)
                 \/ CallProvider(w) \/ Persist(w) \/ Renew(w)
          PROVE  Recorded'
      BY <2>2, <1>9, <1>10, <1>11, <1>12, <1>13, <1>14, <1>15
    <2> QED BY <1>17, <1>1, <2>1, <1>8, <1>6, <1>7, <2>2, StepsOfNext
  <1> QED BY <1>16, <1>17

(* However many processes crash or close, as long as none crashes between    *)
(* the two transactions of a deletion (delete_record in image.py), a task    *)
(* that shows a result has the record to open, except while its deletion is  *)
(* under way: it succeeds only after the record is saved, an archive that    *)
(* finds the record deleted fails (_persist and execute in image_task.py),   *)
(* and a deleted record does not come back.                                  *)
THEOREM HistoryIsHonest == Spec /\ DeletionsFinish => []RecordsAreHonest
  <1>1. Init => Recorded
    BY DEF Init, Recorded, RowRecorded, WorkRecorded, HasSaved
  <1>2. TypeOK /\ Recorded /\ [Next]_vars /\ [DropsItsRow]_vars => Recorded'
    BY RecordedNext
  <1>3. Recorded => ShownCanBeRead
    BY DEF Recorded, RowRecorded, CanBeRead, ShownCanBeRead, ShownRecord
  <1>4. ShownCanBeRead /\ DeletedStaysDeleted => RecordsAreHonest
    BY DEF RecordsAreHonest
  <1> QED BY <1>1, <1>2, <1>3, <1>4, TypeInit, TypeNext, DeletedRecordsStayDeleted, PTL
          DEF Spec, DeletionsFinish
=============================================================================
