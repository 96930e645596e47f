----------------------------- MODULE ImageTasks -----------------------------
(***************************************************************************)
(* Background image tasks: the task and record tables in SQLite, the       *)
(* executors of the processes that share them, and the requests that       *)
(* submit and delete (infra/adapters/images/tasks.py, executor.py,         *)
(* sqlite.py; application/image_task.py, image.py).                        *)
(*                                                                         *)
(* A generation may be paid for, so a task must not be generated twice,    *)
(* and what was generated must not be lost.  Every transaction is a step;  *)
(* processes interleave between them, and may crash there.                 *)
(*                                                                         *)
(* A record carries the task_id as its record_id, so records are           *)
(* identified by tasks.  A worker id holds the random id of its executor;  *)
(* here a restarted process uses the same names again, which nothing can   *)
(* tell apart, as a crash leaves no worker with the old name alive.        *)
(***************************************************************************)
EXTENDS Integers, FiniteSets

CONSTANTS
  Tasks, Owners, Owner,  \* Owner[t] submits the task t
  Procs,
  Concurrency,           \* workers of an executor
  Limit,                 \* MAX_ACTIVE_IMAGE_TASKS
  Requests,              \* what users do besides submitting
  Restarted,             \* the processes that are started again
  MaxSubmits,            \* bound: submissions of tasks that do not exist
  MaxStops,              \* bound: crashes and shutdowns
  MaxFaults              \* bound: transactions that raise

ASSUME ImageAssumption ==
  /\ Owner \in [Tasks -> Owners]
  /\ IsFiniteSet(Procs)
  /\ Concurrency \in Nat \ {0} /\ Limit \in Nat
  /\ Requests \subseteq {"delete_task", "delete_record", "close"}
  /\ Restarted \subseteq Procs
  /\ MaxSubmits \in Nat /\ MaxStops \in Nat /\ MaxFaults \in Nat

VARIABLES
  status, holder, live, born,  \* the rows of image_tasks, by task
  records,                     \* the tasks that have a row in image_records
  proc,                        \* the processes
  pc, job, seen, result,       \* their workers
  submitting,                  \* submissions before their create
  deleting,                    \* record deletions between their transactions
  submits, stops, faults,      \* the bounded counters
  created, calls, gone         \* history: rows inserted and provider calls
                               \* by task; the tasks whose record was deleted

row     == <<status, holder, live, born>>
work    == <<pc, job, seen, result>>
request == <<submitting, deleting>>
bounds  == <<submits, stops, faults>>
history == <<created, calls, gone>>
vars    == <<row, records, proc, work, request, bounds, history>>

-----------------------------------------------------------------------------

Workers  == Procs \X (1..Concurrency)
NoWorker == << >>
NoTask   == "no task"
Active   == {"queued", "running"}
Terminal == {"succeeded", "failed", "interrupted"}

\* Where a worker is: not started; about to recover, in its transaction, to
\* claim; its operation scheduled, calling the provider, archiving, done;
\* after an exception or a cancellation, before finish(interrupted); after
\* the row is finished; ended by an exception of that finish.
InOperation == {"claimed", "calling", "archiving"}
Phase == {"off", "top", "recovering", "claiming", "done", "failed",
          "cancelled", "finished", "dead"} \cup InOperation

Submission == [proc : Procs, task : Tasks, born : Nat]

\* A slip: only queued rows count as work to do.
HasQueued == \E t \in Tasks : status[t] = "queued"

HasActive == \E t \in Tasks : status[t] \in Active

\* A slip: a worker writes the row of its task, whoever holds it.
OwnByTask(w, t) == job[w] = t

Own(w, t) == status[t] = "running" /\ holder[t] = w

\* A slip: the row keeps the worker it had.
FinishKeepsWorker(t, w, s) ==
  IF Own(w, t)
  THEN status' = [status EXCEPT ![t] = s] /\ UNCHANGED <<holder, live, born>>
  ELSE UNCHANGED row

\* SQLiteImageTaskStore._update: a worker writes the row it has claimed.
Finish(t, w, s) ==
  IF Own(w, t)
  THEN /\ status' = [status EXCEPT ![t] = s]
       /\ holder' = [holder EXCEPT ![t] = NoWorker]
       /\ live' = [live EXCEPT ![t] = FALSE]
       /\ UNCHANGED born
  ELSE UNCHANGED row

Drop(t) ==
  /\ status' = [status EXCEPT ![t] = "absent"]
  /\ holder' = [holder EXCEPT ![t] = NoWorker]
  /\ live' = [live EXCEPT ![t] = FALSE]
  /\ UNCHANGED born

Init ==
  /\ status = [t \in Tasks |-> "absent"]
  /\ holder = [t \in Tasks |-> NoWorker]
  /\ live = [t \in Tasks |-> FALSE]
  /\ born = [t \in Tasks |-> 0]
  /\ records = {}
  /\ proc = [p \in Procs |-> "up"]
  /\ pc = [w \in Workers |-> "off"]
  /\ job = [w \in Workers |-> NoTask]
  /\ seen = [w \in Workers |-> {}]
  /\ result = [w \in Workers |-> "failed"]
  /\ submitting = {} /\ deleting = {}
  /\ submits = 0 /\ stops = 0 /\ faults = 0
  /\ created = [t \in Tasks |-> 0]
  /\ calls = [t \in Tasks |-> 0]
  /\ gone = {}

-----------------------------------------------------------------------------
(* Processes.                                                              *)

\* SingleProcessImageTaskExecutor.start, with the rows the transaction before
\* it leaves: workers are created once, and not before there is work.
StartWorkers(p, active) ==
  pc' = IF active /\ \A w \in Workers : w[1] = p => pc[w] = "off"
        THEN [w \in Workers |-> IF w[1] = p THEN "top" ELSE pc[w]]
        ELSE pc

\* RuntimeKernel.initialize.
Boot(p) ==
  /\ proc[p] = "down"
  /\ proc' = [proc EXCEPT ![p] = "up"]
  /\ StartWorkers(p, HasActive)
  /\ UNCHANGED <<row, records, job, seen, result, request, bounds, history>>

\* executor.close cancels every worker, wherever it waits; recovering and
\* claiming are one synchronous stretch.
Close(p) ==
  /\ proc[p] = "up" /\ "close" \in Requests /\ stops < MaxStops
  /\ \A w \in Workers : w[1] = p => pc[w] \notin {"recovering", "claiming"}
  /\ stops' = stops + 1
  /\ proc' = [proc EXCEPT ![p] = "closing"]
  /\ pc' = [w \in Workers |->
             IF w[1] # p THEN pc[w]
             ELSE IF pc[w] \in InOperation \cup {"done", "failed", "finished"}
                  THEN "cancelled"
             ELSE IF pc[w] = "cancelled" THEN pc[w] ELSE "off"]
  /\ UNCHANGED <<row, records, job, seen, result, request, submits, faults,
                 history>>

\* close returns when the workers have ended; requests are done by then.
Closed(p) ==
  /\ proc[p] = "closing"
  /\ \A w \in Workers : w[1] = p => pc[w] \in {"off", "dead"}
  /\ \A s \in submitting : s.proc # p
  /\ \A d \in deleting : d[1] # p
  /\ proc' = [proc EXCEPT ![p] = "down"]
  /\ pc' = [w \in Workers |-> IF w[1] = p THEN "off" ELSE pc[w]]
  /\ UNCHANGED <<row, records, job, seen, result, request, bounds, history>>

Crash(p) ==
  /\ proc[p] # "down" /\ stops < MaxStops
  /\ stops' = stops + 1
  /\ proc' = [proc EXCEPT ![p] = "down"]
  /\ pc' = [w \in Workers |-> IF w[1] = p THEN "off" ELSE pc[w]]
  /\ submitting' = {s \in submitting : s.proc # p}
  /\ deleting' = {d \in deleting : d[1] # p}
  /\ UNCHANGED <<row, records, job, seen, result, submits, faults, history>>

-----------------------------------------------------------------------------
(* Requests.                                                               *)

\* submit finds no task with the id, takes the time, and awaits the provider
\* and the session.  (It returns a task it finds.)
Submit(p, t) ==
  /\ proc[p] = "up" /\ status[t] = "absent" /\ submits < MaxSubmits
  /\ submits' = submits + 1
  /\ submitting' = submitting \cup {[proc |-> p, task |-> t, born |-> submits]}
  /\ UNCHANGED <<row, records, proc, work, deleting, stops, faults, history>>

ActiveOf(o) == Cardinality({t \in Tasks : Owner[t] = o /\ status[t] \in Active})

Accepts(s) == status[s.task] = "absent" /\ ActiveOf(Owner[s.task]) < Limit

\* The rest of submit: create, executor.start and wake.  It may be another
\* submission that has created the row meanwhile; at the limit create raises,
\* and while the executor is closing start does, the row being there.
Create(s) ==
  /\ s \in submitting
  /\ submitting' = submitting \ {s}
  /\ IF Accepts(s)
     THEN /\ status' = [status EXCEPT ![s.task] = "queued"]
          /\ born' = [born EXCEPT ![s.task] = s.born]
          /\ created' = [created EXCEPT ![s.task] = @ + 1]
          /\ UNCHANGED <<holder, live>>
     ELSE UNCHANGED <<row, created>>
  /\ IF proc[s.proc] = "up" /\ (Accepts(s) \/ status[s.task] # "absent")
     THEN StartWorkers(s.proc, HasActive \/ Accepts(s))
     ELSE UNCHANGED pc
  /\ UNCHANGED <<records, proc, job, seen, result, deleting, bounds, calls,
                 gone>>

DeleteTask(t) ==
  /\ "delete_task" \in Requests
  /\ status[t] \in Terminal
  /\ Drop(t)
  /\ UNCHANGED <<records, proc, work, request, bounds, history>>

\* ImageApplication.delete_record: one transaction for the record,
DeleteRecord(p, t) ==
  /\ "delete_record" \in Requests
  /\ proc[p] = "up" /\ t \in records
  /\ records' = records \ {t}
  /\ gone' = gone \cup {t}
  /\ deleting' = deleting \cup {<<p, t>>}
  /\ UNCHANGED <<row, proc, work, submitting, bounds, created, calls>>

\* and one for its task, whatever the status (delete_for_record).
DeleteForRecord(p, t) ==
  /\ <<p, t>> \in deleting
  /\ deleting' = deleting \ {<<p, t>>}
  /\ Drop(t)
  /\ UNCHANGED <<records, proc, work, submitting, bounds, history>>

-----------------------------------------------------------------------------
(* Workers.                                                                *)

Go(w, phase) == pc' = [pc EXCEPT ![w] = phase]

Expired(t) == status[t] = "running" /\ ~live[t]

\* recover_expired reads the expired rows,
ReadExpired(w) ==
  /\ pc[w] = "top"
  /\ seen' = [seen EXCEPT ![w] = {t \in Tasks : Expired(t)}]
  /\ Go(w, "recovering")
  /\ UNCHANGED <<row, records, proc, job, result, request, bounds, history>>

\* A slip: it trusts what it has read.
RecoverableAsSeen(t, w) == t \in seen[w] /\ status[t] = "running"

\* and looks at each again in its transaction.
Recoverable(t, w) == t \in seen[w] /\ Expired(t)

\* A slip: an expired task is queued again.
RequeueExpired(w) ==
  /\ pc[w] = "recovering"
  /\ status' = [t \in Tasks |->
                 IF Recoverable(t, w) THEN "queued" ELSE status[t]]
  /\ holder' = [t \in Tasks |->
                 IF Recoverable(t, w) THEN NoWorker ELSE holder[t]]
  /\ live' = [t \in Tasks |-> ~Recoverable(t, w) /\ live[t]]
  /\ Go(w, "claiming")
  /\ UNCHANGED <<born, records, proc, job, seen, result, request, bounds,
                 history>>

RecoverExpired(w) ==
  /\ pc[w] = "recovering"
  /\ status' = [t \in Tasks |->
                 IF Recoverable(t, w) THEN "interrupted" ELSE status[t]]
  /\ holder' = [t \in Tasks |->
                 IF Recoverable(t, w) THEN NoWorker ELSE holder[t]]
  /\ live' = [t \in Tasks |-> ~Recoverable(t, w) /\ live[t]]
  /\ Go(w, "claiming")
  /\ UNCHANGED <<born, records, proc, job, seen, result, request, bounds,
                 history>>

\* The oldest queued row, by created_at.
Claimable(t) ==
  /\ status[t] = "queued"
  /\ \A u \in Tasks : status[u] = "queued" => born[t] <= born[u]

Claim(w, t) ==
  /\ pc[w] = "claiming" /\ Claimable(t)
  /\ status' = [status EXCEPT ![t] = "running"]
  /\ holder' = [holder EXCEPT ![t] = w]
  /\ live' = [live EXCEPT ![t] = TRUE]
  /\ job' = [job EXCEPT ![w] = t]
  /\ Go(w, "claimed")
  /\ UNCHANGED <<born, records, proc, seen, result, request, bounds, history>>

\* It waits for wake, but at most a second.
ClaimNothing(w) ==
  /\ pc[w] = "claiming"
  /\ \A t \in Tasks : status[t] # "queued"
  /\ Go(w, "top")
  /\ UNCHANGED <<row, records, proc, job, seen, result, request, bounds,
                 history>>

CallProvider(w) ==
  /\ pc[w] = "claimed"
  /\ calls' = [calls EXCEPT ![job[w]] = @ + 1]
  /\ Go(w, "calling")
  /\ UNCHANGED <<row, records, proc, job, seen, result, request, bounds,
                 created, gone>>

\* What execute returns.
Ends(w, r) == Go(w, "done") /\ result' = [result EXCEPT ![w] = r]

\* The provider answers, and _persist saves the record before it archives
\* images that are still remote.
Persist(w) ==
  /\ pc[w] = "calling"
  /\ records' = records \cup {job[w]}
  /\ \/ Go(w, "archiving") /\ UNCHANGED result
     \/ Ends(w, "succeeded")
  /\ UNCHANGED <<row, proc, job, seen, request, bounds, history>>

\* A slip: the task succeeds though _save has raised.
PersistIgnored(w) ==
  /\ pc[w] = "calling" /\ faults < MaxFaults
  /\ faults' = faults + 1
  /\ Ends(w, "succeeded")
  /\ UNCHANGED <<row, records, proc, job, seen, request, submits, stops,
                 history>>

\* _save raises: the result has no record_id.
PersistFails(w) ==
  /\ pc[w] = "calling" /\ faults < MaxFaults
  /\ faults' = faults + 1
  /\ Ends(w, "failed")
  /\ UNCHANGED <<row, records, proc, job, seen, request, submits, stops,
                 history>>

\* A provider error, or the timeout of the task, which includes archiving.
ExecuteFails(w) ==
  /\ pc[w] \in {"calling", "archiving"}
  /\ Ends(w, "failed")
  /\ UNCHANGED <<row, records, proc, job, seen, request, bounds, history>>

\* A slip: the archived images are saved as _persist saves them.
ArchivedUpserts(w) ==
  /\ pc[w] = "archiving"
  /\ Ends(w, "succeeded")
  /\ records' = records \cup {job[w]}
  /\ UNCHANGED <<row, proc, job, seen, request, bounds, history>>

\* The archive answers: update finds the record or not.
Archived(w) ==
  /\ pc[w] = "archiving"
  /\ Ends(w, IF job[w] \in records THEN "succeeded" ELSE "failed")
  /\ UNCHANGED <<row, records, proc, job, seen, request, bounds, history>>

\* The archive or the update raises: the saved record_id stands.
ArchiveFails(w) ==
  /\ pc[w] = "archiving"
  /\ Ends(w, "succeeded")
  /\ UNCHANGED <<row, records, proc, job, seen, request, bounds, history>>

FinishDone(w) ==
  /\ pc[w] = "done"
  /\ Finish(job[w], w, result[w])
  /\ Go(w, "finished")
  /\ UNCHANGED <<records, proc, job, seen, result, request, bounds, history>>

FinishRaises(w) ==
  /\ pc[w] = "done" /\ faults < MaxFaults
  /\ faults' = faults + 1
  /\ Go(w, "failed")
  /\ UNCHANGED <<row, records, proc, job, seen, result, request, submits,
                 stops, history>>

\* finish(interrupted(task)), after which a cancelled worker goes on unless
\* it was cancelled by close.
FinishInterrupted(w) ==
  /\ pc[w] \in {"failed", "cancelled"}
  /\ Finish(job[w], w, "interrupted")
  /\ Go(w, IF proc[w[1]] = "closing" THEN "off" ELSE "finished")
  /\ UNCHANGED <<records, proc, job, seen, result, request, bounds, history>>

\* It raises in its turn, and ends the worker; start will not replace it.
FinishInterruptedRaises(w) ==
  /\ pc[w] \in {"failed", "cancelled"} /\ faults < MaxFaults
  /\ faults' = faults + 1
  /\ Go(w, "dead")
  /\ UNCHANGED <<row, records, proc, job, seen, result, request, submits,
                 stops, history>>

\* The heartbeat is gathered, or the second after an exception is over.
LoopAgain(w) ==
  /\ pc[w] = "finished"
  /\ Go(w, "top")
  /\ UNCHANGED <<row, records, proc, job, seen, result, request, bounds,
                 history>>

Renew(w) ==
  /\ pc[w] \in InOperation \cup {"done"}
  /\ Own(w, job[w])
  /\ live' = [live EXCEPT ![job[w]] = TRUE]
  /\ UNCHANGED <<status, holder, born, records, proc, work, request, bounds,
                 history>>

\* A refused renewal cancels the operation.
RenewRefused(w) ==
  /\ pc[w] \in InOperation
  /\ ~Own(w, job[w])
  /\ Go(w, "cancelled")
  /\ UNCHANGED <<row, records, proc, job, seen, result, request, bounds,
                 history>>

\* So does one that raises.
RenewRaises(w) ==
  /\ pc[w] \in InOperation /\ faults < MaxFaults
  /\ faults' = faults + 1
  /\ Go(w, "cancelled")
  /\ UNCHANGED <<row, records, proc, job, seen, result, request, submits,
                 stops, history>>

\* 30 seconds without a renewal: the worker is gone, or its event loop is
\* late.
LeaseExpires(t) ==
  /\ status[t] = "running" /\ live[t]
  /\ live' = [live EXCEPT ![t] = FALSE]
  /\ UNCHANGED <<status, holder, born, records, proc, work, request, bounds,
                 history>>

-----------------------------------------------------------------------------

Process(p) == Boot(p) \/ Close(p) \/ Closed(p) \/ Crash(p)

User(p) ==
  \E t \in Tasks : Submit(p, t) \/ DeleteRecord(p, t) \/ DeleteForRecord(p, t)

\* The worker's own code.
Worker(w) ==
  \/ ReadExpired(w) \/ RecoverExpired(w)
  \/ (\E t \in Tasks : Claim(w, t)) \/ ClaimNothing(w)
  \/ CallProvider(w) \/ Persist(w) \/ PersistFails(w) \/ ExecuteFails(w)
  \/ Archived(w) \/ ArchiveFails(w) \/ FinishDone(w) \/ FinishRaises(w)
  \/ FinishInterrupted(w) \/ FinishInterruptedRaises(w) \/ LoopAgain(w)

Heartbeat(w) == Renew(w) \/ RenewRefused(w) \/ RenewRaises(w)

Next ==
  \/ \E p \in Procs : Process(p) \/ User(p)
  \/ \E s \in submitting : Create(s)
  \/ \E t \in Tasks : DeleteTask(t) \/ LeaseExpires(t)
  \/ \E w \in Workers : Worker(w) \/ Heartbeat(w)

Spec == Init /\ [][Next]_vars

\* An operation ends because execute has a timeout; a lease that nobody renews
\* runs out; a request in a process that is up gets through; a stopped process
\* comes back if it is one that is restarted.
Unattended(t) ==
  ~\E w \in Workers :
     job[w] = t /\ pc[w] \in InOperation \cup {"done", "failed", "cancelled"}

Fairness ==
  /\ \A w \in Workers : WF_vars(Worker(w))
  /\ \A t \in Tasks : WF_vars(Unattended(t) /\ LeaseExpires(t))
  /\ WF_vars(\E s \in submitting : Create(s))
  /\ \A p \in Procs :
       /\ WF_vars(\E t \in Tasks : DeleteForRecord(p, t))
       /\ WF_vars(Closed(p))
  /\ \A p \in Restarted : WF_vars(Boot(p))

FairSpec == Spec /\ Fairness

-----------------------------------------------------------------------------
(* What the task service promises.                                         *)

\* The shape of the state: a row that is not running has no worker and no
\* lease, and a worker in an operation has a task.
TypeOK ==
  /\ status \in [Tasks -> {"absent"} \cup Active \cup Terminal]
  /\ holder \in [Tasks -> Workers \cup {NoWorker}]
  /\ live \in [Tasks -> BOOLEAN]
  /\ born \in [Tasks -> Nat]
  /\ records \subseteq Tasks
  /\ proc \in [Procs -> {"up", "closing", "down"}]
  /\ pc \in [Workers -> Phase]
  /\ job \in [Workers -> Tasks \cup {NoTask}]
  /\ seen \in [Workers -> SUBSET Tasks]
  /\ result \in [Workers -> {"succeeded", "failed"}]
  /\ submitting \subseteq Submission
  /\ deleting \subseteq Procs \X Tasks
  /\ submits \in Nat /\ stops \in Nat /\ faults \in Nat
  /\ created \in [Tasks -> Nat]
  /\ calls \in [Tasks -> Nat]
  /\ gone \subseteq Tasks
  /\ \A t \in Tasks : (holder[t] = NoWorker) <=> (status[t] # "running")
  /\ \A t \in Tasks : live[t] => status[t] = "running"
  /\ \A w \in Workers :
       pc[w] \in InOperation \cup {"done", "failed", "cancelled", "finished"} =>
         job[w] \in Tasks

\* No accepted task reaches the provider twice, whatever is lost: neither
\* after a crash or a lease that ran out in the middle of an operation, nor
\* because two processes claim, nor because a submission is repeated
\* (claim and recover_expired in tasks.py; image-generation.md:132-134).
GeneratedOnce == \A t \in Tasks : calls[t] <= created[t]

\* A task that has ended stays as it ended until it is deleted: a worker
\* that was given up, or is cancelled after it finished, writes nothing
\* (SQLiteImageTaskStore._update; the handlers of _worker).
KeepsEnds ==
  \A t \in Tasks : status[t] \in Terminal => status'[t] \in {status[t], "absent"}

\* What one worker claimed is interrupted by another only while its lease
\* has run out: a renewal between the two looks of recover_expired counts.
KeepsRenewed ==
  \A t \in Tasks, w \in Workers :
    (/\ status[t] = "running" /\ live[t] /\ status'[t] = "interrupted"
     /\ pc'[w] # pc[w]) => w = holder[t]

\* Both, of every step: a worker writes what it claimed while it holds it
\* (SQLiteImageTaskStore._update, recover_expired).
WorkersYield == [][KeepsEnds /\ KeepsRenewed]_vars

\* What _recover_result shows of a task.
ShownRecord(t) ==
  \/ status[t] = "succeeded"
  \/ status[t] \in {"interrupted", "failed"} /\ t \in records

\* A task that shows a result has one to open, except while its record is
\* being deleted (image-generation.md:125: "A successful task's record_id can
\* be read through the existing history API").
ShownCanBeRead ==
  \A t \in Tasks :
    ShownRecord(t) => t \in records \/ \E p \in Procs : <<p, t>> \in deleting

\* A record that was deleted does not come back from a generation or an
\* archive still under way, unless the task itself was submitted again
\* (update in sqlite.py; image-generation.md:46-47: "an archival completion
\* cannot recreate a deleted record").
DeletedStaysDeleted ==
  \A t \in gone : created[t] = 1 => t \notin records

\* The history of images shows what there is: what a task shows can be
\* opened, and what was deleted is not shown again (image.py, image_task.py).
RecordsAreHonest == ShownCanBeRead /\ DeletedStaysDeleted

\* A worker ended by an exception, and nobody else works: start replaces
\* no worker, and a process without work has started none.
NobodyWorks ==
  /\ \E w \in Workers : pc[w] = "dead"
  /\ \A w \in Workers : pc[w] \in {"off", "dead"}

\* Every accepted task ends, or is deleted: workers take it up, give it up or
\* interrupt it, in this process or after it is back, unless a worker died
\* and from then on nobody works.
TasksSettle ==
  \A t \in Tasks :
    status[t] \in Active ~> (status[t] \notin Active \/ []NobodyWorks)

\* image-generation.md:132-133: "expired running tasks become interrupted".
ExpiredAreInterrupted ==
  \A t \in Tasks : Expired(t) ~> ~Expired(t)

=============================================================================
