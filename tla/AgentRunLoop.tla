---------------------------- MODULE AgentRunLoop ----------------------------
(***************************************************************************)
(* What one persisted agent run does: the model/tool loop, tool approvals, *)
(* the tool execution ledger, the snapshot and the tail of the journal     *)
(* behind it, interruption, recovery, resumption and operator resolution   *)
(* (application/agent_execution.py, agent_state.py, agent_recovery.py,     *)
(* agent_runs.py).                                                         *)
(*                                                                         *)
(* One execution at a time works on the run: that the lease guarantees     *)
(* (module AgentRunLease), and so does it see to CANCELED rows, which are  *)
(* left out here.  A crash may come between any two transactions.          *)
(*                                                                         *)
(* Messages are abstracted to the tool calls a response carries.  Of the   *)
(* steps of a run only those of the current round matter, the calls done   *)
(* since the last response; of the journal only the events the snapshot    *)
(* has not applied.                                                        *)
(***************************************************************************)
EXTENDS Integers, Sequences, FiniteSets, SequencesExt

CONSTANTS
  Ids,            \* tool_call_id values; a later response may use them again
  Tools,
  Sensitive,      \* the tools that need an approval
  NonReplayable,  \* the tools whose replay_policy is NON_REPLAYABLE
  Responses,      \* the sequences of tool calls a model may answer with
  MaxRounds,      \* request.max_tool_rounds
  RecoverErrors,  \* request.recover_tool_errors
  Operator,       \* what operators do besides deciding approvals
  MaxCuts         \* bound: pauses, timeouts and crashes of the run

Call == [id : Ids, tool : Tools]

ASSUME LoopAssumption ==
  /\ Sensitive \subseteq Tools /\ NonReplayable \subseteq Tools
  /\ Responses \subseteq Seq(Call)
  /\ \A r \in Responses : \A i, j \in 1..Len(r) : r[i].id = r[j].id => i = j
  /\ MaxRounds \in Nat /\ MaxCuts \in Nat
  /\ RecoverErrors \in BOOLEAN
  /\ Operator \subseteq {"pause", "resolve", "abandon"}

VARIABLES
  row,       \* the persisted AgentRunState
  tail,      \* the journaled events it has not applied
  pauseReq,  \* row.pause_request
  ledger,    \* agent_tool_executions: the attempts at each tool_call_id
  pc,        \* where the execution is
  mem,       \* the AgentRunState it works on
  todo,      \* current_tool_calls it has not handled yet
  fate,      \* what the finalization will make of the run
  next,      \* where the execution goes after the event it has emitted
  cuts,      \* pauses, timeouts and crashes so far
  granted,   \* history: the calls of a round an operator approved
  execs,     \* history: how often the calls of a round were executed
  told,      \* history: how often the outcome of their execution was reported
  erred      \* history: a tool error was reported

db      == <<row, tail, pauseReq, ledger>>
exec    == <<pc, mem, todo, fate, next>>
history == <<granted, execs, told, erred>>
vars    == <<db, exec, cuts, history>>

-----------------------------------------------------------------------------

\* Bound: one round more than a run should ever have.
Rounds == 0..(MaxRounds + 2)
Keys   == Rounds \X Ids

Terminal == {"FINISHED", "FAILED"}
Status   == {"ABSENT", "RUNNING", "PAUSED"} \cup Terminal

\* An approval pause has pause = None; the others say whether the run may
\* continue from the checkpoint.
Snapshot ==
  [status    : Status,
   pause     : {"none", "resumable", "blocked"},
   round     : Nat,                         \* CHAT steps, or no response yet
   calls     : Responses \cup {<<>>},       \* of the current response
   done      : SUBSET Ids,                  \* TOOL or TOOL_ERROR since then
   asked     : SUBSET Ids,                  \* TOOL_APPROVAL_REQUESTED since then
   rem       : 0..MaxRounds,                \* remaining_tool_rounds
   fin       : BOOLEAN,                     \* a STOP or MEMORY_WRITE step
   waiting   : Seq(Call),                   \* pending_tool_calls
   pending   : SUBSET Ids,                  \* pending_approval_requests
   approvals : [Keys -> {"none", "approved", "denied"}]]

NewState(approvals) ==
  [status |-> "RUNNING", pause |-> "none", round |-> 0, calls |-> <<>>,
   done |-> {}, asked |-> {}, rem |-> MaxRounds, fin |-> FALSE, waiting |-> <<>>,
   pending |-> {}, approvals |-> approvals]

Absent == [NewState([k \in Keys |-> "none"]) EXCEPT !.status = "ABSENT"]

Event == [type : {"started", "chat", "requested", "decided", "toolStarted", "done",
                  "failed", "memory", "resolved", "paused"} \cup Terminal,
          id : Ids \cup {"-"}, calls : Responses \cup {<<>>}, rem : 0..MaxRounds]

\* Trace events; RUN_STOPPED is the status it stands for.
Ev(type)          == [type |-> type, id |-> "-", calls |-> <<>>, rem |-> 0]
CallEv(type, id)  == [Ev(type) EXCEPT !.id = id]
ChatEv(calls, rem) == [Ev("chat") EXCEPT !.calls = calls, !.rem = rem]

\* The events after which a pause request is honoured.
Checkpoints == {"started", "chat", "requested", "decided", "done", "failed"}

Attempt == [round : Nat, tool : Tools,
            status : {"SCHEDULED", "STARTED", "COMPLETED", "FAILED", "UNKNOWN"},
            resolution : {"none", "confirmed", "retry", "abandoned"}]

-----------------------------------------------------------------------------
(* The ledger.                                                             *)
(*                                                                         *)
(* An id may be used again by a later response: attempts are matched within*)
(* the round they were made in.                                            *)

\* A slip: the attempts at the id, whatever the round.
AttemptsOfId(L, id, round) == DOMAIN L[id]

AttemptsOf(L, id, round) == {n \in DOMAIN L[id] : L[id][n].round = round}

Tried(L, id, round)  == AttemptsOf(L, id, round) # {}
Latest(L, id, round) == L[id][Max(AttemptsOf(L, id, round))]

Replayable(a) ==
  \/ a.status \in {"SCHEDULED", "COMPLETED", "FAILED"}
  \/ a.resolution = "retry"
  \/ a.tool \notin NonReplayable

CanResume(L, id, round) == Tried(L, id, round) => Replayable(Latest(L, id, round))

\* A slip: interrupted executions are taken for executions never begun.
MarkScheduled ==
  [id \in Ids |-> [n \in DOMAIN ledger[id] |->
     IF ledger[id][n].status = "STARTED"
     THEN [ledger[id][n] EXCEPT !.status = "SCHEDULED"] ELSE ledger[id][n]]]

\* An execution that was under way is not known to have happened or not.
MarkUnknown ==
  [id \in Ids |-> [n \in DOMAIN ledger[id] |->
     IF ledger[id][n].status = "STARTED"
     THEN [ledger[id][n] EXCEPT !.status = "UNKNOWN"] ELSE ledger[id][n]]]

-----------------------------------------------------------------------------
(* Recovery of a snapshot from the tail of its journal.                    *)

Responded(s, calls, rem) ==
  [s EXCEPT !.round = @ + 1, !.calls = calls, !.rem = rem, !.done = {}, !.asked = {},
            !.waiting = <<>>, !.pending = {}]

\* A slip: responses and stops are restored, tool results are not.
ApplyWithoutTools(s, e) ==
  CASE e.type = "chat" -> Responded(s, e.calls, e.rem)
    [] e.type = "memory" -> [s EXCEPT !.fin = TRUE]
    [] e.type \in Terminal -> [s EXCEPT !.status = e.type, !.fin = TRUE]
    [] OTHER -> s

Apply(s, e) ==
  CASE e.type = "chat" -> Responded(s, e.calls, e.rem)
    [] e.type \in {"done", "failed"} -> [s EXCEPT !.done = @ \cup {e.id}]
    [] e.type = "requested" -> [s EXCEPT !.pending = @ \cup {e.id},
                                         !.asked = @ \cup {e.id},
                                         !.waiting = s.calls]
    [] e.type = "memory" -> [s EXCEPT !.fin = TRUE]
    [] e.type \in Terminal -> [s EXCEPT !.status = e.type, !.fin = TRUE,
                                        !.waiting = <<>>, !.pending = {}]
    [] OTHER -> s

Restored(s) ==
  LET after[n \in 0..Len(tail)] == IF n = 0 THEN s ELSE Apply(after[n - 1], tail[n])
  IN after[Len(tail)]

IdsOf(calls)  == {calls[i].id : i \in 1..Len(calls)}
Incomplete(s) == IdsOf(s.calls) \ s.done

\* A slip: the ledger is not asked about the calls that have no result.
EligibleUnlessFinal(L, s) == ~s.fin

\* inspect_agent_run_checkpoint: may the run continue where it was cut?
Eligible(L, s) ==
  /\ ~s.fin
  /\ \/ s.round = 0
     \/ s.pending # {} /\ Incomplete(s) \subseteq s.pending
     \/ \A id \in Incomplete(s) : CanResume(L, id, s.round)

\* A slip: a run that may not continue is left as it is.
InterruptedIfEligible(L, s) ==
  IF s.status = "RUNNING" /\ Eligible(L, s)
  THEN [s EXCEPT !.status = "PAUSED", !.pause = "resumable"] ELSE s

\* What becomes of a run that was cut, L being its reconciled ledger.
Interrupted(L, s) ==
  IF s.status = "RUNNING"
  THEN [s EXCEPT !.status = "PAUSED",
                 !.pause = IF Eligible(L, s) THEN "resumable" ELSE "blocked"]
  ELSE s

-----------------------------------------------------------------------------

(* The execution.                                                          *)

Idle == pc' = "none" /\ mem' = Absent /\ todo' = <<>> /\ fate' = "none" /\ next' = "none"

Init ==
  /\ row = Absent /\ tail = <<>> /\ pauseReq = FALSE
  /\ ledger = [id \in Ids |-> <<>>]
  /\ pc = "none" /\ mem = Absent /\ todo = <<>> /\ fate = "none" /\ next = "none"
  /\ cuts = 0
  /\ granted = {} /\ erred = FALSE
  /\ execs = [k \in Keys |-> 0] /\ told = [k \in Keys |-> 0]

Goto(l) == pc' = l /\ UNCHANGED <<mem, todo, fate, next>>

\* Decisions of an operator, kept for the round they were made in; those about
\* an id that no response carries are never looked at.
Called    == UNION {IdsOf(r) : r \in Responses}
Decisions == UNION {[D -> {"approved", "denied"}] : D \in SUBSET Called}
Merged(approvals, d, round) ==
  [k \in Keys |-> IF k[1] = round /\ k[2] \in DOMAIN d THEN d[k[2]] ELSE approvals[k]]
Grant(d, round) ==
  granted' = granted \cup {<<round, id>> : id \in {i \in DOMAIN d : d[i] = "approved"}}

\* A slip: a decision about an id is taken for every round's call with it.
ApprovalOfId(s, id) ==
  IF \E r \in Rounds : s.approvals[<<r, id>>] # "none"
  THEN s.approvals[<<CHOOSE r \in Rounds : s.approvals[<<r, id>>] # "none", id>>]
  ELSE "none"

Approval(s, id) == IF s.round \in Rounds THEN s.approvals[<<s.round, id>>] ELSE "none"

\* A pause requested meanwhile, unless the row is still the paused one that
\* the execution has resumed.
PauseDue(type, s) ==
  pauseReq /\ row.status = "RUNNING" /\ s.status = "RUNNING" /\ type \in Checkpoints

PausedAt(s) == [s EXCEPT !.status = "PAUSED", !.pause = "resumable"]

\* The event is journaled, and a pause with it when one is due; the snapshot
\* follows in a transaction of its own.
Emit(e, s, then) ==
  /\ pc' = "save"
  /\ IF PauseDue(e.type, s)
     THEN tail' = tail \o <<e, Ev("paused")>> /\ mem' = PausedAt(s)
     ELSE tail' = Append(tail, e) /\ mem' = s
  /\ next' = then
  /\ UNCHANGED <<row, pauseReq, ledger>>

Save ==
  /\ pc = "save"
  /\ row' = mem /\ tail' = <<>>
  /\ pauseReq' = (pauseReq /\ row.status = "RUNNING" /\ mem.status = "RUNNING")
  /\ IF mem.status = "RUNNING" THEN Goto("yield") ELSE Idle
  /\ UNCHANGED <<ledger, cuts, history>>

\* A slip: a request is looked for before the event is handed out only.
NotRechecked == FALSE

\* TOOL_STARTED and MEMORY_WRITTEN are no checkpoints.
RequestedAtYield == pauseReq /\ next \notin {"ledger", "stop"}

\* The event has been handed out.
Yielded ==
  /\ pc = "yield"
  /\ IF RequestedAtYield
     THEN /\ pc' = "save" /\ mem' = PausedAt(mem) /\ tail' = Append(tail, Ev("paused"))
          /\ UNCHANGED <<todo, fate, next>>
     ELSE Goto(next) /\ UNCHANGED tail
  /\ UNCHANGED <<row, pauseReq, ledger, cuts, history>>

Start ==
  /\ row.status = "ABSENT"
  /\ \E d \in Decisions :
       /\ row' = NewState(Merged(Absent.approvals, d, 1))
       /\ Grant(d, 1)
  /\ mem' = row' /\ pc' = "started"
  /\ UNCHANGED <<tail, pauseReq, ledger, todo, fate, next, cuts, execs, told, erred>>

Started ==
  /\ pc = "started"
  /\ Emit(Ev("started"), mem, "chat")
  /\ UNCHANGED <<todo, fate, cuts, history>>

ModelResponds ==
  /\ pc = "chat" /\ mem.round + 1 \in Rounds
  /\ \E r \in Responses :
       /\ Emit(ChatEv(r, mem.rem), Responded(mem, r, mem.rem), "loop")
       /\ todo' = r
  /\ UNCHANGED <<fate, cuts, history>>

\* The call the loop handles, and the outcome it has in the ledger.
Current == Head(todo)
Key     == <<mem.round, Current.id>>
Outcome == Latest(ledger, Current.id, mem.round)

InLoop == pc = "loop" /\ todo # <<>> /\ mem.rem > 0

RequestApproval ==
  /\ InLoop /\ Current.tool \in Sensitive /\ Current.id \notin mem.asked
  /\ Emit(CallEv("requested", Current.id),
          [mem EXCEPT !.asked = @ \cup {Current.id}], "loop")
  /\ UNCHANGED <<todo, fate, cuts, history>>

Asked == InLoop /\ Current.tool \in Sensitive /\ Current.id \in mem.asked

\* Every run here has pause_on_approval.
PauseForApproval ==
  /\ Asked /\ Approval(mem, Current.id) = "none"
  /\ Emit(CallEv("paused", Current.id),
          [mem EXCEPT !.status = "PAUSED", !.waiting = todo, !.pending = {Current.id}],
          "none")
  /\ UNCHANGED <<todo, fate, cuts, history>>

TraceDecision ==
  /\ Asked /\ Approval(mem, Current.id) # "none"
  /\ Emit(CallEv("decided", Current.id), mem, "go")
  /\ UNCHANGED <<todo, fate, cuts, history>>

StartTool ==
  /\ \/ InLoop /\ Current.tool \notin Sensitive
     \/ pc = "go" /\ Approval(mem, Current.id) = "approved"
  /\ Emit(CallEv("toolStarted", Current.id), mem, "ledger")
  /\ UNCHANGED <<todo, fate, cuts, history>>

Report(type) ==
  /\ Emit(CallEv(type, Current.id), [mem EXCEPT !.done = @ \cup {Current.id}],
          IF type = "failed" /\ ~RecoverErrors THEN "finish" ELSE "loop")
  /\ todo' = Tail(todo)
  /\ erred' = (erred \/ type = "failed")
  /\ UNCHANGED <<fate, cuts, granted, execs>>

\* By the tool's policy, which is not asked for approvals, or by the operator.
Reject ==
  /\ InLoop \/ (pc = "go" /\ Approval(mem, Current.id) = "denied")
  /\ Report("failed") /\ UNCHANGED told

\* What the tool returned now, or when it was executed before an interruption.
ReportOutcome ==
  /\ pc \in {"ledger", "report"} /\ Tried(ledger, Current.id, mem.round)
  /\ \/ Outcome.status = "COMPLETED" /\ Report("done")
     \/ Outcome.status = "FAILED" /\ Report("failed")
  /\ told' = [told EXCEPT ![Key] = @ + 1]

\* A slip: a persisted error is tried again.
TriesFailed ==
  Tried(ledger, Current.id, mem.round) => Outcome.status = "FAILED" \/ Replayable(Outcome)

\* A new attempt: the first of the round, or one after an unknown outcome.
Tries ==
  Tried(ledger, Current.id, mem.round) =>
    Outcome.status \in {"STARTED", "UNKNOWN"} /\ Replayable(Outcome)

Schedule ==
  /\ pc = "ledger" /\ Goto("begin")
  /\ \/ Tries /\ ledger' = [ledger EXCEPT ![Current.id] = Append(@,
                  [round |-> mem.round, tool |-> Current.tool,
                   status |-> "SCHEDULED", resolution |-> "none"])]
     \/ /\ Tried(ledger, Current.id, mem.round) /\ Outcome.status = "SCHEDULED"
        /\ UNCHANGED ledger
  /\ UNCHANGED <<row, tail, pauseReq, cuts, history>>

SetLast(id, status) == [ledger EXCEPT ![id][Len(ledger[id])].status = status]

BeginTool ==
  /\ pc = "begin" /\ Goto("tool")
  /\ ledger' = SetLast(Current.id, "STARTED")
  /\ execs' = [execs EXCEPT ![Key] = @ + 1]
  /\ UNCHANGED <<row, tail, pauseReq, cuts, granted, told, erred>>

ToolReturns ==
  /\ pc = "tool" /\ Goto("report")
  /\ \E status \in {"COMPLETED", "FAILED"} : ledger' = SetLast(Current.id, status)
  /\ UNCHANGED <<row, tail, pauseReq, cuts, history>>

\* A slip: a completed round is not taken off.
NotConsumed(rem) == rem

\* A slip: a round is taken off though none is left.
ConsumedAlways(rem) == rem - 1

Consumed(rem) == IF rem > 0 THEN rem - 1 ELSE 0

RoundCompleted ==
  /\ pc = "loop" /\ todo = <<>> /\ mem.calls # <<>>
  /\ mem' = [mem EXCEPT !.rem = Consumed(@)] /\ pc' = "chat"
  /\ UNCHANGED <<db, todo, fate, next, cuts, history>>

Finish ==
  /\ \/ pc = "finish"
     \/ pc = "loop" /\ (mem.calls = <<>> \/ (todo # <<>> /\ mem.rem = 0))
  /\ fate' = IF pc = "loop" /\ todo = <<>> THEN "FINISHED" ELSE "FAILED"
  /\ mem' = [mem EXCEPT !.fin = TRUE] /\ pc' = "commit"
  /\ UNCHANGED <<db, todo, next, cuts, history>>

\* The transcript is appended to the context; a memory may be written after.
CommitTranscript ==
  /\ pc = "commit" /\ \E l \in {"memory", "stop"} : Goto(l)
  /\ UNCHANGED <<db, cuts, history>>

WriteMemory ==
  /\ pc = "memory"
  /\ Emit(Ev("memory"), mem, "stop")
  /\ UNCHANGED <<todo, fate, cuts, history>>

Stopped(s, status) == [s EXCEPT !.status = status, !.waiting = <<>>, !.pending = {}]

Stop ==
  /\ pc = "stop"
  /\ Emit(Ev(fate), Stopped(mem, fate), "none")
  /\ UNCHANGED <<todo, fate, cuts, history>>

-----------------------------------------------------------------------------
(* Failures.                                                               *)

\* A provider, skill or storage error, or an outcome nobody knows: it ends
\* the run.
Fault ==
  /\ \/ pc \in {"chat", "commit", "memory"} \/ InLoop
     \/ pc = "ledger" /\ ~CanResume(ledger, Current.id, mem.round)
  /\ row' = mem /\ Goto("failed")
  /\ UNCHANGED <<tail, pauseReq, ledger, cuts, history>>

MarkFailed ==
  /\ pc = "failed"
  /\ Emit(Ev("FAILED"), Stopped(row, "FAILED"), "none")
  /\ UNCHANGED <<todo, fate, cuts, history>>

Cut == cuts < MaxCuts /\ cuts' = cuts + 1

\* timeout_seconds: the execution is cancelled where it awaits, and saves what
\* it has.
Timeout ==
  /\ Cut /\ pc \in {"chat", "tool", "yield", "commit", "memory"}
  /\ row' = mem /\ Goto("interrupted")
  /\ UNCHANGED <<tail, pauseReq, ledger, history>>

MarkInterrupted ==
  /\ pc = "interrupted"
  /\ ledger' = MarkUnknown
  /\ mem' = Interrupted(ledger', Restored(row))
  /\ tail' = Append(tail, Ev("paused")) /\ pc' = "save"
  /\ UNCHANGED <<row, pauseReq, todo, fate, next, cuts, history>>

Crash == Cut /\ pc # "none" /\ Idle /\ UNCHANGED <<db, history>>

\* One transaction of the recovery of a run whose execution is gone.
Recover ==
  /\ pc = "none" /\ row.status = "RUNNING"
  /\ ledger' = MarkUnknown
  /\ row' = Interrupted(ledger', Restored(row)) /\ tail' = <<>>
  /\ UNCHANGED <<pauseReq, exec, cuts, history>>

-----------------------------------------------------------------------------
(* The operators.                                                          *)

Continued(s, approvals) ==
  [s EXCEPT !.status = "RUNNING", !.pause = "none", !.waiting = <<>>, !.pending = {},
            !.approvals = approvals]

NotDone(s) ==
  LET left[n \in 0..Len(s.calls)] ==
        IF n = 0 THEN <<>>
        ELSE IF s.calls[n].id \in s.done THEN left[n - 1] ELSE Append(left[n - 1], s.calls[n])
  IN left[Len(s.calls)]

\* A run that waits for an approval needs one for each call it asked about.
Resume ==
  /\ pc = "none" /\ row.status = "PAUSED" /\ row.pause # "blocked"
  /\ \E d \in Decisions :
       LET round     == IF row.round = 0 THEN 1 ELSE row.round
           approvals == Merged(row.approvals, d, round) IN
       /\ row.pause = "none" =>
            \A id \in row.pending : approvals[<<round, id>>] # "none"
       /\ mem' = Continued(row, approvals)
       /\ Grant(d, round)
  /\ todo' = IF row.pause = "none" THEN row.waiting ELSE NotDone(row)
  /\ pc' = IF row.round = 0 THEN "chat" ELSE "loop"
  /\ UNCHANGED <<db, fate, next, cuts, execs, told, erred>>

\* Requests come while the execution awaits.
Pause ==
  /\ "pause" \in Operator /\ Cut
  /\ row.status = "RUNNING" /\ ~pauseReq
  /\ pc \in {"none", "chat", "tool", "yield", "commit", "memory"}
  /\ pauseReq' = TRUE
  /\ UNCHANGED <<row, tail, ledger, exec, history>>

Unresolved(a) ==
  a.status = "UNKNOWN" /\ a.tool \in NonReplayable /\ a.resolution = "none"

LatestUnresolved(L) == {id \in Ids : L[id] # <<>> /\ Unresolved(Last(L[id]))}

Resolutions == {"confirmed", "retry"}
Resolved(a, how) ==
  [a EXCEPT !.resolution = how,
            !.status = IF how = "confirmed" THEN "COMPLETED" ELSE @]

\* The attempt and the snapshot are saved in transactions of their own.
Resolve ==
  /\ "resolve" \in Operator /\ pc = "none" /\ row.status = "PAUSED"
  /\ \E id \in Ids, how \in Resolutions : \E n \in DOMAIN ledger[id] :
       /\ ledger[id][n].status = "UNKNOWN" /\ ledger[id][n].resolution = "none"
       /\ ledger' = [ledger EXCEPT ![id][n] = Resolved(@, how)]
  /\ \/ /\ row' = IF row.pause = "none" THEN row
                  ELSE [row EXCEPT !.pause = IF LatestUnresolved(ledger') = {}
                                             THEN "resumable" ELSE "blocked"]
        /\ tail' = <<>> /\ UNCHANGED cuts
     \/ Cut /\ UNCHANGED <<row, tail>>                        \* a crash
  /\ UNCHANGED <<pauseReq, exec, history>>

\* Another run retries this one, which cannot resume.
Abandon ==
  /\ "abandon" \in Operator /\ pc = "none"
  /\ row.status = "PAUSED" /\ row.pause = "blocked" /\ LatestUnresolved(ledger) # {}
  /\ ledger' = [id \in Ids |->
       IF id \in LatestUnresolved(ledger)
       THEN [ledger[id] EXCEPT ![Len(ledger[id])].resolution = "abandoned"]
       ELSE ledger[id]]
  /\ tail' = <<>>
  /\ UNCHANGED <<row, pauseReq, exec, cuts, history>>

-----------------------------------------------------------------------------

Execute ==
  \/ Save \/ Yielded \/ Started \/ ModelResponds
  \/ RequestApproval \/ PauseForApproval \/ TraceDecision \/ StartTool
  \/ Reject \/ ReportOutcome \/ Schedule \/ BeginTool \/ ToolReturns
  \/ RoundCompleted \/ Finish \/ CommitTranscript \/ WriteMemory \/ Stop
  \/ Fault \/ MarkFailed \/ MarkInterrupted

Next ==
  \/ Execute \/ Timeout \/ Crash \/ Recover
  \/ Start \/ Resume \/ Pause \/ Resolve \/ Abandon

Spec     == Init /\ [][Next]_vars
FairSpec == Spec /\ WF_vars(Execute) /\ WF_vars(Recover)

-----------------------------------------------------------------------------
(* Properties.                                                             *)

\* The snapshot, its journal tail, the ledger and the execution are well-formed.
TypeOK ==
  /\ row \in Snapshot /\ mem \in Snapshot
  /\ tail \in Seq(Event) /\ pauseReq \in BOOLEAN
  /\ ledger \in [Ids -> Seq(Attempt)]
  /\ pc \in {"none", "started", "chat", "loop", "go", "ledger", "begin", "tool",
             "report", "finish", "commit", "memory", "stop", "save", "yield",
             "failed", "interrupted"}
  /\ todo \in Seq(Call) /\ next \in {"none", "chat", "loop", "go", "ledger", "finish", "stop"}
  /\ fate \in Terminal \cup {"none"}
  /\ cuts \in 0..MaxCuts
  /\ granted \subseteq Nat \X Ids /\ erred \in BOOLEAN
  /\ execs \in [Keys -> Nat] /\ told \in [Keys -> Nat]

Retries(id, round) ==
  {n \in AttemptsOf(ledger, id, round) : ledger[id][n].resolution = "retry"}

\* A NON_REPLAYABLE tool call of a round is executed once, and once more for
\* each retry an operator asked for, whatever crashed, timed out or resumed
\* (_tool_call_can_resume, _execute_tool_call).
NonReplayableOnce ==
  \A k \in Keys :
    (\E n \in AttemptsOf(ledger, k[2], k[1]) : ledger[k[2]][n].tool \in NonReplayable)
      => execs[k] <= 1 + Cardinality(Retries(k[2], k[1]))

\* A sensitive tool has been executed in those rounds only in which an operator
\* approved the call (_round_tool_approvals, _merge_tool_approvals).
ExecutionsApproved ==
  \A id \in Ids : \A n \in DOMAIN ledger[id] :
    ledger[id][n].tool \in Sensitive => <<ledger[id][n].round, id>> \in granted

\* An execution that returned a result or an error is not followed by another
\* execution of the call in that round.
NoRepeat ==
  \A k \in Keys :
    execs'[k] # execs[k] =>
      \A n \in AttemptsOf(ledger, k[2], k[1]) :
        ledger[k[2]][n].status \in {"COMPLETED", "FAILED"}
          => ledger[k[2]][n].resolution = "confirmed"
NoRepeatAfterOutcome == [][NoRepeat]_vars

\* The journal reports the outcome of an execution once: resumption leaves out
\* what the snapshot or its tail has reported (_completed_tool_call_ids,
\* _restore_checkpoint_data).  A rejection, which executed nothing, may be
\* reported again.
ReportedOnce == \A k \in Keys : told[k] <= 1

\* What the model is told of a call is the outcome of an execution in the round
\* of that call, though providers reuse tool_call_id values across responses
\* (_round_tool_execution_attempts).
ReportsOwnRound ==
  [][\A k \in Keys :
       told'[k] # told[k] =>
         \E n \in DOMAIN ledger[k[2]] :
           /\ ledger[k[2]][n].round = k[1]
           /\ ledger[k[2]][n].status \in {"COMPLETED", "FAILED"}]_vars

\* The ledger refuses an execution of the loop only where another run retries
\* this one: a run is made resumable when no call it has yet to handle waits
\* for an operator (inspect_agent_run_checkpoint, _tool_call_can_resume).
AbandonedRefused ==
  pc = "ledger" /\ ~CanResume(ledger, Current.id, mem.round) => Outcome.resolution = "abandoned"

\* What the ledger knows of a call is told once, and is told or tried again.
LedgerReportsOnce == ReportedOnce /\ AbandonedRefused

\* max_tool_rounds bounds the responses a run asks for, whatever was cut.
RoundsBounded == row.round <= MaxRounds + 1

\* A pause requested while the run awaits a model or a tool is honoured before
\* the loop turns to another call or response.
PauseHonoured == pauseReq /\ row.status = "RUNNING" => pc \notin {"loop", "go", "finish"}

\* A run that was started ends or pauses, if providers and tools answer or time
\* out and recovery keeps looking.
RunSettles == (row.status = "RUNNING") ~> (row.status # "RUNNING")

(* Statements that the code does not keep, most of them of the documentation.*)

\* "preserving [...] remaining rounds": each response but the first has used one
\* round when its calls are handled.
RoundsConsumedOnce == pc = "loop" => mem.rem = MaxRounds - (mem.round - 1)

\* A run that is resumable has no call the ledger would refuse to execute, not
\* even one of an abandoned attempt.
LedgerNeverBlocks == pc = "ledger" => CanResume(ledger, Current.id, mem.round)

\* "error; recover_tool_errors false" leads to FAILED: nothing is executed and
\* no response is asked for after the error.
ToolErrorStops ==
  [][erred /\ ~RecoverErrors => execs' = execs /\ mem'.round <= mem.round]_vars

\* "A snapshot with finalization steps blocks resumption".
FinalizationNotResumed ==
  row.status = "PAUSED" /\ row.fin => row.pause = "blocked"

\* "resume when unresolved outcomes are cleared": a blocked run that is not being
\* finalized has an outcome left that an operator can resolve.
BlockedCanBeResolved ==
  row.status = "PAUSED" /\ row.pause = "blocked" /\ ~row.fin /\ pc = "none"
    => LatestUnresolved(ledger) # {}

=============================================================================
