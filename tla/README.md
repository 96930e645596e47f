# EvernightAI in TLA+

A verification project for EvernightAI (`src/`), a Python service that runs LLM
agents: TLA+ modules that follow the code, TLC configurations that check them on
small instances, and theorems proved with TLAPS. Paths below are relative to
`src/src/EvernightAI/` unless they begin with `docs/` or `frontend/` (then to
`src/`). `PROJECT.json` maps every definition to the lines it models.

Run `tlc -workers 2 -config <Cfg>.cfg <MCModule>.tla` and `tlapm <Module>.tla`.

## 1. Inventory

### The parts

The code is layered: `core` (schemas, protocols, domain managers), `application`
(use cases), `infra` (SQLite stores, executors, tools, sandboxes, providers),
`interface` (HTTP, WebSocket, CLI), `bootstrap` and `entrypoint`, and a Vue
frontend. The parts that keep state and where something can go wrong between two
steps:

| part | state it keeps | operations | correct when |
|---|---|---|---|
| **Agent run row and lease** (`application/agent_runs.py`, `agent_lifecycle.py`, `agent_recovery.py`, `infra/adapters/agent/executor.py`, `sqlite.py`) | a row per run: JSON snapshot, status, lease owner, expiry and generation; a trace journal; tasks and heartbeats in memory | start, stream, resume, pause, cancel, resolve, heartbeat, save, recover, shut down | one execution at a time writes; a superseded one never does; final statuses stay; requests are not overwritten; no run stays RUNNING |
| **Agent run loop** (`application/agent_execution.py`, `agent_state.py`, `agent_recovery.py`) | snapshot (steps, round, pending calls), journal tail, ledger of tool execution attempts | model rounds, approvals, tool executions, reports, finalization, recovery, operator resolution | a tool that must not be repeated is not; outcomes are told once and to the right round; approvals hold for their round; bounds and pauses are honoured |
| **Image tasks** (`infra/adapters/images/tasks.py`, `executor.py`, `sqlite.py`, `application/image_task.py`, `image.py`) | rows of tasks and of history records, workers, leases | submit, claim, generate, renew, finish, recover, cancel, delete, archive | a paid request is not repeated; ended tasks stay ended; nothing deleted returns; a result shown can be opened |
| **Tool register and MCP sources** (`core/domain/tool.py`, `infra/adapters/tool/mcp.py`, `core/domain/runtime.py`) | an atomic register snapshot; per source a session, a refresh task, an event, a ready flag | load, refresh, notification, poll, transport failure, retry, close; runtime start and shutdown | the register shows one complete listing per source; no notification is lost; a failed start leaves nothing |
| **Tool authorization and calls** (`core/domain/tool.py`, `application/agent_execution.py`) | settings per owner, definitions, decisions | authorize, pause, decide, execute | what runs is permitted when it runs; what was refused never runs |
| **Shell sessions** (`infra/adapters/tool/restricted_shell.py`, `shell_session.py`) | directory and environment per session, a lock, bindings of approvals | authorize, execute, reset | a command runs in the state it was approved in; commands of a session do not overwrite each other |
| **Background processes** (`infra/adapters/tool/shell_processes.py`, `infra/adapters/sandbox/process.py`) | known processes, output buffers, read offsets, deadlines | start, read, write, stop, close | limits hold, nothing outlives its lifetime or the service, readers miss nothing |
| **Provider manager** (`core/domain/provider.py`) | configurations in memory and in the store, slots with active calls, retired slots, a lock per provider | create, update, disable, delete, call, stream, close | an instance is closed once, after its calls, and always; what is served is what is stored |
| **Provider adapters** (`infra/adapters/providers/*/mapper.py`) | per stream: what was heard of each block of the answer | normalize, complete, fail | an answer is put together as it was given, or refused |
| **WebSocket connections and run subscriptions** (`interface/http/websocket.py`, `routes/websocket.py`) | connections, subscriptions, cursors, generations, locks, send queues | start, subscribe with replay, broadcast, unsubscribe, cancel, heartbeat, close | every event once and in order, none unasked; a silent client stops nobody |
| **Chat and transcript** (`application/chat.py`, `retry.py`, `core/domain/context.py`) | context rows with revisions, sessions that name them | turn, stream, run, retry, edits by clients | turns are not torn; a run knows where its messages are |
| **Context strategies** (`core/domain/context.py`, `application/chat_request.py`) | none | compose a request | calls and answers stay together; the current turn is never trimmed |
| **Memory** (`core/domain/memory.py`) | memories of an owner, with scope, expiry and origin | create, replace, delete, write of a run, select | one summary per session; a request gets what its query says |
| **Skills** (`core/domain/skill.py`, `application/skill_prompt.py`) | templates loaded and stored, their revisions | create, update, delete, restart, use by a run | a run uses one version |
| **Access** (`core/domain/authorized_interface.py`, `auth.py`, HTTP, WebSocket and CLI entrances) | login sessions, API keys, configuration, principals of connections | log in and out, create and revoke keys, authorize every operation | nothing is done for a credential that ended; a refusal changed nothing |
| **Runtime** (`core/domain/runtime.py`, `interface/http/app.py`, `bootstrap/http.py`) | what is started, connections of stores | start, undo of a failed start, drain, close | users end before what they use |
| **Migrations** (`infra/sqlite.py`) | recorded versions | open a store | each once, in order, before use |
| **File tools** (`infra/adapters/tool/restricted_filesystem.py`) | the files | write, append, patch, create, delete, move, copy | nothing outside the root; no text lost unasked |
| **Data analysis, shell policy, sandboxes, git, web, log store, frontend** | single rows, none, or outside the package | | not modelled, see section 6 |

### How they interact

HTTP, WebSocket and CLI requests call `application` services. A run is created
as a row; the executor of the process acquires its lease and runs the loop. The
loop asks the provider manager for responses and the tool manager for tool
executions, yields trace events that are journaled, saved in the snapshot and
broadcast. The tool manager reads its register, which MCP sources replace, and
calls the shell tool, which uses sessions and processes. Several processes (a
server, CLI commands, a second server) may share one SQLite file: transactions
are their only synchronization. Within a process one asyncio event loop
interleaves everything at its `await`s.

### What is hard

Leases and crashes (an old execution wakes up after its run was taken over), the
journal that may be ahead of the snapshot, operators who change a row while its
execution holds an older copy, replays that meet broadcasts, providers that are
replaced under their streams, turns that overlap on one context, credentials that
end between a check and its use, reuse of `tool_call_id`s, tools that must not be
repeated, listings that change while they are read, settings and shell state
that change between a check and its use, cancellation at any `await`, and close
while something is starting. `PROJECT.json` lists these hazards at the lines
where they bite, with the properties that would notice.

## 2. The modules

| module | models | with |
|---|---|---|
| `AgentRunStatus` | the status machine a deployment promises (diagram 8 of `docs/architecture-diagrams.md`) | abstract specification, 2 variables |
| `AgentRunLease` | row, lease, journal and processes | implements `AgentRunStatus` |
| `AgentRunLoop` | the loop of one run, its ledger and recovery | relies on one execution at a time, which `AgentRunLease` shows |
| `ImageTasks` | image task table, record table, executors | |
| `ToolSources` | register, sources, runtime start and shutdown | |
| `ToolAuthorization` | `authorize`, catalogue and summary as operators, and the documented rules | no state |
| `ToolCalls` | calls, settings, definitions, sessions, bindings | EXTENDS `ToolAuthorization` |
| `ShellProcesses` | process manager and sandbox process | |
| `RunSubscriptions` | connections that follow one run, on an explicit event loop | |
| `ProviderSlots` | provider manager | extended by `MCServices` |
| `Access` | credentials, permissions and entrances | instantiated by `MCServices` |
| `Transcript` | turns on one context | same |
| `Skills` | one template and its runs | same |
| `Memories` | the memories of one owner | same |
| `ContextWindow` | composition of a request | same |
| `Lifecycle` | start and shutdown of a process | same |
| `Migrations` | openers of one database | same |
| `Files` | tools that change files | same |
| `Streams` | answers put together from streams of four APIs | same |
| `*_proofs` | theorems | EXTEND their module |
| `MC*` | instances for TLC | EXTEND their module |

An MC module may hold several instances side by side: a variable `part` says which
of them a behaviour runs, and never changes. `MCLoops`, `MCCalls` and `MCImages`
have two instances of one module over the same variables. Both of `MCLoops` have
the same ids and tools, so that what is said of executions is said of both; of
`MCImages` the instance "results" has the constants of the configuration and
"pair" another task. `MCServices` has ten components that share no state: the
constants and variables of `ProviderSlots` are its own, and stay as they begin
where another part runs; the variables of the other nine are then `None`. A
property of one instance only is prefixed by `part = "..." =>`.

Definitions that begin with the comment "A slip:" are plausible bugs of the
definition below them; replacing one by the other must break a property, which
shows that the property speaks of the code.

### AgentRunLease

`snap` is the JSON snapshot (status, applied sequence, pause request), `owner`,
`expired`, `gen` the lease columns, `journal` the kinds of trace events, and for
each process `ph`, `myGen`, `mem` the task that works on the run. A handler of
the code that reads the row in one transaction and writes it in another is two
steps; between them other processes may act, while the same event loop may not
(`Busy`), because the code awaits nothing there. `Acquire` is `acquire_lease`
with its three conditions, `Save` the fenced `save_state`, `Recover` one pass of
the watcher over the run, `PauseRunningStates` the shutdown, `Crash` takes a
process away with all it holds in memory. A restart is another member of `Proc`.
With `Concurrent = FALSE` a process boots only when no other is alive.
`ImplementsStatus` maps `status` to the stored status and `granted` to "some
live task holds the current lease", so that every step of the row is a step of
the status machine or stutters.

### AgentRunLoop

`pc` is where the execution is; each value is a stretch up to the next `await`
or transaction. `mem` is the `AgentRunState` in memory, `row` the saved one,
`tail` the journaled events it has not applied, `ledger` the attempts by
`tool_call_id`. An event is handed out in four steps, as in `_stream_and_store`:
apply, journal, save, yield. `Crash` may come between any two, `Timeout` where
the code awaits. `Interrupted` rebuilds the state from snapshot, tail and ledger
as `agent_recovery.py` does, including what it marks UNKNOWN, and decides
whether the run can be resumed; the passes it makes over calls and events are
recursive functions (`NotDone`, `Restored`). `Resolve` and `Abandon` are the
operator's resolutions. Responses are sequences of calls from the constant `Responses`; an
id may come back in every response but not twice in one.

### ImageTasks

Rows are functions of the task; a record carries the task's id. A worker goes
through claim, generation, saving the record, archiving and finish, each a
transaction; its heartbeat runs beside it. `LeaseExpires` may happen whenever
nobody renews. `RecoverExpired` is two looks, the second in the transaction.
`submitting` and `deleting` are requests between two transactions. `Faults` are
transactions that raise. A worker whose finish raises, and whose finish as
interrupted raises too, is gone: nobody starts another in its place (`NobodyWorks`).

### ToolSources

`register` maps a local name to its owner and version; `accepted` remembers the
last listing each source registered. A refresh takes one page per step; the
server may change what it publishes between pages, and notifies if it
advertises that. `HandleChanged` sets the event, `Refresh` clears it before it
lists, `Retry` waits and sets it again. `Load`, `Started`, `Stopped`,
`CloseSource` are the kernel's start and shutdown with failures at any source.
`CloseRaises` is a close that raises after it has taken its tools back: a shutdown
goes on to the next source, the undoing of a failed start ends there and leaves the
runtime `"abandoned"`, with the other sources as they were, until the application
closes it.

### ToolAuthorization and ToolCalls

`Authorize` is `ToolManager.authorize` with `BasicToolSafetyPolicy`; `Permitted`
states the rules of `docs/tool-permissions.md` in no order. A call of
`ToolCalls` goes from `Check` (pause, refusal or start) over `Decide`, `Execute`
(the second check), `Start` (the session's lock and the comparison with the bound
state) to `Finish`. `SetToolPolicy` and `Replace` may happen at any time,
`Cancel` at every await, `Restart` loses bindings and locks. The verdict of the
shell policy on a command in a state is the constant `Judge`.

### ShellProcesses

A start waits for `_start_lock`, is admitted, spawns, and is registered
(`Spawned`), unless the look at the session that follows the spawn raises (`Lost`):
that process runs, with its deadline, and the manager does not know it. `known`
is the set of registered processes, `before` the order in which they came, and
`toStop` those that close() has still to stop. `Unkillable` are processes the
service may not signal; close() logs a stop that raises and goes on. The
command (`leader`) may exit and leave a `child` that holds its output
("attached") or does not ("quiet"). `Expire`, `Stop` and `CloseStops` kill the
group. The output is a sequence of event offsets, of which the oldest are
dropped beyond `MaxOutput`; a read is `BeginRead` ... `EndRead` around its wait.
`WaitsForPipes` says which `asyncio.Process.wait` the build has: until 3.12.5 it
returned when the pipes closed, since then when the command exits. The run has
the latter, for the project asks for Python 3.12 or later without an upper bound.

### RunSubscriptions

The one module in which the event loop is a variable: `running` has it, `ready`
will, in asyncio's order, and a task gives it up only where the code waits: for a
subscription lock, for room in a queue, for the next event. Tasks are the stream
task of a connection that started the run, its receive loop, its heartbeat and
its replays. `generation` is raised by an unsubscription so that an older replay
stops; `cursor` is what a client has been sent. `Deliver` and `SendFails` are the
sender of a connection. `journal` grows when the execution goes on; the events
themselves are numbers.

### ProviderSlots

A slot is a provider and a generation; `active` counts its calls, `pending` holds
the retired ones. A request waits for the provider's lock and does in one step
what the code does before its next await; building an instance, waiting for an
idle slot and closing one are steps of their own. `Leak` is a stream nobody
iterates, or a release that is cancelled: the slot is then never idle.

### Access

A request goes from `Ask` over the thread that resolves its credential (`Resolve`)
to the operations of its route, each of which authorizes before it acts (`Serve`;
`Route`, `SocketRoutes` and `Commands` list them in the code's order). A logout, a
revocation, an expiry or a restart with another configuration may fall between. A
connection takes a guard of its credential, then its principal, which it keeps;
the guard is asked again before each message. A command of the CLI is another
process (`Run`) with the configuration of its start.

### Transcript, Skills, Memories, ContextWindow

Handlers of one server on an event loop: what lies between two awaits is one
step. `Transcript` has turns of three kinds on one context (the reading, the
provider, the writing) while clients read, append, replace and delete it, and
create, archive and delete the session on it; `edition` counts replacements and
is not stored. A run that has written its messages has yet to stop (`Stopped`); an
execution that is cut before is resumed (`Resume`) and writes them again, as
another `take` of the turn. `Skills` has one template as the server
loaded it and as it is stored, and runs that recorded a revision. `Memories` has
the writing of a run's summary by its fingerprint and the selection of a query
with scopes, duplicates and limits. `ContextWindow` composes a request from every
short history and current turn: the order of the definitions is the order in
which `create_context_strategy` nests the strategies; costs are numbers.

### Lifecycle, Migrations, Files, Streams

`Lifecycle` is a list of start steps and one of close steps, each of which awaits
and may raise, with runs, workers and requests at work in between. In
`Migrations` an opener connects, waits for the writer, looks a migration up,
carries it out and records it, and commits; anything may raise, a process may
die, and the database may come from an older program. `Files` resolves every
path, `..` and links included, before it compares it with the root, and a copy
follows a link; text is a set of tokens, so that one can say what is still there. A
write or a patch may raise when it has truncated the file. Removals are done in
full. `Streams` has a provider that sends an answer of texts and calls in the format
of one of four APIs, the normalizer of that API, and what is made of its events: an
agent run takes a message when the stream is done (`message`), a chat keeps its
deltas however the stream ends (`Kept`). A Responses stream is done when its events
end and there was output, whether it was finished or not. The provider may run out
of tokens, the connection may be lost, and a gateway may leave out deltas that a
final event repeats; it names an item in the same way in all its events.

## 3. The runs

| run | instance | shows |
|---|---|---|
| `lease_fencing` | 2 processes at once, start and resume streams, generations up to 2, symmetric | `FencingTokensUnique`, `NoZombieWrite` |
| `lease_server` | one server at a time with one restart, six kinds of requests, 2 events, 2 generations, fair | `ImplementsStatus`, `StoppedNotPaused`, `PauseKept`, `RunSettles` |
| `loops` | *ledger*: reads and payments, one round, stops at tool errors, pause and resolve, 2 cuts; *rounds*: payments under one id in three responses, all operator actions, fair | both: `NonReplayableOnce`, `LedgerReportsOnce`, `NoRepeatAfterOutcome`, `ExecutionsApproved`; *rounds*: `RoundsSettle` |
| `images` | *results*: 1 task submitted twice, deletions at any time, 2 faults; *pair*: 2 tasks, 2 processes, a limit of 1, 1 stop and 2 faults, at most two of them together, fair | both: `GeneratedOnce`, `RecordsAreHonest`, `WorkersYield`; *pair*: `PairSettles`: a task ends, unless a worker died and nobody works any more |
| `tool_sources` | a watched server with two pages and a blocked tool, a polled one, one shared name, 2 changes, 1 transport error, closes that raise, fair | `OneListing`, `NothingIsLeft`, `SourcesConverge` |
| `calls` | *session*: three calls of one session, two states; *policy*: two calls under one id, three definitions, claimed approvals, fair | `RunsAsApproved`, `SessionsAreSerial`, `DeniedNeverRuns`, `ExecutedIsPermitted`, `FairCallsSettle` |
| `processes` | two starts at a limit of one, two readers, two characters of output of which one is kept, either start may be lost, one process cannot be killed, fair | `LimitsHold`, `NothingSurvivesClose`, `NothingIsSkipped`, `CommandsExpire` |
| `subscriptions` | 2 connections, one starts the run, 2 events, 3 requests of six kinds, a queue of 1, fair | `OnceInOrderAtFirst`, `NothingUnaskedAtFirst`, `WorkEnds` |
| `services` | ten components, see below | one property each |
| `lease_replay` | one server at a time, start, resume and pause | refutes `StoppedNotReplayed` |
| `loop_tool_error` | reads only, `recover_tool_errors` false, 1 cut | refutes `ToolErrorStops` |
| `subscription_locks` | one connection that starts the run, 2 events, 2 replays at once, 5 requests, a queue of 1 | refutes `OnceInOrder` |

The parts of `services`:

| part | instance | property | says |
|---|---|---|---|
| slots | 1 provider, 3 requests of seven kinds, 3 generations, close | `ProvidersHold` | nobody uses an instance that is being closed; what is served is what is stored; every retired instance is closed by its last user, once |
| access | a user, a login, a key, an OAuth token, a request and a connection, six endpoints, three configurations, a clock of 1 | `AccessHolds` | nothing is done for what was sent after its credential ended; a refused request only read |
| transcript | 2 turns, 2 edits, 1 fault or cut | `TranscriptHolds` | the messages an execution of a turn writes stand together and once; the positions a run records are its own |
| skills | 1 run, 4 revisions, 1 restart | `OneVersion` | every call of a run is made with the template it recorded |
| memories | 3 ids, 2 texts, 2 scopes, 4 writes | `MemoriesHold` | one summary; a selection has all it should and nothing else |
| window | 5 messages of six kinds, 3 settings | `RequestsAreWhole` | calls and answers together, the turn there, no more trimmed than needed |
| lifecycle | 2 runs, 2 stores, 2 sources, 2 faults | `EverybodyOutlived` | what is used is closed after its users, nothing stays open |
| migrations | 3 openers, 3 migrations, 2 faults | `MigratedOnce` | each once, in order, all before a store is used |
| files | 6 paths, 2 texts, 5 calls | `TextsAreKept` | nothing outside the root changes, no text is lost that nobody gave up, but for the rest of a file whose patch raised |
| streams | 3 blocks of up to 2 pieces, four APIs | `AnswersAreWhole` | what is kept is the beginning of what the model said, calls are whole and reported once; what a run takes for an answer is what a chat keeps, and, if the provider ended it, all of it |

### The bounds, and why they suffice

* *Processes*: two. Every hazard of the lease and of image tasks is between one
  process that is late and one that is not. For the fencing properties the
  theorems hold for any number.
* *Generations* (`MaxGen`): a first lease and a second one that supersedes it.
  Actions compare generations for equality with the current one only.
* *Events* (`MaxEvents`): the journal before and after a checkpoint. In
  `lease_fencing` no ordinary event is needed: starting, stopping, failing and
  recovering already journal and save.
* *Rounds*: `MaxRounds + 1` responses, three in *rounds*: a round before
  and one after the one in which an id is used again.
* *Cuts* (`MaxCuts`): two, so that a resumed run is interrupted again while it
  catches up. One cut does not reach the states in which an attempt marked
  UNKNOWN is resolved and the run is cut again.
* *Pages, changes*: two pages, and a change between them and one after them.
* *Output*: two characters of which the buffer keeps one: one is dropped, one is
  cut, and a reader is behind, at, or ahead of what is kept.
* *Connections, requests*: a replay meets a broadcast of another connection's
  stream task with one that starts and one that subscribes; three requests are
  subscribe, unsubscribe, subscribe, the shortest that leaves an older replay
  under way. A queue of one is full after one event.
* *Generations of a provider*: three requests can retire at most two slots while a
  call uses the first.
* *Turns, edits*: two turns overlap in every order; a replacement and an append
  between them are the two edits. One fault is enough for a run that was half
  written and is resumed, and for one that was written and is resumed.
* *Faults of image tasks*: a worker that dies takes two transactions that raise in
  one operation, on one process of two or on the only one that is left; a stop and a
  fault is a process that is gone and a generation that is interrupted.
* *Processes of the shell*: two starts, of which either may be lost or wait for the
  other; the one that cannot be killed comes before or after the other in the order
  in which close() stops them.
* *Revisions*: four are a change, a deletion, a creation and a change, so that a
  number could come back if creations counted from one.
* *Messages*: five hold a system prefix, a question, a call of two tools and both
  answers, or a turn behind an older group.
* *Openers, migrations*: a first opener dies, a second waits, a third fails.
* *Calls of file tools*: a directory, two texts, and two moves.
* *Blocks*: a text, a call and a call, in any order; two pieces, so that a
  truncation leaves a part.

The counters these bounds cap (`gen`, `journal`, `cuts`, `submits`, `stops`,
`faults`, `changes`, `troubles`, `asked`, `edits`, `revisions`, `writes`, `texts`,
`calls`, the clock, the output's end) are capped in the guards of the actions that
raise them. Deadlock checking is off: every model may really
stop, when its run has ended, its tasks are done, its runtime is closed.

### Fairness

* `AgentRunLease`: time passes (leases expire, the grace period ends), an
  execution that has nothing to wait for goes on, the event loop gets to what is
  scheduled and the watcher looks again and again. The last two are strong:
  other coroutines of the process disable them for a stretch, and asyncio's queue
  is first in, first out. Clients, providers, crashes and heartbeats are not fair:
  a provider that never answers is ended by the run's timeout.
* `AgentRunLoop`: the execution takes its next step (providers and tools answer,
  fail or time out) and recovery looks at an abandoned run. No operator ever has
  to act.
* `ImageTasks`: workers go on, unattended leases expire, requests in progress
  reach their next transaction, a process in `Restarted` is started again after
  a crash or shutdown. Nothing is assumed of users.
* `ToolSources`: start, listing, retry and the delivery of what is under way. The
  servers' changes and troubles are bounded and not fair.
* `ToolCalls`: each step of a call; strong for taking the session's lock, for
  `asyncio.Lock` wakes waiters in order. Decisions are not fair.
* `ShellProcesses`: spawning ends, deadlines come, closing goes on. No command
  and no child ever has to exit by itself.
* `RunSubscriptions`: the event loop goes on as long as something is ready, senders
  send to clients that read, timers fire. No client has to ask for anything and
  the run need not go on. Where clients may stop reading, delivery to them is not
  enabled.
* The parts of `services` state no fairness: their properties are about what is
  there at any moment, or when nothing is under way any more.

## 4. What is proved

Eight modules hold theorems, checked by TLAPS with Z3, Zenon and LS4. Unless it
says otherwise, a theorem assumes only what the module's named assumption says of
its constants (they are of the right kind, bounds are naturals), for any number
of processes, tasks, tools, calls and events.

**AgentRunLease_proofs** (`ConstantsAssumption`): `TypeCorrect`, `FencingTokens`,
`LeasesReleased`, `ZombiesFenced`. That tokens are unique is not inductive: one
must know that no generation in use exceeds `gen`. Nor is that a zombie never
passes the fence: after recovery clears a lease, somebody may be granted a new
one, and one must know that the current owner was granted since. `FencingInv`
adds `GenerationsBounded` (what any task holds is at most `gen`),
`GrantedSinceRecovery` (the owner's generation is later than the last recovery),
`TasksOfTheLiving` and `ShutdownOfTheLiving` (a dead process has no task, only a
draining one shuts down), `NoLeaseBeforeBoot`, and `LeaseHeldByTask` itself.
`LeaseSteps` sorts the actions by what they do to the lease: nothing, acquire,
release, clear, die; the induction then has five cases instead of thirty.

The second part of the module is about behaviours in which one process at a time is
alive, one after another and however each ends (`[]OneServer`), and no stream
resumes a run from a row that was written since it was read (`FreshStreams`):
`ServersImplementStatus`, the refinement of `AgentRunStatus`;
`StoppedRunsAreNotPaused`; `PauseRequestsAreKept`. `SingleServer` shows that
`Concurrent = FALSE` and no request `resumeStream` give both, which is the instance
of `lease_server`. The hypotheses are those of the code's own deployment, one server,
not guards of the code: nothing in it keeps a second process from the row, or
`resume_stream` from an old state. TLC refutes `StoppedNotPaused` with `resumeStream`
in one server, and both properties with two servers, where a row is saved over one
that has changed (section 5); `PauseKept` holds with `resumeStream` in one server in
the instances checked. The invariant
`ServerInv` says what the one living process may be about to write: `OneServer`,
`DeadAreQuiet`, `UntouchedBeforeCreate`, and `Coherent`, in three parts: a start
or resume that is not acquired holds the row as it is (`EntryCoherent`), a control
operation between its two transactions has read the row that is still there
(`ControlCoherent`), and a task that holds the lease works on the status that is
stored, carries a pause request on before it saves, and while it runs has no event
behind its snapshot that stops the run (`TaskCoherent`, `NoStopBehind`). Each action is then shown to make a
step of the abstract status machine, or none.

**AgentRunLoop_proofs** (`LoopAssumption`): `LoopCoherent`,
`NonReplayableToolsRunOnce`, `OutcomesAreNotRepeated`, `SensitiveToolsAreApproved`.
That a payment is made once cannot be seen in one state: the execution follows
the snapshot, a resumed one follows a snapshot rebuilt from an older row, the
journal's tail and the ledger, and an id may come back in a later round.
`LoopInv` therefore relates them: `AttemptsOrdered` (the attempts at an id are
ordered by round, and all but the last of a round are superseded: without
outcome, or confirmed, and retried by an operator or replayable),
`AttemptsOfRow` (the row knows the response every attempt of its round is from),
`ExecutionsRecorded` (an execution has an attempt that says it has begun),
`ExecutionInv` (the execution works on the round and the response of the row, or
on a later one it is about to save), `AttemptInv` (the call that is about to be
executed, or is, has the last attempt at its id, of this round), `EndInv` (a run
that ends knows with which status) and `ApprovalInv` (whatever a snapshot shows as
approved, and whatever was cleared for execution, an operator approved). `RunExists` adds that what resumes has a row. Recovery
is a pair of recursive functions over calls and events: what the proofs need of
`Restored` and `NotDone` is shown by induction over the natural numbers, for the
set of positions up to which it holds (`RestoredChain`, `NotDoneChain`).

What the journal tells is the second part: `JournalCoherent`,
`OutcomesAreReportedOnce`. That no outcome is told twice is a matter of what the
next execution will know, and the row does not know it yet: `ToldInv` says that
what was told is in the snapshot, or in the tail recovery will apply to it, and in
whatever the execution works on. That the ledger refuses nothing but an abandoned
attempt is a matter of what was decided when the run was cut: `Sane` says of every
snapshot that it lists the calls that are left (`Left`), that none of them has an
unknown outcome when the snapshot may be resumed (`Open`), and that a sensitive call
is asked about before it is tried (`AskedFirst`), which makes a pending approval a
proof that nothing was executed. `OutcomeInv` knows where an attempt may be under
way, so that `MarkUnknown` finds them all, `TailInv` that an approval in the journal
is of a call not tried, `TodoInv` and `StepInv` where the execution stands.
Resolving an outcome makes a run resumable only when no latest attempt waits for an
operator: as attempts are ordered by round, these include all of the round.

**ImageTasks_proofs** (`ImageAssumption`): `ImagesCounted`,
`NoTaskIsGeneratedTwice`, `DeletedRecordsStayDeleted`, `WorkersYieldToRows`, and,
where the deletion of a record goes on to the task's row (`DeletionsFinish`: no
process stops between its two transactions, however many crash or close anywhere
else), `HistoryIsHonest`. `CountInv` counts what
an accepted submission has become: a queued row, a claim by a worker that has not
yet called the provider (`Pending`), or a call; and what a call has become: still
under way (`Calling`), a record, or the deletion of one. Neither sum ever exceeds
what it is paid from, whatever crashes, expires or raises (`CountedFor`): a worker
that has lost its row still counts for the submission it claimed. `Recorded` says where the record of a result is while its task is
finished or deleted; a stop between the two transactions of a deletion breaks it,
which is the divergence `ShownCanBeRead` of section 5.

**ProviderSlots_proofs** (`SlotsAssumption`; whether or not close() overtakes
replacements): `SlotsCoherent`, `ProvidersServeAndClose`. A slot's count is the
number of requests that have acquired and not released it (`CountedRight`), so a
slot in use has a positive count and only idle, retired slots are closed; what is
served is open and not retired (`ServedIsOpen`); every open retired slot is in use
or awaited (`SlotCoherent`), so that its last user or whoever waits closes it; two
requests never close one instance (`ClosedOnce`); and what close() finds in
`pending` is retired (`PendingIsRetired`).

**ShellProcesses_proofs** (`ProcessFacts`): `ProcessesCoherent`,
`AtMostTheLimits`, `ClosedIsEmpty`, and, where callers read on from the offsets
they were given (`ReadsAhead = FALSE`), `ReadsHaveNoGaps`. `ProcessInv` says that
what is alive counts as running, and is then registered, or is a process that its
start has lost (`AliveIsRunning`, `RunningIsKnown`), that
running processes and the one start that holds the lock together respect the
limits (`LockIsHeld`, `CountsKept`), and that once close() has listed the processes
whatever runs and may be killed is on its list (`CloseCovers`). The theorems are
about registered processes, and `ClosedIsEmpty` about those of them that may be
killed: what the code promises of the others it does not keep (section 5); `ReadInv` that a read goes on from an
offset the shared position has reached (`ReadsBehind`).

**ToolSources_proofs** (`SourcesAssumption`): `SourcesCoherent`,
`RegistersOneListing`, `StoppedLeavesNothing`, `NoNotificationIsLost`.
`SourcesInv` follows a listing from its pages to what was accepted and to what the
register has, and the runtime's start and shutdown in the order of the sources, so
that a close that raises leaves nothing of its own source, and an application that
closes after an abandoned undoing finds every source that is left;
`CurrentInv` adds that, while no change is left to be noticed, what a listing
under way has received is what the server publishes (`ListingIsCurrent`).

**RunSubscriptions_proofs** (`SubscriptionFacts`, `NoneIsNoTask`; finitely many
connections): `SubscriptionsTyped`, `EventsInOrder`, `NothingIsSentUnasked`. In
what order a client gets its events depends on who may put into its queue, which
depends on locks that are made and forgotten while tasks wait for them. `SubInv`
goes from the event loop to the client: `Jobs` (where a task of each kind may be,
and what it then holds), `Schedule` (who runs or will run is able to go on; who
waits for room is not among them, and waits once), `Locks` (a lock has one holder,
and a waiter that was woken is the first of a lock that is free), `Linked`
(replays and streams end with their connection), `Table` (for a connection that
has not unsubscribed there is one lock, the one in the table, and whoever
broadcasts to it finds it subscribed), `Order` (what was received, what is queued
and the cursor are in order, and an event that waits for room is later than all of
them), `Asked` (after an unsubscription nobody under the lock has an event left to
send, and every earlier replay can tell that it is over). That a task that asks for
a lock finds a free one is counted: there are as many locks as tasks, and every
lock in use belongs to a task of its own, or to a connection in the table
(`FreshLockIsFresh`).

Both properties end at the second generation because `OnceInOrder` and
`NothingUnasked` do not hold: the next unsubscription may forget a lock somebody
was woken for, and `Table` is lost (run `subscription_locks`, section 5).

**ToolCalls_proofs** (`CallFacts`): about `ToolAuthorization`, for any set of
permissions, `AuthorizeIsPermitted` (the code's ordered decision equals the
documented rules), `SummaryAgrees`, `CatalogueIsHonest`,
`RefusalsIgnoreApproval`; about calls, `CallsTypeCorrect`, `DeniedStaysDenied`,
`SerialSessions`, `OnlyPermittedCallsExecute` and, where no two calls of a
session have the same id and command (`UniqueCalls`), `ApprovalsBindState`. The
inductive invariant `CallsInv` adds to types that a call that runs knows the
state it started in (`Ran`) and that a session's lock has one holder
(`Exclusive`); `AskedInv` adds that a call that was asked about stays bound to
that state until it starts (`AskedStaysBound`). `ExecutedIsPermitted` is an
action property: it follows from the types and from `AuthorizeIsPermitted`.

Only model-checked: the invariants of `MCServices` that are not about slots
(`AccessHolds`, `TranscriptHolds`, `OneVersion`, `MemoriesHold`, `RequestsAreWhole`,
`EverybodyOutlived`, `MigratedOnce`, `TextsAreKept`, `AnswersAreWhole`), and all
liveness, `WorkEnds` of the subscriptions included. Each part of `services` is a
component of its own, whose invariant would need an induction of its own.
Out of the prover's reach: liveness under fairness, `ENABLED`, and what a
recursive definition over data computes. No module uses RECURSIVE operators.

## 5. Where the code and its documents differ

Three runs show a disagreement:

* `lease_replay`: `resume` uses the snapshot without inspecting the journal
  (`agent_runs.py:132`). A resumed run that journaled RUN_STOPPED and crashed
  before it saved is still PAUSED in its row, and recovery looks at RUNNING rows
  only; the next resume runs it, and commits its transcript, again.
* `loop_tool_error`: with `recover_tool_errors` false a run stops only after it
  has handed out TOOL_FAILED (`agent_execution.py:582`). A pause or a cut at that
  event leaves a snapshot in which the call counts as handled; the resumed run
  goes on.
* `subscription_locks`: `_discard_subscription_lock_if_unused` asks whether a lock
  is held, not whether somebody waits for it (`websocket.py:393`). An unsubscription
  that releases the lock has woken the next task, which holds it only when it
  runs; the table forgets the lock, the next subscription makes another one, and
  while its replay waits for room in the send queue the older tasks send under the
  old lock. The client gets an event twice; `docs/http-api.md:795` says once and in
  order.

These statements are written down in the modules and are not kept either. No
configuration checks them; the third column says where TLC refutes them.

| statement | module | refuted with | because | the documents say |
|---|---|---|---|---|
| `CancelFinal` | `AgentRunLease` | `Concurrent = TRUE`, start and cancel | `agent_runs.py:734`: a snapshot is saved after the check for CANCELED, in another transaction | `docs/http-api.md:864`: "`cancel` moves a running or paused persisted run to `canceled`" |
| `OutcomeFinal` | `AgentRunLease` | requests with resumeStream | `agent_runs.py:461`: the state is read when the stream is opened, and saved when it is iterated | `docs/architecture-diagrams.md:527`: no edge leaves FINISHED |
| `ShutdownPausesStoppedRuns` | `AgentRunLease` | `Concurrent = TRUE`, start | `agent_lifecycle.py:117`: every RUNNING row is paused, whoever leases it | `core/schema/agent.py:123`: "A run stopped at a checkpoint" |
| `RoundsConsumedOnce` | `AgentRunLoop` | `MCReads`, two rounds, one cut | `agent_execution.py:643`: the round is taken off before the response is asked for, and again when the run resumes | `docs/architecture-dependencies.md:348`: "preserving chat/tool order, remaining rounds" |
| `FinalizationNotResumed` | `AgentRunLoop` | `MCReads`, one round, resolve, two cuts | `agent_runs.py:660`: resumable is recomputed from the ledger alone | `docs/architecture-dependencies.md:351`: "A snapshot with finalization steps blocks resumption" |
| `BlockedCanBeResolved` | `AgentRunLoop` | `MCPayments`, one round, resolve, two cuts | `agent_runs.py:647`: attempt and snapshot are saved in two transactions | `docs/architecture-diagrams.md:536`: "resume when unresolved outcomes are cleared" |
| `LedgerNeverBlocks` | `AgentRunLoop` | `MCResponses` with abandon | as above: abandoning one attempt and resolving another makes the run resumable | |
| `ExpiredAreInterrupted` | `ImageTasks` | nobody restarted, one stop; or two faults and no stop | `images/executor.py:36`: a process without work has no workers, and only workers recover; a worker whose transactions raise twice is not replaced | `docs/image-generation.md:132`: "expired running tasks become interrupted" |
| `ShownCanBeRead` | `ImageTasks` | delete_record and one stop | `application/image.py:159`: record and task are deleted in two transactions | `docs/image-generation.md:125`: "`record_id` can be read" |
| `RunsAsApproved` | `ToolCalls` | two attended calls with one id and command | `restricted_shell.py:307`: they share one binding, and the first to start uses it up | `docs/tool-permissions.md:169`: "Approval is bound to the session cwd and an environment digest" |
| `AllAreCounted` | `ShellProcesses` | as `processes` | `shell_processes.py:169`: the look at the session between the spawn and the registration may raise; the process goes on and is in no count | `docs/tool-permissions.md:194`: "limited by `max_background_processes` per owner" |
| `AllEndWithTheService` | `ShellProcesses` | as `processes` | as above, close() does not know the process; and `shell_processes.py:252`: a stop that raises is logged | `docs/tool-permissions.md:196`: "stopped after `background_lifetime_seconds` and when the service stops" |
| `ProcessesExpire` | `ShellProcesses` | as `processes`, none unkillable | `sandbox/process.py:156`: the deadline ends with the command, and what it left behind holds the output; until 3.12.5 (`WaitsForPipes = TRUE`) it did not | `docs/tool-permissions.md:196`: "stopped after `background_lifetime_seconds`" |
| `NothingIsLeftBehind` | `ShellProcesses` | `Children` with "quiet" | `shell_processes.py:241`: nothing is killed once the command has exited and the output has ended | `docs/tool-permissions.md:189`: "stops the process and its children" |
| `CloseLeavesNone` | `ProviderSlots` | `ClosesAnyTime = TRUE` | `provider.py:481`: close() takes no lock, and a replacement it overtakes publishes its instance afterwards | |
| `NothingUnasked` | `RunSubscriptions` | as `subscription_locks`, 6 requests | `websocket.py:393`: two tasks hold different locks of one subscription; one sends after the other has unsubscribed | `docs/http-api.md:818`: "no later trace broadcast for that subscription is sent after the acknowledgement" |
| `SilentIsClosed` | `RunSubscriptions` | one connection, `MayStall = TRUE`, heartbeats, 5 requests | `websocket.py:97`: `close()` puts its end mark into the bounded send queue and awaits the sender: for a client that neither answers nor reads, with a full queue, the heartbeat waits there | `docs/http-api.md:724`: "the server closes the connection with close code `4000`" |
| `StreamsSurvive` | `RunSubscriptions` | two connections, heartbeats, 4 requests | `websocket.py`: another connection that is closed while a broadcast sends to it raises into the stream task | |
| `NothingSkipped` | `RunSubscriptions` | two connections that start, 3 events, 5 requests | events of a stream task that ends are never broadcast, later ones are | |
| `TurnsStandOnce` | `Transcript` | as `services` | `agent_execution.py:1049`: the messages of a run are committed before RUN_STOPPED is journaled and saved; cut in between, the run has a checkpoint that `agent_recovery.py:125` finds eligible, and writes them again | `docs/architecture-diagrams.md:559`: "Context transcripts commit at loop completion/failure" |
| `RevisionMeansContent` | `Transcript` | replace and retry | a replacement stores the revision it is given, a retry mark keeps it | |
| `TurnSurvivesSummary` | `ContextWindow` | a summary | the tail that is kept may be shorter than the current turn | |
| `PatchesKeepTheRest` | `Files` | as `services` | `restricted_filesystem.py:829`: the file is truncated before the new text is encoded and written; a raise then loses text the patch was not told to replace | |
| `AnswersAreEnded` | `Streams` | as `services` | `openai_responses/instance.py:157`: a stream that had output is done when its events end, and an agent run takes that for its answer; `tests/test_openai_responses_chat_stream.py:111` accepts it | |
| `SourceIsNotReplaced` | `Files` | overwriting | a path moved onto itself, or onto a directory above it, is removed with what it replaces | |
| `NothingIsSkipped` | `ShellProcesses` | `ReadsAhead = TRUE` | `shell_processes.py:216`: the shared position follows any `since` | `docs/tool-permissions.md:187`: "each call continues where the previous read ended" |

Noticed while reading, without a statement of their own:

* *Subscriptions*: `docs/http-api.md:848` says `pause` cancels the stream task; the
  code only pauses the row. `cancel` over a socket also needs `agent-runs:get`.
  Messages queued before the end of a login session are still delivered.
* *Access*: `run_chat` of the CLI creates its provider before the chat is refused.
* *Tool sources*: when a failed start is undone and the close of a source raises, the
  sources loaded before it stay registered and open (`runtime.py:327`; a shutdown
  guards each close, `runtime.py:359`). The runtime is not used then, but is not
  clean until the application closes it, and the error of the start is lost.
* *Transcript*: `mark_retry` reads and replaces in two transactions, which matters
  only across processes; retry marks stay when the provider fails.
* *Memory*: a write that replaces enables a disabled memory again, one that merges
  leaves an expired summary expired; a client that moves a summary to another
  scope or kind, or two processes, can give a session two; the scope filter of
  SQL also applies when `scopes` is given.
* *Skills*: another process does not see a change; the messages of a skill are put
  in after the token budget was applied.
* *Files*: a directory copied below itself recurses; `delete_path` of `.`, recursive,
  deletes the root; a call that fails may leave new parent directories.
* *Lifecycle*: the workspace directory store has no closed flag; a cancellation
  during a close is not caught; a start that fails closes shell sessions and
  processes, and a start that is tried again serves without them.
* *Streams*: a Responses answer that is incomplete passes on a call with part of its
  arguments, where chat completions drop it and Anthropic refuses it; an Anthropic
  call cut before its first piece becomes a call with `{}`, a chat call without a
  piece one with an empty string.

## 6. What is not modelled

* In the lease: appends to the trace and to the ledger by a superseded
  execution, which nothing fences; retry plans as new runs; queries.
* In the subscriptions: credentials. A connection whose credential ended is
  disconnected by whoever next sends to it, the task of another connection included
  (`websocket.py:309`), which then awaits the tasks of that connection; here a
  connection keeps its credential, and what ends with one is the subject of `Access`.
* In the streams: a gateway that names an item in one event and not in another, where
  the Responses adapter falls back on the id of the call (`openai_responses/mapper.py:468`).
* In the loop: what messages say, usage, transcript and memory writes beyond
  that they happen; parallel executions within one response.
* The parsing behind the shell policy: pure checks of command text, whose verdict is
  the constant `Judge` of `ToolCalls`. Git, web and project tools: pure checks
  followed by I/O. The file tools that only read, limits on sizes, diffs.
* The bubblewrap sandbox: with it a process's children die with their namespace;
  `ShellProcesses` has the subprocess backend, where they may not.
* Provider adapters beyond their streams: translations of requests and whole
  responses, usage, error classes. The list of models and the choice of a default.
* What migrations compute, what skills render, how memories are scored beyond a
  total order, rate limits and the hashing of passwords, reading of the
  configuration, decoding and encoding of HTTP and of the command line.
* Data analysis, workspaces as they are listed, the log store: single
  transactions, reading, or logging. The frontend is another program.

`PROJECT.json` gives the reason for each part.

## 7. Plan

Done: the lease, the loop, image tasks, tool sources, tool calls, processes,
subscriptions, and the ten parts of `services`.

A proof worth having next: `MigratedOnce` and `OneVersion`, each of a component that
`MCServices` then has to extend as it extends `ProviderSlots`, or be checked in a
run of its own.

Models worth having after that: the lease and the loop composed, with two
executions of which one is superseded and unfenced appends to trace and ledger;
the shell policy as operators over a small syntax, compared with its documented
rules; the browser's chat machine against the WebSocket protocol.
