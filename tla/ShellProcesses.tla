---------------------------- MODULE ShellProcesses ----------------------------
(* Long-running shell processes (infra/adapters/tool/shell_processes.py) and *)
(* the sandbox process under each (infra/adapters/sandbox/process.py): they  *)
(* are started under a lock and limits, run for a limited time, are read by  *)
(* several callers that share one position, and are stopped by a call, at    *)
(* the end of their lifetime or when the service closes.                     *)
(*                                                                           *)
(* A command may leave a child behind in its process group: one that still   *)
(* holds the command's output ("attached"), or one whose output goes         *)
(* elsewhere ("quiet"). Whether the command may be started at all is         *)
(* ToolCalls' subject.                                                       *)
EXTENDS Naturals, Sequences, FiniteSets, FiniteSetsExt

CONSTANTS
    Process,         \* the starts that are asked for, and the processes they become
    Owner,           \* the principals
    OwnerOf,         \* whose start it is
    Reader,          \* concurrent calls of shell_process_read
    Children,        \* the kinds of children commands leave behind
    WaitsForPipes,   \* Process.wait of this asyncio returns when the pipes close, not at exit
    Unkillable,      \* those the service may not signal: the kill of their group raises
    MaxPerOwner, MaxProcesses, MaxExited,   \* the manager's limits
    MaxOutput,       \* characters kept of a process's output
    EndBound,        \* bound: characters a process writes
    Chunks,          \* bound: characters it writes at once
    ReadsAhead,      \* whether callers ask for offsets they were not given
    None

ASSUME ProcessFacts ==
    /\ OwnerOf \in [Process -> Owner]
    /\ Children \subseteq {"attached", "quiet"}
    /\ Unkillable \subseteq Process
    /\ WaitsForPipes \in BOOLEAN /\ ReadsAhead \in BOOLEAN
    /\ {MaxPerOwner, MaxProcesses, MaxOutput} \subseteq Nat \ {0}
    /\ {MaxExited, EndBound} \subseteq Nat
    /\ Chunks \subseteq Nat \ {0}
    /\ None \notin Process

VARIABLES
    phase,       \* process -> where its start, then it, is
    known,       \* the processes in _processes
    before,      \* process -> what was in _processes when it was registered: its order
    lock,        \* who holds _start_lock
    leader,      \* process -> whether the command itself is alive
    child,       \* process -> the child it left behind
    deadline,    \* process -> whether its _expire task is waiting
    close,       \* where close() is
    toStop,      \* the processes close() has still to stop
    output,      \* process -> the offsets of the kept events, and of the end
    position,    \* process -> read_offset
    seen,        \* process -> the offsets some read returned or reported as dropped
    reading      \* reader -> the read it is in, or None

vars == <<phase, known, before, lock, leader, child, deadline, close, toStop, output, position, seen, reading>>
startVars == <<phase, known, before, lock>>
osVars == <<leader, child, deadline>>
closeVars == <<close, toStop>>
readVars == <<output, position, seen, reading>>

(* _OutputBuffer.start.                                                      *)
FirstKept(o) == IF o.events = <<>> THEN o.end ELSE o.events[1]

TypeOK ==
    /\ phase \in [Process -> {"new", "waiting", "spawning", "running", "lost", "exited",
                           "refused"}]
    /\ known \in SUBSET Process
    /\ before \in [Process -> SUBSET Process]
    /\ lock \in Process \cup {None}
    /\ leader \in [Process -> BOOLEAN]
    /\ child \in [Process -> {"attached", "quiet", "none"}]
    /\ deadline \in [Process -> BOOLEAN]
    /\ close \in {"open", "closing", "stopping", "closed"}
    /\ toStop \in SUBSET Process
    /\ \A p \in Process :
          /\ FirstKept(output[p]) \in 0..output[p].end
          /\ output[p].end - FirstKept(output[p]) <= MaxOutput
    /\ position \in [Process -> Nat]
    /\ seen \in [Process -> SUBSET Nat]
    /\ reading \in [Reader -> {None} \cup [process : Process, from : Nat, max : Nat]]

Init ==
    /\ phase = [p \in Process |-> "new"]
    /\ known = {}
    /\ before = [p \in Process |-> {}]
    /\ lock = None
    /\ leader = [p \in Process |-> FALSE]
    /\ child = [p \in Process |-> "none"]
    /\ deadline = [p \in Process |-> FALSE]
    /\ close = "open"
    /\ toStop = {}
    /\ output = [p \in Process |-> [events |-> <<>>, end |-> 0]]
    /\ position = [p \in Process |-> 0]
    /\ seen = [p \in Process |-> {}]
    /\ reading = [r \in Reader |-> None]

-----------------------------------------------------------------------------
Alive(p) == leader[p] \/ child[p] # "none"
Running == {p \in known : phase[p] = "running"}

(* A slip: starts are not serialized.                                        *)
StartLockAlwaysFree == TRUE

StartLockFree == lock = None

(* shell_process_start is called.                                            *)
CallStart(p) ==
    /\ phase[p] = "new"
    /\ phase' = [phase EXCEPT ![p] = "waiting"]
    /\ UNCHANGED <<known, before, lock, osVars, closeVars, readVars>>

WithinLimits(p) ==
    /\ Cardinality(Running) < MaxProcesses
    /\ Cardinality({q \in Running : OwnerOf[q] = OwnerOf[p]}) < MaxPerOwner

(* A slip: a start that waited for the lock does not look at _closing.       *)
AdmitLate(p) ==
    /\ phase[p] = "waiting"
    /\ StartLockFree
    /\ IF WithinLimits(p)
       THEN phase' = [phase EXCEPT ![p] = "spawning"] /\ lock' = p
       ELSE phase' = [phase EXCEPT ![p] = "refused"] /\ UNCHANGED lock
    /\ UNCHANGED <<known, before, osVars, closeVars, readVars>>

(* _start, up to the await of spawn: under the lock the start is refused     *)
(* while the manager closes and at the limits.                               *)
Admit(p) ==
    /\ phase[p] = "waiting"
    /\ StartLockFree
    /\ IF close = "open" /\ WithinLimits(p)
       THEN phase' = [phase EXCEPT ![p] = "spawning"] /\ lock' = p
       ELSE phase' = [phase EXCEPT ![p] = "refused"] /\ UNCHANGED lock
    /\ UNCHANGED <<known, before, osVars, closeVars, readVars>>

(* _forget_exited: of the exited processes the oldest beyond MaxExited go.   *)
Remembered(ps, order) ==
    LET exited == {p \in ps : phase[p] = "exited"}
        Newer(p) == {q \in exited : p \in order[q]}
    IN  ps \ {p \in exited : Cardinality(Newer(p)) >= MaxExited}

(* _start, after spawn: the process is alive, its deadline is set and it is  *)
(* registered.                                                               *)
Spawned(p) ==
    /\ phase[p] = "spawning"
    /\ phase' = [phase EXCEPT ![p] = "running"]
    /\ leader' = [leader EXCEPT ![p] = TRUE]
    /\ deadline' = [deadline EXCEPT ![p] = TRUE]
    /\ before' = [before EXCEPT ![p] = known]
    /\ known' = Remembered(known \cup {p}, before')
    /\ lock' = None
    /\ UNCHANGED <<child, closeVars, readVars>>

(* _start raises between spawn and registration, as it looks once more at    *)
(* the session for trusted_input: the process is alive and has its deadline, *)
(* but nobody knows it.                                                      *)
Lost(p) ==
    /\ phase[p] = "spawning"
    /\ phase' = [phase EXCEPT ![p] = "lost"]
    /\ leader' = [leader EXCEPT ![p] = TRUE]
    /\ deadline' = [deadline EXCEPT ![p] = TRUE]
    /\ lock' = None
    /\ UNCHANGED <<known, before, child, closeVars, readVars>>

(* The call is cancelled while it waits or spawns, or the command cannot be  *)
(* started; asyncio kills what it had begun to start.                        *)
StartEnds(p) ==
    /\ phase[p] \in {"waiting", "spawning"}
    /\ phase' = [phase EXCEPT ![p] = "refused"]
    /\ lock' = IF lock = p THEN None ELSE lock
    /\ UNCHANGED <<known, before, osVars, closeVars, readVars>>

-----------------------------------------------------------------------------
(* The command exits by itself, perhaps leaving a child behind; the child    *)
(* may exit later.                                                           *)
CommandExits(p) ==
    /\ leader[p]
    /\ leader' = [leader EXCEPT ![p] = FALSE]
    /\ \E c \in Children \cup {"none"} : child' = [child EXCEPT ![p] = c]
    /\ UNCHANGED <<startVars, deadline, closeVars, readVars>>

ChildExits(p) ==
    /\ child[p] # "none"
    /\ child' = [child EXCEPT ![p] = "none"]
    /\ UNCHANGED <<startVars, leader, deadline, closeVars, readVars>>

(* terminate: the deadline is cancelled and the process group killed, or the *)
(* kill raises. The caller then waits for the output to end.                 *)
Kills(p) ==
    /\ leader' = [leader EXCEPT ![p] = @ /\ p \in Unkillable]
    /\ child' = IF p \in Unkillable THEN child ELSE [child EXCEPT ![p] = "none"]
    /\ deadline' = [deadline EXCEPT ![p] = FALSE]

(* What Process.wait waits for.                                              *)
Waited(p) == ~leader[p] /\ (WaitsForPipes => child[p] # "attached")

(* A slip: the deadline's own task is among the things terminate cancels.    *)
ExpireCancelled(p) ==
    /\ deadline[p] /\ ~Waited(p)
    /\ deadline' = [deadline EXCEPT ![p] = FALSE]
    /\ UNCHANGED <<startVars, leader, child, closeVars, readVars>>

(* _expire at the end of the lifetime.                                       *)
Expire(p) ==
    /\ deadline[p] /\ ~Waited(p)
    /\ Kills(p)
    /\ UNCHANGED <<startVars, closeVars, readVars>>

(* _expire when the process is over before: its task ends.                   *)
Disarm(p) ==
    /\ deadline[p] /\ Waited(p)
    /\ deadline' = [deadline EXCEPT ![p] = FALSE]
    /\ UNCHANGED <<startVars, leader, child, closeVars, readVars>>

(* The manager's _pump: the output has ended and the command is gone.        *)
PumpEnds(p) ==
    /\ phase[p] = "running"
    /\ ~leader[p] /\ child[p] # "attached"
    /\ phase' = [phase EXCEPT ![p] = "exited"]
    /\ UNCHANGED <<known, before, lock, osVars, closeVars, readVars>>

(* shell_process_stop: nothing is killed once the process counts as exited.  *)
Stop(p) ==
    /\ p \in known
    /\ phase[p] = "running"
    /\ Kills(p)
    /\ UNCHANGED <<startVars, closeVars, readVars>>

-----------------------------------------------------------------------------
(* close(): no start is admitted any more; once none is in progress the      *)
(* known processes are stopped one after the other.                          *)
Close ==
    /\ close = "open"
    /\ close' = "closing"
    /\ UNCHANGED <<startVars, osVars, toStop, readVars>>

CloseLists ==
    /\ close = "closing"
    /\ lock = None
    /\ close' = "stopping"
    /\ toStop' = known
    /\ UNCHANGED <<startVars, osVars, readVars>>

(* The one whose turn it is: the oldest.                                     *)
Turn(p) == p \in toStop /\ before[p] \cap toStop = {}

CloseStops(p) ==
    /\ close = "stopping" /\ Turn(p)
    /\ phase[p] = "running" /\ Alive(p)
    /\ Kills(p)
    /\ toStop' = IF p \in Unkillable THEN toStop \ {p} ELSE toStop
    /\ UNCHANGED <<startVars, close, readVars>>

(* The process has exited, or the stop raised after the kill, when its       *)
(* output was waited for: that is logged, as is a kill that raises.          *)
CloseGoesOn(p) ==
    /\ close = "stopping" /\ Turn(p)
    /\ phase[p] = "exited" \/ ~Alive(p)
    /\ toStop' = toStop \ {p}
    /\ UNCHANGED <<startVars, osVars, close, readVars>>

CloseEnds ==
    /\ close = "stopping" /\ toStop = {}
    /\ close' = "closed"
    /\ UNCHANGED <<startVars, osVars, toStop, readVars>>

-----------------------------------------------------------------------------

(* A slip: nothing is dropped.                                               *)
AppendedAll(o, n) == [events |-> Append(o.events, o.end), end |-> o.end + n]

(* _OutputBuffer.append: whole events are dropped, the oldest first; the     *)
(* last one is cut when it alone is too long.                                *)
Appended(o, n) ==
    LET events == Append(o.events, o.end)
        end == o.end + n
        fitting == {i \in DOMAIN events : end - events[i] <= MaxOutput}
    IN  [events |-> IF fitting = {} THEN <<end - MaxOutput>>
                    ELSE SubSeq(events, Min(fitting), Len(events)),
         end |-> end]

(* The process, or an attached child, writes.                                *)
Write(p, n) ==
    /\ phase[p] = "running"
    /\ leader[p] \/ child[p] = "attached"
    /\ output[p].end + n <= EndBound
    /\ output' = [output EXCEPT ![p] = Appended(@, n)]
    /\ UNCHANGED <<startVars, osVars, closeVars, position, seen, reading>>

(* shell_process_read, up to the end of its wait: without since it goes on   *)
(* from the shared position.                                                 *)
BeginRead(r, p, since, max) ==
    /\ reading[r] = None
    /\ p \in known
    /\ since # None /\ ~ReadsAhead => since <= position[p]
    /\ reading' = [reading EXCEPT ![r] =
          [process |-> p, from |-> IF since = None THEN position[p] ELSE since, max |-> max]]
    /\ UNCHANGED <<startVars, osVars, closeVars, output, position, seen>>

(* _OutputBuffer.read: the first and the next offset of what is returned.    *)
ReadRange(o, from, max) ==
    LET first == Max({from, FirstKept(o)})
    IN  <<first, IF first >= o.end THEN first ELSE Min({o.end, first + max})>>

(* A slip: the position moves on by what was returned.                       *)
EndReadAdds(r) ==
    /\ reading[r] # None
    /\ LET p == reading[r].process
           o == output[p]
           range == ReadRange(o, reading[r].from, reading[r].max)
       IN  /\ seen' = [seen EXCEPT ![p] = @ \cup (range[1]..(range[2] - 1))
                                            \cup (reading[r].from..(FirstKept(o) - 1))]
           /\ position' = [position EXCEPT ![p] = @ + range[2] - reading[r].from]
    /\ reading' = [reading EXCEPT ![r] = None]
    /\ UNCHANGED <<startVars, osVars, closeVars, output>>

(* read, after the wait: what there is from the offset on, at most max of    *)
(* it, is returned; what was dropped since is reported; the shared position  *)
(* moves forward, never back.                                                *)
EndRead(r) ==
    /\ reading[r] # None
    /\ LET p == reading[r].process
           o == output[p]
           range == ReadRange(o, reading[r].from, reading[r].max)
       IN  /\ seen' = [seen EXCEPT ![p] = @ \cup (range[1]..(range[2] - 1))
                                            \cup (reading[r].from..(FirstKept(o) - 1))]
           /\ position' = [position EXCEPT ![p] = Max({@, range[2]})]
    /\ reading' = [reading EXCEPT ![r] = None]
    /\ UNCHANGED <<startVars, osVars, closeVars, output>>

Next ==
    \/ \E p \in Process :
          \/ CallStart(p) \/ Admit(p) \/ Spawned(p) \/ Lost(p) \/ StartEnds(p)
          \/ CommandExits(p) \/ ChildExits(p) \/ Expire(p) \/ Disarm(p) \/ PumpEnds(p) \/ Stop(p)
    \/ Close \/ CloseLists \/ CloseEnds
    \/ \E p \in Process : CloseStops(p) \/ CloseGoesOn(p)
    \/ \E p \in Process, n \in Chunks : Write(p, n)
    \/ \E r \in Reader, p \in Process, since \in {None} \cup 0..EndBound, max \in 1..2 :
          BeginRead(r, p, since, max)
    \/ \E r \in Reader : EndRead(r)

Spec == Init /\ [][Next]_vars

(* The event loop runs what is ready, spawning succeeds or fails, and time   *)
(* passes. No command and no child need ever exit by itself.                 *)
Fairness ==
    /\ \A p \in Process :
          /\ WF_vars(Spawned(p) \/ Lost(p) \/ StartEnds(p))
          /\ WF_vars(Expire(p))
          /\ WF_vars(Disarm(p))
          /\ WF_vars(PumpEnds(p))
          /\ WF_vars(CloseStops(p)) /\ WF_vars(CloseGoesOn(p))
    /\ WF_vars(CloseLists) /\ WF_vars(CloseEnds)

LiveSpec == Spec /\ Fairness

-----------------------------------------------------------------------------
(* However many starts are asked for at once, no owner has more registered   *)
(* processes alive than MaxPerOwner, and all of them together no more than   *)
(* MaxProcesses (the limits of _start; docs/tool-permissions.md, "limited by *)
(* max_background_processes per owner"). A process that _start lost comes on *)
(* top of them: AllAreCounted.                                               *)
LimitsHold ==
    LET alive == {p \in Process : phase[p] # "lost" /\ (leader[p] \/ child[p] = "attached")} IN
    /\ Cardinality(alive) <= MaxProcesses
    /\ \A o \in Owner : Cardinality({p \in alive : OwnerOf[p] = o}) <= MaxPerOwner

(* Stronger than the code: no process at all is above the limits.            *)
AllAreCounted ==
    LET alive == {p \in Process : leader[p] \/ child[p] = "attached"} IN
    /\ Cardinality(alive) <= MaxProcesses
    /\ \A o \in Owner : Cardinality({p \in alive : OwnerOf[p] = o}) <= MaxPerOwner

(* When close() has returned nothing that was registered and may be killed   *)
(* is alive, whichever of the stops raised, and no start that was in         *)
(* progress becomes a process later (close waits for the start lock).        *)
NothingSurvivesClose ==
    close = "closed" =>
        \A p \in Process \ Unkillable :
            phase[p] # "lost" => ~leader[p] /\ child[p] # "attached"

(* Stronger than the code: nothing at all is alive then, the processes       *)
(* _start lost and those whose kill raises included                          *)
(* (docs/tool-permissions.md: stopped "when the service stops").             *)
AllEndWithTheService ==
    close = "closed" => \A p \in Process : ~leader[p] /\ child[p] # "attached"

(* What lies before the shared position was returned to some caller, or      *)
(* reported as dropped, so that calls which continue from one another, also  *)
(* concurrent ones, miss nothing (read_offset).                              *)
NothingIsSkipped == \A p \in Process : \A i \in 0..(position[p] - 1) : i \in seen[p]

(* Every command that may be killed ends, by itself or at the end of its     *)
(* lifetime, also one that _start lost (docs/tool-permissions.md: stopped    *)
(* after background_lifetime_seconds); then a registered process counts as   *)
(* exited, unless a child of it still holds the output.                      *)
CommandsExpire ==
    \A p \in Process \ Unkillable :
        phase[p] \in {"running", "lost"}
            ~> ~leader[p] /\ (phase[p] \in {"exited", "lost"} \/ child[p] = "attached")

(* Stronger than the code where Process.wait returns when the command exits: *)
(* every process ends, whatever it leaves behind.                            *)
ProcessesExpire == \A p \in Process : phase[p] = "running" ~> phase[p] = "exited"

(* Nothing of a process that was stopped, or that counts as exited, is left  *)
(* (docs/tool-permissions.md: shell_process_stop stops the process and its   *)
(* children).                                                                *)
NothingIsLeftBehind == \A p \in Process : phase[p] = "exited" => ~Alive(p)
===============================================================================
