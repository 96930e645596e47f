-------------------------------- MODULE Lifecycle --------------------------------
(* The life of one process: what is started, in which order, what a failure on     *)
(* the way undoes, and what is closed while agent runs, image tasks, the recovery  *)
(* of runs and requests are still at work. Every step of the start and of the      *)
(* shutdown awaits, so that all of them go on in between.                          *)
EXTENDS Naturals, Sequences, SequencesExt

CONSTANTS
  Run,       \* agent runs, in requests or in tasks that outlive their request
  Store,     \* the SQLite stores of the runtime
  Source,    \* the tool sources, a sequence
  MaxFaults  \* bound on steps that raise

VARIABLES
  phase,     \* "starting", "serving", "draining", "closing", "ended"
  step,      \* the next step of the start or of the shutdown
  conn,      \* store -> "none", "open" or "closed": opened by its first use
  shut,      \* stores that were closed: they refuse to be opened
  up,        \* what was started, or loaded, and not stopped
  run,       \* run -> "none", "asked", "active", "over"
  blocked,   \* no run may begin
  initialized,
  faults

vars == <<phase, step, conn, shut, up, run, blocked, initialized, faults>>

\* The start: the handler of the runtime (schema, recovery, old traces), its parts, and
\* what the application registers after that.
StartSteps ==
  <<"schema", "recovery", "prune", "providers", "skills">> \o Source \o <<"images", "configured">>

\* The shutdown, after the runs: handlers, workers, sources, providers, stores.
CloseSteps == <<"recovery", "images">> \o Reverse(Source) \o <<"providers", "stores">>

Started == {"recovery", "images", "providers"} \cup ToSet(Source)

Init ==
  /\ phase = "starting" /\ step = 1
  /\ conn = [s \in Store |-> "none"] /\ shut = {} /\ up = {}
  /\ run = [r \in Run |-> "none"] /\ blocked = FALSE
  /\ initialized = FALSE /\ faults = 0

Rest == UNCHANGED <<conn, shut, run, blocked>>
Fault == faults < MaxFaults /\ faults' = faults + 1

StartStep ==
  /\ phase = "starting" /\ step <= Len(StartSteps)
  /\ LET s == StartSteps[step]
     IN  /\ up' = up \cup ({s} \cap Started)
         /\ initialized' = (initialized \/ s = "images")
  /\ step' = step + 1
  /\ UNCHANGED <<phase, faults>> /\ Rest

Serve ==
  /\ phase = "starting" /\ step > Len(StartSteps)
  /\ phase' = "serving"
  /\ UNCHANGED <<step, up, initialized, faults>> /\ Rest

\* A step of the start raises, when some providers may have been built: initialize stops
\* the recovery and closes the sources it loaded, unless one raises; then the
\* application closes what there is.
StartFails ==
  /\ phase = "starting" /\ step <= Len(StartSteps) /\ Fault
  /\ LET partly == up \cup ({StartSteps[step]} \cap {"providers"})
     IN  up' \in IF initialized THEN {partly}
                 ELSE {partly \ ({"recovery"} \cup ToSet(Source)), partly \ {"recovery"}}
  /\ phase' = "draining" /\ step' = 1 /\ blocked' = TRUE
  /\ UNCHANGED <<conn, shut, run, initialized>>

\* The server is told to stop: no run may begin any more.
Stop ==
  /\ phase = "serving"
  /\ phase' = "draining" /\ step' = 1 /\ blocked' = TRUE
  /\ UNCHANGED <<conn, shut, up, run, initialized, faults>>

\* A slip: the shutdown does not wait for the runs.
DrainAtOnce ==
  /\ phase = "draining"
  /\ phase' = "closing"
  /\ UNCHANGED <<step, up, initialized, faults>> /\ Rest

\* The runs are over; rows that are still running are paused, which may raise and is
\* followed by the closing of the runtime nevertheless.
Drain ==
  /\ phase = "draining" /\ \A r \in Run : run[r] # "active"
  /\ phase' = "closing"
  /\ \/ UNCHANGED faults
     \/ Fault
  /\ UNCHANGED <<step, up, initialized>> /\ Rest

\* attempt: what raises does not keep the next from being closed. The recovery and the
\* workers are cancelled and awaited; a source that raises may stay open, the providers
\* only log it.
CloseStep ==
  /\ phase = "closing" /\ step <= Len(CloseSteps)
  /\ LET s == CloseSteps[step]
     IN  /\ \/ up' = up \ {s} /\ UNCHANGED faults
            \/ s \in ToSet(Source) /\ Fault /\ UNCHANGED up
         /\ shut' = IF s = "stores" THEN Store ELSE shut
         /\ conn' = IF s = "stores"
                    THEN [t \in Store |-> IF conn[t] = "open" THEN "closed" ELSE conn[t]] ELSE conn
  /\ step' = step + 1
  /\ UNCHANGED <<phase, run, blocked, initialized>>

Ended ==
  /\ phase = "closing" /\ step > Len(CloseSteps)
  /\ phase' = "ended"
  /\ UNCHANGED <<step, up, initialized, faults>> /\ Rest

-----------------------------------------------------------------------------
\* A run is asked for; it begins when it is let in (_enter_run), perhaps much later.
Ask(r) ==
  /\ phase = "serving" /\ run[r] = "none"
  /\ run' = [run EXCEPT ![r] = "asked"]
  /\ UNCHANGED <<phase, step, conn, shut, up, blocked, initialized, faults>>

Enter(r) ==
  /\ run[r] = "asked"
  /\ run' = [run EXCEPT ![r] = IF blocked THEN "over" ELSE "active"]
  /\ UNCHANGED <<phase, step, conn, shut, up, blocked, initialized, faults>>

Exit(r) ==
  /\ run[r] = "active"
  /\ run' = [run EXCEPT ![r] = "over"]
  /\ UNCHANGED <<phase, step, conn, shut, up, blocked, initialized, faults>>

\* A slip: only a connection that is there makes a closed store refuse.
UseOpens(s) ==
  /\ phase # "ended"
  /\ conn' = [conn EXCEPT ![s] = IF @ = "none" THEN "open" ELSE @]
  /\ UNCHANGED <<phase, step, shut, up, run, blocked, initialized, faults>>

\* Anybody uses a store: a step of the start, a run, a worker, or a request that was
\* not waited for. A closed store raises.
Use(s) ==
  /\ phase # "ended" /\ s \notin shut
  /\ conn' = [conn EXCEPT ![s] = IF @ = "none" THEN "open" ELSE @]
  /\ UNCHANGED <<phase, step, shut, up, run, blocked, initialized, faults>>

Next ==
  \/ StartStep \/ StartFails \/ Serve \/ Stop \/ Drain \/ CloseStep \/ Ended
  \/ \E r \in Run : Ask(r) \/ Enter(r) \/ Exit(r)
  \/ \E s \in Store : Use(s)

Spec == Init /\ [][Next]_vars

-----------------------------------------------------------------------------
(* Wherever the start fails and however much is at work when the server stops: an  *)
(* agent run has its sources, providers and stores until it is over, the image     *)
(* workers their providers and stores and the recovery its stores; and when the    *)
(* process ends no store is open, nobody works, and a source is up only if its own *)
(* close raised.                                                                   *)
EverybodyOutlived ==
  /\ \A r \in Run : run[r] = "active" => ToSet(Source) \cup {"providers"} \subseteq up /\ shut = {}
  /\ "images" \in up => "providers" \in up /\ shut = {}
  /\ "recovery" \in up => shut = {}
  /\ phase = "ended" =>
       /\ \A s \in Store : conn[s] # "open"
       /\ up \subseteq ToSet(Source) /\ (up # {} => faults > 0)
==================================================================================
