--------------------------- MODULE RunSubscriptions ---------------------------
(* The WebSocket connections that follow one run (interface/http/websocket.py *)
(* and routes/websocket.py). A connection that started or resumed the run has *)
(* a stream task, which broadcasts the run's events to every subscribed       *)
(* connection; a connection that subscribes has the journal replayed to it    *)
(* first. Broadcasts, replays and unsubscriptions of one connection take its  *)
(* subscription lock; what they send goes through its bounded queue. No       *)
(* credential ends while its connection is served: Access has those.          *)
(*                                                                            *)
(* One event loop runs everything: `running` is the task that has it, `ready` *)
(* the tasks that will get it, in order. A task gives it up only where the    *)
(* code waits: for a lock, for room in a queue, for the next event.           *)
EXTENDS Naturals, Sequences, FiniteSets, SequencesExt

CONSTANTS
    Conn,
    Starters,        \* the connections that start or resume the run
    Requests,        \* what clients do, and whether heartbeats are sent: of AllRequests
    MaxSeq,          \* bound: events of the run
    MaxReplays,      \* bound: subscriptions of one connection at once
    MaxRequests,     \* bound: what happens of these
    QueueSize,       \* the send queue
    MayStall,        \* whether clients may stop reading
    None

AllRequests == {"start", "subscribe", "unsubscribe", "cancel", "disconnect", "silence", "beat"}

ASSUME SubscriptionFacts ==
    /\ IsFiniteSet(Conn) /\ Starters \subseteq Conn /\ Requests \subseteq AllRequests
    /\ {MaxSeq, MaxReplays, MaxRequests} \subseteq Nat /\ QueueSize \in Nat \ {0}
    /\ MayStall \in BOOLEAN

VARIABLES
    journal,       \* number of events in the run's trace
    exec,          \* the connection whose stream task hears of new events
    buffer,        \* connection -> events its stream task has still to broadcast; 0 ends it
    known,         \* _connections
    link,          \* connection -> "open", "closing" (_closed is set) or "closed"
    subscribed,    \* _subscriptions_by_run of the run
    cursor,        \* _subscription_sequences, 0 where there is none
    generation,    \* _subscription_generations
    lockOf,        \* _subscription_locks: connection -> lock, 0 where there is none
    holder,        \* lock -> task
    waiters,       \* lock -> tasks, in order
    queue,         \* what _send_loop is sending, and then _send_queue
    putters,       \* the tasks that wait for room in it
    sender,        \* _send_loop is "up", has "ended" or is "dead" (a send failed)
    got,           \* the events the client received since it last unsubscribed
    job,           \* task -> where it is
    running, ready,
    reads,         \* whether the client takes what is sent
    silent,        \* the client sends nothing any more, and since when: "no", "yes", "timeout"
    wants,         \* the connections that asked for the run since they unsubscribed
    asked          \* number of requests

runVars == <<journal, exec, buffer>>
subVars == <<subscribed, cursor, generation>>
lockVars == <<lockOf, holder, waiters>>
outVars == <<queue, putters, sender, got>>
linkVars == <<known, link>>
clientVars == <<reads, silent, wants, asked>>
vars == <<runVars, subVars, lockVars, outVars, linkVars, clientVars, job, running, ready>>

Stream(c) == <<"stream", c, 0>>
Loop(c) == <<"loop", c, 0>>
Beat(c) == <<"beat", c, 0>>
Replay(c, k) == <<"replay", c, k>>
Replays(c) == {Replay(c, k) : k \in 1..MaxReplays}
Task == UNION {{Stream(c), Loop(c), Beat(c)} \cup Replays(c) : c \in Conn}
Kind(t) == t[1]
Owner(t) == t[2]
Lock == 1..Cardinality(Task)
ASSUME NoneIsNoTask == None \notin Task

Event(n) == <<"event", n>>
Say(kind) == <<kind, 0>>
IsEvent(m) == m[1] = "event"
Message == {Event(n) : n \in 1..MaxSeq}
           \cup {Say(k) : k \in {"subscribed", "unsubscribed", "error", "beat", "end"}}

Off == [pc |-> "off", to |-> None, todo |-> <<>>, rest |-> {}, event |-> 0, lock |-> 0, gen |-> 0]

Job == [pc : {"off", "start", "wait", "each", "lock", "enter", "in", "room", "exit", "tell", "tellRoom",
              "close", "drain", "cancelled"},
        to : Conn \cup {None}, todo : Seq(Message \cup {Say("raised")}), rest : SUBSET Conn,
        event : 0..MaxSeq, lock : Lock \cup {0}, gen : Nat]

TypeOK ==
    /\ journal \in 0..MaxSeq /\ exec \in Conn \cup {None}
    /\ buffer \in [Conn -> Seq(0..MaxSeq)]
    /\ known \subseteq Conn /\ link \in [Conn -> {"open", "closing", "closed"}]
    /\ subscribed \subseteq Conn /\ cursor \in [Conn -> 0..MaxSeq] /\ generation \in [Conn -> Nat]
    /\ lockOf \in [Conn -> Lock \cup {0}] /\ holder \in [Lock -> Task \cup {None}]
    /\ waiters \in [Lock -> Seq(Task)]
    /\ queue \in [Conn -> Seq(Message)] /\ \A c \in Conn : Len(queue[c]) <= QueueSize + 1
    /\ putters \in [Conn -> Seq(Task)]
    /\ sender \in [Conn -> {"up", "ended", "dead"}] /\ got \in [Conn -> Seq(1..MaxSeq)]
    /\ job \in [Task -> Job]
    /\ running \in Task \cup {None} /\ ready \in Seq(Task)
    /\ reads \in [Conn -> BOOLEAN] /\ silent \in [Conn -> {"no", "yes", "timeout"}]
    /\ wants \subseteq Conn /\ asked \in 0..MaxRequests

Init ==
    /\ journal = 0 /\ exec = None /\ buffer = [c \in Conn |-> <<>>]
    /\ known = Conn /\ link = [c \in Conn |-> "open"]
    /\ subscribed = {} /\ cursor = [c \in Conn |-> 0] /\ generation = cursor
    /\ lockOf = [c \in Conn |-> 0]
    /\ holder = [l \in Lock |-> None] /\ waiters = [l \in Lock |-> <<>>]
    /\ queue = [c \in Conn |-> <<>>] /\ putters = queue
    /\ sender = [c \in Conn |-> "up"] /\ got = [c \in Conn |-> <<>>]
    /\ job = [t \in Task |-> Off]
    /\ running = None /\ ready = <<>>
    /\ reads = [c \in Conn |-> TRUE] /\ silent = [c \in Conn |-> "no"]
    /\ wants = {} /\ asked = 0

-----------------------------------------------------------------------------
(* The event loop.                                                           *)
At(t, pc) == running = t /\ job[t].pc = pc
Goes(t, pc) == job' = [job EXCEPT ![t].pc = pc]
Keeps == UNCHANGED <<running, ready>>
Waits == running' = None /\ UNCHANGED ready
Ends(t) == job' = [job EXCEPT ![t] = Off] /\ running' = None

Dispatch ==
    /\ running = None /\ ready # <<>>
    /\ running' = Head(ready) /\ ready' = Tail(ready)
    /\ UNCHANGED <<runVars, subVars, lockVars, outVars, linkVars, clientVars, job>>

Spawned(t, j) == job' = [job EXCEPT ![t] = j] /\ ready' = Append(ready, t)

(* The receive loop of c is at its receive().                                *)
Receives(c) == running = None /\ job[Loop(c)].pc = "off" /\ link[c] = "open" /\ silent[c] = "no"
Asks(what) == what \in Requests /\ asked < MaxRequests /\ asked' = asked + 1

-----------------------------------------------------------------------------
(* The run and its stream task.                                              *)

(* agent_run.start, resume or an approval: the connection gets a stream task *)
(* (_start_agent_run_stream, _resume_agent_run_stream). The lease allows one *)
(* execution at a time; an earlier one's stream task may still be busy.      *)
StartStream(c) ==
    /\ c \in Starters /\ Receives(c) /\ Asks("start")
    /\ exec = None /\ journal < MaxSeq /\ job[Stream(c)].pc = "off"
    /\ exec' = c
    /\ Spawned(Stream(c), [Off EXCEPT !.pc = "start"])
    /\ UNCHANGED <<journal, buffer, subVars, lockVars, outVars, linkVars, reads, silent, wants, running>>

(* The execution journals an event, or pauses or finishes; _keep_stream_running *)
(* keeps it going when nobody listens.                                       *)
Emit(e) ==
    /\ running = None /\ exec # None /\ job[Stream(exec)].pc # "start"
    /\ LET t == Stream(exec)
       IN  IF job[t].pc = "off" THEN UNCHANGED <<buffer, ready>>
           ELSE /\ buffer' = [buffer EXCEPT ![exec] = Append(@, e)]
                /\ ready' = IF job[t].pc = "wait" /\ buffer[exec] = <<>> THEN Append(ready, t) ELSE ready
    /\ UNCHANGED <<subVars, lockVars, outVars, linkVars, clientVars, job, running>>

Progress == journal < MaxSeq /\ journal' = journal + 1 /\ Emit(journal') /\ UNCHANGED exec
Settle == exec' = None /\ Emit(0) /\ UNCHANGED journal

(* The task subscribes its own connection and iterates (_send_trace_stream); *)
(* each event goes to the connections subscribed when its turn comes.        *)
StreamStarts(c) ==
    /\ At(Stream(c), "start")
    /\ subscribed' = subscribed \cup {c}
    /\ wants' = wants \cup {c}
    /\ Goes(Stream(c), "wait")
    /\ IF buffer[c] = <<>> THEN Waits ELSE Keeps
    /\ UNCHANGED <<runVars, cursor, generation, lockVars, outVars, linkVars, reads, silent, asked>>

NextEvent(c) ==
    /\ At(Stream(c), "wait") /\ buffer[c] # <<>>
    /\ buffer' = [buffer EXCEPT ![c] = Tail(@)]
    /\ IF Head(buffer[c]) = 0
       THEN Ends(Stream(c)) /\ UNCHANGED ready
       ELSE /\ job' = [job EXCEPT ![Stream(c)].pc = "each", ![Stream(c)].event = Head(buffer[c]),
                                  ![Stream(c)].rest = subscribed]
            /\ Keeps
    /\ UNCHANGED <<journal, exec, subVars, lockVars, outVars, linkVars, clientVars>>

-----------------------------------------------------------------------------
(* Locks: a task takes the lock the table has for the connection, or a new   *)
(* one. A lock's release wakes its first waiter, who has it when it runs.    *)
FreshLock == CHOOSE l \in Lock : holder[l] = None /\ waiters[l] = <<>> /\ \A c \in Conn : lockOf[c] # l
LockFor(c) == IF lockOf[c] = 0 THEN FreshLock ELSE lockOf[c]

AskLock(t, c) ==
    LET l == LockFor(c)
        free == holder[l] = None /\ waiters[l] = <<>>
    IN  /\ lockOf' = [lockOf EXCEPT ![c] = l]
        /\ IF free THEN holder' = [holder EXCEPT ![l] = t] /\ UNCHANGED waiters /\ Keeps
           ELSE waiters' = [waiters EXCEPT ![l] = Append(@, t)] /\ UNCHANGED holder /\ Waits
        /\ job' = [job EXCEPT ![t].pc = IF free THEN "enter" ELSE "lock", ![t].to = c, ![t].lock = l,
                              ![t].rest = @ \ {c}]

(* The lock is released, its first waiter is woken, and the table forgets    *)
(* its lock for the connection unless it is held or the connection           *)
(* subscribed (_discard_subscription_lock_if_unused); `subs` are the         *)
(* subscribed connections by then.                                           *)
Unlock(t, subs) ==
    LET l == job[t].lock
        c == job[t].to
        held == [holder EXCEPT ![l] = IF @ = t THEN None ELSE @]
        mine == lockOf[c]
    IN  /\ holder' = held
        /\ ready' = IF waiters[l] # <<>> /\ held[l] = None /\ Head(waiters[l]) \notin ToSet(ready)
                    THEN Append(ready, Head(waiters[l])) ELSE ready
        /\ lockOf' = IF mine # 0 /\ held[mine] = None /\ c \notin subs
                     THEN [lockOf EXCEPT ![c] = 0] ELSE lockOf
        /\ UNCHANGED waiters

GetsLock(t) ==
    /\ At(t, "lock")
    /\ LET l == job[t].lock
       IN  /\ holder' = [holder EXCEPT ![l] = t]
           /\ waiters' = [waiters EXCEPT ![l] = Tail(@)]
    /\ Goes(t, "enter") /\ Keeps
    /\ UNCHANGED <<runVars, subVars, lockOf, outVars, linkVars, clientVars>>

(* broadcast_run goes to the next connection, in whatever order its set has, *)
(* or is through.                                                            *)
NextTarget(t) ==
    /\ At(t, "each")
    /\ \/ \E c \in job[t].rest \cap known : AskLock(t, c)
       \/ /\ job[t].rest \cap known = {}
          /\ IF Kind(t) = "loop" THEN Ends(t) /\ UNCHANGED ready
             ELSE /\ job' = [job EXCEPT ![t].pc = "wait", ![t].rest = {}]
                  /\ IF buffer[Owner(t)] = <<>> THEN Waits ELSE Keeps
          /\ UNCHANGED <<lockOf, holder, waiters>>
    /\ UNCHANGED <<runVars, subVars, outVars, linkVars, clientVars>>

BroadcastEnters(t) ==
    /\ At(t, "enter") /\ Kind(t) # "replay" /\ job[t].event # 0
    /\ job' = [job EXCEPT ![t].pc = "in", ![t].todo = IF job[t].to \in subscribed THEN <<Event(job[t].event)>> ELSE <<>>]
    /\ Keeps
    /\ UNCHANGED <<runVars, subVars, lockVars, outVars, linkVars, clientVars>>

(* A slip: a replay that was asked for before an unsubscription goes on.     *)
ReplayEntersLate(t) ==
    /\ At(t, "enter") /\ Kind(t) = "replay"
    /\ LET c == Owner(t)
           from == IF cursor[c] > job[t].event THEN cursor[c] ELSE job[t].event
       IN  /\ subscribed' = subscribed \cup {c}
           /\ cursor' = [cursor EXCEPT ![c] = from]
           /\ job' = [job EXCEPT ![t].pc = "in",
                                 ![t].todo = Append([i \in 1..(IF journal > from THEN journal - from ELSE 0) |-> Event(from + i)],
                                                    Say("subscribed"))]
    /\ Keeps
    /\ UNCHANGED <<runVars, generation, lockVars, outVars, linkVars, clientVars>>

(* replay_run: unless the connection unsubscribed since it asked, it is      *)
(* subscribed, and what the journal has beyond its cursor is sent.           *)
ReplayEnters(t) ==
    /\ At(t, "enter") /\ Kind(t) = "replay"
    /\ LET c == Owner(t)
           from == IF cursor[c] > job[t].event THEN cursor[c] ELSE job[t].event
           Missed == [i \in 1..(IF journal > from THEN journal - from ELSE 0) |-> Event(from + i)]
       IN  IF job[t].gen # generation[c]
           THEN Goes(t, "exit") /\ UNCHANGED <<subscribed, cursor>>
           ELSE /\ subscribed' = subscribed \cup {c}
                /\ cursor' = [cursor EXCEPT ![c] = from]
                /\ job' = [job EXCEPT ![t].pc = "in", ![t].todo = Append(Missed, Say("subscribed"))]
    /\ Keeps
    /\ UNCHANGED <<runVars, generation, lockVars, outVars, linkVars, clientVars>>

UnsubscribeEnters(t) ==
    /\ At(t, "enter") /\ Kind(t) = "loop" /\ job[t].event = 0
    /\ LET c == Owner(t)
       IN  /\ generation' = [generation EXCEPT ![c] = @ + 1]
           /\ subscribed' = subscribed \ {c}
           /\ wants' = wants \ {c}
           /\ cursor' = [cursor EXCEPT ![c] = 0]
    /\ Goes(t, "exit") /\ Keeps
    /\ UNCHANGED <<runVars, lockVars, outVars, linkVars, reads, silent, asked>>

-----------------------------------------------------------------------------
(* Sending.                                                                  *)
Put(c, m) == queue' = [queue EXCEPT ![c] = Append(@, m)]
Full(c) == Len(queue[c]) >= QueueSize + (IF sender[c] = "up" THEN 1 ELSE 0)
(* A slip: an event that was sent already is sent again.                     *)
AlwaysFresh(c, m) == TRUE

Fresh(c, m) == IsEvent(m) => m[2] > cursor[c]

(* _send_subscription_message, for each of a replay's messages or for the    *)
(* broadcast one: an event the connection has is left out; the cursor moves  *)
(* when the event is in the queue; a closed connection raises.               *)
SendUnderLock(t) ==
    LET c == job[t].to
        m == Head(job[t].todo)
        rest == Tail(job[t].todo)
    IN  /\ \/ At(t, "in") \/ At(t, "room")
        /\ job[t].todo # <<>>
        /\ IF At(t, "in") /\ ~Fresh(c, m)
           THEN job' = [job EXCEPT ![t].todo = rest] /\ Keeps /\ UNCHANGED <<queue, putters, cursor>>
           ELSE IF At(t, "in") /\ link[c] # "open"
           THEN job' = [job EXCEPT ![t].pc = "exit", ![t].todo = <<Say("raised")>>] /\ Keeps
                /\ UNCHANGED <<queue, putters, cursor>>
           ELSE IF Full(c)
           THEN /\ putters' = [putters EXCEPT ![c] = Append(@, t)]
                /\ Goes(t, "room") /\ Waits /\ UNCHANGED <<queue, cursor>>
           ELSE /\ Put(c, m)
                /\ cursor' = IF IsEvent(m) /\ c \in subscribed THEN [cursor EXCEPT ![c] = m[2]] ELSE cursor
                /\ job' = [job EXCEPT ![t].pc = "in", ![t].todo = rest]
                /\ Keeps /\ UNCHANGED putters
        /\ UNCHANGED <<runVars, subscribed, generation, lockVars, sender, got, linkVars, clientVars>>

AllSent(t) ==
    /\ At(t, "in") /\ job[t].todo = <<>>
    /\ Goes(t, "exit") /\ Keeps
    /\ UNCHANGED <<runVars, subVars, lockVars, outVars, linkVars, clientVars>>

(* The lock is left. A broadcast goes on to the next connection, a replay is *)
(* over, an unsubscription is acknowledged. If a closed connection raised,   *)
(* the stream or replay ends with an error message to its own connection,    *)
(* and a replay unsubscribes it.                                             *)
Leave(t) ==
    LET c == Owner(t)
        raised == job[t].todo = <<Say("raised")>>
        subs == IF raised /\ Kind(t) = "replay" THEN subscribed \ {c} ELSE subscribed
        Tells(m) == job' = [job EXCEPT ![t].pc = "tell", ![t].to = c, ![t].todo = <<m>>, ![t].lock = 0]
    IN  /\ At(t, "exit")
        /\ Unlock(t, subs)
        /\ subscribed' = subs
        /\ IF subs # subscribed
           THEN generation' = [generation EXCEPT ![c] = @ + 1] /\ cursor' = [cursor EXCEPT ![c] = 0]
           ELSE UNCHANGED <<generation, cursor>>
        /\ IF raised THEN Tells(Say("error")) /\ UNCHANGED running
           ELSE IF job[t].event # 0 /\ Kind(t) # "replay"
           THEN job' = [job EXCEPT ![t].pc = "each", ![t].todo = <<>>, ![t].lock = 0] /\ UNCHANGED running
           ELSE IF Kind(t) = "replay" THEN Ends(t)
           ELSE Tells(Say("unsubscribed")) /\ UNCHANGED running
        /\ UNCHANGED <<runVars, outVars, linkVars, clientVars>>

(* connection.send outside of any lock: acknowledgements, errors, heartbeats. *)
(* The task ends with it; a closed connection raises, which ends it too, and *)
(* with a stream task what was still in its buffer.                          *)
Tell(t) ==
    LET c == Owner(t)
    IN  /\ At(t, "tell") \/ At(t, "tellRoom")
        /\ IF At(t, "tell") /\ link[c] # "open"
           THEN Ends(t) /\ UNCHANGED <<queue, putters, ready>>
           ELSE IF Full(c)
           THEN putters' = [putters EXCEPT ![c] = Append(@, t)] /\ Goes(t, "tellRoom") /\ Waits /\ UNCHANGED queue
           ELSE Put(c, Head(job[t].todo)) /\ Ends(t) /\ UNCHANGED <<putters, ready>>
        /\ buffer' = IF Kind(t) = "stream" /\ ~(Full(c) /\ link[c] = "open") THEN [buffer EXCEPT ![c] = <<>>] ELSE buffer
        /\ UNCHANGED <<journal, exec, subVars, lockVars, sender, got, linkVars, clientVars>>

(* _send_loop has sent a message to a client that reads and takes the next,  *)
(* which makes room for the first task that waits.                           *)
Deliver(c) ==
    LET m == Head(queue[c])
    IN  /\ running = None /\ sender[c] = "up" /\ queue[c] # <<>>
        /\ reads[c] \/ m = Say("end")
        /\ queue' = [queue EXCEPT ![c] = Tail(@)]
        /\ sender' = IF m = Say("end") THEN [sender EXCEPT ![c] = "ended"] ELSE sender
        /\ got' = [got EXCEPT ![c] = IF IsEvent(m) THEN Append(@, m[2])
                                     ELSE IF m = Say("unsubscribed") THEN <<>> ELSE @]
        /\ IF putters[c] = <<>> THEN UNCHANGED <<putters, ready>>
           ELSE putters' = [putters EXCEPT ![c] = Tail(@)] /\ ready' = Append(ready, Head(putters[c]))
        /\ UNCHANGED <<runVars, subVars, lockVars, linkVars, clientVars, job, running>>

-----------------------------------------------------------------------------
(* What clients ask for.                                                     *)

(* agent_run.subscribe: a task replays, from the event the client names.     *)
Subscribe(c) ==
    /\ Receives(c) /\ Asks("subscribe")
    /\ \E t \in Replays(c), after \in {0, IF got[c] = <<>> THEN 0 ELSE Last(got[c])} :
          /\ job[t].pc = "off"
          /\ Spawned(t, [Off EXCEPT !.pc = "start", !.to = c, !.event = after, !.gen = generation[c]])
    /\ wants' = wants \cup {c}
    /\ UNCHANGED <<runVars, subVars, lockVars, outVars, linkVars, reads, silent, running>>

(* agent_run.unsubscribe, in the receive loop, which may have it at once.    *)
Unsubscribe(c) ==
    /\ Receives(c) /\ Asks("unsubscribe")
    /\ job' = [job EXCEPT ![Loop(c)] = [Off EXCEPT !.pc = "start", !.to = c]]
    /\ running' = Loop(c)
    /\ UNCHANGED <<runVars, subVars, lockVars, outVars, linkVars, reads, silent, wants, ready>>

TaskStarts(t) ==
    /\ At(t, "start") /\ Kind(t) \in {"replay", "loop"}
    /\ AskLock(t, Owner(t))
    /\ UNCHANGED <<runVars, subVars, outVars, linkVars, clientVars>>

(* The tasks T are cancelled where they wait.                                *)
Dropped(ts, T) ==
    LET others[n \in 0..Len(ts)] ==
          IF n = 0 THEN <<>> ELSE IF ts[n] \in T THEN others[n - 1] ELSE Append(others[n - 1], ts[n])
    IN  others[Len(ts)]
Cancel(T, jobs) ==
    LET live == {t \in T : job[t].pc # "off"}
    IN  /\ job' = [t \in Task |-> IF t \in live THEN [jobs[t] EXCEPT !.pc = "cancelled"] ELSE jobs[t]]
        /\ ready' = Dropped(ready, live) \o SetToSeq(live)
        /\ putters' = [c \in Conn |-> Dropped(putters[c], live)]
        /\ waiters' = [l \in Lock |-> Dropped(waiters[l], live)]

(* A cancelled task leaves its lock; a stream task's buffer goes with it.    *)
Cancelled(t) ==
    /\ At(t, "cancelled")
    /\ IF job[t].lock = 0 THEN UNCHANGED <<lockVars, ready>> ELSE Unlock(t, subscribed)
    /\ buffer' = IF Kind(t) = "stream" THEN [buffer EXCEPT ![Owner(t)] = <<>>] ELSE buffer
    /\ Ends(t)
    /\ UNCHANGED <<journal, exec, subVars, outVars, linkVars, clientVars>>

(* agent_control cancel: the stream tasks are cancelled; once they are gone  *)
(* RUN_CANCELED is journaled and broadcast (_broadcast_control_trace).       *)
CancelRun(c) ==
    /\ Receives(c) /\ Asks("cancel")
    /\ journal < MaxSeq
    /\ LET loop == [Off EXCEPT !.pc = "wait", !.to = c]
       IN  Cancel({Stream(d) : d \in Conn}, [job EXCEPT ![Loop(c)] = loop])
    /\ wants' = wants \cup {c}
    /\ UNCHANGED <<runVars, subVars, lockOf, holder, queue, sender, got, linkVars, reads, silent, running>>

RunCanceled(c) ==
    /\ running = None /\ job[Loop(c)].pc = "wait" /\ \A d \in Conn : job[Stream(d)].pc # "cancelled"
    /\ IF journal < MaxSeq
       THEN /\ journal' = journal + 1 /\ exec' = None
            /\ subscribed' = subscribed \cup {c}
            /\ job' = [job EXCEPT ![Loop(c)].pc = "each", ![Loop(c)].event = journal',
                                  ![Loop(c)].rest = subscribed']
            /\ running' = Loop(c)
       ELSE Ends(Loop(c)) /\ UNCHANGED <<journal, exec, subscribed>>
    /\ UNCHANGED <<buffer, cursor, generation, lockVars, outVars, linkVars, clientVars, ready>>

(* The client goes away: disconnect() unsubscribes without the lock, forgets *)
(* the connection and closes it.                                             *)
Forgotten(c) ==
    /\ known' = known \ {c}
    /\ subscribed' = subscribed \ {c}
    /\ cursor' = [cursor EXCEPT ![c] = 0]
    /\ generation' = IF c \in subscribed THEN [generation EXCEPT ![c] = @ + 1] ELSE generation
    /\ lockOf' = IF c \in subscribed /\ lockOf[c] # 0 /\ holder[lockOf[c]] = None
                 THEN [lockOf EXCEPT ![c] = 0] ELSE lockOf

Mine(c) == Replays(c) \cup {Stream(c), Beat(c)}

Disconnect(c) ==
    /\ Receives(c) /\ Asks("disconnect")
    /\ reads' = [reads EXCEPT ![c] = FALSE]
    /\ Forgotten(c)
    /\ link' = [link EXCEPT ![c] = "closing"]
    /\ Cancel(Mine(c), [job EXCEPT ![Loop(c)] = [Off EXCEPT !.pc = "close", !.to = c]])
    /\ running' = Loop(c)
    /\ UNCHANGED <<runVars, holder, queue, sender, got, silent, wants>>

(* The heartbeat task looks: it closes a connection that was silent for too  *)
(* long, and else sends a heartbeat.                                         *)
Tick(c) ==
    /\ running = None /\ link[c] = "open" /\ job[Beat(c)].pc = "off"
    /\ IF silent[c] = "timeout" THEN UNCHANGED asked ELSE Asks("beat")
    /\ Spawned(Beat(c), [Off EXCEPT !.pc = "start", !.to = c])
    /\ UNCHANGED <<runVars, subVars, lockVars, outVars, linkVars, reads, silent, wants, running>>

(* A slip: close() cancels the task that runs it.                            *)
BeatRunsCancelsItself(c) ==
    /\ At(Beat(c), "start")
    /\ IF silent[c] = "timeout"
       THEN /\ link' = [link EXCEPT ![c] = "closing"]
            /\ Cancel(Mine(c), [job EXCEPT ![Beat(c)].pc = "close"])
            /\ running' = None
       ELSE /\ job' = [job EXCEPT ![Beat(c)].pc = "tell", ![Beat(c)].todo = <<Say("beat")>>]
            /\ UNCHANGED <<link, ready, putters, waiters, running>>
    /\ UNCHANGED <<runVars, subVars, lockOf, holder, queue, sender, got, known, clientVars>>

BeatRuns(c) ==
    /\ At(Beat(c), "start")
    /\ IF silent[c] = "timeout"
       THEN /\ link' = [link EXCEPT ![c] = "closing"]
            /\ Cancel(Mine(c) \ {Beat(c)}, [job EXCEPT ![Beat(c)].pc = "close"])
       ELSE /\ job' = [job EXCEPT ![Beat(c)].pc = "tell", ![Beat(c)].todo = <<Say("beat")>>]
            /\ UNCHANGED <<link, ready, putters, waiters>>
    /\ UNCHANGED <<runVars, subVars, lockOf, holder, queue, sender, got, known, clientVars, running>>

(* close(): the end marker goes through the queue, the sender is awaited,    *)
(* then the socket is closed. A socket closed by the heartbeat ends the      *)
(* receive loop, whose disconnect() finds nothing left to close.             *)
CloseEnqueues(t) ==
    LET c == job[t].to
    IN  /\ At(t, "close")
        /\ IF Full(c)
           THEN putters' = [putters EXCEPT ![c] = Append(@, t)] /\ UNCHANGED <<queue, job>>
           ELSE Put(c, Say("end")) /\ Goes(t, "drain") /\ UNCHANGED putters
        /\ Waits
        /\ UNCHANGED <<runVars, subVars, lockVars, sender, got, linkVars, clientVars>>

Closed(t) ==
    LET c == job[t].to
    IN  /\ running = None /\ job[t].pc = "drain" /\ sender[c] # "up"
        /\ link' = [link EXCEPT ![c] = "closed"]
        /\ job' = [job EXCEPT ![t] = Off]
        /\ Forgotten(c)
        /\ UNCHANGED <<runVars, holder, waiters, outVars, clientVars, running, ready>>

(* The client stops sending; its timeout passes; it stops reading; a send to *)
(* a client that is gone fails.                                              *)
FallsSilent(c) ==
    /\ silent[c] = "no" /\ reads[c] /\ Asks("silence")
    /\ silent' = [silent EXCEPT ![c] = "yes"]
    /\ reads' \in {reads} \cup (IF MayStall THEN {[reads EXCEPT ![c] = FALSE]} ELSE {})
    /\ UNCHANGED <<runVars, subVars, lockVars, outVars, linkVars, wants, job, running, ready>>

TimesOut(c) ==
    /\ silent[c] = "yes"
    /\ silent' = [silent EXCEPT ![c] = "timeout"]
    /\ UNCHANGED <<runVars, subVars, lockVars, outVars, linkVars, reads, wants, asked, job, running, ready>>

SendFails(c) ==
    /\ running = None /\ ~reads[c] /\ silent[c] = "no" /\ sender[c] = "up" /\ queue[c] # <<>>
    /\ sender' = [sender EXCEPT ![c] = "dead"]
    /\ queue' = [queue EXCEPT ![c] = Tail(@)]
    /\ UNCHANGED <<runVars, subVars, lockVars, putters, got, linkVars, clientVars, job, running, ready>>

-----------------------------------------------------------------------------
Runs(t) ==
    \/ GetsLock(t) \/ NextTarget(t) \/ BroadcastEnters(t) \/ ReplayEnters(t) \/ UnsubscribeEnters(t)
    \/ SendUnderLock(t) \/ AllSent(t) \/ Leave(t) \/ Tell(t) \/ TaskStarts(t) \/ Cancelled(t)
    \/ CloseEnqueues(t)
    \/ \E c \in Conn : t = Stream(c) /\ (StreamStarts(c) \/ NextEvent(c))
    \/ \E c \in Conn : t = Beat(c) /\ BeatRuns(c)

Client(c) ==
    \/ StartStream(c) \/ Subscribe(c) \/ Unsubscribe(c) \/ CancelRun(c) \/ Disconnect(c) \/ FallsSilent(c)

Step == \E t \in Task : Runs(t)
Closes(c) == \E t \in {Loop(c), Beat(c)} : Closed(t)

System ==
    \/ Dispatch \/ Step
    \/ \E c \in Conn : Deliver(c) \/ SendFails(c) \/ Tick(c) \/ TimesOut(c) \/ Closes(c) \/ RunCanceled(c)

Next == System \/ Progress \/ Settle \/ \E c \in Conn : Client(c)

Spec == Init /\ [][Next]_vars

(* The event loop goes on with something as long as there is something to    *)
(* do: what is ready runs, senders send to clients that read, timers fire.   *)
(* No client has to ask for anything, no run has to go on.                   *)
Fairness == WF_vars(System)

LiveSpec == Spec /\ Fairness

-----------------------------------------------------------------------------
Increasing(s) == \A i \in 1..Len(s) : \A j \in i + 1..Len(s) : s[i] < s[j]
Contiguous(s) == \A i \in 1..Len(s) - 1 : s[i + 1] = s[i] + 1

(* A client that has not unsubscribed yet gets every event at most once and   *)
(* in order, however broadcasts and replays meet                              *)
(* (_send_subscription_message, replay_run).                                  *)
OnceInOrderAtFirst == \A c \in Conn : generation[c] = 0 => Increasing(got[c])

(* Every client does (docs/http-api.md:796). Not so: an unsubscription lets   *)
(* the table forget a lock that was released but has a woken waiter, and the  *)
(* next subscription takes another one.                                       *)
OnceInOrder == \A c \in Conn : Increasing(got[c])

(* Between two events a client got, none is missing. Not so when somebody    *)
(* cancels or resumes the run while a stream task has events left.           *)
NothingSkipped == \A c \in Conn : Contiguous(got[c])

(* Once a connection unsubscribed, no event is sent to it until it asks for  *)
(* the run again: a replay that was asked for before, or a broadcast under   *)
(* way, sends it nothing (unsubscribe_run, replay_run). A stream task asks    *)
(* for its connection when it starts. So it is until it unsubscribes a second *)
(* time, which two tasks with different locks may do at once with a send.     *)
Unasked(c) ==
    link[c] = "open" /\ Len(queue'[c]) > Len(queue[c]) /\ IsEvent(Last(queue'[c])) /\ c \notin wants
NothingUnaskedAtFirst == [][\A c \in Conn : generation[c] <= 1 => ~Unasked(c)]_vars

(* So it is always (docs/http-api.md:818). Not so, for the reason above.      *)
NothingUnasked == [][\A c \in Conn : ~Unasked(c)]_vars

(* A stream task gets through its events, and a connection that is being     *)
(* closed is closed, whoever waits for whose lock, queue or end, if clients   *)
(* read (broadcast_run, close). Not so once a send failed with a full queue   *)
(* behind it: nothing takes from that queue any more.                         *)
Stuck(c) == sender[c] = "dead" /\ Full(c)
WorkEnds ==
    \A c \in Conn : buffer[c] # <<>> \/ link[c] = "closing"
                    ~> (buffer[c] = <<>> /\ link[c] # "closing") \/ \E d \in Conn : Stuck(d)

(* A stream task ends before its events do only with its own connection or   *)
(* by a cancellation. Not so: another connection that the heartbeat closes   *)
(* raises into it.                                                           *)
StreamsSurvive ==
    [][\A c \in Conn : link[c] = "open" /\ job[Stream(c)].pc # "cancelled" /\ job'[Stream(c)] = Off
                       => job[Stream(c)] = Off \/ job[Stream(c)].todo # <<Say("error")>>]_vars

(* A client that is silent until the timeout is closed (docs/http-api.md:706, *)
(* _heartbeat_loop). Not so when it does not read either: the close waits for  *)
(* room in a full queue.                                                      *)
SilentIsClosed == \A c \in Conn : silent[c] = "timeout" ~> link[c] = "closed"
===============================================================================
