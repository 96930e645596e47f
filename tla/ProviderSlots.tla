----------------------------- MODULE ProviderSlots -----------------------------
(* The provider manager (core/domain/provider.py): a provider has a          *)
(* configuration, which is also stored, and while it is enabled a slot with  *)
(* the instance that serves its calls and streams. Replacing or deleting a   *)
(* provider retires its slot; a retired slot's instance is closed once the   *)
(* calls that use it are over. Every change and every count is made under    *)
(* the provider's lock; close() is not.                                      *)
(*                                                                           *)
(* A slot is <<provider, generation>>.                                       *)
EXTENDS Naturals, Sequences, FiniteSets, SequencesExt

CONSTANTS
    Provider,
    Task,              \* concurrent requests
    Kinds,             \* what they may ask for, a subset of AllKinds
    MaxGen,            \* bound: replacements of one provider
    ClosesAnyTime,     \* close() does not wait for replacements in progress
    None

AllKinds == {"call", "stream", "create", "createNew", "update", "disable", "delete"}

ASSUME SlotsAssumption ==
    /\ IsFiniteSet(Provider) /\ IsFiniteSet(Task) /\ MaxGen \in Nat
    /\ Kinds \subseteq AllKinds
    /\ None \notin Provider /\ None \notin Task

VARIABLES
    config,      \* provider -> _configs: "none", "enabled" or "disabled"
    stored,      \* provider -> the same in the configuration store
    current,     \* provider -> generation of its slot in _slots, 0 if none
    gens,        \* provider -> _generations
    active,      \* slot -> active_calls
    retired,     \* slot -> retired
    instance,    \* slot -> "absent", "open", "closing" or "closed"
    pending,     \* _retired_slots
    lock,        \* provider -> the request that holds its lock
    task,        \* request -> what it does
    closer       \* close(): where it is, and the slots it has still to close

vars == <<config, stored, current, gens, active, retired, instance, pending, lock, task, closer>>

Slot == Provider \X (1..MaxGen)
NoSlot == <<None, 0>>
Idle == [kind |-> None, pc |-> "new", provider |-> None, slot |-> NoSlot]

PC == {"new", "locking", "using", "releasing", "building", "waitIdle", "closing", "waitClosed", "done", "gone"}
Request == [kind : AllKinds \cup {None}, provider : Provider \cup {None}, slot : Slot \cup {NoSlot}, pc : PC]

TypeOK ==
    /\ config \in [Provider -> {"none", "enabled", "disabled"}]
    /\ stored \in [Provider -> {"none", "enabled", "disabled"}]
    /\ current \in [Provider -> 0..MaxGen] /\ gens \in [Provider -> 0..MaxGen]
    /\ active \in [Slot -> 0..Cardinality(Task)]
    /\ retired \in [Slot -> BOOLEAN]
    /\ instance \in [Slot -> {"absent", "open", "closing", "closed"}]
    /\ pending \subseteq Slot
    /\ lock \in [Provider -> Task \cup {None}]
    /\ task \in [Task -> Request]
    /\ closer \in [pc : {"open", "waitIdle", "closing", "waitClosed", "closed"}, todo : Seq(Slot)]

Init ==
    /\ config = [p \in Provider |-> "none"]
    /\ stored = config
    /\ current = [p \in Provider |-> 0]
    /\ gens = current
    /\ active = [s \in Slot |-> 0]
    /\ retired = [s \in Slot |-> FALSE]
    /\ instance = [s \in Slot |-> "absent"]
    /\ pending = {}
    /\ lock = [p \in Provider |-> None]
    /\ task = [t \in Task |-> Idle]
    /\ closer = [pc |-> "open", todo |-> <<>>]

-----------------------------------------------------------------------------
At(t, pc) == task[t].pc = pc
Goes(t, pc) == task' = [task EXCEPT ![t].pc = pc]
GoesWith(t, pc, s) == task' = [task EXCEPT ![t].pc = pc, ![t].slot = s]
CurrentSlot(p) == IF current[p] = 0 THEN NoSlot ELSE <<p, current[p]>>

Replaces == {"create", "createNew", "update", "disable"}

(* A request arrives and asks for its provider's lock.                       *)
Ask(t, p, k) ==
    /\ At(t, "new")
    /\ k \in Replaces => (closer.pc = "open" \/ ClosesAnyTime)
    /\ task' = [task EXCEPT ![t] = [kind |-> k, pc |-> "locking", provider |-> p, slot |-> NoSlot]]
    /\ UNCHANGED <<config, stored, current, gens, active, retired, instance, pending, lock, closer>>

HasLock(t) == At(t, "locking") /\ lock[task[t].provider] = None

(* _acquire_slot: the current slot, if the provider is there and enabled.    *)
Acquire(t) ==
    /\ HasLock(t) /\ task[t].kind \in {"call", "stream"}
    /\ LET p == task[t].provider
           s == CurrentSlot(p)
       IN  IF config[p] = "enabled"
           THEN active' = [active EXCEPT ![s] = @ + 1] /\ GoesWith(t, "using", s)
           ELSE Goes(t, "done") /\ UNCHANGED active
    /\ UNCHANGED <<config, stored, current, gens, retired, instance, pending, lock, closer>>

(* The call, or the iteration of the stream, ends, fails or is cancelled:    *)
(* its finally asks for the lock.                                            *)
CallEnds(t) ==
    /\ At(t, "using")
    /\ Goes(t, "releasing")
    /\ UNCHANGED <<config, stored, current, gens, active, retired, instance, pending, lock, closer>>

(* What would release the slot never runs: nobody iterates the stream that   *)
(* chat_stream returned, or the wait for the lock is cancelled.              *)
Leak(t) ==
    /\ At(t, "releasing") \/ (At(t, "using") /\ task[t].kind = "stream")
    /\ Goes(t, "gone")
    /\ UNCHANGED <<config, stored, current, gens, active, retired, instance, pending, lock, closer>>

(* _close_when_idle for an idle slot: whoever comes first closes the         *)
(* instance, the others wait for it. Where it goes, and what becomes of the  *)
(* instance.                                                                 *)
ClosePC(s, wasRetired) ==
    IF ~wasRetired THEN "done"
    ELSE IF instance[s] = "open" THEN "closing" ELSE "waitClosed"
ClosingBegins(s, wasRetired) ==
    IF wasRetired /\ instance[s] = "open" THEN "closing" ELSE instance[s]

(* A slip: the last call leaves the instance to whoever retired its slot.    *)
ReleaseOnly(t) ==
    /\ At(t, "releasing")
    /\ lock[task[t].slot[1]] = None
    /\ active' = [active EXCEPT ![task[t].slot] = @ - 1]
    /\ Goes(t, "done")
    /\ UNCHANGED <<config, stored, current, gens, retired, instance, pending, lock, closer>>

(* _release_slot and, in the same breath, _close_if_idle.                    *)
Release(t) ==
    /\ At(t, "releasing")
    /\ LET s == task[t].slot
           last == active[s] = 1
       IN  /\ lock[s[1]] = None
           /\ active' = [active EXCEPT ![s] = @ - 1]
           /\ IF last
              THEN /\ instance' = [instance EXCEPT ![s] = ClosingBegins(s, retired[s])]
                   /\ Goes(t, ClosePC(s, retired[s]))
              ELSE Goes(t, "done") /\ UNCHANGED instance
    /\ UNCHANGED <<config, stored, current, gens, retired, pending, lock, closer>>

-----------------------------------------------------------------------------
(* Whether create or update goes on to replace the provider.                 *)
Accepted(t) ==
    LET p == task[t].provider
    IN  CASE task[t].kind = "create"    -> TRUE
          [] task[t].kind = "createNew" -> config[p] = "none"
          [] task[t].kind = "update"    -> config[p] # "none"
          [] task[t].kind = "disable"   -> config[p] = "enabled"

(* create or update under the lock, up to the await of the factory. A        *)
(* request that is refused, or that changes nothing, ends here.              *)
BeginReplace(t) ==
    /\ HasLock(t) /\ task[t].kind \in Replaces
    /\ IF Accepted(t)
       THEN /\ gens[task[t].provider] < MaxGen
            /\ lock' = [lock EXCEPT ![task[t].provider] = t]
            /\ GoesWith(t, "building", CurrentSlot(task[t].provider))
       ELSE Goes(t, "done") /\ UNCHANGED lock
    /\ UNCHANGED <<config, stored, current, gens, active, retired, instance, pending, closer>>

(* A slip: the configuration is saved before the instance is built.          *)
ReplaceFailsLate(t) ==
    /\ At(t, "building")
    /\ stored' = [stored EXCEPT ![task[t].provider] = "enabled"]
    /\ lock' = [lock EXCEPT ![task[t].provider] = None]
    /\ Goes(t, "done")
    /\ UNCHANGED <<config, current, gens, active, retired, instance, pending, closer>>

(* _replace_provider fails: no secret, no client, or the store refuses. A    *)
(* new instance is closed unpublished; nothing else changed.                 *)
ReplaceFails(t) ==
    /\ At(t, "building")
    /\ lock' = [lock EXCEPT ![task[t].provider] = None]
    /\ Goes(t, "done")
    /\ UNCHANGED <<config, stored, current, gens, active, retired, instance, pending, closer>>

(* _replace_provider succeeds: configuration and slot are published, the     *)
(* previous slot is retired and, after the lock, closed if it is idle; if it *)
(* is not, its last call will. (An update of a disabled provider that leaves *)
(* it disabled publishes no slot; "disable" stands for every such update.)   *)
Publish(t) ==
    /\ At(t, "building")
    /\ LET p == task[t].provider
           old == task[t].slot
           mode == IF task[t].kind = "disable" THEN "disabled" ELSE "enabled"
           g == gens[p] + 1
           closes == old # NoSlot /\ active[old] = 0
           Closed(is) == IF closes THEN [is EXCEPT ![old] = ClosingBegins(old, TRUE)] ELSE is
       IN  /\ config' = [config EXCEPT ![p] = mode]
           /\ stored' = [stored EXCEPT ![p] = mode]
           /\ IF mode = "enabled"
              THEN /\ gens' = [gens EXCEPT ![p] = g]
                   /\ current' = [current EXCEPT ![p] = g]
                   /\ instance' = Closed([instance EXCEPT ![<<p, g>>] = "open"])
              ELSE current' = [current EXCEPT ![p] = 0] /\ instance' = Closed(instance) /\ UNCHANGED gens
           /\ IF old = NoSlot THEN UNCHANGED <<retired, pending>>
              ELSE retired' = [retired EXCEPT ![old] = TRUE] /\ pending' = pending \cup {old}
           /\ lock' = [lock EXCEPT ![p] = None]
           /\ Goes(t, IF closes THEN ClosePC(old, TRUE) ELSE "done")
    /\ UNCHANGED <<active, closer>>

(* delete: the row, the slot and the configuration go; the request waits     *)
(* until the slot is idle.                                                   *)
Delete(t) ==
    /\ HasLock(t) /\ task[t].kind = "delete"
    /\ LET p == task[t].provider
           s == CurrentSlot(p)
       IN  IF config[p] = "none"
           THEN Goes(t, "done") /\ UNCHANGED <<config, stored, current, retired, pending>>
           ELSE /\ config' = [config EXCEPT ![p] = "none"]
                /\ stored' = [stored EXCEPT ![p] = "none"]
                /\ current' = [current EXCEPT ![p] = 0]
                /\ IF s = NoSlot
                   THEN Goes(t, "done") /\ UNCHANGED <<retired, pending>>
                   ELSE /\ retired' = [retired EXCEPT ![s] = TRUE]
                        /\ pending' = pending \cup {s}
                        /\ GoesWith(t, "waitIdle", s)
    /\ UNCHANGED <<gens, active, instance, lock, closer>>

(* A slip: a deleted provider's instance is closed while calls use it.       *)
BecomesIdleNever(t) ==
    /\ At(t, "waitIdle")
    /\ instance' = [instance EXCEPT ![task[t].slot] = ClosingBegins(task[t].slot, TRUE)]
    /\ Goes(t, ClosePC(task[t].slot, TRUE))
    /\ UNCHANGED <<config, stored, current, gens, active, retired, pending, lock, closer>>

(* _close_when_idle after idle.wait().                                       *)
BecomesIdle(t) ==
    /\ At(t, "waitIdle") /\ active[task[t].slot] = 0
    /\ instance' = [instance EXCEPT ![task[t].slot] = ClosingBegins(task[t].slot, TRUE)]
    /\ Goes(t, ClosePC(task[t].slot, TRUE))
    /\ UNCHANGED <<config, stored, current, gens, active, retired, pending, lock, closer>>

(* instance.close() returns or raises; closed is set either way.             *)
InstanceClosed(t) ==
    /\ \/ /\ At(t, "closing")
          /\ instance' = [instance EXCEPT ![task[t].slot] = "closed"]
          /\ pending' = pending \ {task[t].slot}
       \/ /\ At(t, "waitClosed") /\ instance[task[t].slot] = "closed"
          /\ UNCHANGED <<instance, pending>>
    /\ Goes(t, "done")
    /\ UNCHANGED <<config, stored, current, gens, active, retired, lock, closer>>

-----------------------------------------------------------------------------
(* close(): without any lock every slot is retired, then they are closed one *)
(* after the other, each when it is idle.                                    *)
Close ==
    /\ closer.pc = "open"
    /\ ClosesAnyTime \/ \A t \in Task : task[t].kind \in Replaces => task[t].pc \notin {"locking", "building"}
    /\ LET now == {CurrentSlot(p) : p \in {q \in Provider : current[q] # 0}}
       IN  /\ closer' = [pc |-> "waitIdle", todo |-> SetToSeq(now) \o SetToSeq(pending)]
           /\ retired' = [s \in Slot |-> retired[s] \/ s \in now]
           /\ pending' = pending \cup now
    /\ config' = [p \in Provider |-> "none"]
    /\ current' = [p \in Provider |-> 0]
    /\ UNCHANGED <<stored, gens, active, instance, lock, task>>

CloseGoesOn ==
    /\ closer.pc \notin {"open", "closed"}
    /\ IF closer.todo = <<>>
       THEN closer' = [closer EXCEPT !.pc = "closed"] /\ UNCHANGED <<instance, pending>>
       ELSE LET s == Head(closer.todo)
                Next1 == [pc |-> "waitIdle", todo |-> Tail(closer.todo)]
            IN  \/ /\ closer.pc = "waitIdle" /\ active[s] = 0
                   /\ closer' = [closer EXCEPT !.pc = ClosePC(s, TRUE)]
                   /\ instance' = [instance EXCEPT ![s] = ClosingBegins(s, TRUE)]
                   /\ UNCHANGED pending
                \/ /\ closer.pc = "closing"
                   /\ closer' = Next1
                   /\ instance' = [instance EXCEPT ![s] = "closed"]
                   /\ pending' = pending \ {s}
                \/ /\ closer.pc = "waitClosed" /\ instance[s] = "closed"
                   /\ closer' = Next1
                   /\ UNCHANGED <<instance, pending>>
    /\ UNCHANGED <<config, stored, current, gens, active, retired, lock, task>>

Step(t) ==
    \/ Acquire(t) \/ CallEnds(t) \/ Release(t)
    \/ BeginReplace(t) \/ ReplaceFails(t) \/ Publish(t)
    \/ Delete(t) \/ BecomesIdle(t) \/ InstanceClosed(t)

Next ==
    \/ \E t \in Task : \/ \E p \in Provider, k \in Kinds : Ask(t, p, k)
                       \/ Step(t)
                       \/ Leak(t)
    \/ Close \/ CloseGoesOn

Spec == Init /\ [][Next]_vars

-----------------------------------------------------------------------------
(* No call or stream uses an instance whose close() was begun, whatever      *)
(* replaces, disables or deletes its provider meanwhile (_acquire_slot,      *)
(* _close_when_idle).                                                        *)
NoneUsedClosed ==
    \A t \in Task : At(t, "using") => instance[task[t].slot] = "open"

(* What the manager serves is what the store will restore, also after a      *)
(* replacement that failed: memory changes only after the store did          *)
(* (_replace_provider, delete). close() empties the memory only.             *)
StoredIsServed ==
    closer.pc = "open" =>
        \A p \in Provider : /\ stored[p] = config[p]
                            /\ (config[p] = "enabled") = (current[p] # 0)
                            /\ current[p] # 0 => instance[<<p, current[p]>>] = "open"

(* Every retired instance is closed once no request and no close() is left that  *)
(* would do it: its last call closes it, or whoever retired it does, whatever the *)
(* order they come in (_close_if_idle, _close_when_idle). Only a slot that was    *)
(* never released keeps its instance open.                                       *)
Leaked(s) == \E t \in Task : At(t, "gone") /\ task[t].slot = s
Quiet == closer.pc \in {"open", "closed"} /\ \A t \in Task : task[t].pc \in {"new", "done", "gone"}
RetiredAreClosed ==
    Quiet => \A s \in Slot : retired[s] => instance[s] = "closed" \/ Leaked(s)

(* An instance is closed by one request, or by close(), and once: whoever    *)
(* finds close_started set waits for the other (_close_when_idle).           *)
ClosedOnce ==
    /\ \A t \in Task : At(t, "closing") =>
          /\ instance[task[t].slot] = "closing"
          /\ \A u \in Task : At(u, "closing") /\ task[u].slot = task[t].slot => u = t
          /\ closer.pc = "closing" => Head(closer.todo) # task[t].slot
    /\ closer.pc = "closing" => instance[Head(closer.todo)] = "closing"

(* What the manager promises of its instances: their calls outlive no close, *)
(* what is served is stored, and each is closed, once.                       *)
ProvidersHold == NoneUsedClosed /\ StoredIsServed /\ RetiredAreClosed /\ ClosedOnce

(* close() leaves no instance open. Not so when it overtakes a replacement:  *)
(* the new instance is published afterwards.                                 *)
CloseLeavesNone ==
    closer.pc = "closed" => \A s \in Slot : instance[s] \in {"absent", "closed"}
===============================================================================
