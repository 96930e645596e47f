------------------------- MODULE ProviderSlots_proofs -------------------------
(* Proofs about ProviderSlots for any providers, requests and generations,   *)
(* whether or not close() may overtake replacements: no call uses an         *)
(* instance that is being closed, what is served is what is stored, and      *)
(* every retired instance is closed, once.                                   *)
EXTENDS ProviderSlots, FiniteSetTheorems, TLAPS

-----------------------------------------------------------------------------
(* The inductive invariant.                                                  *)

(* A slot counts the requests that have acquired and not released it.        *)
Users(s) == {t \in Task : task[t].pc \in {"using", "releasing", "gone"} /\ task[t].slot = s}

CountedRight == \A s \in Slot : active[s] = Cardinality(Users(s))

(* A slot of a replacement, or of a call, has an instance; one that somebody *)
(* waits to close, or closes, is retired.                                    *)
Exists(s) == s \in Slot /\ instance[s] # "absent"

TaskCoherent(t) ==
    /\ At(t, "locking") => task[t].provider \in Provider /\ task[t].kind \in AllKinds
    /\ task[t].pc \in {"using", "releasing", "gone"} => Exists(task[t].slot)
    /\ At(t, "building") =>
          /\ task[t].provider \in Provider /\ task[t].kind \in Replaces
          /\ lock[task[t].provider] = t
          /\ gens[task[t].provider] < MaxGen
          /\ task[t].slot = NoSlot \/ (Exists(task[t].slot) /\ task[t].slot[1] = task[t].provider)
    /\ task[t].pc \in {"waitIdle", "closing", "waitClosed"} => Exists(task[t].slot) /\ retired[task[t].slot]

CloserCoherent ==
    /\ closer.pc \in {"open", "closed"} => closer.todo = <<>>
    /\ closer.pc \in {"closing", "waitClosed"} => closer.todo # <<>>
    /\ \A i \in 1..Len(closer.todo) : Exists(closer.todo[i]) /\ retired[closer.todo[i]]

(* What is served is open and not retired.                                   *)
ServedIsOpen ==
    \A p \in Provider :
        /\ (config[p] = "enabled") = (current[p] # 0)
        /\ current[p] # 0 =>
              current[p] <= gens[p] /\ instance[<<p, current[p]>>] = "open" /\ ~retired[<<p, current[p]>>]

(* Somebody will close the slot when it is idle.                             *)
Awaited(s) ==
    \/ \E t \in Task : At(t, "waitIdle") /\ task[t].slot = s
    \/ \E i \in 1..Len(closer.todo) : closer.todo[i] = s

(* Somebody closes it.                                                       *)
BeingClosed(s) ==
    \/ \E t \in Task : At(t, "closing") /\ task[t].slot = s
    \/ closer.pc = "closing" /\ Head(closer.todo) = s

SlotCoherent(s) ==
    /\ instance[s] = "absent" <=> s[2] > gens[s[1]]
    /\ retired[s] => instance[s] # "absent"
    /\ instance[s] \in {"closing", "closed"} => retired[s] /\ active[s] = 0
    /\ instance[s] = "open" /\ retired[s] => active[s] > 0 \/ Awaited(s)
    /\ instance[s] = "closing" => BeingClosed(s)

PendingIsRetired == \A s \in pending : Exists(s) /\ retired[s]

StoreInv == closer.pc = "open" => stored = config

SlotsInv ==
    /\ TypeOK
    /\ CountedRight
    /\ \A t \in Task : TaskCoherent(t)
    /\ CloserCoherent
    /\ ServedIsOpen
    /\ \A s \in Slot : SlotCoherent(s)
    /\ ClosedOnce
    /\ PendingIsRetired
    /\ StoreInv

-----------------------------------------------------------------------------
(* Sets and sequences.                                                       *)

LEMMA FiniteParts ==
    /\ IsFiniteSet(Slot)
    /\ \A S \in SUBSET Task : IsFiniteSet(S) /\ Cardinality(S) \in 0..Cardinality(Task)
  <1>1. IsFiniteSet(1..MaxGen)
    BY FS_Interval, SlotsAssumption
  <1>2. IsFiniteSet(Slot)
    BY <1>1, FS_Product, SlotsAssumption DEF Slot
  <1>3. ASSUME NEW S \in SUBSET Task
        PROVE  IsFiniteSet(S) /\ Cardinality(S) \in 0..Cardinality(Task)
    <2>1. IsFiniteSet(S) /\ Cardinality(S) <= Cardinality(Task)
      BY FS_Subset, SlotsAssumption
    <2>2. Cardinality(S) \in Nat /\ Cardinality(Task) \in Nat
      BY <2>1, FS_CardinalityType, SlotsAssumption
    <2> QED BY <2>1, <2>2
  <1> QED BY <1>2, <1>3

(* SetToSeq lists the elements of a finite set.                              *)
LEMMA Listed ==
    ASSUME NEW S, IsFiniteSet(S)
    PROVE  /\ SetToSeq(S) \in Seq(S)
           /\ \A x \in S : \E i \in 1..Len(SetToSeq(S)) : SetToSeq(S)[i] = x
  <1> DEFINE n == Cardinality(S)
             f == SetToSeq(S)
  <1>1. n \in Nat /\ ExistsBijection(1..n, S)
    BY FS_CardinalityType
  <1>2. \E g \in [1..n -> S] : IsInjective(g)
    BY <1>1 DEF ExistsBijection, Bijection, Injection
  <1>3. f \in [1..n -> S] /\ IsInjective(f)
    BY <1>2 DEF SetToSeq
  <1>4. f \in Seq(S) /\ Len(f) = n
    BY <1>1, <1>3
  <1>5. f \in Injection(1..n, S)
    BY <1>3 DEF Injection
  <1>6. Cardinality(1..n) = n
    BY <1>1, FS_Interval
  <1>7. f \in Surjection(1..n, S)
    BY <1>5, <1>6, FS_Injection
  <1>8. \A x \in S : \E i \in 1..n : f[i] = x
    BY <1>7 DEF Surjection
  <1> QED BY <1>4, <1>8

-----------------------------------------------------------------------------
(* What moves of a request leave alone.                                      *)

OthersRest(t) == \A u \in Task \ {t} : task'[u] = task[u]

LEMMA Moves ==
    ASSUME TypeOK, NEW t \in Task, NEW pc \in PC, NEW s \in Slot \cup {NoSlot},
           GoesWith(t, pc, s) \/ (Goes(t, pc) /\ s = task[t].slot)
    PROVE  /\ task' \in [Task -> Request] /\ OthersRest(t)
           /\ task'[t].pc = pc /\ task'[t].slot = s
           /\ task'[t].kind = task[t].kind /\ task'[t].provider = task[t].provider
  <1>1. task \in [Task -> Request] /\ task[t] \in Request
    BY DEF TypeOK
  <1>2. task' = [task EXCEPT ![t].pc = pc, ![t].slot = s] \/ (task' = [task EXCEPT ![t].pc = pc] /\ s = task[t].slot)
    BY DEF Goes, GoesWith
  <1> QED BY <1>1, <1>2 DEF Request, OthersRest
(* The users of a slot change by the request that moves only.                *)
Uses(t, s) == task[t].pc \in {"using", "releasing", "gone"} /\ task[t].slot = s

LEMMA UsersFinite ==
    ASSUME NEW s
    PROVE  /\ Cardinality(Users(s)) \in Nat /\ Cardinality(Task) \in Nat
           /\ \A t \in Users(s) : Cardinality(Users(s)) >= 1
  <1>1. Users(s) \in SUBSET Task
    BY DEF Users
  <1>2. IsFiniteSet(Users(s)) /\ Cardinality(Users(s)) \in Nat /\ Cardinality(Task) \in Nat
    BY <1>1, FiniteParts, FS_CardinalityType, SlotsAssumption
  <1>3. ASSUME NEW t \in Users(s) PROVE Cardinality(Users(s)) >= 1
    <2>1. Cardinality(Users(s)) # 0
      BY <1>2, FS_EmptySet
    <2> QED BY <1>2, <2>1
  <1> QED BY <1>2, <1>3

LEMMA UsersAfter ==
    ASSUME NEW t \in Task, OthersRest(t), NEW s
    PROVE  /\ Cardinality(Users(s)) \in 0..Cardinality(Task)
           /\ Cardinality(Users(s)') \in 0..Cardinality(Task)
           /\ (Uses(t, s)' <=> Uses(t, s)) => Users(s)' = Users(s)
           /\ Uses(t, s)' /\ ~Uses(t, s) => Cardinality(Users(s)') = Cardinality(Users(s)) + 1
           /\ ~Uses(t, s)' /\ Uses(t, s) => Cardinality(Users(s)') = Cardinality(Users(s)) - 1
  <1>1. Users(s) \in SUBSET Task /\ Users(s)' \in SUBSET Task
    BY DEF Users
  <1>2. \A u \in Task : u # t => (u \in Users(s)' <=> u \in Users(s))
    BY DEF Users, OthersRest
  <1>3. (t \in Users(s) <=> Uses(t, s)) /\ (t \in Users(s)' <=> Uses(t, s)')
    BY DEF Users, Uses
  <1>4. Uses(t, s)' /\ ~Uses(t, s) => Users(s)' = Users(s) \cup {t} /\ t \notin Users(s)
    BY <1>1, <1>2, <1>3
  <1>5. ~Uses(t, s)' /\ Uses(t, s) => Users(s)' = Users(s) \ {t} /\ t \in Users(s)
    BY <1>1, <1>2, <1>3
  <1>6. (Uses(t, s)' <=> Uses(t, s)) => Users(s)' = Users(s)
    BY <1>1, <1>2, <1>3
  <1> QED BY <1>1, <1>4, <1>5, <1>6, FiniteParts, FS_AddElement, FS_RemoveElement

(* Instances do not go away, and retired slots stay retired.                 *)
Lasting == \A s \in Slot : /\ instance[s] # "absent" => instance'[s] # "absent"
                           /\ retired[s] => retired'[s]

(* What a request or close() knows stays true while others move: only who    *)
(* builds changes the generations of its provider.                           *)
LEMMA TaskKeeps ==
    ASSUME SlotsInv, NEW u \in Task, task'[u] = task[u], Lasting,
           At(u, "building") =>
             lock'[task[u].provider] = u /\ gens'[task[u].provider] = gens[task[u].provider]
    PROVE  TaskCoherent(u)'
  <1>1. TaskCoherent(u)
    BY DEF SlotsInv
  <1> QED BY <1>1 DEF TaskCoherent, At, Exists, Lasting

LEMMA CloserKeeps ==
    ASSUME SlotsInv, Lasting, UNCHANGED closer
    PROVE  CloserCoherent'
  BY DEF SlotsInv, CloserCoherent, Exists, Lasting

(* A slot stays as it is when nobody stops waiting for it or closing it.     *)
LEMMA SlotKeeps ==
    ASSUME SlotsInv, NEW s \in Slot,
           instance'[s] = instance[s], retired'[s] = retired[s], active'[s] = active[s],
           gens'[s[1]] = gens[s[1]],
           Awaited(s) => Awaited(s)', BeingClosed(s) => BeingClosed(s)'
    PROVE  SlotCoherent(s)'
  <1>1. SlotCoherent(s)
    BY DEF SlotsInv
  <1> QED BY <1>1 DEF SlotCoherent

LEMMA WatchKeeps ==
    ASSUME NEW t \in Task, OthersRest(t), UNCHANGED closer, NEW s
    PROVE  /\ Awaited(s) /\ ~(At(t, "waitIdle") /\ task[t].slot = s) => Awaited(s)'
           /\ BeingClosed(s) /\ ~(At(t, "closing") /\ task[t].slot = s) => BeingClosed(s)'
  <1>1. \A u \in Task : u # t => (At(u, "waitIdle") <=> At(u, "waitIdle")') /\ (At(u, "closing") <=> At(u, "closing")')
                               /\ task'[u].slot = task[u].slot
    BY DEF OthersRest, At
  <1>2. Awaited(s) /\ ~(At(t, "waitIdle") /\ task[t].slot = s) => Awaited(s)'
    BY <1>1 DEF Awaited
  <1>3. BeingClosed(s) /\ ~(At(t, "closing") /\ task[t].slot = s) => BeingClosed(s)'
    BY <1>1 DEF BeingClosed
  <1> QED BY <1>2, <1>3
LEMMA ClosingSlots ==
    ASSUME SlotsInv
    PROVE  /\ \A u \in Task : At(u, "closing") => task[u].slot \in Slot /\ instance[task[u].slot] = "closing"
           /\ closer.pc = "closing" => Head(closer.todo) \in Slot /\ instance[Head(closer.todo)] = "closing"
  <1>1. \A u \in Task : At(u, "closing") => task[u].slot \in Slot /\ instance[task[u].slot] = "closing"
    BY DEF SlotsInv, TaskCoherent, Exists, ClosedOnce, At
  <1>2. ASSUME closer.pc = "closing" PROVE Head(closer.todo) \in Slot
    <2>1. closer.todo # <<>> /\ closer.todo \in Seq(Slot)
      BY <1>2 DEF SlotsInv, CloserCoherent, TypeOK
    <2> QED BY <2>1
  <1> QED BY <1>1, <1>2 DEF SlotsInv, ClosedOnce

(* One closes at a time, for an instance is open before it is closing.       *)
LEMMA OneCloses ==
    ASSUME SlotsInv, NEW t \in Task, OthersRest(t), UNCHANGED closer, ~At(t, "closing"),
           \A s \in Slot : instance[s] = "closing" => instance'[s] = "closing",
           At(t, "closing")' =>
             /\ task'[t].slot \in Slot
             /\ instance[task'[t].slot] = "open" /\ instance'[task'[t].slot] = "closing"
    PROVE  ClosedOnce'
  <1>1. \A u \in Task : u # t => task'[u] = task[u]
    BY DEF OthersRest
  <1>2. /\ \A u \in Task : At(u, "closing") => task[u].slot \in Slot /\ instance[task[u].slot] = "closing"
        /\ closer.pc = "closing" => Head(closer.todo) \in Slot /\ instance[Head(closer.todo)] = "closing"
    BY ClosingSlots
  <1>3. ASSUME NEW u \in Task, At(u, "closing")'
        PROVE  /\ instance'[task'[u].slot] = "closing"
               /\ \A w \in Task : At(w, "closing")' /\ task'[w].slot = task'[u].slot => w = u
               /\ closer'.pc = "closing" => Head(closer'.todo) # task'[u].slot
    <2>1. CASE u = t
      BY <2>1, <1>1, <1>2, <1>3 DEF At
    <2>2. CASE u # t
      BY <2>2, <1>1, <1>2, <1>3 DEF At, SlotsInv, ClosedOnce
    <2> QED BY <2>1, <2>2
  <1> QED BY <1>2, <1>3 DEF ClosedOnce

(* A request moves on and changes nothing else but a lock.                   *)
LEMMA Rests ==
    ASSUME SlotsInv, NEW t \in Task,
           OthersRest(t), task' \in [Task -> Request], lock' \in [Provider -> Task \cup {None}],
           UNCHANGED <<config, stored, current, gens, active, retired, instance, pending, closer>>,
           \A p \in Provider : lock[p] \in {t, None} \/ lock'[p] = lock[p],
           TaskCoherent(t)', \A s \in Slot : Uses(t, s)' <=> Uses(t, s),
           task[t].pc \notin {"waitIdle", "closing"}, ~At(t, "closing")'
    PROVE  SlotsInv'
  <1>1. TypeOK'
    BY DEF SlotsInv, TypeOK
  <1>2. CountedRight'
    BY UsersAfter DEF SlotsInv, CountedRight
  <1>3. Lasting
    BY DEF Lasting
  <1>4. ASSUME NEW u \in Task PROVE TaskCoherent(u)'
    <2>1. CASE u # t
      <3>1. task'[u] = task[u]
        BY <2>1 DEF OthersRest
      <3>2. At(u, "building") => lock'[task[u].provider] = u
        BY <2>1, SlotsAssumption DEF SlotsInv, TaskCoherent
      <3> QED BY <3>1, <3>2, <1>3, TaskKeeps
    <2> QED BY <2>1
  <1>5. CloserCoherent'
    BY <1>3, CloserKeeps
  <1>6. ServedIsOpen' /\ StoreInv' /\ PendingIsRetired'
    BY DEF SlotsInv, ServedIsOpen, StoreInv, PendingIsRetired, Exists
  <1>7. \A s \in Slot : SlotCoherent(s)'
    BY SlotKeeps, WatchKeeps DEF At
  <1>8. ClosedOnce'
    BY OneCloses DEF At
  <1> QED BY <1>1, <1>2, <1>4, <1>5, <1>6, <1>7, <1>8 DEF SlotsInv

LEMMA AskKeeps ==
    ASSUME SlotsInv, NEW t \in Task, NEW p \in Provider, NEW k \in Kinds, Ask(t, p, k)
    PROVE  SlotsInv'
  <1>1. /\ task \in [Task -> Request] /\ k \in AllKinds
        /\ At(t, "new") /\ lock \in [Provider -> Task \cup {None}]
    BY SlotsAssumption DEF SlotsInv, TypeOK, Ask
  <1>2. [kind |-> k, pc |-> "locking", provider |-> p, slot |-> NoSlot] \in Request
    BY <1>1 DEF Request, PC
  <1>3. /\ task' \in [Task -> Request] /\ OthersRest(t)
        /\ task'[t] = [kind |-> k, pc |-> "locking", provider |-> p, slot |-> NoSlot]
    BY <1>1, <1>2 DEF Ask, OthersRest
  <1>4. TaskCoherent(t)'
    BY <1>1, <1>3 DEF TaskCoherent, At
  <1>5. \A s \in Slot : Uses(t, s)' <=> Uses(t, s)
    BY <1>1, <1>3 DEF Uses, At
  <1> QED BY <1>1, <1>3, <1>4, <1>5, Rests DEF Ask, At

(* The moves that change nothing but the request, and perhaps a lock.        *)
LEMMA MovesKeep ==
    ASSUME SlotsInv, NEW t \in Task, NEW pc \in {"using", "releasing", "gone", "done"},
           Goes(t, pc), lock' \in [Provider -> Task \cup {None}],
           UNCHANGED <<config, stored, current, gens, active, retired, instance, pending, closer>>,
           \A p \in Provider : lock[p] \in {t, None} \/ lock'[p] = lock[p],
           IF pc = "done" THEN task[t].pc \in {"locking", "building", "waitClosed"}
                          ELSE task[t].pc \in {"using", "releasing"}
    PROVE  SlotsInv'
  <1>1. /\ task' \in [Task -> Request] /\ OthersRest(t)
        /\ task'[t].pc = pc /\ task'[t].slot = task[t].slot
    <2>1. TypeOK /\ task[t].slot \in Slot \cup {NoSlot} /\ pc \in PC
      BY DEF SlotsInv, TypeOK, Request, PC
    <2> QED BY <2>1, Moves
  <1>2. TaskCoherent(t)'
    BY <1>1 DEF SlotsInv, TaskCoherent, At, Exists
  <1>3. \A s \in Slot : Uses(t, s)' <=> Uses(t, s)
    BY <1>1 DEF Uses
  <1> QED BY <1>1, <1>2, <1>3, Rests DEF At
(* What is served.                                                           *)
LEMMA CurrentExists ==
    ASSUME SlotsInv, NEW p \in Provider, current[p] # 0
    PROVE  /\ CurrentSlot(p) = <<p, current[p]>> /\ Exists(CurrentSlot(p)) /\ CurrentSlot(p)[1] = p
           /\ instance[CurrentSlot(p)] = "open" /\ ~retired[CurrentSlot(p)]
  <1>1. current[p] \in 1..MaxGen
    BY DEF SlotsInv, TypeOK
  <1> QED BY <1>1 DEF CurrentSlot, Exists, Slot, SlotsInv, ServedIsOpen

LEMMA BeginReplaceKeeps ==
    ASSUME SlotsInv, NEW t \in Task, BeginReplace(t)
    PROVE  SlotsInv'
  <1> DEFINE p == task[t].provider
  <1>1. p \in Provider /\ lock[p] = None /\ task[t].pc = "locking" /\ task[t].kind \in Replaces
    BY DEF BeginReplace, HasLock, At, SlotsInv, TaskCoherent
  <1>2. CASE Accepted(t)
    <2>1. /\ GoesWith(t, "building", CurrentSlot(p)) /\ lock' = [lock EXCEPT ![p] = t] /\ gens[p] < MaxGen
          /\ UNCHANGED <<config, stored, current, gens, active, retired, instance, pending, closer>>
      BY <1>2 DEF BeginReplace
    <2>2. CurrentSlot(p) = NoSlot \/ (Exists(CurrentSlot(p)) /\ CurrentSlot(p)[1] = p)
      BY <1>1, CurrentExists DEF CurrentSlot
    <2>3. /\ task' \in [Task -> Request] /\ OthersRest(t)
          /\ task'[t].pc = "building" /\ task'[t].slot = CurrentSlot(p)
          /\ task'[t].kind = task[t].kind /\ task'[t].provider = p
      <3>1. TypeOK /\ CurrentSlot(p) \in Slot \cup {NoSlot} /\ "building" \in PC
        BY <2>2 DEF SlotsInv, Exists, PC
      <3> QED BY <3>1, <2>1, Moves
    <2>4. lock' \in [Provider -> Task \cup {None}] /\ lock'[p] = t /\ \A q \in Provider : q # p => lock'[q] = lock[q]
      BY <2>1, <1>1 DEF SlotsInv, TypeOK
    <2>5. TaskCoherent(t)'
      BY <1>1, <2>1, <2>2, <2>3, <2>4 DEF TaskCoherent, At, Exists
    <2>6. \A s \in Slot : Uses(t, s)' <=> Uses(t, s)
      BY <1>1, <2>3 DEF Uses
    <2> HIDE DEF p
    <2> QED BY <1>1, <2>1, <2>3, <2>4, <2>5, <2>6, Rests DEF At
  <1>3. CASE ~Accepted(t)
    BY <1>1, <1>3, MovesKeep DEF BeginReplace, SlotsInv, TypeOK
  <1> QED BY <1>2, <1>3

LEMMA SmallStepsKeep ==
    ASSUME SlotsInv, NEW t \in Task, CallEnds(t) \/ Leak(t) \/ ReplaceFails(t)
    PROVE  SlotsInv'
  <1>1. lock \in [Provider -> Task \cup {None}]
    BY DEF SlotsInv, TypeOK
  <1>2. CASE CallEnds(t)
    BY <1>1, <1>2, MovesKeep DEF CallEnds, At
  <1>3. CASE Leak(t)
    BY <1>1, <1>3, MovesKeep DEF Leak, At
  <1>4. CASE ReplaceFails(t)
    <2>1. lock[task[t].provider] = t
      BY <1>4 DEF ReplaceFails, SlotsInv, TaskCoherent
    <2> QED BY <1>1, <2>1, <1>4, MovesKeep DEF ReplaceFails, At
  <1> QED BY <1>2, <1>3, <1>4

-----------------------------------------------------------------------------
(* Moves that change slots.                                                  *)

(* All but the mover and the slots it touches.                               *)
LEMMA Others ==
    ASSUME SlotsInv, NEW t \in Task, OthersRest(t), UNCHANGED closer, Lasting,
           \A p \in Provider : lock[p] \in {t, None} \/ (lock'[p] = lock[p] /\ gens'[p] = gens[p]),
           TaskCoherent(t)'
    PROVE  (\A u \in Task : TaskCoherent(u)') /\ CloserCoherent'
  <1>1. ASSUME NEW u \in Task, u # t PROVE TaskCoherent(u)'
    <2>1. task'[u] = task[u]
      BY <1>1 DEF OthersRest
    <2>2. At(u, "building") => lock'[task[u].provider] = u /\ gens'[task[u].provider] = gens[task[u].provider]
      BY <1>1, SlotsAssumption DEF SlotsInv, TaskCoherent
    <2> QED BY <2>1, <2>2, TaskKeeps
  <1> QED BY <1>1, CloserKeeps

LEMMA AcquireKeeps ==
    ASSUME SlotsInv, NEW t \in Task, Acquire(t)
    PROVE  SlotsInv'
  <1> DEFINE p == task[t].provider
  <1>1. p \in Provider /\ lock[p] = None /\ task[t].pc = "locking"
    BY DEF Acquire, HasLock, At, SlotsInv, TaskCoherent
  <1>2. CASE config[p] = "enabled"
    <2>1. PICK s \in Slot : s = CurrentSlot(p) /\ Exists(s) /\ instance[s] = "open" /\ ~retired[s]
      <3>1. current[p] # 0
        BY <1>1, <1>2 DEF SlotsInv, ServedIsOpen
      <3> QED BY <1>1, <3>1, CurrentExists DEF Exists
    <2>2. /\ active' = [active EXCEPT ![s] = @ + 1] /\ GoesWith(t, "using", s)
          /\ UNCHANGED <<config, stored, current, gens, retired, instance, pending, lock, closer>>
      BY <1>2, <2>1 DEF Acquire
    <2> HIDE DEF p
    <2>3. /\ task' \in [Task -> Request] /\ OthersRest(t)
          /\ task'[t].pc = "using" /\ task'[t].slot = s
      <3>1. TypeOK /\ "using" \in PC
        BY DEF SlotsInv, PC
      <3> QED BY <3>1, <2>2, <2>1, Moves
    <2>4. Uses(t, s)' /\ ~Uses(t, s) /\ \A r \in Slot : r # s => (Uses(t, r)' <=> Uses(t, r))
      BY <1>1, <2>3 DEF Uses
    <2>5. \A r \in Slot : active'[r] = IF r = s THEN active[r] + 1 ELSE active[r]
      BY <2>2 DEF SlotsInv, TypeOK
    <2>6. ASSUME NEW r \in Slot PROVE active'[r] = Cardinality(Users(r)')
      <3>1. active[r] = Cardinality(Users(r))
        BY DEF SlotsInv, CountedRight
      <3>2. /\ (Uses(t, r)' <=> Uses(t, r)) => Users(r)' = Users(r)
            /\ Uses(t, r)' /\ ~Uses(t, r) => Cardinality(Users(r)') = Cardinality(Users(r)) + 1
        BY <2>3, UsersAfter
      <3> QED BY <2>4, <2>5, <3>1, <3>2
    <2>7. active' \in [Slot -> 0..Cardinality(Task)]
      <3>1. \A r \in Slot : active'[r] \in 0..Cardinality(Task)
        BY <2>3, <2>6, UsersAfter
      <3> QED BY <3>1, <2>2 DEF SlotsInv, TypeOK
    <2>8. TypeOK' /\ CountedRight'
      BY <2>2, <2>3, <2>6, <2>7 DEF SlotsInv, TypeOK, CountedRight
    <2>9. TaskCoherent(t)'
      BY <2>2, <2>1, <2>3 DEF TaskCoherent, At, Exists
    <2>10. (\A u \in Task : TaskCoherent(u)') /\ CloserCoherent'
      BY <2>2, <2>3, <2>9, Others DEF Lasting
    <2>11. ASSUME NEW r \in Slot PROVE SlotCoherent(r)'
      <3>1. CASE r = s
        BY <3>1, <2>2, <2>1 DEF SlotCoherent, SlotsInv
      <3>2. CASE r # s
        BY <3>2, <2>2, <2>3, <2>5, <1>1, SlotKeeps, WatchKeeps DEF At
      <3> QED BY <3>1, <3>2
    <2>12. ClosedOnce'
      BY <1>1, <2>2, <2>3, OneCloses DEF At
    <2>13. ServedIsOpen' /\ StoreInv' /\ PendingIsRetired'
      BY <2>2 DEF SlotsInv, ServedIsOpen, StoreInv, PendingIsRetired, Exists
    <2> QED BY <2>8, <2>10, <2>11, <2>12, <2>13 DEF SlotsInv
  <1>3. CASE config[p] # "enabled"
    BY <1>1, <1>3, MovesKeep DEF Acquire, SlotsInv, TypeOK
  <1> QED BY <1>2, <1>3
(* The last call of a retired slot closes its instance.                      *)
LEMMA ReleaseKeeps ==
    ASSUME SlotsInv, NEW t \in Task, Release(t)
    PROVE  SlotsInv'
  <1>1. PICK s \in Slot : s = task[t].slot /\ Exists(s) /\ task[t].pc = "releasing"
    BY DEF Release, At, SlotsInv, TaskCoherent, Exists
  <1>2. /\ SlotCoherent(s) /\ active[s] = Cardinality(Users(s)) /\ Uses(t, s) /\ t \in Users(s)
        /\ active[s] \in Nat /\ instance \in [Slot -> {"absent", "open", "closing", "closed"}]
        /\ active \in [Slot -> 0..Cardinality(Task)] /\ Cardinality(Task) \in Nat
    <2>1. SlotCoherent(s) /\ active[s] = Cardinality(Users(s)) /\ TypeOK
      BY DEF SlotsInv, CountedRight
    <2>2. Uses(t, s) /\ t \in Users(s)
      BY <1>1 DEF Uses, Users
    <2> QED BY <2>1, <2>2, UsersFinite DEF TypeOK
  <1>3. active[s] >= 1
    BY <1>2, UsersFinite
  <1>4. instance[s] = "open"
    BY <1>1, <1>2, <1>3 DEF SlotCoherent, Exists
  <1> DEFINE closes == active[s] = 1 /\ retired[s]
  <1>5. /\ Goes(t, IF closes THEN "closing" ELSE "done")
        /\ \A r \in Slot : instance'[r] = IF closes /\ r = s THEN "closing" ELSE instance[r]
        /\ \A r \in Slot : active'[r] = IF r = s THEN active[r] - 1 ELSE active[r]
        /\ instance' \in [Slot -> {"absent", "open", "closing", "closed"}] /\ DOMAIN active' = Slot
        /\ active' = [r \in Slot |-> active'[r]]
        /\ UNCHANGED <<config, stored, current, gens, retired, pending, lock, closer>>
    <2>1. Goes(t, IF closes THEN "closing" ELSE "done")
      BY <1>1, <1>4 DEF Release, ClosePC
    <2>2. instance' = IF closes THEN [instance EXCEPT ![s] = "closing"] ELSE instance
      BY <1>1, <1>2, <1>4 DEF Release, ClosingBegins
    <2>3. active' = [active EXCEPT ![s] = @ - 1]
      BY <1>1 DEF Release
    <2> HIDE DEF closes
    <2> QED BY <1>2, <2>1, <2>2, <2>3 DEF Release
  <1>6. /\ task' \in [Task -> Request] /\ OthersRest(t)
        /\ task'[t].pc = (IF closes THEN "closing" ELSE "done") /\ task'[t].slot = s
    <2>1. TypeOK /\ "closing" \in PC /\ "done" \in PC
      BY DEF SlotsInv, PC
    <2> QED BY <1>1, <1>5, <2>1, Moves
  <1>7. ~Uses(t, s)' /\ \A r \in Slot : r # s => (Uses(t, r)' <=> Uses(t, r))
    BY <1>1, <1>6 DEF Uses
  <1>8. ASSUME NEW r \in Slot PROVE active'[r] = Cardinality(Users(r)')
    <2>1. active[r] = Cardinality(Users(r))
      BY DEF SlotsInv, CountedRight
    <2>2. /\ (Uses(t, r)' <=> Uses(t, r)) => Users(r)' = Users(r)
          /\ ~Uses(t, r)' /\ Uses(t, r) => Cardinality(Users(r)') = Cardinality(Users(r)) - 1
      BY <1>6, UsersAfter
    <2> QED BY <1>2, <1>5, <1>7, <2>1, <2>2
  <1>9. active' \in [Slot -> 0..Cardinality(Task)]
    <2>1. \A r \in Slot : active'[r] \in 0..Cardinality(Task)
      BY <1>6, <1>8, UsersAfter
    <2> QED BY <2>1, <1>5
  <1> HIDE DEF closes
  <1>10. TypeOK' /\ CountedRight'
    BY <1>5, <1>6, <1>8, <1>9 DEF SlotsInv, TypeOK, CountedRight
  <1>11. TaskCoherent(t)'
    <2>1. closes => retired'[s]
      BY <1>5 DEF closes
    <2>2. Exists(s)'
      BY <1>1, <1>5 DEF Exists
    <2> QED BY <1>6, <2>1, <2>2 DEF TaskCoherent, At
  <1>12. (\A u \in Task : TaskCoherent(u)') /\ CloserCoherent'
    BY <1>5, <1>6, <1>11, Others DEF Lasting
  <1>13. ASSUME NEW r \in Slot PROVE SlotCoherent(r)'
    <2>1. CASE r = s /\ closes
      BY <2>1, <1>2, <1>4, <1>5, <1>6 DEF SlotCoherent, BeingClosed, At, closes
    <2>2. CASE r = s /\ ~closes
      BY <2>2, <1>2, <1>3, <1>4, <1>5 DEF SlotCoherent, closes
    <2>3. CASE r # s
      BY <2>3, <1>1, <1>5, <1>6, SlotKeeps, WatchKeeps DEF At
    <2> QED BY <2>1, <2>2, <2>3
  <1>14. ClosedOnce'
    BY <1>1, <1>4, <1>5, <1>6, OneCloses DEF At
  <1>15. ServedIsOpen' /\ StoreInv' /\ PendingIsRetired'
    <2>1. closes => retired[s]
      BY DEF closes
    <2>2. \A p \in Provider : current[p] # 0 => <<p, current[p]>> \in Slot
      BY CurrentExists DEF Exists
    <2> QED BY <1>5, <2>1, <2>2 DEF SlotsInv, ServedIsOpen, StoreInv, PendingIsRetired, Exists
  <1> QED BY <1>10, <1>12, <1>13, <1>14, <1>15 DEF SlotsInv
(* A slot that is idle is closed by whoever waits for that first.            *)
LEMMA BecomesIdleKeeps ==
    ASSUME SlotsInv, NEW t \in Task, BecomesIdle(t)
    PROVE  SlotsInv'
  <1>1. PICK s \in Slot : s = task[t].slot /\ Exists(s) /\ retired[s] /\ active[s] = 0 /\ task[t].pc = "waitIdle"
    BY DEF BecomesIdle, At, SlotsInv, TaskCoherent, Exists
  <1>2. SlotCoherent(s) /\ instance \in [Slot -> {"absent", "open", "closing", "closed"}]
    BY DEF SlotsInv, TypeOK
  <1> DEFINE begins == instance[s] = "open"
  <1>3. /\ Goes(t, IF begins THEN "closing" ELSE "waitClosed")
        /\ instance' \in [Slot -> {"absent", "open", "closing", "closed"}]
        /\ \A r \in Slot : instance'[r] = IF begins /\ r = s THEN "closing" ELSE instance[r]
        /\ UNCHANGED <<config, stored, current, gens, active, retired, pending, lock, closer>>
    <2>1. Goes(t, IF begins THEN "closing" ELSE "waitClosed")
      BY <1>1 DEF BecomesIdle, ClosePC
    <2>2. instance' = [instance EXCEPT ![s] = IF begins THEN "closing" ELSE instance[s]]
      BY <1>1 DEF BecomesIdle, ClosingBegins
    <2> QED BY <1>2, <2>1, <2>2 DEF BecomesIdle
  <1>4. /\ task' \in [Task -> Request] /\ OthersRest(t)
        /\ task'[t].pc = (IF begins THEN "closing" ELSE "waitClosed") /\ task'[t].slot = s
    <2>1. TypeOK /\ "closing" \in PC /\ "waitClosed" \in PC
      BY DEF SlotsInv, PC
    <2> QED BY <1>1, <1>3, <2>1, Moves
  <1>5. \A r \in Slot : Uses(t, r)' <=> Uses(t, r)
    BY <1>1, <1>4 DEF Uses
  <1>6. TypeOK' /\ CountedRight'
    <2>1. CountedRight'
      BY <1>3, <1>4, <1>5, UsersAfter DEF SlotsInv, CountedRight
    <2> QED BY <2>1, <1>3, <1>4 DEF SlotsInv, TypeOK
  <1> HIDE DEF begins
  <1>7. TaskCoherent(t)'
    BY <1>1, <1>3, <1>4 DEF TaskCoherent, At, Exists
  <1>8. (\A u \in Task : TaskCoherent(u)') /\ CloserCoherent'
    BY <1>3, <1>4, <1>7, Others DEF Lasting
  <1>9. ASSUME NEW r \in Slot PROVE SlotCoherent(r)'
    <2>1. CASE r = s /\ begins
      BY <2>1, <1>1, <1>2, <1>3, <1>4 DEF SlotCoherent, BeingClosed, At, begins
    <2>2. CASE r = s /\ ~begins
      <3>1. BeingClosed(s) => BeingClosed(s)'
        BY <1>1, <1>3, <1>4, WatchKeeps DEF At
      <3> QED BY <2>2, <3>1, <1>2, <1>3 DEF SlotCoherent, begins
    <2>3. CASE r # s
      BY <2>3, <1>1, <1>3, <1>4, SlotKeeps, WatchKeeps DEF At
    <2> QED BY <2>1, <2>2, <2>3
  <1>10. ClosedOnce'
    BY <1>1, <1>3, <1>4, OneCloses DEF At, begins
  <1>11. ServedIsOpen' /\ StoreInv' /\ PendingIsRetired'
    <2>1. \A p \in Provider : current[p] # 0 => <<p, current[p]>> \in Slot /\ <<p, current[p]>> # s
      BY <1>1, CurrentExists DEF Exists
    <2> QED BY <1>3, <2>1 DEF SlotsInv, ServedIsOpen, StoreInv, PendingIsRetired, Exists
  <1> QED BY <1>6, <1>8, <1>9, <1>10, <1>11 DEF SlotsInv

(* The one that closes an instance is done with it; the others have waited.  *)
LEMMA InstanceClosedKeeps ==
    ASSUME SlotsInv, NEW t \in Task, InstanceClosed(t)
    PROVE  SlotsInv'
  <1>1. CASE task[t].pc = "waitClosed"
    <2>1. /\ Goes(t, "done") /\ lock \in [Provider -> Task \cup {None}]
          /\ UNCHANGED <<config, stored, current, gens, active, retired, instance, pending, lock, closer>>
      BY <1>1 DEF InstanceClosed, At, SlotsInv, TypeOK
    <2> QED BY <1>1, <2>1, MovesKeep
  <1>2. CASE task[t].pc = "closing"
    <2>1. PICK s \in Slot : s = task[t].slot /\ Exists(s) /\ retired[s] /\ instance[s] = "closing"
      BY <1>2 DEF At, SlotsInv, TaskCoherent, Exists, ClosedOnce
    <2>2. /\ SlotCoherent(s) /\ instance \in [Slot -> {"absent", "open", "closing", "closed"}]
          /\ pending \in SUBSET Slot
      BY DEF SlotsInv, TypeOK
    <2>3. /\ Goes(t, "done")
          /\ instance' \in [Slot -> {"absent", "open", "closing", "closed"}]
          /\ \A r \in Slot : instance'[r] = IF r = s THEN "closed" ELSE instance[r]
          /\ pending' \in SUBSET Slot /\ pending' \subseteq pending
          /\ UNCHANGED <<config, stored, current, gens, active, retired, lock, closer>>
      BY <1>2, <2>1, <2>2 DEF InstanceClosed, At
    <2>4. /\ task' \in [Task -> Request] /\ OthersRest(t)
          /\ task'[t].pc = "done" /\ task'[t].slot = s
      <3>1. TypeOK /\ "done" \in PC
        BY DEF SlotsInv, PC
      <3> QED BY <2>1, <2>3, <3>1, Moves
    <2>5. \A r \in Slot : Uses(t, r)' <=> Uses(t, r)
      BY <1>2, <2>4 DEF Uses
    <2>6. TypeOK' /\ CountedRight'
      <3>1. CountedRight'
        BY <2>3, <2>4, <2>5, UsersAfter DEF SlotsInv, CountedRight
      <3> QED BY <3>1, <2>3, <2>4 DEF SlotsInv, TypeOK
    <2>7. TaskCoherent(t)'
      BY <2>4 DEF TaskCoherent, At
    <2>8. (\A u \in Task : TaskCoherent(u)') /\ CloserCoherent'
      BY <2>3, <2>4, <2>7, Others DEF Lasting
    <2>9. ASSUME NEW r \in Slot PROVE SlotCoherent(r)'
      <3>1. CASE r = s
        BY <3>1, <2>1, <2>2, <2>3 DEF SlotCoherent
      <3>2. CASE r # s
        BY <3>2, <1>2, <2>1, <2>3, <2>4, SlotKeeps, WatchKeeps DEF At
      <3> QED BY <3>1, <3>2
    <2>10. ClosedOnce'
      <3>1. \A u \in Task : At(u, "closing")' => u # t /\ task'[u] = task[u] /\ At(u, "closing")
        BY <2>4 DEF OthersRest, At
      <3>2. /\ \A u \in Task : At(u, "closing") => task[u].slot \in Slot /\ instance[task[u].slot] = "closing"
            /\ closer.pc = "closing" => Head(closer.todo) \in Slot /\ instance[Head(closer.todo)] = "closing"
        BY ClosingSlots
      <3>3. At(t, "closing") /\ ClosedOnce
        BY <1>2 DEF SlotsInv, At
      <3> QED BY <3>1, <3>2, <3>3, <2>1, <2>3 DEF ClosedOnce
    <2>11. ServedIsOpen' /\ StoreInv' /\ PendingIsRetired'
      <3>1. \A p \in Provider : current[p] # 0 => <<p, current[p]>> \in Slot /\ <<p, current[p]>> # s
        BY <2>1, CurrentExists DEF Exists
      <3> QED BY <2>3, <3>1 DEF SlotsInv, ServedIsOpen, StoreInv, PendingIsRetired, Exists
    <2> QED BY <2>6, <2>8, <2>9, <2>10, <2>11 DEF SlotsInv
  <1> QED BY <1>1, <1>2 DEF InstanceClosed, At
LEMMA DeleteKeeps ==
    ASSUME SlotsInv, NEW t \in Task, Delete(t)
    PROVE  SlotsInv'
  <1>1. PICK p \in Provider : p = task[t].provider /\ lock[p] = None /\ task[t].pc = "locking"
    BY DEF Delete, HasLock, At, SlotsInv, TaskCoherent
  <1> DEFINE modes == {"none", "enabled", "disabled"}
  <1>2. /\ config \in [Provider -> modes] /\ stored \in [Provider -> modes]
        /\ current \in [Provider -> 0..MaxGen] /\ retired \in [Slot -> BOOLEAN] /\ pending \subseteq Slot
        /\ 0 \in 0..MaxGen
    BY SlotsAssumption DEF SlotsInv, TypeOK
  <1>3. CASE config[p] = "none"
    BY <1>1, <1>3, MovesKeep DEF Delete, SlotsInv, TypeOK
  <1>4. CASE config[p] # "none" /\ current[p] = 0
    <2>1. /\ Goes(t, "done") /\ UNCHANGED <<gens, retired, pending, active, instance, lock, closer>>
          /\ config' = [config EXCEPT ![p] = "none"] /\ stored' = [stored EXCEPT ![p] = "none"]
          /\ current' = [current EXCEPT ![p] = 0]
      BY <1>1, <1>4 DEF Delete, CurrentSlot
    <2>2. /\ current' = current
          /\ config' \in [Provider -> modes] /\ stored' \in [Provider -> modes]
          /\ \A q \in Provider : /\ config'[q] = IF q = p THEN "none" ELSE config[q]
                                 /\ stored'[q] = IF q = p THEN "none" ELSE stored[q]
      BY <1>2, <1>4, <2>1
    <2>3. /\ task' \in [Task -> Request] /\ OthersRest(t) /\ task'[t].pc = "done"
      <3>1. TypeOK /\ task[t].slot \in Slot \cup {NoSlot} /\ "done" \in PC
        BY DEF SlotsInv, TypeOK, Request, PC
      <3> QED BY <2>1, <3>1, Moves
    <2>4. \A s \in Slot : Uses(t, s)' <=> Uses(t, s)
      BY <1>1, <2>3 DEF Uses
    <2>5. CountedRight'
      BY <2>1, <2>3, <2>4, UsersAfter DEF SlotsInv, CountedRight
    <2>6. TypeOK'
      BY <2>1, <2>2, <2>3 DEF SlotsInv, TypeOK
    <2>7. (\A u \in Task : TaskCoherent(u)') /\ CloserCoherent'
      <3>1. TaskCoherent(t)'
        BY <2>3 DEF TaskCoherent, At
      <3> QED BY <2>1, <2>3, <3>1, Others DEF Lasting
    <2>8. \A s \in Slot : SlotCoherent(s)'
      BY <1>1, <2>1, <2>3, SlotKeeps, WatchKeeps DEF At
    <2>9. ClosedOnce'
      BY <1>1, <2>1, <2>3, OneCloses DEF At
    <2>10. ServedIsOpen'
      BY <1>4, <2>1, <2>2 DEF SlotsInv, ServedIsOpen
    <2>11. StoreInv' /\ PendingIsRetired'
      BY <2>1 DEF SlotsInv, StoreInv, PendingIsRetired, Exists
    <2> QED BY <2>5, <2>6, <2>7, <2>8, <2>9, <2>10, <2>11 DEF SlotsInv
  <1>5. CASE config[p] # "none" /\ current[p] # 0
    <2>1. PICK s \in Slot : /\ s = CurrentSlot(p) /\ Exists(s) /\ s[1] = p /\ s # NoSlot
                            /\ instance[s] = "open" /\ ~retired[s]
      <3>1. NoSlot \notin Slot
        BY SlotsAssumption DEF NoSlot, Slot
      <3> QED BY <1>5, <3>1, CurrentExists DEF Exists
    <2>2. /\ GoesWith(t, "waitIdle", s) /\ UNCHANGED <<gens, active, instance, lock, closer>>
          /\ config' = [config EXCEPT ![p] = "none"] /\ stored' = [stored EXCEPT ![p] = "none"]
          /\ current' = [current EXCEPT ![p] = 0]
          /\ retired' = [retired EXCEPT ![s] = TRUE] /\ pending' = pending \cup {s}
      BY <1>1, <1>5, <2>1 DEF Delete
    <2>3. /\ task' \in [Task -> Request] /\ OthersRest(t) /\ task'[t].pc = "waitIdle" /\ task'[t].slot = s
      <3>1. TypeOK /\ "waitIdle" \in PC
        BY DEF SlotsInv, PC
      <3> QED BY <2>1, <2>2, <3>1, Moves
    <2>4. \A r \in Slot : Uses(t, r)' <=> Uses(t, r)
      BY <1>1, <2>3 DEF Uses
    <2>5. CountedRight'
      BY <2>2, <2>3, <2>4, UsersAfter DEF SlotsInv, CountedRight
    <2>6. /\ config' \in [Provider -> modes] /\ stored' \in [Provider -> modes]
          /\ current' \in [Provider -> 0..MaxGen] /\ retired' \in [Slot -> BOOLEAN] /\ pending' \subseteq Slot
          /\ \A q \in Provider : /\ config'[q] = IF q = p THEN "none" ELSE config[q]
                                 /\ current'[q] = IF q = p THEN 0 ELSE current[q]
          /\ \A r \in Slot : retired'[r] = IF r = s THEN TRUE ELSE retired[r]
      BY <1>2, <2>2
    <2>7. TypeOK'
      BY <2>6, <2>2, <2>3 DEF SlotsInv, TypeOK
    <2>8. (\A u \in Task : TaskCoherent(u)') /\ CloserCoherent'
      <3>1. TaskCoherent(t)'
        BY <2>1, <2>2, <2>3, <2>6 DEF TaskCoherent, At, Exists
      <3> QED BY <2>2, <2>3, <2>6, <3>1, Others DEF Lasting
    <2>9. ASSUME NEW r \in Slot PROVE SlotCoherent(r)'
      <3>1. CASE r = s
        <4>1. Awaited(s)'
          BY <2>3 DEF Awaited, At
        <4> QED BY <3>1, <4>1, <2>1, <2>2, <2>6 DEF SlotCoherent, SlotsInv
      <3>2. CASE r # s
        BY <3>2, <1>1, <2>2, <2>3, <2>6, SlotKeeps, WatchKeeps DEF At
      <3> QED BY <3>1, <3>2
    <2>10. ClosedOnce'
      BY <1>1, <2>2, <2>3, OneCloses DEF At
    <2>11. PendingIsRetired'
      BY <2>1, <2>2, <2>6 DEF SlotsInv, PendingIsRetired, Exists
    <2>12. ServedIsOpen'
      <3>1. \A q \in Provider : q # p /\ current[q] # 0 => <<q, current[q]>> \in Slot /\ <<q, current[q]>> # s
        BY <2>1, CurrentExists DEF Exists
      <3> QED BY <2>2, <2>6, <3>1 DEF SlotsInv, ServedIsOpen
    <2>13. StoreInv'
      BY <2>2 DEF SlotsInv, StoreInv
    <2> QED BY <2>5, <2>7, <2>8, <2>9, <2>10, <2>11, <2>12, <2>13 DEF SlotsInv
  <1> QED BY <1>3, <1>4, <1>5
(* A replacement publishes an instance of a new generation; the slot it      *)
(* found is retired, and its instance closed if nobody uses it.              *)
LEMMA PublishKeeps ==
    ASSUME SlotsInv, NEW t \in Task, Publish(t)
    PROVE  SlotsInv'
  <1>1. PICK p \in Provider, old \in Slot \cup {NoSlot} :
             /\ p = task[t].provider /\ old = task[t].slot /\ task[t].pc = "building"
             /\ lock[p] = t /\ gens[p] < MaxGen
             /\ old # NoSlot => Exists(old) /\ old[1] = p
    BY DEF Publish, At, SlotsInv, TaskCoherent, Exists
  <1> DEFINE modes == {"none", "enabled", "disabled"}
             states == {"absent", "open", "closing", "closed"}
             enables == task[t].kind # "disable"
             has == old # NoSlot
             closes == has /\ active[old] = 0
             begins == closes /\ instance[old] = "open"
             pc == IF begins THEN "closing" ELSE IF closes THEN "waitClosed" ELSE "done"
             mode == IF enables THEN "enabled" ELSE "disabled"
  <1>2. /\ config \in [Provider -> modes] /\ stored \in [Provider -> modes]
        /\ current \in [Provider -> 0..MaxGen] /\ gens \in [Provider -> 0..MaxGen] /\ 0 \in 0..MaxGen
        /\ retired \in [Slot -> BOOLEAN] /\ instance \in [Slot -> states] /\ pending \subseteq Slot
        /\ lock \in [Provider -> Task \cup {None}]
    BY SlotsAssumption DEF SlotsInv, TypeOK
  <1>3. PICK g \in 1..MaxGen : g = gens[p] + 1
    BY <1>1, <1>2, SlotsAssumption
  <1>4. PICK new \in Slot : /\ new = <<p, g>> /\ new[1] = p /\ new[2] = g /\ instance[new] = "absent" /\ ~retired[new]
                            /\ has => old \in Slot /\ old # new
    <2>1. <<p, g>> \in Slot /\ SlotCoherent(<<p, g>>)
      BY DEF Slot, SlotsInv
    <2>2. g > gens[p]
      BY <1>2, <1>3
    <2> QED BY <1>1, <2>1, <2>2 DEF SlotCoherent, Exists
  <1>5. /\ Goes(t, pc) /\ UNCHANGED <<active, closer>>
        /\ config' = [config EXCEPT ![p] = mode] /\ stored' = [stored EXCEPT ![p] = mode]
        /\ current' = [current EXCEPT ![p] = IF enables THEN g ELSE 0]
        /\ gens' = IF enables THEN [gens EXCEPT ![p] = g] ELSE gens
        /\ lock' = [lock EXCEPT ![p] = None]
        /\ retired' = IF has THEN [retired EXCEPT ![old] = TRUE] ELSE retired
        /\ pending' = IF has THEN pending \cup {old} ELSE pending
    <2>1. Goes(t, pc)
      BY <1>1 DEF Publish, ClosePC
    <2>2. mode = IF task[t].kind = "disable" THEN "disabled" ELSE "enabled"
      OBVIOUS
    <2> HIDE DEF pc
    <2> QED BY <1>1, <1>3, <2>1, <2>2 DEF Publish
  <1>6. /\ instance' \in [Slot -> states]
        /\ \A r \in Slot : instance'[r] = IF enables /\ r = new THEN "open"
                                          ELSE IF begins /\ r = old THEN "closing" ELSE instance[r]
    <2>1. instance' = LET base == IF enables THEN [instance EXCEPT ![new] = "open"] ELSE instance
                      IN  IF closes THEN [base EXCEPT ![old] = ClosingBegins(old, TRUE)] ELSE base
      BY <1>1, <1>3, <1>4 DEF Publish
    <2>2. ClosingBegins(old, TRUE) = IF instance[old] = "open" THEN "closing" ELSE instance[old]
      BY DEF ClosingBegins
    <2> QED BY <1>2, <1>4, <2>1, <2>2
  <1>7. /\ task' \in [Task -> Request] /\ OthersRest(t)
        /\ task'[t].pc = pc /\ task'[t].slot = old
    <2>1. TypeOK /\ pc \in PC
      BY DEF SlotsInv, PC
    <2> QED BY <1>1, <1>5, <2>1, Moves
  <1>8. \A r \in Slot : Uses(t, r)' <=> Uses(t, r)
    BY <1>1, <1>7 DEF Uses
  <1>9. CountedRight'
    BY <1>5, <1>7, <1>8, UsersAfter DEF SlotsInv, CountedRight
  <1> HIDE DEF enables, begins, closes, pc, mode
  <1>10. /\ config' \in [Provider -> modes] /\ stored' \in [Provider -> modes]
         /\ current' \in [Provider -> 0..MaxGen] /\ gens' \in [Provider -> 0..MaxGen]
         /\ lock' \in [Provider -> Task \cup {None}]
         /\ \A q \in Provider :
               /\ config'[q] = IF q = p THEN mode ELSE config[q]
               /\ current'[q] = IF q = p THEN (IF enables THEN g ELSE 0) ELSE current[q]
               /\ gens'[q] = IF q = p /\ enables THEN g ELSE gens[q]
               /\ lock'[q] = IF q = p THEN None ELSE lock[q]
    <2>1. mode \in modes /\ g \in 0..MaxGen
      BY DEF mode
    <2> QED BY <1>2, <1>5, <2>1
  <1>11. /\ retired' \in [Slot -> BOOLEAN] /\ pending' \subseteq Slot
         /\ \A r \in Slot : retired'[r] = IF has /\ r = old THEN TRUE ELSE retired[r]
    BY <1>2, <1>4, <1>5
  <1>12. TypeOK'
    BY <1>5, <1>6, <1>7, <1>10, <1>11 DEF SlotsInv, TypeOK
  <1>13. Lasting
    BY <1>6, <1>11 DEF Lasting
  <1>14. (\A u \in Task : TaskCoherent(u)') /\ CloserCoherent'
    <2>1. pc # "done" => has
      BY DEF pc, begins, closes
    <2>2. pc \in {"closing", "waitClosed", "done"}
      BY DEF pc
    <2>3. has => Exists(old)' /\ retired'[old]
      BY <1>1, <1>4, <1>11, <1>13 DEF Exists, Lasting
    <2>4. TaskCoherent(t)'
      BY <1>7, <2>1, <2>2, <2>3 DEF TaskCoherent, At
    <2> QED BY <1>1, <1>5, <1>7, <1>10, <1>13, <2>4, Others
  <1>15. ASSUME NEW r \in Slot PROVE SlotCoherent(r)'
    <2>1. Awaited(r) => Awaited(r)'
      BY <1>1, <1>5, <1>7, WatchKeeps DEF At
    <2>2. BeingClosed(r) => BeingClosed(r)'
      BY <1>1, <1>5, <1>7, WatchKeeps DEF At
    <2>3. SlotCoherent(r) /\ active[r] \in Nat
      <3>1. active[r] = Cardinality(Users(r))
        BY DEF SlotsInv, CountedRight
      <3> QED BY <3>1, UsersFinite DEF SlotsInv
    <2>4. instance'[r] = "absent" <=> r[2] > gens'[r[1]]
      <3>1. r[1] \in Provider /\ r[2] \in 1..MaxGen /\ r = <<r[1], r[2]>>
        BY DEF Slot
      <3>2. instance[r] = "absent" <=> r[2] > gens[r[1]]
        BY <2>3 DEF SlotCoherent
      <3>3. instance'[r] = "absent" <=> instance[r] = "absent" /\ ~(enables /\ r = new)
        BY <1>4, <1>6 DEF begins
      <3>4. CASE r[1] = p /\ enables
        <4>1. gens'[r[1]] = gens[p] + 1 /\ gens[p] \in Nat /\ (r = new <=> r[2] = g)
          BY <1>2, <1>3, <1>4, <1>10, <3>1, <3>4
        <4> QED BY <1>3, <3>1, <3>2, <3>3, <3>4, <4>1
      <3>5. CASE ~(r[1] = p /\ enables)
        BY <1>4, <1>10, <3>1, <3>2, <3>3, <3>5
      <3> QED BY <3>4, <3>5
    <2>5. CASE has /\ r = old
      <3>1. begins => BeingClosed(old)'
        BY <1>7 DEF BeingClosed, At, pc
      <3> QED BY <1>1, <1>4, <1>5, <1>6, <1>11, <2>2, <2>3, <2>4, <2>5, <3>1 DEF SlotCoherent, begins, closes, Exists
    <2>6. CASE ~(has /\ r = old)
      BY <1>4, <1>5, <1>6, <1>11, <2>1, <2>2, <2>3, <2>4, <2>6 DEF SlotCoherent, begins, closes
    <2> QED BY <2>5, <2>6
  <1>16. ClosedOnce'
    <2>1. \A r \in Slot : instance[r] = "closing" => instance'[r] = "closing"
      BY <1>4, <1>6 DEF begins
    <2>2. pc = "closing" => old \in Slot /\ instance[old] = "open" /\ instance'[old] = "closing"
      BY <1>4, <1>6 DEF pc, begins, closes
    <2> QED BY <1>1, <1>5, <1>7, <2>1, <2>2, OneCloses DEF At
  <1>17. ServedIsOpen'
    <2>1. ASSUME NEW q \in Provider, q # p
          PROVE  /\ (config'[q] = "enabled") = (current'[q] # 0)
                 /\ current'[q] # 0 => current'[q] <= gens'[q] /\ instance'[<<q, current'[q]>>] = "open"
                                       /\ ~retired'[<<q, current'[q]>>]
      <3>1. current[q] # 0 => /\ <<q, current[q]>> \in Slot /\ <<q, current[q]>>[1] # p
                              /\ instance[<<q, current[q]>>] = "open" /\ ~retired[<<q, current[q]>>]
        BY <2>1, CurrentExists DEF Exists
      <3>2. config'[q] = config[q] /\ current'[q] = current[q] /\ gens'[q] = gens[q]
        BY <1>10, <2>1
      <3>3. (config[q] = "enabled") = (current[q] # 0) /\ (current[q] # 0 => current[q] <= gens[q])
        BY DEF SlotsInv, ServedIsOpen
      <3>4. ASSUME current[q] # 0
            PROVE  instance'[<<q, current[q]>>] = "open" /\ ~retired'[<<q, current[q]>>]
        <4>1. PICK r \in Slot : r = <<q, current[q]>>
          BY <3>1, <3>4
        <4>2. r[1] = q /\ r # new /\ (has => r # old)
          BY <1>1, <1>4, <2>1, <4>1
        <4>3. instance'[r] = "open" /\ ~retired'[r]
          BY <1>6, <1>11, <3>1, <3>4, <4>1, <4>2 DEF begins, closes
        <4> QED BY <4>1, <4>3
      <3> QED BY <3>2, <3>3, <3>4
    <2>2. (config'[p] = "enabled") = (current'[p] # 0)
      BY <1>10 DEF mode
    <2>3. current'[p] # 0 => /\ current'[p] <= gens'[p] /\ instance'[<<p, current'[p]>>] = "open"
                             /\ ~retired'[<<p, current'[p]>>]
      <3> SUFFICES ASSUME current'[p] # 0
                   PROVE  /\ current'[p] <= gens'[p] /\ instance'[<<p, current'[p]>>] = "open"
                          /\ ~retired'[<<p, current'[p]>>]
        OBVIOUS
      <3>1. enables /\ current'[p] = g /\ gens'[p] = g /\ <<p, current'[p]>> = new
        BY <1>4, <1>10
      <3>2. instance'[new] = "open" /\ ~retired'[new]
        BY <1>4, <1>6, <1>11, <3>1
      <3> QED BY <3>1, <3>2
    <2> QED BY <2>1, <2>2, <2>3 DEF ServedIsOpen
  <1>18. StoreInv'
    BY <1>5 DEF SlotsInv, StoreInv
  <1>19. PendingIsRetired'
    BY <1>1, <1>4, <1>5, <1>11, <1>13 DEF SlotsInv, PendingIsRetired, Exists, Lasting
  <1> QED BY <1>9, <1>12, <1>14, <1>15, <1>16, <1>17, <1>18, <1>19 DEF SlotsInv
-----------------------------------------------------------------------------
(* close().                                                                  *)

LEMMA CloseKeeps ==
    ASSUME SlotsInv, Close
    PROVE  SlotsInv'
  <1> DEFINE now == {CurrentSlot(p) : p \in {q \in Provider : current[q] # 0}}
             first == SetToSeq(now)
             second == SetToSeq(pending)
  <1>1. /\ closer.pc = "open" /\ closer' = [pc |-> "waitIdle", todo |-> first \o second]
        /\ retired' = [s \in Slot |-> retired[s] \/ s \in now] /\ pending' = pending \cup now
        /\ config' = [p \in Provider |-> "none"] /\ current' = [p \in Provider |-> 0]
        /\ UNCHANGED <<stored, gens, active, instance, lock, task>>
    BY DEF Close
  <1>2. /\ now \subseteq Slot /\ \A s \in now : Exists(s) /\ instance[s] = "open"
        /\ \A s \in pending : Exists(s) /\ retired[s]
        /\ pending \subseteq Slot
    BY CurrentExists DEF SlotsInv, PendingIsRetired, Exists, TypeOK
  <1>3. /\ first \in Seq(Slot) /\ \A s \in now : \E i \in 1..Len(first) : first[i] = s
        /\ second \in Seq(Slot)
        /\ \A i \in 1..Len(first) : first[i] \in now
        /\ \A i \in 1..Len(second) : second[i] \in pending
    <2>1. IsFiniteSet(now) /\ IsFiniteSet(pending)
      BY <1>2, FiniteParts, FS_Subset
    <2>2. first \in Seq(now) /\ second \in Seq(pending)
          /\ \A s \in now : \E i \in 1..Len(first) : first[i] = s
      BY <2>1, Listed
    <2> HIDE DEF now, first, second
    <2> QED BY <1>2, <2>2
  <1> HIDE DEF now, first, second
  <1>4. /\ closer'.todo \in Seq(Slot) /\ closer'.pc = "waitIdle" /\ closer.todo = <<>>
        /\ \A i \in 1..Len(closer'.todo) : closer'.todo[i] \in now \cup pending
        /\ \A s \in now : \E i \in 1..Len(closer'.todo) : closer'.todo[i] = s
    <2>1. closer.todo = <<>>
      BY <1>1 DEF SlotsInv, CloserCoherent
    <2>2. /\ first \o second \in Seq(Slot)
          /\ \A i \in 1..Len(first \o second) : (first \o second)[i] \in now \cup pending
          /\ \A s \in now : \E i \in 1..Len(first \o second) : (first \o second)[i] = s
      <3>1. /\ first \o second \in Seq(Slot)
            /\ Len(first \o second) = Len(first) + Len(second)
            /\ \A i \in 1..Len(first \o second) :
                 (first \o second)[i] = IF i <= Len(first) THEN first[i] ELSE second[i - Len(first)]
        BY <1>3
      <3>2. Len(first) \in Nat /\ Len(second) \in Nat
        BY <1>3
      <3>3. ASSUME NEW i \in 1..Len(first \o second) PROVE (first \o second)[i] \in now \cup pending
        <4>1. CASE i <= Len(first)
          BY <1>3, <3>1, <3>2, <4>1
        <4>2. CASE i > Len(first)
          <5>1. i - Len(first) \in 1..Len(second)
            BY <3>1, <3>2, <4>2
          <5> QED BY <1>3, <3>1, <3>2, <4>2, <5>1
        <4> QED BY <3>1, <3>2, <4>1, <4>2
      <3>4. ASSUME NEW s \in now PROVE \E i \in 1..Len(first \o second) : (first \o second)[i] = s
        <4>1. PICK i \in 1..Len(first) : first[i] = s
          BY <1>3
        <4>2. i \in 1..Len(first \o second) /\ i <= Len(first)
          BY <3>1, <3>2
        <4> QED BY <3>1, <4>1, <4>2
      <3> QED BY <3>1, <3>3, <3>4
    <2> QED BY <1>1, <2>1, <2>2
  <1>5. retired' \in [Slot -> BOOLEAN] /\ \A s \in Slot : retired'[s] <=> retired[s] \/ s \in now
    BY <1>1 DEF SlotsInv, TypeOK
  <1>6. TypeOK'
    <2>1. /\ config' \in [Provider -> {"none", "enabled", "disabled"}] /\ current' \in [Provider -> 0..MaxGen]
          /\ pending' \subseteq Slot
          /\ closer' \in [pc : {"open", "waitIdle", "closing", "waitClosed", "closed"}, todo : Seq(Slot)]
      BY <1>1, <1>2, <1>4, SlotsAssumption
    <2> QED BY <1>1, <1>5, <2>1 DEF SlotsInv, TypeOK
  <1>7. CountedRight'
    BY <1>1 DEF SlotsInv, CountedRight, Users
  <1>8. Lasting
    BY <1>1, <1>5 DEF Lasting
  <1>9. \A u \in Task : TaskCoherent(u)'
    BY <1>1, <1>8, TaskKeeps DEF SlotsInv, TaskCoherent
  <1>10. CloserCoherent' /\ PendingIsRetired'
    <2>1. \A s \in now \cup pending : Exists(s)' /\ retired'[s]
      BY <1>1, <1>2, <1>5 DEF Exists
    <2> QED BY <1>1, <1>4, <2>1 DEF CloserCoherent, PendingIsRetired
  <1>11. ASSUME NEW s \in Slot PROVE SlotCoherent(s)'
    <2>1. SlotCoherent(s) /\ (s \in now => Exists(s) /\ instance[s] = "open")
      BY <1>2 DEF SlotsInv
    <2>2. s \in now => Awaited(s)'
      BY <1>4 DEF Awaited
    <2>3. Awaited(s) => Awaited(s)'
      BY <1>1, <1>4 DEF Awaited, At
    <2>4. BeingClosed(s) => BeingClosed(s)'
      BY <1>1 DEF BeingClosed, At
    <2> QED BY <1>1, <1>5, <2>1, <2>2, <2>3, <2>4 DEF SlotCoherent, Exists
  <1>12. ClosedOnce'
    BY <1>1, <1>4 DEF SlotsInv, ClosedOnce, At
  <1>13. ServedIsOpen' /\ StoreInv'
    BY <1>1, <1>4 DEF ServedIsOpen, StoreInv
  <1> QED BY <1>6, <1>7, <1>9, <1>10, <1>11, <1>12, <1>13 DEF SlotsInv

(* close() begins with a slot that is idle, closes it, or waits for whoever  *)
(* does, and goes to the next.                                               *)
LEMMA CloserMoves ==
    ASSUME SlotsInv, NEW s \in Slot, closer.todo # <<>>, s = Head(closer.todo),
           UNCHANGED <<config, stored, current, gens, active, retired, lock, task>>,
           closer.pc # "open", closer'.pc # "open", PendingIsRetired',
           TypeOK', CloserCoherent', ClosedOnce', SlotCoherent(s)',
           \A r \in Slot : r # s => instance'[r] = instance[r],
           instance[s] # "absent" => instance'[s] # "absent",
           \A i \in 1..Len(closer.todo) : closer.todo[i] # s =>
              \E j \in 1..Len(closer'.todo) : closer'.todo[j] = closer.todo[i]
    PROVE  SlotsInv'
  <1>1. Lasting
    BY DEF Lasting
  <1>2. CountedRight'
    BY DEF SlotsInv, CountedRight, Users
  <1>3. \A u \in Task : TaskCoherent(u)'
    BY <1>1, TaskKeeps DEF SlotsInv, TaskCoherent
  <1>4. ASSUME NEW r \in Slot, r # s PROVE SlotCoherent(r)'
    <2>1. Awaited(r) => Awaited(r)'
      BY <1>4 DEF Awaited, At
    <2>2. BeingClosed(r) => BeingClosed(r)'
      BY <1>4 DEF BeingClosed, At
    <2> QED BY <1>4, <2>1, <2>2, SlotKeeps
  <1>5. ServedIsOpen'
    <2>1. s \in Slot /\ retired[s]
      BY DEF SlotsInv, CloserCoherent, TypeOK
    <2>2. \A p \in Provider : current[p] # 0 => <<p, current[p]>> \in Slot /\ <<p, current[p]>> # s
      BY <2>1, CurrentExists DEF Exists
    <2> QED BY <2>2 DEF SlotsInv, ServedIsOpen
  <1>6. StoreInv'
    BY DEF StoreInv
  <1> QED BY <1>2, <1>3, <1>4, <1>5, <1>6 DEF SlotsInv
LEMMA CloseGoesOnKeeps ==
    ASSUME SlotsInv, CloseGoesOn
    PROVE  SlotsInv'
  <1>1. /\ closer.pc \notin {"open", "closed"}
        /\ UNCHANGED <<config, stored, current, gens, active, retired, lock, task>>
        /\ closer \in [pc : {"open", "waitIdle", "closing", "waitClosed", "closed"}, todo : Seq(Slot)]
        /\ instance \in [Slot -> {"absent", "open", "closing", "closed"}] /\ pending \subseteq Slot
    BY DEF CloseGoesOn, SlotsInv, TypeOK
  <1>2. CASE closer.todo = <<>>
    <2>1. /\ closer' = [closer EXCEPT !.pc = "closed"] /\ UNCHANGED <<instance, pending>>
          /\ closer'.pc = "closed" /\ closer'.todo = <<>>
          /\ closer' \in [pc : {"open", "waitIdle", "closing", "waitClosed", "closed"}, todo : Seq(Slot)]
      BY <1>1, <1>2 DEF CloseGoesOn
    <2>2. closer.pc = "waitIdle"
      BY <1>1, <1>2 DEF SlotsInv, CloserCoherent
    <2>3. TypeOK' /\ CountedRight'
      BY <1>1, <2>1 DEF SlotsInv, TypeOK, CountedRight, Users
    <2>4. Lasting
      BY <1>1, <2>1 DEF Lasting
    <2>5. \A u \in Task : TaskCoherent(u)'
      BY <1>1, <2>1, <2>4, TaskKeeps DEF SlotsInv, TaskCoherent
    <2>6. CloserCoherent' /\ ServedIsOpen' /\ StoreInv' /\ PendingIsRetired'
      BY <1>1, <2>1 DEF SlotsInv, CloserCoherent, ServedIsOpen, StoreInv, PendingIsRetired, Exists
    <2>7. ASSUME NEW s \in Slot PROVE SlotCoherent(s)'
      <3>1. Awaited(s) => Awaited(s)'
        BY <1>1, <1>2, <2>1 DEF Awaited, At
      <3>2. BeingClosed(s) => BeingClosed(s)'
        BY <1>1, <2>2 DEF BeingClosed, At
      <3> QED BY <1>1, <2>1, <3>1, <3>2, SlotKeeps
    <2>8. ClosedOnce'
      BY <1>1, <2>1 DEF SlotsInv, ClosedOnce, At
    <2> QED BY <2>3, <2>5, <2>6, <2>7, <2>8 DEF SlotsInv
  <1>3. CASE closer.todo # <<>>
    <2>1. PICK s \in Slot : s = Head(closer.todo) /\ Exists(s) /\ retired[s]
      <3>1. Head(closer.todo) = closer.todo[1] /\ 1 \in 1..Len(closer.todo)
        BY <1>1, <1>3
      <3> QED BY <3>1 DEF SlotsInv, CloserCoherent, Exists
    <2>2. SlotCoherent(s) /\ ClosedOnce
      BY DEF SlotsInv
    <2>3. \A u \in Task : At(u, "closing") => task[u].slot \in Slot /\ instance[task[u].slot] = "closing"
      BY ClosingSlots
    <2>4. /\ Tail(closer.todo) \in Seq(Slot)
          /\ \A i \in 1..Len(Tail(closer.todo)) : Exists(Tail(closer.todo)[i]) /\ retired[Tail(closer.todo)[i]]
          /\ \A i \in 1..Len(closer.todo) : closer.todo[i] # s =>
               \E j \in 1..Len(Tail(closer.todo)) : Tail(closer.todo)[j] = closer.todo[i]
      <3>1. /\ Tail(closer.todo) \in Seq(Slot) /\ Len(closer.todo) \in Nat
            /\ Len(Tail(closer.todo)) = Len(closer.todo) - 1
            /\ \A i \in 1..Len(Tail(closer.todo)) :
                 i + 1 \in 1..Len(closer.todo) /\ Tail(closer.todo)[i] = closer.todo[i + 1]
        BY <1>1, <1>3
      <3>2. ASSUME NEW i \in 1..Len(closer.todo), closer.todo[i] # s
            PROVE  \E j \in 1..Len(Tail(closer.todo)) : Tail(closer.todo)[j] = closer.todo[i]
        <4>1. i # 1
          BY <1>1, <1>3, <2>1, <3>2
        <4>2. i - 1 \in 1..Len(Tail(closer.todo)) /\ (i - 1) + 1 = i
          BY <3>1, <4>1
        <4> QED BY <3>1, <4>2
      <3> QED BY <3>1, <3>2 DEF SlotsInv, CloserCoherent
    <2>5. CASE closer.pc = "waitIdle"
      <3> DEFINE begins == instance[s] = "open"
      <3>1. /\ active[s] = 0 /\ UNCHANGED pending
            /\ closer' = [closer EXCEPT !.pc = ClosePC(s, TRUE)]
            /\ instance' = [instance EXCEPT ![s] = ClosingBegins(s, TRUE)]
        BY <1>3, <2>1, <2>5 DEF CloseGoesOn
      <3>2. /\ closer'.pc = (IF begins THEN "closing" ELSE "waitClosed") /\ closer'.todo = closer.todo
            /\ closer' \in [pc : {"open", "waitIdle", "closing", "waitClosed", "closed"}, todo : Seq(Slot)]
            /\ instance' \in [Slot -> {"absent", "open", "closing", "closed"}]
            /\ instance'[s] = (IF begins THEN "closing" ELSE instance[s])
            /\ \A r \in Slot : r # s => instance'[r] = instance[r]
        BY <1>1, <3>1 DEF ClosePC, ClosingBegins
      <3>3. TypeOK'
        BY <1>1, <3>1, <3>2 DEF SlotsInv, TypeOK
      <3>4. CloserCoherent' /\ PendingIsRetired'
        <4>1. \A r \in Slot : Exists(r) => Exists(r)'
          BY <3>2 DEF Exists
        <4>2. CloserCoherent /\ PendingIsRetired /\ \A r : Exists(r) => r \in Slot
          BY DEF SlotsInv, Exists
        <4>3. CloserCoherent'
          BY <1>1, <1>3, <3>2, <4>1, <4>2 DEF CloserCoherent
        <4>4. PendingIsRetired'
          BY <1>1, <3>1, <4>1, <4>2 DEF PendingIsRetired
        <4> QED BY <4>3, <4>4
      <3>5. SlotCoherent(s)'
        <4>1. begins => BeingClosed(s)'
          BY <2>1, <3>2 DEF BeingClosed
        <4>2. BeingClosed(s) => BeingClosed(s)'
          BY <1>1, <2>5 DEF BeingClosed, At
        <4> QED BY <1>1, <2>1, <2>2, <3>1, <3>2, <4>1, <4>2 DEF SlotCoherent
      <3>6. ClosedOnce'
        <4>1. \A u \in Task : At(u, "closing") =>
                 instance'[task[u].slot] = "closing" /\ (begins => task[u].slot # s)
          BY <2>3, <3>2
        <4>2. closer'.pc = "closing" => begins /\ instance'[s] = "closing" /\ Head(closer'.todo) = s
          BY <2>1, <3>2
        <4> QED BY <1>1, <2>2, <4>1, <4>2 DEF ClosedOnce, At
      <3> QED BY <1>1, <1>3, <2>1, <3>1, <3>2, <3>3, <3>4, <3>5, <3>6, CloserMoves
    <2>6. CASE closer.pc \in {"closing", "waitClosed"}
      <3>1. /\ closer' = [pc |-> "waitIdle", todo |-> Tail(closer.todo)]
            /\ pending' \subseteq pending
            /\ instance' \in [Slot -> {"absent", "open", "closing", "closed"}]
            /\ instance'[s] = "closed"
            /\ \A r \in Slot : r # s => instance'[r] = instance[r]
            /\ \/ instance[s] = "closing" /\ closer.pc = "closing"
               \/ instance[s] = "closed" /\ closer.pc = "waitClosed"
        <4>1. CASE closer.pc = "closing"
          BY <1>1, <1>3, <2>1, <2>2, <4>1 DEF CloseGoesOn, ClosedOnce
        <4>2. CASE closer.pc = "waitClosed"
          BY <1>1, <1>3, <2>1, <4>2 DEF CloseGoesOn
        <4> QED BY <2>6, <4>1, <4>2
      <3>2. TypeOK'
        BY <1>1, <2>4, <3>1 DEF SlotsInv, TypeOK
      <3>3. \A r \in Slot : Exists(r) => Exists(r)'
        BY <3>1 DEF Exists
      <3>4. CloserCoherent' /\ PendingIsRetired'
        BY <1>1, <2>4, <3>1, <3>3 DEF SlotsInv, CloserCoherent, PendingIsRetired, Exists
      <3>5. SlotCoherent(s)'
        BY <1>1, <2>1, <2>2, <3>1 DEF SlotCoherent
      <3>6. \A u \in Task : At(u, "closing") => task[u].slot # s
        BY <2>1, <2>2, <2>3, <2>6, <3>1 DEF ClosedOnce
      <3>7. ClosedOnce'
        BY <1>1, <2>2, <2>3, <3>1, <3>6 DEF ClosedOnce, At
      <3> QED BY <1>1, <1>3, <2>1, <2>4, <3>1, <3>2, <3>4, <3>5, <3>7, CloserMoves
    <2> QED BY <1>1, <2>5, <2>6
  <1> QED BY <1>2, <1>3
-----------------------------------------------------------------------------
LEMMA SlotsInit == Init => SlotsInv
  <1> SUFFICES ASSUME Init PROVE SlotsInv
    OBVIOUS
  <1>1. \A s \in Slot : Users(s) = {}
    BY DEF Init, Users, Idle
  <1>2. Cardinality({}) = 0 /\ Cardinality(Task) \in Nat
    BY FS_EmptySet, FS_CardinalityType, SlotsAssumption
  <1>3. CountedRight
    BY <1>1, <1>2 DEF Init, CountedRight
  <1>4. TypeOK
    <2>1. Idle \in Request
      BY DEF Idle, Request, PC
    <2>2. closer \in [pc : {"open", "waitIdle", "closing", "waitClosed", "closed"}, todo : Seq(Slot)]
      <3>1. <<>> \in Seq(Slot)
        OBVIOUS
      <3> QED BY <3>1 DEF Init
    <2> QED BY <1>2, <2>1, <2>2, SlotsAssumption DEF Init, TypeOK
  <1>5. \A t \in Task : TaskCoherent(t)
    BY DEF Init, TaskCoherent, At, Idle
  <1>6. CloserCoherent /\ ServedIsOpen /\ StoreInv /\ PendingIsRetired
    BY DEF Init, CloserCoherent, ServedIsOpen, StoreInv, PendingIsRetired
  <1>7. \A s \in Slot : SlotCoherent(s)
    BY DEF Init, SlotCoherent, Slot
  <1>8. ClosedOnce
    BY DEF Init, ClosedOnce, At, Idle
  <1> QED BY <1>3, <1>4, <1>5, <1>6, <1>7, <1>8 DEF SlotsInv

LEMMA SlotsNext == SlotsInv /\ [Next]_vars => SlotsInv'
  <1> SUFFICES ASSUME SlotsInv, [Next]_vars PROVE SlotsInv'
    OBVIOUS
  <1>1. ASSUME NEW t \in Task, Step(t) PROVE SlotsInv'
    <2>1. CASE Acquire(t)
      BY <2>1, AcquireKeeps
    <2>2. CASE CallEnds(t) \/ ReplaceFails(t)
      BY <2>2, SmallStepsKeep
    <2>3. CASE Release(t)
      BY <2>3, ReleaseKeeps
    <2>4. CASE BeginReplace(t)
      BY <2>4, BeginReplaceKeeps
    <2>5. CASE Publish(t)
      BY <2>5, PublishKeeps
    <2>6. CASE Delete(t)
      BY <2>6, DeleteKeeps
    <2>7. CASE BecomesIdle(t)
      BY <2>7, BecomesIdleKeeps
    <2>8. CASE InstanceClosed(t)
      BY <2>8, InstanceClosedKeeps
    <2> QED BY <1>1, <2>1, <2>2, <2>3, <2>4, <2>5, <2>6, <2>7, <2>8 DEF Step
  <1>2. CASE UNCHANGED vars
    BY <1>2 DEF vars, SlotsInv, TypeOK, CountedRight, Users, TaskCoherent, CloserCoherent, ServedIsOpen,
                SlotCoherent, Awaited, BeingClosed, ClosedOnce, PendingIsRetired, StoreInv, Exists, At
  <1>3. CASE Next
    BY <1>1, <1>3, AskKeeps, SmallStepsKeep, CloseKeeps, CloseGoesOnKeeps DEF Next
  <1> QED BY <1>2, <1>3

(* The counts of the slots, what is served, who waits for an idle slot and   *)
(* who closes it fit together (ProviderManager, _ProviderSlot).              *)
THEOREM SlotsCoherent == Spec => []SlotsInv
  <1>1. Init => SlotsInv
    BY SlotsInit
  <1>2. SlotsInv /\ [Next]_vars => SlotsInv'
    BY SlotsNext
  <1> QED BY <1>1, <1>2, PTL DEF Spec

(* No call uses an instance that is being closed: one that uses it is        *)
(* counted, and what is being closed has no count (_acquire_slot,            *)
(* _release_slot, _close_when_idle). What is served is what is stored, as    *)
(* long as close() has not begun (_replace_provider, delete). A retired      *)
(* instance is closed by its last call or by whoever waits for it, and once. *)
THEOREM ProvidersServeAndClose == Spec => []ProvidersHold
  <1>1. ASSUME SlotsInv PROVE NoneUsedClosed
    <2> SUFFICES ASSUME NEW t \in Task, At(t, "using") PROVE instance[task[t].slot] = "open"
      BY DEF NoneUsedClosed
    <2>1. PICK s \in Slot : s = task[t].slot /\ instance[s] # "absent"
      BY <1>1 DEF SlotsInv, TaskCoherent, Exists, At
    <2>2. t \in Users(s) /\ active[s] = Cardinality(Users(s))
      BY <1>1, <2>1 DEF Users, At, SlotsInv, CountedRight
    <2>3. active[s] # 0
      BY <2>2, UsersFinite
    <2>4. SlotCoherent(s) /\ instance[s] \in {"absent", "open", "closing", "closed"}
      BY <1>1 DEF SlotsInv, TypeOK
    <2> QED BY <2>1, <2>3, <2>4 DEF SlotCoherent
  <1>2. SlotsInv => StoredIsServed
    BY DEF SlotsInv, StoreInv, ServedIsOpen, StoredIsServed
  <1>3. ASSUME SlotsInv PROVE RetiredAreClosed
    <2> SUFFICES ASSUME Quiet, NEW s \in Slot, retired[s], ~Leaked(s) PROVE instance[s] = "closed"
      BY DEF RetiredAreClosed
    <2>1. SlotCoherent(s) /\ instance[s] \in {"absent", "open", "closing", "closed"} /\ active[s] = Cardinality(Users(s))
      BY <1>3 DEF SlotsInv, TypeOK, CountedRight
    <2>2. Users(s) = {} /\ active[s] = 0
      <3>1. Users(s) = {}
        BY DEF Users, Quiet, Leaked, At
      <3> QED BY <2>1, <3>1, FS_EmptySet
    <2>3. closer.todo = <<>>
      BY <1>3 DEF SlotsInv, CloserCoherent, Quiet
    <2>4. ~Awaited(s) /\ ~BeingClosed(s)
      BY <2>3 DEF Awaited, BeingClosed, Quiet, At
    <2> QED BY <2>1, <2>2, <2>4 DEF SlotCoherent
  <1>4. SlotsInv => ProvidersHold
    BY <1>1, <1>2, <1>3 DEF ProvidersHold, SlotsInv
  <1> QED BY <1>4, SlotsCoherent, PTL
=============================================================================
