------------------------ MODULE ShellProcesses_proofs ------------------------
(* Proofs about ShellProcesses for any starts, owners, readers, limits and   *)
(* output: the limits hold for what is registered, none of it that may be    *)
(* killed survives close(), and what callers read has no gaps unless they    *)
(* ask for offsets they were not given.                                      *)
EXTENDS ShellProcesses, FiniteSetTheorems, WellFoundedInduction, TLAPS

-----------------------------------------------------------------------------
(* Numbers: what Max and Min of the library return.                          *)

LEMMA MinOfNaturals ==
    ASSUME NEW S \in SUBSET Nat, S # {}
    PROVE  Min(S) \in S /\ \A x \in S : Min(S) <= x
  <1>1. \E x \in S : \A y \in S : ~(<<y, x>> \in OpToRel(<, Nat))
    BY WFMin, NatLessThanWellFounded
  <1>2. \E x \in S : \A y \in S : x <= y
    <2>1. PICK x \in S : \A y \in S : ~(<<y, x>> \in OpToRel(<, Nat))
      BY <1>1
    <2>2. ASSUME NEW y \in S PROVE x <= y
      <3>1. <<y, x>> \in Nat \X Nat
        OBVIOUS
      <3>2. ~(y < x)
        BY <2>1, <3>1 DEF OpToRel
      <3> QED BY <3>2
    <2> QED BY <2>2
  <1> QED BY <1>2 DEF Min

LEMMA MaxOfTwo ==
    ASSUME NEW a \in Nat, NEW b \in Nat
    PROVE  Max({a, b}) = IF a >= b THEN a ELSE b
  <1>1. \E x \in {a, b} : \A y \in {a, b} : x >= y
    OBVIOUS
  <1>2. Max({a, b}) \in {a, b} /\ \A y \in {a, b} : Max({a, b}) >= y
    BY <1>1 DEF Max
  <1> QED BY <1>2

-----------------------------------------------------------------------------
(* The output buffer.                                                        *)

(* The kept events begin at offsets of what was written.                     *)
Buffer == {o \in [events : Seq(Nat), end : Nat] :
              \A i \in 1..Len(o.events) : o.events[i] <= o.end}

(* What append keeps is a buffer again, never longer than max_chars, and it  *)
(* ends where the text ends (_OutputBuffer.append).                          *)
LEMMA AppendedBuffer ==
    ASSUME NEW o \in Buffer, NEW n \in Nat \ {0}
    PROVE  /\ Appended(o, n) \in Buffer
           /\ FirstKept(Appended(o, n)) \in 0..Appended(o, n).end
           /\ Appended(o, n).end - FirstKept(Appended(o, n)) <= MaxOutput
  <1> DEFINE events == Append(o.events, o.end)
             end == o.end + n
             fitting == {i \in DOMAIN events : end - events[i] <= MaxOutput}
  <1>1. /\ o.events \in Seq(Nat) /\ o.end \in Nat /\ end \in Nat /\ MaxOutput \in Nat
        /\ MaxOutput # 0
    BY ProcessFacts DEF Buffer
  <1>2. /\ events \in Seq(Nat) /\ Len(events) = Len(o.events) + 1
        /\ DOMAIN events = 1..Len(events)
        /\ events[Len(events)] = o.end
        /\ \A i \in 1..Len(events) : events[i] \in Nat /\ events[i] <= o.end
    BY <1>1 DEF Buffer
  <1>3. /\ \A i : i \in fitting <=> i \in 1..Len(events) /\ end - events[i] <= MaxOutput
        /\ end = o.end + n
    BY <1>2
  <1>4. Appended(o, n) = [events |-> IF fitting = {} THEN <<end - MaxOutput>>
                                     ELSE SubSeq(events, Min(fitting), Len(events)),
                          end |-> end]
    BY DEF Appended
  <1> HIDE DEF events, end, fitting
  <1>5. CASE fitting = {}
    <2>1. Len(events) \in 1..Len(events)
      BY <1>1, <1>2
    <2>2. ~(end - o.end <= MaxOutput)
      <3>1. ~(end - events[Len(events)] <= MaxOutput)
        BY <1>3, <1>5, <2>1
      <3> QED BY <1>2, <3>1
    <2>3. end - MaxOutput \in Nat /\ end - MaxOutput <= end
      <3>1. o.end \in Nat /\ end \in Nat /\ MaxOutput \in Nat
        BY <1>1
      <3> QED BY <2>2, <3>1
    <2>4. Appended(o, n) = [events |-> <<end - MaxOutput>>, end |-> end]
      BY <1>4, <1>5
    <2>5. FirstKept(Appended(o, n)) = end - MaxOutput
      BY <2>4 DEF FirstKept
    <2>6. Appended(o, n) \in Buffer
      BY <1>1, <2>3, <2>4 DEF Buffer
    <2> QED BY <1>1, <2>3, <2>4, <2>5, <2>6
  <1>6. CASE fitting # {}
    <2> DEFINE m == Min(fitting)
               kept == SubSeq(events, m, Len(events))
    <2>1. m \in fitting
      <3>1. fitting \in SUBSET Nat
        BY <1>2, <1>3
      <3> QED BY <1>6, <3>1, MinOfNaturals
    <2>2. m \in 1..Len(events) /\ end - events[m] <= MaxOutput
      BY <1>3, <2>1
    <2>3. Appended(o, n) = [events |-> kept, end |-> end]
      BY <1>4, <1>6
    <2> HIDE DEF m
    <2>4. /\ kept \in Seq(Nat) /\ Len(kept) = Len(events) - m + 1
          /\ \A i \in 1..Len(kept) : kept[i] = events[m + i - 1]
      BY <1>1, <1>2, <2>2
    <2> HIDE DEF kept
    <2>5. kept # <<>> /\ kept[1] = events[m]
      <3>1. m \in Nat /\ Len(events) \in Nat /\ m <= Len(events)
        BY <1>2, <2>2
      <3>2. Len(kept) \in Nat /\ Len(kept) >= 1 /\ m + 1 - 1 = m
        BY <2>4, <3>1
      <3>3. kept[1] = events[m + 1 - 1]
        BY <2>4, <3>2
      <3>4. kept # <<>>
        BY <2>4, <3>2
      <3> QED BY <3>2, <3>3, <3>4
    <2>6. ASSUME NEW i \in 1..Len(kept) PROVE kept[i] <= end
      <3>1. m + i - 1 \in 1..Len(events)
        BY <1>1, <1>2, <2>2, <2>4
      <3>2. kept[i] \in Nat /\ kept[i] <= o.end
        BY <1>2, <2>4, <3>1
      <3> QED BY <1>1, <1>3, <3>2
    <2>7. Appended(o, n) \in Buffer
      BY <1>1, <2>3, <2>4, <2>6 DEF Buffer
    <2>8. FirstKept(Appended(o, n)) = events[m]
      BY <2>3, <2>5 DEF FirstKept
    <2>9. events[m] \in 0..end
      <3>1. events[m] \in Nat /\ events[m] <= o.end
        BY <1>2, <2>2
      <3>2. o.end <= end /\ o.end \in Nat /\ end \in Nat
        BY <1>1, <1>3
      <3> QED BY <3>1, <3>2
    <2> QED BY <2>2, <2>3, <2>7, <2>8, <2>9
  <1> QED BY <1>5, <1>6

(* What is returned begins where the read was asked to begin, or where the   *)
(* kept output begins, and does not end before (_OutputBuffer.read).         *)
LEMMA ReadRangeType ==
    ASSUME NEW o, FirstKept(o) \in Nat, o.end \in Nat, NEW from \in Nat, NEW max \in Nat
    PROVE  /\ ReadRange(o, from, max)[1] \in Nat /\ ReadRange(o, from, max)[2] \in Nat
           /\ ReadRange(o, from, max)[1] <= ReadRange(o, from, max)[2]
           /\ ReadRange(o, from, max)[1] = IF from >= FirstKept(o) THEN from ELSE FirstKept(o)
  <1> DEFINE first == Max({from, FirstKept(o)})
             next == IF first >= o.end THEN first ELSE Min({o.end, first + max})
  <1>1. first = IF from >= FirstKept(o) THEN from ELSE FirstKept(o)
    BY MaxOfTwo
  <1>2. first \in Nat
    BY <1>1
  <1>3. {o.end, first + max} \in SUBSET Nat
    BY <1>2
  <1>4. Min({o.end, first + max}) \in {o.end, first + max}
    BY <1>3, MinOfNaturals
  <1>5. ReadRange(o, from, max)[1] = first /\ ReadRange(o, from, max)[2] = next
    BY DEF ReadRange
  <1> HIDE DEF first
  <1>6. next \in Nat /\ first <= next
    BY <1>2, <1>4
  <1> QED BY <1>1, <1>2, <1>5, <1>6

-----------------------------------------------------------------------------
(* The inductive invariant. The limits count what is alive, the start counts *)
(* what is registered: they agree because whatever is alive is registered as *)
(* running, and a start in progress holds the lock and is counted as well.   *)

BuffersKept == output \in [Process -> Buffer]

AliveIsRunning ==
    \A p \in Process : leader[p] \/ child[p] = "attached" => phase[p] \in {"running", "lost"}

RunningIsKnown == \A p \in Process : phase[p] = "running" => p \in known

LockIsHeld == \A p \in Process : phase[p] = "spawning" <=> lock = p

Counted == {p \in Process : phase[p] \in {"running", "spawning"}}

CountedOf(o) == {p \in Counted : OwnerOf[p] = o}

CountsKept ==
    /\ IsFiniteSet(Counted)
    /\ Cardinality(Counted) <= MaxProcesses
    /\ \A o \in Owner : Cardinality(CountedOf(o)) <= MaxPerOwner

(* Once close() has listed the processes, whatever runs and may be killed is *)
(* on its list until it is dead.                                             *)
CloseCovers ==
    /\ close \in {"stopping", "closed"} =>
          /\ lock = None
          /\ \A p \in Process \ Unkillable : phase[p] = "running" /\ Alive(p) => p \in toStop
    /\ close = "closed" => toStop = {}

(* A read goes on from an offset the position has reached.                   *)
ReadsBehind ==
    \A r \in Reader : reading[r] # None => reading[r].from <= position[reading[r].process]

ProcessInv ==
    /\ TypeOK
    /\ BuffersKept
    /\ AliveIsRunning
    /\ RunningIsKnown
    /\ LockIsHeld
    /\ CountsKept
    /\ CloseCovers

LEMMA ProcessInit == Init => ProcessInv
  <1> SUFFICES ASSUME Init PROVE ProcessInv
    OBVIOUS
  <1>1. \A p \in Process : /\ FirstKept(output[p]) = 0 /\ output[p].end = 0
                          /\ output[p] \in Buffer
    BY DEF Init, FirstKept, Buffer
  <1>2. TypeOK
    BY <1>1, ProcessFacts DEF Init, TypeOK
  <1>3. BuffersKept
    BY <1>1 DEF Init, BuffersKept
  <1>4. Counted = {} /\ \A o \in Owner : CountedOf(o) = {}
    BY DEF Init, Counted, CountedOf
  <1>5. CountsKept
    BY <1>4, FS_EmptySet, ProcessFacts DEF CountsKept
  <1> QED BY <1>2, <1>3, <1>5, ProcessFacts DEF Init, ProcessInv, AliveIsRunning,
             RunningIsKnown, LockIsHeld, CloseCovers

(* What one step of the operating system or of a caller does to a process.   *)
ProcessSteps(p) ==
    \/ CallStart(p) \/ Admit(p) \/ Spawned(p) \/ Lost(p) \/ StartEnds(p)
    \/ CommandExits(p) \/ ChildExits(p) \/ Expire(p) \/ Disarm(p) \/ PumpEnds(p) \/ Stop(p)
    \/ CloseStops(p) \/ CloseGoesOn(p)

CloseSteps == Close \/ CloseLists \/ CloseEnds

OutputSteps ==
    \/ \E p \in Process, n \in Chunks : Write(p, n)
    \/ \E r \in Reader, p \in Process, since \in {None} \cup 0..EndBound, max \in 1..2 :
          BeginRead(r, p, since, max)
    \/ \E r \in Reader : EndRead(r)

LEMMA StepsOfNext ==
    ASSUME Next
    PROVE  (\E p \in Process : ProcessSteps(p)) \/ CloseSteps \/ OutputSteps
  BY DEF Next, ProcessSteps, CloseSteps, OutputSteps

LEMMA TypeNext == TypeOK /\ BuffersKept /\ [Next]_vars => TypeOK' /\ BuffersKept'
  <1> SUFFICES ASSUME TypeOK, BuffersKept, [Next]_vars PROVE TypeOK' /\ BuffersKept'
    OBVIOUS
  <1> USE ProcessFacts
  <1>1. ASSUME NEW p \in Process, ProcessSteps(p) PROVE TypeOK' /\ BuffersKept'
    <2>1. UNCHANGED readVars
      BY <1>1 DEF ProcessSteps, CallStart, Admit, Spawned, Lost, StartEnds, CommandExits, ChildExits,
         Expire, Disarm, PumpEnds, Stop, CloseStops, CloseGoesOn
    <2>2. /\ phase' \in [Process -> {"new", "waiting", "spawning", "running", "lost", "exited", "refused"}]
          /\ lock' \in Process \cup {None}
      BY <1>1 DEF TypeOK, ProcessSteps, CallStart, Admit, Spawned, Lost, StartEnds, CommandExits,
         ChildExits, Expire, Disarm, PumpEnds, Stop, CloseStops, CloseGoesOn, Kills, startVars
    <2>3. known' \in SUBSET Process /\ before' \in [Process -> SUBSET Process]
      BY <1>1 DEF TypeOK, ProcessSteps, CallStart, Admit, Spawned, Lost, StartEnds, CommandExits,
         ChildExits, Expire, Disarm, PumpEnds, Stop, CloseStops, CloseGoesOn, startVars, Remembered
    <2>4. /\ leader' \in [Process -> BOOLEAN] /\ deadline' \in [Process -> BOOLEAN]
          /\ child' \in [Process -> {"attached", "quiet", "none"}]
      <3>1. CASE UNCHANGED osVars
        BY <3>1 DEF TypeOK, osVars
      <3>2. CASE Spawned(p) \/ Lost(p)
        BY <3>2 DEF TypeOK, Spawned, Lost
      <3>3. CASE Disarm(p)
        BY <3>3 DEF TypeOK, Disarm
      <3>4. CASE ChildExits(p)
        BY <3>4 DEF TypeOK, ChildExits
      <3>5. CASE CommandExits(p)
        <4>1. PICK c \in Children \cup {"none"} : child' = [child EXCEPT ![p] = c]
          BY <3>5 DEF CommandExits
        <4>2. c \in {"attached", "quiet", "none"}
          OBVIOUS
        <4>3. leader' = [leader EXCEPT ![p] = FALSE] /\ UNCHANGED deadline
          BY <3>5 DEF CommandExits
        <4> QED BY <4>1, <4>2, <4>3 DEF TypeOK
      <3>6. CASE Kills(p)
        BY <3>6 DEF TypeOK, Kills
      <3> QED BY <1>1, <3>1, <3>2, <3>3, <3>4, <3>5, <3>6 DEF ProcessSteps, CallStart, Admit,
                 StartEnds, Expire, PumpEnds, Stop, CloseStops, CloseGoesOn
    <2>5. close' \in {"open", "closing", "stopping", "closed"} /\ toStop' \in SUBSET Process
      BY <1>1 DEF TypeOK, ProcessSteps, CallStart, Admit, Spawned, Lost, StartEnds, CommandExits,
         ChildExits, Expire, Disarm, PumpEnds, Stop, CloseStops, CloseGoesOn, closeVars
    <2> QED BY <2>1, <2>2, <2>3, <2>4, <2>5 DEF TypeOK, BuffersKept, FirstKept, readVars
  <1>2. CASE CloseSteps
    BY <1>2 DEF CloseSteps, Close, CloseLists, CloseEnds, TypeOK, BuffersKept, FirstKept,
       startVars, osVars, readVars
  <1>3. ASSUME NEW p \in Process, NEW n \in Chunks, Write(p, n) PROVE TypeOK' /\ BuffersKept'
    <2>1. n \in Nat \ {0} /\ output[p] \in Buffer
      BY DEF BuffersKept
    <2>2. output' = [output EXCEPT ![p] = Appended(output[p], n)]
      BY <1>3 DEF Write
    <2>3. BuffersKept'
      BY <2>1, <2>2, AppendedBuffer DEF BuffersKept
    <2>4. \A q \in Process :
             /\ FirstKept(output'[q]) \in 0..output'[q].end
             /\ output'[q].end - FirstKept(output'[q]) <= MaxOutput
      <3> SUFFICES ASSUME NEW q \in Process
                   PROVE  /\ FirstKept(output'[q]) \in 0..output'[q].end
                          /\ output'[q].end - FirstKept(output'[q]) <= MaxOutput
        OBVIOUS
      <3>1. CASE q = p
        <4>1. output'[q] = Appended(output[p], n)
          BY <2>2, <3>1 DEF BuffersKept
        <4> QED BY <2>1, <4>1, AppendedBuffer
      <3>2. CASE q # p
        <4>1. output'[q] = output[q]
          BY <2>2, <3>2 DEF BuffersKept
        <4> QED BY <4>1 DEF TypeOK
      <3> QED BY <3>1, <3>2
    <2> QED BY <1>3, <2>3, <2>4 DEF Write, TypeOK, FirstKept, startVars, osVars, closeVars
  <1>4. ASSUME NEW r \in Reader, NEW p \in Process, NEW since \in {None} \cup 0..EndBound,
               NEW max \in 1..2, BeginRead(r, p, since, max)
        PROVE  TypeOK' /\ BuffersKept'
    <2>1. IF since = None THEN position[p] \in Nat ELSE since \in Nat
      BY DEF TypeOK
    <2>2. reading' \in [Reader -> {None} \cup [process : Process, from : Nat, max : Nat]]
      BY <1>4, <2>1 DEF BeginRead, TypeOK
    <2> QED BY <1>4, <2>2 DEF BeginRead, TypeOK, BuffersKept, FirstKept, startVars, osVars, closeVars
  <1>5. ASSUME NEW r \in Reader, EndRead(r) PROVE TypeOK' /\ BuffersKept'
    <2> DEFINE p == reading[r].process
               range == ReadRange(output[p], reading[r].from, reading[r].max)
    <2>1. /\ reading[r] \in [process : Process, from : Nat, max : Nat]
          /\ p \in Process /\ reading[r].from \in Nat /\ reading[r].max \in Nat
      BY <1>5 DEF EndRead, TypeOK
    <2>2. FirstKept(output[p]) \in Nat /\ output[p].end \in Nat /\ position[p] \in Nat
      BY <2>1 DEF TypeOK, BuffersKept, Buffer
    <2>3. range[1] \in Nat /\ range[2] \in Nat
      BY <2>1, <2>2, ReadRangeType
    <2>4. position' = [position EXCEPT ![p] = Max({position[p], range[2]})]
      BY <1>5 DEF EndRead
    <2>5. Max({position[p], range[2]}) \in Nat
      BY <2>2, <2>3, MaxOfTwo
    <2>6. seen' = [seen EXCEPT ![p] = seen[p] \cup (range[1]..(range[2] - 1))
                                         \cup (reading[r].from..(FirstKept(output[p]) - 1))]
      BY <1>5 DEF EndRead
    <2>7. /\ (range[1]..(range[2] - 1)) \subseteq Nat
          /\ (reading[r].from..(FirstKept(output[p]) - 1)) \subseteq Nat
      BY <2>1, <2>2, <2>3
    <2>8. reading' = [reading EXCEPT ![r] = None] /\ UNCHANGED <<startVars, osVars, closeVars, output>>
      BY <1>5 DEF EndRead
    <2> HIDE DEF range, p
    <2>9. position' \in [Process -> Nat] /\ seen' \in [Process -> SUBSET Nat]
      BY <2>1, <2>4, <2>5, <2>6, <2>7 DEF TypeOK
    <2> QED BY <2>8, <2>9 DEF TypeOK, BuffersKept, FirstKept, startVars, osVars, closeVars
  <1>6. CASE UNCHANGED vars
    BY <1>6 DEF vars, TypeOK, BuffersKept, FirstKept
  <1> QED BY <1>1, <1>2, <1>3, <1>4, <1>5, <1>6, StepsOfNext DEF OutputSteps

(* Fewer starts and running processes are within the limits still.           *)
LEMMA FewerCounted ==
    ASSUME CountsKept, Counted' \subseteq Counted
    PROVE  CountsKept'
  <1>1. /\ IsFiniteSet(Counted') /\ Cardinality(Counted') <= Cardinality(Counted)
        /\ Cardinality(Counted') \in Nat /\ Cardinality(Counted) \in Nat
    BY FS_Subset, FS_CardinalityType DEF CountsKept
  <1>2. ASSUME NEW o \in Owner PROVE Cardinality(CountedOf(o)') <= MaxPerOwner
    <2>1. CountedOf(o) \subseteq Counted /\ CountedOf(o)' \subseteq CountedOf(o)
      BY DEF CountedOf
    <2>2. IsFiniteSet(CountedOf(o)) /\ IsFiniteSet(CountedOf(o)')
      BY <2>1, FS_Subset DEF CountsKept
    <2>3. Cardinality(CountedOf(o)') <= Cardinality(CountedOf(o))
      BY <2>1, <2>2, FS_Subset
    <2>4. Cardinality(CountedOf(o)') \in Nat /\ Cardinality(CountedOf(o)) \in Nat
      BY <2>2, FS_CardinalityType
    <2> QED BY <2>3, <2>4, ProcessFacts DEF CountsKept
  <1> QED BY <1>1, <1>2, ProcessFacts DEF CountsKept

(* A start that is admitted is counted from then on. No other start is in    *)
(* progress, so that the running processes the limits look at are all that   *)
(* is counted.                                                               *)
LEMMA AdmittedCounted ==
    ASSUME ProcessInv, NEW p \in Process, phase[p] = "waiting", lock = None, WithinLimits(p),
           phase' = [phase EXCEPT ![p] = "spawning"]
    PROVE  CountsKept'
  <1> USE ProcessFacts
  <1>1. phase \in [Process -> {"new", "waiting", "spawning", "running", "lost", "exited", "refused"}]
    BY DEF ProcessInv, TypeOK
  <1>2. Counted = Running
    BY DEF ProcessInv, LockIsHeld, RunningIsKnown, TypeOK, Counted, Running
  <1>3. Counted' = Counted \cup {p} /\ p \notin Counted
    BY <1>1 DEF Counted
  <1>4. IsFiniteSet(Counted) /\ Cardinality(Counted) \in Nat
    BY FS_CardinalityType DEF ProcessInv, CountsKept
  <1>5. IsFiniteSet(Counted') /\ Cardinality(Counted') = Cardinality(Counted) + 1
    BY <1>3, <1>4, FS_AddElement
  <1>6. Cardinality(Counted') <= MaxProcesses
    BY <1>2, <1>4, <1>5 DEF WithinLimits
  <1>7. ASSUME NEW o \in Owner PROVE Cardinality(CountedOf(o)') <= MaxPerOwner
    <2>1. IsFiniteSet(CountedOf(o)) /\ Cardinality(CountedOf(o)) \in Nat
      BY <1>4, FS_Subset, FS_CardinalityType DEF CountedOf
    <2>2. CASE o = OwnerOf[p]
      <3>1. CountedOf(o)' = CountedOf(o) \cup {p} /\ p \notin CountedOf(o)
        BY <1>3, <2>2 DEF CountedOf
      <3>2. CountedOf(o) = {q \in Running : OwnerOf[q] = OwnerOf[p]}
        BY <1>2, <2>2 DEF CountedOf
      <3>3. Cardinality(CountedOf(o)) < MaxPerOwner
        BY <3>2 DEF WithinLimits
      <3>4. Cardinality(CountedOf(o)') = Cardinality(CountedOf(o)) + 1
        BY <2>1, <3>1, FS_AddElement
      <3> QED BY <2>1, <3>3, <3>4
    <2>3. CASE o # OwnerOf[p]
      <3>1. CountedOf(o)' = CountedOf(o)
        BY <1>3, <2>3 DEF CountedOf
      <3> QED BY <3>1 DEF ProcessInv, CountsKept
    <2> QED BY <2>2, <2>3
  <1> QED BY <1>5, <1>6, <1>7 DEF CountsKept

(* What a process's step keeps of the rest of the invariant: everything but  *)
(* the types and the buffers.                                                *)
Registered == AliveIsRunning /\ RunningIsKnown /\ LockIsHeld /\ CountsKept /\ CloseCovers

LEMMA RegisteredNext ==
    ASSUME ProcessInv, NEW p \in Process, ProcessSteps(p)
    PROVE  Registered'
  <1> USE DEF Registered
  <1>1. ProcessInv /\ TypeOK /\ Registered
    BY DEF ProcessInv
  <1>2. CASE CallStart(p)
    <2>1. Counted' \subseteq Counted
      BY <1>1, <1>2 DEF CallStart, Counted, TypeOK
    <2> QED BY <1>1, <1>2, <2>1, FewerCounted DEF CallStart, TypeOK, AliveIsRunning, RunningIsKnown,
               LockIsHeld, CloseCovers, Alive, osVars, closeVars
  <1>3. CASE Admit(p)
    <2>1. CASE close = "open" /\ WithinLimits(p)
      <3>1. phase' = [phase EXCEPT ![p] = "spawning"] /\ lock' = p /\ lock = None /\ phase[p] = "waiting"
        BY <1>3, <2>1 DEF Admit, StartLockFree
      <3>2. CountsKept'
        BY <1>1, <2>1, <3>1, AdmittedCounted
      <3> QED BY <1>1, <1>3, <2>1, <3>1, <3>2, ProcessFacts DEF Admit, TypeOK, AliveIsRunning,
                 RunningIsKnown, LockIsHeld, CloseCovers, Alive, osVars, closeVars
    <2>2. CASE ~(close = "open" /\ WithinLimits(p))
      <3>1. phase' = [phase EXCEPT ![p] = "refused"] /\ UNCHANGED lock /\ phase[p] = "waiting"
        BY <1>3, <2>2 DEF Admit
      <3>2. Counted' \subseteq Counted
        BY <1>1, <3>1 DEF Counted, TypeOK
      <3> QED BY <1>1, <1>3, <3>1, <3>2, FewerCounted DEF Admit, TypeOK, AliveIsRunning,
                 RunningIsKnown, LockIsHeld, CloseCovers, Alive, osVars, closeVars
    <2> QED BY <2>1, <2>2
  <1>4. CASE Spawned(p)
    <2>1. /\ phase[p] = "spawning" /\ phase' = [phase EXCEPT ![p] = "running"]
          /\ leader' = [leader EXCEPT ![p] = TRUE]
          /\ lock' = None /\ UNCHANGED <<child, close, toStop>>
          /\ known' = Remembered(known \cup {p}, before')
      BY <1>4 DEF Spawned, closeVars
    <2>2. Counted' \subseteq Counted
      BY <1>1, <2>1 DEF Counted, TypeOK
    <2>3. \A q \in known \cup {p} : phase[q] # "exited" => q \in known'
      BY <2>1 DEF Remembered
    <2>4. lock = p
      BY <1>1, <2>1 DEF LockIsHeld
    <2>5. close \notin {"stopping", "closed"}
      BY <1>1, <2>4, ProcessFacts DEF CloseCovers
    <2>6. RunningIsKnown'
      BY <1>1, <2>1, <2>3 DEF RunningIsKnown, TypeOK
    <2>7. AliveIsRunning' /\ CloseCovers'
      BY <1>1, <2>1, <2>5 DEF AliveIsRunning, CloseCovers, TypeOK
    <2>8. LockIsHeld'
      BY <1>1, <2>1, <2>4, ProcessFacts DEF LockIsHeld, TypeOK
    <2> QED BY <1>1, <2>2, <2>6, <2>7, <2>8, FewerCounted
  <1>9. CASE Lost(p)
    <2>1. /\ phase[p] = "spawning" /\ phase' = [phase EXCEPT ![p] = "lost"]
          /\ leader' = [leader EXCEPT ![p] = TRUE]
          /\ lock' = None /\ UNCHANGED <<known, child, close, toStop>>
      BY <1>9 DEF Lost, closeVars
    <2>2. Counted' \subseteq Counted
      BY <1>1, <2>1 DEF Counted, TypeOK
    <2>3. lock = p
      BY <1>1, <2>1 DEF LockIsHeld
    <2>4. close \notin {"stopping", "closed"}
      BY <1>1, <2>3, ProcessFacts DEF CloseCovers
    <2>5. AliveIsRunning' /\ RunningIsKnown' /\ CloseCovers'
      BY <1>1, <2>1, <2>4 DEF AliveIsRunning, RunningIsKnown, CloseCovers, TypeOK
    <2>6. LockIsHeld'
      BY <1>1, <2>1, <2>3, ProcessFacts DEF LockIsHeld, TypeOK
    <2> QED BY <1>1, <2>2, <2>5, <2>6, FewerCounted
  <1>5. CASE StartEnds(p)
    <2>1. Counted' \subseteq Counted
      BY <1>1, <1>5 DEF StartEnds, Counted, TypeOK
    <2>2. LockIsHeld'
      BY <1>1, <1>5, ProcessFacts DEF StartEnds, LockIsHeld, TypeOK
    <2> QED BY <1>1, <1>5, <2>1, <2>2, FewerCounted DEF StartEnds, TypeOK, AliveIsRunning,
               RunningIsKnown, CloseCovers, Alive, osVars, closeVars
  <1>6. ASSUME CommandExits(p) \/ ChildExits(p) \/ Expire(p) \/ Disarm(p) \/ Stop(p) \/ CloseStops(p)
        PROVE  Registered'
    <2>1. /\ UNCHANGED <<phase, known, lock, close>>
          /\ toStop' = toStop \/ (toStop' = toStop \ {p} /\ p \in Unkillable)
      BY <1>6 DEF CommandExits, ChildExits, Expire, Disarm, Stop, CloseStops, startVars, closeVars
    <2>2. \A q \in Process : /\ leader'[q] \/ child'[q] = "attached" =>
                                 leader[q] \/ child[q] = "attached"
                             /\ leader'[q] \/ child'[q] # "none" =>
                                leader[q] \/ child[q] # "none"
      <3>1. CASE CommandExits(p)
        <4>1. leader[p] /\ \A q \in Process \ {p} : leader'[q] = leader[q] /\ child'[q] = child[q]
          BY <1>1, <3>1 DEF CommandExits, TypeOK
        <4> QED BY <4>1
      <3>2. CASE ChildExits(p) \/ Disarm(p)
        BY <1>1, <3>2 DEF ChildExits, Disarm, TypeOK
      <3>3. CASE Kills(p)
        BY <1>1, <3>3 DEF Kills, TypeOK
      <3> QED BY <1>6, <3>1, <3>2, <3>3 DEF Expire, Stop, CloseStops
    <2>3. Counted' \subseteq Counted
      BY <2>1 DEF Counted
    <2>4. CloseCovers'
      <3>2. close = "closed" => toStop' = {}
        BY <1>1, <2>1 DEF CloseCovers
      <3>3. ASSUME close \in {"stopping", "closed"}, NEW q \in Process \ Unkillable,
                   phase[q] = "running", leader'[q] \/ child'[q] # "none"
            PROVE  q \in toStop'
        <4>1. leader[q] \/ child[q] # "none"
          <5>1. q \in Process
            OBVIOUS
          <5> QED BY <2>2, <3>3, <5>1
        <4>2. q \in toStop
          BY <1>1, <3>3, <4>1 DEF CloseCovers, Alive
        <4> QED BY <2>1, <4>2
      <3>4. close \in {"stopping", "closed"} => lock = None
        BY <1>1 DEF CloseCovers
      <3> QED BY <2>1, <3>2, <3>3, <3>4 DEF CloseCovers, Alive
    <2>5. AliveIsRunning' /\ RunningIsKnown' /\ LockIsHeld'
      <3>1. AliveIsRunning'
        <4> SUFFICES ASSUME NEW q \in Process, leader'[q] \/ child'[q] = "attached"
                     PROVE  phase'[q] \in {"running", "lost"}
          BY DEF AliveIsRunning
        <4>1. leader[q] \/ child[q] = "attached"
          BY <2>2
        <4> QED BY <1>1, <2>1, <4>1 DEF AliveIsRunning
      <3>2. RunningIsKnown' /\ LockIsHeld'
        BY <1>1, <2>1 DEF RunningIsKnown, LockIsHeld
      <3> QED BY <3>1, <3>2
    <2> QED BY <1>1, <2>3, <2>4, <2>5, FewerCounted
  <1>7. CASE PumpEnds(p)
    <2>1. Counted' \subseteq Counted
      BY <1>1, <1>7 DEF PumpEnds, Counted, TypeOK
    <2> QED BY <1>1, <1>7, <2>1, FewerCounted DEF PumpEnds, TypeOK, AliveIsRunning, RunningIsKnown,
               LockIsHeld, CloseCovers, Alive, osVars, closeVars
  <1>8. CASE CloseGoesOn(p)
    <2>1. Counted' \subseteq Counted
      BY <1>8 DEF CloseGoesOn, Counted, startVars
    <2> QED BY <1>1, <1>8, <2>1, FewerCounted DEF CloseGoesOn, AliveIsRunning, RunningIsKnown,
               LockIsHeld, CloseCovers, Alive, startVars, osVars
  <1> QED BY <1>2, <1>3, <1>4, <1>5, <1>6, <1>7, <1>8, <1>9 DEF ProcessSteps

LEMMA ProcessNext == ProcessInv /\ [Next]_vars => ProcessInv'
  <1> SUFFICES ASSUME ProcessInv, [Next]_vars PROVE ProcessInv'
    OBVIOUS
  <1>1. TypeOK' /\ BuffersKept'
    BY TypeNext DEF ProcessInv
  <1>2. ASSUME NEW p \in Process, ProcessSteps(p) PROVE Registered'
    BY <1>2, RegisteredNext
  <1>3. CASE CloseSteps
    <2>1. UNCHANGED <<startVars, osVars>>
      BY <1>3 DEF CloseSteps, Close, CloseLists, CloseEnds
    <2>2. CloseCovers'
      BY <1>3, <2>1 DEF ProcessInv, RunningIsKnown, CloseCovers, Alive, CloseSteps, Close,
         CloseLists, CloseEnds, startVars, osVars
    <2>3. Counted' \subseteq Counted
      BY <2>1 DEF Counted, startVars
    <2>4. CountsKept'
      BY <2>3, FewerCounted DEF ProcessInv
    <2> QED BY <1>1, <2>1, <2>2, <2>4 DEF ProcessInv, AliveIsRunning, RunningIsKnown,
               LockIsHeld, startVars, osVars
  <1>4. CASE OutputSteps \/ UNCHANGED vars
    <2>1. UNCHANGED <<startVars, osVars, closeVars>>
      BY <1>4 DEF OutputSteps, Write, BeginRead, EndRead, vars, startVars, osVars, closeVars
    <2>2. Counted' \subseteq Counted
      BY <2>1 DEF Counted, startVars
    <2>3. CountsKept'
      BY <2>2, FewerCounted DEF ProcessInv
    <2> QED BY <1>1, <2>1, <2>3 DEF ProcessInv, AliveIsRunning, RunningIsKnown, LockIsHeld,
               CloseCovers, Alive, startVars, osVars, closeVars
  <1> QED BY <1>1, <1>2, <1>3, <1>4, StepsOfNext DEF ProcessInv, Registered

(* What is alive, what is registered, who holds the lock and what close()    *)
(* still has to stop agree in every state of the manager.                    *)
THEOREM ProcessesCoherent == Spec => []ProcessInv
  BY ProcessInit, ProcessNext, PTL DEF Spec

(* However many starts are asked for at once, no owner has more registered   *)
(* processes alive than MaxPerOwner, and all together no more than           *)
(* MaxProcesses: the check under _start_lock counts what is registered, and  *)
(* nothing is alive that is not, except what a start lost that raised        *)
(* between spawn and registration (_start).                                  *)
THEOREM AtMostTheLimits == Spec => []LimitsHold
  <1>1. ProcessInv => LimitsHold
    <2> SUFFICES ASSUME ProcessInv PROVE LimitsHold
      OBVIOUS
    <2> DEFINE alive == {p \in Process : phase[p] # "lost" /\ (leader[p] \/ child[p] = "attached")}
    <2>1. alive \subseteq Counted /\ IsFiniteSet(Counted)
      BY DEF ProcessInv, AliveIsRunning, Counted, CountsKept
    <2>2. /\ Cardinality(alive) <= Cardinality(Counted)
          /\ Cardinality(alive) \in Nat /\ Cardinality(Counted) \in Nat
      BY <2>1, FS_Subset, FS_CardinalityType
    <2>3. ASSUME NEW o \in Owner
          PROVE  Cardinality({p \in alive : OwnerOf[p] = o}) <= MaxPerOwner
      <3>1. {p \in alive : OwnerOf[p] = o} \subseteq CountedOf(o) /\ CountedOf(o) \subseteq Counted
        BY <2>1 DEF CountedOf
      <3>2. IsFiniteSet(CountedOf(o))
        BY <2>1, <3>1, FS_Subset
      <3>3. /\ Cardinality({p \in alive : OwnerOf[p] = o}) <= Cardinality(CountedOf(o))
            /\ Cardinality({p \in alive : OwnerOf[p] = o}) \in Nat
            /\ Cardinality(CountedOf(o)) \in Nat
        BY <3>1, <3>2, FS_Subset, FS_CardinalityType
      <3>4. Cardinality(CountedOf(o)) <= MaxPerOwner
        BY DEF ProcessInv, CountsKept
      <3> QED BY <3>3, <3>4, ProcessFacts
    <2>4. Cardinality(alive) <= MaxProcesses
      BY <2>2, ProcessFacts DEF ProcessInv, CountsKept
    <2> QED BY <2>3, <2>4 DEF LimitsHold
  <1> QED BY <1>1, ProcessesCoherent, PTL

(* When close() has returned nothing that was registered and may be killed   *)
(* is alive, whichever of the stops raised: it waits for the start in        *)
(* progress, admits no other and stops everything it then finds registered.  *)
THEOREM ClosedIsEmpty == Spec => []NothingSurvivesClose
  <1>1. ProcessInv => NothingSurvivesClose
    BY DEF ProcessInv, TypeOK, AliveIsRunning, CloseCovers, Alive, NothingSurvivesClose
  <1> QED BY <1>1, ProcessesCoherent, PTL

-----------------------------------------------------------------------------
(* The shared position. Callers ask for nothing they were not given.         *)

ReadInv == ProcessInv /\ ReadsBehind /\ NothingIsSkipped

LEMMA ReadInit == Init => ReadInv
  <1> SUFFICES ASSUME Init PROVE ReadInv
    OBVIOUS
  <1>1. ReadsBehind
    BY DEF Init, ReadsBehind
  <1>2. \A p \in Process : 0..(position[p] - 1) = {}
    BY DEF Init
  <1> QED BY <1>1, <1>2, ProcessInit DEF ReadInv, NothingIsSkipped

(* The end of a read moves the position no further than it has reported      *)
(* everything from where it began, which the position had reached.           *)
LEMMA EndReadKeeps ==
    ASSUME ReadInv, NEW r \in Reader, EndRead(r)
    PROVE  ReadsBehind' /\ NothingIsSkipped'
  <1> DEFINE p == reading[r].process
             from == reading[r].from
             first == ReadRange(output[p], from, reading[r].max)[1]
             next == ReadRange(output[p], from, reading[r].max)[2]
             kept == FirstKept(output[p])
  <1>1. /\ p \in Process /\ from \in Nat /\ reading[r].max \in Nat
        /\ from <= position[p]
    BY DEF ReadInv, ProcessInv, TypeOK, EndRead, ReadsBehind
  <1>2. kept \in Nat /\ output[p].end \in Nat /\ position \in [Process -> Nat]
    BY <1>1 DEF ReadInv, ProcessInv, TypeOK, BuffersKept, Buffer
  <1>3. first \in Nat /\ next \in Nat /\ first <= next /\ first = IF from >= kept THEN from ELSE kept
    BY <1>1, <1>2, ReadRangeType
  <1>4. /\ position' = [position EXCEPT ![p] = Max({position[p], next})]
        /\ seen' = [seen EXCEPT ![p] = seen[p] \cup (first..(next - 1)) \cup (from..(kept - 1))]
        /\ reading' = [reading EXCEPT ![r] = None]
    BY DEF EndRead
  <1>5. Max({position[p], next}) = IF position[p] >= next THEN position[p] ELSE next
    BY <1>1, <1>2, <1>3, MaxOfTwo
  <1>6. /\ reading \in [Reader -> {None} \cup [process : Process, from : Nat, max : Nat]]
        /\ seen \in [Process -> SUBSET Nat]
        /\ \A q \in Process : \A i \in 0..(position[q] - 1) : i \in seen[q]
    BY DEF ReadInv, ProcessInv, TypeOK, NothingIsSkipped
  <1> HIDE DEF p, from, first, next, kept
  <1>7. \A q \in Process : position'[q] \in Nat /\ position[q] <= position'[q]
    BY <1>1, <1>2, <1>3, <1>4, <1>5
  <1>8. ASSUME NEW s \in Reader, reading'[s] # None
        PROVE  reading'[s].from <= position'[reading'[s].process]
    <2>1. reading'[s] = reading[s] /\ reading[s] # None
      BY <1>4, <1>6, <1>8
    <2>2. /\ reading[s].from <= position[reading[s].process]
          /\ reading[s].process \in Process /\ reading[s].from \in Nat
      BY <1>6, <2>1 DEF ReadInv, ReadsBehind
    <2> QED BY <1>2, <1>7, <2>1, <2>2
  <1>9. ASSUME NEW q \in Process, NEW i \in 0..(position'[q] - 1) PROVE i \in seen'[q]
    <2>1. CASE q # p
      BY <1>4, <1>6, <1>2, <2>1
    <2>2. CASE q = p
      <3>1. seen'[q] = seen[p] \cup (first..(next - 1)) \cup (from..(kept - 1))
        BY <1>1, <1>4, <1>6, <2>2
      <3>2. i \in Nat /\ (i < position[p] \/ i < next)
        BY <1>1, <1>2, <1>3, <1>4, <1>5, <2>2
      <3>3. CASE i < position[p]
        BY <1>1, <1>2, <1>6, <3>1, <3>2, <3>3
      <3>4. CASE i >= position[p] /\ i < next
        <4>1. i >= from
          BY <1>1, <1>2, <3>2, <3>4
        <4>2. i \in first..(next - 1) \/ i \in from..(kept - 1)
          BY <1>1, <1>2, <1>3, <3>2, <3>4, <4>1
        <4> QED BY <3>1, <4>2
      <3> QED BY <1>1, <1>2, <3>2, <3>3, <3>4
    <2> QED BY <2>1, <2>2
  <1> QED BY <1>8, <1>9 DEF ReadsBehind, NothingIsSkipped

LEMMA ReadNext ==
    ASSUME ReadsAhead = FALSE
    PROVE  ReadInv /\ [Next]_vars => ReadInv'
  <1> SUFFICES ASSUME ReadInv, [Next]_vars PROVE ReadInv'
    OBVIOUS
  <1>1. ProcessInv'
    BY ProcessNext DEF ReadInv
  <1>2. ASSUME UNCHANGED <<position, seen, reading>> PROVE ReadsBehind' /\ NothingIsSkipped'
    BY <1>2 DEF ReadInv, ReadsBehind, NothingIsSkipped
  <1>3. ASSUME NEW p \in Process, ProcessSteps(p) PROVE UNCHANGED <<position, seen, reading>>
    BY <1>3 DEF ProcessSteps, CallStart, Admit, Spawned, Lost, StartEnds, CommandExits, ChildExits,
       Expire, Disarm, PumpEnds, Stop, CloseStops, CloseGoesOn, readVars
  <1>4. ASSUME CloseSteps \/ UNCHANGED vars PROVE UNCHANGED <<position, seen, reading>>
    BY <1>4 DEF CloseSteps, Close, CloseLists, CloseEnds, readVars, vars
  <1>5. ASSUME NEW p \in Process, NEW n \in Chunks, Write(p, n)
        PROVE  UNCHANGED <<position, seen, reading>>
    BY <1>5 DEF Write
  <1>6. ASSUME NEW r \in Reader, NEW p \in Process, NEW since \in {None} \cup 0..EndBound,
               NEW max \in 1..2, BeginRead(r, p, since, max)
        PROVE  ReadsBehind' /\ NothingIsSkipped'
    <2> DEFINE from == IF since = None THEN position[p] ELSE since
    <2>1. UNCHANGED <<position, seen>>
      BY <1>6 DEF BeginRead
    <2>2. from <= position[p]
      BY <1>6 DEF BeginRead, ReadInv, ProcessInv, TypeOK
    <2>3. reading' = [reading EXCEPT ![r] = [process |-> p, from |-> from, max |-> max]]
      BY <1>6 DEF BeginRead
    <2> HIDE DEF from
    <2>4. ReadsBehind'
      BY <2>1, <2>2, <2>3 DEF ReadInv, ProcessInv, TypeOK, ReadsBehind
    <2> QED BY <2>1, <2>4 DEF ReadInv, NothingIsSkipped
  <1>7. ASSUME NEW r \in Reader, EndRead(r) PROVE ReadsBehind' /\ NothingIsSkipped'
    BY <1>7, EndReadKeeps
  <1> QED BY <1>1, <1>2, <1>3, <1>4, <1>5, <1>6, <1>7, StepsOfNext DEF ReadInv, OutputSteps

(* As long as callers ask for offsets they were given (or for none), what    *)
(* lies before the shared position was returned to one of them or reported   *)
(* as dropped, however many of them read at once (read_offset,               *)
(* _OutputBuffer.read and append).                                           *)
THEOREM ReadsHaveNoGaps ==
    ASSUME ReadsAhead = FALSE
    PROVE  Spec => []NothingIsSkipped
  <1>1. ReadInv => NothingIsSkipped
    BY DEF ReadInv
  <1> QED BY <1>1, ReadInit, ReadNext, PTL DEF Spec
=============================================================================
