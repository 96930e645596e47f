------------------------ MODULE RunSubscriptions_proofs ------------------------
(* What is proved of RunSubscriptions, for any connections, events, queues and *)
(* subscriptions: until a client unsubscribes it gets every event at most      *)
(* once and in order, and nothing is sent to a client that unsubscribed until  *)
(* it asks again, whatever meets.                                              *)
EXTENDS RunSubscriptions, FiniteSetTheorems, WellFoundedInduction, TLAPS

-----------------------------------------------------------------------------
(* Sequences.                                                                *)
Elements(s) == {s[i] : i \in 1..Len(s)}
Distinct(s) == \A i, j \in 1..Len(s) : s[i] = s[j] => i = j

LEMMA Appending ==
    ASSUME NEW S, NEW s \in Seq(S), NEW e \in S
    PROVE  /\ Append(s, e) \in Seq(S) /\ Append(s, e) # <<>>
           /\ Elements(Append(s, e)) = Elements(s) \cup {e}
           /\ Distinct(s) /\ e \notin Elements(s) => Distinct(Append(s, e))
           /\ Head(Append(s, e)) = IF s = <<>> THEN e ELSE Head(s)
  <1>1. Len(Append(s, e)) = Len(s) + 1 /\ Len(s) \in Nat /\ Append(s, e) \in Seq(S)
    OBVIOUS
  <1>2. \A i \in 1..Len(s) + 1 : Append(s, e)[i] = IF i = Len(s) + 1 THEN e ELSE s[i]
    OBVIOUS
  <1>3. Elements(Append(s, e)) = Elements(s) \cup {e}
    <2>1. 1..Len(s) + 1 = 1..Len(s) \cup {Len(s) + 1} /\ Len(s) + 1 \notin 1..Len(s)
      BY <1>1
    <2> QED BY <1>1, <1>2, <2>1 DEF Elements
  <1>4. Distinct(s) /\ e \notin Elements(s) => Distinct(Append(s, e))
    <2> SUFFICES ASSUME Distinct(s), e \notin Elements(s), NEW i \in 1..Len(s) + 1, NEW j \in 1..Len(s) + 1,
                        Append(s, e)[i] = Append(s, e)[j]
                 PROVE  i = j
      BY <1>1 DEF Distinct
    <2>1. \A k \in 1..Len(s) : s[k] # e
      BY DEF Elements
    <2>2. (i \in 1..Len(s) \/ i = Len(s) + 1) /\ (j \in 1..Len(s) \/ j = Len(s) + 1)
      BY <1>1
    <2> QED BY <1>1, <1>2, <2>1, <2>2 DEF Distinct
  <1>5. Head(Append(s, e)) = Append(s, e)[1] /\ (s # <<>> => Head(s) = s[1] /\ 1 \in 1..Len(s))
    BY <1>1
  <1> QED BY <1>1, <1>2, <1>3, <1>4, <1>5

LEMMA Taking ==
    ASSUME NEW S, NEW s \in Seq(S), s # <<>>
    PROVE  /\ Head(s) \in S /\ Tail(s) \in Seq(S) /\ Len(Tail(s)) = Len(s) - 1
           /\ Head(s) \in Elements(s) /\ Elements(Tail(s)) \subseteq Elements(s)
           /\ Elements(s) = Elements(Tail(s)) \cup {Head(s)}
           /\ Distinct(s) => Distinct(Tail(s)) /\ Head(s) \notin Elements(Tail(s))
           /\ \A i \in 1..Len(Tail(s)) : i + 1 \in 1..Len(s) /\ Tail(s)[i] = s[i + 1]
  <1>1. Len(Tail(s)) = Len(s) - 1 /\ Len(s) \in Nat \ {0} /\ Head(s) = s[1] /\ Tail(s) \in Seq(S) /\ Head(s) \in S
    OBVIOUS
  <1>2. \A i \in 1..Len(Tail(s)) : i + 1 \in 1..Len(s) /\ Tail(s)[i] = s[i + 1]
    BY <1>1
  <1>3. Elements(s) = Elements(Tail(s)) \cup {Head(s)}
    <2>1. \A i \in 1..Len(s) : i = 1 \/ (i - 1 \in 1..Len(Tail(s)) /\ Tail(s)[i - 1] = s[i])
      BY <1>1
    <2>2. 1 \in 1..Len(s)
      BY <1>1
    <2> QED BY <1>1, <1>2, <2>1, <2>2, SMTT(60) DEF Elements
  <1>4. ASSUME Distinct(s) PROVE Distinct(Tail(s)) /\ Head(s) \notin Elements(Tail(s))
    <2>1. 1 \in 1..Len(s) /\ \A i \in 1..Len(Tail(s)) : i + 1 # 1
      BY <1>1
    <2>2. \A i, j \in 1..Len(Tail(s)) : i + 1 = j + 1 => i = j
      BY <1>1
    <2>3. Distinct(Tail(s))
      BY <1>2, <1>4, <2>2 DEF Distinct
    <2>4. Head(s) \notin Elements(Tail(s))
      BY <1>1, <1>2, <1>4, <2>1 DEF Distinct, Elements
    <2> QED BY <2>3, <2>4
  <1> QED BY <1>1, <1>2, <1>3, <1>4

LEMMA Joining ==
    ASSUME NEW S, NEW s \in Seq(S), NEW r \in Seq(S)
    PROVE  /\ s \o r \in Seq(S) /\ Elements(s \o r) = Elements(s) \cup Elements(r)
           /\ Distinct(s) /\ Distinct(r) /\ Elements(s) \cap Elements(r) = {} => Distinct(s \o r)
  <1>1. Len(s) \in Nat /\ Len(r) \in Nat /\ Len(s \o r) = Len(s) + Len(r) /\ s \o r \in Seq(S)
    OBVIOUS
  <1>2. /\ \A i \in 1..Len(s) : i \in 1..Len(s \o r) /\ (s \o r)[i] = s[i]
        /\ \A i \in 1..Len(r) : Len(s) + i \in 1..Len(s \o r) /\ (s \o r)[Len(s) + i] = r[i]
    BY <1>1
  <1>3. \A i \in 1..Len(s \o r) : i \in 1..Len(s) \/ \E k \in 1..Len(r) : i = Len(s) + k
    <2> TAKE i \in 1..Len(s \o r)
    <2>1. i \in 1..Len(s) \/ (i - Len(s) \in 1..Len(r) /\ i = Len(s) + (i - Len(s)))
      BY <1>1
    <2> QED BY <2>1
  <1>4. Elements(s \o r) = Elements(s) \cup Elements(r)
    <2>1. \A x \in Elements(s \o r) : x \in Elements(s) \cup Elements(r)
      BY <1>2, <1>3 DEF Elements
    <2>2. \A x \in Elements(s) \cup Elements(r) : x \in Elements(s \o r)
      BY <1>2 DEF Elements
    <2> QED BY <2>1, <2>2
  <1>5. ASSUME Distinct(s), Distinct(r), Elements(s) \cap Elements(r) = {} PROVE Distinct(s \o r)
    <2> SUFFICES ASSUME NEW i \in 1..Len(s \o r), NEW j \in 1..Len(s \o r), (s \o r)[i] = (s \o r)[j] PROVE i = j
      BY DEF Distinct
    <2>1. CASE i \in 1..Len(s) /\ j \in 1..Len(s)
      BY <1>2, <1>5, <2>1 DEF Distinct
    <2>2. CASE i \notin 1..Len(s) /\ j \notin 1..Len(s)
      <3>1. PICK k \in 1..Len(r) : i = Len(s) + k
        BY <1>3, <2>2
      <3>2. PICK l \in 1..Len(r) : j = Len(s) + l
        BY <1>3, <2>2
      <3>3. r[k] = r[l]
        BY <1>2, <3>1, <3>2
      <3> QED BY <1>5, <3>1, <3>2, <3>3 DEF Distinct
    <2>3. \A k \in 1..Len(s), l \in 1..Len(r) : s[k] # r[l]
      BY <1>5 DEF Elements
    <2> QED BY <1>2, <1>3, <2>1, <2>2, <2>3
  <1> QED BY <1>1, <1>4, <1>5

(* Every set of natural numbers has a least one.                             *)
LEMMA LeastOfNaturals ==
    ASSUME NEW S \in SUBSET Nat, S # {}
    PROVE  \E x \in S : \A y \in S : x <= y
  <1>1. PICK x \in S : \A y \in S : ~(<<y, x>> \in OpToRel(<, Nat))
    BY WFMin, NatLessThanWellFounded
  <1>2. ASSUME NEW y \in S PROVE x <= y
    <2>1. <<y, x>> \in Nat \X Nat
      OBVIOUS
    <2>2. ~(y < x)
      BY <1>1, <2>1 DEF OpToRel
    <2> QED BY <2>2
  <1> QED BY <1>2

(* Induction, for the set of the numbers that have a property.               *)
LEMMA Induction ==
    ASSUME NEW n \in Nat, NEW S, 0 \in S, \A m \in 1..n : m - 1 \in S => m \in S
    PROVE  0..n \subseteq S
  <1> DEFINE T == {m \in 0..n : m \notin S}
  <1> SUFFICES ASSUME T # {} PROVE FALSE
    OBVIOUS
  <1>1. PICK m \in T : \A k \in T : m <= k
    <2>1. T \in SUBSET Nat
      OBVIOUS
    <2> HIDE DEF T
    <2> QED BY <2>1, LeastOfNaturals
  <1>2. m \in 1..n /\ m - 1 \in 0..n /\ ~(m <= m - 1)
    BY <1>1
  <1>3. m - 1 \in S
    BY <1>1, <1>2
  <1> QED BY <1>1, <1>2, <1>3

(* Dropped goes through the tasks one after the other.                       *)
LEMMA DroppedChain ==
    ASSUME NEW S, NEW s \in Seq(S), NEW T
    PROVE  \E others : /\ others[0] = <<>> /\ Dropped(s, T) = others[Len(s)]
                      /\ \A n \in 1..Len(s) :
                           others[n] = IF s[n] \in T THEN others[n - 1] ELSE Append(others[n - 1], s[n])
  <1> DEFINE After(x, n) == IF s[n] \in T THEN x ELSE Append(x, s[n])
             Chain(g, m) == g = [n \in 0..m |-> IF n = 0 THEN <<>> ELSE After(g[n - 1], n)]
             others[n \in 0..Len(s)] == IF n = 0 THEN <<>> ELSE After(others[n - 1], n)
             Chained == {m \in Nat : \E g : Chain(g, m)}
  <1>0. Dropped(s, T) = others[Len(s)]
    BY DEF Dropped
  <1> HIDE DEF After
  <1>6. Len(s) \in Nat
    OBVIOUS
  <1>1. 0 \in Chained
    <2>1. Chain([n \in 0..0 |-> <<>>], 0)
      OBVIOUS
    <2> QED BY <2>1
  <1>2. \A m \in 1..Len(s) : m - 1 \in Chained => m \in Chained
    <2> SUFFICES ASSUME NEW m \in 1..Len(s), m - 1 \in Chained PROVE m \in Nat /\ \E f : Chain(f, m)
      OBVIOUS
    <2>1. PICK g : Chain(g, m - 1)
      OBVIOUS
    <2> DEFINE h == [n \in 0..m |-> IF n = m THEN After(g[m - 1], m) ELSE g[n]]
    <2>2. \A n \in 0..m : h[n] = IF n = 0 THEN <<>> ELSE After(h[n - 1], n)
      <3> TAKE n \in 0..m
      <3>1. CASE n = m
        BY <3>1
      <3>2. CASE n # m
        <4>1. n \in 0..(m - 1) /\ h[n] = g[n]
          BY <3>2
        <4>2. g[n] = IF n = 0 THEN <<>> ELSE After(g[n - 1], n)
          BY <2>1, <4>1
        <4>3. n # 0 => h[n - 1] = g[n - 1]
          BY <4>1
        <4> QED BY <4>1, <4>2, <4>3
      <3> QED BY <3>1, <3>2
    <2>3. Chain(h, m)
      <3>1. h = [n \in 0..m |-> h[n]]
        OBVIOUS
      <3> QED BY <2>2, <3>1
    <2> HIDE DEF h
    <2> QED BY <2>3
  <1>3. others = [n \in 0..Len(s) |-> IF n = 0 THEN <<>> ELSE After(others[n - 1], n)]
    <2>1. 0..Len(s) \subseteq Chained
      <3> HIDE DEF Chained
      <3> QED BY <1>1, <1>2, <1>6, Induction
    <2>2. \E g : Chain(g, Len(s))
      BY <1>6, <2>1
    <2> QED BY <2>2
  <1> HIDE DEF others
  <1>4. others[0] = <<>> /\ \A n \in 1..Len(s) : others[n] = After(others[n - 1], n)
    BY <1>3, <1>6
  <1> QED BY <1>0, <1>4 DEF After

(* What is left when some tasks are dropped.                                 *)
LEMMA Dropping ==
    ASSUME NEW S, NEW s \in Seq(S), NEW T
    PROVE  /\ Dropped(s, T) \in Seq(S) /\ Elements(Dropped(s, T)) \subseteq Elements(s) \ T
           /\ Distinct(s) => Distinct(Dropped(s, T))
           /\ s # <<>> /\ Head(s) \notin T => Dropped(s, T) # <<>> /\ Head(Dropped(s, T)) = Head(s)
  <1>0. Len(s) \in Nat /\ \A n \in 1..Len(s) : s[n] \in S
    OBVIOUS
  <1>1. PICK others : /\ others[0] = <<>> /\ Dropped(s, T) = others[Len(s)]
                      /\ \A n \in 1..Len(s) :
                           others[n] = IF s[n] \in T THEN others[n - 1] ELSE Append(others[n - 1], s[n])
    BY DroppedChain
  <1> DEFINE Seen(n) == {s[i] : i \in 1..n} \ T
             Good(n) == /\ others[n] \in Seq(S) /\ Elements(others[n]) \subseteq Seen(n)
                        /\ Distinct(s) => Distinct(others[n])
                        /\ n # 0 /\ Head(s) \notin T => others[n] # <<>> /\ Head(others[n]) = Head(s)
             N == {n \in Nat : n \in 0..Len(s) => Good(n)}
  <1>2. 0 \in N
    <2>1. <<>> \in Seq(S) /\ Elements(<<>>) = {} /\ Distinct(<<>>)
      BY DEF Elements, Distinct
    <2> HIDE DEF Seen
    <2> QED BY <1>1, <2>1
  <1>3. \A n \in 1..Len(s) : n - 1 \in N => n \in N
    <2> SUFFICES ASSUME NEW n \in 1..Len(s), Good(n - 1) PROVE Good(n)
      <3> HIDE DEF Good
      <3> QED BY <1>0
    <2>1. Seen(n) = Seen(n - 1) \cup ({s[n]} \ T)
      <3>1. 1..n = (1..(n - 1)) \cup {n}
        BY <1>0
      <3> QED BY <3>1
    <2>2. Distinct(s) => s[n] \notin Seen(n - 1)
      <3>1. \A i \in 1..(n - 1) : i \in 1..Len(s) /\ i # n
        BY <1>0
      <3> QED BY <1>0, <3>1 DEF Distinct
    <2>3. n = 1 => others[n - 1] = <<>> /\ s[n] = Head(s)
      BY <1>0, <1>1
    <2> HIDE DEF Seen
    <2>4. CASE s[n] \in T
      <3>1. others[n] = others[n - 1]
        BY <1>1, <2>4
      <3> QED BY <1>0, <2>1, <2>3, <2>4, <3>1
    <2>5. CASE s[n] \notin T
      <3>1. others[n] = Append(others[n - 1], s[n])
        BY <1>1, <2>5
      <3>2. /\ others[n] \in Seq(S) /\ others[n] # <<>>
            /\ Elements(others[n]) = Elements(others[n - 1]) \cup {s[n]}
            /\ Distinct(others[n - 1]) /\ s[n] \notin Elements(others[n - 1]) => Distinct(others[n])
            /\ Head(others[n]) = IF others[n - 1] = <<>> THEN s[n] ELSE Head(others[n - 1])
        <4> HIDE DEF Seen
        <4>1. others[n - 1] \in Seq(S) /\ s[n] \in S
          BY <1>0
        <4> QED BY <3>1, <4>1, Appending, SMTT(60)
      <3>3. n # 1 => n - 1 # 0
        BY <1>0
      <3> QED BY <1>0, <2>1, <2>2, <2>3, <2>5, <3>2, <3>3
    <2> QED BY <2>4, <2>5
  <1>4. Good(Len(s))
    <2>1. 0..Len(s) \subseteq N
      <3> HIDE DEF N
      <3> QED BY <1>0, <1>2, <1>3, Induction
    <2>2. Len(s) \in N
      <3> HIDE DEF N
      <3> QED BY <1>0, <2>1
    <2> HIDE DEF Good
    <2> QED BY <1>0, <2>2
  <1>5. Seen(Len(s)) = Elements(s) \ T
    BY DEF Elements
  <1>6. s # <<>> => Len(s) # 0
    OBVIOUS
  <1> HIDE DEF Seen
  <1> QED BY <1>1, <1>4, <1>5, <1>6

LEMMA Listing ==
    ASSUME NEW S, IsFiniteSet(S)
    PROVE  SetToSeq(S) \in Seq(S) /\ Elements(SetToSeq(S)) \subseteq S /\ Distinct(SetToSeq(S))
  <1> DEFINE n == Cardinality(S)
  <1>1. n \in Nat /\ ExistsBijection(1..n, S)
    BY FS_CardinalityType
  <1>2. \E f \in [1..n -> S] : IsInjective(f)
    BY <1>1 DEF ExistsBijection, Bijection, Injection
  <1>3. SetToSeq(S) \in [1..n -> S] /\ IsInjective(SetToSeq(S))
    BY <1>2 DEF SetToSeq
  <1>4. SetToSeq(S) \in Seq(S) /\ Len(SetToSeq(S)) = n
    BY <1>1, <1>3
  <1> HIDE DEF n
  <1> QED BY <1>3, <1>4 DEF Elements, Distinct, IsInjective

-----------------------------------------------------------------------------
(* The tasks, the messages and the locks.                                    *)
LEMMA Tasks ==
    /\ None \notin Task
    /\ \A t \in Task : /\ Owner(t) \in Conn /\ Kind(t) \in {"stream", "loop", "beat", "replay"}
                       /\ Kind(t) = "stream" => t = Stream(Owner(t))
                       /\ Kind(t) = "loop" => t = Loop(Owner(t))
                       /\ Kind(t) = "beat" => t = Beat(Owner(t))
                       /\ Kind(t) = "replay" => t \in Replays(Owner(t))
    /\ \A c \in Conn : /\ Stream(c) \in Task /\ Kind(Stream(c)) = "stream" /\ Owner(Stream(c)) = c
                       /\ Loop(c) \in Task /\ Kind(Loop(c)) = "loop" /\ Owner(Loop(c)) = c
                       /\ Beat(c) \in Task /\ Kind(Beat(c)) = "beat" /\ Owner(Beat(c)) = c
    /\ \A c \in Conn : \A t \in Replays(c) : t \in Task /\ Kind(t) = "replay" /\ Owner(t) = c
  BY NoneIsNoTask DEF Task, Owner, Kind, Stream, Loop, Beat, Replays, Replay

LEMMA Messages ==
    /\ \A m \in Message : IsEvent(m) => m[2] \in 1..MaxSeq /\ m = Event(m[2])
    /\ \A n \in 1..MaxSeq : Event(n) \in Message /\ IsEvent(Event(n)) /\ Event(n)[2] = n
    /\ \A k \in {"subscribed", "unsubscribed", "error", "beat", "end"} :
         Say(k) \in Message /\ ~IsEvent(Say(k)) /\ Say(k) # Say("raised")
    /\ \A m \in Message : m # Say("raised")
  BY DEF Message, IsEvent, Event, Say

LEMMA TasksAreFinite == IsFiniteSet(Task)
  <1> DEFINE A == {"stream", "loop", "beat", "replay"}
             B == (A \X Conn) \X (0..MaxReplays)
             f == [x \in B |-> <<x[1][1], x[1][2], x[2]>>]
             T == {f[x] : x \in B}
  <1>1. IsFiniteSet(A)
    <2>1. IsFiniteSet({"stream"})
      BY FS_Singleton
    <2>2. IsFiniteSet({"stream"} \cup {"loop"})
      BY <2>1, FS_AddElement
    <2>3. IsFiniteSet({"stream"} \cup {"loop"} \cup {"beat"})
      BY <2>2, FS_AddElement
    <2>4. IsFiniteSet({"stream"} \cup {"loop"} \cup {"beat"} \cup {"replay"})
      BY <2>3, FS_AddElement
    <2>5. A = {"stream"} \cup {"loop"} \cup {"beat"} \cup {"replay"}
      OBVIOUS
    <2> HIDE DEF A
    <2> QED BY <2>4, <2>5
  <1>2. IsFiniteSet(0..MaxReplays)
    BY FS_Interval, SubscriptionFacts
  <1>3. IsFiniteSet(A \X Conn)
    BY <1>1, FS_Product, SubscriptionFacts
  <1> HIDE DEF A
  <1>4. IsFiniteSet(B)
    BY <1>2, <1>3, FS_Product
  <1>5. f \in Surjection(B, T)
    BY DEF Surjection
  <1>6. IsFiniteSet(T)
    <2> HIDE DEF f, B, T
    <2> QED BY <1>4, <1>5, FS_Surjection
  <1>7. Task \subseteq T
    <2>1. ASSUME NEW k \in A, NEW c \in Conn, NEW n \in 0..MaxReplays PROVE <<k, c, n>> \in T
      <3>1. <<<<k, c>>, n>> \in B
        OBVIOUS
      <3>2. f[<<<<k, c>>, n>>] = <<k, c, n>>
        BY <3>1
      <3> QED BY <3>1, <3>2
    <2>2. 0 \in 0..MaxReplays /\ 1..MaxReplays \subseteq 0..MaxReplays
      BY SubscriptionFacts
    <2>3. {"stream", "loop", "beat", "replay"} \subseteq A
      BY DEF A
    <2> HIDE DEF T
    <2> QED BY <2>1, <2>2, <2>3 DEF Task, Stream, Loop, Beat, Replays, Replay
  <1> HIDE DEF T
  <1> QED BY <1>6, <1>7, FS_Subset

Holding == {"enter", "in", "room", "exit"}
InLock == Holding \cup {"lock"}

(* What a task is like, by its kind and by where it is.                      *)
Proper(t, j) ==
    /\ j.pc \in InLock => j.lock # 0
    /\ j.lock # 0 => j.pc \in InLock \cup {"cancelled"} /\ j.to \in Conn
    /\ j.pc \in {"in", "room", "tell", "tellRoom"} => j.todo \in Seq(Message)
    /\ j.pc \in {"tell", "tellRoom"} => j.todo # <<>> /\ ~IsEvent(Head(j.todo))
    /\ j.pc = "room" => j.todo # <<>>
    /\ j.pc \in {"close", "drain"} => j.to = Owner(t)
    /\ Kind(t) = "replay" => j.pc \notin {"wait", "each", "close", "drain"} /\ (j.pc # "off" => j.to = Owner(t))
    /\ Kind(t) = "stream" => j.pc \notin {"close", "drain"}
    /\ Kind(t) = "beat" => /\ j.lock = 0 /\ (j.pc = "start" => j.to = Owner(t))
                           /\ j.pc \in {"off", "start", "tell", "tellRoom", "close", "drain", "cancelled"}
    /\ Kind(t) = "loop" =>
         /\ j.pc # "cancelled" /\ (j.pc = "start" => j.event = 0) /\ (j.pc = "each" => j.event # 0)
         /\ j.event = 0 /\ j.pc \in InLock => j.to = Owner(t) /\ j.pc \notin {"in", "room"}

Jobs == \A t \in Task : Proper(t, job[t]) /\ job[t].gen <= generation[Owner(t)]

(* Who runs or will, and who waits for room.                                 *)
Due(t) == running = t \/ t \in Elements(ready)

Able(t) ==
    /\ job[t].pc \notin {"off", "drain"}
    /\ Kind(t) = "loop" => job[t].pc # "wait"
    /\ Kind(t) = "stream" /\ job[t].pc = "wait" => buffer[Owner(t)] # <<>>

Putting(t, c) ==
    \/ job[t].pc \in {"room", "close"} /\ job[t].to = c
    \/ job[t].pc = "tellRoom" /\ Owner(t) = c

Schedule ==
    /\ Distinct(ready) /\ running \notin Elements(ready)
    /\ \A t \in Task : Due(t) => Able(t)
    /\ \A c \in Conn : Distinct(putters[c])
    /\ \A c \in Conn : \A t \in Elements(putters[c]) : ~Due(t) /\ Putting(t, c)

(* A lock has one holder, and a waiter that runs or will is the first of a   *)
(* lock that is free.                                                        *)
First(t) ==
    /\ holder[job[t].lock] = None
    /\ waiters[job[t].lock] # <<>> /\ Head(waiters[job[t].lock]) = t

Locks ==
    /\ \A t \in Task : job[t].pc \in Holding => holder[job[t].lock] = t
    /\ \A l \in Lock : holder[l] # None =>
         job[holder[l]].lock = l /\ job[holder[l]].pc \in Holding \cup {"cancelled"}
    /\ \A l \in Lock : Distinct(waiters[l])
    /\ \A l \in Lock : \A t \in Elements(waiters[l]) : job[t].pc = "lock" /\ job[t].lock = l
    /\ \A t \in Task : Due(t) /\ job[t].pc = "lock" => First(t)

(* Replays and the stream end with their connection, and not before.         *)
Linked ==
    \A t \in Task :
      /\ Kind(t) = "replay" /\ job[t].pc = "cancelled" => link[Owner(t)] # "open"
      /\ Kind(t) \in {"replay", "stream"} /\ link[Owner(t)] # "open" => job[t].pc \in {"off", "cancelled"}
      /\ job[t].pc \in {"close", "drain"} => link[Owner(t)] # "open"

(* A connection that has not unsubscribed has one lock, the one in the table. *)
Broadcasts(t) == Kind(t) = "stream" \/ (Kind(t) = "loop" /\ job[t].event # 0)

Row(t, c) ==
    /\ job[t].to = c /\ job[t].pc \in {"in", "room", "exit"} => c \in subscribed
    /\ Broadcasts(t) /\ (c \in job[t].rest \/ (job[t].to = c /\ job[t].lock # 0)) => c \in subscribed
    /\ (c \in subscribed \/ link[c] = "open") /\ job[t].to = c /\ job[t].pc \in InLock
         => job[t].lock = lockOf[c]

Table == \A c \in Conn : generation[c] = 0 => \A t \in Task : Row(t, c)

(* What it got and what is queued for it is in order, and no later than its  *)
(* cursor; an event that waits for room is later.                            *)
InOrder(g, q, k) ==
    /\ Increasing(g) /\ \A i \in 1..Len(g) : g[i] <= k
    /\ \A i \in 1..Len(q) : IsEvent(q[i]) =>
         /\ q[i][2] <= k
         /\ \A j \in 1..Len(g) : g[j] < q[i][2]
         /\ \A j \in 1..Len(q) : j < i /\ IsEvent(q[j]) => q[j][2] < q[i][2]

Nothing(c) == got[c] = <<>> /\ \A i \in 1..Len(queue[c]) : ~IsEvent(queue[c][i])

Order ==
    \A c \in Conn : generation[c] = 0 =>
      /\ InOrder(got[c], queue[c], cursor[c])
      /\ c \notin subscribed => Nothing(c)
      /\ \A t \in Task : job[t].pc = "room" /\ job[t].to = c /\ IsEvent(Head(job[t].todo))
                         => Head(job[t].todo)[2] > cursor[c]

(* What was asked for before an unsubscription knows that it is over.        *)
Quiet(t, c) ==
    /\ job[t].to = c /\ job[t].pc \in {"in", "room"} => job[t].todo = <<>>
    /\ t \in Replays(c) /\ job[t].pc \notin {"off", "cancelled"} => job[t].gen < generation[c]

Asked ==
    \A c \in Conn :
      /\ job[Loop(c)].pc = "wait" => c \in wants
      /\ link[c] = "open" /\ generation[c] <= 1 /\ c \notin wants =>
           c \notin subscribed /\ \A t \in Task : Quiet(t, c)

SubInv == TypeOK /\ Jobs /\ Schedule /\ Locks /\ Linked /\ Table /\ Order /\ Asked

(* A task that asks finds a lock nobody has, waits for or has in the table:   *)
(* there are as many as tasks.                                                *)
LEMMA FreshLockIsFresh ==
    ASSUME TypeOK, Jobs, Locks, NEW t \in Task, job[t].lock = 0, Kind(t) # "beat"
    PROVE  /\ FreshLock \in Lock /\ holder[FreshLock] = None /\ waiters[FreshLock] = <<>>
           /\ \A c \in Conn : lockOf[c] # FreshLock
  <1> DEFINE Free(l) == holder[l] = None /\ waiters[l] = <<>> /\ \A c \in Conn : lockOf[c] # l
             Asker(l) == CHOOSE u \in Task : job[u].lock = l
             Row0(l) == CHOOSE c \in Conn : lockOf[c] = l
             f == [l \in Lock |-> IF \E u \in Task : job[u].lock = l THEN Asker(l) ELSE Beat(Row0(l))]
  <1>1. \E l \in Lock : Free(l)
    <2> SUFFICES ASSUME \A l \in Lock : ~Free(l) PROVE FALSE
      OBVIOUS
    <2>1. ASSUME NEW l \in Lock PROVE (\E u \in Task : job[u].lock = l) \/ (\E c \in Conn : lockOf[c] = l)
      <3>1. CASE holder[l] # None
        <4>1. holder[l] \in Task /\ job[holder[l]].lock = l
          BY <3>1 DEF TypeOK, Locks
        <4> QED BY <4>1
      <3>2. CASE waiters[l] # <<>>
        <4>1. waiters[l] \in Seq(Task)
          BY DEF TypeOK
        <4>2. Head(waiters[l]) \in Task /\ Head(waiters[l]) \in Elements(waiters[l])
          BY <3>2, <4>1, Taking
        <4>3. job[Head(waiters[l])].lock = l
          BY <4>2 DEF Locks
        <4> QED BY <4>2, <4>3
      <3> QED BY <3>1, <3>2
    <2>2. \A l \in Lock : l # 0
      BY DEF Lock
    <2>3. \A c \in Conn : Beat(c) \in Task /\ Beat(c) # t /\ job[Beat(c)].lock = 0
      BY Tasks DEF Jobs, Proper
    <2>4. \A l \in Lock : (\E u \in Task : job[u].lock = l) => f[l] \in Task /\ job[f[l]].lock = l /\ f[l] # t
      BY <2>2
    <2>5. \A l \in Lock : ~(\E u \in Task : job[u].lock = l) =>
            Row0(l) \in Conn /\ f[l] = Beat(Row0(l)) /\ lockOf[Row0(l)] = l
      BY <2>1
    <2>6. \A c, d \in Conn : Beat(c) = Beat(d) => c = d
      BY Tasks
    <2>7. \A l \in Lock : f[l] \in Task \ {t}
      BY <2>3, <2>4, <2>5
    <2>8. \A l, m \in Lock : f[l] = f[m] => l = m
      BY <2>2, <2>3, <2>4, <2>5, <2>6
    <2>9. f \in Injection(Lock, Task \ {t})
      <3>1. f \in [Lock -> Task \ {t}] /\ DOMAIN f = Lock
        BY <2>7
      <3> HIDE DEF f
      <3> QED BY <2>8, <3>1 DEF Injection, IsInjective
    <2> HIDE DEF f
    <2>10. IsFiniteSet(Task \ {t}) /\ Cardinality(Task \ {t}) = Cardinality(Task) - 1
      BY TasksAreFinite, FS_RemoveElement
    <2>11. Cardinality(Task) \in Nat
      BY TasksAreFinite, FS_CardinalityType
    <2>12. Cardinality(Lock) = Cardinality(Task)
      BY <2>11, FS_Interval DEF Lock
    <2>13. Cardinality(Lock) <= Cardinality(Task \ {t})
      BY <2>9, <2>10, FS_Injection
    <2> QED BY <2>10, <2>11, <2>12, <2>13
  <1> QED BY <1>1 DEF FreshLock

-----------------------------------------------------------------------------
(* What is sent stays in order.                                              *)
LEMMA OrderedLater ==
    ASSUME NEW g \in Seq(Nat), NEW q \in Seq(Message), NEW k \in Nat, NEW n \in Nat, k <= n, InOrder(g, q, k)
    PROVE  InOrder(g, q, n)
  <1>1. \A i \in 1..Len(g) : g[i] \in Nat /\ g[i] <= k
    BY DEF InOrder
  <1>2. \A i \in 1..Len(q) : IsEvent(q[i]) => q[i][2] \in Nat /\ q[i][2] <= k
    BY Messages DEF InOrder
  <1>3. \A i \in 1..Len(g) : g[i] <= n
    BY <1>1
  <1>4. \A i \in 1..Len(q) : IsEvent(q[i]) => q[i][2] <= n
    BY <1>2
  <1> QED BY <1>3, <1>4 DEF InOrder

LEMMA OrderedPut ==
    ASSUME NEW g \in Seq(Nat), NEW q \in Seq(Message), NEW k \in Nat, NEW m \in Message, InOrder(g, q, k),
           IsEvent(m) => m[2] > k
    PROVE  InOrder(g, Append(q, m), IF IsEvent(m) THEN m[2] ELSE k)
  <1>1. Len(q) \in Nat /\ Len(Append(q, m)) = Len(q) + 1
    OBVIOUS
  <1>2. \A i \in 1..Len(q) + 1 : Append(q, m)[i] = IF i = Len(q) + 1 THEN m ELSE q[i]
    OBVIOUS
  <1>3. \A i \in 1..Len(q) + 1 : i \in 1..Len(q) \/ i = Len(q) + 1
    BY <1>1
  <1>4. CASE ~IsEvent(m)
    <2>1. \A i \in 1..Len(q) + 1 : IsEvent(Append(q, m)[i]) => i \in 1..Len(q) /\ Append(q, m)[i] = q[i]
      BY <1>2, <1>3, <1>4
    <2>2. \A i \in 1..Len(q) + 1 : IsEvent(Append(q, m)[i]) =>
            /\ Append(q, m)[i][2] <= k /\ \A j \in 1..Len(g) : g[j] < Append(q, m)[i][2]
      BY <2>1 DEF InOrder
    <2>3. \A i \in 1..Len(q) + 1 : IsEvent(Append(q, m)[i]) =>
            \A j \in 1..Len(q) + 1 : j < i /\ IsEvent(Append(q, m)[j]) => Append(q, m)[j][2] < Append(q, m)[i][2]
      BY <2>1 DEF InOrder
    <2>4. InOrder(g, Append(q, m), k)
      BY <1>1, <2>2, <2>3 DEF InOrder
    <2> QED BY <1>4, <2>4
  <1>5. CASE IsEvent(m)
    <2>1. m[2] \in Nat /\ m[2] > k
      BY <1>5, Messages
    <2>2. \A i \in 1..Len(g) : g[i] \in Nat /\ g[i] <= k /\ g[i] < m[2]
      BY <2>1 DEF InOrder
    <2>3. \A i \in 1..Len(q) : IsEvent(q[i]) => q[i][2] \in Nat /\ q[i][2] <= k /\ q[i][2] < m[2]
      <3>1. \A i \in 1..Len(q) : IsEvent(q[i]) => q[i][2] \in Nat /\ q[i][2] <= k
        BY Messages DEF InOrder
      <3> QED BY <2>1, <3>1, SMTT(60)
    <2>4. \A i \in 1..Len(q) + 1 : \A j \in 1..Len(q) + 1 : j < i => j \in 1..Len(q)
      BY <1>1
    <2>5. \A i \in 1..Len(q) : Append(q, m)[i] = q[i]
      BY <1>1, <1>2
    <2>6. Append(q, m)[Len(q) + 1] = m
      BY <1>1, <1>2
    <2>7. \A i \in 1..Len(q) + 1 : IsEvent(Append(q, m)[i]) =>
            /\ Append(q, m)[i][2] <= m[2] /\ \A j \in 1..Len(g) : g[j] < Append(q, m)[i][2]
      BY <1>3, <2>1, <2>2, <2>3, <2>5, <2>6, SMTT(60) DEF InOrder
    <2>8. \A i \in 1..Len(q) + 1 : IsEvent(Append(q, m)[i]) =>
            \A j \in 1..Len(q) + 1 : j < i /\ IsEvent(Append(q, m)[j]) => Append(q, m)[j][2] < Append(q, m)[i][2]
      BY <1>3, <2>3, <2>4, <2>5, <2>6 DEF InOrder
    <2>9. \A i \in 1..Len(g) : g[i] <= m[2]
      BY <2>1, <2>2
    <2> QED BY <1>1, <1>5, <2>7, <2>8, <2>9 DEF InOrder
  <1> QED BY <1>4, <1>5

LEMMA OrderedTaken ==
    ASSUME NEW g \in Seq(Nat), NEW q \in Seq(Message), NEW k \in Nat, InOrder(g, q, k), q # <<>>
    PROVE  /\ InOrder(g, Tail(q), k) /\ InOrder(<<>>, Tail(q), k)
           /\ IsEvent(Head(q)) => InOrder(Append(g, Head(q)[2]), Tail(q), k)
  <1>1. Len(Tail(q)) = Len(q) - 1 /\ Len(q) \in Nat \ {0} /\ Head(q) = q[1] /\ Len(g) \in Nat
    OBVIOUS
  <1>2. \A i \in 1..Len(Tail(q)) : i + 1 \in 1..Len(q) /\ Tail(q)[i] = q[i + 1] /\ 1 < i + 1
    BY <1>1
  <1>3. \A i, j \in 1..Len(Tail(q)) : j < i => j + 1 < i + 1
    OBVIOUS
  <1>4. InOrder(g, Tail(q), k)
    BY <1>2, <1>3 DEF InOrder
  <1>5. InOrder(<<>>, Tail(q), k)
    BY <1>4 DEF InOrder, Increasing
  <1>6. ASSUME IsEvent(Head(q)) PROVE InOrder(Append(g, Head(q)[2]), Tail(q), k)
    <2> DEFINE e == Head(q)[2]
               h == Append(g, e)
    <2>1. 1 \in 1..Len(q) /\ Head(q) \in Message /\ e \in Nat
      BY <1>1, <1>6, Messages
    <2>2. e <= k /\ \A j \in 1..Len(g) : g[j] < e
      BY <1>1, <1>6, <2>1 DEF InOrder
    <2>3. \A i \in 1..Len(Tail(q)) : IsEvent(Tail(q)[i]) => e < Tail(q)[i][2]
      BY <1>1, <1>2, <1>6, <2>1 DEF InOrder
    <2> HIDE DEF e
    <2>4. Len(h) = Len(g) + 1 /\ (\A i \in 1..Len(g) : h[i] = g[i]) /\ h[Len(g) + 1] = e
      BY <1>1, <2>1
    <2>5. \A i \in 1..Len(g) + 1 : i \in 1..Len(g) \/ i = Len(g) + 1
      BY <1>1
    <2> HIDE DEF h
    <2>6. Increasing(h)
      <3>1. SUFFICES ASSUME NEW i \in 1..Len(g) + 1, NEW j \in i + 1..Len(g) + 1 PROVE h[i] < h[j]
        BY <2>4 DEF Increasing
      <3>2. i \in 1..Len(g) /\ (j \in i + 1..Len(g) \/ j = Len(g) + 1) /\ j \in 1..Len(g) + 1
        BY <1>1
      <3> QED BY <2>2, <2>4, <2>5, <3>2 DEF InOrder, Increasing
    <2>7. \A i \in 1..Len(h) : h[i] <= k
      BY <2>2, <2>4, <2>5 DEF InOrder
    <2>8. \A i \in 1..Len(Tail(q)) : IsEvent(Tail(q)[i]) => \A j \in 1..Len(h) : h[j] < Tail(q)[i][2]
      BY <1>4, <2>3, <2>4, <2>5 DEF InOrder
    <2> QED BY <1>4, <2>6, <2>7, <2>8 DEF InOrder, h, e
  <1> QED BY <1>4, <1>5, <1>6

-----------------------------------------------------------------------------
(* What is kept when one task goes on.                                       *)
Elsewhere(t) == \A u \in Task : u # t => job'[u] = job[u]

LEMMA Fields ==
    ASSUME NEW j \in Job
    PROVE  /\ j.pc \in {"off", "start", "wait", "each", "lock", "enter", "in", "room", "exit", "tell", "tellRoom",
                        "close", "drain", "cancelled"}
           /\ j.to \in Conn \cup {None} /\ j.todo \in Seq(Message \cup {Say("raised")}) /\ j.rest \subseteq Conn
           /\ j.event \in 0..MaxSeq /\ j.lock \in Lock \cup {0} /\ j.gen \in Nat
  BY DEF Job

LEMMA ElementsIn ==
    ASSUME NEW S, NEW s \in Seq(S)
    PROVE  Elements(s) \subseteq S
  BY DEF Elements

LEMMA TasksIn ==
    ASSUME TypeOK
    PROVE  /\ Elements(ready) \subseteq Task /\ \A c \in Conn : Elements(putters[c]) \subseteq Task
           /\ \A l \in Lock : Elements(waiters[l]) \subseteq Task /\ holder[l] \in Task \cup {None}
  <1>1. ready \in Seq(Task) /\ \A c \in Conn : putters[c] \in Seq(Task)
    BY DEF TypeOK
  <1>2. \A l \in Lock : waiters[l] \in Seq(Task) /\ holder[l] \in Task \cup {None}
    BY DEF TypeOK
  <1> QED BY <1>1, <1>2, ElementsIn

LEMMA JobPut ==
    ASSUME job \in [Task -> Job], NEW t \in Task, NEW r \in Job, job' = [job EXCEPT ![t] = r]
    PROVE  job' \in [Task -> Job] /\ job'[t] = r /\ Elsewhere(t)
  BY DEF Elsewhere

(* Where the locks are not touched: the task has none, or goes on with its.  *)
LEMMA LocksKept ==
    ASSUME TypeOK, Locks, holder' = holder, waiters' = waiters, NEW t \in Task, Elsewhere(t),
           \/ job[t].pc \notin InLock \cup {"cancelled"} /\ job'[t].pc \notin InLock \cup {"cancelled"}
           \/ job[t].pc \in Holding /\ job'[t].pc \in Holding /\ job'[t].lock = job[t].lock
           \/ job'[t] = job[t],
           \A u \in Task : Due(u)' /\ job'[u].pc = "lock" => Due(u)
    PROVE  Locks'
  <1>1. \A u \in Task : job'[u].pc \in Holding => holder'[job'[u].lock] = u
    BY DEF Locks, Elsewhere, InLock, Holding
  <1>2. \A l \in Lock : holder'[l] # None =>
          job'[holder'[l]].lock = l /\ job'[holder'[l]].pc \in Holding \cup {"cancelled"}
    <2> SUFFICES ASSUME NEW l \in Lock, holder[l] # None
                 PROVE  job'[holder[l]].lock = l /\ job'[holder[l]].pc \in Holding \cup {"cancelled"}
      OBVIOUS
    <2>1. holder[l] \in Task
      BY TasksIn
    <2>2. job[holder[l]].lock = l /\ job[holder[l]].pc \in Holding \cup {"cancelled"}
      BY DEF Locks
    <2>3. job[holder[l]].pc \in InLock \cup {"cancelled"}
      BY <2>2 DEF InLock
    <2> QED BY <2>1, <2>2, <2>3 DEF Elsewhere
  <1>3. \A l \in Lock : \A u \in Elements(waiters'[l]) : job'[u].pc = "lock" /\ job'[u].lock = l
    <2>1. \A l \in Lock : \A u \in Elements(waiters[l]) : u \in Task
      BY TasksIn
    <2> QED BY <2>1 DEF Locks, Elsewhere, InLock, Holding
  <1>4. \A u \in Task : Due(u)' /\ job'[u].pc = "lock" => First(u)'
    BY DEF Locks, Elsewhere, InLock, Holding, First
  <1> QED BY <1>1, <1>2, <1>3, <1>4 DEF Locks

LEMMA LinkedKept ==
    ASSUME Linked, NEW t \in Task, Elsewhere(t), link' = link,
           Kind(t) = "replay" /\ job'[t].pc = "cancelled" => link[Owner(t)] # "open",
           Kind(t) \in {"replay", "stream"} /\ link[Owner(t)] # "open" => job'[t].pc \in {"off", "cancelled"},
           job'[t].pc \in {"close", "drain"} => job[t].pc = "close"
    PROVE  Linked'
  BY DEF Linked, Elsewhere

LEMMA TableKept ==
    ASSUME Table, NEW t \in Task, Elsewhere(t), lockOf' = lockOf, link' = link, generation' = generation,
           subscribed \subseteq subscribed',
           \A c \in subscribed' : c \in subscribed \/ link[c] = "open",
           \A c \in Conn : generation[c] = 0 => Row(t, c)'
    PROVE  Table'
  BY DEF Table, Row, Elsewhere, Broadcasts

LEMMA OrderKept ==
    ASSUME Order, NEW t \in Task, Elsewhere(t), got' = got, queue' = queue, cursor' = cursor, generation' = generation,
           subscribed \subseteq subscribed', job'[t].pc # "room"
    PROVE  Order'
  BY DEF Order, Nothing, Elsewhere

LEMMA AskedKept ==
    ASSUME Asked, NEW t \in Task, Elsewhere(t), link' = link, generation' = generation,
           wants \subseteq wants',
           \A c \in Conn : t = Loop(c) /\ job'[t].pc = "wait" => c \in wants',
           \A c \in Conn : link[c] = "open" /\ generation[c] <= 1 /\ c \notin wants' =>
                          Quiet(t, c)' /\ (c \in subscribed' => c \in subscribed)
    PROVE  Asked'
  BY Tasks DEF Asked, Quiet, Elsewhere

LEMMA JobsKept ==
    ASSUME Jobs, NEW t \in Task, Elsewhere(t), generation' = generation,
           Proper(t, job'[t]), job'[t].gen <= generation[Owner(t)]
    PROVE  Jobs'
  BY DEF Jobs, Elsewhere

(* The task that runs goes on or ends or waits.                              *)
LEMMA ScheduleKept ==
    ASSUME TypeOK, Schedule, NEW t \in Task, Elsewhere(t), running = t, ready' = ready, running' \in {t, None},
           putters' = putters, running' = t => Able(t)',
           \A c \in Conn : t # Stream(c) => buffer'[c] = buffer[c]
    PROVE  Schedule'
  <1>1. \A c \in Conn : \A u \in Elements(putters[c]) : u \in Task /\ u # t
    BY TasksIn DEF Schedule, Due
  <1>2. \A u \in Elements(ready) : u \in Task /\ u # t
    BY TasksIn DEF Schedule
  <1>3. None \notin Task
    BY Tasks
  <1>4. \A u \in Task : Due(u)' => Due(u)
    BY <1>3 DEF Due
  <1>5. \A u \in Task : Due(u)' => Able(u)'
    <2> SUFFICES ASSUME NEW u \in Task, Due(u)', u # t PROVE Able(u)'
      BY <1>2, <1>3 DEF Due
    <2>1. Able(u) /\ job'[u] = job[u]
      BY <1>4 DEF Schedule, Elsewhere
    <2>2. Kind(u) = "stream" => u = Stream(Owner(u)) /\ Owner(u) \in Conn
      BY Tasks
    <2> QED BY <2>1, <2>2 DEF Able
  <1>6. \A c \in Conn : \A u \in Elements(putters[c]) : ~Due(u)' /\ Putting(u, c)'
    BY <1>1, <1>4 DEF Schedule, Putting, Elsewhere
  <1>7. running' \notin Elements(ready')
    BY <1>2, <1>3
  <1> QED BY <1>5, <1>6, <1>7 DEF Schedule

-----------------------------------------------------------------------------
(* The tasks, one action after the other.                                    *)
Pcs == {"off", "start", "wait", "each", "lock", "enter", "in", "room", "exit", "tell", "tellRoom", "close",
        "drain", "cancelled"}

(* The task goes to p, and has the todo l.                                   *)
LEMMA PcSet ==
    ASSUME TypeOK, NEW t \in Task, NEW p \in Pcs, Goes(t, p)
    PROVE  /\ job' \in [Task -> Job] /\ Elsewhere(t) /\ job'[t].pc = p /\ job'[t].to = job[t].to
           /\ job'[t].todo = job[t].todo /\ job'[t].rest = job[t].rest /\ job'[t].event = job[t].event
           /\ job'[t].lock = job[t].lock /\ job'[t].gen = job[t].gen
  <1>1. job \in [Task -> Job]
    BY DEF TypeOK
  <1> DEFINE r == [job[t] EXCEPT !.pc = p]
  <1>2. r \in Job
    BY <1>1, ZenonT(60) DEF Job, Pcs
  <1>3. job' = [job EXCEPT ![t] = r]
    BY DEF Goes
  <1>4. /\ r.pc = p /\ r.to = job[t].to /\ r.todo = job[t].todo /\ r.rest = job[t].rest
        /\ r.event = job[t].event /\ r.lock = job[t].lock /\ r.gen = job[t].gen
    BY <1>1 DEF Job
  <1> HIDE DEF r
  <1> QED BY <1>1, <1>2, <1>3, <1>4, JobPut

LEMMA TodoSet ==
    ASSUME TypeOK, NEW t \in Task, NEW p \in Pcs, NEW l \in Seq(Message \cup {Say("raised")}),
           job' = [job EXCEPT ![t].pc = p, ![t].todo = l]
    PROVE  /\ job' \in [Task -> Job] /\ Elsewhere(t) /\ job'[t].pc = p /\ job'[t].to = job[t].to
           /\ job'[t].todo = l /\ job'[t].rest = job[t].rest /\ job'[t].event = job[t].event
           /\ job'[t].lock = job[t].lock /\ job'[t].gen = job[t].gen
  <1>1. job \in [Task -> Job]
    BY DEF TypeOK
  <1> DEFINE r == [job[t] EXCEPT !.pc = p, !.todo = l]
  <1>2. r \in Job
    BY <1>1, ZenonT(60) DEF Job, Pcs
  <1>3. job' = [job EXCEPT ![t] = r]
    OBVIOUS
  <1>4. /\ r.pc = p /\ r.to = job[t].to /\ r.todo = l /\ r.rest = job[t].rest
        /\ r.event = job[t].event /\ r.lock = job[t].lock /\ r.gen = job[t].gen
    BY <1>1 DEF Job
  <1> HIDE DEF r
  <1> QED BY <1>1, <1>2, <1>3, <1>4, JobPut

LEMMA OffSet ==
    ASSUME TypeOK, NEW t \in Task, job' = [job EXCEPT ![t] = Off]
    PROVE  /\ job' \in [Task -> Job] /\ Elsewhere(t) /\ job'[t].pc = "off" /\ job'[t].to = None
           /\ job'[t].todo = <<>> /\ job'[t].rest = {} /\ job'[t].event = 0
           /\ job'[t].lock = 0 /\ job'[t].gen = 0
  <1>1. Off \in Job
    BY SubscriptionFacts DEF Off, Job
  <1>2. Off.pc = "off" /\ Off.to = None /\ Off.todo = <<>> /\ Off.rest = {} /\ Off.event = 0 /\ Off.lock = 0 /\ Off.gen = 0
    BY DEF Off
  <1> QED BY <1>1, <1>2, JobPut DEF TypeOK

(* The task that runs goes on, ends or waits, and nothing is sent.           *)
LEMMA TaskKeeps ==
    ASSUME SubInv, TypeOK', NEW t \in Task, running = t, Elsewhere(t), ready' = ready, running' \in {t, None},
           UNCHANGED <<putters, lockOf, holder, waiters, generation, link, got, queue, cursor>>,
           \A c \in Conn : t # Stream(c) => buffer'[c] = buffer[c],
           Proper(t, job'[t]), job'[t].gen <= generation[Owner(t)], running' = t => Able(t)',
           job[t].pc # "cancelled", job'[t].pc \notin {"room", "close", "drain"},
           \/ job[t].pc \notin InLock /\ job'[t].pc \notin InLock \cup {"cancelled"}
           \/ job[t].pc \in Holding /\ job'[t].pc \in Holding /\ job'[t].lock = job[t].lock,
           subscribed \subseteq subscribed', wants \subseteq wants', subscribed' \subseteq subscribed \cup wants',
           \A c \in subscribed' : c \in subscribed \/ link[c] = "open",
           \A c \in Conn : generation[c] = 0 => Row(t, c)',
           \A c \in Conn : t = Loop(c) /\ job'[t].pc = "wait" => c \in wants',
           \A c \in Conn : link[c] = "open" /\ generation[c] <= 1 /\ c \notin wants' => Quiet(t, c)'
    PROVE  SubInv'
  <1>1. Jobs' /\ Schedule'
    BY JobsKept, ScheduleKept DEF SubInv
  <1>2. Locks'
    <2>1. \A u \in Task : Due(u)' => Due(u)
      BY Tasks DEF Due
    <2>2. job'[t].pc \notin InLock \cup {"cancelled"} \/ job'[t].pc \in Holding
      OBVIOUS
    <2>3. job[t].pc \in InLock \/ job[t].pc \notin InLock \cup {"cancelled"}
      OBVIOUS
    <2> QED BY <2>1, <2>2, <2>3, LocksKept DEF SubInv
  <1>3. Linked'
    <2>1. Able(t)
      BY DEF SubInv, Schedule, Due
    <2>2. Kind(t) \in {"replay", "stream"} => link[Owner(t)] = "open"
      BY <2>1 DEF SubInv, Linked, Able
    <2> QED BY <2>2, LinkedKept DEF SubInv, Holding
  <1>4. Table' /\ Order' /\ Asked'
    BY TableKept, OrderKept, AskedKept DEF SubInv
  <1> QED BY <1>1, <1>2, <1>3, <1>4 DEF SubInv

(* What is known of a task that runs.                                        *)
LEMMA Running ==
    ASSUME SubInv, NEW t \in Task, running = t
    PROVE  /\ TypeOK /\ Proper(t, job[t]) /\ job[t].gen <= generation[Owner(t)] /\ Able(t) /\ Owner(t) \in Conn
           /\ job[t] \in Job /\ t \notin Elements(ready) /\ t # None /\ Due(t)
           /\ \A c \in Conn : t \notin Elements(putters[c])
           /\ job[t].pc # "cancelled" /\ Kind(t) \in {"replay", "stream"} => link[Owner(t)] = "open"
           /\ \A c \in Conn : generation[c] = 0 => Row(t, c)
           /\ \A c \in Conn : link[c] = "open" /\ generation[c] <= 1 /\ c \notin wants => Quiet(t, c)
  <1>1. TypeOK /\ Proper(t, job[t]) /\ job[t].gen <= generation[Owner(t)] /\ Owner(t) \in Conn /\ t # None
    BY Tasks DEF SubInv, Jobs
  <1>2. Able(t) /\ Due(t) /\ t \notin Elements(ready)
    BY DEF SubInv, Schedule, Due
  <1>3. job[t] \in Job
    BY <1>1 DEF TypeOK
  <1>4. job[t].pc # "cancelled" /\ Kind(t) \in {"replay", "stream"} => link[Owner(t)] = "open"
    BY <1>2 DEF SubInv, Linked, Able
  <1>5. \A c \in Conn : generation[c] = 0 => Row(t, c)
    BY DEF SubInv, Table
  <1>6. \A c \in Conn : link[c] = "open" /\ generation[c] <= 1 /\ c \notin wants => Quiet(t, c)
    BY DEF SubInv, Asked
  <1>7. \A c \in Conn : t \notin Elements(putters[c])
    BY <1>2 DEF SubInv, Schedule
  <1> QED BY <1>1, <1>2, <1>3, <1>4, <1>5, <1>6, <1>7

LEMMA StreamStartsKeeps ==
    ASSUME SubInv, NEW c \in Conn, StreamStarts(c)
    PROVE  SubInv'
  <1> DEFINE t == Stream(c)
  <1>1. t \in Task /\ Kind(t) = "stream" /\ Owner(t) = c
    BY Tasks
  <1> HIDE DEF t
  <1>2. /\ running = t /\ job[t].pc = "start" /\ Goes(t, "wait")
        /\ subscribed' = subscribed \cup {c} /\ wants' = wants \cup {c} /\ ready' = ready
        /\ running' = IF buffer[c] = <<>> THEN None ELSE running
        /\ UNCHANGED <<journal, exec, buffer, cursor, generation, lockOf, holder, waiters, queue, putters, sender,
                       got, known, link, reads, silent, asked>>
    BY DEF StreamStarts, At, Waits, Keeps, t, runVars, lockVars, outVars, linkVars
  <1>3. TypeOK /\ Proper(t, job[t]) /\ job[t].gen <= generation[c] /\ "wait" \in Pcs /\ link[c] = "open"
    BY <1>1, <1>2, Running DEF Pcs
  <1>4. /\ job' \in [Task -> Job] /\ Elsewhere(t) /\ job'[t].pc = "wait" /\ job'[t].to = job[t].to
        /\ job'[t].todo = job[t].todo /\ job'[t].rest = job[t].rest /\ job'[t].event = job[t].event
        /\ job'[t].lock = job[t].lock /\ job'[t].gen = job[t].gen
    BY <1>1, <1>2, <1>3, PcSet
  <1>5. TypeOK'
    BY <1>1, <1>2, <1>3, <1>4 DEF TypeOK
  <1>6. Proper(t, job'[t])
    BY <1>1, <1>2, <1>3, <1>4 DEF Proper, InLock, Holding
  <1>7. running' = t => Able(t)'
    BY <1>1, <1>2, <1>4, Tasks DEF Able
  <1>8. \A d \in Conn : generation[d] = 0 => Row(t, d)'
    <2>1. \A d \in Conn : generation[d] = 0 => Row(t, d)
      BY <1>1, <1>2, Running
    <2> QED BY <1>1, <1>2, <1>4, <2>1 DEF Row, Broadcasts, InLock, Holding
  <1>9. \A d \in Conn : Quiet(t, d)' /\ t # Loop(d)
    BY <1>1, <1>4, Tasks DEF Quiet
  <1>10. job[t].pc \notin InLock /\ job'[t].pc \notin InLock \cup {"cancelled"}
    BY <1>2, <1>4 DEF InLock, Holding
  <1> QED BY <1>1, <1>2, <1>3, <1>4, <1>5, <1>6, <1>7, <1>8, <1>9, <1>10, TaskKeeps

LEMMA NextEventKeeps ==
    ASSUME SubInv, NEW c \in Conn, NextEvent(c)
    PROVE  SubInv'
  <1> DEFINE t == Stream(c)
  <1>1. t \in Task /\ Kind(t) = "stream" /\ Owner(t) = c
    BY Tasks
  <1>0. \A d \in Conn : t # Stream(d) => d # c
    OBVIOUS
  <1> HIDE DEF t
  <1>2. /\ running = t /\ job[t].pc = "wait" /\ buffer[c] # <<>> /\ ready' = ready
        /\ buffer' = [buffer EXCEPT ![c] = Tail(buffer[c])]
        /\ \/ job' = [job EXCEPT ![t] = Off] /\ running' = None
           \/ /\ Head(buffer[c]) # 0 /\ running' = running
              /\ job' = [job EXCEPT ![t].pc = "each", ![t].event = Head(buffer[c]), ![t].rest = subscribed]
        /\ UNCHANGED <<journal, exec, subscribed, cursor, generation, lockOf, holder, waiters, queue, putters, sender,
                       got, known, link, reads, silent, asked, wants>>
    BY DEF NextEvent, At, Ends, Keeps, t, subVars, lockVars, outVars, linkVars, clientVars
  <1>3. TypeOK /\ Proper(t, job[t]) /\ job[t].gen <= generation[c] /\ job[t] \in Job
    BY <1>1, <1>2, Running
  <1>4. Head(buffer[c]) \in 0..MaxSeq /\ Tail(buffer[c]) \in Seq(0..MaxSeq)
    <2>1. buffer[c] \in Seq(0..MaxSeq)
      BY <1>3 DEF TypeOK
    <2> QED BY <1>2, <2>1, Taking
  <1>5. subscribed \in SUBSET Conn
    BY <1>3 DEF TypeOK
  <1>6. /\ job' \in [Task -> Job] /\ Elsewhere(t) /\ job'[t].lock = 0 /\ job'[t].pc \in {"off", "each"}
        /\ job'[t].gen <= generation[c] /\ job'[t].rest \subseteq subscribed
        /\ running' = t => job'[t].pc = "each"
    <2>1. job[t].lock = 0 /\ 0 <= generation[c] /\ t # None
      BY <1>1, <1>2, <1>3, Tasks, Fields, SMTT(60) DEF Proper, InLock, Holding, TypeOK
    <2>2. CASE job' = [job EXCEPT ![t] = Off] /\ running' = None
      BY <1>1, <1>3, <2>1, <2>2, OffSet
    <2>3. CASE job' = [job EXCEPT ![t].pc = "each", ![t].event = Head(buffer[c]), ![t].rest = subscribed]
      <3> DEFINE r == [job[t] EXCEPT !.pc = "each", !.event = Head(buffer[c]), !.rest = subscribed]
      <3>1. r \in Job
        BY <1>3, <1>4, <1>5 DEF Job
      <3>2. job' = [job EXCEPT ![t] = r]
        BY <2>3
      <3>3. r.pc = "each" /\ r.lock = job[t].lock /\ r.gen = job[t].gen /\ r.rest = subscribed
        BY <1>3 DEF Job
      <3>4. job \in [Task -> Job]
        BY <1>3 DEF TypeOK
      <3> HIDE DEF r
      <3> QED BY <1>1, <1>3, <2>1, <3>1, <3>2, <3>3, <3>4, JobPut
    <2> QED BY <1>2, <2>2, <2>3
  <1>7. TypeOK'
    BY <1>1, <1>2, <1>3, <1>4, <1>6 DEF TypeOK
  <1>8. Proper(t, job'[t])
    BY <1>1, <1>6 DEF Proper, InLock, Holding
  <1>9. running' = t => Able(t)'
    BY <1>1, <1>6, Tasks DEF Able
  <1>10. \A d \in Conn : Row(t, d)'
    BY <1>2, <1>6 DEF Row, InLock, Holding
  <1>11. \A d \in Conn : Quiet(t, d)' /\ t # Loop(d)
    BY <1>1, <1>6, Tasks DEF Quiet
  <1>12. job[t].pc \notin InLock /\ job'[t].pc \notin InLock \cup {"cancelled"}
    BY <1>2, <1>6 DEF InLock, Holding
  <1>13. \A d \in Conn : t # Stream(d) => buffer'[d] = buffer[d]
    BY <1>0, <1>2, <1>3 DEF TypeOK
  <1>14. running' \in {t, None} /\ job'[t].pc \notin {"room", "close", "drain"} /\ job[t].pc # "cancelled"
    BY <1>2, <1>6
  <1> QED BY <1>1, <1>2, <1>6, <1>7, <1>8, <1>9, <1>10, <1>11, <1>12, <1>13, <1>14, TaskKeeps

LEMMA BroadcastEntersKeeps ==
    ASSUME SubInv, NEW t \in Task, BroadcastEnters(t)
    PROVE  SubInv'
  <1>1. /\ running = t /\ job[t].pc = "enter" /\ Kind(t) # "replay" /\ job[t].event # 0
        /\ job' = [job EXCEPT ![t].pc = "in",
                              ![t].todo = IF job[t].to \in subscribed THEN <<Event(job[t].event)>> ELSE <<>>]
        /\ UNCHANGED <<running, ready, journal, exec, buffer, subscribed, cursor, generation, lockOf, holder,
                       waiters, queue, putters, sender, got, known, link, reads, silent, asked, wants>>
    BY DEF BroadcastEnters, At, Keeps, runVars, subVars, lockVars, outVars, linkVars, clientVars
  <1>2. /\ TypeOK /\ Proper(t, job[t]) /\ job[t].gen <= generation[Owner(t)] /\ job[t] \in Job /\ "in" \in Pcs
        /\ \A c \in Conn : generation[c] = 0 => Row(t, c)
        /\ \A c \in Conn : link[c] = "open" /\ generation[c] <= 1 /\ c \notin wants => Quiet(t, c)
    BY <1>1, Running DEF Pcs
  <1> DEFINE l == IF job[t].to \in subscribed THEN <<Event(job[t].event)>> ELSE <<>>
  <1>3. l \in Seq(Message) /\ l \in Seq(Message \cup {Say("raised")}) /\ (job[t].to \notin subscribed => l = <<>>)
    <2>1. job[t].event \in 1..MaxSeq
      BY <1>1, <1>2, Fields, SubscriptionFacts
    <2>2. Event(job[t].event) \in Message
      BY <2>1, Messages
    <2>3. <<>> \in Seq(Message) /\ <<>> \in Seq(Message \cup {Say("raised")})
      OBVIOUS
    <2>4. \A m \in Message : <<m>> \in Seq(Message) /\ <<m>> \in Seq(Message \cup {Say("raised")})
      OBVIOUS
    <2>5. <<Event(job[t].event)>> \in Seq(Message) /\ <<Event(job[t].event)>> \in Seq(Message \cup {Say("raised")})
      BY <2>2, <2>4
    <2>6. CASE job[t].to \in subscribed
      BY <2>5, <2>6
    <2>7. CASE job[t].to \notin subscribed
      BY <2>3, <2>7
    <2> QED BY <2>6, <2>7
  <1>4. job' = [job EXCEPT ![t].pc = "in", ![t].todo = l]
    BY <1>1
  <1> HIDE DEF l
  <1>5. /\ job' \in [Task -> Job] /\ Elsewhere(t) /\ job'[t].pc = "in" /\ job'[t].to = job[t].to
        /\ job'[t].todo = l /\ job'[t].rest = job[t].rest /\ job'[t].event = job[t].event
        /\ job'[t].lock = job[t].lock /\ job'[t].gen = job[t].gen
    BY <1>2, <1>3, <1>4, TodoSet
  <1>6. TypeOK'
    BY <1>1, <1>2, <1>5 DEF TypeOK
  <1>7. Proper(t, job'[t]) /\ Able(t)' /\ Kind(t) # "beat"
    BY <1>1, <1>2, <1>3, <1>5 DEF Proper, Able, InLock, Holding
  <1>8. Broadcasts(t) /\ job[t].lock # 0
    BY <1>1, <1>2, <1>7, Tasks DEF Broadcasts, Proper, InLock, Holding
  <1>9. \A c \in Conn : generation[c] = 0 => Row(t, c)'
    BY <1>1, <1>2, <1>5, <1>8 DEF Row, Broadcasts, InLock, Holding
  <1>10. \A c \in Conn : link[c] = "open" /\ generation[c] <= 1 /\ c \notin wants => Quiet(t, c)'
    <2>1. \A c \in Conn : t \notin Replays(c)
      BY <1>1, Tasks
    <2>2. \A c \in Conn : link[c] = "open" /\ generation[c] <= 1 /\ c \notin wants => c \notin subscribed
      BY DEF SubInv, Asked
    <2> QED BY <1>3, <1>5, <2>1, <2>2 DEF Quiet
  <1>11. job[t].pc \in Holding /\ job'[t].pc \in Holding /\ job'[t].lock = job[t].lock
    BY <1>1, <1>5 DEF Holding
  <1> QED BY <1>1, <1>2, <1>5, <1>6, <1>7, <1>9, <1>10, <1>11, TaskKeeps

LEMMA AllSentKeeps ==
    ASSUME SubInv, NEW t \in Task, AllSent(t)
    PROVE  SubInv'
  <1>1. /\ running = t /\ job[t].pc = "in" /\ Goes(t, "exit")
        /\ UNCHANGED <<running, ready, journal, exec, buffer, subscribed, cursor, generation, lockOf, holder,
                       waiters, queue, putters, sender, got, known, link, reads, silent, asked, wants>>
    BY DEF AllSent, At, Keeps, runVars, subVars, lockVars, outVars, linkVars, clientVars
  <1>2. /\ TypeOK /\ Proper(t, job[t]) /\ job[t].gen <= generation[Owner(t)] /\ "exit" \in Pcs
        /\ \A c \in Conn : generation[c] = 0 => Row(t, c)
        /\ \A c \in Conn : link[c] = "open" /\ generation[c] <= 1 /\ c \notin wants => Quiet(t, c)
    BY <1>1, Running DEF Pcs
  <1>3. /\ job' \in [Task -> Job] /\ Elsewhere(t) /\ job'[t].pc = "exit" /\ job'[t].to = job[t].to
        /\ job'[t].todo = job[t].todo /\ job'[t].rest = job[t].rest /\ job'[t].event = job[t].event
        /\ job'[t].lock = job[t].lock /\ job'[t].gen = job[t].gen
    BY <1>1, <1>2, PcSet
  <1>4. TypeOK'
    BY <1>1, <1>2, <1>3 DEF TypeOK
  <1>5. Proper(t, job'[t]) /\ Able(t)'
    BY <1>1, <1>2, <1>3 DEF Proper, Able, InLock, Holding
  <1>6. \A c \in Conn : generation[c] = 0 => Row(t, c)'
    BY <1>1, <1>2, <1>3 DEF Row, Broadcasts, InLock, Holding
  <1>7. \A c \in Conn : link[c] = "open" /\ generation[c] <= 1 /\ c \notin wants => Quiet(t, c)'
    BY <1>1, <1>2, <1>3 DEF Quiet
  <1>8. job[t].pc \in Holding /\ job'[t].pc \in Holding /\ job'[t].lock = job[t].lock
    BY <1>1, <1>3 DEF Holding
  <1> QED BY <1>1, <1>2, <1>3, <1>4, <1>5, <1>6, <1>7, <1>8, TaskKeeps

(* A task asks for the lock of a connection, and has it or waits for it.     *)
LEMMA AskKeeps ==
    ASSUME SubInv, NEW t \in Task, NEW c \in Conn, AskLock(t, c), running = t, job[t].pc \in {"start", "each"},
           Kind(t) # "beat", Kind(t) = "replay" \/ (Kind(t) = "loop" /\ job[t].event = 0) => c = Owner(t),
           generation[c] = 0 /\ Broadcasts(t) => c \in subscribed,
           UNCHANGED <<runVars, subVars, outVars, linkVars, clientVars>>
    PROVE  SubInv'
  <1> DEFINE l == LockFor(c)
             free == holder[l] = None /\ waiters[l] = <<>>
             p == IF free THEN "enter" ELSE "lock"
  <1>1. /\ lockOf' = [lockOf EXCEPT ![c] = l] /\ ready' = ready
        /\ free => holder' = [holder EXCEPT ![l] = t] /\ waiters' = waiters /\ running' = running
        /\ ~free => waiters' = [waiters EXCEPT ![l] = Append(waiters[l], t)] /\ holder' = holder /\ running' = None
        /\ job' = [job EXCEPT ![t].pc = p, ![t].to = c, ![t].lock = l, ![t].rest = job[t].rest \ {c}]
        /\ UNCHANGED <<journal, exec, buffer, subscribed, cursor, generation, queue, putters, sender, got, known,
                       link, reads, silent, asked, wants>>
    BY DEF AskLock, Keeps, Waits, runVars, subVars, outVars, linkVars, clientVars
  <1>2. /\ TypeOK /\ Proper(t, job[t]) /\ job[t].gen <= generation[Owner(t)] /\ job[t] \in Job
        /\ job[t].pc # "cancelled" /\ Kind(t) \in {"replay", "stream"} => link[Owner(t)] = "open"
        /\ t \notin Elements(ready) /\ t # None
        /\ \A d \in Conn : generation[d] = 0 => Row(t, d)
        /\ \A d \in Conn : link[d] = "open" /\ generation[d] <= 1 /\ d \notin wants => Quiet(t, d)
    BY Running
  <1>3. job[t].lock = 0 /\ job[t].pc \notin InLock \cup {"cancelled"}
    BY <1>2, Fields DEF Proper, InLock, Holding
  <1>4. /\ l \in Lock /\ l # 0 /\ (lockOf[c] = 0 \/ l = lockOf[c])
        /\ lockOf[c] = 0 => \A d \in Conn : lockOf[d] # l
    <2>1. lockOf[c] \in Lock \cup {0} /\ 0 \notin Lock
      BY <1>2 DEF TypeOK, Lock
    <2>2. FreshLock \in Lock /\ \A d \in Conn : lockOf[d] # FreshLock
      BY <1>2, <1>3, FreshLockIsFresh DEF SubInv
    <2> QED BY <2>1, <2>2 DEF LockFor
  <1> HIDE DEF l
  <1>5. p \in Pcs /\ p \in {"enter", "lock"} /\ p \in InLock
    BY DEF Pcs, InLock, Holding
  <1>6. /\ job' \in [Task -> Job] /\ Elsewhere(t) /\ job'[t].pc = p /\ job'[t].to = c
        /\ job'[t].todo = job[t].todo /\ job'[t].rest = job[t].rest \ {c} /\ job'[t].event = job[t].event
        /\ job'[t].lock = l /\ job'[t].gen = job[t].gen
    <2> HIDE DEF p
    <2> DEFINE r == [job[t] EXCEPT !.pc = p, !.to = c, !.lock = l, !.rest = job[t].rest \ {c}]
    <2>1. r \in Job
      BY <1>2, <1>4, <1>5 DEF Job, Pcs
    <2>2. job' = [job EXCEPT ![t] = r]
      BY <1>1
    <2>3. /\ r.pc = p /\ r.to = c /\ r.todo = job[t].todo /\ r.rest = job[t].rest \ {c}
          /\ r.event = job[t].event /\ r.lock = l /\ r.gen = job[t].gen
      BY <1>2 DEF Job
    <2>4. job \in [Task -> Job]
      BY <1>2 DEF TypeOK
    <2> HIDE DEF r
    <2> QED BY <2>1, <2>2, <2>3, <2>4, JobPut
  <1>7. TypeOK'
    <2>1. /\ lockOf' \in [Conn -> Lock \cup {0}] /\ holder' \in [Lock -> Task \cup {None}]
          /\ running' \in Task \cup {None}
      BY <1>1, <1>2, <1>4 DEF TypeOK
    <2>2. waiters' \in [Lock -> Seq(Task)]
      <3>1. waiters[l] \in Seq(Task)
        BY <1>2, <1>4 DEF TypeOK
      <3>2. Append(waiters[l], t) \in Seq(Task)
        BY <3>1, SMTT(60)
      <3> QED BY <1>1, <1>2, <1>4, <3>2 DEF TypeOK
    <2> HIDE DEF p, free
    <2> QED BY <1>1, <1>2, <1>6, <2>1, <2>2 DEF TypeOK
  <1>8. Jobs'
    <2>1. Proper(t, job'[t])
      BY <1>2, <1>4, <1>5, <1>6 DEF Proper, InLock, Holding
    <2> QED BY <1>1, <1>2, <1>6, <2>1, JobsKept DEF SubInv
  <1>9. Schedule'
    <2>1. running' = t => Able(t)'
      BY <1>5, <1>6 DEF Able
    <2> QED BY <1>1, <1>2, <1>6, <2>1, ScheduleKept DEF SubInv
  <1>10. Locks'
    <2>0. ready' = ready /\ running' \in {t, None}
      BY <1>1
    <2>1. \A u \in Task : Due(u)' /\ u # t => Due(u)
      BY <2>0, Tasks DEF Due
    <2>2. ~free => ~Due(t)'
      BY <1>1, <1>2 DEF Due
    <2>3. \A m \in Lock : t \notin Elements(waiters[m]) /\ holder[m] # t
      BY <1>2, <1>3, Fields DEF SubInv, Locks, InLock
    <2>4. waiters[l] \in Seq(Task) /\ holder \in [Lock -> Task \cup {None}] /\ waiters \in [Lock -> Seq(Task)]
      BY <1>2, <1>4 DEF TypeOK
    <2>5. CASE free
      <3>1. holder'[l] = t /\ (\A m \in Lock : m # l => holder'[m] = holder[m]) /\ waiters' = waiters /\ p = "enter"
        BY <1>1, <1>4, <2>4, <2>5
      <3>2. \A u \in Task : job'[u].pc \in Holding => holder'[job'[u].lock] = u
        <4> SUFFICES ASSUME NEW u \in Task, u # t, job[u].pc \in Holding PROVE holder'[job[u].lock] = u
          BY <1>6, <3>1 DEF Elsewhere
        <4>1. holder[job[u].lock] = u /\ u # None
          BY Tasks DEF SubInv, Locks
        <4>2. job[u].lock \in Lock /\ job[u].lock # l
          <5>1. job[u].lock \in Lock \cup {0} /\ job[u].lock # 0
            BY <1>2, Fields DEF SubInv, Jobs, Proper, InLock, TypeOK
          <5> QED BY <2>5, <4>1, <5>1
        <4> QED BY <3>1, <4>1, <4>2
      <3>3. \A m \in Lock : holder'[m] # None =>
              job'[holder'[m]].lock = m /\ job'[holder'[m]].pc \in Holding \cup {"cancelled"}
        <4>1. job'[t].lock = l /\ job'[t].pc \in Holding
          BY <1>6, <3>1 DEF Holding
        <4>2. ASSUME NEW m \in Lock, m # l, holder[m] # None
              PROVE  job'[holder[m]].lock = m /\ job'[holder[m]].pc \in Holding \cup {"cancelled"}
          <5>1. holder[m] \in Task /\ holder[m] # t
            BY <2>3, <2>4, <4>2
          <5>2. job[holder[m]].lock = m /\ job[holder[m]].pc \in Holding \cup {"cancelled"}
            BY <4>2 DEF SubInv, Locks
          <5> QED BY <1>6, <5>1, <5>2 DEF Elsewhere
        <4> QED BY <3>1, <4>1, <4>2
      <3>4. \A m \in Lock : \A u \in Elements(waiters[m]) : job'[u].pc = "lock" /\ job'[u].lock = m
        BY <1>2, <1>6, <2>3, TasksIn DEF SubInv, Locks, Elsewhere
      <3>5. \A u \in Task : Due(u)' /\ job'[u].pc = "lock" => First(u)'
        <4> SUFFICES ASSUME NEW u \in Task, Due(u)', u # t, job[u].pc = "lock" PROVE First(u)'
          BY <1>6, <3>1 DEF Elsewhere
        <4>1. First(u) /\ job'[u] = job[u]
          BY <1>6, <2>1 DEF SubInv, Locks, Elsewhere
        <4>2. job[u].lock # l
          BY <2>5, <4>1 DEF First
        <4>3. job[u].lock \in Lock
          <5>1. job[u].lock \in Lock \cup {0} /\ job[u].lock # 0
            BY <1>2, Fields DEF SubInv, Jobs, Proper, InLock, TypeOK
          <5> QED BY <5>1
        <4> QED BY <3>1, <4>1, <4>2, <4>3 DEF First
      <3> QED BY <3>1, <3>2, <3>3, <3>4, <3>5 DEF SubInv, Locks
    <2>6. CASE ~free
      <3>1. /\ waiters'[l] = Append(waiters[l], t) /\ holder' = holder /\ p = "lock"
            /\ \A m \in Lock : m # l => waiters'[m] = waiters[m]
        BY <1>1, <1>4, <2>4, <2>6
      <3>2. /\ Elements(waiters'[l]) = Elements(waiters[l]) \cup {t} /\ Distinct(waiters'[l])
            /\ waiters'[l] # <<>> /\ (waiters[l] # <<>> => Head(waiters'[l]) = Head(waiters[l]))
        <4>1. Distinct(waiters[l]) /\ t \notin Elements(waiters[l])
          BY <1>4, <2>3 DEF SubInv, Locks
        <4> HIDE DEF free
        <4> QED BY <2>4, <3>1, <4>1, Appending
      <3>3. \A m \in Lock : Distinct(waiters'[m])
        BY <3>1, <3>2 DEF SubInv, Locks
      <3>4. \A u \in Task : job'[u].pc \in Holding => holder'[job'[u].lock] = u
        BY <1>6, <3>1 DEF SubInv, Locks, Elsewhere, Holding
      <3>5. \A m \in Lock : holder'[m] # None =>
              job'[holder'[m]].lock = m /\ job'[holder'[m]].pc \in Holding \cup {"cancelled"}
        BY <1>6, <2>3, <2>4, <3>1 DEF SubInv, Locks, Elsewhere
      <3>6. \A m \in Lock : \A u \in Elements(waiters'[m]) : job'[u].pc = "lock" /\ job'[u].lock = m
        <4> SUFFICES ASSUME NEW m \in Lock, NEW u \in Elements(waiters'[m]), u # t
                     PROVE  job'[u].pc = "lock" /\ job'[u].lock = m
          BY <1>6, <3>1, <3>2, <2>3
        <4>1. u \in Elements(waiters[m]) /\ u \in Task
          BY <1>2, <3>1, <3>2, TasksIn
        <4> QED BY <1>6, <4>1 DEF SubInv, Locks, Elsewhere
      <3>7. \A u \in Task : Due(u)' /\ job'[u].pc = "lock" => First(u)'
        <4> SUFFICES ASSUME NEW u \in Task, Due(u)', u # t, job[u].pc = "lock" PROVE First(u)'
          BY <1>6, <2>2, <2>6 DEF Elsewhere
        <4>1. First(u) /\ job'[u] = job[u]
          BY <1>6, <2>1 DEF SubInv, Locks, Elsewhere
        <4>2. job[u].lock \in Lock
          <5>1. job[u].lock \in Lock \cup {0} /\ job[u].lock # 0
            BY <1>2, Fields DEF SubInv, Jobs, Proper, InLock, TypeOK
          <5> QED BY <5>1
        <4> QED BY <3>1, <3>2, <4>1, <4>2 DEF First
      <3> QED BY <3>3, <3>4, <3>5, <3>6, <3>7 DEF Locks
    <2> QED BY <2>5, <2>6
  <1>11. Linked'
    <2>1. job'[t].pc # "cancelled"
      BY <1>5, <1>6
    <2> QED BY <1>1, <1>2, <1>6, <2>1, LinkedKept DEF SubInv
  <1>12. Table'
    <2> SUFFICES ASSUME NEW d \in Conn, generation[d] = 0, NEW u \in Task PROVE Row(u, d)'
      BY <1>1 DEF Table
    <2>1. Row(u, d)
      BY DEF SubInv, Table
    <2>2. lockOf'[c] = l /\ (d # c => lockOf'[d] = lockOf[d])
      BY <1>1, <1>2 DEF TypeOK
    <2>3. CASE u = t
      BY <1>1, <1>2, <1>3, <1>5, <1>6, <2>1, <2>2, <2>3, SMTT(60) DEF Row, Broadcasts
    <2>4. CASE u # t
      <3>1. job'[u] = job[u]
        BY <1>6, <2>4 DEF Elsewhere
      <3>2. job[u].pc \in InLock => job[u].lock # 0
        BY SMTT(60) DEF SubInv, Jobs, Proper
      <3> QED BY <1>1, <1>4, <2>1, <2>2, <3>1, <3>2 DEF Row, Broadcasts
    <2> QED BY <2>3, <2>4
  <1>13. Order' /\ Asked'
    <2>1. job'[t].pc # "room" /\ job'[t].pc # "wait"
      BY <1>5, <1>6
    <2>2. \A d \in Conn : link[d] = "open" /\ generation[d] <= 1 /\ d \notin wants => Quiet(t, d)'
      BY <1>1, <1>2, <1>5, <1>6, SMTT(60) DEF Quiet
    <2>3. Order'
      BY <1>1, <1>6, <2>1, OrderKept DEF SubInv
    <2> QED BY <1>1, <1>6, <2>1, <2>2, <2>3, AskedKept DEF SubInv
  <1> QED BY <1>7, <1>8, <1>9, <1>10, <1>11, <1>12, <1>13 DEF SubInv

LEMMA TaskStartsKeeps ==
    ASSUME SubInv, NEW t \in Task, TaskStarts(t)
    PROVE  SubInv'
  <1>1. /\ running = t /\ job[t].pc = "start" /\ Kind(t) \in {"replay", "loop"} /\ AskLock(t, Owner(t))
        /\ UNCHANGED <<runVars, subVars, outVars, linkVars, clientVars>>
    BY DEF TaskStarts, At
  <1>2. Owner(t) \in Conn /\ Proper(t, job[t])
    BY <1>1, Running
  <1>3. ~Broadcasts(t)
    BY <1>1, <1>2 DEF Broadcasts, Proper
  <1> QED BY <1>1, <1>2, <1>3, AskKeeps

LEMMA NextTargetKeeps ==
    ASSUME SubInv, NEW t \in Task, NextTarget(t)
    PROVE  SubInv'
  <1>1. /\ running = t /\ job[t].pc = "each"
        /\ UNCHANGED <<runVars, subVars, outVars, linkVars, clientVars>>
        /\ \/ \E c \in job[t].rest \cap known : AskLock(t, c)
           \/ /\ ready' = ready /\ running' \in {t, None} /\ UNCHANGED <<lockOf, holder, waiters>>
              /\ \/ job' = [job EXCEPT ![t] = Off] /\ running' = None
                 \/ /\ job' = [job EXCEPT ![t].pc = "wait", ![t].rest = {}] /\ Kind(t) # "loop"
                    /\ running' = IF buffer[Owner(t)] = <<>> THEN None ELSE t
    BY DEF NextTarget, At, Ends, Waits, Keeps
  <1>2. /\ TypeOK /\ Proper(t, job[t]) /\ job[t].gen <= generation[Owner(t)] /\ job[t] \in Job /\ t # None
        /\ \A c \in Conn : generation[c] = 0 => Row(t, c)
    BY <1>1, Running
  <1>3. Kind(t) \in {"stream", "loop"} /\ Owner(t) \in Conn /\ job[t].rest \subseteq Conn /\ job[t].lock = 0
    BY <1>1, <1>2, Tasks, Fields DEF Proper, InLock, Holding
  <1>4. ASSUME NEW c \in job[t].rest, AskLock(t, c) PROVE SubInv'
    <2>1. generation[c] = 0 /\ Broadcasts(t) => c \in subscribed
      BY <1>2, <1>3 DEF Row
    <2>2. Kind(t) = "replay" \/ (Kind(t) = "loop" /\ job[t].event = 0) => c = Owner(t)
      BY <1>1, <1>2, <1>3 DEF Proper
    <2>3. c \in Conn /\ job[t].pc \in {"start", "each"} /\ Kind(t) # "beat"
      BY <1>1, <1>3
    <2> QED BY <1>1, <1>4, <2>1, <2>2, <2>3, AskKeeps
  <1>5. ASSUME ready' = ready, running' \in {t, None}, UNCHANGED <<lockOf, holder, waiters>>,
               \/ job' = [job EXCEPT ![t] = Off] /\ running' = None
               \/ /\ job' = [job EXCEPT ![t].pc = "wait", ![t].rest = {}] /\ Kind(t) # "loop"
                  /\ running' = IF buffer[Owner(t)] = <<>> THEN None ELSE t
        PROVE  SubInv'
    <2>1. UNCHANGED <<journal, exec, buffer, subscribed, cursor, generation, queue, putters, sender, got, known,
                      link, reads, silent, asked, wants>>
      BY <1>1 DEF runVars, subVars, outVars, linkVars, clientVars
    <2>2. /\ job' \in [Task -> Job] /\ Elsewhere(t) /\ job'[t].lock = 0 /\ job'[t].gen <= generation[Owner(t)]
          /\ job'[t].rest = {} /\ (job'[t].pc = "off" \/ (job'[t].pc = "wait" /\ Kind(t) = "stream"))
          /\ running' = t => job'[t].pc = "wait" /\ buffer[Owner(t)] # <<>>
      <3>1. CASE job' = [job EXCEPT ![t] = Off] /\ running' = None
        <4>1. 0 <= generation[Owner(t)]
          BY <1>2, <1>3 DEF TypeOK
        <4> QED BY <1>2, <3>1, <4>1, OffSet
      <3>2. CASE /\ job' = [job EXCEPT ![t].pc = "wait", ![t].rest = {}] /\ Kind(t) # "loop"
                 /\ running' = IF buffer[Owner(t)] = <<>> THEN None ELSE t
        <4> DEFINE r == [job[t] EXCEPT !.pc = "wait", !.rest = {}]
        <4>1. r \in Job
          BY <1>2 DEF Job
        <4>2. job' = [job EXCEPT ![t] = r]
          BY <3>2
        <4>3. r.pc = "wait" /\ r.lock = job[t].lock /\ r.gen = job[t].gen /\ r.rest = {}
          BY <1>2 DEF Job
        <4>4. job \in [Task -> Job]
          BY <1>2 DEF TypeOK
        <4> HIDE DEF r
        <4> QED BY <1>2, <1>3, <3>2, <4>1, <4>2, <4>3, <4>4, JobPut
      <3> QED BY <1>5, <3>1, <3>2
    <2>3. TypeOK'
      BY <1>2, <1>5, <2>1, <2>2 DEF TypeOK
    <2>4. Proper(t, job'[t]) /\ (running' = t => Able(t)')
      BY <1>3, <2>1, <2>2 DEF Proper, Able, InLock, Holding
    <2>5. \A d \in Conn : Row(t, d)'
      BY <2>2 DEF Row, InLock, Holding
    <2>6. \A d \in Conn : Quiet(t, d)' /\ ~(t = Loop(d) /\ job'[t].pc = "wait")
      BY <1>3, <2>2, Tasks DEF Quiet
    <2>7. job[t].pc \notin InLock /\ job'[t].pc \notin InLock \cup {"cancelled"} /\ job'[t].pc \notin {"room", "close", "drain"}
      BY <1>1, <2>2 DEF InLock, Holding
    <2> QED BY <1>1, <1>5, <2>1, <2>2, <2>3, <2>4, <2>5, <2>6, <2>7, TaskKeeps
  <1> QED BY <1>1, <1>4, <1>5

LEMMA LockIn ==
    ASSUME TypeOK, Jobs, NEW t \in Task, job[t].pc \in InLock
    PROVE  job[t].lock \in Lock
  <1>1. job[t] \in Job /\ job[t].lock # 0
    BY DEF TypeOK, Jobs, Proper
  <1> QED BY <1>1, Fields

LEMMA GetsLockKeeps ==
    ASSUME SubInv, NEW t \in Task, GetsLock(t)
    PROVE  SubInv'
  <1> DEFINE l == job[t].lock
  <1>1. /\ running = t /\ job[t].pc = "lock" /\ Goes(t, "enter")
        /\ holder' = [holder EXCEPT ![l] = t] /\ waiters' = [waiters EXCEPT ![l] = Tail(waiters[l])]
        /\ UNCHANGED <<running, ready, journal, exec, buffer, subscribed, cursor, generation, lockOf,
                       queue, putters, sender, got, known, link, reads, silent, asked, wants>>
    BY DEF GetsLock, At, Keeps, runVars, subVars, outVars, linkVars, clientVars
  <1>2. /\ TypeOK /\ Proper(t, job[t]) /\ job[t].gen <= generation[Owner(t)] /\ "enter" \in Pcs
        /\ job[t].pc # "cancelled" /\ Kind(t) \in {"replay", "stream"} => link[Owner(t)] = "open"
        /\ \A c \in Conn : generation[c] = 0 => Row(t, c)
        /\ \A c \in Conn : link[c] = "open" /\ generation[c] <= 1 /\ c \notin wants => Quiet(t, c)
        /\ Due(t) /\ Able(t)
    BY <1>1, Running DEF Pcs
  <1>3. l \in Lock
    BY <1>1, LockIn DEF SubInv, InLock
  <1>4. holder[l] = None /\ waiters[l] # <<>> /\ Head(waiters[l]) = t
    BY <1>1, <1>2 DEF SubInv, Locks, First
  <1>5. waiters[l] \in Seq(Task)
    BY <1>2, <1>3 DEF TypeOK
  <1>6. /\ Tail(waiters[l]) \in Seq(Task) /\ Elements(Tail(waiters[l])) \subseteq Elements(waiters[l]) \ {t}
        /\ Distinct(Tail(waiters[l]))
    <2>1. Distinct(waiters[l])
      BY <1>3 DEF SubInv, Locks
    <2> QED BY <1>4, <1>5, <2>1, Taking
  <1>7. /\ job' \in [Task -> Job] /\ Elsewhere(t) /\ job'[t].pc = "enter" /\ job'[t].to = job[t].to
        /\ job'[t].todo = job[t].todo /\ job'[t].rest = job[t].rest /\ job'[t].event = job[t].event
        /\ job'[t].lock = l /\ job'[t].gen = job[t].gen
    BY <1>1, <1>2, PcSet
  <1> HIDE DEF l
  <1>8. /\ holder'[l] = t /\ waiters'[l] = Tail(waiters[l])
        /\ \A m \in Lock : m # l => holder'[m] = holder[m] /\ waiters'[m] = waiters[m]
    BY <1>1, <1>2, <1>3 DEF TypeOK
  <1>9. TypeOK'
    <2>1. holder' \in [Lock -> Task \cup {None}] /\ waiters' \in [Lock -> Seq(Task)]
      BY <1>1, <1>2, <1>3, <1>6 DEF TypeOK
    <2> QED BY <1>1, <1>2, <1>7, <2>1 DEF TypeOK
  <1>10. Proper(t, job'[t]) /\ Able(t)'
    <2>1. job[t].lock = l
      BY DEF l
    <2> QED BY <1>1, <1>2, <1>7, <2>1 DEF Proper, Able, InLock, Holding
  <1>11. Jobs' /\ Schedule'
    BY <1>1, <1>2, <1>7, <1>10, JobsKept, ScheduleKept DEF SubInv
  <1>12. Locks'
    <2>1. \A u \in Task : u # t /\ job[u].pc \in Holding => job[u].lock # l /\ job[u].lock \in Lock
      <3>1. \A u \in Task : job[u].pc \in Holding => holder[job[u].lock] = u /\ u # None
        BY Tasks DEF SubInv, Locks
      <3> QED BY <1>4, <3>1, LockIn DEF SubInv, InLock
    <2>2. \A u \in Task : u # t /\ job[u].pc = "lock" /\ Due(u) => job[u].lock # l /\ job[u].lock \in Lock /\ First(u)
      <3>1. \A u \in Task : job[u].pc = "lock" /\ Due(u) => First(u)
        BY DEF SubInv, Locks
      <3> QED BY <1>4, <3>1, LockIn DEF SubInv, InLock, First
    <2>3. \A u \in Task : job'[u].pc \in Holding => holder'[job'[u].lock] = u
      BY <1>7, <1>8, <2>1 DEF Elsewhere, SubInv, Locks
    <2>4. \A m \in Lock : holder'[m] # None =>
            job'[holder'[m]].lock = m /\ job'[holder'[m]].pc \in Holding \cup {"cancelled"}
      <3>1. job'[t].pc \in Holding
        BY <1>7 DEF Holding
      <3>2. ASSUME NEW m \in Lock, holder[m] # None
            PROVE  job'[holder[m]].lock = m /\ job'[holder[m]].pc \in Holding \cup {"cancelled"}
        <4>1. holder[m] \in Task /\ job[holder[m]].lock = m /\ job[holder[m]].pc \in Holding \cup {"cancelled"}
          BY <1>2, <3>2, TasksIn DEF SubInv, Locks
        <4>2. holder[m] # t
          BY <1>1, <4>1 DEF Holding
        <4> QED BY <1>7, <4>1, <4>2 DEF Elsewhere
      <3> QED BY <1>7, <1>8, <3>1, <3>2
    <2>5. \A m \in Lock : Distinct(waiters'[m])
      BY <1>6, <1>8 DEF SubInv, Locks
    <2>6. \A m \in Lock : \A u \in Elements(waiters'[m]) : job'[u].pc = "lock" /\ job'[u].lock = m
      <3> SUFFICES ASSUME NEW m \in Lock, NEW u \in Elements(waiters'[m])
                   PROVE  job'[u].pc = "lock" /\ job'[u].lock = m
        OBVIOUS
      <3>1. u \in Elements(waiters[m])
        BY <1>6, <1>8
      <3>2. u \in Task /\ job[u].pc = "lock" /\ job[u].lock = m
        BY <1>2, <3>1, TasksIn DEF SubInv, Locks
      <3>3. u # t
        BY <1>6, <1>8, <3>2 DEF l
      <3> QED BY <1>7, <3>2, <3>3 DEF Elsewhere
    <2>7. \A u \in Task : Due(u)' /\ job'[u].pc = "lock" => First(u)'
      BY <1>1, <1>7, <1>8, <2>2 DEF Elsewhere, First, Due
    <2> QED BY <2>3, <2>4, <2>5, <2>6, <2>7 DEF Locks
  <1>13. Linked'
    BY <1>1, <1>2, <1>7, LinkedKept DEF SubInv
  <1>14. Table'
    <2>1. \A c \in Conn : generation[c] = 0 => Row(t, c)'
      BY <1>1, <1>2, <1>7 DEF Row, Broadcasts, InLock, Holding, l
    <2> QED BY <1>1, <1>7, <2>1, TableKept DEF SubInv
  <1>15. Order'
    BY <1>1, <1>7, OrderKept DEF SubInv
  <1>16. Asked'
    <2>1. \A c \in Conn : link[c] = "open" /\ generation[c] <= 1 /\ c \notin wants => Quiet(t, c)'
      BY <1>1, <1>2, <1>7 DEF Quiet
    <2> QED BY <1>1, <1>7, <2>1, AskedKept DEF SubInv
  <1> QED BY <1>9, <1>11, <1>12, <1>13, <1>14, <1>15, <1>16 DEF SubInv

LEMMA Outgoing ==
    ASSUME TypeOK, NEW c \in Conn
    PROVE  /\ got[c] \in Seq(Nat) /\ queue[c] \in Seq(Message) /\ cursor[c] \in Nat /\ putters[c] \in Seq(Task)
           /\ \A i \in 1..Len(got[c]) : got[c][i] \in Nat
  <1>1. \A S, T : S \subseteq T => \A s \in Seq(S) : s \in Seq(T)
    OBVIOUS
  <1>2. 1..MaxSeq \subseteq Nat
    OBVIOUS
  <1>3. got[c] \in Seq(1..MaxSeq)
    BY DEF TypeOK
  <1>4. got[c] \in Seq(Nat)
    BY <1>1, <1>2, <1>3
  <1>5. \A s \in Seq(Nat) : \A i \in 1..Len(s) : s[i] \in Nat
    OBVIOUS
  <1> QED BY <1>4, <1>5 DEF TypeOK

(* Until a connection unsubscribes, one task at a time holds its lock.       *)
LEMMA OneHolder ==
    ASSUME SubInv, NEW c \in Conn, generation[c] = 0, c \in subscribed \/ link[c] = "open",
           NEW t \in Task, NEW u \in Task, job[t].pc \in Holding, job[u].pc \in Holding, job[t].to = c, job[u].to = c
    PROVE  t = u
  <1>1. job[t].lock = lockOf[c] /\ job[u].lock = lockOf[c]
    BY DEF SubInv, Table, Row, InLock
  <1>2. holder[job[t].lock] = t /\ holder[job[u].lock] = u
    BY SMTT(60) DEF SubInv, Locks
  <1> QED BY <1>1, <1>2

LEMMA ReplayEntersKeeps ==
    ASSUME SubInv, NEW t \in Task, ReplayEnters(t)
    PROVE  SubInv'
  <1> DEFINE c == Owner(t)
             from == IF cursor[c] > job[t].event THEN cursor[c] ELSE job[t].event
             Missed == [i \in 1..(IF journal > from THEN journal - from ELSE 0) |-> Event(from + i)]
             l == Append(Missed, Say("subscribed"))
  <1>1. /\ running = t /\ job[t].pc = "enter" /\ Kind(t) = "replay"
        /\ UNCHANGED <<running, ready, journal, exec, buffer, generation, lockOf, holder, waiters, queue, putters,
                       sender, got, known, link, reads, silent, asked, wants>>
        /\ \/ job[t].gen # generation[c] /\ Goes(t, "exit") /\ UNCHANGED <<subscribed, cursor>>
           \/ /\ job[t].gen = generation[c] /\ subscribed' = subscribed \cup {c}
              /\ cursor' = [cursor EXCEPT ![c] = from]
              /\ job' = [job EXCEPT ![t].pc = "in", ![t].todo = l]
    BY DEF ReplayEnters, At, Keeps, runVars, lockVars, outVars, linkVars, clientVars
  <1>2. /\ TypeOK /\ Proper(t, job[t]) /\ job[t].gen <= generation[c] /\ job[t] \in Job /\ {"in", "exit"} \subseteq Pcs
        /\ c \in Conn /\ link[c] = "open" /\ t # None /\ Due(t)
        /\ \A d \in Conn : generation[d] = 0 => Row(t, d)
        /\ \A d \in Conn : link[d] = "open" /\ generation[d] <= 1 /\ d \notin wants => Quiet(t, d)
    BY <1>1, Running DEF Pcs
  <1>3. /\ job[t].to = c /\ t \in Replays(c) /\ (\A d \in Conn : t # Loop(d)) /\ ~Broadcasts(t)
        /\ \A d \in Conn : t \in Replays(d) => d = c
    BY <1>1, <1>2, Tasks, SMTT(60) DEF Proper, Broadcasts
  <1>4. CASE job[t].gen # generation[c] /\ Goes(t, "exit") /\ UNCHANGED <<subscribed, cursor>>
    <2>1. /\ job' \in [Task -> Job] /\ Elsewhere(t) /\ job'[t].pc = "exit" /\ job'[t].to = job[t].to
          /\ job'[t].todo = job[t].todo /\ job'[t].rest = job[t].rest /\ job'[t].event = job[t].event
          /\ job'[t].lock = job[t].lock /\ job'[t].gen = job[t].gen
      BY <1>2, <1>4, PcSet
    <2>2. TypeOK'
      BY <1>1, <1>2, <1>4, <2>1 DEF TypeOK
    <2>3. Proper(t, job'[t]) /\ Able(t)'
      BY <1>1, <1>2, <2>1 DEF Proper, Able, InLock, Holding
    <2>4. generation[c] # 0
      BY <1>2, <1>4, Fields, SMTT(60)
    <2>5. \A d \in Conn : generation[d] = 0 => Row(t, d)'
      BY <1>1, <1>2, <1>3, <1>4, <2>1, <2>4, SMTT(60) DEF Row, Broadcasts, InLock, Holding
    <2>6. \A d \in Conn : link[d] = "open" /\ generation[d] <= 1 /\ d \notin wants => Quiet(t, d)'
      BY <1>1, <1>2, <2>1 DEF Quiet
    <2>7. job[t].pc \in Holding /\ job'[t].pc \in Holding /\ job'[t].lock = job[t].lock
      BY <1>1, <2>1 DEF Holding
    <2> QED BY <1>1, <1>2, <1>3, <1>4, <2>1, <2>2, <2>3, <2>5, <2>6, <2>7, TaskKeeps
  <1>5. CASE /\ job[t].gen = generation[c] /\ subscribed' = subscribed \cup {c}
             /\ cursor' = [cursor EXCEPT ![c] = from]
             /\ job' = [job EXCEPT ![t].pc = "in", ![t].todo = l]
    <2>1. from \in 0..MaxSeq /\ cursor[c] <= from /\ cursor[c] \in Nat /\ journal \in 0..MaxSeq
      BY <1>2, Fields, SMTT(60) DEF TypeOK
    <2> HIDE DEF from
    <2>2. l \in Seq(Message) /\ l \in Seq(Message \cup {Say("raised")})
      <3> DEFINE n == IF journal > from THEN journal - from ELSE 0
      <3>1. n \in Nat
        BY <2>1
      <3>2. \A i \in 1..n : Event(from + i) \in Message
        <4>1. \A i \in 1..n : from + i \in 1..MaxSeq
          BY <2>1, SubscriptionFacts
        <4> HIDE DEF n
        <4> QED BY <4>1, Messages
      <3> HIDE DEF n
      <3>3. [i \in 1..n |-> Event(from + i)] \in [1..n -> Message]
        BY <3>2
      <3>4. \A S : \A f \in [1..n -> S] : f \in Seq(S)
        BY <3>1
      <3>5. Missed \in Seq(Message)
        BY <3>3, <3>4 DEF n
      <3> HIDE DEF Missed
      <3>6. Say("subscribed") \in Message
        BY Messages
      <3>7. l \in Seq(Message)
        BY <3>5, <3>6
      <3> HIDE DEF l
      <3> QED BY <3>7
    <2> HIDE DEF l
    <2>3. /\ job' \in [Task -> Job] /\ Elsewhere(t) /\ job'[t].pc = "in" /\ job'[t].to = job[t].to
          /\ job'[t].todo = l /\ job'[t].rest = job[t].rest /\ job'[t].event = job[t].event
          /\ job'[t].lock = job[t].lock /\ job'[t].gen = job[t].gen
      BY <1>2, <1>5, <2>2, TodoSet
    <2>4. TypeOK'
      BY <1>1, <1>2, <1>5, <2>1, <2>3 DEF TypeOK
    <2>5. Proper(t, job'[t]) /\ Able(t)'
      BY <1>1, <1>2, <2>2, <2>3 DEF Proper, Able, InLock, Holding
    <2>6. Jobs' /\ Schedule'
      BY <1>1, <1>2, <2>3, <2>5, JobsKept, ScheduleKept DEF SubInv
    <2>7. Locks'
      <3>1. \A u \in Task : Due(u)' /\ job'[u].pc = "lock" => Due(u)
        BY <1>1 DEF Due
      <3>2. job[t].pc \in Holding /\ job'[t].pc \in Holding /\ job'[t].lock = job[t].lock
        BY <1>1, <2>3 DEF Holding
      <3> QED BY <1>1, <2>3, <3>1, <3>2, LocksKept DEF SubInv
    <2>8. Linked'
      BY <1>1, <1>2, <2>3, LinkedKept DEF SubInv
    <2>9. Table'
      <3>1. \A d \in Conn : generation[d] = 0 => Row(t, d)'
        BY <1>1, <1>2, <1>3, <1>5, <2>3 DEF Row, Broadcasts, InLock, Holding
      <3> QED BY <1>1, <1>2, <1>5, <2>3, <3>1, TableKept DEF SubInv
    <2>10. Order'
      <3> SUFFICES ASSUME NEW d \in Conn, generation[d] = 0
                   PROVE  /\ InOrder(got[d], queue[d], cursor'[d])
                          /\ d \notin subscribed' => Nothing(d)
                          /\ \A u \in Task : job'[u].pc = "room" /\ job'[u].to = d /\ IsEvent(Head(job'[u].todo))
                                             => Head(job'[u].todo)[2] > cursor'[d]
        BY <1>1 DEF Order, Nothing
      <3>1. /\ InOrder(got[d], queue[d], cursor[d])
            /\ d \notin subscribed => Nothing(d)
            /\ \A u \in Task : job[u].pc = "room" /\ job[u].to = d /\ IsEvent(Head(job[u].todo))
                               => Head(job[u].todo)[2] > cursor[d]
        BY DEF SubInv, Order
      <3>2. CASE d # c
        <4>1. cursor'[d] = cursor[d] /\ (d \notin subscribed' => d \notin subscribed)
          BY <1>2, <1>5, <3>2 DEF TypeOK
        <4> QED BY <1>3, <2>3, <3>1, <3>2, <4>1 DEF Elsewhere
      <3>3. CASE d = c
        <4>1. cursor'[d] = from /\ d \in subscribed'
          BY <1>2, <1>5, <3>3 DEF TypeOK
        <4>2. got[d] \in Seq(Nat) /\ queue[d] \in Seq(Message) /\ from \in Nat
          BY <1>2, <2>1, Outgoing
        <4>3. InOrder(got[d], queue[d], from)
          BY <2>1, <3>1, <3>3, <4>2, OrderedLater
        <4>4. ASSUME NEW u \in Task, job'[u].pc = "room", job'[u].to = d PROVE FALSE
          <5>1. u # t /\ job[u].pc \in Holding /\ job[t].pc \in Holding /\ job[u].to = c
            BY <1>1, <2>3, <3>3, <4>4 DEF Holding, Elsewhere
          <5> QED BY <1>2, <1>3, <3>3, <5>1, OneHolder
        <4> QED BY <4>1, <4>3, <4>4
      <3> QED BY <3>2, <3>3
    <2>11. Asked'
      <3>1. ASSUME NEW d \in Conn, link[d] = "open", generation[d] <= 1, d \notin wants
            PROVE  Quiet(t, d)' /\ (d \in subscribed' => d \in subscribed)
        <4>1. d # c
          <5> SUFFICES ASSUME d = c PROVE FALSE
            OBVIOUS
          <5>1. job[t].gen < generation[c]
            BY <1>1, <1>2, <1>3, <3>1 DEF Quiet
          <5> QED BY <1>2, <1>5, <5>1, Fields DEF TypeOK
        <4> QED BY <1>3, <1>5, <2>3, <4>1 DEF Quiet
      <3> QED BY <1>1, <1>3, <2>3, <3>1, AskedKept DEF SubInv
    <2> QED BY <2>4, <2>6, <2>7, <2>8, <2>9, <2>10, <2>11 DEF SubInv
  <1> QED BY <1>1, <1>4, <1>5

LEMMA UnsubscribeEntersKeeps ==
    ASSUME SubInv, NEW t \in Task, UnsubscribeEnters(t)
    PROVE  SubInv'
  <1> DEFINE c == Owner(t)
  <1>1. /\ running = t /\ job[t].pc = "enter" /\ Kind(t) = "loop" /\ job[t].event = 0 /\ Goes(t, "exit")
        /\ generation' = [generation EXCEPT ![c] = generation[c] + 1] /\ subscribed' = subscribed \ {c}
        /\ wants' = wants \ {c} /\ cursor' = [cursor EXCEPT ![c] = 0]
        /\ UNCHANGED <<running, ready, journal, exec, buffer, lockOf, holder, waiters, queue, putters,
                       sender, got, known, link, reads, silent, asked>>
    BY DEF UnsubscribeEnters, At, Keeps, runVars, lockVars, outVars, linkVars
  <1>2. /\ TypeOK /\ Proper(t, job[t]) /\ job[t].gen <= generation[c] /\ job[t] \in Job /\ "exit" \in Pcs
        /\ c \in Conn /\ t # None /\ Due(t) /\ generation[c] \in Nat
        /\ \A d \in Conn : generation[d] = 0 => Row(t, d)
    BY <1>1, Running DEF Pcs, TypeOK
  <1>3. job[t].to = c /\ t = Loop(c) /\ ~Broadcasts(t) /\ \A d \in Conn : t \notin Replays(d) /\ (t = Loop(d) => d = c)
    BY <1>1, <1>2, Tasks DEF Proper, Broadcasts, InLock, Holding
  <1>4. /\ job' \in [Task -> Job] /\ Elsewhere(t) /\ job'[t].pc = "exit" /\ job'[t].to = job[t].to
        /\ job'[t].todo = job[t].todo /\ job'[t].rest = job[t].rest /\ job'[t].event = job[t].event
        /\ job'[t].lock = job[t].lock /\ job'[t].gen = job[t].gen
    BY <1>1, <1>2, PcSet
  <1>5. /\ generation'[c] = generation[c] + 1
        /\ \A d \in Conn : d # c => generation'[d] = generation[d] /\ cursor'[d] = cursor[d]
                                    /\ (d \in subscribed' <=> d \in subscribed) /\ (d \in wants' <=> d \in wants)
        /\ c \notin subscribed'
    BY <1>1, <1>2 DEF TypeOK
  <1> HIDE DEF c
  <1>6. TypeOK'
    <2>1. generation' \in [Conn -> Nat] /\ cursor' \in [Conn -> 0..MaxSeq]
      <3>1. 0 \in 0..MaxSeq /\ generation[c] + 1 \in Nat
        BY <1>2, SubscriptionFacts
      <3> QED BY <1>1, <1>2, <3>1 DEF TypeOK
    <2>2. subscribed' \subseteq Conn /\ wants' \subseteq Conn
      BY <1>1, <1>2 DEF TypeOK
    <2> QED BY <1>1, <1>2, <1>4, <2>1, <2>2 DEF TypeOK
  <1>7. Proper(t, job'[t]) /\ Able(t)'
    BY <1>1, <1>2, <1>3, <1>4 DEF Proper, Able, InLock, Holding, c
  <1>8. Jobs'
    <2> SUFFICES ASSUME NEW u \in Task PROVE Proper(u, job'[u]) /\ job'[u].gen <= generation'[Owner(u)]
      BY DEF Jobs
    <2>1. Proper(u, job'[u]) /\ job'[u].gen = job[u].gen
      BY <1>4, <1>7 DEF Elsewhere, SubInv, Jobs
    <2>2. job[u].gen \in Nat /\ generation[Owner(u)] \in Nat /\ Owner(u) \in Conn /\ job[u].gen <= generation[Owner(u)]
      BY <1>2, Tasks, Fields DEF TypeOK, SubInv, Jobs
    <2>3. Owner(u) = c \/ Owner(u) # c
      OBVIOUS
    <2> QED BY <1>5, <2>1, <2>2, <2>3
  <1>9. Schedule'
    BY <1>1, <1>2, <1>4, <1>7, ScheduleKept DEF SubInv
  <1>10. Locks'
    <2>1. \A u \in Task : Due(u)' /\ job'[u].pc = "lock" => Due(u)
      BY <1>1 DEF Due
    <2>2. job[t].pc \in Holding /\ job'[t].pc \in Holding /\ job'[t].lock = job[t].lock
      BY <1>1, <1>4 DEF Holding
    <2> QED BY <1>1, <1>4, <2>1, <2>2, LocksKept DEF SubInv
  <1>11. Linked'
    BY <1>1, <1>2, <1>4, LinkedKept DEF SubInv
  <1>12. \A d \in Conn : generation'[d] = 0 => d # c /\ generation[d] = 0
    BY <1>2, <1>5
  <1>13. Table'
    <2> SUFFICES ASSUME NEW d \in Conn, d # c, generation[d] = 0, NEW u \in Task PROVE Row(u, d)'
      BY <1>12 DEF Table
    <2>1. Row(u, d)
      BY DEF SubInv, Table
    <2>2. CASE u = t
      BY <1>1, <1>3, <1>4, <2>2 DEF Row, Broadcasts
    <2>3. CASE u # t
      BY <1>1, <1>4, <1>5, <2>1, <2>3 DEF Row, Broadcasts, Elsewhere
    <2> QED BY <2>2, <2>3
  <1>14. Order'
    <2> SUFFICES ASSUME NEW d \in Conn, d # c, generation[d] = 0
                 PROVE  /\ InOrder(got[d], queue[d], cursor[d])
                        /\ d \notin subscribed => Nothing(d)
                        /\ \A u \in Task : job'[u].pc = "room" /\ job'[u].to = d /\ IsEvent(Head(job'[u].todo))
                                           => Head(job'[u].todo)[2] > cursor[d]
      BY <1>1, <1>5, <1>12 DEF Order, Nothing
    <2> QED BY <1>3, <1>4 DEF SubInv, Order, Elsewhere
  <1>15. Asked'
    <2>1. ASSUME NEW d \in Conn, job'[Loop(d)].pc = "wait" PROVE d \in wants'
      <3>1. Loop(d) \in Task /\ Loop(d) # t /\ d # c
        BY <1>3, <1>4, <2>1, Tasks
      <3> QED BY <1>4, <1>5, <2>1, <3>1 DEF SubInv, Asked, Elsewhere
    <2>2. ASSUME NEW d \in Conn, d # c, link[d] = "open", generation'[d] <= 1, d \notin wants'
          PROVE  d \notin subscribed' /\ \A u \in Task : Quiet(u, d)'
      <3>1. d \notin subscribed /\ generation'[d] = generation[d] /\ \A u \in Task : Quiet(u, d)
        BY <1>5, <2>2 DEF SubInv, Asked
      <3> QED BY <1>3, <1>4, <1>5, <2>2, <3>1 DEF Quiet, Elsewhere
    <2>3. ASSUME link[c] = "open", generation'[c] <= 1, NEW u \in Task PROVE Quiet(u, c)'
      <3>1. generation[c] = 0
        BY <1>2, <1>5, <2>3
      <3>2. job'[u].to = c => job'[u].pc \notin {"in", "room"}
        <4> SUFFICES ASSUME u # t, job[u].to = c, job[u].pc \in Holding PROVE FALSE
          BY <1>4 DEF Elsewhere, Holding
        <4> QED BY <1>1, <1>2, <1>3, <2>3, <3>1, OneHolder DEF Holding
      <3>3. u \in Replays(c) => job'[u].gen < generation'[c]
        <4>1. u \in Replays(c) => u # t /\ Owner(u) = c
          BY <1>2, <1>3, Tasks
        <4>2. job[u].gen \in Nat /\ job[u].gen <= generation[Owner(u)]
          BY <1>2, Fields DEF TypeOK, SubInv, Jobs
        <4> QED BY <1>2, <1>4, <1>5, <4>1, <4>2 DEF Elsewhere
      <3> QED BY <3>2, <3>3 DEF Quiet
    <2> QED BY <1>1, <1>5, <2>1, <2>2, <2>3 DEF Asked
  <1> QED BY <1>6, <1>8, <1>9, <1>10, <1>11, <1>13, <1>14, <1>15 DEF SubInv

(* The task that runs waits for room.                                        *)
LEMMA PutterKept ==
    ASSUME TypeOK, Schedule, NEW t \in Task, Elsewhere(t), running = t, ready' = ready, running' = None, NEW c \in Conn,
           putters' = [putters EXCEPT ![c] = Append(putters[c], t)], Putting(t, c)',
           \A d \in Conn : t # Stream(d) => buffer'[d] = buffer[d]
    PROVE  Schedule' /\ putters' \in [Conn -> Seq(Task)]
  <1>1. Due(t) /\ t # None /\ t \notin Elements(ready)
    BY Tasks DEF Due, Schedule
  <1>2. putters \in [Conn -> Seq(Task)] /\ putters[c] \in Seq(Task) /\ Distinct(putters[c]) /\ t \notin Elements(putters[c])
    BY <1>1 DEF Schedule, TypeOK
  <1>3. /\ Append(putters[c], t) \in Seq(Task) /\ Distinct(Append(putters[c], t))
        /\ Elements(Append(putters[c], t)) = Elements(putters[c]) \cup {t}
    BY <1>2, Appending
  <1>4. putters'[c] = Append(putters[c], t) /\ \A d \in Conn : d # c => putters'[d] = putters[d]
    BY <1>2
  <1>5. \A u \in Task : Due(u)' => Due(u) /\ u # t
    BY <1>1, Tasks DEF Due
  <1>6. \A u \in Task : Due(u)' => Able(u)'
    <2> SUFFICES ASSUME NEW u \in Task, Due(u), u # t PROVE Able(u)'
      BY <1>5
    <2>1. Able(u) /\ job'[u] = job[u]
      BY DEF Schedule, Elsewhere
    <2>2. Kind(u) = "stream" => u = Stream(Owner(u)) /\ Owner(u) \in Conn
      BY Tasks
    <2> QED BY <2>1, <2>2 DEF Able
  <1>7. \A d \in Conn : Distinct(putters'[d])
    BY <1>3, <1>4 DEF Schedule
  <1>8. \A d \in Conn : \A u \in Elements(putters'[d]) : ~Due(u)' /\ Putting(u, d)'
    <2> SUFFICES ASSUME NEW d \in Conn, NEW u \in Elements(putters'[d]) PROVE ~Due(u)' /\ Putting(u, d)'
      OBVIOUS
    <2>1. CASE u \in Elements(putters[d])
      <3>1. u \in Task /\ u # t /\ ~Due(u) /\ Putting(u, d)
        BY <1>1, <2>1, TasksIn DEF Schedule
      <3> QED BY <1>5, <3>1 DEF Putting, Elsewhere
    <2>2. CASE u \notin Elements(putters[d])
      <3>1. u = t /\ d = c
        BY <1>3, <1>4, <2>2
      <3> QED BY <1>5, <3>1
    <2> QED BY <2>1, <2>2
  <1>9. running' \notin Elements(ready')
    BY TasksIn, Tasks
  <1>10. putters' \in [Conn -> Seq(Task)]
    BY <1>2, <1>3
  <1> QED BY <1>6, <1>7, <1>8, <1>9, <1>10 DEF Schedule

(* What is put in the queue.                                                 *)
LEMMA QueuePut ==
    ASSUME TypeOK, NEW c \in Conn, NEW m \in Message, ~Full(c), Put(c, m)
    PROVE  /\ queue' \in [Conn -> Seq(Message)] /\ \A d \in Conn : Len(queue'[d]) <= QueueSize + 1
           /\ queue'[c] = Append(queue[c], m) /\ \A d \in Conn : d # c => queue'[d] = queue[d]
  <1>1. queue \in [Conn -> Seq(Message)] /\ queue[c] \in Seq(Message) /\ \A d \in Conn : Len(queue[d]) <= QueueSize + 1
    BY DEF TypeOK
  <1>2. Append(queue[c], m) \in Seq(Message) /\ Len(Append(queue[c], m)) = Len(queue[c]) + 1 /\ Len(queue[c]) \in Nat
    BY <1>1
  <1>3. queue' = [queue EXCEPT ![c] = Append(queue[c], m)] /\ Len(queue[c]) <= QueueSize
    BY <1>2, SubscriptionFacts DEF Put, Full
  <1>4. queue'[c] = Append(queue[c], m) /\ \A d \in Conn : d # c => queue'[d] = queue[d]
    BY <1>1, <1>3
  <1>5. Len(queue'[c]) <= QueueSize + 1
    BY <1>2, <1>3, <1>4, SubscriptionFacts
  <1> QED BY <1>1, <1>2, <1>3, <1>4, <1>5

(* A message that is no event changes no order.                              *)
LEMMA PlainPut ==
    ASSUME TypeOK, Order, NEW c \in Conn, NEW m \in Message, ~IsEvent(m), ~Full(c), Put(c, m), NEW t \in Task, Elsewhere(t),
           job'[t].pc # "room", UNCHANGED <<got, cursor, generation, subscribed>>
    PROVE  Order'
  <1> SUFFICES ASSUME NEW d \in Conn, generation[d] = 0
               PROVE  /\ InOrder(got[d], queue'[d], cursor[d])
                      /\ d \notin subscribed => Nothing(d)'
                      /\ \A u \in Task : job'[u].pc = "room" /\ job'[u].to = d /\ IsEvent(Head(job'[u].todo))
                                         => Head(job'[u].todo)[2] > cursor[d]
    BY DEF Order
  <1>1. /\ InOrder(got[d], queue[d], cursor[d]) /\ (d \notin subscribed => Nothing(d))
        /\ \A u \in Task : job[u].pc = "room" /\ job[u].to = d /\ IsEvent(Head(job[u].todo))
                           => Head(job[u].todo)[2] > cursor[d]
    BY DEF Order
  <1>2. queue'[c] = Append(queue[c], m) /\ (d # c => queue'[d] = queue[d])
    BY QueuePut
  <1>3. \A u \in Task : job'[u].pc = "room" => u # t /\ job'[u] = job[u]
    BY DEF Elsewhere
  <1>4. InOrder(got[d], queue'[d], cursor[d])
    <2>1. CASE d = c
      <3>1. got[d] \in Seq(Nat) /\ queue[d] \in Seq(Message) /\ cursor[d] \in Nat
        BY Outgoing
      <3> QED BY <1>1, <1>2, <2>1, <3>1, OrderedPut
    <2> QED BY <1>1, <1>2, <2>1
  <1>5. d \notin subscribed => Nothing(d)'
    <2>1. CASE d = c
      <3>1. \A i \in 1..Len(Append(queue[c], m)) : Append(queue[c], m)[i] = IF i \in 1..Len(queue[c]) THEN queue[c][i] ELSE m
        <4>1. queue[c] \in Seq(Message)
          BY Outgoing
        <4> QED BY <4>1
      <3> QED BY <1>1, <1>2, <2>1, <3>1, SMTT(60) DEF Nothing
    <2> QED BY <1>1, <1>2, <2>1 DEF Nothing
  <1> QED BY <1>1, <1>3, <1>4, <1>5

(* A task goes on, or ends, and the subscriptions stay.                      *)
LEMMA SendingKept ==
    ASSUME SubInv, NEW t \in Task, running = t, ready' = ready, running' \in {t, None}, Elsewhere(t),
           UNCHANGED <<lockOf, holder, waiters, generation, link, subscribed, wants>>,
           Proper(t, job'[t]), job'[t].gen <= generation[Owner(t)],
           job'[t].pc \in {"close", "drain"} => job[t].pc = "close",
           \/ job[t].pc \notin InLock \cup {"cancelled"} /\ job'[t].pc \notin InLock \cup {"cancelled"}
           \/ job[t].pc \in Holding /\ job'[t].pc \in Holding /\ job'[t].lock = job[t].lock,
           \A d \in Conn : generation[d] = 0 => Row(t, d)',
           \A d \in Conn : ~(t = Loop(d) /\ job'[t].pc = "wait"),
           \A d \in Conn : link[d] = "open" /\ generation[d] <= 1 /\ d \notin wants => Quiet(t, d)'
    PROVE  Jobs' /\ Locks' /\ Linked' /\ Table' /\ Asked'
  <1>1. /\ TypeOK /\ t # None
        /\ job[t].pc # "cancelled" /\ Kind(t) \in {"replay", "stream"} => link[Owner(t)] = "open"
    BY Running
  <1>2. job[t].pc # "cancelled" /\ job'[t].pc # "cancelled"
    BY DEF Holding
  <1>3. Jobs'
    BY JobsKept DEF SubInv
  <1>4. Locks'
    <2>1. \A u \in Task : Due(u)' /\ job'[u].pc = "lock" => Due(u)
      BY Tasks DEF Due
    <2> QED BY <1>1, <2>1, LocksKept DEF SubInv
  <1>5. Linked'
    BY <1>1, <1>2, LinkedKept DEF SubInv
  <1>6. Table'
    BY TableKept DEF SubInv
  <1>7. Asked'
    BY AskedKept DEF SubInv
  <1> QED BY <1>3, <1>4, <1>5, <1>6, <1>7

LEMMA SendUnderLockKeeps ==
    ASSUME SubInv, NEW t \in Task, SendUnderLock(t)
    PROVE  SubInv'
  <1> DEFINE c == job[t].to
             m == Head(job[t].todo)
             l == Tail(job[t].todo)
  <1>1. /\ running = t /\ job[t].pc \in {"in", "room"} /\ job[t].todo # <<>> /\ ready' = ready
        /\ UNCHANGED <<journal, exec, buffer, subscribed, generation, lockOf, holder, waiters,
                       sender, got, known, link, reads, silent, asked, wants>>
        /\ \/ /\ job[t].pc = "in" /\ UNCHANGED <<running, queue, putters, cursor>>
              /\ \/ job' = [job EXCEPT ![t].todo = l]
                 \/ job' = [job EXCEPT ![t].pc = "exit", ![t].todo = <<Say("raised")>>]
           \/ /\ job[t].pc = "in" => Fresh(c, m)
              /\ putters' = [putters EXCEPT ![c] = Append(putters[c], t)] /\ Goes(t, "room") /\ running' = None
              /\ UNCHANGED <<queue, cursor>>
           \/ /\ job[t].pc = "in" => Fresh(c, m)
              /\ ~Full(c) /\ Put(c, m) /\ job' = [job EXCEPT ![t].pc = "in", ![t].todo = l]
              /\ cursor' = IF IsEvent(m) /\ c \in subscribed THEN [cursor EXCEPT ![c] = m[2]] ELSE cursor
              /\ UNCHANGED <<running, putters>>
    BY DEF SendUnderLock, At, Keeps, Waits, runVars, lockVars, linkVars, clientVars
  <1>2. /\ TypeOK /\ Proper(t, job[t]) /\ job[t].gen <= generation[Owner(t)] /\ job[t] \in Job /\ t # None
        /\ {"in", "exit", "room"} \subseteq Pcs /\ job \in [Task -> Job] /\ t \notin Elements(ready)
        /\ \A d \in Conn : generation[d] = 0 => Row(t, d)
        /\ \A d \in Conn : link[d] = "open" /\ generation[d] <= 1 /\ d \notin wants => Quiet(t, d)
        /\ \A d \in Conn : t \notin Elements(putters[d])
    BY <1>1, Running DEF Pcs, TypeOK
  <1>3. c \in Conn /\ job[t].todo \in Seq(Message) /\ job[t].pc \in Holding /\ Kind(t) # "beat"
    BY <1>1, <1>2 DEF Proper, InLock, Holding
  <1>4. m \in Message /\ l \in Seq(Message) /\ l \in Seq(Message \cup {Say("raised")})
    <2>1. m \in Message /\ l \in Seq(Message)
      BY <1>1, <1>3, Taking
    <2> HIDE DEF l
    <2> QED BY <2>1
  <1> HIDE DEF c, m, l
  <1>5. \A d \in Conn : link[d] = "open" /\ generation[d] <= 1 /\ d \notin wants => d # c
    BY <1>1, <1>2 DEF Quiet, c
  <1>6. ASSUME generation[c] = 0 PROVE c \in subscribed /\ \A u \in Task : job[u].pc \in Holding /\ job[u].to = c => u = t
    <2>1. c \in subscribed
      BY <1>1, <1>2, <1>3, <1>6 DEF Row, c
    <2> QED BY <1>3, <1>6, <2>1, OneHolder DEF c
  <1>10. ASSUME Elsewhere(t), job'[t].pc \in {"in", "room"}, job'[t].to = job[t].to, job'[t].rest = job[t].rest,
                job'[t].event = job[t].event, job'[t].lock = job[t].lock, job'[t].gen = job[t].gen
         PROVE  /\ job'[t].pc \in Holding
                /\ \A d \in Conn : generation[d] = 0 => Row(t, d)'
                /\ \A d \in Conn : ~(t = Loop(d) /\ job'[t].pc = "wait")
                /\ \A d \in Conn : link[d] = "open" /\ generation[d] <= 1 /\ d \notin wants => Quiet(t, d)'
    <2>1. \A d \in Conn : generation[d] = 0 => Row(t, d)'
      BY <1>1, <1>2, <1>10 DEF Row, Broadcasts, InLock, Holding
    <2>2. \A d \in Conn : link[d] = "open" /\ generation[d] <= 1 /\ d \notin wants => Quiet(t, d)'
      <3>1. generation' = generation /\ t \in Task
        BY <1>1
      <3> QED BY <1>1, <1>2, <1>5, <1>10, <3>1 DEF Quiet, c
    <2> QED BY <1>10, <2>1, <2>2 DEF Holding
  <1>7. CASE /\ job[t].pc = "in" /\ UNCHANGED <<running, queue, putters, cursor>>
             /\ \/ job' = [job EXCEPT ![t].todo = l]
                \/ job' = [job EXCEPT ![t].pc = "exit", ![t].todo = <<Say("raised")>>]
    <2>1. /\ job' \in [Task -> Job] /\ Elsewhere(t) /\ job'[t].pc \in {"in", "exit"} /\ job'[t].to = job[t].to
          /\ job'[t].rest = job[t].rest /\ job'[t].event = job[t].event
          /\ job'[t].lock = job[t].lock /\ job'[t].gen = job[t].gen /\ (job'[t].pc = "in" => job'[t].todo = l)
      <3>1. CASE job' = [job EXCEPT ![t].todo = l]
        <4> DEFINE r == [job[t] EXCEPT !.todo = l]
        <4>1. r \in Job
          BY <1>2, <1>4 DEF Job
        <4>2. job' = [job EXCEPT ![t] = r]
          BY <3>1
        <4>3. /\ r.pc = job[t].pc /\ r.to = job[t].to /\ r.todo = l /\ r.rest = job[t].rest
              /\ r.event = job[t].event /\ r.lock = job[t].lock /\ r.gen = job[t].gen
          BY <1>2 DEF Job
        <4> HIDE DEF r
        <4> QED BY <1>2, <1>7, <4>1, <4>2, <4>3, JobPut
      <3>2. CASE job' = [job EXCEPT ![t].pc = "exit", ![t].todo = <<Say("raised")>>]
        <4>1. \A S : \A s \in S : <<s>> \in Seq(S)
          OBVIOUS
        <4>2. <<Say("raised")>> \in Seq(Message \cup {Say("raised")})
          BY <4>1
        <4> QED BY <1>2, <3>2, <4>2, TodoSet, ZenonT(60)
      <3> QED BY <1>7, <3>1, <3>2
    <2>2. TypeOK'
      BY <1>1, <1>2, <1>7, <2>1 DEF TypeOK
    <2>3. Proper(t, job'[t]) /\ Able(t)'
      <3>1. Proper(t, job'[t])
        BY <1>2, <1>3, <1>4, <1>7, <2>1 DEF Proper, InLock, Holding
      <3> QED BY <2>1, <3>1 DEF Able
    <2>4. \A d \in Conn : generation[d] = 0 => Row(t, d)'
      BY <1>1, <1>2, <1>7, <2>1 DEF Row, Broadcasts, InLock, Holding
    <2>5. \A d \in Conn : link[d] = "open" /\ generation[d] <= 1 /\ d \notin wants => Quiet(t, d)'
      <3>1. generation' = generation /\ t \in Task
        BY <1>1
      <3> QED BY <1>1, <1>2, <1>5, <2>1, <3>1 DEF Quiet, c
    <2>6. job[t].pc \in Holding /\ job'[t].pc \in Holding /\ job'[t].lock = job[t].lock
      BY <1>3, <2>1 DEF Holding
    <2> QED BY <1>1, <1>2, <1>7, <2>1, <2>2, <2>3, <2>4, <2>5, <2>6, TaskKeeps
  <1>8. CASE /\ job[t].pc = "in" => Fresh(c, m)
             /\ putters' = [putters EXCEPT ![c] = Append(putters[c], t)] /\ Goes(t, "room") /\ running' = None
             /\ UNCHANGED <<queue, cursor>>
    <2>1. /\ job' \in [Task -> Job] /\ Elsewhere(t) /\ job'[t].pc = "room" /\ job'[t].to = job[t].to
          /\ job'[t].todo = job[t].todo /\ job'[t].rest = job[t].rest /\ job'[t].event = job[t].event
          /\ job'[t].lock = job[t].lock /\ job'[t].gen = job[t].gen
      BY <1>2, <1>8, PcSet
    <2>2. PICK d \in Conn : d = c
      BY <1>3
    <2>3. Schedule' /\ putters' \in [Conn -> Seq(Task)]
      <3>1. Putting(t, d)'
        BY <2>1, <2>2 DEF Putting, c
      <3>2. putters' = [putters EXCEPT ![d] = Append(putters[d], t)]
        BY <1>8, <2>2
      <3> QED BY <1>1, <1>2, <1>8, <2>1, <3>1, <3>2, PutterKept DEF SubInv
    <2>4. TypeOK'
      BY <1>1, <1>2, <1>8, <2>1, <2>3 DEF TypeOK
    <2>5. Proper(t, job'[t])
      BY <1>1, <1>2, <1>3, <2>1 DEF Proper, InLock, Holding
    <2>6. Jobs' /\ Locks' /\ Linked' /\ Table' /\ Asked'
      BY <1>1, <1>2, <1>3, <1>8, <1>10, <2>1, <2>5, SendingKept, SMTT(60)
    <2>7. Order'
      <3> SUFFICES ASSUME NEW e \in Conn, generation[e] = 0
                   PROVE  /\ InOrder(got[e], queue[e], cursor[e])
                          /\ e \notin subscribed => Nothing(e)
                          /\ \A u \in Task : job'[u].pc = "room" /\ job'[u].to = e /\ IsEvent(Head(job'[u].todo))
                                             => Head(job'[u].todo)[2] > cursor[e]
        BY <1>1, <1>8 DEF Order, Nothing
      <3>1. /\ InOrder(got[e], queue[e], cursor[e]) /\ (e \notin subscribed => Nothing(e))
            /\ \A u \in Task : job[u].pc = "room" /\ job[u].to = e /\ IsEvent(Head(job[u].todo))
                               => Head(job[u].todo)[2] > cursor[e]
        BY DEF SubInv, Order
      <3> QED BY <1>1, <1>8, <2>1, <3>1 DEF Elsewhere, Fresh, c, m
    <2> QED BY <2>3, <2>4, <2>6, <2>7 DEF SubInv
  <1>9. CASE /\ job[t].pc = "in" => Fresh(c, m)
             /\ ~Full(c) /\ Put(c, m) /\ job' = [job EXCEPT ![t].pc = "in", ![t].todo = l]
             /\ cursor' = IF IsEvent(m) /\ c \in subscribed THEN [cursor EXCEPT ![c] = m[2]] ELSE cursor
             /\ UNCHANGED <<running, putters>>
    <2>1. /\ job' \in [Task -> Job] /\ Elsewhere(t) /\ job'[t].pc = "in" /\ job'[t].to = job[t].to
          /\ job'[t].todo = l /\ job'[t].rest = job[t].rest /\ job'[t].event = job[t].event
          /\ job'[t].lock = job[t].lock /\ job'[t].gen = job[t].gen
      BY <1>2, <1>4, <1>9, TodoSet
    <2>2. got[c] \in Seq(Nat) /\ queue[c] \in Seq(Message) /\ cursor[c] \in Nat
      BY <1>2, <1>3, Outgoing
    <2>3. /\ queue' \in [Conn -> Seq(Message)] /\ (\A d \in Conn : Len(queue'[d]) <= QueueSize + 1)
          /\ queue'[c] = Append(queue[c], m)
          /\ \A d \in Conn : d # c => queue'[d] = queue[d] /\ cursor'[d] = cursor[d]
          /\ cursor'[c] = IF IsEvent(m) /\ c \in subscribed THEN m[2] ELSE cursor[c]
      <3>1. /\ queue' \in [Conn -> Seq(Message)] /\ (\A d \in Conn : Len(queue'[d]) <= QueueSize + 1)
            /\ queue'[c] = Append(queue[c], m) /\ \A d \in Conn : d # c => queue'[d] = queue[d]
        BY <1>2, <1>3, <1>4, <1>9, QueuePut
      <3>2. cursor \in [Conn -> 0..MaxSeq]
        BY <1>2 DEF TypeOK
      <3> QED BY <1>3, <1>9, <3>1, <3>2
    <2>4. TypeOK'
      <3>1. IsEvent(m) => m[2] \in 0..MaxSeq
        BY <1>4, Messages
      <3>2. cursor' \in [Conn -> 0..MaxSeq]
        BY <1>2, <1>9, <3>1 DEF TypeOK
      <3>3. TypeOK
        BY <1>2
      <3> QED BY <1>1, <1>9, <2>1, <2>3, <3>2, <3>3 DEF TypeOK
    <2>5. Proper(t, job'[t]) /\ Able(t)'
      <3>1. Proper(t, job'[t])
        BY <1>1, <1>2, <1>3, <1>4, <2>1 DEF Proper, InLock, Holding
      <3> QED BY <2>1, <3>1 DEF Able
    <2>6. Jobs' /\ Locks' /\ Linked' /\ Table' /\ Asked'
      BY <1>1, <1>2, <1>3, <1>9, <1>10, <2>1, <2>5, SendingKept
    <2>7. Schedule'
      BY <1>1, <1>2, <1>9, <2>1, <2>5, ScheduleKept DEF SubInv
    <2>8. Order'
      <3> SUFFICES ASSUME NEW d \in Conn, generation[d] = 0
                   PROVE  /\ InOrder(got[d], queue'[d], cursor'[d])
                          /\ d \notin subscribed => Nothing(d)'
                          /\ \A u \in Task : job'[u].pc = "room" /\ job'[u].to = d /\ IsEvent(Head(job'[u].todo))
                                             => Head(job'[u].todo)[2] > cursor'[d]
        BY <1>1 DEF Order
      <3>1. /\ InOrder(got[d], queue[d], cursor[d]) /\ (d \notin subscribed => Nothing(d))
            /\ \A u \in Task : job[u].pc = "room" /\ job[u].to = d /\ IsEvent(Head(job[u].todo))
                               => Head(job[u].todo)[2] > cursor[d]
        BY DEF SubInv, Order
      <3>2. CASE d # c
        BY <1>1, <2>1, <2>3, <3>1, <3>2, ZenonT(60) DEF Elsewhere, Nothing
      <3>3. CASE d = c
        <4>1. IsEvent(m) => m[2] > cursor[c]
          BY <1>1, <1>9, <3>1, <3>3 DEF Fresh, c, m
        <4>2. InOrder(got[c], Append(queue[c], m), IF IsEvent(m) THEN m[2] ELSE cursor[c])
          BY <1>4, <2>2, <3>1, <3>3, <4>1, OrderedPut
        <4>3. c \in subscribed /\ \A u \in Task : job'[u].pc # "room" \/ job'[u].to # c
          BY <1>6, <2>1, <3>3 DEF Elsewhere, Holding
        <4> QED BY <2>3, <3>3, <4>2, <4>3
      <3> QED BY <3>2, <3>3
    <2> QED BY <2>4, <2>6, <2>7, <2>8 DEF SubInv
  <1> QED BY <1>1, <1>7, <1>8, <1>9

LEMMA TellKeeps ==
    ASSUME SubInv, NEW t \in Task, Tell(t)
    PROVE  SubInv'
  <1> DEFINE c == Owner(t)
             m == Head(job[t].todo)
  <1>1. /\ running = t /\ job[t].pc \in {"tell", "tellRoom"} /\ ready' = ready
        /\ UNCHANGED <<journal, exec, subscribed, cursor, generation, lockOf, holder, waiters,
                       sender, got, known, link, reads, silent, asked, wants>>
        /\ (buffer' = buffer \/ (Kind(t) = "stream" /\ buffer' = [buffer EXCEPT ![c] = <<>>]))
        /\ \/ job' = [job EXCEPT ![t] = Off] /\ running' = None /\ UNCHANGED <<queue, putters>>
           \/ /\ putters' = [putters EXCEPT ![c] = Append(putters[c], t)] /\ Goes(t, "tellRoom") /\ running' = None
              /\ UNCHANGED queue
           \/ /\ ~Full(c) /\ Put(c, m) /\ job' = [job EXCEPT ![t] = Off] /\ running' = None /\ UNCHANGED putters
    BY DEF Tell, At, Ends, Waits, subVars, lockVars, linkVars, clientVars
  <1>2. /\ TypeOK /\ Proper(t, job[t]) /\ job[t].gen <= generation[c] /\ job[t] \in Job /\ t # None /\ c \in Conn
        /\ "tellRoom" \in Pcs /\ t \notin Elements(ready) /\ generation[c] \in Nat
        /\ \A d \in Conn : generation[d] = 0 => Row(t, d)
        /\ \A d \in Conn : link[d] = "open" /\ generation[d] <= 1 /\ d \notin wants => Quiet(t, d)
    BY <1>1, Running DEF Pcs, TypeOK
  <1>3. job[t].todo \in Seq(Message) /\ job[t].todo # <<>> /\ ~IsEvent(m) /\ job[t].lock = 0
    BY <1>1, <1>2, Fields DEF Proper, InLock, Holding
  <1>4. m \in Message
    BY <1>3, Taking
  <1>5. buffer' \in [Conn -> Seq(0..MaxSeq)] /\ \A d \in Conn : t # Stream(d) => buffer'[d] = buffer[d]
    <2>1. Kind(t) = "stream" => t = Stream(c)
      BY Tasks
    <2>2. buffer \in [Conn -> Seq(0..MaxSeq)] /\ <<>> \in Seq(0..MaxSeq)
      BY <1>2 DEF TypeOK
    <2>3. CASE buffer' = buffer
      BY <2>2, <2>3
    <2>4. CASE Kind(t) = "stream" /\ buffer' = [buffer EXCEPT ![c] = <<>>]
      <3> HIDE DEF c
      <3> QED BY <1>2, <2>1, <2>2, <2>4
    <2> QED BY <1>1, <2>3, <2>4
  <1> HIDE DEF m, c
  <1>6. ASSUME job' = [job EXCEPT ![t] = Off]
        PROVE  /\ job' \in [Task -> Job] /\ Elsewhere(t) /\ job'[t].pc = "off" /\ job'[t].gen <= generation[c]
               /\ Proper(t, job'[t])
               /\ job[t].pc \notin InLock \cup {"cancelled"} /\ job'[t].pc \notin InLock \cup {"cancelled"}
               /\ \A d \in Conn : Row(t, d)' /\ Quiet(t, d)' /\ ~(t = Loop(d) /\ job'[t].pc = "wait")
    <2>1. /\ job' \in [Task -> Job] /\ Elsewhere(t) /\ job'[t].pc = "off" /\ job'[t].lock = 0 /\ job'[t].gen = 0
          /\ job'[t].rest = {}
      BY <1>2, <1>6, OffSet
    <2>2. Proper(t, job'[t])
      BY <2>1 DEF Proper, InLock, Holding
    <2>3. \A d \in Conn : Row(t, d)' /\ Quiet(t, d)'
      BY <2>1 DEF Row, Quiet, InLock, Holding
    <2> QED BY <1>1, <1>2, <2>1, <2>2, <2>3 DEF InLock, Holding
  <1>7. CASE job' = [job EXCEPT ![t] = Off] /\ running' = None /\ UNCHANGED <<queue, putters>>
    <2>1. TypeOK'
      BY <1>1, <1>2, <1>5, <1>6, <1>7 DEF TypeOK
    <2> QED BY <1>1, <1>2, <1>5, <1>6, <1>7, <2>1, TaskKeeps DEF c
  <1>8. CASE /\ putters' = [putters EXCEPT ![c] = Append(putters[c], t)] /\ Goes(t, "tellRoom") /\ running' = None
             /\ UNCHANGED queue
    <2>1. /\ job' \in [Task -> Job] /\ Elsewhere(t) /\ job'[t].pc = "tellRoom" /\ job'[t].to = job[t].to
          /\ job'[t].todo = job[t].todo /\ job'[t].rest = job[t].rest /\ job'[t].event = job[t].event
          /\ job'[t].lock = job[t].lock /\ job'[t].gen = job[t].gen
      BY <1>2, <1>8, PcSet
    <2>2. Schedule' /\ putters' \in [Conn -> Seq(Task)]
      <3>1. Putting(t, Owner(t))'
        BY <2>1 DEF Putting
      <3> QED BY <1>1, <1>2, <1>5, <1>8, <2>1, <3>1, PutterKept DEF SubInv, c
    <2>3. TypeOK'
      BY <1>1, <1>2, <1>5, <1>8, <2>1, <2>2 DEF TypeOK
    <2>4. Proper(t, job'[t])
      BY <1>1, <1>2, <1>3, <2>1 DEF Proper, InLock, Holding, m
    <2>5. \A d \in Conn : generation[d] = 0 => Row(t, d)'
      BY <1>1, <1>2, <2>1 DEF Row, Broadcasts, InLock, Holding
    <2>6. \A d \in Conn : link[d] = "open" /\ generation[d] <= 1 /\ d \notin wants => Quiet(t, d)'
      BY <1>1, <1>2, <2>1 DEF Quiet
    <2>7. /\ job[t].pc \notin InLock \cup {"cancelled"} /\ job'[t].pc \notin InLock \cup {"cancelled"}
          /\ job'[t].pc # "room" /\ \A d \in Conn : ~(t = Loop(d) /\ job'[t].pc = "wait")
      BY <1>1, <2>1 DEF InLock, Holding
    <2>8. Jobs' /\ Locks' /\ Linked' /\ Table' /\ Asked'
      BY <1>1, <1>2, <1>8, <2>1, <2>4, <2>5, <2>6, <2>7, SendingKept DEF c
    <2>9. Order'
      BY <1>1, <1>8, <2>1, <2>7, OrderKept DEF SubInv
    <2> QED BY <2>2, <2>3, <2>8, <2>9 DEF SubInv
  <1>9. CASE ~Full(c) /\ Put(c, m) /\ job' = [job EXCEPT ![t] = Off] /\ running' = None /\ UNCHANGED putters
    <2>1. queue' \in [Conn -> Seq(Message)] /\ (\A d \in Conn : Len(queue'[d]) <= QueueSize + 1)
      BY <1>2, <1>4, <1>9, QueuePut
    <2>2. TypeOK'
      BY <1>1, <1>2, <1>5, <1>6, <1>9, <2>1 DEF TypeOK
    <2>3. Order'
      BY <1>1, <1>2, <1>3, <1>4, <1>6, <1>9, PlainPut DEF SubInv
    <2>4. Jobs' /\ Locks' /\ Linked' /\ Table' /\ Asked'
      BY <1>1, <1>2, <1>6, <1>9, SendingKept DEF c
    <2>5. Schedule'
      BY <1>1, <1>2, <1>5, <1>6, <1>9, ScheduleKept DEF SubInv
    <2> QED BY <2>2, <2>3, <2>4, <2>5 DEF SubInv
  <1> QED BY <1>1, <1>7, <1>8, <1>9

LEMMA CloseEnqueuesKeeps ==
    ASSUME SubInv, NEW t \in Task, CloseEnqueues(t)
    PROVE  SubInv'
  <1> DEFINE c == Owner(t)
  <1>0. running = t /\ job[t].pc = "close"
    BY DEF CloseEnqueues, At
  <1>1. /\ TypeOK /\ Proper(t, job[t]) /\ job[t].gen <= generation[c] /\ job[t] \in Job /\ t # None /\ c \in Conn
        /\ "drain" \in Pcs
        /\ \A d \in Conn : generation[d] = 0 => Row(t, d)
        /\ \A d \in Conn : link[d] = "open" /\ generation[d] <= 1 /\ d \notin wants => Quiet(t, d)
    BY <1>0, Running DEF Pcs
  <1>2. job[t].to = c /\ Kind(t) \notin {"stream", "replay"} /\ job[t].lock = 0
    BY <1>0, <1>1, Fields DEF Proper, InLock, Holding
  <1>3. /\ running' = None /\ ready' = ready
        /\ UNCHANGED <<journal, exec, buffer, subscribed, cursor, generation, lockOf, holder, waiters,
                       sender, got, known, link, reads, silent, asked, wants>>
        /\ \/ putters' = [putters EXCEPT ![c] = Append(putters[c], t)] /\ UNCHANGED <<queue, job>>
           \/ ~Full(c) /\ Put(c, Say("end")) /\ Goes(t, "drain") /\ UNCHANGED putters
    BY <1>2 DEF CloseEnqueues, Waits, runVars, subVars, lockVars, linkVars, clientVars
  <1> HIDE DEF c
  <1>4. job[t].pc \notin InLock \cup {"cancelled"}
    BY <1>0 DEF InLock, Holding
  <1>5. CASE putters' = [putters EXCEPT ![c] = Append(putters[c], t)] /\ UNCHANGED <<queue, job>>
    <2>1. Schedule' /\ putters' \in [Conn -> Seq(Task)]
      <3>1. Putting(t, Owner(t))'
        BY <1>0, <1>2, <1>5 DEF Putting, c
      <3>2. Elsewhere(t)
        BY <1>5 DEF Elsewhere
      <3> QED BY <1>0, <1>1, <1>3, <1>5, <3>1, <3>2, PutterKept DEF SubInv, c
    <2>2. TypeOK'
      BY <1>1, <1>3, <1>5, <2>1 DEF TypeOK
    <2>3. Order'
      BY <1>3, <1>5 DEF SubInv, Order, Nothing
    <2>4. Jobs' /\ Linked' /\ Table' /\ Asked'
      BY <1>3, <1>5 DEF SubInv, Jobs, Linked, Table, Row, Broadcasts, Asked, Quiet
    <2>5. Locks'
      <3>1. \A u \in Task : Due(u)' => Due(u)
        BY <1>3, Tasks DEF Due
      <3> QED BY <1>1, <1>3, <1>5, <3>1 DEF SubInv, Locks, First
    <2> QED BY <2>1, <2>2, <2>3, <2>4, <2>5 DEF SubInv
  <1>6. CASE ~Full(c) /\ Put(c, Say("end")) /\ Goes(t, "drain") /\ UNCHANGED putters
    <2>1. /\ job' \in [Task -> Job] /\ Elsewhere(t) /\ job'[t].pc = "drain" /\ job'[t].to = job[t].to
          /\ job'[t].todo = job[t].todo /\ job'[t].rest = job[t].rest /\ job'[t].event = job[t].event
          /\ job'[t].lock = job[t].lock /\ job'[t].gen = job[t].gen
      BY <1>1, <1>6, PcSet
    <2>2. Say("end") \in Message /\ ~IsEvent(Say("end"))
      BY Messages
    <2>3. queue' \in [Conn -> Seq(Message)] /\ (\A d \in Conn : Len(queue'[d]) <= QueueSize + 1)
      BY <1>1, <1>6, <2>2, QueuePut
    <2>4. TypeOK'
      BY <1>1, <1>3, <1>6, <2>1, <2>3 DEF TypeOK
    <2>5. Order'
      BY <1>1, <1>3, <1>6, <2>1, <2>2, PlainPut DEF SubInv
    <2>6. Schedule'
      BY <1>0, <1>1, <1>3, <1>6, <2>1, ScheduleKept DEF SubInv
    <2>7. Proper(t, job'[t])
      BY <1>0, <1>1, <1>2, <2>1 DEF Proper, InLock, Holding, c
    <2>8. \A d \in Conn : generation[d] = 0 => Row(t, d)'
      BY <1>0, <1>1, <1>3, <2>1 DEF Row, Broadcasts, InLock, Holding
    <2>9. \A d \in Conn : Quiet(t, d)' /\ ~(t = Loop(d) /\ job'[t].pc = "wait")
      <3>1. \A d \in Conn : t \notin Replays(d)
        BY <1>2, Tasks
      <3> QED BY <2>1, <3>1 DEF Quiet
    <2>10. job'[t].pc \notin InLock \cup {"cancelled"}
      BY <2>1 DEF InLock, Holding
    <2>11. Jobs' /\ Locks' /\ Linked' /\ Table' /\ Asked'
      BY <1>0, <1>1, <1>3, <1>4, <1>6, <2>1, <2>7, <2>8, <2>9, <2>10, SendingKept DEF c
    <2> QED BY <2>4, <2>5, <2>6, <2>11 DEF SubInv
  <1> QED BY <1>3, <1>5, <1>6

-----------------------------------------------------------------------------
(* The event loop, the senders, the execution and the clients.               *)
LEMMA DispatchKeeps ==
    ASSUME SubInv, Dispatch
    PROVE  SubInv'
  <1>1. /\ running = None /\ ready # <<>> /\ running' = Head(ready) /\ ready' = Tail(ready)
        /\ UNCHANGED <<journal, exec, buffer, subscribed, cursor, generation, lockOf, holder, waiters, queue, putters,
                       sender, got, known, link, reads, silent, asked, wants, job>>
    BY DEF Dispatch, runVars, subVars, lockVars, outVars, linkVars, clientVars
  <1>2. TypeOK /\ ready \in Seq(Task) /\ Distinct(ready)
    BY DEF SubInv, TypeOK, Schedule
  <1>3. /\ Head(ready) \in Task /\ Tail(ready) \in Seq(Task) /\ Head(ready) \notin Elements(Tail(ready))
        /\ Elements(ready) = Elements(Tail(ready)) \cup {Head(ready)} /\ Distinct(Tail(ready))
    BY <1>1, <1>2, Taking
  <1>4. \A u \in Task : Due(u)' <=> Due(u)
    BY <1>1, <1>3, Tasks DEF Due
  <1>5. TypeOK'
    BY <1>1, <1>2, <1>3 DEF TypeOK
  <1>6. Schedule'
    <2>1. \A u \in Task : Due(u)' => Able(u)'
      BY <1>1, <1>4 DEF SubInv, Schedule, Able
    <2>2. \A d \in Conn : \A u \in Elements(putters[d]) : ~Due(u)' /\ Putting(u, d)'
      BY <1>1, <1>2, <1>4, TasksIn DEF SubInv, Schedule, Putting
    <2> QED BY <1>1, <1>3, <2>1, <2>2 DEF SubInv, Schedule
  <1>7. Locks'
    BY <1>1, <1>4 DEF SubInv, Locks, First
  <1>8. Jobs' /\ Linked' /\ Table' /\ Order' /\ Asked'
    BY <1>1 DEF SubInv, Jobs, Linked, Table, Row, Broadcasts, Order, Nothing, Asked, Quiet
  <1> QED BY <1>5, <1>6, <1>7, <1>8 DEF SubInv

(* Nothing happens but to the client.                                        *)
LEMMA ClientKept ==
    ASSUME SubInv, UNCHANGED <<runVars, subVars, lockVars, outVars, linkVars, wants, job, running, ready>>,
           reads' \in [Conn -> BOOLEAN], silent' \in [Conn -> {"no", "yes", "timeout"}], asked' \in 0..MaxRequests
    PROVE  SubInv'
  <1>1. UNCHANGED <<journal, exec, buffer, subscribed, cursor, generation, lockOf, holder, waiters, queue, putters,
                    sender, got, known, link, wants, job, running, ready>>
    BY DEF runVars, subVars, lockVars, outVars, linkVars
  <1>2. TypeOK'
    BY <1>1 DEF SubInv, TypeOK
  <1>3. Schedule' /\ Locks'
    BY <1>1 DEF SubInv, Schedule, Due, Able, Putting, Locks, First
  <1>4. Jobs' /\ Linked' /\ Table' /\ Order' /\ Asked'
    BY <1>1 DEF SubInv, Jobs, Linked, Table, Row, Broadcasts, Order, Nothing, Asked, Quiet
  <1> QED BY <1>2, <1>3, <1>4 DEF SubInv

LEMMA AskedOnce ==
    ASSUME TypeOK, NEW w, Asks(w)
    PROVE  asked' \in 0..MaxRequests
  BY SubscriptionFacts DEF Asks, TypeOK

LEMMA FallsSilentKeeps ==
    ASSUME SubInv, NEW c \in Conn, FallsSilent(c)
    PROVE  SubInv'
  <1>1. TypeOK
    BY DEF SubInv
  <1>2. asked' \in 0..MaxRequests
    BY <1>1, AskedOnce DEF FallsSilent
  <1>3. silent' \in [Conn -> {"no", "yes", "timeout"}] /\ reads' \in [Conn -> BOOLEAN]
    BY <1>1 DEF FallsSilent, TypeOK
  <1> QED BY <1>2, <1>3, ClientKept DEF FallsSilent

LEMMA TimesOutKeeps ==
    ASSUME SubInv, NEW c \in Conn, TimesOut(c)
    PROVE  SubInv'
  <1>1. /\ silent' \in [Conn -> {"no", "yes", "timeout"}] /\ reads' \in [Conn -> BOOLEAN] /\ asked' \in 0..MaxRequests
    BY DEF TimesOut, SubInv, TypeOK
  <1> QED BY <1>1, ClientKept DEF TimesOut

LEMMA SendFailsKeeps ==
    ASSUME SubInv, NEW c \in Conn, SendFails(c)
    PROVE  SubInv'
  <1>1. /\ queue[c] # <<>> /\ queue' = [queue EXCEPT ![c] = Tail(queue[c])] /\ sender' = [sender EXCEPT ![c] = "dead"]
        /\ UNCHANGED <<journal, exec, buffer, subscribed, cursor, generation, lockOf, holder, waiters, putters,
                       got, known, link, reads, silent, asked, wants, job, running, ready>>
    BY DEF SendFails, runVars, subVars, lockVars, linkVars, clientVars
  <1>2. TypeOK /\ got[c] \in Seq(Nat) /\ queue[c] \in Seq(Message) /\ cursor[c] \in Nat
    BY Outgoing DEF SubInv
  <1>3. /\ Tail(queue[c]) \in Seq(Message) /\ Len(Tail(queue[c])) = Len(queue[c]) - 1
        /\ \A i \in 1..Len(Tail(queue[c])) : i + 1 \in 1..Len(queue[c]) /\ Tail(queue[c])[i] = queue[c][i + 1]
    BY <1>1, <1>2, Taking
  <1>4. queue'[c] = Tail(queue[c]) /\ \A d \in Conn : d # c => queue'[d] = queue[d]
    BY <1>1, <1>2 DEF TypeOK
  <1>5. TypeOK'
    <2>1. queue' \in [Conn -> Seq(Message)]
      BY <1>1, <1>2, <1>3 DEF TypeOK
    <2>2. \A d \in Conn : Len(queue'[d]) <= QueueSize + 1
      <3>1. \A d \in Conn : Len(queue[d]) \in Nat /\ Len(queue[d]) <= QueueSize + 1
        BY <1>2 DEF TypeOK
      <3>2. Len(queue'[c]) <= QueueSize + 1
        <4>1. Len(queue[c]) \in Nat /\ Len(queue[c]) <= QueueSize + 1 /\ Len(queue'[c]) = Len(queue[c]) - 1
          BY <1>3, <1>4, <3>1
        <4> QED BY <4>1, SubscriptionFacts
      <3> QED BY <1>4, <3>1, <3>2
    <2>3. sender' \in [Conn -> {"up", "ended", "dead"}]
      BY <1>1, <1>2 DEF TypeOK
    <2> QED BY <1>1, <1>2, <2>1, <2>2, <2>3 DEF TypeOK
  <1>6. Order'
    <2> SUFFICES ASSUME NEW d \in Conn, generation[d] = 0
                 PROVE  /\ InOrder(got[d], queue'[d], cursor[d])
                        /\ d \notin subscribed => Nothing(d)'
                        /\ \A u \in Task : job[u].pc = "room" /\ job[u].to = d /\ IsEvent(Head(job[u].todo))
                                           => Head(job[u].todo)[2] > cursor[d]
      BY <1>1 DEF Order
    <2>1. /\ InOrder(got[d], queue[d], cursor[d]) /\ (d \notin subscribed => Nothing(d))
          /\ \A u \in Task : job[u].pc = "room" /\ job[u].to = d /\ IsEvent(Head(job[u].todo))
                             => Head(job[u].todo)[2] > cursor[d]
      BY DEF SubInv, Order
    <2>2. CASE d = c
      <3>1. InOrder(got[d], queue'[d], cursor[d])
        BY <1>1, <1>2, <1>4, <2>1, <2>2, OrderedTaken
      <3>2. Nothing(d) => Nothing(d)'
        BY <1>1, <1>3, <1>4, <2>2 DEF Nothing
      <3> QED BY <2>1, <3>1, <3>2
    <2>3. CASE d # c
      BY <1>1, <1>4, <2>1, <2>3 DEF Nothing
    <2> QED BY <2>2, <2>3
  <1>7. Schedule' /\ Locks'
    BY <1>1 DEF SubInv, Schedule, Due, Able, Putting, Locks, First
  <1>8. Jobs' /\ Linked' /\ Table' /\ Asked'
    BY <1>1 DEF SubInv, Jobs, Linked, Table, Row, Broadcasts, Asked, Quiet
  <1> QED BY <1>5, <1>6, <1>7, <1>8 DEF SubInv

LEMMA DeliverKeeps ==
    ASSUME SubInv, NEW c \in Conn, Deliver(c)
    PROVE  SubInv'
  <1> DEFINE m == Head(queue[c])
             u == Head(putters[c])
  <1>1. /\ running = None /\ running' = running /\ queue[c] # <<>> /\ queue' = [queue EXCEPT ![c] = Tail(queue[c])]
        /\ sender' \in {sender, [sender EXCEPT ![c] = "ended"]}
        /\ got' = [got EXCEPT ![c] = IF IsEvent(m) THEN Append(got[c], m[2])
                                     ELSE IF m = Say("unsubscribed") THEN <<>> ELSE got[c]]
        /\ \/ UNCHANGED <<putters, ready>>
           \/ /\ putters[c] # <<>> /\ putters' = [putters EXCEPT ![c] = Tail(putters[c])]
              /\ ready' = Append(ready, u)
        /\ UNCHANGED <<journal, exec, buffer, subscribed, cursor, generation, lockOf, holder, waiters,
                       known, link, reads, silent, asked, wants, job>>
    BY DEF Deliver, runVars, subVars, lockVars, linkVars, clientVars
  <1>2. /\ TypeOK /\ got[c] \in Seq(Nat) /\ queue[c] \in Seq(Message) /\ cursor[c] \in Nat
        /\ putters[c] \in Seq(Task) /\ ready \in Seq(Task)
    BY Outgoing DEF SubInv, TypeOK
  <1>3. /\ m \in Message /\ Tail(queue[c]) \in Seq(Message) /\ Len(Tail(queue[c])) = Len(queue[c]) - 1
        /\ m = queue[c][1] /\ 1 \in 1..Len(queue[c])
        /\ \A i \in 1..Len(Tail(queue[c])) : i + 1 \in 1..Len(queue[c]) /\ Tail(queue[c])[i] = queue[c][i + 1]
    <2>1. m = queue[c][1] /\ 1 \in 1..Len(queue[c])
      BY <1>1, <1>2
    <2> QED BY <1>1, <1>2, <2>1, Taking
  <1>4. /\ queue'[c] = Tail(queue[c]) /\ got'[c] \in {<<>>, got[c], Append(got[c], m[2])}
        /\ got'[c] = IF IsEvent(m) THEN Append(got[c], m[2]) ELSE IF m = Say("unsubscribed") THEN <<>> ELSE got[c]
        /\ \A d \in Conn : d # c => queue'[d] = queue[d] /\ got'[d] = got[d]
    BY <1>1, <1>2 DEF TypeOK
  <1> HIDE DEF m
  <1>5. /\ queue' \in [Conn -> Seq(Message)] /\ (\A d \in Conn : Len(queue'[d]) <= QueueSize + 1)
        /\ got' \in [Conn -> Seq(1..MaxSeq)] /\ sender' \in [Conn -> {"up", "ended", "dead"}]
    <2>1. queue' \in [Conn -> Seq(Message)] /\ sender' \in [Conn -> {"up", "ended", "dead"}]
      BY <1>1, <1>2, <1>3 DEF TypeOK
    <2>2. \A d \in Conn : Len(queue'[d]) <= QueueSize + 1
      <3>1. \A d \in Conn : Len(queue[d]) \in Nat /\ Len(queue[d]) <= QueueSize + 1
        BY <1>2 DEF TypeOK
      <3>2. Len(queue'[c]) <= QueueSize + 1
        <4>1. Len(queue[c]) \in Nat /\ Len(queue[c]) <= QueueSize + 1 /\ Len(queue'[c]) = Len(queue[c]) - 1
          BY <1>3, <1>4, <3>1
        <4> QED BY <4>1, SubscriptionFacts
      <3> QED BY <1>4, <3>1, <3>2
    <2>3. got' \in [Conn -> Seq(1..MaxSeq)]
      <3>1. IsEvent(m) => m[2] \in 1..MaxSeq
        BY <1>3, Messages
      <3>2. got \in [Conn -> Seq(1..MaxSeq)] /\ got[c] \in Seq(1..MaxSeq) /\ <<>> \in Seq(1..MaxSeq)
        BY <1>2 DEF TypeOK
      <3>3. IsEvent(m) => Append(got[c], m[2]) \in Seq(1..MaxSeq)
        BY <3>1, <3>2
      <3> QED BY <1>1, <3>2, <3>3
    <2> QED BY <2>1, <2>2, <2>3
  <1>6. Order'
    <2> SUFFICES ASSUME NEW d \in Conn, generation[d] = 0
                 PROVE  /\ InOrder(got'[d], queue'[d], cursor[d])
                        /\ d \notin subscribed => Nothing(d)'
                        /\ \A v \in Task : job[v].pc = "room" /\ job[v].to = d /\ IsEvent(Head(job[v].todo))
                                           => Head(job[v].todo)[2] > cursor[d]
      BY <1>1 DEF Order
    <2>1. /\ InOrder(got[d], queue[d], cursor[d]) /\ (d \notin subscribed => Nothing(d))
          /\ \A v \in Task : job[v].pc = "room" /\ job[v].to = d /\ IsEvent(Head(job[v].todo))
                             => Head(job[v].todo)[2] > cursor[d]
      BY DEF SubInv, Order
    <2>2. CASE d = c
      <3>1. InOrder(got'[d], queue'[d], cursor[d])
        BY <1>1, <1>2, <1>4, <2>1, <2>2, OrderedTaken, SMTT(60) DEF m
      <3>2. Nothing(d) => Nothing(d)'
        BY <1>1, <1>3, <1>4, <2>2 DEF Nothing
      <3> QED BY <2>1, <3>1, <3>2
    <2>3. CASE d # c
      BY <1>1, <1>4, <2>1, <2>3 DEF Nothing
    <2> QED BY <2>2, <2>3
  <1>7. Jobs' /\ Linked' /\ Table' /\ Asked'
    BY <1>1 DEF SubInv, Jobs, Linked, Table, Row, Broadcasts, Asked, Quiet
  <1>8. CASE UNCHANGED <<putters, ready>>
    <2>1. TypeOK'
      BY <1>1, <1>2, <1>5, <1>8 DEF TypeOK
    <2>2. Schedule' /\ Locks'
      BY <1>1, <1>8 DEF SubInv, Schedule, Due, Able, Putting, Locks, First
    <2> QED BY <1>6, <1>7, <2>1, <2>2 DEF SubInv
  <1>9. CASE /\ putters[c] # <<>> /\ putters' = [putters EXCEPT ![c] = Tail(putters[c])]
             /\ ready' = Append(ready, u)
    <2>1. /\ u \in Task /\ Tail(putters[c]) \in Seq(Task) /\ u \in Elements(putters[c])
          /\ Elements(Tail(putters[c])) \subseteq Elements(putters[c]) /\ Distinct(Tail(putters[c]))
          /\ u \notin Elements(Tail(putters[c]))
      <3>1. Distinct(putters[c])
        BY DEF SubInv, Schedule
      <3> QED BY <1>2, <1>9, <3>1, Taking
    <2> HIDE DEF u
    <2>2. ~Due(u) /\ Putting(u, c)
      BY <2>1 DEF SubInv, Schedule
    <2>3. /\ Append(ready, u) \in Seq(Task) /\ Elements(ready') = Elements(ready) \cup {u} /\ Distinct(ready')
      <3>1. Distinct(ready) /\ u \notin Elements(ready)
        BY <2>2 DEF SubInv, Schedule, Due
      <3> QED BY <1>2, <1>9, <2>1, <3>1, Appending
    <2>4. putters'[c] = Tail(putters[c]) /\ \A d \in Conn : d # c => putters'[d] = putters[d]
      BY <1>2, <1>9 DEF TypeOK
    <2>5. TypeOK'
      <3>1. putters' \in [Conn -> Seq(Task)]
        BY <1>2, <1>9, <2>1 DEF TypeOK
      <3> QED BY <1>1, <1>2, <1>5, <1>9, <2>3, <3>1 DEF TypeOK
    <2>6. \A v \in Task : Due(v)' => Due(v) \/ v = u
      BY <1>1, <2>3, Tasks DEF Due
    <2>7. job[u].pc \in {"room", "close", "tellRoom"}
      BY <2>2 DEF Putting
    <2>8. Schedule'
      <3>1. \A v \in Task : Due(v)' => Able(v)'
        BY <1>1, <2>6, <2>7 DEF SubInv, Schedule, Able
      <3>2. \A d \in Conn : Distinct(putters'[d])
        BY <2>1, <2>4 DEF SubInv, Schedule
      <3>3. \A d \in Conn : \A v \in Elements(putters'[d]) : ~Due(v)' /\ Putting(v, d)'
        <4> SUFFICES ASSUME NEW d \in Conn, NEW v \in Elements(putters'[d]) PROVE ~Due(v)' /\ Putting(v, d)'
          OBVIOUS
        <4>1. v \in Elements(putters[d]) /\ (d = c => v # u)
          BY <2>1, <2>4
        <4>2. v \in Task /\ ~Due(v) /\ Putting(v, d)
          BY <1>2, <4>1, TasksIn DEF SubInv, Schedule
        <4>3. v # u
          BY <2>2, <4>1, <4>2 DEF Putting
        <4> QED BY <1>1, <2>6, <4>2, <4>3 DEF Putting
      <3>4. running' \notin Elements(ready')
        BY <1>1, <1>2, <2>1, <2>3, TasksIn, Tasks
      <3> QED BY <2>3, <3>1, <3>2, <3>3, <3>4 DEF Schedule
    <2>9. Locks'
      <3>1. \A v \in Task : Due(v)' /\ job'[v].pc = "lock" => First(v)'
        BY <1>1, <2>6, <2>7 DEF SubInv, Locks, First
      <3> QED BY <1>1, <3>1 DEF SubInv, Locks
    <2> QED BY <1>6, <1>7, <2>5, <2>8, <2>9 DEF SubInv
  <1> QED BY <1>1, <1>8, <1>9

(* The execution journals: its stream task, if it waits, will run.           *)
LEMMA EmitKept ==
    ASSUME SubInv, NEW e \in 0..MaxSeq, Emit(e), journal' \in 0..MaxSeq, exec' \in Conn \cup {None}
    PROVE  SubInv'
  <1> DEFINE t == Stream(exec)
  <1>1. /\ running = None /\ exec # None /\ running' = running
        /\ UNCHANGED <<subscribed, cursor, generation, lockOf, holder, waiters, queue, putters, sender, got,
                       known, link, reads, silent, asked, wants, job>>
        /\ \/ UNCHANGED <<buffer, ready>>
           \/ /\ buffer' = [buffer EXCEPT ![exec] = Append(buffer[exec], e)]
              /\ \/ ready' = ready
                 \/ job[t].pc = "wait" /\ buffer[exec] = <<>> /\ ready' = Append(ready, t)
    BY DEF Emit, subVars, lockVars, outVars, linkVars, clientVars
  <1>2. TypeOK /\ exec \in Conn /\ t \in Task /\ Kind(t) = "stream" /\ Owner(t) = exec /\ ready \in Seq(Task)
    <2>1. TypeOK /\ exec \in Conn
      BY <1>1 DEF SubInv, TypeOK
    <2> QED BY <2>1, Tasks DEF TypeOK
  <1>3. \A u \in Task : Kind(u) = "stream" /\ Owner(u) = exec => u = t
    BY <1>2, Tasks
  <1> HIDE DEF t
  <1>4. /\ buffer' \in [Conn -> Seq(0..MaxSeq)]
        /\ buffer' = buffer \/ (buffer'[exec] # <<>> /\ \A d \in Conn : d # exec => buffer'[d] = buffer[d])
    <2>1. buffer \in [Conn -> Seq(0..MaxSeq)] /\ buffer[exec] \in Seq(0..MaxSeq)
      BY <1>2 DEF TypeOK
    <2>2. Append(buffer[exec], e) \in Seq(0..MaxSeq) /\ Append(buffer[exec], e) # <<>>
      BY <2>1, Appending, SMTT(60)
    <2> QED BY <1>1, <1>2, <2>1, <2>2
  <1>5. /\ ready' \in Seq(Task) /\ Distinct(ready') /\ Elements(ready') \subseteq Task
        /\ \/ Elements(ready') = Elements(ready)
           \/ /\ Elements(ready') = Elements(ready) \cup {t} /\ job[t].pc = "wait"
              /\ buffer'[exec] # <<>> /\ \A d \in Conn : d # exec => buffer'[d] = buffer[d]
    <2>1. Distinct(ready) /\ Elements(ready) \subseteq Task
      BY <1>2, TasksIn DEF SubInv, Schedule
    <2>2. CASE ready' = ready
      BY <1>2, <2>1, <2>2
    <2>3. CASE /\ buffer' = [buffer EXCEPT ![exec] = Append(buffer[exec], e)]
               /\ job[t].pc = "wait" /\ buffer[exec] = <<>> /\ ready' = Append(ready, t)
      <3>1. ~Able(t)
        BY <1>2, <2>3 DEF Able
      <3>2. t \notin Elements(ready)
        BY <1>2, <3>1 DEF SubInv, Schedule, Due
      <3>3. ready' \in Seq(Task) /\ Distinct(ready') /\ Elements(ready') = Elements(ready) \cup {t}
        BY <1>2, <2>1, <2>3, <3>2, Appending
      <3>4. buffer'[exec] # <<>> /\ \A d \in Conn : d # exec => buffer'[d] = buffer[d]
        <4>1. buffer \in [Conn -> Seq(0..MaxSeq)] /\ buffer[exec] \in Seq(0..MaxSeq)
          BY <1>2 DEF TypeOK
        <4>2. Append(buffer[exec], e) # <<>>
          BY <4>1, Appending, SMTT(60)
        <4> QED BY <1>2, <2>3, <4>1, <4>2
      <3> QED BY <1>2, <2>1, <2>3, <3>3, <3>4
    <2> QED BY <1>1, <2>2, <2>3
  <1>6. TypeOK'
    BY <1>1, <1>2, <1>4, <1>5 DEF TypeOK
  <1>7. Schedule'
    <2>1. \A u \in Task : Due(u)' => Due(u) \/ (u = t /\ job[t].pc = "wait" /\ buffer'[exec] # <<>>)
      BY <1>1, <1>5, Tasks DEF Due
    <2>2. \A u \in Task : Due(u)' => Able(u)'
      <3> SUFFICES ASSUME NEW u \in Task, Due(u)' PROVE Able(u)'
        OBVIOUS
      <3>1. CASE u = t /\ job[t].pc = "wait" /\ buffer'[exec] # <<>>
        BY <1>1, <1>2, <3>1 DEF Able
      <3>2. CASE Due(u)
        <4>1. Able(u) /\ Owner(u) \in Conn
          BY <3>2, Tasks DEF SubInv, Schedule
        <4> QED BY <1>1, <1>4, <4>1 DEF Able
      <3> QED BY <2>1, <3>1, <3>2
    <2>3. \A d \in Conn : \A u \in Elements(putters[d]) : ~Due(u)' /\ Putting(u, d)'
      <3> SUFFICES ASSUME NEW d \in Conn, NEW u \in Elements(putters[d]) PROVE ~Due(u)' /\ Putting(u, d)'
        BY <1>1
      <3>1. u \in Task /\ ~Due(u) /\ Putting(u, d)
        BY <1>2, TasksIn DEF SubInv, Schedule
      <3> QED BY <1>1, <2>1, <3>1 DEF Putting
    <2>4. running' \notin Elements(ready')
      BY <1>1, <1>5, Tasks
    <2> QED BY <1>1, <1>5, <2>2, <2>3, <2>4 DEF SubInv, Schedule
  <1>8. Locks'
    <2>1. \A u \in Task : Due(u)' /\ job[u].pc = "lock" => Due(u)
      BY <1>1, <1>5, Tasks DEF Due
    <2> QED BY <1>1, <2>1 DEF SubInv, Locks, First
  <1>9. Jobs' /\ Linked' /\ Table' /\ Order' /\ Asked'
    BY <1>1 DEF SubInv, Jobs, Linked, Table, Row, Broadcasts, Order, Nothing, Asked, Quiet
  <1> QED BY <1>6, <1>7, <1>8, <1>9 DEF SubInv

LEMMA ProgressKeeps ==
    ASSUME SubInv, Progress \/ Settle
    PROVE  SubInv'
  <1>1. journal \in 0..MaxSeq /\ exec \in Conn \cup {None}
    BY DEF SubInv, TypeOK
  <1>2. CASE Progress
    <2>1. journal + 1 \in 0..MaxSeq /\ journal' = journal + 1 /\ exec' = exec /\ Emit(journal + 1)
      BY <1>1, <1>2, SubscriptionFacts DEF Progress, Emit
    <2> QED BY <1>1, <2>1, EmitKept
  <1>3. CASE Settle
    BY <1>1, <1>3, SubscriptionFacts, EmitKept DEF Settle
  <1> QED BY <1>2, <1>3

(* A task that was off will run, or runs at once.                            *)
LEMMA SpawnKept ==
    ASSUME SubInv, NEW t \in Task, NEW j \in Job, job[t].pc = "off", job' = [job EXCEPT ![t] = j],
           \/ ready' = Append(ready, t) /\ running' = running
           \/ ready' = ready /\ running = None /\ running' = t,
           UNCHANGED <<buffer, subVars, lockVars, outVars, linkVars>>,
           j.pc = "start", j.lock = 0, j.rest = {}, j.gen <= generation[Owner(t)], Proper(t, j),
           Kind(t) \in {"replay", "stream"} => link[Owner(t)] = "open", wants \subseteq wants',
           Kind(t) = "replay" => Owner(t) \in wants',
           journal' \in 0..MaxSeq, exec' \in Conn \cup {None}, reads' \in [Conn -> BOOLEAN],
           silent' \in [Conn -> {"no", "yes", "timeout"}], wants' \subseteq Conn, asked' \in 0..MaxRequests
    PROVE  SubInv'
  <1>1. UNCHANGED <<buffer, subscribed, cursor, generation, lockOf, holder, waiters, queue, putters, sender, got,
                    known, link>>
    BY DEF subVars, lockVars, outVars, linkVars
  <1>2. TypeOK /\ job \in [Task -> Job] /\ ready \in Seq(Task) /\ Elements(ready) \subseteq Task /\ Distinct(ready)
    BY TasksIn DEF SubInv, TypeOK, Schedule
  <1>3. job' \in [Task -> Job] /\ job'[t] = j /\ Elsewhere(t)
    BY <1>2, JobPut
  <1>4. ~Due(t)
    BY DEF SubInv, Schedule, Able
  <1>5. /\ ready' \in Seq(Task) /\ Distinct(ready') /\ running' \in Task \cup {None}
        /\ \/ Elements(ready') = Elements(ready) \cup {t} /\ running' = running
           \/ Elements(ready') = Elements(ready) /\ running' = t
    <2>1. t \notin Elements(ready) /\ running \in Task \cup {None}
      BY <1>2, <1>4 DEF Due, TypeOK
    <2>2. /\ Append(ready, t) \in Seq(Task) /\ Distinct(Append(ready, t))
          /\ Elements(Append(ready, t)) = Elements(ready) \cup {t}
      BY <1>2, <2>1, Appending
    <2>3. CASE ready' = Append(ready, t) /\ running' = running
      BY <2>1, <2>2, <2>3
    <2>4. CASE ready' = ready /\ running' = t
      BY <1>2, <2>4
    <2> QED BY <2>3, <2>4
  <1>6. running' \notin Elements(ready')
    <2>1. running \notin Elements(ready) /\ t \notin Elements(ready) /\ running # t
      BY <1>4 DEF SubInv, Schedule, Due
    <2> QED BY <1>5, <2>1
  <1>7. \A u \in Task : Due(u)' => Due(u) \/ u = t
    BY <1>5, Tasks DEF Due
  <1>8. TypeOK'
    BY <1>1, <1>2, <1>3, <1>5 DEF TypeOK
  <1>9. Jobs'
    BY <1>1, <1>3, JobsKept DEF SubInv
  <1>10. Schedule'
    <2>1. \A u \in Task : Due(u)' => Able(u)'
      <3> SUFFICES ASSUME NEW u \in Task, Due(u)' PROVE Able(u)'
        OBVIOUS
      <3>1. CASE u = t
        BY <1>3, <3>1 DEF Able
      <3>2. CASE u # t
        <4>1. Able(u) /\ job'[u] = job[u]
          BY <1>3, <1>7, <3>2 DEF SubInv, Schedule, Elsewhere
        <4> QED BY <1>1, <4>1 DEF Able
      <3> QED BY <3>1, <3>2
    <2>2. \A d \in Conn : \A u \in Elements(putters[d]) : ~Due(u)' /\ Putting(u, d)'
      <3> SUFFICES ASSUME NEW d \in Conn, NEW u \in Elements(putters[d]) PROVE ~Due(u)' /\ Putting(u, d)'
        BY <1>1
      <3>1. u \in Task /\ ~Due(u) /\ Putting(u, d)
        BY <1>2, TasksIn DEF SubInv, Schedule
      <3>2. u # t
        BY <3>1 DEF Putting
      <3> QED BY <1>3, <1>7, <3>1, <3>2 DEF Putting, Elsewhere
    <2> QED BY <1>1, <1>5, <1>6, <2>1, <2>2 DEF SubInv, Schedule
  <1>11. Locks'
    <2>1. \A u \in Task : Due(u)' /\ job'[u].pc = "lock" => Due(u)
      BY <1>3, <1>7
    <2>2. job[t].pc \notin InLock \cup {"cancelled"} /\ job'[t].pc \notin InLock \cup {"cancelled"}
      BY <1>3 DEF InLock, Holding
    <2> QED BY <1>1, <1>2, <1>3, <2>1, <2>2, LocksKept DEF SubInv
  <1>12. Linked'
    <2>1. job'[t].pc \notin {"close", "drain", "cancelled"}
      BY <1>3
    <2> QED BY <1>1, <1>3, <2>1, LinkedKept DEF SubInv
  <1>13. Table'
    <2>1. \A d \in Conn : Row(t, d)'
      BY <1>3 DEF Row, InLock, Holding
    <2> QED BY <1>1, <1>3, <2>1, TableKept DEF SubInv
  <1>14. Order'
    <2>1. job'[t].pc # "room"
      BY <1>3
    <2> QED BY <1>1, <1>3, <2>1, OrderKept DEF SubInv
  <1>15. Asked'
    <2>1. \A d \in Conn : d \notin wants' => Quiet(t, d)'
      <3>1. \A d \in Conn : t \in Replays(d) => Kind(t) = "replay" /\ Owner(t) = d
        BY Tasks
      <3> QED BY <1>3, <3>1 DEF Quiet
    <2>2. job'[t].pc # "wait"
      BY <1>3
    <2> QED BY <1>1, <1>3, <2>1, <2>2, AskedKept DEF SubInv
  <1> QED BY <1>8, <1>9, <1>10, <1>11, <1>12, <1>13, <1>14, <1>15 DEF SubInv

(* What a task is like that starts.                                          *)
LEMMA OffIsJob ==
    /\ Off \in Job /\ Off.pc = "off" /\ Off.to = None /\ Off.todo = <<>> /\ Off.rest = {} /\ Off.event = 0
    /\ Off.lock = 0 /\ Off.gen = 0
  BY SubscriptionFacts DEF Off, Job

LEMMA OffFields == DOMAIN Off = {"pc", "to", "todo", "rest", "event", "lock", "gen"}
  BY OffIsJob DEF Job

LEMMA StartStreamKeeps ==
    ASSUME SubInv, NEW c \in Conn, StartStream(c)
    PROVE  SubInv'
  <1> DEFINE t == Stream(c)
             j == [Off EXCEPT !.pc = "start"]
  <1>1. t \in Task /\ Kind(t) = "stream" /\ Owner(t) = c /\ TypeOK /\ generation[c] \in Nat
    BY Tasks, ZenonT(60) DEF SubInv, TypeOK
  <1>2. /\ job[t].pc = "off" /\ link[c] = "open" /\ job' = [job EXCEPT ![t] = j] /\ ready' = Append(ready, t)
        /\ exec' = c /\ Asks("start")
        /\ UNCHANGED <<journal, buffer, subVars, lockVars, outVars, linkVars, reads, silent, wants, running>>
    BY DEF StartStream, Receives, Spawned
  <1>3. j \in Job /\ j.pc = "start" /\ j.to = None /\ j.rest = {} /\ j.lock = 0 /\ j.gen = 0
    <2>1. j \in Job
      BY <1>1, OffIsJob DEF Job
    <2> QED BY <2>1, OffIsJob, OffFields
  <1> HIDE DEF t, j
  <1>4. Proper(t, j) /\ j.gen <= generation[Owner(t)]
    BY <1>1, <1>3 DEF Proper, InLock, Holding
  <1>5. /\ journal' \in 0..MaxSeq /\ exec' \in Conn \cup {None} /\ reads' \in [Conn -> BOOLEAN]
        /\ silent' \in [Conn -> {"no", "yes", "timeout"}] /\ wants' \subseteq Conn /\ asked' \in 0..MaxRequests
    BY <1>1, <1>2, AskedOnce DEF TypeOK
  <1> QED BY <1>1, <1>2, <1>3, <1>4, <1>5, SpawnKept

LEMMA SubscribeKeeps ==
    ASSUME SubInv, NEW c \in Conn, Subscribe(c)
    PROVE  SubInv'
  <1>1. TypeOK /\ generation[c] \in Nat /\ got[c] \in Seq(1..MaxSeq) /\ "start" \in Pcs
    BY DEF SubInv, TypeOK, Pcs
  <1>2. PICK t \in Replays(c), after \in {0, IF got[c] = <<>> THEN 0 ELSE Last(got[c])} :
          /\ job[t].pc = "off"
          /\ Spawned(t, [Off EXCEPT !.pc = "start", !.to = c, !.event = after, !.gen = generation[c]])
    BY DEF Subscribe
  <1>3. after \in 0..MaxSeq
    <2>1. got[c] # <<>> => Last(got[c]) \in 1..MaxSeq
      <3>1. Elements(got[c]) \subseteq 1..MaxSeq
        BY <1>1, ElementsIn
      <3>2. got[c] # <<>> => Len(got[c]) \in 1..Len(got[c])
        BY <1>1
      <3> QED BY <3>1, <3>2 DEF Last, Elements
    <2>2. 0 \in 0..MaxSeq /\ \A n \in 1..MaxSeq : n \in 0..MaxSeq
      BY SubscriptionFacts
    <2>3. CASE got[c] = <<>>
      BY <2>2, <2>3
    <2>4. CASE got[c] # <<>>
      BY <2>1, <2>2, <2>4
    <2> QED BY <2>3, <2>4
  <1> DEFINE j == [Off EXCEPT !.pc = "start", !.to = c, !.event = after, !.gen = generation[c]]
  <1>4. t \in Task /\ Kind(t) = "replay" /\ Owner(t) = c
    BY Tasks
  <1>5. /\ link[c] = "open" /\ job' = [job EXCEPT ![t] = j] /\ ready' = Append(ready, t) /\ wants' = wants \cup {c}
        /\ Asks("subscribe")
        /\ UNCHANGED <<runVars, subVars, lockVars, outVars, linkVars, reads, silent, running>>
    BY <1>2 DEF Subscribe, Receives, Spawned
  <1>6. /\ j \in Job /\ j.pc = "start" /\ j.to = c /\ j.gen = generation[c]
        /\ j.todo = <<>> /\ j.rest = {} /\ j.lock = 0
    <2>1. j \in Job
      BY <1>1, <1>3, OffIsJob DEF Job
    <2> QED BY <2>1, OffIsJob, OffFields
  <1> HIDE DEF j
  <1>7. Proper(t, j) /\ j.gen <= generation[Owner(t)]
    BY <1>1, <1>4, <1>6 DEF Proper, InLock, Holding
  <1>8. /\ journal' \in 0..MaxSeq /\ exec' \in Conn \cup {None} /\ reads' \in [Conn -> BOOLEAN]
        /\ silent' \in [Conn -> {"no", "yes", "timeout"}] /\ wants' \subseteq Conn /\ asked' \in 0..MaxRequests
        /\ wants \subseteq wants' /\ Owner(t) \in wants' /\ buffer' = buffer
    BY <1>1, <1>4, <1>5, AskedOnce DEF TypeOK, runVars
  <1> QED BY <1>2, <1>4, <1>5, <1>6, <1>7, <1>8, SpawnKept

LEMMA UnsubscribeKeeps ==
    ASSUME SubInv, NEW c \in Conn, Unsubscribe(c)
    PROVE  SubInv'
  <1> DEFINE t == Loop(c)
             j == [Off EXCEPT !.pc = "start", !.to = c]
  <1>1. t \in Task /\ Kind(t) = "loop" /\ Owner(t) = c /\ TypeOK /\ generation[c] \in Nat
    BY Tasks DEF SubInv, TypeOK
  <1>2. /\ running = None /\ job[t].pc = "off" /\ job' = [job EXCEPT ![t] = j] /\ running' = t /\ Asks("unsubscribe")
        /\ UNCHANGED <<runVars, subVars, lockVars, outVars, linkVars, reads, silent, wants, ready>>
    BY DEF Unsubscribe, Receives
  <1>3. j \in Job /\ j.pc = "start" /\ j.to = c /\ j.event = 0 /\ j.rest = {} /\ j.lock = 0 /\ j.gen = 0
    <2>1. j \in Job
      BY <1>1, OffIsJob DEF Job
    <2> QED BY <2>1, OffIsJob, OffFields
  <1> HIDE DEF t, j
  <1>4. Proper(t, j) /\ j.gen <= generation[Owner(t)]
    BY <1>1, <1>3 DEF Proper, InLock, Holding
  <1>5. /\ journal' \in 0..MaxSeq /\ exec' \in Conn \cup {None} /\ reads' \in [Conn -> BOOLEAN]
        /\ silent' \in [Conn -> {"no", "yes", "timeout"}] /\ wants' \subseteq Conn /\ asked' \in 0..MaxRequests
        /\ buffer' = buffer
    BY <1>1, <1>2, AskedOnce DEF TypeOK, runVars
  <1> QED BY <1>1, <1>2, <1>3, <1>4, <1>5, SpawnKept

LEMMA TickKeeps ==
    ASSUME SubInv, NEW c \in Conn, Tick(c)
    PROVE  SubInv'
  <1> DEFINE t == Beat(c)
             j == [Off EXCEPT !.pc = "start", !.to = c]
  <1>1. t \in Task /\ Kind(t) = "beat" /\ Owner(t) = c /\ TypeOK /\ generation[c] \in Nat
    BY Tasks DEF SubInv, TypeOK
  <1>2. /\ job[t].pc = "off" /\ job' = [job EXCEPT ![t] = j] /\ ready' = Append(ready, t)
        /\ UNCHANGED asked \/ Asks("beat")
        /\ UNCHANGED <<runVars, subVars, lockVars, outVars, linkVars, reads, silent, wants, running>>
    BY DEF Tick, Spawned
  <1>3. j \in Job /\ j.pc = "start" /\ j.to = c /\ j.rest = {} /\ j.lock = 0 /\ j.gen = 0
    <2>1. j \in Job
      BY <1>1, OffIsJob DEF Job
    <2> QED BY <2>1, OffIsJob, OffFields
  <1> HIDE DEF t, j
  <1>4. Proper(t, j) /\ j.gen <= generation[Owner(t)]
    BY <1>1, <1>3 DEF Proper, InLock, Holding
  <1>5. /\ journal' \in 0..MaxSeq /\ exec' \in Conn \cup {None} /\ reads' \in [Conn -> BOOLEAN]
        /\ silent' \in [Conn -> {"no", "yes", "timeout"}] /\ wants' \subseteq Conn /\ asked' \in 0..MaxRequests
        /\ buffer' = buffer
    BY <1>1, <1>2, AskedOnce DEF TypeOK, runVars
  <1> QED BY <1>1, <1>2, <1>3, <1>4, <1>5, SpawnKept

-----------------------------------------------------------------------------
(* A lock is left.                                                           *)
LEMMA UnlockKept ==
    ASSUME SubInv, NEW t \in Task, running = t, job[t].lock # 0, job[t].pc \in {"exit", "cancelled"},
           NEW subs, Unlock(t, subs), Elsewhere(t), job'[t].pc \notin InLock \cup {"cancelled"},
           running' \in {t, None}, running' = t => Able(t)', putters' = putters,
           \A c \in Conn : t # Stream(c) => buffer'[c] = buffer[c]
    PROVE  /\ Schedule' /\ Locks' /\ waiters' = waiters
           /\ ready' \in Seq(Task) /\ holder' \in [Lock -> Task \cup {None}] /\ lockOf' \in [Conn -> Lock \cup {0}]
           /\ \A d \in Conn : lockOf'[d] = lockOf[d] \/ (d = job[t].to /\ d \notin subs)
  <1> DEFINE l == job[t].lock
             c == job[t].to
             held == [holder EXCEPT ![l] = IF holder[l] = t THEN None ELSE holder[l]]
             u == Head(waiters[l])
  <1>1. /\ holder' = held /\ waiters' = waiters
        /\ lockOf' = lockOf \/ (c \notin subs /\ lockOf' = [lockOf EXCEPT ![c] = 0])
        /\ \/ ready' = ready
           \/ waiters[l] # <<>> /\ held[l] = None /\ u \notin Elements(ready) /\ ready' = Append(ready, u)
    BY SMTT(60) DEF Unlock, ToSet, Elements
  <1>2. /\ TypeOK /\ Proper(t, job[t]) /\ job[t] \in Job /\ t \notin Elements(ready) /\ t # None
        /\ \A d \in Conn : t \notin Elements(putters[d])
    BY Running
  <1>3. l \in Lock /\ c \in Conn
    BY <1>2, Fields DEF Proper
  <1>4. /\ holder \in [Lock -> Task \cup {None}] /\ waiters \in [Lock -> Seq(Task)] /\ lockOf \in [Conn -> Lock \cup {0}]
        /\ ready \in Seq(Task) /\ Elements(ready) \subseteq Task /\ waiters[l] \in Seq(Task)
    BY <1>2, <1>3, TasksIn DEF TypeOK
  <1> HIDE DEF l, c
  <1>5. /\ held \in [Lock -> Task \cup {None}]
        /\ \A m \in Lock : (held[m] # None => held[m] = holder[m]) /\ (held[m] # holder[m] => holder[m] = t)
    BY <1>3, <1>4
  <1>6. \A m \in Lock : held[m] # None => held[m] # t
    <2>1. \A m \in Lock : holder[m] = t => m = l
      BY <1>2 DEF SubInv, Locks, l
    <2> QED BY <1>3, <1>4, <2>1
  <1> HIDE DEF held
  <1>7. waiters[l] # <<>> => u \in Task /\ job[u].pc = "lock" /\ job[u].lock = l /\ u # t
    <2>1. waiters[l] # <<>> => u \in Task /\ u \in Elements(waiters[l])
      BY <1>4, Taking
    <2> QED BY <1>3, <2>1 DEF SubInv, Locks
  <1>8. lockOf' \in [Conn -> Lock \cup {0}] /\ \A d \in Conn : lockOf'[d] = lockOf[d] \/ (d = c /\ d \notin subs)
    BY <1>1, <1>3, <1>4
  <1>9. /\ ready' \in Seq(Task) /\ Distinct(ready') /\ running' \notin Elements(ready') /\ t \notin Elements(ready')
        /\ \A v \in Task : Due(v)' => Due(v) \/ (v = u /\ waiters[l] # <<>> /\ held[l] = None)
    <2>1. Distinct(ready)
      BY DEF SubInv, Schedule
    <2>2. CASE ready' = ready
      BY <1>2, <1>4, <2>1, <2>2, Tasks DEF Due
    <2>3. CASE waiters[l] # <<>> /\ held[l] = None /\ u \notin Elements(ready) /\ ready' = Append(ready, u)
      <3>1. ready' \in Seq(Task) /\ Distinct(ready') /\ Elements(ready') = Elements(ready) \cup {u}
        BY <1>4, <1>7, <2>1, <2>3, Appending
      <3> HIDE DEF u
      <3> QED BY <1>2, <1>4, <1>7, <2>3, <3>1, Tasks DEF Due
    <2> QED BY <1>1, <2>2, <2>3
  <1> HIDE DEF u
  <1>10. Schedule'
    <2>1. \A v \in Task : Due(v)' => Able(v)'
      <3> SUFFICES ASSUME NEW v \in Task, Due(v)', v # t PROVE Able(v)'
        BY <1>9 DEF Due
      <3>0. job'[v] = job[v]
        BY DEF Elsewhere
      <3>1. CASE v = u /\ waiters[l] # <<>>
        BY <1>7, <3>0, <3>1 DEF Able
      <3>2. CASE Due(v)
        <4>1. Able(v)
          BY <3>2 DEF SubInv, Schedule
        <4>2. Kind(v) = "stream" => v = Stream(Owner(v)) /\ Owner(v) \in Conn
          BY Tasks
        <4> QED BY <3>0, <4>1, <4>2 DEF Able
      <3> QED BY <1>9, <3>1, <3>2
    <2>2. \A d \in Conn : \A v \in Elements(putters[d]) : ~Due(v)' /\ Putting(v, d)'
      <3> SUFFICES ASSUME NEW d \in Conn, NEW v \in Elements(putters[d]) PROVE ~Due(v)' /\ Putting(v, d)'
        OBVIOUS
      <3>1. v \in Task /\ v # t /\ ~Due(v) /\ Putting(v, d)
        BY <1>2, TasksIn DEF SubInv, Schedule
      <3>2. job[v].pc # "lock"
        BY <3>1 DEF Putting
      <3> QED BY <1>7, <1>9, <3>1, <3>2 DEF Putting, Elsewhere
    <2> QED BY <1>9, <2>1, <2>2 DEF SubInv, Schedule
  <1>11. Locks'
    <2>1. \A v \in Task : job'[v].pc \in Holding => holder'[job'[v].lock] = v
      <3> SUFFICES ASSUME NEW v \in Task, v # t, job[v].pc \in Holding PROVE holder'[job[v].lock] = v
        BY DEF Elsewhere, InLock
      <3>1. holder[job[v].lock] = v /\ job[v].lock \in Lock
        BY <1>2, LockIn DEF SubInv, Locks, InLock
      <3> QED BY <1>1, <1>5, <3>1
    <2>2. \A m \in Lock : holder'[m] # None =>
            job'[holder'[m]].lock = m /\ job'[holder'[m]].pc \in Holding \cup {"cancelled"}
      <3> SUFFICES ASSUME NEW m \in Lock, held[m] # None
                   PROVE  job'[held[m]].lock = m /\ job'[held[m]].pc \in Holding \cup {"cancelled"}
        BY <1>1
      <3>1. held[m] = holder[m] /\ held[m] # t /\ held[m] \in Task
        BY <1>5, <1>6
      <3>2. job[held[m]].lock = m /\ job[held[m]].pc \in Holding \cup {"cancelled"}
        BY <3>1 DEF SubInv, Locks
      <3> QED BY <3>1, <3>2 DEF Elsewhere
    <2>3. \A m \in Lock : \A v \in Elements(waiters[m]) : job'[v].pc = "lock" /\ job'[v].lock = m
      <3> SUFFICES ASSUME NEW m \in Lock, NEW v \in Elements(waiters[m]) PROVE job'[v].pc = "lock" /\ job'[v].lock = m
        OBVIOUS
      <3>1. v \in Task /\ job[v].pc = "lock" /\ job[v].lock = m
        BY <1>2, TasksIn DEF SubInv, Locks
      <3> QED BY <3>1 DEF Elsewhere
    <2>4. \A v \in Task : Due(v)' /\ job'[v].pc = "lock" => First(v)'
      <3> SUFFICES ASSUME NEW v \in Task, Due(v)', v # t, job[v].pc = "lock" PROVE First(v)'
        BY DEF Elsewhere, InLock
      <3>1. job'[v] = job[v] /\ job[v].lock \in Lock
        BY <1>2, LockIn DEF SubInv, Elsewhere, InLock
      <3>2. CASE Due(v)
        <4>1. First(v)
          BY <3>2 DEF SubInv, Locks
        <4> QED BY <1>1, <1>5, <3>1, <4>1 DEF First
      <3>3. CASE v = u /\ waiters[l] # <<>> /\ held[l] = None
        <4>1. job[v].lock = l
          BY <1>7, <3>3
        <4> QED BY <1>1, <3>1, <3>3, <4>1 DEF First, u
      <3> QED BY <1>9, <3>2, <3>3
    <2> QED BY <1>1, <2>1, <2>2, <2>3, <2>4 DEF SubInv, Locks
  <1> QED BY <1>1, <1>4, <1>5, <1>8, <1>9, <1>10, <1>11 DEF c

(* A task is through with a lock: it goes on or ends, and a replay may end   *)
(* the subscription.                                                         *)
LEMMA LeftKept ==
    ASSUME SubInv, NEW t \in Task, running = t, job[t].lock # 0, job[t].pc \in {"exit", "cancelled"},
           NEW subs, Unlock(t, subs), subscribed' = subs, Elsewhere(t), job' \in [Task -> Job],
           job'[t].pc \in {"off", "each", "tell"}, job'[t].lock = 0, Proper(t, job'[t]), job'[t].gen <= job[t].gen,
           job'[t].pc # "off" => job[t].pc = "exit" /\ job'[t].gen = job[t].gen,
           job'[t].rest = {} \/ (job'[t].rest = job[t].rest /\ job'[t].event = job[t].event),
           running' \in {t, None}, running' = t => Able(t)',
           buffer' \in [Conn -> Seq(0..MaxSeq)], \A d \in Conn : t # Stream(d) => buffer'[d] = buffer[d],
           NEW c \in Conn, c = Owner(t),
           \/ subs = subscribed /\ generation' = generation /\ cursor' = cursor
           \/ /\ Kind(t) = "replay" /\ job[t].pc = "exit" /\ c \in subscribed /\ subs = subscribed \ {c}
              /\ generation' = [generation EXCEPT ![c] = generation[c] + 1] /\ cursor' = [cursor EXCEPT ![c] = 0],
           generation'[job[t].to] = 0 => job[t].to \in subs \/ link[job[t].to] # "open",
           UNCHANGED <<journal, exec, queue, putters, sender, got, known, link, reads, silent, asked, wants>>
    PROVE  SubInv'
  <1>1. /\ TypeOK /\ Proper(t, job[t]) /\ job[t].gen <= generation[c] /\ job[t] \in Job /\ Able(t)
        /\ job[t].pc # "cancelled" /\ Kind(t) \in {"replay", "stream"} => link[c] = "open"
        /\ \A d \in Conn : generation[d] = 0 => Row(t, d)
        /\ \A d \in Conn : link[d] = "open" /\ generation[d] <= 1 /\ d \notin wants => Quiet(t, d)
    BY Running
  <1>2. job'[t].pc \notin InLock \cup {"cancelled"}
    BY DEF InLock, Holding
  <1>3. /\ Schedule' /\ Locks' /\ waiters' = waiters
        /\ ready' \in Seq(Task) /\ holder' \in [Lock -> Task \cup {None}] /\ lockOf' \in [Conn -> Lock \cup {0}]
        /\ \A d \in Conn : lockOf'[d] = lockOf[d] \/ (d = job[t].to /\ d \notin subs)
    BY <1>2, UnlockKept
  <1>4. /\ generation' \in [Conn -> Nat] /\ cursor' \in [Conn -> 0..MaxSeq] /\ subs \subseteq subscribed /\ subs \subseteq Conn
        /\ \A d \in Conn : generation[d] \in Nat /\ generation'[d] \in Nat /\ generation[d] <= generation'[d]
        /\ \A d \in Conn : generation'[d] = generation[d] =>
                             (d \in subs <=> d \in subscribed) /\ cursor'[d] = cursor[d]
        /\ \A d \in Conn : generation'[d] # generation[d] =>
                             /\ Kind(t) = "replay" /\ job[t].pc = "exit" /\ c \in subscribed /\ d = c
                             /\ c \notin subs /\ generation'[c] = generation[c] + 1
    <2>1. generation \in [Conn -> Nat] /\ cursor \in [Conn -> 0..MaxSeq] /\ subscribed \subseteq Conn /\ 0 \in 0..MaxSeq
      <3>1. TypeOK
        BY <1>1
      <3>2. 0 \in 0..MaxSeq
        BY SubscriptionFacts
      <3> QED BY <3>1, <3>2 DEF TypeOK
    <2>2. CASE subs = subscribed /\ generation' = generation /\ cursor' = cursor
      BY <2>1, <2>2
    <2>3. CASE /\ Kind(t) = "replay" /\ job[t].pc = "exit" /\ c \in subscribed /\ subs = subscribed \ {c}
               /\ generation' = [generation EXCEPT ![c] = generation[c] + 1] /\ cursor' = [cursor EXCEPT ![c] = 0]
      BY <2>1, <2>3
    <2> QED BY <2>2, <2>3
  <1>5. TypeOK'
    <2>1. running' \in Task \cup {None}
      OBVIOUS
    <2> QED BY <1>1, <1>3, <1>4, <2>1 DEF TypeOK
  <1>6. Jobs'
    <2> SUFFICES ASSUME NEW u \in Task PROVE Proper(u, job'[u]) /\ job'[u].gen <= generation'[Owner(u)]
      BY DEF Jobs
    <2>1. Proper(u, job'[u]) /\ job'[u].gen <= job[u].gen /\ job[u].gen <= generation[Owner(u)]
      <3>1. job[u].gen \in Nat
        BY <1>1, Fields DEF TypeOK
      <3> QED BY <3>1 DEF Elsewhere, SubInv, Jobs
    <2>2. job[u].gen \in Nat /\ job'[u].gen \in Nat /\ Owner(u) \in Conn
      BY <1>1, Tasks, Fields DEF TypeOK
    <2> QED BY <1>4, <2>1, <2>2
  <1>7. Linked'
    <2>1. job[t].pc = "cancelled" => job'[t].pc = "off"
      OBVIOUS
    <2> QED BY <1>1, <2>1, LinkedKept DEF SubInv
  <1>8. Table'
    <2> SUFFICES ASSUME NEW d \in Conn, generation'[d] = 0, NEW u \in Task PROVE Row(u, d)'
      BY DEF Table
    <2>1. generation'[d] = generation[d] /\ Row(u, d) /\ (d \in subs <=> d \in subscribed)
      BY <1>4 DEF SubInv, Table
    <2>2. lockOf'[d] # lockOf[d] => ~(d \in subs \/ link[d] = "open")
      BY <1>3
    <2>3. CASE u = t
      BY <1>2, <2>1, <2>3 DEF Row, Broadcasts, InLock, Holding
    <2>4. CASE u # t
      <3>1. job'[u] = job[u]
        BY <2>4 DEF Elsewhere
      <3> QED BY <2>1, <2>2, <3>1 DEF Row, Broadcasts
    <2> QED BY <2>3, <2>4
  <1>9. Order'
    <2> SUFFICES ASSUME NEW d \in Conn, generation'[d] = 0
                 PROVE  /\ InOrder(got[d], queue[d], cursor'[d])
                        /\ d \notin subs => Nothing(d)
                        /\ \A u \in Task : job'[u].pc = "room" /\ job'[u].to = d /\ IsEvent(Head(job'[u].todo))
                                           => Head(job'[u].todo)[2] > cursor'[d]
      BY DEF Order, Nothing
    <2>1. generation[d] = 0 /\ cursor'[d] = cursor[d] /\ (d \in subs <=> d \in subscribed)
      BY <1>4
    <2>2. job'[t].pc # "room"
      OBVIOUS
    <2> QED BY <2>1, <2>2 DEF SubInv, Order, Elsewhere
  <1>10. Asked'
    <2>1. ASSUME NEW d \in Conn, job'[Loop(d)].pc = "wait" PROVE d \in wants'
      <3>1. Loop(d) \in Task /\ Loop(d) # t
        BY <2>1, Tasks
      <3> QED BY <2>1, <3>1 DEF SubInv, Asked, Elsewhere
    <2>2. ASSUME NEW d \in Conn, generation'[d] = generation[d], link[d] = "open", generation[d] <= 1, d \notin wants
          PROVE  d \notin subs /\ \A u \in Task : Quiet(u, d)'
      <3>1. d \notin subs /\ \A u \in Task : Quiet(u, d)
        BY <1>4, <2>2 DEF SubInv, Asked
      <3>2. Quiet(t, d)'
        BY <2>2, <3>1 DEF Quiet
      <3>3. \A u \in Task : u # t => Quiet(u, d)'
        BY <2>2, <3>1 DEF Quiet, Elsewhere
      <3> QED BY <3>1, <3>2, <3>3
    <2>3. ASSUME NEW d \in Conn, generation'[d] # generation[d], link[d] = "open", generation'[d] <= 1, NEW u \in Task
          PROVE  d \notin subs /\ Quiet(u, d)'
      <3>1. d = c /\ c \in subscribed /\ generation[c] = 0 /\ c \notin subs /\ generation'[c] = 1
        BY <1>4, <2>3
      <3>2. job[t].to = c /\ job[t].pc \in Holding
        BY <1>1, <1>4, <2>3 DEF Proper, Holding
      <3>3. job'[u].to = c => job'[u].pc \notin {"in", "room"}
        <4> SUFFICES ASSUME u # t, job[u].to = c, job[u].pc \in Holding PROVE FALSE
          BY DEF Elsewhere, Holding
        <4> QED BY <3>1, <3>2, OneHolder
      <3>4. u \in Replays(c) => job'[u].gen < generation'[c]
        <4>1. u \in Replays(c) => Owner(u) = c
          BY Tasks
        <4>2. job[u].gen \in Nat /\ job[u].gen <= generation[Owner(u)] /\ job'[u].gen \in Nat /\ job'[u].gen <= job[u].gen
          <5>1. job[u] \in Job /\ job'[u] \in Job /\ (u = t \/ job'[u] = job[u])
            BY <1>1 DEF TypeOK, Elsewhere
          <5> QED BY <5>1, Fields DEF SubInv, Jobs
        <4> QED BY <3>1, <4>1, <4>2
      <3> QED BY <3>1, <3>3, <3>4 DEF Quiet
    <2> QED BY <1>4, <2>1, <2>2, <2>3 DEF Asked
  <1> QED BY <1>3, <1>5, <1>6, <1>7, <1>8, <1>9, <1>10 DEF SubInv

LEMMA LeaveKeeps ==
    ASSUME SubInv, NEW t \in Task, Leave(t)
    PROVE  SubInv'
  <1> DEFINE raised == job[t].todo = <<Say("raised")>>
             Told(m) == job' = [job EXCEPT ![t].pc = "tell", ![t].to = Owner(t), ![t].todo = <<m>>, ![t].lock = 0]
  <1>0. PICK c \in Conn : c = Owner(t)
    BY Tasks
  <1>1. PICK subs : subs = IF raised /\ Kind(t) = "replay" THEN subscribed \ {c} ELSE subscribed
    OBVIOUS
  <1>2. /\ running = t /\ job[t].pc = "exit" /\ Unlock(t, subs) /\ subscribed' = subs
        /\ IF subs # subscribed
           THEN generation' = [generation EXCEPT ![c] = generation[c] + 1] /\ cursor' = [cursor EXCEPT ![c] = 0]
           ELSE generation' = generation /\ cursor' = cursor
        /\ \/ Told(Say("error")) /\ running' = running
           \/ /\ job[t].event # 0 /\ Kind(t) # "replay" /\ running' = running
              /\ job' = [job EXCEPT ![t].pc = "each", ![t].todo = <<>>, ![t].lock = 0]
           \/ job' = [job EXCEPT ![t] = Off] /\ running' = None
           \/ Told(Say("unsubscribed")) /\ running' = running
        /\ UNCHANGED <<journal, exec, buffer, queue, putters, sender, got, known, link, reads, silent, asked, wants>>
    BY <1>0, <1>1 DEF Leave, At, Ends, runVars, outVars, linkVars, clientVars
  <1>3. /\ TypeOK /\ Proper(t, job[t]) /\ job[t].gen <= generation[c] /\ job[t] \in Job /\ t # None
        /\ \A d \in Conn : generation[d] = 0 => Row(t, d)
    BY <1>0, <1>2, Running
  <1>4. Kind(t) # "beat" /\ job[t].lock # 0 /\ job[t].to \in Conn /\ (Kind(t) = "replay" => job[t].to = c)
    BY <1>0, <1>2, <1>3 DEF Proper, InLock, Holding
  <1>5. ASSUME NEW r \in Job, job' = [job EXCEPT ![t] = r], running' = running, r.lock = 0, r.gen = job[t].gen,
               r.rest = job[t].rest, r.event = job[t].event,
               \/ r.pc = "tell" /\ r.to = Owner(t) /\ r.todo # <<>> /\ r.todo \in Seq(Message) /\ ~IsEvent(Head(r.todo))
               \/ r.pc = "each" /\ Kind(t) # "replay" /\ r.event # 0
        PROVE  /\ job' \in [Task -> Job] /\ Elsewhere(t) /\ job'[t].pc \in {"off", "each", "tell"} /\ job'[t].lock = 0
               /\ Proper(t, job'[t]) /\ job'[t].gen = job[t].gen /\ (running' = t => Able(t)')
               /\ job'[t].rest = job[t].rest /\ job'[t].event = job[t].event
    <2>1. job' \in [Task -> Job] /\ Elsewhere(t) /\ job'[t] = r
      <3>1. job \in [Task -> Job]
        BY <1>3 DEF TypeOK
      <3> QED BY <1>5, <3>1, JobPut
    <2>2. Proper(t, r)
      BY <1>0, <1>4, <1>5 DEF Proper, InLock, Holding
    <2>3. Able(t)'
      BY <1>5, <2>1 DEF Able
    <2> QED BY <1>5, <2>1, <2>2, <2>3
  <1>6. ASSUME NEW m \in Message, ~IsEvent(m), Told(m), running' = running
        PROVE  /\ job' \in [Task -> Job] /\ Elsewhere(t) /\ job'[t].pc \in {"off", "each", "tell"} /\ job'[t].lock = 0
               /\ Proper(t, job'[t]) /\ job'[t].gen = job[t].gen /\ (running' = t => Able(t)')
               /\ job'[t].rest = job[t].rest /\ job'[t].event = job[t].event
    <2> DEFINE r == [job[t] EXCEPT !.pc = "tell", !.to = Owner(t), !.todo = <<m>>, !.lock = 0]
    <2>1. <<m>> \in Seq(Message) /\ <<m>> \in Seq(Message \cup {Say("raised")}) /\ <<m>> # <<>> /\ Head(<<m>>) = m
      OBVIOUS
    <2>2. r \in Job
      BY <1>0, <1>3, <2>1 DEF Job
    <2>3. job' = [job EXCEPT ![t] = r]
      BY <1>6
    <2>4. /\ r.pc = "tell" /\ r.to = Owner(t) /\ r.todo = <<m>> /\ r.lock = 0 /\ r.gen = job[t].gen
          /\ r.rest = job[t].rest /\ r.event = job[t].event
      BY <1>3 DEF Job
    <2> HIDE DEF r
    <2> QED BY <1>5, <1>6, <2>1, <2>2, <2>3, <2>4
  <1>7. /\ job' \in [Task -> Job] /\ Elsewhere(t) /\ job'[t].pc \in {"off", "each", "tell"} /\ job'[t].lock = 0
        /\ Proper(t, job'[t]) /\ job'[t].gen <= job[t].gen /\ (job'[t].pc # "off" => job'[t].gen = job[t].gen)
        /\ running' \in {t, None} /\ (running' = t => Able(t)')
        /\ job'[t].rest = {} \/ (job'[t].rest = job[t].rest /\ job'[t].event = job[t].event)
    <2>1. job[t].gen \in Nat
      BY <1>3, Fields
    <2>2. CASE Told(Say("error")) /\ running' = running
      <3>1. Say("error") \in Message /\ ~IsEvent(Say("error"))
        BY Messages
      <3> HIDE DEF Told
      <3> QED BY <1>2, <1>6, <2>1, <2>2, <3>1
    <2>3. CASE Told(Say("unsubscribed")) /\ running' = running
      <3>1. Say("unsubscribed") \in Message /\ ~IsEvent(Say("unsubscribed"))
        BY Messages
      <3> HIDE DEF Told
      <3> QED BY <1>2, <1>6, <2>1, <2>3, <3>1
    <2>4. CASE /\ job[t].event # 0 /\ Kind(t) # "replay" /\ running' = running
               /\ job' = [job EXCEPT ![t].pc = "each", ![t].todo = <<>>, ![t].lock = 0]
      <3> DEFINE r == [job[t] EXCEPT !.pc = "each", !.todo = <<>>, !.lock = 0]
      <3>0. <<>> \in Seq(Message \cup {Say("raised")})
        OBVIOUS
      <3>1. r \in Job
        BY <1>3, <3>0 DEF Job
      <3>2. job' = [job EXCEPT ![t] = r]
        BY <2>4
      <3>3. /\ r.pc = "each" /\ r.lock = 0 /\ r.gen = job[t].gen /\ r.rest = job[t].rest /\ r.event = job[t].event
        BY <1>3 DEF Job
      <3> HIDE DEF r
      <3>4. running' = running /\ r.pc = "each" /\ Kind(t) # "replay" /\ r.event # 0
        BY <2>4, <3>3
      <3>5. /\ job' \in [Task -> Job] /\ Elsewhere(t) /\ job'[t].pc \in {"off", "each", "tell"} /\ job'[t].lock = 0
            /\ Proper(t, job'[t]) /\ job'[t].gen = job[t].gen /\ (running' = t => Able(t)')
            /\ job'[t].rest = job[t].rest /\ job'[t].event = job[t].event
        BY <1>5, <3>1, <3>2, <3>3, <3>4
      <3> QED BY <1>2, <2>1, <3>4, <3>5
    <2>5. CASE job' = [job EXCEPT ![t] = Off] /\ running' = None
      <3>1. /\ job' \in [Task -> Job] /\ Elsewhere(t) /\ job'[t].pc = "off" /\ job'[t].rest = {}
            /\ job'[t].lock = 0 /\ job'[t].gen = 0
        BY <1>3, <2>5, OffSet
      <3>2. Proper(t, job'[t])
        BY <3>1 DEF Proper, InLock, Holding
      <3> QED BY <1>3, <2>1, <2>5, <3>1, <3>2
    <2> HIDE DEF Told
    <2> QED BY <1>2, <2>2, <2>3, <2>4, <2>5
  <1>8. \/ subs = subscribed /\ generation' = generation /\ cursor' = cursor
        \/ /\ Kind(t) = "replay" /\ c \in subscribed /\ subs = subscribed \ {c}
           /\ generation' = [generation EXCEPT ![c] = generation[c] + 1] /\ cursor' = [cursor EXCEPT ![c] = 0]
    BY <1>1, <1>2
  <1>9. generation'[job[t].to] = 0 => job[t].to \in subs
    <2>1. generation[job[t].to] = 0 => job[t].to \in subscribed
      BY <1>2, <1>3, <1>4 DEF Row
    <2>2. CASE subs = subscribed /\ generation' = generation
      BY <2>1, <2>2
    <2>3. CASE Kind(t) = "replay" /\ generation' = [generation EXCEPT ![c] = generation[c] + 1]
      <3>1. generation \in [Conn -> Nat] /\ job[t].to = c
        BY <1>3, <1>4, <2>3 DEF TypeOK
      <3> QED BY <2>3, <3>1
    <2> QED BY <1>8, <2>2, <2>3
  <1>10. buffer' \in [Conn -> Seq(0..MaxSeq)] /\ buffer' = buffer
    BY <1>2, <1>3 DEF TypeOK
  <1> HIDE DEF raised, Told
  <1> QED BY <1>0, <1>2, <1>4, <1>7, <1>8, <1>9, <1>10, LeftKept

LEMMA CancelledKeeps ==
    ASSUME SubInv, NEW t \in Task, Cancelled(t)
    PROVE  SubInv'
  <1>0. PICK c \in Conn : c = Owner(t)
    BY Tasks
  <1>1. PICK subs : subs = subscribed
    OBVIOUS
  <1>2. /\ running = t /\ job[t].pc = "cancelled" /\ job' = [job EXCEPT ![t] = Off] /\ running' = None
        /\ IF job[t].lock = 0 THEN UNCHANGED <<lockOf, holder, waiters, ready>> ELSE Unlock(t, subs)
        /\ buffer' = IF Kind(t) = "stream" THEN [buffer EXCEPT ![c] = <<>>] ELSE buffer
        /\ UNCHANGED <<journal, exec, subscribed, cursor, generation, queue, putters, sender, got, known, link,
                       reads, silent, asked, wants>>
    BY <1>0, <1>1 DEF Cancelled, At, Ends, lockVars, subVars, outVars, linkVars, clientVars
  <1>3. /\ TypeOK /\ Proper(t, job[t]) /\ job[t].gen <= generation[c] /\ job[t] \in Job /\ t # None
        /\ \A d \in Conn : generation[d] = 0 => Row(t, d)
    BY <1>0, <1>2, Running
  <1>4. /\ job' \in [Task -> Job] /\ Elsewhere(t) /\ job'[t].pc = "off" /\ job'[t].rest = {}
        /\ job'[t].lock = 0 /\ job'[t].gen = 0
    BY <1>2, <1>3, OffSet
  <1>5. Proper(t, job'[t]) /\ 0 <= job[t].gen
    BY <1>3, <1>4, Fields DEF Proper, InLock, Holding
  <1>6. buffer' \in [Conn -> Seq(0..MaxSeq)] /\ \A d \in Conn : t # Stream(d) => buffer'[d] = buffer[d]
    <2>1. buffer \in [Conn -> Seq(0..MaxSeq)] /\ <<>> \in Seq(0..MaxSeq)
      BY <1>3 DEF TypeOK
    <2>2. \A d \in Conn : Kind(t) = "stream" /\ d = c => t = Stream(d)
      BY <1>0, Tasks
    <2> QED BY <1>2, <2>1, <2>2
  <1>7. CASE job[t].lock # 0
    <2>1. Unlock(t, subs)
      BY <1>2, <1>7
    <2>2. generation[job[t].to] = 0 => job[t].to \in subs \/ link[job[t].to] # "open"
      <3>1. job[t].to \in Conn /\ Kind(t) # "beat" /\ Kind(t) # "loop"
        BY <1>2, <1>3, <1>7 DEF Proper
      <3>2. CASE Kind(t) = "stream"
        BY <1>1, <1>3, <1>7, <3>1, <3>2 DEF Row, Broadcasts
      <3>3. CASE Kind(t) = "replay"
        <4>1. job[t].to = c /\ link[c] # "open"
          BY <1>0, <1>2, <1>3, <3>3 DEF Proper, SubInv, Linked
        <4> QED BY <4>1
      <3> QED BY <3>1, <3>2, <3>3, Tasks
    <2>3. subscribed' = subs /\ job[t].pc \in {"exit", "cancelled"} /\ job'[t].pc \in {"off", "each", "tell"}
      BY <1>1, <1>2, <1>4
    <2> QED BY <1>0, <1>1, <1>2, <1>3, <1>4, <1>5, <1>6, <1>7, <2>1, <2>2, <2>3, LeftKept
  <1>8. CASE job[t].lock = 0
    <2>1. UNCHANGED <<lockOf, holder, waiters, ready>>
      BY <1>2, <1>8
    <2>2. TypeOK'
      <3>1. TypeOK
        BY <1>3
      <3> QED BY <1>2, <1>4, <1>6, <2>1, <3>1 DEF TypeOK
    <2>3. Jobs'
      <3>1. 0 <= generation[Owner(t)]
        BY <1>0, <1>3 DEF TypeOK
      <3> QED BY <1>2, <1>4, <1>5, <3>1, JobsKept DEF SubInv
    <2>4. Schedule'
      <3>1. running' \in {t, None} /\ ~(running' = t)
        BY <1>2, <1>3
      <3> QED BY <1>2, <1>3, <1>4, <1>6, <2>1, <3>1, ScheduleKept DEF SubInv
    <2>5. Locks'
      <3>1. \A u \in Task : job'[u].pc \in Holding => holder'[job'[u].lock] = u
        BY <1>4, <2>1 DEF SubInv, Locks, Elsewhere, Holding
      <3>2. \A m \in Lock : holder'[m] # None =>
              job'[holder'[m]].lock = m /\ job'[holder'[m]].pc \in Holding \cup {"cancelled"}
        <4> SUFFICES ASSUME NEW m \in Lock, holder[m] # None
                     PROVE  job'[holder[m]].lock = m /\ job'[holder[m]].pc \in Holding \cup {"cancelled"}
          BY <2>1
        <4>1. holder[m] \in Task /\ job[holder[m]].lock = m /\ job[holder[m]].pc \in Holding \cup {"cancelled"}
          BY <1>3, TasksIn DEF SubInv, Locks
        <4>2. m # 0
          BY DEF Lock
        <4> QED BY <1>4, <1>8, <4>1, <4>2 DEF Elsewhere
      <3>3. \A m \in Lock : \A v \in Elements(waiters[m]) : job'[v].pc = "lock" /\ job'[v].lock = m
        <4> SUFFICES ASSUME NEW m \in Lock, NEW v \in Elements(waiters[m]) PROVE job'[v].pc = "lock" /\ job'[v].lock = m
          OBVIOUS
        <4>1. v \in Task /\ job[v].pc = "lock" /\ job[v].lock = m
          BY <1>3, TasksIn DEF SubInv, Locks
        <4> QED BY <1>2, <1>4, <4>1 DEF Elsewhere
      <3>4. \A v \in Task : Due(v)' /\ job'[v].pc = "lock" => First(v)'
        <4>1. \A v \in Task : Due(v)' => Due(v)
          BY <1>2, <2>1, Tasks DEF Due
        <4> QED BY <1>4, <2>1, <4>1 DEF SubInv, Locks, Elsewhere, First
      <3> QED BY <2>1, <3>1, <3>2, <3>3, <3>4 DEF SubInv, Locks
    <2>6. Linked'
      BY <1>2, <1>3, <1>4, LinkedKept DEF SubInv
    <2>7. Table'
      <3>1. \A d \in Conn : Row(t, d)'
        BY <1>4 DEF Row, InLock, Holding
      <3> QED BY <1>2, <1>4, <2>1, <3>1, TableKept DEF SubInv
    <2>8. Order'
      BY <1>2, <1>4, OrderKept DEF SubInv
    <2>9. Asked'
      <3>1. \A d \in Conn : Quiet(t, d)'
        BY <1>4 DEF Quiet
      <3> QED BY <1>2, <1>4, <3>1, AskedKept DEF SubInv
    <2> QED BY <2>2, <2>3, <2>4, <2>5, <2>6, <2>7, <2>8, <2>9 DEF SubInv
  <1> QED BY <1>7, <1>8

-----------------------------------------------------------------------------
LEMMA FunctionIn ==
    ASSUME NEW f, NEW S, NEW R, f = [x \in S |-> f[x]], \A x \in S : f[x] \in R
    PROVE  f \in [S -> R]
  OBVIOUS

(* What was sent stays in order where a connection without a subscription    *)
(* forgets its cursor.                                                       *)
LEMMA OrderForgets ==
    ASSUME TypeOK, Jobs, Order, got' = got, queue' = queue,
           \A d \in Conn : generation'[d] = 0 =>
             /\ generation[d] = 0 /\ (d \in subscribed => d \in subscribed')
             /\ cursor'[d] = cursor[d] \/ (d \notin subscribed /\ cursor'[d] = 0),
           \A t \in Task : job'[t].pc = "room" => job'[t] = job[t]
    PROVE  Order'
  <1> SUFFICES ASSUME NEW d \in Conn, generation'[d] = 0
               PROVE  /\ InOrder(got[d], queue[d], cursor'[d])
                      /\ d \notin subscribed' => Nothing(d)
                      /\ \A t \in Task : job'[t].pc = "room" /\ job'[t].to = d /\ IsEvent(Head(job'[t].todo))
                                         => Head(job'[t].todo)[2] > cursor'[d]
    BY DEF Order, Nothing
  <1>1. /\ InOrder(got[d], queue[d], cursor[d]) /\ (d \notin subscribed => Nothing(d))
        /\ \A t \in Task : job[t].pc = "room" /\ job[t].to = d /\ IsEvent(Head(job[t].todo))
                           => Head(job[t].todo)[2] > cursor[d]
    BY DEF Order
  <1>2. CASE cursor'[d] = cursor[d]
    BY <1>1, <1>2
  <1>3. CASE d \notin subscribed /\ cursor'[d] = 0
    <2>1. Nothing(d) /\ Len(got[d]) = 0
      BY <1>1, <1>3 DEF Nothing
    <2>2. InOrder(got[d], queue[d], 0)
      BY <2>1 DEF InOrder, Increasing, Nothing
    <2>3. ASSUME NEW t \in Task, job[t].pc = "room", IsEvent(Head(job[t].todo)) PROVE Head(job[t].todo)[2] > 0
      <3>1. job[t].todo \in Seq(Message) /\ job[t].todo # <<>>
        BY <2>3 DEF Jobs, Proper
      <3>2. Head(job[t].todo) \in Message
        BY <3>1, Taking
      <3>3. Head(job[t].todo)[2] \in 1..MaxSeq
        BY <2>3, <3>2, Messages
      <3> QED BY <3>3
    <2> QED BY <1>1, <1>3, <2>1, <2>2, <2>3
  <1> QED BY <1>2, <1>3

(* Tasks are cancelled, and one goes on to see to what follows.              *)
LEMMA CancelKept ==
    ASSUME SubInv, NEW T \in SUBSET Task, NEW s \in Task, s \notin T, NEW j \in Job, \A t \in T : Kind(t) # "loop",
           Kind(s) \in {"loop", "beat"}, Cancel(T, [job EXCEPT ![s] = j]),
           Proper(s, j), j.gen <= generation'[Owner(s)], j.pc \in {"wait", "close"}, j.lock = 0,
           j.rest = {} \/ Kind(s) = "beat",
           job[s].pc \in {"off", "start"}, running = s \/ (running = None /\ job[s].pc = "off"),
           running' \in {None, s}, running' = s => j.pc = "close",
           subscribed' \subseteq subscribed, wants \subseteq wants', wants' \subseteq Conn, known' \subseteq Conn,
           generation' \in [Conn -> Nat], cursor' \in [Conn -> 0..MaxSeq], lockOf' \in [Conn -> Lock \cup {0}],
           link' \in [Conn -> {"open", "closing", "closed"}], reads' \in [Conn -> BOOLEAN], asked' \in 0..MaxRequests,
           \A d \in Conn : generation[d] <= generation'[d] /\ (link'[d] = "open" => link[d] = "open"),
           \A d \in Conn : generation'[d] = 0 =>
             /\ d \in subscribed => d \in subscribed'
             /\ lockOf'[d] = lockOf[d] /\ (cursor'[d] = cursor[d] \/ (d \notin subscribed /\ cursor'[d] = 0)),
           \A t \in Task : Kind(t) \in {"replay", "stream"} /\ link'[Owner(t)] # "open" =>
                             t \in T \/ link[Owner(t)] # "open",
           \A t \in T : Kind(t) = "replay" => link'[Owner(t)] # "open",
           j.pc = "close" => link'[Owner(s)] # "open",
           \A d \in Conn : s = Loop(d) /\ j.pc = "wait" => d \in wants',
           UNCHANGED <<journal, exec, buffer, queue, holder, sender, got, silent>>
    PROVE  SubInv'
  <1> DEFINE live == {t \in T : job[t].pc # "off"}
  <1>1. PICK L : L = live
    OBVIOUS
  <1>2. /\ TypeOK /\ job \in [Task -> Job] /\ Jobs /\ Schedule /\ Locks /\ Linked /\ Table /\ Order /\ Asked
        /\ ready \in Seq(Task) /\ waiters \in [Lock -> Seq(Task)] /\ putters \in [Conn -> Seq(Task)]
        /\ generation \in [Conn -> Nat]
    BY DEF SubInv, TypeOK
  <1>3. /\ L \subseteq T /\ \A t \in Task : t \in L <=> t \in T /\ job[t].pc # "off"
        /\ job' = [t \in Task |-> IF t \in L THEN [([job EXCEPT ![s] = j])[t] EXCEPT !.pc = "cancelled"]
                                  ELSE ([job EXCEPT ![s] = j])[t]]
        /\ ready' = Dropped(ready, L) \o SetToSeq(L)
        /\ putters' = [d \in Conn |-> Dropped(putters[d], L)]
        /\ waiters' = [l \in Lock |-> Dropped(waiters[l], L)]
    BY <1>1 DEF Cancel
  <1> HIDE DEF live
  <1>4. /\ job' \in [Task -> Job] /\ job'[s] = j /\ s \notin L
        /\ \A t \in Task : t \notin L /\ t # s => job'[t] = job[t]
        /\ \A t \in Task : t \in L =>
             /\ t # s /\ job'[t].pc = "cancelled" /\ job'[t].to = job[t].to /\ job'[t].rest = job[t].rest
             /\ job'[t].event = job[t].event /\ job'[t].lock = job[t].lock /\ job'[t].gen = job[t].gen
    <2>1. \A r \in Job : /\ [r EXCEPT !.pc = "cancelled"] \in Job
                         /\ [r EXCEPT !.pc = "cancelled"].pc = "cancelled" /\ [r EXCEPT !.pc = "cancelled"].to = r.to
                         /\ [r EXCEPT !.pc = "cancelled"].rest = r.rest /\ [r EXCEPT !.pc = "cancelled"].event = r.event
                         /\ [r EXCEPT !.pc = "cancelled"].lock = r.lock /\ [r EXCEPT !.pc = "cancelled"].gen = r.gen
      BY ZenonT(60) DEF Job
    <2>2. s \notin L /\ ([job EXCEPT ![s] = j])[s] = j /\ \A t \in Task : t # s => ([job EXCEPT ![s] = j])[t] = job[t]
      BY <1>2, <1>3
    <2>3. /\ job'[s] = j /\ \A t \in Task : t \notin L /\ t # s => job'[t] = job[t]
          /\ \A t \in Task : t \in L => t # s /\ job'[t] = [job[t] EXCEPT !.pc = "cancelled"]
      BY <1>3, <2>2
    <2>4. \A t \in Task : job[t] \in Job
      BY <1>2
    <2>5. DOMAIN job' = Task /\ job' = [t \in Task |-> job'[t]]
      BY <1>3
    <2>6. \A t \in Task : job'[t] \in Job
      <3> SUFFICES ASSUME NEW t \in Task PROVE job'[t] \in Job
        OBVIOUS
      <3>1. CASE t \in L
        <4>1. job[t] \in Job /\ job'[t] = [job[t] EXCEPT !.pc = "cancelled"]
          BY <2>3, <2>4, <3>1
        <4> QED BY <2>1, <4>1
      <3>2. CASE t \notin L
        BY <2>3, <2>4, <3>2
      <3> QED BY <3>1, <3>2
    <2>7. job' \in [Task -> Job]
      <3>1. PICK f : f = job'
        OBVIOUS
      <3>2. f = [t \in Task |-> f[t]] /\ \A t \in Task : f[t] \in Job
        BY <2>5, <2>6, <3>1
      <3>3. f \in [Task -> Job]
        BY <3>2, FunctionIn
      <3> QED BY <3>1, <3>3
    <2>8. ASSUME NEW t \in Task, t \in L
          PROVE  /\ t # s /\ job'[t].pc = "cancelled" /\ job'[t].to = job[t].to /\ job'[t].rest = job[t].rest
                 /\ job'[t].event = job[t].event /\ job'[t].lock = job[t].lock /\ job'[t].gen = job[t].gen
      <3>1. job[t] \in Job /\ t # s /\ job'[t] = [job[t] EXCEPT !.pc = "cancelled"]
        BY <2>3, <2>4, <2>8
      <3> QED BY <2>1, <3>1
    <2> QED BY <2>2, <2>3, <2>7, <2>8
  <1>5. /\ ready' \in Seq(Task) /\ Elements(ready') \subseteq (Elements(ready) \ L) \cup L /\ Distinct(ready')
    <2>1. /\ Dropped(ready, L) \in Seq(Task) /\ Elements(Dropped(ready, L)) \subseteq Elements(ready) \ L
          /\ Distinct(Dropped(ready, L))
      BY <1>2, Dropping DEF Schedule
    <2>2. SetToSeq(L) \in Seq(L) /\ Elements(SetToSeq(L)) \subseteq L /\ Distinct(SetToSeq(L))
      <3>1. IsFiniteSet(L)
        BY <1>3, TasksAreFinite, FS_Subset
      <3> QED BY <3>1, Listing
    <2>3. SetToSeq(L) \in Seq(Task)
      <3>1. L \subseteq Task
        BY <1>3
      <3> QED BY <2>2, <3>1
    <2>4. /\ Dropped(ready, L) \o SetToSeq(L) \in Seq(Task) /\ Distinct(Dropped(ready, L) \o SetToSeq(L))
          /\ Elements(Dropped(ready, L) \o SetToSeq(L)) = Elements(Dropped(ready, L)) \cup Elements(SetToSeq(L))
      BY <2>1, <2>2, <2>3, Joining
    <2> QED BY <1>3, <2>1, <2>2, <2>4
  <1>6. /\ putters' \in [Conn -> Seq(Task)]
        /\ \A d \in Conn : Distinct(putters'[d]) /\ Elements(putters'[d]) \subseteq Elements(putters[d]) \ L
    <2>1. \A d \in Conn : /\ putters'[d] = Dropped(putters[d], L) /\ putters'[d] \in Seq(Task)
                          /\ Distinct(putters'[d]) /\ Elements(putters'[d]) \subseteq Elements(putters[d]) \ L
      BY <1>2, <1>3, Dropping DEF Schedule
    <2>2. putters' = [d \in Conn |-> putters'[d]]
      BY <1>3
    <2> QED BY <2>1, <2>2
  <1>7. /\ waiters' \in [Lock -> Seq(Task)]
        /\ \A l \in Lock : /\ Distinct(waiters'[l]) /\ Elements(waiters'[l]) \subseteq Elements(waiters[l]) \ L
                           /\ waiters[l] # <<>> /\ Head(waiters[l]) \notin L =>
                                waiters'[l] # <<>> /\ Head(waiters'[l]) = Head(waiters[l])
    <2>1. \A l \in Lock : /\ waiters'[l] = Dropped(waiters[l], L) /\ waiters'[l] \in Seq(Task)
                          /\ Distinct(waiters'[l]) /\ Elements(waiters'[l]) \subseteq Elements(waiters[l]) \ L
                          /\ waiters[l] # <<>> /\ Head(waiters[l]) \notin L =>
                                waiters'[l] # <<>> /\ Head(waiters'[l]) = Head(waiters[l])
      BY <1>2, <1>3, Dropping DEF Locks
    <2>2. waiters' = [l \in Lock |-> waiters'[l]]
      BY <1>3
    <2> QED BY <2>1, <2>2
  <1>8. s \notin Elements(ready) /\ s # None /\ job[s].lock = 0 /\ \A d \in Conn : s \notin Elements(putters[d])
    <2>1. s # None /\ (job[s].pc = "off" => ~Able(s))
      BY Tasks DEF Able
    <2>2. s \notin Elements(ready)
      BY <1>2, <2>1 DEF Schedule, Due
    <2>3. job[s].lock = 0
      BY <1>2 DEF Jobs, Proper, InLock, Holding
    <2>4. \A d \in Conn : s \notin Elements(putters[d])
      <3>1. \A d \in Conn : ~Putting(s, d)
        BY DEF Putting
      <3> QED BY <1>2, <3>1 DEF Schedule
    <2> QED BY <2>1, <2>2, <2>3, <2>4
  <1>9. \A t \in Task : Due(t)' => t = s \/ t \in L \/ (Due(t) /\ t # s /\ t \notin L)
    BY <1>5, Tasks DEF Due
  <1>10. \A t \in L : Kind(t) # "loop" /\ t \in Task
    BY <1>3
  <1>11. TypeOK'
    <2>1. running' \in Task \cup {None}
      OBVIOUS
    <2> QED BY <1>2, <1>4, <1>5, <1>6, <1>7, <2>1 DEF TypeOK
  <1>12. Jobs'
    <2> SUFFICES ASSUME NEW t \in Task PROVE Proper(t, job'[t]) /\ job'[t].gen <= generation'[Owner(t)]
      BY DEF Jobs
    <2>1. Owner(t) \in Conn /\ Proper(t, job[t]) /\ job[t].gen <= generation[Owner(t)] /\ job[t].gen \in Nat
      BY <1>2, Tasks, Fields DEF Jobs
    <2>2. generation[Owner(t)] \in Nat /\ generation'[Owner(t)] \in Nat /\ generation[Owner(t)] <= generation'[Owner(t)]
      BY <1>2, <2>1
    <2>3. CASE t = s
      BY <1>4, <2>3
    <2>4. CASE t \in L
      <3>1. /\ job'[t].pc = "cancelled" /\ job'[t].to = job[t].to /\ job'[t].lock = job[t].lock
            /\ job'[t].gen = job[t].gen /\ job[t].pc # "off" /\ Kind(t) # "loop"
        BY <1>3, <1>4, <1>10, <2>4
      <3>2. Proper(t, job'[t])
        BY <2>1, <3>1 DEF Proper, InLock, Holding
      <3> QED BY <2>1, <2>2, <3>1, <3>2
    <2>5. CASE t # s /\ t \notin L
      BY <1>4, <2>1, <2>2, <2>5
    <2> QED BY <2>3, <2>4, <2>5
  <1>13. Schedule'
    <2>1. running' \notin Elements(ready')
      <3>1. None \notin Elements(ready) /\ None \notin L
        BY <1>2, <1>10, ElementsIn, Tasks
      <3> QED BY <1>4, <1>5, <1>8, <3>1
    <2>2. ASSUME NEW t \in Task, Due(t)' PROVE Able(t)'
      <3>1. CASE t = s
        <4>1. running' = s
          BY <1>4, <1>5, <1>8, <2>2, <3>1 DEF Due
        <4> QED BY <1>4, <3>1, <4>1 DEF Able
      <3>2. CASE t \in L
        BY <1>4, <1>10, <3>2 DEF Able
      <3>3. CASE Due(t) /\ t # s /\ t \notin L
        <4>1. Able(t)
          BY <1>2, <3>3 DEF Schedule
        <4> QED BY <1>4, <3>3, <4>1 DEF Able
      <3> QED BY <1>9, <2>2, <3>1, <3>2, <3>3
    <2>3. \A d \in Conn : \A t \in Elements(putters'[d]) : ~Due(t)' /\ Putting(t, d)'
      <3> SUFFICES ASSUME NEW d \in Conn, NEW t \in Elements(putters'[d]) PROVE ~Due(t)' /\ Putting(t, d)'
        OBVIOUS
      <3>1. t \in Elements(putters[d]) /\ t \notin L
        BY <1>6
      <3>2. t \in Task /\ t # s /\ ~Due(t) /\ Putting(t, d)
        BY <1>2, <1>8, <3>1, TasksIn DEF Schedule
      <3>3. job'[t] = job[t] /\ ~Due(t)'
        BY <1>4, <1>9, <3>1, <3>2
      <3> QED BY <3>2, <3>3 DEF Putting
    <2> QED BY <1>5, <1>6, <2>1, <2>2, <2>3 DEF Schedule
  <1>14. Locks'
    <2>1. \A t \in Task : job'[t].pc \in Holding => holder'[job'[t].lock] = t
      <3> SUFFICES ASSUME NEW t \in Task, job'[t].pc \in Holding PROVE holder[job'[t].lock] = t
        OBVIOUS
      <3>1. t # s /\ t \notin L
        BY <1>4 DEF Holding
      <3>2. job'[t] = job[t]
        BY <1>4, <3>1
      <3> QED BY <1>2, <3>2 DEF Locks
    <2>2. \A m \in Lock : holder'[m] # None =>
            job'[holder'[m]].lock = m /\ job'[holder'[m]].pc \in Holding \cup {"cancelled"}
      <3> SUFFICES ASSUME NEW m \in Lock, NEW h, h = holder[m], h # None
                   PROVE  job'[h].lock = m /\ job'[h].pc \in Holding \cup {"cancelled"}
        OBVIOUS
      <3>1. h \in Task /\ job[h].lock = m /\ job[h].pc \in Holding \cup {"cancelled"} /\ m # 0
        BY <1>2, TasksIn DEF Locks, Lock
      <3>2. h # s
        BY <1>8, <3>1
      <3> QED BY <1>4, <3>1, <3>2
    <2>3. \A m \in Lock : \A t \in Elements(waiters'[m]) : job'[t].pc = "lock" /\ job'[t].lock = m
      <3> SUFFICES ASSUME NEW m \in Lock, NEW t \in Elements(waiters'[m]) PROVE job'[t].pc = "lock" /\ job'[t].lock = m
        OBVIOUS
      <3>1. t \in Elements(waiters[m]) /\ t \notin L
        BY <1>7
      <3>2. t \in Task /\ job[t].pc = "lock" /\ job[t].lock = m
        BY <1>2, <3>1, TasksIn DEF Locks
      <3>3. t # s
        BY <3>2
      <3> QED BY <1>4, <3>1, <3>2, <3>3
    <2>4. \A t \in Task : Due(t)' /\ job'[t].pc = "lock" => First(t)'
      <3> SUFFICES ASSUME NEW t \in Task, Due(t)', job'[t].pc = "lock" PROVE First(t)'
        OBVIOUS
      <3>1. t # s /\ t \notin L
        BY <1>4
      <3>2. Due(t) /\ job'[t] = job[t]
        BY <1>4, <1>9, <3>1
      <3>3. First(t) /\ job[t].lock \in Lock
        BY <1>2, <3>2, LockIn DEF Locks, InLock
      <3> QED BY <1>7, <3>1, <3>2, <3>3 DEF First
    <2> QED BY <1>7, <2>1, <2>2, <2>3, <2>4 DEF Locks
  <1>15. Linked'
    <2> SUFFICES ASSUME NEW t \in Task
                 PROVE  /\ Kind(t) = "replay" /\ job'[t].pc = "cancelled" => link'[Owner(t)] # "open"
                        /\ Kind(t) \in {"replay", "stream"} /\ link'[Owner(t)] # "open" => job'[t].pc \in {"off", "cancelled"}
                        /\ job'[t].pc \in {"close", "drain"} => link'[Owner(t)] # "open"
      BY DEF Linked
    <2>1. /\ Kind(t) = "replay" /\ job[t].pc = "cancelled" => link[Owner(t)] # "open"
          /\ Kind(t) \in {"replay", "stream"} /\ link[Owner(t)] # "open" => job[t].pc \in {"off", "cancelled"}
          /\ job[t].pc \in {"close", "drain"} => link[Owner(t)] # "open"
          /\ Owner(t) \in Conn /\ (link'[Owner(t)] = "open" => link[Owner(t)] = "open")
      BY <1>2, Tasks DEF Linked
    <2>2. CASE t = s
      BY <1>4, <2>2
    <2>3. CASE t \in L
      <3>1. t \in T /\ job'[t].pc = "cancelled"
        BY <1>3, <1>4, <2>3
      <3> QED BY <3>1
    <2>4. CASE t # s /\ t \notin L
      <3>1. job'[t] = job[t] /\ (t \in T => job[t].pc = "off")
        BY <1>3, <1>4, <2>4
      <3> QED BY <2>1, <3>1
    <2> QED BY <2>2, <2>3, <2>4
  <1>16. \A d \in Conn : generation'[d] = 0 => generation[d] = 0
    <2> SUFFICES ASSUME NEW d \in Conn, generation'[d] = 0 PROVE generation[d] = 0
      OBVIOUS
    <2>1. generation[d] \in Nat /\ generation[d] <= 0
      BY <1>2
    <2> QED BY <2>1
  <1>17. Table'
    <2> SUFFICES ASSUME NEW d \in Conn, generation'[d] = 0, NEW t \in Task PROVE Row(t, d)'
      BY DEF Table
    <2>1. Row(t, d) /\ (d \in subscribed => d \in subscribed') /\ (d \in subscribed' => d \in subscribed)
      BY <1>2, <1>16 DEF Table
    <2>2. lockOf'[d] = lockOf[d] /\ (link'[d] = "open" => link[d] = "open")
      OBVIOUS
    <2>3. CASE t = s
      BY <1>4, <2>3 DEF Row, Broadcasts, InLock, Holding
    <2>4. CASE t \in L
      <3>1. /\ job'[t].pc = "cancelled" /\ job'[t].to = job[t].to /\ job'[t].rest = job[t].rest
            /\ job'[t].event = job[t].event /\ job'[t].lock = job[t].lock
        BY <1>4, <2>4
      <3> QED BY <2>1, <3>1 DEF Row, Broadcasts, InLock, Holding
    <2>5. CASE t # s /\ t \notin L
      <3>1. job'[t] = job[t]
        BY <1>4, <2>5
      <3> QED BY <2>1, <2>2, <3>1 DEF Row, Broadcasts
    <2> QED BY <2>3, <2>4, <2>5
  <1>18. Order'
    <2>1. \A t \in Task : job'[t].pc = "room" => job'[t] = job[t]
      <3> SUFFICES ASSUME NEW t \in Task, job'[t].pc = "room" PROVE job'[t] = job[t]
        OBVIOUS
      <3>1. t # s /\ t \notin L
        BY <1>4
      <3> QED BY <1>4, <3>1
    <2> QED BY <1>2, <1>16, <2>1, OrderForgets
  <1>19. Asked'
    <2>1. ASSUME NEW d \in Conn, job'[Loop(d)].pc = "wait" PROVE d \in wants'
      <3>1. Loop(d) \in Task /\ Loop(d) \notin L
        BY <1>10, Tasks
      <3>2. CASE Loop(d) = s
        BY <1>4, <2>1, <3>2
      <3>3. CASE Loop(d) # s
        BY <1>2, <1>4, <2>1, <3>1, <3>3 DEF Asked
      <3> QED BY <3>2, <3>3
    <2>2. ASSUME NEW d \in Conn, link'[d] = "open", generation'[d] <= 1, d \notin wants'
          PROVE  d \notin subscribed' /\ \A t \in Task : Quiet(t, d)'
      <3>0. generation[d] \in Nat /\ generation'[d] \in Nat /\ generation[d] <= generation'[d]
        BY <1>2
      <3>1. d \notin subscribed /\ \A t \in Task : Quiet(t, d)
        BY <1>2, <2>2, <3>0 DEF Asked
      <3>2. ASSUME NEW t \in Task PROVE Quiet(t, d)'
        <4>1. CASE t = s
          BY <1>4, <4>1, Tasks DEF Quiet
        <4>2. CASE t \in L
          BY <1>4, <4>2, <1>10 DEF Quiet
        <4>3. CASE t # s /\ t \notin L
          <5>1. job'[t] = job[t] /\ Quiet(t, d) /\ job[t].gen \in Nat
            BY <1>2, <1>4, <3>1, <4>3, Fields
          <5> QED BY <3>0, <5>1 DEF Quiet
        <4> QED BY <4>1, <4>2, <4>3
      <3> QED BY <3>1, <3>2
    <2> QED BY <2>1, <2>2 DEF Asked
  <1> QED BY <1>11, <1>12, <1>13, <1>14, <1>15, <1>17, <1>18, <1>19 DEF SubInv

(* What is left of a connection that is forgotten.                           *)
LEMMA ForgottenKept ==
    ASSUME TypeOK, NEW c \in Conn, Forgotten(c)
    PROVE  /\ known' \subseteq Conn /\ subscribed' = subscribed \ {c}
           /\ generation' \in [Conn -> Nat] /\ cursor' \in [Conn -> 0..MaxSeq] /\ lockOf' \in [Conn -> Lock \cup {0}]
           /\ \A d \in Conn : generation[d] <= generation'[d]
           /\ \A d \in Conn : generation'[d] = 0 =>
                /\ d \in subscribed => d \in subscribed'
                /\ lockOf'[d] = lockOf[d] /\ (cursor'[d] = cursor[d] \/ (d \notin subscribed /\ cursor'[d] = 0))
  <1>1. /\ generation \in [Conn -> Nat] /\ cursor \in [Conn -> 0..MaxSeq] /\ lockOf \in [Conn -> Lock \cup {0}]
        /\ known \subseteq Conn
    BY DEF TypeOK
  <1>2. 0 \in 0..MaxSeq
    BY SubscriptionFacts
  <1>3. /\ known' = known \ {c} /\ subscribed' = subscribed \ {c} /\ cursor' = [cursor EXCEPT ![c] = 0]
        /\ generation' = IF c \in subscribed THEN [generation EXCEPT ![c] = generation[c] + 1] ELSE generation
        /\ lockOf' = lockOf \/ (c \in subscribed /\ lockOf' = [lockOf EXCEPT ![c] = 0])
    BY DEF Forgotten
  <1>4. /\ generation' \in [Conn -> Nat] /\ cursor' \in [Conn -> 0..MaxSeq] /\ lockOf' \in [Conn -> Lock \cup {0}]
        /\ \A d \in Conn : d # c => generation'[d] = generation[d] /\ cursor'[d] = cursor[d] /\ lockOf'[d] = lockOf[d]
        /\ cursor'[c] = 0 /\ generation'[c] = IF c \in subscribed THEN generation[c] + 1 ELSE generation[c]
        /\ c \notin subscribed => lockOf'[c] = lockOf[c]
    BY <1>1, <1>2, <1>3
  <1>5. \A d \in Conn : generation[d] \in Nat
    BY <1>1
  <1>6. \A d \in Conn : generation[d] <= generation'[d]
    BY <1>4, <1>5
  <1>7. ASSUME NEW d \in Conn, generation'[d] = 0
        PROVE  /\ d \in subscribed => d \in subscribed'
               /\ lockOf'[d] = lockOf[d] /\ (cursor'[d] = cursor[d] \/ (d \notin subscribed /\ cursor'[d] = 0))
    <2>1. CASE d = c
      <3>1. c \notin subscribed
        BY <1>4, <1>5, <1>7, <2>1
      <3> QED BY <1>4, <2>1, <3>1
    <2>2. CASE d # c
      BY <1>3, <1>4, <2>2
    <2> QED BY <2>1, <2>2
  <1> QED BY <1>1, <1>3, <1>4, <1>6, <1>7

LEMMA CancelRunKeeps ==
    ASSUME SubInv, NEW c \in Conn, CancelRun(c)
    PROVE  SubInv'
  <1> DEFINE s == Loop(c)
             j == [Off EXCEPT !.pc = "wait", !.to = c]
             T == {Stream(d) : d \in Conn}
  <1>1. /\ s \in Task /\ Kind(s) = "loop" /\ Owner(s) = c /\ T \in SUBSET Task
        /\ \A t \in T : Kind(t) = "stream" /\ \E d \in Conn : t = Stream(d)
    BY Tasks
  <1>2. \A t \in Task : Kind(t) = "stream" => t \in T
    BY Tasks
  <1>3. j \in Job /\ j.pc = "wait" /\ j.to = c /\ j.rest = {} /\ j.lock = 0 /\ j.gen = 0
    <2>1. j \in Job
      BY OffIsJob DEF Job
    <2> QED BY <2>1, OffIsJob, OffFields
  <1>4. \A d \in Conn : s = Loop(d) => d = c
    BY Tasks
  <1>5. /\ running = None /\ job[s].pc = "off" /\ Asks("cancel") /\ Cancel(T, [job EXCEPT ![s] = j])
        /\ wants' = wants \cup {c} /\ running' = running
        /\ UNCHANGED <<journal, exec, buffer, subscribed, cursor, generation, lockOf, holder, queue, sender, got,
                       known, link, reads, silent>>
    BY DEF CancelRun, Receives, runVars, subVars, linkVars
  <1> HIDE DEF s, j, T
  <1>6. Proper(s, j)
    BY <1>1, <1>3 DEF Proper, InLock, Holding
  <1>7. TypeOK /\ asked' \in 0..MaxRequests
    BY <1>5, AskedOnce DEF SubInv
  <1>8. /\ subscribed' \subseteq subscribed /\ wants \subseteq wants' /\ wants' \subseteq Conn /\ known' \subseteq Conn
        /\ generation' \in [Conn -> Nat] /\ cursor' \in [Conn -> 0..MaxSeq] /\ lockOf' \in [Conn -> Lock \cup {0}]
        /\ link' \in [Conn -> {"open", "closing", "closed"}] /\ reads' \in [Conn -> BOOLEAN]
    BY <1>5, <1>7 DEF TypeOK
  <1>9. \A d \in Conn : generation[d] <= generation'[d]
    BY <1>5, <1>7 DEF TypeOK
  <1>10. j.gen <= generation'[Owner(s)]
    BY <1>1, <1>3, <1>8
  <1>11. s \notin T /\ \A t \in T : Kind(t) # "loop" /\ Kind(t) # "replay"
    BY <1>1
  <1>12. /\ running' \in {None, s} /\ running' # s /\ j.pc # "close"
         /\ \A d \in Conn : s = Loop(d) /\ j.pc = "wait" => d \in wants'
    BY <1>1, <1>3, <1>4, <1>5, Tasks
  <1>13. /\ \A d \in Conn : link'[d] = "open" => link[d] = "open"
         /\ \A d \in Conn : generation'[d] = 0 =>
              /\ d \in subscribed => d \in subscribed'
              /\ lockOf'[d] = lockOf[d] /\ (cursor'[d] = cursor[d] \/ (d \notin subscribed /\ cursor'[d] = 0))
         /\ \A t \in Task : Kind(t) \in {"replay", "stream"} /\ link'[Owner(t)] # "open" => t \in T \/ link[Owner(t)] # "open"
    BY <1>5
  <1> QED BY <1>1, <1>3, <1>5, <1>6, <1>7, <1>8, <1>9, <1>10, <1>11, <1>12, <1>13, CancelKept

LEMMA DisconnectKeeps ==
    ASSUME SubInv, NEW c \in Conn, Disconnect(c)
    PROVE  SubInv'
  <1> DEFINE s == Loop(c)
             j == [Off EXCEPT !.pc = "close", !.to = c]
             T == Mine(c)
  <1>1. /\ s \in Task /\ Kind(s) = "loop" /\ Owner(s) = c /\ T \in SUBSET Task
        /\ \A t \in T : Kind(t) \in {"stream", "replay", "beat"} /\ Owner(t) = c
    BY Tasks DEF Mine
  <1>2. \A t \in Task : Kind(t) \in {"stream", "replay"} /\ Owner(t) = c => t \in T
    BY Tasks DEF Mine
  <1>3. j \in Job /\ j.pc = "close" /\ j.to = c /\ j.rest = {} /\ j.lock = 0 /\ j.gen = 0
    <2>1. j \in Job
      BY OffIsJob DEF Job
    <2> QED BY <2>1, OffIsJob, OffFields
  <1>4. /\ running = None /\ job[s].pc = "off" /\ Asks("disconnect") /\ Cancel(T, [job EXCEPT ![s] = j])
        /\ reads' = [reads EXCEPT ![c] = FALSE] /\ Forgotten(c) /\ link' = [link EXCEPT ![c] = "closing"]
        /\ wants' = wants /\ running' = s
        /\ UNCHANGED <<journal, exec, buffer, holder, queue, sender, got, silent>>
    BY DEF Disconnect, Receives, runVars
  <1> HIDE DEF s, j, T
  <1>5. Proper(s, j)
    BY <1>1, <1>3 DEF Proper, InLock, Holding
  <1>6. TypeOK /\ asked' \in 0..MaxRequests
    BY <1>4, AskedOnce DEF SubInv
  <1>7. /\ known' \subseteq Conn /\ subscribed' = subscribed \ {c}
        /\ generation' \in [Conn -> Nat] /\ cursor' \in [Conn -> 0..MaxSeq] /\ lockOf' \in [Conn -> Lock \cup {0}]
        /\ \A d \in Conn : generation[d] <= generation'[d]
        /\ \A d \in Conn : generation'[d] = 0 =>
             /\ d \in subscribed => d \in subscribed'
             /\ lockOf'[d] = lockOf[d] /\ (cursor'[d] = cursor[d] \/ (d \notin subscribed /\ cursor'[d] = 0))
    BY <1>4, <1>6, ForgottenKept
  <1>8. /\ link' \in [Conn -> {"open", "closing", "closed"}] /\ reads' \in [Conn -> BOOLEAN] /\ wants' \subseteq Conn
        /\ link'[c] # "open" /\ \A d \in Conn : d # c => link'[d] = link[d]
    BY <1>4, <1>6 DEF TypeOK
  <1>9. \A t \in Task : Kind(t) \in {"replay", "stream"} /\ link'[Owner(t)] # "open" => t \in T \/ link[Owner(t)] # "open"
    BY <1>2, <1>8, Tasks
  <1>10. j.gen <= generation'[Owner(s)]
    BY <1>1, <1>3, <1>7
  <1>11. s \notin T /\ \A t \in T : Kind(t) # "loop" /\ link'[Owner(t)] # "open"
    BY <1>1, <1>8
  <1>12. /\ subscribed' \subseteq subscribed /\ wants \subseteq wants' /\ running' \in {None, s} /\ j.pc # "wait"
         /\ \A d \in Conn : link'[d] = "open" => link[d] = "open"
    BY <1>3, <1>4, <1>7, <1>8
  <1> QED BY <1>1, <1>3, <1>4, <1>5, <1>6, <1>7, <1>8, <1>9, <1>10, <1>11, <1>12, CancelKept

LEMMA BeatRunsKeeps ==
    ASSUME SubInv, NEW c \in Conn, BeatRuns(c)
    PROVE  SubInv'
  <1> DEFINE s == Beat(c)
             j == [job[s] EXCEPT !.pc = "close"]
             T == Mine(c) \ {s}
             l == <<Say("beat")>>
  <1>1. /\ s \in Task /\ Kind(s) = "beat" /\ Owner(s) = c /\ T \in SUBSET Task /\ s \notin T
        /\ \A t \in T : Kind(t) \in {"stream", "replay"} /\ Owner(t) = c
        /\ \A d \in Conn : s # Loop(d) /\ s # Stream(d) /\ s \notin Replays(d)
    BY Tasks DEF Mine
  <1>2. \A t \in Task : Kind(t) \in {"stream", "replay"} /\ Owner(t) = c => t \in T
    BY Tasks DEF Mine
  <1>3. /\ running = s /\ job[s].pc = "start"
        /\ \/ /\ link' = [link EXCEPT ![c] = "closing"]
              /\ Cancel(T, [job EXCEPT ![s].pc = "close"])
           \/ /\ job' = [job EXCEPT ![s].pc = "tell", ![s].todo = l]
              /\ link' = link /\ UNCHANGED <<ready, putters, waiters>>
        /\ UNCHANGED <<journal, exec, buffer, subscribed, cursor, generation, lockOf, holder, queue, sender, got, known,
                       reads, silent, wants, asked, running>>
    BY DEF BeatRuns, At, runVars, subVars, clientVars
  <1>4. /\ TypeOK /\ Proper(s, job[s]) /\ job[s].gen <= generation[c] /\ job[s] \in Job /\ job \in [Task -> Job]
        /\ s # None
    BY <1>1, <1>3, Running DEF TypeOK
  <1>5. job[s].lock = 0 /\ job[s].to = c
    BY <1>1, <1>3, <1>4 DEF Proper
  <1>6. j \in Job /\ j.pc = "close" /\ j.to = c /\ j.lock = 0 /\ j.gen = job[s].gen
    BY <1>4, <1>5 DEF Job
  <1>7. [job EXCEPT ![s].pc = "close"] = [job EXCEPT ![s] = j]
    OBVIOUS
  <1>8. l \in Seq(Message) /\ l \in Seq(Message \cup {Say("raised")}) /\ l # <<>> /\ ~IsEvent(Head(l))
    <2>1. Say("beat") \in Message /\ ~IsEvent(Say("beat"))
      BY Messages
    <2> QED BY <2>1
  <1> HIDE DEF s, j, T, l
  <1>9. CASE link' = [link EXCEPT ![c] = "closing"] /\ Cancel(T, [job EXCEPT ![s].pc = "close"])
    <2>1. Proper(s, j) /\ j.gen <= generation'[Owner(s)] /\ Cancel(T, [job EXCEPT ![s] = j])
      <3>1. Proper(s, j)
        BY <1>1, <1>6 DEF Proper, InLock, Holding
      <3>2. generation'[Owner(s)] = generation[c]
        BY <1>1, <1>3
      <3>3. Cancel(T, [job EXCEPT ![s] = j])
        BY <1>7, <1>9
      <3> QED BY <1>4, <1>6, <3>1, <3>2, <3>3
    <2>2. /\ link' \in [Conn -> {"open", "closing", "closed"}] /\ link'[c] # "open"
          /\ \A d \in Conn : d # c => link'[d] = link[d]
      BY <1>4, <1>9 DEF TypeOK
    <2>3. /\ subscribed' \subseteq subscribed /\ wants \subseteq wants' /\ wants' \subseteq Conn /\ known' \subseteq Conn
          /\ generation' \in [Conn -> Nat] /\ cursor' \in [Conn -> 0..MaxSeq] /\ lockOf' \in [Conn -> Lock \cup {0}]
          /\ reads' \in [Conn -> BOOLEAN] /\ asked' \in 0..MaxRequests
      BY <1>3, <1>4 DEF TypeOK
    <2>4. \A d \in Conn : generation[d] <= generation'[d]
      BY <1>3, <1>4 DEF TypeOK
    <2>5. \A d \in Conn : link'[d] = "open" => link[d] = "open"
      BY <2>2
    <2>6. \A d \in Conn : generation'[d] = 0 =>
            /\ d \in subscribed => d \in subscribed'
            /\ lockOf'[d] = lockOf[d] /\ (cursor'[d] = cursor[d] \/ (d \notin subscribed /\ cursor'[d] = 0))
      BY <1>3
    <2>7. \A t \in Task : Kind(t) \in {"replay", "stream"} /\ link'[Owner(t)] # "open" => t \in T \/ link[Owner(t)] # "open"
      BY <1>2, <2>2, Tasks
    <2>8. \A t \in T : Kind(t) # "loop" /\ link'[Owner(t)] # "open"
      BY <1>1, <2>2
    <2>9. Owner(s) = c /\ running' \in {None, s} /\ Kind(s) \in {"loop", "beat"} /\ job[s].pc \in {"off", "start"}
      BY <1>1, <1>3
    <2> QED BY <1>1, <1>3, <1>6, <2>1, <2>2, <2>3, <2>4, <2>5, <2>6, <2>7, <2>8, <2>9, CancelKept
  <1>10. CASE job' = [job EXCEPT ![s].pc = "tell", ![s].todo = l] /\ link' = link /\ UNCHANGED <<ready, putters, waiters>>
    <2>1. /\ job' \in [Task -> Job] /\ Elsewhere(s) /\ job'[s].pc = "tell" /\ job'[s].to = job[s].to
          /\ job'[s].todo = l /\ job'[s].rest = job[s].rest /\ job'[s].event = job[s].event
          /\ job'[s].lock = job[s].lock /\ job'[s].gen = job[s].gen
      <3>1. "tell" \in Pcs
        BY DEF Pcs
      <3> QED BY <1>1, <1>4, <1>8, <1>10, <3>1, TodoSet
    <2>2. TypeOK'
      BY <1>3, <1>4, <1>10, <2>1 DEF TypeOK
    <2>3. Proper(s, job'[s])
      BY <1>1, <1>5, <1>8, <2>1 DEF Proper, InLock, Holding
    <2>4. Able(s)'
      BY <1>1, <2>1 DEF Able
    <2>5. \A d \in Conn : Row(s, d)'
      BY <1>1, <2>1 DEF Row, Broadcasts, InLock, Holding
    <2>6. \A d \in Conn : Quiet(s, d)'
      BY <1>1, <2>1 DEF Quiet
    <2>7. job[s].pc \notin InLock /\ job'[s].pc \notin InLock \cup {"cancelled"}
      BY <1>3, <2>1 DEF InLock, Holding
    <2> QED BY <1>1, <1>3, <1>4, <1>10, <2>1, <2>2, <2>3, <2>4, <2>5, <2>6, <2>7, TaskKeeps
  <1> QED BY <1>3, <1>9, <1>10

LEMMA ClosedKeeps ==
    ASSUME SubInv, NEW t \in Task, Kind(t) \in {"loop", "beat"}, Closed(t)
    PROVE  SubInv'
  <1>1. PICK c \in Conn : c = Owner(t)
    BY Tasks
  <1>2. TypeOK /\ Proper(t, job[t]) /\ job[t].pc = "drain" /\ job[t].to = c /\ link[c] # "open"
    BY <1>1 DEF Closed, SubInv, Jobs, Proper, Linked
  <1>3. /\ link' = [link EXCEPT ![c] = "closed"] /\ job' = [job EXCEPT ![t] = Off] /\ Forgotten(c)
        /\ UNCHANGED <<journal, exec, buffer, holder, waiters, queue, putters, sender, got, reads, silent, wants, asked,
                       running, ready>>
    BY <1>2 DEF Closed, runVars, outVars, clientVars
  <1>4. /\ known' \subseteq Conn /\ subscribed' = subscribed \ {c}
        /\ generation' \in [Conn -> Nat] /\ cursor' \in [Conn -> 0..MaxSeq] /\ lockOf' \in [Conn -> Lock \cup {0}]
        /\ \A d \in Conn : generation[d] <= generation'[d]
        /\ \A d \in Conn : generation'[d] = 0 =>
             /\ d \in subscribed => d \in subscribed'
             /\ lockOf'[d] = lockOf[d] /\ (cursor'[d] = cursor[d] \/ (d \notin subscribed /\ cursor'[d] = 0))
    BY <1>2, <1>3, ForgottenKept
  <1>5. /\ job' \in [Task -> Job] /\ Elsewhere(t) /\ job'[t].pc = "off" /\ job'[t].rest = {}
        /\ job'[t].lock = 0 /\ job'[t].gen = 0
    BY <1>2, <1>3, OffSet
  <1>6. /\ link' \in [Conn -> {"open", "closing", "closed"}] /\ link'[c] # "open"
        /\ \A d \in Conn : d # c => link'[d] = link[d]
    BY <1>2, <1>3 DEF TypeOK
  <1>7. \A d \in Conn : /\ generation[d] \in Nat /\ generation'[d] \in Nat /\ generation[d] <= generation'[d]
                        /\ generation'[d] = 0 => generation[d] = 0
    <2>1. \A d \in Conn : generation[d] \in Nat /\ generation'[d] \in Nat /\ generation[d] <= generation'[d]
      BY <1>2, <1>4 DEF TypeOK
    <2> QED BY <2>1
  <1>8. \A d \in Conn : link'[d] = "open" <=> link[d] = "open"
    BY <1>2, <1>6
  <1>9. TypeOK'
    BY <1>2, <1>3, <1>4, <1>5, <1>6 DEF TypeOK
  <1>10. Jobs'
    <2> SUFFICES ASSUME NEW u \in Task PROVE Proper(u, job'[u]) /\ job'[u].gen <= generation'[Owner(u)]
      BY DEF Jobs
    <2>1. Owner(u) \in Conn /\ Proper(u, job[u]) /\ job[u].gen <= generation[Owner(u)] /\ job[u].gen \in Nat
      BY <1>2, Tasks, Fields DEF SubInv, Jobs, TypeOK
    <2>2. CASE u = t
      <3>1. Proper(t, job'[t])
        BY <1>5 DEF Proper, InLock, Holding
      <3> QED BY <1>5, <1>7, <2>1, <2>2, <3>1
    <2>3. CASE u # t
      <3>1. job'[u] = job[u]
        BY <1>5, <2>3 DEF Elsewhere
      <3> QED BY <1>7, <2>1, <3>1
    <2> QED BY <2>2, <2>3
  <1>11. \A u \in Task : Due(u)' => Due(u) /\ u # t
    <2>1. ~Able(t)
      BY <1>2 DEF Able
    <2> QED BY <1>3, <2>1 DEF SubInv, Schedule, Due
  <1>12. Schedule'
    <2>1. \A u \in Task : Due(u)' => Able(u)'
      <3> SUFFICES ASSUME NEW u \in Task, Due(u), u # t PROVE Able(u)'
        BY <1>11
      <3>1. Able(u) /\ job'[u] = job[u]
        BY <1>5 DEF SubInv, Schedule, Elsewhere
      <3> QED BY <1>3, <3>1 DEF Able
    <2>2. \A d \in Conn : \A u \in Elements(putters[d]) : ~Due(u)' /\ Putting(u, d)'
      <3> SUFFICES ASSUME NEW d \in Conn, NEW u \in Elements(putters[d]) PROVE ~Due(u)' /\ Putting(u, d)'
        OBVIOUS
      <3>1. u \in Task /\ ~Due(u) /\ Putting(u, d)
        BY <1>2, TasksIn DEF SubInv, Schedule
      <3>2. u # t
        BY <1>2, <3>1 DEF Putting
      <3> QED BY <1>5, <1>11, <3>1, <3>2 DEF Putting, Elsewhere
    <2> QED BY <1>3, <2>1, <2>2 DEF SubInv, Schedule
  <1>13. Locks'
    <2>1. job[t].pc \notin InLock \cup {"cancelled"} /\ job'[t].pc \notin InLock \cup {"cancelled"}
      BY <1>2, <1>5 DEF InLock, Holding
    <2> QED BY <1>2, <1>3, <1>5, <1>11, <2>1, LocksKept DEF SubInv
  <1>14. Linked'
    <2>1. \A u \in Task : Owner(u) \in Conn
      BY Tasks
    <2> QED BY <1>5, <1>8, <2>1 DEF SubInv, Linked, Elsewhere
  <1>15. Table'
    <2> SUFFICES ASSUME NEW d \in Conn, generation'[d] = 0, NEW u \in Task PROVE Row(u, d)'
      BY DEF Table
    <2>1. Row(u, d) /\ (d \in subscribed => d \in subscribed') /\ (d \in subscribed' => d \in subscribed)
      BY <1>4, <1>7 DEF SubInv, Table
    <2>2. lockOf'[d] = lockOf[d] /\ (link'[d] = "open" => link[d] = "open")
      BY <1>4, <1>8
    <2>3. CASE u = t
      BY <1>5, <2>3 DEF Row, Broadcasts, InLock, Holding
    <2>4. CASE u # t
      <3>1. job'[u] = job[u]
        BY <1>5, <2>4 DEF Elsewhere
      <3> QED BY <2>1, <2>2, <3>1 DEF Row, Broadcasts
    <2> QED BY <2>3, <2>4
  <1>16. Order'
    <2>1. \A u \in Task : job'[u].pc = "room" => job'[u] = job[u]
      BY <1>5 DEF Elsewhere
    <2> QED BY <1>2, <1>3, <1>4, <1>7, <2>1, OrderForgets DEF SubInv
  <1>17. Asked'
    <2>1. ASSUME NEW d \in Conn, job'[Loop(d)].pc = "wait" PROVE d \in wants'
      <3>1. Loop(d) \in Task /\ Loop(d) # t
        BY <1>5, <2>1, Tasks
      <3> QED BY <1>3, <1>5, <2>1, <3>1 DEF SubInv, Asked, Elsewhere
    <2>2. ASSUME NEW d \in Conn, link'[d] = "open", generation'[d] <= 1, d \notin wants'
          PROVE  d \notin subscribed' /\ \A u \in Task : Quiet(u, d)'
      <3>1. d \notin subscribed /\ \A u \in Task : Quiet(u, d)
        BY <1>3, <1>7, <1>8, <2>2 DEF SubInv, Asked
      <3>2. ASSUME NEW u \in Task PROVE Quiet(u, d)'
        <4>1. CASE u = t
          BY <1>5, <4>1 DEF Quiet
        <4>2. CASE u # t
          <5>1. job'[u] = job[u] /\ Quiet(u, d) /\ job[u].gen \in Nat
            BY <1>2, <1>5, <3>1, <4>2, Fields DEF TypeOK, Elsewhere
          <5> QED BY <1>7, <5>1 DEF Quiet
        <4> QED BY <4>1, <4>2
      <3> QED BY <1>4, <3>1, <3>2
    <2> QED BY <2>1, <2>2 DEF Asked
  <1> QED BY <1>9, <1>10, <1>12, <1>13, <1>14, <1>15, <1>16, <1>17 DEF SubInv

LEMMA RunCanceledKeeps ==
    ASSUME SubInv, NEW c \in Conn, RunCanceled(c)
    PROVE  SubInv'
  <1> DEFINE t == Loop(c)
  <1>1. t \in Task /\ Kind(t) = "loop" /\ Owner(t) = c /\ t # None /\ \A d \in Conn : t # Stream(d) /\ t \notin Replays(d)
    BY Tasks
  <1> HIDE DEF t
  <1>2. /\ running = None /\ job[t].pc = "wait" /\ ready' = ready
        /\ \/ /\ journal < MaxSeq /\ journal' = journal + 1 /\ exec' = None /\ subscribed' = subscribed \cup {c}
              /\ job' = [job EXCEPT ![t].pc = "each", ![t].event = journal', ![t].rest = subscribed']
              /\ running' = t
           \/ job' = [job EXCEPT ![t] = Off] /\ running' = None /\ UNCHANGED <<journal, exec, subscribed>>
        /\ UNCHANGED <<buffer, cursor, generation, lockOf, holder, waiters, queue, putters, sender, got, known, link,
                       reads, silent, wants, asked>>
    BY DEF RunCanceled, Ends, t, lockVars, outVars, linkVars, clientVars
  <1>3. /\ TypeOK /\ Proper(t, job[t]) /\ job[t] \in Job /\ job \in [Task -> Job] /\ journal \in Nat
        /\ generation[c] \in Nat /\ subscribed \subseteq Conn /\ job[t].gen <= generation[c]
    <2>1. TypeOK
      BY DEF SubInv
    <2>2. Proper(t, job[t]) /\ job[t].gen <= generation[c]
      BY <1>1 DEF SubInv, Jobs
    <2>3. job \in [Task -> Job] /\ generation[c] \in Nat /\ subscribed \subseteq Conn /\ journal \in 0..MaxSeq
      BY <2>1 DEF TypeOK
    <2>4. journal \in Nat /\ job[t] \in Job
      BY <1>1, <2>3
    <2> QED BY <2>1, <2>2, <2>3, <2>4
  <1>4. job[t].lock = 0 /\ c \in wants /\ ~Due(t) /\ \A d \in Conn : t \notin Elements(putters[d])
    <2>1. job[t].lock = 0 /\ ~Able(t) /\ \A d \in Conn : ~Putting(t, d)
      BY <1>1, <1>2, <1>3 DEF Proper, Able, Putting, InLock, Holding
    <2>2. c \in wants
      BY <1>2 DEF SubInv, Asked, t
    <2> QED BY <1>1, <2>1, <2>2 DEF SubInv, Schedule
  <1>5. /\ job' \in [Task -> Job] /\ Elsewhere(t) /\ job'[t].lock = 0 /\ job'[t].gen <= generation[c]
        /\ subscribed \subseteq subscribed' /\ subscribed' \subseteq subscribed \cup {c} /\ journal' \in 0..MaxSeq
        /\ exec' \in Conn \cup {None} /\ job'[t].rest \subseteq subscribed'
        /\ \/ job'[t].pc = "each" /\ job'[t].event # 0 /\ running' = t
           \/ job'[t].pc = "off" /\ running' = None
    <2>1. CASE /\ journal < MaxSeq /\ journal' = journal + 1 /\ exec' = None /\ subscribed' = subscribed \cup {c}
               /\ job' = [job EXCEPT ![t].pc = "each", ![t].event = journal', ![t].rest = subscribed']
               /\ running' = t
      <3>1. PICK e, s : e = journal' /\ s = subscribed'
        OBVIOUS
      <3>2. e \in 0..MaxSeq /\ e # 0 /\ s \subseteq Conn
        BY <1>3, <2>1, <3>1, SubscriptionFacts
      <3> DEFINE r == [job[t] EXCEPT !.pc = "each", !.event = e, !.rest = s]
      <3>3. r \in Job
        BY <1>3, <3>2 DEF Job
      <3>4. job' = [job EXCEPT ![t] = r]
        BY <2>1, <3>1
      <3>5. r.pc = "each" /\ r.event = e /\ r.rest = s /\ r.lock = job[t].lock /\ r.gen = job[t].gen
        BY <1>3 DEF Job
      <3> HIDE DEF r
      <3>6. job' \in [Task -> Job] /\ job'[t] = r /\ Elsewhere(t)
        BY <1>1, <1>3, <3>3, <3>4, JobPut
      <3> QED BY <1>3, <1>4, <2>1, <3>1, <3>2, <3>5, <3>6
    <2>2. CASE job' = [job EXCEPT ![t] = Off] /\ running' = None /\ UNCHANGED <<journal, exec, subscribed>>
      <3>1. /\ job' \in [Task -> Job] /\ Elsewhere(t) /\ job'[t].pc = "off" /\ job'[t].rest = {}
            /\ job'[t].lock = 0 /\ job'[t].gen = 0
        BY <1>1, <1>3, <2>2, OffSet
      <3>2. journal \in 0..MaxSeq /\ exec \in Conn \cup {None}
        BY <1>3 DEF TypeOK
      <3> QED BY <1>3, <2>2, <3>1, <3>2
    <2> QED BY <1>2, <2>1, <2>2
  <1>6. TypeOK'
    <2>1. subscribed' \subseteq Conn /\ running' \in Task \cup {None}
      BY <1>1, <1>3, <1>5
    <2> QED BY <1>2, <1>3, <1>5, <2>1 DEF TypeOK
  <1>7. Proper(t, job'[t])
    BY <1>1, <1>5 DEF Proper, InLock, Holding
  <1>8. Jobs'
    BY <1>1, <1>2, <1>5, <1>7, JobsKept DEF SubInv
  <1>9. \A u \in Task : Due(u)' => (u = t /\ job'[t].pc = "each") \/ (Due(u) /\ u # t)
    BY <1>2, <1>4, <1>5, Tasks DEF Due
  <1>10. Schedule'
    <2>1. \A u \in Task : Due(u)' => Able(u)'
      <3> SUFFICES ASSUME NEW u \in Task, Due(u)' PROVE Able(u)'
        OBVIOUS
      <3>1. CASE u = t /\ job'[t].pc = "each"
        BY <3>1 DEF Able
      <3>2. CASE Due(u) /\ u # t
        <4>1. Able(u) /\ job'[u] = job[u]
          BY <1>5, <3>2 DEF SubInv, Schedule, Elsewhere
        <4> QED BY <1>2, <4>1 DEF Able
      <3> QED BY <1>9, <3>1, <3>2
    <2>2. \A d \in Conn : \A u \in Elements(putters[d]) : ~Due(u)' /\ Putting(u, d)'
      <3> SUFFICES ASSUME NEW d \in Conn, NEW u \in Elements(putters[d]) PROVE ~Due(u)' /\ Putting(u, d)'
        OBVIOUS
      <3>1. u \in Task /\ ~Due(u) /\ Putting(u, d) /\ u # t
        BY <1>3, <1>4, TasksIn DEF SubInv, Schedule
      <3> QED BY <1>5, <1>9, <3>1 DEF Putting, Elsewhere
    <2>3. running' \notin Elements(ready')
      <3>1. None \notin Elements(ready) /\ t \notin Elements(ready)
        BY <1>3, <1>4, TasksIn, Tasks DEF Due
      <3> QED BY <1>2, <1>5, <3>1
    <2> QED BY <1>2, <2>1, <2>2, <2>3 DEF SubInv, Schedule
  <1>11. Locks'
    <2>1. job[t].pc \notin InLock \cup {"cancelled"} /\ job'[t].pc \notin InLock \cup {"cancelled"}
      BY <1>2, <1>5 DEF InLock, Holding
    <2>2. \A u \in Task : Due(u)' /\ job'[u].pc = "lock" => Due(u)
      BY <1>9
    <2> QED BY <1>1, <1>2, <1>3, <1>5, <2>1, <2>2, LocksKept DEF SubInv
  <1>12. Linked'
    BY <1>1, <1>2, <1>5, LinkedKept DEF SubInv
  <1>13. Table'
    <2> SUFFICES ASSUME NEW d \in Conn, generation[d] = 0, NEW u \in Task PROVE Row(u, d)'
      BY <1>2 DEF Table
    <2>1. Row(u, d)
      BY DEF SubInv, Table
    <2>2. CASE u = t
      BY <1>5, <2>2 DEF Row, InLock, Holding
    <2>3. CASE u # t
      <3>1. job'[u] = job[u]
        BY <1>5, <2>3 DEF Elsewhere
      <3>2. /\ job[u].to = d /\ job[u].pc \in {"in", "room", "exit"} => d \in subscribed'
            /\ Broadcasts(u) /\ (d \in job[u].rest \/ (job[u].to = d /\ job[u].lock # 0)) => d \in subscribed'
        BY <1>5, <2>1 DEF Row
      <3>3. ASSUME d \in subscribed' \/ link[d] = "open", job[u].to = d, job[u].pc \in InLock
            PROVE  job[u].lock = lockOf[d]
        <4>1. CASE d \in subscribed \/ link[d] = "open"
          BY <2>1, <3>3, <4>1 DEF Row
        <4>2. CASE d \notin subscribed /\ link[d] # "open"
          <5>1. Proper(u, job[u]) /\ d = c /\ Owner(u) \in Conn
            BY <1>5, <3>3, <4>2, Tasks DEF SubInv, Jobs
          <5>2. job[u].lock # 0 /\ ~Broadcasts(u)
            BY <2>1, <3>3, <4>2, <5>1 DEF Row, Proper
          <5>3. CASE Kind(u) = "loop"
            BY <2>3, <3>3, <5>1, <5>2, <5>3, Tasks DEF Proper, Broadcasts, t
          <5>4. CASE Kind(u) = "replay"
            <6>1. Owner(u) = d
              BY <3>3, <5>1, <5>4 DEF Proper, InLock, Holding
            <6>2. job[u].pc \in {"off", "cancelled"}
              BY <4>2, <5>4, <6>1 DEF SubInv, Linked
            <6> QED BY <3>3, <6>2 DEF InLock, Holding
          <5>5. Kind(u) # "beat" /\ Kind(u) # "stream"
            BY <5>1, <5>2 DEF Proper, Broadcasts
          <5> QED BY <5>3, <5>4, <5>5, Tasks
        <4> QED BY <4>1, <4>2
      <3> QED BY <1>2, <3>1, <3>2, <3>3 DEF Row, Broadcasts
    <2> QED BY <2>2, <2>3
  <1>14. Order'
    <2>1. job'[t].pc # "room"
      BY <1>5
    <2> QED BY <1>1, <1>2, <1>5, <2>1, OrderKept DEF SubInv
  <1>15. Asked'
    <2>1. \A d \in Conn : Quiet(t, d)'
      BY <1>1, <1>5 DEF Quiet
    <2>2. job'[t].pc # "wait" /\ wants \subseteq wants' /\ \A d \in Conn : d \in subscribed' /\ d \notin wants' => d \in subscribed
      BY <1>2, <1>4, <1>5
    <2> QED BY <1>1, <1>2, <1>5, <2>1, <2>2, AskedKept DEF SubInv
  <1> QED BY <1>6, <1>8, <1>10, <1>11, <1>12, <1>13, <1>14, <1>15 DEF SubInv

-----------------------------------------------------------------------------
(* All of it together.                                                       *)
LEMMA InitInv == Init => SubInv
  <1> SUFFICES ASSUME Init PROVE SubInv
    OBVIOUS
  <1>1. /\ generation = [c \in Conn |-> 0] /\ job = [t \in Task |-> Off] /\ ready = <<>> /\ running = None
        /\ holder = [l \in Lock |-> None] /\ waiters = [l \in Lock |-> <<>>]
        /\ queue = [c \in Conn |-> <<>>] /\ putters = [c \in Conn |-> <<>>] /\ got = [c \in Conn |-> <<>>]
        /\ link = [c \in Conn |-> "open"] /\ subscribed = {} /\ cursor = [c \in Conn |-> 0]
    BY DEF Init
  <1>2. TypeOK
    <2>1. 0 \in 0..MaxSeq /\ 0 \in 0..MaxRequests /\ 0 <= QueueSize + 1 /\ Len(<<>>) = 0
      BY SubscriptionFacts
    <2>2. job \in [Task -> Job]
      BY <1>1, OffIsJob
    <2> QED BY <1>1, <2>1, <2>2 DEF Init, TypeOK
  <1>3. \A t \in Task : job[t] = Off /\ job[t].pc = "off" /\ job[t].lock = 0 /\ job[t].gen = 0 /\ job[t].rest = {}
    BY <1>1, OffIsJob
  <1>4. Jobs
    <2>1. \A t \in Task : Proper(t, job[t])
      BY <1>3 DEF Proper, InLock, Holding
    <2>2. \A t \in Task : generation[Owner(t)] = 0
      BY <1>1, Tasks
    <2> QED BY <1>3, <2>1, <2>2 DEF Jobs
  <1>5. Elements(<<>>) = {} /\ Distinct(<<>>)
    BY DEF Elements, Distinct
  <1>6. Schedule
    BY <1>1, <1>5, Tasks DEF Schedule, Due
  <1>7. Locks
    BY <1>1, <1>3, <1>5 DEF Locks, Holding
  <1>8. Linked
    <2>1. \A t \in Task : link[Owner(t)] = "open"
      BY <1>1, Tasks
    <2> QED BY <1>3, <2>1 DEF Linked
  <1>9. Table
    BY <1>3 DEF Table, Row, InLock, Holding
  <1>10. Order
    <2>1. \A c \in Conn : got[c] = <<>> /\ queue[c] = <<>> /\ Len(<<>>) = 0
      BY <1>1
    <2>2. \A k : InOrder(<<>>, <<>>, k)
      BY DEF InOrder, Increasing
    <2> QED BY <1>3, <2>1, <2>2 DEF Order, Nothing
  <1>11. Asked
    BY <1>1, <1>3, Tasks DEF Asked, Quiet
  <1> QED BY <1>2, <1>4, <1>6, <1>7, <1>8, <1>9, <1>10, <1>11 DEF SubInv

LEMMA NextKeeps == SubInv /\ [Next]_vars => SubInv'
  <1> SUFFICES ASSUME SubInv, [Next]_vars PROVE SubInv'
    OBVIOUS
  <1>1. ASSUME NEW t \in Task, Runs(t) PROVE SubInv'
    <2>1. CASE GetsLock(t) \/ NextTarget(t) \/ BroadcastEnters(t) \/ ReplayEnters(t) \/ UnsubscribeEnters(t)
      BY <2>1, GetsLockKeeps, NextTargetKeeps, BroadcastEntersKeeps, ReplayEntersKeeps, UnsubscribeEntersKeeps
    <2>2. CASE SendUnderLock(t) \/ AllSent(t) \/ Leave(t) \/ Tell(t) \/ TaskStarts(t) \/ Cancelled(t) \/ CloseEnqueues(t)
      BY <2>2, SendUnderLockKeeps, AllSentKeeps, LeaveKeeps, TellKeeps, TaskStartsKeeps, CancelledKeeps, CloseEnqueuesKeeps
    <2>3. CASE \E c \in Conn : t = Stream(c) /\ (StreamStarts(c) \/ NextEvent(c))
      BY <2>3, StreamStartsKeeps, NextEventKeeps
    <2>4. CASE \E c \in Conn : t = Beat(c) /\ BeatRuns(c)
      BY <2>4, BeatRunsKeeps
    <2> QED BY <1>1, <2>1, <2>2, <2>3, <2>4 DEF Runs
  <1>2. ASSUME NEW c \in Conn, Client(c) PROVE SubInv'
    BY <1>2, StartStreamKeeps, SubscribeKeeps, UnsubscribeKeeps, CancelRunKeeps, DisconnectKeeps, FallsSilentKeeps DEF Client
  <1>3. ASSUME NEW c \in Conn, Deliver(c) \/ SendFails(c) \/ Tick(c) \/ TimesOut(c) \/ Closes(c) \/ RunCanceled(c) PROVE SubInv'
    <2>1. CASE Closes(c)
      <3>1. PICK t \in {Loop(c), Beat(c)} : Closed(t)
        BY <2>1 DEF Closes
      <3>2. t \in Task /\ Kind(t) \in {"loop", "beat"}
        BY Tasks
      <3> QED BY <3>1, <3>2, ClosedKeeps
    <2> QED BY <1>3, <2>1, DeliverKeeps, SendFailsKeeps, TickKeeps, TimesOutKeeps, RunCanceledKeeps
  <1>4. CASE Progress \/ Settle
    BY <1>4, ProgressKeeps
  <1>5. CASE Dispatch
    BY <1>5, DispatchKeeps
  <1>6. CASE UNCHANGED vars
    <2>1. UNCHANGED <<runVars, subVars, lockVars, outVars, linkVars, wants, job, running, ready, reads, silent, asked>>
      BY <1>6 DEF vars, clientVars
    <2> QED BY <2>1, ClientKept DEF SubInv, TypeOK
  <1> QED BY <1>1, <1>2, <1>3, <1>4, <1>5, <1>6 DEF Next, System, Step

(* The tasks, the locks, the queues and the cursors have their values:       *)
(* always, for any connections, subscriptions, events and queue.             *)
THEOREM SubscriptionsTyped == Spec => []TypeOK
  <1>1. SubInv => TypeOK
    BY DEF SubInv
  <1> QED BY <1>1, InitInv, NextKeeps, PTL DEF Spec

(* Until it unsubscribes a client gets every event at most once and in order, *)
(* however broadcasts, replays, cancellations and closing connections meet    *)
(* (_send_subscription_message, replay_run).                                  *)
THEOREM EventsInOrder == Spec => []OnceInOrderAtFirst
  <1>1. SubInv => OnceInOrderAtFirst
    BY DEF SubInv, Order, InOrder, OnceInOrderAtFirst
  <1> QED BY <1>1, InitInv, NextKeeps, PTL DEF Spec

(* What is put last in a queue.                                              *)
LEMMA LastPut ==
    ASSUME TypeOK, NEW c \in Conn, NEW d \in Conn, NEW m, Put(c, m), Len(queue'[d]) > Len(queue[d])
    PROVE  d = c /\ Last(queue'[d]) = m
  <1>1. queue \in [Conn -> Seq(Message)] /\ queue[d] \in Seq(Message) /\ Len(queue[d]) \in Nat
    <2>1. queue \in [Conn -> Seq(Message)]
      BY DEF TypeOK
    <2>2. queue[d] \in Seq(Message)
      BY <2>1
    <2> QED BY <2>1, <2>2
  <1>2. queue' = [queue EXCEPT ![c] = Append(queue[c], m)]
    BY DEF Put
  <1>3. d # c => queue'[d] = queue[d]
    BY <1>1, <1>2
  <1>4. d = c
    BY <1>1, <1>3
  <1>5. queue'[d] = Append(queue[d], m)
    BY <1>1, <1>2, <1>4
  <1>6. Last(Append(queue[d], m)) = m
    <2>1. Len(Append(queue[d], m)) = Len(queue[d]) + 1 /\ Append(queue[d], m)[Len(queue[d]) + 1] = m
      BY <1>1
    <2> QED BY <2>1 DEF Last
  <1> QED BY <1>4, <1>5, <1>6

(* A queue that loses a message does not grow.                               *)
LEMMA NoneAfterTaking ==
    ASSUME TypeOK, NEW c \in Conn, NEW d \in Conn, queue[c] # <<>>, queue' = [queue EXCEPT ![c] = Tail(queue[c])]
    PROVE  ~(Len(queue'[d]) > Len(queue[d]))
  <1>1. queue \in [Conn -> Seq(Message)] /\ queue[d] \in Seq(Message) /\ queue[c] \in Seq(Message)
    BY DEF TypeOK
  <1>2. Len(Tail(queue[c])) = Len(queue[c]) - 1 /\ Len(queue[c]) \in Nat /\ Len(queue[d]) \in Nat
    BY <1>1, Taking
  <1>3. queue'[d] = IF d = c THEN Tail(queue[c]) ELSE queue[d]
    BY <1>1
  <1> QED BY <1>2, <1>3

(* An event is only sent by a task that holds the lock, and to a connection   *)
(* that asked.                                                               *)
LEMMA SentUnderLock ==
    ASSUME SubInv, Next, NEW c \in Conn, generation[c] <= 1
    PROVE  ~Unasked(c)
  <1> SUFFICES ASSUME link[c] = "open", Len(queue'[c]) > Len(queue[c]), IsEvent(Last(queue'[c])), c \notin wants
               PROVE  FALSE
    BY DEF Unasked
  <1>1. TypeOK /\ Len(queue[c]) \in Nat
    <2>1. TypeOK
      BY DEF SubInv
    <2>2. queue[c] \in Seq(Message)
      BY <2>1 DEF TypeOK
    <2> QED BY <2>1, <2>2
  <1>2. queue' # queue
    BY <1>1
  <1>3. ASSUME NEW t \in Task, SendUnderLock(t) PROVE FALSE
    <2>1. job[t].pc \in {"in", "room"} /\ job[t].todo # <<>> /\ Put(job[t].to, Head(job[t].todo)) /\ running = t
      BY <1>2, <1>3 DEF SendUnderLock, At
    <2>2. job[t].to \in Conn /\ Quiet(t, c)
      BY <2>1, Running DEF Proper, InLock, Holding
    <2>3. job[t].to = c
      BY <1>1, <2>1, <2>2, LastPut
    <2> QED BY <2>1, <2>2, <2>3 DEF Quiet
  <1>4. ASSUME NEW t \in Task, Tell(t) PROVE FALSE
    <2>1. job[t].pc \in {"tell", "tellRoom"} /\ Put(Owner(t), Head(job[t].todo)) /\ running = t
      BY <1>2, <1>4 DEF Tell, At
    <2>2. Owner(t) \in Conn /\ ~IsEvent(Head(job[t].todo))
      BY <2>1, Running DEF Proper
    <2> QED BY <1>1, <2>1, <2>2, LastPut
  <1>5. ASSUME NEW t \in Task, CloseEnqueues(t) PROVE FALSE
    <2>1. job[t].pc = "close" /\ Put(job[t].to, Say("end")) /\ running = t
      BY <1>2, <1>5 DEF CloseEnqueues, At
    <2>2. job[t].to \in Conn /\ ~IsEvent(Say("end"))
      BY <2>1, Running, Messages DEF Proper
    <2> QED BY <1>1, <2>1, <2>2, LastPut
  <1>6. ASSUME NEW d \in Conn, Deliver(d) \/ SendFails(d) PROVE FALSE
    <2>1. queue[d] # <<>> /\ queue' = [queue EXCEPT ![d] = Tail(queue[d])]
      BY <1>6 DEF Deliver, SendFails
    <2> QED BY <1>1, <2>1, NoneAfterTaking
  <1>7. ASSUME NEW t \in Task, Runs(t) PROVE FALSE
    <2>1. CASE GetsLock(t) \/ NextTarget(t) \/ BroadcastEnters(t) \/ ReplayEnters(t) \/ UnsubscribeEnters(t)
      BY <1>2, <2>1 DEF GetsLock, NextTarget, BroadcastEnters, ReplayEnters, UnsubscribeEnters, outVars
    <2>2. CASE AllSent(t) \/ Leave(t) \/ TaskStarts(t) \/ Cancelled(t)
      BY <1>2, <2>2 DEF AllSent, Leave, TaskStarts, Cancelled, outVars
    <2>3. CASE \E d \in Conn : (t = Stream(d) /\ (StreamStarts(d) \/ NextEvent(d))) \/ (t = Beat(d) /\ BeatRuns(d))
      BY <1>2, <2>3 DEF StreamStarts, NextEvent, BeatRuns, outVars
    <2> QED BY <1>3, <1>4, <1>5, <1>7, <2>1, <2>2, <2>3, SMTT(60) DEF Runs
  <1>8. ASSUME NEW d \in Conn, Client(d) PROVE FALSE
    BY <1>2, <1>8 DEF Client, StartStream, Subscribe, Unsubscribe, CancelRun, Disconnect, FallsSilent, outVars
  <1>9. ASSUME NEW d \in Conn, Tick(d) \/ TimesOut(d) \/ Closes(d) \/ RunCanceled(d) PROVE FALSE
    BY <1>2, <1>9 DEF Tick, TimesOut, Closes, Closed, RunCanceled, outVars
  <1>10. ~Dispatch /\ ~Progress /\ ~Settle
    BY <1>2 DEF Dispatch, Progress, Settle, Emit, outVars
  <1> QED BY <1>6, <1>7, <1>8, <1>9, <1>10 DEF Next, System, Step

(* Once a client unsubscribed, no event is sent to it until it asks again,    *)
(* whatever replay or broadcast was under way, up to its second               *)
(* unsubscription (unsubscribe_run, replay_run, broadcast_run).               *)
THEOREM NothingIsSentUnasked == Spec => NothingUnaskedAtFirst
  <1>1. SubInv /\ [Next]_vars => [\A c \in Conn : generation[c] <= 1 => ~Unasked(c)]_vars
    BY SentUnderLock
  <1> QED BY <1>1, InitInv, NextKeeps, PTL DEF Spec, NothingUnaskedAtFirst

===============================================================================
