-------------------------- MODULE AgentRunLoop_proofs --------------------------
(* Proofs about AgentRunLoop for any ids, tools, responses, rounds and cuts:  *)
(* a tool that must not be replayed is executed once, an outcome is not       *)
(* followed by another execution, and a sensitive tool runs only when an      *)
(* operator approved the call in its round.                                   *)
EXTENDS AgentRunLoop, FiniteSetTheorems, WellFoundedInduction, TLAPS

-----------------------------------------------------------------------------
(* The inductive invariant.                                                  *)

CallsOf(s) == {s.calls[i] : i \in 1..Len(s.calls)}
Elements(seq) == {seq[i] : i \in 1..Len(seq)}

(* What an attempt that is not the last of its call may be: it returned      *)
(* nothing, unless an operator says so, and may be made again.               *)
Superseded(a) ==
  /\ a.status \in {"STARTED", "UNKNOWN"} \/ (a.status = "COMPLETED" /\ a.resolution = "confirmed")
  /\ a.resolution = "retry" \/ a.tool \notin NonReplayable

(* The attempts at an id are made in the order of the rounds, with one tool  *)
(* in each; all but the last in a round are superseded.                      *)
AttemptsOrdered ==
  \A id \in Ids : \A m, n \in DOMAIN ledger[id] :
    m < n => /\ ledger[id][m].round <= ledger[id][n].round
             /\ ledger[id][m].round = ledger[id][n].round =>
                  Superseded(ledger[id][m]) /\ ledger[id][m].tool = ledger[id][n].tool

(* The row knows the round of every attempt, and the response it is from.    *)
AttemptsOfRow ==
  \A id \in Ids : \A n \in DOMAIN ledger[id] :
    /\ ledger[id][n].round <= row.round
    /\ ledger[id][n].round = row.round => [id |-> id, tool |-> ledger[id][n].tool] \in CallsOf(row)

Begun(k) == {n \in AttemptsOf(ledger, k[2], k[1]) : ledger[k[2]][n].status # "SCHEDULED"}

(* Each execution of a call has an attempt that says it has begun.           *)
ExecutionsRecorded == \A k \in Keys : execs[k] <= Cardinality(Begun(k))

LedgerInv == AttemptsOrdered /\ AttemptsOfRow /\ ExecutionsRecorded

(* A later snapshot of the run: another round, or the same response.         *)
Follows(s, t) == t.round >= s.round /\ (t.round = s.round => t.calls = s.calls)

(* Where the calls of the current response are handled, and where the first  *)
(* of them is about to be executed.                                          *)
Resting(places) == next \in places /\ (pc = "yield" \/ (pc = "save" /\ mem.status = "RUNNING"))
Handling  == pc \in {"loop", "go", "ledger", "begin", "tool", "report"} \/ Resting({"loop", "go", "ledger"})
AtCall    == pc \in {"go", "ledger", "begin", "tool", "report"} \/ Resting({"go", "ledger"})
Cleared   == pc \in {"ledger", "begin"} \/ Resting({"ledger"})

(* The execution works on what its row says, and on calls of its response.   *)
ExecutionInv ==
  /\ pc \notin {"none", "save"} => mem.round = row.round /\ mem.calls = row.calls
  /\ pc = "save" => Follows(row, mem)
  /\ Handling => Elements(todo) \subseteq CallsOf(mem)
  /\ AtCall => todo # <<>>
  /\ Elements(row.waiting) \subseteq CallsOf(row)
  /\ Elements(mem.waiting) \subseteq CallsOf(mem)

(* The events a snapshot is restored from name their calls, and a run that    *)
(* ends has the status it will end with.                                      *)
Named == {e \in Event : e.type \in {"done", "failed", "requested"} => e.id \in Ids}
EndInv ==
  /\ tail \in Seq(Named)
  /\ pc \in {"commit", "memory", "stop"} \/ Resting({"stop"}) => fate \in Terminal

(* The attempt that is about to be executed, or is.                          *)
LastIs(status) ==
  /\ ledger[Current.id] # <<>>
  /\ Last(ledger[Current.id]).status = status
  /\ Last(ledger[Current.id]).round = mem.round
AttemptInv ==
  /\ pc = "begin" => LastIs("SCHEDULED")
  /\ pc = "tool" => LastIs("STARTED")

(* Approvals come from operators, and a sensitive tool that is going to be   *)
(* executed has one.                                                         *)
ApprovedBy(s) == \A k \in Keys : s.approvals[k] = "approved" => k \in granted
ApprovalInv ==
  /\ ApprovedBy(row) /\ ApprovedBy(mem)
  /\ Cleared /\ Current.tool \in Sensitive => <<mem.round, Current.id>> \in granted
  /\ ExecutionsApproved

LoopInv == TypeOK /\ LedgerInv /\ ExecutionInv /\ EndInv /\ AttemptInv /\ ApprovalInv

-----------------------------------------------------------------------------
(* Numbers, and what the recursive functions compute.                        *)

LEMMA LeastOfNaturals ==
    ASSUME NEW S \in SUBSET Nat, S # {}
    PROVE  \E x \in S : \A y \in S : x <= y
  <1>1. PICK x \in S : \A y \in S : ~(<<y, x>> \in OpToRel(<, Nat))
    BY WFMin, NatLessThanWellFounded
  <1>2. ASSUME NEW y \in S PROVE x <= y
    <2>1. <<y, x>> \in Nat \X Nat
      OBVIOUS
    <2>2. ~(y < x)
      BY <1>1, <2>1 DEF OpToRel
    <2> QED BY <2>2
  <1> QED BY <1>2

LEMMA MaxOfIndices ==
    ASSUME NEW n \in Nat, NEW S \in SUBSET (1..n), S # {}
    PROVE  Max(S) \in S /\ \A x \in S : x <= Max(S)
  <1> DEFINE T == {y \in Nat : n - y \in S}
  <1>1. \A x \in S : x \in 1..n /\ n - x \in Nat /\ n - (n - x) = x
    OBVIOUS
  <1>2. T # {} /\ T \in SUBSET Nat
    BY <1>1
  <1>3. PICK y \in T : \A z \in T : y <= z
    BY <1>2, LeastOfNaturals
  <1>4. \A x \in S : x <= n - y
    BY <1>1, <1>3
  <1>5. n - y \in S /\ \A x \in S : n - y >= x
    BY <1>1, <1>3, <1>4
  <1> QED BY <1>5 DEF Max

(* Induction, for the set of the numbers that have a property.               *)
LEMMA Induction ==
    ASSUME NEW n \in Nat, NEW S, 0 \in S, \A m \in 1..n : m - 1 \in S => m \in S
    PROVE  0..n \subseteq S
  <1> DEFINE T == {m \in 0..n : m \notin S}
  <1> SUFFICES ASSUME T # {} PROVE FALSE
    OBVIOUS
  <1>1. PICK m \in T : \A k \in T : m <= k
    <2>1. T \in SUBSET Nat
      OBVIOUS
    <2> HIDE DEF T
    <2> QED BY <2>1, LeastOfNaturals
  <1>2. m \in 1..n /\ m - 1 \in 0..n /\ ~(m <= m - 1)
    BY <1>1
  <1>3. m - 1 \in S
    BY <1>1, <1>2
  <1> QED BY <1>1, <1>2, <1>3

(* Recovery goes through the events one after the other.                     *)
LEMMA RestoredChain ==
    ASSUME NEW s, NEW E, tail \in Seq(E)
    PROVE  \E after : /\ after[0] = s /\ Restored(s) = after[Len(tail)]
                     /\ \A n \in 1..Len(tail) : after[n] = Apply(after[n - 1], tail[n])
  <1> DEFINE Chain(g, m) == g = [n \in 0..m |-> IF n = 0 THEN s ELSE Apply(g[n - 1], tail[n])]
             after[n \in 0..Len(tail)] == IF n = 0 THEN s ELSE Apply(after[n - 1], tail[n])
             Chained == {m \in Nat : \E g : Chain(g, m)}
  <1>0. Len(tail) \in Nat
    OBVIOUS
  <1>1. 0 \in Chained
    <2>1. Chain([n \in 0..0 |-> s], 0)
      OBVIOUS
    <2> QED BY <2>1
  <1>2. \A m \in 1..Len(tail) : m - 1 \in Chained => m \in Chained
    <2> SUFFICES ASSUME NEW m \in 1..Len(tail), m - 1 \in Chained PROVE m \in Nat /\ \E f : Chain(f, m)
      OBVIOUS
    <2>1. PICK g : Chain(g, m - 1)
      OBVIOUS
    <2> DEFINE h == [n \in 0..m |-> IF n = m THEN Apply(g[m - 1], tail[m]) ELSE g[n]]
    <2>2. \A n \in 0..m : h[n] = IF n = 0 THEN s ELSE Apply(h[n - 1], tail[n])
      <3> TAKE n \in 0..m
      <3>1. CASE n = m
        BY <3>1
      <3>2. CASE n # m
        <4>1. n \in 0..(m - 1) /\ h[n] = g[n]
          BY <3>2
        <4>2. g[n] = IF n = 0 THEN s ELSE Apply(g[n - 1], tail[n])
          BY <2>1, <4>1
        <4>3. n # 0 => h[n - 1] = g[n - 1]
          BY <4>1
        <4> QED BY <4>1, <4>2, <4>3
      <3> QED BY <3>1, <3>2
    <2>3. Chain(h, m)
      <3>1. h = [n \in 0..m |-> h[n]]
        OBVIOUS
      <3> QED BY <2>2, <3>1
    <2> HIDE DEF h
    <2> QED BY <2>3
  <1>3. after = [n \in 0..Len(tail) |-> IF n = 0 THEN s ELSE Apply(after[n - 1], tail[n])]
    <2>1. 0..Len(tail) \subseteq Chained
      <3> HIDE DEF Chained
      <3> QED BY <1>0, <1>1, <1>2, Induction
    <2>2. \E g : Chain(g, Len(tail))
      BY <1>0, <2>1
    <2> QED BY <2>2
  <1>4. Restored(s) = after[Len(tail)]
    BY DEF Restored
  <1> HIDE DEF after
  <1>5. after[0] = s /\ \A n \in 1..Len(tail) : after[n] = Apply(after[n - 1], tail[n])
    BY <1>0, <1>3
  <1> QED BY <1>4, <1>5

(* Whatever each event preserves, recovery preserves.                        *)
LEMMA RestoredIn ==
    ASSUME NEW X, NEW s \in X, NEW E, tail \in Seq(E), \A x \in X, e \in E : Apply(x, e) \in X
    PROVE  Restored(s) \in X
  <1>0. Len(tail) \in Nat /\ \A n \in 1..Len(tail) : tail[n] \in E
    OBVIOUS
  <1>1. PICK after : /\ after[0] = s /\ Restored(s) = after[Len(tail)]
                     /\ \A n \in 1..Len(tail) : after[n] = Apply(after[n - 1], tail[n])
    BY RestoredChain
  <1> DEFINE S == {n \in Nat : n \in 0..Len(tail) => after[n] \in X}
  <1>2. 0 \in S
    BY <1>0, <1>1
  <1>3. \A n \in 1..Len(tail) : n - 1 \in S => n \in S
    <2> SUFFICES ASSUME NEW n \in 1..Len(tail), n - 1 \in S PROVE n \in S
      OBVIOUS
    <2>1. after[n - 1] \in X /\ tail[n] \in E
      BY <1>0
    <2> QED BY <1>1, <2>1
  <1>4. Len(tail) \in S
    <2>1. 0..Len(tail) \subseteq S
      <3> HIDE DEF S
      <3> QED BY <1>0, <1>2, <1>3, Induction
    <2> QED BY <1>0, <2>1
  <1> QED BY <1>0, <1>1, <1>4

(* The calls of the response are gone through one after the other.           *)
LEMMA NotDoneChain ==
    ASSUME NEW s, NEW D, s.calls \in Seq(D)
    PROVE  \E left : /\ left[0] = <<>> /\ NotDone(s) = left[Len(s.calls)]
                    /\ \A n \in 1..Len(s.calls) :
                         left[n] = IF s.calls[n].id \in s.done THEN left[n - 1]
                                   ELSE Append(left[n - 1], s.calls[n])
  <1> DEFINE Take(f, n) == IF n = 0 THEN <<>>
                           ELSE IF s.calls[n].id \in s.done THEN f[n - 1] ELSE Append(f[n - 1], s.calls[n])
             Chain(g, m) == g = [n \in 0..m |-> Take(g, n)]
             left[n \in 0..Len(s.calls)] ==
               IF n = 0 THEN <<>>
               ELSE IF s.calls[n].id \in s.done THEN left[n - 1] ELSE Append(left[n - 1], s.calls[n])
             Chained == {m \in Nat : \E g : Chain(g, m)}
  <1>0. Len(s.calls) \in Nat
    OBVIOUS
  <1>1. 0 \in Chained
    <2>1. Chain([n \in 0..0 |-> <<>>], 0)
      OBVIOUS
    <2> QED BY <2>1
  <1>2. \A m \in 1..Len(s.calls) : m - 1 \in Chained => m \in Chained
    <2> SUFFICES ASSUME NEW m \in 1..Len(s.calls), m - 1 \in Chained PROVE m \in Nat /\ \E f : Chain(f, m)
      OBVIOUS
    <2>1. PICK g : Chain(g, m - 1)
      OBVIOUS
    <2> DEFINE h == [n \in 0..m |-> IF n = m THEN Take(g, m) ELSE g[n]]
    <2>2. \A n \in 0..m : h[n] = Take(h, n)
      <3> TAKE n \in 0..m
      <3>1. CASE n = m
        BY <3>1
      <3>2. CASE n # m
        <4>1. n \in 0..(m - 1) /\ h[n] = g[n]
          BY <3>2
        <4>2. g[n] = Take(g, n)
          BY <2>1, <4>1
        <4>3. n # 0 => h[n - 1] = g[n - 1]
          BY <4>1
        <4> QED BY <4>1, <4>2, <4>3
      <3> QED BY <3>1, <3>2
    <2>3. Chain(h, m)
      <3>1. h = [n \in 0..m |-> h[n]]
        OBVIOUS
      <3> HIDE DEF h, Take
      <3> QED BY <2>2, <3>1
    <2>4. m \in Nat
      OBVIOUS
    <2> HIDE DEF h, Chain
    <2> QED BY <2>3, <2>4
  <1>3. left = [n \in 0..Len(s.calls) |-> Take(left, n)]
    <2>1. 0..Len(s.calls) \subseteq Chained
      <3> HIDE DEF Chained
      <3> QED BY <1>0, <1>1, <1>2, Induction
    <2>2. \E g : Chain(g, Len(s.calls))
      <3> HIDE DEF Chain
      <3> QED BY <1>0, <2>1
    <2> QED BY <2>2
  <1>4. NotDone(s) = left[Len(s.calls)]
    BY DEF NotDone
  <1> HIDE DEF left
  <1>5. left[0] = <<>> /\ \A n \in 1..Len(s.calls) : left[n] = Take(left, n) /\ n # 0
    <2>1. \A n \in 1..Len(s.calls) : n \in 0..Len(s.calls) /\ n # 0
      BY <1>0
    <2> HIDE DEF Take
    <2>2. left[0] = Take(left, 0) /\ \A n \in 1..Len(s.calls) : left[n] = Take(left, n)
      BY <1>0, <1>3, <2>1
    <2> QED BY <2>1, <2>2 DEF Take
  <1> QED BY <1>4, <1>5

(* The calls that are left are calls of the response.                        *)
LEMMA NotDoneIsPart ==
    ASSUME NEW D, NEW s, s.calls \in Seq(D)
    PROVE  NotDone(s) \in Seq(D) /\ Elements(NotDone(s)) \subseteq CallsOf(s)
  <1> DEFINE C == CallsOf(s)
  <1>0. Len(s.calls) \in Nat /\ \A n \in 1..Len(s.calls) : s.calls[n] \in C /\ s.calls[n] \in D
    BY DEF CallsOf
  <1>1. PICK left : /\ left[0] = <<>> /\ NotDone(s) = left[Len(s.calls)]
                    /\ \A n \in 1..Len(s.calls) :
                         left[n] = IF s.calls[n].id \in s.done THEN left[n - 1]
                                   ELSE Append(left[n - 1], s.calls[n])
    BY NotDoneChain
  <1> DEFINE S == {n \in Nat : n \in 0..Len(s.calls) => left[n] \in Seq(C) /\ left[n] \in Seq(D)}
  <1>2. 0 \in S
    <2>1. <<>> \in Seq(C) /\ <<>> \in Seq(D)
      OBVIOUS
    <2> QED BY <1>0, <1>1, <2>1
  <1>3. \A n \in 1..Len(s.calls) : n - 1 \in S => n \in S
    <2> SUFFICES ASSUME NEW n \in 1..Len(s.calls), n - 1 \in S PROVE n \in S
      OBVIOUS
    <2>1. left[n] = IF s.calls[n].id \in s.done THEN left[n - 1] ELSE Append(left[n - 1], s.calls[n])
      BY <1>1
    <2>2. left[n - 1] \in Seq(C) /\ left[n - 1] \in Seq(D) /\ s.calls[n] \in C /\ s.calls[n] \in D
      BY <1>0
    <2>3. left[n] \in Seq(D)
      BY <2>1, <2>2
    <2>4. left[n] \in Seq(C)
      <3> HIDE DEF C
      <3> QED BY <2>1, <2>2
    <2> QED BY <1>0, <2>3, <2>4
  <1>4. Len(s.calls) \in S
    <2>1. 0..Len(s.calls) \subseteq S
      <3> HIDE DEF S
      <3> QED BY <1>0, <1>2, <1>3, Induction
    <2> QED BY <1>0, <2>1
  <1>5. NotDone(s) \in Seq(C) /\ NotDone(s) \in Seq(D)
    BY <1>0, <1>1, <1>4
  <1>6. Elements(NotDone(s)) \subseteq C
    <2> HIDE DEF C
    <2> QED BY <1>5 DEF Elements
  <1> QED BY <1>5, <1>6

-----------------------------------------------------------------------------
(* The snapshots that the actions make.                                      *)

LEMMA CallTypes == \A r \in Responses \cup {<<>>} : r \in Seq(Call)
  <1>1. \A r \in Responses : r \in Seq(Call)
    BY LoopAssumption
  <1>2. <<>> \in Seq(Call)
    OBVIOUS
  <1> QED BY <1>1, <1>2

LEMMA EventTypes ==
  /\ \A type \in {"started", "memory", "paused"} \cup Terminal : Ev(type) \in Named
  /\ \A type \in {"requested", "decided", "toolStarted", "done", "failed", "paused"} :
       \A id \in Ids : CallEv(type, id) \in Named
  /\ \A r \in Responses, rem \in 0..MaxRounds : ChatEv(r, rem) \in Named
  <1>0. 0 \in 0..MaxRounds
    BY LoopAssumption
  <1>1. ASSUME NEW type \in {"started", "memory", "paused"} \cup Terminal PROVE Ev(type) \in Named
    BY <1>0 DEF Ev, Named, Event, Terminal
  <1>2. ASSUME NEW type \in {"requested", "decided", "toolStarted", "done", "failed", "paused"}, NEW id \in Ids
        PROVE  CallEv(type, id) \in Named
    BY <1>0 DEF Ev, CallEv, Named, Event
  <1>3. ASSUME NEW r \in Responses, NEW rem \in 0..MaxRounds PROVE ChatEv(r, rem) \in Named
    BY <1>0 DEF Ev, ChatEv, Named, Event
  <1> QED BY <1>1, <1>2, <1>3

(* A snapshot with one field changed is a snapshot.                          *)
LEMMA Updates ==
    ASSUME NEW s \in Snapshot
    PROVE  /\ \A x \in Status : [s EXCEPT !.status = x] \in Snapshot
           /\ \A x \in {"none", "resumable", "blocked"} : [s EXCEPT !.pause = x] \in Snapshot
           /\ \A x \in Nat : [s EXCEPT !.round = x] \in Snapshot
           /\ \A x \in Responses \cup {<<>>} : [s EXCEPT !.calls = x] \in Snapshot
           /\ \A x \in SUBSET Ids : [s EXCEPT !.done = x] \in Snapshot
           /\ \A x \in SUBSET Ids : [s EXCEPT !.asked = x] \in Snapshot
           /\ \A x \in 0..MaxRounds : [s EXCEPT !.rem = x] \in Snapshot
           /\ \A x \in BOOLEAN : [s EXCEPT !.fin = x] \in Snapshot
           /\ \A x \in Seq(Call) : [s EXCEPT !.waiting = x] \in Snapshot
           /\ \A x \in SUBSET Ids : [s EXCEPT !.pending = x] \in Snapshot
           /\ \A x \in [Keys -> {"none", "approved", "denied"}] : [s EXCEPT !.approvals = x] \in Snapshot
  BY DEF Snapshot

LEMMA Fields ==
    ASSUME NEW s \in Snapshot
    PROVE  /\ s.status \in Status /\ s.round \in Nat /\ s.calls \in Responses \cup {<<>>}
           /\ s.done \in SUBSET Ids /\ s.asked \in SUBSET Ids /\ s.pending \in SUBSET Ids
           /\ s.rem \in 0..MaxRounds /\ s.waiting \in Seq(Call)
           /\ s.approvals \in [Keys -> {"none", "approved", "denied"}]
  BY DEF Snapshot

LEMMA NewTypes ==
  /\ \A approvals \in [Keys -> {"none", "approved", "denied"}] : NewState(approvals) \in Snapshot
  /\ Absent \in Snapshot
  <1>0. MaxRounds \in 0..MaxRounds /\ "RUNNING" \in Status /\ "ABSENT" \in Status /\ <<>> \in Seq(Call)
    BY LoopAssumption DEF Status
  <1>1. ASSUME NEW approvals \in [Keys -> {"none", "approved", "denied"}] PROVE NewState(approvals) \in Snapshot
    BY <1>0 DEF NewState, Snapshot
  <1>2. [k \in Keys |-> "none"] \in [Keys -> {"none", "approved", "denied"}]
    OBVIOUS
  <1>3. Absent \in Snapshot
    BY <1>0, <1>1, <1>2, Updates DEF Absent
  <1> QED BY <1>1, <1>3

LEMMA RespondedType ==
    ASSUME NEW s \in Snapshot, NEW r \in Responses \cup {<<>>}, NEW rem \in 0..MaxRounds
    PROVE  Responded(s, r, rem) \in Snapshot
  <1>1. s.round + 1 \in Nat /\ <<>> \in Seq(Call)
    BY DEF Snapshot
  <1> QED BY <1>1, Updates DEF Responded

LEMMA StoppedType ==
    ASSUME NEW s \in Snapshot, NEW status \in Terminal
    PROVE  Stopped(s, status) \in Snapshot
  <1>1. status \in Status /\ <<>> \in Seq(Call)
    BY DEF Status
  <1> QED BY <1>1, Updates DEF Stopped

LEMMA PausedType ==
    ASSUME NEW s \in Snapshot
    PROVE  PausedAt(s) \in Snapshot
  <1>1. "PAUSED" \in Status
    BY DEF Status
  <1> QED BY <1>1, Updates DEF PausedAt

LEMMA ContinuedType ==
    ASSUME NEW s \in Snapshot, NEW approvals \in [Keys -> {"none", "approved", "denied"}]
    PROVE  Continued(s, approvals) \in Snapshot
  <1>1. "RUNNING" \in Status /\ <<>> \in Seq(Call)
    BY DEF Status
  <1> QED BY <1>1, Updates DEF Continued

LEMMA MergedType ==
    ASSUME NEW a \in [Keys -> {"none", "approved", "denied"}], NEW d \in Decisions, NEW round
    PROVE  Merged(a, d, round) \in [Keys -> {"none", "approved", "denied"}]
  BY DEF Merged, Decisions

(* What an event of the journal makes of a snapshot: a later one, with the   *)
(* approvals of the operators, which waits for calls of its response.        *)
LEMMA AppliedFollows ==
    ASSUME NEW s \in Snapshot, NEW e \in Named, Elements(s.waiting) \subseteq CallsOf(s)
    PROVE  LET t == Apply(s, e) IN
           /\ t \in Snapshot /\ t.approvals = s.approvals /\ Follows(s, t)
           /\ Elements(t.waiting) \subseteq CallsOf(t) /\ (t.status = "ABSENT" => s.status = "ABSENT")
  <1> DEFINE t == Apply(s, e)
  <1>0. Elements(<<>>) = {}
    BY DEF Elements
  <1>1. CASE e.type = "chat"
    <2>1. t = Responded(s, e.calls, e.rem)
      BY <1>1 DEF Apply, Terminal
    <2>2. t \in Snapshot
      BY <2>1, RespondedType DEF Named, Event
    <2>3. /\ t.approvals = s.approvals /\ t.round = s.round + 1 /\ t.waiting = <<>> /\ s.round \in Nat
          /\ t.status = s.status
      BY <2>1 DEF Responded, Snapshot
    <2> QED BY <1>0, <2>2, <2>3 DEF Follows
  <1>2. CASE e.type \in {"done", "failed"}
    <2>1. t = [s EXCEPT !.done = @ \cup {e.id}] /\ e.id \in Ids
      BY <1>2 DEF Apply, Named, Terminal
    <2>2. t \in Snapshot
      <3>1. s.done \cup {e.id} \in SUBSET Ids
        BY <2>1, Fields
      <3> HIDE DEF t
      <3> QED BY <2>1, <3>1, Updates
    <2>3. /\ t.approvals = s.approvals /\ t.round = s.round /\ t.waiting = s.waiting /\ t.calls = s.calls /\ s.round \in Nat
          /\ t.status = s.status
      BY <2>1 DEF Snapshot
    <2> QED BY <2>2, <2>3 DEF Follows, CallsOf
  <1>3. CASE e.type = "requested"
    <2>1. t = [s EXCEPT !.pending = @ \cup {e.id}, !.asked = @ \cup {e.id}, !.waiting = s.calls] /\ e.id \in Ids
      BY <1>3 DEF Apply, Named, Terminal
    <2>0. s.calls \in Seq(Call)
      BY CallTypes, Fields, Zenon
    <2>2. t \in Snapshot
      <3>1. s.pending \cup {e.id} \in SUBSET Ids /\ s.asked \cup {e.id} \in SUBSET Ids
        BY <2>1, Fields
      <3> HIDE DEF t
      <3> QED BY <2>0, <2>1, <3>1, Updates
    <2>3. /\ t.approvals = s.approvals /\ t.round = s.round /\ t.waiting = s.calls /\ t.calls = s.calls /\ s.round \in Nat
          /\ t.status = s.status
      BY <2>1 DEF Snapshot
    <2> QED BY <2>2, <2>3 DEF Follows, CallsOf, Elements
  <1>4. CASE e.type = "memory"
    <2>1. t = [s EXCEPT !.fin = TRUE]
      BY <1>4 DEF Apply, Terminal
    <2>2. t \in Snapshot
      <3> HIDE DEF t
      <3> QED BY <2>1, Updates
    <2>3. /\ t.approvals = s.approvals /\ t.round = s.round /\ t.waiting = s.waiting /\ t.calls = s.calls /\ s.round \in Nat
          /\ t.status = s.status
      BY <2>1 DEF Snapshot
    <2> QED BY <2>2, <2>3 DEF Follows, CallsOf
  <1>5. CASE e.type \in Terminal
    <2>1. t = [s EXCEPT !.status = e.type, !.fin = TRUE, !.waiting = <<>>, !.pending = {}]
      BY <1>5 DEF Apply, Terminal
    <2>2. t \in Snapshot
      <3>1. e.type \in Status /\ <<>> \in Seq(Call)
        BY <1>5 DEF Status
      <3> HIDE DEF t
      <3> QED BY <2>1, <3>1, Updates
    <2>3. /\ t.approvals = s.approvals /\ t.round = s.round /\ t.waiting = <<>> /\ t.calls = s.calls /\ s.round \in Nat
          /\ t.status = e.type
      BY <2>1 DEF Snapshot
    <2> QED BY <1>0, <1>5, <2>2, <2>3 DEF Follows, CallsOf, Terminal
  <1>6. CASE e.type \notin {"chat", "done", "failed", "requested", "memory"} \cup Terminal
    <2>1. t = s /\ s.round \in Nat
      BY <1>6 DEF Apply, Terminal, Snapshot
    <2> QED BY <2>1 DEF Follows
  <1> QED BY <1>1, <1>2, <1>3, <1>4, <1>5, <1>6

(* So does the recovery of the row from the tail of its journal.             *)
LEMMA RestoredFollows ==
    ASSUME LoopInv
    PROVE  LET t == Restored(row) IN
           /\ t \in Snapshot /\ t.approvals = row.approvals /\ Follows(row, t)
           /\ Elements(t.waiting) \subseteq CallsOf(t) /\ (t.status = "ABSENT" => row.status = "ABSENT")
  <1> DEFINE X == {t \in Snapshot : /\ t.approvals = row.approvals /\ Follows(row, t)
                                    /\ Elements(t.waiting) \subseteq CallsOf(t)
                                    /\ (t.status = "ABSENT" => row.status = "ABSENT")}
  <1>1. row \in X
    <2>1. row \in Snapshot /\ Elements(row.waiting) \subseteq CallsOf(row)
      BY DEF LoopInv, TypeOK, ExecutionInv
    <2>2. row.round \in Nat
      BY <2>1 DEF Snapshot
    <2> QED BY <2>1, <2>2 DEF Follows
  <1>2. \A t \in X, e \in Named : Apply(t, e) \in X
    <2> SUFFICES ASSUME NEW t \in X, NEW e \in Named PROVE Apply(t, e) \in X
      OBVIOUS
    <2>1. /\ Apply(t, e) \in Snapshot /\ Apply(t, e).approvals = t.approvals /\ Follows(t, Apply(t, e))
          /\ Elements(Apply(t, e).waiting) \subseteq CallsOf(Apply(t, e))
          /\ (Apply(t, e).status = "ABSENT" => t.status = "ABSENT")
      BY AppliedFollows
    <2>2. Follows(row, Apply(t, e))
      <3>1. t.round \in Nat /\ row.round \in Nat /\ Apply(t, e).round \in Nat
        BY <1>1, <2>1 DEF Snapshot
      <3> QED BY <2>1, <3>1 DEF Follows
    <2> QED BY <2>1, <2>2
  <1>3. tail \in Seq(Named)
    BY DEF LoopInv, EndInv
  <1>4. Restored(row) \in X
    <2> HIDE DEF X
    <2> QED BY <1>1, <1>2, <1>3, RestoredIn
  <1> QED BY <1>4

(* A run that was cut does not go on by itself.                              *)
LEMMA InterruptedFollows ==
    ASSUME LoopInv, NEW L
    PROVE  LET t == Interrupted(L, Restored(row)) IN
           /\ t \in Snapshot /\ t.approvals = row.approvals /\ Follows(row, t)
           /\ Elements(t.waiting) \subseteq CallsOf(t) /\ t.status # "RUNNING"
           /\ (t.status = "ABSENT" => row.status = "ABSENT")
  <1> DEFINE r == Restored(row)
             t == Interrupted(L, r)
  <1>1. /\ r \in Snapshot /\ r.approvals = row.approvals /\ Follows(row, r) /\ Elements(r.waiting) \subseteq CallsOf(r)
        /\ (r.status = "ABSENT" => row.status = "ABSENT")
    BY RestoredFollows
  <1> HIDE DEF r
  <1>2. CASE r.status = "RUNNING"
    <2>1. t = [r EXCEPT !.status = "PAUSED", !.pause = IF Eligible(L, r) THEN "resumable" ELSE "blocked"]
      BY <1>2 DEF Interrupted
    <2>2. t \in Snapshot
      BY <1>1, <2>1 DEF Snapshot, Status
    <2>3. /\ t.approvals = r.approvals /\ t.round = r.round /\ t.waiting = r.waiting /\ t.calls = r.calls
          /\ t.status = "PAUSED"
      BY <1>1, <2>1 DEF Snapshot
    <2> QED BY <1>1, <2>2, <2>3 DEF Follows, CallsOf, r
  <1>3. CASE r.status # "RUNNING"
    BY <1>1, <1>3 DEF Interrupted, r
  <1> QED BY <1>2, <1>3

-----------------------------------------------------------------------------
(* The ledger.                                                               *)

(* A ledger in which the attempts at each id have the rounds and the tools   *)
(* they had, and the superseded ones are superseded.                         *)
Relabels(L, M) ==
  \A id \in Ids :
    /\ Len(M[id]) = Len(L[id])
    /\ \A n \in 1..Len(L[id]) :
         /\ M[id][n].round = L[id][n].round /\ M[id][n].tool = L[id][n].tool
         /\ n # Len(L[id]) /\ Superseded(L[id][n]) => Superseded(M[id][n])

LEMMA LedgerTypes ==
    ASSUME TypeOK, NEW id \in Ids
    PROVE  /\ ledger[id] \in Seq(Attempt) /\ Len(ledger[id]) \in Nat
           /\ DOMAIN ledger[id] = 1..Len(ledger[id])
           /\ \A n \in 1..Len(ledger[id]) : ledger[id][n] \in Attempt /\ ledger[id][n].round \in Nat
  <1>1. ledger[id] \in Seq(Attempt)
    BY DEF TypeOK
  <1>2. \A n \in 1..Len(ledger[id]) : ledger[id][n] \in Attempt
    BY <1>1
  <1> QED BY <1>1, <1>2 DEF Attempt

(* Relabelled attempts under a later snapshot of the row.                    *)
LEMMA RelabelKeeps ==
    ASSUME LoopInv, ledger' \in [Ids -> Seq(Attempt)], Relabels(ledger, ledger'),
           row.round \in Nat, row'.round \in Nat, Follows(row, row'), granted \subseteq granted'
    PROVE  AttemptsOrdered' /\ AttemptsOfRow' /\ ExecutionsApproved'
  <1>0. TypeOK /\ AttemptsOrdered /\ AttemptsOfRow /\ ExecutionsApproved
    BY DEF LoopInv, LedgerInv, ApprovalInv
  <1>1. ASSUME NEW id \in Ids
        PROVE  /\ Len(ledger[id]) \in Nat /\ DOMAIN ledger[id] = 1..Len(ledger[id])
               /\ DOMAIN ledger'[id] = 1..Len(ledger[id])
               /\ \A n \in 1..Len(ledger[id]) : ledger[id][n].round \in Nat
    <2>1. ledger'[id] \in Seq(Attempt) /\ Len(ledger'[id]) = Len(ledger[id])
      BY DEF Relabels
    <2> QED BY <1>0, <2>1, LedgerTypes
  <1>2. AttemptsOrdered'
    <2> SUFFICES ASSUME NEW id \in Ids, NEW m \in 1..Len(ledger[id]), NEW n \in 1..Len(ledger[id]), m < n
                 PROVE  /\ ledger'[id][m].round <= ledger'[id][n].round
                        /\ ledger'[id][m].round = ledger'[id][n].round =>
                             Superseded(ledger'[id][m]) /\ ledger'[id][m].tool = ledger'[id][n].tool
      BY <1>1 DEF AttemptsOrdered
    <2>1. /\ ledger[id][m].round <= ledger[id][n].round
          /\ ledger[id][m].round = ledger[id][n].round =>
               Superseded(ledger[id][m]) /\ ledger[id][m].tool = ledger[id][n].tool
      BY <1>0, <1>1 DEF AttemptsOrdered
    <2>2. m # Len(ledger[id])
      BY <1>1
    <2> QED BY <2>1, <2>2 DEF Relabels
  <1>3. AttemptsOfRow'
    <2> SUFFICES ASSUME NEW id \in Ids, NEW n \in 1..Len(ledger[id])
                 PROVE  /\ ledger'[id][n].round <= row'.round
                        /\ ledger'[id][n].round = row'.round =>
                             [id |-> id, tool |-> ledger'[id][n].tool] \in CallsOf(row')
      BY <1>1 DEF AttemptsOfRow
    <2>1. /\ ledger[id][n].round <= row.round
          /\ ledger[id][n].round = row.round => [id |-> id, tool |-> ledger[id][n].tool] \in CallsOf(row)
      BY <1>0, <1>1 DEF AttemptsOfRow
    <2>2. ledger'[id][n].round = ledger[id][n].round /\ ledger'[id][n].tool = ledger[id][n].tool
      BY DEF Relabels
    <2>3. row'.round >= row.round /\ (row'.round = row.round => CallsOf(row') = CallsOf(row))
      BY DEF Follows, CallsOf
    <2> QED BY <1>1, <2>1, <2>2, <2>3
  <1>4. ExecutionsApproved'
    <2> SUFFICES ASSUME NEW id \in Ids, NEW n \in 1..Len(ledger[id]), ledger'[id][n].tool \in Sensitive
                 PROVE  <<ledger'[id][n].round, id>> \in granted'
      BY <1>1 DEF ExecutionsApproved
    <2>1. ledger'[id][n].round = ledger[id][n].round /\ ledger'[id][n].tool = ledger[id][n].tool
      BY DEF Relabels
    <2> QED BY <1>0, <1>1, <2>1 DEF ExecutionsApproved
  <1> QED BY <1>2, <1>3, <1>4

(* The executions that are recorded are so while the attempts that have      *)
(* begun are the same.                                                       *)
LEMMA RecordedKept ==
    ASSUME LedgerInv, execs' = execs, \A k \in Keys : Begun(k)' = Begun(k)
    PROVE  ExecutionsRecorded'
  BY DEF LedgerInv, ExecutionsRecorded

LEMMA RelabelRecords ==
    ASSUME TypeOK, LedgerInv, execs' = execs, ledger' \in [Ids -> Seq(Attempt)], Relabels(ledger, ledger'),
           \A id \in Ids : \A n \in 1..Len(ledger[id]) :
             ledger'[id][n].status = "SCHEDULED" <=> ledger[id][n].status = "SCHEDULED"
    PROVE  ExecutionsRecorded'
  <1>1. ASSUME NEW k \in Keys PROVE Begun(k)' = Begun(k)
    <2>1. k[2] \in Ids
      BY DEF Keys
    <2>2. DOMAIN ledger'[k[2]] = DOMAIN ledger[k[2]] /\ DOMAIN ledger[k[2]] = 1..Len(ledger[k[2]])
      <3>1. ledger'[k[2]] \in Seq(Attempt) /\ Len(ledger'[k[2]]) = Len(ledger[k[2]])
        BY <2>1 DEF Relabels
      <3> QED BY <2>1, <3>1, LedgerTypes
    <2>3. \A n \in 1..Len(ledger[k[2]]) :
            /\ ledger'[k[2]][n].round = ledger[k[2]][n].round
            /\ ledger'[k[2]][n].status # "SCHEDULED" <=> ledger[k[2]][n].status # "SCHEDULED"
      BY <2>1 DEF Relabels
    <2> QED BY <2>2, <2>3 DEF Begun, AttemptsOf
  <1> QED BY <1>1, RecordedKept

(* A step of the row alone.                                                  *)
LEMMA RowAdvances ==
    ASSUME LoopInv, ledger' = ledger, execs' = execs, row.round \in Nat, row'.round \in Nat,
           Follows(row, row'), granted \subseteq granted'
    PROVE  LedgerInv' /\ ExecutionsApproved'
  <1>1. TypeOK /\ LedgerInv /\ ledger \in [Ids -> Seq(Attempt)]
    BY DEF LoopInv, TypeOK
  <1>2. Relabels(ledger, ledger')
    BY DEF Relabels
  <1>3. AttemptsOrdered' /\ AttemptsOfRow' /\ ExecutionsApproved'
    BY <1>1, <1>2, RelabelKeeps
  <1>4. ExecutionsRecorded'
    BY <1>1, <1>2, RelabelRecords
  <1> QED BY <1>3, <1>4 DEF LedgerInv

-----------------------------------------------------------------------------
(* The steps.                                                                *)

(* Histories count the calls of the rounds, and pass over other rounds.      *)
LEMMA CountTypes ==
    ASSUME NEW f \in [Keys -> Nat], NEW k
    PROVE  [f EXCEPT ![k] = @ + 1] \in [Keys -> Nat]
  <1>1. CASE k \in Keys
    BY <1>1
  <1>2. CASE k \notin Keys
    <2>1. [f EXCEPT ![k] = @ + 1] = [x \in Keys |-> f[x]]
      BY <1>2
    <2> QED BY <2>1
  <1> QED BY <1>1, <1>2

LEMMA NamedAreEvents == \A q \in Seq(Named) : q \in Seq(Event)
  BY DEF Named

LEMMA TailTypes == \A q \in Seq(Call) : q # <<>> => Tail(q) \in Seq(Call) /\ Elements(Tail(q)) \subseteq Elements(q)
  BY DEF Elements

LEMMA HeadTypes ==
    ASSUME NEW q \in Seq(Call), q # <<>>
    PROVE  Head(q) \in Call /\ Head(q) \in Elements(q) /\ Head(q).id \in Ids /\ Head(q).tool \in Tools
  <1>1. Len(q) \in Nat /\ 1 \in 1..Len(q) /\ Head(q) = q[1] /\ q[1] \in Call
    OBVIOUS
  <1> QED BY <1>1 DEF Elements, Call

(* An event is emitted, with the snapshot that is to be saved with it: that  *)
(* is a later one, and what the execution will go to is prepared.            *)
LEMMA EmitKeeps ==
    ASSUME LoopInv, NEW e \in Named, NEW s \in Snapshot,
           NEW then \in {"none", "chat", "loop", "go", "ledger", "finish", "stop"},
           Emit(e, s, then),
           Follows(row, s), ApprovedBy(s), Elements(s.waiting) \subseteq CallsOf(s),
           todo' \in Seq(Call), fate' = fate,
           s.status = "RUNNING" /\ then \in {"loop", "go", "ledger"} => Elements(todo') \subseteq CallsOf(s),
           then \in {"go", "ledger"} => todo' # <<>>,
           then = "ledger" /\ Head(todo').tool \in Sensitive => <<s.round, Head(todo').id>> \in granted,
           s.status = "RUNNING" /\ then = "stop" => fate \in Terminal,
           granted' = granted, execs' = execs, cuts' = cuts, told' \in [Keys -> Nat], erred' \in BOOLEAN
    PROVE  LoopInv'
  <1>0. TypeOK /\ tail \in Seq(Named) /\ ApprovedBy(row) /\ Elements(row.waiting) \subseteq CallsOf(row)
    BY DEF LoopInv, EndInv, ApprovalInv, ExecutionInv
  <1>1. pc' = "save" /\ next' = then /\ row' = row /\ pauseReq' = pauseReq /\ ledger' = ledger
    BY DEF Emit
  <1>2. /\ tail' \in Seq(Named) /\ mem' \in Snapshot
        /\ mem'.round = s.round /\ mem'.calls = s.calls /\ mem'.waiting = s.waiting
        /\ mem'.approvals = s.approvals /\ (mem'.status = "RUNNING" => s.status = "RUNNING")
    <2>1. CASE PauseDue(e.type, s)
      <3>1. tail' = tail \o <<e, Ev("paused")>> /\ mem' = PausedAt(s)
        BY <2>1 DEF Emit
      <3>2. tail' \in Seq(Named)
        <4>1. Ev("paused") \in Named
          BY EventTypes
        <4> QED BY <1>0, <3>1, <4>1
      <3>3. mem' \in Snapshot
        BY <3>1, PausedType
      <3>4. /\ mem'.round = s.round /\ mem'.calls = s.calls /\ mem'.waiting = s.waiting
            /\ mem'.approvals = s.approvals /\ mem'.status = "PAUSED"
        BY <3>1 DEF PausedAt, Snapshot
      <3> QED BY <3>2, <3>3, <3>4
    <2>2. CASE ~PauseDue(e.type, s)
      <3>1. tail' = Append(tail, e) /\ mem' = s
        BY <2>2 DEF Emit
      <3> QED BY <1>0, <3>1
    <2> QED BY <2>1, <2>2
  <1>3. row \in Snapshot /\ row.round \in Nat
    BY <1>0, Fields DEF TypeOK
  <1>4. TypeOK'
    BY <1>0, <1>1, <1>2, NamedAreEvents DEF TypeOK
  <1>5. LedgerInv' /\ ExecutionsApproved'
    BY <1>1, <1>3, RowAdvances DEF Follows
  <1>6. CallsOf(mem') = CallsOf(s)
    BY <1>2 DEF CallsOf
  <1>7. ExecutionInv'
    <2>1. Follows(row', mem')
      BY <1>1, <1>2 DEF Follows
    <2>2. Handling' => Elements(todo') \subseteq CallsOf(mem')
      BY <1>1, <1>2, <1>6 DEF Handling, Resting
    <2>3. AtCall' => todo' # <<>>
      BY <1>1 DEF AtCall, Resting
    <2> QED BY <1>0, <1>1, <1>2, <1>6, <2>1, <2>2, <2>3 DEF ExecutionInv
  <1>8. EndInv'
    BY <1>1, <1>2 DEF EndInv, Resting
  <1>9. AttemptInv'
    BY <1>1 DEF AttemptInv
  <1>10. ApprovalInv'
    <2>1. ApprovedBy(row)' /\ ApprovedBy(mem)'
      BY <1>0, <1>1, <1>2 DEF ApprovedBy
    <2>2. Cleared' /\ Current'.tool \in Sensitive => <<mem'.round, Current'.id>> \in granted'
      BY <1>1, <1>2 DEF Cleared, Resting, Current
    <2> QED BY <1>5, <2>1, <2>2 DEF ApprovalInv
  <1> QED BY <1>4, <1>5, <1>7, <1>8, <1>9, <1>10 DEF LoopInv

(* What a handler of the loop knows of the call it is at.                    *)
LEMMA AtTheCall ==
    ASSUME LoopInv, pc \in {"loop", "go", "ledger", "begin", "tool", "report"}, todo # <<>>
    PROVE  /\ mem \in Snapshot /\ row \in Snapshot /\ todo \in Seq(Call)
           /\ mem.round = row.round /\ mem.calls = row.calls /\ Follows(row, mem)
           /\ Elements(todo) \subseteq CallsOf(mem) /\ Elements(mem.waiting) \subseteq CallsOf(mem)
           /\ Current \in CallsOf(mem) /\ Current.id \in Ids /\ Current.tool \in Tools
           /\ ApprovedBy(mem)
  <1>1. /\ mem \in Snapshot /\ row \in Snapshot /\ todo \in Seq(Call)
        /\ mem.round = row.round /\ mem.calls = row.calls
        /\ Elements(todo) \subseteq CallsOf(mem) /\ Elements(mem.waiting) \subseteq CallsOf(mem)
        /\ ApprovedBy(mem)
    BY DEF LoopInv, TypeOK, ExecutionInv, Handling, ApprovalInv
  <1>2. mem.round \in Nat
    BY <1>1, Fields
  <1> QED BY <1>1, <1>2, HeadTypes DEF Current, Follows

LEMMA StartedKeeps == LoopInv /\ Started => LoopInv'
  <1> SUFFICES ASSUME LoopInv, Started PROVE LoopInv'
    OBVIOUS
  <1>1. pc = "started" /\ Emit(Ev("started"), mem, "chat") /\ UNCHANGED <<todo, fate, cuts, history>>
    BY DEF Started
  <1>2. /\ mem \in Snapshot /\ ApprovedBy(mem) /\ Elements(mem.waiting) \subseteq CallsOf(mem)
        /\ mem.round = row.round /\ mem.calls = row.calls /\ todo \in Seq(Call)
        /\ told \in [Keys -> Nat] /\ erred \in BOOLEAN
    BY <1>1 DEF LoopInv, TypeOK, ApprovalInv, ExecutionInv
  <1>3. Follows(row, mem)
    BY <1>2, Fields DEF Follows
  <1>4. Ev("started") \in Named
    BY EventTypes
  <1> QED BY <1>1, <1>2, <1>3, <1>4, EmitKeeps DEF history

LEMMA ModelRespondsKeeps == LoopInv /\ ModelResponds => LoopInv'
  <1> SUFFICES ASSUME LoopInv, ModelResponds PROVE LoopInv'
    OBVIOUS
  <1>1. PICK r \in Responses : Emit(ChatEv(r, mem.rem), Responded(mem, r, mem.rem), "loop") /\ todo' = r
    BY DEF ModelResponds
  <1>2. pc = "chat" /\ UNCHANGED <<fate, cuts, history>>
    BY DEF ModelResponds
  <1>3. /\ mem \in Snapshot /\ ApprovedBy(mem) /\ mem.round = row.round
        /\ told \in [Keys -> Nat] /\ erred \in BOOLEAN
    BY <1>2 DEF LoopInv, TypeOK, ApprovalInv, ExecutionInv
  <1>4. mem.round \in Nat /\ mem.rem \in 0..MaxRounds /\ r \in Seq(Call)
    BY <1>3, Fields, CallTypes
  <1> DEFINE s == Responded(mem, r, mem.rem)
  <1>5. s \in Snapshot /\ ChatEv(r, mem.rem) \in Named
    BY <1>3, <1>4, RespondedType, EventTypes
  <1>6. s.round = mem.round + 1 /\ s.calls = r /\ s.waiting = <<>> /\ s.approvals = mem.approvals
    BY <1>3 DEF Responded, Snapshot
  <1>7. Follows(row, s) /\ ApprovedBy(s)
    BY <1>3, <1>4, <1>6 DEF Follows, ApprovedBy
  <1>8. Elements(s.waiting) \subseteq CallsOf(s) /\ Elements(todo') \subseteq CallsOf(s)
    BY <1>1, <1>4, <1>6 DEF Elements, CallsOf
  <1> HIDE DEF s
  <1> QED BY <1>1, <1>2, <1>3, <1>4, <1>5, <1>7, <1>8, EmitKeeps DEF history, s

(* A snapshot of the same response, with other data.                         *)
Alike(s, t) ==
  t.round = s.round /\ t.calls = s.calls /\ t.waiting = s.waiting /\ t.approvals = s.approvals

LEMMA RequestApprovalKeeps == LoopInv /\ RequestApproval => LoopInv'
  <1> SUFFICES ASSUME LoopInv, RequestApproval PROVE LoopInv'
    OBVIOUS
  <1> DEFINE s == [mem EXCEPT !.asked = @ \cup {Current.id}]
  <1>1. /\ pc = "loop" /\ todo # <<>> /\ Emit(CallEv("requested", Current.id), s, "loop")
        /\ UNCHANGED <<todo, fate, cuts, history>>
    BY DEF RequestApproval, InLoop
  <1>2. /\ mem \in Snapshot /\ todo \in Seq(Call) /\ Follows(row, mem) /\ ApprovedBy(mem)
        /\ Elements(todo) \subseteq CallsOf(mem) /\ Elements(mem.waiting) \subseteq CallsOf(mem)
        /\ Current.id \in Ids /\ told \in [Keys -> Nat] /\ erred \in BOOLEAN
    BY <1>1, AtTheCall DEF LoopInv, TypeOK
  <1>3. mem.asked \cup {Current.id} \in SUBSET Ids
    BY <1>2, Fields
  <1>4. s \in Snapshot
    BY <1>2, <1>3, Updates
  <1>5. Alike(mem, s)
    BY <1>2 DEF Alike, Snapshot
  <1> HIDE DEF s
  <1>6. /\ Follows(row, s) /\ ApprovedBy(s) /\ Elements(s.waiting) \subseteq CallsOf(s)
        /\ Elements(todo') \subseteq CallsOf(s)
    BY <1>1, <1>2, <1>5 DEF Alike, Follows, ApprovedBy, CallsOf
  <1>7. CallEv("requested", Current.id) \in Named
    BY <1>2, EventTypes
  <1> QED BY <1>1, <1>2, <1>4, <1>6, <1>7, EmitKeeps DEF history

LEMMA PauseForApprovalKeeps == LoopInv /\ PauseForApproval => LoopInv'
  <1> SUFFICES ASSUME LoopInv, PauseForApproval PROVE LoopInv'
    OBVIOUS
  <1> DEFINE s == [mem EXCEPT !.status = "PAUSED", !.waiting = todo, !.pending = {Current.id}]
  <1>1. /\ pc = "loop" /\ todo # <<>> /\ Emit(CallEv("paused", Current.id), s, "none")
        /\ UNCHANGED <<todo, fate, cuts, history>>
    BY DEF PauseForApproval, Asked, InLoop
  <1>2. /\ mem \in Snapshot /\ todo \in Seq(Call) /\ Follows(row, mem) /\ ApprovedBy(mem)
        /\ Elements(todo) \subseteq CallsOf(mem)
        /\ Current.id \in Ids /\ told \in [Keys -> Nat] /\ erred \in BOOLEAN
    BY <1>1, AtTheCall DEF LoopInv, TypeOK
  <1>3. "PAUSED" \in Status /\ {Current.id} \in SUBSET Ids
    BY <1>2 DEF Status
  <1>4. s \in Snapshot
    BY <1>2, <1>3, Updates
  <1>5. s.round = mem.round /\ s.calls = mem.calls /\ s.waiting = todo /\ s.approvals = mem.approvals
    BY <1>2 DEF Snapshot
  <1> HIDE DEF s
  <1>6. Follows(row, s) /\ ApprovedBy(s) /\ Elements(s.waiting) \subseteq CallsOf(s)
    BY <1>2, <1>5 DEF Follows, ApprovedBy, CallsOf
  <1>7. CallEv("paused", Current.id) \in Named
    BY <1>2, EventTypes
  <1> QED BY <1>1, <1>2, <1>4, <1>6, <1>7, EmitKeeps DEF history

LEMMA TraceDecisionKeeps == LoopInv /\ TraceDecision => LoopInv'
  <1> SUFFICES ASSUME LoopInv, TraceDecision PROVE LoopInv'
    OBVIOUS
  <1>1. /\ pc = "loop" /\ todo # <<>> /\ Emit(CallEv("decided", Current.id), mem, "go")
        /\ UNCHANGED <<todo, fate, cuts, history>>
    BY DEF TraceDecision, Asked, InLoop
  <1>2. /\ mem \in Snapshot /\ todo \in Seq(Call) /\ Follows(row, mem) /\ ApprovedBy(mem)
        /\ Elements(todo) \subseteq CallsOf(mem) /\ Elements(mem.waiting) \subseteq CallsOf(mem)
        /\ Current.id \in Ids /\ told \in [Keys -> Nat] /\ erred \in BOOLEAN
    BY <1>1, AtTheCall DEF LoopInv, TypeOK
  <1>3. CallEv("decided", Current.id) \in Named
    BY <1>2, EventTypes
  <1> QED BY <1>1, <1>2, <1>3, EmitKeeps DEF history

(* A sensitive tool is started with the approval of its round only.          *)
LEMMA StartToolKeeps == LoopInv /\ StartTool => LoopInv'
  <1> SUFFICES ASSUME LoopInv, StartTool PROVE LoopInv'
    OBVIOUS
  <1>1. Emit(CallEv("toolStarted", Current.id), mem, "ledger") /\ UNCHANGED <<todo, fate, cuts, history>>
    BY DEF StartTool
  <1>2. pc \in {"loop", "go"} /\ todo # <<>>
    BY DEF StartTool, InLoop, LoopInv, ExecutionInv, AtCall
  <1>3. /\ mem \in Snapshot /\ todo \in Seq(Call) /\ Follows(row, mem) /\ ApprovedBy(mem)
        /\ Elements(todo) \subseteq CallsOf(mem) /\ Elements(mem.waiting) \subseteq CallsOf(mem)
        /\ Current.id \in Ids /\ told \in [Keys -> Nat] /\ erred \in BOOLEAN
    BY <1>2, AtTheCall DEF LoopInv, TypeOK
  <1>4. ASSUME Head(todo').tool \in Sensitive PROVE <<mem.round, Head(todo').id>> \in granted
    <2>1. Head(todo') = Current
      BY <1>1 DEF Current
    <2>2. Approval(mem, Current.id) = "approved"
      BY <1>4, <2>1 DEF StartTool
    <2>3. mem.round \in Rounds /\ mem.approvals[<<mem.round, Current.id>>] = "approved"
      BY <2>2 DEF Approval
    <2>4. <<mem.round, Current.id>> \in Keys
      BY <1>3, <2>3 DEF Keys
    <2> QED BY <1>3, <2>1, <2>3, <2>4 DEF ApprovedBy
  <1>5. CallEv("toolStarted", Current.id) \in Named
    BY <1>3, EventTypes
  <1> QED BY <1>1, <1>2, <1>3, <1>4, <1>5, EmitKeeps DEF history

LEMMA ReportKeeps ==
    ASSUME LoopInv, pc \in {"loop", "go", "ledger", "report"}, todo # <<>>,
           NEW type \in {"done", "failed"}, Report(type), told' \in [Keys -> Nat]
    PROVE  LoopInv'
  <1> DEFINE s == [mem EXCEPT !.done = @ \cup {Current.id}]
             then == IF type = "failed" /\ ~RecoverErrors THEN "finish" ELSE "loop"
  <1>1. /\ Emit(CallEv(type, Current.id), s, then) /\ todo' = Tail(todo)
        /\ erred' = (erred \/ type = "failed") /\ UNCHANGED <<fate, cuts, granted, execs>>
    BY DEF Report
  <1>2. /\ mem \in Snapshot /\ todo \in Seq(Call) /\ Follows(row, mem) /\ ApprovedBy(mem)
        /\ Elements(todo) \subseteq CallsOf(mem) /\ Elements(mem.waiting) \subseteq CallsOf(mem)
        /\ Current.id \in Ids /\ erred \in BOOLEAN
    BY AtTheCall DEF LoopInv, TypeOK
  <1>3. mem.done \cup {Current.id} \in SUBSET Ids
    BY <1>2, Fields
  <1>4. s \in Snapshot
    BY <1>2, <1>3, Updates
  <1>5. Alike(mem, s)
    BY <1>2 DEF Alike, Snapshot
  <1>6. then \in {"loop", "finish"}
    OBVIOUS
  <1> HIDE DEF s, then
  <1>7. todo' \in Seq(Call) /\ Elements(todo') \subseteq Elements(todo)
    BY <1>1, <1>2, TailTypes
  <1>8. /\ Follows(row, s) /\ ApprovedBy(s) /\ Elements(s.waiting) \subseteq CallsOf(s)
        /\ Elements(todo') \subseteq CallsOf(s)
    BY <1>2, <1>5, <1>7 DEF Alike, Follows, ApprovedBy, CallsOf
  <1>9. CallEv(type, Current.id) \in Named
    BY <1>2, EventTypes
  <1>10. erred' \in BOOLEAN
    BY <1>1, <1>2
  <1> QED BY <1>1, <1>4, <1>6, <1>7, <1>8, <1>9, <1>10, EmitKeeps

LEMMA RejectKeeps == LoopInv /\ Reject => LoopInv'
  <1> SUFFICES ASSUME LoopInv, Reject PROVE LoopInv'
    OBVIOUS
  <1>1. pc \in {"loop", "go"} /\ todo # <<>>
    BY DEF Reject, InLoop, LoopInv, ExecutionInv, AtCall
  <1>2. Report("failed") /\ told' \in [Keys -> Nat]
    BY DEF Reject, LoopInv, TypeOK
  <1> QED BY <1>1, <1>2, ReportKeeps

LEMMA ReportOutcomeKeeps == LoopInv /\ ReportOutcome => LoopInv'
  <1> SUFFICES ASSUME LoopInv, ReportOutcome PROVE LoopInv'
    OBVIOUS
  <1>1. pc \in {"ledger", "report"} /\ todo # <<>>
    BY DEF ReportOutcome, LoopInv, ExecutionInv, AtCall
  <1>2. told' \in [Keys -> Nat]
    <2>1. told \in [Keys -> Nat] /\ told' = [told EXCEPT ![Key] = @ + 1]
      BY DEF ReportOutcome, LoopInv, TypeOK
    <2> QED BY <2>1, CountTypes
  <1>3. \E type \in {"done", "failed"} : Report(type)
    BY DEF ReportOutcome
  <1> QED BY <1>1, <1>2, <1>3, ReportKeeps

LEMMA WriteMemoryKeeps == LoopInv /\ WriteMemory => LoopInv'
  <1> SUFFICES ASSUME LoopInv, WriteMemory PROVE LoopInv'
    OBVIOUS
  <1>1. pc = "memory" /\ Emit(Ev("memory"), mem, "stop") /\ UNCHANGED <<todo, fate, cuts, history>>
    BY DEF WriteMemory
  <1>2. /\ mem \in Snapshot /\ ApprovedBy(mem) /\ Elements(mem.waiting) \subseteq CallsOf(mem)
        /\ mem.round = row.round /\ mem.calls = row.calls /\ todo \in Seq(Call)
        /\ told \in [Keys -> Nat] /\ erred \in BOOLEAN /\ fate \in Terminal
    BY <1>1 DEF LoopInv, TypeOK, ApprovalInv, ExecutionInv, EndInv
  <1>3. Follows(row, mem)
    BY <1>2, Fields DEF Follows
  <1>4. Ev("memory") \in Named
    BY EventTypes
  <1> QED BY <1>1, <1>2, <1>3, <1>4, EmitKeeps DEF history

(* The run ends.                                                             *)
LEMMA EndKeeps ==
    ASSUME LoopInv, NEW s \in {row, mem}, NEW status \in Terminal, Follows(row, s),
           Emit(Ev(status), Stopped(s, status), "none"), UNCHANGED <<todo, fate, cuts, history>>
    PROVE  LoopInv'
  <1> DEFINE t == Stopped(s, status)
  <1>1. /\ s \in Snapshot /\ ApprovedBy(s) /\ todo \in Seq(Call)
        /\ told \in [Keys -> Nat] /\ erred \in BOOLEAN
    BY DEF LoopInv, TypeOK, ApprovalInv
  <1>2. t \in Snapshot
    BY <1>1, StoppedType
  <1>3. t.round = s.round /\ t.calls = s.calls /\ t.waiting = <<>> /\ t.approvals = s.approvals
    BY <1>1 DEF Stopped, Snapshot
  <1>4. Follows(row, t) /\ ApprovedBy(t) /\ Elements(t.waiting) \subseteq CallsOf(t)
    BY <1>1, <1>3 DEF Follows, ApprovedBy, Elements
  <1>5. Ev(status) \in Named
    BY EventTypes
  <1> HIDE DEF t
  <1> QED BY <1>1, <1>2, <1>4, <1>5, EmitKeeps DEF history, t

LEMMA StopKeeps == LoopInv /\ (Stop \/ MarkFailed) => LoopInv'
  <1>1. ASSUME LoopInv, Stop PROVE LoopInv'
    <2>1. /\ pc = "stop" /\ Emit(Ev(fate), Stopped(mem, fate), "none")
          /\ UNCHANGED <<todo, fate, cuts, history>>
      BY <1>1 DEF Stop
    <2>2. fate \in Terminal /\ mem \in Snapshot /\ mem.round = row.round /\ mem.calls = row.calls
      BY <1>1, <2>1 DEF LoopInv, EndInv, TypeOK, ExecutionInv
    <2>3. Follows(row, mem)
      BY <2>2, Fields DEF Follows
    <2> QED BY <1>1, <2>1, <2>2, <2>3, EndKeeps
  <1>2. ASSUME LoopInv, MarkFailed PROVE LoopInv'
    <2>1. Emit(Ev("FAILED"), Stopped(row, "FAILED"), "none") /\ UNCHANGED <<todo, fate, cuts, history>>
      BY <1>2 DEF MarkFailed
    <2>2. row \in Snapshot
      BY <1>2 DEF LoopInv, TypeOK
    <2>3. Follows(row, row) /\ "FAILED" \in Terminal
      BY <2>2, Fields DEF Follows, Terminal
    <2> QED BY <1>2, <2>1, <2>3, EndKeeps
  <1> QED BY <1>1, <1>2

(* No execution works on the run.                                            *)
LEMMA RestKeeps ==
    ASSUME LoopInv, pc' = "none", LedgerInv', ExecutionsApproved',
           row' \in Snapshot, ApprovedBy(row)', Elements(row'.waiting) \subseteq CallsOf(row'),
           mem' \in Snapshot, ApprovedBy(mem)', Elements(mem'.waiting) \subseteq CallsOf(mem'),
           tail' \in Seq(Named), pauseReq' \in BOOLEAN, ledger' \in [Ids -> Seq(Attempt)],
           todo' \in Seq(Call), fate' \in Terminal \cup {"none"},
           next' \in {"none", "chat", "loop", "go", "ledger", "finish", "stop"},
           cuts' \in 0..MaxCuts, granted' \subseteq Nat \X Ids, erred' \in BOOLEAN,
           execs' \in [Keys -> Nat], told' \in [Keys -> Nat]
    PROVE  LoopInv'
  <1>1. TypeOK'
    BY NamedAreEvents DEF TypeOK
  <1>2. ~Handling' /\ ~AtCall' /\ ~Cleared'
    BY DEF Handling, AtCall, Cleared, Resting
  <1>3. ExecutionInv'
    BY <1>2 DEF ExecutionInv
  <1>4. EndInv'
    BY DEF EndInv, Resting
  <1>5. AttemptInv' /\ ApprovalInv'
    BY <1>2 DEF AttemptInv, ApprovalInv
  <1> QED BY <1>1, <1>3, <1>4, <1>5 DEF LoopInv

LEMMA AbsentFacts ==
  /\ Absent \in Snapshot /\ Absent.waiting = <<>> /\ Absent.round = 0 /\ Absent.calls = <<>>
  /\ \A k \in Keys : Absent.approvals[k] = "none"
  BY NewTypes DEF Absent, NewState

(* It stops, or has not begun.                                               *)
LEMMA IdleKeeps ==
    ASSUME LoopInv, Idle, row' \in {row, mem}, Follows(row, row'), tail' \in Seq(Named),
           pauseReq' \in BOOLEAN, ledger' = ledger, cuts' \in 0..MaxCuts, UNCHANGED history
    PROVE  LoopInv'
  <1>1. /\ row \in Snapshot /\ mem \in Snapshot /\ ApprovedBy(row) /\ ApprovedBy(mem)
        /\ Elements(row.waiting) \subseteq CallsOf(row) /\ Elements(mem.waiting) \subseteq CallsOf(mem)
        /\ TypeOK
    BY DEF LoopInv, TypeOK, ExecutionInv, ApprovalInv
  <1>2. row' \in Snapshot /\ ApprovedBy(row)' /\ Elements(row'.waiting) \subseteq CallsOf(row')
    BY <1>1 DEF ApprovedBy, history
  <1>3. row.round \in Nat /\ row'.round \in Nat
    BY <1>1, <1>2, Fields
  <1>4. LedgerInv' /\ ExecutionsApproved'
    BY <1>3, RowAdvances DEF history
  <1>5. /\ mem' = Absent /\ pc' = "none" /\ todo' = <<>> /\ fate' = "none" /\ next' = "none"
        /\ UNCHANGED <<granted, execs, told, erred>>
    BY DEF Idle, history
  <1>6. mem' \in Snapshot /\ ApprovedBy(mem)' /\ Elements(mem'.waiting) \subseteq CallsOf(mem')
    BY <1>5, AbsentFacts DEF ApprovedBy, Elements
  <1>7. /\ todo' \in Seq(Call) /\ granted' \subseteq Nat \X Ids /\ erred' \in BOOLEAN
        /\ execs' \in [Keys -> Nat] /\ told' \in [Keys -> Nat] /\ ledger' \in [Ids -> Seq(Attempt)]
    BY <1>1, <1>5 DEF TypeOK
  <1> QED BY <1>2, <1>4, <1>5, <1>6, <1>7, RestKeeps

LEMMA SaveKeeps == LoopInv /\ Save => LoopInv'
  <1> SUFFICES ASSUME LoopInv, Save PROVE LoopInv'
    OBVIOUS
  <1>1. /\ pc = "save" /\ row' = mem /\ tail' = <<>> /\ UNCHANGED <<ledger, cuts, history>>
        /\ pauseReq' = (pauseReq /\ row.status = "RUNNING" /\ mem.status = "RUNNING")
    BY DEF Save
  <1>2. /\ TypeOK /\ LedgerInv /\ ExecutionInv /\ EndInv /\ AttemptInv /\ ApprovalInv
        /\ Follows(row, mem) /\ tail' \in Seq(Named) /\ pauseReq' \in BOOLEAN /\ cuts' \in 0..MaxCuts
    BY <1>1 DEF LoopInv, ExecutionInv, TypeOK
  <1>3. CASE mem.status = "RUNNING"
    <2>1. pc' = "yield" /\ UNCHANGED <<mem, todo, fate, next>>
      BY <1>3 DEF Save, Goto
    <2>2. row.round \in Nat /\ row'.round \in Nat
      BY <1>1, <1>2, Fields DEF TypeOK
    <2>3. LedgerInv' /\ ExecutionsApproved'
      BY <1>1, <1>2, <2>2, RowAdvances DEF history
    <2>4. TypeOK'
      BY <1>1, <1>2, <2>1 DEF TypeOK, history
    <2>5. ExecutionInv'
      BY <1>1, <1>2, <1>3, <2>1 DEF ExecutionInv, Handling, AtCall, Resting
    <2>6. EndInv'
      BY <1>1, <1>2, <1>3, <2>1 DEF EndInv, Resting
    <2>7. AttemptInv' /\ ApprovalInv'
      BY <1>1, <1>2, <1>3, <2>1, <2>3 DEF AttemptInv, ApprovalInv, ApprovedBy, Cleared, Resting, Current, history
    <2> QED BY <2>3, <2>4, <2>5, <2>6, <2>7 DEF LoopInv
  <1>4. CASE mem.status # "RUNNING"
    <2>1. Idle
      BY <1>4 DEF Save
    <2> QED BY <1>1, <1>2, <2>1, IdleKeeps
  <1> QED BY <1>3, <1>4

LEMMA CrashKeeps == LoopInv /\ Crash => LoopInv'
  <1> SUFFICES ASSUME LoopInv, Crash PROVE LoopInv'
    OBVIOUS
  <1>1. Idle /\ UNCHANGED <<row, tail, pauseReq, ledger, history>> /\ cuts < MaxCuts /\ cuts' = cuts + 1
    BY DEF Crash, Cut, db
  <1>2. /\ tail' \in Seq(Named) /\ pauseReq' \in BOOLEAN /\ cuts \in 0..MaxCuts /\ row \in Snapshot
    BY <1>1 DEF LoopInv, TypeOK, EndInv
  <1>3. cuts' \in 0..MaxCuts /\ Follows(row, row')
    BY <1>1, <1>2, Fields, LoopAssumption DEF Follows
  <1> QED BY <1>1, <1>2, <1>3, IdleKeeps

(* The execution goes on, with a snapshot like the one it has; the row may   *)
(* be saved.                                                                 *)
LEMMA MoveKeeps ==
    ASSUME LoopInv, row' \in {row, mem}, Follows(row, row'), mem' \in Snapshot, Alike(mem, mem'),
           pc' \in {"none", "chat", "loop", "go", "ledger", "finish", "commit", "memory", "stop",
                    "failed", "interrupted"},
           pc' \in {"loop", "go", "ledger"} => Elements(todo) \subseteq CallsOf(mem),
           pc' \in {"go", "ledger"} => todo # <<>>,
           pc' = "ledger" /\ Current.tool \in Sensitive => <<mem.round, Current.id>> \in granted,
           pc' \in {"commit", "memory", "stop"} => fate' \in Terminal,
           row'.round = mem.round, row'.calls = mem.calls,
           pauseReq' \in BOOLEAN, cuts' \in 0..MaxCuts, fate' \in Terminal \cup {"none"},
           UNCHANGED <<tail, ledger, todo, next, history>>
    PROVE  LoopInv'
  <1>1. TypeOK /\ LedgerInv /\ ExecutionInv /\ EndInv /\ AttemptInv /\ ApprovalInv
    BY DEF LoopInv
  <1>2. row \in Snapshot /\ row' \in Snapshot /\ mem \in Snapshot
    BY <1>1 DEF TypeOK
  <1>3. LedgerInv' /\ ExecutionsApproved'
    <2>1. row.round \in Nat /\ row'.round \in Nat
      BY <1>2, Fields
    <2> QED BY <2>1, RowAdvances DEF history
  <1>4. TypeOK'
    BY <1>1, <1>2 DEF TypeOK, history
  <1>5. /\ mem'.round = mem.round /\ mem'.calls = mem.calls /\ mem'.waiting = mem.waiting
        /\ mem'.approvals = mem.approvals /\ CallsOf(mem') = CallsOf(mem)
    BY DEF Alike, CallsOf
  <1>6. ExecutionInv'
    <2>1. Elements(row'.waiting) \subseteq CallsOf(row')
      BY <1>1 DEF ExecutionInv
    <2> QED BY <1>1, <1>5, <2>1 DEF ExecutionInv, Handling, AtCall, Resting
  <1>7. EndInv'
    BY <1>1 DEF EndInv, Resting
  <1>8. AttemptInv'
    BY DEF AttemptInv
  <1>9. ApprovalInv'
    <2>1. ApprovedBy(row)' /\ ApprovedBy(mem)'
      BY <1>1, <1>5 DEF ApprovalInv, ApprovedBy, history
    <2>2. Cleared' /\ Current'.tool \in Sensitive => <<mem'.round, Current'.id>> \in granted'
      BY <1>5 DEF Cleared, Resting, Current, history
    <2> QED BY <1>3, <2>1, <2>2 DEF ApprovalInv
  <1> QED BY <1>3, <1>4, <1>6, <1>7, <1>8, <1>9 DEF LoopInv

LEMMA AtRow ==
    ASSUME LoopInv, pc \notin {"none", "save"}
    PROVE  /\ mem \in Snapshot /\ row \in Snapshot /\ mem.round = row.round /\ mem.calls = row.calls
           /\ Follows(row, row) /\ Follows(row, mem) /\ Alike(mem, mem)
           /\ cuts \in 0..MaxCuts /\ fate \in Terminal \cup {"none"} /\ pauseReq \in BOOLEAN
  <1>1. /\ mem \in Snapshot /\ row \in Snapshot /\ mem.round = row.round /\ mem.calls = row.calls
        /\ cuts \in 0..MaxCuts /\ fate \in Terminal \cup {"none"} /\ pauseReq \in BOOLEAN
    BY DEF LoopInv, TypeOK, ExecutionInv
  <1>2. mem.round \in Nat /\ row.round \in Nat
    BY <1>1, Fields
  <1> QED BY <1>1, <1>2 DEF Follows, Alike

LEMMA RoundCompletedKeeps == LoopInv /\ RoundCompleted => LoopInv'
  <1> SUFFICES ASSUME LoopInv, RoundCompleted PROVE LoopInv'
    OBVIOUS
  <1>1. /\ pc = "loop" /\ mem' = [mem EXCEPT !.rem = Consumed(@)] /\ pc' = "chat"
        /\ UNCHANGED <<row, tail, pauseReq, ledger, todo, fate, next, cuts, history>>
    BY DEF RoundCompleted, db
  <1>2. mem.rem \in 0..MaxRounds /\ mem \in Snapshot
    BY <1>1, AtRow, Fields
  <1>3. Consumed(mem.rem) \in 0..MaxRounds
    BY <1>2, LoopAssumption DEF Consumed
  <1>4. mem' \in Snapshot
    BY <1>1, <1>2, <1>3, Updates
  <1>5. Alike(mem, mem')
    BY <1>1, <1>2 DEF Alike, Snapshot
  <1> QED BY <1>1, <1>4, <1>5, AtRow, MoveKeeps

LEMMA FinishKeeps == LoopInv /\ Finish => LoopInv'
  <1> SUFFICES ASSUME LoopInv, Finish PROVE LoopInv'
    OBVIOUS
  <1>1. /\ pc \in {"loop", "finish"} /\ mem' = [mem EXCEPT !.fin = TRUE] /\ pc' = "commit"
        /\ fate' \in Terminal
        /\ UNCHANGED <<row, tail, pauseReq, ledger, todo, next, cuts, history>>
    BY DEF Finish, Terminal, db
  <1>2. mem \in Snapshot
    BY <1>1, AtRow
  <1>3. mem' \in Snapshot
    BY <1>1, <1>2, Updates
  <1>4. Alike(mem, mem')
    BY <1>1, <1>2 DEF Alike, Snapshot
  <1> QED BY <1>1, <1>3, <1>4, AtRow, MoveKeeps

LEMMA CommitTranscriptKeeps == LoopInv /\ CommitTranscript => LoopInv'
  <1> SUFFICES ASSUME LoopInv, CommitTranscript PROVE LoopInv'
    OBVIOUS
  <1>1. /\ pc = "commit" /\ pc' \in {"memory", "stop"}
        /\ UNCHANGED <<row, tail, pauseReq, ledger, mem, todo, fate, next, cuts, history>>
    BY DEF CommitTranscript, Goto, db
  <1>2. fate \in Terminal
    BY <1>1 DEF LoopInv, EndInv
  <1> QED BY <1>1, <1>2, AtRow, MoveKeeps

LEMMA FaultKeeps == LoopInv /\ Fault => LoopInv'
  <1> SUFFICES ASSUME LoopInv, Fault PROVE LoopInv'
    OBVIOUS
  <1>1. /\ pc \in {"chat", "commit", "memory", "loop", "ledger"} /\ row' = mem /\ pc' = "failed"
        /\ UNCHANGED <<tail, pauseReq, ledger, mem, todo, fate, next, cuts, history>>
    BY DEF Fault, Goto, InLoop
  <1> QED BY <1>1, AtRow, MoveKeeps

LEMMA TimeoutKeeps == LoopInv /\ Timeout => LoopInv'
  <1> SUFFICES ASSUME LoopInv, Timeout PROVE LoopInv'
    OBVIOUS
  <1>1. /\ pc \in {"chat", "tool", "yield", "commit", "memory"} /\ row' = mem /\ pc' = "interrupted"
        /\ UNCHANGED <<tail, pauseReq, ledger, mem, todo, fate, next, history>>
        /\ cuts < MaxCuts /\ cuts' = cuts + 1
    BY DEF Timeout, Goto, Cut
  <1>2. cuts' \in 0..MaxCuts
    BY <1>1, AtRow, LoopAssumption
  <1> QED BY <1>1, <1>2, AtRow, MoveKeeps

LEMMA YieldedKeeps == LoopInv /\ Yielded => LoopInv'
  <1> SUFFICES ASSUME LoopInv, Yielded PROVE LoopInv'
    OBVIOUS
  <1>1. pc = "yield" /\ UNCHANGED <<row, pauseReq, ledger, cuts, history>>
    BY DEF Yielded
  <1>2. CASE RequestedAtYield
    <2>1. /\ pc' = "save" /\ mem' = PausedAt(mem) /\ tail' = Append(tail, Ev("paused"))
          /\ UNCHANGED <<todo, fate, next>>
      BY <1>2 DEF Yielded
    <2>2. TypeOK /\ LedgerInv /\ ExecutionInv /\ EndInv /\ ApprovalInv /\ mem \in Snapshot /\ row \in Snapshot
      BY DEF LoopInv, TypeOK
    <2>3. mem' \in Snapshot
      BY <2>1, <2>2, PausedType
    <2>4. Alike(mem, mem') /\ mem'.status = "PAUSED"
      BY <2>1, <2>2 DEF PausedAt, Alike, Snapshot
    <2>5. tail' \in Seq(Named)
      <3>1. Ev("paused") \in Named
        BY EventTypes
      <3> QED BY <2>1, <2>2, <3>1 DEF EndInv
    <2>6. TypeOK'
      BY <1>1, <2>1, <2>2, <2>3, <2>5, NamedAreEvents DEF TypeOK, history
    <2>7. LedgerInv' /\ ExecutionsApproved'
      BY <1>1, <2>2, Fields, RowAdvances DEF Follows, history
    <2>8. ExecutionInv'
      <3>1. CallsOf(mem') = CallsOf(mem) /\ mem'.round = mem.round /\ mem'.calls = mem.calls /\ mem'.waiting = mem.waiting
        BY <2>4 DEF Alike, CallsOf
      <3>2. Follows(row', mem')
        BY <1>1, <3>1, AtRow DEF Follows
      <3> QED BY <1>1, <2>1, <2>2, <2>4, <3>1, <3>2 DEF ExecutionInv, Handling, AtCall, Resting
    <2>9. EndInv' /\ AttemptInv'
      BY <2>1, <2>4, <2>5 DEF EndInv, AttemptInv, Resting
    <2>10. ApprovalInv'
      BY <1>1, <2>1, <2>2, <2>4, <2>7 DEF ApprovalInv, ApprovedBy, Alike, Cleared, Resting, history
    <2> QED BY <2>6, <2>7, <2>8, <2>9, <2>10 DEF LoopInv
  <1>3. CASE ~RequestedAtYield
    <2>1. pc' = next /\ UNCHANGED <<tail, mem, todo, fate, next>>
      BY <1>3 DEF Yielded, Goto
    <2>2. next \in {"none", "chat", "loop", "go", "ledger", "finish", "stop"}
      BY DEF LoopInv, TypeOK
    <2>3. /\ next \in {"loop", "go", "ledger"} => Elements(todo) \subseteq CallsOf(mem)
          /\ next \in {"go", "ledger"} => todo # <<>>
      BY <1>1 DEF LoopInv, ExecutionInv, Handling, AtCall, Resting
    <2>4. next = "ledger" /\ Current.tool \in Sensitive => <<mem.round, Current.id>> \in granted
      BY <1>1 DEF LoopInv, ApprovalInv, Cleared, Resting
    <2>5. next = "stop" => fate \in Terminal
      BY <1>1 DEF LoopInv, EndInv, Resting
    <2> QED BY <1>1, <2>1, <2>2, <2>3, <2>4, <2>5, AtRow, MoveKeeps
  <1> QED BY <1>2, <1>3

-----------------------------------------------------------------------------
(* The attempts at a call.                                                   *)

(* The latest attempt of the round is the last there is.                     *)
LEMMA LatestIsLast ==
    ASSUME TypeOK, AttemptsOrdered, AttemptsOfRow, NEW id \in Ids, Tried(ledger, id, row.round)
    PROVE  /\ Len(ledger[id]) \in 1..Len(ledger[id]) /\ Latest(ledger, id, row.round) = Last(ledger[id])
           /\ Last(ledger[id]) = ledger[id][Len(ledger[id])] /\ Last(ledger[id]).round = row.round
  <1> DEFINE S == AttemptsOf(ledger, id, row.round)
             n == Len(ledger[id])
             m == Max(S)
  <1>1. n \in Nat /\ DOMAIN ledger[id] = 1..n /\ \A x \in 1..n : ledger[id][x].round \in Nat
    BY LedgerTypes
  <1>2. S \in SUBSET (1..n) /\ S # {}
    BY <1>1 DEF AttemptsOf, Tried
  <1>3. m \in S /\ \A x \in S : x <= m
    <2> HIDE DEF S
    <2> QED BY <1>1, <1>2, MaxOfIndices
  <1>4. m \in 1..n /\ ledger[id][m].round = row.round
    BY <1>1, <1>3 DEF AttemptsOf
  <1>5. m = n
    <2> SUFFICES ASSUME m < n PROVE FALSE
      BY <1>1, <1>4
    <2>1. n \in 1..n
      BY <1>1, <1>4
    <2> HIDE DEF m, n, S
    <2>2. ledger[id][m].round <= ledger[id][n].round
      BY <1>1, <1>4, <2>1 DEF AttemptsOrdered
    <2>3. ledger[id][n].round <= row.round
      BY <1>1, <2>1 DEF AttemptsOfRow
    <2>4. ledger[id][n].round = row.round
      BY <1>1, <1>4, <2>1, <2>2, <2>3
    <2>5. n \in S
      BY <1>1, <2>1, <2>4 DEF S, AttemptsOf
    <2> QED BY <1>1, <1>3, <1>4, <2>5
  <1> QED BY <1>1, <1>4, <1>5 DEF Latest, Last

LEMMA OneToolPerId ==
    ASSUME NEW s \in Snapshot, NEW c \in CallsOf(s), NEW d \in CallsOf(s), c.id = d.id
    PROVE  c = d
  <1>1. s.calls \in Responses \cup {<<>>}
    BY Fields
  <1>2. PICK i, j \in 1..Len(s.calls) : c = s.calls[i] /\ d = s.calls[j]
    BY DEF CallsOf
  <1>3. CASE s.calls \in Responses
    <2>1. i = j
      BY <1>2, <1>3, LoopAssumption
    <2> QED BY <1>2, <2>1
  <1>4. CASE s.calls = <<>>
    BY <1>2, <1>4
  <1> QED BY <1>1, <1>3, <1>4

LEMMA SetLastIs ==
    ASSUME TypeOK, NEW id \in Ids, ledger[id] # <<>>,
           NEW status \in {"SCHEDULED", "STARTED", "COMPLETED", "FAILED", "UNKNOWN"},
           NEW L, L = SetLast(id, status), NEW n, n = Len(ledger[id])
    PROVE  /\ L \in [Ids -> Seq(Attempt)] /\ n \in 1..n
           /\ \A i \in Ids : Len(L[i]) = Len(ledger[i])
           /\ \A i \in Ids : \A x \in 1..Len(ledger[i]) : i # id \/ x # n => L[i][x] = ledger[i][x]
           /\ L[id][n].status = status
           /\ L[id][n].round = ledger[id][n].round /\ L[id][n].tool = ledger[id][n].tool
           /\ L[id][n].resolution = ledger[id][n].resolution
  <1> DEFINE a == [ledger[id][n] EXCEPT !.status = status]
             q == [ledger[id] EXCEPT ![n] = a]
  <1>1. ledger \in [Ids -> Seq(Attempt)] /\ n \in 1..n /\ ledger[id] \in Seq(Attempt) /\ ledger[id][n] \in Attempt
    BY LedgerTypes DEF TypeOK
  <1>2. /\ a \in Attempt /\ a.status = status /\ a.round = ledger[id][n].round /\ a.tool = ledger[id][n].tool
        /\ a.resolution = ledger[id][n].resolution
    BY <1>1 DEF Attempt
  <1>3. L = [ledger EXCEPT ![id] = q]
    BY DEF SetLast
  <1> HIDE DEF a
  <1>4. q \in Seq(Attempt) /\ Len(q) = n /\ \A x \in 1..n : q[x] = IF x = n THEN a ELSE ledger[id][x]
    BY <1>1, <1>2
  <1> HIDE DEF q
  <1>5. L \in [Ids -> Seq(Attempt)] /\ L[id] = q /\ \A i \in Ids : i # id => L[i] = ledger[i]
    BY <1>1, <1>3, <1>4
  <1>6. L[id][n] = a
    BY <1>1, <1>4, <1>5
  <1>7. \A i \in Ids : Len(L[i]) = Len(ledger[i])
    BY <1>4, <1>5
  <1>8. \A i \in Ids : \A x \in 1..Len(ledger[i]) : i # id \/ x # n => L[i][x] = ledger[i][x]
    BY <1>4, <1>5
  <1> QED BY <1>1, <1>2, <1>5, <1>6, <1>7, <1>8

LEMMA SetLastRelabels ==
    ASSUME TypeOK, NEW id \in Ids, ledger[id] # <<>>,
           NEW status \in {"SCHEDULED", "STARTED", "COMPLETED", "FAILED", "UNKNOWN"},
           ledger' = SetLast(id, status)
    PROVE  Relabels(ledger, ledger')
  <1> DEFINE n == Len(ledger[id])
  <1>1. /\ \A i \in Ids : Len(ledger'[i]) = Len(ledger[i])
        /\ \A i \in Ids : \A x \in 1..Len(ledger[i]) : i # id \/ x # n => ledger'[i][x] = ledger[i][x]
        /\ ledger'[id][n].round = ledger[id][n].round /\ ledger'[id][n].tool = ledger[id][n].tool
    BY SetLastIs
  <1> SUFFICES ASSUME NEW i \in Ids, NEW x \in 1..Len(ledger[i])
               PROVE  /\ ledger'[i][x].round = ledger[i][x].round /\ ledger'[i][x].tool = ledger[i][x].tool
                      /\ x # Len(ledger[i]) /\ Superseded(ledger[i][x]) => Superseded(ledger'[i][x])
    BY <1>1 DEF Relabels
  <1>2. CASE i = id /\ x = n
    BY <1>1, <1>2
  <1>3. CASE ~(i = id /\ x = n)
    BY <1>1, <1>3
  <1> QED BY <1>2, <1>3

(* A step of the ledger, while the execution is at a call.                   *)
LEMMA LedgerStepKeeps ==
    ASSUME LoopInv, pc \in {"ledger", "begin", "tool"}, pc' \in {"begin", "tool", "report"},
           pc' = "begin" => pc = "ledger",
           LedgerInv', ExecutionsApproved', AttemptInv',
           ledger' \in [Ids -> Seq(Attempt)], execs' \in [Keys -> Nat],
           UNCHANGED <<row, tail, pauseReq, mem, todo, fate, next, cuts, granted, told, erred>>
    PROVE  LoopInv'
  <1>1. TypeOK /\ ExecutionInv /\ EndInv /\ ApprovalInv
    BY DEF LoopInv
  <1>2. TypeOK'
    BY <1>1 DEF TypeOK
  <1>3. ExecutionInv'
    BY <1>1 DEF ExecutionInv, Handling, AtCall, Resting
  <1>4. EndInv'
    BY <1>1 DEF EndInv, Resting
  <1>5. ApprovalInv'
    <2>1. ApprovedBy(row)' /\ ApprovedBy(mem)'
      BY <1>1 DEF ApprovalInv, ApprovedBy
    <2>2. Cleared' => Cleared
      BY DEF Cleared, Resting
    <2> QED BY <1>1, <2>1, <2>2 DEF ApprovalInv, Current
  <1> QED BY <1>2, <1>3, <1>4, <1>5 DEF LoopInv

LEMMA ScheduleKeeps == LoopInv /\ Schedule => LoopInv'
  <1> SUFFICES ASSUME LoopInv, Schedule PROVE LoopInv'
    OBVIOUS
  <1> DEFINE id == Current.id
             n == Len(ledger[id])
             a == [round |-> mem.round, tool |-> Current.tool, status |-> "SCHEDULED", resolution |-> "none"]
  <1>1. /\ pc = "ledger" /\ pc' = "begin" /\ UNCHANGED <<mem, todo, fate, next>>
        /\ UNCHANGED <<row, tail, pauseReq, cuts, granted, execs, told, erred>>
    BY DEF Schedule, Goto, history
  <1>2. TypeOK /\ LedgerInv /\ AttemptsOrdered /\ AttemptsOfRow /\ ExecutionsApproved /\ ExecutionInv /\ ApprovalInv
    BY DEF LoopInv, LedgerInv, ApprovalInv
  <1>3. /\ mem \in Snapshot /\ row \in Snapshot /\ mem.round = row.round /\ mem.calls = row.calls
        /\ Current \in CallsOf(row) /\ id \in Ids /\ Current.tool \in Tools /\ mem.round \in Nat
    <2>1. todo # <<>>
      BY <1>1, <1>2 DEF ExecutionInv, AtCall
    <2> QED BY <1>1, <2>1, AtTheCall, Fields DEF CallsOf
  <1>4. ledger[id] \in Seq(Attempt) /\ n \in Nat /\ a \in Attempt
    BY <1>2, <1>3, LedgerTypes DEF Attempt
  <1>5. Tried(ledger, id, row.round) =>
          /\ n \in 1..n /\ Outcome = Last(ledger[id]) /\ Last(ledger[id]) = ledger[id][n] /\ ledger[id][n].round = row.round
    BY <1>2, <1>3, LatestIsLast DEF Outcome
  <1> HIDE DEF a, n
  <1>6. CASE Tries /\ ledger' = [ledger EXCEPT ![id] = Append(@, a)]
    <2> HIDE DEF id
    <2>0. /\ ledger' \in [Ids -> Seq(Attempt)] /\ ledger'[id] = Append(ledger[id], a)
          /\ \A i \in Ids : i # id => ledger'[i] = ledger[i]
      BY <1>2, <1>3, <1>4, <1>6 DEF TypeOK
    <2>1. /\ Len(ledger'[id]) = n + 1 /\ DOMAIN ledger'[id] = 1..(n + 1) /\ ledger'[id][n + 1] = a
          /\ \A x \in 1..n : ledger'[id][x] = ledger[id][x]
      BY <1>4, <2>0 DEF n
    <2>2. DOMAIN ledger[id] = 1..n /\ \A x \in 1..n : ledger[id][x].round \in Nat
      BY <1>2, <1>3, LedgerTypes DEF n
    <2>3. a.round = row.round /\ a.tool = Current.tool /\ a.status = "SCHEDULED"
      BY <1>3 DEF a
    <2>4. \A x \in 1..n : ledger[id][x].round = row.round =>
                            Superseded(ledger[id][x]) /\ ledger[id][x].tool = Current.tool
      <3> SUFFICES ASSUME NEW x \in 1..n, ledger[id][x].round = row.round
                   PROVE  Superseded(ledger[id][x]) /\ ledger[id][x].tool = Current.tool
        OBVIOUS
      <3>1. Tried(ledger, id, row.round)
        BY <2>2 DEF Tried, AttemptsOf
      <3>2. ledger[id][x].tool = Current.tool
        <4>1. [id |-> id, tool |-> ledger[id][x].tool] \in CallsOf(row)
          BY <1>2, <1>3, <2>2 DEF AttemptsOfRow
        <4>2. [id |-> id, tool |-> ledger[id][x].tool] = Current
          BY <1>3, <4>1, OneToolPerId DEF id
        <4> QED BY <4>2
      <3>3. CASE x = n
        <4>1. Outcome.status \in {"STARTED", "UNKNOWN"} /\ Replayable(Outcome)
          BY <1>3, <1>6, <3>1 DEF Tries, id
        <4>2. Outcome = ledger[id][x]
          BY <1>5, <3>1, <3>3
        <4> QED BY <3>2, <4>1, <4>2 DEF Replayable, Superseded
      <3>4. CASE x < n
        <4>1. ledger[id][n].round = row.round /\ n \in 1..n
          BY <1>5, <3>1
        <4> QED BY <1>2, <1>3, <2>2, <3>2, <3>4, <4>1 DEF AttemptsOrdered
      <3> QED BY <1>4, <3>3, <3>4
    <2>5. AttemptsOrdered'
      <3>1. ASSUME NEW x \in 1..(n + 1), NEW y \in 1..(n + 1), x < y
            PROVE  /\ ledger'[id][x].round <= ledger'[id][y].round
                   /\ ledger'[id][x].round = ledger'[id][y].round =>
                        Superseded(ledger'[id][x]) /\ ledger'[id][x].tool = ledger'[id][y].tool
        <4>1. CASE y = n + 1
          <5>1. x \in 1..n /\ ledger'[id][x] = ledger[id][x] /\ ledger'[id][y] = a
            BY <1>4, <2>1, <3>1, <4>1
          <5>2. ledger[id][x].round <= row.round
            BY <1>2, <1>3, <2>2, <5>1 DEF AttemptsOfRow
          <5> QED BY <2>3, <2>4, <5>1, <5>2
        <4>2. CASE y # n + 1
          <5>1. x \in 1..n /\ y \in 1..n /\ ledger'[id][x] = ledger[id][x] /\ ledger'[id][y] = ledger[id][y]
            BY <1>4, <2>1, <3>1, <4>2
          <5> QED BY <1>2, <1>3, <2>2, <3>1, <5>1 DEF AttemptsOrdered
        <4> QED BY <4>1, <4>2
      <3> SUFFICES ASSUME NEW i \in Ids, NEW x \in DOMAIN ledger'[i], NEW y \in DOMAIN ledger'[i], x < y
                   PROVE  /\ ledger'[i][x].round <= ledger'[i][y].round
                          /\ ledger'[i][x].round = ledger'[i][y].round =>
                               Superseded(ledger'[i][x]) /\ ledger'[i][x].tool = ledger'[i][y].tool
        BY DEF AttemptsOrdered
      <3>2. CASE i = id
        BY <2>1, <3>1, <3>2
      <3>3. CASE i # id
        BY <1>2, <2>0, <3>3 DEF AttemptsOrdered
      <3> QED BY <3>2, <3>3
    <2>6. AttemptsOfRow'
      <3>1. ASSUME NEW x \in 1..(n + 1)
            PROVE  /\ ledger'[id][x].round <= row.round
                   /\ ledger'[id][x].round = row.round => [id |-> id, tool |-> ledger'[id][x].tool] \in CallsOf(row)
        <4>1. CASE x = n + 1
          <5>1. [id |-> id, tool |-> Current.tool] = Current
            <6>1. Current \in Call
              <7>1. todo \in Seq(Call) /\ todo # <<>>
                BY <1>1, <1>2 DEF TypeOK, ExecutionInv, AtCall
              <7> QED BY <7>1, HeadTypes DEF Current
            <6> QED BY <6>1 DEF Call, id
          <5> QED BY <1>3, <2>1, <2>3, <4>1, <5>1
        <4>2. CASE x # n + 1
          <5>1. x \in 1..n /\ ledger'[id][x] = ledger[id][x]
            BY <1>4, <2>1, <4>2
          <5> QED BY <1>2, <1>3, <2>2, <5>1 DEF AttemptsOfRow
        <4> QED BY <4>1, <4>2
      <3> QED BY <1>1, <1>2, <2>0, <2>1, <3>1 DEF AttemptsOfRow
    <2>7. ExecutionsApproved'
      <3>1. Current.tool \in Sensitive => <<row.round, id>> \in granted
        BY <1>1, <1>2, <1>3 DEF ApprovalInv, Cleared, id
      <3>2. \A x \in 1..(n + 1) : x = n + 1 \/ (x \in 1..n /\ ledger'[id][x] = ledger[id][x])
        BY <1>4, <2>1
      <3> QED BY <1>1, <1>2, <1>3, <2>0, <2>1, <2>2, <2>3, <3>1, <3>2 DEF ExecutionsApproved
    <2>8. ExecutionsRecorded'
      <3>1. ASSUME NEW k \in Keys PROVE Begun(k)' = Begun(k)
        <4>1. k[2] \in Ids
          BY DEF Keys
        <4>2. CASE k[2] = id
          <5>1. \A x \in 1..(n + 1) : x = n + 1 \/ (x \in 1..n /\ ledger'[id][x] = ledger[id][x])
            BY <1>4, <2>1
          <5>2. n + 1 \notin Begun(k)' /\ n + 1 \notin Begun(k)
            BY <1>4, <2>1, <2>2, <2>3, <4>2 DEF Begun, AttemptsOf
          <5>3. Begun(k) \subseteq 1..n /\ Begun(k)' \subseteq 1..(n + 1)
            BY <2>1, <2>2, <4>2 DEF Begun, AttemptsOf
          <5>4. \A x \in 1..n : x \in Begun(k)' <=> x \in Begun(k)
            BY <1>4, <2>1, <2>2, <4>2 DEF Begun, AttemptsOf
          <5> QED BY <1>4, <5>1, <5>2, <5>3, <5>4
        <4>3. CASE k[2] # id
          BY <2>0, <4>1, <4>3 DEF Begun, AttemptsOf
        <4> QED BY <4>2, <4>3
      <3> QED BY <1>1, <1>2, <3>1, RecordedKept
    <2>9. AttemptInv'
      <3>1. Current' = Current
        BY <1>1 DEF Current
      <3>2. ledger'[Current.id] # <<>> /\ Last(ledger'[Current.id]) = a
        BY <1>4, <2>0, <2>1 DEF Last, id
      <3> QED BY <1>1, <1>3, <2>3, <3>1, <3>2 DEF AttemptInv, LastIs
    <2> QED BY <1>1, <1>2, <2>0, <2>5, <2>6, <2>7, <2>8, <2>9, LedgerStepKeeps DEF LedgerInv, TypeOK
  <1>7. CASE Tried(ledger, id, mem.round) /\ Outcome.status = "SCHEDULED" /\ UNCHANGED ledger
    <2>1. LedgerInv' /\ ExecutionsApproved'
      <3>1. row.round \in Nat /\ Follows(row, row')
        BY <1>1, <1>3 DEF Follows
      <3> QED BY <1>1, <1>7, <3>1, RowAdvances
    <2>2. AttemptInv'
      <3>1. Current' = Current
        BY <1>1 DEF Current
      <3>2. ledger[id] # <<>> /\ Last(ledger[id]).status = "SCHEDULED" /\ Last(ledger[id]).round = mem.round
        BY <1>3, <1>4, <1>5, <1>7 DEF n
      <3> QED BY <1>1, <1>7, <3>1, <3>2 DEF AttemptInv, LastIs
    <2> QED BY <1>1, <1>2, <1>7, <2>1, <2>2, LedgerStepKeeps DEF TypeOK
  <1> QED BY <1>6, <1>7 DEF Schedule, a

LEMMA ToolReturnsKeeps == LoopInv /\ ToolReturns => LoopInv'
  <1> SUFFICES ASSUME LoopInv, ToolReturns PROVE LoopInv'
    OBVIOUS
  <1> DEFINE id == Current.id
             n == Len(ledger[id])
  <1>1. /\ pc = "tool" /\ pc' = "report" /\ UNCHANGED <<mem, todo, fate, next>>
        /\ UNCHANGED <<row, tail, pauseReq, cuts, granted, execs, told, erred>>
    BY DEF ToolReturns, Goto, history
  <1>2. PICK status \in {"COMPLETED", "FAILED"} : ledger' = SetLast(id, status)
    BY DEF ToolReturns
  <1>3. TypeOK /\ LedgerInv /\ ExecutionInv /\ LastIs("STARTED")
    BY <1>1 DEF LoopInv, AttemptInv
  <1>4. id \in Ids /\ row \in Snapshot
    <2>1. todo # <<>>
      BY <1>1, <1>3 DEF ExecutionInv, AtCall
    <2> QED BY <1>1, <2>1, AtTheCall
  <1>5. ledger[id] # <<>> /\ ledger[id][n].status = "STARTED"
    BY <1>3, <1>4 DEF LastIs, Last
  <1> HIDE DEF id, n
  <1>6. /\ ledger' \in [Ids -> Seq(Attempt)] /\ n \in 1..n
        /\ \A i \in Ids : \A x \in 1..Len(ledger[i]) : i # id \/ x # n => ledger'[i][x] = ledger[i][x]
        /\ ledger'[id][n].status = status
    BY <1>2, <1>3, <1>4, <1>5, SetLastIs DEF n
  <1>7. Relabels(ledger, ledger')
    BY <1>2, <1>3, <1>4, <1>5, SetLastRelabels
  <1>8. AttemptsOrdered' /\ AttemptsOfRow' /\ ExecutionsApproved'
    <2>1. row.round \in Nat /\ Follows(row, row')
      BY <1>1, <1>4, Fields DEF Follows
    <2> QED BY <1>1, <1>6, <1>7, <2>1, RelabelKeeps
  <1>9. ExecutionsRecorded'
    <2>1. \A i \in Ids : \A x \in 1..Len(ledger[i]) :
            ledger'[i][x].status = "SCHEDULED" <=> ledger[i][x].status = "SCHEDULED"
      BY <1>5, <1>6
    <2> QED BY <1>1, <1>3, <1>6, <1>7, <2>1, RelabelRecords
  <1>10. AttemptInv'
    BY <1>1 DEF AttemptInv
  <1>11. execs' \in [Keys -> Nat]
    BY <1>1, <1>3 DEF TypeOK
  <1> QED BY <1>1, <1>6, <1>8, <1>9, <1>10, <1>11, LedgerStepKeeps DEF LedgerInv

LEMMA BegunFinite ==
    ASSUME TypeOK, NEW k \in Keys
    PROVE  IsFiniteSet(Begun(k)) /\ Cardinality(Begun(k)) \in Nat
  <1>1. k[2] \in Ids
    BY DEF Keys
  <1>2. Len(ledger[k[2]]) \in Nat /\ Begun(k) \subseteq 1..Len(ledger[k[2]])
    BY <1>1, LedgerTypes DEF Begun, AttemptsOf
  <1>3. IsFiniteSet(Begun(k))
    <2>1. IsFiniteSet(1..Len(ledger[k[2]]))
      BY <1>2, FS_Interval
    <2> QED BY <1>2, <2>1, FS_Subset
  <1> QED BY <1>3, FS_CardinalityType

(* The attempt that was scheduled has begun: the execution is recorded.      *)
LEMMA BeginToolKeeps == LoopInv /\ BeginTool => LoopInv'
  <1> SUFFICES ASSUME LoopInv, BeginTool PROVE LoopInv'
    OBVIOUS
  <1> DEFINE id == Current.id
             n == Len(ledger[id])
  <1>1. /\ pc = "begin" /\ pc' = "tool" /\ UNCHANGED <<mem, todo, fate, next>>
        /\ UNCHANGED <<row, tail, pauseReq, cuts, granted, told, erred>>
        /\ ledger' = SetLast(id, "STARTED") /\ execs' = [execs EXCEPT ![Key] = @ + 1]
    BY DEF BeginTool, Goto
  <1>2. /\ TypeOK /\ LedgerInv /\ ExecutionInv /\ LastIs("SCHEDULED") /\ execs \in [Keys -> Nat]
        /\ ledger \in [Ids -> Seq(Attempt)]
    BY <1>1 DEF LoopInv, AttemptInv, TypeOK
  <1>3. id \in Ids /\ row \in Snapshot
    <2>1. todo # <<>>
      BY <1>1, <1>2 DEF ExecutionInv, AtCall
    <2> QED BY <1>1, <2>1, AtTheCall
  <1>4. ledger[id] # <<>> /\ ledger[id][n].status = "SCHEDULED" /\ ledger[id][n].round = mem.round
    BY <1>2, <1>3 DEF LastIs, Last
  <1>5. Key = <<mem.round, id>> /\ Current' = Current
    BY <1>1 DEF Key, Current
  <1> HIDE DEF id, n
  <1>6. /\ ledger' \in [Ids -> Seq(Attempt)] /\ n \in 1..n /\ \A i \in Ids : Len(ledger'[i]) = Len(ledger[i])
        /\ \A i \in Ids : \A x \in 1..Len(ledger[i]) : i # id \/ x # n => ledger'[i][x] = ledger[i][x]
        /\ ledger'[id][n].status = "STARTED" /\ ledger'[id][n].round = mem.round
    <2>1. PICK L, k : L = ledger' /\ k = Len(ledger[id])
      OBVIOUS
    <2>2. /\ L \in [Ids -> Seq(Attempt)] /\ k \in 1..k /\ \A i \in Ids : Len(L[i]) = Len(ledger[i])
          /\ \A i \in Ids : \A x \in 1..Len(ledger[i]) : i # id \/ x # k => L[i][x] = ledger[i][x]
          /\ L[id][k].status = "STARTED" /\ L[id][k].round = ledger[id][k].round
      BY <1>1, <1>2, <1>3, <1>4, <2>1, SetLastIs
    <2> QED BY <1>4, <2>1, <2>2 DEF n
  <1>7. Relabels(ledger, ledger')
    BY <1>1, <1>2, <1>3, <1>4, SetLastRelabels
  <1>8. AttemptsOrdered' /\ AttemptsOfRow' /\ ExecutionsApproved'
    <2>1. row.round \in Nat /\ Follows(row, row')
      BY <1>1, <1>3, Fields DEF Follows
    <2> QED BY <1>1, <1>6, <1>7, <2>1, RelabelKeeps
  <1>9. ExecutionsRecorded'
    <2> SUFFICES ASSUME NEW k \in Keys PROVE execs'[k] <= Cardinality(Begun(k)')
      BY DEF ExecutionsRecorded
    <2>1. k[2] \in Ids /\ k = <<k[1], k[2]>>
      BY DEF Keys
    <2>2. /\ DOMAIN ledger[k[2]] = 1..Len(ledger[k[2]]) /\ DOMAIN ledger'[k[2]] = 1..Len(ledger[k[2]])
          /\ Len(ledger[k[2]]) \in Nat
      <3>1. ledger'[k[2]] \in Seq(Attempt) /\ Len(ledger'[k[2]]) = Len(ledger[k[2]])
        BY <1>6, <2>1
      <3> QED BY <1>2, <2>1, <3>1, LedgerTypes
    <2>3. IsFiniteSet(Begun(k)) /\ Cardinality(Begun(k)) \in Nat /\ execs[k] <= Cardinality(Begun(k))
      BY <1>2, BegunFinite DEF LedgerInv, ExecutionsRecorded
    <2>4. CASE k = Key
      <3>1. k[1] = mem.round /\ k[2] = id
        BY <1>5, <2>4
      <3>2. n \notin Begun(k)
        BY <1>4, <3>1 DEF Begun, AttemptsOf
      <3>3. ASSUME NEW x \in 1..n, x # n PROVE x \in Begun(k)' <=> x \in Begun(k)
        <4>1. ledger'[k[2]][x] = ledger[k[2]][x] /\ x \in DOMAIN ledger[k[2]] /\ x \in DOMAIN ledger'[k[2]]
          BY <1>3, <1>6, <2>2, <3>1, <3>3 DEF n
        <4> QED BY <4>1 DEF Begun, AttemptsOf
      <3>4. Begun(k) \subseteq 1..n /\ Begun(k)' \subseteq 1..n
        BY <2>2, <3>1 DEF Begun, AttemptsOf, n
      <3>5. n \in Begun(k)'
        BY <1>6, <2>2, <3>1 DEF Begun, AttemptsOf, n
      <3>6. Begun(k)' = Begun(k) \cup {n}
        BY <1>6, <3>3, <3>4, <3>5
      <3>7. Cardinality(Begun(k) \cup {n}) = Cardinality(Begun(k)) + 1
        BY <2>3, <3>2, FS_AddElement
      <3>8. execs'[k] = execs[k] + 1 /\ execs[k] \in Nat
        BY <1>1, <1>2, <2>4
      <3> QED BY <2>3, <3>6, <3>7, <3>8
    <2>5. CASE k # Key
      <3>1. execs'[k] = execs[k]
        BY <1>1, <1>2, <2>5
      <3>2. k[2] # id \/ k[1] # mem.round
        BY <1>5, <2>1, <2>5
      <3>3. \A x \in 1..Len(ledger[k[2]]) : x \in Begun(k)' <=> x \in Begun(k)
        BY <1>4, <1>6, <2>1, <2>2, <3>2 DEF Begun, AttemptsOf
      <3>4. Begun(k) \subseteq 1..Len(ledger[k[2]]) /\ Begun(k)' \subseteq 1..Len(ledger[k[2]])
        BY <2>2 DEF Begun, AttemptsOf
      <3>5. Begun(k)' = Begun(k)
        BY <3>3, <3>4
      <3> QED BY <2>3, <3>1, <3>5
    <2> QED BY <2>4, <2>5
  <1>10. AttemptInv'
    <2>1. ledger'[id] # <<>> /\ Last(ledger'[id]) = ledger'[id][n]
      BY <1>3, <1>6 DEF Last, n
    <2> QED BY <1>1, <1>5, <1>6, <2>1 DEF AttemptInv, LastIs, id
  <1>11. execs' \in [Keys -> Nat]
    BY <1>1, <1>2, CountTypes
  <1> QED BY <1>1, <1>6, <1>8, <1>9, <1>10, <1>11, LedgerStepKeeps DEF LedgerInv

-----------------------------------------------------------------------------
(* Interruption, recovery and the operators.                                 *)

LEMMA MarkUnknownRelabels ==
    ASSUME TypeOK, ledger' = MarkUnknown
    PROVE  /\ ledger' \in [Ids -> Seq(Attempt)] /\ Relabels(ledger, ledger')
           /\ \A id \in Ids : \A n \in 1..Len(ledger[id]) :
                ledger'[id][n].status = "SCHEDULED" <=> ledger[id][n].status = "SCHEDULED"
  <1> DEFINE Marked(a) == IF a.status = "STARTED" THEN [a EXCEPT !.status = "UNKNOWN"] ELSE a
  <1>1. ASSUME NEW id \in Ids
        PROVE  /\ ledger'[id] \in Seq(Attempt) /\ Len(ledger'[id]) = Len(ledger[id])
               /\ \A n \in 1..Len(ledger[id]) :
                    ledger[id][n] \in Attempt /\ ledger'[id][n] = Marked(ledger[id][n])
    <2>1. ledger[id] \in Seq(Attempt) /\ DOMAIN ledger[id] = 1..Len(ledger[id]) /\ Len(ledger[id]) \in Nat
      BY LedgerTypes
    <2>2. \A n \in 1..Len(ledger[id]) : ledger[id][n] \in Attempt
      BY <2>1
    <2>3. ledger'[id] = [n \in 1..Len(ledger[id]) |-> Marked(ledger[id][n])]
      BY <2>1 DEF MarkUnknown
    <2>4. \A a \in Attempt : Marked(a) \in Attempt
      BY DEF Attempt
    <2> HIDE DEF Marked
    <2> QED BY <2>1, <2>2, <2>3, <2>4
  <1>2. \A a \in Attempt : /\ Marked(a).round = a.round /\ Marked(a).tool = a.tool
                           /\ Marked(a).resolution = a.resolution
                           /\ Marked(a).status = IF a.status = "STARTED" THEN "UNKNOWN" ELSE a.status
    BY DEF Attempt
  <1> HIDE DEF Marked
  <1>3. ledger' \in [Ids -> Seq(Attempt)]
    BY <1>1 DEF MarkUnknown
  <1>4. Relabels(ledger, ledger')
    BY <1>1, <1>2 DEF Relabels, Superseded
  <1>5. \A id \in Ids : \A n \in 1..Len(ledger[id]) :
          ledger'[id][n].status = "SCHEDULED" <=> ledger[id][n].status = "SCHEDULED"
    BY <1>1, <1>2
  <1> QED BY <1>3, <1>4, <1>5

(* The ledger with what was under way unknown, under a later row.            *)
LEMMA ReconciledKeeps ==
    ASSUME LoopInv, ledger' = MarkUnknown, row.round \in Nat, row'.round \in Nat, Follows(row, row'),
           granted' = granted, execs' = execs
    PROVE  ledger' \in [Ids -> Seq(Attempt)] /\ LedgerInv' /\ ExecutionsApproved'
  <1>1. TypeOK /\ LedgerInv
    BY DEF LoopInv
  <1>2. /\ ledger' \in [Ids -> Seq(Attempt)] /\ Relabels(ledger, ledger')
        /\ \A id \in Ids : \A n \in 1..Len(ledger[id]) :
             ledger'[id][n].status = "SCHEDULED" <=> ledger[id][n].status = "SCHEDULED"
    BY <1>1, MarkUnknownRelabels
  <1>3. AttemptsOrdered' /\ AttemptsOfRow' /\ ExecutionsApproved'
    BY <1>2, RelabelKeeps
  <1>4. ExecutionsRecorded'
    BY <1>1, <1>2, RelabelRecords
  <1> QED BY <1>2, <1>3, <1>4 DEF LedgerInv

LEMMA MarkInterruptedKeeps == LoopInv /\ MarkInterrupted => LoopInv'
  <1> SUFFICES ASSUME LoopInv, MarkInterrupted PROVE LoopInv'
    OBVIOUS
  <1>1. /\ pc' = "save" /\ ledger' = MarkUnknown /\ mem' = Interrupted(ledger', Restored(row))
        /\ tail' = Append(tail, Ev("paused"))
        /\ UNCHANGED <<row, pauseReq, todo, fate, next, cuts, granted, execs, told, erred>>
    BY DEF MarkInterrupted, history
  <1>2. TypeOK /\ ExecutionInv /\ EndInv /\ ApprovalInv /\ row \in Snapshot
    BY DEF LoopInv, TypeOK
  <1>3. /\ mem' \in Snapshot /\ mem'.approvals = row.approvals /\ Follows(row, mem')
        /\ Elements(mem'.waiting) \subseteq CallsOf(mem') /\ mem'.status # "RUNNING"
    BY <1>1, InterruptedFollows
  <1>4. ledger' \in [Ids -> Seq(Attempt)] /\ LedgerInv' /\ ExecutionsApproved'
    <2>1. row.round \in Nat /\ Follows(row, row')
      BY <1>1, <1>2, Fields DEF Follows
    <2> QED BY <1>1, <2>1, ReconciledKeeps
  <1>5. tail' \in Seq(Named)
    <2>1. Ev("paused") \in Named
      BY EventTypes
    <2> QED BY <1>1, <1>2, <2>1 DEF EndInv
  <1>6. TypeOK'
    BY <1>1, <1>2, <1>3, <1>4, <1>5, NamedAreEvents DEF TypeOK
  <1>7. ExecutionInv'
    BY <1>1, <1>2, <1>3 DEF ExecutionInv, Handling, AtCall, Resting
  <1>8. EndInv' /\ AttemptInv'
    BY <1>1, <1>3, <1>5 DEF EndInv, AttemptInv, Resting
  <1>9. ApprovalInv'
    <2>1. ApprovedBy(row)' /\ ApprovedBy(mem)'
      BY <1>1, <1>2, <1>3 DEF ApprovalInv, ApprovedBy
    <2>2. ~Cleared'
      BY <1>1, <1>3 DEF Cleared, Resting
    <2> QED BY <1>4, <2>1, <2>2 DEF ApprovalInv
  <1> QED BY <1>4, <1>6, <1>7, <1>8, <1>9 DEF LoopInv

LEMMA RecoverKeeps == LoopInv /\ Recover => LoopInv'
  <1> SUFFICES ASSUME LoopInv, Recover PROVE LoopInv'
    OBVIOUS
  <1>1. /\ pc' = "none" /\ ledger' = MarkUnknown /\ row' = Interrupted(ledger', Restored(row)) /\ tail' = <<>>
        /\ UNCHANGED <<pauseReq, mem, todo, fate, next, cuts, granted, execs, told, erred>>
    BY DEF Recover, history, exec
  <1>2. /\ TypeOK /\ row \in Snapshot /\ ApprovedBy(row) /\ ApprovedBy(mem)
        /\ Elements(mem.waiting) \subseteq CallsOf(mem)
    BY DEF LoopInv, TypeOK, ExecutionInv, ApprovalInv
  <1>3. /\ row' \in Snapshot /\ row'.approvals = row.approvals /\ Follows(row, row')
        /\ Elements(row'.waiting) \subseteq CallsOf(row')
    BY <1>1, InterruptedFollows
  <1>4. ledger' \in [Ids -> Seq(Attempt)] /\ LedgerInv' /\ ExecutionsApproved'
    BY <1>1, <1>2, <1>3, Fields, ReconciledKeeps
  <1>5. ApprovedBy(row)' /\ ApprovedBy(mem)'
    BY <1>1, <1>2, <1>3 DEF ApprovedBy
  <1>6. tail' \in Seq(Named)
    BY <1>1
  <1> QED BY <1>1, <1>2, <1>3, <1>4, <1>5, <1>6, RestKeeps DEF TypeOK

(* An operator decides about attempts; no execution works on the run.        *)
LEMMA OperatorKeeps ==
    ASSUME LoopInv, pc = "none", row' \in Snapshot, Alike(row, row'), tail' \in {<<>>, tail},
           cuts' \in 0..MaxCuts, UNCHANGED <<pauseReq, exec, history>>,
           ledger' \in [Ids -> Seq(Attempt)], Relabels(ledger, ledger'),
           \A id \in Ids : \A n \in 1..Len(ledger[id]) :
             ledger'[id][n].status = "SCHEDULED" <=> ledger[id][n].status = "SCHEDULED"
    PROVE  LoopInv'
  <1>1. /\ TypeOK /\ LedgerInv /\ row \in Snapshot /\ ApprovedBy(row) /\ ApprovedBy(mem)
        /\ Elements(mem.waiting) \subseteq CallsOf(mem) /\ Elements(row.waiting) \subseteq CallsOf(row)
        /\ tail \in Seq(Named)
    BY DEF LoopInv, TypeOK, ExecutionInv, ApprovalInv, EndInv
  <1>2. pc' = "none" /\ UNCHANGED <<mem, todo, fate, next, granted, execs, told, erred>>
    BY DEF exec, history
  <1>3. row.round \in Nat /\ row'.round \in Nat /\ Follows(row, row')
    BY <1>1, Fields DEF Follows, Alike
  <1>4. AttemptsOrdered' /\ AttemptsOfRow' /\ ExecutionsApproved'
    BY <1>2, <1>3, RelabelKeeps
  <1>5. ExecutionsRecorded'
    BY <1>1, <1>2, RelabelRecords
  <1>6. ApprovedBy(row)' /\ ApprovedBy(mem)' /\ Elements(row'.waiting) \subseteq CallsOf(row')
    BY <1>1, <1>2 DEF ApprovedBy, Alike, CallsOf
  <1>7. tail' \in Seq(Named)
    <2>1. <<>> \in Seq(Named)
      OBVIOUS
    <2> QED BY <1>1, <2>1
  <1> QED BY <1>1, <1>2, <1>4, <1>5, <1>6, <1>7, RestKeeps DEF TypeOK, LedgerInv

LEMMA ResolveKeeps == LoopInv /\ Resolve => LoopInv'
  <1> SUFFICES ASSUME LoopInv, Resolve PROVE LoopInv'
    OBVIOUS
  <1>1. TypeOK /\ row \in Snapshot /\ cuts \in 0..MaxCuts /\ ledger \in [Ids -> Seq(Attempt)]
    BY DEF LoopInv, TypeOK
  <1>2. PICK id \in Ids, how \in Resolutions : \E n \in DOMAIN ledger[id] :
          /\ ledger[id][n].status = "UNKNOWN" /\ ledger[id][n].resolution = "none"
          /\ ledger' = [ledger EXCEPT ![id][n] = Resolved(@, how)]
    BY DEF Resolve
  <1>3. PICK n \in DOMAIN ledger[id] :
          /\ ledger[id][n].status = "UNKNOWN" /\ ledger[id][n].resolution = "none"
          /\ ledger' = [ledger EXCEPT ![id][n] = Resolved(@, how)]
    BY <1>2
  <1> DEFINE a == Resolved(ledger[id][n], how)
             q == [ledger[id] EXCEPT ![n] = a]
  <1>4. ledger[id] \in Seq(Attempt) /\ n \in 1..Len(ledger[id]) /\ ledger[id][n] \in Attempt
    BY <1>1, LedgerTypes
  <1>5. /\ a \in Attempt /\ a.round = ledger[id][n].round /\ a.tool = ledger[id][n].tool
        /\ a.status \in {"UNKNOWN", "COMPLETED"} /\ a.resolution = how
        /\ (how = "confirmed" => a.status = "COMPLETED") /\ (how = "retry" => a.status = "UNKNOWN")
    BY <1>3, <1>4 DEF Attempt, Resolved, Resolutions
  <1>6. ledger' = [ledger EXCEPT ![id] = q]
    BY <1>3
  <1> HIDE DEF a
  <1>7. q \in Seq(Attempt) /\ Len(q) = Len(ledger[id]) /\ \A x \in 1..Len(ledger[id]) : q[x] = IF x = n THEN a ELSE ledger[id][x]
    BY <1>4, <1>5
  <1> HIDE DEF q
  <1>8. ledger' \in [Ids -> Seq(Attempt)] /\ ledger'[id] = q /\ \A i \in Ids : i # id => ledger'[i] = ledger[i]
    BY <1>1, <1>6, <1>7
  <1>9. Superseded(ledger[id][n]) => Superseded(a)
    BY <1>3, <1>5 DEF Superseded, Resolutions
  <1>10. ASSUME NEW i \in Ids, NEW x \in 1..Len(ledger[i])
         PROVE  /\ ledger'[i][x].round = ledger[i][x].round /\ ledger'[i][x].tool = ledger[i][x].tool
                /\ Superseded(ledger[i][x]) => Superseded(ledger'[i][x])
                /\ ledger'[i][x].status = "SCHEDULED" <=> ledger[i][x].status = "SCHEDULED"
    <2>1. CASE i = id /\ x = n
      BY <1>3, <1>5, <1>7, <1>8, <1>9, <2>1
    <2>2. CASE ~(i = id /\ x = n)
      BY <1>7, <1>8, <2>2
    <2> QED BY <2>1, <2>2
  <1>11. Relabels(ledger, ledger')
    BY <1>7, <1>8, <1>10 DEF Relabels
  <1>12. row' \in Snapshot /\ Alike(row, row') /\ tail' \in {<<>>, tail}
    <2>1. \/ row' = row
          \/ row' = [row EXCEPT !.pause = IF LatestUnresolved(ledger') = {} THEN "resumable" ELSE "blocked"]
      BY DEF Resolve
    <2>2. tail' \in {<<>>, tail}
      BY DEF Resolve
    <2>3. CASE row' = row
      BY <1>1, <2>2, <2>3 DEF Alike
    <2>4. CASE row' = [row EXCEPT !.pause = IF LatestUnresolved(ledger') = {} THEN "resumable" ELSE "blocked"]
      <3>1. row' \in Snapshot
        BY <1>1, <2>4, Updates
      <3>2. Alike(row, row')
        BY <1>1, <2>4 DEF Alike, Snapshot
      <3> QED BY <2>2, <3>1, <3>2
    <2> QED BY <2>1, <2>3, <2>4
  <1>13. cuts' \in 0..MaxCuts
    <2>1. cuts' = cuts \/ (cuts < MaxCuts /\ cuts' = cuts + 1)
      BY DEF Resolve, Cut
    <2> QED BY <1>1, <2>1, LoopAssumption
  <1>14. pc = "none" /\ UNCHANGED <<pauseReq, exec, history>>
    BY DEF Resolve
  <1> QED BY <1>8, <1>10, <1>11, <1>12, <1>13, <1>14, OperatorKeeps

LEMMA AbandonKeeps == LoopInv /\ Abandon => LoopInv'
  <1> SUFFICES ASSUME LoopInv, Abandon PROVE LoopInv'
    OBVIOUS
  <1>1. TypeOK /\ row \in Snapshot /\ cuts \in 0..MaxCuts /\ ledger \in [Ids -> Seq(Attempt)]
    BY DEF LoopInv, TypeOK
  <1>2. pc = "none" /\ tail' = <<>> /\ UNCHANGED <<row, pauseReq, exec, cuts, history>>
    BY DEF Abandon
  <1> DEFINE Left(a) == [a EXCEPT !.resolution = "abandoned"]
  <1>3. \A a \in Attempt : Left(a) \in Attempt /\ Left(a).round = a.round /\ Left(a).tool = a.tool /\ Left(a).status = a.status
    BY DEF Attempt
  <1>4. ASSUME NEW id \in Ids
        PROVE  /\ ledger'[id] \in Seq(Attempt) /\ Len(ledger'[id]) = Len(ledger[id])
               /\ \A x \in 1..Len(ledger[id]) :
                    /\ ledger[id][x] \in Attempt
                    /\ \/ ledger'[id][x] = ledger[id][x]
                       \/ x = Len(ledger[id]) /\ ledger'[id][x] = Left(ledger[id][x])
    <2>1. /\ ledger[id] \in Seq(Attempt) /\ Len(ledger[id]) \in Nat
          /\ \A x \in 1..Len(ledger[id]) : ledger[id][x] \in Attempt
      BY <1>1, LedgerTypes
    <2>2. CASE id \in LatestUnresolved(ledger)
      <3>1. Len(ledger[id]) \in 1..Len(ledger[id])
        BY <2>1, <2>2 DEF LatestUnresolved
      <3> DEFINE n == Len(ledger[id])
                 b == Left(ledger[id][n])
      <3>2. ledger'[id] = [ledger[id] EXCEPT ![n] = b]
        BY <2>2 DEF Abandon
      <3>3. b \in Attempt
        <4> HIDE DEF Left
        <4> QED BY <1>3, <2>1, <3>1
      <3> HIDE DEF b
      <3>4. ledger'[id] \in Seq(Attempt) /\ Len(ledger'[id]) = n /\ \A x \in 1..n : ledger'[id][x] = IF x = n THEN b ELSE ledger[id][x]
        BY <2>1, <3>1, <3>2, <3>3
      <3> QED BY <2>1, <3>4 DEF b
    <2>3. CASE id \notin LatestUnresolved(ledger)
      BY <2>1, <2>3 DEF Abandon
    <2> QED BY <2>2, <2>3
  <1> HIDE DEF Left
  <1>5. ledger' \in [Ids -> Seq(Attempt)]
    BY <1>4 DEF Abandon
  <1>6. Relabels(ledger, ledger')
    BY <1>3, <1>4 DEF Relabels
  <1>7. \A id \in Ids : \A n \in 1..Len(ledger[id]) :
          ledger'[id][n].status = "SCHEDULED" <=> ledger[id][n].status = "SCHEDULED"
    BY <1>3, <1>4
  <1> QED BY <1>1, <1>2, <1>5, <1>6, <1>7, OperatorKeeps DEF Alike

LEMMA PauseKeeps == LoopInv /\ Pause => LoopInv'
  <1> SUFFICES ASSUME LoopInv, Pause PROVE LoopInv'
    OBVIOUS
  <1>1. /\ pauseReq' = TRUE /\ UNCHANGED <<row, tail, ledger, pc, mem, todo, fate, next>>
        /\ UNCHANGED <<granted, execs, told, erred>> /\ cuts < MaxCuts /\ cuts' = cuts + 1
    BY DEF Pause, Cut, exec, history
  <1>2. TypeOK /\ LedgerInv /\ ExecutionInv /\ EndInv /\ AttemptInv /\ ApprovalInv
    BY DEF LoopInv
  <1>3. TypeOK'
    BY <1>1, <1>2, LoopAssumption DEF TypeOK
  <1>4. LedgerInv'
    BY <1>1, <1>2 DEF LedgerInv, AttemptsOrdered, AttemptsOfRow, ExecutionsRecorded, Begun, AttemptsOf
  <1>5. ExecutionInv' /\ EndInv' /\ AttemptInv'
    BY <1>1, <1>2 DEF ExecutionInv, EndInv, AttemptInv, LastIs, Handling, AtCall, Resting, Current
  <1>6. ApprovalInv'
    BY <1>1, <1>2 DEF ApprovalInv, ApprovedBy, ExecutionsApproved, Cleared, Resting, Current
  <1> QED BY <1>3, <1>4, <1>5, <1>6 DEF LoopInv

LEMMA StutterKeeps == LoopInv /\ UNCHANGED vars => LoopInv'
  <1> SUFFICES ASSUME LoopInv, UNCHANGED vars PROVE LoopInv'
    OBVIOUS
  <1>1. /\ UNCHANGED <<row, tail, pauseReq, ledger, pc, mem, todo, fate, next, cuts>>
        /\ UNCHANGED <<granted, execs, told, erred>>
    BY DEF vars, db, exec, history
  <1>2. TypeOK /\ LedgerInv /\ ExecutionInv /\ EndInv /\ AttemptInv /\ ApprovalInv
    BY DEF LoopInv
  <1>3. TypeOK'
    BY <1>1, <1>2 DEF TypeOK
  <1>4. LedgerInv'
    BY <1>1, <1>2 DEF LedgerInv, AttemptsOrdered, AttemptsOfRow, ExecutionsRecorded, Begun, AttemptsOf
  <1>5. ExecutionInv' /\ EndInv' /\ AttemptInv'
    BY <1>1, <1>2 DEF ExecutionInv, EndInv, AttemptInv, LastIs, Handling, AtCall, Resting, Current
  <1>6. ApprovalInv'
    BY <1>1, <1>2 DEF ApprovalInv, ApprovedBy, ExecutionsApproved, Cleared, Resting, Current
  <1> QED BY <1>3, <1>4, <1>5, <1>6 DEF LoopInv

-----------------------------------------------------------------------------
(* Executions that begin.                                                    *)

LEMMA CalledAreIds == Called \subseteq Ids
  <1> SUFFICES ASSUME NEW r \in Responses, NEW id \in IdsOf(r) PROVE id \in Ids
    BY DEF Called
  <1>1. PICK i \in 1..Len(r) : id = r[i].id
    BY DEF IdsOf
  <1>2. r \in Seq(Call)
    BY CallTypes
  <1>3. r[i] \in Call
    BY <1>1, <1>2
  <1> QED BY <1>1, <1>3 DEF Call

(* Decisions: what they approve is granted.                                  *)
LEMMA DecisionsGrant ==
    ASSUME NEW s, ApprovedBy(s), s.approvals \in [Keys -> {"none", "approved", "denied"}],
           granted \subseteq Nat \X Ids, NEW d \in Decisions, NEW round \in Nat, Grant(d, round)
    PROVE  /\ granted \subseteq granted' /\ granted' \subseteq Nat \X Ids
           /\ \A k \in Keys : Merged(s.approvals, d, round)[k] = "approved" => k \in granted'
  <1>1. DOMAIN d \subseteq Ids
    BY CalledAreIds DEF Decisions
  <1>2. granted' = granted \cup {<<round, id>> : id \in {i \in DOMAIN d : d[i] = "approved"}}
    BY DEF Grant
  <1>3. granted \subseteq granted' /\ granted' \subseteq Nat \X Ids
    BY <1>1, <1>2
  <1>4. ASSUME NEW k \in Keys, Merged(s.approvals, d, round)[k] = "approved" PROVE k \in granted'
    <2>1. k = <<k[1], k[2]>>
      BY DEF Keys
    <2>2. CASE k[1] = round /\ k[2] \in DOMAIN d
      BY <1>2, <1>4, <2>1, <2>2 DEF Merged
    <2>3. CASE ~(k[1] = round /\ k[2] \in DOMAIN d)
      BY <1>3, <1>4, <2>3 DEF Merged, ApprovedBy
    <2> QED BY <2>2, <2>3
  <1> QED BY <1>3, <1>4

LEMMA BeginsKeeps ==
    ASSUME LoopInv, pc' \in {"started", "chat", "loop"},
           row' \in Snapshot, Follows(row, row'), mem' \in Snapshot,
           mem'.round = row'.round, mem'.calls = row'.calls, ApprovedBy(row)', ApprovedBy(mem)',
           Elements(row'.waiting) \subseteq CallsOf(row'), Elements(mem'.waiting) \subseteq CallsOf(mem'),
           todo' \in Seq(Call), pc' = "loop" => Elements(todo') \subseteq CallsOf(mem'),
           granted \subseteq granted', granted' \subseteq Nat \X Ids,
           UNCHANGED <<tail, pauseReq, ledger, fate, next, cuts, execs, told, erred>>
    PROVE  LoopInv'
  <1>1. TypeOK /\ EndInv /\ row \in Snapshot
    BY DEF LoopInv, TypeOK
  <1>2. TypeOK'
    BY <1>1 DEF TypeOK
  <1>3. LedgerInv' /\ ExecutionsApproved'
    BY <1>1, Fields, RowAdvances
  <1>4. (Handling' => pc' = "loop") /\ ~AtCall' /\ ~Cleared'
    BY DEF Handling, AtCall, Cleared, Resting
  <1>5. ExecutionInv'
    BY <1>4 DEF ExecutionInv
  <1>6. EndInv' /\ AttemptInv'
    BY <1>1 DEF EndInv, AttemptInv, Resting
  <1>7. ApprovalInv'
    BY <1>3, <1>4 DEF ApprovalInv
  <1> QED BY <1>2, <1>3, <1>5, <1>6, <1>7 DEF LoopInv

LEMMA ResumeKeeps == LoopInv /\ Resume => LoopInv'
  <1> SUFFICES ASSUME LoopInv, Resume PROVE LoopInv'
    OBVIOUS
  <1> DEFINE round == IF row.round = 0 THEN 1 ELSE row.round
  <1>1. PICK d \in Decisions : mem' = Continued(row, Merged(row.approvals, d, round)) /\ Grant(d, round)
    BY DEF Resume
  <1>2. /\ todo' = IF row.pause = "none" THEN row.waiting ELSE NotDone(row)
        /\ pc' \in {"chat", "loop"}
        /\ UNCHANGED <<row, tail, pauseReq, ledger, fate, next, cuts, execs, told, erred>>
    BY DEF Resume, db
  <1>3. /\ row \in Snapshot /\ ApprovedBy(row) /\ Elements(row.waiting) \subseteq CallsOf(row)
        /\ granted \subseteq Nat \X Ids
    BY DEF LoopInv, TypeOK, ApprovalInv, ExecutionInv
  <1>4. /\ row.round \in Nat /\ round \in Nat /\ row.waiting \in Seq(Call) /\ row.calls \in Seq(Call)
        /\ row.approvals \in [Keys -> {"none", "approved", "denied"}]
    <2>1. row.calls \in Seq(Call)
      BY <1>3, CallTypes, Fields, Zenon
    <2> QED BY <1>3, <2>1, Fields
  <1> HIDE DEF round
  <1> DEFINE approvals == Merged(row.approvals, d, round)
  <1>5. approvals \in [Keys -> {"none", "approved", "denied"}]
    BY <1>4, MergedType
  <1>6. /\ granted \subseteq granted' /\ granted' \subseteq Nat \X Ids
        /\ \A k \in Keys : approvals[k] = "approved" => k \in granted'
    BY <1>1, <1>3, <1>4, DecisionsGrant
  <1> HIDE DEF approvals
  <1>7. mem' = Continued(row, approvals)
    BY <1>1 DEF approvals
  <1>8. mem' \in Snapshot
    BY <1>3, <1>5, <1>7, ContinuedType
  <1>9. mem'.round = row.round /\ mem'.calls = row.calls /\ mem'.waiting = <<>> /\ mem'.approvals = approvals
    BY <1>3, <1>7 DEF Continued, Snapshot
  <1>10. todo' \in Seq(Call) /\ Elements(todo') \subseteq CallsOf(row)
    <2>1. NotDone(row) \in Seq(Call) /\ Elements(NotDone(row)) \subseteq CallsOf(row)
      BY <1>4, NotDoneIsPart
    <2> QED BY <1>2, <1>3, <1>4, <2>1
  <1>11. CallsOf(mem') = CallsOf(row) /\ Elements(mem'.waiting) \subseteq CallsOf(mem')
    BY <1>9 DEF CallsOf, Elements
  <1>12. ApprovedBy(row)' /\ ApprovedBy(mem)' /\ Follows(row, row')
    BY <1>2, <1>3, <1>4, <1>6, <1>9 DEF ApprovedBy, Follows
  <1> QED BY <1>2, <1>3, <1>6, <1>8, <1>9, <1>10, <1>11, <1>12, BeginsKeeps

(* A run that has no row yet has no round, and no execution works on it.     *)
RunExists ==
  /\ row.status = "ABSENT" => row.round = 0 /\ row.calls = <<>>
  /\ pc # "none" => row.status # "ABSENT" /\ mem.status # "ABSENT"

RunInv == LoopInv /\ RunExists

LEMMA StartKeeps == RunInv /\ Start => LoopInv'
  <1> SUFFICES ASSUME LoopInv, RunExists, Start PROVE LoopInv'
    BY DEF RunInv
  <1>1. PICK d \in Decisions : row' = NewState(Merged(Absent.approvals, d, 1)) /\ Grant(d, 1)
    BY DEF Start
  <1>2. /\ mem' = row' /\ pc' = "started" /\ row.round = 0 /\ row.calls = <<>>
        /\ UNCHANGED <<tail, pauseReq, ledger, todo, fate, next, cuts, execs, told, erred>>
    BY DEF Start, RunExists
  <1>3. granted \subseteq Nat \X Ids /\ todo \in Seq(Call)
    BY DEF LoopInv, TypeOK
  <1>4. Absent.approvals \in [Keys -> {"none", "approved", "denied"}] /\ ApprovedBy(Absent)
    BY AbsentFacts, Fields DEF ApprovedBy
  <1> DEFINE approvals == Merged(Absent.approvals, d, 1)
  <1>5. approvals \in [Keys -> {"none", "approved", "denied"}]
    BY <1>4, MergedType
  <1>6. /\ granted \subseteq granted' /\ granted' \subseteq Nat \X Ids
        /\ \A k \in Keys : approvals[k] = "approved" => k \in granted'
    BY <1>1, <1>3, <1>4, DecisionsGrant
  <1>7. row' \in Snapshot
    BY <1>1, <1>5, NewTypes
  <1>8. row'.round = 0 /\ row'.calls = <<>> /\ row'.waiting = <<>> /\ row'.approvals = approvals
    BY <1>1 DEF NewState
  <1> HIDE DEF approvals
  <1>9. ApprovedBy(row)' /\ ApprovedBy(mem)' /\ Follows(row, row')
    BY <1>2, <1>6, <1>8 DEF ApprovedBy, Follows
  <1>10. Elements(row'.waiting) \subseteq CallsOf(row') /\ mem' \in Snapshot
    BY <1>2, <1>7, <1>8 DEF Elements
  <1> QED BY <1>2, <1>3, <1>6, <1>7, <1>9, <1>10, BeginsKeeps

LEMMA EmitFrom ==
    ASSUME RunExists, pc # "none", NEW e, NEW s \in Snapshot, NEW then, Emit(e, s, then), s.status # "ABSENT"
    PROVE  RunExists'
  <1>1. row' = row /\ mem' \in {s, PausedAt(s)}
    BY DEF Emit
  <1>2. PausedAt(s).status = "PAUSED"
    BY DEF PausedAt, Snapshot
  <1> QED BY <1>1, <1>2 DEF RunExists

LEMMA RunExistsKept == RunInv /\ [Next]_vars => RunExists'
  <1> SUFFICES ASSUME LoopInv, RunExists, [Next]_vars PROVE RunExists'
    BY DEF RunInv
  <1>0. row \in Snapshot /\ mem \in Snapshot
    BY DEF LoopInv, TypeOK
  <1>1. CASE Started \/ TraceDecision \/ StartTool \/ WriteMemory
    <2>1. pc # "none" /\ \E e, then : Emit(e, mem, then)
      BY <1>1 DEF Started, TraceDecision, StartTool, WriteMemory, Asked, InLoop
    <2> QED BY <1>0, <2>1, EmitFrom DEF RunExists
  <1>2. CASE ModelResponds
    <2>1. PICK r \in Responses : Emit(ChatEv(r, mem.rem), Responded(mem, r, mem.rem), "loop")
      BY <1>2 DEF ModelResponds
    <2>2. pc # "none" /\ mem.status # "ABSENT"
      BY <1>2 DEF ModelResponds, RunExists
    <2>3. Responded(mem, r, mem.rem) \in Snapshot
      BY <1>0, RespondedType, Fields
    <2>4. Responded(mem, r, mem.rem).status = mem.status
      BY <1>0 DEF Responded, Snapshot
    <2> QED BY <2>1, <2>2, <2>3, <2>4, EmitFrom
  <1>3. CASE RequestApproval
    <2> DEFINE s == [mem EXCEPT !.asked = @ \cup {Current.id}]
    <2>1. pc = "loop" /\ todo # <<>> /\ mem.status # "ABSENT" /\ Emit(CallEv("requested", Current.id), s, "loop")
      BY <1>3 DEF RequestApproval, InLoop, RunExists
    <2>2. Current.id \in Ids /\ mem.asked \cup {Current.id} \in SUBSET Ids
      BY <1>0, <2>1, AtTheCall, Fields
    <2>3. s \in Snapshot
      BY <1>0, <2>2, Updates
    <2>4. s.status = mem.status
      BY <1>0 DEF Snapshot
    <2> HIDE DEF s
    <2> QED BY <2>1, <2>3, <2>4, EmitFrom
  <1>4. CASE PauseForApproval
    <2> DEFINE s == [mem EXCEPT !.status = "PAUSED", !.waiting = todo, !.pending = {Current.id}]
    <2>1. pc = "loop" /\ todo # <<>> /\ Emit(CallEv("paused", Current.id), s, "none")
      BY <1>4 DEF PauseForApproval, Asked, InLoop
    <2>2. Current.id \in Ids /\ "PAUSED" \in Status /\ {Current.id} \in SUBSET Ids /\ todo \in Seq(Call)
      BY <2>1, AtTheCall DEF Status
    <2>3. s \in Snapshot
      BY <1>0, <2>2, Updates
    <2>4. s.status = "PAUSED"
      BY <1>0 DEF Snapshot
    <2> HIDE DEF s
    <2> QED BY <2>1, <2>3, <2>4, EmitFrom
  <1>5. CASE Reject \/ ReportOutcome
    <2> DEFINE s == [mem EXCEPT !.done = @ \cup {Current.id}]
    <2>1. pc \in {"loop", "go", "ledger", "report"} /\ todo # <<>> /\ mem.status # "ABSENT"
      BY <1>5 DEF Reject, ReportOutcome, InLoop, LoopInv, ExecutionInv, AtCall, RunExists
    <2>2. \E e, then : Emit(e, s, then)
      BY <1>5 DEF Reject, ReportOutcome, Report
    <2>3. Current.id \in Ids /\ mem.done \cup {Current.id} \in SUBSET Ids
      BY <1>0, <2>1, AtTheCall, Fields
    <2>4. s \in Snapshot
      BY <1>0, <2>3, Updates
    <2>5. s.status = mem.status
      BY <1>0 DEF Snapshot
    <2> HIDE DEF s
    <2> QED BY <2>1, <2>2, <2>4, <2>5, EmitFrom
  <1>6. CASE Stop \/ MarkFailed
    <2>1. PICK s \in {row, mem}, status \in Terminal : \E e : Emit(e, Stopped(s, status), "none")
      <3>1. Stop => fate \in Terminal
        BY DEF Stop, LoopInv, EndInv
      <3>2. "FAILED" \in Terminal
        BY DEF Terminal
      <3> QED BY <1>6, <3>1, <3>2 DEF Stop, MarkFailed
    <2>2. Stopped(s, status) \in Snapshot
      BY <1>0, StoppedType
    <2>3. Stopped(s, status).status = status /\ status # "ABSENT"
      BY <1>0 DEF Stopped, Snapshot, Terminal
    <2>4. pc # "none"
      BY <1>6 DEF Stop, MarkFailed
    <2> QED BY <2>1, <2>2, <2>3, <2>4, EmitFrom
  <1>7. CASE Save \/ Crash
    <2>1. pc # "none" /\ row' \in {row, mem} /\ (pc' = "none" \/ mem' = mem)
      BY <1>7 DEF Save, Crash, Idle, Goto, db
    <2>2. Save => row' = mem
      BY DEF Save
    <2>3. Crash => row' = row /\ pc' = "none"
      BY DEF Crash, Idle, db
    <2> QED BY <1>7, <2>1, <2>2, <2>3 DEF RunExists
  <1>8. CASE \/ Schedule \/ BeginTool \/ ToolReturns \/ CommitTranscript \/ Fault \/ Timeout
             \/ Pause \/ UNCHANGED vars
    <2>1. CASE Schedule \/ BeginTool \/ ToolReturns \/ CommitTranscript \/ Fault \/ Timeout
      <3>1. pc # "none" /\ row' \in {row, mem} /\ mem' = mem
        BY <2>1 DEF Schedule, BeginTool, ToolReturns, CommitTranscript, Fault, Timeout, Goto, InLoop, db
      <3> QED BY <3>1 DEF RunExists
    <2>2. CASE Pause \/ UNCHANGED vars
      <3>1. UNCHANGED <<row, mem, pc>>
        BY <2>2 DEF Pause, exec, vars, db
      <3> QED BY <3>1 DEF RunExists
    <2> QED BY <1>8, <2>1, <2>2
  <1>9. CASE RoundCompleted \/ Finish \/ Yielded
    <2>1. /\ pc # "none" /\ row' = row
          /\ \/ mem' = mem
             \/ \E x : mem' = [mem EXCEPT !.rem = x]
             \/ mem' = [mem EXCEPT !.fin = TRUE]
             \/ mem' = PausedAt(mem)
      BY <1>9 DEF RoundCompleted, Finish, Yielded, Goto, db
    <2>2. mem'.status \in {mem.status, "PAUSED"}
      BY <1>0, <2>1 DEF PausedAt, Snapshot
    <2> QED BY <2>1, <2>2 DEF RunExists
  <1>10. CASE MarkInterrupted \/ Recover
    <2>1. Interrupted(ledger', Restored(row)).status = "ABSENT" => row.status = "ABSENT"
      BY InterruptedFollows
    <2>2. CASE MarkInterrupted
      <3>1. pc # "none" /\ row' = row /\ mem' = Interrupted(ledger', Restored(row))
        BY <2>2 DEF MarkInterrupted
      <3> QED BY <2>1, <3>1 DEF RunExists
    <2>3. CASE Recover
      <3>1. pc' = "none" /\ row.status = "RUNNING" /\ row' = Interrupted(ledger', Restored(row))
        BY <2>3 DEF Recover, exec
      <3> QED BY <2>1, <3>1 DEF RunExists
    <2> QED BY <1>10, <2>2, <2>3
  <1>11. CASE Start
    <2>1. PICK a : row' = NewState(a) /\ mem' = row'
      BY <1>11 DEF Start
    <2>2. row'.status = "RUNNING"
      BY <2>1 DEF NewState
    <2> QED BY <2>1, <2>2 DEF RunExists
  <1>12. CASE Resume
    <2>1. PICK a : row' = row /\ row.status = "PAUSED" /\ mem' = Continued(row, a)
      BY <1>12 DEF Resume, db
    <2>2. Continued(row, a).status = "RUNNING"
      BY <1>0 DEF Continued, Snapshot
    <2> QED BY <2>1, <2>2 DEF RunExists
  <1>13. CASE Resolve \/ Abandon
    <2>1. row.status = "PAUSED" /\ pc' = "none" /\ (row' = row \/ \E x : row' = [row EXCEPT !.pause = x])
      BY <1>13 DEF Resolve, Abandon, exec
    <2>2. row'.status = "PAUSED"
      BY <1>0, <2>1 DEF Snapshot
    <2> QED BY <2>1, <2>2 DEF RunExists
  <1> QED BY <1>1, <1>2, <1>3, <1>4, <1>5, <1>6, <1>7, <1>8, <1>9, <1>10, <1>11, <1>12, <1>13 DEF Next, Execute

-----------------------------------------------------------------------------
(* The theorems.                                                             *)

LEMMA InitRun == Init => RunInv
  <1> SUFFICES ASSUME Init PROVE RunInv
    OBVIOUS
  <1>1. /\ row = Absent /\ mem = Absent /\ tail = <<>> /\ pauseReq = FALSE /\ pc = "none" /\ todo = <<>>
        /\ ledger = [id \in Ids |-> <<>>] /\ fate = "none" /\ next = "none" /\ cuts = 0 /\ granted = {}
        /\ erred = FALSE /\ execs = [k \in Keys |-> 0] /\ told = [k \in Keys |-> 0]
    BY DEF Init
  <1>2. TypeOK
    <2>1. ledger \in [Ids -> Seq(Attempt)] /\ execs \in [Keys -> Nat] /\ told \in [Keys -> Nat]
      BY <1>1
    <2>2. tail \in Seq(Event) /\ todo \in Seq(Call) /\ cuts \in 0..MaxCuts /\ granted \subseteq Nat \X Ids
      BY <1>1, LoopAssumption
    <2> QED BY <1>1, <2>1, <2>2, AbsentFacts DEF TypeOK
  <1>3. \A id \in Ids : DOMAIN ledger[id] = {}
    BY <1>1
  <1>4. AttemptsOrdered /\ AttemptsOfRow /\ ExecutionsApproved
    BY <1>3 DEF AttemptsOrdered, AttemptsOfRow, ExecutionsApproved
  <1>5. ExecutionsRecorded
    <2> SUFFICES ASSUME NEW k \in Keys PROVE execs[k] <= Cardinality(Begun(k))
      BY DEF ExecutionsRecorded
    <2>1. execs[k] = 0 /\ Cardinality(Begun(k)) \in Nat
      BY <1>1, <1>2, BegunFinite
    <2> QED BY <2>1
  <1>6. ExecutionInv /\ EndInv
    <2>1. Elements(<<>>) = {} /\ <<>> \in Seq(Named)
      BY DEF Elements
    <2> QED BY <1>1, <2>1, AbsentFacts DEF ExecutionInv, EndInv, Handling, AtCall, Resting
  <1>7. AttemptInv /\ ApprovalInv
    BY <1>1, <1>4, AbsentFacts DEF AttemptInv, ApprovalInv, ApprovedBy, Cleared, Resting
  <1>8. RunExists
    BY <1>1, AbsentFacts DEF RunExists
  <1> QED BY <1>2, <1>4, <1>5, <1>6, <1>7, <1>8 DEF RunInv, LoopInv, LedgerInv

LEMMA NextRun == RunInv /\ [Next]_vars => RunInv'
  <1> SUFFICES ASSUME LoopInv, RunExists, [Next]_vars PROVE LoopInv'
    BY RunExistsKept DEF RunInv
  <1>1. CASE Execute
    BY <1>1, SaveKeeps, YieldedKeeps, StartedKeeps, ModelRespondsKeeps, RequestApprovalKeeps,
       PauseForApprovalKeeps, TraceDecisionKeeps, StartToolKeeps, RejectKeeps, ReportOutcomeKeeps,
       ScheduleKeeps, BeginToolKeeps, ToolReturnsKeeps, RoundCompletedKeeps, FinishKeeps,
       CommitTranscriptKeeps, WriteMemoryKeeps, StopKeeps, FaultKeeps, MarkInterruptedKeeps DEF Execute
  <1>2. CASE Timeout \/ Crash \/ Recover \/ Start \/ Resume \/ Pause \/ Resolve \/ Abandon \/ UNCHANGED vars
    BY <1>2, TimeoutKeeps, CrashKeeps, RecoverKeeps, StartKeeps, ResumeKeeps, PauseKeeps, ResolveKeeps,
       AbandonKeeps, StutterKeeps DEF RunInv
  <1> QED BY <1>1, <1>2 DEF Next

(* The row, its ledger and the execution stay coherent, whatever is cut,     *)
(* resumed or resolved: this is the invariant the other theorems rest on.    *)
THEOREM LoopCoherent == Spec => []RunInv
  BY InitRun, NextRun, PTL DEF Spec

(* A sensitive tool was executed in those rounds only in which an operator   *)
(* approved the call (_round_tool_approvals, _merge_tool_approvals).         *)
THEOREM SensitiveToolsAreApproved == Spec => []ExecutionsApproved
  <1>1. RunInv => ExecutionsApproved
    BY DEF RunInv, LoopInv, ApprovalInv
  <1> QED BY <1>1, LoopCoherent, PTL

(* Of the attempts at a non-replayable call, all but the last of the round   *)
(* were released by an operator.                                             *)
LEMMA AttemptsReleased ==
    ASSUME TypeOK, AttemptsOrdered, NEW k \in Keys, NEW n \in AttemptsOf(ledger, k[2], k[1]),
           ledger[k[2]][n].tool \in NonReplayable
    PROVE  \E m : AttemptsOf(ledger, k[2], k[1]) \subseteq Retries(k[2], k[1]) \cup {m}
  <1> DEFINE S == AttemptsOf(ledger, k[2], k[1])
             m == Max(S)
  <1>1. k[2] \in Ids
    BY DEF Keys
  <1>2. Len(ledger[k[2]]) \in Nat /\ DOMAIN ledger[k[2]] = 1..Len(ledger[k[2]])
    BY <1>1, LedgerTypes
  <1>3. S \in SUBSET (1..Len(ledger[k[2]])) /\ S # {}
    BY <1>2 DEF AttemptsOf
  <1>4. m \in S /\ \A x \in S : x <= m
    <2> HIDE DEF S
    <2> QED BY <1>2, <1>3, MaxOfIndices
  <1> HIDE DEF m
  <1>5. ASSUME NEW x \in S, x # m
        PROVE  Superseded(ledger[k[2]][x]) /\ ledger[k[2]][x].tool = ledger[k[2]][m].tool
    <2>1. x \in DOMAIN ledger[k[2]] /\ m \in DOMAIN ledger[k[2]] /\ x < m
      BY <1>2, <1>3, <1>4, <1>5
    <2>2. ledger[k[2]][x].round = ledger[k[2]][m].round
      BY <1>4, <1>5 DEF AttemptsOf
    <2> QED BY <1>1, <2>1, <2>2 DEF AttemptsOrdered
  <1>6. ledger[k[2]][m].tool \in NonReplayable
    BY <1>4, <1>5
  <1>7. ASSUME NEW x \in S, x # m PROVE x \in Retries(k[2], k[1])
    BY <1>5, <1>6, <1>7 DEF Superseded, Retries
  <1> QED BY <1>7

(* A non-replayable tool call of a round is executed once, and once more for *)
(* each retry an operator asked for, whatever crashed, timed out or resumed  *)
(* (_tool_call_can_resume, _execute_tool_call).                              *)
THEOREM NonReplayableToolsRunOnce == Spec => []NonReplayableOnce
  <1>1. RunInv => NonReplayableOnce
    <2> SUFFICES ASSUME RunInv, NEW k \in Keys, NEW n \in AttemptsOf(ledger, k[2], k[1]),
                        ledger[k[2]][n].tool \in NonReplayable
                 PROVE  execs[k] <= 1 + Cardinality(Retries(k[2], k[1]))
      BY DEF NonReplayableOnce
    <2> DEFINE R == Retries(k[2], k[1])
    <2>1. TypeOK /\ AttemptsOrdered /\ ExecutionsRecorded
      BY DEF RunInv, LoopInv, LedgerInv
    <2>2. PICK m : AttemptsOf(ledger, k[2], k[1]) \subseteq R \cup {m}
      BY <2>1, AttemptsReleased
    <2>3. Begun(k) \subseteq R \cup {m}
      BY <2>2 DEF Begun
    <2>4. IsFiniteSet(R)
      <3>1. k[2] \in Ids
        BY DEF Keys
      <3>2. Len(ledger[k[2]]) \in Nat /\ R \subseteq 1..Len(ledger[k[2]])
        BY <2>1, <3>1, LedgerTypes DEF Retries, AttemptsOf
      <3>3. IsFiniteSet(1..Len(ledger[k[2]]))
        BY <3>2, FS_Interval
      <3> QED BY <3>2, <3>3, FS_Subset
    <2> HIDE DEF R
    <2>5. /\ IsFiniteSet(R \cup {m}) /\ Cardinality(R) \in Nat
          /\ Cardinality(R \cup {m}) = IF m \in R THEN Cardinality(R) ELSE Cardinality(R) + 1
      BY <2>4, FS_AddElement, FS_CardinalityType
    <2>6. Cardinality(Begun(k)) <= Cardinality(R \cup {m})
      BY <2>3, <2>5, FS_Subset
    <2>7. execs[k] <= Cardinality(Begun(k)) /\ execs[k] \in Nat /\ Cardinality(Begun(k)) \in Nat
      BY <2>1, BegunFinite DEF ExecutionsRecorded, TypeOK
    <2> QED BY <2>5, <2>6, <2>7 DEF R
  <1> QED BY <1>1, LoopCoherent, PTL

(* An execution that returned a result or an error is not followed by        *)
(* another execution of the call in that round, unless an operator confirmed *)
(* an outcome and the tool may be replayed (_tool_call_can_resume).          *)
LEMMA BeginToolRepeatsNothing == RunInv /\ BeginTool => NoRepeat
  <1> SUFFICES ASSUME RunInv, BeginTool, NEW k \in Keys, execs'[k] # execs[k],
                      NEW n \in AttemptsOf(ledger, k[2], k[1]),
                      ledger[k[2]][n].status \in {"COMPLETED", "FAILED"}
               PROVE  ledger[k[2]][n].resolution = "confirmed"
    BY DEF NoRepeat
  <1>1. TypeOK /\ AttemptsOrdered /\ pc = "begin" /\ execs' = [execs EXCEPT ![Key] = @ + 1]
    BY DEF RunInv, LoopInv, LedgerInv, BeginTool
  <1>2. LastIs("SCHEDULED") /\ execs \in [Keys -> Nat]
    BY <1>1 DEF RunInv, LoopInv, AttemptInv, TypeOK
  <1>3. k = Key /\ k[1] = mem.round /\ k[2] = Current.id /\ k[2] \in Ids
    BY <1>1, <1>2 DEF Key, Keys
  <1> DEFINE l == Len(ledger[k[2]])
  <1>4. DOMAIN ledger[k[2]] = 1..l /\ l \in Nat /\ ledger[k[2]] \in Seq(Attempt)
    BY <1>1, <1>3, LedgerTypes
  <1>5. l \in 1..l /\ ledger[k[2]][l].status = "SCHEDULED" /\ ledger[k[2]][l].round = mem.round
    BY <1>2, <1>3, <1>4 DEF LastIs, Last
  <1>6. n \in 1..l /\ ledger[k[2]][n].round = mem.round /\ n # l
    BY <1>3, <1>4, <1>5 DEF AttemptsOf
  <1>7. Superseded(ledger[k[2]][n])
    <2> HIDE DEF l
    <2>1. n < l
      BY <1>4, <1>6
    <2> QED BY <1>1, <1>3, <1>4, <1>5, <1>6, <2>1 DEF AttemptsOrdered
  <1> QED BY <1>7 DEF Superseded

THEOREM OutcomesAreNotRepeated == Spec => NoRepeatAfterOutcome
  <1>1. RunInv /\ [Next]_vars => [NoRepeat]_vars
    <2> SUFFICES ASSUME RunInv, [Next]_vars PROVE NoRepeat \/ UNCHANGED vars
      OBVIOUS
    <2>1. CASE BeginTool
      BY <2>1, BeginToolRepeatsNothing
    <2>2. CASE execs' = execs
      BY <2>2 DEF NoRepeat
    <2>3. \/ BeginTool \/ UNCHANGED vars
          \/ Start \/ Resume
          \/ Reject \/ ReportOutcome
          \/ UNCHANGED history
      BY DEF Next, Execute, Save, Yielded, Started, ModelResponds, RequestApproval, PauseForApproval,
         TraceDecision, StartTool, Schedule, ToolReturns, RoundCompleted, Finish, CommitTranscript,
         WriteMemory, Stop, Fault, MarkFailed, MarkInterrupted, Timeout, Crash, Recover, Pause, Resolve, Abandon
    <2>4. Start \/ Resume \/ Reject \/ ReportOutcome \/ UNCHANGED history => execs' = execs
      BY DEF Start, Resume, Reject, ReportOutcome, Report, history
    <2> QED BY <2>1, <2>2, <2>3, <2>4
  <1> QED BY <1>1, LoopCoherent, PTL DEF Spec, NoRepeatAfterOutcome

-----------------------------------------------------------------------------
(* What the journal tells of tool calls: the outcome of an execution is told *)
(* once, and a run that was resumed meets no call whose outcome nobody       *)
(* knows, unless another run retries it.                                     *)

(* The inductive invariant, on top of RunInv.                                *)

(* The calls of the current response that have no outcome, in their order.   *)
DistinctIds(q) == \A i, j \in 1..Len(q) : q[i].id = q[j].id => i = j
Left(s, q)     == DistinctIds(q) /\ IdsOf(q) = Incomplete(s)

(* What the ledger says of a call of a round: its outcome can be told or it  *)
(* can be tried, unless another run retries this one.                        *)
Settled(L, id, round) == CanResume(L, id, round) \/ Latest(L, id, round).resolution = "abandoned"
Open(L, s)            == \A id \in Incomplete(s) : Settled(L, id, s.round)

(* A sensitive call is asked about before it is tried.                       *)
AskedFirst(L, s) ==
  \A c \in CallsOf(s) : c.tool \in Sensitive /\ Tried(L, c.id, s.round) => c.id \in s.asked

(* A snapshot to go on from: one that waits for approvals lists the calls    *)
(* that are left, and one that can be resumed has no unknown outcome.        *)
Sane(L, s) ==
  /\ s.status = "RUNNING" => s.pause = "none" /\ s.pending = {}
  /\ s.round = 0 => s.calls = <<>>
  /\ s.status = "PAUSED" /\ s.pause = "none" => Left(s, s.waiting)
  /\ s.status = "PAUSED" /\ s.pause # "blocked" => Open(L, s)
  /\ AskedFirst(L, s)

(* Where the execution is, and what its row and its journal say there.       *)
StepInv ==
  /\ pc = "none" => mem = Absent
  /\ pc \notin {"none", "save"} => mem.status = "RUNNING"
  /\ pc \in {"yield", "ledger", "begin", "tool", "report"} => row = mem /\ tail = <<>>
  /\ pc \in {"failed", "interrupted"} => row = mem
  /\ pc = "started" \/ Resting({"chat"}) => mem.calls = <<>>
  /\ ~Resting({"none"})

(* What it has to do: the calls that are left, none of them unknown but the  *)
(* one that is being executed.                                               *)
Busy == Handling \/ Resting({"finish"})
ToCall == pc \in {"go", "ledger"} \/ Resting({"go", "ledger"})
TodoInv ==
  /\ Busy => Left(mem, todo)
  /\ Busy => \A id \in Incomplete(mem) :
               Settled(ledger, id, mem.round) \/ (pc = "tool" /\ id = Current.id)
  /\ ToCall /\ Current.tool \in Sensitive => Current.id \in mem.asked

(* An attempt is under way only where it is executed, or was cut.            *)
UnderWay(id, n) ==
  \/ pc = "interrupted"
  \/ pc = "none" /\ row.status = "RUNNING"
  \/ pc = "tool" /\ id = Current.id /\ n = Len(ledger[id])
OutcomeInv ==
  \A id \in Ids : \A n \in DOMAIN ledger[id] :
    /\ ledger[id][n].resolution = "confirmed" => ledger[id][n].status = "COMPLETED"
    /\ ledger[id][n].status = "STARTED" => UnderWay(id, n)

(* The approvals that the journal asks for are of calls not tried.           *)
TailInv ==
  \A i \in 1..Len(tail) : tail[i].type = "requested" => ~Tried(ledger, tail[i].id, row.round)

(* Every outcome that was told is in the snapshot, or in its journal.        *)
Knows(s, k)    == k[1] < s.round \/ (k[1] = s.round /\ k[2] \in s.done)
Reported(T, s) == \A k \in Keys : T[k] > 0 => Knows(s, k)
Tells(e, k)    == e.type \in {"done", "failed"} /\ e.id = k[2]
InTail(k)      == k[1] = row.round /\ \E i \in 1..Len(tail) : Tells(tail[i], k)
ToldInv ==
  /\ ReportedOnce
  /\ \A k \in Keys : told[k] > 0 => Knows(row, k) \/ (row.status = "RUNNING" /\ InTail(k))
  /\ pc # "none" => Reported(told, mem)

ReportInv ==
  Sane(ledger, row) /\ Sane(ledger, mem) /\ StepInv /\ TodoInv /\ OutcomeInv /\ TailInv /\ ToldInv

-----------------------------------------------------------------------------
(* The calls that are left.                                                  *)

LEMMA ResponsesAreDistinct == \A r \in Responses \cup {<<>>} : DistinctIds(r)
  BY LoopAssumption DEF DistinctIds

LEMMA AppendLeft ==
    ASSUME NEW q \in Seq(Call), NEW c \in Call
    PROVE  /\ IdsOf(Append(q, c)) = IdsOf(q) \cup {c.id}
           /\ DistinctIds(q) /\ c.id \notin IdsOf(q) => DistinctIds(Append(q, c))
  <1> DEFINE p == Append(q, c)
  <1>1. Len(q) \in Nat /\ Len(p) = Len(q) + 1 /\ p[Len(q) + 1] = c /\ \A i \in 1..Len(q) : p[i] = q[i]
    OBVIOUS
  <1> HIDE DEF p
  <1>2. IdsOf(p) = IdsOf(q) \cup {c.id}
    <2>1. \A i \in 1..Len(p) : i \in 1..Len(q) \/ i = Len(q) + 1
      BY <1>1
    <2>2. 1..Len(q) \subseteq 1..Len(p) /\ Len(q) + 1 \in 1..Len(p)
      BY <1>1
    <2> QED BY <1>1, <2>1, <2>2 DEF IdsOf
  <1>3. ASSUME DistinctIds(q), c.id \notin IdsOf(q), NEW i \in 1..Len(p), NEW j \in 1..Len(p), p[i].id = p[j].id
        PROVE  i = j
    <2>1. \A x \in 1..Len(q) : q[x].id # c.id
      BY <1>3 DEF IdsOf
    <2>2. i \in 1..Len(q) \/ i = Len(q) + 1
      BY <1>1
    <2>3. j \in 1..Len(q) \/ j = Len(q) + 1
      BY <1>1
    <2> QED BY <1>1, <1>3, <2>1, <2>2, <2>3 DEF DistinctIds
  <1> QED BY <1>2, <1>3 DEF DistinctIds, p

(* What is resumed is what has no outcome.                                   *)
LEMMA NotDoneLeft ==
    ASSUME NEW s \in Snapshot
    PROVE  Left(s, NotDone(s))
  <1>0. s.calls \in Seq(Call) /\ DistinctIds(s.calls)
    <2>1. s.calls \in Responses \cup {<<>>}
      BY Fields
    <2> QED BY <2>1, CallTypes, ResponsesAreDistinct, Zenon
  <1>1. Len(s.calls) \in Nat /\ \A n \in 1..Len(s.calls) : s.calls[n] \in Call
    BY <1>0
  <1>2. PICK left : /\ left[0] = <<>> /\ NotDone(s) = left[Len(s.calls)]
                    /\ \A n \in 1..Len(s.calls) :
                         left[n] = IF s.calls[n].id \in s.done THEN left[n - 1]
                                   ELSE Append(left[n - 1], s.calls[n])
    BY <1>0, NotDoneChain
  <1> DEFINE Seen(n) == {s.calls[i].id : i \in 1..n}
             Good(n) == /\ left[n] \in Seq(Call) /\ DistinctIds(left[n])
                        /\ IdsOf(left[n]) = Seen(n) \ s.done
             S == {n \in Nat : n \in 0..Len(s.calls) => Good(n)}
  <1>3. 0 \in S
    <2>1. <<>> \in Seq(Call) /\ IdsOf(<<>>) = {} /\ DistinctIds(<<>>) /\ Seen(0) = {}
      BY DEF IdsOf, DistinctIds
    <2> HIDE DEF Seen
    <2> QED BY <1>2, <2>1
  <1>4. \A n \in 1..Len(s.calls) : n - 1 \in S => n \in S
    <2> SUFFICES ASSUME NEW n \in 1..Len(s.calls), Good(n - 1) PROVE Good(n)
      <3> HIDE DEF Good
      <3> QED BY <1>1
    <2>1. Good(n - 1) /\ s.calls[n] \in Call
      BY <1>1
    <2>2. Seen(n) = Seen(n - 1) \cup {s.calls[n].id}
      <3>1. 1..n = (1..(n - 1)) \cup {n}
        BY <1>1
      <3> QED BY <3>1
    <2>3. s.calls[n].id \notin Seen(n - 1)
      <3>1. \A i \in 1..(n - 1) : i \in 1..Len(s.calls) /\ i # n
        BY <1>1
      <3> QED BY <1>0, <3>1 DEF DistinctIds
    <2> HIDE DEF Seen
    <2>4. CASE s.calls[n].id \in s.done
      <3>1. left[n] = left[n - 1]
        BY <1>2, <2>4
      <3> QED BY <2>1, <2>2, <2>4, <3>1
    <2>5. CASE s.calls[n].id \notin s.done
      <3>1. left[n] = Append(left[n - 1], s.calls[n])
        BY <1>2, <2>5
      <3>2. s.calls[n].id \notin IdsOf(left[n - 1])
        BY <2>1, <2>3
      <3>3. /\ IdsOf(left[n]) = IdsOf(left[n - 1]) \cup {s.calls[n].id} /\ DistinctIds(left[n])
            /\ left[n] \in Seq(Call)
        BY <2>1, <3>1, <3>2, AppendLeft
      <3> QED BY <2>1, <2>2, <2>5, <3>3
    <2> QED BY <2>4, <2>5
  <1>5. Len(s.calls) \in S
    <2>1. 0..Len(s.calls) \subseteq S
      <3> HIDE DEF S
      <3> QED BY <1>1, <1>3, <1>4, Induction
    <2> QED BY <1>1, <2>1
  <1>6. Good(Len(s.calls))
    BY <1>1, <1>5
  <1>7. Seen(Len(s.calls)) \ s.done = Incomplete(s)
    BY DEF Incomplete, IdsOf
  <1> QED BY <1>2, <1>6, <1>7 DEF Left

(* Handling the first of them leaves the others.                             *)
LEMMA LeftTail ==
    ASSUME NEW s, NEW q \in Seq(Call), q # <<>>, Left(s, q)
    PROVE  /\ Head(q).id \in Incomplete(s) /\ Head(q).id \notin s.done
           /\ \A t : t.calls = s.calls /\ t.done = s.done \cup {Head(q).id} =>
                Left(t, Tail(q)) /\ Incomplete(t) \subseteq Incomplete(s)
  <1> DEFINE p == Tail(q)
  <1>1. /\ Len(q) \in Nat /\ 1 \in 1..Len(q) /\ Head(q) = q[1] /\ Len(p) = Len(q) - 1
        /\ \A i \in 1..Len(p) : p[i] = q[i + 1] /\ i + 1 \in 1..Len(q) /\ i + 1 # 1
    OBVIOUS
  <1> HIDE DEF p
  <1>2. Head(q).id \in Incomplete(s)
    BY <1>1 DEF Left, IdsOf
  <1>3. DistinctIds(p)
    <2> SUFFICES ASSUME NEW i \in 1..Len(p), NEW j \in 1..Len(p), p[i].id = p[j].id PROVE i = j
      BY DEF DistinctIds
    <2>1. i + 1 = j + 1
      BY <1>1 DEF Left, DistinctIds
    <2> QED BY <1>1, <2>1
  <1>4. IdsOf(p) = IdsOf(q) \ {Head(q).id}
    <2>1. ASSUME NEW id \in IdsOf(p) PROVE id \in IdsOf(q) /\ id # Head(q).id
      <3>1. PICK i \in 1..Len(p) : id = p[i].id
        BY DEF IdsOf
      <3>2. i + 1 \in 1..Len(q) /\ id = q[i + 1].id /\ i + 1 # 1
        BY <1>1, <3>1
      <3> QED BY <1>1, <3>2 DEF IdsOf, Left, DistinctIds
    <2>2. ASSUME NEW id \in IdsOf(q), id # Head(q).id PROVE id \in IdsOf(p)
      <3>1. PICK i \in 1..Len(q) : id = q[i].id
        BY DEF IdsOf
      <3>2. i # 1
        BY <1>1, <2>2, <3>1
      <3>3. i - 1 \in 1..Len(p) /\ (i - 1) + 1 = i
        BY <1>1, <3>2
      <3>4. p[i - 1] = q[i]
        BY <1>1, <3>3
      <3> QED BY <3>1, <3>3, <3>4 DEF IdsOf
    <2> QED BY <2>1, <2>2
  <1> QED BY <1>2, <1>3, <1>4 DEF Left, Incomplete, p

-----------------------------------------------------------------------------
(* Snapshots and the ledger.                                                 *)

LEMMA SeqIds == \A q \in Seq(Call) : \A i \in 1..Len(q) : q[i].id \in Ids
  <1> SUFFICES ASSUME NEW q \in Seq(Call), NEW i \in 1..Len(q) PROVE q[i].id \in Ids
    OBVIOUS
  <1>1. q[i] \in Call
    OBVIOUS
  <1> QED BY <1>1 DEF Call

LEMMA CallIds ==
    ASSUME NEW s \in Snapshot
    PROVE  Incomplete(s) \subseteq Ids /\ \A c \in CallsOf(s) : c.id \in Ids
  <1>1. s.calls \in Seq(Call)
    BY CallTypes, Fields, Zenon
  <1>2. \A i \in 1..Len(s.calls) : s.calls[i].id \in Ids
    BY <1>1, SeqIds
  <1> QED BY <1>2 DEF Incomplete, IdsOf, CallsOf

(* Snapshots that differ in what the calls do not depend on.                 *)
SameCalls(s, t) ==
  /\ t.status = s.status /\ t.pause = s.pause /\ t.pending = s.pending /\ t.waiting = s.waiting
  /\ t.round = s.round /\ t.calls = s.calls /\ t.done = s.done /\ t.asked = s.asked

LEMMA SaneLike ==
    ASSUME NEW L, NEW s, NEW t, SameCalls(s, t), Sane(L, s)
    PROVE  Sane(L, t)
  BY DEF SameCalls, Sane, Left, Open, AskedFirst, Incomplete, CallsOf

LEMMA AttemptIndices ==
    ASSUME TypeOK, NEW id \in Ids, NEW round
    PROVE  /\ AttemptsOf(ledger, id, round) \subseteq 1..Len(ledger[id])
           /\ Tried(ledger, id, round) =>
                Max(AttemptsOf(ledger, id, round)) \in AttemptsOf(ledger, id, round)
  <1> DEFINE S == AttemptsOf(ledger, id, round)
  <1>1. Len(ledger[id]) \in Nat /\ S \in SUBSET (1..Len(ledger[id]))
    BY LedgerTypes DEF AttemptsOf
  <1>2. ASSUME S # {} PROVE Max(S) \in S
    <2> HIDE DEF S
    <2> QED BY <1>1, <1>2, MaxOfIndices
  <1> QED BY <1>1, <1>2 DEF Tried

(* Calls stay settled when the attempts at them change for the better.       *)
LEMMA SettledKept ==
    ASSUME TypeOK, NEW M, NEW id \in Ids, NEW round, DOMAIN M[id] = DOMAIN ledger[id],
           \A n \in DOMAIN ledger[id] :
             /\ M[id][n].round = ledger[id][n].round
             /\ \/ M[id][n] = ledger[id][n] \/ Replayable(M[id][n])
                \/ M[id][n].resolution = "abandoned"
    PROVE  /\ Tried(M, id, round) <=> Tried(ledger, id, round)
           /\ Settled(ledger, id, round) => Settled(M, id, round)
  <1>1. AttemptsOf(M, id, round) = AttemptsOf(ledger, id, round)
    BY DEF AttemptsOf
  <1>2. Tried(ledger, id, round) =>
          Max(AttemptsOf(ledger, id, round)) \in AttemptsOf(ledger, id, round)
    BY AttemptIndices
  <1>3. Tried(ledger, id, round) => Max(AttemptsOf(ledger, id, round)) \in DOMAIN ledger[id]
    BY <1>2 DEF AttemptsOf
  <1> QED BY <1>1, <1>3 DEF Settled, CanResume, Tried, Latest

LEMMA SaneUnder ==
    ASSUME NEW L, NEW M, NEW s \in Snapshot, Sane(L, s),
           \A id \in Ids : /\ Tried(M, id, s.round) <=> Tried(L, id, s.round)
                           /\ Settled(L, id, s.round) => Settled(M, id, s.round)
    PROVE  Sane(M, s)
  BY CallIds DEF Sane, Open, AskedFirst

(* A response has not been tried.                                            *)
LEMMA LaterUntried ==
    ASSUME TypeOK, AttemptsOfRow, NEW round \in Nat, row.round < round, NEW id \in Ids
    PROVE  ~Tried(ledger, id, round) /\ Settled(ledger, id, round)
  <1>1. row.round \in Nat /\ \A n \in DOMAIN ledger[id] : ledger[id][n].round \in Nat
    BY Fields, LedgerTypes DEF TypeOK
  <1>2. ASSUME NEW n \in DOMAIN ledger[id] PROVE ledger[id][n].round # round
    <2>1. ledger[id][n].round <= row.round
      BY DEF AttemptsOfRow
    <2> QED BY <1>1, <2>1
  <1>3. ~Tried(ledger, id, round)
    BY <1>2 DEF Tried, AttemptsOf
  <1> QED BY <1>3 DEF Settled, CanResume

LEMMA RespondedSane ==
    ASSUME TypeOK, AttemptsOfRow, NEW s \in Snapshot, row.round <= s.round, NEW r \in Responses, NEW rem,
           s.status = "RUNNING", Sane(ledger, s)
    PROVE  LET t == Responded(s, r, rem) IN
           /\ Sane(ledger, t) /\ t.status = "RUNNING" /\ t.done = {} /\ t.calls = r /\ t.round = s.round + 1
           /\ t.asked = {} /\ Left(t, r) /\ Open(ledger, t)
  <1> DEFINE t == Responded(s, r, rem)
  <1>1. /\ t.status = s.status /\ t.pause = s.pause /\ t.pending = {} /\ t.round = s.round + 1 /\ t.calls = r
        /\ t.done = {} /\ t.asked = {}
    <2>1. t.status = s.status /\ t.pause = s.pause /\ t.pending = {}
      BY DEF Responded, Snapshot
    <2>2. t.round = s.round + 1 /\ t.calls = r
      BY DEF Responded, Snapshot
    <2>3. t.done = {} /\ t.asked = {}
      BY DEF Responded, Snapshot
    <2> QED BY <2>1, <2>2, <2>3
  <1>2. s.round \in Nat /\ row.round \in Nat
    BY Fields DEF TypeOK
  <1>3. s.round + 1 \in Nat /\ row.round < s.round + 1
    BY <1>2
  <1>4. \A c \in CallsOf(t) : c.id \in Ids
    <2>1. r \in Seq(Call)
      BY CallTypes
    <2>2. \A i \in 1..Len(r) : r[i].id \in Ids
      BY <2>1, SeqIds
    <2> HIDE DEF t
    <2> QED BY <1>1, <2>2 DEF CallsOf
  <1>5. \A id \in Ids : ~Tried(ledger, id, t.round) /\ Settled(ledger, id, t.round)
    BY <1>1, <1>3, LaterUntried
  <1> HIDE DEF t
  <1>6. Incomplete(t) = IdsOf(r) /\ IdsOf(r) \subseteq Ids
    BY <1>1, <1>4 DEF Incomplete, IdsOf, CallsOf
  <1>7. Left(t, r)
    BY <1>6, ResponsesAreDistinct DEF Left
  <1>8. AskedFirst(ledger, t) /\ Open(ledger, t)
    BY <1>4, <1>5, <1>6 DEF AskedFirst, Open
  <1>9. Sane(ledger, t)
    BY <1>1, <1>2, <1>8 DEF Sane
  <1> QED BY <1>1, <1>7, <1>8, <1>9 DEF t

-----------------------------------------------------------------------------
(* Steps that emit an event.                                                 *)

LEMMA NoneUnderWay ==
    ASSUME OutcomeInv, pc \notin {"none", "tool", "interrupted"}, NEW id \in Ids, NEW n \in DOMAIN ledger[id]
    PROVE  ledger[id][n].status # "STARTED"
  BY DEF OutcomeInv, UnderWay

(* The journal grows by an event, and by a pause with it when one is due.    *)
LEMMA TailGrows ==
    ASSUME tail \in Seq(Named), NEW e \in Named, tail' \in {Append(tail, e), tail \o <<e, Ev("paused")>>}
    PROVE  /\ \A i \in 1..Len(tail) : i \in 1..Len(tail') /\ tail'[i] = tail[i]
           /\ \E i \in 1..Len(tail') : tail'[i] = e
           /\ \A i \in 1..Len(tail') :
                \/ i \in 1..Len(tail) /\ tail'[i] = tail[i]
                \/ tail'[i] = e \/ tail'[i] = Ev("paused")
  <1>1. Len(tail) \in Nat /\ Ev("paused") \in Named
    BY EventTypes
  <1>2. CASE tail' = Append(tail, e)
    <2>1. /\ Len(tail') = Len(tail) + 1 /\ tail'[Len(tail) + 1] = e
          /\ \A i \in 1..Len(tail) : tail'[i] = tail[i]
      BY <1>1, <1>2
    <2>2. Len(tail) + 1 \in 1..Len(tail') /\ \A i \in 1..Len(tail') : i \in 1..Len(tail) \/ i = Len(tail) + 1
      BY <1>1, <2>1
    <2>3. \A i \in 1..Len(tail) : i \in 1..Len(tail')
      BY <1>1, <2>1
    <2> QED BY <2>1, <2>2, <2>3
  <1>3. CASE tail' = tail \o <<e, Ev("paused")>>
    <2>1. /\ Len(tail') = Len(tail) + 2 /\ tail'[Len(tail) + 1] = e /\ tail'[Len(tail) + 2] = Ev("paused")
          /\ \A i \in 1..Len(tail) : tail'[i] = tail[i]
      BY <1>1, <1>3
    <2>2. /\ Len(tail) + 1 \in 1..Len(tail')
          /\ \A i \in 1..Len(tail') : i \in 1..Len(tail) \/ i = Len(tail) + 1 \/ i = Len(tail) + 2
      BY <1>1, <2>1
    <2>3. \A i \in 1..Len(tail) : i \in 1..Len(tail')
      BY <1>1, <2>1
    <2> QED BY <2>1, <2>2, <2>3
  <1> QED BY <1>2, <1>3

LEMMA PausedSane ==
    ASSUME NEW s \in Snapshot, Sane(ledger, s), Open(ledger, s)
    PROVE  LET t == PausedAt(s) IN
           /\ Sane(ledger, t) /\ t.status = "PAUSED"
           /\ t.round = s.round /\ t.calls = s.calls /\ t.done = s.done /\ t.asked = s.asked
  <1> DEFINE t == PausedAt(s)
  <1>1. /\ t.status = "PAUSED" /\ t.pause = "resumable"
        /\ t.round = s.round /\ t.calls = s.calls /\ t.done = s.done /\ t.asked = s.asked
    BY DEF PausedAt, Snapshot
  <1> HIDE DEF t
  <1>2. Incomplete(t) = Incomplete(s) /\ CallsOf(t) = CallsOf(s)
    BY <1>1 DEF Incomplete, CallsOf
  <1>3. Sane(ledger, t)
    BY <1>1, <1>2 DEF Sane, Open, AskedFirst
  <1> QED BY <1>1, <1>3 DEF t

LEMMA EmitReports ==
    ASSUME LoopInv, ReportInv, pc \notin {"none", "save", "tool", "interrupted"},
           NEW e \in Named, NEW s \in Snapshot, NEW then, Emit(e, s, then), Sane(ledger, s),
           s.status = "RUNNING" /\ e.type \in Checkpoints => Open(ledger, s),
           s.status = "RUNNING" => then # "none",
           s.status = "RUNNING" /\ then = "chat" => s.calls = <<>>,
           s.status = "RUNNING" /\ then \in {"loop", "go", "ledger", "finish"} =>
             Left(s, todo') /\ Open(ledger, s),
           s.status = "RUNNING" /\ then \in {"go", "ledger"} /\ Head(todo').tool \in Sensitive =>
             Head(todo').id \in s.asked,
           e.type = "requested" => ~Tried(ledger, e.id, row.round),
           \A k \in Keys : told'[k] <= 1,
           \A k \in Keys : told'[k] > 0 =>
             Knows(s, k) /\ (told[k] > 0 \/ (row.status = "RUNNING" /\ k[1] = row.round /\ Tells(e, k)))
    PROVE  ReportInv'
  <1>1. pc' = "save" /\ next' = then /\ row' = row /\ ledger' = ledger
    BY DEF Emit
  <1>2. /\ Sane(ledger', mem') /\ (mem'.status = "RUNNING" => mem' = s)
        /\ mem'.round = s.round /\ mem'.done = s.done
    <2>1. CASE PauseDue(e.type, s)
      <3>1. mem' = PausedAt(s) /\ s.status = "RUNNING" /\ e.type \in Checkpoints
        BY <2>1 DEF Emit, PauseDue
      <3> QED BY <1>1, <3>1, PausedSane
    <2>2. CASE ~PauseDue(e.type, s)
      <3>1. mem' = s
        BY <2>2 DEF Emit
      <3> QED BY <1>1, <3>1
    <2> QED BY <2>1, <2>2
  <1>3. /\ \A i \in 1..Len(tail) : i \in 1..Len(tail') /\ tail'[i] = tail[i]
        /\ \E i \in 1..Len(tail') : tail'[i] = e
        /\ \A i \in 1..Len(tail') :
             \/ i \in 1..Len(tail) /\ tail'[i] = tail[i]
             \/ tail'[i] = e \/ tail'[i] = Ev("paused")
    <2>1. tail' \in {Append(tail, e), tail \o <<e, Ev("paused")>>}
      BY DEF Emit
    <2>2. tail \in Seq(Named)
      BY DEF LoopInv, EndInv
    <2> QED BY <2>1, <2>2, TailGrows
  <1>4. Sane(ledger, row) /\ OutcomeInv /\ TailInv /\ ToldInv
    BY DEF ReportInv
  <1>5. StepInv'
    BY <1>1, <1>2 DEF StepInv, Resting
  <1>6. TodoInv'
    BY <1>1, <1>2 DEF TodoInv, Busy, ToCall, Handling, Resting, Current, Open
  <1>7. OutcomeInv'
    <2>1. \A id \in Ids : \A n \in DOMAIN ledger[id] : ledger[id][n].status # "STARTED"
      BY <1>4, NoneUnderWay
    <2> QED BY <1>1, <1>4, <2>1 DEF OutcomeInv
  <1>8. TailInv'
    <2>1. Ev("paused").type = "paused"
      BY DEF Ev
    <2> QED BY <1>1, <1>3, <1>4, <2>1 DEF TailInv
  <1>9. ToldInv'
    <2>1. ReportedOnce'
      BY DEF ReportedOnce
    <2>2. ASSUME NEW k \in Keys, told'[k] > 0
          PROVE  Knows(row', k) \/ (row'.status = "RUNNING" /\ InTail(k)')
      <3>1. told[k] > 0 \/ (row.status = "RUNNING" /\ k[1] = row.round /\ Tells(e, k))
        BY <2>2
      <3>2. InTail(k) => InTail(k)'
        BY <1>1, <1>3 DEF InTail
      <3>3. k[1] = row.round /\ Tells(e, k) => InTail(k)'
        BY <1>1, <1>3 DEF InTail
      <3> QED BY <1>1, <1>4, <3>1, <3>2, <3>3 DEF ToldInv
    <2>3. Reported(told, mem)'
      BY <1>2 DEF Reported, Knows
    <2> QED BY <2>1, <2>2, <2>3 DEF ToldInv
  <1> QED BY <1>1, <1>2, <1>4, <1>5, <1>6, <1>7, <1>8, <1>9 DEF ReportInv

(* What the handlers know of the snapshot, and of the calls that are left.   *)
LEMMA AtWork ==
    ASSUME LoopInv, ReportInv, pc \notin {"none", "save"}
    PROVE  /\ mem \in Snapshot /\ row \in Snapshot /\ mem.round = row.round /\ mem.round \in Nat
           /\ mem.status = "RUNNING" /\ Sane(ledger, mem) /\ Reported(told, mem)
           /\ \A k \in Keys : told[k] <= 1 /\ told[k] \in Nat
           /\ pc \in {"loop", "go", "ledger", "report"} => Left(mem, todo) /\ Open(ledger, mem)
  <1>1. mem \in Snapshot /\ row \in Snapshot /\ mem.round = row.round /\ mem.round \in Nat
    BY AtRow, Fields
  <1>2. mem.status = "RUNNING" /\ Sane(ledger, mem) /\ Reported(told, mem) /\ \A k \in Keys : told[k] <= 1
    BY DEF ReportInv, StepInv, ToldInv, ReportedOnce
  <1>3. pc \in {"loop", "go", "ledger", "report"} => Left(mem, todo) /\ Open(ledger, mem)
    BY DEF ReportInv, TodoInv, Busy, Handling, Open
  <1>4. \A k \in Keys : told[k] \in Nat
    BY DEF LoopInv, TypeOK
  <1> QED BY <1>1, <1>2, <1>3, <1>4

LEMMA StartedReports == LoopInv /\ ReportInv /\ Started => ReportInv'
  <1> SUFFICES ASSUME LoopInv, ReportInv, Started PROVE ReportInv'
    OBVIOUS
  <1>1. pc = "started" /\ Emit(Ev("started"), mem, "chat") /\ told' = told
    BY DEF Started, history
  <1>2. Ev("started") \in Named /\ Ev("started").type = "started"
    BY EventTypes DEF Ev
  <1>3. mem.calls = <<>>
    BY <1>1 DEF ReportInv, StepInv
  <1>4. Open(ledger, mem)
    BY <1>3 DEF Open, Incomplete, IdsOf
  <1> QED BY <1>1, <1>2, <1>3, <1>4, AtWork, EmitReports DEF Reported

LEMMA ModelRespondsReports == LoopInv /\ ReportInv /\ ModelResponds => ReportInv'
  <1> SUFFICES ASSUME LoopInv, ReportInv, ModelResponds PROVE ReportInv'
    OBVIOUS
  <1>1. pc = "chat" /\ told' = told
    BY DEF ModelResponds, history
  <1>2. PICK r \in Responses : Emit(ChatEv(r, mem.rem), Responded(mem, r, mem.rem), "loop") /\ todo' = r
    BY DEF ModelResponds
  <1>3. /\ mem \in Snapshot /\ mem.round = row.round /\ mem.round \in Nat /\ mem.status = "RUNNING"
        /\ Sane(ledger, mem) /\ Reported(told, mem) /\ \A k \in Keys : told[k] <= 1
    BY <1>1, AtWork
  <1>4. TypeOK /\ AttemptsOfRow /\ mem.rem \in 0..MaxRounds
    BY <1>3, Fields DEF LoopInv, LedgerInv
  <1>5. PICK s : s = Responded(mem, r, mem.rem)
    OBVIOUS
  <1>6. s \in Snapshot /\ ChatEv(r, mem.rem) \in Named /\ ChatEv(r, mem.rem).type = "chat"
    BY <1>3, <1>4, <1>5, RespondedType, EventTypes DEF ChatEv, Ev
  <1>7. Sane(ledger, s) /\ Left(s, r) /\ Open(ledger, s) /\ s.round = mem.round + 1
    BY <1>3, <1>4, <1>5, RespondedSane
  <1>8. \A k \in Keys : told[k] > 0 => Knows(s, k)
    <2> SUFFICES ASSUME NEW k \in Keys, told[k] > 0 PROVE Knows(s, k)
      OBVIOUS
    <2>1. Knows(mem, k) /\ k[1] \in Nat
      BY <1>3, LoopAssumption DEF Reported, Keys, Rounds
    <2> QED BY <1>3, <1>7, <2>1 DEF Knows
  <1> QED BY <1>1, <1>2, <1>3, <1>5, <1>6, <1>7, <1>8, EmitReports

LEMMA RequestApprovalReports == LoopInv /\ ReportInv /\ RequestApproval => ReportInv'
  <1> SUFFICES ASSUME LoopInv, ReportInv, RequestApproval PROVE ReportInv'
    OBVIOUS
  <1>1. /\ pc = "loop" /\ todo # <<>> /\ Current.tool \in Sensitive /\ Current.id \notin mem.asked
        /\ Emit(CallEv("requested", Current.id), [mem EXCEPT !.asked = @ \cup {Current.id}], "loop")
        /\ todo' = todo /\ told' = told
    BY DEF RequestApproval, InLoop, history
  <1>2. PICK s : s = [mem EXCEPT !.asked = @ \cup {Current.id}]
    OBVIOUS
  <1>3. PICK e : e = CallEv("requested", Current.id)
    OBVIOUS
  <1>4. /\ mem \in Snapshot /\ mem.status = "RUNNING" /\ Sane(ledger, mem) /\ Reported(told, mem)
        /\ Left(mem, todo) /\ Open(ledger, mem) /\ \A k \in Keys : told[k] <= 1
        /\ Current \in CallsOf(mem) /\ Current.id \in Ids /\ mem.round = row.round
    BY <1>1, AtWork, AtTheCall
  <1>5. e \in Named /\ e.type = "requested" /\ e.id = Current.id
    BY <1>3, <1>4, EventTypes DEF CallEv, Ev
  <1>6. s \in Snapshot
    <2>1. mem.asked \cup {Current.id} \in SUBSET Ids
      BY <1>4, Fields
    <2> QED BY <1>2, <1>4, <2>1, Updates
  <1>7. /\ s.status = mem.status /\ s.pause = mem.pause /\ s.pending = mem.pending /\ s.waiting = mem.waiting
        /\ s.round = mem.round /\ s.calls = mem.calls /\ s.done = mem.done
        /\ mem.asked \subseteq s.asked
    BY <1>2, <1>4 DEF Snapshot
  <1>8. Incomplete(s) = Incomplete(mem) /\ CallsOf(s) = CallsOf(mem)
    BY <1>7 DEF Incomplete, CallsOf
  <1>9. Sane(ledger, s) /\ Left(s, todo) /\ Open(ledger, s)
    BY <1>4, <1>7, <1>8 DEF Sane, Left, Open, AskedFirst
  <1>10. ~Tried(ledger, e.id, row.round)
    BY <1>1, <1>4, <1>5 DEF Sane, AskedFirst
  <1>11. \A k \in Keys : told[k] > 0 => Knows(s, k)
    BY <1>4, <1>7 DEF Reported, Knows
  <1> QED BY <1>1, <1>2, <1>3, <1>4, <1>5, <1>6, <1>9, <1>10, <1>11, EmitReports

LEMMA PauseForApprovalReports == LoopInv /\ ReportInv /\ PauseForApproval => ReportInv'
  <1> SUFFICES ASSUME LoopInv, ReportInv, PauseForApproval PROVE ReportInv'
    OBVIOUS
  <1>1. /\ pc = "loop" /\ todo # <<>>
        /\ Emit(CallEv("paused", Current.id),
                [mem EXCEPT !.status = "PAUSED", !.waiting = todo, !.pending = {Current.id}], "none")
        /\ told' = told
    BY DEF PauseForApproval, Asked, InLoop, history
  <1>2. PICK s : s = [mem EXCEPT !.status = "PAUSED", !.waiting = todo, !.pending = {Current.id}]
    OBVIOUS
  <1>3. PICK e : e = CallEv("paused", Current.id)
    OBVIOUS
  <1>4. /\ mem \in Snapshot /\ mem.status = "RUNNING" /\ Sane(ledger, mem) /\ Reported(told, mem)
        /\ Left(mem, todo) /\ Open(ledger, mem) /\ \A k \in Keys : told[k] <= 1
        /\ Current.id \in Ids /\ todo \in Seq(Call)
    BY <1>1, AtWork, AtTheCall
  <1>5. e \in Named /\ e.type = "paused"
    BY <1>3, <1>4, EventTypes DEF CallEv, Ev
  <1>6. s \in Snapshot
    <2>1. "PAUSED" \in Status
      BY DEF Status
    <2>2. {Current.id} \in SUBSET Ids
      BY <1>4
    <2> QED BY <1>2, <1>4, <2>1, <2>2, Updates
  <1>7. /\ s.status = "PAUSED" /\ s.pause = mem.pause /\ s.waiting = todo
        /\ s.round = mem.round /\ s.calls = mem.calls /\ s.done = mem.done /\ s.asked = mem.asked
    BY <1>2, <1>4 DEF Snapshot
  <1>8. Incomplete(s) = Incomplete(mem) /\ CallsOf(s) = CallsOf(mem)
    BY <1>7 DEF Incomplete, CallsOf
  <1>9. Sane(ledger, s)
    BY <1>4, <1>7, <1>8 DEF Sane, Left, Open, AskedFirst
  <1>10. \A k \in Keys : told[k] > 0 => Knows(s, k)
    BY <1>4, <1>7 DEF Reported, Knows
  <1> QED BY <1>1, <1>2, <1>3, <1>4, <1>5, <1>6, <1>7, <1>9, <1>10, EmitReports

LEMMA TraceDecisionReports == LoopInv /\ ReportInv /\ TraceDecision => ReportInv'
  <1> SUFFICES ASSUME LoopInv, ReportInv, TraceDecision PROVE ReportInv'
    OBVIOUS
  <1>1. /\ pc = "loop" /\ todo # <<>> /\ Current.id \in mem.asked
        /\ Emit(CallEv("decided", Current.id), mem, "go") /\ todo' = todo /\ told' = told
    BY DEF TraceDecision, Asked, InLoop, history
  <1>2. PICK e : e = CallEv("decided", Current.id)
    OBVIOUS
  <1>3. e \in Named /\ e.type = "decided"
    BY <1>1, <1>2, AtTheCall, EventTypes DEF CallEv, Ev
  <1> QED BY <1>1, <1>2, <1>3, AtWork, EmitReports DEF Reported, Current

LEMMA StartToolReports == LoopInv /\ ReportInv /\ StartTool => ReportInv'
  <1> SUFFICES ASSUME LoopInv, ReportInv, StartTool PROVE ReportInv'
    OBVIOUS
  <1>1. /\ pc \in {"loop", "go"} /\ todo # <<>>
        /\ pc = "loop" => Current.tool \notin Sensitive
        /\ Emit(CallEv("toolStarted", Current.id), mem, "ledger") /\ todo' = todo /\ told' = told
    BY DEF StartTool, InLoop, history, LoopInv, ExecutionInv, AtCall
  <1>2. PICK e : e = CallEv("toolStarted", Current.id)
    OBVIOUS
  <1>3. e \in Named /\ e.type = "toolStarted"
    BY <1>1, <1>2, AtTheCall, EventTypes DEF CallEv, Ev
  <1>4. Current.tool \in Sensitive => Current.id \in mem.asked
    BY <1>1 DEF ReportInv, TodoInv, ToCall
  <1> QED BY <1>1, <1>2, <1>3, <1>4, AtWork, EmitReports DEF Reported, Current

(* A result or an error of the call: no outcome of it was told before.       *)
LEMMA ReportReports ==
    ASSUME LoopInv, ReportInv, pc \in {"loop", "go", "ledger", "report"}, todo # <<>>,
           NEW type \in {"done", "failed"}, Report(type),
           \/ told' = told
           \/ row.status = "RUNNING" /\ told' = [told EXCEPT ![Key] = @ + 1]
    PROVE  ReportInv'
  <1>1. /\ Emit(CallEv(type, Current.id), [mem EXCEPT !.done = @ \cup {Current.id}],
                IF type = "failed" /\ ~RecoverErrors THEN "finish" ELSE "loop")
        /\ todo' = Tail(todo)
    BY DEF Report
  <1>2. PICK s : s = [mem EXCEPT !.done = @ \cup {Current.id}]
    OBVIOUS
  <1>3. PICK e : e = CallEv(type, Current.id)
    OBVIOUS
  <1>4. PICK then : then = IF type = "failed" /\ ~RecoverErrors THEN "finish" ELSE "loop"
    OBVIOUS
  <1>5. /\ mem \in Snapshot /\ mem.status = "RUNNING" /\ Sane(ledger, mem) /\ Reported(told, mem)
        /\ Left(mem, todo) /\ Open(ledger, mem) /\ \A k \in Keys : told[k] <= 1 /\ told[k] \in Nat
        /\ Current.id \in Ids /\ todo \in Seq(Call) /\ mem.round = row.round /\ mem.round \in Nat
    BY AtWork, AtTheCall
  <1>6. e \in Named /\ e.type = type /\ e.id = Current.id
    BY <1>3, <1>5, EventTypes DEF CallEv, Ev
  <1>7. s \in Snapshot
    <2>1. mem.done \cup {Current.id} \in SUBSET Ids
      BY <1>5, Fields
    <2> QED BY <1>2, <1>5, <2>1, Updates
  <1>8. /\ s.status = mem.status /\ s.pause = mem.pause /\ s.pending = mem.pending
        /\ s.round = mem.round /\ s.calls = mem.calls /\ s.asked = mem.asked
        /\ s.done = mem.done \cup {Current.id}
    BY <1>2, <1>5 DEF Snapshot
  <1>9. /\ Current.id \notin mem.done /\ Left(s, Tail(todo)) /\ Incomplete(s) \subseteq Incomplete(mem)
    BY <1>5, <1>8, LeftTail DEF Current
  <1>10. Sane(ledger, s) /\ Open(ledger, s)
    <2>1. CallsOf(s) = CallsOf(mem)
      BY <1>8 DEF CallsOf
    <2> QED BY <1>5, <1>8, <1>9, <2>1 DEF Sane, Open, AskedFirst
  <1>11. ASSUME NEW k \in Keys
         PROVE  /\ told'[k] <= 1
                /\ told'[k] > 0 => Knows(s, k) /\ (told[k] > 0 \/ (row.status = "RUNNING" /\ k[1] = row.round /\ Tells(e, k)))
    <2>1. Knows(mem, k) => Knows(s, k)
      BY <1>8 DEF Knows
    <2>2. CASE told'[k] = told[k]
      BY <1>5, <2>1, <2>2 DEF Reported
    <2>3. CASE told'[k] # told[k]
      <3>1. told' = [told EXCEPT ![Key] = @ + 1] /\ row.status = "RUNNING"
        BY <2>3
      <3>2. k = Key /\ told'[k] = told[k] + 1
        <4>1. told \in [Keys -> Nat]
          BY DEF LoopInv, TypeOK
        <4> QED BY <2>3, <3>1, <4>1
      <3>3. k[1] = mem.round /\ k[2] = Current.id
        BY <3>2 DEF Key
      <3>4. ~Knows(mem, k) /\ Knows(s, k) /\ Tells(e, k)
        BY <1>5, <1>6, <1>8, <1>9, <3>3 DEF Knows, Tells
      <3>5. told[k] = 0
        BY <1>5, <3>4 DEF Reported
      <3> QED BY <1>5, <3>1, <3>2, <3>3, <3>4, <3>5
    <2> QED BY <2>2, <2>3
  <1>12. then \in {"loop", "finish"} /\ Emit(e, s, then)
    BY <1>1, <1>2, <1>3, <1>4
  <1> QED BY <1>1, <1>6, <1>7, <1>9, <1>10, <1>11, <1>12, EmitReports

LEMMA RejectReports == LoopInv /\ ReportInv /\ Reject => ReportInv'
  <1> SUFFICES ASSUME LoopInv, ReportInv, Reject PROVE ReportInv'
    OBVIOUS
  <1>1. pc \in {"loop", "go"} /\ todo # <<>> /\ Report("failed") /\ told' = told
    BY DEF Reject, InLoop, LoopInv, ExecutionInv, AtCall
  <1> QED BY <1>1, ReportReports

LEMMA ReportOutcomeReports == LoopInv /\ ReportInv /\ ReportOutcome => ReportInv'
  <1> SUFFICES ASSUME LoopInv, ReportInv, ReportOutcome PROVE ReportInv'
    OBVIOUS
  <1>1. pc \in {"ledger", "report"} /\ todo # <<>> /\ told' = [told EXCEPT ![Key] = @ + 1]
    BY DEF ReportOutcome, LoopInv, ExecutionInv, AtCall
  <1>2. row.status = "RUNNING"
    BY <1>1 DEF ReportInv, StepInv
  <1>3. PICK type \in {"done", "failed"} : Report(type)
    BY DEF ReportOutcome
  <1> QED BY <1>1, <1>2, <1>3, ReportReports

LEMMA WriteMemoryReports == LoopInv /\ ReportInv /\ WriteMemory => ReportInv'
  <1> SUFFICES ASSUME LoopInv, ReportInv, WriteMemory PROVE ReportInv'
    OBVIOUS
  <1>1. pc = "memory" /\ Emit(Ev("memory"), mem, "stop") /\ told' = told
    BY DEF WriteMemory, history
  <1>2. Ev("memory") \in Named /\ Ev("memory").type = "memory" /\ "memory" \notin Checkpoints
    BY EventTypes DEF Ev, Checkpoints
  <1> QED BY <1>1, <1>2, AtWork, EmitReports DEF Reported

LEMMA StoppedSane ==
    ASSUME NEW s \in Snapshot, Sane(ledger, s), NEW status \in Terminal
    PROVE  LET t == Stopped(s, status) IN
           /\ Sane(ledger, t) /\ t.status = status /\ t.round = s.round /\ t.done = s.done
  <1> DEFINE t == Stopped(s, status)
  <1>1. /\ t.status = status /\ t.round = s.round /\ t.done = s.done
        /\ t.calls = s.calls /\ t.asked = s.asked
    BY DEF Stopped, Snapshot
  <1> HIDE DEF t
  <1>2. CallsOf(t) = CallsOf(s)
    BY <1>1 DEF CallsOf
  <1>3. Sane(ledger, t)
    BY <1>1, <1>2 DEF Sane, AskedFirst, Terminal
  <1> QED BY <1>1, <1>3 DEF t

LEMMA StopReports == LoopInv /\ ReportInv /\ (Stop \/ MarkFailed) => ReportInv'
  <1> SUFFICES ASSUME LoopInv, ReportInv, Stop \/ MarkFailed PROVE ReportInv'
    OBVIOUS
  <1>1. /\ pc \in {"stop", "failed"} /\ told' = told
        /\ \E status \in Terminal : Emit(Ev(status), Stopped(mem, status), "none")
    <2>1. CASE Stop
      BY <2>1 DEF Stop, history, LoopInv, EndInv
    <2>2. CASE MarkFailed
      <3>1. row = mem
        BY <2>2 DEF MarkFailed, ReportInv, StepInv
      <3> QED BY <2>2, <3>1 DEF MarkFailed, history, Terminal
    <2> QED BY <2>1, <2>2
  <1>2. PICK status \in Terminal : Emit(Ev(status), Stopped(mem, status), "none")
    BY <1>1
  <1>3. mem \in Snapshot /\ Sane(ledger, mem) /\ Reported(told, mem) /\ \A k \in Keys : told[k] <= 1
    BY <1>1, AtWork
  <1>4. PICK s : s = Stopped(mem, status)
    OBVIOUS
  <1>5. /\ s \in Snapshot /\ Sane(ledger, s) /\ s.status = status /\ s.round = mem.round /\ s.done = mem.done
    BY <1>3, <1>4, StoppedType, StoppedSane
  <1>6. Ev(status) \in Named /\ Ev(status).type = status /\ status # "RUNNING" /\ status # "requested"
    BY EventTypes DEF Ev, Terminal
  <1>7. \A k \in Keys : told[k] > 0 => Knows(s, k)
    BY <1>3, <1>5 DEF Reported, Knows
  <1> QED BY <1>1, <1>2, <1>3, <1>4, <1>5, <1>6, <1>7, EmitReports

-----------------------------------------------------------------------------
(* Steps between the events.                                                 *)

LEMMA AbsentSane ==
    ASSUME NEW L
    PROVE  Sane(L, Absent)
  <1>1. /\ Absent.status = "ABSENT" /\ Absent.round = 0 /\ Absent.calls = <<>>
    BY DEF Absent, NewState
  <1>2. CallsOf(Absent) = {}
    BY <1>1 DEF CallsOf
  <1> QED BY <1>1, <1>2 DEF Sane, AskedFirst

(* The execution stops.                                                      *)
LEMMA IdleReports ==
    ASSUME ReportInv, Idle, ledger' = ledger, told' = told, Sane(ledger, row'), TailInv',
           \A id \in Ids : \A n \in DOMAIN ledger[id] :
             ledger[id][n].status = "STARTED" => row'.status = "RUNNING",
           \A k \in Keys : told[k] > 0 => Knows(row', k) \/ (row'.status = "RUNNING" /\ InTail(k)')
    PROVE  ReportInv'
  <1>1. pc' = "none" /\ mem' = Absent /\ Sane(ledger, mem')
    BY AbsentSane DEF Idle
  <1>2. StepInv' /\ TodoInv'
    BY <1>1 DEF StepInv, TodoInv, Busy, ToCall, Handling, Resting
  <1>3. OutcomeInv'
    BY <1>1 DEF ReportInv, OutcomeInv, UnderWay
  <1>4. ToldInv'
    BY <1>1 DEF ReportInv, ToldInv, ReportedOnce
  <1> QED BY <1>1, <1>2, <1>3, <1>4 DEF ReportInv

LEMMA SaveReports == LoopInv /\ ReportInv /\ Save => ReportInv'
  <1> SUFFICES ASSUME LoopInv, ReportInv, Save PROVE ReportInv'
    OBVIOUS
  <1>1. pc = "save" /\ row' = mem /\ tail' = <<>> /\ ledger' = ledger /\ told' = told
    BY DEF Save, history
  <1>2. /\ Sane(ledger, mem) /\ Reported(told, mem) /\ StepInv /\ TodoInv /\ OutcomeInv /\ ToldInv
    BY <1>1 DEF ReportInv, ToldInv
  <1>3. \A id \in Ids : \A n \in DOMAIN ledger[id] : ledger[id][n].status # "STARTED"
    BY <1>1, <1>2, NoneUnderWay
  <1>4. TailInv' /\ \A k \in Keys : told[k] > 0 => Knows(row', k)
    BY <1>1, <1>2 DEF TailInv, Reported
  <1>5. CASE mem.status = "RUNNING"
    <2>1. pc' = "yield" /\ UNCHANGED <<mem, todo, fate, next>>
      BY <1>5 DEF Save, Goto
    <2>2. StepInv'
      BY <1>1, <1>2, <1>5, <2>1 DEF StepInv, Resting
    <2>3. TodoInv'
      BY <1>1, <1>2, <1>5, <2>1 DEF TodoInv, Busy, ToCall, Handling, Resting, Current
    <2>4. OutcomeInv'
      BY <1>1, <1>2, <1>3 DEF OutcomeInv
    <2>5. ToldInv'
      BY <1>1, <1>2, <1>4, <2>1 DEF ToldInv, ReportedOnce, Reported
    <2> QED BY <1>1, <1>2, <1>4, <2>1, <2>2, <2>3, <2>4, <2>5 DEF ReportInv
  <1>6. CASE mem.status # "RUNNING"
    <2>1. Idle
      BY <1>6 DEF Save
    <2> QED BY <1>1, <1>2, <1>3, <1>4, <2>1, IdleReports
  <1> QED BY <1>5, <1>6

LEMMA CrashReports == LoopInv /\ ReportInv /\ Crash => ReportInv'
  <1> SUFFICES ASSUME LoopInv, ReportInv, Crash PROVE ReportInv'
    OBVIOUS
  <1>1. Idle /\ pc # "none" /\ UNCHANGED <<row, tail, ledger, told>>
    BY DEF Crash, db, history
  <1>2. Sane(ledger, row) /\ StepInv /\ OutcomeInv /\ TailInv /\ ToldInv
    BY DEF ReportInv
  <1>3. TailInv'
    BY <1>1, <1>2 DEF TailInv
  <1>4. \A k \in Keys : told[k] > 0 => Knows(row', k) \/ (row'.status = "RUNNING" /\ InTail(k)')
    BY <1>1, <1>2 DEF ToldInv, InTail
  <1>5. pc \in {"tool", "interrupted"} => row.status = "RUNNING"
    BY <1>2 DEF StepInv
  <1>6. \A id \in Ids : \A n \in DOMAIN ledger[id] :
          ledger[id][n].status = "STARTED" => row'.status = "RUNNING"
    BY <1>1, <1>2, <1>5 DEF OutcomeInv, UnderWay
  <1> QED BY <1>1, <1>2, <1>3, <1>4, <1>6, IdleReports

(* The execution goes on, with a snapshot like the one it has; the row may   *)
(* be saved.                                                                 *)
LEMMA MoveReports ==
    ASSUME LoopInv, ReportInv, pc \notin {"none", "save", "interrupted"}, pc = "tool" => pc' = "interrupted",
           row' \in {row, mem}, SameCalls(mem, mem'),
           pc' \in {"chat", "loop", "go", "ledger", "finish", "commit", "memory", "stop", "failed",
                    "interrupted"},
           pc' \in {"loop", "go", "ledger"} => pc = "yield" /\ next = pc',
           pc' = "ledger" => UNCHANGED <<row, mem>>,
           pc' \in {"failed", "interrupted"} => row' = mem',
           UNCHANGED <<tail, ledger, todo, next, told>>
    PROVE  ReportInv'
  <1>1. /\ Sane(ledger, row) /\ Sane(ledger, mem) /\ StepInv /\ TodoInv /\ OutcomeInv /\ TailInv /\ ToldInv
        /\ mem.status = "RUNNING" /\ Reported(told, mem) /\ mem.round = row.round
    BY AtWork DEF ReportInv
  <1>2. Sane(ledger', row') /\ Sane(ledger', mem')
    BY <1>1, SaneLike
  <1>3. StepInv'
    BY <1>1 DEF StepInv, Resting, SameCalls
  <1>4. TodoInv'
    <2>1. Busy' => pc = "yield" /\ Busy
      BY DEF Busy, Handling, Resting
    <2>2. ToCall' => ToCall
      BY DEF ToCall, Resting
    <2>3. mem'.round = mem.round /\ Incomplete(mem') = Incomplete(mem) /\ mem'.asked = mem.asked
      BY DEF SameCalls, Incomplete
    <2> QED BY <1>1, <2>1, <2>2, <2>3 DEF TodoInv, Left, Current
  <1>5. OutcomeInv'
    <2>1. \A id \in Ids : \A n \in DOMAIN ledger[id] : ledger[id][n].status = "STARTED" => pc' = "interrupted"
      BY <1>1 DEF OutcomeInv, UnderWay
    <2> QED BY <1>1, <2>1 DEF OutcomeInv, UnderWay
  <1>6. TailInv'
    BY <1>1 DEF TailInv
  <1>7. ToldInv'
    <2>1. Reported(told, mem') /\ ReportedOnce'
      BY <1>1 DEF SameCalls, Reported, Knows, ToldInv, ReportedOnce
    <2>2. CASE row' = row
      BY <1>1, <2>1, <2>2 DEF ToldInv, InTail
    <2>3. CASE row' = mem
      BY <1>1, <2>1, <2>3 DEF ToldInv, Reported
    <2> QED BY <2>2, <2>3
  <1> QED BY <1>2, <1>3, <1>4, <1>5, <1>6, <1>7 DEF ReportInv

LEMMA RoundCompletedReports == LoopInv /\ ReportInv /\ RoundCompleted => ReportInv'
  <1> SUFFICES ASSUME LoopInv, ReportInv, RoundCompleted PROVE ReportInv'
    OBVIOUS
  <1>1. /\ pc = "loop" /\ mem' = [mem EXCEPT !.rem = Consumed(@)] /\ pc' = "chat"
        /\ UNCHANGED <<row, tail, ledger, todo, next, told>>
    BY DEF RoundCompleted, db, history
  <1>2. SameCalls(mem, mem')
    BY <1>1, AtWork DEF SameCalls, Snapshot
  <1> QED BY <1>1, <1>2, MoveReports

LEMMA FinishReports == LoopInv /\ ReportInv /\ Finish => ReportInv'
  <1> SUFFICES ASSUME LoopInv, ReportInv, Finish PROVE ReportInv'
    OBVIOUS
  <1>1. /\ pc \in {"loop", "finish"} /\ mem' = [mem EXCEPT !.fin = TRUE] /\ pc' = "commit"
        /\ UNCHANGED <<row, tail, ledger, todo, next, told>>
    BY DEF Finish, db, history
  <1>2. SameCalls(mem, mem')
    BY <1>1, AtWork DEF SameCalls, Snapshot
  <1> QED BY <1>1, <1>2, MoveReports

LEMMA PlainMoveReports == LoopInv /\ ReportInv /\ (CommitTranscript \/ Fault \/ Timeout) => ReportInv'
  <1> SUFFICES ASSUME LoopInv, ReportInv, CommitTranscript \/ Fault \/ Timeout PROVE ReportInv'
    OBVIOUS
  <1>1. /\ UNCHANGED <<tail, ledger, mem, todo, next, told>>
        /\ \/ pc = "commit" /\ pc' \in {"memory", "stop"} /\ row' = row
           \/ pc \in {"chat", "commit", "memory", "loop", "ledger"} /\ pc' = "failed" /\ row' = mem
           \/ pc \in {"chat", "tool", "yield", "commit", "memory"} /\ pc' = "interrupted" /\ row' = mem
    BY DEF CommitTranscript, Fault, Timeout, Goto, InLoop, db, history
  <1>2. SameCalls(mem, mem')
    BY <1>1 DEF SameCalls
  <1> QED BY <1>1, <1>2, MoveReports

LEMMA YieldedReports == LoopInv /\ ReportInv /\ Yielded => ReportInv'
  <1> SUFFICES ASSUME LoopInv, ReportInv, Yielded PROVE ReportInv'
    OBVIOUS
  <1>1. pc = "yield" /\ UNCHANGED <<row, ledger, told, todo, next>>
    BY DEF Yielded, Goto, history
  <1>2. /\ next \in {"none", "chat", "loop", "go", "ledger", "finish", "stop"} /\ next # "none"
        /\ row = mem /\ tail = <<>>
    BY <1>1 DEF LoopInv, TypeOK, ReportInv, StepInv, Resting
  <1>3. CASE RequestedAtYield
    <2>1. /\ pc' = "save" /\ mem' = PausedAt(mem) /\ tail' = Append(tail, Ev("paused"))
          /\ next \in {"chat", "loop", "go", "finish"}
      BY <1>2, <1>3 DEF Yielded, RequestedAtYield
    <2>2. Open(ledger, mem)
      <3>1. CASE next = "chat"
        <4>1. mem.calls = <<>>
          BY <1>1, <3>1 DEF ReportInv, StepInv, Resting
        <4> QED BY <4>1 DEF Open, Incomplete, IdsOf
      <3>2. CASE next # "chat"
        BY <1>1, <2>1, <3>2 DEF ReportInv, TodoInv, Busy, Handling, Resting, Open
      <3> QED BY <3>1, <3>2
    <2>3. /\ Sane(ledger, row) /\ Sane(ledger, mem) /\ OutcomeInv /\ ToldInv /\ mem \in Snapshot
          /\ Reported(told, mem)
      BY <1>1, AtWork DEF ReportInv
    <2>4. /\ Sane(ledger, mem') /\ mem'.status = "PAUSED" /\ mem'.round = mem.round /\ mem'.done = mem.done
      BY <2>1, <2>2, <2>3, PausedSane
    <2>5. StepInv' /\ TodoInv'
      BY <2>1, <2>4 DEF StepInv, TodoInv, Busy, ToCall, Handling, Resting
    <2>6. OutcomeInv'
      <3>1. \A id \in Ids : \A n \in DOMAIN ledger[id] : ledger[id][n].status # "STARTED"
        BY <1>1, <2>3, NoneUnderWay
      <3> QED BY <1>1, <2>3, <3>1 DEF OutcomeInv
    <2>7. TailInv'
      <3>1. Len(tail') = 1 /\ tail'[1] = Ev("paused") /\ Ev("paused").type = "paused"
        BY <1>2, <2>1 DEF Ev
      <3> QED BY <3>1 DEF TailInv
    <2>8. ToldInv'
      <3>1. \A k \in Keys : told[k] > 0 => Knows(row, k) /\ Knows(mem', k)
        BY <1>2, <2>3, <2>4 DEF Reported, Knows
      <3> QED BY <1>1, <2>3, <3>1 DEF ToldInv, ReportedOnce, Reported
    <2> QED BY <1>1, <2>3, <2>4, <2>5, <2>6, <2>7, <2>8 DEF ReportInv
  <1>4. CASE ~RequestedAtYield
    <2>1. pc' = next /\ UNCHANGED <<tail, mem, todo, next>>
      BY <1>4 DEF Yielded, Goto
    <2>2. SameCalls(mem, mem')
      BY <2>1 DEF SameCalls
    <2> QED BY <1>1, <1>2, <2>1, <2>2, MoveReports
  <1> QED BY <1>3, <1>4

-----------------------------------------------------------------------------
(* Steps of the ledger.                                                      *)

(* The last attempt at a call, if it is of the round, is the latest.         *)
LEMMA LastOfRound ==
    ASSUME NEW L, NEW id, NEW n \in Nat, DOMAIN L[id] = 1..n, n \in 1..n, NEW round, L[id][n].round = round
    PROVE  Tried(L, id, round) /\ Latest(L, id, round) = L[id][n]
  <1> DEFINE S == AttemptsOf(L, id, round)
             m == Max(S)
  <1>1. S \in SUBSET (1..n) /\ n \in S
    BY DEF AttemptsOf
  <1>2. m \in S /\ \A x \in S : x <= m
    <2> HIDE DEF S
    <2> QED BY <1>1, MaxOfIndices
  <1> HIDE DEF m
  <1>3. m = n
    <2> HIDE DEF S
    <2>1. m \in 1..n /\ n <= m
      BY <1>1, <1>2
    <2> QED BY <2>1
  <1> QED BY <1>1, <1>3 DEF Tried, Latest, m

LEMMA LedgerStepReports ==
    ASSUME LoopInv, ReportInv, pc \in {"ledger", "begin", "tool"}, pc' \in {"begin", "tool", "report"},
           UNCHANGED <<row, tail, mem, todo, next, told>>,
           \A id \in Ids : id # Current.id => ledger'[id] = ledger[id],
           pc' # "tool" => Settled(ledger', Current.id, mem.round),
           \/ Tried(ledger, Current.id, mem.round)
           \/ Current.tool \in Sensitive => Current.id \in mem.asked,
           OutcomeInv'
    PROVE  ReportInv'
  <1>1. /\ mem \in Snapshot /\ mem.status = "RUNNING" /\ row = mem /\ tail = <<>> /\ Sane(ledger, mem)
        /\ Left(mem, todo) /\ ToldInv
        /\ \A id \in Incomplete(mem) : id # Current.id => Settled(ledger, id, mem.round)
    BY AtWork DEF ReportInv, StepInv, TodoInv, Busy, Handling
  <1>2. Current \in CallsOf(mem)
    <2>1. todo # <<>>
      BY DEF LoopInv, ExecutionInv, AtCall
    <2> QED BY <2>1, AtTheCall
  <1>3. AskedFirst(ledger', mem)
    <2> SUFFICES ASSUME NEW c \in CallsOf(mem), c.tool \in Sensitive, Tried(ledger', c.id, mem.round)
                 PROVE  c.id \in mem.asked
      BY DEF AskedFirst
    <2>1. c.id \in Ids
      BY <1>1, CallIds
    <2>2. CASE c.id # Current.id
      <3>1. Tried(ledger, c.id, mem.round)
        BY <2>1, <2>2 DEF Tried, AttemptsOf
      <3> QED BY <1>1, <3>1 DEF Sane, AskedFirst
    <2>3. CASE c.id = Current.id
      <3>1. c = Current
        BY <1>1, <1>2, <2>3, OneToolPerId
      <3> QED BY <1>1, <1>2, <3>1 DEF Sane, AskedFirst
    <2> QED BY <2>2, <2>3
  <1>4. Sane(ledger', mem') /\ Sane(ledger', row')
    BY <1>1, <1>3 DEF Sane
  <1>5. StepInv'
    BY <1>1 DEF StepInv, Resting
  <1>6. TodoInv'
    <2>1. ASSUME NEW id \in Incomplete(mem), id # Current.id PROVE Settled(ledger', id, mem.round)
      <3>1. ledger'[id] = ledger[id]
        BY <1>1, <2>1, CallIds
      <3> QED BY <1>1, <2>1, <3>1 DEF Settled, CanResume, Tried, Latest, AttemptsOf
    <2> QED BY <1>1, <2>1 DEF TodoInv, ToCall, Resting, Current
  <1>7. TailInv'
    BY <1>1 DEF TailInv
  <1>8. ToldInv'
    BY <1>1 DEF ToldInv, ReportedOnce, InTail
  <1> QED BY <1>4, <1>5, <1>6, <1>7, <1>8 DEF ReportInv

LEMMA ScheduleReports == LoopInv /\ ReportInv /\ Schedule => ReportInv'
  <1> SUFFICES ASSUME LoopInv, ReportInv, Schedule PROVE ReportInv'
    OBVIOUS
  <1> DEFINE id == Current.id
             n == Len(ledger[id])
             a == [round |-> mem.round, tool |-> Current.tool, status |-> "SCHEDULED", resolution |-> "none"]
  <1>1. /\ pc = "ledger" /\ pc' = "begin" /\ UNCHANGED <<row, tail, mem, todo, next, told>>
        /\ \/ ledger' = [ledger EXCEPT ![id] = Append(@, a)]
           \/ ledger' = ledger /\ Tried(ledger, id, mem.round) /\ Outcome.status = "SCHEDULED"
    BY DEF Schedule, Goto, history
  <1>2. /\ TypeOK /\ OutcomeInv /\ id \in Ids /\ (Current.tool \in Sensitive => id \in mem.asked)
    <2>1. todo # <<>>
      BY <1>1 DEF LoopInv, ExecutionInv, AtCall
    <2> QED BY <1>1, <2>1, AtTheCall DEF LoopInv, ReportInv, TodoInv, ToCall
  <1>3. \A i \in Ids : \A x \in DOMAIN ledger[i] : ledger[i][x].status # "STARTED"
    BY <1>1, <1>2, NoneUnderWay
  <1>4. ledger[id] \in Seq(Attempt) /\ n \in Nat /\ ledger \in [Ids -> Seq(Attempt)]
    BY <1>2, LedgerTypes DEF TypeOK
  <1>5. CASE ledger' = [ledger EXCEPT ![id] = Append(@, a)]
    <2>1. ledger'[id] = Append(ledger[id], a) /\ \A i \in Ids : i # id => ledger'[i] = ledger[i]
      BY <1>2, <1>4, <1>5
    <2>2. /\ DOMAIN ledger'[id] = 1..(n + 1) /\ ledger'[id][n + 1] = a
          /\ \A x \in 1..n : ledger'[id][x] = ledger[id][x] /\ x \in DOMAIN ledger[id]
      BY <1>4, <2>1
    <2>3. n + 1 \in Nat /\ n + 1 \in 1..(n + 1) /\ \A x \in 1..(n + 1) : x \in 1..n \/ x = n + 1
      BY <1>4
    <2>4. a.round = mem.round /\ a.status = "SCHEDULED" /\ a.resolution = "none"
      OBVIOUS
    <2> HIDE DEF a, n
    <2>5. Settled(ledger', id, mem.round)
      <3>1. Latest(ledger', id, mem.round) = a
        BY <2>2, <2>3, <2>4, LastOfRound
      <3> QED BY <2>4, <3>1 DEF Settled, CanResume, Replayable
    <2>6. OutcomeInv'
      <3> SUFFICES ASSUME NEW i \in Ids, NEW x \in DOMAIN ledger'[i]
                   PROVE  /\ ledger'[i][x].resolution = "confirmed" => ledger'[i][x].status = "COMPLETED"
                          /\ ledger'[i][x].status # "STARTED"
        BY DEF OutcomeInv
      <3>1. CASE i = id /\ x = n + 1
        BY <2>2, <2>4, <3>1
      <3>2. CASE ~(i = id /\ x = n + 1)
        <4>1. x \in DOMAIN ledger[i] /\ ledger'[i][x] = ledger[i][x]
          BY <2>1, <2>2, <2>3, <3>2
        <4> QED BY <1>2, <1>3, <4>1 DEF OutcomeInv
      <3> QED BY <3>1, <3>2
    <2> QED BY <1>1, <1>2, <2>1, <2>5, <2>6, LedgerStepReports
  <1>6. CASE ledger' = ledger /\ Outcome.status = "SCHEDULED"
    <2>1. Settled(ledger', id, mem.round)
      BY <1>6 DEF Settled, CanResume, Replayable, Outcome
    <2>2. OutcomeInv'
      BY <1>2, <1>3, <1>6 DEF OutcomeInv
    <2> QED BY <1>1, <1>2, <1>6, <2>1, <2>2, LedgerStepReports
  <1> QED BY <1>1, <1>5, <1>6

(* The attempt at the call has begun, or has an outcome.                     *)
LEMMA AttemptReports == LoopInv /\ ReportInv /\ (BeginTool \/ ToolReturns) => ReportInv'
  <1> SUFFICES ASSUME LoopInv, ReportInv, BeginTool \/ ToolReturns PROVE ReportInv'
    OBVIOUS
  <1>1. PICK status \in {"STARTED", "COMPLETED", "FAILED"} :
          /\ ledger' = SetLast(Current.id, status) /\ UNCHANGED <<row, tail, mem, todo, next, told>>
          /\ \/ pc = "begin" /\ pc' = "tool" /\ status = "STARTED"
             \/ pc = "tool" /\ pc' = "report" /\ status \in {"COMPLETED", "FAILED"}
    BY DEF BeginTool, ToolReturns, Goto, history
  <1>2. TypeOK /\ OutcomeInv /\ Current.id \in Ids /\ (LastIs("SCHEDULED") \/ LastIs("STARTED"))
    <2>1. todo # <<>>
      BY <1>1 DEF LoopInv, ExecutionInv, AtCall
    <2> QED BY <1>1, <2>1, AtTheCall DEF LoopInv, ReportInv, AttemptInv
  <1>3. PICK id \in Ids : id = Current.id
    BY <1>2
  <1>4. PICK n : n = Len(ledger[id])
    OBVIOUS
  <1>5. /\ ledger[id] # <<>> /\ ledger[id][n].status \in {"SCHEDULED", "STARTED"} /\ ledger[id][n].round = mem.round
    BY <1>2, <1>3, <1>4 DEF LastIs, Last
  <1>6. /\ n \in 1..n /\ \A i \in Ids : Len(ledger'[i]) = Len(ledger[i]) /\ ledger'[i] \in Seq(Attempt)
        /\ \A i \in Ids : \A x \in 1..Len(ledger[i]) : i # id \/ x # n => ledger'[i][x] = ledger[i][x]
        /\ ledger'[id][n].status = status /\ ledger'[id][n].round = ledger[id][n].round
        /\ ledger'[id][n].resolution = ledger[id][n].resolution
    BY <1>1, <1>2, <1>3, <1>4, <1>5, SetLastIs
  <1>7. \A i \in Ids : DOMAIN ledger[i] = 1..Len(ledger[i]) /\ DOMAIN ledger'[i] = 1..Len(ledger[i])
    BY <1>2, <1>6, LedgerTypes
  <1>8. n \in Nat /\ Tried(ledger, id, mem.round) /\ Latest(ledger', id, mem.round) = ledger'[id][n]
    <2>1. n \in Nat
      BY <1>2, <1>4, LedgerTypes
    <2>2. DOMAIN ledger[id] = 1..n /\ DOMAIN ledger'[id] = 1..n /\ n \in 1..n
      BY <1>4, <1>6, <1>7
    <2>3. Tried(ledger, id, mem.round)
      BY <1>5, <2>1, <2>2, LastOfRound
    <2>4. Latest(ledger', id, mem.round) = ledger'[id][n]
      <3>1. ledger'[id][n].round = mem.round
        BY <1>5, <1>6
      <3> QED BY <2>1, <2>2, <3>1, LastOfRound
    <2> QED BY <2>1, <2>3, <2>4
  <1>9. \A i \in Ids : i # id => ledger'[i] = ledger[i]
    BY <1>1, <1>2, <1>3 DEF SetLast, TypeOK
  <1>10. pc' # "tool" => Settled(ledger', id, mem.round)
    BY <1>1, <1>6, <1>8 DEF Settled, CanResume, Replayable
  <1>11. OutcomeInv'
    <2> SUFFICES ASSUME NEW i \in Ids, NEW x \in 1..Len(ledger[i])
                 PROVE  /\ ledger'[i][x].resolution = "confirmed" => ledger'[i][x].status = "COMPLETED"
                        /\ ledger'[i][x].status = "STARTED" => UnderWay(i, x)'
      BY <1>7 DEF OutcomeInv
    <2>1. CASE i = id /\ x = n
      <3>1. ledger[id][n].resolution # "confirmed"
        BY <1>2, <1>4, <1>5, <1>6, <1>7 DEF OutcomeInv
      <3>2. status = "STARTED" => UnderWay(i, x)'
        BY <1>1, <1>3, <1>4, <1>6, <2>1 DEF UnderWay, Current
      <3> QED BY <1>6, <2>1, <3>1, <3>2
    <2>2. CASE ~(i = id /\ x = n)
      <3>1. ledger'[i][x] = ledger[i][x]
        BY <1>6, <2>2
      <3>2. ledger[i][x].status # "STARTED"
        BY <1>1, <1>2, <1>3, <1>4, <1>7, <2>2 DEF OutcomeInv, UnderWay
      <3> QED BY <1>2, <1>7, <3>1, <3>2 DEF OutcomeInv
    <2> QED BY <2>1, <2>2
  <1> QED BY <1>1, <1>3, <1>8, <1>9, <1>10, <1>11, LedgerStepReports

-----------------------------------------------------------------------------
(* Recovery.                                                                 *)

(* What an event makes of a snapshot.                                        *)
LEMMA AppliedFields ==
    ASSUME NEW s \in Snapshot, NEW e \in Named
    PROVE  LET t == Apply(s, e) IN
           \/ /\ e.type = "chat" /\ e.calls \in Responses \cup {<<>>}
              /\ t.round = s.round + 1 /\ t.calls = e.calls /\ t.pending = {} /\ t.status = s.status
           \/ /\ e.type = "requested" /\ e.id \in Ids /\ t.status = s.status
              /\ t.round = s.round /\ t.calls = s.calls /\ t.done = s.done
              /\ t.asked = s.asked \cup {e.id} /\ t.pending = s.pending \cup {e.id}
           \/ /\ e.type \notin {"chat", "requested"}
              /\ t.round = s.round /\ t.calls = s.calls /\ t.asked = s.asked
              /\ t.status \in {s.status} \cup Terminal /\ t.pending \subseteq s.pending
              /\ t.done = IF e.type \in {"done", "failed"} THEN s.done \cup {e.id} ELSE s.done
  <1> DEFINE t == Apply(s, e)
  <1>1. CASE e.type = "chat"
    <2>1. t = Responded(s, e.calls, e.rem) /\ e.calls \in Responses \cup {<<>>}
      BY <1>1 DEF Apply, Terminal, Named, Event
    <2>2. t.round = s.round + 1 /\ t.calls = e.calls /\ t.pending = {} /\ t.status = s.status
      <3> HIDE DEF t
      <3> QED BY <2>1 DEF Responded, Snapshot
    <2> QED BY <1>1, <2>1, <2>2
  <1>2. CASE e.type = "requested"
    <2>1. t = [s EXCEPT !.pending = @ \cup {e.id}, !.asked = @ \cup {e.id}, !.waiting = s.calls] /\ e.id \in Ids
      BY <1>2 DEF Apply, Named, Terminal
    <2>2. /\ t.round = s.round /\ t.calls = s.calls /\ t.done = s.done /\ t.status = s.status
          /\ t.asked = s.asked \cup {e.id} /\ t.pending = s.pending \cup {e.id}
      <3> HIDE DEF t
      <3> QED BY <2>1 DEF Snapshot
    <2> QED BY <1>2, <2>1, <2>2
  <1>3. CASE e.type \in {"done", "failed"}
    <2>1. t = [s EXCEPT !.done = @ \cup {e.id}]
      BY <1>3 DEF Apply, Terminal
    <2>2. /\ t.round = s.round /\ t.calls = s.calls /\ t.asked = s.asked
          /\ t.status = s.status /\ t.pending = s.pending /\ t.done = s.done \cup {e.id}
      <3> HIDE DEF t
      <3> QED BY <2>1 DEF Snapshot
    <2> QED BY <1>3, <2>2
  <1>4. CASE e.type \in Terminal
    <2>1. t = [s EXCEPT !.status = e.type, !.fin = TRUE, !.waiting = <<>>, !.pending = {}]
      BY <1>4 DEF Apply, Terminal
    <2>2. /\ t.round = s.round /\ t.calls = s.calls /\ t.asked = s.asked
          /\ t.status = e.type /\ t.pending = {} /\ t.done = s.done
      <3> HIDE DEF t
      <3> QED BY <2>1 DEF Snapshot
    <2> QED BY <1>4, <2>2 DEF Terminal
  <1>5. CASE e.type \notin {"chat", "requested", "done", "failed"} \cup Terminal
    <2>1. t = [s EXCEPT !.fin = TRUE] \/ t = s
      BY <1>5 DEF Apply
    <2>2. /\ t.round = s.round /\ t.calls = s.calls /\ t.asked = s.asked
          /\ t.status = s.status /\ t.pending = s.pending /\ t.done = s.done
      <3> HIDE DEF t
      <3> QED BY <2>1 DEF Snapshot
    <2> QED BY <1>5, <2>2
  <1> HIDE DEF t
  <1> QED BY <1>1, <1>2, <1>3, <1>4, <1>5 DEF t

(* What was told stays known when an event is applied, and what the event    *)
(* tells becomes known.                                                      *)
LEMMA AppliedKnows ==
    ASSUME NEW s \in Snapshot, NEW e \in Named, NEW k \in Keys,
           Knows(s, k) \/ (Tells(e, k) /\ k[1] <= s.round)
    PROVE  Knows(Apply(s, e), k)
  <1>1. k[1] \in Nat /\ s.round \in Nat
    BY Fields, LoopAssumption DEF Keys, Rounds
  <1>2. PICK t : t = Apply(s, e)
    OBVIOUS
  <1>3. \/ e.type = "chat" /\ t.round = s.round + 1
        \/ t.round = s.round /\ s.done \subseteq t.done /\ (e.type \in {"done", "failed"} => e.id \in t.done)
    BY <1>2, AppliedFields
  <1> QED BY <1>1, <1>2, <1>3 DEF Knows, Tells

(* The snapshots that recovery may go through.                               *)
Recoverable(s) ==
  /\ row.round <= s.round /\ s.status \in {"RUNNING"} \cup Terminal
  /\ s.round = 0 => s.calls = <<>>
  /\ \A id \in s.pending : ~Tried(ledger, id, s.round)
  /\ AskedFirst(ledger, s)

LEMMA AppliedRecoverable ==
    ASSUME TypeOK, AttemptsOfRow, NEW s \in Snapshot, Recoverable(s), NEW e \in Named,
           e.type = "requested" => ~Tried(ledger, e.id, row.round)
    PROVE  Apply(s, e) \in Snapshot => Recoverable(Apply(s, e))
  <1>1. PICK t : t = Apply(s, e)
    OBVIOUS
  <1> SUFFICES ASSUME t \in Snapshot PROVE Recoverable(t)
    BY <1>1
  <1>2. row.round \in Nat /\ s.round \in Nat
    BY Fields DEF TypeOK
  <1>3. \A c \in CallsOf(t) : c.id \in Ids
    BY CallIds
  <1>4. CASE e.type = "chat"
    <2>0. e.type # "requested" /\ ~(e.type \notin {"chat", "requested"})
      BY <1>4
    <2>1. t.round = s.round + 1 /\ t.pending = {} /\ t.status = s.status
      BY <1>1, <2>0, AppliedFields, Zenon
    <2>2. t.round \in Nat /\ row.round < t.round /\ t.round # 0
      BY <1>2, <2>1 DEF Recoverable
    <2>3. \A id \in Ids : ~Tried(ledger, id, t.round)
      BY <2>2, LaterUntried
    <2>4. AskedFirst(ledger, t)
      BY <1>3, <2>3 DEF AskedFirst
    <2> QED BY <1>2, <2>1, <2>2, <2>4 DEF Recoverable
  <1>5. CASE e.type = "requested"
    <2>1. /\ e.id \in Ids /\ t.status = s.status
          /\ t.round = s.round /\ t.calls = s.calls
          /\ t.asked = s.asked \cup {e.id} /\ t.pending = s.pending \cup {e.id}
      BY <1>1, <1>5, AppliedFields
    <2>2. ~Tried(ledger, e.id, s.round)
      <3>1. CASE s.round = row.round
        BY <1>5, <3>1
      <3>2. CASE s.round # row.round
        <4>1. row.round < s.round
          BY <1>2, <3>2 DEF Recoverable
        <4> QED BY <1>2, <2>1, <4>1, LaterUntried
      <3> QED BY <3>1, <3>2
    <2>3. CallsOf(t) = CallsOf(s)
      BY <2>1 DEF CallsOf
    <2> QED BY <2>1, <2>2, <2>3 DEF Recoverable, AskedFirst
  <1>6. CASE e.type \notin {"chat", "requested"}
    <2>1. /\ t.round = s.round /\ t.calls = s.calls /\ t.asked = s.asked
          /\ t.status \in {s.status} \cup Terminal /\ t.pending \subseteq s.pending
      BY <1>1, <1>6, AppliedFields
    <2>2. CallsOf(t) = CallsOf(s)
      BY <2>1 DEF CallsOf
    <2> QED BY <2>1, <2>2 DEF Recoverable, AskedFirst
  <1> QED BY <1>4, <1>5, <1>6

LEMMA RestoredReports ==
    ASSUME LoopInv, ReportInv, row.status = "RUNNING"
    PROVE  /\ Restored(row) \in Snapshot /\ Recoverable(Restored(row))
           /\ Reported(told, Restored(row))
  <1>1. /\ TypeOK /\ AttemptsOfRow /\ TailInv /\ ToldInv /\ Sane(ledger, row)
        /\ row \in Snapshot /\ tail \in Seq(Named) /\ Elements(row.waiting) \subseteq CallsOf(row)
    BY DEF LoopInv, LedgerInv, TypeOK, EndInv, ExecutionInv, ReportInv
  <1>2. Len(tail) \in Nat /\ \A n \in 1..Len(tail) : tail[n] \in Named
    BY <1>1
  <1>3. PICK after : /\ after[0] = row /\ Restored(row) = after[Len(tail)]
                     /\ \A n \in 1..Len(tail) : after[n] = Apply(after[n - 1], tail[n])
    BY <1>1, RestoredChain
  <1> DEFINE X == {s \in Snapshot : Elements(s.waiting) \subseteq CallsOf(s) /\ Recoverable(s)}
             ToCome(n, k) == k[1] = row.round /\ \E i \in (n + 1)..Len(tail) : Tells(tail[i], k)
             Good(n) == /\ after[n] \in X
                        /\ \A k \in Keys : told[k] > 0 => Knows(after[n], k) \/ ToCome(n, k)
             S == {n \in Nat : n \in 0..Len(tail) => Good(n)}
  <1>4. 0 \in S
    <2>1. row \in X
      <3>1. row.round \in Nat
        BY <1>1, Fields
      <3> QED BY <1>1, <3>1 DEF Recoverable, Sane
    <2>2. \A k \in Keys : told[k] > 0 => Knows(row, k) \/ ToCome(0, k)
      <3>1. 0 + 1 = 1
        OBVIOUS
      <3> QED BY <1>1, <3>1 DEF ToldInv, InTail
    <2> HIDE DEF X, ToCome
    <2> QED BY <1>3, <2>1, <2>2
  <1>5. \A n \in 1..Len(tail) : n - 1 \in S => n \in S
    <2> SUFFICES ASSUME NEW n \in 1..Len(tail), Good(n - 1) PROVE Good(n)
      <3> HIDE DEF Good
      <3> QED BY <1>2
    <2> DEFINE e == tail[n]
               s == after[n - 1]
    <2>1. e \in Named /\ s \in X /\ after[n] = Apply(s, e)
      BY <1>2, <1>3
    <2>2. e.type = "requested" => ~Tried(ledger, e.id, row.round)
      BY <1>1 DEF TailInv
    <2>3. \A k \in Keys : told[k] > 0 => Knows(s, k) \/ ToCome(n - 1, k)
      OBVIOUS
    <2>4. (n - 1) + 1 = n /\ \A i \in n..Len(tail) : i = n \/ i \in (n + 1)..Len(tail)
      BY <1>2
    <2>5. \A k \in Keys : ToCome(n - 1, k) => (Tells(e, k) /\ k[1] = row.round) \/ ToCome(n, k)
      BY <2>4
    <2> HIDE DEF e, s, ToCome
    <2>6. /\ s \in Snapshot /\ Recoverable(s) /\ Elements(s.waiting) \subseteq CallsOf(s)
          /\ row.round <= s.round
      BY <2>1 DEF Recoverable
    <2>7. Apply(s, e) \in Snapshot /\ Elements(Apply(s, e).waiting) \subseteq CallsOf(Apply(s, e))
      BY <2>1, <2>6, AppliedFollows
    <2>8. Recoverable(Apply(s, e))
      BY <1>1, <2>1, <2>2, <2>6, <2>7, AppliedRecoverable
    <2>9. \A k \in Keys : told[k] > 0 => Knows(Apply(s, e), k) \/ ToCome(n, k)
      BY <2>1, <2>3, <2>5, <2>6, AppliedKnows
    <2> QED BY <2>1, <2>7, <2>8, <2>9
  <1>6. Len(tail) \in S
    <2>1. 0..Len(tail) \subseteq S
      <3> HIDE DEF S
      <3> QED BY <1>2, <1>4, <1>5, Induction
    <2> QED BY <1>2, <2>1
  <1>7. Good(Len(tail))
    <2> HIDE DEF Good
    <2> QED BY <1>2, <1>6
  <1>8. \A k : ~ToCome(Len(tail), k)
    BY <1>2
  <1> HIDE DEF ToCome
  <1> QED BY <1>3, <1>7, <1>8 DEF Reported

(* What was under way is not known to have happened; the rest stays.         *)
LEMMA MarkedOutcomes ==
    ASSUME TypeOK, ledger' = MarkUnknown, NEW id \in Ids
    PROVE  /\ DOMAIN ledger'[id] = DOMAIN ledger[id]
           /\ \A n \in DOMAIN ledger[id] :
                /\ ledger'[id][n].round = ledger[id][n].round
                /\ ledger'[id][n].resolution = ledger[id][n].resolution
                /\ ledger'[id][n].status # "STARTED"
                /\ ledger[id][n].status # "STARTED" => ledger'[id][n].status = ledger[id][n].status
           /\ \A round : Tried(ledger', id, round) <=> Tried(ledger, id, round)
  <1>1. ledger'[id] = [n \in DOMAIN ledger[id] |->
          IF ledger[id][n].status = "STARTED" THEN [ledger[id][n] EXCEPT !.status = "UNKNOWN"] ELSE ledger[id][n]]
    BY DEF MarkUnknown
  <1>2. \A n \in DOMAIN ledger[id] : ledger[id][n] \in Attempt
    BY LedgerTypes
  <1>3. \A a \in Attempt : LET b == [a EXCEPT !.status = "UNKNOWN"] IN
          b.round = a.round /\ b.resolution = a.resolution /\ b.status = "UNKNOWN"
    BY DEF Attempt
  <1>4. ASSUME NEW n \in DOMAIN ledger[id]
        PROVE  /\ ledger'[id][n].round = ledger[id][n].round
               /\ ledger'[id][n].resolution = ledger[id][n].resolution
               /\ ledger'[id][n].status # "STARTED"
               /\ ledger[id][n].status # "STARTED" => ledger'[id][n].status = ledger[id][n].status
    <2>1. CASE ledger[id][n].status = "STARTED"
      <3>1. ledger'[id][n] = [ledger[id][n] EXCEPT !.status = "UNKNOWN"]
        BY <1>1, <2>1
      <3> QED BY <1>2, <1>3, <2>1, <3>1
    <2>2. CASE ledger[id][n].status # "STARTED"
      BY <1>1, <2>2
    <2> QED BY <2>1, <2>2
  <1>5. DOMAIN ledger'[id] = DOMAIN ledger[id]
    BY <1>1
  <1>6. \A round : AttemptsOf(ledger', id, round) = AttemptsOf(ledger, id, round)
    BY <1>4, <1>5 DEF AttemptsOf
  <1> QED BY <1>4, <1>5, <1>6 DEF Tried

LEMMA MarkedOutcomeInv == LoopInv /\ ReportInv /\ ledger' = MarkUnknown => OutcomeInv'
  <1> SUFFICES ASSUME LoopInv, ReportInv, ledger' = MarkUnknown, NEW id \in Ids, NEW n \in DOMAIN ledger'[id]
               PROVE  /\ ledger'[id][n].resolution = "confirmed" => ledger'[id][n].status = "COMPLETED"
                      /\ ledger'[id][n].status # "STARTED"
    BY DEF OutcomeInv
  <1>1. TypeOK /\ OutcomeInv
    BY DEF LoopInv, ReportInv
  <1>2. /\ n \in DOMAIN ledger[id] /\ ledger'[id][n].resolution = ledger[id][n].resolution
        /\ ledger'[id][n].status # "STARTED"
        /\ ledger[id][n].status # "STARTED" => ledger'[id][n].status = ledger[id][n].status
    BY <1>1, MarkedOutcomes
  <1> QED BY <1>1, <1>2 DEF OutcomeInv

(* A run that was cut can be resumed where no outcome is unknown.            *)
LEMMA InterruptedReports ==
    ASSUME LoopInv, ReportInv, row.status = "RUNNING", ledger' = MarkUnknown
    PROVE  LET t == Interrupted(ledger', Restored(row)) IN
           Sane(ledger', t) /\ Reported(told, t) /\ t.status # "RUNNING"
  <1>1. PICK r : r = Restored(row)
    OBVIOUS
  <1>2. r \in Snapshot /\ Recoverable(r) /\ Reported(told, r) /\ TypeOK
    BY <1>1, RestoredReports DEF LoopInv
  <1>3. \A id \in Ids : \A round : Tried(ledger', id, round) <=> Tried(ledger, id, round)
    BY <1>2, MarkedOutcomes
  <1>4. PICK L : L = ledger'
    OBVIOUS
  <1>5. AskedFirst(L, r) /\ (r.round = 0 => r.calls = <<>>) /\ r.status \in {"RUNNING"} \cup Terminal
    BY <1>2, <1>3, <1>4, CallIds DEF Recoverable, AskedFirst
  <1>6. CASE r.status = "RUNNING"
    <2>1. PICK t : t = [r EXCEPT !.status = "PAUSED", !.pause = IF Eligible(L, r) THEN "resumable" ELSE "blocked"]
      OBVIOUS
    <2>2. /\ t.status = "PAUSED" /\ t.pause = (IF Eligible(L, r) THEN "resumable" ELSE "blocked")
          /\ t.round = r.round /\ t.calls = r.calls /\ t.done = r.done /\ t.asked = r.asked
      BY <1>2, <2>1 DEF Snapshot
    <2>3. Incomplete(t) = Incomplete(r) /\ CallsOf(t) = CallsOf(r) /\ Incomplete(r) \subseteq Ids
      BY <1>2, <2>2, CallIds DEF Incomplete, CallsOf
    <2>4. Eligible(L, r) => Open(L, r)
      <3>1. CASE r.round = 0
        <4>1. Incomplete(r) = {}
          BY <1>5, <3>1 DEF Incomplete, IdsOf
        <4> QED BY <4>1 DEF Open
      <3>2. CASE Incomplete(r) \subseteq r.pending
        <4>1. \A id \in Incomplete(r) : ~Tried(L, id, r.round)
          BY <1>2, <1>3, <1>4, <2>3, <3>2 DEF Recoverable
        <4> QED BY <4>1 DEF Open, Settled, CanResume
      <3>3. CASE \A id \in Incomplete(r) : CanResume(L, id, r.round)
        BY <3>3 DEF Open, Settled
      <3> QED BY <3>1, <3>2, <3>3 DEF Eligible
    <2>5. Sane(L, t)
      BY <1>5, <2>2, <2>3, <2>4 DEF Sane, Open, AskedFirst
    <2>6. Reported(told, t)
      BY <1>2, <2>2 DEF Reported, Knows
    <2>7. Interrupted(L, r) = t
      BY <1>6, <2>1 DEF Interrupted
    <2> QED BY <1>1, <1>4, <2>2, <2>5, <2>6, <2>7
  <1>7. CASE r.status # "RUNNING"
    <2>1. Interrupted(L, r) = r
      BY <1>7 DEF Interrupted
    <2>2. Sane(L, r)
      BY <1>5, <1>7 DEF Sane, Terminal
    <2> QED BY <1>1, <1>2, <1>4, <1>7, <2>1, <2>2
  <1> QED BY <1>6, <1>7

LEMMA MarkInterruptedReports == LoopInv /\ ReportInv /\ MarkInterrupted => ReportInv'
  <1> SUFFICES ASSUME LoopInv, ReportInv, MarkInterrupted PROVE ReportInv'
    OBVIOUS
  <1>1. /\ pc = "interrupted" /\ pc' = "save" /\ ledger' = MarkUnknown
        /\ mem' = Interrupted(ledger', Restored(row)) /\ tail' = Append(tail, Ev("paused"))
        /\ row' = row /\ told' = told
    BY DEF MarkInterrupted, history
  <1>2. /\ row.status = "RUNNING" /\ row \in Snapshot /\ TypeOK /\ tail \in Seq(Named)
        /\ Sane(ledger, row) /\ TailInv /\ ToldInv
    <2>1. row = mem /\ mem.status = "RUNNING"
      BY <1>1 DEF ReportInv, StepInv
    <2> QED BY <2>1 DEF LoopInv, TypeOK, EndInv, ReportInv
  <1>3. Sane(ledger', mem') /\ Reported(told, mem') /\ mem'.status # "RUNNING"
    BY <1>1, <1>2, InterruptedReports
  <1>4. \A id \in Ids : \A round : Tried(ledger', id, round) <=> Tried(ledger, id, round)
    BY <1>1, <1>2, MarkedOutcomes
  <1>5. Sane(ledger', row')
    <2>1. AskedFirst(ledger', row)
      BY <1>2, <1>4, CallIds DEF Sane, AskedFirst
    <2> QED BY <1>1, <1>2, <2>1 DEF Sane
  <1>6. StepInv' /\ TodoInv'
    BY <1>1, <1>3 DEF StepInv, TodoInv, Busy, ToCall, Handling, Resting
  <1>7. OutcomeInv'
    BY <1>1, MarkedOutcomeInv
  <1>8. /\ Ev("paused") \in Named /\ Ev("paused").type = "paused"
        /\ tail' \in {Append(tail, Ev("paused")), tail \o <<Ev("paused"), Ev("paused")>>}
    BY <1>1, EventTypes DEF Ev
  <1>9. /\ \A i \in 1..Len(tail) : i \in 1..Len(tail') /\ tail'[i] = tail[i]
        /\ \A i \in 1..Len(tail') : (i \in 1..Len(tail) /\ tail'[i] = tail[i]) \/ tail'[i] = Ev("paused")
    BY <1>2, <1>8, TailGrows
  <1>10. TailInv'
    <2> SUFFICES ASSUME NEW i \in 1..Len(tail'), tail'[i].type = "requested"
                 PROVE  ~Tried(ledger', tail'[i].id, row.round)
      BY <1>1 DEF TailInv
    <2>1. i \in 1..Len(tail) /\ tail'[i] = tail[i]
      BY <1>8, <1>9
    <2>2. tail[i] \in Named
      BY <1>2, <2>1
    <2>3. tail[i].id \in Ids
      BY <2>1, <2>2 DEF Named
    <2> QED BY <1>2, <1>4, <2>1, <2>3 DEF TailInv
  <1>11. ToldInv'
    <2>1. \A k : InTail(k) => InTail(k)'
      BY <1>1, <1>9 DEF InTail
    <2> QED BY <1>1, <1>2, <1>3, <2>1 DEF ToldInv, ReportedOnce
  <1> QED BY <1>3, <1>5, <1>6, <1>7, <1>10, <1>11 DEF ReportInv

LEMMA RecoverReports == LoopInv /\ ReportInv /\ Recover => ReportInv'
  <1> SUFFICES ASSUME LoopInv, ReportInv, Recover PROVE ReportInv'
    OBVIOUS
  <1>1. /\ pc = "none" /\ pc' = "none" /\ row.status = "RUNNING" /\ ledger' = MarkUnknown
        /\ row' = Interrupted(ledger', Restored(row)) /\ tail' = <<>>
        /\ UNCHANGED <<mem, todo, next, told>>
    BY DEF Recover, exec, history
  <1>2. mem = Absent /\ ToldInv
    BY <1>1 DEF ReportInv, StepInv
  <1>3. Sane(ledger', row') /\ Reported(told, row')
    BY <1>1, InterruptedReports
  <1>4. Sane(ledger', mem')
    BY <1>1, <1>2, AbsentSane
  <1>5. StepInv' /\ TodoInv'
    BY <1>1, <1>2 DEF StepInv, TodoInv, Busy, ToCall, Handling, Resting
  <1>6. OutcomeInv' /\ TailInv'
    BY <1>1, MarkedOutcomeInv DEF TailInv
  <1>7. ToldInv'
    BY <1>1, <1>2, <1>3 DEF ToldInv, ReportedOnce, Reported
  <1> QED BY <1>3, <1>4, <1>5, <1>6, <1>7 DEF ReportInv

-----------------------------------------------------------------------------
(* The operators.                                                            *)

(* Nothing is told before the first response.                                *)
ToldLater == \A k \in Keys : told[k] > 0 => k[1] # 0

LEMMA ToldLaterKept == LoopInv /\ ReportInv /\ ToldLater /\ [Next]_vars => ToldLater'
  <1> SUFFICES ASSUME LoopInv, ReportInv, ToldLater, [Next]_vars PROVE ToldLater'
    OBVIOUS
  <1>1. CASE ReportOutcome
    <2>1. pc \in {"ledger", "report"} /\ todo # <<>> /\ told' = [told EXCEPT ![Key] = @ + 1] /\ todo \in Seq(Call)
      BY <1>1 DEF ReportOutcome, LoopInv, ExecutionInv, AtCall, TypeOK
    <2>2. Left(mem, todo) /\ Sane(ledger, mem)
      BY <2>1 DEF ReportInv, TodoInv, Busy, Handling
    <2>3. Current.id \in Incomplete(mem)
      BY <2>1, <2>2, LeftTail DEF Current
    <2>4. mem.round # 0
      BY <2>2, <2>3 DEF Sane, Incomplete, IdsOf
    <2>5. Key[1] = mem.round
      BY DEF Key
    <2>6. ASSUME NEW k \in Keys, k # Key PROVE told'[k] = told[k]
      BY <2>1, <2>6 DEF LoopInv, TypeOK
    <2> QED BY <2>4, <2>5, <2>6 DEF ToldLater
  <1>2. CASE told' = told
    BY <1>2 DEF ToldLater
  <1>3. ReportOutcome \/ told' = told
    <2>1. \/ Reject \/ ReportOutcome \/ Start \/ Resume \/ UNCHANGED history \/ BeginTool \/ UNCHANGED vars
      BY DEF Next, Execute, Save, Yielded, Started, ModelResponds, RequestApproval, PauseForApproval,
         TraceDecision, StartTool, Schedule, ToolReturns, RoundCompleted, Finish, CommitTranscript,
         WriteMemory, Stop, Fault, MarkFailed, MarkInterrupted, Timeout, Crash, Recover, Pause, Resolve, Abandon
    <2>2. Reject => told' = told
      BY DEF Reject
    <2>3. Start \/ Resume \/ UNCHANGED history \/ BeginTool \/ UNCHANGED vars => told' = told
      BY DEF Start, Resume, BeginTool, history, vars
    <2> QED BY <2>1, <2>2, <2>3
  <1> QED BY <1>1, <1>2, <1>3

LEMMA StartReports == RunInv /\ ReportInv /\ ToldLater /\ Start => ReportInv'
  <1> SUFFICES ASSUME LoopInv, RunExists, ReportInv, ToldLater, Start PROVE ReportInv'
    BY DEF RunInv
  <1>1. PICK approvals : row' = NewState(approvals)
    BY DEF Start
  <1>2. /\ row.status = "ABSENT" /\ mem' = row' /\ pc' = "started" /\ UNCHANGED <<tail, ledger, told>>
    BY DEF Start
  <1>3. row.round = 0 /\ ToldInv /\ OutcomeInv /\ TailInv /\ TypeOK /\ AttemptsOfRow /\ row.calls = <<>>
    BY <1>2 DEF RunExists, ReportInv, LoopInv, LedgerInv
  <1>4. /\ row'.status = "RUNNING" /\ row'.pause = "none" /\ row'.round = 0 /\ row'.calls = <<>>
        /\ row'.pending = {}
    BY <1>1 DEF NewState
  <1>5. Sane(ledger', row')
    <2>1. CallsOf(row') = {}
      BY <1>4 DEF CallsOf
    <2> QED BY <1>4, <2>1 DEF Sane, AskedFirst
  <1>6. StepInv' /\ TodoInv'
    BY <1>2, <1>4 DEF StepInv, TodoInv, Busy, ToCall, Handling, Resting
  <1>7. OutcomeInv'
    <2>1. ASSUME NEW id \in Ids, NEW n \in DOMAIN ledger[id] PROVE ledger[id][n].status # "STARTED"
      <3>1. ledger[id][n].round \in Nat /\ ledger[id][n].round <= row.round
        BY <1>3, LedgerTypes DEF AttemptsOfRow
      <3>2. [id |-> id, tool |-> ledger[id][n].tool] \in CallsOf(row)
        BY <1>3, <3>1 DEF AttemptsOfRow
      <3> QED BY <1>3, <3>2 DEF CallsOf
    <2> QED BY <1>2, <1>3, <2>1 DEF OutcomeInv
  <1>8. TailInv'
    BY <1>2, <1>3, <1>4 DEF TailInv
  <1>9. ToldInv'
    <2>1. ASSUME NEW k \in Keys, told[k] > 0 PROVE FALSE
      <3>1. k[1] \in Nat
        BY LoopAssumption DEF Keys, Rounds
      <3>2. Knows(row, k) /\ k[1] # 0
        BY <1>2, <1>3, <2>1 DEF ToldInv, ToldLater
      <3> QED BY <1>3, <3>1, <3>2 DEF Knows, RunExists, ReportInv, Sane
    <2> QED BY <1>2, <1>3, <2>1 DEF ToldInv, ReportedOnce, Reported
  <1> QED BY <1>2, <1>5, <1>6, <1>7, <1>8, <1>9 DEF ReportInv


LEMMA ResumeReports == LoopInv /\ ReportInv /\ Resume => ReportInv'
  <1> SUFFICES ASSUME LoopInv, ReportInv, Resume PROVE ReportInv'
    OBVIOUS
  <1>1. PICK approvals : mem' = Continued(row, approvals)
    BY DEF Resume
  <1>2. /\ pc = "none" /\ row.status = "PAUSED" /\ row.pause # "blocked"
        /\ pc' = (IF row.round = 0 THEN "chat" ELSE "loop")
        /\ todo' = (IF row.pause = "none" THEN row.waiting ELSE NotDone(row))
        /\ UNCHANGED <<row, tail, ledger, next, told>>
    BY DEF Resume, db
  <1>3. /\ row \in Snapshot /\ Sane(ledger, row) /\ Open(ledger, row)
        /\ OutcomeInv /\ TailInv /\ ToldInv
    BY <1>2 DEF LoopInv, TypeOK, ReportInv, Sane
  <1>4. /\ mem'.status = "RUNNING" /\ mem'.pause = "none" /\ mem'.pending = {}
        /\ mem'.round = row.round /\ mem'.calls = row.calls /\ mem'.done = row.done /\ mem'.asked = row.asked
    <2>1. mem'.status = "RUNNING" /\ mem'.pause = "none" /\ mem'.pending = {}
      BY <1>1, <1>3 DEF Continued, Snapshot
    <2>2. mem'.round = row.round /\ mem'.calls = row.calls
      BY <1>1, <1>3 DEF Continued, Snapshot
    <2>3. mem'.done = row.done /\ mem'.asked = row.asked
      BY <1>1, <1>3 DEF Continued, Snapshot
    <2> QED BY <2>1, <2>2, <2>3
  <1>5. Incomplete(mem') = Incomplete(row) /\ CallsOf(mem') = CallsOf(row)
    BY <1>4 DEF Incomplete, CallsOf
  <1>6. Sane(ledger', row') /\ Sane(ledger', mem')
    BY <1>2, <1>3, <1>4, <1>5 DEF Sane, AskedFirst
  <1>7. Left(mem', todo')
    <2>1. Left(row, todo')
      BY <1>2, <1>3, NotDoneLeft DEF Sane
    <2> QED BY <1>5, <2>1 DEF Left
  <1>8. StepInv'
    BY <1>2, <1>4 DEF StepInv, Resting
  <1>9. TodoInv'
    <2>1. \A id \in Incomplete(mem') : Settled(ledger', id, mem'.round)
      BY <1>2, <1>3, <1>4, <1>5 DEF Open
    <2>2. ~ToCall'
      BY <1>2 DEF ToCall, Resting
    <2> QED BY <1>7, <2>1, <2>2 DEF TodoInv
  <1>10. OutcomeInv'
    BY <1>2, <1>3 DEF OutcomeInv, UnderWay
  <1>11. TailInv'
    BY <1>2, <1>3 DEF TailInv
  <1>12. ToldInv'
    <2>1. \A k \in Keys : told[k] > 0 => Knows(row, k)
      BY <1>2, <1>3 DEF ToldInv
    <2> QED BY <1>2, <1>3, <1>4, <2>1 DEF ToldInv, ReportedOnce, Reported, Knows
  <1> QED BY <1>6, <1>8, <1>9, <1>10, <1>11, <1>12 DEF ReportInv

(* An operator changes attempts of a run that nothing executes.              *)
LEMMA OperatorReports ==
    ASSUME LoopInv, ReportInv, pc = "none", row.status = "PAUSED", tail' \in {<<>>, tail},
           UNCHANGED <<exec, told>>, Sane(ledger', row'),
           row'.status = row.status, row'.round = row.round, row'.done = row.done,
           \A id \in Ids : \A round : Tried(ledger', id, round) <=> Tried(ledger, id, round),
           \A id \in Ids : \A n \in DOMAIN ledger'[id] :
             /\ ledger'[id][n].resolution = "confirmed" => ledger'[id][n].status = "COMPLETED"
             /\ ledger'[id][n].status # "STARTED"
    PROVE  ReportInv'
  <1>1. /\ pc' = "none" /\ mem' = Absent /\ next' = next /\ told' = told
        /\ tail \in Seq(Named) /\ TailInv /\ ToldInv
    BY DEF exec, ReportInv, StepInv, LoopInv, EndInv
  <1>2. Sane(ledger', mem')
    BY <1>1, AbsentSane
  <1>3. StepInv' /\ TodoInv'
    BY <1>1 DEF StepInv, TodoInv, Busy, ToCall, Handling, Resting
  <1>4. OutcomeInv'
    BY DEF OutcomeInv
  <1>5. TailInv'
    <2>1. CASE tail' = <<>>
      BY <2>1 DEF TailInv
    <2>2. CASE tail' = tail
      <3> SUFFICES ASSUME NEW i \in 1..Len(tail), tail[i].type = "requested"
                   PROVE  ~Tried(ledger', tail[i].id, row.round)
        BY <2>2 DEF TailInv
      <3>1. tail[i] \in Named
        BY <1>1
      <3>2. tail[i].id \in Ids
        BY <3>1 DEF Named
      <3> QED BY <1>1, <3>2 DEF TailInv
    <2> QED BY <2>1, <2>2
  <1>6. ToldInv'
    BY <1>1 DEF ToldInv, ReportedOnce, Knows
  <1> QED BY <1>2, <1>3, <1>4, <1>5, <1>6 DEF ReportInv

(* What an operator resolves can be told or tried; a run is made resumable   *)
(* when no latest attempt waits for one.                                     *)
LEMMA ResolveReports == LoopInv /\ ReportInv /\ Resolve => ReportInv'
  <1> SUFFICES ASSUME LoopInv, ReportInv, Resolve PROVE ReportInv'
    OBVIOUS
  <1>1. /\ pc = "none" /\ row.status = "PAUSED" /\ tail' \in {<<>>, tail} /\ UNCHANGED <<exec, told>>
        /\ TypeOK /\ AttemptsOrdered /\ AttemptsOfRow /\ row \in Snapshot
        /\ ledger \in [Ids -> Seq(Attempt)] /\ Sane(ledger, row) /\ OutcomeInv
    BY DEF Resolve, history, LoopInv, LedgerInv, TypeOK, ReportInv
  <1>2. PICK id \in Ids, how \in Resolutions : \E n \in DOMAIN ledger[id] :
          /\ ledger[id][n].status = "UNKNOWN" /\ ledger[id][n].resolution = "none"
          /\ ledger' = [ledger EXCEPT ![id][n] = Resolved(@, how)]
    BY DEF Resolve
  <1>3. PICK n \in DOMAIN ledger[id] :
          ledger[id][n].status = "UNKNOWN" /\ ledger' = [ledger EXCEPT ![id][n] = Resolved(@, how)]
    BY <1>2
  <1> DEFINE a == Resolved(ledger[id][n], how)
             q == [ledger[id] EXCEPT ![n] = a]
  <1>4. n \in 1..Len(ledger[id]) /\ ledger[id][n] \in Attempt
    BY <1>1, LedgerTypes
  <1>5. a.round = ledger[id][n].round /\ Replayable(a)
    BY <1>4 DEF Attempt, Resolved, Resolutions, Replayable
  <1>6. a.status # "STARTED" /\ (a.resolution = "confirmed" => a.status = "COMPLETED")
    BY <1>3, <1>4 DEF Attempt, Resolved, Resolutions
  <1>7. ledger' = [ledger EXCEPT ![id] = q]
    BY <1>3
  <1> HIDE DEF a
  <1>8. DOMAIN q = DOMAIN ledger[id] /\ \A x \in DOMAIN ledger[id] : q[x] = IF x = n THEN a ELSE ledger[id][x]
    OBVIOUS
  <1> HIDE DEF q
  <1>9. ledger'[id] = q /\ \A i \in Ids : i # id => ledger'[i] = ledger[i]
    BY <1>1, <1>7
  <1>10. ASSUME NEW i \in Ids, NEW x \in DOMAIN ledger[i]
         PROVE  /\ ledger'[i][x] = ledger[i][x] \/ (ledger'[i][x] = a /\ ledger[i][x] = ledger[id][n])
                /\ ledger'[i][x].round = ledger[i][x].round
    BY <1>5, <1>8, <1>9
  <1>11. \A i \in Ids : DOMAIN ledger'[i] = DOMAIN ledger[i]
    BY <1>8, <1>9
  <1>12. ASSUME NEW i \in Ids, NEW round
         PROVE  /\ Tried(ledger', i, round) <=> Tried(ledger, i, round)
                /\ Settled(ledger, i, round) => Settled(ledger', i, round)
    <2>1. PICK M : M = ledger'
      OBVIOUS
    <2> QED BY <1>1, <1>5, <1>10, <1>11, <2>1, SettledKept
  <1>13. \A i \in Ids : \A x \in DOMAIN ledger'[i] :
           /\ ledger'[i][x].resolution = "confirmed" => ledger'[i][x].status = "COMPLETED"
           /\ ledger'[i][x].status # "STARTED"
    <2>1. \A i \in Ids : \A x \in DOMAIN ledger[i] :
            /\ ledger[i][x].resolution = "confirmed" => ledger[i][x].status = "COMPLETED"
            /\ ledger[i][x].status # "STARTED"
      BY <1>1 DEF OutcomeInv, UnderWay
    <2> QED BY <1>6, <1>10, <1>11, <2>1
  <1>14. Sane(ledger', row)
    <2>1. PICK M : M = ledger'
      OBVIOUS
    <2> QED BY <1>1, <1>12, <2>1, SaneUnder
  <1>15. LatestUnresolved(ledger') = {} => Open(ledger', row)
    <2> SUFFICES ASSUME LatestUnresolved(ledger') = {}, NEW i \in Incomplete(row), Tried(ledger', i, row.round)
                 PROVE  Settled(ledger', i, row.round)
      BY DEF Open, Settled, CanResume
    <2>1. i \in Ids /\ Tried(ledger, i, row.round)
      BY <1>1, <1>12, CallIds
    <2> DEFINE m == Len(ledger[i])
    <2>2. m \in 1..m /\ ledger[i][m].round = row.round /\ m \in Nat /\ DOMAIN ledger[i] = 1..m
      BY <1>1, <2>1, LatestIsLast, LedgerTypes
    <2>3. m \in DOMAIN ledger'[i] /\ DOMAIN ledger'[i] = 1..m /\ ledger'[i][m].round = row.round
      BY <1>10, <1>11, <2>1, <2>2
    <2>4. Latest(ledger', i, row.round) = ledger'[i][m]
      <3>1. PICK M, k, round : M = ledger' /\ k = m /\ round = row.round
        OBVIOUS
      <3>2. DOMAIN M[i] = 1..k /\ k \in 1..k /\ k \in Nat /\ M[i][k].round = round
        BY <2>2, <2>3, <3>1
      <3>3. Latest(M, i, round) = M[i][k]
        BY <3>2, LastOfRound
      <3> QED BY <3>1, <3>3
    <2>5. ledger'[i] \in Seq(Attempt) /\ Len(ledger'[i]) = m
      <3>1. LoopInv'
        BY ResolveKeeps
      <3>2. ledger'[i] \in Seq(Attempt)
        BY <2>1, <3>1 DEF LoopInv, TypeOK
      <3>3. Len(ledger'[i]) \in Nat /\ DOMAIN ledger'[i] = 1..Len(ledger'[i])
        BY <3>2
      <3> HIDE DEF m
      <3> QED BY <2>2, <2>3, <3>2, <3>3
    <2>6. ledger'[i][m] \in Attempt
      BY <2>2, <2>5
    <2>7. ledger'[i] # <<>> /\ Last(ledger'[i]) = ledger'[i][m]
      BY <2>2, <2>5 DEF Last
    <2>8. ~Unresolved(ledger'[i][m])
      BY <2>1, <2>7 DEF LatestUnresolved
    <2>9. /\ ledger'[i][m].status # "STARTED"
          /\ ledger'[i][m].resolution = "confirmed" => ledger'[i][m].status = "COMPLETED"
      BY <1>13, <2>1, <2>3
    <2>10. Replayable(ledger'[i][m]) \/ ledger'[i][m].resolution = "abandoned"
      BY <2>6, <2>8, <2>9 DEF Replayable, Unresolved, Attempt
    <2> QED BY <2>4, <2>10 DEF Settled, CanResume
  <1>16. /\ Sane(ledger', row') /\ row'.status = row.status /\ row'.round = row.round /\ row'.done = row.done
    <2>1. CASE row' = row
      BY <1>14, <2>1
    <2>2. CASE /\ row.pause # "none"
               /\ row' = [row EXCEPT !.pause = IF LatestUnresolved(ledger') = {} THEN "resumable" ELSE "blocked"]
      <3>1. PICK p : p = IF LatestUnresolved(ledger') = {} THEN "resumable" ELSE "blocked"
        OBVIOUS
      <3>2. row'.status = row.status /\ row'.pause = p /\ row'.round = row.round
        BY <1>1, <2>2, <3>1 DEF Snapshot
      <3>3. row'.calls = row.calls /\ row'.done = row.done /\ row'.asked = row.asked
        BY <1>1, <2>2, <3>1 DEF Snapshot
      <3>4. Incomplete(row') = Incomplete(row) /\ CallsOf(row') = CallsOf(row)
        BY <3>3 DEF Incomplete, CallsOf
      <3>5. Sane(ledger', row')
        BY <1>1, <1>14, <1>15, <3>1, <3>2, <3>3, <3>4 DEF Sane, Open, AskedFirst
      <3> QED BY <3>2, <3>3, <3>5
    <2>3. \/ row' = row
          \/ /\ row.pause # "none"
             /\ row' = [row EXCEPT !.pause = IF LatestUnresolved(ledger') = {} THEN "resumable" ELSE "blocked"]
      BY DEF Resolve
    <2> QED BY <2>1, <2>2, <2>3
  <1> QED BY <1>1, <1>12, <1>13, <1>16, OperatorReports

LEMMA AbandonReports == LoopInv /\ ReportInv /\ Abandon => ReportInv'
  <1> SUFFICES ASSUME LoopInv, ReportInv, Abandon PROVE ReportInv'
    OBVIOUS
  <1>1. /\ pc = "none" /\ row.status = "PAUSED" /\ row.pause = "blocked" /\ tail' = <<>> /\ row' = row
        /\ UNCHANGED <<exec, told>> /\ TypeOK /\ row \in Snapshot /\ Sane(ledger, row) /\ OutcomeInv
    BY DEF Abandon, history, LoopInv, TypeOK, ReportInv
  <1> DEFINE Given(a) == [a EXCEPT !.resolution = "abandoned"]
  <1>2. \A a \in Attempt : /\ Given(a).round = a.round /\ Given(a).status = a.status
                           /\ Given(a).resolution = "abandoned"
    BY DEF Attempt
  <1>3. ASSUME NEW id \in Ids
        PROVE  /\ DOMAIN ledger'[id] = DOMAIN ledger[id]
               /\ \A n \in DOMAIN ledger[id] :
                    ledger'[id][n] = ledger[id][n] \/ ledger'[id][n] = Given(ledger[id][n])
    <2>1. CASE id \in LatestUnresolved(ledger)
      <3> DEFINE m == Len(ledger[id])
                 b == Given(ledger[id][m])
      <3>1. ledger'[id] = [ledger[id] EXCEPT ![m] = b]
        BY <2>1 DEF Abandon
      <3>2. m \in DOMAIN ledger[id]
        <4>1. ledger[id] \in Seq(Attempt) /\ ledger[id] # <<>>
          BY <1>1, <2>1, LedgerTypes DEF LatestUnresolved
        <4> QED BY <4>1
      <3> HIDE DEF b
      <3>3. DOMAIN ledger'[id] = DOMAIN ledger[id]
        BY <3>1
      <3>4. \A n \in DOMAIN ledger[id] : ledger'[id][n] = IF n = m THEN b ELSE ledger[id][n]
        BY <3>1, <3>2
      <3> QED BY <3>3, <3>4 DEF b
    <2>2. CASE id \notin LatestUnresolved(ledger)
      BY <2>2 DEF Abandon
    <2> QED BY <2>1, <2>2
  <1> HIDE DEF Given
  <1>4. ASSUME NEW id \in Ids, NEW n \in DOMAIN ledger[id]
        PROVE  /\ ledger'[id][n].round = ledger[id][n].round
               /\ ledger'[id][n].status # "STARTED"
               /\ ledger'[id][n].resolution = "confirmed" => ledger'[id][n].status = "COMPLETED"
    <2>1. ledger[id][n] \in Attempt
      BY <1>1, LedgerTypes
    <2>2. /\ ledger[id][n].status # "STARTED"
          /\ ledger[id][n].resolution = "confirmed" => ledger[id][n].status = "COMPLETED"
      BY <1>1 DEF OutcomeInv, UnderWay
    <2> QED BY <1>2, <1>3, <2>1, <2>2
  <1>5. \A id \in Ids : \A round : Tried(ledger', id, round) <=> Tried(ledger, id, round)
    <2>1. \A id \in Ids : \A round : AttemptsOf(ledger', id, round) = AttemptsOf(ledger, id, round)
      BY <1>3, <1>4 DEF AttemptsOf
    <2> QED BY <2>1 DEF Tried
  <1>6. Sane(ledger', row')
    <2>1. AskedFirst(ledger', row)
      BY <1>1, <1>5, CallIds DEF Sane, AskedFirst
    <2> QED BY <1>1, <2>1 DEF Sane
  <1>7. \A id \in Ids : \A n \in DOMAIN ledger'[id] :
          /\ ledger'[id][n].resolution = "confirmed" => ledger'[id][n].status = "COMPLETED"
          /\ ledger'[id][n].status # "STARTED"
    BY <1>3, <1>4
  <1> QED BY <1>1, <1>5, <1>6, <1>7, OperatorReports

LEMMA QuietReports == ReportInv /\ UNCHANGED <<row, tail, ledger, exec, told>> => ReportInv'
  <1> SUFFICES ASSUME ReportInv, UNCHANGED <<row, tail, ledger, exec, told>> PROVE ReportInv'
    OBVIOUS
  <1>1. UNCHANGED <<row, tail, ledger, pc, mem, todo, fate, next, told>>
    BY DEF exec
  <1>2. Sane(ledger', row') /\ Sane(ledger', mem')
    BY <1>1 DEF ReportInv
  <1>3. StepInv' /\ TodoInv'
    BY <1>1 DEF ReportInv, StepInv, TodoInv, Busy, ToCall, Handling, Resting, Current
  <1>4. OutcomeInv' /\ TailInv'
    BY <1>1 DEF ReportInv, OutcomeInv, UnderWay, TailInv, Current
  <1>5. ToldInv'
    BY <1>1 DEF ReportInv, ToldInv, ReportedOnce, InTail
  <1> QED BY <1>2, <1>3, <1>4, <1>5 DEF ReportInv

-----------------------------------------------------------------------------
(* Together.                                                                 *)

JournalInv == ReportInv /\ ToldLater

LEMMA InitReports == Init => JournalInv
  <1> SUFFICES ASSUME Init PROVE JournalInv
    OBVIOUS
  <1>1. /\ row = Absent /\ mem = Absent /\ tail = <<>> /\ pc = "none" /\ next = "none"
        /\ ledger = [id \in Ids |-> <<>>] /\ told = [k \in Keys |-> 0]
    BY DEF Init
  <1>2. Sane(ledger, row) /\ Sane(ledger, mem)
    BY <1>1, AbsentSane
  <1>3. StepInv /\ TodoInv
    BY <1>1 DEF StepInv, TodoInv, Busy, ToCall, Handling, Resting
  <1>4. OutcomeInv /\ TailInv
    BY <1>1 DEF OutcomeInv, TailInv
  <1>5. \A k \in Keys : told[k] = 0
    BY <1>1
  <1>6. ToldInv /\ ToldLater
    BY <1>1, <1>5 DEF ToldInv, ToldLater, ReportedOnce
  <1> QED BY <1>2, <1>3, <1>4, <1>6 DEF JournalInv, ReportInv

LEMMA NextReports == RunInv /\ JournalInv /\ [Next]_vars => JournalInv'
  <1> SUFFICES ASSUME RunInv, LoopInv, ReportInv, ToldLater, [Next]_vars PROVE ReportInv'
    BY ToldLaterKept DEF JournalInv, RunInv
  <1>1. CASE Execute
    BY <1>1, SaveReports, YieldedReports, StartedReports, ModelRespondsReports, RequestApprovalReports,
       PauseForApprovalReports, TraceDecisionReports, StartToolReports, RejectReports, ReportOutcomeReports,
       ScheduleReports, AttemptReports, RoundCompletedReports, FinishReports, PlainMoveReports,
       WriteMemoryReports, StopReports, MarkInterruptedReports DEF Execute
  <1>2. CASE Timeout \/ Crash \/ Recover \/ Start \/ Resume \/ Resolve \/ Abandon
    BY <1>2, PlainMoveReports, CrashReports, RecoverReports, StartReports, ResumeReports, ResolveReports,
       AbandonReports
  <1>3. CASE Pause \/ UNCHANGED vars
    <2>1. UNCHANGED <<row, tail, ledger, exec, told>>
      BY <1>3 DEF Pause, history, vars, db
    <2> QED BY <2>1, QuietReports
  <1> QED BY <1>1, <1>2, <1>3 DEF Next

(* The snapshot, its journal, the calls that are left and the ledger fit     *)
(* together, whatever is cut, recovered, resumed, resolved or abandoned.     *)
THEOREM JournalCoherent == Spec => []JournalInv
  <1>1. Init => RunInv /\ JournalInv
    BY InitRun, InitReports
  <1>2. RunInv /\ JournalInv /\ [Next]_vars => (RunInv /\ JournalInv)'
    BY NextRun, NextReports
  <1> QED BY <1>1, <1>2, PTL DEF Spec

(* The outcome of an execution is reported once, and the ledger refuses an   *)
(* execution only where another run retries this one (_completed_tool_call_ids,*)
(* _restore_checkpoint_data, inspect_agent_run_checkpoint,                   *)
(* _tool_call_can_resume).                                                   *)
THEOREM OutcomesAreReportedOnce == Spec => []LedgerReportsOnce
  <1>1. RunInv /\ JournalInv => LedgerReportsOnce
    <2> SUFFICES ASSUME LoopInv, ReportInv PROVE ReportedOnce /\ AbandonedRefused
      BY DEF RunInv, JournalInv, LedgerReportsOnce
    <2>1. ReportedOnce
      BY DEF ReportInv, ToldInv
    <2>2. ASSUME pc = "ledger", ~CanResume(ledger, Current.id, mem.round)
          PROVE  Outcome.resolution = "abandoned"
      <3>1. /\ Left(mem, todo) /\ todo # <<>> /\ todo \in Seq(Call)
            /\ \A id \in Incomplete(mem) : Settled(ledger, id, mem.round)
        BY <2>2 DEF ReportInv, TodoInv, Busy, Handling, LoopInv, ExecutionInv, AtCall, TypeOK
      <3>2. Current.id \in Incomplete(mem)
        BY <3>1, LeftTail DEF Current
      <3> QED BY <2>2, <3>1, <3>2 DEF Settled, Outcome
    <2> QED BY <2>1, <2>2 DEF AbandonedRefused
  <1> QED BY <1>1, LoopCoherent, JournalCoherent, PTL

=============================================================================
