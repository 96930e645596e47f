------------------------------ MODULE ContextWindow ------------------------------
(* How a request is composed of a context and the messages of the current turn:    *)
(* what is inactive or breaks the protocol of tool calls is left out, the memory   *)
(* message is put in, and the configured strategies summarise, trim by number and  *)
(* trim by tokens. The context grows by whatever clients and turns append to it.   *)
EXTENDS Naturals, Sequences, FiniteSets, SequencesExt

CONSTANTS
  Kinds,     \* messages: [role, calls, answers, cost, active]: the calls an assistant
             \* message makes, the call a tool message answers
  Settings,  \* configurations: [memory, after, keep, window, budget], None
             \* where it is not set; memory: are there memories to tell
  None,
  MaxMessages  \* bound on the messages of the context and of the turn

VARIABLES history, turn, settings

vars == <<history, turn, settings>>

Init == history = <<>> /\ turn = <<>> /\ settings \in Settings

\* A message is known by where it was said: the strategies compare objects, not texts.
Said(k, where, n) == [message |-> k, where |-> where, n |-> n]

Room == Len(history) + Len(turn) < MaxMessages /\ UNCHANGED settings

Extend == \E k \in Kinds :
  /\ Room /\ turn = <<>>
  /\ history' = Append(history, Said(k, "history", Len(history)))
  /\ UNCHANGED turn

Ask == \E k \in Kinds :
  /\ Room
  /\ turn' = Append(turn, Said(k, "turn", Len(turn)))
  /\ UNCHANGED history

Next == Extend \/ Ask
Spec == Init /\ [][Next]_vars

-----------------------------------------------------------------------------
Picked(s, I) == LET in == SetToSortSeq(I, <) IN [n \in DOMAIN in |-> s[in[n]]]

IsTool(s, i) == s[i].message.answers # None

\* _following_tool_messages: the next messages are its answers, each once.
Answered(s, i) ==
  LET calls == s[i].message.calls  n == Cardinality(calls)
  IN  /\ i + n <= Len(s)
      /\ {s[i + k].message.answers : k \in 1..n} = calls

\* A slip: an assistant message is kept whether its calls were answered or not.
SafeAnswersOnly(s) ==
  Picked(s, {i \in DOMAIN s : IsTool(s, i) =>
    \E h \in 1..i : Answered(s, h) /\ i \in h..h + Cardinality(s[h].message.calls)})

\* _tool_protocol_safe_messages: calls with all their answers, and no other answers.
Safe(s) ==
  Picked(s, {i \in DOMAIN s :
    IF IsTool(s, i)
    THEN \E h \in 1..i : Answered(s, h) /\ i \in h + 1..h + Cardinality(s[h].message.calls)
    ELSE Answered(s, i)})

\* _active_messages.
Active(s) == Safe(SelectSeq(s, LAMBDA m : m.message.active))

PrefixLength(s) ==
  Cardinality({i \in DOMAIN s : \A j \in 1..i : s[j].message.role = "system"})

Inserted(s, m) == SubSeq(s, 1, PrefixLength(s)) \o <<m>> \o SubSeq(s, PrefixLength(s) + 1, Len(s))

System(where) == Said([role |-> "system", calls |-> {}, answers |-> None, cost |-> 1, active |-> TRUE], where, 0)

Basic ==
  LET s == Active(history) \o Active(turn)
  IN  IF settings.memory THEN Inserted(s, System("memory")) ELSE s

-----------------------------------------------------------------------------
\* _message_groups: an assistant message and the answers that follow it.
Heads(s) == {i \in DOMAIN s : i > PrefixLength(s) /\ ~IsTool(s, i)}
Group(s, h) == {i \in h..Len(s) : \A k \in h + 1..i : IsTool(s, k)}

Weight(s, I, unit) ==
  IF unit = "message" THEN Cardinality(I) ELSE FoldLeft(LAMBDA sum, i : sum + s[i].message.cost, 0, SetToSeq(I))

\* _tail_groups_by_message_count: the newest groups until there are enough messages.
Recent(s, keep) ==
  LET newest == Reverse(SetToSortSeq(Heads(s), <))
      take(acc, h) ==
        LET with == acc.in \cup Group(s, h)
        IN  IF acc.full \/ (acc.in # {} /\ Cardinality(with) > keep) THEN [acc EXCEPT !.full = TRUE]
            ELSE [in |-> with, full |-> Cardinality(with) >= keep]
  IN  FoldLeft(take, [in |-> {}, full |-> FALSE], newest).in

\* SummarizingContextStrategy.
Summarized(s) ==
  LET p == PrefixLength(s)  tail == Recent(s, settings.keep)
  IN  IF \/ settings.after = None \/ Len(s) <= settings.after \/ Len(s) - p <= settings.keep
         \/ tail = p + 1..Len(s)
      THEN s
      ELSE SubSeq(s, 1, p) \o <<System("summary")>> \o Picked(s, tail)

\* A slip: the current turn is trimmed as history is.
ProtectedPrefix(s) == 1..PrefixLength(s)

\* What is never trimmed: the system prefix and the groups of the current turn.
Protected(s) ==
  1..PrefixLength(s) \cup
  UNION {Group(s, h) : h \in {h \in Heads(s) : \E i \in Group(s, h) : s[i].where = "turn"}}

\* _preserve_system_prefix and _within_budget: then the newest groups that fit, older
\* ones too if a newer one did not; the newest of all if there would be none.
Trimmed(s, max, unit) ==
  LET newest == Reverse(SetToSortSeq(Heads(s), <))
      take(in, h) ==
        IF \/ Weight(s, in \cup Group(s, h), unit) <= max
           \/ in = 1..PrefixLength(s) /\ h = newest[1]
        THEN in \cup Group(s, h) ELSE in
  IN  Picked(s, FoldLeft(take, Protected(s), newest))

Windowed(s) == IF settings.window = None THEN s ELSE Trimmed(s, settings.window, "message")
Budgeted(s) == IF settings.budget = None THEN s ELSE Trimmed(s, settings.budget, "token")

\* create_context_strategy: the strategies in their order.
Composed == Budgeted(Windowed(Summarized(Basic)))

-----------------------------------------------------------------------------
IsSubsequence(a, b) == \E f \in [DOMAIN a -> DOMAIN b] :
  \A i, j \in DOMAIN a : a[i] = b[f[i]] /\ (i < j => f[i] < f[j])

Prefix(s) == SubSeq(s, 1, PrefixLength(s))

(* Whatever the context holds and however little room there is: every call in the  *)
(* request is followed by its answers and every answer follows its call, nothing   *)
(* inactive is in it, what is left keeps its order behind the whole system prefix  *)
(* and the memories, the current turn is all there, and a request too large for    *)
(* its budget holds nothing that could be left out but its newest group.           *)
RequestsAreWhole ==
  LET r == Composed IN
    /\ \A i \in DOMAIN r : r[i].message.active
    /\ \A i \in DOMAIN r : \A c \in r[i].message.calls :
         \E j \in DOMAIN r : r[j].message.answers = c /\ j \in Group(r, i)
    /\ \A j \in DOMAIN r : IsTool(r, j) =>
         \E i \in 1..j : r[j].message.answers \in r[i].message.calls /\ j \in Group(r, i)
    /\ settings.after = None => IsSubsequence(r, Basic) /\ IsPrefix(Prefix(Basic), r)
    /\ settings.after = None => ToSet(Active(turn)) \subseteq ToSet(r)
    /\ \/ settings.window # None /\ Weight(r, DOMAIN r, "message") > settings.window
       \/ settings.budget # None /\ Weight(r, DOMAIN r, "token") > settings.budget
       => Cardinality({h \in Heads(r) : Group(r, h) \cap Protected(r) = {}}) <= 1

(* Not kept when a summary is configured: the tail that is not summarised may be   *)
(* shorter than the current turn.                                                  *)
TurnSurvivesSummary == ToSet(Active(turn)) \subseteq ToSet(Composed)
=================================================================================
