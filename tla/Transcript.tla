------------------------------- MODULE Transcript -------------------------------
(* The transcript of one context and the turns that are taken on it: chats,       *)
(* streamed chats and agent runs of one server, each through a session or not.    *)
(*                                                                               *)
(* Handlers share an event loop and every access to the row is a transaction     *)
(* without an await around it: what happens between two awaits of a turn is one   *)
(* step. A turn marks what it retries and composes its request (Begin), awaits    *)
(* its provider, and writes its messages (Persist). An agent run writes them      *)
(* before its stop is journaled and saved: cut in between, by a crash, a timeout  *)
(* or a lost lease, it is resumed from its checkpoint and writes them again       *)
(* (Stopped, Resume). Clients read, append to, replace and delete the context     *)
(* at any time.                                                                  *)
EXTENDS Naturals, Sequences, FiniteSets, SequencesExt, Functions

CONSTANTS
  Turn,
  Client,      \* the author of the messages clients append
  None,
  MaxEdits,    \* bound on what clients do
  MaxFaults    \* bound on transactions that raise and executions that are cut

VARIABLES
  row,      \* None or the stored context: revision, messages, and edition, the
            \* number of times a client replaced or deleted it (not stored)
  session,  \* the session on it: "none", "active" or "archived"
  copy,     \* a context a client has read
  turn,     \* turn -> its kind ("chat", "stream" or "run"), where it is, how many
            \* times it was resumed, and what an agent run records of its messages
  edits, faults

vars == <<row, session, copy, turn, edits, faults>>

-----------------------------------------------------------------------------
Message(t, what) ==
  [by |-> t, take |-> IF t = Client THEN 0 ELSE turn[t].take, what |-> what, active |-> TRUE]
Empty(edition) == [revision |-> 0, messages |-> <<>>, edition |-> edition]
Edition == IF row = None THEN edits ELSE row.edition

\* append_message: one transaction that reads the row and writes it again.
Appended(c, ms) == [c EXCEPT !.messages = @ \o ms, !.revision = @ + Len(ms)]

Init ==
  /\ row = Empty(0) /\ session = "none" /\ copy = None
  /\ turn = [t \in Turn |->
             [pc |-> "new", kind |-> None, take |-> 0, offset |-> 0, indices |-> <<>>, edition |-> 0]]
  /\ edits = 0 /\ faults = 0

\* _ensure_retry_target, _mark_context_retry_messages: an active answer and all that
\* follows is rejected. The revision stays.
Targets == {i \in DOMAIN row.messages : row.messages[i].what # "ask" /\ row.messages[i].active}
Marked(i) ==
  [row EXCEPT !.messages = [j \in DOMAIN @ |-> [@[j] EXCEPT !.active = @ /\ j < i]]]

Called(t) == \E k \in {"chat", "stream", "run"} :
  turn' = [turn EXCEPT ![t].pc = "calling", ![t].kind = k, ![t].offset = Len(row.messages)]

\* A slip: the question is stored before the provider is called.
BeginStored(t) ==
  /\ turn[t].pc = "new" /\ row # None
  /\ row' = Appended(row, <<Message(t, "ask")>>)
  /\ Called(t)
  /\ UNCHANGED <<session, copy, edits, faults>>

\* A turn on a context that is not there, or through a session that is not, is refused.
\* An archived session takes turns.
Begin(t) ==
  /\ turn[t].pc = "new" /\ row # None
  /\ row' \in {row} \cup {Marked(i) : i \in Targets}
  /\ Called(t)
  /\ UNCHANGED <<session, copy, edits, faults>>

\* The provider fails, a chat is cancelled, or nobody iterates the stream: nothing is
\* written. Marks stay.
Lost(t) ==
  /\ turn[t].pc = "calling" /\ turn[t].kind # "run"
  /\ turn' = [turn EXCEPT ![t].pc = "over"]
  /\ UNCHANGED <<row, session, copy, edits, faults>>

\* What is written: the question and the answer; of a stream that was cut, or a run
\* that failed, the part of the answer there is, or none.
Written(t) ==
  LET whole == <<Message(t, "ask"), Message(t, "answer")>>
  IN  IF turn[t].kind = "chat" THEN {whole}
      ELSE {whole, <<Message(t, "ask")>>, <<Message(t, "ask"), Message(t, "partial")>>}

\* A slip: the positions of a run's messages are computed from the length at its start.
IndicesFromOffset(t, n) == [i \in 1..n |-> turn[t].offset + i]

\* _commit_run_transcript: where append returned that each message is.
Indices(t, n) == [i \in 1..n |-> Len(row.messages) + i]

\* _persist_context_messages, _commit_run_transcript and the end of chat_with_context.
\* A transaction may raise, or the process be gone: what was written before it stays. No
\* context: nothing. A run that has written has yet to stop.
Persist(t) ==
  /\ turn[t].pc = "calling"
  /\ \E ms \in Written(t) : \E n \in 0..Len(ms) :
       /\ n < Len(ms) => faults < MaxFaults /\ faults' = faults + 1
       /\ n = Len(ms) => UNCHANGED faults
       /\ row' = IF row = None THEN None ELSE Appended(row, SubSeq(ms, 1, n))
       /\ turn' = [turn EXCEPT
            ![t].pc = IF n < Len(ms) THEN "broken" ELSE IF turn[t].kind = "run" THEN "stopping" ELSE "over",
            ![t].indices = IF turn[t].kind = "run" /\ row # None THEN Indices(t, n) ELSE <<>>,
            ![t].edition = Edition]
  /\ UNCHANGED <<session, copy, edits>>

\* RUN_STOPPED is journaled and the state saved.
Stopped(t) ==
  /\ turn[t].pc = "stopping"
  /\ turn' = [turn EXCEPT ![t].pc = "over"]
  /\ UNCHANGED <<row, session, copy, edits, faults>>

\* The execution is cut before that, and the run is resumed from the state saved last,
\* with or without the positions it had recorded (agent_run_recovery_checkpoint). What
\* has been written is written again.
Resume(t) ==
  /\ turn[t].kind = "run"
  /\ \/ turn[t].pc = "broken" /\ UNCHANGED faults
     \/ turn[t].pc \in {"calling", "stopping"} /\ faults < MaxFaults /\ faults' = faults + 1
  /\ \E known \in {<<>>, turn[t].indices} :
       turn' = [turn EXCEPT ![t].pc = "calling", ![t].take = @ + 1, ![t].indices = known]
  /\ UNCHANGED <<row, session, copy, edits>>

-----------------------------------------------------------------------------
(* Clients.                                                                      *)

Edit == edits < MaxEdits /\ edits' = edits + 1 /\ UNCHANGED <<turn, faults>>

Read == Edit /\ row # None /\ copy' = row /\ UNCHANGED <<row, session>>

\* append_context, with or without the revision the client has read.
AppendMessage ==
  /\ Edit /\ row # None
  /\ \E expected \in {None} \cup (IF copy = None THEN {} ELSE {copy.revision}) :
       row' = IF expected \in {None, row.revision}
              THEN Appended(row, <<Message(Client, "ask")>>) ELSE row
  /\ UNCHANGED <<session, copy>>

\* create_context and replace_context both store what they are given, with its revision.
Put ==
  /\ Edit
  /\ row' \in {[c EXCEPT !.edition = edits + 1] : c \in {Empty(0)} \cup ({copy} \ {None})}
  /\ UNCHANGED <<session, copy>>

Delete == Edit /\ row # None /\ row' = None /\ UNCHANGED <<session, copy>>

\* create_session and replace_session provide the context, the others leave it alone.
SetSession ==
  /\ Edit /\ session' = "active"
  /\ row' = IF row = None THEN Empty(edits + 1) ELSE row
  /\ UNCHANGED copy

ArchiveSession == Edit /\ session # "none" /\ session' = "archived" /\ UNCHANGED <<row, copy>>
DeleteSession == Edit /\ session # "none" /\ session' = "none" /\ UNCHANGED <<row, copy>>

Next ==
  \/ \E t \in Turn : Begin(t) \/ Lost(t) \/ Persist(t) \/ Stopped(t) \/ Resume(t)
  \/ Read \/ AppendMessage \/ Put \/ Delete
  \/ SetSession \/ ArchiveSession \/ DeleteSession

Spec == Init /\ [][Next]_vars

-----------------------------------------------------------------------------
Of(t, take) ==
  {i \in DOMAIN row.messages : row.messages[i].by = t /\ row.messages[i].take = take}

(* However turns overlap, fail and are cut, and whatever clients do: the messages *)
(* that one execution of a turn writes stand next to each other and once, the     *)
(* question first, and the question of a chat has its answer. Only a transaction  *)
(* that raises, or a process that is gone, breaks one.                            *)
WholeTurns ==
  row # None => \A t \in Turn : \A take \in 0..turn[t].take : Of(t, take) # {} =>
    LET first == CHOOSE i \in Of(t, take) : \A j \in Of(t, take) : i <= j
    IN  /\ row.messages[first].what = "ask"
        /\ Of(t, take) \subseteq {first, first + 1}
        /\ \A i \in Of(t, take) \ {first} : row.messages[i].what # "ask"
        /\ turn[t].kind = "chat" => turn[t].pc = "broken" \/ Cardinality(Of(t, take)) = 2

(* Not kept: the messages of a turn stand once. A run that is cut after it wrote  *)
(* them and before its stop was saved writes them again when it is resumed.       *)
TurnsStandOnce ==
  row # None => \A t \in Turn : Cardinality({take \in 0..turn[t].take : Of(t, take) # {}}) <= 1

(* The positions an agent run records are those of its own messages, also when    *)
(* other turns were written since it began, as long as no client replaced or      *)
(* deleted the context.                                                          *)
IndicesHonest ==
  \A t \in Turn :
    turn[t].indices # <<>> /\ row # None /\ row.edition = turn[t].edition =>
      \A i \in DOMAIN turn[t].indices :
        /\ turn[t].indices[i] \in DOMAIN row.messages
        /\ row.messages[turn[t].indices[i]].by = t

(* Not kept: a revision a client has read may stand for other messages later,     *)
(* for replace stores the revision it is given and a retry mark keeps it.         *)
RevisionMeansContent ==
  copy # None /\ row # None /\ copy.revision = row.revision => copy.messages = row.messages
=================================================================================
