-------------------------------- MODULE Streams --------------------------------
(* An answer of a model as it is streamed: the provider sends its blocks, texts   *)
(* and tool calls, piece by piece in the format of one of four APIs; the adapter's *)
(* normalizer makes events of them. An agent run puts the answer together again    *)
(* when the stream has ended well; a chat stores what it was given however the     *)
(* stream ends. The provider may run out of tokens, the connection may be lost,    *)
(* and a gateway may leave out events whose content a later event repeats. It      *)
(* names an item the same way in all of its events.                               *)
EXTENDS Integers, Sequences, FiniteSets, SequencesExt

CONSTANTS
  MaxBlocks,
  MaxPieces,  \* the pieces of a block
  None

Wire == {"chat", "responses", "anthropic", "gemini"}
Block == 1..MaxBlocks
Kind == {"text", "call"}

VARIABLES
  wire,
  answer,     \* what the model would say: a sequence of [kind, size]
  made,       \* block -> the pieces that were generated so far
  stage,      \* block -> "unsent", "open", "said" (arguments.done), "closed"
  finish,     \* None, "stop", "length": the reason the provider gave
  held,       \* block -> the pieces the normalizer has of it
  done,       \* blocks whose call was reported: _completed_item_ids, _call_ids
  parts,      \* how many parts of the answer Gemini's chunks had
  text,       \* the consumer's text deltas
  calls,      \* the consumer's tool calls, [id, of, arguments]
  message,    \* the message of the last event, if the API gives one
  outcome     \* None, "answered", "cut", "refused", "error"

vars == <<wire, answer, made, stage, finish, held, done, parts, text, calls, message, outcome>>

sender == <<wire, answer>>
Pieces(b, n) == [k \in 1..n |-> <<b, k>>]
Of(kind) == {b \in DOMAIN answer : answer[b].kind = kind}
Whole(b) == made[b] = answer[b].size
Closed(b) == stage[b] = "closed"

Init ==
  /\ wire \in Wire
  /\ answer \in UNION {[1..n -> [kind : Kind, size : 0..MaxPieces]] : n \in Block}
  /\ \A b \in Of("text") : answer[b].size > 0
  /\ made = [b \in Block |-> 0] /\ stage = [b \in Block |-> "unsent"]
  /\ finish = None /\ held = [b \in Block |-> <<>>] /\ done = {} /\ parts = 0
  /\ text = <<>> /\ calls = <<>> /\ message = None /\ outcome = None

-----------------------------------------------------------------------------
\* What formats have in common: blocks are opened in their order, one after the other
\* (Anthropic), or calls may be sent in turns.
Sends(w) == wire = w /\ outcome = None /\ finish = None /\ UNCHANGED sender

Open(b) ==
  /\ Sends(wire) /\ wire # "gemini" /\ b \in DOMAIN answer /\ stage[b] = "unsent"
  /\ \A a \in 1..(b - 1) :
       /\ stage[a] # "unsent" /\ (Closed(a) => Whole(a)) /\ (wire = "anthropic" => Closed(a))
       /\ a \in Of("text") => Len(held[a]) = answer[a].size
  /\ stage' = [stage EXCEPT ![b] = "open"]
  /\ UNCHANGED <<made, finish, held, done, parts, text, calls, message, outcome>>

\* The texts of the blocks, as the normalizer holds them.
HeldText == FlattenSeq([b \in DOMAIN answer |-> IF b \in Of("text") THEN held[b] ELSE <<>>])
Call(b, arguments) == [id |-> <<"call", b>>, of |-> b, arguments |-> arguments]

Heard(b) ==
  /\ Len(held[b]) = made[b]
  /\ held' = [held EXCEPT ![b] = Append(@, <<b, made[b] + 1>>)]
  /\ text' = IF b \in Of("text") THEN Append(text, <<b, made[b] + 1>>) ELSE text

\* The next piece as a delta. Responses: a gateway may swallow the deltas from some
\* piece on, as the final events repeat all of them.
Delta(b) ==
  /\ Sends(wire) /\ wire # "gemini" /\ stage[b] = "open" /\ ~Whole(b)
  /\ made' = [made EXCEPT ![b] = @ + 1]
  /\ \/ Heard(b)
     \/ wire = "responses" /\ UNCHANGED <<held, text>>
  /\ UNCHANGED <<stage, finish, done, parts, calls, message, outcome>>

-----------------------------------------------------------------------------
(* Chat completions: calls are reported with the reason the answer ended for.     *)
\* A slip: the calls are reported whatever the reason.
ReportedAlways(reason) ==
  SetToSortSeq({b \in Of("call") : stage[b] # "unsent"}, LAMBDA a, b : a < b)

\* _completed_tool_call_events; a truncating reason may leave part of the arguments.
Reported(reason) ==
  IF reason = "length" THEN <<>>
  ELSE SetToSortSeq({b \in Of("call") : stage[b] # "unsent"}, LAMBDA a, b : a < b)

Reason(reason) == reason = "stop" => \A b \in DOMAIN answer : stage[b] # "unsent" /\ Whole(b)

ChatFinish(reason) ==
  /\ Sends("chat") /\ Reason(reason) /\ finish' = reason
  /\ LET due == Reported(reason)
     IN  calls' = calls \o [i \in DOMAIN due |-> Call(due[i], held[due[i]])]
  /\ UNCHANGED <<made, stage, held, done, parts, text, message, outcome>>

-----------------------------------------------------------------------------
(* Responses: final events repeat what deltas said, and the last one everything.  *)
\* _map_text, final: what the deltas left out.
Rest(b) == SubSeq(Pieces(b, made[b]), Len(held[b]) + 1, made[b])

TextDone(b) ==
  /\ Sends("responses") /\ b \in Of("text") /\ stage[b] = "open" /\ Whole(b)
  /\ text' = text \o Rest(b) /\ held' = [held EXCEPT ![b] = Pieces(b, made[b])]
  /\ UNCHANGED <<made, stage, finish, done, parts, calls, message, outcome>>

\* An item without an id, or whose name was left out, is reported when it is done.
ArgumentsDone(b) ==
  /\ Sends("responses") /\ b \in Of("call") /\ stage[b] = "open" /\ Whole(b)
  /\ stage' = [stage EXCEPT ![b] = "said"]
  /\ held' = [held EXCEPT ![b] = Pieces(b, made[b])]
  /\ \/ calls' = Append(calls, Call(b, held'[b])) /\ done' = done \cup {b}
     \/ UNCHANGED <<calls, done>>
  /\ UNCHANGED <<made, finish, parts, text, message, outcome>>

\* A slip: what arguments.done reported is reported again.
FreshAlways(items) == SelectSeq(items, LAMBDA b : b \in Of("call"))

\* _map_output_item_done: each call once.
Fresh(items) == SelectSeq(items, LAMBDA b : b \in Of("call") \ done)

Final(items) ==
  /\ text' = text \o FlattenSeq([i \in DOMAIN items |->
                       IF items[i] \in Of("text") THEN Rest(items[i]) ELSE <<>>])
  /\ held' = [b \in Block |-> IF b \in ToSet(items) \cap Of("text")
                              THEN Pieces(b, made[b]) ELSE held[b]]
  /\ calls' = calls \o [i \in DOMAIN Fresh(items) |->
                          Call(Fresh(items)[i], Pieces(Fresh(items)[i], made[Fresh(items)[i]]))]
  /\ done' = done \cup ToSet(Fresh(items))
  /\ UNCHANGED <<made, parts, message, outcome>>

ItemDone(b) ==
  /\ Sends("responses") /\ stage[b] \in {"open", "said"} /\ Whole(b)
  /\ Final(<<b>>)
  /\ stage' = [stage EXCEPT ![b] = "closed"] /\ UNCHANGED finish

\* response.completed, response.incomplete.
ResponseDone(reason) ==
  /\ Sends("responses") /\ Reason(reason) /\ finish' = reason
  /\ Final(SelectSeq([b \in DOMAIN answer |-> b], LAMBDA b : stage[b] # "unsent"))
  /\ UNCHANGED stage

-----------------------------------------------------------------------------
(* Anthropic: a block ends with an event of its own, the message with two.        *)
Refuse == outcome' = "refused" /\ UNCHANGED <<made, stage, finish, held, done, parts, text, calls, message>>

\* content_block_stop, which a truncated answer has for its last block too: no piece
\* of the arguments is read as {}, some of the pieces are no JSON.
BlockStop(b) ==
  /\ Sends("anthropic") /\ stage[b] = "open"
  /\ Whole(b) \/ \A a \in DOMAIN answer : a > b => stage[a] = "unsent"
  /\ IF b \in Of("call") /\ ~Whole(b) /\ held[b] # <<>> THEN Refuse
     ELSE /\ stage' = [stage EXCEPT ![b] = "closed"]
          /\ calls' = IF b \in Of("call") THEN Append(calls, Call(b, held[b])) ELSE calls
          /\ UNCHANGED <<made, finish, held, done, parts, text, message, outcome>>

\* message_delta with a reason: no block follows one that was cut.
MessageDelta(reason) ==
  /\ Sends("anthropic") /\ Reason(reason) /\ finish' = reason
  /\ \A b \in DOMAIN answer : stage[b] # "open"
  /\ UNCHANGED <<made, stage, held, done, parts, text, calls, message, outcome>>

\* message_stop: the message is made of the blocks.
MessageStop ==
  /\ wire = "anthropic" /\ outcome = None /\ finish # None /\ message = None
  /\ LET asked == SelectSeq([b \in DOMAIN answer |-> b], LAMBDA b : b \in Of("call") /\ Closed(b))
     IN  message' = [text  |-> HeldText,
                     calls |-> [i \in DOMAIN asked |-> Call(asked[i], held[asked[i]])]]
  /\ UNCHANGED <<sender, made, stage, finish, held, done, parts, text, calls, outcome>>

-----------------------------------------------------------------------------
(* Gemini: a part is a piece of a text or a whole call, with an id or without.    *)
\* A slip: parts are counted in their chunk, not in the answer.
PartIdInChunk(b, native) == IF native THEN <<"call", b>> ELSE <<"part", 1>>

\* _gemini_tool_call_id
PartId(b, native) == IF native THEN <<"call", b>> ELSE <<"part", parts + 1>>

Part(b, native) ==
  /\ Sends("gemini") /\ b \in DOMAIN answer /\ ~Closed(b)
  /\ \A a \in 1..(b - 1) : Closed(a)
  /\ parts' = parts + 1
  /\ made' = [made EXCEPT ![b] = IF b \in Of("call") THEN answer[b].size ELSE @ + 1]
  /\ stage' = [stage EXCEPT ![b] = IF made'[b] = answer[b].size THEN "closed" ELSE "open"]
  /\ held' = [held EXCEPT ![b] = Pieces(b, made'[b])]
  /\ IF b \in Of("text")
     THEN text' = Append(text, <<b, made'[b]>>) /\ UNCHANGED <<calls, done, outcome>>
     ELSE IF PartId(b, native) \in done
          THEN outcome' = "refused" /\ UNCHANGED <<text, calls, done>>
          ELSE /\ calls' = Append(calls, [id |-> PartId(b, native), of |-> b, arguments |-> held'[b]])
               /\ done' = done \cup {PartId(b, native)}
               /\ UNCHANGED <<text, outcome>>
  /\ UNCHANGED <<finish, message>>

\* completed_event, with the calls that were reported.
Gathered == [text |-> HeldText, calls |-> calls]

GeminiFinish(reason) ==
  /\ Sends("gemini") /\ Reason(reason) /\ finish' = reason
  /\ UNCHANGED <<made, stage, held, done, parts, text, calls, message, outcome>>

-----------------------------------------------------------------------------
\* A slip: a stream that ended is taken for an answer.
IsCompleteAlways == TRUE

\* is_complete; the Responses stream is done when there was some output, ended or not.
IsComplete ==
  CASE wire = "anthropic" -> message # None
    [] wire = "responses" -> text # <<>> \/ calls # <<>>
    [] OTHER -> finish # None

\* The events end, by the provider's doing or by the connection's: Gemini's last event
\* is made now. An agent run takes DONE for the end of the answer, whatever came before,
\* and the message, if there is one, before its own pieces.
End ==
  /\ outcome = None
  /\ outcome' = IF IsComplete THEN "answered" ELSE "cut"
  /\ message' = IF ~IsComplete \/ wire = "anthropic" THEN message
                ELSE IF wire = "gemini" THEN Gathered ELSE [text |-> text, calls |-> calls]
  /\ UNCHANGED <<sender, made, stage, finish, held, done, parts, text, calls>>

\* error events, response.failed, an exception of the client.
Error ==
  /\ outcome = None /\ outcome' = "error"
  /\ UNCHANGED <<sender, made, stage, finish, held, done, parts, text, calls, message>>

Next ==
  \/ \E b \in Block :
       \/ Open(b) \/ Delta(b) \/ TextDone(b) \/ ArgumentsDone(b) \/ ItemDone(b)
       \/ BlockStop(b)
       \/ \E native \in BOOLEAN : Part(b, native)
  \/ \E reason \in {"stop", "length"} :
       ChatFinish(reason) \/ ResponseDone(reason) \/ MessageDelta(reason) \/ GeminiFinish(reason)
  \/ MessageStop \/ End \/ Error

Spec == Init /\ [][Next]_vars

-----------------------------------------------------------------------------
Spoken == FlattenSeq([b \in DOMAIN answer |-> IF b \in Of("text") THEN Pieces(b, made[b]) ELSE <<>>])

\* _assistant_message of a chat: what it was given, when the stream ends in any way.
Kept == [text |-> text, calls |-> calls]

(* Whatever the format, the order of the pieces and the events a gateway leaves   *)
(* out. What a chat keeps of a stream, cut and refused ones included: the text is  *)
(* the beginning of what was said; each call is there once, under an id of its     *)
(* own, and its arguments are never a part of what the model meant, but for an     *)
(* incomplete response.                                                            *)
KeptIsHonest ==
  /\ IsPrefix(Kept.text, Spoken)
  /\ \A i, j \in DOMAIN Kept.calls :
       i # j => Kept.calls[i].id # Kept.calls[j].id /\ Kept.calls[i].of # Kept.calls[j].of
  /\ \A i \in DOMAIN Kept.calls :
       \/ Kept.calls[i].arguments = Pieces(Kept.calls[i].of, answer[Kept.calls[i].of].size)
       \/ finish = "length" /\ wire = "responses"
       \/ finish # "stop" /\ wire = "anthropic" /\ Kept.calls[i].arguments = <<>>

(* And what an agent run takes for an answer: the same as a chat keeps, whoever    *)
(* puts it together; all that was said, and, unless tokens ran out, all the calls, *)
(* except that a Responses stream may stop in the middle of it; and no stream that *)
(* came to its end in order is refused.                                            *)
AnswersAreWhole ==
  /\ KeptIsHonest
  /\ outcome = "answered" =>
       /\ message = Kept
       /\ finish = None => wire = "responses"
       /\ finish # None => message.text = Spoken
       /\ finish = "stop" => {calls[i].of : i \in DOMAIN calls} = Of("call")
  /\ outcome = "cut" => finish # "stop" \/ (wire = "anthropic" /\ message = None)
  /\ outcome = "refused" => wire = "anthropic" /\ \E b \in Of("call") : stage[b] = "open" /\ ~Whole(b)

(* Not kept: an answer is taken only after the provider ended it. A Responses      *)
(* stream that had some output counts as done when its events end.                 *)
AnswersAreEnded == outcome = "answered" => finish # None

=================================================================================
