---------------------------- MODULE MCAgentRunLoop ----------------------------
(* Small instances of AgentRunLoop for TLC. *)
EXTENDS AgentRunLoop

CONSTANTS a, b, pay, read

\* A payment needs an approval and must not be made twice; a read is safe.
MCResponses == {<<>>,
                <<[id |-> a, tool |-> pay]>>,
                <<[id |-> a, tool |-> read], [id |-> b, tool |-> pay]>>}

\* Payments only, with an id that every response uses.
MCPayments == {<<>>, <<[id |-> a, tool |-> pay]>>}

\* Reads only.
MCReads == {<<>>, <<[id |-> a, tool |-> read]>>}

=============================================================================
