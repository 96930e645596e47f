-------------------------- MODULE MCAgentRunLease --------------------------
(* AgentRunLease for TLC: process lifetimes are interchangeable.           *)
EXTENDS AgentRunLease, TLC

Lifetimes == Permutations(Proc)

=============================================================================
