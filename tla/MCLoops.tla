------------------------------- MODULE MCLoops -------------------------------
(* Two instances of AgentRunLoop in one run: "ledger", the constants of the   *)
(* cfg, has two calls in a response and stops at a tool error; "rounds" has   *)
(* two rounds of payments under one id, goes on after errors and is fair.     *)
(* Both have the same ids and tools, so that what is said of the executions   *)
(* of a call is checked in both.                                              *)
EXTENDS MCAgentRunLoop

VARIABLE part

Rounds2 == INSTANCE AgentRunLoop WITH
  Responses <- MCPayments, MaxRounds <- 2, RecoverErrors <- TRUE,
  Operator <- {"pause", "resolve", "abandon"}

InitLoops == (part = "ledger" /\ Init) \/ (part = "rounds" /\ Rounds2!Init)
NextLoops ==
  \/ part = "ledger" /\ Next /\ UNCHANGED part
  \/ part = "rounds" /\ Rounds2!Next /\ UNCHANGED part

SpecLoops ==
  /\ InitLoops /\ [][NextLoops]_<<vars, part>>
  /\ WF_<<vars, part>>(part = "rounds" /\ Rounds2!Execute /\ UNCHANGED part)
  /\ WF_<<vars, part>>(part = "rounds" /\ Rounds2!Recover /\ UNCHANGED part)

\* The fair instance settles.
RoundsSettle == part = "rounds" => Rounds2!RunSettles
==============================================================================
