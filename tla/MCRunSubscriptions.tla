-------------------------- MODULE MCRunSubscriptions --------------------------
(* The instance of RunSubscriptions: two connections that follow one run.    *)
EXTENDS RunSubscriptions, TLC

CONSTANTS a, b
Conns == Permutations(Conn)
===============================================================================
