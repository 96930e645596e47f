------------------------------ MODULE MCImages ------------------------------
(* Two instances of ImageTasks in one run: "results", the constants of the    *)
(* cfg, has one task, the deletion of tasks and records, and transactions     *)
(* that raise; "pair" has two tasks and a limit of one, a process that stops  *)
(* or crashes, workers that die (two transactions of one operation raise),    *)
(* at most two of stops and raises together, and is fair.  The tasks of       *)
(* "pair" differ in their name only, so that what is checked of t1 there      *)
(* holds of t2.                                                               *)
EXTENDS MCImageTasks

VARIABLE part

Pair == INSTANCE ImageTasks WITH
  Tasks <- {t1, t2}, Owner <- [t \in {t1, t2} |-> alice],
  Requests <- {"close"}, MaxStops <- 1, MaxFaults <- 2

InitImages == (part = "results" /\ Init) \/ (part = "pair" /\ Pair!Init)
NextImages ==
  \/ part = "results" /\ Next /\ UNCHANGED part
  \/ part = "pair" /\ Pair!Next /\ stops' + faults' <= 2 /\ UNCHANGED part

InPair == part = "pair" /\ UNCHANGED part
Fairly ==
  /\ \A w \in Workers : WF_<<vars, part>>(InPair /\ Pair!Worker(w))
  /\ \A t \in {t1, t2} :
       WF_<<vars, part>>(InPair /\ Pair!Unattended(t) /\ Pair!LeaseExpires(t))
  /\ WF_<<vars, part>>(InPair /\ \E s \in submitting : Pair!Create(s))
  /\ \A p \in Procs :
       /\ WF_<<vars, part>>(InPair /\ \E t \in {t1, t2} : Pair!DeleteForRecord(p, t))
       /\ WF_<<vars, part>>(InPair /\ Pair!Closed(p))
  /\ \A p \in Restarted : WF_<<vars, part>>(InPair /\ Pair!Boot(p))

SpecImages == InitImages /\ [][NextImages]_<<vars, part>> /\ Fairly

\* Every accepted task of the fair instance ends or is deleted, unless a worker
\* died and nobody works any more (TasksSettle).
PairSettles ==
  \A t \in {t1, t2} :
    (part = "pair" /\ status[t] \in Active)
       ~> ((part = "pair" => status[t] \notin Active) \/ [](part = "pair" /\ NobodyWorks))
==============================================================================
