------------------------------- MODULE MCCalls -------------------------------
(* Two instances of ToolCalls in one run: in "session" three calls of a shell  *)
(* session are made; in "policy" two calls of a session under one id, both     *)
(* with an approval of the model's making, while the definition changes; this  *)
(* one is fair. The calls of the other instance are never made.                *)
EXTENDS MCToolCalls

CONSTANTS c4, c5, i4

\* One asks, the other may when the definition changes.
ofBoth == ofSession @@ (c4 :> C(shell, o1, s1, i4, risky, "script", FALSE, TRUE, TRUE))
                    @@ (c5 :> C(shell, o1, s1, i4, free, "script", FALSE, TRUE, TRUE))

VARIABLE part
Made == IF part = "session" THEN {c1, c2, c3} ELSE {c4, c5}
MayOffer == IF part = "session" THEN OfferedShell ELSE OfferedTools

InitCalls == part \in {"session", "policy"} /\ Init /\ \A t \in Tool : definitions[t] \in MayOffer
NextCalls ==
  /\ \/ \E c \in Made : Check(c) \/ Execute(c) \/ Start(c) \/ Finish(c) \/ Cancel(c)
     \/ \E c \in Made, d \in ApprovalStatus : Decide(c, d)
     \/ \E o \in Owner, t \in Tool, mode \in Setting : SetToolPolicy(o, t, mode)
     \/ \E t \in Tool, d \in MayOffer \cup {None} : Replace(t, d)
     \/ Restart
  /\ UNCHANGED part

Fairly == part = "policy" /\ UNCHANGED part
SpecCalls ==
  /\ InitCalls /\ [][NextCalls]_<<vars, part>>
  /\ \A c \in {c4, c5} :
       /\ WF_<<vars, part>>(Fairly /\ Check(c))
       /\ WF_<<vars, part>>(Fairly /\ Execute(c))
       /\ SF_<<vars, part>>(Fairly /\ Start(c))
       /\ WF_<<vars, part>>(Fairly /\ Finish(c))

\* The second half of CallsSettle, of the calls that are fair: a call that was decided,
\* or started, does not pause again.
FairCallsSettle ==
  \A c \in {c4, c5} :
    (part = "policy" /\ phase[c] \in {"decided", "started", "waiting", "running"})
      ~> phase[c] \in Settled
==============================================================================
