----------------------------- MODULE MCToolCalls -----------------------------
(* Instances of ToolCalls: two or three calls in one session of a shell tool *)
(* whose definition may ask or be barred, a command every state allows, one  *)
(* that asks in the second state and one that is rejected there.             *)
EXTENDS ToolCalls, TLC

CONSTANTS read, write, shell, blocked, o1, o2, s1, i1, i2, i3, free, risky, fatal, c1, c2, c3

Def(p, mode) == [permissions |-> p, safe |-> TRUE, requires_approval |-> FALSE, approval_mode |-> mode]
Asking == Def({read, write}, "auto")
Barred == Def({blocked}, "never")
ShellTool == Def({shell}, "never")
OfferedShell == {ShellTool}
OfferedTools == {ShellTool, Asking, Barred}

Judgements == [p \in {free, risky, fatal} \X {"root", "app"} |->
    IF p[1] = risky THEN "ask" ELSE IF p = <<fatal, "app">> THEN "reject" ELSE "pass"]

C(tool, owner, in, id, command, kind, reset, attended, claims) ==
    [tool |-> tool, owner |-> owner, session |-> in, id |-> id, command |-> command, kind |-> kind,
     reset |-> reset, attended |-> attended, claims |-> claims]

(* A script that needs an approval, one that resets and moves the session in *)
(* a run that does not pause, a background process.                          *)
ofSession == (c1 :> C(shell, o1, s1, i1, risky, "script", FALSE, TRUE, FALSE)) @@
             (c2 :> C(shell, o1, s1, i2, free, "script", TRUE, FALSE, FALSE)) @@
             (c3 :> C(shell, o1, s1, i3, fatal, "background", FALSE, TRUE, FALSE))
(* Two calls of a session under one id, both with an approval of the model's *)
(* making: one asks, the other may when the definition changes.              *)
ofPolicy == (c1 :> C(shell, o1, s1, i1, risky, "script", FALSE, TRUE, TRUE)) @@
            (c2 :> C(shell, o1, s1, i1, free, "script", FALSE, TRUE, TRUE))
==============================================================================
