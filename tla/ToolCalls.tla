------------------------------ MODULE ToolCalls ------------------------------
(* The life of the tool calls of agent runs: the check before a call and the *)
(* pause for an approval (application/agent_execution.py), the second check  *)
(* when it is executed (core/domain/tool.py), and the shell tool             *)
(* (infra/adapters/tool/restricted_shell.py, shell_session.py), whose        *)
(* commands start in the directory and the environment earlier commands of   *)
(* the session left, one at a time under the session's lock, and whose       *)
(* approval is bound to that state. Meanwhile owners change their settings,  *)
(* sources replace or withdraw tools, and the service restarts.              *)
(*                                                                           *)
(* A step runs to the next await. What the loop does around a call (rounds,  *)
(* snapshots, the ledger of attempts) is AgentRunLoop's subject; here a call *)
(* a restart finds in flight ends as cancelled.                              *)
EXTENDS ToolAuthorization

CONSTANTS
    Call,       \* the calls
    Tool,       \* the names tools are registered under
    Owner,      \* the principals (the anonymous one is one of them)
    Session,    \* the shell sessions, each of one owner
    Id,         \* tool_call_id values
    Command,    \* commands, or the arguments of other tools
    Shell,      \* the states of a shell session: directory and variables
    Fresh,      \* the state of a session nothing is recorded of
    Offered,    \* the definitions a tool may be registered with
    Judge,      \* what the preflight check says of a command in a state
    Of,         \* what each call is
    None        \* no session, no definition, no state

(* Each call is by a run of one owner, in one session or (a call of another  *)
(* tool, or a shell call without one) in none. A script leaves its own final *)
(* state behind, an array the state it started in, a background process is   *)
(* started in the state and leaves it alone. reset is the reset_session      *)
(* argument, attended the run's pause_on_approval, claims an approval the    *)
(* model put in the call.                                                    *)
ASSUME CallFacts ==
    /\ Of \in [Call -> [tool : Tool, owner : Owner, session : Session \cup {None}, id : Id,
                        command : Command, kind : {"script", "array", "background"},
                        reset : BOOLEAN, attended : BOOLEAN, claims : BOOLEAN]]
    /\ Fresh \in Shell
    /\ Offered \subseteq Definition
    /\ Judge \in [Command \X Shell -> Preflight]
    /\ None \notin Session \cup Definition \cup Shell

VARIABLES
    definitions,   \* the register: tool -> definition, or None
    settings,      \* the policy store: owner, tool -> setting
    phase,         \* call -> where it is
    status,        \* call -> the decision about it
    session,       \* the session store
    bound,         \* _authorized_states: binding key -> state, or None
    askedIn,       \* call -> the state in which its approval was asked for
    ranIn          \* call -> the state it was started in

vars == <<definitions, settings, phase, status, session, bound, askedIn, ranIn>>

Settled == {"done", "refused", "cancelled"}
Phases == {"proposed", "paused", "decided", "started", "waiting", "running"} \cup Settled

Key == Session \X Id \X Command

TypeOK ==
    /\ definitions \in [Tool -> Definition \cup {None}]
    /\ settings \in [Owner \X Tool -> Setting]
    /\ phase \in [Call -> Phases]
    /\ status \in [Call -> ApprovalStatus \cup {"none"}]
    /\ session \in [Session -> Shell]
    /\ bound \in [Key -> Shell \cup {None}]
    /\ askedIn \in [Call -> Shell \cup {None}]
    /\ ranIn \in [Call -> Shell \cup {None}]

(* Nothing is set and nothing has run; each tool has some definition.        *)
Init ==
    /\ definitions \in [Tool -> Offered]
    /\ settings = [o \in Owner \X Tool |-> "default"]
    /\ phase = [c \in Call |-> "proposed"]
    /\ status = [c \in Call |-> "none"]
    /\ session = [s \in Session |-> Fresh]
    /\ bound = [k \in Key |-> None]
    /\ askedIn = [c \in Call |-> None]
    /\ ranIn = [c \in Call |-> None]

-----------------------------------------------------------------------------
(* A call of the shell tool with a session: _binding_key is not None and     *)
(* state is not None.                                                        *)
InSession(c) == Of[c].session # None
BindingKey(c) == <<Of[c].session, Of[c].id, Of[c].command>>

(* RestrictedShellTool._session: the state the command would start in.       *)
Seen(c) == IF InSession(c) /\ ~Of[c].reset THEN session[Of[c].session] ELSE Fresh

(* The policy's evaluation of the command in that state.                     *)
Judged(c) == Judge[<<Of[c].command, Seen(c)>>]

(* RestrictedShellTool.authorize: rejected if bound to another state, else   *)
(* judged in the state it sees.                                              *)
Verdict(c) ==
    IF InSession(c) /\ bound[BindingKey(c)] \notin {None, Seen(c)} THEN "reject"
    ELSE Judged(c)

Registered(c) == definitions[Of[c].tool] # None
SettingOf(c) == settings[<<Of[c].owner, Of[c].tool>>]

(* A slip: an approval the model wrote into its call is kept.                *)
AppliedAsReturned(c) == [status |-> status[c], claimed |-> Of[c].claims]

(* AgentExecution._apply_tool_approval: only the run's decision counts.      *)
Applied(c) == [status |-> status[c], claimed |-> FALSE]

(* ToolManager.authorize for the call, now; it raises for an unknown tool.   *)
Decision(c) ==
    IF Registered(c) THEN Authorize(definitions[Of[c].tool], SettingOf(c), Verdict(c), Applied(c))
    ELSE "unknown"

(* What authorize leaves behind: the shell tool's check is reached unless    *)
(* the owner denies the tool, and binds a call it does not yet know.         *)
BoundByCheck(c) ==
    IF /\ Registered(c)
       /\ SettingOf(c) # "deny"
       /\ InSession(c)
       /\ bound[BindingKey(c)] = None
    THEN [bound EXCEPT ![BindingKey(c)] = Seen(c)]
    ELSE bound

-----------------------------------------------------------------------------
To(c, p) == phase' = [phase EXCEPT ![c] = p]

(* A slip: a run pauses for every call that wants an approval.               *)
PausesAnyway(c) == Decision(c) = "approval" /\ Of[c].attended

(* AgentExecution._should_pause_for_approval.                                *)
Pauses(c) == Decision(c) = "approval" /\ Of[c].attended /\ status[c] = "none"

(* The first check of a call, by the loop that reaches it: of a call the     *)
(* model proposed, or of one whose run was paused and resumed with a         *)
(* decision. A check that fails because the tool is gone lets the call       *)
(* through, to fail when it is executed (_policy_rejection).                 *)
Check(c) ==
    /\ phase[c] \in {"proposed", "decided"}
    /\ bound' = BoundByCheck(c)
    /\ \/ /\ Decision(c) \in {"allowed", "unknown"}
          /\ To(c, "started")
          /\ UNCHANGED askedIn
       \/ /\ Pauses(c)
          /\ To(c, "paused")
          /\ askedIn' = [askedIn EXCEPT ![c] = IF InSession(c) THEN Seen(c) ELSE None]
       \/ /\ Decision(c) \in {"approval", "refused"} /\ ~Pauses(c)
          /\ To(c, "refused")
          /\ UNCHANGED askedIn
    /\ UNCHANGED <<definitions, settings, status, session, ranIn>>

(* A decision about a paused call resumes its run.                           *)
Decide(c, d) ==
    /\ phase[c] = "paused"
    /\ status' = [status EXCEPT ![c] = d]
    /\ To(c, "decided")
    /\ UNCHANGED <<definitions, settings, session, bound, askedIn, ranIn>>

(* A slip: what the loop checked is not checked again.                       *)
ExecuteUnchecked(c) ==
    /\ phase[c] = "started"
    /\ To(c, "waiting")
    /\ UNCHANGED <<definitions, settings, status, session, bound, askedIn, ranIn>>

(* ToolManager.execute: the call is authorized again, with the definition,   *)
(* the setting and the state of now, and its executor is called; a shell     *)
(* command then waits for its session's lock, a background process for the   *)
(* manager's, another tool for nothing.                                      *)
Execute(c) ==
    /\ phase[c] = "started"
    /\ bound' = BoundByCheck(c)
    /\ To(c, IF Decision(c) = "allowed" THEN "waiting" ELSE "refused")
    /\ UNCHANGED <<definitions, settings, status, session, askedIn, ranIn>>

-----------------------------------------------------------------------------
(* A command that holds its session's lock while it runs.                    *)
Locks(c) == InSession(c) /\ Of[c].kind # "background"

(* A slip: no lock is taken.                                                 *)
LockFreeAlways(c) == TRUE

(* ShellSessionTracker.lock.                                                 *)
LockFree(c) ==
    Locks(c) => \A d \in Call : phase[d] = "running" /\ Locks(d) => Of[d].session # Of[c].session

(* A slip: the state is compared before the lock is taken, not under it.     *)
UnchangedUnchecked(c) == TRUE

(* _check_state_version.                                                     *)
StateUnchanged(c) == InSession(c) => bound[BindingKey(c)] \in {None, Seen(c)}

(* Under the lock the state is read again, reset if the call asks for it,    *)
(* compared with the one the call is bound to, and the command judged once   *)
(* more; then it is running. The binding is used up, except that of a        *)
(* background process, which is judged first.                                *)
Start(c) ==
    /\ phase[c] = "waiting"
    /\ LockFree(c)
    /\ session' = IF Locks(c) /\ Of[c].reset THEN [session EXCEPT ![Of[c].session] = Fresh]
                  ELSE session
    /\ bound' = IF InSession(c) /\ ~(Of[c].kind = "background" /\ Judged(c) = "reject")
                THEN [bound EXCEPT ![BindingKey(c)] = None]
                ELSE bound
    /\ \/ /\ StateUnchanged(c) /\ Judged(c) # "reject"
          /\ To(c, "running")
          /\ ranIn' = [ranIn EXCEPT ![c] = Seen(c)]
       \/ /\ ~StateUnchanged(c) \/ Judged(c) = "reject"
          /\ To(c, "refused")
          /\ UNCHANGED ranIn
    /\ UNCHANGED <<definitions, settings, status, askedIn>>

(* A slip: a record that is unusable is stored as it is.                     *)
FinishRecordsAnything(c) ==
    /\ phase[c] = "running"
    /\ To(c, "done")
    /\ Locks(c) /\ session' = [session EXCEPT ![Of[c].session] = None]
    /\ UNCHANGED <<definitions, settings, status, bound, askedIn, ranIn>>

(* A running command ends. A script's final state is recorded, or, if what   *)
(* it recorded is unusable, the state it started in, which an array leaves   *)
(* too; nothing is recorded when the sandbox raises.                         *)
Finish(c) ==
    /\ phase[c] = "running"
    /\ To(c, "done")
    /\ \/ Locks(c) /\ session' = [session EXCEPT ![Of[c].session] = ranIn[c]]
       \/ /\ Locks(c) /\ Of[c].kind = "script"
          /\ \E after \in Shell : session' = [session EXCEPT ![Of[c].session] = after]
       \/ UNCHANGED session
    /\ UNCHANGED <<definitions, settings, status, bound, askedIn, ranIn>>

(* The run is cancelled: a command that waits or runs is given up and its    *)
(* lock released; nothing is recorded.                                       *)
Cancel(c) ==
    /\ phase[c] \notin Settled
    /\ To(c, "cancelled")
    /\ UNCHANGED <<definitions, settings, status, session, bound, askedIn, ranIn>>

(* ToolManager.set_tool_policy; mode None is "default".                      *)
SetToolPolicy(o, t, mode) ==
    /\ definitions[t] # None
    /\ settings' = [settings EXCEPT ![<<o, t>>] = mode]
    /\ UNCHANGED <<definitions, phase, status, session, bound, askedIn, ranIn>>

(* A tool source replaces or withdraws a tool.                               *)
Replace(t, d) ==
    /\ definitions' = [definitions EXCEPT ![t] = d]
    /\ UNCHANGED <<settings, phase, status, session, bound, askedIn, ranIn>>

(* The service restarts: settings, sessions and paused runs are stored, the  *)
(* bindings are not, so that a paused call is bound afresh when it resumes.  *)
Restart ==
    /\ bound' = [k \in Key |-> None]
    /\ askedIn' = [c \in Call |-> IF phase[c] \in Settled THEN askedIn[c] ELSE None]
    /\ phase' = [c \in Call |-> IF phase[c] \in Settled \cup {"paused"} THEN phase[c]
                                ELSE "cancelled"]
    /\ UNCHANGED <<definitions, settings, status, session, ranIn>>

Next ==
    \/ \E c \in Call : Check(c) \/ Execute(c) \/ Start(c) \/ Finish(c) \/ Cancel(c)
    \/ \E c \in Call, d \in ApprovalStatus : Decide(c, d)
    \/ \E o \in Owner, t \in Tool, mode \in Setting : SetToolPolicy(o, t, mode)
    \/ \E t \in Tool, d \in Offered \cup {None} : Replace(t, d)
    \/ Restart

Spec == Init /\ [][Next]_vars

(* The event loop runs what is ready, a command ends (its sandbox has a time *)
(* limit), and the lock is handed to the waiting in the order they came.     *)
Fairness ==
    \A c \in Call :
        WF_vars(Check(c)) /\ WF_vars(Execute(c)) /\ SF_vars(Start(c)) /\ WF_vars(Finish(c))

LiveSpec == Spec /\ Fairness

-----------------------------------------------------------------------------
(* A call leaves for its executor only if the rules permit it with the       *)
(* setting, the definition, the state and the decision of that moment,       *)
(* whatever it was told before it paused and whatever the model wrote into   *)
(* it (docs/tool-permissions.md: the latest stored policy is checked for     *)
(* every execution, also of calls that were pending).                        *)
ExecutedIsPermitted ==
    [][\A c \in Call :
          phase[c] = "started" /\ phase'[c] = "waiting" =>
              /\ Registered(c)
              /\ Permitted(definitions[Of[c].tool], SettingOf(c), Judged(c), status[c])]_vars

(* A call that was denied, or whose approval expired, never gets to its      *)
(* executor, even if its tool is allowed, replaced or withdrawn and offered  *)
(* again in between (docs/tool-permissions.md).                              *)
DeniedNeverRuns ==
    \A c \in Call : status[c] \in {"denied", "expired"} =>
                        phase[c] \notin {"waiting", "running", "done"}

(* A shell command whose approval was asked for in one state of its session  *)
(* runs in no other, whatever other calls of the session did while the       *)
(* decision, and then the lock, was awaited (_authorized_states,             *)
(* _check_state_version).                                                    *)
RunsAsApproved ==
    \A c \in Call : askedIn[c] # None /\ ranIn[c] # None => ranIn[c] = askedIn[c]

(* While a command of a session runs, the session's state stays the one the  *)
(* command started in, so that no command's final state is overwritten by    *)
(* one that began before it (RestrictedShellTool.execute, under the lock).   *)
SessionsAreSerial ==
    \A c \in Call : phase[c] = "running" /\ Locks(c) => session[Of[c].session] = ranIn[c]

(* A call that waits for nobody's decision settles, or pauses for one: the   *)
(* lock of a session is never lost and no decided call pauses again.         *)
CallsSettle ==
    \A c \in Call :
        /\ phase[c] = "proposed" ~> phase[c] \in Settled \cup {"paused"}
        /\ phase[c] \in {"decided", "started", "waiting", "running"} ~> phase[c] \in Settled
==============================================================================
