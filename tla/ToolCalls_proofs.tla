-------------------------- MODULE ToolCalls_proofs --------------------------
(* Proofs about authorization and ToolCalls.  ToolManager.authorize permits  *)
(* what the documented rules permit, for every tool, setting, preflight      *)
(* check and decision.  And for any calls, tools, owners, sessions, settings *)
(* and states: what is executed is permitted, what was denied never runs,    *)
(* the commands of a session are serial, and, if no two calls of a session   *)
(* share id and command, each runs in the state it was approved in.          *)
EXTENDS ToolCalls, TLAPS

-----------------------------------------------------------------------------
(* Authorization: operators of ToolAuthorization, which has no state.        *)

(* The owner's setting never changes what a tool may touch: the permissions  *)
(* of the effective definition are the registered ones                       *)
(* (ToolManager._effective_definition).                                      *)
LEMMA EffectiveType ==
    ASSUME NEW tool \in Definition, NEW setting \in Setting
    PROVE  /\ EffectiveDefinition(tool, setting) \in Definition
           /\ EffectiveDefinition(tool, setting).permissions = tool.permissions
  <1>1. CASE setting = "allow"
    BY <1>1 DEF EffectiveDefinition, Definition
  <1>2. CASE setting = "ask"
    BY <1>2 DEF EffectiveDefinition, Definition
  <1>3. CASE setting \notin {"allow", "ask"}
    BY <1>3 DEF EffectiveDefinition
  <1> QED BY <1>1, <1>2, <1>3

(* Whether the effective definition requires an approval                     *)
(* (ToolManager._effective_definition, BasicToolSafetyPolicy.authorize).     *)
LEMMA EffectiveApproval ==
    ASSUME NEW tool \in Definition, NEW setting \in Setting
    PROVE  RequiresApproval(EffectiveDefinition(tool, setting)) <=>
               setting = "ask" \/ (setting # "allow" /\ RequiresApproval(tool))
  <1>1. CASE setting = "allow"
    BY <1>1 DEF EffectiveDefinition, Definition, RequiresApproval
  <1>2. CASE setting = "ask"
    BY <1>2 DEF EffectiveDefinition, Definition, RequiresApproval
  <1>3. CASE setting \notin {"allow", "ask"}
    BY <1>3 DEF EffectiveDefinition
  <1> QED BY <1>1, <1>2, <1>3

(* When the safety policy lets a call of which only the decision is read     *)
(* pass (BasicToolSafetyPolicy.authorize).                                   *)
LEMMA SafetyAllows ==
    ASSUME NEW tool \in Definition, NEW decision \in ApprovalStatus \cup {"none"}
    PROVE  SafetyDecision(tool, [status |-> decision, claimed |-> FALSE]) = "allowed" <=>
               /\ tool.permissions \cap Blocked = {}
               /\ decision \notin {"denied", "expired"}
               /\ RequiresApproval(tool) => decision = "approved"
  BY DEF SafetyDecision

(* A call is allowed exactly when the documented rules permit it: the order  *)
(* in which ToolManager.authorize looks at the setting, the preflight check, *)
(* the permissions and the decision does not matter.                         *)
THEOREM AuthorizeIsPermitted ==
    ASSUME NEW tool \in Definition, NEW setting \in Setting,
           NEW preflight \in Preflight, NEW decision \in ApprovalStatus \cup {"none"}
    PROVE  Authorize(tool, setting, preflight, [status |-> decision, claimed |-> FALSE]) = "allowed"
               <=> Permitted(tool, setting, preflight, decision)
  <1> DEFINE approval == [status |-> decision, claimed |-> FALSE]
             eff == EffectiveDefinition(tool, setting)
             asking == EffectiveDefinition(eff, "ask")
  <1>1. eff \in Definition /\ eff.permissions = tool.permissions
    BY EffectiveType
  <1>2. "ask" \in Setting
    BY DEF Setting, AccessMode
  <1>3. asking \in Definition /\ asking.permissions = tool.permissions
    BY <1>1, <1>2, EffectiveType
  <1>4. RequiresApproval(asking)
    BY <1>1, <1>2, EffectiveApproval
  <1>5. RequiresApproval(eff) <=> setting = "ask" \/ (setting # "allow" /\ RequiresApproval(tool))
    BY EffectiveApproval
  <1>6. SafetyDecision(eff, approval) = "allowed" <=>
           /\ tool.permissions \cap Blocked = {}
           /\ decision \notin {"denied", "expired"}
           /\ RequiresApproval(eff) => decision = "approved"
    BY <1>1, SafetyAllows
  <1>7. SafetyDecision(asking, approval) = "allowed" <=>
           /\ tool.permissions \cap Blocked = {}
           /\ decision \notin {"denied", "expired"}
           /\ decision = "approved"
    BY <1>3, <1>4, SafetyAllows
  <1>8. CASE setting = "deny"
    BY <1>8 DEF Authorize, Permitted
  <1>9. CASE setting # "deny" /\ preflight = "reject"
    BY <1>9 DEF Authorize, Permitted
  <1>10. CASE setting # "deny" /\ preflight = "ask"
    <2>1. Authorize(tool, setting, preflight, approval) = SafetyDecision(asking, approval)
      BY <1>10 DEF Authorize
    <2> QED BY <2>1, <1>7, <1>10 DEF Permitted
  <1>11. CASE setting # "deny" /\ preflight = "pass"
    <2>1. Authorize(tool, setting, preflight, approval) = SafetyDecision(eff, approval)
      BY <1>11 DEF Authorize
    <2>2. setting \in {"allow", "ask", "default"}
      BY <1>11 DEF Setting, AccessMode
    <2> QED BY <2>1, <2>2, <1>5, <1>6, <1>11 DEF Permitted
  <1> QED BY <1>8, <1>9, <1>10, <1>11 DEF Preflight

(* What the management page and the catalogue show is what a call that has   *)
(* no decision yet and passes its preflight check would be told              *)
(* (ToolManager._policy_summary, authorize).                                 *)
THEOREM SummaryAgrees ==
    ASSUME NEW tool \in Definition, NEW setting \in Setting
    PROVE  SummaryMode(tool, setting) = DecisionMode(Authorize(tool, setting, "pass", NoApproval))
  BY DEF SummaryMode, DecisionMode, Authorize

(* The catalogue offered to the model is honest: a tool it leaves out is     *)
(* refused whatever its preflight check says and whatever is decided, one it *)
(* describes as asking never runs without a decision, and one it describes   *)
(* as not asking runs at once unless its preflight check objects             *)
(* (ToolManager.list_tools, authorize).                                      *)
THEOREM CatalogueIsHonest ==
    ASSUME NEW tool \in Definition, NEW setting \in Setting,
           NEW preflight \in Preflight, NEW a \in Approval
    PROVE  /\ ~Listed(tool, setting) => Authorize(tool, setting, preflight, a) = "refused"
           /\ ListedAsAsking(tool, setting) =>
                  Authorize(tool, setting, preflight, NoApproval) # "allowed"
           /\ Listed(tool, setting) /\ ~ListedAsAsking(tool, setting) =>
                  Authorize(tool, setting, "pass", NoApproval) = "allowed"
  <1> DEFINE eff == EffectiveDefinition(tool, setting)
             asking == EffectiveDefinition(eff, "ask")
  <1>1. eff \in Definition /\ eff.permissions = tool.permissions
    BY EffectiveType
  <1>2. /\ asking \in Definition
        /\ asking.permissions = tool.permissions
        /\ RequiresApproval(asking)
    BY <1>1, EffectiveType, EffectiveApproval DEF Setting, AccessMode
  <1>3. SummaryMode(tool, setting) = "deny" <=>
            setting = "deny" \/ tool.permissions \cap Blocked # {}
    BY <1>1 DEF SummaryMode, DecisionMode, SafetyDecision
  <1>4. SafetyDecision(asking, NoApproval) # "allowed"
    BY <1>2 DEF SafetyDecision, NoApproval
  <1>5. ASSUME ~Listed(tool, setting)
        PROVE  Authorize(tool, setting, preflight, a) = "refused"
    <2>1. setting = "deny" \/ tool.permissions \cap Blocked # {}
      BY <1>5, <1>3 DEF Listed
    <2>2. tool.permissions \cap Blocked # {} =>
              SafetyDecision(eff, a) = "refused" /\ SafetyDecision(asking, a) = "refused"
      BY <1>1, <1>2 DEF SafetyDecision
    <2> QED BY <2>1, <2>2 DEF Authorize
  <1>6. ASSUME ListedAsAsking(tool, setting)
        PROVE  Authorize(tool, setting, preflight, NoApproval) # "allowed"
    <2>1. SafetyDecision(eff, NoApproval) # "allowed"
      BY <1>6 DEF ListedAsAsking, SummaryMode, DecisionMode
    <2> QED BY <2>1, <1>4 DEF Authorize
  <1>7. ASSUME Listed(tool, setting), ~ListedAsAsking(tool, setting)
        PROVE  Authorize(tool, setting, "pass", NoApproval) = "allowed"
    BY <1>7 DEF Listed, ListedAsAsking, SummaryMode, DecisionMode, Authorize
  <1> QED BY <1>5, <1>6, <1>7

(* A call that is refused for its preflight check, its permissions or the    *)
(* owner's setting is refused whatever is decided about it: no approval, not *)
(* even one the call itself claims, makes up for them                        *)
(* (ToolManager.authorize).                                                  *)
THEOREM RefusalsIgnoreApproval ==
    ASSUME NEW tool \in Definition, NEW setting \in Setting, NEW preflight \in Preflight,
           NEW a \in Approval, NEW b \in Approval,
           Authorize(tool, setting, preflight, a) = "refused"
    PROVE  Authorize(tool, setting, preflight, b) = "refused"
  <1> DEFINE eff == EffectiveDefinition(tool, setting)
             asking == EffectiveDefinition(eff, "ask")
  <1>1. ASSUME NEW t \in Definition, SafetyDecision(t, a) = "refused"
        PROVE  SafetyDecision(t, b) = "refused"
    BY <1>1 DEF SafetyDecision
  <1>2. eff \in Definition
    BY EffectiveType
  <1>3. asking \in Definition
    BY <1>2, EffectiveType DEF Setting, AccessMode
  <1>4. CASE setting = "deny" \/ preflight = "reject"
    BY <1>4 DEF Authorize
  <1>5. CASE setting # "deny" /\ preflight = "ask"
    <2>1. /\ Authorize(tool, setting, preflight, a) = SafetyDecision(asking, a)
          /\ Authorize(tool, setting, preflight, b) = SafetyDecision(asking, b)
      BY <1>5 DEF Authorize
    <2> QED BY <2>1, <1>1, <1>3
  <1>6. CASE setting # "deny" /\ preflight = "pass"
    <2>1. /\ Authorize(tool, setting, preflight, a) = SafetyDecision(eff, a)
          /\ Authorize(tool, setting, preflight, b) = SafetyDecision(eff, b)
      BY <1>6 DEF Authorize
    <2> QED BY <2>1, <1>1, <1>2
  <1> QED BY <1>4, <1>5, <1>6 DEF Preflight

-----------------------------------------------------------------------------
(* Calls.                                                                    *)

(* What the constants say of one call.                                       *)
LEMMA CallType ==
    ASSUME NEW c \in Call
    PROVE  /\ Of[c].tool \in Tool
           /\ Of[c].owner \in Owner
           /\ Of[c].command \in Command
           /\ Of[c].id \in Id
           /\ InSession(c) => Of[c].session \in Session /\ BindingKey(c) \in Key
  BY CallFacts DEF InSession, BindingKey, Key

(* The state a command sees is a state, and the check of it an answer of the *)
(* preflight policy (RestrictedShellTool.authorize).                         *)
LEMMA VerdictType ==
    ASSUME TypeOK, NEW c \in Call
    PROVE  /\ Seen(c) \in Shell
           /\ Seen(c) # None
           /\ Verdict(c) \in Preflight
           /\ SettingOf(c) \in Setting
  <1>1. Seen(c) \in Shell
    BY CallFacts, CallType DEF TypeOK, Seen
  <1>2. Judged(c) \in Preflight
    BY <1>1, CallFacts, CallType DEF Judged
  <1>3. Verdict(c) \in Preflight
    BY <1>2 DEF Verdict, Preflight
  <1>4. SettingOf(c) \in Setting
    BY CallType DEF TypeOK, SettingOf
  <1> QED BY <1>1, <1>3, <1>4, CallFacts

(* An allowed call is permitted by the rules, with the verdict its command   *)
(* gets in the present state (ToolManager.authorize).                        *)
LEMMA AllowedIsPermitted ==
    ASSUME TypeOK, NEW c \in Call, Decision(c) = "allowed"
    PROVE  /\ Registered(c)
           /\ Permitted(definitions[Of[c].tool], SettingOf(c), Judged(c), status[c])
  <1>1. Registered(c)
    BY DEF Decision
  <1>2. definitions[Of[c].tool] \in Definition
    BY <1>1, CallType DEF TypeOK, Registered
  <1>3. status[c] \in ApprovalStatus \cup {"none"}
    BY DEF TypeOK
  <1>4. Authorize(definitions[Of[c].tool], SettingOf(c), Verdict(c),
                  [status |-> status[c], claimed |-> FALSE]) = "allowed"
    BY <1>1 DEF Decision, Applied
  <1>5. Permitted(definitions[Of[c].tool], SettingOf(c), Verdict(c), status[c])
    BY <1>2, <1>3, <1>4, VerdictType, AuthorizeIsPermitted
  <1>6. Verdict(c) # "reject"
    BY <1>5 DEF Permitted
  <1>7. Verdict(c) = Judged(c)
    BY <1>6 DEF Verdict
  <1> QED BY <1>1, <1>5, <1>7

(* A call that wants an approval is bound to the state it was judged in      *)
(* (RestrictedShellTool.authorize, _authorized_states).                      *)
LEMMA AskedIsBound ==
    ASSUME TypeOK, NEW c \in Call, Decision(c) = "approval", InSession(c)
    PROVE  BoundByCheck(c)[BindingKey(c)] = Seen(c)
  <1>1. Registered(c)
    BY DEF Decision
  <1>2. Authorize(definitions[Of[c].tool], SettingOf(c), Verdict(c), Applied(c)) = "approval"
    BY <1>1 DEF Decision
  <1>3. SettingOf(c) # "deny" /\ Verdict(c) # "reject"
    BY <1>2 DEF Authorize
  <1>4. bound[BindingKey(c)] \in {None, Seen(c)}
    BY <1>3 DEF Verdict
  <1>5. BindingKey(c) \in Key /\ bound \in [Key -> Shell \cup {None}]
    BY CallType DEF TypeOK
  <1> QED BY <1>1, <1>3, <1>4, <1>5 DEF BoundByCheck

(* Checking a call binds no other key, and a bound key stays bound to what   *)
(* it is (RestrictedShellTool.authorize).                                    *)
LEMMA CheckBinds ==
    ASSUME TypeOK, NEW c \in Call
    PROVE  /\ BoundByCheck(c) \in [Key -> Shell \cup {None}]
           /\ \A k \in Key : k # BindingKey(c) => BoundByCheck(c)[k] = bound[k]
           /\ \A k \in Key : bound[k] # None => BoundByCheck(c)[k] = bound[k]
           /\ ~InSession(c) => BoundByCheck(c) = bound
  <1>1. bound \in [Key -> Shell \cup {None}]
    BY DEF TypeOK
  <1>2. Seen(c) \in Shell
    BY VerdictType
  <1> QED BY <1>1, <1>2 DEF BoundByCheck

-----------------------------------------------------------------------------
(* A command has a state it was started in from then on.                     *)
Ran ==
    \A c \in Call :
        /\ phase[c] = "running" => ranIn[c] # None
        /\ ranIn[c] # None => phase[c] \in {"running"} \cup Settled

(* One command of a session runs at a time.                                  *)
Exclusive ==
    \A c, d \in Call :
        /\ phase[c] = "running" /\ Locks(c)
        /\ phase[d] = "running" /\ Locks(d)
        /\ Of[c].session = Of[d].session
        => c = d

(* The inductive invariant of the module.                                    *)
CallsInv ==
    /\ TypeOK
    /\ Ran
    /\ Exclusive
    /\ SessionsAreSerial
    /\ DeniedNeverRuns

(* Every variable keeps its type under every step.                           *)
LEMMA TypeStep == ASSUME TypeOK, Ran, [Next]_vars PROVE TypeOK'
  <1>1. ASSUME NEW c \in Call, Check(c) PROVE TypeOK'
    <2>1. bound' \in [Key -> Shell \cup {None}]
      BY <1>1, CheckBinds DEF Check
    <2>2. phase' \in [Call -> Phases]
      BY <1>1 DEF Check, To, TypeOK, Phases, Settled
    <2>3. askedIn' \in [Call -> Shell \cup {None}]
      BY <1>1, VerdictType DEF Check, TypeOK
    <2> QED BY <1>1, <2>1, <2>2, <2>3 DEF Check, TypeOK
  <1>2. ASSUME NEW c \in Call, Execute(c) PROVE TypeOK'
    <2>1. bound' \in [Key -> Shell \cup {None}]
      BY <1>2, CheckBinds DEF Execute
    <2>2. phase' \in [Call -> Phases]
      BY <1>2 DEF Execute, To, TypeOK, Phases, Settled
    <2> QED BY <1>2, <2>1, <2>2 DEF Execute, TypeOK
  <1>3. ASSUME NEW c \in Call, Start(c) PROVE TypeOK'
    <2>1. session' \in [Session -> Shell]
      BY <1>3, CallFacts DEF Start, TypeOK
    <2>2. bound' \in [Key -> Shell \cup {None}]
      BY <1>3 DEF Start, TypeOK
    <2>3. phase' \in [Call -> Phases]
      BY <1>3 DEF Start, To, TypeOK, Phases, Settled
    <2>4. ranIn' \in [Call -> Shell \cup {None}]
      BY <1>3, VerdictType DEF Start, TypeOK
    <2> QED BY <1>3, <2>1, <2>2, <2>3, <2>4 DEF Start, TypeOK
  <1>4. ASSUME NEW c \in Call, Finish(c) PROVE TypeOK'
    <2>1. ranIn[c] \in Shell
      BY <1>4 DEF Finish, TypeOK, Ran
    <2>2. session' \in [Session -> Shell]
      BY <1>4, <2>1 DEF Finish, TypeOK
    <2>3. phase' \in [Call -> Phases]
      BY <1>4 DEF Finish, To, TypeOK, Phases, Settled
    <2> QED BY <1>4, <2>2, <2>3 DEF Finish, TypeOK
  <1>5. ASSUME NEW c \in Call, Cancel(c) PROVE TypeOK'
    BY <1>5 DEF Cancel, To, TypeOK, Phases, Settled
  <1>6. ASSUME NEW c \in Call, NEW d \in ApprovalStatus, Decide(c, d) PROVE TypeOK'
    BY <1>6 DEF Decide, To, TypeOK, Phases, Settled
  <1>7. ASSUME NEW o \in Owner, NEW t \in Tool, NEW mode \in Setting, SetToolPolicy(o, t, mode)
        PROVE  TypeOK'
    BY <1>7 DEF SetToolPolicy, TypeOK
  <1>8. ASSUME NEW t \in Tool, NEW d \in Offered \cup {None}, Replace(t, d) PROVE TypeOK'
    BY <1>8, CallFacts DEF Replace, TypeOK
  <1>9. CASE Restart
    <2>1. bound' \in [Key -> Shell \cup {None}]
      BY <1>9 DEF Restart
    <2>2. askedIn' \in [Call -> Shell \cup {None}]
      BY <1>9 DEF Restart, TypeOK
    <2>3. phase' \in [Call -> Phases]
      BY <1>9 DEF Restart, TypeOK, Phases, Settled
    <2> QED BY <1>9, <2>1, <2>2, <2>3 DEF Restart, TypeOK
  <1>10. CASE UNCHANGED vars
    BY <1>10 DEF vars, TypeOK
  <1> QED BY <1>1, <1>2, <1>3, <1>4, <1>5, <1>6, <1>7, <1>8, <1>9, <1>10 DEF Next

(* Which steps make a call run, and what they leave alone: a call runs after *)
(* a step if it ran before it and was neither finished, cancelled nor lost,  *)
(* or if the step started it.                                                *)
LEMMA RunningStep ==
    ASSUME TypeOK, [Next]_vars, NEW c \in Call, phase'[c] = "running"
    PROVE  \/ phase[c] = "running" /\ ranIn'[c] = ranIn[c]
           \/ Start(c) /\ ranIn'[c] = Seen(c)
  <1>1. ASSUME NEW d \in Call, Check(d) PROVE phase[c] = "running" /\ ranIn'[c] = ranIn[c]
    BY <1>1 DEF Check, To, TypeOK
  <1>2. ASSUME NEW d \in Call, Execute(d) PROVE phase[c] = "running" /\ ranIn'[c] = ranIn[c]
    BY <1>2 DEF Execute, To, TypeOK
  <1>3. ASSUME NEW d \in Call, Start(d), d # c PROVE phase[c] = "running" /\ ranIn'[c] = ranIn[c]
    BY <1>3 DEF Start, To, TypeOK
  <1>4. ASSUME Start(c) PROVE ranIn'[c] = Seen(c)
    BY <1>4 DEF Start, To, TypeOK
  <1>5. ASSUME NEW d \in Call, Finish(d) PROVE phase[c] = "running" /\ ranIn'[c] = ranIn[c]
    BY <1>5 DEF Finish, To, TypeOK
  <1>6. ASSUME NEW d \in Call, Cancel(d) PROVE phase[c] = "running" /\ ranIn'[c] = ranIn[c]
    BY <1>6 DEF Cancel, To, TypeOK
  <1>7. ASSUME NEW d \in Call, NEW e \in ApprovalStatus, Decide(d, e)
        PROVE  phase[c] = "running" /\ ranIn'[c] = ranIn[c]
    BY <1>7 DEF Decide, To, TypeOK
  <1>8. CASE Restart
    BY <1>8 DEF Restart, TypeOK, Settled
  <1>9. ASSUME NEW o \in Owner, NEW t \in Tool, NEW mode \in Setting, SetToolPolicy(o, t, mode)
        PROVE  phase[c] = "running" /\ ranIn'[c] = ranIn[c]
    BY <1>9 DEF SetToolPolicy
  <1>10. ASSUME NEW t \in Tool, NEW d \in Offered \cup {None}, Replace(t, d)
         PROVE  phase[c] = "running" /\ ranIn'[c] = ranIn[c]
    BY <1>10 DEF Replace
  <1>11. CASE UNCHANGED vars
    BY <1>11 DEF vars
  <1> QED BY <1>1, <1>2, <1>3, <1>4, <1>5, <1>6, <1>7, <1>8, <1>9, <1>10, <1>11 DEF Next

(* A call that is with its executor after a step was there before it, or the *)
(* step executed it with a decision that allows it.                          *)
LEMMA ExecutorStep ==
    ASSUME TypeOK, [Next]_vars, NEW c \in Call, phase'[c] \in {"waiting", "running", "done"}
    PROVE  \/ phase[c] \in {"waiting", "running", "done"} /\ status'[c] = status[c]
           \/ /\ phase[c] = "started"
              /\ Decision(c) = "allowed"
              /\ status' = status
  <1> DEFINE Same == phase[c] \in {"waiting", "running", "done"} /\ status'[c] = status[c]
  <1>1. ASSUME NEW d \in Call, Check(d) PROVE Same
    BY <1>1 DEF Check, To, TypeOK
  <1>2. ASSUME NEW d \in Call, Execute(d), d # c PROVE Same
    BY <1>2 DEF Execute, To, TypeOK
  <1>3. ASSUME Execute(c)
        PROVE  phase[c] = "started" /\ Decision(c) = "allowed" /\ status' = status
    BY <1>3 DEF Execute, To, TypeOK
  <1>4. ASSUME NEW d \in Call, Start(d) PROVE Same
    BY <1>4 DEF Start, To, TypeOK
  <1>5. ASSUME NEW d \in Call, Finish(d) PROVE Same
    BY <1>5 DEF Finish, To, TypeOK
  <1>6. ASSUME NEW d \in Call, Cancel(d) PROVE Same
    BY <1>6 DEF Cancel, To, TypeOK
  <1>7. ASSUME NEW d \in Call, NEW e \in ApprovalStatus, Decide(d, e) PROVE Same
    BY <1>7 DEF Decide, To, TypeOK
  <1>8. CASE Restart
    BY <1>8 DEF Restart, TypeOK, Settled
  <1>9. ASSUME NEW o \in Owner, NEW t \in Tool, NEW mode \in Setting, SetToolPolicy(o, t, mode)
        PROVE  Same
    BY <1>9 DEF SetToolPolicy
  <1>10. ASSUME NEW t \in Tool, NEW d \in Offered \cup {None}, Replace(t, d) PROVE Same
    BY <1>10 DEF Replace
  <1>11. CASE UNCHANGED vars
    BY <1>11 DEF vars
  <1> QED BY <1>1, <1>2, <1>3, <1>4, <1>5, <1>6, <1>7, <1>8, <1>9, <1>10, <1>11 DEF Next

(* The recorded state of a session changes only when a command of it starts  *)
(* from scratch, with the lock free, or when the one that runs ends.         *)
LEMMA SessionStep ==
    ASSUME TypeOK, [Next]_vars, NEW s \in Session, session'[s] # session[s]
    PROVE  \E d \in Call :
              /\ Locks(d) /\ Of[d].session = s
              /\ \/ Start(d) /\ Seen(d) = Fresh /\ session'[s] = Fresh
                 \/ phase[d] = "running" /\ phase' = [phase EXCEPT ![d] = "done"]
  <1>1. ASSUME NEW d \in Call, Start(d)
        PROVE  Locks(d) /\ Of[d].session = s /\ Seen(d) = Fresh /\ session'[s] = Fresh
    <2>1. Locks(d) /\ Of[d].reset
      BY <1>1 DEF Start
    <2>2. session' = [session EXCEPT ![Of[d].session] = Fresh]
      BY <1>1, <2>1 DEF Start
    <2>3. Of[d].session = s /\ session'[s] = Fresh
      BY <2>2 DEF TypeOK
    <2> QED BY <2>1, <2>3 DEF Seen
  <1>2. ASSUME NEW d \in Call, Finish(d)
        PROVE  /\ Locks(d) /\ Of[d].session = s
               /\ phase[d] = "running" /\ phase' = [phase EXCEPT ![d] = "done"]
    <2>1. Locks(d) /\ \E after : session' = [session EXCEPT ![Of[d].session] = after]
      BY <1>2 DEF Finish
    <2>2. Of[d].session = s
      BY <2>1 DEF TypeOK
    <2> QED BY <1>2, <2>1, <2>2 DEF Finish, To
  <1>3. ASSUME NEW d \in Call, Check(d) \/ Execute(d) \/ Cancel(d) PROVE FALSE
    BY <1>3 DEF Check, Execute, Cancel
  <1>4. ASSUME NEW d \in Call, NEW e \in ApprovalStatus, Decide(d, e) PROVE FALSE
    BY <1>4 DEF Decide
  <1>5. ASSUME NEW o \in Owner, NEW t \in Tool, NEW mode \in Setting, SetToolPolicy(o, t, mode)
        PROVE  FALSE
    BY <1>5 DEF SetToolPolicy
  <1>6. ASSUME NEW t \in Tool, NEW d \in Offered \cup {None}, Replace(t, d) PROVE FALSE
    BY <1>6 DEF Replace
  <1>7. ~Restart /\ ~UNCHANGED vars
    BY DEF Restart, vars
  <1> QED BY <1>1, <1>2, <1>3, <1>4, <1>5, <1>6, <1>7 DEF Next

-----------------------------------------------------------------------------
(* The parts of the invariant, step by step.                                 *)
LEMMA RanStep == ASSUME TypeOK, Ran, [Next]_vars PROVE Ran'
  <1> SUFFICES ASSUME NEW c \in Call
               PROVE  /\ phase'[c] = "running" => ranIn'[c] # None
                      /\ ranIn'[c] # None => phase'[c] \in {"running"} \cup Settled
    BY DEF Ran
  <1>1. phase'[c] = "running" => ranIn'[c] # None
    BY RunningStep, VerdictType DEF Ran
  <1>2. ASSUME NEW d \in Call, Check(d) \/ Execute(d) \/ Finish(d) \/ Cancel(d),
               ranIn'[c] # None
        PROVE  phase'[c] \in {"running"} \cup Settled
    BY <1>2 DEF Check, Execute, Finish, Cancel, To, TypeOK, Ran, Settled
  <1>3. ASSUME NEW d \in Call, Start(d), ranIn'[c] # None
        PROVE  phase'[c] \in {"running"} \cup Settled
    BY <1>3 DEF Start, To, TypeOK, Ran, Settled
  <1>4. ASSUME NEW d \in Call, NEW e \in ApprovalStatus, Decide(d, e), ranIn'[c] # None
        PROVE  phase'[c] \in {"running"} \cup Settled
    BY <1>4 DEF Decide, To, TypeOK, Ran, Settled
  <1>5. ASSUME NEW o \in Owner, NEW t \in Tool, NEW mode \in Setting, SetToolPolicy(o, t, mode),
               ranIn'[c] # None
        PROVE  phase'[c] \in {"running"} \cup Settled
    BY <1>5 DEF SetToolPolicy, Ran
  <1>6. ASSUME NEW t \in Tool, NEW d \in Offered \cup {None}, Replace(t, d), ranIn'[c] # None
        PROVE  phase'[c] \in {"running"} \cup Settled
    BY <1>6 DEF Replace, Ran
  <1>7. ASSUME Restart, ranIn'[c] # None PROVE phase'[c] \in {"running"} \cup Settled
    BY <1>7 DEF Restart, Ran, Settled
  <1>8. ASSUME UNCHANGED vars, ranIn'[c] # None PROVE phase'[c] \in {"running"} \cup Settled
    BY <1>8 DEF vars, Ran
  <1> QED BY <1>1, <1>2, <1>3, <1>4, <1>5, <1>6, <1>7, <1>8 DEF Next

(* A command that locks its session starts only while no other one runs      *)
(* (ShellSessionTracker.lock).                                               *)
LEMMA ExclusiveStep == ASSUME TypeOK, Exclusive, [Next]_vars PROVE Exclusive'
  <1> SUFFICES ASSUME NEW c \in Call, NEW d \in Call, c # d,
                      phase'[c] = "running", Locks(c), phase'[d] = "running", Locks(d),
                      Of[c].session = Of[d].session
               PROVE  FALSE
    BY DEF Exclusive, Locks, InSession
  <1>1. ASSUME NEW e \in Call, NEW f \in Call, e # f, Start(e), phase'[f] = "running"
        PROVE  phase[f] = "running"
    BY <1>1 DEF Start, To, TypeOK
  <1>2. CASE phase[c] = "running" /\ phase[d] = "running"
    BY <1>2 DEF Exclusive
  <1>3. CASE phase[c] # "running"
    <2>1. Start(c)
      BY <1>3, RunningStep
    <2> QED BY <2>1, <1>1 DEF Start, LockFree
  <1>4. CASE phase[d] # "running"
    <2>1. Start(d)
      BY <1>4, RunningStep
    <2> QED BY <2>1, <1>1 DEF Start, LockFree
  <1> QED BY <1>2, <1>3, <1>4

(* Only the running command of a session, as it ends, and a command that     *)
(* starts from scratch change what is recorded (RestrictedShellTool._run).   *)
LEMMA SerialStep ==
    ASSUME TypeOK, Exclusive, SessionsAreSerial, [Next]_vars
    PROVE  SessionsAreSerial'
  <1> SUFFICES ASSUME NEW c \in Call, phase'[c] = "running", Locks(c)
               PROVE  session'[Of[c].session] = ranIn'[c]
    BY DEF SessionsAreSerial, Locks, InSession
  <1> DEFINE s == Of[c].session
  <1>1. s \in Session
    BY CallType DEF Locks
  <1>2. CASE phase[c] = "running" /\ ranIn'[c] = ranIn[c]
    <2>1. session[s] = ranIn[c]
      BY <1>2 DEF SessionsAreSerial
    <2>2. ASSUME session'[s] # session[s] PROVE FALSE
      <3>1. PICK d \in Call : /\ Locks(d) /\ Of[d].session = s
                              /\ \/ Start(d)
                                 \/ phase[d] = "running" /\ phase' = [phase EXCEPT ![d] = "done"]
        BY <1>1, <2>2, SessionStep
      <3>2. ~Start(d)
        BY <1>2, <3>1 DEF Start, LockFree
      <3>3. d = c
        BY <1>2, <3>1, <3>2 DEF Exclusive
      <3> QED BY <3>1, <3>2, <3>3 DEF TypeOK
    <2> QED BY <2>1, <2>2, <1>2
  <1>3. CASE Start(c) /\ ranIn'[c] = Seen(c)
    <2>1. CASE Of[c].reset
      BY <1>1, <1>3, <2>1 DEF Start, Seen, TypeOK
    <2>2. CASE ~Of[c].reset
      BY <1>3, <2>2 DEF Start, Seen, Locks
    <2> QED BY <2>1, <2>2
  <1> QED BY <1>2, <1>3, RunningStep

(* A step that hands a call to its executor finds it permitted, hence not    *)
(* denied (ToolManager.execute).                                             *)
LEMMA DeniedStep == ASSUME TypeOK, DeniedNeverRuns, [Next]_vars PROVE DeniedNeverRuns'
  <1> SUFFICES ASSUME NEW c \in Call, status'[c] \in {"denied", "expired"},
                      phase'[c] \in {"waiting", "running", "done"}
               PROVE  FALSE
    BY DEF DeniedNeverRuns
  <1>1. CASE phase[c] \in {"waiting", "running", "done"} /\ status'[c] = status[c]
    BY <1>1 DEF DeniedNeverRuns
  <1>2. CASE Decision(c) = "allowed" /\ status' = status
    BY <1>2, AllowedIsPermitted DEF Permitted
  <1> QED BY <1>1, <1>2, ExecutorStep

-----------------------------------------------------------------------------
(* The inductive invariant holds initially and is kept by every step.        *)
LEMMA InvInit == Init => CallsInv
  <1> SUFFICES ASSUME Init PROVE CallsInv
    OBVIOUS
  <1>1. TypeOK
    BY CallFacts DEF Init, TypeOK, Phases, Settled, Setting, AccessMode
  <1>2. Ran /\ Exclusive /\ SessionsAreSerial /\ DeniedNeverRuns
    BY DEF Init, Ran, Exclusive, SessionsAreSerial, DeniedNeverRuns
  <1> QED BY <1>1, <1>2 DEF CallsInv

(* The parts together are kept by every step.                                *)
LEMMA InvStep == CallsInv /\ [Next]_vars => CallsInv'
  BY TypeStep, RanStep, ExclusiveStep, SerialStep, DeniedStep DEF CallsInv

(* The inductive invariant holds throughout.                                 *)
LEMMA Invariance == Spec => []CallsInv
  BY InvInit, InvStep, PTL DEF Spec

(* The variables keep their types: every tool is registered with a           *)
(* definition or not at all, and every session has one recorded state.       *)
THEOREM CallsTypeCorrect == Spec => []TypeOK
  BY Invariance, PTL DEF CallsInv

(* A call whose approval was denied or has expired is never executed,        *)
(* whatever is done to settings and definitions meanwhile                    *)
(* (ToolManager.execute authorizes every call again).                        *)
THEOREM DeniedStaysDenied == Spec => []DeniedNeverRuns
  BY Invariance, PTL DEF CallsInv

(* The commands of a shell session are serial: no command's recorded state   *)
(* is lost to one that started before it ended (ShellSessionTracker.lock).   *)
THEOREM SerialSessions == Spec => []SessionsAreSerial
  BY Invariance, PTL DEF CallsInv

(* What goes to an executor is permitted by the documented rules, with the   *)
(* setting, the definition, the state and the decision of that moment        *)
(* (ToolManager.execute).                                                    *)
THEOREM OnlyPermittedCallsExecute == Spec => ExecutedIsPermitted
  <1> DEFINE Lawful ==
        \A c \in Call :
          phase[c] = "started" /\ phase'[c] = "waiting" =>
              /\ Registered(c)
              /\ Permitted(definitions[Of[c].tool], SettingOf(c), Judged(c), status[c])
  <1>1. ASSUME TypeOK, [Next]_vars PROVE Lawful
    <2> SUFFICES ASSUME NEW c \in Call, phase[c] = "started", phase'[c] = "waiting"
                 PROVE  /\ Registered(c)
                        /\ Permitted(definitions[Of[c].tool], SettingOf(c), Judged(c), status[c])
      OBVIOUS
    <2>1. Decision(c) = "allowed"
      BY <1>1, ExecutorStep
    <2> QED BY <1>1, <2>1, AllowedIsPermitted
  <1>2. TypeOK /\ [Next]_vars => [Lawful]_vars
    BY <1>1
  <1> QED BY <1>2, CallsTypeCorrect, PTL DEF Spec, ExecutedIsPermitted

-----------------------------------------------------------------------------
(* No two calls of a session carry the same id and the same command. Where   *)
(* it fails, calls share a binding, and the theorem below fails with it.     *)
UniqueCalls ==
    \A c, d \in Call : InSession(c) /\ InSession(d) /\ BindingKey(c) = BindingKey(d) => c = d

(* A call whose approval was asked for stays bound to that state until it is *)
(* executed, and it is asked about only once.                                *)
AskedStaysBound ==
    \A c \in Call :
        /\ phase[c] = "decided" => status[c] # "none"
        /\ askedIn[c] # None =>
               /\ InSession(c)
               /\ phase[c] # "proposed"
               /\ phase[c] \in {"paused", "decided", "started", "waiting"} =>
                      bound[BindingKey(c)] = askedIn[c]

AskedInv == CallsInv /\ AskedStaysBound /\ RunsAsApproved

(* Nothing is asked about at first.                                          *)
LEMMA AskedInit == Init => AskedInv
  <1> SUFFICES ASSUME Init PROVE AskedInv
    OBVIOUS
  <1>1. CallsInv
    BY InvInit
  <1>2. AskedStaysBound /\ RunsAsApproved
    BY DEF Init, AskedStaysBound, RunsAsApproved
  <1> QED BY <1>1, <1>2 DEF AskedInv

(* A call that was asked about stays bound until it starts: no other call    *)
(* has its key, and the check keeps a binding it finds                       *)
(* (RestrictedShellTool.authorize).                                          *)
LEMMA AskedStep ==
    ASSUME UniqueCalls, CallsInv, AskedStaysBound, [Next]_vars
    PROVE  AskedStaysBound'
  <1> DEFINE Kept(c) ==
        /\ phase'[c] = "decided" => status'[c] # "none"
        /\ askedIn'[c] # None =>
               /\ InSession(c)
               /\ phase'[c] # "proposed"
               /\ phase'[c] \in {"paused", "decided", "started", "waiting"} =>
                      bound'[BindingKey(c)] = askedIn'[c]
  <1> SUFFICES ASSUME NEW c \in Call PROVE Kept(c)
    BY DEF AskedStaysBound, InSession, BindingKey
  <1>t. TypeOK
    BY DEF CallsInv
  <1>a. /\ phase[c] = "decided" => status[c] # "none"
        /\ askedIn[c] # None =>
               /\ InSession(c)
               /\ BindingKey(c) \in Key
               /\ phase[c] # "proposed"
               /\ phase[c] \in {"paused", "decided", "started", "waiting"} =>
                      bound[BindingKey(c)] = askedIn[c]
    BY CallType DEF AskedStaysBound
  <1>1. ASSUME NEW d \in Call, Check(d), d # c PROVE Kept(c)
    <2>1. phase'[c] = phase[c] /\ status'[c] = status[c] /\ askedIn'[c] = askedIn[c]
      BY <1>1, <1>t DEF Check, To, TypeOK
    <2>2. ASSUME askedIn[c] # None, phase[c] \in {"paused", "decided", "started", "waiting"}
          PROVE  bound'[BindingKey(c)] = bound[BindingKey(c)]
      <3>1. bound[BindingKey(c)] # None
        BY <2>2, <1>a
      <3> QED BY <3>1, <2>2, <1>1, <1>a, <1>t, CheckBinds DEF Check
    <2> QED BY <2>1, <2>2, <1>a
  <1>2. ASSUME Check(c) PROVE Kept(c)
    <2>1. phase'[c] \notin {"decided", "proposed", "waiting"}
      BY <1>2, <1>t DEF Check, To, TypeOK
    <2>2. CASE Pauses(c) /\ askedIn' = [askedIn EXCEPT ![c] = IF InSession(c) THEN Seen(c) ELSE None]
      <3>1. askedIn'[c] = IF InSession(c) THEN Seen(c) ELSE None
        BY <2>2, <1>t DEF TypeOK
      <3>2. InSession(c) => bound'[BindingKey(c)] = Seen(c)
        BY <2>2, <1>2, <1>t, AskedIsBound DEF Pauses, Check
      <3> QED BY <2>1, <3>1, <3>2
    <2>3. CASE askedIn' = askedIn
      <3>1. ASSUME askedIn[c] # None PROVE bound'[BindingKey(c)] = askedIn[c]
        <4>1. phase[c] = "decided" /\ bound[BindingKey(c)] = askedIn[c]
          BY <3>1, <1>2, <1>a DEF Check
        <4> QED BY <4>1, <3>1, <1>2, <1>a, <1>t, CheckBinds DEF Check
      <3> QED BY <2>1, <2>3, <3>1, <1>a
    <2> QED BY <2>2, <2>3, <1>2 DEF Check
  <1>3. ASSUME NEW d \in Call, Execute(d) PROVE Kept(c)
    <2>1. /\ status'[c] = status[c] /\ askedIn'[c] = askedIn[c]
          /\ phase'[c] = phase[c] \/ (phase[c] = "started" /\ phase'[c] \in {"waiting", "refused"})
      BY <1>3, <1>t DEF Execute, To, TypeOK
    <2>2. ASSUME askedIn[c] # None, phase[c] \in {"paused", "decided", "started", "waiting"}
          PROVE  bound'[BindingKey(c)] = bound[BindingKey(c)]
      <3>1. bound[BindingKey(c)] # None
        BY <2>2, <1>a
      <3> QED BY <3>1, <2>2, <1>3, <1>a, <1>t, CheckBinds DEF Execute
    <2> QED BY <2>1, <2>2, <1>a
  <1>4. ASSUME NEW d \in Call, Start(d), d # c PROVE Kept(c)
    <2>1. phase'[c] = phase[c] /\ status'[c] = status[c] /\ askedIn'[c] = askedIn[c]
      BY <1>4, <1>t DEF Start, To, TypeOK
    <2>2. ASSUME InSession(c) PROVE bound'[BindingKey(c)] = bound[BindingKey(c)]
      <3>1. InSession(d) => BindingKey(d) # BindingKey(c)
        BY <1>4, <2>2 DEF UniqueCalls
      <3> QED BY <3>1, <2>2, <1>4, <1>t, CallType DEF Start, TypeOK
    <2> QED BY <2>1, <2>2, <1>a
  <1>5. ASSUME Start(c) PROVE Kept(c)
    <2>1. phase'[c] \in {"running", "refused"} /\ askedIn' = askedIn
      BY <1>5, <1>t DEF Start, To, TypeOK
    <2> QED BY <2>1, <1>a
  <1>6. ASSUME NEW d \in Call, Finish(d) \/ Cancel(d) PROVE Kept(c)
    <2>1. /\ phase'[c] = phase[c] \/ phase'[c] \in {"done", "cancelled"}
          /\ status' = status /\ askedIn' = askedIn /\ bound' = bound
      BY <1>6, <1>t DEF Finish, Cancel, To, TypeOK
    <2> QED BY <2>1, <1>a
  <1>7. ASSUME NEW d \in Call, NEW e \in ApprovalStatus, Decide(d, e) PROVE Kept(c)
    <2>1. /\ askedIn' = askedIn /\ bound' = bound
          /\ \/ phase'[c] = phase[c] /\ status'[c] = status[c]
             \/ phase[c] = "paused" /\ phase'[c] = "decided" /\ status'[c] = e
      BY <1>7, <1>t DEF Decide, To, TypeOK
    <2>2. e # "none"
      BY <1>7 DEF ApprovalStatus
    <2> QED BY <2>1, <2>2, <1>a
  <1>8. ASSUME NEW o \in Owner, NEW t \in Tool, NEW mode \in Setting, SetToolPolicy(o, t, mode)
        PROVE  Kept(c)
    BY <1>8, <1>a DEF SetToolPolicy
  <1>9. ASSUME NEW t \in Tool, NEW d \in Offered \cup {None}, Replace(t, d) PROVE Kept(c)
    BY <1>9, <1>a DEF Replace
  <1>10. CASE Restart
    <2>1. /\ phase'[c] \in Settled \cup {"paused"}
          /\ phase'[c] \in Settled \/ askedIn'[c] = None
          /\ askedIn'[c] # None => askedIn'[c] = askedIn[c]
      BY <1>10 DEF Restart, Settled
    <2> QED BY <2>1, <1>a DEF Settled
  <1>11. CASE UNCHANGED vars
    BY <1>11, <1>a DEF vars
  <1> QED BY <1>1, <1>2, <1>3, <1>4, <1>5, <1>6, <1>7, <1>8, <1>9, <1>10, <1>11 DEF Next

(* A call starts only in the state it is bound to (_check_state_version).    *)
LEMMA ApprovedStep ==
    ASSUME CallsInv, AskedStaysBound, RunsAsApproved, [Next]_vars
    PROVE  RunsAsApproved'
  <1> SUFFICES ASSUME NEW c \in Call, askedIn'[c] # None, ranIn'[c] # None
               PROVE  ranIn'[c] = askedIn'[c]
    BY DEF RunsAsApproved
  <1> DEFINE Old == askedIn'[c] = askedIn[c] /\ ranIn'[c] = ranIn[c]
  <1>t. TypeOK /\ Ran
    BY DEF CallsInv
  <1>1. ASSUME NEW d \in Call, Check(d) PROVE Old
    BY <1>1, <1>t DEF Check, TypeOK, Ran, Settled
  <1>2. ASSUME NEW d \in Call, Execute(d) \/ Finish(d) \/ Cancel(d) PROVE Old
    BY <1>2 DEF Execute, Finish, Cancel
  <1>3. ASSUME NEW d \in Call, Start(d), d # c PROVE Old
    BY <1>3, <1>t DEF Start, TypeOK
  <1>4. ASSUME Start(c) PROVE Old \/ ranIn'[c] = askedIn'[c]
    <2>1. CASE ranIn' = ranIn
      BY <2>1, <1>4 DEF Start
    <2>2. CASE StateUnchanged(c) /\ ranIn' = [ranIn EXCEPT ![c] = Seen(c)]
      <3>1. askedIn' = askedIn /\ phase[c] = "waiting"
        BY <1>4 DEF Start
      <3>2. InSession(c) /\ bound[BindingKey(c)] = askedIn[c] /\ askedIn[c] # None
        BY <3>1 DEF AskedStaysBound
      <3>3. Seen(c) = askedIn[c]
        BY <2>2, <3>2 DEF StateUnchanged
      <3> QED BY <2>2, <3>1, <3>3, <1>t DEF TypeOK
    <2> QED BY <2>1, <2>2, <1>4 DEF Start
  <1>5. ASSUME NEW d \in Call, NEW e \in ApprovalStatus, Decide(d, e) PROVE Old
    BY <1>5 DEF Decide
  <1>6. ASSUME NEW o \in Owner, NEW t \in Tool, NEW mode \in Setting, SetToolPolicy(o, t, mode)
        PROVE  Old
    BY <1>6 DEF SetToolPolicy
  <1>7. ASSUME NEW t \in Tool, NEW d \in Offered \cup {None}, Replace(t, d) PROVE Old
    BY <1>7 DEF Replace
  <1>8. ASSUME Restart PROVE Old
    BY <1>8 DEF Restart
  <1>9. ASSUME UNCHANGED vars PROVE Old
    BY <1>9 DEF vars
  <1>10. Old => ranIn'[c] = askedIn'[c]
    BY DEF RunsAsApproved
  <1> QED BY <1>1, <1>2, <1>3, <1>4, <1>5, <1>6, <1>7, <1>8, <1>9, <1>10 DEF Next

(* If no two calls of a session share id and command, a shell command runs   *)
(* in the state of its session in which its approval was asked for, or not   *)
(* at all (_authorized_states, _check_state_version).                        *)
THEOREM ApprovalsBindState == ASSUME UniqueCalls PROVE Spec => []RunsAsApproved
  <1>1. Init => AskedInv
    BY AskedInit
  <1>2. AskedInv /\ [Next]_vars => AskedInv'
    BY InvStep, AskedStep, ApprovedStep DEF AskedInv
  <1>3. AskedInv => RunsAsApproved
    BY DEF AskedInv
  <1> QED BY <1>1, <1>2, <1>3, PTL DEF Spec
==============================================================================
