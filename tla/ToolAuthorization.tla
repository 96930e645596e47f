-------------------------- MODULE ToolAuthorization --------------------------
(* What a tool call may do, as ToolManager and BasicToolSafetyPolicy decide  *)
(* it (core/domain/tool.py): the owner's setting for the tool, the tool's    *)
(* definition, the preflight check of the tool, the permissions the server   *)
(* blocks and the decision taken about this call are combined into one of    *)
(* three answers. The module has no state: ToolCalls uses its operators, and *)
(* ToolCalls_proofs proves them equal to the rules the documentation         *)
(* (docs/tool-permissions.md) gives, which Permitted states on its own.      *)

CONSTANTS
    Permission,   \* ToolPermission
    Blocked,      \* the policy's blocked_permissions
    Guarded       \* its approval_required_permissions

(* The two sets are given in terms of the permissions there are.             *)
ASSUME PermissionSets == Blocked \subseteq Permission /\ Guarded \subseteq Permission

AccessMode == {"allow", "ask", "deny"}
Setting == AccessMode \cup {"default"}
ApprovalStatus == {"requested", "approved", "denied", "expired"}

(* A ToolDefinition, as far as the decision reads it.                        *)
Definition == [permissions : SUBSET Permission, safe : BOOLEAN,
               requires_approval : BOOLEAN,
               approval_mode : {"auto", "required", "never"}]

(* What a ToolPreflightPolicy returns: nothing (or allowed), a decision that *)
(* requires approval, or one that does not.                                  *)
Preflight == {"pass", "ask", "reject"}

(* The approval fields of a ToolCall: the decision about it, if there is one *)
(* (of the same tool_call_id), and metadata["approved"].                     *)
Approval == [status : ApprovalStatus \cup {"none"}, claimed : BOOLEAN]

(* A ToolSafetyDecision: allowed, not allowed for want of an approval, or    *)
(* not allowed at all.                                                       *)
Answer == {"allowed", "approval", "refused"}

-----------------------------------------------------------------------------
EffectiveDefinition(tool, setting) ==
    IF setting \notin {"allow", "ask"} THEN tool
    ELSE [permissions |-> tool.permissions, safe |-> tool.safe,
          requires_approval |-> setting = "ask",
          approval_mode |-> IF setting = "allow" THEN "never" ELSE "required"]

RequiresApproval(tool) ==
    \/ tool.approval_mode = "required"
    \/ /\ tool.approval_mode = "auto"
       /\ \/ tool.requires_approval
          \/ ~tool.safe
          \/ tool.permissions \cap Guarded # {}

(* A slip: a refusal is read only where an approval is required.             *)
SafetyDecisionForgets(tool, approval) ==
    IF tool.permissions \cap Blocked # {} THEN "refused"
    ELSE IF RequiresApproval(tool) /\ ~(approval.status = "approved" \/ approval.claimed)
         THEN "approval"
         ELSE "allowed"

(* BasicToolSafetyPolicy.authorize, in its order.                            *)
SafetyDecision(tool, approval) ==
    LET approved == approval.status = "approved" \/ approval.claimed IN
    IF tool.permissions \cap Blocked # {} THEN "refused"
    ELSE IF \/ approval.status \in {"denied", "expired"}
            \/ RequiresApproval(tool) /\ ~approved
         THEN "approval"
         ELSE "allowed"

(* ToolManager.authorize of a registered tool.                               *)
Authorize(tool, setting, preflight, approval) ==
    LET effective == EffectiveDefinition(tool, setting) IN
    IF setting = "deny" \/ preflight = "reject" THEN "refused"
    ELSE IF preflight = "ask" THEN SafetyDecision(EffectiveDefinition(effective, "ask"), approval)
    ELSE SafetyDecision(effective, approval)

-----------------------------------------------------------------------------
NoApproval == [status |-> "none", claimed |-> FALSE]

(* ToolManager._decision_mode.                                               *)
DecisionMode(answer) ==
    IF answer = "allowed" THEN "allow" ELSE IF answer = "approval" THEN "ask" ELSE "deny"

(* ToolManager._policy_summary: what the management page and the catalogue   *)
(* show as the mode of a tool. It runs no preflight check.                   *)
SummaryMode(tool, setting) ==
    IF setting = "deny" THEN "deny"
    ELSE DecisionMode(SafetyDecision(EffectiveDefinition(tool, setting), NoApproval))

(* ToolManager.list_tools: whether the tool is in the catalogue, and whether *)
(* it is described there as asking for approval.                             *)
Listed(tool, setting) == SummaryMode(tool, setting) # "deny"
ListedAsAsking(tool, setting) == SummaryMode(tool, setting) = "ask"

-----------------------------------------------------------------------------
(* The rules as the documentation gives them, in no order: nothing that is   *)
(* denied, blocked, rejected by the preflight check or refused for this call *)
(* runs; the rest runs once this call is approved, or at once when neither   *)
(* the preflight check, nor the owner, nor (where the owner leaves it to the *)
(* registration) the definition asks.                                        *)
Permitted(tool, setting, preflight, status) ==
    /\ setting # "deny"
    /\ tool.permissions \cap Blocked = {}
    /\ preflight # "reject"
    /\ status \notin {"denied", "expired"}
    /\ \/ status = "approved"
       \/ /\ preflight = "pass"
          /\ \/ setting = "allow"
             \/ setting = "default" /\ ~RequiresApproval(tool)
==============================================================================
