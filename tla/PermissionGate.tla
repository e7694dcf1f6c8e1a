---------------------------- MODULE PermissionGate ----------------------------
(***************************************************************************)
(* pywork/permission and pywork/runtime/permission_gate.py: what the gate  *)
(* decides about one tool call, from the permission mode, the risk of the  *)
(* call and the rule for its kind of tool (file, bash or powershell rules).*)
(*                                                                         *)
(* An operation is a tool call as the gate sees it: the tool, what the     *)
(* rules say of its arguments, and the risk that goes with them.           *)
(***************************************************************************)
EXTENDS Naturals

Modes == {"default", "readonly", "plan", "accept_edits", "bypass"}

RiskOrder == [safe |-> 0, low |-> 1, medium |-> 2, high |-> 3, critical |-> 4]
Risks == {"safe", "low", "medium", "high", "critical"}

Strictness == [allow |-> 0, ask |-> 1, ask_elevated |-> 2, deny |-> 3]
Decisions == {"allow", "ask", "ask_elevated", "deny"}
Asking == {"ask", "ask_elevated"}

\* rule: "none" for a tool without rules, "raises" when the rules cannot be
\* evaluated because the argument they look at is missing.
Operation == [tool: STRING, rule: Decisions \cup {"none", "raises"}, risk: Risks]

AtMost(risk, bound) == RiskOrder[risk] <= RiskOrder[bound]

AutoAllowMaxRisk(mode) ==
    CASE mode = "accept_edits" -> "high"
      [] mode = "bypass" -> "critical"
      [] OTHER -> "low"

DeniesRisk(mode, risk) == mode \in {"readonly", "plan"} /\ ~AtMost(risk, "low")

\* The graph has a name of its own for bypass, which the table of the policy lacks:
\* what the policy does not know it takes for its default mode.
NameInGraph(mode) == IF mode = "bypass" THEN "bypass_permissions" ELSE mode

ResolveMode(name) == IF name \in Modes THEN name ELSE "default"

\* The mode under which the calls of a session in this mode are decided.
GateMode(mode) == ResolveMode(NameInGraph(mode))

\* PermissionPolicy.evaluate with the default configuration: no tool is named.
Policy(mode, risk) ==
    CASE mode = "bypass" -> "allow"
      [] mode # "bypass" /\ DeniesRisk(mode, risk) -> "deny"
      [] OTHER ->
            IF AtMost(risk, AutoAllowMaxRisk(mode)) THEN "allow"
            ELSE IF risk = "critical" THEN "ask_elevated" ELSE "ask"

Stronger(left, right) == IF Strictness[left] >= Strictness[right] THEN left ELSE right

\* A shell rule binds whatever the mode allows; a file rule only when it is
\* stricter than an ordinary ask.
HardDecision(op) ==
    IF op.tool \in {"bash", "powershell"} THEN op.rule # "allow"
                                          ELSE op.rule \in {"deny", "ask_elevated"}

\* combine_decisions: what the rule says and what the policy says of its risk.
Combine(mode, op) ==
    LET policy == Policy(mode, op.risk)
    IN CASE op.rule = "none" -> policy
         [] op.rule = "deny" -> "deny"
         [] op.rule \notin {"none", "deny"} /\ policy = "deny" -> "deny"
         [] op.rule \notin {"none", "deny"} /\ policy # "deny" ->
               IF "ask_elevated" \in {op.rule, policy} THEN "ask_elevated"
               ELSE IF HardDecision(op) /\ op.rule = "ask" THEN "ask"
               ELSE IF ~HardDecision(op) /\ policy = "allow" THEN "allow"
               ELSE Stronger(policy, op.rule)

\* apply_session_override: "always allow" for this very operation lifts a
\* question, never a denial.
Decide(mode, op, overrides) ==
    IF op \in overrides /\ Combine(mode, op) # "deny" THEN "allow" ELSE Combine(mode, op)
=============================================================================
