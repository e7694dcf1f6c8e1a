------------------------- MODULE GraphAndSwarmProofs -------------------------
(***************************************************************************)
(* What the permission gate and the agent graph keep for any tool calls,   *)
(* inputs, glob results and bounds, and what a Swarm keeps for any runs,   *)
(* plans, teammates, limits, mail of others, stops, cancels and suspended  *)
(* handlers. AgentGraph and SwarmTeam share no state and no name.          *)
(***************************************************************************)
EXTENDS AgentGraph, SwarmTeam, FiniteSetTheorems, TLAPS

-----------------------------------------------------------------------------
(***************************************************************************)
(* The permission gate.                                                    *)
(***************************************************************************)
\* The policy and the gate come to one of the four decisions.
LEMMA PolicyDecides ==
    ASSUME NEW m \in Modes, NEW r \in Risks
    PROVE  Policy(m, r) \in Decisions
BY DEF Policy, Decisions

\* The mode the gate decides under is one of the policy.
LEMMA GateModeIsKnown == \A m \in Modes: GateMode(m) \in Modes
BY DEF GateMode, ResolveMode, NameInGraph, Modes

LEMMA CombineDecides ==
    ASSUME NEW m \in Modes, NEW op \in Operation, op.rule # "raises"
    PROVE  Combine(m, op) \in Decisions
<1>1. Policy(m, op.risk) \in Decisions
  BY PolicyDecides DEF Operation
<1>2. op.rule \in Decisions \cup {"none"}
  BY DEF Operation
<1> QED BY <1>1, <1>2 DEF Combine, Stronger, Decisions

\* combine_decisions, rules 2 to 5: in every mode, bypass included, the gate is
\* at least as strict as a rule that binds, and as a mode that denies; an
\* override of the session lifts no denial.
THEOREM RulesAndModesBind ==
    ASSUME NEW m \in Modes, NEW op \in Operation, NEW overrides_, op.rule # "raises"
    PROVE  /\ op.rule \in Decisions /\ HardDecision(op)
                => Strictness[Combine(m, op)] >= Strictness[op.rule]
           /\ op.rule = "deny" \/ Policy(m, op.risk) = "deny"
                => Decide(m, op, overrides_) = "deny"
<1>1. Policy(m, op.risk) \in Decisions
  BY PolicyDecides DEF Operation
<1>2. op.rule \in Decisions \cup {"none"}
  BY DEF Operation
<1>3. op.rule = "deny" \/ Policy(m, op.risk) = "deny" => Combine(m, op) = "deny"
  BY <1>1, <1>2 DEF Combine, Decisions
<1>4. ASSUME op.rule \in Decisions, HardDecision(op)
      PROVE  Strictness[Combine(m, op)] >= Strictness[op.rule]
  <2>1. CASE op.rule = "deny"
    BY <1>1, <2>1, <1>3 DEF Strictness
  <2>2. CASE op.rule = "ask_elevated"
    BY <1>1, <2>2 DEF Combine, Strictness, Decisions
  <2>3. CASE op.rule = "ask"
    BY <1>1, <1>4, <2>3 DEF Combine, Strictness, Decisions
  <2>4. CASE op.rule = "allow"
    BY <1>1, <2>4, CombineDecides DEF Strictness, Decisions
  <2> QED BY <1>4, <2>1, <2>2, <2>3, <2>4 DEF Decisions
<1> QED BY <1>3, <1>4 DEF Decide

-----------------------------------------------------------------------------
(***************************************************************************)
(* Type correctness.                                                       *)
(***************************************************************************)
\* What TypeOK needs of the counters: a round makes at most one LLM call.
TypeInv ==
    /\ TypeOK
    /\ pc = "call_llm" => iteration < rounds

LEMMA CallsAreOps ==
    /\ NoCall \notin Ops /\ Text \notin Ops /\ Empty \notin Ops
    /\ NoCall # Text /\ NoCall # Empty /\ Text # Empty
<1>1. NoCall # Text /\ NoCall # Empty /\ Text # Empty
  BY DEF NoCall, Text, Empty
<1> QED BY <1>1, GraphAssumption DEF GraphAssumption

LEMMA RoutedIsCall ==
    ASSUME SessionTypes, CallTypes
    PROVE  RoutedCall \in Ops \cup {NoCall}
<1>1. intent \in Intent
  <2>1. NoIntent \in Intent
    BY DEF Intent, NoIntent
  <2> QED BY <2>1, GraphAssumption DEF GraphAssumption, SessionTypes
<1>2. intent.route \in Ops \cup {NoCall} /\ intent.first \in Ops \cup {NoCall}
  BY <1>1 DEF Intent
<1>3. pending # <<>> => Head(pending) \in Ops
  BY DEF CallTypes
<1> QED BY <1>2, <1>3 DEF RoutedCall

LEMMA TypeInit == Init => TypeOK
<1> SUFFICES ASSUME Init PROVE TypeOK
  OBVIOUS
<1>1. RunTypes /\ Counters
  BY BoundsAssumption DEF BoundsAssumption, Init, RunTypes, Counters, Between
<1>2. SessionTypes
  BY DEF Init, SessionTypes
<1>3. CallTypes
  BY DEF Init, CallTypes
<1>4. FlagTypes
  BY DEF Init, FlagTypes
<1>5. CallAtHand
  BY DEF Init, CallAtHand
<1> QED BY <1>1, <1>2, <1>3, <1>4, <1>5 DEF TypeOK

LEMMA TypeNext == TypeOK /\ [Next]_vars => TypeOK'
<1> SUFFICES ASSUME TypeOK, [Next]_vars PROVE TypeOK'
  OBVIOUS
<1> USE DEF TypeOK
<1>1. ASSUME NEW i \in Intents, UserInput(i) PROVE TypeOK'
  <2>1. RunTypes'
    BY <1>1 DEF RunTypes, Nodes, Between, UserInput
  <2>2. Counters'
    BY <1>1 DEF Counters, Between, session, UserInput
  <2>3. SessionTypes'
    BY <1>1 DEF SessionTypes, session, UserInput
  <2>4. CallTypes'
    BY <1>1 DEF CallTypes, session, UserInput
  <2>5. FlagTypes'
    BY <1>1 DEF FlagTypes, UserInput
  <2>6. CallAtHand'
    BY <1>1 DEF CallAtHand, UserInput
  <2> QED BY <2>1, <2>2, <2>3, <2>4, <2>5, <2>6
<1>2. CASE CallLlm
  <2>1. RunTypes'
    BY <1>2 DEF RunTypes, Nodes, Between, CallLlm, FromBatch
  <2>2. Counters'
    BY <1>2 DEF Counters, Between, session, CallLlm, FromBatch
  <2>3. SessionTypes'
    BY <1>2 DEF SessionTypes, session, CallLlm, FromBatch
  <2>4. CallTypes'
    BY <1>2, RoutedIsCall DEF CallTypes, session, CallLlm, FromBatch
  <2>5. FlagTypes'
    BY <1>2 DEF FlagTypes, CallLlm, FromBatch
  <2>6. CallAtHand'
    BY <1>2, CallsAreOps DEF CallAtHand, CallLlm, FromBatch
  <2> QED BY <2>1, <2>2, <2>3, <2>4, <2>5, <2>6
<1>3. ASSUME NEW answer \in Ops \cup {Text}, LlmAnswers(answer) PROVE TypeOK'
  <2>1. RunTypes'
    BY <1>3 DEF RunTypes, Nodes, Between, LlmAnswers
  <2>2. Counters'
    BY <1>3 DEF Counters, Between, session, LlmAnswers
  <2>3. SessionTypes'
    BY <1>3 DEF SessionTypes, session, LlmAnswers
  <2>4. CallTypes'
    BY <1>3 DEF CallTypes, session, LlmAnswers
  <2>5. FlagTypes'
    BY <1>3 DEF FlagTypes, LlmAnswers
  <2>6. CallAtHand'
    BY <1>3, CallsAreOps DEF CallAtHand, LlmAnswers
  <2> QED BY <2>1, <2>2, <2>3, <2>4, <2>5, <2>6
<1>4. CASE LlmFails
  <2>1. RunTypes'
    BY <1>4 DEF RunTypes, Nodes, Between, LlmFails
  <2>2. Counters'
    BY <1>4 DEF Counters, Between, session, LlmFails
  <2>3. SessionTypes'
    BY <1>4 DEF SessionTypes, session, LlmFails
  <2>4. CallTypes'
    BY <1>4 DEF CallTypes, session, LlmFails
  <2>5. FlagTypes'
    BY <1>4 DEF FlagTypes, LlmFails
  <2>6. CallAtHand'
    BY <1>4, CallsAreOps DEF CallAtHand, LlmFails
  <2> QED BY <2>1, <2>2, <2>3, <2>4, <2>5, <2>6
<1>5. CASE ParseToolCall
  <2>1. RunTypes'
    BY <1>5 DEF RunTypes, Nodes, Between, ParseToolCall
  <2>2. Counters'
    BY <1>5 DEF Counters, Between, session, ParseToolCall
  <2>3. SessionTypes'
    BY <1>5 DEF SessionTypes, session, ParseToolCall
  <2>4. CallTypes'
    BY <1>5 DEF CallTypes, session, ParseToolCall
  <2>5. FlagTypes'
    BY <1>5 DEF FlagTypes, ParseToolCall
  <2>6. CallAtHand'
    BY <1>5, CallsAreOps DEF CallAtHand, ParseToolCall, CallTypes
  <2> QED BY <2>1, <2>2, <2>3, <2>4, <2>5, <2>6
<1>6. CASE PermissionCheck
  <2>1. call # NoCall /\ call.rule # "raises"
            => Decide(GateMode(mode), call, overrides) \in Decisions
    <3>1. ASSUME call \in Ops, call.rule # "raises" PROVE Combine(GateMode(mode), call) \in Decisions
      BY <3>1, CombineDecides, GateModeIsKnown, GraphAssumption DEF GraphAssumption, SessionTypes
    <3> QED BY <3>1 DEF Decide, Decisions, CallTypes
  <2>2. RunTypes'
    BY <1>6 DEF RunTypes, Nodes, Between, PermissionCheck, AuditFails
  <2>3. Counters'
    BY <1>6, BoundsAssumption
       DEF Counters, Between, session, PermissionCheck, AuditFails, BoundsAssumption
  <2>4. SessionTypes'
    BY <1>6 DEF SessionTypes, session, PermissionCheck, AuditFails
  <2>5. CallTypes'
    BY <1>6, <2>1 DEF CallTypes, session, PermissionCheck, AuditFails
  <2>6. FlagTypes'
    BY <1>6 DEF FlagTypes, PermissionCheck, AuditFails
  <2>7. CallAtHand'
    BY <1>6 DEF CallAtHand, PermissionCheck, AuditFails, CallTypes
  <2> QED BY <2>2, <2>3, <2>4, <2>5, <2>6, <2>7
<1>7. CASE ExecuteTool
  <2>1. RunTypes'
    BY <1>7 DEF RunTypes, Nodes, Between, ExecuteTool, Blocked, Raised, AuditFails
  <2>2. Counters'
    BY <1>7, BoundsAssumption
       DEF Counters, Between, session, ExecuteTool, Blocked, Raised, AuditFails,
           BoundsAssumption
  <2>3. SessionTypes'
    BY <1>7 DEF SessionTypes, session, ExecuteTool, Blocked, Raised, AuditFails
  <2>4. CallTypes'
    BY <1>7 DEF CallTypes, session, ExecuteTool, Blocked, Raised, AuditFails, CallAtHand
  <2>5. FlagTypes'
    BY <1>7 DEF FlagTypes, ExecuteTool, Blocked, Raised, AuditFails
  <2>6. CallAtHand'
    BY <1>7 DEF CallAtHand, ExecuteTool, Blocked, Raised, AuditFails
  <2> QED BY <2>1, <2>2, <2>3, <2>4, <2>5, <2>6
<1>8. ASSUME NEW answer \in {"allow", "always_allow", "deny"}, ApprovalAnswered(answer)
      PROVE  TypeOK'
  <2>1. RunTypes'
    BY <1>8 DEF RunTypes, Nodes, Between, ApprovalAnswered, Blocked
  <2>2. Counters'
    BY <1>8 DEF Counters, Between, session, ApprovalAnswered, Blocked
  <2>3. SessionTypes'
    BY <1>8 DEF SessionTypes, session, ApprovalAnswered, Blocked, CallAtHand
  <2>4. CallTypes'
    BY <1>8 DEF CallTypes, session, ApprovalAnswered, Blocked, CallAtHand
  <2>5. FlagTypes'
    BY <1>8 DEF FlagTypes, ApprovalAnswered, Blocked
  <2>6. CallAtHand'
    BY <1>8 DEF CallAtHand, ApprovalAnswered, Blocked
  <2> QED BY <2>1, <2>2, <2>3, <2>4, <2>5, <2>6
<1>9. CASE ApprovalRaises
  <2>1. RunTypes'
    BY <1>9 DEF RunTypes, Nodes, Between, ApprovalRaises, AuditFails, Raised, channels
  <2>2. Counters'
    BY <1>9, BoundsAssumption
       DEF Counters, Between, session, ApprovalRaises, AuditFails, Raised, channels,
           BoundsAssumption
  <2>3. SessionTypes'
    BY <1>9 DEF SessionTypes, session, ApprovalRaises, AuditFails, Raised, channels
  <2>4. CallTypes'
    BY <1>9 DEF CallTypes, session, ApprovalRaises, AuditFails, Raised, channels
  <2>5. FlagTypes'
    BY <1>9 DEF FlagTypes, ApprovalRaises, AuditFails, Raised, channels
  <2>6. CallAtHand'
    BY <1>9 DEF CallAtHand, ApprovalRaises, AuditFails, Raised, channels
  <2> QED BY <2>1, <2>2, <2>3, <2>4, <2>5, <2>6
<1>10. ASSUME NEW outcome \in {"ok", "failed"}, ToolReturns(outcome) PROVE TypeOK'
  <2>1. RunTypes'
    BY <1>10 DEF RunTypes, Nodes, Between, ToolReturns, Raised, AuditFails
  <2>2. Counters'
    BY <1>10, BoundsAssumption
       DEF Counters, Between, session, ToolReturns, Raised, AuditFails, BoundsAssumption
  <2>3. SessionTypes'
    BY <1>10 DEF SessionTypes, session, ToolReturns, Raised, AuditFails
  <2>4. CallTypes'
    BY <1>10 DEF CallTypes, session, ToolReturns, Raised, AuditFails, CallAtHand
  <2>5. FlagTypes'
    BY <1>10 DEF FlagTypes, ToolReturns, Raised, AuditFails
  <2>6. CallAtHand'
    BY <1>10 DEF CallAtHand, ToolReturns, Raised, AuditFails
  <2> QED BY <2>1, <2>2, <2>3, <2>4, <2>5, <2>6
<1>11. CASE AppendObservation
  <2>1. /\ pending' \in Seq(Ops)
        /\ outcomes' \in Seq({"finished", "error"})
        /\ status' \in {"idle", "finished", "error"}
        /\ awaiting' \in BOOLEAN /\ batch' \in BOOLEAN
    <3> DEFINE Observed == /\ pending' \in Seq(Ops)
                           /\ outcomes' \in Seq({"finished", "error"})
                           /\ status' \in {"idle", "finished", "error"}
                           /\ awaiting' \in BOOLEAN /\ batch' \in BOOLEAN
    <3>1. CASE Observe
      BY <3>1 DEF Observe, CallTypes, SessionTypes, FlagTypes
    <3>2. ASSUME NEW files \in FileLists, QueueReads(files) PROVE Observed
      BY <3>2, GraphAssumption DEF GraphAssumption, QueueReads, SessionTypes, FlagTypes
    <3>3. CASE FinishDirectly
      BY <3>3 DEF FinishDirectly, CallTypes, SessionTypes
    <3>4. CASE ReportFailure
      BY <3>4 DEF ReportFailure, CallTypes, SessionTypes, FlagTypes
    <3>5. result.outcome \in {"ok", "blocked", "failed"}
      BY <1>11, CallsAreOps DEF AppendObservation, CallTypes, CallAtHand, NoResult
    <3> QED BY <1>11, <3>1, <3>2, <3>3, <3>4, <3>5 DEF AppendObservation
  <2>2. RunTypes'
    BY <1>11, <2>1 DEF RunTypes, Nodes, Between, AppendObservation
  <2>3. Counters'
    BY <1>11 DEF Counters, Between, session, AppendObservation
  <2>4. SessionTypes'
    BY <1>11, <2>1 DEF SessionTypes, session, AppendObservation
  <2>5. CallTypes'
    BY <1>11, <2>1 DEF CallTypes, session, AppendObservation
  <2>6. FlagTypes'
    BY <1>11, <2>1 DEF FlagTypes, AppendObservation
  <2>7. CallAtHand'
    BY <1>11 DEF CallAtHand, AppendObservation
  <2> QED BY <2>2, <2>3, <2>4, <2>5, <2>6, <2>7
<1>12. CASE ContinueOrStop
  <2>1. RunTypes'
    BY <1>12 DEF RunTypes, Nodes, Between, ContinueOrStop, Loop
  <2>2. Counters'
    BY <1>12 DEF Counters, Between, session, ContinueOrStop, Loop
  <2>3. SessionTypes'
    BY <1>12 DEF SessionTypes, session, ContinueOrStop, Loop
  <2>4. CallTypes'
    BY <1>12 DEF CallTypes, session, ContinueOrStop, Loop
  <2>5. FlagTypes'
    BY <1>12 DEF FlagTypes, ContinueOrStop, Loop
  <2>6. CallAtHand'
    BY <1>12 DEF CallAtHand, ContinueOrStop, Loop
  <2> QED BY <2>1, <2>2, <2>3, <2>4, <2>5, <2>6
<1>13. CASE Cancel
  <2>1. RunTypes'
    BY <1>13 DEF RunTypes, Nodes, Between, Cancel, channels
  <2>2. Counters'
    BY <1>13 DEF Counters, Between, session, Cancel, channels
  <2>3. SessionTypes'
    BY <1>13 DEF SessionTypes, session, Cancel, channels
  <2>4. CallTypes'
    BY <1>13 DEF CallTypes, session, Cancel, channels
  <2>5. FlagTypes'
    BY <1>13 DEF FlagTypes, Cancel, channels
  <2>6. CallAtHand'
    BY <1>13 DEF CallAtHand, Cancel, channels
  <2> QED BY <2>1, <2>2, <2>3, <2>4, <2>5, <2>6
<1>14. CASE UNCHANGED vars
  <2>1. RunTypes'
    BY <1>14 DEF RunTypes, Nodes, Between, vars, channels
  <2>2. Counters'
    BY <1>14 DEF Counters, Between, session, vars, channels
  <2>3. SessionTypes'
    BY <1>14 DEF SessionTypes, session, vars, channels
  <2>4. CallTypes'
    BY <1>14 DEF CallTypes, session, vars, channels
  <2>5. FlagTypes'
    BY <1>14 DEF FlagTypes, vars, channels
  <2>6. CallAtHand'
    BY <1>14 DEF CallAtHand, vars, channels
  <2> QED BY <2>1, <2>2, <2>3, <2>4, <2>5, <2>6
<1> QED
  BY <1>1, <1>2, <1>3, <1>4, <1>5, <1>6, <1>7, <1>8, <1>9, <1>10, <1>11, <1>12, <1>13, <1>14
     DEF Next, Node, Answer

\* Every variable of the graph keeps its type, and execute_tool, the approval and
\* append_observation always have the call and the result they work on.
THEOREM GraphTypes == Spec => []TypeOK
<1>1. Init => TypeOK
  BY TypeInit
<1>2. TypeOK /\ [Next]_vars => TypeOK'
  BY TypeNext
<1> QED BY <1>1, <1>2, PTL DEF Spec

-----------------------------------------------------------------------------
(***************************************************************************)
(* The gate: what runs was decided for this call, in this mode.            *)
(***************************************************************************)
\* The gate result that execute_tool and the approval look at is the decision on
\* the call at hand, with the overrides there are now.
GateIsCurrent ==
    pc \in {"execute_tool", "approval"} /\ gate # "none"
        => gate = Decide(GateMode(mode), call, overrides)

OnlyAskingAsks == pc = "approval" => gate \in Asking

GateInv == GateIsCurrent /\ OnlyAskingAsks /\ DeniedNeverRuns /\ AskedRunsOnlyGranted

LEMMA GateNext == TypeOK /\ GateInv /\ [Next]_vars => GateInv'
<1> SUFFICES ASSUME TypeOK, GateInv, [Next]_vars PROVE GateInv'
  OBVIOUS
<1> USE DEF GateInv, GateIsCurrent, OnlyAskingAsks, DeniedNeverRuns, AskedRunsOnlyGranted
<1>1. ASSUME NEW i \in Intents, UserInput(i) PROVE GateInv'
  BY <1>1 DEF UserInput, session
<1>2. CASE CallLlm
  BY <1>2 DEF CallLlm, session
<1>3. ASSUME NEW answer \in Ops \cup {Text}, LlmAnswers(answer) PROVE GateInv'
  BY <1>3 DEF LlmAnswers, session
<1>4. CASE LlmFails
  BY <1>4 DEF LlmFails, session
<1>5. CASE ParseToolCall
  BY <1>5 DEF ParseToolCall, session
<1>6. CASE PermissionCheck
  BY <1>6 DEF PermissionCheck, session
<1>7. CASE ExecuteTool
  <2>1. CASE gate = "deny"
    BY <1>7, <2>1 DEF ExecuteTool, Blocked, Raised, Asking
  <2>2. CASE gate \in Asking
    BY <1>7, <2>2 DEF ExecuteTool, Asking, session
  <2>3. CASE gate \in {"allow", "none"}
    <3>1. gate = "allow" => Combine(GateMode(mode), call) # "deny"
                            /\ (Combine(GateMode(mode), call) \in Asking => call \in overrides)
      BY <1>7 DEF ExecuteTool, Decide, Asking
    <3> QED
      BY <1>7, <2>3, <3>1 DEF ExecuteTool, Asking, session
  <2> QED BY <1>7, <2>1, <2>2, <2>3 DEF ExecuteTool
<1>8. ASSUME NEW answer \in {"allow", "always_allow", "deny"}, ApprovalAnswered(answer)
      PROVE  GateInv'
  <2>1. gate # "none" => Combine(GateMode(mode), call) # "deny"
    BY <1>8 DEF ApprovalAnswered, Decide, Asking
  <2> QED
    BY <1>8, <2>1 DEF ApprovalAnswered, Blocked, session
<1>9. CASE ApprovalRaises
  BY <1>9 DEF ApprovalRaises, Raised, channels, session
<1>10. ASSUME NEW outcome \in {"ok", "failed"}, ToolReturns(outcome) PROVE GateInv'
  BY <1>10 DEF ToolReturns, Raised, session
<1>11. CASE AppendObservation
  BY <1>11 DEF AppendObservation, session
<1>12. CASE ContinueOrStop
  BY <1>12 DEF ContinueOrStop, Loop, session
<1>13. CASE Cancel
  BY <1>13 DEF Cancel, channels, session
<1>14. CASE UNCHANGED vars
  BY <1>14 DEF vars, channels, session
<1> QED
  BY <1>1, <1>2, <1>3, <1>4, <1>5, <1>6, <1>7, <1>8, <1>9, <1>10, <1>11, <1>12, <1>13, <1>14
     DEF Next, Node, Answer

\* Whatever the rules, the mode, the earlier answers and the failures of the audit
\* log: no denied call is executed, one that needs a yes only with one, and who
\* answered Always Allow is not asked again.
THEOREM GateHolds == Spec => []GateIsObeyed
<1>1. Init => GateInv
  BY DEF Init, GateInv, GateIsCurrent, OnlyAskingAsks, DeniedNeverRuns,
         AskedRunsOnlyGranted
<1>2. TypeOK /\ GateInv /\ [Next]_vars => GateInv'
  BY GateNext
<1>3. GateInv => GateIsObeyed
  <2>1. GateInv => NeverAskedAgain
    BY DEF GateInv, GateIsCurrent, OnlyAskingAsks, NeverAskedAgain, Decide, Asking
  <2> QED BY <2>1 DEF GateInv, GateIsObeyed
<1> QED BY <1>1, <1>2, <1>3, GraphTypes, PTL DEF Spec

-----------------------------------------------------------------------------
(***************************************************************************)
(* The rounds of a turn.                                                   *)
(***************************************************************************)
\* Without a read request nothing is queued, so the one way back to the LLM is the
\* final response, which is requested once.
OneRequest ==
    ~intent.read => pending = <<>> /\ rounds <= (IF requested THEN 2 ELSE 1)

\* The final response is requested at the end of the round that awaits it.
AwaitedIsRequested ==
    ~intent.read /\ awaiting => requested \/ pc \in Between \cup {"continue_or_stop"}

\* After its outcome event a turn has only to stop.
NothingAfterOutcome ==
    ~intent.read /\ outcomes # <<>> =>
        /\ Len(outcomes) = 1
        /\ \/ pc \in Between
           \/ pc = "permission_check" /\ call = NoCall /\ ~awaiting
           \/ pc = "continue_or_stop" /\ ~(awaiting /\ ~requested)

RoundInv == OneRequest /\ AwaitedIsRequested /\ NothingAfterOutcome

LEMMA RoundNext == TypeOK /\ RoundInv /\ [Next]_vars => RoundInv'
<1> SUFFICES ASSUME TypeOK, RoundInv, [Next]_vars PROVE RoundInv'
  OBVIOUS
<1> USE DEF RoundInv, OneRequest, AwaitedIsRequested, NothingAfterOutcome
<1>1. ASSUME NEW i \in Intents, UserInput(i) PROVE RoundInv'
  <2>1. ~i.read => i.first = NoCall
    BY GraphAssumption DEF GraphAssumption
  <2> QED BY <1>1, <2>1 DEF UserInput
<1>2. CASE CallLlm
  BY <1>2 DEF CallLlm, session, FromBatch, Between
<1>3. ASSUME NEW answer \in Ops \cup {Text}, LlmAnswers(answer) PROVE RoundInv'
  BY <1>3 DEF LlmAnswers, session, Between
<1>4. CASE LlmFails
  BY <1>4 DEF LlmFails, session, Between
<1>5. CASE ParseToolCall
  <2>1. ~intent.read => outcomes = <<>>
    BY <1>5 DEF ParseToolCall, Between
  <2>2. ~intent.read /\ outcomes' # <<>> =>
            Len(outcomes') = 1 /\ call' = NoCall /\ ~awaiting'
    <3>1. Len(Append(<<>>, "finished")) = 1
      OBVIOUS
    <3> QED BY <1>5, <2>1, <3>1 DEF ParseToolCall
  <2>3. awaiting' => awaiting
    BY <1>5 DEF ParseToolCall, TypeOK, FlagTypes
  <2> QED
    BY <1>5, <2>2, <2>3 DEF ParseToolCall, session, Between
<1>6. CASE PermissionCheck
  BY <1>6 DEF PermissionCheck, session, Between
<1>7. CASE ExecuteTool
  BY <1>7 DEF ExecuteTool, Blocked, Raised, session, Between
<1>8. ASSUME NEW answer \in {"allow", "always_allow", "deny"}, ApprovalAnswered(answer)
      PROVE  RoundInv'
  BY <1>8 DEF ApprovalAnswered, Blocked, session, Between
<1>9. CASE ApprovalRaises
  BY <1>9 DEF ApprovalRaises, Raised, channels, session, Between
<1>10. ASSUME NEW outcome \in {"ok", "failed"}, ToolReturns(outcome) PROVE RoundInv'
  BY <1>10 DEF ToolReturns, Raised, session, Between
<1>11. CASE AppendObservation
  <2>1. ~intent.read => outcomes = <<>> /\ (awaiting => requested)
    BY <1>11 DEF AppendObservation, Between
  <2>2. ~intent.read => Observe \/ FinishDirectly \/ ReportFailure
    BY <1>11 DEF AppendObservation, QueueReads
  <2>3. ~intent.read => pending' = pending
    BY <2>2 DEF Observe, FinishDirectly, ReportFailure
  <2>4. ~intent.read => \/ outcomes' = <<>>
                        \/ Len(outcomes') = 1 /\ awaiting' = awaiting
    <3>1. Len(Append(<<>>, "error")) = 1
      OBVIOUS
    <3> QED BY <2>1, <2>2, <3>1 DEF Observe, FinishDirectly, ReportFailure
  <2>5. intent' = intent /\ pc' = "continue_or_stop" /\ UNCHANGED <<rounds, requested>>
    BY <1>11 DEF AppendObservation, session
  <2>6. OneRequest' /\ AwaitedIsRequested'
    BY <2>3, <2>5
  <2>7. NothingAfterOutcome'
    BY <2>1, <2>4, <2>5
  <2> QED BY <2>6, <2>7
<1>12. CASE ContinueOrStop
  BY <1>12 DEF ContinueOrStop, Loop, session, Between, TypeOK, Counters, FlagTypes
<1>13. CASE Cancel
  BY <1>13 DEF Cancel, channels, session, Between
<1>14. CASE UNCHANGED vars
  BY <1>14 DEF vars, channels, session
<1> QED
  BY <1>1, <1>2, <1>3, <1>4, <1>5, <1>6, <1>7, <1>8, <1>9, <1>10, <1>11, <1>12, <1>13, <1>14
     DEF Next, Node, Answer

\* A turn without a read request makes at most two rounds and has at most one
\* outcome event, whatever the LLM, the user and the tools answer.
THEOREM TurnsStayShort == Spec => []TurnsAreShort
<1>1. Init => RoundInv
  BY DEF Init, NoIntent, Between, RoundInv, OneRequest, AwaitedIsRequested,
         NothingAfterOutcome
<1>2. TypeOK /\ RoundInv /\ [Next]_vars => RoundInv'
  BY RoundNext
<1>3. TypeOK /\ RoundInv => TurnsAreShort
  <2>1. TypeOK /\ RoundInv => RoundsBounded
    BY DEF RoundInv, OneRequest, RoundsBounded, TypeOK, Counters
  <2>2. TypeOK /\ RoundInv => OneOutcomeEvent
    <3> SUFFICES ASSUME RoundInv, ~intent.read PROVE Len(outcomes) <= 1
      BY DEF OneOutcomeEvent
    <3>1. CASE outcomes = <<>>
      <4>1. Len(outcomes) = 0
        BY <3>1
      <4> QED BY <4>1
    <3>2. CASE outcomes # <<>>
      <4>1. Len(outcomes) = 1
        BY <3>2 DEF RoundInv, NothingAfterOutcome
      <4> QED BY <4>1
    <3> QED BY <3>1, <3>2
  <2> QED BY <2>1, <2>2 DEF TurnsAreShort
<1> QED BY <1>1, <1>2, <1>3, GraphTypes, PTL DEF Spec

-----------------------------------------------------------------------------
(***************************************************************************)
(* The reads of a read request.                                            *)
(***************************************************************************)
\* Before its first LLM call a turn awaits the final response only with an empty
\* queue, and no tool is called in between.
AwaitedAfterReads ==
    iteration = 0 /\ awaiting =>
        pending = <<>> /\ pc \in Between \cup {"continue_or_stop", "call_llm"}

ReadInv == AwaitedAfterReads /\ ReadsBeforeAnswer

LEMMA ReadNext == TypeOK /\ ReadInv /\ [Next]_vars => ReadInv'
<1> SUFFICES ASSUME TypeOK, ReadInv, [Next]_vars PROVE ReadInv'
  OBVIOUS
<1> USE DEF ReadInv, AwaitedAfterReads, ReadsBeforeAnswer
<1>1. ASSUME NEW i \in Intents, UserInput(i) PROVE ReadInv'
  BY <1>1 DEF UserInput, session
<1>2. CASE CallLlm
  <2>1. AwaitedAfterReads'
    <3>1. awaiting => iteration' = iteration + 1
      BY <1>2 DEF CallLlm, RoutedCall
    <3> QED BY <1>2, <3>1 DEF CallLlm, TypeOK, Counters
  <2>2. RoutedCall = NoCall /\ iteration = 0 => pending = <<>>
    <3>1. pending # <<>> => Head(pending) # NoCall
      BY CallsAreOps DEF TypeOK, CallTypes
    <3> QED BY <1>2, <3>1 DEF RoutedCall
  <2>3. pc' = "llm" => RoutedCall = NoCall /\ iteration' = iteration + 1
    BY <1>2 DEF CallLlm
  <2>4. pending' # <<>> => pending # <<>>
    BY <1>2 DEF CallLlm, FromBatch, TypeOK, CallTypes
  <2> QED BY <2>1, <2>2, <2>3, <2>4 DEF TypeOK, Counters
<1>3. ASSUME NEW answer \in Ops \cup {Text}, LlmAnswers(answer) PROVE ReadInv'
  BY <1>3 DEF LlmAnswers, session, Between
<1>4. CASE LlmFails
  BY <1>4 DEF LlmFails, session, Between
<1>5. CASE ParseToolCall
  BY <1>5 DEF ParseToolCall, session, Between
<1>6. CASE PermissionCheck
  BY <1>6 DEF PermissionCheck, session, Between
<1>7. CASE ExecuteTool
  BY <1>7 DEF ExecuteTool, Blocked, Raised, session, Between
<1>8. ASSUME NEW answer \in {"allow", "always_allow", "deny"}, ApprovalAnswered(answer)
      PROVE  ReadInv'
  BY <1>8 DEF ApprovalAnswered, Blocked, session, Between
<1>9. CASE ApprovalRaises
  BY <1>9 DEF ApprovalRaises, Raised, channels, session, Between
<1>10. ASSUME NEW outcome \in {"ok", "failed"}, ToolReturns(outcome) PROVE ReadInv'
  BY <1>10 DEF ToolReturns, Raised, session, Between
<1>11. CASE AppendObservation
  <2>1. iteration = 0 => ~awaiting
    BY <1>11 DEF AppendObservation, Between
  <2>2. iteration = 0 /\ awaiting' => pending' = <<>>
    <3>1. \/ Observe \/ FinishDirectly \/ ReportFailure
          \/ \E files \in FileLists: QueueReads(files)
      BY <1>11 DEF AppendObservation
    <3> QED BY <2>1, <3>1 DEF Observe, FinishDirectly, ReportFailure, QueueReads
  <2> QED
    BY <1>11, <2>2 DEF AppendObservation
<1>12. CASE ContinueOrStop
  BY <1>12 DEF ContinueOrStop, Loop, session, Between
<1>13. CASE Cancel
  BY <1>13 DEF Cancel, channels, session, Between
<1>14. CASE UNCHANGED vars
  BY <1>14 DEF vars, channels, session
<1> QED
  BY <1>1, <1>2, <1>3, <1>4, <1>5, <1>6, <1>7, <1>8, <1>9, <1>10, <1>11, <1>12, <1>13, <1>14
     DEF Next, Node, Answer

\* The LLM is first asked for its answer when nothing is left to read, whatever
\* the globs found and however the reads went.
THEOREM ReadsComeFirst == Spec => [](ReadsBeforeAnswer)
<1>1. Init => ReadInv
  BY DEF Init, ReadInv, AwaitedAfterReads, ReadsBeforeAnswer
<1>2. TypeOK /\ ReadInv /\ [Next]_vars => ReadInv'
  BY ReadNext
<1>3. ReadInv => ReadsBeforeAnswer
  BY DEF ReadInv, AwaitedAfterReads, ReadsBeforeAnswer
<1> QED BY <1>1, <1>2, <1>3, GraphTypes, PTL DEF Spec

-----------------------------------------------------------------------------
(***************************************************************************)
(* The Swarm. SwarmInv relates every run to its plan's tasks, to the mail  *)
(* and to the teammates: RunBook, what the place of a run tells of it;     *)
(* PlaceBook, where a step can be at that place; StepBook and MailBook,    *)
(* only runs that have a plan have steps and mail; QuietBook, while nobody *)
(* else writes and no handler suspends, a mail is read at once by whom it  *)
(* is for; PromptBook, who executes is the one its teammate is busy with;  *)
(* StatusBook, a status has the run it tells of behind it; CancelBook, a   *)
(* run in flight with no second run beside it remembers its cancel.        *)
(***************************************************************************)
Working == {"dispatched", "waiting", "executing", "collecting", "reporting"}
StepPcs == {"none", "queued", "done"} \cup Working
RunPcs == {"none", "planning", "created", "seq", "gather", "telling", "ended"}
RunType == [pc: RunPcs, at: 1..(NSteps + 1), plan: Plan,
            outcome: {"none", "completed", "failed", "cancelled", "raised"}]
StepType == [pc: StepPcs, mate: Mates \cup {NoMate}, mail: Tasks \cup {NoTask}, ok: BOOLEAN,
             result: {"none", "succeeded", "failed"}]
MateType == [status: {"idle", "waiting", "running", "stopped"}, current: Tasks \cup {NoTask}]
Mail == [kind: {"task"} \cup Foreign, task: Tasks \cup {NoTask}]

Types ==
    /\ swarm \in [status: RunStatus, current: Runs \cup {NoRun}, asked: BOOLEAN, active: SUBSET Tasks]
    /\ run \in [Runs -> RunType] /\ step \in [Tasks -> StepType] /\ task \in [Tasks -> TaskStatus]
    /\ mate \in [Mates -> MateType] /\ inbox \in [Mates -> Seq(Mail)]
    /\ cancel \in 0..CancelRounds /\ turn \in Runs \cup {NoRun}
    /\ foreign \in Nat /\ cancels \in Nat /\ kicks \in Nat /\ slow \in Nat
    /\ ran \in [Tasks -> {"no", "succeeded", "failed"}] /\ asked \subseteq Runs /\ overlapped \in BOOLEAN

\* What the place of a run tells of the run.
RunBook(r) ==
    /\ run[r].pc \notin {"telling", "ended"} => run[r].outcome = "none"
    /\ run[r].pc = "telling" => run[r].outcome # "none"
    /\ run[r].pc \in {"none", "planning", "created"} => run[r].at = 1
    /\ run[r].pc = "seq" /\ run[r].at > NSteps => turn = r
    /\ turn = r => run[r].pc \in {"planning", "created", "seq"}

\* Where a step can be, by the place its run has reached.
PlaceBook(k) ==
    LET r == run[RunOf(k)]
        place == step[k].pc
    IN  /\ r.pc \in {"none", "planning", "created", "ended"} => place = "none"
        /\ r.pc = "telling" => place \in {"none", "done"}
        /\ r.pc = "gather" => place # "none"
        /\ r.pc = "seq" =>
              /\ k[2] < r.at => place = "done"
              /\ k[2] > r.at => place = "none"
              /\ k[2] = r.at => IF turn = RunOf(k) THEN place = "none" ELSE place \in Working

\* A step that works has a teammate; mail is about steps of runs that have a plan.
Unmade(r) == run[r].pc \in {"none", "planning"}
StepBook(k) ==
    /\ step[k].pc \in {"dispatched", "waiting", "executing", "collecting"} => step[k].mate \in Mates
    /\ step[k].mail # NoTask => ~Unmade(RunOf(step[k].mail))
    /\ Unmade(RunOf(k)) => task[k] = "none"
MadeMail(m) == (m.task # NoTask => ~Unmade(RunOf(m.task))) /\ (m.kind = "task" => m.task # NoTask)
MailBook == \A t \in Mates: \A i \in 1..Len(inbox[t]): MadeMail(inbox[t][i])

\* While nobody else writes and no handler suspends, a mail is read at once by whom it is for.
QuietBook == foreign = 0 /\ slow = 0 =>
    /\ \A t \in Mates: mate[t].status # "stopped" /\ inbox[t] = <<>>
    /\ \A k \in Tasks:
          /\ step[k].pc # "collecting"
          /\ step[k].pc = "executing" => step[k].mail = k
          /\ task[k] = "succeeded" => ran[k] = "succeeded"
          /\ step[k].pc = "done" => task[k] \in Terminal
          /\ run[RunOf(k)].outcome \in {"completed", "failed"} /\ ~run[RunOf(k)].plan.failFast
                => task[k] \in Terminal \cup {"none"}

\* While no handler suspends, who executes is the one its teammate is busy with.
PromptBook == slow = 0 =>
    /\ \A r \in Runs: run[r].pc # "telling"
    /\ \A k \in Tasks: step[k].pc \notin {"dispatched", "waiting", "reporting"}
    /\ \A k \in Tasks: step[k].pc = "executing" =>
          mate[step[k].mate].status \in {"running", "stopped"} /\ mate[step[k].mate].current = k

\* A status of a run in flight has a run behind it, a run in flight has such a status.
StatusBook ==
    /\ kicks = 0 /\ swarm.status \in {"planning", "running"} =>
          \E r \in Runs: run[r].pc \in {"planning", "created", "seq", "gather"}
    /\ cancels = 0 => cancel = 0
    /\ cancels = 0 /\ slow = 0 =>
          ~overlapped /\ \A r \in Runs: InFlight(r) => swarm.status \in {"planning", "running"}

\* Without a second run beside it, a run in flight remembers that it was cancelled.
CancelBook == ~overlapped =>
    /\ \A q, r \in Runs: InFlight(q) /\ InFlight(r) => q = r
    /\ swarm.current # NoRun => InFlight(swarm.current)
    /\ \A r \in asked: /\ run[r].pc # "none" /\ run[r].outcome # "completed"
                       /\ run[r].pc \notin {"telling", "ended"} => swarm.asked
    /\ \A k \in Tasks: task[k] = "cancelled" /\ run[RunOf(k)].pc \in {"created", "seq", "gather"}
                       /\ step[k].pc \in {"none", "queued", "dispatched"} => swarm.asked

SwarmInv ==
    /\ Types /\ (\A r \in Runs: RunBook(r))
    /\ (\A k \in Tasks: PlaceBook(k) /\ StepBook(k)) /\ MailBook
    /\ QuietBook /\ PromptBook /\ StatusBook /\ CancelBook

-----------------------------------------------------------------------------
LEMMA TaskIs ==
    ASSUME NEW k \in Tasks
    PROVE  /\ k[1] \in Runs /\ k[2] \in Steps /\ k[2] \in Nat /\ RunOf(k) = k[1] /\ RunOf(k) # NoRun
           /\ k = <<k[1], k[2]>> /\ k # NoTask
  BY SwarmAssumption DEF Tasks, Runs, Steps, RunOf, NoRun, NoTask

LEMMA TaskOf ==
    ASSUME NEW r \in Runs, NEW s \in Steps
    PROVE  /\ <<r, s>> \in Tasks /\ RunOf(<<r, s>>) = r /\ <<r, s>>[1] = r /\ <<r, s>>[2] = s
           /\ r # NoRun
  BY SwarmAssumption DEF Tasks, Runs, Steps, RunOf, NoRun

LEMMA TaskEq == ASSUME NEW j \in Tasks, NEW k \in Tasks, RunOf(j) = RunOf(k), j[2] = k[2] PROVE j = k
  BY DEF Tasks, RunOf

LEMMA IdleIs == Idle \in StepType /\ [Idle EXCEPT !.pc = "queued"] \in StepType
                /\ \A ok \in BOOLEAN: /\ [Idle EXCEPT !.pc = "done", !.ok = ok] \in StepType
                                      /\ [Idle EXCEPT !.pc = "reporting", !.ok = ok] \in StepType
  BY DEF Idle, StepType, StepPcs, Working

-----------------------------------------------------------------------------
\* What a step of a run does when it goes on.
MayMove(k) ==
    /\ run[RunOf(k)].pc \in {"seq", "gather"} /\ turn \in {NoRun, RunOf(k)}
    /\ run[RunOf(k)].pc = "seq" => run[RunOf(k)].at = k[2]
    /\ turn = RunOf(k) => run[RunOf(k)].pc = "seq"

Works(k) == step'[k].pc \in Working /\ UNCHANGED run /\ turn' = NoRun
Finishes(k) ==
    /\ step'[k].pc = "done"
    /\ IF run[RunOf(k)].pc = "seq"
       THEN run' = [run EXCEPT ![RunOf(k)].at = @ + 1] /\ turn' = RunOf(k)
       ELSE turn' = NoRun /\ UNCHANGED run

StepMove(k) == (\A j \in Tasks: j # k => step'[j] = step[j]) /\ (Works(k) \/ Finishes(k))

StepFrame ==
    /\ swarm' = [swarm EXCEPT !.active = swarm'.active]
    /\ UNCHANGED <<cancel, clients, asked, overlapped>>
    /\ slow' >= slow

\* Only the step itself may come to be cancelled, and only tasks with a plan change.
TasksMove(k) == \A j \in Tasks:
    /\ task'[j] = "cancelled" => IF j = k THEN step'[k].pc # "dispatched" ELSE task[j] = "cancelled"
    /\ task'[j] # task[j] => ~Unmade(RunOf(j))

Moved(k) ==
    /\ step'[k].pc \in {"dispatched", "waiting", "executing", "collecting"} => step'[k].mate \in Mates
    /\ step'[k].mail # NoTask => ~Unmade(RunOf(step'[k].mail))
    /\ \A t \in Mates: \A i \in 1..Len(inbox'[t]): MadeMail(inbox'[t][i])

QuietMove(k) == foreign = 0 /\ slow' = 0 =>
    /\ \A t \in Mates: mate'[t].status # "stopped" /\ inbox'[t] = <<>>
    /\ step'[k].pc # "collecting"
    /\ step'[k].pc = "executing" => step'[k].mail = k
    /\ \A j \in Tasks: (j # k => task'[j] = task[j]) /\ (task'[j] = "succeeded" => ran'[j] = "succeeded")
    /\ step'[k].pc = "done" => task'[k] \in Terminal

PromptMove(k) == slow' = 0 =>
    /\ step'[k].pc \notin {"dispatched", "waiting", "reporting"}
    /\ \A j \in Tasks: step'[j].pc = "executing" =>
          mate'[step'[j].mate].status \in {"running", "stopped"} /\ mate'[step'[j].mate].current = j

Passed(k) ==
    /\ Types' /\ StepMove(k) /\ StepFrame /\ TasksMove(k) /\ Moved(k) /\ QuietMove(k) /\ PromptMove(k)

LEMMA FinishesRuns ==
    ASSUME Types, Types', NEW k \in Tasks, StepMove(k)
    PROVE  \A r \in Runs: /\ run'[r].pc = run[r].pc /\ run'[r].plan = run[r].plan
                          /\ run'[r].outcome = run[r].outcome
                          /\ r # RunOf(k) => run'[r] = run[r]
<1>1. PICK q \in Runs: q = RunOf(k)
  BY TaskIs
<1>2. CASE run' = run
  BY <1>2
<1>3. CASE run' = [run EXCEPT ![q].at = @ + 1]
  BY <1>1, <1>3 DEF Types, RunType
<1> QED BY <1>1, <1>2, <1>3 DEF StepMove, Works, Finishes

\* The step that is done was at the place of its run, which moves on.
LEMMA FinishesAt ==
    ASSUME Types, NEW k \in Tasks, RunOf(k) \in Runs, MayMove(k), Finishes(k), run[RunOf(k)].pc = "seq"
    PROVE  run[RunOf(k)].at = k[2] /\ run'[RunOf(k)].at = k[2] + 1
<1>1. run[RunOf(k)] \in RunType /\ run \in [Runs -> RunType]
  BY DEF Types
<1>2. run' = [run EXCEPT ![RunOf(k)].at = @ + 1] /\ run[RunOf(k)].at = k[2]
  BY DEF Finishes, MayMove
<1>3. run'[RunOf(k)] = [run[RunOf(k)] EXCEPT !.at = @ + 1]
  BY <1>1, <1>2
<1> QED BY <1>1, <1>2, <1>3 DEF RunType

LEMMA PassedPlaces ==
    ASSUME SwarmInv, NEW k \in Tasks, MayMove(k), Passed(k)
    PROVE  (\A r \in Runs: RunBook(r)') /\ (\A j \in Tasks: PlaceBook(j)')
<1>1. Types /\ Types' /\ StepMove(k)
  BY DEF SwarmInv, Passed
<1>2. \A r \in Runs: /\ run'[r].pc = run[r].pc /\ run'[r].outcome = run[r].outcome
                     /\ r # RunOf(k) => run'[r] = run[r]
  BY <1>1, FinishesRuns
<1>3. ASSUME NEW r \in Runs PROVE RunBook(r)'
  <2>1. RunBook(r) /\ r # NoRun /\ PlaceBook(k) /\ k[2] \in Nat /\ NSteps \in Nat
    BY TaskIs, SwarmAssumption DEF SwarmInv, Runs, NoRun
  <2>2. CASE r # RunOf(k)
    BY <1>1, <1>2, <2>1, <2>2, TaskIs DEF MayMove, StepMove, Works, Finishes, RunBook, NoRun
  <2>3. CASE r = RunOf(k) /\ Works(k)
    <3>1. run[r].pc = "seq" => run[r].at = k[2] /\ k[2] <= NSteps
      BY <2>3, TaskIs DEF MayMove, Steps
    <3> QED BY <1>2, <2>1, <2>3, <3>1, SwarmAssumption DEF Works, RunBook, Types, RunType, NoRun, MayMove
  <2>4. CASE r = RunOf(k) /\ Finishes(k)
    BY <1>1, <1>2, <2>1, <2>4 DEF Finishes, RunBook, NoRun, MayMove
  <2> QED BY <1>1, <2>2, <2>3, <2>4 DEF StepMove
<1>4. ASSUME NEW j \in Tasks PROVE PlaceBook(j)'
  <2>1. PlaceBook(j) /\ PlaceBook(k) /\ j[2] \in Nat /\ RunOf(j) \in Runs /\ RunOf(k) \in Runs
        /\ RunOf(j) # NoRun /\ RunOf(k) # NoRun /\ k[2] \in Nat
    BY TaskIs DEF SwarmInv
  <2>2. CASE j = k
    <3>1. CASE Works(k)
      BY <1>2, <2>1, <2>2, <3>1 DEF Works, PlaceBook, MayMove, Working, NoRun
    <3>2. CASE Finishes(k)
      <4>1. run[RunOf(k)].pc = "seq" => run'[RunOf(k)].at = k[2] + 1
        BY <1>1, <2>1, <3>2, FinishesAt
      <4> QED BY <1>2, <2>1, <2>2, <3>2, <4>1 DEF Finishes, PlaceBook, MayMove
    <3> QED BY <1>1, <3>1, <3>2 DEF StepMove
  <2>3. CASE j # k /\ RunOf(j) = RunOf(k)
    <3>0. j[2] # k[2] /\ step'[j] = step[j]
      BY <1>1, <2>3, TaskEq DEF StepMove
    <3>1. CASE Works(k)
      BY <1>2, <2>1, <2>3, <3>0, <3>1 DEF Works, PlaceBook, MayMove
    <3>2. CASE Finishes(k)
      <4>1. run[RunOf(k)].pc = "seq" => run'[RunOf(k)].at = k[2] + 1 /\ run[RunOf(k)].at = k[2]
        BY <1>1, <2>1, <3>2, FinishesAt
      <4> QED BY <1>2, <2>1, <2>3, <3>0, <3>2, <4>1 DEF Finishes, PlaceBook, MayMove
    <3> QED BY <1>1, <3>1, <3>2 DEF StepMove
  <2>4. CASE RunOf(j) # RunOf(k)
    <3>1. run'[RunOf(j)] = run[RunOf(j)] /\ step'[j] = step[j] /\ turn # RunOf(j) /\ turn' # RunOf(j)
      BY <1>1, <1>2, <2>1, <2>4 DEF StepMove, Works, Finishes, MayMove
    <3> QED BY <2>1, <3>1 DEF PlaceBook
  <2> QED BY <2>2, <2>3, <2>4
<1> QED BY <1>3, <1>4

LEMMA PassedBooks ==
    ASSUME SwarmInv, NEW k \in Tasks, MayMove(k), Passed(k)
    PROVE  (\A j \in Tasks: StepBook(j)') /\ MailBook' /\ PromptBook'
<1>1. Types /\ Types' /\ StepMove(k) /\ TasksMove(k) /\ Moved(k)
  BY DEF SwarmInv, Passed
<1>2. \A r \in Runs: run'[r].pc = run[r].pc
  BY <1>1, FinishesRuns
<1>3. \A r \in Runs: Unmade(r)' <=> Unmade(r)
  BY <1>2 DEF Unmade
<1>4. ASSUME NEW m \in Tasks \cup {NoTask} PROVE m # NoTask => (Unmade(RunOf(m))' <=> Unmade(RunOf(m)))
  BY <1>3, <1>4, TaskIs
<1>5. ASSUME NEW j \in Tasks PROVE StepBook(j)'
  <2>1. StepBook(j) /\ RunOf(j) \in Runs /\ step'[j] \in StepType /\ task'[j] \in TaskStatus
    BY <1>1, TaskIs DEF SwarmInv, Types
  <2>2. step'[j].mail \in Tasks \cup {NoTask}
    BY <2>1 DEF StepType
  <2>3. step'[j].mail # NoTask => ~Unmade(RunOf(step'[j].mail))
    BY <1>1, <2>1 DEF StepMove, Moved, StepBook
  <2>4. step'[j].pc \in {"dispatched", "waiting", "executing", "collecting"} => step'[j].mate \in Mates
    BY <1>1, <2>1 DEF StepMove, Moved, StepBook
  <2>5. Unmade(RunOf(j)) => task'[j] = "none"
    BY <1>1, <2>1 DEF TasksMove, StepBook
  <2> QED BY <1>3, <1>4, <2>1, <2>2, <2>3, <2>4, <2>5 DEF StepBook, RunOf
<1>6. MailBook'
  <2> SUFFICES ASSUME NEW t \in Mates, NEW i \in 1..Len(inbox'[t]) PROVE MadeMail(inbox[t][i])'
    BY DEF MailBook
  <2>1. MadeMail(inbox'[t][i])
    BY <1>1 DEF Moved
  <2>2. inbox'[t][i].task \in Tasks \cup {NoTask}
    <3>1. inbox'[t] \in Seq(Mail)
      BY <1>1 DEF Types
    <3>2. inbox'[t][i] \in Mail
      BY <3>1
    <3> QED BY <3>2 DEF Mail
  <2> QED BY <1>4, <2>1, <2>2 DEF MadeMail, RunOf
<1>7. PromptBook'
  <2> SUFFICES ASSUME slow' = 0 PROVE PromptBook'
    BY DEF PromptBook
  <2>1. slow = 0 /\ PromptMove(k)
    BY DEF Passed, StepFrame, SwarmInv, Types
  <2>2. \A r \in Runs: run'[r].pc # "telling"
    BY <1>2, <2>1 DEF SwarmInv, PromptBook
  <2>3. \A j \in Tasks: step'[j].pc \notin {"dispatched", "waiting", "reporting"}
    BY <1>1, <2>1 DEF SwarmInv, PromptBook, PromptMove, StepMove
  <2> QED BY <2>1, <2>2, <2>3 DEF PromptBook, PromptMove
<1> QED BY <1>5, <1>6, <1>7

LEMMA PassedCounts ==
    ASSUME SwarmInv, NEW k \in Tasks, MayMove(k), Passed(k)
    PROVE  QuietBook' /\ StatusBook' /\ CancelBook'
<1>1. Types /\ Types' /\ StepMove(k) /\ TasksMove(k) /\ StepFrame /\ RunOf(k) \in Runs
  BY TaskIs DEF SwarmInv, Passed
<1>2. \A r \in Runs: /\ run'[r].pc = run[r].pc /\ run'[r].plan = run[r].plan
                     /\ run'[r].outcome = run[r].outcome
  BY <1>1, FinishesRuns
<1>3. \A r \in Runs: InFlight(r)' <=> InFlight(r)
  BY <1>2 DEF InFlight
<1>4. /\ swarm'.status = swarm.status /\ swarm'.current = swarm.current /\ swarm'.asked = swarm.asked
      /\ overlapped' = overlapped /\ asked' = asked /\ cancel' = cancel
      /\ foreign' = foreign /\ cancels' = cancels /\ kicks' = kicks /\ (slow' = 0 => slow = 0)
  BY <1>1 DEF StepFrame, Types, clients
<1>5. QuietBook'
  <2> SUFFICES ASSUME foreign' = 0, slow' = 0 PROVE QuietBook'
    BY DEF QuietBook
  <2>1. QuietBook /\ foreign = 0 /\ slow = 0 /\ QuietMove(k)
    BY <1>4 DEF SwarmInv, Passed
  <2>2. \A t \in Mates: mate'[t].status # "stopped" /\ inbox'[t] = <<>>
    BY <2>1 DEF QuietMove
  <2>3. ASSUME NEW j \in Tasks
        PROVE  /\ step'[j].pc # "collecting"
               /\ step'[j].pc = "executing" => step'[j].mail = j
               /\ task'[j] = "succeeded" => ran'[j] = "succeeded"
               /\ step'[j].pc = "done" => task'[j] \in Terminal
    BY <1>1, <2>1 DEF QuietMove, QuietBook, StepMove
  <2>4. ASSUME NEW j \in Tasks, run'[RunOf(j)].outcome \in {"completed", "failed"},
               ~run'[RunOf(j)].plan.failFast
        PROVE  task'[j] \in Terminal \cup {"none"}
    <3>1. RunOf(j) \in Runs
      BY TaskIs
    <3>2. RunBook(RunOf(k))
      BY <1>1 DEF SwarmInv
    <3>3. j # k
      BY <1>2, <2>4, <3>1, <3>2 DEF MayMove, RunBook
    <3> QED BY <1>2, <2>1, <2>4, <3>1, <3>3 DEF QuietMove, QuietBook
  <2> QED BY <2>2, <2>3, <2>4 DEF QuietBook, RunOf
<1>6. StatusBook'
  <2>1. StatusBook
    BY DEF SwarmInv
  <2> QED BY <1>2, <1>3, <1>4, <2>1 DEF StatusBook
<1>7. CancelBook'
  <2> SUFFICES ASSUME ~overlapped' PROVE CancelBook'
    BY DEF CancelBook
  <2>1. CancelBook /\ ~overlapped
    BY <1>4 DEF SwarmInv
  <2>2. \A q, r \in Runs: InFlight(q)' /\ InFlight(r)' => q = r
    BY <1>3, <2>1 DEF CancelBook
  <2>3. swarm'.current # NoRun => InFlight(swarm.current)'
    <3>1. swarm.current \in Runs \cup {NoRun}
      BY <1>1 DEF Types
    <3>2. swarm.current # NoRun => run'[swarm.current].pc = run[swarm.current].pc
      BY <1>2, <3>1
    <3> QED BY <1>4, <2>1, <3>2 DEF CancelBook, InFlight
  <2>4. \A r \in asked': /\ run'[r].pc # "none" /\ run'[r].outcome # "completed"
                         /\ run'[r].pc \notin {"telling", "ended"} => swarm'.asked
    BY <1>1, <1>2, <1>4, <2>1 DEF CancelBook, Types
  <2>5. ASSUME NEW j \in Tasks, task'[j] = "cancelled", run'[RunOf(j)].pc \in {"created", "seq", "gather"},
               step'[j].pc \in {"none", "queued", "dispatched"}
        PROVE  swarm'.asked
    <3>1. RunOf(j) \in Runs
      BY TaskIs
    <3>2. j # k
      BY <1>1, <2>5 DEF TasksMove, StepMove, Works, Finishes, Working
    <3>3. task[j] = "cancelled" /\ step'[j] = step[j]
      BY <1>1, <2>5, <3>2 DEF TasksMove, StepMove
    <3> QED BY <1>2, <1>4, <2>1, <2>5, <3>1, <3>3 DEF CancelBook
  <2> QED BY <2>2, <2>3, <2>4, <2>5 DEF CancelBook, RunOf
<1> QED BY <1>5, <1>6, <1>7

\* A step of a run that goes on keeps the books.
LEMMA PassedKeeps ==
    ASSUME SwarmInv, NEW k \in Tasks, MayMove(k), Passed(k)
    PROVE  SwarmInv'
<1>1. Types'
  BY DEF Passed
<1> QED BY <1>1, PassedPlaces, PassedBooks, PassedCounts DEF SwarmInv

-----------------------------------------------------------------------------
\* A step that is over, or says so to its handler.
SwarmType == [status: RunStatus, current: Runs \cup {NoRun}, asked: BOOLEAN, active: SUBSET Tasks]

Placed(k) ==
    /\ StepMove(k) /\ step' \in [Tasks -> StepType] /\ run' \in [Runs -> RunType]
    /\ turn' \in Runs \cup {NoRun}
    /\ swarm' \in SwarmType /\ swarm' = [swarm EXCEPT !.active = swarm'.active]
    /\ slow' \in Nat /\ slow' >= slow

Ending(k) ==
    /\ Placed(k)
    /\ step'[k].pc \in {"done", "reporting"} /\ step'[k].mail = NoTask
    /\ slow' = 0 => step'[k].pc = "done"

LEMMA SwarmActive ==
    ASSUME Types, NEW A \in SUBSET Tasks, swarm' = [swarm EXCEPT !.active = A]
    PROVE  swarm' \in SwarmType /\ swarm' = [swarm EXCEPT !.active = swarm'.active]
  BY DEF Types, SwarmType

LEMMA DoneEnds ==
    ASSUME Types, NEW k \in Tasks, MayMove(k), NEW ok \in BOOLEAN, Done(k, ok), slow' = slow
    PROVE  Ending(k)
<1>1. /\ k[2] \in 1..NSteps /\ RunOf(k) \in Runs /\ NSteps \in Nat
  BY TaskIs, SwarmAssumption DEF Steps
<1>2. /\ step' = [step EXCEPT ![k] = [Idle EXCEPT !.pc = "done", !.ok = ok]]
      /\ [Idle EXCEPT !.pc = "done", !.ok = ok] \in StepType
      /\ swarm' = [swarm EXCEPT !.active = swarm.active \ {k}]
  BY IdleIs DEF Done
<1>3. step' \in [Tasks -> StepType] /\ (\A j \in Tasks: j # k => step'[j] = step[j])
  BY <1>2 DEF Types
<1>4. step'[k].pc = "done" /\ step'[k].mail = NoTask
  BY <1>2 DEF Types, Idle
<1>5. swarm' \in SwarmType /\ swarm' = [swarm EXCEPT !.active = swarm'.active]
  <2>1. swarm.active \ {k} \in SUBSET Tasks
    BY DEF Types
  <2> QED BY <1>2, <2>1, SwarmActive
<1>6. run' \in [Runs -> RunType] /\ turn' \in Runs \cup {NoRun}
  <2>1. CASE run[RunOf(k)].pc = "seq"
    <3>1. run[RunOf(k)].at + 1 \in 1..(NSteps + 1)
      BY <1>1, <2>1 DEF MayMove
    <3>2. PICK q \in Runs: q = RunOf(k)
      BY <1>1
    <3>3. run' = [run EXCEPT ![q].at = @ + 1] /\ turn' = q
      BY <2>1, <3>2 DEF Done
    <3>4. run[q] \in RunType /\ run \in [Runs -> RunType]
      BY DEF Types
    <3>5. [run[q] EXCEPT !.at = @ + 1] \in RunType
      BY <3>1, <3>2, <3>4 DEF RunType
    <3> QED BY <3>3, <3>4, <3>5
  <2>2. CASE run[RunOf(k)].pc # "seq"
    BY <2>2 DEF Done, Types
  <2> QED BY <2>1, <2>2
<1>7. StepMove(k)
  BY <1>3, <1>4 DEF StepMove, Finishes, Done
<1>8. slow' \in Nat /\ slow' >= slow
  BY DEF Types
<1> QED BY <1>3, <1>4, <1>5, <1>6, <1>7, <1>8 DEF Ending, Placed

LEMMA ReportEnds ==
    ASSUME Types, NEW k \in Tasks, MayMove(k), NEW ok \in BOOLEAN, Report(k, ok)
    PROVE  Ending(k)
<1>1. CASE Done(k, ok) /\ UNCHANGED slow
  BY <1>1, DoneEnds
<1>2. CASE Reporting(k, ok)
  <2>1. /\ step' = [step EXCEPT ![k] = [Idle EXCEPT !.pc = "reporting", !.ok = ok]]
        /\ [Idle EXCEPT !.pc = "reporting", !.ok = ok] \in StepType
        /\ swarm' = [swarm EXCEPT !.active = swarm.active \cup {k}]
    BY <1>2, IdleIs DEF Reporting
  <2>2. step' \in [Tasks -> StepType] /\ (\A j \in Tasks: j # k => step'[j] = step[j])
    BY <2>1 DEF Types
  <2>3. step'[k].pc = "reporting" /\ step'[k].mail = NoTask
    BY <2>1 DEF Types, Idle
  <2>4. swarm' \in SwarmType /\ swarm' = [swarm EXCEPT !.active = swarm'.active]
    <3>1. swarm.active \cup {k} \in SUBSET Tasks
      BY DEF Types
    <3> QED BY <2>1, <3>1, SwarmActive
  <2>5. run' = run /\ turn' = NoRun /\ slow' = slow + 1
    BY <1>2 DEF Reporting, HandlerSuspends
  <2>6. run' \in [Runs -> RunType] /\ slow' \in Nat /\ slow' >= slow /\ slow' # 0
    BY <2>5 DEF Types
  <2>7. StepMove(k)
    BY <2>2, <2>3, <2>5 DEF StepMove, Works, Working
  <2> QED BY <2>2, <2>3, <2>4, <2>5, <2>6, <2>7 DEF Ending, Placed
<1> QED BY <1>1, <1>2 DEF Report

\* What run_agent leaves of the teammate.
Freed(k) ==
    /\ step[k].pc = "executing"
    /\ mate' = [mate EXCEPT ![step[k].mate] =
                  [status |-> IF @.status = "stopped" THEN "stopped" ELSE "idle", current |-> NoTask]]

MatesMove(k) == mate' = mate \/ Freed(k)

LEMMA MatesMoveIs ==
    ASSUME SwarmInv, NEW k \in Tasks, MatesMove(k), StepMove(k), step'[k].pc # "executing"
    PROVE  /\ mate' \in [Mates -> MateType]
           /\ \A t \in Mates: mate[t].status # "stopped" => mate'[t].status # "stopped"
           /\ slow = 0 => \A j \in Tasks: step'[j].pc = "executing" =>
                 mate'[step'[j].mate].status \in {"running", "stopped"} /\ mate'[step'[j].mate].current = j
<1>1. CASE mate' = mate
  BY <1>1 DEF SwarmInv, Types, PromptBook, StepMove
<1>2. CASE Freed(k)
  <2> DEFINE t == step[k].mate
  <2> DEFINE x == [status |-> IF mate[t].status = "stopped" THEN "stopped" ELSE "idle", current |-> NoTask]
  <2>1. t \in Mates
    BY <1>2 DEF Freed, SwarmInv, StepBook
  <2>2. x \in MateType /\ x.status \in {"idle", "stopped"} /\ (mate[t].status # "stopped" => x.status = "idle")
    BY DEF MateType
  <2>3. mate' = [mate EXCEPT ![t] = x] /\ mate \in [Mates -> MateType]
    BY <1>2 DEF Freed, SwarmInv, Types
  <2>4. slow = 0 => mate[t].current = k
    BY <1>2 DEF Freed, SwarmInv, PromptBook
  <2> HIDE DEF x, t
  <2>5. /\ mate' \in [Mates -> MateType]
        /\ \A u \in Mates: mate[u].status # "stopped" => mate'[u].status # "stopped"
    BY <2>1, <2>2, <2>3
  <2>6. ASSUME slow = 0, NEW j \in Tasks, step'[j].pc = "executing"
        PROVE  mate'[step'[j].mate].status \in {"running", "stopped"} /\ mate'[step'[j].mate].current = j
    <3>1. j # k /\ step'[j] = step[j]
      BY <2>6 DEF StepMove
    <3>2. /\ mate[step[j].mate].status \in {"running", "stopped"} /\ mate[step[j].mate].current = j
          /\ step[j].mate \in Mates
      BY <2>6, <3>1 DEF SwarmInv, PromptBook, StepBook
    <3>3. step[j].mate # t
      BY <2>4, <2>6, <3>1, <3>2
    <3> QED BY <2>3, <3>1, <3>2, <3>3
  <2> QED BY <2>5, <2>6
<1> QED BY <1>1, <1>2 DEF MatesMove

LEMMA EndPasses ==
    ASSUME SwarmInv, NEW k \in Tasks, MayMove(k), Ending(k), MatesMove(k), TasksMove(k),
           task' \in [Tasks -> TaskStatus], ran' \in [Tasks -> {"no", "succeeded", "failed"}],
           UNCHANGED <<inbox, cancel, clients, asked, overlapped>>,
           foreign = 0 /\ slow = 0 =>
              /\ task'[k] \in Terminal
              /\ \A j \in Tasks: (j # k => task'[j] = task[j])
                                 /\ (task'[j] = "succeeded" => ran'[j] = "succeeded")
    PROVE  Passed(k)
<1>1. Placed(k) /\ StepMove(k) /\ step'[k].pc \in {"done", "reporting"} /\ step'[k].mail = NoTask
      /\ (slow' = 0 => slow = 0 /\ step'[k].pc = "done")
  BY DEF Ending, Placed, SwarmInv, Types
<1>2. /\ mate' \in [Mates -> MateType]
      /\ \A t \in Mates: mate[t].status # "stopped" => mate'[t].status # "stopped"
      /\ slow = 0 => \A j \in Tasks: step'[j].pc = "executing" =>
            mate'[step'[j].mate].status \in {"running", "stopped"} /\ mate'[step'[j].mate].current = j
  BY <1>1, MatesMoveIs
<1>3. Types'
  BY <1>1, <1>2 DEF SwarmInv, Types, Placed, SwarmType, clients
<1>4. StepFrame
  BY <1>1 DEF Placed, StepFrame
<1>5. Moved(k)
  BY <1>1 DEF Moved, SwarmInv, MailBook
<1>6. QuietMove(k)
  BY <1>1, <1>2 DEF QuietMove, SwarmInv, QuietBook, clients
<1>7. PromptMove(k)
  BY <1>1, <1>2 DEF PromptMove
<1> QED BY <1>1, <1>3, <1>4, <1>5, <1>6, <1>7 DEF Passed

-----------------------------------------------------------------------------
\* A step that is suspended.
Halting(k, place, t, mail) ==
    /\ Placed(k) /\ slow' = slow
    /\ step'[k].pc = place /\ step'[k].mate = t /\ step'[k].mail = mail

LEMMA SuspendHalts ==
    ASSUME Types, NEW k \in Tasks, NEW place \in Working, NEW t \in Mates, NEW mail \in Tasks \cup {NoTask},
           NEW ok \in BOOLEAN, NEW res \in {"none", "succeeded", "failed"},
           Suspend(k, place, t, mail, ok, res),
           swarm' \in SwarmType, swarm' = [swarm EXCEPT !.active = swarm'.active]
    PROVE  Halting(k, place, t, mail)
<1> DEFINE x == [pc |-> place, mate |-> t, mail |-> mail, ok |-> ok, result |-> res]
<1>1. x \in StepType /\ x.pc = place /\ x.mate = t /\ x.mail = mail
  BY DEF StepType, StepPcs
<1>2. step' = [step EXCEPT ![k] = x] /\ turn' = NoRun /\ run' = run /\ slow' = slow
  BY DEF Suspend
<1> HIDE DEF x
<1>3. step' \in [Tasks -> StepType] /\ step'[k] = x /\ (\A j \in Tasks: j # k => step'[j] = step[j])
  BY <1>1, <1>2 DEF Types
<1>4. StepMove(k)
  BY <1>1, <1>2, <1>3 DEF StepMove, Works
<1>5. run' \in [Runs -> RunType] /\ turn' \in Runs \cup {NoRun} /\ slow' \in Nat /\ slow' >= slow
  BY <1>2 DEF Types
<1> QED BY <1>1, <1>2, <1>3, <1>4, <1>5 DEF Halting, Placed

\* A mate's inbox as it is handled, and what that leaves of it.
LEMMA BoxIs ==
    ASSUME NEW box \in Seq(Mail), box # <<>>
    PROVE  /\ Head(box) \in Mail /\ Tail(box) \in Seq(Mail) /\ Len(box) \in Nat \ {0}
           /\ Head(box) = box[1]
           /\ \A i \in 1..Len(Tail(box)): i + 1 \in 1..Len(box) /\ Tail(box)[i] = box[i + 1]
  OBVIOUS

LEMMA Single == ASSUME NEW m \in Mail PROVE Append(<<>>, m) # <<>> /\ Head(Append(<<>>, m)) = m /\ Tail(Append(<<>>, m)) = <<>>
  OBVIOUS

\* The teammate of a step that goes on, and the mail it is asked to handle.
Asks(k, t, box, st) ==
    /\ t \in Mates /\ box \in Seq(Mail) /\ (\A i \in 1..Len(box): MadeMail(box[i]))
    /\ st \in {"idle", "waiting", "running", "stopped"}
    /\ swarm' \in SwarmType /\ swarm' = [swarm EXCEPT !.active = swarm'.active]
    /\ UNCHANGED <<cancel, clients, ran, asked, overlapped>>
    /\ task' = task \/ task' = [task EXCEPT ![k] = "running"]
    /\ slow = 0 => t \in Available /\ box # <<>>
    /\ slow = 0 /\ foreign = 0 => box = Append(<<>>, TaskMail(k)) /\ st = "waiting"

LEMMA AsksMoves ==
    ASSUME SwarmInv, NEW k \in Tasks, MayMove(k), NEW t, NEW box, NEW st, Asks(k, t, box, st),
           step'[k].pc # "dispatched"
    PROVE  /\ task' \in [Tasks -> TaskStatus] /\ TasksMove(k)
           /\ \A j \in Tasks: (j # k => task'[j] = task[j]) /\ (task'[j] = "succeeded" => task[j] = "succeeded")
<1>1. task \in [Tasks -> TaskStatus] /\ "running" \in TaskStatus
  BY DEF SwarmInv, Types, TaskStatus
<1>2. ~Unmade(RunOf(k))
  BY DEF MayMove, Unmade
<1> QED BY <1>1, <1>2 DEF Asks, TasksMove

\* How a handled teammate is left; one step may execute there if nobody did.
LEMMA HaltPasses ==
    ASSUME SwarmInv, NEW k \in Tasks, MayMove(k), NEW t, NEW box, NEW st, Asks(k, t, box, st),
           NEW place \in {"collecting", "executing", "waiting"}, NEW mail \in Tasks \cup {NoTask},
           Halting(k, place, t, mail),
           NEW m \in MateType, mate' = [mate EXCEPT ![t] = m],
           NEW left \in Seq(Mail), inbox' = [inbox EXCEPT ![t] = left],
           \A i \in 1..Len(left): MadeMail(left[i]),
           mail # NoTask => ~Unmade(RunOf(mail)),
           slow = 0 => place # "waiting",
           place = "executing" => m.status = "running" /\ m.current = k,
           slow = 0 /\ foreign = 0 => place = "executing" /\ mail = k /\ left = <<>>
    PROVE  Passed(k)
<1>1. /\ Placed(k) /\ StepMove(k) /\ slow' = slow
      /\ step'[k].pc = place /\ step'[k].mate = t /\ step'[k].mail = mail
  BY DEF Halting, Placed
<1>2. /\ task' \in [Tasks -> TaskStatus] /\ TasksMove(k)
      /\ \A j \in Tasks: (j # k => task'[j] = task[j]) /\ (task'[j] = "succeeded" => task[j] = "succeeded")
  BY <1>1, AsksMoves
<1>3. t \in Mates
  BY DEF Asks
<1>4. mate' \in [Mates -> MateType] /\ mate'[t] = m /\ (\A u \in Mates: u # t => mate'[u] = mate[u])
  BY <1>3 DEF SwarmInv, Types
<1>5. inbox' \in [Mates -> Seq(Mail)] /\ inbox'[t] = left /\ (\A u \in Mates: u # t => inbox'[u] = inbox[u])
  BY <1>3 DEF SwarmInv, Types
<1>6. Types'
  BY <1>1, <1>2, <1>4, <1>5 DEF SwarmInv, Types, Placed, SwarmType, clients, Asks
<1>7. StepFrame
  BY <1>1 DEF Placed, StepFrame, Asks
<1>8. Moved(k)
  <2>1. \A u \in Mates: \A i \in 1..Len(inbox'[u]): MadeMail(inbox'[u][i])
    BY <1>5 DEF SwarmInv, MailBook
  <2> QED BY <1>1, <1>3, <2>1 DEF Moved
<1>9. QuietMove(k)
  <2> SUFFICES ASSUME foreign = 0, slow = 0 PROVE QuietMove(k)
    BY <1>1 DEF QuietMove
  <2>1. \A u \in Mates: mate'[u].status # "stopped" /\ inbox'[u] = <<>>
    BY <1>4, <1>5 DEF SwarmInv, QuietBook
  <2>2. \A j \in Tasks: task'[j] = "succeeded" => ran'[j] = "succeeded"
    BY <1>2 DEF SwarmInv, QuietBook, Asks
  <2> QED BY <1>1, <1>2, <2>1, <2>2 DEF QuietMove
<1>10. PromptMove(k)
  <2> SUFFICES ASSUME slow = 0 PROVE PromptMove(k)
    BY <1>1 DEF PromptMove
  <2>1. ASSUME NEW j \in Tasks, step'[j].pc = "executing"
        PROVE  mate'[step'[j].mate].status \in {"running", "stopped"} /\ mate'[step'[j].mate].current = j
    <3>1. CASE j = k
      BY <1>1, <1>4, <2>1, <3>1
    <3>2. CASE j # k
      <4>1. step'[j] = step[j]
        BY <1>1, <3>2 DEF StepMove
      <4>2. /\ mate[step[j].mate].status \in {"running", "stopped"} /\ mate[step[j].mate].current = j
            /\ step[j].mate \in Mates
        BY <2>1, <4>1 DEF SwarmInv, PromptBook, StepBook
      <4>3. mate[t].status \notin {"running", "stopped"}
        BY DEF Asks, Available
      <4> QED BY <1>4, <4>1, <4>2, <4>3
    <3> QED BY <3>1, <3>2
  <2> QED BY <1>1, <2>1 DEF PromptMove
<1> QED BY <1>1, <1>2, <1>6, <1>7, <1>8, <1>9, <1>10 DEF Passed

LEMMA HandlePasses ==
    ASSUME SwarmInv, NEW k \in Tasks, MayMove(k), NEW t, NEW box, NEW st, Asks(k, t, box, st),
           box # <<>>, Handle(k, t, box, st)
    PROVE  Passed(k)
<1>1. /\ t \in Mates /\ box \in Seq(Mail) /\ Types
      /\ swarm' \in SwarmType /\ swarm' = [swarm EXCEPT !.active = swarm'.active]
  BY DEF Asks, SwarmInv
<1>2. /\ Head(box) \in Mail /\ Tail(box) \in Seq(Mail)
      /\ MadeMail(Head(box)) /\ \A i \in 1..Len(Tail(box)): MadeMail(Tail(box)[i])
  BY <1>1, BoxIs DEF Asks
<1>3. inbox' = [inbox EXCEPT ![t] = Tail(box)]
  BY DEF Handle
<1>4. slow = 0 /\ foreign = 0 => Head(box) = TaskMail(k) /\ Tail(box) = <<>> /\ st = "waiting"
  <2>1. TaskMail(k) \in Mail
    BY DEF TaskMail, Mail
  <2> QED BY <2>1, Single DEF Asks
<1>5. mate[t] \in MateType
  BY <1>1 DEF Types
<1>6. CASE Head(box).kind = "note" /\ TakeNote(k, t, st)
  <2>1. [mate[t] EXCEPT !.status = st] \in MateType
    BY <1>5 DEF Asks, MateType
  <2>2. mate' = [mate EXCEPT ![t] = [mate[t] EXCEPT !.status = st]]
    BY <1>6 DEF TakeNote
  <2>3. Halting(k, "collecting", t, NoTask)
    BY <1>1, <1>6, SuspendHalts DEF TakeNote, Collect, Working
  <2>4. ~(slow = 0 /\ foreign = 0)
    BY <1>4, <1>6 DEF TaskMail
  <2> QED BY <1>2, <1>3, <2>1, <2>2, <2>3, <2>4, HaltPasses
<1>7. CASE Head(box).kind = "stop" /\ TakeStop(k, t)
  <2>1. [mate[t] EXCEPT !.status = "stopped"] \in MateType
    BY <1>5 DEF MateType
  <2>2. mate' = [mate EXCEPT ![t] = [mate[t] EXCEPT !.status = "stopped"]]
    BY <1>7 DEF TakeStop
  <2>3. Halting(k, "collecting", t, NoTask)
    BY <1>1, <1>7, SuspendHalts DEF TakeStop, Collect, Working
  <2>4. ~(slow = 0 /\ foreign = 0)
    BY <1>4, <1>7 DEF TaskMail
  <2> QED BY <1>2, <1>3, <2>1, <2>2, <2>3, <2>4, HaltPasses
<1>8. CASE st \in {"running", "stopped"} /\ Refuse(k, t)
  <2>1. mate' = [mate EXCEPT ![t] = mate[t]]
    BY <1>1, <1>8 DEF Refuse, Types
  <2>2. Halting(k, "collecting", t, NoTask)
    BY <1>1, <1>8, SuspendHalts DEF Refuse, Collect, Working
  <2>3. ~(slow = 0 /\ foreign = 0)
    BY <1>4, <1>8
  <2> QED BY <1>2, <1>3, <1>5, <2>1, <2>2, <2>3, HaltPasses
<1>9. CASE Head(box).kind \in {"task", "request"} /\ Execute(k, t, Head(box).task)
  <2> DEFINE m == [status |-> "running", current |-> k]
             mail == Head(box).task
  <2>1. m \in MateType /\ m.status = "running" /\ m.current = k
    BY DEF MateType
  <2>2. mate' = [mate EXCEPT ![t] = m]
    BY <1>9 DEF Execute
  <2>3. mail \in Tasks \cup {NoTask} /\ (mail # NoTask => ~Unmade(RunOf(mail)))
    BY <1>2 DEF Mail, MadeMail
  <2>4. Suspend(k, "executing", t, mail, FALSE, "none")
    BY <1>9 DEF Execute
  <2>5. slow = 0 /\ foreign = 0 => mail = k
    BY <1>4 DEF TaskMail
  <2> HIDE DEF m, mail
  <2>6. Halting(k, "executing", t, mail)
    BY <1>1, <2>3, <2>4, SuspendHalts DEF Working
  <2> QED BY <1>2, <1>3, <1>4, <2>1, <2>2, <2>3, <2>5, <2>6, HaltPasses
<1> QED BY <1>6, <1>7, <1>8, <1>9 DEF Handle

LEMMA ProcessPasses ==
    ASSUME SwarmInv, NEW k \in Tasks, MayMove(k), NEW t, NEW box, Asks(k, t, box, "waiting"),
           Process(k, t, box)
    PROVE  Passed(k)
<1>1. /\ t \in Mates /\ box \in Seq(Mail) /\ Types /\ (\A i \in 1..Len(box): MadeMail(box[i]))
      /\ swarm' \in SwarmType /\ swarm' = [swarm EXCEPT !.active = swarm'.active]
  BY DEF Asks, SwarmInv
<1>2. mate[t] \in MateType /\ inbox[t] \in Seq(Mail)
  BY <1>1 DEF Types
<1>3. CASE /\ mate[t].status = "stopped" /\ inbox' = [inbox EXCEPT ![t] = box]
           /\ Collect(k, t, FALSE, "none") /\ UNCHANGED mate
  <2>1. mate' = [mate EXCEPT ![t] = mate[t]]
    BY <1>1, <1>3 DEF Types
  <2>2. Halting(k, "collecting", t, NoTask)
    BY <1>1, <1>3, SuspendHalts DEF Collect, Working
  <2>3. slow # 0
    BY <1>3 DEF Asks, Available
  <2> QED BY <1>1, <1>2, <1>3, <2>1, <2>2, <2>3, HaltPasses
<1>4. CASE box # <<>> /\ Handle(k, t, box, "waiting")
  BY <1>4, HandlePasses
<1>5. CASE /\ box = <<>> /\ mate' = [mate EXCEPT ![t].status = "waiting"]
           /\ Suspend(k, "waiting", t, NoTask, FALSE, "none") /\ UNCHANGED inbox
  <2>1. [mate[t] EXCEPT !.status = "waiting"] \in MateType
    BY <1>2 DEF MateType
  <2>2. Halting(k, "waiting", t, NoTask)
    BY <1>1, <1>5, SuspendHalts DEF Working
  <2>3. slow # 0
    BY <1>5 DEF Asks
  <2>4. inbox' = [inbox EXCEPT ![t] = inbox[t]]
    BY <1>1, <1>5 DEF Types
  <2>5. \A i \in 1..Len(inbox[t]): MadeMail(inbox[t][i])
    BY <1>1 DEF SwarmInv, MailBook
  <2> QED BY <1>2, <1>5, <2>1, <2>2, <2>3, <2>4, <2>5, HaltPasses
<1> QED BY <1>3, <1>4, <1>5 DEF Process

\* A step that is cancelled, or finds no teammate.
LEMMA SkipPasses ==
    ASSUME SwarmInv, NEW k \in Tasks, MayMove(k), Ending(k), NEW to \in {"cancelled", "failed"},
           task' = [task EXCEPT ![k] = to],
           UNCHANGED <<mate, inbox, ran, cancel, clients, asked, overlapped>>
    PROVE  Passed(k)
<1>1. task \in [Tasks -> TaskStatus] /\ to \in TaskStatus /\ to \in Terminal
  BY DEF SwarmInv, Types, TaskStatus, Terminal
<1>2. ~Unmade(RunOf(k))
  BY DEF MayMove, Unmade
<1>3. step'[k].pc # "dispatched"
  BY DEF Ending
<1>4. TasksMove(k)
  BY <1>1, <1>2, <1>3 DEF TasksMove
<1>5. foreign = 0 /\ slow = 0 =>
        /\ task'[k] \in Terminal
        /\ \A j \in Tasks: (j # k => task'[j] = task[j]) /\ (task'[j] = "succeeded" => ran'[j] = "succeeded")
  BY <1>1 DEF SwarmInv, QuietBook
<1> QED BY <1>1, <1>4, <1>5, EndPasses DEF MatesMove, SwarmInv, Types

\* A mail that is put into an inbox.
LEMMA AppendIs ==
    ASSUME NEW box \in Seq(Mail), NEW m \in Mail
    PROVE  /\ Append(box, m) \in Seq(Mail) /\ Append(box, m) # <<>>
           /\ \A i \in 1..Len(Append(box, m)):
                 (i \in 1..Len(box) /\ Append(box, m)[i] = box[i]) \/ Append(box, m)[i] = m
  OBVIOUS

LEMMA TaskMailIs ==
    ASSUME NEW k \in Tasks, MayMove(k)
    PROVE  TaskMail(k) \in Mail /\ MadeMail(TaskMail(k))
  BY TaskIs DEF TaskMail, Mail, MadeMail, MayMove, Unmade

LEMMA DispatchPasses ==
    ASSUME SwarmInv, NEW k \in Tasks, MayMove(k), Dispatch(k),
           step[k].pc \in {"none", "queued"}, UNCHANGED <<cancel, clients, ran, asked, overlapped>>
    PROVE  Passed(k)
<1>1. Types
  BY DEF SwarmInv
<1>2. CASE task' = [task EXCEPT ![k] = "cancelled"] /\ Done(k, FALSE) /\ UNCHANGED <<mate, inbox, slow>>
  BY <1>1, <1>2, DoneEnds, SkipPasses
<1>3. CASE /\ task' = [task EXCEPT ![k] = IF @ = "cancelled" THEN @ ELSE "failed"]
           /\ Report(k, FALSE) /\ UNCHANGED <<mate, inbox>>
  <2>1. \E to \in {"cancelled", "failed"}: task' = [task EXCEPT ![k] = to]
    BY <1>3
  <2> QED BY <1>1, <1>3, <2>1, ReportEnds, SkipPasses
<1>4. ASSUME NEW t \in Available, task' = [task EXCEPT ![k] = "running"],
             Process(k, t, Append(inbox[t], TaskMail(k))),
             swarm' = [swarm EXCEPT !.active = @ \cup {k}]
      PROVE  Passed(k)
  <2> DEFINE box == Append(inbox[t], TaskMail(k))
  <2>1. t \in Mates /\ inbox[t] \in Seq(Mail)
    BY <1>1 DEF Types, Available
  <2>2. box \in Seq(Mail) /\ box # <<>> /\ \A i \in 1..Len(box): MadeMail(box[i])
    BY <2>1, AppendIs, TaskMailIs DEF SwarmInv, MailBook
  <2>3. swarm' \in SwarmType /\ swarm' = [swarm EXCEPT !.active = swarm'.active]
    <3>1. swarm.active \cup {k} \in SUBSET Tasks
      BY <1>1 DEF Types
    <3> QED BY <1>1, <1>4, <3>1, SwarmActive
  <2>4. slow = 0 /\ foreign = 0 => box = Append(<<>>, TaskMail(k))
    BY <2>1 DEF SwarmInv, QuietBook
  <2> HIDE DEF box
  <2>5. Asks(k, t, box, "waiting")
    BY <1>4, <2>1, <2>2, <2>3, <2>4 DEF Asks
  <2>6. Process(k, t, box)
    BY <1>4 DEF box
  <2> QED BY <2>5, <2>6, ProcessPasses
<1>5. ASSUME NEW t \in Available, HandlerSuspends, task' = [task EXCEPT ![k] = "dispatched"],
             inbox' = [inbox EXCEPT ![t] = Append(@, TaskMail(k))],
             step' = [step EXCEPT ![k] = [Idle EXCEPT !.pc = "dispatched", !.mate = t]],
             UNCHANGED <<mate, run>>, swarm' = [swarm EXCEPT !.active = @ \cup {k}]
      PROVE  Passed(k)
  <2> DEFINE x == [Idle EXCEPT !.pc = "dispatched", !.mate = t]
             box == Append(inbox[t], TaskMail(k))
  <2>1. t \in Mates /\ inbox[t] \in Seq(Mail)
    BY <1>1 DEF Types, Available
  <2>2. x \in StepType /\ x.pc = "dispatched" /\ x.mate = t /\ x.mail = NoTask
    BY <2>1 DEF Idle, StepType, StepPcs, Working
  <2>3. box \in Seq(Mail) /\ \A i \in 1..Len(box): MadeMail(box[i])
    BY <2>1, AppendIs, TaskMailIs DEF SwarmInv, MailBook
  <2>4. step' = [step EXCEPT ![k] = x] /\ inbox' = [inbox EXCEPT ![t] = box]
    BY <1>5
  <2>5. swarm' \in SwarmType /\ swarm' = [swarm EXCEPT !.active = swarm'.active]
    <3>1. swarm.active \cup {k} \in SUBSET Tasks
      BY <1>1 DEF Types
    <3> QED BY <1>1, <1>5, <3>1, SwarmActive
  <2>6. turn' = NoRun /\ slow' \in Nat /\ slow' > slow /\ slow' # 0
    BY <1>1, <1>5 DEF HandlerSuspends, Types
  <2> HIDE DEF x, box
  <2>7. step' \in [Tasks -> StepType] /\ step'[k] = x /\ (\A j \in Tasks: j # k => step'[j] = step[j])
    BY <1>1, <2>2, <2>4 DEF Types
  <2>8. inbox' \in [Mates -> Seq(Mail)] /\ \A u \in Mates: \A i \in 1..Len(inbox'[u]): MadeMail(inbox'[u][i])
    BY <1>1, <2>1, <2>3, <2>4 DEF Types, SwarmInv, MailBook
  <2>9. StepMove(k)
    BY <1>5, <2>2, <2>6, <2>7 DEF StepMove, Works, Working
  <2>10. task' \in [Tasks -> TaskStatus] /\ TasksMove(k)
    BY <1>1, <1>5, <2>2, <2>7 DEF TasksMove, Types, TaskStatus, MayMove, Unmade
  <2>11. Types'
    BY <1>1, <1>5, <2>5, <2>6, <2>7, <2>8, <2>10 DEF Types, SwarmType, clients
  <2>12. StepFrame /\ QuietMove(k) /\ PromptMove(k)
    BY <1>1, <2>5, <2>6 DEF StepFrame, QuietMove, PromptMove, Types
  <2>13. Moved(k)
    BY <2>1, <2>2, <2>7, <2>8 DEF Moved
  <2> QED BY <2>9, <2>10, <2>11, <2>12, <2>13 DEF Passed
<1> QED BY <1>2, <1>3, <1>4, <1>5 DEF Dispatch

-----------------------------------------------------------------------------
\* What a reply books.
Applied(mail, res) == IF mail \in Tasks THEN [task EXCEPT ![mail] = Booked(mail, res)] ELSE task

LEMMA SettleIs ==
    ASSUME Types, NEW k \in Tasks, MayMove(k), NEW mail \in Tasks \cup {NoTask}, NEW ok \in BOOLEAN,
           NEW res \in {"none", "succeeded", "failed"}, mail # NoTask => res # "none",
           mail # NoTask => ~Unmade(RunOf(mail)),
           Settle(k, mail, ok, res)
    PROVE  /\ Ending(k) /\ task' \in [Tasks -> TaskStatus] /\ TasksMove(k)
           /\ mail = k => /\ task'[k] \in {"cancelled", res}
                          /\ \A j \in Tasks: j # k => task'[j] = task[j]
<1> DEFINE a == Applied(mail, res)
<1> DEFINE settled == IF a[k] \in Terminal THEN a[k]
                      ELSE IF res # "none" THEN res
                      ELSE IF ~ok THEN "failed" ELSE a[k]
<1>1. task' = [a EXCEPT ![k] = settled] /\ Report(k, settled = "succeeded")
  BY DEF Settle, Applied
<1>2. /\ a \in [Tasks -> TaskStatus] /\ (\A j \in Tasks: j # mail => a[j] = task[j])
      /\ mail # NoTask => a[mail] = Booked(mail, res)
  <2>1. CASE mail = NoTask
    BY <2>1, TaskIs DEF Applied, Types
  <2>2. CASE mail # NoTask
    <3>1. Booked(mail, res) \in TaskStatus
      BY <2>2 DEF Booked, TaskStatus, Terminal
    <3> QED BY <2>2, <3>1 DEF Applied, Types
  <2> QED BY <2>1, <2>2
<1>8. settled \in {a[k], res, "failed"} /\ (a[k] \in Terminal => settled = a[k])
  OBVIOUS
<1> HIDE DEF a, settled
<1>3. settled \in TaskStatus /\ task' \in [Tasks -> TaskStatus] /\ task'[k] = settled
      /\ \A j \in Tasks: j # k => task'[j] = a[j]
  BY <1>1, <1>2, <1>8 DEF TaskStatus, Terminal
<1>4. (settled = "succeeded") \in BOOLEAN
  OBVIOUS
<1>5. Ending(k)
  BY <1>1, <1>4, ReportEnds
<1>6. TasksMove(k)
  <2>1. step'[k].pc # "dispatched" /\ ~Unmade(RunOf(k))
    BY <1>5 DEF Ending, MayMove, Unmade
  <2>2. ASSUME NEW j \in Tasks, j # k, task'[j] = "cancelled" PROVE task[j] = "cancelled"
    <3>1. CASE j = mail
      BY <1>2, <1>3, <2>2, <3>1, TaskIs DEF Booked
    <3>2. CASE j # mail
      BY <1>2, <1>3, <2>2, <3>2
    <3> QED BY <3>1, <3>2
  <2>3. ASSUME NEW j \in Tasks, task'[j] # task[j] PROVE ~Unmade(RunOf(j))
    <3>1. CASE j = mail
      BY <3>1, TaskIs
    <3>2. CASE j # mail
      BY <1>2, <1>3, <2>1, <2>3, <3>2
    <3> QED BY <3>1, <3>2
  <2> QED BY <2>1, <2>2, <2>3 DEF TasksMove
<1>7. ASSUME mail = k PROVE task'[k] \in {"cancelled", res} /\ \A j \in Tasks: j # k => task'[j] = task[j]
  <2>1. a[k] \in {"cancelled", res} /\ mail # NoTask
    BY <1>2, <1>7, TaskIs DEF Booked
  <2>2. a[k] \in Terminal
    BY <1>7, <2>1 DEF Terminal
  <2> QED BY <1>2, <1>3, <1>7, <1>8, <2>1, <2>2
<1> QED BY <1>3, <1>5, <1>6, <1>7

LEMMA CollectTimesOutPasses ==
    ASSUME SwarmInv, NEW k \in Tasks, MayMove(k), CollectTimesOut(k)
    PROVE  Passed(k)
<1>1. Types /\ step[k] \in StepType /\ step[k].pc = "collecting"
  BY DEF SwarmInv, Types, CollectTimesOut
<1>2. step[k].ok \in BOOLEAN /\ step[k].result \in {"none", "succeeded", "failed"}
  BY <1>1 DEF StepType
<1>3. Ending(k) /\ task' \in [Tasks -> TaskStatus] /\ TasksMove(k)
  BY <1>1, <1>2, SettleIs DEF CollectTimesOut
<1>4. ~(foreign = 0 /\ slow = 0)
  BY <1>1 DEF SwarmInv, QuietBook
<1> QED BY <1>1, <1>3, <1>4, EndPasses DEF CollectTimesOut, MatesMove, Types

LEMMA ExecReturnsPasses ==
    ASSUME SwarmInv, NEW k \in Tasks, MayMove(k), NEW ok \in BOOLEAN, ExecReturns(k, ok)
    PROVE  Passed(k)
<1> DEFINE res == IF ok THEN "succeeded" ELSE "failed"
<1>1. /\ Types /\ step[k] \in StepType /\ step[k].pc = "executing" /\ step[k].mate \in Mates
      /\ step[k].mail # NoTask => ~Unmade(RunOf(step[k].mail))
  BY DEF SwarmInv, Types, ExecReturns, StepBook
<1>2. step[k].mail \in Tasks \cup {NoTask} /\ res \in {"succeeded", "failed"}
  BY <1>1 DEF StepType
<1>3. Freed(k)
  BY DEF ExecReturns, Freed
<1>4. foreign = 0 /\ slow = 0 => step[k].mail = k /\ step[k].mail # NoTask
  BY <1>1, TaskIs DEF SwarmInv, QuietBook
<1>5. CASE step[k].mail = NoTask
  <2>1. Collect(k, step[k].mate, ok, res) /\ UNCHANGED <<swarm, task, ran>>
    BY <1>5 DEF ExecReturns
  <2>2. swarm' \in SwarmType /\ swarm' = [swarm EXCEPT !.active = swarm'.active]
    BY <1>1, <2>1 DEF Types, SwarmType
  <2>3. Halting(k, "collecting", step[k].mate, NoTask)
    BY <1>1, <1>2, <2>1, <2>2, SuspendHalts DEF Collect, Working
  <2>4. /\ Placed(k) /\ StepMove(k) /\ slow' = slow
        /\ step'[k].pc = "collecting" /\ step'[k].mate = step[k].mate /\ step'[k].mail = NoTask
    BY <2>3 DEF Halting, Placed
  <2>5. /\ mate' \in [Mates -> MateType]
        /\ slow = 0 => \A j \in Tasks: step'[j].pc = "executing" =>
              mate'[step'[j].mate].status \in {"running", "stopped"} /\ mate'[step'[j].mate].current = j
    BY <1>3, <2>4, MatesMoveIs DEF MatesMove
  <2>6. Types'
    BY <1>1, <2>1, <2>4, <2>5 DEF ExecReturns, Types, Placed, SwarmType, clients
  <2>7. StepFrame /\ TasksMove(k)
    BY <1>1, <2>1, <2>2, <2>4 DEF ExecReturns, StepFrame, TasksMove, Placed, Types
  <2>8. Moved(k)
    BY <1>1, <2>4 DEF ExecReturns, Moved, SwarmInv, MailBook
  <2>9. QuietMove(k) /\ PromptMove(k)
    BY <1>4, <1>5, <2>4, <2>5 DEF QuietMove, PromptMove
  <2> QED BY <2>4, <2>6, <2>7, <2>8, <2>9 DEF Passed
<1>6. CASE step[k].mail # NoTask
  <2>1. Settle(k, step[k].mail, ok, res) /\ ran' = [ran EXCEPT ![step[k].mail] = res]
    BY <1>6 DEF ExecReturns
  <2>2. /\ Ending(k) /\ task' \in [Tasks -> TaskStatus] /\ TasksMove(k)
        /\ step[k].mail = k => /\ task'[k] \in {"cancelled", res}
                               /\ \A j \in Tasks: j # k => task'[j] = task[j]
    BY <1>1, <1>2, <2>1, SettleIs
  <2>3. ran' \in [Tasks -> {"no", "succeeded", "failed"}]
    BY <1>1, <1>2, <1>6, <2>1 DEF Types
  <2>4. foreign = 0 /\ slow = 0 =>
          /\ task'[k] \in Terminal
          /\ \A j \in Tasks: (j # k => task'[j] = task[j]) /\ (task'[j] = "succeeded" => ran'[j] = "succeeded")
    <3> SUFFICES ASSUME foreign = 0, slow = 0
                 PROVE  /\ task'[k] \in Terminal
                        /\ \A j \in Tasks: (j # k => task'[j] = task[j])
                                           /\ (task'[j] = "succeeded" => ran'[j] = "succeeded")
      OBVIOUS
    <3>1. step[k].mail = k /\ ran \in [Tasks -> {"no", "succeeded", "failed"}]
      BY <1>1, <1>4 DEF Types
    <3>2. ran'[k] = res /\ \A j \in Tasks: j # k => ran'[j] = ran[j]
      BY <2>1, <3>1
    <3> QED BY <2>2, <3>1, <3>2 DEF SwarmInv, QuietBook, Terminal
  <2> QED BY <1>3, <2>2, <2>3, <2>4, EndPasses DEF MatesMove, ExecReturns
<1> QED BY <1>5, <1>6

LEMMA ReportedPasses ==
    ASSUME SwarmInv, NEW k \in Tasks, MayMove(k), Reported(k)
    PROVE  Passed(k)
<1>1. Types /\ step[k] \in StepType /\ step[k].pc = "reporting" /\ slow # 0
  BY DEF SwarmInv, Types, Reported, PromptBook
<1>2. step[k].ok \in BOOLEAN
  BY <1>1 DEF StepType
<1>3. Ending(k)
  BY <1>1, <1>2, DoneEnds DEF Reported
<1>4. TasksMove(k)
  BY <1>3 DEF Reported, TasksMove, Ending
<1> QED BY <1>1, <1>3, <1>4, EndPasses DEF Reported, MatesMove, Types

LEMMA DispatchedPasses ==
    ASSUME SwarmInv, NEW k \in Tasks, MayMove(k), Dispatched(k)
    PROVE  Passed(k)
<1>1. Types /\ step[k].pc = "dispatched" /\ slow # 0 /\ step[k].mate \in Mates
  BY DEF SwarmInv, Dispatched, PromptBook, StepBook
<1>2. CASE task' = [task EXCEPT ![k] = "cancelled"] /\ Done(k, FALSE) /\ UNCHANGED <<mate, inbox, slow>>
  BY <1>1, <1>2, DoneEnds, SkipPasses DEF Dispatched
<1>3. CASE /\ task' = [task EXCEPT ![k] = "running"]
           /\ Process(k, step[k].mate, inbox[step[k].mate]) /\ UNCHANGED swarm
  <2>1. inbox[step[k].mate] \in Seq(Mail)
        /\ \A i \in 1..Len(inbox[step[k].mate]): MadeMail(inbox[step[k].mate][i])
    BY <1>1 DEF Types, SwarmInv, MailBook
  <2>2. swarm' \in SwarmType /\ swarm' = [swarm EXCEPT !.active = swarm'.active]
    BY <1>1, <1>3 DEF Types, SwarmType
  <2>3. Asks(k, step[k].mate, inbox[step[k].mate], "waiting")
    BY <1>1, <1>3, <2>1, <2>2 DEF Asks, Dispatched
  <2> QED BY <1>3, <2>3, ProcessPasses
<1> QED BY <1>2, <1>3 DEF Dispatched

LEMMA WaitEndsPasses ==
    ASSUME SwarmInv, NEW k \in Tasks, MayMove(k), WaitEnds(k)
    PROVE  Passed(k)
<1> DEFINE t == step[k].mate
<1>1. Types /\ step[k].pc = "waiting" /\ slow # 0 /\ t \in Mates
  BY DEF SwarmInv, WaitEnds, PromptBook, StepBook
<1>2. mate[t] \in MateType /\ inbox[t] \in Seq(Mail) /\ \A i \in 1..Len(inbox[t]): MadeMail(inbox[t][i])
  BY <1>1 DEF Types, SwarmInv, MailBook
<1>3. swarm' \in SwarmType /\ swarm' = [swarm EXCEPT !.active = swarm'.active]
  BY <1>1 DEF WaitEnds, Types, SwarmType
<1>4. mate[t].status \in {"idle", "waiting", "running", "stopped"}
  BY <1>2 DEF MateType
<1>5. Asks(k, t, inbox[t], mate[t].status)
  BY <1>1, <1>2, <1>3, <1>4 DEF Asks, WaitEnds
<1>6. CASE inbox[t] # <<>> /\ Handle(k, t, inbox[t], mate[t].status)
  BY <1>5, <1>6, HandlePasses
<1>7. CASE /\ mate' = [mate EXCEPT ![t].status = IF @ = "stopped" THEN @ ELSE "idle"]
           /\ Collect(k, t, TRUE, "none") /\ UNCHANGED inbox
  <2> DEFINE m == [mate[t] EXCEPT !.status = IF @ = "stopped" THEN @ ELSE "idle"]
  <2>1. m \in MateType /\ mate' = [mate EXCEPT ![t] = m]
    BY <1>2, <1>7 DEF MateType
  <2>2. Halting(k, "collecting", t, NoTask)
    BY <1>1, <1>3, <1>7, SuspendHalts DEF Collect, Working
  <2>3. inbox' = [inbox EXCEPT ![t] = inbox[t]]
    BY <1>1, <1>7 DEF Types
  <2> HIDE DEF m
  <2> QED BY <1>1, <1>2, <1>5, <2>1, <2>2, <2>3, HaltPasses
<1> QED BY <1>6, <1>7 DEF WaitEnds

-----------------------------------------------------------------------------
\* The steps of the runs.
LEMMA WorkingMayMove ==
    ASSUME SwarmInv, NEW k \in Tasks, FreeTurn, step[k].pc \in Working \cup {"queued"}
    PROVE  MayMove(k)
<1>1. PlaceBook(k) /\ RunOf(k) # NoRun /\ run[RunOf(k)].pc \in RunPcs /\ turn = NoRun
      /\ k[2] \in Nat /\ (run[RunOf(k)].pc = "seq" => run[RunOf(k)].at \in Nat)
  BY TaskIs, SwarmAssumption DEF SwarmInv, Types, RunType, FreeTurn
<1>2. step[k].pc \notin {"none", "done"}
  BY DEF Working
<1> QED BY <1>1, <1>2 DEF PlaceBook, MayMove, RunPcs, Working

LEMMA NextStepMayMove ==
    ASSUME SwarmInv, NEW r \in Runs, NextStep(r)
    PROVE  /\ <<r, run[r].at>> \in Tasks /\ MayMove(<<r, run[r].at>>)
           /\ step[<<r, run[r].at>>].pc = "none"
<1>1. run[r].at \in Steps
  BY SwarmAssumption DEF SwarmInv, Types, RunType, NextStep, Steps
<1>2. PICK k \in Tasks: k = <<r, run[r].at>> /\ RunOf(k) = r /\ k[2] = run[r].at
  BY <1>1, TaskOf
<1>3. PlaceBook(k)
  BY DEF SwarmInv
<1> QED BY <1>2, <1>3 DEF NextStep, MayMove, PlaceBook

LEMMA NextStepKeeps == ASSUME SwarmInv, NEW r \in Runs, NextStep(r) PROVE SwarmInv'
<1>1. PICK k \in Tasks: k = <<r, run[r].at>> /\ MayMove(k) /\ step[k].pc = "none"
  BY NextStepMayMove
<1>2. UNCHANGED <<cancel, clients, ran, asked, overlapped>>
  BY DEF NextStep
<1>3. CASE Dispatch(k)
  BY <1>1, <1>2, <1>3, DispatchPasses, PassedKeeps
<1>4. CASE task' = [task EXCEPT ![k] = "cancelled"] /\ Done(k, FALSE) /\ UNCHANGED <<mate, inbox, slow>>
  <2>1. Ending(k)
    BY <1>1, <1>4, DoneEnds DEF SwarmInv
  <2> QED BY <1>1, <1>2, <1>4, <2>1, SkipPasses, PassedKeeps
<1> QED BY <1>1, <1>3, <1>4 DEF NextStep

LEMMA EnterKeeps == ASSUME SwarmInv, NEW k \in Tasks, Enter(k) PROVE SwarmInv'
  BY WorkingMayMove, DispatchPasses, PassedKeeps DEF Enter

LEMMA TaskStepKeeps == ASSUME SwarmInv, NEW k \in Tasks, TaskStep(k) PROVE SwarmInv'
<1>1. CASE Enter(k)
  BY <1>1, EnterKeeps
<1>2. CASE Dispatched(k)
  BY <1>2, WorkingMayMove, DispatchedPasses, PassedKeeps DEF Dispatched, Working
<1>3. CASE WaitEnds(k)
  BY <1>3, WorkingMayMove, WaitEndsPasses, PassedKeeps DEF WaitEnds, Working
<1>4. CASE CollectTimesOut(k)
  BY <1>4, WorkingMayMove, CollectTimesOutPasses, PassedKeeps DEF CollectTimesOut, Working
<1>5. CASE Reported(k)
  BY <1>5, WorkingMayMove, ReportedPasses, PassedKeeps DEF Reported, Working
<1>6. ASSUME NEW ok \in BOOLEAN, ExecReturns(k, ok) PROVE SwarmInv'
  BY <1>6, WorkingMayMove, ExecReturnsPasses, PassedKeeps DEF ExecReturns, Working
<1> QED BY <1>1, <1>2, <1>3, <1>4, <1>5, <1>6 DEF TaskStep

-----------------------------------------------------------------------------
\* The end of a run.
LEMMA LeavePlaces ==
    ASSUME SwarmInv, NEW r \in Runs, NEW outcome, Leave(r, outcome), turn \in {NoRun, r}, turn' = NoRun,
           UNCHANGED <<task, inbox>>
    PROVE  /\ \A q \in Runs: q # r => run'[q] = run[q]
           /\ run'[r].pc = "ended" /\ run'[r].outcome = outcome
           /\ run'[r].plan.failFast = run[r].plan.failFast
           /\ \A j \in Tasks: step'[j] = IF RunOf(j) = r THEN Idle ELSE step[j]
           /\ \A q \in Runs: RunBook(q)'
           /\ \A j \in Tasks: PlaceBook(j)' /\ StepBook(j)'
           /\ MailBook'
<1>1. /\ \A q \in Runs: q # r => run'[q] = run[q]
      /\ run'[r] = [pc |-> "ended", at |-> 1, outcome |-> outcome,
                    plan |-> [NoPlan EXCEPT !.failFast = run[r].plan.failFast]]
      /\ \A j \in Tasks: step'[j] = IF RunOf(j) = r THEN Idle ELSE step[j]
  BY DEF SwarmInv, Types, Leave
<1>2. /\ run'[r].pc = "ended" /\ run'[r].outcome = outcome
      /\ run'[r].plan.failFast = run[r].plan.failFast
  BY <1>1 DEF NoPlan
<1>3. ASSUME NEW q \in Runs PROVE RunBook(q)'
  <2>1. RunBook(q) /\ q # NoRun
    BY SwarmAssumption DEF SwarmInv, Runs, NoRun
  <2>2. CASE q = r
    BY <1>2, <2>1, <2>2 DEF RunBook
  <2>3. CASE q # r
    BY <1>1, <2>1, <2>3 DEF RunBook
  <2> QED BY <2>2, <2>3
<1>4. \A q \in Runs: ~Unmade(q) => ~Unmade(q)'
  BY <1>1, <1>2 DEF Unmade
<1>5. ASSUME NEW m \in Tasks \cup {NoTask}
      PROVE  m # NoTask /\ ~Unmade(RunOf(m)) => ~(run'[RunOf(m)].pc \in {"none", "planning"})
  BY <1>4, <1>5, TaskIs DEF Unmade
<1>6. ASSUME NEW j \in Tasks PROVE PlaceBook(j)' /\ StepBook(j)'
  <2>1. PlaceBook(j) /\ StepBook(j) /\ RunOf(j) \in Runs /\ RunOf(j) # NoRun
    BY TaskIs DEF SwarmInv
  <2>2. CASE RunOf(j) = r
    <3>1. step'[j].pc = "none" /\ step'[j].mail = NoTask
      BY <1>1, <2>2 DEF Idle
    <3> QED BY <1>2, <2>1, <2>2, <3>1 DEF PlaceBook, StepBook, Unmade
  <2>3. CASE RunOf(j) # r
    <3>1. step'[j] = step[j] /\ run'[RunOf(j)] = run[RunOf(j)]
      BY <1>1, <2>1, <2>3
    <3>2. PlaceBook(j)'
      BY <2>1, <2>3, <3>1 DEF PlaceBook
    <3>3. step[j].mail \in Tasks \cup {NoTask}
      BY DEF SwarmInv, Types, StepType
    <3> QED BY <1>5, <2>1, <3>1, <3>2, <3>3 DEF StepBook, Unmade
  <2> QED BY <2>2, <2>3
<1>7. MailBook'
  <2> SUFFICES ASSUME NEW t \in Mates, NEW i \in 1..Len(inbox[t]) PROVE MadeMail(inbox[t][i])'
    BY DEF MailBook
  <2>1. MadeMail(inbox[t][i])
    BY DEF SwarmInv, MailBook
  <2>2. inbox[t] \in Seq(Mail)
    BY DEF SwarmInv, Types
  <2>3. inbox[t][i] \in Mail
    BY <2>2
  <2>4. inbox[t][i].task \in Tasks \cup {NoTask}
    BY <2>3 DEF Mail
  <2> QED BY <1>5, <2>1, <2>4 DEF MadeMail, Unmade
<1> QED BY <1>1, <1>2, <1>3, <1>6, <1>7

LEMMA EndedIs ==
    ASSUME NEW st \in RunStatus
    PROVE  /\ Ended(st) \in SwarmType /\ Ended(st).current = NoRun /\ Ended(st).asked = FALSE
           /\ Ended(st).status \in {"planning", "running"} => st = Ended(st).status
           /\ st \in {"completed", "failed", "cancelled"} => Ended(st).status = "idle"
  BY DEF Ended, SwarmType, RunStatus

LEMMA LeaveKeeps ==
    ASSUME SwarmInv, NEW r \in Runs, InFlight(r), NEW outcome \in {"completed", "failed", "cancelled", "raised"},
           Leave(r, outcome), turn \in {NoRun, r}, turn' = NoRun,
           NEW st \in RunStatus, swarm' = Ended(st),
           UNCHANGED <<task, inbox, cancel, foreign, cancels, slow, ran, asked, overlapped>>,
           kicks' \in Nat, kicks' >= kicks, mate' \in [Mates -> MateType],
           \A t \in Mates: mate[t].status # "stopped" => mate'[t].status # "stopped",
           slow = 0 => \A j \in Tasks: RunOf(j) # r /\ step[j].pc = "executing" =>
              mate'[step[j].mate].status \in {"running", "stopped"} /\ mate'[step[j].mate].current = j,
           kicks' = 0 /\ st \in {"planning", "running"} =>
              \E q \in Runs: q # r /\ run[q].pc \in {"planning", "created", "seq", "gather"},
           ~overlapped /\ r \in asked => outcome # "completed",
           foreign = 0 /\ slow = 0 /\ outcome \in {"completed", "failed"} /\ ~run[r].plan.failFast =>
              \A k \in Tasks: RunOf(k) = r => task[k] \in Terminal \cup {"none"}
    PROVE  SwarmInv'
<1>1. /\ \A q \in Runs: q # r => run'[q] = run[q]
      /\ run'[r].pc = "ended" /\ run'[r].outcome = outcome
      /\ run'[r].plan.failFast = run[r].plan.failFast
      /\ \A j \in Tasks: step'[j] = IF RunOf(j) = r THEN Idle ELSE step[j]
      /\ \A q \in Runs: RunBook(q)'
      /\ \A j \in Tasks: PlaceBook(j)' /\ StepBook(j)'
      /\ MailBook'
  BY LeavePlaces
<1>2. Types /\ NoRun \notin Runs
  BY DEF SwarmInv, Runs, NoRun
<1>3. Types'
  <2>1. run' \in [Runs -> RunType]
    <3>1. [pc |-> "ended", at |-> 1, outcome |-> outcome,
           plan |-> [NoPlan EXCEPT !.failFast = run[r].plan.failFast]] \in RunType
      <4>1. run[r].plan.failFast \in BOOLEAN
        BY <1>2 DEF Types, RunType, Plan
      <4>2. [NoPlan EXCEPT !.failFast = run[r].plan.failFast] \in Plan
        BY <4>1 DEF NoPlan, Plan
      <4>3. 1 \in 1..(NSteps + 1)
        BY SwarmAssumption
      <4> QED BY <4>2, <4>3 DEF RunType, RunPcs
    <3> QED BY <1>2, <3>1 DEF Leave, Types
  <2>2. step' \in [Tasks -> StepType]
    BY <1>2, IdleIs DEF Leave, Types
  <2>3. swarm' \in SwarmType
    BY EndedIs
  <2> QED BY <1>2, <2>1, <2>2, <2>3 DEF Types, SwarmType
<1>4. \A q \in Runs: InFlight(q)' <=> q # r /\ InFlight(q)
  BY <1>1 DEF InFlight
<1>5. QuietBook'
  <2> SUFFICES ASSUME foreign = 0, slow = 0 PROVE QuietBook'
    BY DEF QuietBook
  <2>1. QuietBook
    BY DEF SwarmInv
  <2>2. ASSUME NEW j \in Tasks
        PROVE  /\ step'[j].pc # "collecting"
               /\ step'[j].pc = "executing" => step'[j].mail = j
               /\ task'[j] = "succeeded" => ran'[j] = "succeeded"
               /\ step'[j].pc = "done" => task'[j] \in Terminal
    BY <1>1, <2>1 DEF QuietBook, Idle
  <2>3. ASSUME NEW j \in Tasks, run'[RunOf(j)].outcome \in {"completed", "failed"},
               ~run'[RunOf(j)].plan.failFast
        PROVE  task'[j] \in Terminal \cup {"none"}
    <3>1. RunOf(j) \in Runs
      BY TaskIs
    <3>2. CASE RunOf(j) = r
      BY <1>1, <2>3, <3>2
    <3>3. CASE RunOf(j) # r
      BY <1>1, <2>1, <2>3, <3>1, <3>3 DEF QuietBook
    <3> QED BY <3>2, <3>3
  <2>4. \A t \in Mates: mate'[t].status # "stopped" /\ inbox'[t] = <<>>
    BY <2>1 DEF QuietBook
  <2> QED BY <2>2, <2>3, <2>4 DEF QuietBook, RunOf
<1>6. PromptBook'
  <2> SUFFICES ASSUME slow = 0 PROVE PromptBook'
    BY DEF PromptBook
  <2>1. PromptBook
    BY DEF SwarmInv
  <2> QED BY <1>1, <2>1 DEF PromptBook, Idle
<1>7. StatusBook'
  <2>1. StatusBook /\ CancelBook
    BY DEF SwarmInv
  <2>2. kicks' = 0 /\ swarm'.status \in {"planning", "running"} =>
          \E q \in Runs: run'[q].pc \in {"planning", "created", "seq", "gather"}
    BY <1>1, EndedIs
  <2>3. cancels = 0 /\ slow = 0 => ~overlapped /\ \A q \in Runs: ~InFlight(q)'
    BY <1>4, <2>1 DEF StatusBook, CancelBook
  <2> QED BY <2>1, <2>2, <2>3 DEF StatusBook
<1>8. CancelBook'
  <2> SUFFICES ASSUME ~overlapped PROVE CancelBook'
    BY DEF CancelBook
  <2>1. CancelBook
    BY DEF SwarmInv
  <2>2. \A q \in Runs: ~InFlight(q)'
    BY <1>4, <2>1 DEF CancelBook
  <2>3. \A q \in Runs: run'[q].pc \in {"none", "ended"}
    BY <2>2 DEF InFlight
  <2>4. \A q \in asked: run'[q].pc # "none" /\ run'[q].outcome # "completed"
    <3>1. SUFFICES ASSUME NEW q \in asked PROVE run'[q].pc # "none" /\ run'[q].outcome # "completed"
      OBVIOUS
    <3>2. q \in Runs
      BY <1>2 DEF Types
    <3>3. run[q].pc # "none" /\ run[q].outcome # "completed"
      BY <2>1 DEF CancelBook
    <3> QED BY <1>1, <1>2, <3>2, <3>3
  <2>5. swarm'.current = NoRun
    BY EndedIs
  <2>6. \A j \in Tasks: RunOf(j) \in Runs
    BY TaskIs
  <2> QED BY <1>2, <2>2, <2>3, <2>4, <2>5, <2>6 DEF CancelBook, RunOf, Types
<1> QED BY <1>1, <1>3, <1>5, <1>6, <1>7, <1>8 DEF SwarmInv

LEMMA StaysSame ==
    ASSUME SwarmInv, NEW r \in Runs, UNCHANGED mate
    PROVE  /\ mate' \in [Mates -> MateType]
           /\ \A t \in Mates: mate[t].status # "stopped" => mate'[t].status # "stopped"
           /\ slow = 0 => \A j \in Tasks: RunOf(j) # r /\ step[j].pc = "executing" =>
                 mate'[step[j].mate].status \in {"running", "stopped"} /\ mate'[step[j].mate].current = j
  BY DEF SwarmInv, Types, PromptBook

LEMMA PlanFailsKeeps == ASSUME SwarmInv, NEW r \in Runs, PlanFails(r) PROVE SwarmInv'
<1>1. Types /\ InFlight(r) /\ run[r].pc = "planning" /\ kicks' = kicks /\ UNCHANGED mate
  BY DEF PlanFails, InFlight, SwarmInv, clients
<1>2. \A k \in Tasks: RunOf(k) = r => task[k] = "none"
  BY <1>1 DEF SwarmInv, StepBook, Unmade
<1>3. kicks' \in Nat /\ kicks' >= kicks /\ "failed" \in RunStatus
  BY <1>1 DEF Types, RunStatus
<1> QED BY <1>1, <1>2, <1>3, StaysSame, LeaveKeeps DEF PlanFails, clients

LEMMA CanFinish ==
    ASSUME SwarmInv, NEW r \in Runs,
           \/ run[r].pc = "seq" /\ turn = r
           \/ run[r].pc = "gather" /\ FreeTurn /\ \A s \in Steps: step[<<r, s>>].pc = "done"
    PROVE  /\ InFlight(r) /\ turn \in {NoRun, r} /\ Outcome(r) \in {"completed", "failed", "cancelled"}
           /\ ~overlapped /\ r \in asked => Outcome(r) = "cancelled"
           /\ \A k \in Tasks: RunOf(k) = r => step[k].pc \in {"none", "done"}
           /\ \A k \in Tasks: RunOf(k) = r /\ run[r].pc = "gather" => step[k].pc = "done"
<1>1. InFlight(r) /\ turn \in {NoRun, r} /\ Outcome(r) \in {"completed", "failed", "cancelled"}
  BY DEF InFlight, Outcome, FreeTurn
<1>2. ~overlapped /\ r \in asked => Outcome(r) = "cancelled"
  BY DEF SwarmInv, CancelBook, Outcome
<1>3. ASSUME NEW k \in Tasks, RunOf(k) = r
      PROVE  step[k].pc \in {"none", "done"} /\ (run[r].pc = "gather" => step[k].pc = "done")
  <2>1. PlaceBook(k) /\ k = <<r, k[2]>> /\ k[2] \in Steps /\ k[2] \in Nat
    BY <1>3, TaskIs DEF SwarmInv
  <2>2. run[r].pc = "seq" => run[r].at \in Nat
    BY SwarmAssumption DEF SwarmInv, Types, RunType
  <2> QED BY <1>3, <2>1, <2>2 DEF PlaceBook
<1> QED BY <1>1, <1>2, <1>3

LEMMA FinishKeeps == ASSUME SwarmInv, NEW r \in Runs, Finish(r) PROVE SwarmInv'
<1>1. /\ InFlight(r) /\ turn \in {NoRun, r} /\ Outcome(r) \in {"completed", "failed", "cancelled"}
      /\ ~overlapped /\ r \in asked => Outcome(r) = "cancelled"
      /\ \A k \in Tasks: RunOf(k) = r => step[k].pc \in {"none", "done"}
      /\ \A k \in Tasks: RunOf(k) = r /\ run[r].pc = "gather" => step[k].pc = "done"
  BY CanFinish DEF Finish
<1>2. Types /\ UNCHANGED <<task, mate, inbox, cancel, clients, ran, asked, overlapped>>
  BY DEF SwarmInv, Finish
<1>3. CASE Leave(r, Outcome(r)) /\ swarm' = Ended(Outcome(r)) /\ turn' = NoRun /\ UNCHANGED slow
  <2>1. ASSUME foreign = 0, slow = 0, Outcome(r) \in {"completed", "failed"}, ~run[r].plan.failFast,
               NEW k \in Tasks, RunOf(k) = r
        PROVE  task[k] \in Terminal \cup {"none"}
    <3>1. step[k].pc = "done"
      <4>1. CASE run[r].pc = "gather"
        BY <1>1, <2>1, <4>1
      <4>2. CASE run[r].pc # "gather"
        <5>1. ~swarm.asked
          BY <2>1 DEF Outcome
        <5>2. run[r].pc = "seq" /\ run[r].at > NSteps
          BY <2>1, <4>2, <5>1 DEF Finish
        <5>3. PlaceBook(k) /\ k[2] \in 1..NSteps /\ run[r].at \in 1..(NSteps + 1) /\ NSteps \in Nat
          BY <1>2, TaskIs, SwarmAssumption DEF SwarmInv, Steps, Types, RunType
        <5> QED BY <2>1, <5>2, <5>3 DEF PlaceBook
      <4> QED BY <4>1, <4>2
    <3> QED BY <2>1, <3>1 DEF SwarmInv, QuietBook
  <2>2. kicks' \in Nat /\ kicks' >= kicks /\ Outcome(r) \in RunStatus /\ Outcome(r) \notin {"planning", "running"}
    BY <1>1, <1>2 DEF Types, RunStatus, clients
  <2>3. /\ UNCHANGED <<task, inbox, cancel, foreign, cancels, slow, ran, asked, overlapped>>
        /\ UNCHANGED mate
    BY <1>2, <1>3 DEF clients
  <2>4. Outcome(r) \in {"completed", "failed", "cancelled", "raised"}
        /\ (~overlapped /\ r \in asked => Outcome(r) # "completed")
    BY <1>1
  <2> DEFINE o == Outcome(r)
  <2>5. Leave(r, o) /\ swarm' = Ended(o)
    BY <1>3
  <2> HIDE DEF o
  <2> QED BY <1>1, <1>3, <2>1, <2>2, <2>3, <2>4, <2>5, StaysSame, LeaveKeeps DEF o
<1>4. CASE /\ HandlerSuspends /\ UNCHANGED step
           /\ run' = [run EXCEPT ![r].pc = "telling", ![r].outcome = Outcome(r)]
           /\ swarm' = [swarm EXCEPT !.status = Outcome(r)]
  <2>1. turn' = NoRun /\ slow' \in Nat /\ slow' # 0
    BY <1>2, <1>4 DEF HandlerSuspends, Types
  <2>2. /\ run' \in [Runs -> RunType] /\ (\A q \in Runs: q # r => run'[q] = run[q])
        /\ run'[r].pc = "telling" /\ run'[r].outcome = Outcome(r) /\ run'[r].plan = run[r].plan
    <3>1. PICK o \in {"completed", "failed", "cancelled"}: o = Outcome(r)
      BY <1>1
    <3>2. run' = [run EXCEPT ![r] = [run[r] EXCEPT !.pc = "telling", !.outcome = o]]
      BY <1>2, <1>4, <3>1 DEF Types, RunType
    <3>3. run[r] \in RunType
      BY <1>2 DEF Types
    <3>4. [run[r] EXCEPT !.pc = "telling", !.outcome = o] \in RunType
      BY <3>3 DEF RunType, RunPcs
    <3>5. /\ [run[r] EXCEPT !.pc = "telling", !.outcome = o].pc = "telling"
          /\ [run[r] EXCEPT !.pc = "telling", !.outcome = o].outcome = o
          /\ [run[r] EXCEPT !.pc = "telling", !.outcome = o].plan = run[r].plan
      BY <3>3 DEF RunType
    <3> QED BY <1>2, <3>1, <3>2, <3>4, <3>5 DEF Types
  <2>3. /\ swarm' \in SwarmType /\ swarm'.status = Outcome(r)
        /\ swarm'.current = swarm.current /\ swarm'.asked = swarm.asked
    BY <1>1, <1>2, <1>4 DEF Types, SwarmType, RunStatus
  <2>4. Types'
    BY <1>2, <1>4, <2>1, <2>2, <2>3 DEF Types, SwarmType, clients
  <2>5. run[r].pc \in {"seq", "gather"}
    BY DEF Finish
  <2>6. ASSUME NEW q \in Runs PROVE RunBook(q)' /\ (Unmade(q)' <=> Unmade(q)) /\ (InFlight(q)' <=> InFlight(q))
    <3>1. RunBook(q) /\ q # NoRun
      BY SwarmAssumption DEF SwarmInv, Runs, NoRun
    <3> QED BY <1>1, <2>1, <2>2, <2>5, <3>1 DEF RunBook, Unmade, InFlight
  <2>7. ASSUME NEW m \in Tasks \cup {NoTask} PROVE m # NoTask => (Unmade(RunOf(m))' <=> Unmade(RunOf(m)))
    BY <2>6, <2>7, TaskIs
  <2>8. ASSUME NEW j \in Tasks PROVE PlaceBook(j)' /\ StepBook(j)'
    <3>1. PlaceBook(j) /\ StepBook(j) /\ RunOf(j) \in Runs /\ step'[j] = step[j] /\ task'[j] = task[j]
          /\ RunOf(j) # NoRun
      BY <1>2, <1>4, TaskIs DEF SwarmInv
    <3>2. PlaceBook(j)'
      <4>1. CASE RunOf(j) = r
        BY <1>1, <2>2, <3>1, <4>1 DEF PlaceBook
      <4>2. CASE RunOf(j) # r
        BY <1>1, <2>1, <2>2, <3>1, <4>2 DEF PlaceBook
      <4> QED BY <4>1, <4>2
    <3>3. step[j].mail \in Tasks \cup {NoTask}
      BY <1>2 DEF Types, StepType
    <3>4. step[j].mail # NoTask => ~Unmade(RunOf(step[j].mail))'
      BY <2>7, <3>1, <3>3 DEF StepBook
    <3>5. Unmade(RunOf(j))' <=> Unmade(RunOf(j))
      BY <2>6, <3>1
    <3> QED BY <3>1, <3>2, <3>4, <3>5 DEF StepBook, Unmade, RunOf
  <2>9. MailBook'
    <3> SUFFICES ASSUME NEW t \in Mates, NEW i \in 1..Len(inbox[t]) PROVE MadeMail(inbox[t][i])'
      BY <1>2 DEF MailBook
    <3>1. MadeMail(inbox[t][i]) /\ inbox[t] \in Seq(Mail)
      BY <1>2 DEF SwarmInv, MailBook, Types
    <3>2. inbox[t][i] \in Mail
      BY <3>1
    <3>3. inbox[t][i].task \in Tasks \cup {NoTask} /\ inbox'[t][i] = inbox[t][i]
      BY <1>2, <3>2 DEF Mail
    <3> QED BY <2>7, <3>1, <3>3 DEF MadeMail, RunOf
  <2>10. QuietBook' /\ PromptBook'
    BY <2>1 DEF QuietBook, PromptBook
  <2>11. StatusBook'
    BY <1>1, <1>2, <2>1, <2>3 DEF SwarmInv, StatusBook, clients
  <2>12. CancelBook'
    <3> SUFFICES ASSUME ~overlapped PROVE CancelBook'
      BY <1>2 DEF CancelBook
    <3>1. CancelBook
      BY DEF SwarmInv
    <3>2. swarm.current \in Runs \cup {NoRun} /\ asked \subseteq Runs /\ asked' = asked /\ task' = task
      BY <1>2 DEF Types
    <3>3. /\ \A p, q \in Runs: InFlight(p)' /\ InFlight(q)' => p = q
          /\ swarm'.current # NoRun => InFlight(swarm.current)'
      BY <2>3, <2>6, <3>1, <3>2 DEF CancelBook
    <3>4. \A q \in asked: /\ run'[q].pc # "none" /\ run'[q].outcome # "completed"
                          /\ run'[q].pc \notin {"telling", "ended"} => swarm'.asked
      BY <1>1, <2>2, <2>3, <3>1, <3>2 DEF CancelBook
    <3>5. ASSUME NEW j \in Tasks, task[j] = "cancelled", run'[RunOf(j)].pc \in {"created", "seq", "gather"},
                 step'[j].pc \in {"none", "queued", "dispatched"}
          PROVE  swarm'.asked
      <4>1. RunOf(j) \in Runs /\ RunOf(j) # r
        BY <2>2, <3>5, TaskIs
      <4> QED BY <1>4, <2>2, <2>3, <3>1, <3>5, <4>1 DEF CancelBook
    <3> QED BY <2>3, <3>2, <3>3, <3>4, <3>5 DEF CancelBook, RunOf, InFlight
  <2> QED BY <2>4, <2>6, <2>8, <2>9, <2>10, <2>11, <2>12 DEF SwarmInv
<1> QED BY <1>3, <1>4 DEF Finish

LEMMA ToldKeeps == ASSUME SwarmInv, NEW r \in Runs, Told(r) PROVE SwarmInv'
<1>1. Types /\ InFlight(r) /\ run[r].pc = "telling" /\ kicks' = kicks /\ UNCHANGED mate /\ slow # 0
  BY DEF Told, InFlight, SwarmInv, clients, PromptBook
<1>2. swarm.status \in RunStatus /\ run[r].outcome \in {"none", "completed", "failed", "cancelled", "raised"}
      /\ kicks' \in Nat /\ kicks' >= kicks
  BY <1>1 DEF Types, RunType
<1>3. run[r].outcome # "none"
  BY <1>1 DEF SwarmInv, RunBook
<1>4. kicks' = 0 /\ swarm.status \in {"planning", "running"} =>
        \E q \in Runs: q # r /\ run[q].pc \in {"planning", "created", "seq", "gather"}
  BY <1>1 DEF SwarmInv, StatusBook
<1>5. ~overlapped /\ r \in asked => run[r].outcome # "completed"
  BY DEF SwarmInv, CancelBook
<1> DEFINE o == run[r].outcome
           s == swarm.status
<1>6. /\ Leave(r, o) /\ swarm' = Ended(s) /\ turn \in {NoRun, r} /\ turn' = NoRun
      /\ UNCHANGED <<task, inbox, cancel, foreign, cancels, slow, ran, asked, overlapped>>
  BY DEF Told, FreeTurn, clients
<1>7. /\ o \in {"completed", "failed", "cancelled", "raised"} /\ s \in RunStatus
      /\ kicks' = 0 /\ s \in {"planning", "running"} =>
            \E q \in Runs: q # r /\ run[q].pc \in {"planning", "created", "seq", "gather"}
      /\ ~overlapped /\ r \in asked => o # "completed"
  BY <1>2, <1>3, <1>4, <1>5
<1> HIDE DEF o, s
<1> QED BY <1>1, <1>2, <1>6, <1>7, StaysSame, LeaveKeeps

LEMMA CancelCallerKeeps == ASSUME SwarmInv, NEW r \in Runs, CancelCaller(r) PROVE SwarmInv'
<1> DEFINE running == {t \in Mates: \E s \in Steps: step[<<r, s>>].pc = "executing"
                                                   /\ step[<<r, s>>].mate = t}
<1>1. Types /\ InFlight(r) /\ swarm.status \in RunStatus /\ kicks' \in Nat /\ kicks' > kicks /\ kicks' # 0
  BY DEF CancelCaller, SwarmInv, Types, SwarmType
<1>2. mate' = [t \in Mates |->
                  IF t \in running
                  THEN [status |-> IF mate[t].status = "stopped" THEN "stopped" ELSE "idle", current |-> NoTask]
                  ELSE mate[t]]
  BY DEF CancelCaller
<1>3. mate' \in [Mates -> MateType]
      /\ \A t \in Mates: mate[t].status # "stopped" => mate'[t].status # "stopped"
  <2>1. ASSUME NEW t \in Mates
        PROVE  /\ mate'[t] = IF t \in running
                             THEN [status |-> IF mate[t].status = "stopped" THEN "stopped" ELSE "idle", current |-> NoTask]
                             ELSE mate[t]
               /\ mate'[t] \in MateType
               /\ mate[t].status # "stopped" => mate'[t].status # "stopped"
    <3> HIDE DEF running
    <3> QED BY <1>1, <1>2 DEF Types, MateType
  <2> QED BY <1>2, <2>1
<1>4. ASSUME slow = 0, NEW j \in Tasks, RunOf(j) # r, step[j].pc = "executing"
      PROVE  mate'[step[j].mate].status \in {"running", "stopped"} /\ mate'[step[j].mate].current = j
  <2>1. /\ step[j].mate \in Mates
        /\ mate[step[j].mate].status \in {"running", "stopped"} /\ mate[step[j].mate].current = j
    BY <1>4 DEF SwarmInv, PromptBook, StepBook
  <2>2. step[j].mate \notin running
    <3> SUFFICES ASSUME NEW s \in Steps, step[<<r, s>>].pc = "executing", step[<<r, s>>].mate = step[j].mate
                 PROVE  FALSE
      OBVIOUS
    <3>1. <<r, s>> \in Tasks /\ RunOf(<<r, s>>) = r
      BY TaskOf
    <3>2. mate[step[j].mate].current = <<r, s>>
      BY <1>4, <3>1 DEF SwarmInv, PromptBook
    <3> QED BY <1>4, <2>1, <3>1, <3>2
  <2> HIDE DEF running
  <2> QED BY <1>2, <2>1, <2>2
<1> DEFINE s == swarm.status
<1>5. /\ Leave(r, "raised") /\ swarm' = Ended(s) /\ turn \in {NoRun, r} /\ turn' = NoRun /\ s \in RunStatus
      /\ UNCHANGED <<task, inbox, cancel, foreign, cancels, slow, ran, asked, overlapped>>
  BY <1>1 DEF CancelCaller, FreeTurn
<1> HIDE DEF s
<1>6. kicks' >= kicks
  BY <1>1 DEF Types
<1> QED BY <1>1, <1>3, <1>4, <1>5, <1>6, LeaveKeeps

-----------------------------------------------------------------------------
\* The beginning of a run. No other run's place changes, nor what is unmade but of r.
OneRun(r, place) ==
    /\ \A q \in Runs: q # r => run'[q] = run[q]
    /\ run'[r].pc = place /\ run'[r].outcome = run[r].outcome

LEMMA MailStays ==
    ASSUME SwarmInv, UNCHANGED inbox, \A q \in Runs: ~Unmade(q) => ~Unmade(q)'
    PROVE  /\ MailBook'
           /\ \A m \in Tasks \cup {NoTask}: m # NoTask /\ ~Unmade(RunOf(m)) => ~Unmade(RunOf(m))'
<1>1. ASSUME NEW m \in Tasks \cup {NoTask} PROVE m # NoTask /\ ~Unmade(RunOf(m)) => ~Unmade(RunOf(m))'
  BY <1>1, TaskIs
<1>2. ASSUME NEW t \in Mates, NEW i \in 1..Len(inbox[t]) PROVE MadeMail(inbox[t][i])'
  <2>1. MadeMail(inbox[t][i]) /\ inbox[t] \in Seq(Mail)
    BY DEF SwarmInv, MailBook, Types
  <2>2. inbox[t][i] \in Mail
    BY <2>1
  <2>3. inbox[t][i].task \in Tasks \cup {NoTask} /\ inbox'[t][i] = inbox[t][i]
    BY <2>2 DEF Mail
  <2> QED BY <1>1, <2>1, <2>3 DEF MadeMail, RunOf
<1> QED BY <1>1, <1>2 DEF MailBook

LEMMA StartKeeps == ASSUME SwarmInv, NEW r \in Runs, Start(r) PROVE SwarmInv'
<1>1. /\ Types /\ run[r].pc = "none" /\ turn = NoRun /\ turn' \in {NoRun, r}
      /\ swarm.status \notin {"planning", "running"}
      /\ UNCHANGED <<step, task, mate, inbox, cancel, clients, slow, ran, asked>>
  BY DEF Start, FreeTurn, SwarmInv
<1>2. run' \in [Runs -> RunType] /\ OneRun(r, "planning") /\ run'[r].at = run[r].at
  BY <1>1 DEF Start, Types, RunType, RunPcs, OneRun
<1>3. swarm' \in SwarmType /\ swarm'.status = "planning" /\ swarm'.current = r /\ swarm'.asked = FALSE
  BY <1>1 DEF Start, Types, SwarmType, RunStatus
<1>4. overlapped' \in BOOLEAN /\ (~overlapped' => ~overlapped /\ \A q \in Runs: ~InFlight(q))
  BY <1>1 DEF Start, Types
<1>5. Types'
  BY <1>1, <1>2, <1>3, <1>4 DEF Types, SwarmType, clients
<1>6. ASSUME NEW q \in Runs
      PROVE  RunBook(q)' /\ (Unmade(q)' <=> Unmade(q)) /\ (InFlight(q)' <=> q = r \/ InFlight(q))
  <2>1. RunBook(q) /\ q # NoRun
    BY SwarmAssumption DEF SwarmInv, Runs, NoRun
  <2> QED BY <1>1, <1>2, <2>1 DEF RunBook, Unmade, InFlight, OneRun
<1>7. MailBook' /\ \A m \in Tasks \cup {NoTask}: m # NoTask /\ ~Unmade(RunOf(m)) => ~Unmade(RunOf(m))'
  BY <1>1, <1>6, MailStays
<1>8. ASSUME NEW j \in Tasks PROVE PlaceBook(j)' /\ StepBook(j)'
  <2>1. PlaceBook(j) /\ StepBook(j) /\ RunOf(j) \in Runs /\ RunOf(j) # NoRun
    BY TaskIs DEF SwarmInv
  <2>2. PlaceBook(j)'
    <3>1. CASE RunOf(j) = r
      BY <1>1, <1>2, <2>1, <3>1 DEF PlaceBook, OneRun
    <3>2. CASE RunOf(j) # r
      BY <1>1, <1>2, <2>1, <3>2 DEF PlaceBook, OneRun
    <3> QED BY <3>1, <3>2
  <2>3. step[j].mail \in Tasks \cup {NoTask}
    BY <1>1 DEF Types, StepType
  <2> QED BY <1>1, <1>6, <1>7, <2>1, <2>2, <2>3 DEF StepBook, RunOf
<1>9. QuietBook'
  <2>1. ASSUME NEW j \in Tasks
        PROVE  /\ run'[RunOf(j)].outcome = run[RunOf(j)].outcome
               /\ run'[RunOf(j)].outcome \in {"completed", "failed"} =>
                     run'[RunOf(j)].plan.failFast = run[RunOf(j)].plan.failFast
    <3>1. RunOf(j) \in Runs /\ run[r].outcome = "none"
      BY <1>1, TaskIs DEF SwarmInv, RunBook
    <3> QED BY <1>2, <3>1 DEF OneRun
  <2> QED BY <1>1, <2>1 DEF SwarmInv, QuietBook, RunOf, clients
<1>10. PromptBook'
  BY <1>1, <1>2 DEF SwarmInv, PromptBook, OneRun
<1>11. StatusBook'
  <2>1. cancels = 0 /\ slow = 0 => ~overlapped /\ \A q \in Runs: ~InFlight(q)
    BY <1>1 DEF SwarmInv, StatusBook
  <2>2. cancels = 0 /\ slow = 0 => ~overlapped'
    BY <2>1 DEF Start
  <2> QED BY <1>1, <1>2, <1>3, <1>6, <2>1, <2>2 DEF SwarmInv, StatusBook, OneRun, clients
<1>12. CancelBook'
  <2> SUFFICES ASSUME ~overlapped' PROVE CancelBook'
    BY DEF CancelBook
  <2>1. CancelBook /\ \A q \in Runs: ~InFlight(q)
    BY <1>4 DEF SwarmInv
  <2>2. \A q \in Runs: q # r => run'[q].pc \in {"none", "ended"}
    BY <1>2, <2>1 DEF InFlight, OneRun
  <2>3. r \notin asked /\ asked \subseteq Runs /\ (~overlapped)
    BY <1>1, <1>4 DEF SwarmInv, CancelBook, Types
  <2>4. \A q \in asked: run'[q].pc # "none" /\ run'[q].outcome # "completed" /\ run'[q].pc \in {"telling", "ended"}
    BY <1>2, <2>1, <2>2, <2>3 DEF CancelBook, OneRun
  <2>5. \A j \in Tasks: RunOf(j) \in Runs /\ run'[RunOf(j)].pc \in {"none", "planning", "ended"}
    BY <1>2, <2>2, TaskIs DEF OneRun
  <2>6. (\A p, q \in Runs: InFlight(p)' /\ InFlight(q)' => p = q) /\ InFlight(r)'
    BY <1>6, <2>1
  <2> QED BY <1>1, <1>3, <2>4, <2>5, <2>6 DEF CancelBook, RunOf, InFlight
<1> QED BY <1>5, <1>6, <1>7, <1>8, <1>9, <1>10, <1>11, <1>12 DEF SwarmInv

LEMMA MaterializeKeeps == ASSUME SwarmInv, NEW r \in Runs, Materialize(r) PROVE SwarmInv'
<1>1. /\ Types /\ run[r].pc = "planning" /\ turn \in {NoRun, r} /\ turn' \in {NoRun, r}
      /\ slow' \in Nat /\ (slow' = 0 => slow = 0)
      /\ task' = [k \in Tasks |-> IF RunOf(k) = r THEN "pending" ELSE task[k]]
      /\ UNCHANGED <<swarm, step, mate, inbox, cancel, clients, ran, asked, overlapped>>
  BY DEF Materialize, AfterEvent, HandlerSuspends, SwarmInv, Types
<1>2. run' \in [Runs -> RunType] /\ OneRun(r, "created") /\ run'[r].at = run[r].at
  <2>1. PICK plan \in Plans: run' = [run EXCEPT ![r].pc = "created", ![r].plan = plan]
    BY DEF Materialize, CreatePlan
  <2>2. plan \in Plan
    BY <2>1, SwarmAssumption
  <2> QED BY <1>1, <2>1, <2>2 DEF Types, RunType, RunPcs, OneRun
<1>3. task' \in [Tasks -> TaskStatus]
      /\ \A k \in Tasks: task'[k] = IF RunOf(k) = r THEN "pending" ELSE task[k]
  BY <1>1 DEF Types, TaskStatus
<1>4. Types'
  BY <1>1, <1>2, <1>3 DEF Types, clients
<1>5. ASSUME NEW q \in Runs
      PROVE  RunBook(q)' /\ (Unmade(q)' <=> q # r /\ Unmade(q)) /\ (InFlight(q)' <=> InFlight(q))
  <2>1. RunBook(q) /\ q # NoRun
    BY SwarmAssumption DEF SwarmInv, Runs, NoRun
  <2> QED BY <1>1, <1>2, <2>1 DEF RunBook, Unmade, InFlight, OneRun
<1>6. MailBook' /\ \A m \in Tasks \cup {NoTask}: m # NoTask /\ ~Unmade(RunOf(m)) => ~Unmade(RunOf(m))'
  BY <1>1, <1>5, MailStays
<1>7. ASSUME NEW j \in Tasks PROVE PlaceBook(j)' /\ StepBook(j)'
  <2>1. PlaceBook(j) /\ StepBook(j) /\ RunOf(j) \in Runs /\ RunOf(j) # NoRun
    BY TaskIs DEF SwarmInv
  <2>2. PlaceBook(j)'
    <3>1. CASE RunOf(j) = r
      BY <1>1, <1>2, <2>1, <3>1 DEF PlaceBook, OneRun
    <3>2. CASE RunOf(j) # r
      BY <1>1, <1>2, <2>1, <3>2 DEF PlaceBook, OneRun
    <3> QED BY <3>1, <3>2
  <2>3. step[j].mail \in Tasks \cup {NoTask}
    BY <1>1 DEF Types, StepType
  <2> QED BY <1>1, <1>3, <1>5, <1>6, <2>1, <2>2, <2>3 DEF StepBook, RunOf
<1>8. QuietBook'
  <2> SUFFICES ASSUME foreign = 0, slow' = 0 PROVE QuietBook'
    BY <1>1 DEF QuietBook, clients
  <2>1. QuietBook /\ slow = 0
    BY <1>1 DEF SwarmInv
  <2>2. ASSUME NEW j \in Tasks
        PROVE  /\ step'[j].pc # "collecting"
               /\ step'[j].pc = "executing" => step'[j].mail = j
               /\ task'[j] = "succeeded" => ran'[j] = "succeeded"
               /\ step'[j].pc = "done" => task'[j] \in Terminal
               /\ run'[RunOf(j)].outcome \in {"completed", "failed"} /\ ~run'[RunOf(j)].plan.failFast
                     => task'[j] \in Terminal \cup {"none"}
    <3>1. RunOf(j) \in Runs /\ RunBook(r) /\ PlaceBook(j)
      BY TaskIs DEF SwarmInv
    <3>2. CASE RunOf(j) = r
      BY <1>1, <1>2, <1>3, <2>1, <3>1, <3>2 DEF QuietBook, PlaceBook, RunBook, OneRun
    <3>3. CASE RunOf(j) # r
      BY <1>1, <1>2, <1>3, <2>1, <3>1, <3>3 DEF QuietBook, OneRun
    <3> QED BY <3>2, <3>3
  <2> QED BY <1>1, <2>1, <2>2 DEF QuietBook, RunOf
<1>9. PromptBook'
  BY <1>1, <1>2 DEF SwarmInv, PromptBook, OneRun
<1>10. StatusBook'
  <2>1. kicks = 0 /\ swarm.status \in {"planning", "running"} =>
          \E q \in Runs: run'[q].pc \in {"planning", "created", "seq", "gather"}
    BY <1>2 DEF OneRun
  <2> QED BY <1>1, <1>5, <2>1 DEF SwarmInv, StatusBook, clients
<1>11. CancelBook'
  <2> SUFFICES ASSUME ~overlapped PROVE CancelBook'
    BY <1>1 DEF CancelBook
  <2>1. CancelBook /\ asked \subseteq Runs /\ swarm.current \in Runs \cup {NoRun}
    BY <1>1 DEF SwarmInv, Types
  <2>2. \A q \in asked: /\ run'[q].pc # "none" /\ run'[q].outcome # "completed"
                        /\ run'[q].pc \notin {"telling", "ended"} => swarm.asked
    BY <1>1, <1>2, <2>1 DEF CancelBook, OneRun
  <2>3. ASSUME NEW j \in Tasks, task'[j] = "cancelled", run'[RunOf(j)].pc \in {"created", "seq", "gather"},
               step'[j].pc \in {"none", "queued", "dispatched"}
        PROVE  swarm.asked
    <3>1. RunOf(j) \in Runs /\ RunOf(j) # r /\ task[j] = "cancelled"
      BY <1>3, <2>3, TaskIs
    <3> QED BY <1>1, <1>2, <2>1, <2>3, <3>1 DEF CancelBook, OneRun
  <2> QED BY <1>1, <1>5, <2>1, <2>2, <2>3 DEF CancelBook, RunOf, InFlight
<1> QED BY <1>4, <1>5, <1>6, <1>7, <1>8, <1>9, <1>10, <1>11 DEF SwarmInv

LEMMA LaunchKeeps == ASSUME SwarmInv, NEW r \in Runs, Launch(r) PROVE SwarmInv'
<1>1. /\ Types /\ run[r].pc = "created" /\ turn \in {NoRun, r} /\ run[r].at = 1
      /\ UNCHANGED <<task, mate, inbox, cancel, clients, slow, ran, asked, overlapped>>
  BY DEF Launch, SwarmInv, RunBook
<1>2. /\ swarm' \in SwarmType /\ swarm'.status = "running"
      /\ swarm'.current = swarm.current /\ swarm'.asked = swarm.asked
  BY <1>1 DEF Launch, Types, SwarmType, RunStatus
<1>3. PICK place \in {"seq", "gather"}:
        /\ run' = [run EXCEPT ![r].pc = place]
        /\ place = "seq" => turn' = r /\ UNCHANGED step
        /\ place = "gather" => turn' = NoRun /\ step' = [k \in Tasks |-> IF RunOf(k) = r
                                                        THEN [Idle EXCEPT !.pc = "queued"] ELSE step[k]]
  BY DEF Launch
<1>4. run' \in [Runs -> RunType] /\ OneRun(r, place) /\ run'[r].at = 1 /\ run'[r].plan = run[r].plan
  BY <1>1, <1>3 DEF Types, RunType, RunPcs, OneRun
<1>5. /\ step' \in [Tasks -> StepType]
      /\ \A k \in Tasks: RunOf(k) # r => step'[k] = step[k]
      /\ \A k \in Tasks: RunOf(k) = r => step'[k].pc = (IF place = "seq" THEN "none" ELSE "queued")
                                         /\ (step'[k].mail = step[k].mail \/ step'[k].mail = NoTask)
  <2>1. [Idle EXCEPT !.pc = "queued"] \in StepType /\ [Idle EXCEPT !.pc = "queued"].mail = NoTask
        /\ [Idle EXCEPT !.pc = "queued"].pc = "queued"
    BY IdleIs DEF Idle
  <2>2. \A k \in Tasks: RunOf(k) = r => step[k].pc = "none"
    BY <1>1 DEF SwarmInv, PlaceBook
  <2>3. CASE place = "seq"
    BY <1>1, <1>3, <2>2, <2>3 DEF Types
  <2>4. CASE place = "gather"
    BY <1>1, <1>3, <2>1, <2>4 DEF Types
  <2> QED BY <2>3, <2>4
<1>6. turn' \in {NoRun, r} /\ (place = "seq" => turn' = r) /\ (place = "gather" => turn' = NoRun)
  BY <1>3
<1>7. Types'
  BY <1>1, <1>2, <1>4, <1>5, <1>6 DEF Types, SwarmType, clients
<1>8. ASSUME NEW q \in Runs
      PROVE  RunBook(q)' /\ (Unmade(q)' <=> Unmade(q)) /\ (InFlight(q)' <=> InFlight(q))
  <2>1. RunBook(q) /\ q # NoRun
    BY SwarmAssumption DEF SwarmInv, Runs, NoRun
  <2> QED BY <1>1, <1>4, <1>6, <2>1 DEF RunBook, Unmade, InFlight, OneRun
<1>9. MailBook' /\ \A m \in Tasks \cup {NoTask}: m # NoTask /\ ~Unmade(RunOf(m)) => ~Unmade(RunOf(m))'
  BY <1>1, <1>8, MailStays
<1>10. ASSUME NEW j \in Tasks PROVE PlaceBook(j)' /\ StepBook(j)'
  <2>1. PlaceBook(j) /\ StepBook(j) /\ RunOf(j) \in Runs /\ RunOf(j) # NoRun /\ j[2] \in Nat /\ j[2] >= 1
    BY TaskIs DEF SwarmInv, Steps
  <2>2. PlaceBook(j)'
    <3>1. CASE RunOf(j) = r
      BY <1>4, <1>5, <1>6, <2>1, <3>1 DEF PlaceBook, OneRun
    <3>2. CASE RunOf(j) # r
      BY <1>1, <1>4, <1>5, <1>6, <2>1, <3>2 DEF PlaceBook, OneRun
    <3> QED BY <3>1, <3>2
  <2>3. step[j].mail \in Tasks \cup {NoTask}
    BY <1>1 DEF Types, StepType
  <2>4. step'[j].pc \in {"dispatched", "waiting", "executing", "collecting"} => step'[j].mate \in Mates
    BY <1>5, <2>1 DEF StepBook
  <2>5. step'[j].mail = step[j].mail \/ step'[j].mail = NoTask
    BY <1>5
  <2> QED BY <1>1, <1>8, <1>9, <2>1, <2>2, <2>3, <2>4, <2>5 DEF StepBook, RunOf
<1>11. QuietBook'
  <2> SUFFICES ASSUME foreign = 0, slow = 0 PROVE QuietBook'
    BY <1>1 DEF QuietBook, clients
  <2>1. QuietBook
    BY DEF SwarmInv
  <2>2. ASSUME NEW j \in Tasks
        PROVE  /\ step'[j].pc # "collecting"
               /\ step'[j].pc = "executing" => step'[j].mail = j
               /\ task'[j] = "succeeded" => ran'[j] = "succeeded"
               /\ step'[j].pc = "done" => task'[j] \in Terminal
               /\ run'[RunOf(j)].outcome = run[RunOf(j)].outcome
               /\ run'[RunOf(j)].plan = run[RunOf(j)].plan
    <3>1. RunOf(j) \in Runs
      BY TaskIs
    <3> QED BY <1>1, <1>4, <1>5, <2>1, <3>1 DEF QuietBook, OneRun
  <2> QED BY <1>1, <2>1, <2>2 DEF QuietBook, RunOf
<1>12. PromptBook'
  BY <1>1, <1>4, <1>5 DEF SwarmInv, PromptBook, OneRun
<1>13. StatusBook'
  <2>1. \E q \in Runs: run'[q].pc \in {"planning", "created", "seq", "gather"}
    BY <1>4 DEF OneRun
  <2> QED BY <1>1, <1>2, <1>8, <2>1 DEF SwarmInv, StatusBook, clients
<1>14. CancelBook'
  <2> SUFFICES ASSUME ~overlapped PROVE CancelBook'
    BY <1>1 DEF CancelBook
  <2>1. CancelBook /\ asked \subseteq Runs /\ swarm.current \in Runs \cup {NoRun}
    BY <1>1 DEF SwarmInv, Types
  <2>2. \A q \in asked: /\ run'[q].pc # "none" /\ run'[q].outcome # "completed"
                        /\ run'[q].pc \notin {"telling", "ended"} => swarm.asked
    BY <1>1, <1>4, <2>1 DEF CancelBook, OneRun
  <2>3. ASSUME NEW j \in Tasks, task[j] = "cancelled", run'[RunOf(j)].pc \in {"created", "seq", "gather"},
               step'[j].pc \in {"none", "queued", "dispatched"}
        PROVE  swarm.asked
    <3>1. RunOf(j) \in Runs /\ PlaceBook(j)
      BY TaskIs DEF SwarmInv
    <3>2. CASE RunOf(j) = r
      BY <1>1, <2>1, <2>3, <3>1, <3>2 DEF CancelBook, PlaceBook
    <3>3. CASE RunOf(j) # r
      BY <1>4, <1>5, <2>1, <2>3, <3>1, <3>3 DEF CancelBook, OneRun
    <3> QED BY <3>2, <3>3
  <2> QED BY <1>1, <1>2, <1>8, <2>1, <2>2, <2>3 DEF CancelBook, RunOf, InFlight
<1> QED BY <1>7, <1>8, <1>9, <1>10, <1>11, <1>12, <1>13, <1>14 DEF SwarmInv

-----------------------------------------------------------------------------
\* What clients do leaves the runs where they are.
LEMMA RunsStay ==
    ASSUME SwarmInv, UNCHANGED <<run, step, turn>>,
           \A k \in Tasks: task[k] = "none" => task'[k] = "none"
    PROVE  (\A r \in Runs: RunBook(r)') /\ (\A k \in Tasks: PlaceBook(k)' /\ StepBook(k)')
<1>1. \A r \in Runs: RunBook(r)'
  BY DEF SwarmInv, RunBook
<1>2. ASSUME NEW k \in Tasks PROVE PlaceBook(k)' /\ StepBook(k)'
  BY <1>2 DEF SwarmInv, PlaceBook, StepBook, Unmade, RunOf
<1> QED BY <1>1, <1>2

LEMMA CancelCurrentKeeps == ASSUME SwarmInv, CancelCurrent PROVE SwarmInv'
<1>1. /\ Types /\ cancels' \in Nat /\ cancels' # 0
      /\ UNCHANGED <<run, step, mate, inbox, turn, foreign, kicks, slow, ran, overlapped>>
  BY DEF CancelCurrent, SwarmInv, Types
<1>2. \A k \in Tasks: task'[k] = task[k] \/ (task'[k] = "cancelled" /\ task[k] \notin Terminal \cup {"none"})
  BY DEF CancelCurrent
<1>3. task' \in [Tasks -> TaskStatus]
  BY <1>1 DEF CancelCurrent, Types, TaskStatus, Terminal
<1>4. /\ swarm' \in SwarmType /\ swarm'.asked = TRUE /\ swarm'.current = swarm.current
      /\ swarm'.status \in {"cancelled", swarm.status} /\ cancel' \in 0..CancelRounds
  <2>1. swarm \in SwarmType /\ 0 \in 0..CancelRounds /\ CancelRounds \in 0..CancelRounds
    BY <1>1, SwarmAssumption DEF Types, SwarmType
  <2>2. /\ cancel' \in {0, CancelRounds}
        /\ \/ swarm' = [swarm EXCEPT !.asked = TRUE, !.status = "cancelled"]
           \/ swarm' = [swarm EXCEPT !.asked = TRUE]
    BY DEF CancelCurrent, CancelLook
  <2> QED BY <2>1, <2>2 DEF SwarmType, RunStatus
<1>5. asked' = asked \cup {r \in Runs: r = swarm.current /\ run[r].pc # "telling"}
  BY DEF CancelCurrent
<1>6. Types'
  BY <1>1, <1>3, <1>4, <1>5 DEF Types, SwarmType
<1>7. (\A r \in Runs: RunBook(r)') /\ (\A k \in Tasks: PlaceBook(k)' /\ StepBook(k)')
  BY <1>1, <1>2, RunsStay
<1>8. MailBook'
  BY <1>1, MailStays DEF Unmade
<1>9. QuietBook'
  BY <1>1, <1>2 DEF SwarmInv, QuietBook, Terminal, RunOf
<1>10. PromptBook'
  BY <1>1 DEF SwarmInv, PromptBook
<1>11. StatusBook'
  BY <1>1, <1>4 DEF SwarmInv, StatusBook
<1>12. CancelBook'
  <2> SUFFICES ASSUME ~overlapped PROVE CancelBook'
    BY <1>1 DEF CancelBook
  <2>1. CancelBook
    BY DEF SwarmInv
  <2>2. ASSUME NEW r \in Runs, r = swarm.current, run[r].pc # "telling"
        PROVE  run[r].pc # "none" /\ run[r].outcome # "completed"
    <3>1. InFlight(r) /\ RunBook(r) /\ r # NoRun
      BY <2>1, <2>2, SwarmAssumption DEF CancelBook, SwarmInv, Runs, NoRun
    <3> QED BY <2>2, <3>1 DEF InFlight, RunBook
  <2>3. \A r \in asked': run[r].pc # "none" /\ run[r].outcome # "completed"
    BY <1>5, <2>1, <2>2 DEF CancelBook
  <2> QED BY <1>1, <1>4, <2>1, <2>3 DEF CancelBook, InFlight
<1> QED BY <1>6, <1>7, <1>8, <1>9, <1>10, <1>11, <1>12 DEF SwarmInv

LEMMA CancelAgainKeeps == ASSUME SwarmInv, CancelAgain PROVE SwarmInv'
<1>1. /\ Types /\ cancel > 0
      /\ UNCHANGED <<run, step, task, mate, inbox, turn, clients, slow, ran, asked, overlapped>>
  BY DEF CancelAgain, SwarmInv
<1>2. /\ swarm' \in SwarmType /\ swarm'.asked = swarm.asked /\ swarm'.current = swarm.current
      /\ swarm'.status \in {"cancelled", swarm.status} /\ cancel' \in 0..CancelRounds
  <2>1. swarm \in SwarmType /\ cancel \in 0..CancelRounds /\ CancelRounds \in Nat
    BY <1>1, SwarmAssumption DEF Types, SwarmType
  <2>2. CASE cancel' = 0 /\ swarm' = [swarm EXCEPT !.status = "cancelled"]
    BY <2>1, <2>2 DEF SwarmType, RunStatus
  <2>3. CASE cancel' = cancel - 1 /\ UNCHANGED swarm
    BY <1>1, <2>1, <2>3 DEF SwarmType
  <2> QED BY <2>2, <2>3 DEF CancelAgain
<1>3. Types'
  BY <1>1, <1>2 DEF Types, SwarmType, clients
<1>4. (\A r \in Runs: RunBook(r)') /\ (\A k \in Tasks: PlaceBook(k)' /\ StepBook(k)')
  BY <1>1, RunsStay
<1>5. MailBook'
  BY <1>1, MailStays DEF Unmade
<1>6. QuietBook' /\ PromptBook'
  BY <1>1 DEF SwarmInv, QuietBook, PromptBook, clients, RunOf
<1>7. StatusBook'
  <2>1. cancels # 0 /\ cancels' = cancels
    BY <1>1 DEF SwarmInv, StatusBook, clients
  <2> QED BY <1>1, <1>2, <2>1 DEF SwarmInv, StatusBook, clients
<1>8. CancelBook'
  BY <1>1, <1>2 DEF SwarmInv, CancelBook, InFlight, RunOf
<1> QED BY <1>3, <1>4, <1>5, <1>6, <1>7, <1>8 DEF SwarmInv

\* Foreign mail, and teammates that are stopped.
LEMMA ForeignKeeps ==
    ASSUME SwarmInv, foreign' = foreign + 1,
           mate' \in [Mates -> MateType], inbox' \in [Mates -> Seq(Mail)],
           \A t \in Mates: \A i \in 1..Len(inbox'[t]): MadeMail(inbox'[t][i]),
           \A t \in Mates: mate'[t].current = mate[t].current /\ mate'[t].status \in {mate[t].status, "stopped"},
           UNCHANGED <<swarm, run, step, task, cancel, turn, cancels, kicks, slow, ran, asked, overlapped>>
    PROVE  SwarmInv'
<1>1. Types /\ foreign' \in Nat /\ foreign' # 0
  BY DEF SwarmInv, Types
<1>2. Types'
  BY <1>1 DEF Types
<1>3. (\A r \in Runs: RunBook(r)') /\ (\A k \in Tasks: PlaceBook(k)' /\ StepBook(k)')
  BY RunsStay
<1>4. MailBook'
  BY DEF MailBook, MadeMail, Unmade, RunOf
<1>5. QuietBook'
  BY <1>1 DEF QuietBook
<1>6. PromptBook'
  BY DEF SwarmInv, PromptBook, StepBook
<1>7. StatusBook' /\ CancelBook'
  BY DEF SwarmInv, StatusBook, CancelBook, InFlight, RunOf
<1> QED BY <1>2, <1>3, <1>4, <1>5, <1>6, <1>7 DEF SwarmInv

LEMMA ClientKeeps ==
    ASSUME SwarmInv,
           (\E t \in Addressees: ReadOther(t) \/ \E kind \in Foreign: SendOther(t, kind)) \/ StopAll
    PROVE  SwarmInv'
<1>1. Types /\ \A t \in Mates: \A i \in 1..Len(inbox[t]): MadeMail(inbox[t][i])
  BY DEF SwarmInv, MailBook
<1>2. ASSUME NEW t \in Addressees, ReadOther(t) PROVE SwarmInv'
  <2>1. t \in Mates /\ inbox' = [inbox EXCEPT ![t] = <<>>] /\ mate' = mate
    BY <1>2, SwarmAssumption DEF ReadOther
  <2>2. /\ inbox' \in [Mates -> Seq(Mail)]
        /\ \A u \in Mates: \A i \in 1..Len(inbox'[u]): MadeMail(inbox'[u][i])
    BY <1>1, <2>1 DEF Types
  <2> QED BY <1>1, <1>2, <2>1, <2>2, ForeignKeeps DEF ReadOther, Types
<1>3. ASSUME NEW t \in Addressees, NEW kind \in Foreign, SendOther(t, kind) PROVE SwarmInv'
  <2> DEFINE m == OtherMail(kind)
             box == Append(inbox[t], m)
  <2>1. t \in Mates /\ inbox' = [inbox EXCEPT ![t] = box] /\ mate' = mate
    BY <1>3, SwarmAssumption DEF SendOther
  <2>2. m \in Mail /\ MadeMail(m)
    BY DEF OtherMail, Mail, MadeMail, Foreign
  <2>3. box \in Seq(Mail) /\ \A i \in 1..Len(box): MadeMail(box[i])
    <3> HIDE DEF m
    <3> QED BY <1>1, <2>1, <2>2, AppendIs DEF Types
  <2> HIDE DEF box
  <2>4. /\ inbox' \in [Mates -> Seq(Mail)]
        /\ \A u \in Mates: \A i \in 1..Len(inbox'[u]): MadeMail(inbox'[u][i])
    BY <1>1, <2>1, <2>3 DEF Types
  <2> QED BY <1>1, <1>3, <2>1, <2>4, ForeignKeeps DEF SendOther, Types
<1>4. ASSUME StopAll PROVE SwarmInv'
  <2>1. \A t \in Mates: mate'[t] = [mate[t] EXCEPT !.status = "stopped"] /\ mate[t] \in MateType
    BY <1>1, <1>4 DEF StopAll, Types
  <2>2. \A t \in Mates: /\ mate'[t] \in MateType
                        /\ mate'[t].current = mate[t].current /\ mate'[t].status = "stopped"
    BY <2>1 DEF MateType
  <2>3. mate' \in [Mates -> MateType]
    BY <1>4, <2>2 DEF StopAll
  <2> QED BY <1>1, <1>4, <2>2, <2>3, ForeignKeeps DEF StopAll, Types
<1> QED BY <1>2, <1>3, <1>4

-----------------------------------------------------------------------------
\* The invariant.
LEMMA SwarmStarts == SwarmInit => SwarmInv
<1> SUFFICES ASSUME SwarmInit PROVE SwarmInv
  OBVIOUS
<1>1. Types
  <2>1. <<>> \in Seq(Mail) /\ NoPlan \in Plan /\ 1 \in 1..(NSteps + 1)
    BY SwarmAssumption DEF NoPlan, Plan
  <2>2. /\ run \in [Runs -> RunType] /\ step \in [Tasks -> StepType] /\ task \in [Tasks -> TaskStatus]
        /\ mate \in [Mates -> MateType] /\ inbox \in [Mates -> Seq(Mail)]
    BY <2>1, IdleIs DEF SwarmInit, RunType, RunPcs, TaskStatus, MateType
  <2>3. swarm \in SwarmType
    BY DEF SwarmInit, SwarmType, RunStatus
  <2>4. cancel \in 0..CancelRounds /\ turn \in Runs \cup {NoRun} /\ ran \in [Tasks -> {"no", "succeeded", "failed"}]
    BY SwarmAssumption DEF SwarmInit
  <2> QED BY <2>2, <2>3, <2>4 DEF SwarmInit, Types, SwarmType
<1>2. /\ \A r \in Runs: run[r].pc = "none" /\ run[r].outcome = "none" /\ run[r].at = 1 /\ r # NoRun
      /\ \A k \in Tasks: step[k].pc = "none" /\ step[k].mail = NoTask /\ task[k] = "none" /\ RunOf(k) \in Runs
      /\ \A t \in Mates: mate[t].status = "idle" /\ inbox[t] = <<>>
  BY TaskIs, SwarmAssumption DEF SwarmInit, Idle, Runs, NoRun
<1>3. \A r \in Runs: RunBook(r)
  BY <1>2 DEF RunBook, SwarmInit
<1>4. \A k \in Tasks: PlaceBook(k) /\ StepBook(k)
  BY <1>2 DEF PlaceBook, StepBook
<1>5. MailBook
  BY <1>2 DEF MailBook
<1>6. QuietBook /\ PromptBook
  BY <1>2 DEF QuietBook, PromptBook
<1>7. StatusBook /\ CancelBook
  BY <1>2 DEF StatusBook, CancelBook, InFlight, SwarmInit
<1> QED BY <1>1, <1>3, <1>4, <1>5, <1>6, <1>7 DEF SwarmInv

LEMMA SwarmMoves == SwarmInv /\ [SwarmNext]_swarmVars => SwarmInv'
<1> SUFFICES ASSUME SwarmInv, [SwarmNext]_swarmVars PROVE SwarmInv'
  OBVIOUS
<1>1. CASE UNCHANGED swarmVars
  <2>1. (\A r \in Runs: RunBook(r)') /\ (\A k \in Tasks: PlaceBook(k)' /\ StepBook(k)')
    BY <1>1, RunsStay DEF swarmVars
  <2>2. MailBook' /\ QuietBook' /\ PromptBook' /\ StatusBook' /\ CancelBook'
    BY <1>1 DEF swarmVars, SwarmInv, MailBook, MadeMail, Unmade, QuietBook, PromptBook, StatusBook, CancelBook,
                InFlight, RunOf
  <2>3. Types'
    BY <1>1 DEF swarmVars, SwarmInv, Types
  <2> QED BY <2>1, <2>2, <2>3 DEF SwarmInv
<1>2. ASSUME NEW r \in Runs, Start(r) \/ PlanFails(r) \/ RunStep(r) \/ CancelCaller(r) PROVE SwarmInv'
  BY <1>2, StartKeeps, PlanFailsKeeps, CancelCallerKeeps, MaterializeKeeps, LaunchKeeps, NextStepKeeps, FinishKeeps,
     ToldKeeps DEF RunStep
<1>3. ASSUME NEW k \in Tasks, TaskStep(k) PROVE SwarmInv'
  BY <1>3, TaskStepKeeps
<1> QED BY <1>1, <1>2, <1>3, ClientKeeps, CancelCurrentKeeps, CancelAgainKeeps DEF SwarmNext

LEMMA SwarmInvHolds == SwarmSpec => []SwarmInv
  BY SwarmStarts, SwarmMoves, PTL DEF SwarmSpec

-----------------------------------------------------------------------------
(***************************************************************************)
(* The Swarm keeps its books for any runs, plans, teammates, limits, mail  *)
(* of others, stops, cancels and suspended handlers: results are booked    *)
(* on their own task, a teammate executes one thing at a time, and what a  *)
(* run reports is true, under the conditions the properties name.          *)
(***************************************************************************)
THEOREM SwarmHolds == SwarmSpec => []SwarmIsTrue
<1> SUFFICES ASSUME SwarmInv PROVE SwarmIsTrue
  BY SwarmInvHolds, PTL
<1>0. Types
  BY DEF SwarmInv
<1>1. SwarmTypeOK
  <2>1. \A r \in Runs: run[r] \in RunType
    BY <1>0 DEF Types
  <2>2. \A r \in Runs:
          /\ run[r].pc \in {"none", "planning", "created", "seq", "gather", "telling", "ended"}
          /\ run[r].at \in 1..(NSteps + 1)
          /\ run[r].outcome \in {"none", "completed", "failed", "cancelled", "raised"}
    BY <2>1 DEF RunType, RunPcs
  <2>3. ASSUME NEW k \in Tasks
        PROVE  /\ step[k].pc \in {"none", "queued", "dispatched", "waiting", "executing", "collecting",
                                  "reporting", "done"}
               /\ step[k].pc \in {"dispatched", "waiting", "executing", "collecting"} => step[k].mate \in Mates
               /\ step[k].pc \notin {"none", "done"} => InFlight(RunOf(k))
               /\ task[k] \in TaskStatus /\ ran[k] \in {"no", "succeeded", "failed"}
    <3>1. step[k] \in StepType /\ task[k] \in TaskStatus /\ ran[k] \in {"no", "succeeded", "failed"}
      BY <1>0 DEF Types
    <3>2. StepBook(k) /\ PlaceBook(k)
      BY DEF SwarmInv
    <3> QED BY <3>1, <3>2 DEF StepType, StepPcs, Working, StepBook, PlaceBook, InFlight
  <2>4. ASSUME NEW t \in Mates
        PROVE  /\ mate[t].status \in {"idle", "waiting", "running", "stopped"}
               /\ mate[t].current \in Tasks \cup {NoTask}
               /\ \A i \in DOMAIN inbox[t]: inbox[t][i].kind \in {"task"} \cup Foreign
    <3>1. mate[t] \in MateType /\ inbox[t] \in Seq(Mail)
      BY <1>0 DEF Types
    <3>2. \A i \in DOMAIN inbox[t]: inbox[t][i] \in Mail
      BY <3>1
    <3> QED BY <3>1, <3>2 DEF MateType, Mail
  <2> QED BY <1>0, <2>2, <2>3, <2>4 DEF SwarmTypeOK, Types
<1>2. BookedOnOwn
  BY DEF SwarmInv, QuietBook, BookedOnOwn
<1>3. OneAtATime
  <2>1. ASSUME slow = 0, NEW t \in Mates
        PROVE  Cardinality({k \in Tasks: step[k].pc = "executing" /\ step[k].mate = t}) <= 1
    <3> DEFINE S == {k \in Tasks: step[k].pc = "executing" /\ step[k].mate = t}
    <3>1. S \subseteq {mate[t].current}
      BY <2>1 DEF SwarmInv, PromptBook
    <3>2. IsFiniteSet({mate[t].current}) /\ Cardinality({mate[t].current}) = 1
      BY FS_Singleton
    <3> HIDE DEF S
    <3>3. Cardinality(S) <= 1
      BY <3>1, <3>2, FS_Subset
    <3> QED BY <3>3 DEF S
  <2>2. kicks = 0 /\ swarm.status \in {"planning", "running"} => \E r \in Runs: InFlight(r)
    BY DEF SwarmInv, StatusBook, InFlight
  <2> QED BY <2>1, <2>2 DEF OneAtATime, SwarmInv, StatusBook
<1>4. OutcomeIsTrue
  BY DEF OutcomeIsTrue, SwarmInv, CancelBook, QuietBook
<1> QED BY <1>1, <1>2, <1>3, <1>4 DEF SwarmIsTrue

Kept == ~overlapped => \A k \in Tasks: task[k] = "cancelled" => task'[k] = "cancelled"

LEMMA SettleKeepsCancel ==
    ASSUME Types, NEW k \in Tasks, NEW mail, NEW ok, NEW res, Settle(k, mail, ok, res)
    PROVE  Kept
<1> DEFINE a == Applied(mail, res)
<1>1. a \in [Tasks -> {a[j]: j \in Tasks}] /\ \A j \in Tasks: task[j] = "cancelled" => a[j] = "cancelled"
  BY DEF Applied, Booked, Types
<1>2. \E settled: task' = [a EXCEPT ![k] = settled] /\ (a[k] \in Terminal => settled = a[k])
  BY DEF Settle, Applied
<1> HIDE DEF a
<1> QED BY <1>1, <1>2 DEF Kept, Terminal

LEMMA DispatchKeepsCancel ==
    ASSUME SwarmInv, NEW k \in Tasks, MayMove(k), step[k].pc \in {"none", "queued"}, Dispatch(k)
    PROVE  Kept
<1>1. task \in [Tasks -> TaskStatus] /\ run[RunOf(k)].pc \in {"created", "seq", "gather"}
  BY DEF SwarmInv, Types, MayMove
<1>2. ~overlapped /\ ~swarm.asked => task[k] # "cancelled"
  BY <1>1 DEF SwarmInv, CancelBook
<1> QED BY <1>1, <1>2 DEF Dispatch, Kept

LEMMA StepsKeepCancel == ASSUME SwarmInv, NEW k \in Tasks, TaskStep(k) PROVE Kept
<1>1. Types /\ task \in [Tasks -> TaskStatus]
  BY DEF SwarmInv, Types
<1>2. CASE Enter(k)
  BY <1>2, WorkingMayMove, DispatchKeepsCancel DEF Enter
<1>3. CASE Dispatched(k)
  <2>1. MayMove(k)
    BY <1>3, WorkingMayMove DEF Dispatched, Working
  <2>2. ~overlapped /\ ~swarm.asked => task[k] # "cancelled"
    BY <1>3, <2>1 DEF SwarmInv, CancelBook, MayMove, Dispatched
  <2> QED BY <1>1, <1>3, <2>2 DEF Dispatched, Kept
<1>4. CASE WaitEnds(k)
  BY <1>4 DEF WaitEnds, Kept
<1>5. CASE CollectTimesOut(k)
  BY <1>1, <1>5, SettleKeepsCancel DEF CollectTimesOut
<1>6. CASE Reported(k)
  BY <1>6 DEF Reported, Kept
<1>7. ASSUME NEW ok \in BOOLEAN, ExecReturns(k, ok) PROVE Kept
  <2>1. CASE task' = task
    BY <2>1 DEF Kept
  <2>2. CASE Settle(k, step[k].mail, ok, IF ok THEN "succeeded" ELSE "failed")
    BY <1>1, <2>2, SettleKeepsCancel
  <2> QED BY <1>7, <2>1, <2>2 DEF ExecReturns
<1> QED BY <1>2, <1>3, <1>4, <1>5, <1>6, <1>7 DEF TaskStep

LEMMA NextKeepsCancel == ASSUME SwarmInv, SwarmNext PROVE Kept
<1>1. Types /\ task \in [Tasks -> TaskStatus]
  BY DEF SwarmInv, Types
<1>2. CASE task' = task
  BY <1>2 DEF Kept
<1>3. ASSUME NEW r \in Runs, Materialize(r) PROVE Kept
  <2>1. \A k \in Tasks: RunOf(k) = r => task[k] = "none"
    BY <1>3 DEF Materialize, SwarmInv, StepBook, Unmade
  <2>2. \A k \in Tasks: RunOf(k) # r => task'[k] = task[k]
    BY <1>3 DEF Materialize
  <2> QED BY <2>1, <2>2 DEF Kept
<1>4. ASSUME NEW r \in Runs, NextStep(r) PROVE Kept
  <2>1. PICK k \in Tasks: k = <<r, run[r].at>> /\ MayMove(k) /\ step[k].pc = "none"
    BY <1>4, NextStepMayMove
  <2>2. CASE Dispatch(k)
    BY <2>1, <2>2, DispatchKeepsCancel
  <2>3. CASE task' = [task EXCEPT ![k] = "cancelled"]
    BY <1>1, <2>3 DEF Kept
  <2> QED BY <1>4, <2>1, <2>2, <2>3 DEF NextStep
<1>5. ASSUME CancelCurrent PROVE Kept
  BY <1>5 DEF CancelCurrent, Kept
<1>6. ASSUME NEW r \in Runs, Start(r) \/ PlanFails(r) \/ RunStep(r) \/ CancelCaller(r) PROVE Kept
  <2>1. task' = task \/ Materialize(r) \/ NextStep(r)
    BY <1>6 DEF Start, PlanFails, RunStep, CancelCaller, Launch, Finish, Told
  <2> QED BY <1>2, <1>3, <1>4, <2>1
<1>7. ASSUME \/ \E t \in Addressees: ReadOther(t) \/ \E kind \in Foreign: SendOther(t, kind)
             \/ StopAll \/ CancelAgain
      PROVE  Kept
  <2>1. task' = task
    BY <1>7 DEF ReadOther, SendOther, StopAll, CancelAgain
  <2> QED BY <1>2, <2>1
<1> QED BY <1>5, <1>6, <1>7, StepsKeepCancel DEF SwarmNext

(***************************************************************************)
(* While no second run is started beside the first, no step of anybody     *)
(* takes a cancelled task up again or decides it anew.                     *)
(***************************************************************************)
THEOREM CancelledStays == SwarmSpec => CancelStays
<1>1. SwarmInv /\ [SwarmNext]_swarmVars =>
        [~overlapped => \A k \in Tasks: task[k] = "cancelled" => task'[k] = "cancelled"]_swarmVars
  BY NextKeepsCancel DEF Kept
<1> QED BY <1>1, SwarmInvHolds, PTL DEF SwarmSpec, CancelStays

==============================================================================
