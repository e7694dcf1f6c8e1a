------------------------------ MODULE AgentGraph ------------------------------
(***************************************************************************)
(* pywork/runtime/graph.py: one AgentGraphRunner, turn after turn.         *)
(*                                                                         *)
(* A turn is a run of the LangGraph of nine nodes for one user input.  A   *)
(* step is one node, or the part of a node up to or after its one await    *)
(* (the LLM, the approval of the user, the tool).  The state a node leaves *)
(* for the next is the channels of AgentGraphData: `error` and `tool_call` *)
(* are not among them and are lost at the end of the node.  build_context  *)
(* and compact_if_needed only touch the messages and are left out.         *)
(*                                                                         *)
(* Of the tool calls of one LLM response the first is executed; the others *)
(* are only listed in the AgentState and are left out here.                *)
(***************************************************************************)
EXTENDS PermissionGate, Sequences

CONSTANTS
    SessionModes, \* the permission modes a session may have
    Ops,          \* the tool calls there are, as the permission gate sees them
    Intents,      \* what a user input asks for
    FileLists,    \* what a glob may find, as the file_read calls that follow
    Fallback,     \* config llm.fallback_to_mock
    MaxTurns,     \* bound: user inputs
    MaxRounds,    \* the recursion limit of LangGraph, in rounds of the graph
    MaxFaults     \* bound: failed writes of the permission audit log

\* A call that there is not; also the shape of what the LLM says without a call.
NoCall == [tool |-> "none", rule |-> "none", risk |-> "safe"]
Text == [NoCall EXCEPT !.tool = "text"]
Empty == [NoCall EXCEPT !.tool = "empty"]

\* read: the input matches READ_FILE_INTENT_PATTERN.  route: the call of the
\* coordinator or reviewer route.  first: the file_read or glob it names.
Intent == [read: BOOLEAN, route: Ops \cup {NoCall}, first: Ops \cup {NoCall}]

ASSUME GraphAssumption ==
    /\ SessionModes \subseteq Modes
    /\ Ops \subseteq Operation
    /\ {NoCall, Text, Empty} \cap Ops = {}
    /\ Intents \subseteq Intent
    /\ \A i \in Intents: i.first # NoCall => i.read
    /\ FileLists \subseteq Seq(Ops)
    /\ Fallback \in BOOLEAN

ASSUME BoundsAssumption == MaxTurns \in Nat /\ MaxRounds \in Nat /\ MaxFaults \in Nat

VARIABLES
    pc,           \* the node to run next, or how the last turn ended
    mode,         \* the permission mode of the session
    overrides,    \* PermissionGateState: operations answered with Always Allow
    status,       \* AgentState.status
    iteration,    \* AgentState.iteration: LLM calls of this turn
    intent,       \* user_input
    rounds,       \* rounds of the graph in this turn
    output,       \* llm_output and assistant_message
    call,         \* parsed_tool_call, has_tool_call
    gate,         \* permission_gate_result: its decision, "none" without one
    granted,      \* the user allowed this call in approval_result
    result,       \* tool_result
    awaiting,     \* awaiting_final_response
    requested,    \* final_response_requested
    pending,      \* pending_file_read_paths
    batch,        \* file_read_batch_active
    outcomes,     \* the FINISHED and ERROR lifecycle events of this turn
    turns,        \* user inputs so far
    faults        \* failed audit writes so far

channels == <<output, call, gate, granted, result, awaiting, requested, pending, batch>>
session == <<mode, intent, turns>>
vars == <<pc, overrides, status, iteration, rounds, outcomes, faults, channels, session>>

Between == {"idle", "returned", "raised", "overrun", "cancelled"}
NoResult == [op |-> NoCall, outcome |-> "none"]
NoIntent == [read |-> FALSE, route |-> NoCall, first |-> NoCall]

Init ==
    /\ pc = "idle" /\ status = "idle"
    /\ mode \in SessionModes
    /\ overrides = {}
    /\ iteration = 0 /\ rounds = 0 /\ turns = 0 /\ faults = 0
    /\ intent = NoIntent
    /\ output = NoCall /\ call = NoCall /\ result = NoResult
    /\ gate = "none" /\ granted = FALSE
    /\ awaiting = FALSE /\ requested = FALSE
    /\ pending = <<>> /\ batch = FALSE
    /\ outcomes = <<>>

\* A write of the permission audit log raises.
AuditFails == faults < MaxFaults /\ faults' = faults + 1

-----------------------------------------------------------------------------
(***************************************************************************)
(* The nodes before the tool.                                              *)
(***************************************************************************)
\* arun: a fresh AgentGraphData for the AgentState of the session; user_input.
UserInput(i) ==
    /\ pc \in Between
    /\ turns < MaxTurns /\ turns' = turns + 1
    /\ intent' = i /\ rounds' = 1
    /\ status' = "idle" /\ iteration' = 0 /\ outcomes' = <<>>
    /\ output' = NoCall /\ call' = NoCall /\ result' = NoResult
    /\ gate' = "none" /\ granted' = FALSE
    /\ awaiting' = FALSE /\ requested' = FALSE
    /\ pending' = <<>> /\ batch' = FALSE
    /\ pc' = "call_llm"
    /\ UNCHANGED <<mode, overrides, faults>>

\* The call that is made without the LLM: a route of the input first, in every
\* round; then the next file of a batch; then the file the input names.
RoutedCall ==
    IF awaiting THEN NoCall
    ELSE IF intent.route # NoCall THEN intent.route
    ELSE IF pending # <<>> THEN Head(pending)
    ELSE IF batch THEN NoCall ELSE intent.first

FromBatch == ~awaiting /\ intent.route = NoCall /\ pending # <<>>

CallLlm ==
    /\ pc = "call_llm"
    /\ status' = "thinking"
    /\ output' = RoutedCall
    /\ pending' = IF FromBatch THEN Tail(pending) ELSE pending
    /\ batch' = (batch \/ FromBatch)
    /\ IF RoutedCall = NoCall
       THEN pc' = "llm" /\ iteration' = iteration + 1
       ELSE pc' = "parse_tool_call" /\ UNCHANGED iteration
    /\ UNCHANGED <<overrides, rounds, outcomes, faults, call, gate, granted, result,
                   awaiting, requested, session>>

\* The LLM answers with text or a call; so does the mock that stands in for it.
LlmAnswers(answer) ==
    /\ pc = "llm"
    /\ output' = answer
    /\ pc' = "parse_tool_call"
    /\ UNCHANGED <<overrides, status, iteration, rounds, outcomes, faults, call, gate,
                   granted, result, awaiting, requested, pending, batch, session>>

\* The LLM raises and no mock stands in.
LlmFails ==
    /\ pc = "llm" /\ ~Fallback
    /\ output' = Empty /\ status' = "error"
    /\ pc' = "parse_tool_call"
    /\ UNCHANGED <<overrides, iteration, rounds, outcomes, faults, call, gate,
                   granted, result, awaiting, requested, pending, batch, session>>

ParseOnlyContent ==                          \* mutant: empty output is not looked for
    /\ pc = "parse_tool_call"
    /\ \/ /\ output \in Ops
          /\ call' = output /\ status' = "running_tool"
          /\ UNCHANGED <<awaiting, outcomes>>
       \/ /\ output = Text
          /\ call' = NoCall /\ status' = "finished"
          /\ awaiting' = FALSE /\ outcomes' = Append(outcomes, "finished")
    /\ pc' = "permission_check"
    /\ UNCHANGED <<overrides, iteration, rounds, faults, output, gate, granted, result,
                   requested, pending, batch, session>>

ParseToolCall ==
    /\ pc = "parse_tool_call"
    /\ \/ /\ output \in Ops
          /\ call' = output /\ status' = "running_tool"
          /\ UNCHANGED <<awaiting, outcomes>>
       \/ /\ output = Text
          /\ call' = NoCall /\ status' = "finished"
          /\ awaiting' = FALSE /\ outcomes' = Append(outcomes, "finished")
       \/ /\ output = Empty
          /\ call' = NoCall /\ status' = "finished"
          /\ UNCHANGED <<awaiting, outcomes>>
    /\ pc' = "permission_check"
    /\ UNCHANGED <<overrides, iteration, rounds, faults, output, gate, granted, result,
                   requested, pending, batch, session>>

\* The rules or the audit log raise: there is no gate result, and the next node
\* goes on without one.  Without a call the nodes up to continue_or_stop do nothing.
PermissionCheckKeepsGate ==                  \* mutant: the gate is not reset first
    /\ pc = "permission_check"
    /\ \/ /\ call = NoCall
          /\ pc' = "continue_or_stop"
          /\ UNCHANGED <<gate, status, faults>>
       \/ /\ call # NoCall
          /\ IF call.rule = "raises" THEN UNCHANGED faults ELSE AuditFails
          /\ status' = "error" /\ pc' = "execute_tool"
          /\ UNCHANGED gate
       \/ /\ call # NoCall /\ call.rule # "raises"
          /\ gate' = Decide(GateMode(mode), call, overrides)
          /\ status' = IF gate' = "allow" THEN status ELSE "waiting_permission"
          /\ pc' = "execute_tool"
          /\ UNCHANGED faults
    /\ granted' = FALSE
    /\ UNCHANGED <<overrides, iteration, rounds, outcomes, output, call, result,
                   awaiting, requested, pending, batch, session>>

PermissionCheck ==
    /\ pc = "permission_check"
    /\ \/ /\ call = NoCall
          /\ gate' = "none" /\ pc' = "continue_or_stop"
          /\ UNCHANGED <<status, faults>>
       \/ /\ call # NoCall
          /\ IF call.rule = "raises" THEN UNCHANGED faults ELSE AuditFails
          /\ gate' = "none" /\ status' = "error" /\ pc' = "execute_tool"
       \/ /\ call # NoCall /\ call.rule # "raises"
          /\ gate' = Decide(GateMode(mode), call, overrides)
          /\ status' = IF gate' = "allow" THEN status ELSE "waiting_permission"
          /\ pc' = "execute_tool"
          /\ UNCHANGED faults
    /\ granted' = FALSE
    /\ UNCHANGED <<overrides, iteration, rounds, outcomes, output, call, result,
                   awaiting, requested, pending, batch, session>>

-----------------------------------------------------------------------------
(***************************************************************************)
(* execute_tool.                                                           *)
(***************************************************************************)
Raised == pc' = "raised" /\ status' = "error"     \* RuntimeEngine.arun sets the status

BlockedBefore ==                             \* mutant: the old tool_result is left
    /\ status' = "error" /\ UNCHANGED result
    /\ pc' = "append_observation"

Blocked ==
    /\ result' = [op |-> call, outcome |-> "blocked"] /\ status' = "error"
    /\ pc' = "append_observation"

\* Up to the first await.  An audit write that fails after a denial escapes.
ExecuteTool ==
    /\ pc = "execute_tool"
    /\ \/ /\ gate = "deny"
          /\ \/ Blocked /\ UNCHANGED faults
             \/ AuditFails /\ Raised /\ UNCHANGED result
       \/ /\ gate \in Asking
          /\ pc' = "approval"
          /\ UNCHANGED <<status, result, faults>>
       \/ /\ gate \in {"allow", "none"}
          /\ pc' = "running" /\ status' = "running_tool"
          /\ UNCHANGED <<result, faults>>
    /\ UNCHANGED <<overrides, iteration, rounds, outcomes, output, call, gate, granted,
                   awaiting, requested, pending, batch, session>>

\* The approval handler answers.  No handler, or a dismissed dialog, is a "deny".
ApprovalAnswered(answer) ==
    /\ pc = "approval"
    /\ IF answer = "deny"
       THEN Blocked /\ UNCHANGED <<overrides, granted>>
       ELSE /\ granted' = TRUE
            /\ overrides' = IF answer = "always_allow" THEN overrides \cup {call}
                                                       ELSE overrides
            /\ pc' = "running" /\ status' = "running_tool"
            /\ UNCHANGED result
    /\ UNCHANGED <<iteration, rounds, outcomes, faults, output, call, gate,
                   awaiting, requested, pending, batch, session>>

\* The audit of the answer raises: nothing in the graph catches it.
ApprovalRaises ==
    /\ pc = "approval"
    /\ AuditFails /\ Raised
    /\ UNCHANGED <<overrides, iteration, rounds, outcomes, channels, session>>

\* registry.execute_call comes back.  With a gate result the execution is audited:
\* a failure there is taken for a failure of the tool, a second one escapes.
ToolReturns(outcome) ==
    /\ pc = "running"
    /\ call.rule = "raises" => outcome = "failed"       \* the argument is missing
    /\ \/ /\ result' = [op |-> call, outcome |-> outcome]
          /\ status' = IF outcome = "ok" THEN "idle" ELSE "error"
          /\ pc' = "append_observation"
          /\ UNCHANGED faults
       \/ /\ gate # "none" /\ AuditFails
          /\ result' = [op |-> call, outcome |-> "failed"] /\ status' = "error"
          /\ pc' = "append_observation"
       \/ /\ gate # "none"
          /\ faults + 2 <= MaxFaults /\ faults' = faults + 2
          /\ Raised /\ UNCHANGED result
    /\ UNCHANGED <<overrides, iteration, rounds, outcomes, output, call, gate, granted,
                   awaiting, requested, pending, batch, session>>

-----------------------------------------------------------------------------
(***************************************************************************)
(* The nodes after the tool.                                               *)
(***************************************************************************)
DirectFinish == {"file_write", "file_edit"}

\* A glob of a read request queues what it found, in place of what was queued.
QueueReads(files) ==
    /\ result.op.tool = "glob" /\ intent.read /\ files # <<>>
    /\ pending' = files /\ batch' = TRUE
    /\ status' = "idle"
    /\ UNCHANGED <<awaiting, outcomes>>

\* The LLM is to answer from the result, unless files are left to read.
ObserveAlways ==                             \* mutant: the queue is not looked at
    /\ awaiting' = TRUE /\ batch' = FALSE
    /\ status' = "idle"
    /\ UNCHANGED <<pending, outcomes>>

Observe ==
    /\ awaiting' = (pending = <<>>)
    /\ batch' = (batch /\ pending # <<>>)
    /\ status' = "idle"
    /\ UNCHANGED <<pending, outcomes>>

FinishDirectly ==
    /\ awaiting' = FALSE /\ batch' = FALSE
    /\ status' = "finished"
    /\ UNCHANGED <<pending, outcomes>>

ReportFailure ==
    /\ status' = "error" /\ outcomes' = Append(outcomes, "error")
    /\ UNCHANGED <<awaiting, batch, pending>>

AppendObservation ==
    /\ pc = "append_observation"
    /\ \/ /\ result.outcome = "ok" /\ result.op.tool \notin DirectFinish
          /\ Observe \/ \E files \in FileLists: QueueReads(files)
       \/ /\ \/ result.outcome = "ok" /\ result.op.tool \in DirectFinish
             \/ result.outcome = "blocked"
          /\ FinishDirectly
       \/ result.outcome = "failed" /\ ReportFailure
    /\ call' = NoCall /\ output' = NoCall
    /\ pc' = "continue_or_stop"
    /\ UNCHANGED <<overrides, iteration, rounds, faults, gate, granted, result,
                   requested, session>>

\* Back to build_context, unless LangGraph has had enough.
Loop ==
    /\ IF rounds < MaxRounds
       THEN rounds' = rounds + 1 /\ pc' = "call_llm" /\ UNCHANGED status
       ELSE pc' = "overrun" /\ status' = "error" /\ UNCHANGED rounds

ContinueWhileAwaiting ==                     \* mutant: the request is not noted
    /\ pc = "continue_or_stop"
    /\ IF awaiting \/ pending # <<>>
       THEN Loop
       ELSE pc' = "returned" /\ status' = "finished" /\ UNCHANGED rounds
    /\ UNCHANGED <<overrides, iteration, outcomes, faults, output, call, gate, granted,
                   result, awaiting, requested, pending, batch, session>>

ContinueOrStop ==
    /\ pc = "continue_or_stop"
    /\ \/ /\ awaiting /\ ~requested
          /\ requested' = TRUE
          /\ Loop
       \/ /\ ~(awaiting /\ ~requested) /\ pending # <<>>
          /\ Loop
          /\ UNCHANGED requested
       \/ /\ ~(awaiting /\ ~requested) /\ pending = <<>>
          /\ pc' = "returned" /\ status' = "finished"
          /\ UNCHANGED <<requested, rounds>>
    /\ UNCHANGED <<overrides, iteration, outcomes, faults, output, call, gate, granted,
                   result, awaiting, pending, batch, session>>

\* The graph run is cancelled, at an await or between two nodes; RuntimeEngine.arun
\* sets the status.
Cancel ==
    /\ pc \notin Between
    /\ pc' = "cancelled" /\ status' = "cancelled"
    /\ UNCHANGED <<overrides, iteration, rounds, outcomes, faults, channels, session>>

Node == CallLlm \/ ParseToolCall \/ PermissionCheck \/ ExecuteTool
        \/ AppendObservation \/ ContinueOrStop

Answer ==
    \/ \E answer \in Ops \cup {Text}: LlmAnswers(answer)
    \/ LlmFails
    \/ \E answer \in {"allow", "always_allow", "deny"}: ApprovalAnswered(answer)
    \/ ApprovalRaises
    \/ \E outcome \in {"ok", "failed"}: ToolReturns(outcome)

Next == (\E i \in Intents: UserInput(i)) \/ Node \/ Answer \/ Cancel

Spec == Init /\ [][Next]_vars

\* LangGraph runs the next node; the LLM, the user and the tool answer some time.
Fairness == WF_vars(Node) /\ WF_vars(Answer)
FairSpec == Spec /\ Fairness

-----------------------------------------------------------------------------
(***************************************************************************)
(* Properties.                                                             *)
(***************************************************************************)
Nodes == {"call_llm", "llm", "parse_tool_call", "permission_check", "execute_tool",
          "approval", "running", "append_observation", "continue_or_stop"}

RunTypes ==
    /\ pc \in Nodes \cup Between
    /\ status \in {"idle", "thinking", "waiting_permission", "running_tool",
                   "finished", "error", "cancelled"}

\* A round makes at most one LLM call.
Counters ==
    /\ iteration \in Nat /\ rounds \in Nat /\ turns \in Nat
    /\ iteration <= rounds
    /\ pc = "call_llm" => iteration < rounds
    /\ faults \in 0..MaxFaults

SessionTypes ==
    /\ mode \in SessionModes
    /\ overrides \subseteq Ops
    /\ intent \in Intents \cup {NoIntent}
    /\ outcomes \in Seq({"finished", "error"})

CallTypes ==
    /\ output \in Ops \cup {NoCall, Text, Empty}
    /\ call \in Ops \cup {NoCall}
    /\ gate \in Decisions \cup {"none"}
    /\ result \in [op: Ops, outcome: {"ok", "failed", "blocked"}] \cup {NoResult}
    /\ pending \in Seq(Ops)

FlagTypes ==
    /\ granted \in BOOLEAN
    /\ awaiting \in BOOLEAN
    /\ requested \in BOOLEAN
    /\ batch \in BOOLEAN

\* The nodes from execute_tool on have a call, and append_observation its result.
CallAtHand ==
    /\ pc = "parse_tool_call" => output # NoCall
    /\ pc \in {"execute_tool", "approval", "running"} => call \in Ops
    /\ pc = "append_observation" => call \in Ops /\ result.op = call

\* Every variable has its type, and no node is reached without what it works on.
TypeOK == RunTypes /\ Counters /\ SessionTypes /\ CallTypes /\ FlagTypes /\ CallAtHand

\* A tool call that the rules deny, or the mode that the gate makes of the session's,
\* is never executed: not by an override of an earlier turn, not by the gate result of
\* an earlier call.  Only when the gate itself raised is there nothing to go by.
DeniedNeverRuns == pc = "running" /\ gate # "none" => Combine(GateMode(mode), call) # "deny"

\* A tool call that has to be asked for is executed only after the user allowed
\* this very call, or answered Always Allow to the same operation before.
AskedRunsOnlyGranted ==
    pc = "running" /\ gate # "none" /\ Combine(GateMode(mode), call) \in Asking
        => granted \/ call \in overrides

\* The user who answered Always Allow is not asked for that operation again, in
\* this turn or in a later one of the session.
NeverAskedAgain == pc = "approval" => call \notin overrides

\* What the gate decided is what happens, in every turn of a session.
GateIsObeyed == DeniedNeverRuns /\ AskedRunsOnlyGranted /\ NeverAskedAgain

\* Without a read request the graph makes at most two rounds: one tool call and
\* the answer from its result, or two tool calls.  Nothing else bounds the loop.
RoundsBounded == ~intent.read => rounds <= 2

\* Without a read request a turn has one outcome event: FINISHED and ERROR do not
\* both reach the subscribers, and neither comes twice.
OneOutcomeEvent == ~intent.read => Len(outcomes) <= 1

\* A turn without a read request is short, and its subscribers hear one end of it.
TurnsAreShort == RoundsBounded /\ OneOutcomeEvent

\* The LLM is asked for the first time only when the files that the input named or
\* matched have all been read (or refused): "I will read these files next before
\* answering".  A glob that the LLM asks for later is not covered.
ReadsBeforeAnswer == pc = "llm" /\ iteration = 1 => pending = <<>>

\* A turn without a read request comes to an end that is not the recursion limit.
TurnEnds == (pc \notin Between /\ ~intent.read) ~> pc \in {"returned", "raised", "cancelled"}
=============================================================================
