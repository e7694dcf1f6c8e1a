----------------------------- MODULE Conversation -----------------------------
(***************************************************************************)
(* What the language model is told: the messages of AgentState through the *)
(* nodes of pywork/runtime/graph.py, turn after turn, and the request that *)
(* each LLM call makes of them.                                            *)
(*                                                                         *)
(* AgentGraph has the decisions of these nodes; here a tool call is only   *)
(* how it ends, and what each node leaves in the messages is what counts.  *)
(* A message is its role, what it is for, and its number.                  *)
(***************************************************************************)
EXTENDS LlmRouter

CONSTANTS
    MaxContext,   \* config agent.max_context_messages, 0 for no limit
    GlobFinds,    \* how many files a glob may find
    MaxTurns,     \* bound: user inputs
    MaxRounds     \* the recursion limit of LangGraph, in rounds of the graph

ASSUME ContextAssumption == MaxContext \in Nat
ASSUME ConversationBounds ==
    MaxTurns \in Nat /\ MaxRounds \in Nat \ {0} /\ GlobFinds \subseteq Nat

VARIABLES
    pc,           \* the node to run next
    messages,     \* AgentState.messages
    spoken,       \* how many messages there have been
    question,     \* the number of this turn's user input
    route,        \* the calls made without the LLM: "none", "file" or "always"
    output,       \* [calls, from]: llm_output, assistant_message, llm_response
    awaiting,     \* awaiting_final_response
    requested,    \* final_response_requested
    pending,      \* how many pending_file_read_paths
    batch,        \* file_read_batch_active
    rounds,       \* rounds of the graph in this turn
    turns         \* user inputs so far

talkVars == <<messages, spoken, question>>
flagVars == <<awaiting, requested, pending, batch>>
convVars == <<pc, route, output, rounds, turns, talkVars, flagVars, routerVars>>

NoOutput == [calls |-> 0, from |-> "none"]

ConvInit ==
    /\ RouterInit
    /\ pc = "idle" /\ route = "none" /\ output = NoOutput
    /\ messages = <<>> /\ spoken = 0 /\ question = 0
    /\ awaiting = FALSE /\ requested = FALSE /\ pending = 0 /\ batch = FALSE
    /\ rounds = 0 /\ turns = 0

\* AgentState.add_message, once for each of the kinds.
Say(kinds) ==
    /\ messages' = messages \o [i \in 1..Len(kinds) |->
                                  [kind |-> kinds[i], number |-> spoken + i]]
    /\ spoken' = spoken + Len(kinds)

Quiet == UNCHANGED <<messages, spoken>>

\* build_llm_messages: the newest messages, behind the system prompt.
LastOf(s, n) == SubSeq(s, IF Len(s) > n THEN Len(s) - n + 1 ELSE 1, Len(s))

WindowFromStart(s) ==                              \* mutant: the oldest are taken
    IF MaxContext > 0 THEN SubSeq(s, 1, IF Len(s) > MaxContext THEN MaxContext ELSE Len(s))
    ELSE s

Window(s) == IF MaxContext > 0 THEN LastOf(s, MaxContext) ELSE s

\* agent_message_to_llm_message: only an answer stays what it was.
SystemPrompt == [role |-> "system", number |-> 0]

ToLlm(m) == [role |-> IF m.kind = "assistant" THEN "assistant" ELSE "user",
             number |-> m.number]

-----------------------------------------------------------------------------
\* user_input and build_context: a turn opens, for an input that says something.
UserInput(r) ==
    /\ pc = "idle" /\ turns < MaxTurns
    /\ turns' = turns + 1 /\ rounds' = 1
    /\ Say(<<"user">>) /\ question' = spoken + 1
    /\ route' = r /\ output' = NoOutput
    /\ awaiting' = FALSE /\ requested' = FALSE /\ pending' = 0 /\ batch' = FALSE
    /\ pc' = "call_llm"
    /\ UNCHANGED routerVars

\* The call made without the LLM: the coordinator or reviewer route in every round,
\* then the next file of the batch, then the file the input names.
Routed == ~awaiting /\ (route = "always" \/ pending > 0 \/ (~batch /\ route = "file"))

FromBatch == ~awaiting /\ route # "always" /\ pending > 0

CallRouted ==
    /\ pc = "call_llm" /\ Routed
    /\ output' = [calls |-> 1, from |-> "route"]
    /\ pending' = IF FromBatch THEN pending - 1 ELSE pending
    /\ batch' = (batch \/ FromBatch)
    /\ pc' = "parse_tool_call"
    /\ UNCHANGED <<route, rounds, turns, talkVars, awaiting, requested, routerVars>>

\* call_real_llm: the request is made, and the chat opened.
CallRealLlm ==
    /\ pc = "call_llm" /\ ~Routed
    /\ Opens(<<SystemPrompt>> \o [i \in DOMAIN Window(messages) |->
                                    ToLlm(Window(messages)[i])])
    /\ pc' = "chat"
    /\ UNCHANGED <<route, output, rounds, turns, talkVars, flagVars>>

ChatStep == pc = "chat" /\ Provider
            /\ UNCHANGED <<pc, route, output, rounds, turns, talkVars, flagVars>>

\* The answer of the chat; the mock stands in for a failed one, if it may.  It
\* repeats the tool result it should answer from, or takes the input for a call.
LlmReturns ==
    /\ pc = "chat"
    /\ \/ chat.state = "answered" /\ output' = [calls |-> chat.calls, from |-> "llm"]
       \/ /\ chat.state = "failed" /\ llm.mock
          /\ \E n \in IF awaiting THEN {0} ELSE {0, 1}:
                output' = [calls |-> n, from |-> "mock"]
       \/ chat.state = "failed" /\ ~llm.mock /\ output' = NoOutput
    /\ pc' = "parse_tool_call"
    /\ UNCHANGED <<route, rounds, turns, talkVars, flagVars, routerVars>>

\* Only an answer of a provider, and a text of the mock, is kept as a message.
Kept == output.from = "llm" \/ (output.from = "mock" /\ output.calls = 0)

ParseToolCall ==
    /\ pc = "parse_tool_call"
    /\ IF Kept THEN Say(<<"assistant">>) ELSE Quiet
    /\ awaiting' = (awaiting /\ ~(Kept /\ output.calls = 0))
    /\ pc' = IF output.calls > 0 THEN "execute_tool" ELSE "compact"
    /\ UNCHANGED <<route, output, rounds, turns, question, requested, pending,
                   batch, routerVars>>

-----------------------------------------------------------------------------
\* execute_tool and append_observation.  Every tool result is a message; a result
\* whose audit fails is followed by the result that says so.
ToolSucceeds ==
    /\ pc = "execute_tool"
    /\ Say(<<"tool", "observation">>)
    /\ awaiting' = (pending = 0) /\ batch' = (batch /\ pending > 0)
    /\ UNCHANGED pending

GlobSucceeds(n) ==
    /\ pc = "execute_tool" /\ n > 0
    /\ Say(<<"tool", "observation">>)
    /\ pending' = n /\ batch' = TRUE
    /\ UNCHANGED awaiting

\* A write or an edit, or a call that the permissions blocked, ends the turn.
FinishesDirectly ==
    /\ pc = "execute_tool"
    /\ Say(<<"tool", "assistant">>)
    /\ awaiting' = FALSE /\ batch' = FALSE
    /\ UNCHANGED pending

ToolFails ==
    /\ pc = "execute_tool"
    /\ Say(<<"tool">>) \/ Say(<<"tool", "tool">>)
    /\ UNCHANGED <<awaiting, pending, batch>>

AppendObservation ==
    /\ \/ ToolSucceeds
       \/ \E n \in GlobFinds: GlobSucceeds(n)
       \/ FinishesDirectly
       \/ ToolFails
    /\ output' = NoOutput /\ pc' = "compact"
    /\ UNCHANGED <<route, rounds, turns, question, requested, routerVars>>

\* compact_if_needed: no system message is ever in these messages.
Compacted(s) == IF Len(s) <= MaxContext THEN s
                ELSE LastOf(s, IF MaxContext > 0 THEN MaxContext ELSE 1)

CompactIfNeeded ==
    /\ pc = "compact"
    /\ messages' = IF batch \/ pending > 0 \/ awaiting THEN messages ELSE Compacted(messages)
    /\ pc' = "continue_or_stop"
    /\ UNCHANGED <<route, output, rounds, turns, spoken, question, flagVars,
                   routerVars>>

Loop == IF rounds < MaxRounds
        THEN rounds' = rounds + 1 /\ pc' = "call_llm"
        ELSE pc' = "idle" /\ UNCHANGED rounds

ContinueOrStop ==
    /\ pc = "continue_or_stop"
    /\ \/ awaiting /\ ~requested /\ requested' = TRUE /\ Loop
       \/ ~(awaiting /\ ~requested) /\ pending > 0 /\ Loop /\ UNCHANGED requested
       \/ ~(awaiting /\ ~requested) /\ pending = 0 /\ pc' = "idle"
          /\ UNCHANGED <<requested, rounds>>
    /\ UNCHANGED <<route, output, turns, talkVars, awaiting, pending, batch, routerVars>>

\* The graph run is cancelled, between two nodes or at an await; the messages stay.
Cancel ==
    /\ pc # "idle" /\ pc' = "idle"
    /\ UNCHANGED <<route, output, rounds, turns, talkVars, flagVars, routerVars>>

Node == CallRouted \/ CallRealLlm \/ ChatStep \/ LlmReturns \/ ParseToolCall
        \/ AppendObservation \/ CompactIfNeeded \/ ContinueOrStop

ConvNext == (\E r \in {"none", "file", "always"}: UserInput(r)) \/ Node \/ Cancel

ConvFairness == WF_convVars(Node)
-----------------------------------------------------------------------------
(***************************************************************************)
(* The values.                                                             *)
(***************************************************************************)
Message == [kind: {"user", "assistant", "tool", "observation"}, number: Nat]

ConvTypeOK ==
    /\ messages \in Seq(Message)
    /\ {spoken, question, pending, rounds, turns} \subseteq Nat
    /\ {awaiting, requested, batch} \subseteq BOOLEAN
    /\ output \in [calls: Nat, from: {"none", "llm", "mock", "route"}]
    /\ left \in Seq(Names) /\ tried \in Seq(Names)

(***************************************************************************)
(* The messages are the newest of all that were said, each once and in     *)
(* their order, whatever was compacted, cancelled or repeated.             *)
(***************************************************************************)
TellsItStraight ==
    \A i \in DOMAIN messages: messages[i].number = spoken - Len(messages) + i

(***************************************************************************)
(* While a provider is asked, whichever it is, it has the system prompt    *)
(* and this turn's question in front of it, and all that the turn has      *)
(* brought since, if the context holds what the rounds before can bring:   *)
(* an answer, a result and an observation each.                            *)
(***************************************************************************)
ContextIsEnough == MaxContext = 0 \/ MaxContext >= 1 + 3 * (MaxRounds - 1)

QuestionIsPut ==
    chat.state = "waiting" /\ pc = "chat" =>
        LET told == sent.system \o sent.messages
        IN /\ told[1] = SystemPrompt
           /\ ContextIsEnough =>
                 \A n \in question..spoken: \E i \in DOMAIN told: told[i].number = n

(***************************************************************************)
(* An answer is booked on the provider that gave it, every provider before *)
(* it in the order was asked first, and none twice.                        *)
(***************************************************************************)
AnswerIsBooked ==
    /\ \A i, j \in DOMAIN tried: tried[i] = tried[j] => i = j
    /\ chat.state = "answered" =>
          /\ chat.by = tried[Len(tried)]
          /\ FallbackUsed <=> Len(tried) > 1

(***************************************************************************)
(* A turn comes to its end, whichever providers fail.                      *)
(***************************************************************************)
TurnsEnd == []<>(pc = "idle")
=============================================================================
