---------------------------- MODULE RuntimeEngine ----------------------------
(***************************************************************************)
(* pywork/runtime/engine.py: the RuntimeEngine that runs the agent graph   *)
(* once per user input and takes pause, resume, abort and reset calls while*)
(* it does.                                                                *)
(*                                                                         *)
(* One event loop runs two kinds of coroutines: the Callers inside         *)
(* RuntimeEngine.arun (the RuntimeController, for each input of the TUI),  *)
(* and the asyncio.Tasks that arun makes for AgentGraphRunner.arun.  A step*)
(* is the code between two awaits.  The graph itself is reduced to how it  *)
(* ends and to the status it leaves in the AgentState all runs share.      *)
(***************************************************************************)
EXTENDS Naturals, FiniteSets

CONSTANTS
    Callers,       \* coroutines that call arun
    Controls,      \* which control calls are made besides resume
    MaxRuns,       \* bound: graph runs
    MaxControls    \* bound: control calls

ASSUME EngineAssumption ==
    /\ Controls \subseteq {"pause", "abort", "cancel", "reset"}
    /\ MaxRuns \in Nat
    /\ MaxControls \in Nat

VARIABLES
    status,           \* RuntimeEngine.status
    paused,           \* RuntimeEngine._paused
    abortRequested,   \* RuntimeEngine._abort_requested
    current,          \* RuntimeEngine._current_task: a graph run, 0 for none
    agent,            \* the status of the AgentState
    graph,            \* the asyncio.Tasks of the graph runs made so far
    call,             \* where each caller is in arun
    controls          \* control calls made so far

engineVars == <<status, paused, abortRequested, current, agent, graph, call, controls>>

RunIds == 1..MaxRuns
Done == {"returned", "raised", "cancelled"}

NoRun == [pc |-> "unused", cancel |-> FALSE]

\* "held": in the sleep of _wait_if_paused.  "polling": in the sleep of the loop
\* that watches the graph run.  "awaiting": past that loop, in `await task`.
\* hit: abort was called since this arun began.  result: what it returned.
Call(pc, run, hit, result) == [pc |-> pc, run |-> run, hit |-> hit, result |-> result]
Idle == Call("idle", 0, FALSE, "none")
InArun == {"held", "polling", "awaiting"}

EngineInit ==
    /\ status = "idle"
    /\ paused = FALSE
    /\ abortRequested = FALSE
    /\ current = 0
    /\ agent = "idle"
    /\ graph = [g \in RunIds |-> NoRun]
    /\ call = [c \in Callers |-> Idle]
    /\ controls = 0

-----------------------------------------------------------------------------
(***************************************************************************)
(* The graph runs.                                                         *)
(***************************************************************************)
IsDone(g) == graph[g].pc \in Done
Live(g) == graph[g].pc \in {"created", "busy"}

\* asyncio.Task.cancel: a no-op on a finished task.
Cancelled(x) == IF x.pc \in Done THEN x ELSE [x EXCEPT !.cancel = TRUE]

\* user_input_node and the nodes after it; every run works on the one AgentState.
GraphEnters(g) ==
    /\ graph[g] = [pc |-> "created", cancel |-> FALSE]
    /\ graph' = [graph EXCEPT ![g].pc = "busy"]
    /\ agent' = "busy"
    /\ UNCHANGED <<status, paused, abortRequested, current, call, controls>>

\* continue_or_stop ran: it finishes the AgentState whatever a tool did (AgentGraph).
GraphReturns(g) ==
    /\ graph[g] = [pc |-> "busy", cancel |-> FALSE]
    /\ graph' = [graph EXCEPT ![g].pc = "returned"]
    /\ agent' = "finished"
    /\ UNCHANGED <<status, paused, abortRequested, current, call, controls>>

GraphRaises(g) ==
    /\ graph[g] = [pc |-> "busy", cancel |-> FALSE]
    /\ graph' = [graph EXCEPT ![g].pc = "raised"]
    /\ UNCHANGED <<status, paused, abortRequested, current, agent, call, controls>>

GraphCancelled(g) ==
    /\ Live(g) /\ graph[g].cancel
    /\ graph' = [graph EXCEPT ![g].pc = "cancelled"]
    /\ UNCHANGED <<status, paused, abortRequested, current, agent, call, controls>>

\* A tool that waits for a task of the TaskManager: the cancel is caught by
\* _run_record, the wait returns a record, and the graph goes on.
GraphIgnoresCancel(g) ==
    /\ graph[g] = [pc |-> "busy", cancel |-> TRUE]
    /\ graph' = [graph EXCEPT ![g].cancel = FALSE]
    /\ UNCHANGED <<status, paused, abortRequested, current, agent, call, controls>>

GraphStep(g) == \/ GraphEnters(g) \/ GraphReturns(g) \/ GraphRaises(g)
                \/ GraphCancelled(g) \/ GraphIgnoresCancel(g)

-----------------------------------------------------------------------------
(***************************************************************************)
(* RuntimeEngine.arun.                                                     *)
(***************************************************************************)
Return(c, result) ==
    call' = [call EXCEPT ![c] = Call("idle", 0, call[c].hit, result)]

\* Past _wait_if_paused.  An abort that was requested before is reported, and
\* nothing else is touched; otherwise the graph run is made.
Proceed(c, hit) ==
    IF abortRequested
    THEN /\ agent' = "cancelled"
         /\ status' = "aborted"
         /\ call' = [call EXCEPT ![c] = Call("idle", 0, hit, "aborted")]
         /\ UNCHANGED <<abortRequested, current, graph>>
    ELSE \E g \in RunIds:
         /\ graph[g] = NoRun /\ \A d \in RunIds: d < g => graph[d] # NoRun
         /\ status' = "running"
         /\ graph' = [graph EXCEPT ![g].pc = "created"]
         /\ current' = g
         /\ call' = [call EXCEPT ![c] = Call("polling", g, FALSE, "none")]
         /\ UNCHANGED <<abortRequested, agent>>

MayBeginWhenever == TRUE                     \* mutant: no RuntimeAlreadyRunningError
MayBegin == status # "running"

\* arun up to its first await.
Arun(c) ==
    /\ call[c].pc = "idle" /\ MayBegin
    /\ \E g \in RunIds: graph[g] = NoRun     \* bound: MaxRuns
    /\ IF paused /\ ~abortRequested
       THEN /\ status' = "paused"
            /\ call' = [call EXCEPT ![c] = Call("held", 0, FALSE, "none")]
            /\ UNCHANGED <<abortRequested, current, agent, graph>>
       ELSE Proceed(c, FALSE)
    /\ UNCHANGED <<paused, controls>>

WakeOnce(c) ==                       \* mutant: one sleep instead of a loop
    /\ call[c].pc = "held"
    /\ Proceed(c, call[c].hit)
    /\ UNCHANGED <<paused, controls>>

\* Round the loop of _wait_if_paused, or out of it.
Wake(c) ==
    /\ call[c].pc = "held"
    /\ IF paused /\ ~abortRequested
       THEN status' = "paused" /\ UNCHANGED <<abortRequested, current, agent, graph, call>>
       ELSE Proceed(c, call[c].hit)
    /\ UNCHANGED <<paused, controls>>

\* What the end of the graph run makes of the run, and the finally clause.
Outcome(c) ==
    LET end == graph[call[c].run].pc
        out == CASE end = "raised" -> "error"
                 [] end = "cancelled" -> "aborted"
                 [] end = "returned" /\ (abortRequested \/ agent = "cancelled") -> "aborted"
                 [] end = "returned" /\ ~abortRequested /\ agent = "error" -> "error"
                 [] OTHER -> "finished"
    IN /\ status' = out
       /\ agent' = CASE out = "aborted" -> "cancelled"
                     [] out = "error" -> "error"
                     [] OTHER -> agent
       /\ Return(c, out)
       /\ current' = 0 /\ abortRequested' = FALSE

\* Round the loop that watches the graph run: it has ended, or an abort was
\* requested and it is told so (once more).
Poll(c) ==
    /\ call[c].pc = "polling"
    /\ \/ IsDone(call[c].run) /\ Outcome(c) /\ UNCHANGED graph
       \/ /\ ~IsDone(call[c].run) /\ abortRequested
          /\ graph' = [graph EXCEPT ![call[c].run] = Cancelled(@)]
          /\ call' = [call EXCEPT ![c].pc = "awaiting"]
          /\ UNCHANGED <<status, current, agent, abortRequested>>
    /\ UNCHANGED <<paused, controls>>

Await(c) ==
    /\ call[c].pc = "awaiting" /\ IsDone(call[c].run)
    /\ Outcome(c)
    /\ UNCHANGED <<paused, graph, controls>>

-----------------------------------------------------------------------------
(***************************************************************************)
(* Control calls.                                                          *)
(***************************************************************************)
Control(name) == name \in Controls /\ controls < MaxControls /\ controls' = controls + 1

Pause ==
    /\ Control("pause")
    /\ paused' = TRUE
    /\ status' = IF status \in {"aborted", "error", "finished"} THEN status ELSE "paused"
    /\ UNCHANGED <<abortRequested, current, agent, graph, call>>

Resume ==
    /\ paused \/ status = "paused"
    /\ paused' = FALSE
    /\ status' = IF status = "paused" THEN "idle" ELSE status
    /\ UNCHANGED <<abortRequested, current, agent, graph, call, controls>>

Abort ==
    /\ Control("abort")
    /\ abortRequested' = TRUE
    /\ paused' = FALSE
    /\ status' = "aborting"
    /\ graph' = IF current = 0 THEN graph ELSE [graph EXCEPT ![current] = Cancelled(@)]
    /\ call' = [c \in Callers |-> IF call[c].pc \in InArun THEN [call[c] EXCEPT !.hit = TRUE]
                                                           ELSE call[c]]
    /\ UNCHANGED <<current, agent>>

\* reset forgets the graph run and an abort, but stops nothing.
Reset ==
    /\ Control("reset")
    /\ paused' = FALSE /\ abortRequested' = FALSE
    /\ current' = 0
    /\ agent' = "idle"
    /\ status' = "idle"
    /\ call' = [c \in Callers |-> [call[c] EXCEPT !.hit = FALSE]]
    /\ UNCHANGED graph

\* The coroutine that is in arun is cancelled (RuntimeController.stream does so
\* when its consumer goes away).  In `await task` that reaches the graph run; in
\* the sleep of the loop it does not, and the except clause leaves the run alone.
CancelCaller(c) ==
    /\ Control("cancel") /\ call[c].pc \in InArun
    /\ CASE call[c].pc = "held" ->
              /\ Return(c, "none")
              /\ UNCHANGED <<status, abortRequested, current, agent, graph>>
         [] call[c].pc = "awaiting" /\ ~IsDone(call[c].run) ->
              /\ graph' = [graph EXCEPT ![call[c].run] = Cancelled(@)]
              /\ UNCHANGED <<status, abortRequested, current, agent, call>>
         [] OTHER ->
              /\ agent' = "cancelled" /\ status' = "aborted"
              /\ Return(c, "aborted")
              /\ current' = 0 /\ abortRequested' = FALSE
              /\ UNCHANGED graph
    /\ UNCHANGED paused

CallerStep(c) == Wake(c) \/ Poll(c) \/ Await(c)

EngineNext ==
    \/ \E g \in RunIds: GraphStep(g)
    \/ \E c \in Callers: Arun(c) \/ CallerStep(c) \/ CancelCaller(c)
    \/ Pause \/ Resume \/ Abort \/ Reset

EngineSpec == EngineInit /\ [][EngineNext]_engineVars

\* The loop runs every coroutine that is ready, and a graph run that keeps being
\* cancelled or left alone comes to an end.  Nobody has to call or to resume.
EngineFairness ==
    /\ \A g \in RunIds: /\ WF_engineVars(GraphStep(g))
                        /\ WF_engineVars(GraphReturns(g) \/ GraphRaises(g) \/ GraphCancelled(g))
    /\ \A c \in Callers: WF_engineVars(CallerStep(c))

-----------------------------------------------------------------------------
(***************************************************************************)
(* Properties.                                                             *)
(***************************************************************************)
Status == {"idle", "running", "paused", "aborting", "aborted", "finished", "error"}

\* Every variable has its type, a caller past the pause has a graph run, and the
\* one abort would cancel is watched by a caller.
EngineTypeOK ==
    /\ status \in Status
    /\ paused \in BOOLEAN
    /\ abortRequested \in BOOLEAN
    /\ current \in 0..MaxRuns
    /\ agent \in {"idle", "busy", "finished", "error", "cancelled"}
    /\ graph \in [RunIds -> [pc: {"unused", "created", "busy"} \cup Done, cancel: BOOLEAN]]
    /\ call \in [Callers -> [pc: {"idle"} \cup InArun, run: 0..MaxRuns, hit: BOOLEAN,
                             result: {"none", "finished", "aborted", "error"}]]
    /\ controls \in 0..MaxControls
    /\ \A c \in Callers: call[c].pc \in {"polling", "awaiting"} =>
          call[c].run # 0 /\ graph[call[c].run].pc # "unused"
    /\ current # 0 => \E c \in Callers: call[c].run = current

\* RuntimeAlreadyRunningError: a second graph run never starts on the shared
\* AgentState while one is still going, whoever calls arun and aborts meanwhile.
OneGraphRun == \A g, h \in RunIds: Live(g) /\ Live(h) => g = h

\* A run that was in progress when abort was called is never reported as
\* finished, even when a tool of the graph swallowed the cancel.
AbortIsReported == \A c \in Callers: call[c].hit => call[c].result # "finished"

\* No graph run begins while the engine is paused, even when pause, resume and
\* abort follow each other while arun sleeps in _wait_if_paused.
NothingStartsPaused ==
    [][\A g \in RunIds: graph[g] = NoRun /\ graph'[g] # NoRun => ~paused]_engineVars

\* An arun held by a pause does not stay held for ever once nobody pauses again:
\* it goes on after a resume, an abort or a reset.
HeldProceeds == \A c \in Callers: []<>(call[c].pc # "held" \/ paused)

\* Every arun that is past the pause returns, aborted or not.
RunsReturn == \A c \in Callers: []<>(call[c].pc \notin {"polling", "awaiting"})
=============================================================================
