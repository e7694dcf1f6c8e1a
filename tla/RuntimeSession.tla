--------------------------- MODULE RuntimeSession ---------------------------
(***************************************************************************)
(* From an input in the TUI to its answer: pywork/tui/app.py (the turns of *)
(* PyWorkApp), runtime/controller.py (RuntimeController.stream and arun)   *)
(* and runtime/streaming.py (RuntimeEventStream).                          *)
(*                                                                         *)
(* All of it runs on one event loop; a step is the code between two awaits.*)
(* A turn is one input: the Textual worker that streams it, the            *)
(* asyncio.Task in which the controller runs it, and the queue of events   *)
(* from one to the other.  Events are numbered; the agent graph is reduced *)
(* to the events it emits and to how it ends (AgentGraph, RuntimeEngine).  *)
(***************************************************************************)
EXTENDS Naturals, Sequences, FiniteSets

CONSTANTS
    Modes,          \* permission modes
    MaxTurns,       \* bound: inputs
    MaxEvents,      \* bound: events a run emits
    QueueMax,       \* RuntimeStreamConfig.queue_max_size
    MaxSwitches,    \* bound: mode switches
    MaxAborts       \* bound: aborts

ASSUME SessionAssumption ==
    /\ QueueMax \in Nat \ {0}
    /\ MaxTurns \in Nat /\ MaxEvents \in Nat /\ MaxSwitches \in Nat /\ MaxAborts \in Nat

VARIABLES
    mode,         \* PyWorkApp.permission_mode, which the status bar shows
    using,        \* PyWorkApp.runtime_controller
    busy,         \* PyWorkApp.runtime_busy
    chat,         \* the chat panel: what was said in which turn
    controller,   \* the RuntimeControllers made so far
    turn,         \* the turns
    stream,       \* the RuntimeEventStream of each turn
    quitting,     \* the app is shutting down
    aborts        \* aborts so far

sessionVars == <<mode, using, busy, chat, controller, turn, stream, quitting, aborts>>

Turns == 1..MaxTurns
\* "empty" is a success whose output is empty.
Outcomes == {"ok", "empty", "error", "aborted"}

\* What is kept of a run's result, and of a message: whose it is and what it says.
Said(t, what) == [turn |-> t, what |-> what]
Nothing == Said(0, "none")

\* abortRequested is the flag of its engine, last is _last_stream_result.
NewController(m) ==
    [mode |-> m, status |-> "ready", abortRequested |-> FALSE, session |-> <<>>, last |-> Nothing]

\* pc is the worker in run_runtime_stream: "waiting" in asyncio.wait, "grace" in the last 0.2
\* seconds, "joining" in `await run_task`, "closing" in the await of the finally.  run is the
\* task of arun; how is the way its graph ended.
NoTurn == [pc |-> "unused", ctl |-> 0, run |-> "none", cancel |-> FALSE, how |-> "none",
           result |-> Nothing, sent |-> 0, shown |-> <<>>]
Streaming == {"waiting", "grace", "joining", "closing"}
RunStages == {"created", "graph", "ended"}

\* The end of the queue: the RuntimeStreamClosed sentinel.
End == 0
NoStream == [open |-> FALSE, queue |-> <<>>, closedAt |-> 0, dropped |-> {}]

SessionInit ==
    /\ mode \in Modes
    /\ using = 1
    /\ busy = FALSE
    /\ chat = <<>>
    /\ controller = <<NewController(mode)>>
    /\ turn = [t \in Turns |-> NoTurn]
    /\ stream = [t \in Turns |-> NoStream]
    /\ quitting = FALSE
    /\ aborts = 0

-----------------------------------------------------------------------------
(***************************************************************************)
(* RuntimeEventStream.                                                     *)
(***************************************************************************)
\* _put_nowait: a full queue makes room by dropping its oldest item.
Put(s, x) ==
    IF Len(s.queue) < QueueMax
    THEN [s EXCEPT !.queue = Append(@, x)]
    ELSE [s EXCEPT !.queue = Append(Tail(@), x), !.dropped = @ \cup {Head(s.queue)}]

CloseAppends(s) ==                            \* mutant: the sentinel does not need room
    IF s.open THEN [s EXCEPT !.open = FALSE, !.queue = Append(@, End)] ELSE s
Close(s) == IF s.open THEN Put([s EXCEPT !.open = FALSE], End) ELSE s

OnEventClosing(s, n, closes) ==               \* mutant: closes before it hands the event on
    IF ~s.open THEN s
    ELSE IF closes THEN Close([s EXCEPT !.closedAt = n]) ELSE Put(s, n)

\* _on_event: an error event and a terminal one close the stream.
OnEvent(s, n, closes) ==
    IF ~s.open THEN s
    ELSE IF closes THEN Close([Put(s, n) EXCEPT !.closedAt = n]) ELSE Put(s, n)

-----------------------------------------------------------------------------
(***************************************************************************)
(* RuntimeController.arun.                                                 *)
(***************************************************************************)
\* The status the controller is left in, and the message its session gets.
Synced(c, said, status) == [c EXCEPT !.status = status, !.session = Append(@, said)]

SyncOk(c, t, outcome) ==                      \* mutant: an abort leaves no message
    IF outcome \in {"aborted", "empty"} THEN [c EXCEPT !.status = outcome]
    ELSE Synced(c, Said(t, outcome), outcome)

\* _sync_runtime_result_to_app_state and the status after it: an empty output is no message.
Sync(c, t, outcome) ==
    IF outcome = "empty" THEN [c EXCEPT !.status = "ok"]
    ELSE Synced(c, Said(t, outcome), outcome)

Returned(x, t, outcome) == [x EXCEPT !.run = "done", !.result = Said(t, outcome)]

\* arun up to its first await.  An abort that was requested before it is reported at once and
\* stays requested.  A controller that is still running would refuse; TurnsEnd shows it is not.
ArunBegins(t) ==
    /\ turn[t].run = "created" /\ ~turn[t].cancel
    /\ controller[turn[t].ctl].status # "running"
    /\ LET k == turn[t].ctl
           heard == Synced(controller[k], Said(t, "user"), "running")
       IN  IF heard.abortRequested
           THEN /\ controller' = [controller EXCEPT ![k] = Sync(heard, t, "aborted")]
                /\ turn' = [turn EXCEPT ![t] = Returned(@, t, "aborted")]
           ELSE /\ controller' = [controller EXCEPT ![k] = heard]
                /\ turn' = [turn EXCEPT ![t].run = "graph"]
    /\ UNCHANGED <<mode, using, busy, chat, stream, quitting, aborts>>

\* emit_graph_event: the bus hands the event to the stream in the same step.
Emits(t) ==
    /\ turn[t].run = "graph" /\ turn[t].sent < MaxEvents
    /\ \E closes \in BOOLEAN:
         /\ turn' = [turn EXCEPT ![t].sent = @ + 1]
         /\ stream' = [stream EXCEPT ![t] = OnEvent(@, turn[t].sent + 1, closes)]
    /\ UNCHANGED <<mode, using, busy, chat, controller, quitting, aborts>>

\* The graph finishes, with an output or without, raises, or, when the engine was told to abort, is cancelled.
GraphEnds(t, how) ==
    /\ turn[t].run = "graph"
    /\ how = "cancelled" => controller[turn[t].ctl].abortRequested
    /\ turn' = [turn EXCEPT ![t].run = "ended", ![t].how = how]
    /\ UNCHANGED <<mode, using, busy, chat, controller, stream, quitting, aborts>>

\* RuntimeEngine.arun after `await task`: an abort counts until then, not after an exception.
RunOutcome(how, abortRequested) ==
    IF how = "raised" THEN "error"
    ELSE IF how = "cancelled" \/ abortRequested THEN "aborted"
    ELSE IF how = "silent" THEN "empty" ELSE "ok"

\* The engine returns and the controller with it; the finally of the engine spends the abort.
ArunEnds(t, outcome) ==
    /\ controller' = [controller EXCEPT ![turn[t].ctl] =
                        [Sync(@, t, outcome) EXCEPT !.abortRequested = FALSE]]
    /\ turn' = [turn EXCEPT ![t] = Returned(@, t, outcome)]
    /\ UNCHANGED <<mode, using, busy, chat, stream, quitting, aborts>>

ArunReturns(t) ==
    /\ turn[t].run = "ended" /\ ~turn[t].cancel
    /\ ArunEnds(t, RunOutcome(turn[t].how, controller[turn[t].ctl].abortRequested))

\* run_task was cancelled: before its first step it only ends; later the engine reports an abort.
ArunCancelled(t) ==
    /\ turn[t].cancel
    /\ \/ turn[t].run \in {"graph", "ended"} /\ ArunEnds(t, "aborted")
       \/ /\ turn[t].run = "created"
          /\ turn' = [turn EXCEPT ![t].run = "done"]
          /\ UNCHANGED <<mode, using, busy, chat, controller, stream, quitting, aborts>>

-----------------------------------------------------------------------------
(***************************************************************************)
(* RuntimeController.stream and PyWorkApp.run_runtime_stream around it.    *)
(***************************************************************************)
\* The worker starts: the stream subscribes and the task of arun is made.
WorkerBegins(t) ==
    /\ turn[t].pc = "scheduled"
    /\ busy' = TRUE
    /\ turn' = [turn EXCEPT ![t] = [@ EXCEPT !.pc = "waiting", !.ctl = using, !.run = "created"]]
    /\ stream' = [stream EXCEPT ![t].open = TRUE]
    /\ UNCHANGED <<mode, using, chat, controller, quitting, aborts>>

NextItem(t, item) == turn[t].pc \in {"waiting", "grace"} /\ stream[t].queue # <<>>
                     /\ item = Head(stream[t].queue)

\* An event that waits goes before the end of the run.
TakesEvent(t) ==
    /\ \E n \in 1..MaxEvents: NextItem(t, n)
    /\ turn' = [turn EXCEPT ![t].shown = Append(@, Head(stream[t].queue)), ![t].pc = "waiting"]
    /\ stream' = [stream EXCEPT ![t].queue = Tail(@)]
    /\ UNCHANGED <<mode, using, busy, chat, controller, quitting, aborts>>

\* StopAsyncIteration.
StreamStops(t) ==
    /\ NextItem(t, End)
    /\ turn' = [turn EXCEPT ![t].pc = "joining"]
    /\ stream' = [stream EXCEPT ![t].queue = Tail(@)]
    /\ UNCHANGED <<mode, using, busy, chat, controller, quitting, aborts>>

RunSeenAtEnd(t) ==                            \* mutant: waits for a terminal event
    turn[t].run = "done" /\ stream[t].queue = <<>> /\ ~stream[t].open
RunSeen(t) == turn[t].run = "done" /\ stream[t].queue = <<>>

\* run_task is done and nothing waits in the queue: 0.2 seconds for a late event.
SeesRun(t) ==
    /\ turn[t].pc = "waiting" /\ RunSeen(t)
    /\ turn' = [turn EXCEPT ![t].pc = "grace"]
    /\ controller' = [controller EXCEPT ![turn[t].ctl].last = turn[t].result]
    /\ UNCHANGED <<mode, using, busy, chat, stream, quitting, aborts>>

\* After the loop: what get_last_stream_result holds is told, unless there is nothing in it, and
\* the app is free again.
Tell(t, last) ==
    /\ chat' = IF last.what \in {"none", "empty"} THEN chat ELSE Append(chat, Said(t, last.what))
    /\ busy' = FALSE
    /\ turn' = [turn EXCEPT ![t].pc = "over"]
    /\ stream' = [stream EXCEPT ![t] = Close(@)]
    /\ UNCHANGED <<mode, using, quitting, aborts>>

GraceEnds(t) ==
    /\ turn[t].pc = "grace" /\ stream[t].queue = <<>>
    /\ Tell(t, controller[using].last)
    /\ UNCHANGED controller

Joins(t) ==
    /\ turn[t].pc = "joining" /\ turn[t].run = "done"
    /\ controller' = [controller EXCEPT ![turn[t].ctl].last = turn[t].result]
    /\ Tell(t, controller'[using].last)

\* The finally of a cancelled worker, and of run_runtime_stream: nothing is told.
Closes(t) ==
    /\ turn[t].pc = "closing" /\ turn[t].run = "done"
    /\ turn' = [turn EXCEPT ![t].pc = "over"]
    /\ busy' = FALSE
    /\ UNCHANGED <<mode, using, chat, controller, stream, quitting, aborts>>

-----------------------------------------------------------------------------
(***************************************************************************)
(* The user.                                                               *)
(***************************************************************************)
\* on_input_submitted.  run_worker is exclusive: a worker that has not started yet is cancelled,
\* and its input stays in the chat unanswered.
Submit(t) ==
    /\ ~quitting /\ ~busy
    /\ turn[t].pc = "unused" /\ \A u \in 1..(t - 1): turn[u].pc # "unused"
    /\ turn' = [u \in Turns |->
                  IF u = t THEN [NoTurn EXCEPT !.pc = "scheduled"]
                  ELSE IF turn[u].pc = "scheduled" THEN [turn[u] EXCEPT !.pc = "dropped"]
                  ELSE turn[u]]
    /\ chat' = Append(chat, Said(t, "user"))
    /\ UNCHANGED <<mode, using, busy, controller, stream, quitting, aborts>>

Replaces == ~busy

\* set_permission_mode, from Tab: a new controller, unless a turn is running.
SwitchMode(m) ==
    /\ ~quitting /\ m # mode
    /\ mode' = m
    /\ IF Replaces
       THEN /\ Len(controller) <= MaxSwitches       \* bound
            /\ controller' = Append(controller, NewController(m))
            /\ using' = Len(controller) + 1
       ELSE UNCHANGED <<controller, using>>
    /\ UNCHANGED <<busy, chat, turn, stream, quitting, aborts>>

\* action_abort_runtime and RuntimeController.abort: the engine is told, run or no run.
AbortRuntime ==
    /\ ~quitting /\ aborts < MaxAborts              \* bound
    /\ aborts' = aborts + 1
    /\ controller' = [controller EXCEPT ![using].abortRequested = TRUE,
                                        ![using].status = "aborting"]
    /\ UNCHANGED <<mode, using, busy, chat, turn, stream, quitting>>

\* The app exits and cancels its workers.  A worker in asyncio.wait or in the grace period runs
\* the finally of stream(); one that joins passes the cancel on to the run and waits for it.
Hit(x) ==
    LET live == x.run # "done"
    IN  CASE x.pc = "scheduled" -> [x EXCEPT !.pc = "dropped"]
          [] x.pc \in {"waiting", "grace"} -> [x EXCEPT !.pc = "closing", !.cancel = live]
          [] x.pc = "joining" -> [x EXCEPT !.cancel = live]
          [] OTHER -> x

Quit ==
    /\ ~quitting
    /\ quitting' = TRUE
    /\ turn' = [t \in Turns |-> Hit(turn[t])]
    /\ stream' = [t \in Turns |-> IF turn[t].pc \in {"waiting", "grace"} THEN Close(stream[t])
                                  ELSE stream[t]]
    /\ UNCHANGED <<mode, using, busy, chat, controller, aborts>>

-----------------------------------------------------------------------------
GraphStops(t) == \E how \in {"returned", "silent", "raised", "cancelled"}: GraphEnds(t, how)
RunStep(t) == \/ ArunBegins(t) \/ Emits(t) \/ GraphStops(t) \/ ArunReturns(t) \/ ArunCancelled(t)
WorkerStep(t) == \/ WorkerBegins(t) \/ TakesEvent(t) \/ StreamStops(t) \/ SeesRun(t)
                 \/ GraceEnds(t) \/ Joins(t) \/ Closes(t)

SessionNext ==
    \/ \E t \in Turns: Submit(t) \/ RunStep(t) \/ WorkerStep(t)
    \/ \E m \in Modes: SwitchMode(m)
    \/ AbortRuntime
    \/ Quit

\* The event loop runs what is ready, timers fire, and the graph ends: it works on one input
\* for at most max_iterations rounds.  The user owes nothing.
SessionFairness ==
    \A t \in Turns:
         /\ WF_sessionVars(ArunBegins(t) \/ ArunReturns(t) \/ ArunCancelled(t))
         /\ WF_sessionVars(GraphStops(t))
         /\ WF_sessionVars(WorkerStep(t))

-----------------------------------------------------------------------------
(***************************************************************************)
(* Properties.                                                             *)
(***************************************************************************)
InFlight(t) == turn[t].run \in RunStages

SessionTypeOK ==
    /\ mode \in Modes /\ busy \in BOOLEAN /\ quitting \in BOOLEAN /\ aborts \in 0..MaxAborts
    /\ using = Len(controller) /\ Len(controller) \in 1..(MaxSwitches + 1)
    /\ \A k \in 1..Len(controller): controller[k].last.what \in Outcomes \cup {"none"}
    /\ \A t \in Turns:
         /\ turn[t].pc \in Streaming \cup {"unused", "scheduled", "dropped", "over"}
         /\ turn[t].run \in RunStages \cup {"none", "done"}
         /\ turn[t].result.what \in Outcomes \cup {"none"}
         /\ Len(stream[t].queue) <= QueueMax

\* One input is worked on at a time, whichever controller has it: while a run is in flight the
\* app is busy, and it runs in the controller that an abort reaches.
OneRun ==
    /\ Cardinality({t \in Turns: InFlight(t)}) <= 1
    /\ busy <=> \E t \in Turns: turn[t].pc \in Streaming
    /\ \A t \in Turns: InFlight(t) => busy /\ turn[t].ctl = using

\* The messages of a list are inputs and the outcomes of their runs, each right after its input.
Answering(s) ==
    \A i \in 1..Len(s):
        \/ s[i].what = "user"
        \/ i > 1 /\ s[i - 1] = Said(s[i].turn, "user") /\ s[i] = turn[s[i].turn].result

\* The chat and the session of a controller tell the same story: the chat never shows the
\* outcome of another turn's run, and only an empty one is told to nobody; an input of a session
\* without its outcome is the last one and still worked on, or its outcome was empty.
StoryIsTrue ==
    /\ Answering(chat)
    /\ \A t \in Turns:
         turn[t].pc = "over" /\ ~quitting =>
             turn[t].result.what = "empty" \/ \E i \in 1..Len(chat): chat[i] = turn[t].result
    /\ \A k \in 1..Len(controller):
         LET s == controller[k].session
         IN  /\ Answering(s)
             /\ \A i \in 1..Len(s):
                  s[i].what = "user" /\ (i < Len(s) => s[i + 1].what = "user") =>
                      \/ turn[s[i].turn].result.what = "empty"
                      \/ i = Len(s) /\ InFlight(s[i].turn)

\* What the tool log shows of a turn are its events in their order, none twice; a turn that came
\* to its end before the app did, or is told, has shown every event up to the one that closed the stream, except those a full queue
\* dropped.
EventsInOrder ==
    \A t \in Turns:
        LET shown == turn[t].shown
            upTo == IF stream[t].closedAt = 0 THEN turn[t].sent ELSE stream[t].closedAt
        IN  /\ \A i \in 1..Len(shown): i > 1 => shown[i - 1] < shown[i]
            /\ \A i \in 1..Len(shown): shown[i] \in 1..upTo /\ shown[i] \notin stream[t].dropped
            /\ turn[t].pc = "over" =>
                 \/ quitting /\ \A i \in 1..Len(chat): chat[i] # Said(t, turn[t].result.what)
                 \/ 1..upTo = {shown[i]: i \in 1..Len(shown)} \cup stream[t].dropped

\* An input that was taken is answered or, if a second one or the end of the app came before its
\* worker began, dropped; the app does not stay busy.
TurnsEnd ==
    \A t \in Turns: []<>(turn[t].pc \in {"unused", "over", "dropped"})
=============================================================================
