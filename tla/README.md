# PyWork in TLA+

PyWork is a terminal coding assistant written in Python: a Textual interface hands
the user's input to a runtime, the runtime runs a LangGraph of nine nodes that talks
to an LLM and executes tools behind a permission gate, and a task layer runs
background work (subagents, teammates, coordinator workers) on the same asyncio
event loop. This directory holds TLA+ models of the parts of it where order,
interleaving, cancellation and failure matter, the TLC configurations that check
them on small instances, and TLAPS proofs of what matters most for every instance.

Paths below are relative to `src/pywork/` of the repository.

## How to run

    tlasany M.tla                                  parse a module
    tlc -workers 2 -config Tools.cfg MCTools.tla
    tlapm GraphAndSwarmProofs.tla                     check the proofs of a module

`PROJECT.json` lists every run with its module and configuration, the source lines
each definition models, one mutant per property, the hazards and the theorems.

## 1. Inventory

Everything runs on one asyncio event loop in one process. A step of a model is
therefore the code between two points where a coroutine can be suspended; within a
step nothing interleaves. What survives a crash is the SQLite task store, the JSONL
audit log and the file history.

| Component | State it keeps | Operations | Talks to | What is hard |
|---|---|---|---|---|
| Task manager (`tasks/`) | records, rows, event log, runners, `_active` | create, get, start, run, wait, cancel, stop, cancel_all, retry | SQLite, event handlers, tasks of the loop | two clients on one task, cancel before the first step, timeouts that cancel for everybody, failing storage, crash |
| Runtime engine (`runtime/engine.py`) | status, `_paused`, `_abort_requested`, `_current_task`, one AgentState | arun, pause, resume, abort, reset | agent graph, runtime controller | control calls while arun sleeps, a graph run that swallows the cancel, a cancelled caller |
| Agent graph (`runtime/graph.py`, `runtime/state.py`) | channels of AgentGraphData, AgentState | nine nodes, approval, tool execution | LLM, gate, tools, event bus | flags carried from node to node, loops, failures that change the route |
| Permission rules and gate (`runtime/permission_gate.py`, `permission/`) | session overrides, audit log | classify, check, user decision, always allow, audit | agent graph, approval dialog | precedence of rule, mode and override; which rung of a ladder answers; torn audit lines |
| Runtime controller, events, streaming (`runtime/controller.py`, `events.py`, `streaming.py`) | session of messages, bounded stream queue, subscribers | arun, stream, abort, subscribe, close | engine, TUI | a full queue drops its oldest item, a consumer that goes away, what is told of a turn that was aborted |
| Subagent manager (`subagents/`) | active runs, abort signals, semaphore | run, run_parallel, run_sequence, abort, abort_all | task manager | abort of runs that still queue, failures of one of many |
| Teams (`teams/swarm.py`, `team.py`, `teammate.py`, `mailbox.py`, `roster.py`) | assignments, inboxes, teammate status | run swarm, dispatch, process mail, collect, cancel | task manager, mailbox | which message answers which task, cancel between dispatch and processing |
| Coordinator (`coordinator/`) | plan, workers, status | run sequential or parallel plan, cancel | subagents, task manager | cancel while workers run, a second run beside the first |
| File history and file changes (`storage/file_history.py`, `tools/file_change.py`, `file_edit.py`, `file_write.py`) | snapshots, diffs, append-only index | record, list, rollback, preview, apply | file system | a crash between two writes, stale previews |
| Shell and task tools (`utils/shell.py`, `tools/bash.py`, `powershell.py`, `grep.py`, `task_tools.py`, `task_update.py`, `tool.py`) | processes, pipes; records of tasks | run a command, create, list, stop, update a task | processes of the system, task manager, team | timeouts, children that keep the pipes, records that change while a tool waits |
| LLM and its messages (`llm/`, the message handling of `runtime/graph.py`) | provider configuration, messages of AgentState | chat with fallbacks, window, compact | HTTP, agent graph | fallbacks after partial failures, windows that cut a question or an observation off |
| TUI (`tui/app.py` and components) | prompt, suggestions, busy flag, mode, rows of the task panel | type, choose, submit, run a command, switch the mode, stop or retry a task | controller, task manager, event bus | messages handled after the text changed, panels that listen to a replaced controller |
| State, CLI, bootstrap, schemas, utilities | session records, configuration | setters, start-up | everything above | - |

Packages such as `mcp`, `plugins`, `hooks`, `memory`, `sandbox` and `services` hold
only empty files.

What makes each component correct:

* task manager: one execution per task at a time; one outcome per attempt, final but
  for a retry; no more retries than allowed; rows and events that agree with the
  record; every waiter answered; nothing left queued with nobody to run it;
* engine, controller and turns: one graph run on the shared AgentState; an abort is
  reported as one; nothing starts while paused and nothing stays held after a resume;
  events in their order; the chat and the session tell of each turn how it ended, if it had
  an output; a turn
  that was taken ends;
* agent graph and gate: nothing that is denied is executed and nothing that must be
  asked for without a yes; a turn ends, within two rounds unless it reads files; its
  subscribers get one outcome; all files are read before the answer;
* rules and audit: doubtful calls need consent, forbidden ones do not run in any mode, a
  stricter mode is stricter, and the log says what happened;
* conversation: a model is told the question and every call with its observation, and
  the answer is booked on the provider that gave it;
* subagents: the concurrency limit holds, an abort is heeded, calls leave nothing behind;
* teams: a result is booked on the task it is a result of; a teammate does one thing at
  a time; a cancelled task stays cancelled; a deleted team is at rest; mail is taken once;
* coordinator: its workers are known to it and a cancel reaches them, where their step ids differ; outcomes are those of
  the steps, runs end;
* files: no change made meanwhile is lost, nothing is written for a refused call, and a
  rollback restores the recorded content, whatever crash there was;
* shell and task tools: a result is given when the command is over, a stop that succeeded
  left nothing running, and every wait ends;
* TUI: what is suggested is what is run, a created task is announced once, the panel
  catches up, keys are answered.

`PROJECT.json` lists each part as a component, and the places where the code is
exposed as hazards.

## 2. Modules

| Module | Models | Kind |
|---|---|---|
| `TaskRecords` | `tasks/task.py`: TaskRecord and its mark_* methods | operators on records |
| `TaskManager` | `tasks/task_manager.py`, `local_task.py`, `task_storage.py` composed | state machine |
| `TaskLifecycle` | what the task layer promises of a stored status | abstract specification |
| `RuntimeEngine` | `runtime/engine.py` | state machine |
| `RuntimeSession` | turns: `tui/app.py`, `runtime/controller.py`, `runtime/streaming.py` composed | state machine |
| `PermissionGate` | `runtime/permission_gate.py`, `permission/policy.py`, `mode.py`, `risk.py`, `session_overrides.py` | operators |
| `PermissionRules` | `permission/bash_permissions.py`, `powershell_permissions.py`, `file_permissions.py`, `audit.py`, on top of PermissionGate | state machine |
| `AgentGraph` | control flow of `runtime/graph.py`, on top of PermissionGate | state machine |
| `LlmRouter` | `llm/router.py`, `providers.py`, `messages.py` | state machine |
| `Conversation` | messages of `runtime/graph.py` and `state.py`, on top of LlmRouter | state machine |
| `SubAgents` | `subagents/manager.py`, `base.py`, `router.py`, `tools/agent_tool.py` | state machine |
| `SwarmTeam` | `teams/swarm.py` with team, mailboxes, roster and teammates | state machine |
| `TeamLife` | `teams/teammate.py` (run_loop), `team.py`, `tools/team_create.py`, `team_delete.py` | state machine |
| `Mailbox` | `teams/mailbox.py`, `tools/send_message.py` | state machine |
| `Coordinator` | `coordinator/coordinator.py`, `worker.py` | state machine |
| `WorkspaceFiles` | `tools/file_change.py`, `file_edit.py`, `file_write.py`, `storage/file_history.py` | state machine |
| `ShellRun` | `utils/shell.py`, `tools/bash.py`, `powershell.py`, `grep.py`, `tool.py` | state machine |
| `TaskTools` | `tools/task_tools.py`, `task_update.py`, on top of TaskRecords | state machine |
| `Prompt` | input, suggestions and commands of `tui/app.py`, `tui/components/input_box.py` | state machine |
| `TaskPanel` | tasks panel of `tui/app.py`, `tui/components/tasks/` | state machine |
| `MCTaskManager`, `MCTaskClient`, `MCGraphSwarm`, `MCSubAgents`, `MCSession`, `MCTools`, `MCWorkspace`, `MCDelegation` | values of the constants, desks, conjunctions of properties | TLC |
| `TaskManagerProofs`, `RuntimeEngineProofs`, `SessionProofs`, `GraphAndSwarmProofs`, `WorkspaceProofs`, `SubAgentsProofs`, `DelegationProofs`, `ToolsProofs` | theorems of the modules they are named for; `TaskManagerProofs` of `MCTaskClient`, `SessionProofs` of `MCSession`, `WorkspaceProofs` of `MCWorkspace`, `ToolsProofs` of `MCTools`, `DelegationProofs` of `MCDelegation`, `GraphAndSwarmProofs` of `AgentGraph` and `SwarmTeam`, which share no state | proofs |

### Desks

Several components share no state with each other beyond what is an input of both. The
modules `MCSession`, `MCTools`, `MCWorkspace`, `MCDelegation` and `MCGraphSwarm` check such components in
one run: a variable `desk`, chosen in Init and never changed, says which component the
behaviour is about; the others stay in their initial states. No interleaving is lost,
since there is no shared variable; a property of such a run is the conjunction of what
its components have to keep, and each conjunct is named in the component's module.
`MCTaskClient` chooses a setup in the same way: sound, or with faults.

### TaskManager

| Model | Code |
|---|---|
| `mem`, `row`, `log`, `runners` | `TaskManager._records`, tables `tasks` and `task_events`, `_runners` |
| `active`, `exec` | `LocalTaskBackend._active`, the `asyncio.Task` of each `_run_record` |
| `call` | where each client coroutine is suspended in a method of the manager |
| `StartTask`, `Launch`, `Awake` | `start_task` up to the QUEUED event, up to `sleep(0)`, and after it |
| `EnterRecord`, `CallRunner`, `RunnerReturns`, `RunnerRaises`, `CatchCancel`, `CatchException`, `LeaveHandler` | `_run_record`, from one await to the next |
| `WaitTask`, `Timeout`, `WaitReturns`, `WaitRaises` | `wait_task` and `run_task`: `asyncio.wait_for` |
| `CancelTask`, `CancelAll`, `CancelAllNext`, `RetryTask`, `PrepareAttempt` | the methods of that name |
| `Crash` | the process ends; only the tables survive |

Storage errors and raising event handlers are the faults (`ok = FALSE`). The handlers
the program installs are plain functions and do not suspend; `HandlersSuspend` says
whether an application may install some that do. A fault is charged to `MaxFaults`.

### RuntimeEngine

A graph run is reduced to how it ends and to the status it leaves in the AgentState
that all runs share. `Arun`, `Wake`, `Poll` and `Await` are `arun` from one await to
the next; `hit` is a history variable that remembers an abort during this arun.
`CancelCaller` is `RuntimeController.stream` cancelling the coroutine whose consumer
went away.

### PermissionGate and AgentGraph

An operation is a tool call as the gate sees it: the tool, what the file, bash or
powershell rules say of its arguments (or that they cannot be evaluated because an
argument is missing) and its risk. The classifiers behind that are lists of regular
expressions over text and are not modelled; every combination a classifier can yield
is a possible operation. `Policy`, `Combine` and `Decide` are
`PermissionPolicy.evaluate`, `combine_decisions` and `apply_session_override`.

`GateMode` is the way of a mode from the configuration to the policy: the graph names it
(`NameInGraph`, its own table of aliases), and the policy resolves the name
(`ResolveMode`). The graph's name for bypass is not in the table of the policy, so a
session in bypass mode is decided as default. Every decision of the models is taken under
`GateMode(mode)`; what the policy does with bypass itself, when somebody calls it with
that name, is in `Policy` and in the theorem `RulesAndModesBind`.

| Model | Code |
|---|---|
| `pc` | the next node, or how the last turn ended |
| `output`, `call`, `gate`, `granted`, `result`, `awaiting`, `requested`, `pending`, `batch` | channels of `AgentGraphData` |
| `overrides` | `PermissionGateState` of the session |
| `status`, `iteration` | `AgentState` |
| `outcomes` | the FINISHED and ERROR lifecycle events of the turn |
| `UserInput` | `arun`: a fresh AgentGraphData, and `user_input_node` |
| `CallLlm`, `LlmAnswers`, `LlmFails` | `call_llm_node` up to and after its await; a routed call needs no LLM |
| `ParseToolCall`, `PermissionCheck` | the nodes of that name |
| `ExecuteTool`, `ApprovalAnswered`, `ApprovalRaises`, `ToolReturns` | `execute_tool_node` up to the approval, up to the tool, and after it |
| `AppendObservation`, `ContinueOrStop` | the nodes of that name; `Loop` is the conditional edge and the recursion limit |
| `Cancel` | an abort of the engine that reaches the graph run |

`error` and `tool_call` are written by the nodes but are not channels of
AgentGraphData, so LangGraph drops them at the end of the node, and so does the model.
The mode is fixed for a session because the TUI copies the configuration into each
controller it makes and makes a new one when the mode is switched between turns.

### RuntimeSession

| Model | Code |
|---|---|
| `mode`, `using`, `busy`, `chat`, `quitting` | fields of `PyWorkApp` |
| `controller` | each `RuntimeController`: mode, status, session of messages, last result, the abort flag of its engine |
| `turn` | per input: the Textual worker in `run_runtime_stream` (`pc`) and the asyncio.Task of `arun` (`run`) |
| `stream` | `RuntimeEventStream`: the queue, what was dropped, where it was closed |
| `Submit`, the steps of the worker and of the run | `submit_user_text`, `RuntimeController.stream` and `arun`, one await to the next |
| `OnEvent`, `Close` | `_on_event` and `close`: when the queue is full the oldest item goes |

A run that succeeds with an empty output (`"empty"`) ends its turn without a word: neither
the controller nor the app has a message for it, so the session of the controller then holds
two inputs in a row. `StoryIsTrue` therefore lets an input stand without an outcome where
its run had none to tell, and nowhere else.

### PermissionRules

A call is a tool, a head (the kind of its command or operation) and marks (what the
patterns find in its text or path). A ladder is the sequence of checks of a classifier in
source order; the first rung that applies answers. `Put` is a call put to the gate,
`UserAnswers`, `Run`, `AuditFailure` what follows in execute_tool_node, with every row it
writes to the audit log; `torn` says the log ends in the middle of a line, which spoils
the next row. `MCWorkspace` tries every head, and the marks alone and in the pairs two
rungs are about.

### LlmRouter and Conversation

A message is its role, what it is for, and its number. `ProviderOrder`, `Payload` and
`Readable` are what the router and the providers make of a request and of a reply; the
nodes of Conversation are those of AgentGraph, with what each leaves in
`AgentState.messages` in the place of its decisions. `Window` is build_context, `Compacted`
is compact_if_needed.

### SubAgents, SwarmTeam, TeamLife, Coordinator, Mailbox

Each has a record per coroutine (`job`, `step`, `exec`, `poll`) whose `pc` is the await it
is suspended in, the tables of the code (`_active_runs`, `shared_task_list`, inboxes,
`active_workers`, `_messages`), and history variables where a property speaks of what
happened before. A sequential run goes from one step to the next without an await; `turn`
(in TeamLife: `Going`) keeps everybody else out meanwhile. Event handlers may suspend or
raise where the code awaits them, a bounded number of times.

In TeamLife the agent task of a teammate begins (`Begins`: its run is registered, and
abort_run finds it) and has its id stored (`Stores`: cancel_current finds it) in two steps,
in either order, since run_agent_task returns to the teammate only after the `sleep(0)` of
start_task. A stop between the two reaches the task by the one or the other; one before
both reaches nothing, and the task goes on un-aborted: `unheard` marks it, and
`DeletedIsQuiet` excepts it and nothing else.

In Coordinator a plan gives its steps any ids (`IdOf`), unique or not, and may have no
steps if the caller says so. `active_workers` is kept per id, and `registry`
(`_active_runs` of the subagent manager) per run and id, so that two parallel steps of one
id replace each other's entry, remove each other's, and a cancel may miss one of them or
abort the other. `Alone` is a worker beside which no step has its id; that it is found while
it is at work, and reached by a cancel, is stated for those.

### WorkspaceFiles

One file, versions instead of contents. A tool call is asked, previewed in a thread,
applied in a thread; a write is an open that leaves an empty file and a write that fills
it. The history's client records, rolls back and clears one access to the disk at a time,
and a crash may come between any two; a user saves whenever he likes.

### ShellRun and TaskTools

A command is a process that may leave a child, in its group or not, with its pipes or
not. At a timeout `Terminate` reaches the group, or the process alone: on Windows, where a
group refuses the signal, and always in `grep`. The result is a timeout in either case;
`outcome` keeps apart whether the group was killed, the process only, or nothing because
the process had ended. Where only the process was killed, a child that holds no pipe may
outlive the result, and `ResultIsFinal` says so. `TaskTools` has the tools on a TaskManager as the program wires it (no storage,
handlers that do not suspend); ids may be taken twice, by the model that invents them.

### Prompt and TaskPanel

The application takes its messages from a queue one at a time: a text is drawn, and Enter
handled, some time after it was typed. A mode switch replaces the controller, with its
task manager and its bus, while tasks of the old one run on and the application goes on
listening to the old bus. The rows of agent runs beside those of tasks are left out.
`did` is what the last step did, of what text, what was highlighted then, and whether the
Enter was handled before anything else was typed (`alone`).

## 3. Runs

Passing runs (the instances are in the cfg files):

| Run | Instance | What it shows |
|---|---|---|
| `task_client` | one client, two tasks, and no faults; or one task, handlers that suspend, one fault and one crash | `Tracking`: no entry of `_active` outlives its execution, a queued task has somebody to run it. `OutcomeReplacedInFlight`: an outcome is only replaced by coroutines still at work on the task. `WaitersAreAnswered`, `Progress` |
| `task_race` | two clients and a crash on one task | `LiveIsTracked`: one execution at a time. `LogIsTrue`: rows, last event and log agree with the record. `TerminalIsFinal`. `ImplementsLifecycle`: the rows implement `TaskLifecycle` (refinement) |
| `turns_and_swarm` | two turns in the modes readonly, accept_edits and bypass (plan decides as readonly, and bypass as default), each kind of input and of tool call, failing LLM, tools and audit log, a cancel anywhere; or two runs of a Swarm of two steps over two teammates, with parallel, fail-fast or dependent plans, the same kind for both, and two disturbances of different kinds | `GateIsObeyed`, `TurnsAreShort`, `ReadsBeforeAnswer`, `TurnEnds`; `SwarmIsTrue`: results are booked on their own task, one thing at a time, true outcomes. `CancelStays`, `RunsEnd` |
| `session` | two inputs, two modes, a queue of two; an engine under three control calls of any kind, or with two callers and two aborts | `OneRunAtATime`, `OutcomesAreTold`, `EventsInOrder`, `NothingStartsPaused`, `AllGoesOn` |
| `subagents` | two calls, two requests, one permit, two disturbances, one retry | `CallsAreOrderly`: `_active_runs` is what runs, the order and limit of a batch hold, nothing is left behind. `AbortIsHeeded`, `CallsEnd` |
| `delegation` | a team of two with two tasks and one change; two runs of the coordinator of up to three steps, one cancel and one disturbance | `TeamIsTrue`, `PlanIsTrue`, `CancelHolds`, `WorkEnds` |
| `tools` | two commands; two task records under one id; two pollers and two messages; two tasks over two controllers; two turns of a conversation with up to three providers | `AnswersAreTrue`, `OnlyOnce`, `ModelsAreTold`, `AllSettles` |
| `workspace` | two rows of suggestions and a queue of four; about 120 calls in every mode; two tool calls on a file with four acts of others | `SuggestionsAreTrue`, `ConsentIsAsked`, `FilesAreTrue` |

`TypeOK` of a run is that of its components (in `workspace` a conjunct of other
invariants, and `SwarmTypeOK` a conjunct of `SwarmIsTrue`).

Runs that show where the code departs from what it says (each a finding in
`PROJECT.json`, with the lines):

* `engine_cancel` - the caller of arun is cancelled in the polling loop; the graph run
  goes on and the next arun starts a second one beside it.
* `prompt_tool` - a `/tool` text is taken for a search of commands, and Enter runs the first
  one suggested, `/clear`, instead of the shortcut of the runtime.
* `bypass_mode` - a session in bypass mode is decided as one in default mode, since the
  graph hands the gate a name of that mode which the table of the policy lacks: the user
  is asked for calls that the docs, the policy and its tests allow.
* `panel_keys` - the retry key on a task that cannot be retried, or the stop key on one the
  manager in use does not know, raises in a worker of the application and ends it.

Other behaviour met while modelling, which no property is held to because no document
says what should happen (hazards in `PROJECT.json` give lines): an abort while nothing runs aborts every
later run until reset; a mode chosen during a turn is shown but not used in later turns; a
failed turn ends with the AgentState finished; a handler of QUEUED that suspends lets a
task be started twice, and a second client can cancel an execution before its first step;
a note in the inbox of a teammate makes a step book the result of another; the runs of a
parallel call that wait for a permit begin after the failure that aborts the others; a
user who types on before the Enter is handled can have the suggestion of the old text run
while another is highlighted; a
`file_write` without overwrite replaces a file that came to be after its preview;
`task_update` with target auto never reaches a task of the team, since the TaskManager
raises first. The properties of these components state under which condition they hold.

### Bounds, and why they are enough

* Tasks 1 or 2, clients 1 or 2: every method names one task, and the only coupling of
  tasks is `cancel_all` (two tasks in `task_client`). Two clients give each pair of
  concurrent calls; with the executions there are up to four or five coroutines.
* MaxRetries 1 and MaxExecutions 2 to 4: a first attempt, its retry, and a start after
  a crash or a cancel. One crash and one fault: each is tried at every step.
* Engine: three graph runs, so that an orphan, its successor and a third can coexist;
  two or three control calls, which covers every ordered pair on one arun.
* Graph: two turns, since only the overrides (and the AgentState, whose status and
  iteration are reset) are carried over; four rounds, twice what a turn without a read
  request needs; one audit failure, which may hit any of the audit writes. Queued reads
  are a list of two: one read that passes and one that must be asked for.
* Session: two inputs and two controllers, so that a turn meets the one before it; a queue
  of two, which overflows with two events and the sentinel.
* Swarm, subagents, coordinator: two calls, since the tables they share are those of one
  manager and a third call meets nothing a second does not; two or three steps, with one
  permit or two, so that one waits, one runs and one has ended (the two runs of a Swarm follow plans of one kind;
  that kinds mix is in the proofs); two disturbances of different
  kinds (one of each in the coordinator), each at every moment.
* Team: two members of different roles, two tasks, one change of the roster or list.
* Conversation: three rounds and a window of seven, the least that holds a turn of three
  rounds with its question (`1 + 3 * (MaxRounds - 1)` messages); smaller windows cut the
  question off, as the configuration allows. Configurations: a fallback named twice, a
  default that is no entry, one flat provider, an entry without its key.
* Files: two tool calls that overlap, and four acts of the history, the user, faults and
  crashes; symmetric in the calls (no liveness is checked there).
* `MaxTurns`, `MaxRuns`, `MaxBatches`, `MaxTasks`, `MaxMessages`, `MaxRecords`, `MaxActs`,
  `MaxQueue`, `MaxEvents`, `MaxControls`, `MaxExecutions`, `MaxFaults`, `MaxCrashes` and the
  like bound inputs. `MaxRounds` is LangGraph's recursion limit in AgentGraph, which the code
  leaves at the default of the installed release. `MaxShown` and `MaxRows` are the rows of
  the panel and of the suggestions, 8 in the code, here so small that some row is cut.

The systems may come to rest (no input, nothing to run), so deadlock is not checked.

### Fairness

The event loop runs every coroutine that is ready, so each step of an execution, of a
suspended client, of a worker, of a teammate's loop and of a graph node is weakly fair.
A runner or a graph run may swallow a cancel: that it returns, raises or lets itself be
cancelled in the end is fair. An answer of the LLM, of the user or of a tool is weakly
fair: HTTP calls and shell commands have timeouts, and liveness of a turn cannot be
promised over a dialog that nobody closes. A process that is signalled ends, the timers
of a timeout, of a condition and of the task panel fire. No fairness is assumed of
inputs, requests, control calls, mode switches, aborts, mail, faults or crashes.

Liveness of the kind "whoever waits is answered" is written `[]<>` not waiting, which is
the same as `waiting ~> not waiting`.

## 4. Proofs

TLAPS proves, from the named assumptions on the constants only:

* `TypeCorrect` (TaskManagerProofs): `Spec => [](TypeOK /\ TasksLoaded)`.
* `OneExecutionPerTask`: if handlers do not suspend, every live execution is the one
  `_active` names. `LiveIsTracked` is not inductive alone: a client that has passed the
  check of `_active` must still find it free when it launches. `QueuedIsFree` says so,
  and it holds because nobody else runs while the QUEUED event is being sent - which is
  exactly the assumption `~HandlersSuspend`: with a handler that waits a second start
  passes the check in between.
* `RulesAndModesBind` (GraphAndSwarmProofs): the gate is at least as strict as a hard rule
  in every mode of the policy, bypass included, and no override lifts a denial. By cases over the
  four decisions.
* `GraphTypes`: `TypeOK` of AgentGraph. Its part `CallAtHand` (the nodes from
  execute_tool on have a call, append_observation its result) makes it inductive.
* `GateHolds`: `GateIsObeyed`, that is `DeniedNeverRuns`, `AskedRunsOnlyGranted` and
  `NeverAskedAgain`. The
  inductive invariant adds that the gate result at execute_tool and at the approval is
  the decision on this very call with the overrides there are now, and that only a
  question is put to the user.
* `TurnsStayShort`: `TurnsAreShort`, that is `RoundsBounded` and `OneOutcomeEvent`. Without a read request nothing is
  ever queued, so the only way back to the LLM is the final response, which is requested
  once per turn (`OneRequest`); it is awaited only after it was requested or just before
  (`AwaitedIsRequested`), so a failure that leaves `awaiting` alone cannot send the turn
  round again after its event (`NothingAfterOutcome`).
* `ReadsComeFirst`: `ReadsBeforeAnswer`, since before the first LLM call a turn awaits
  the final response only with an empty queue and calls no tool in between.

* `ConsentHolds` (WorkspaceProofs): `ConsentIsAsked`. The ladders are functions, so
  that a call has a first rung; lemmas say what each rung decides and that the strongest
  ground wins. `CallInv` fixes the rule of the call at hand, `GateInv` says that the gate
  result is about this very call and that what runs was permitted by it, `LogInv` which
  rows are due at each step and where a torn line may have swallowed one.
* `SuggestionsHold` (WorkspaceProofs): `SuggestionsAreTrue`. Whatever the queue holds,
  the rows drawn are those of the text unless a change waits to be drawn (`DrawnAnew`),
  a text handed in is followed by the change that cleared the box (`ClearedAfter`), and a
  text that is alone with its change is still the one that was drawn (`HandedIn`).
* `FilesHold` (WorkspaceProofs): `FilesAreTrue`. `DiskInv` says what is on the disk and
  that nobody writes between an open and its write, `CallsBook` what a call was asked,
  shown and has read at each of its awaits, `SnapshotsMatch` that a snapshot holds what the
  entry of its name records, `SidesDone` that the sides of an entry are written before
  its index line, and `RestoredRight` that a rollback goes on with the content it found.
* `ClientFindsNoStaleEntry` and `ClientTracks` (TaskManagerProofs): with one
  client no entry of `_active` outlives its execution, in spite of faults, crashes and
  handlers that suspend: the execution a client made has begun before the client can
  cancel it (`BeginsFirst`), which is what the `sleep(0)` of start_task is for. `Tracking`
  as a whole adds that whatever is queued has somebody to run it, by `OwnerBook` below;
  it is proved for a sound storage without crashes, as a crash may leave a task queued.
* `OutcomesHaveReplacer` (TaskManagerProofs): `OutcomeReplacedInFlight`, under any faults,
  crashes and handlers. Each step writes one record at most, that of its own execution or
  caller, or one that the guards of start_task, cancel_task and retry_task let through.
* `LogHolds`, `OutcomesAreFinal` and `LifecycleImplemented` (TaskManagerProofs): `LogIsTrue`,
  `TerminalIsFinal` and the refinement `ImplementsLifecycle`, for a storage that works and
  handlers that do not suspend (`MaxFaults = 0 /\ ~HandlersSuspend`; a failed write leaves the
  row behind the record, hence `OutcomeReplacedInFlight` for what then remains). What makes them
  inductive is `BookInv`: how far an execution is, and the event a caller is suspended in,
  tell the status of the row (`ExecBook`, `CallBook`); a task without an entry in
  `_active` is in the middle of an attempt only after a crash (`OwnerBook`); the attempt
  that retries and crashes grant is used up by the outcome or by whoever runs
  (`AttemptBook`). Every write of a row comes with an event that may follow the last one
  (`Allowed`), and is a step of `TaskLifecycle`; every other step is a stutter there.
  `OneExecutionPerTask` keeps two executions from writing the same row.
* `AbortsKeepOneRun` (RuntimeEngineProofs): `OneGraphRun` and `AbortIsReported`, for any
  number of callers, if abort is the only control call. An abort takes the status away
  from "running", so the check of arun alone does not keep a second run out: as long as
  a graph run is live somebody watches it (`LiveIsWatched`, `OneWatcher`), and whoever
  watches keeps the engine running or told to abort (`Watched`), in which case an arun
  that begins returns at once. With a cancelled caller this is false (`engine_cancel`).
* `EngineIsTyped` and `PausesHold`: `EngineTypeOK` and `NothingStartsPaused`, for any
  callers and any control calls. `Named` says that the run an abort would cancel is one
  that was made, so no control call makes a graph run by cancelling it.
* The session (SessionProofs), on the specification of the `session` run:
  `SessionIsTyped`, `OneRunGoesOn`, `OutcomesAreHeld`, `EventsHold`, `SessionPausesHold`,
  that is each of its invariants and its action property. `OneGoes` says that the
  application is busy with one turn at most and that no other is anywhere in its run;
  `StageBook` where the worker of a turn and its run can be at the same time; `ChatBook`
  and `LastBook` that the chat ends with the input worked on and that the result taken in
  the grace period is this turn's; `SessionBook` that each outcome in the
  messages of a controller is right after its question, and that a question without one is of
  a run that had nothing to tell or of the run in its graph; `EventBook` that the queue holds,
  in order, exactly the events that were neither shown nor dropped (`QueueRight`,
  `ShownRight`), so that nothing is missing when it is found empty after its end
  (`Complete`). At the engine's desks `DeskInv` adds the invariants of RuntimeEngineProofs:
  the one among aborts is an instance of that module, the one under every control call
  needs `Sole`: with one caller an abort stays requested until its arun returns, for
  nobody else consumes it. `DesksAssumption` gives the application its two callers.
* Teams and coordinator (DelegationProofs), on the specification of the `delegation` run:
  `DelegationIsTyped`, `TeamBooks`, `PlanHolds` and `CancelIsHeeded`, that is each of its
  invariants and its action property. The two share no state, so the invariant has the
  parts of the one beside those of the other:
  * `TeamInv`: `Busy` and `Shown` tie the loop of a teammate to the execution it waits for
    and to the status it shows; `Mailed` and `Once` say that a task is in one inbox, once,
    and not yet begun, which is what keeps two teammates from one task; `Begun` and
    `Replied` order sending, executing and reply;
  * `DeletionInv`: the second pass of team_delete leaves every member it has gone past
    stopped, with what it executes told to abort (`Quiet`, which excepts a task whose start was still awaited), and the member it waits for can
    begin nothing more, or only goes on with the execution waited for (`DeletionIs`). That
    a quiet member stays quiet is what `DeletedIsQuiet` needs after the end;
  * `CoordInv`: `RunBook` and `StepBook` say which worker can be where while its run is at
    a given point, one at a time in a sequential run, and that a completed run leaves no
    step undone; `AskedBook` that a cancel asked before the results is remembered until the
    run is over; `BusyBook` that without a cancel at most one run is at its steps, and that
    a busy status has a run behind it; `TableBook` that what `active_workers` names is in
    _run_step, and names each worker there but for those that share a step id with one
    beside them (`Alone`);
  * `SignalInv`, on top of it: `RegistryBook` that a sub-agent at work is registered under
    the id of its run, again where no step beside it has that id; and `SignalBook` that
    whoever was at work at the cancel has its signal, is through, or is still on the list
    of cancel_current. Where two runs overlap after a cancel, or a handler raised, the code
    promises less, and so do they.
* The subagent manager (SubAgentsProofs), on the specification of the `subagents` run:
  `SubAgentsAreTyped`, `CallsHold` and `AbortHeld`, its invariants and its action
  property. `JobBook` says where a run can be by the place its batch has reached: in a
  sequence every request before that place is over and none after it has begun, and a
  call that is over has no run left. `ActiveBook` ties the table of active runs to the
  runs: what it names is a run of that id, at work unless a handler was disturbed, and
  every run at work is named unless two shared the id of the caller (`shared`).
  `FailureBook` is why an early end leaves nothing going: the failure of one request has
  aborted every recorded run of a parallel batch, those that got their permit later
  excepted (`late`), and a sequence begins no further one. `PermitBook` counts the runs of
  a parallel batch: one begins only where fewer than `Concurrency` are at work, and the
  step that begins it begins no other.
* The Swarm (GraphAndSwarmProofs), on its specification `SwarmSpec`: `SwarmHolds` and
  `CancelledStays`, that is `SwarmIsTrue` and `CancelStays`. `SwarmInv` relates a run, the
  tasks of its plan, the mail and the teammates. `PlaceBook` says where a step can be by the
  place its run has reached: in a row, every step before that place is done and none after
  it has begun. `StepBook` and `MailBook`: only a run that has a plan has tasks and mail.
  `QuietBook`: while nobody else writes and no handler suspends, a mail is read as soon as
  it is sent and by the step it is for, so that a result is booked on its own task;
  that is the assumption the note in an inbox breaks. `PromptBook`: who executes is the one
  its teammate is busy with, hence one task at a time per teammate. `StatusBook`: a status
  "planning" or "running" has a run in flight behind it unless a run was torn down from
  outside, and a run in flight has such a status until a cancel or a suspended handler. `CancelBook`: a run that has no second run beside it and was met by
  cancel_current remembers it until it reports, so it never reports that it completed, and
  the tasks that were cancelled stay so. A step changes few runs; lemmas say what a step
  that only passes a run, asks a teammate or ends a run leaves alone, and each action is
  one of these.
* The tools (ToolsProofs), on the specification of the `tools` run: `ToolsAreTyped`,
  `AnswersHold`, `OnlyOnceHolds` and `ModelsHold`, its four invariants. The invariant
  `ToolsInv` has one part per component, since they share no state:
  * commands: `CommandBook` ties where the call of a command is to how far its process and
    the child it left can be, so that a result, a timeout and a late end each find nobody
    left who writes to the pipes, and a group that was killed no child of it;
  * task tools: `EntryIsOwn`, `BusyHasEntry` and `ListedIsOwn` tie an execution, the record
    it works on and the record listed under the id, which may be another one when an id is
    taken twice; `StopTracks` says that what is being stopped is still the record that was
    executed when the stop was asked, or is terminal; hence `StopWasTold`: who was told
    "stopped" stays right until the id is taken anew;
  * mailbox: a message that a marking poll took is marked, and no mark makes it new
    again (`TakenIsMarked`);
  * panel: the numbers of the notices under way rise, and whatever was told is older than
    all of them (`NewsInOrder`), so that no notice repeats or overtakes another;
  * models: the names asked and the names left are the order of this chat (`RouterBook`),
    in which no name is twice; `TurnBook` bounds what the rounds so far can have said since
    the question, an answer, a result and an observation each, so that a window that
    holds a turn holds its question. A compaction cannot cut it off, as it happens only
    when the turn ends; and `Payload` loses no message, whichever format it takes.

The assumptions on the constants are those of the modules: bounds are natural numbers,
sets of agents and the like are finite, and a marker such as `None`, `NoTask` or
`NoCommand` is no member of the set it stands beside; `Mates` is a sequence of teammates,
the plans of a run of the coordinator have at most `NSteps` steps (`PlansAssumption`), and those of the
Swarm are plans (`SwarmAssumption`); the lists of requests
and the routes that calls of the subagent manager are tried with have at most `MaxJobs` entries
(`SubAgentsAssumption`). That no fallback is named twice is
not assumed: the proof is about the code's own removal of duplicates. `ContextIsEnough`, a window that holds the rounds of one turn, is
a condition inside `QuestionIsPut`, since the configuration may set less.

All auxiliary invariants were model-checked on the instance of the run before they were
proved.

Only model-checked: all liveness, because fairness and ENABLED are out of the prover's
reach. The findings are violations, shown by their runs.

## 5. Not modelled

* Text: regular expressions of the classifiers and intents, prompts, rendering, diffs,
  the wording of messages. Where a classification decides control flow, its result is an
  input of the model.
* Extra tool calls of one LLM answer: the code lists them and never executes them.
* `permissions.enabled = false`: the gate is skipped and every call runs.
* A call whose gate raised is executed without a decision. The models do what the code
  does; the gate properties speak of calls with a gate result, and say so.
* `clear_existing_tasks` of a Swarm request: off by default, and set by no caller in the
  repository. It empties the list of tasks before the plan is made.
* Two graph runs on one AgentState at the same time (see `engine_cancel`): AgentGraph
  models one run at a time.
* `delete_task` and `clear` of the task storage and background runs of the controller (no
  caller), `watch_task` (reads only).
* HTTP of the LLM providers; the token budget, which only reports; the CLI, bootstrap and
  schemas, which are sequential start-up code; the state dataclasses.
* The agent and team panels, the diff viewer and the status bar: they render what the
  components above keep.
* `status` "aborted" given to task_update, broadcasts of a team by role, and the text
  conversions of plans.

## 6. Plan

Done: every module of section 2, and the theorems of section 4. What is left is to
compose: `RuntimeEngine` with AgentGraph as its graph run, and SubAgents with the interface
of TaskManager, each with the refinement that lets one stand for the other.
