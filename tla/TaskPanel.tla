------------------------------- MODULE TaskPanel -------------------------------
(***************************************************************************)
(* The background tasks as the terminal application shows them: the panel  *)
(* with the newest tasks, the notice of a created task in the chat, and    *)
(* the keys that stop a task or retry it.                                  *)
(*                                                                         *)
(* A switch of the permission mode between two turns makes a new runtime   *)
(* controller, with a task manager and an event bus of its own.  Tasks of  *)
(* the old one run on, and the application goes on listening to its bus.   *)
(***************************************************************************)
EXTENDS Naturals, Sequences, FiniteSets

CONSTANTS
    MaxShown,     \* rows of the panel, 8
    MaxAgain,     \* max_retries of a task
    MaxTasks,     \* bound: tasks
    MaxHomes,     \* bound: controllers
    MaxFailures   \* bound: refreshes that raise

ASSUME PanelAssumption ==
    /\ MaxShown \in Nat \ {0} /\ MaxTasks \in Nat /\ MaxHomes \in Nat \ {0}
    /\ MaxAgain \in Nat /\ MaxFailures \in Nat

VARIABLES
    tasks,        \* of all controllers, in the order of creation: [home, status, retries]
    home,         \* runtime_controller, numbered
    working,      \* runtime_busy
    making,       \* the task that task_create has created and not returned yet, or 0
    news,         \* events of the turn that tell of a created task, by task
    told,         \* the notices in the chat, by task
    refresh,      \* a refresh of the panel is scheduled
    panel,        \* the rows: a set of [task, status]
    retrying,     \* the tasks whose retry the application waits for
    closed,       \* a worker of the application raised, which ends it
    failures

panelVars == <<tasks, home, working, making, news, told, refresh, panel, retrying, closed, failures>>

Ids == DOMAIN tasks
Unfinished == {"running", "stopping"}

PanelInit ==
    /\ tasks = <<>> /\ home = 1 /\ working = FALSE /\ making = 0
    /\ news = <<>> /\ told = <<>> /\ refresh = FALSE /\ panel = {}
    /\ retrying = {} /\ closed = FALSE /\ failures = 0

\* resolve_runtime_task_manager and list_tasks: the newest ones of this controller.
Own == {i \in Ids: tasks[i].home = home}
Newest == {i \in Own: Cardinality({j \in Own: j > i}) < MaxShown}
Rows == {[task |-> i, status |-> tasks[i].status]: i \in Newest}

\* The application subscribes when it starts, to the bus of its first controller.
Heard(controller) == controller = 1

-----------------------------------------------------------------------------
\* Turns, and the tasks that they start

BeginTurn ==
    /\ ~working /\ working' = TRUE
    /\ UNCHANGED <<tasks, home, making, news, told, refresh, panel, retrying, closed, failures>>

\* What is left of the stream is not read.
EndTurn ==
    /\ working /\ making = 0 /\ working' = FALSE /\ news' = <<>>
    /\ UNCHANGED <<tasks, home, making, told, refresh, panel, retrying, closed, failures>>

Create ==
    /\ working /\ making = 0 /\ Len(tasks) < MaxTasks
    /\ tasks' = Append(tasks, [home |-> home, status |-> "running", retries |-> 0])
    /\ making' = Len(tasks')
    /\ news' = Append(news, Len(tasks'))
    /\ refresh' = (refresh \/ Heard(home))
    /\ UNCHANGED <<home, working, told, panel, retrying, closed, failures>>

\* The result of the tool carries a notice of its own.
NoticeFollows ==
    /\ making # 0 /\ making' = 0 /\ news' = Append(news, making)
    /\ UNCHANGED <<tasks, home, working, told, refresh, panel, retrying, closed, failures>>

TaskEnds(i) ==
    /\ tasks[i].status \in Unfinished
    /\ \E status \in {"succeeded", "failed"} \cup (IF tasks[i].status = "stopping" THEN {"cancelled"} ELSE {}):
           tasks' = [tasks EXCEPT ![i].status = status]
    /\ refresh' = (refresh \/ Heard(tasks[i].home))
    /\ UNCHANGED <<home, working, making, news, told, panel, retrying, closed, failures>>

-----------------------------------------------------------------------------
\* The application

Tells(i) == told' = Append(told, i) /\ refresh' = TRUE

\* handle_task_creation_feedback, with the keys of the visible notices
Announce ==
    /\ ~closed /\ news # <<>> /\ news' = Tail(news)
    /\ IF \E k \in DOMAIN told: told[k] = Head(news) THEN UNCHANGED <<told, refresh>>
       ELSE Tells(Head(news))
    /\ UNCHANGED <<tasks, home, working, making, panel, retrying, closed, failures>>

\* The timer of TASK_PANEL_FALLBACK_POLL_SECONDS.
Timer ==
    /\ ~closed /\ ~refresh /\ refresh' = TRUE
    /\ UNCHANGED <<tasks, home, working, making, news, told, panel, retrying, closed, failures>>

\* refresh_task_panel: an exception is logged and leaves the rows.
Refresh ==
    /\ ~closed /\ refresh /\ refresh' = FALSE
    /\ \/ panel' = Rows /\ UNCHANGED failures
       \/ failures < MaxFailures /\ failures' = failures + 1 /\ UNCHANGED panel
    /\ UNCHANGED <<tasks, home, working, making, news, told, retrying, closed>>

\* set_permission_mode: while a turn runs the controller stays.
NewMode ==
    /\ ~closed /\ ~working /\ home < MaxHomes /\ home' = home + 1
    /\ UNCHANGED <<tasks, working, making, news, told, refresh, panel, retrying, closed, failures>>

RowsNow == panel' = {[task |-> i, status |-> tasks'[i].status]: i \in Newest}

\* run_stop_task_command of a row; a manager that does not know the task raises.
Stop(i) ==
    /\ ~closed /\ \E row \in panel: row.task = i
    /\ IF i \in Own
       THEN /\ tasks' = [tasks EXCEPT ![i].status = IF @ = "running" THEN "stopping" ELSE @]
            /\ RowsNow /\ UNCHANGED closed
       ELSE closed' = TRUE /\ UNCHANGED <<tasks, panel>>
    /\ UNCHANGED <<home, working, making, news, told, refresh, retrying, failures>>

MayRetry(task) == task.status = "failed" /\ task.retries < MaxAgain
Again(task) == [task EXCEPT !.status = "running", !.retries = @ + 1]

\* run_retry_task_command of a row: a task that is not known is reported; the
\* fallback for one that cannot be retried calls run_agent_task without its task.
Retry(i) ==
    /\ ~closed /\ \E row \in panel: row.task = i
    /\ i \in Own
    /\ IF MayRetry(tasks[i])
       THEN /\ tasks' = [tasks EXCEPT ![i] = Again(tasks[i])]
            /\ retrying' = retrying \cup {i}
            /\ refresh' = (refresh \/ Heard(home)) /\ UNCHANGED closed
       ELSE closed' = TRUE /\ UNCHANGED <<tasks, retrying, refresh>>
    /\ UNCHANGED <<home, working, making, news, told, panel, failures>>

\* The retry is waited for; then the panel is drawn.
RetryReturns(i) ==
    /\ ~closed /\ i \in retrying /\ tasks[i].status \notin Unfinished
    /\ retrying' = retrying \ {i} /\ panel' = Rows
    /\ UNCHANGED <<tasks, home, working, making, news, told, refresh, closed, failures>>

PanelNext ==
    \/ BeginTurn \/ EndTurn \/ Create \/ NoticeFollows \/ Announce
    \/ Timer \/ Refresh \/ NewMode
    \/ \E i \in Ids: TaskEnds(i) \/ Stop(i) \/ Retry(i) \/ RetryReturns(i)

-----------------------------------------------------------------------------
(***************************************************************************)
(* The user is told once of every created task, in the order of creation,  *)
(* although the task's event and the tool's result both tell of it.        *)
(***************************************************************************)
ToldOnce == \A j, k \in DOMAIN told: j < k => told[j] < told[k]

(***************************************************************************)
(* Whatever is started, ended, stopped or retried, and after every switch  *)
(* of the mode, the panel comes to show the tasks of the controller in use *)
(* as they are, unless the application has ended.                          *)
(***************************************************************************)
PanelCatchesUp == <>[](closed \/ panel = Rows)

(***************************************************************************)
(* A key of the panel is answered with a message; it does not end the      *)
(* application.                                                            *)
(***************************************************************************)
KeysAreAnswered == ~closed
=============================================================================
