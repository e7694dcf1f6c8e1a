----------------------------- MODULE TaskManager -----------------------------
(***************************************************************************)
(* pywork/tasks: the TaskManager (task_manager.py), its asyncio backend    *)
(* (local_task.py) and its SQLite rows (task_storage.py).                  *)
(*                                                                         *)
(* Everything runs on one event loop, so a step is the code between two    *)
(* points where a coroutine can be suspended.  Two kinds of coroutine      *)
(* interleave: the Callers, each inside at most one TaskManager method, and*)
(* the executions, the asyncio.Tasks that run LocalTaskBackend._run_record.*)
(* An event is awaited with every handler: whether that await suspends     *)
(* depends on the handlers (a plain function does not, a coroutine that    *)
(* waits does), and HandlersSuspend says which.                            *)
(***************************************************************************)
EXTENDS TaskRecords, Sequences, FiniteSets

CONSTANTS
    Tasks,             \* task ids
    Callers,           \* coroutines that use the TaskManager
    MaxExecutions,     \* bound: asyncio.Tasks created in one process lifetime
    MaxFaults,         \* bound: storage errors and raising event handlers
    MaxCrashes,        \* bound: process crashes
    HandlersSuspend,   \* an event handler may suspend the coroutine awaiting it
    NoTask             \* a model value outside Tasks

ASSUME TaskManagerAssumption ==
    /\ MaxExecutions \in Nat
    /\ MaxFaults \in Nat
    /\ MaxCrashes \in Nat
    /\ HandlersSuspend \in BOOLEAN
    /\ NoTask \notin Tasks

VARIABLES
    mem,        \* TaskManager._records
    row,        \* the tasks table
    log,        \* the task_events table, per task
    runners,    \* TaskManager._runners
    active,     \* LocalTaskBackend._active: the execution of a task, 0 for none
    exec,       \* the asyncio.Tasks made so far
    call,       \* where each caller is
    faults,
    crashes

vars == <<mem, row, log, runners, active, exec, call, faults, crashes>>

ExecIds == 1..MaxExecutions

\* "started", "ending" and "handling": suspended in the STARTED event, in the
\* event of the outcome, and in the event sent by one of the except clauses.
\* "failing": an exception is on its way to `except Exception`.
ExecPc == {"unused", "created", "started", "running", "ending", "failing",
           "handling", "returned", "raised", "cancelled"}
Done == {"returned", "raised", "cancelled"}

\* "queued" and "retrying": suspended in the event of that name.  "sleep": in
\* the sleep(0) of start_task.  "waiting": awaiting the execution.  "all":
\* between two waits of cancel_all.
CallPc == {"idle", "queued", "sleep", "retrying", "waiting", "all"}

Idle == [pc |-> "idle", op |-> "none", task |-> NoTask, exec |-> 0,
         wait |-> FALSE, timed |-> FALSE, expired |-> FALSE, rest |-> {}]

NoExec == [task |-> NoTask, pc |-> "unused", cancel |-> FALSE]

Init ==
    /\ mem = [t \in Tasks |-> NoRecord]
    /\ row = [t \in Tasks |-> NoRecord]
    /\ log = [t \in Tasks |-> << >>]
    /\ runners = {}
    /\ active = [t \in Tasks |-> 0]
    /\ exec = [e \in ExecIds |-> NoExec]
    /\ call = [c \in Callers |-> Idle]
    /\ faults = 0
    /\ crashes = 0

-----------------------------------------------------------------------------
(***************************************************************************)
(* The event loop.                                                         *)
(***************************************************************************)
EmittingExecs == {e \in ExecIds: exec[e].pc \in {"started", "ending", "handling"}}
EmittingCallers == {c \in Callers: call[c].pc \in {"queued", "retrying"}}

\* An exception reaches its except clause without giving up the loop.
Unwinding == {e \in ExecIds: exec[e].pc = "failing"}

\* The execution, or the caller, that the loop may run next.
ExecTurn(e) ==
    /\ Unwinding \subseteq {e}
    /\ HandlersSuspend \/ (EmittingExecs \subseteq {e} /\ EmittingCallers = {})
CallerTurn(c) ==
    /\ Unwinding = {}
    /\ HandlersSuspend \/ (EmittingExecs = {} /\ EmittingCallers \subseteq {c})

-----------------------------------------------------------------------------
(***************************************************************************)
(* Records, rows and events.                                               *)
(***************************************************************************)
\* get_task: the record in memory, else the one the table holds.
InMemory(t) == mem[t].status # "absent"
Known(t) == InMemory(t) \/ row[t].status # "absent"
Loaded(t) == IF InMemory(t) THEN mem[t] ELSE row[t]

CanFault == faults < MaxFaults
Fault(ok) == /\ ok \/ CanFault
             /\ faults' = IF ok THEN faults ELSE faults + 1

\* _persist_record: memory first, then the row, which the storage may refuse
\* with an error (ok = FALSE).
Persist(t, r, ok) ==
    /\ Fault(ok)
    /\ mem' = [mem EXCEPT ![t] = r]
    /\ row' = IF ok THEN [row EXCEPT ![t] = r] ELSE row

\* An event of the backend, or one that follows _persist_record: the record is
\* persisted, then the event; the storage may refuse either.  "ok": both are
\* written and the handlers are about to be awaited.
EmitOutcome == {"ok", "norow", "noevent"}

EmitWithoutRow(t, r, ev, out) ==                  \* mutant: retry_task does not persist
    /\ Fault(out = "ok")
    /\ mem' = [mem EXCEPT ![t] = r]
    /\ row' = IF out = "norow" \/ ev = "RETRYING" THEN row ELSE [row EXCEPT ![t] = r]
    /\ log' = IF out = "ok" THEN [log EXCEPT ![t] = Append(@, ev)] ELSE log

Emit(t, r, ev, out) ==
    /\ Fault(out = "ok")
    /\ mem' = [mem EXCEPT ![t] = r]
    /\ row' = IF out = "norow" THEN row ELSE [row EXCEPT ![t] = r]
    /\ log' = IF out = "ok" THEN [log EXCEPT ![t] = Append(@, ev)] ELSE log

-----------------------------------------------------------------------------
(***************************************************************************)
(* LocalTaskBackend.                                                       *)
(***************************************************************************)
IsDone(e) == exec[e].pc \in Done
IsRunning(t) == active[t] # 0 /\ ~IsDone(active[t])

\* LocalTaskExecution.cancel: a no-op on a finished asyncio.Task.
Cancelled(x) == IF x.pc \in Done THEN x ELSE [x EXCEPT !.cancel = TRUE]

Goto(e, pc) == exec' = [exec EXCEPT ![e].pc = pc]
GotoCaught(e, pc) == exec' = [exec EXCEPT ![e].pc = pc, ![e].cancel = FALSE]

\* The finally clause: it pops whatever execution the task's entry names.
Leave(e, pc) == /\ Goto(e, pc)
                /\ active' = [active EXCEPT ![exec[e].task] = 0]

\* The first step of _run_record, inside its try block.
EnterRecord(e) ==
    /\ ExecTurn(e) /\ exec[e].pc = "created" /\ ~exec[e].cancel
    /\ \E out \in EmitOutcome:
         /\ Emit(exec[e].task, MarkRunning(mem[exec[e].task]), "STARTED", out)
         /\ Goto(e, IF out = "ok" THEN "started" ELSE "failing")
    /\ UNCHANGED <<runners, active, call, crashes>>

\* A cancel that comes before the first step: CancelledError is raised at the
\* entry of _run_record, outside try and finally, and the entry in _active stays.
NeverEntered(e) ==
    /\ ExecTurn(e) /\ exec[e].pc = "created" /\ exec[e].cancel
    /\ Goto(e, "cancelled")
    /\ UNCHANGED <<mem, row, log, runners, active, call, faults, crashes>>

\* The STARTED handlers are through (or one raised) and the runner is called.
CallRunner(e) ==
    /\ ExecTurn(e) /\ exec[e].pc = "started" /\ ~exec[e].cancel
    /\ \E ok \in BOOLEAN: Fault(ok) /\ Goto(e, IF ok THEN "running" ELSE "failing")
    /\ UNCHANGED <<mem, row, log, runners, active, call, crashes>>

\* apply_runner_output_to_record and the event of the outcome.
RunnerReturns(e) ==
    /\ ExecTurn(e) /\ exec[e].pc = "running" /\ ~exec[e].cancel
    /\ \E out \in EmitOutcome, success \in BOOLEAN:
         LET r == mem[exec[e].task] IN
         /\ IF success
            THEN Emit(exec[e].task, MarkSucceeded(r), "SUCCEEDED", out)
            ELSE Emit(exec[e].task, MarkFailed(r), "FAILED", out)
         /\ Goto(e, IF out = "ok" THEN "ending" ELSE "failing")
    /\ UNCHANGED <<runners, active, call, crashes>>

RunnerRerun(e) ==                  \* mutant: a runner that raised is called again
    /\ ExecTurn(e) /\ exec[e].pc = "running" /\ ~exec[e].cancel
    /\ Goto(e, "started")
    /\ UNCHANGED <<mem, row, log, runners, active, call, faults, crashes>>

RunnerRaises(e) ==
    /\ ExecTurn(e) /\ exec[e].pc = "running" /\ ~exec[e].cancel
    /\ Goto(e, "failing")
    /\ UNCHANGED <<mem, row, log, runners, active, call, faults, crashes>>

\* The runner itself catches CancelledError and goes on.
RunnerIgnoresCancel(e) ==
    /\ ExecTurn(e) /\ exec[e].pc = "running" /\ exec[e].cancel
    /\ GotoCaught(e, "running")
    /\ UNCHANGED <<mem, row, log, runners, active, call, faults, crashes>>

\* Return after the event of the outcome; a handler of it may have raised.
EndRecord(e) ==
    /\ ExecTurn(e) /\ exec[e].pc = "ending" /\ ~exec[e].cancel
    /\ \E ok \in BOOLEAN:
         /\ Fault(ok)
         /\ IF ok THEN Leave(e, "returned")
                  ELSE Goto(e, "failing") /\ UNCHANGED active
    /\ UNCHANGED <<mem, row, log, runners, call, crashes>>

\* `except asyncio.CancelledError`, from whatever await the cancel hit.
CatchCancel(e) ==
    /\ ExecTurn(e) /\ exec[e].pc \in {"started", "running", "ending"} /\ exec[e].cancel
    /\ \E out \in EmitOutcome:
         /\ Emit(exec[e].task, MarkCancelled(mem[exec[e].task]), "CANCELLED", out)
         /\ IF out = "ok" THEN GotoCaught(e, "handling") /\ UNCHANGED active
                          ELSE Leave(e, "raised")
    /\ UNCHANGED <<runners, call, crashes>>

\* `except Exception`.
CatchException(e) ==
    /\ ExecTurn(e) /\ exec[e].pc = "failing"
    /\ \E out \in EmitOutcome:
         /\ Emit(exec[e].task, MarkFailed(mem[exec[e].task]), "FAILED", out)
         /\ IF out = "ok" THEN Goto(e, "handling") /\ UNCHANGED active
                          ELSE Leave(e, "raised")
    /\ UNCHANGED <<runners, call, crashes>>

\* Out of an except clause: a cancel or an exception that hits the await in it
\* is not caught again.
LeaveHandler(e) ==
    /\ ExecTurn(e) /\ exec[e].pc = "handling"
    /\ \E ok \in BOOLEAN:
         /\ Fault(ok)
         /\ exec[e].cancel => ok
         /\ Leave(e, CASE exec[e].cancel -> "cancelled"
                       [] ~exec[e].cancel /\ ok -> "returned"
                       [] OTHER -> "raised")
    /\ UNCHANGED <<mem, row, log, runners, call, crashes>>

ExecStep(e) ==
    \/ EnterRecord(e) \/ NeverEntered(e) \/ CallRunner(e)
    \/ RunnerReturns(e) \/ RunnerRaises(e) \/ RunnerIgnoresCancel(e)
    \/ EndRecord(e) \/ CatchCancel(e) \/ CatchException(e) \/ LeaveHandler(e)

-----------------------------------------------------------------------------
(***************************************************************************)
(* TaskManager, called by caller c.  The optional runner argument of       *)
(* start_task and retry_task (what SubAgentManager always passes) is given *)
(* when r is TRUE.                                                         *)
(***************************************************************************)
Free(c) == CallerTurn(c) /\ call[c].pc = "idle"
Return(c) == call' = [call EXCEPT ![c] = Idle]

SetRunner(t, r) == runners' = IF r THEN runners \cup {t} ELSE runners

Load(t) == mem' = [mem EXCEPT ![t] = Loaded(t)]

\* create_task: the task id is fresh, so nothing is overwritten.
CreateTask(c, t, r) ==
    /\ Free(c) /\ ~Known(t)
    /\ SetRunner(t, r)
    /\ \E out \in EmitOutcome: Emit(t, NewRecord, "CREATED", out)
    /\ UNCHANGED <<active, exec, call, crashes>>

GetTask(c, t) ==
    /\ Free(c) /\ Known(t) /\ ~InMemory(t)
    /\ Load(t)
    /\ UNCHANGED <<row, log, runners, active, exec, call, faults, crashes>>

MayStartIfActive(t, r) == ~IsTerminal(r)     \* mutant: no look at _active
MayStartIfTerminal(t, r) == active[t] = 0    \* mutant: no look at the status

\* LocalTaskBackend.start_task up to its first await.
MayStart(t, r) == active[t] = 0 /\ ~IsTerminal(r)

\* start_task, and run_task of a created task (w = TRUE: wait for the outcome,
\* timed = TRUE: with a timeout).
StartTask(c, t, r, w, timed) ==
    /\ Free(c) /\ Known(t)
    /\ SetRunner(t, r)
    /\ IF t \in runners' /\ MayStart(t, Loaded(t))
       THEN \E out \in EmitOutcome:
              /\ Emit(t, MarkQueued(Loaded(t)), "QUEUED", out)
              /\ call' = IF out # "ok" THEN call ELSE
                         [call EXCEPT ![c] = [Idle EXCEPT
                            !.pc = "queued", !.op = "start", !.task = t,
                            !.wait = w, !.timed = timed]]
       ELSE Load(t) /\ UNCHANGED <<row, log, call, faults>>
    /\ UNCHANGED <<active, exec, crashes>>

\* The QUEUED handlers are through: the asyncio.Task is made and entered in
\* _active, and the caller sleeps once round the loop.
Launch(c) ==
    /\ CallerTurn(c) /\ call[c].pc = "queued"
    /\ \/ \E e \in ExecIds:
            /\ exec[e].pc = "unused"
            /\ \A d \in ExecIds: d < e => exec[d].pc # "unused"
            /\ exec' = [exec EXCEPT ![e] = [NoExec EXCEPT !.task = call[c].task,
                                                          !.pc = "created"]]
            /\ active' = [active EXCEPT ![call[c].task] = e]
            /\ call' = [call EXCEPT ![c].pc = "sleep", ![c].exec = e]
            /\ UNCHANGED faults
       \/ /\ Fault(FALSE) /\ Return(c)
          /\ UNCHANGED <<exec, active>>
    /\ UNCHANGED <<mem, row, log, runners, crashes>>

SleptNot(c) == TRUE                           \* mutant: no sleep(0)

\* sleep(0) puts the caller behind the first step of the new asyncio.Task.
\* start_task persists once more, retry_task does not.
Slept(c) == exec[call[c].exec].pc # "created"
Awake(c) ==
    /\ CallerTurn(c) /\ call[c].pc = "sleep" /\ Slept(c)
    /\ \E ok \in BOOLEAN:
         /\ IF call[c].op = "start"
            THEN Persist(call[c].task, mem[call[c].task], ok)
            ELSE ok /\ UNCHANGED <<mem, row, faults>>
         /\ IF ok /\ call[c].wait THEN call' = [call EXCEPT ![c].pc = "waiting"]
                                  ELSE Return(c)
    /\ UNCHANGED <<log, runners, active, exec, crashes>>

\* wait_task of a running task; of another one it only loads the record.
WaitTask(c, t, timed) ==
    /\ Free(c) /\ IsRunning(t)
    /\ call' = [call EXCEPT ![c] = [Idle EXCEPT
                  !.pc = "waiting", !.op = "wait", !.task = t,
                  !.exec = active[t], !.timed = timed]]
    /\ UNCHANGED <<mem, row, log, runners, active, exec, faults, crashes>>

\* asyncio.wait_for cancels the execution it waits for, and goes on waiting.
Timeout(c) ==
    /\ CallerTurn(c) /\ call[c].pc = "waiting" /\ call[c].timed
    /\ exec[call[c].exec].pc \notin Done \cup {"created"}
    /\ exec' = [exec EXCEPT ![call[c].exec] = Cancelled(@)]
    /\ call' = [call EXCEPT ![c].timed = FALSE, ![c].expired = TRUE]
    /\ UNCHANGED <<mem, row, log, runners, active, faults, crashes>>

\* Back from a wait that returned the record: persist it.  cancel_all goes on
\* with the tasks left.
NextWait(c) ==
    LET left == call[c].rest IN
    call' = [call EXCEPT ![c] =
               IF left = {} THEN Idle ELSE [Idle EXCEPT !.pc = "all", !.rest = left]]

WaitReturnsInTime(c) ==             \* mutant: no answer once the wait has expired
    /\ CallerTurn(c) /\ call[c].pc = "waiting" /\ exec[call[c].exec].pc = "returned"
    /\ ~call[c].expired
    /\ \E ok \in BOOLEAN:
         /\ Persist(call[c].task, mem[call[c].task], ok)
         /\ IF ok THEN NextWait(c) ELSE Return(c)
    /\ UNCHANGED <<log, runners, active, exec, crashes>>

WaitReturns(c) ==
    /\ CallerTurn(c) /\ call[c].pc = "waiting" /\ exec[call[c].exec].pc = "returned"
    /\ \E ok \in BOOLEAN:
         /\ Persist(call[c].task, mem[call[c].task], ok)
         /\ IF ok THEN NextWait(c) ELSE Return(c)
    /\ UNCHANGED <<log, runners, active, exec, crashes>>

\* The execution ended with an error, which reaches the caller.  When the wait
\* had expired, run_task and retry_task first cancel whatever is active.
WaitRaises(c) ==
    /\ CallerTurn(c) /\ call[c].pc = "waiting"
    /\ exec[call[c].exec].pc \in {"raised", "cancelled"}
    /\ LET now == active[call[c].task] IN
       IF exec[call[c].exec].pc = "cancelled" /\ call[c].expired /\ now # 0
          /\ call[c].op \in {"start", "retry"}
       THEN exec' = [exec EXCEPT ![now] = Cancelled(@)]
       ELSE UNCHANGED exec
    /\ Return(c)
    /\ UNCHANGED <<mem, row, log, runners, active, faults, crashes>>

\* cancel_task (and stop_task).  A running task is only told to stop; any other
\* one that is not terminal is marked here.
CancelTask(c, t, w) ==
    /\ Free(c) /\ Known(t)
    /\ CASE IsRunning(t) ->
              /\ exec' = [exec EXCEPT ![active[t]] = Cancelled(@)]
              /\ IF w THEN /\ call' = [call EXCEPT ![c] = [Idle EXCEPT
                                !.pc = "waiting", !.op = "cancel", !.task = t,
                                !.exec = active[t]]]
                           /\ UNCHANGED <<mem, row, faults>>
                      ELSE /\ \E ok \in BOOLEAN: Persist(t, mem[t], ok)
                           /\ UNCHANGED call
              /\ UNCHANGED log
         [] ~IsRunning(t) /\ IsTerminal(Loaded(t)) ->
              Load(t) /\ UNCHANGED <<row, log, exec, call, faults>>
         [] OTHER ->
              /\ \E out \in EmitOutcome:
                   Emit(t, MarkCancelled(Loaded(t)), "CANCELLED", out)
              /\ UNCHANGED <<exec, call>>
    /\ UNCHANGED <<runners, active, crashes>>

\* cancel_all: every entry of _active is told to stop, then awaited in turn.
CancelAll(c, w) ==
    /\ Free(c)
    /\ LET ids == {t \in Tasks: active[t] # 0} IN
       /\ ids # {}
       /\ exec' = [e \in ExecIds |-> IF \E t \in ids: active[t] = e
                                     THEN Cancelled(exec[e]) ELSE exec[e]]
       /\ IF w THEN call' = [call EXCEPT ![c] = [Idle EXCEPT !.pc = "all", !.rest = ids]]
               ELSE UNCHANGED call
    /\ UNCHANGED <<mem, row, log, runners, active, faults, crashes>>

CancelAllNext(c, t) ==
    /\ CallerTurn(c) /\ call[c].pc = "all" /\ t \in call[c].rest
    /\ LET left == [Idle EXCEPT !.rest = call[c].rest \ {t}] IN
       call' = [call EXCEPT ![c] =
         CASE IsRunning(t) ->
                [left EXCEPT !.pc = "waiting", !.op = "all", !.task = t, !.exec = active[t]]
           [] ~IsRunning(t) /\ IsTerminal(mem[t]) /\ left.rest # {} -> [left EXCEPT !.pc = "all"]
           [] OTHER -> Idle]
    /\ UNCHANGED <<mem, row, log, runners, active, exec, faults, crashes>>

\* retry_task up to the RETRYING event: mark_retrying raises unless can_retry.
RetryTask(c, t, r, w, timed) ==
    /\ Free(c) /\ Known(t)
    /\ SetRunner(t, r)
    /\ IF t \in runners' /\ CanRetry(Loaded(t))
       THEN \E out \in EmitOutcome:
              /\ Emit(t, MarkRetrying(Loaded(t)), "RETRYING", out)
              /\ call' = IF out # "ok" THEN call ELSE
                         [call EXCEPT ![c] = [Idle EXCEPT
                            !.pc = "retrying", !.op = "retry", !.task = t,
                            !.wait = w, !.timed = timed]]
       ELSE Load(t) /\ UNCHANGED <<row, log, call, faults>>
    /\ UNCHANGED <<active, exec, crashes>>

\* The RETRYING handlers are through: prepare_next_attempt, persist, and
\* LocalTaskBackend.start_task, which may still refuse: then the record stays
\* queued with nothing to run it.
PrepareAttempt(c) ==
    /\ CallerTurn(c) /\ call[c].pc = "retrying"
    /\ LET t == call[c].task
           r == PrepareNextAttempt(mem[t]) IN
       \/ /\ MayStart(t, r)
          /\ \E out \in EmitOutcome:
               /\ Emit(t, MarkQueued(r), "QUEUED", out)
               /\ IF out = "ok" THEN call' = [call EXCEPT ![c].pc = "queued"] ELSE Return(c)
       \/ /\ ~MayStart(t, r)
          /\ \E ok \in BOOLEAN: Persist(t, r, ok)
          /\ Return(c) /\ UNCHANGED log
       \/ /\ Fault(FALSE) /\ Return(c)      \* a RETRYING handler raised
          /\ UNCHANGED <<mem, row, log>>
    /\ UNCHANGED <<runners, active, exec, crashes>>

CallerStep(c) ==
    \/ Launch(c) \/ Awake(c) \/ Timeout(c) \/ WaitReturns(c) \/ WaitRaises(c)
    \/ PrepareAttempt(c)
    \/ \E t \in Tasks: CancelAllNext(c, t)

Request(c) ==
    \E t \in Tasks:
       \/ GetTask(c, t)
       \/ \E b \in BOOLEAN: \/ CreateTask(c, t, b) \/ CancelTask(c, t, b)
                            \/ CancelAll(c, b) \/ WaitTask(c, t, b)
       \/ \E r, w, timed \in BOOLEAN: \/ StartTask(c, t, r, w, timed)
                                      \/ RetryTask(c, t, r, w, timed)

-----------------------------------------------------------------------------
\* The process dies and starts again: only the tables survive.
Crash ==
    /\ crashes < MaxCrashes
    /\ crashes' = crashes + 1
    /\ mem' = [t \in Tasks |-> NoRecord]
    /\ runners' = {}
    /\ active' = [t \in Tasks |-> 0]
    /\ exec' = [e \in ExecIds |-> NoExec]
    /\ call' = [c \in Callers |-> Idle]
    /\ UNCHANGED <<row, log, faults>>

Next ==
    \/ \E e \in ExecIds: ExecStep(e)
    \/ \E c \in Callers: CallerStep(c) \/ Request(c)
    \/ Crash

Spec == Init /\ [][Next]_vars

\* The event loop runs every ready coroutine, and a runner comes to an end
\* however often it shrugs off a cancel.  Nobody has to call the TaskManager, to
\* time out or to crash.
Fairness ==
    /\ \A e \in ExecIds: /\ WF_vars(ExecStep(e))
                         /\ SF_vars(RunnerReturns(e) \/ RunnerRaises(e) \/ CatchCancel(e))
    /\ \A c \in Callers: /\ WF_vars(Launch(c)) /\ WF_vars(Awake(c))
                         /\ WF_vars(WaitReturns(c)) /\ WF_vars(WaitRaises(c))
                         /\ WF_vars(PrepareAttempt(c))
                         /\ WF_vars(\E t \in Tasks: CancelAllNext(c, t))

FairSpec == Spec /\ Fairness

-----------------------------------------------------------------------------
(***************************************************************************)
(* Properties.                                                             *)
(***************************************************************************)
Execution == [task: Tasks \cup {NoTask}, pc: ExecPc, cancel: BOOLEAN]
Caller == [pc: CallPc, op: {"none", "start", "retry", "wait", "cancel", "all"},
           task: Tasks \cup {NoTask}, exec: 0..MaxExecutions,
           wait: BOOLEAN, timed: BOOLEAN, expired: BOOLEAN, rest: SUBSET Tasks]

\* Every variable has its type; in particular no task is retried more often than
\* its max_retries.
TypeOK ==
    /\ mem \in [Tasks -> Record \cup {NoRecord}]
    /\ row \in [Tasks -> Record \cup {NoRecord}]
    /\ log \in [Tasks -> Seq(TaskEventType)]
    /\ runners \subseteq Tasks
    /\ active \in [Tasks -> 0..MaxExecutions]
    /\ exec \in [ExecIds -> Execution]
    /\ call \in [Callers -> Caller]
    /\ faults \in 0..MaxFaults
    /\ crashes \in 0..MaxCrashes

\* Whatever runs, waits or is suspended in the middle of a method works on a
\* record that the TaskManager holds in memory.
TasksLoaded ==
    /\ \A e \in ExecIds: exec[e].pc # "unused" =>
          exec[e].task \in Tasks /\ InMemory(exec[e].task)
    /\ \A t \in Tasks: active[t] # 0 =>
          exec[active[t]].task = t /\ exec[active[t]].pc # "unused"
    /\ \A c \in Callers: call[c].pc \notin {"idle", "all"} =>
          call[c].task \in Tasks /\ InMemory(call[c].task)

Live(e) == exec[e].pc \notin Done \cup {"unused"}

\* The guard against a second start: an execution that has not ended is the one
\* _active names, so a task never has two and cancel_task always reaches it.
LiveIsTracked == \A e \in ExecIds: Live(e) => active[exec[e].task] = e

\* A caller about to launch a task has found it free, and it still is.
QueuedIsFree == \A c \in Callers: call[c].pc = "queued" => active[call[c].task] = 0

\* What the sleep(0) of start_task is for: no entry of _active outlives its
\* execution, so a finished task can be started, retried or cancelled again.
EntriesAreLive == \A t \in Tasks: active[t] # 0 => ~IsDone(active[t])

\* A queued task is on its way: a caller is about to launch it, or its
\* execution has been made.  Nothing else would ever run it.
QueuedHasOwner ==
    \A t \in Tasks: mem[t].status = "queued" =>
        \/ \E c \in Callers: call[c].pc = "queued" /\ call[c].task = t
        \/ IsRunning(t)

\* While the storage works, the row of a task is its record, after every step
\* of every method: a crash loses no status.
RowsCurrent == \A t \in Tasks: InMemory(t) => row[t] = mem[t]

\* The event a consumer of the bridge heard last names the status the record
\* has, so a panel need not poll the TaskManager.
StatusOf(ev) == CASE ev = "CREATED" -> "pending"   [] ev = "QUEUED" -> "queued"
                  [] ev = "STARTED" -> "running"   [] ev = "RETRYING" -> "retrying"
                  [] ev = "SUCCEEDED" -> "succeeded" [] ev = "FAILED" -> "failed"
                  [] ev = "CANCELLED" -> "cancelled"
LastEventIsStatus ==
    \A t \in Tasks: InMemory(t) =>
        log[t] # << >> /\ StatusOf(log[t][Len(log[t])]) = mem[t].status

\* One outcome per attempt in the event log: an outcome follows the start of an
\* attempt, and only a failure is followed by anything, its retry.  A restarted
\* process may enqueue or cancel what the last one left unfinished.
LegalNext(ev) == CASE ev = "CREATED" -> {"QUEUED", "CANCELLED"}
                   [] ev = "QUEUED" -> {"STARTED", "CANCELLED"}
                   [] ev = "STARTED" -> {"SUCCEEDED", "FAILED", "CANCELLED"}
                   [] ev = "FAILED" -> {"RETRYING"}
                   [] ev = "RETRYING" -> {"QUEUED"}
                   [] OTHER -> {}
LogLegal ==
    \A t \in Tasks: \A i \in 1..Len(log[t]) - 1:
       \/ log[t][i + 1] \in LegalNext(log[t][i])
       \/ /\ crashes > 0
          /\ StatusOf(log[t][i]) \notin TerminalStatus
          /\ log[t][i + 1] \in {"QUEUED", "CANCELLED"}

\* A task is attempted once, and once more for every retry it was granted and
\* for every crash that may have cut an attempt short.
Attempts(t) == Cardinality({i \in DOMAIN log[t]: log[t][i] = "STARTED"})
AttemptsBounded ==
    \A t \in Tasks: InMemory(t) => Attempts(t) <= 1 + mem[t].retries + crashes

\* What is on disk tells the story: rows and event log agree with the records, and
\* the log is one that a task can have.
LogIsTrue == RowsCurrent /\ LastEventIsStatus /\ LogLegal /\ AttemptsBounded

\* An outcome is final, except that retry_task may take up a failure again.
TerminalIsFinal ==
    [][\A t \in Tasks: IsTerminal(mem[t]) /\ mem'[t].status # "absent" =>
          \/ mem'[t].status = mem[t].status
          \/ mem[t].status = "failed" /\ mem'[t].status = "retrying"]_mem

\* Even when handlers suspend and fail, an outcome that is replaced otherwise
\* than by a retry is replaced by the execution that has not yet left its task,
\* or by a retry_task that went through while that task was cancelled.
OutcomeReplacedInFlight ==
    [][\A t \in Tasks: IsTerminal(mem[t]) /\ mem'[t].status # "absent" =>
          \/ mem'[t].status = mem[t].status
          \/ mem[t].status = "failed" /\ mem'[t].status = "retrying"
          \/ \E e \in ExecIds: Live(e) /\ exec[e].task = t
          \/ \E c \in Callers: call[c].pc \in {"queued", "retrying"} /\ call[c].task = t]_mem

\* The stored status of a task behaves as TaskLifecycle says.
Lifecycle == INSTANCE TaskLifecycle WITH
    status <- [t \in Tasks |-> row[t].status],
    retries <- [t \in Tasks |-> IF row[t].status = "absent" THEN 0 ELSE row[t].retries]
ImplementsLifecycle == Lifecycle!Spec

\* Every execution ends, cancelled or not, as long as its runner does.
ExecutionsEnd == \A e \in ExecIds: []<>~Live(e)

\* Whoever waits for a task gets an answer.
WaitersReturn == \A c \in Callers: []<>(call[c].pc # "waiting")

\* A task that was queued is run or cancelled.
QueuedIsRun == \A t \in Tasks: []<>(mem[t].status # "queued")
=============================================================================
