------------------------------ MODULE Coordinator ------------------------------
(***************************************************************************)
(* The SubAgentCoordinator (coordinator/coordinator.py): it makes a plan,  *)
(* gives each step a worker of its own (coordinator/worker.py) and sums up *)
(* their results. A worker runs a sub-agent, directly or as a task of the  *)
(* task manager; of that run only what a worker sees is kept here.         *)
(*                                                                         *)
(* All coroutines share one event loop: an action is the code between two  *)
(* points where its coroutine is suspended. turn names the run that goes   *)
(* on without being suspended.                                             *)
(***************************************************************************)
EXTENDS Naturals, FiniteSets

CONSTANTS
    MaxRuns,        \* bound on calls of run, numbered in the order they are made
    NSteps,         \* bound on the steps of a plan
    Plans,          \* per run the plans of its caller and its planner: a set of Plan
    Concurrency,    \* CoordinatorConfig.max_concurrency
    MaxCancels,     \* bound on calls of cancel_current
    MaxDisturbs     \* bound on what event handlers do: suspend or raise

ASSUME CoordinatorAssumption ==
    /\ MaxRuns \in Nat /\ NSteps \in Nat \ {0} /\ Concurrency \in Nat \ {0}
    /\ MaxCancels \in Nat /\ MaxDisturbs \in Nat

Runs  == 1..MaxRuns
Steps == 1..NSteps
Work == Runs \X Steps          \* the worker of a step of a run
NoWork == <<0, 0>>
NoRun  == 0

RunStatus == {"idle", "planning", "running", "completed", "failed", "cancelled"}
JobStatus == {"none", "created", "running", "succeeded", "failed", "cancelled"}

\* A plan: its number of steps, none if its caller says so; their step ids, as the planner
\* or the caller gives them; strategy parallel; a step has depends_on; fail_fast and
\* worker_execution_mode "task" of the request; the steps whose agent is not registered.
Plan == [n: {0} \cup Steps, id: [Steps -> Steps], parallel: BOOLEAN, depends: BOOLEAN, failFast: BOOLEAN, task: BOOLEAN,
         unknown: SUBSET Steps]
ASSUME PlansAssumption == \A r \in Runs: Plans[r] \subseteq Plan
\* create_fallback_plan; the rest is that of the request.
FallbackPlan == [n |-> 1, id |-> [s \in Steps |-> s], parallel |-> FALSE, depends |-> FALSE,
                 failFast |-> FALSE, task |-> FALSE, unknown |-> {}]

VARIABLES
    coord,      \* status, _cancel_requested
    active,     \* active_workers: per step id the worker recorded, or NoWork
    registry,   \* SubAgentManager._active_runs: per run and step id, which make up the id of
                \* a sub-agent's run, whose worker's run is registered, or NoWork
    run,        \* per run: where its coroutine is, its plan, its status in the end
    step,       \* per worker: where _run_step is, the sub-agent's run, a signal to it
    cancel,     \* the workers that a cancel_current in progress has left to ask
    turn,       \* the run whose coroutine goes on
    cancels, disturbs,  \* what others have done so far
    asked,      \* history: runs in flight at a cancel_current
    caught,     \* history: the workers at work at the cancel_current in progress
    hurt,       \* history: runs of which an event handler or a step has raised
    overlapped  \* history: a run was started while another was in flight

coordVars == <<coord, active, registry, run, step, cancel, turn, cancels, disturbs, asked, caught,
               hurt, overlapped>>
history == <<asked, caught, overlapped>>

NotCancelling == [on |-> FALSE, awaits |-> NoWork, left |-> {}]
NoWorker == [pc |-> "none", job |-> "none", signal |-> "none", ok |-> FALSE]

CoordInit ==
    /\ coord = [status |-> "idle", asked |-> FALSE]
    /\ active = [s \in Steps |-> NoWork]
    /\ registry = [k \in Work |-> NoWork]
    /\ run = [r \in Runs |-> [pc |-> "none", plan |-> FallbackPlan, at |-> 1, outcome |-> "none"]]
    /\ step = [k \in Work |-> NoWorker]
    /\ cancel = NotCancelling /\ turn = NoRun /\ cancels = 0 /\ disturbs = 0
    /\ asked = {} /\ caught = {} /\ hurt = {} /\ overlapped = FALSE

RunOf(k) == k[1]
PlanOf(k) == run[RunOf(k)].plan
IdOf(k) == PlanOf(k).id[k[2]]
RunId(k) == <<RunOf(k), IdOf(k)>>
StepsOf(r) == {k \in Work: RunOf(k) = r /\ k[2] <= run[r].plan.n}
InFlight(r) == run[r].pc \notin {"none", "ended", "raised", "wedged"}
FreeTurn == turn = NoRun
AtWork(k) == step[k].pc \in {"launching", "waiting", "executing"}
Holding == {"starting", "launching", "waiting", "executing", "reporting"}

\* emit_event: the handlers let the coroutine go on, suspend it or raise.
Event(goesOn, suspends, raises) ==
    \/ goesOn /\ UNCHANGED disturbs
    \/ disturbs < MaxDisturbs /\ disturbs' = disturbs + 1 /\ (suspends \/ raises)

-----------------------------------------------------------------------------
\* The end of a run

\* The finally clause of run.
AfterRun(status) ==
    [status |-> IF status \in {"completed", "failed", "cancelled"} THEN "idle" ELSE status,
     asked |-> FALSE]

End(r, pc, outcome, status) ==
    /\ run' = [run EXCEPT ![r].pc = pc, ![r].outcome = outcome, ![r].at = 1]
    /\ coord' = AfterRun(status)
    /\ active' = [s \in Steps |-> NoWork]
    /\ turn' = NoRun

\* Run r goes to pc; status is that of the coordinator.
To(r, pc, status, next) ==
    /\ run' = [run EXCEPT ![r].pc = pc]
    /\ coord' = [coord EXCEPT !.status = status]
    /\ turn' = next

\* The except clause of run, for what planning, a step or an event handler has raised.
MustFail(r) ==
    \/ turn = r /\ run[r].pc = "broken"
    \/ run[r].pc = "seq" /\ turn = r /\ \E k \in StepsOf(r): step[k].pc = "raised"
    \/ run[r].pc = "par" /\ FreeTurn /\ \E k \in StepsOf(r): step[k].pc = "raised"

RunFails(r) ==
    /\ MustFail(r)
    /\ Event(End(r, "ended", "failed", "failed"),
             To(r, "failing", "failed", NoRun) /\ UNCHANGED active,
             End(r, "raised", "failed", "failed"))
    /\ UNCHANGED <<registry, step, cancel, cancels, history, hurt>>

\* all(result.success ...) is about the results that there are.
Outcome(r) ==
    IF coord.asked THEN "cancelled"
    ELSE IF \A k \in StepsOf(r): step[k].pc = "done" => step[k].ok THEN "completed" ELSE "failed"

\* run after its steps; what a handler raises here makes the run fail after all.
Finish(r) ==
    /\ Event(End(r, "ended", Outcome(r), Outcome(r)),
             /\ run' = [run EXCEPT ![r].pc = "closing", ![r].outcome = Outcome(r)]
             /\ coord' = [coord EXCEPT !.status = Outcome(r)]
             /\ turn' = NoRun /\ UNCHANGED active,
             To(r, "broken", Outcome(r), r) /\ UNCHANGED active)
    /\ UNCHANGED <<registry, step, cancel, cancels, history, hurt>>

\* The handlers of the last event return.
Closed(r) ==
    /\ FreeTurn /\ run[r].pc \in {"closing", "failing"}
    /\ End(r, "ended", IF run[r].pc = "failing" THEN "failed" ELSE run[r].outcome, coord.status)
    /\ UNCHANGED <<registry, step, cancel, cancels, disturbs, history, hurt>>

-----------------------------------------------------------------------------
\* A step

\* The finally clause of _run_step, whichever worker is recorded under the step id.
Popped(k, ok) == [active EXCEPT ![IdOf(k)] = NoWork]

\* The coroutine of a sequential run goes on, a gathered one is over.
Back(k) == IF run[RunOf(k)].pc = "seq" THEN RunOf(k) ELSE NoRun

Raises(k, table) ==
    /\ step' = [step EXCEPT ![k] = [@ EXCEPT !.pc = "raised", !.ok = FALSE]]
    /\ active' = table
    /\ turn' = Back(k)
    /\ hurt' = hurt \cup {RunOf(k)}
    /\ UNCHANGED run

Done(k, ok) ==
    /\ step' = [step EXCEPT ![k].pc = "done", ![k].ok = ok]
    /\ active' = Popped(k, ok)
    /\ run' = [run EXCEPT ![RunOf(k)].at = IF Back(k) # NoRun THEN @ + 1 ELSE @]
    /\ turn' = Back(k)
    /\ UNCHANGED hurt

\* _run_step with the result of its worker.
Reports(k, ok) ==
    Event(Done(k, ok),
          /\ step' = [step EXCEPT ![k].pc = "reporting", ![k].ok = ok]
          /\ turn' = NoRun /\ UNCHANGED <<active, run, hurt>>,
          Raises(k, Popped(k, ok)))

Reported(k) ==
    /\ FreeTurn /\ step[k].pc = "reporting"
    /\ Done(k, step[k].ok)
    /\ UNCHANGED <<coord, registry, cancel, cancels, disturbs, history>>

\* run_agent and the end of a sub-agent's run: whatever is registered under its id.
Registered(k) == [registry EXCEPT ![RunId(k)] = k]
Deregistered(k) == [registry EXCEPT ![RunId(k)] = NoWork]

\* worker.execute, up to where it is suspended.
WorkerExecutes(k, table) ==
    IF k[2] \in PlanOf(k).unknown
    THEN Raises(k, [table EXCEPT ![IdOf(k)] = NoWork]) /\ UNCHANGED registry
    ELSE /\ step' = [step EXCEPT ![k] = IF PlanOf(k).task
                       THEN [NoWorker EXCEPT !.pc = "launching", !.job = "created"]
                       ELSE [NoWorker EXCEPT !.pc = "executing", !.job = "running"]]
         /\ registry' = IF PlanOf(k).task THEN registry ELSE Registered(k)
         /\ active' = table /\ turn' = NoRun /\ UNCHANGED <<run, hurt>>

\* _run_step: what a handler of STEP_STARTED raises leaves the worker on the table.
BeginStep(k) ==
    LET table == [active EXCEPT ![IdOf(k)] = k] IN
    /\ Event(WorkerExecutes(k, table),
             /\ step' = [step EXCEPT ![k].pc = "starting"]
             /\ active' = table /\ turn' = NoRun /\ UNCHANGED <<registry, run, hurt>>,
             Raises(k, table) /\ UNCHANGED registry)
    /\ UNCHANGED <<coord, cancel, cancels, history>>

StepStarted(k) ==
    /\ FreeTurn /\ step[k].pc = "starting"
    /\ WorkerExecutes(k, active)
    /\ UNCHANGED <<coord, cancel, cancels, disturbs, history>>

\* The task manager has started the task; its runner begins when its turn comes.
Launched(k) ==
    /\ FreeTurn /\ step[k].pc = "launching"
    /\ step' = [step EXCEPT ![k].pc = "waiting"]
    /\ UNCHANGED <<coord, active, registry, run, cancel, turn, cancels, disturbs, history, hurt>>

JobBegins(k) ==
    /\ FreeTurn /\ step[k].job = "created"
    /\ \/ /\ step[k].signal = "cancelled"
          /\ step' = [step EXCEPT ![k].job = "cancelled"] /\ UNCHANGED registry
       \/ /\ step[k].signal # "cancelled"
          /\ step' = [step EXCEPT ![k].job = "running"] /\ registry' = Registered(k)
    /\ UNCHANGED <<coord, active, run, cancel, turn, cancels, disturbs, history, hurt>>

\* How the run of a sub-agent can end: a cancelled task is cancelled, an aborted run fails.
Results(k) ==
    CASE step[k].signal = "cancelled" -> {"cancelled"}
      [] step[k].signal = "aborted" -> {"failed"}
      [] OTHER -> {"succeeded", "failed"}

\* _execute_direct returns with its sub-agent.
JobEnds(k) ==
    /\ FreeTurn /\ step[k].pc = "executing"
    /\ \E result \in Results(k): Reports(k, result = "succeeded")
    /\ registry' = Deregistered(k)
    /\ UNCHANGED <<coord, cancel, cancels, history>>

TaskEnds(k) ==
    /\ FreeTurn /\ PlanOf(k).task /\ step[k].job = "running"
    /\ \E result \in Results(k): step' = [step EXCEPT ![k].job = result]
    /\ registry' = Deregistered(k)
    /\ UNCHANGED <<coord, active, run, cancel, turn, cancels, disturbs, history, hurt>>

\* The wait for the task times out, which cancels the task.
WorkerTimesOut(k) ==
    /\ FreeTurn /\ step[k].pc = "waiting" /\ step[k].job = "running" /\ step[k].signal = "none"
    /\ step' = [step EXCEPT ![k].signal = "cancelled"]
    /\ UNCHANGED <<coord, active, registry, run, cancel, turn, cancels, disturbs, history, hurt>>

\* _execute_with_task_manager has the record of the task.
TaskReturns(k) ==
    /\ FreeTurn /\ step[k].pc = "waiting" /\ step[k].job \in {"succeeded", "failed", "cancelled"}
    /\ Reports(k, step[k].job = "succeeded")
    /\ UNCHANGED <<coord, registry, cancel, cancels, history>>

-----------------------------------------------------------------------------
\* A run

\* A plausible bug: a coordinator that makes its plan counts as free.
MayRunUnlessRunning == coord.status # "running"
MayRun == coord.status \notin {"planning", "running"}

\* run up to create_plan. The STARTED event is outside of the try statement.
Run(r) ==
    /\ FreeTurn /\ run[r].pc = "none" /\ \A q \in 1..(r - 1): run[q].pc # "none"
    /\ MayRun
    /\ coord' = [status |-> "planning", asked |-> FALSE]
    /\ overlapped' = (overlapped \/ \E q \in Runs: InFlight(q))
    /\ \E next \in {r, NoRun}:    \* with a plan or steps from the caller, or the planner's LLM
          Event(/\ run' = [run EXCEPT ![r].pc = "planning"]
                /\ turn' = next,
                run' = [run EXCEPT ![r].pc = "starting"] /\ turn' = NoRun,
                run' = [run EXCEPT ![r].pc = "wedged"] /\ turn' = NoRun)
    /\ UNCHANGED <<active, registry, step, cancel, cancels, asked, caught, hurt>>

Started(r) ==
    /\ FreeTurn /\ run[r].pc = "starting"
    /\ run' = [run EXCEPT ![r].pc = "planning"]
    /\ UNCHANGED <<coord, active, registry, step, cancel, turn, cancels, disturbs, history, hurt>>

\* To gather no steps is to go on at once, as the loop over none does.
Parallel(plan) == plan.parallel /\ ~plan.depends /\ plan.n > 0

\* The steps begin: gathered, or one after the other.
Begin(r, plan) ==
    /\ run' = [run EXCEPT ![r].pc = IF Parallel(plan) THEN "par" ELSE "seq", ![r].plan = plan]
    /\ coord' = [coord EXCEPT !.status = "running"]
    /\ step' = [k \in Work |-> IF RunOf(k) = r /\ k[2] <= plan.n /\ Parallel(plan)
                                THEN [NoWorker EXCEPT !.pc = "queued"] ELSE step[k]]
    /\ turn' = IF Parallel(plan) THEN NoRun ELSE r
    /\ UNCHANGED active

PlanReady(r, plan) ==
    /\ run[r].pc = "planning" /\ turn \in {r, NoRun}
    /\ Event(Begin(r, plan),
             /\ run' = [run EXCEPT ![r].pc = "announcing", ![r].plan = plan]
             /\ turn' = NoRun /\ UNCHANGED <<coord, active, step>>,
             run' = [run EXCEPT ![r].pc = "broken"] /\ turn' = r /\ UNCHANGED <<coord, active, step>>)
    /\ UNCHANGED <<registry, cancel, cancels, history, hurt>>

\* create_plan raises: steps that are malformed, or a planner that fails without a fallback.
PlanFails(r) ==
    /\ run[r].pc = "planning" /\ turn \in {r, NoRun}
    /\ run' = [run EXCEPT ![r].pc = "broken"] /\ turn' = r
    /\ UNCHANGED <<coord, active, registry, step, cancel, cancels, disturbs, history, hurt>>

Announced(r) ==
    /\ FreeTurn /\ run[r].pc = "announcing"
    /\ Begin(r, run[r].plan)
    /\ UNCHANGED <<registry, cancel, cancels, disturbs, history, hurt>>

\* A plausible bug: the loop goes one step too far.
SeqOverLate(r) == run[r].at > run[r].plan.n + 1
\* _run_plan_sequential leaves its loop: the steps are through, the run is to be
\* cancelled, or one has failed and fail_fast is set.
SeqOver(r) ==
    \/ run[r].at > run[r].plan.n
    \/ coord.asked
    \/ run[r].plan.failFast /\ \E k \in StepsOf(r): step[k].pc = "done" /\ ~step[k].ok

SeqStep(r) ==
    /\ run[r].pc = "seq" /\ turn = r /\ ~MustFail(r) /\ ~SeqOver(r)
    /\ BeginStep(<<r, run[r].at>>)

SeqReturns(r) ==
    /\ run[r].pc = "seq" /\ turn = r /\ ~MustFail(r) /\ SeqOver(r)
    /\ Finish(r)

\* A plausible bug: a permit is never given back.
PermitOnce(r) == Cardinality({k \in StepsOf(r): step[k].pc # "queued"}) < Concurrency
\* The semaphore of _run_plan_parallel, released when _run_step returns or raises.
Permit(r) == Cardinality({k \in StepsOf(r): step[k].pc \in Holding}) < Concurrency

\* It is first come, first served; nobody looks at _cancel_requested here, nor at whether
\* the run is over.
ParStep(k) ==
    /\ FreeTurn /\ step[k].pc = "queued" /\ Permit(RunOf(k))
    /\ \A j \in StepsOf(RunOf(k)): j[2] < k[2] => step[j].pc # "queued"
    /\ BeginStep(k)

ParReturns(r) ==
    /\ run[r].pc = "par" /\ FreeTurn /\ \A k \in StepsOf(r): step[k].pc = "done"
    /\ Finish(r)

-----------------------------------------------------------------------------
\* cancel_current

\* What cancel_current of some workers does at once: abort_run of what is registered under
\* the id of their run, which is nothing when the task has not begun, and the run of another
\* worker when step ids are not unique.
Aborted(workers) ==
    LET reached == {registry[RunId(j)]: j \in {i \in workers: AtWork(i)}} IN
    [k \in Work |-> IF k \in reached /\ step[k].signal = "none"
                     THEN [step[k] EXCEPT !.signal = "aborted"] ELSE step[k]]

\* The workers left are asked one by one. To cancel a task is to wait for its end, and to
\* abort the run then (waited); the others are aborted at once. The order is that in which
\* they were recorded: any.
Ask(waited, left, c) ==
    LET tasks == {k \in left: step[k].pc = "waiting"} IN
    IF tasks = {}
    THEN step' = Aborted(waited \cup left) /\ coord' = [c EXCEPT !.status = "cancelled"] /\ cancel' = NotCancelling
    ELSE \E k \in tasks, before \in SUBSET (left \ tasks):
            /\ step' = [Aborted(waited \cup before) EXCEPT ![k].signal = "cancelled"]
            /\ cancel' = [on |-> TRUE, awaits |-> k, left |-> left \ (before \cup {k})]
            /\ coord' = c

Cancel ==
    LET table == {active[s]: s \in Steps} \ {NoWork} IN
    /\ FreeTurn /\ ~cancel.on /\ cancels < MaxCancels
    /\ cancels' = cancels + 1
    /\ Ask({}, table, [coord EXCEPT !.asked = TRUE])
    /\ asked' = asked \cup {r \in Runs: run[r].pc \in {"starting", "planning", "announcing", "seq", "par"}}
    /\ caught' = {k \in Work: AtWork(k) /\ step[k].job = "running"}
    /\ UNCHANGED <<active, registry, run, turn, disturbs, hurt, overlapped>>

\* The task that was cancelled has ended.
CancelGoesOn ==
    /\ FreeTurn /\ cancel.on /\ step[cancel.awaits].job \notin {"created", "running"}
    /\ Ask({cancel.awaits}, cancel.left, coord)
    /\ UNCHANGED <<active, registry, run, turn, cancels, disturbs, asked, caught, hurt, overlapped>>

-----------------------------------------------------------------------------
StepGoesOn(k) ==
    \/ StepStarted(k) \/ Launched(k) \/ JobBegins(k) \/ TaskReturns(k) \/ Reported(k)
    \/ ParStep(k)
JobOver(k) == JobEnds(k) \/ TaskEnds(k)
RunGoesOn(r) ==
    \/ Started(r) \/ PlanFails(r) \/ Announced(r) \/ SeqStep(r) \/ SeqReturns(r) \/ ParReturns(r)
    \/ RunFails(r) \/ Closed(r)
    \/ \E plan \in Plans[r] \cup {FallbackPlan}: PlanReady(r, plan)

GoesOn == CancelGoesOn \/ (\E k \in Work: StepGoesOn(k) \/ JobOver(k)) \/ (\E r \in Runs: RunGoesOn(r))

CoordNext ==
    \/ GoesOn
    \/ \E k \in Work: WorkerTimesOut(k)
    \/ \E r \in Runs: Run(r)
    \/ Cancel

\* The event loop goes on as long as a coroutine can: sub-agents, the planner's LLM and
\* event handlers return.
CoordFairness == WF_coordVars(GoesOn)

-----------------------------------------------------------------------------
\* Properties

\* Types; and only steps that are in the plan of their run have a worker.
CoordTypeOK ==
    /\ coord \in [status: RunStatus, asked: BOOLEAN]
    /\ \A s \in Steps: active[s] # NoWork => active[s] \in Work /\ IdOf(active[s]) = s
    /\ \A r \in Runs:
          /\ run[r].pc \in {"none", "starting", "planning", "announcing", "seq", "par", "closing",
                            "broken", "failing", "ended", "raised", "wedged"}
          /\ run[r].outcome \in {"none", "completed", "failed", "cancelled"}
          /\ run[r].at \in 1..(NSteps + 1)
    /\ \A k \in Work:
          /\ step[k].pc \in {"none", "queued", "done", "raised"} \cup Holding
          /\ step[k].pc # "none" => k \in StepsOf(RunOf(k))
          /\ step[k].job \in JobStatus /\ step[k].signal \in {"none", "aborted", "cancelled"}
    /\ turn \in Runs \cup {NoRun}

\* No step beside it has its step id.
Alone(k) == Parallel(PlanOf(k)) => \A j \in StepsOf(RunOf(k)): IdOf(j) = IdOf(k) => j = k

\* active_workers is what is at work, so that cancel_current finds it: unless two runs
\* overlap or one has raised, what is recorded is in _run_step, and what is in _run_step is
\* recorded under its step id, unless a step beside it has the same one.
WorkersTracked ==
    ~overlapped /\ hurt = {} =>
        /\ \A k \in Work: active[IdOf(k)] = k => step[k].pc \in Holding
        /\ \A k \in Work: step[k].pc \in Holding /\ Alone(k) => active[IdOf(k)] = k
        /\ \A r \in Runs: run[r].pc \in {"ended", "raised"} => \A k \in Work: RunOf(k) = r => ~AtWork(k)

\* Only a cancel_current lets a run in beside another that is not in its last event yet;
\* and only a handler of STARTED that raises leaves the coordinator busy with nothing, for
\* good.
BusyIsTrue ==
    /\ \A q, r \in Runs:
          InFlight(q) /\ InFlight(r) /\ {run[q].pc, run[r].pc} \cap {"closing", "failing"} = {}
          => q = r \/ cancels > 0
    /\ ~MayRun /\ ~overlapped => \E r \in Runs: InFlight(r) \/ run[r].pc = "wedged"

\* A run that is reported completed has done all steps of its plan with success, one that
\* was to be cancelled before it had its results is not reported completed (unless another
\* run has taken the request back), and sequential steps were never side by side.
OutcomeIsTrue ==
    \A r \in Runs:
        /\ run[r].pc = "ended" /\ run[r].outcome = "completed" =>
              /\ \A k \in StepsOf(r): step[k].pc = "done" /\ step[k].ok
              /\ r \in asked => overlapped
        /\ ~Parallel(run[r].plan) => \A j, k \in StepsOf(r): AtWork(j) /\ AtWork(k) => j = k

\* When cancel_current has returned, every worker that was at work when it was called has
\* been signalled or is through, unless runs overlap, one has raised, or a step beside it has the
\* same step id and took its place in active_workers.
CancelReachesAll ==
    ~cancel.on /\ ~overlapped /\ hurt = {} =>
        \A k \in caught: AtWork(k) /\ step[k].job = "running" /\ Alone(k) => step[k].signal # "none"

\* Every run returns or raises, its workers end even when it has left them behind, and
\* cancel_current returns: again and again nothing is in progress.
RunsEnd ==
    []<>(/\ \A r \in Runs: ~InFlight(r)
         /\ \A k \in Work: step[k].pc \notin Holding \cup {"queued"}
         /\ ~cancel.on)
=============================================================================
