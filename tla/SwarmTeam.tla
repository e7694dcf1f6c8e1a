------------------------------ MODULE SwarmTeam ------------------------------
(***************************************************************************)
(* A Swarm on its Team: teams/swarm.py drives the shared tasks of a plan   *)
(* through the mailboxes (teams/mailbox.py) of the members of the roster   *)
(* (teams/roster.py, teams/teammate.py) and books the results that come    *)
(* back (teams/team.py).                                                   *)
(*                                                                         *)
(* All coroutines share one event loop: an action is the code between two  *)
(* points where its coroutine is suspended. A sequential run goes from one *)
(* step to the next without being suspended; turn names the run that is    *)
(* in between.                                                             *)
(***************************************************************************)
EXTENDS Naturals, Sequences, FiniteSets

CONSTANTS
    MaxRuns,        \* bound on calls of Swarm.run
    NSteps,         \* steps of a plan
    Mates,          \* the members of the roster, all of one role
    Addressees,     \* those of them whose mail somebody else writes or reads
    Concurrency,    \* SwarmConfig.max_concurrency
    CancelRounds,   \* how often cancel_current looks for a teammate to abort
    Plans,          \* the plans that are tried: a set of Plan
    MaxMeddling,    \* bound on what clients and event handlers do besides calling run
    MaxOfAKind      \* bound on each kind of it: foreign, cancels, kicks, slow

\* A plan: strategy parallel, each step depends on the one before, request.fail_fast.
Plan == [parallel: BOOLEAN, depends: BOOLEAN, failFast: BOOLEAN]

ASSUME SwarmAssumption ==
    /\ Plans \subseteq Plan
    /\ Addressees \subseteq Mates /\ MaxRuns \in Nat /\ NSteps \in Nat \ {0} /\ CancelRounds \in Nat \ {0}
    /\ Concurrency \in Nat \ {0} /\ MaxMeddling \in Nat /\ MaxOfAKind \in Nat

Runs  == 1..MaxRuns
Steps == 1..NSteps
Tasks == Runs \X Steps          \* the TeamSharedTask of a step of a run
NoTask == <<0, 0>>
NoRun  == 0
NoMate == "nobody"

Terminal == {"succeeded", "failed", "cancelled"}
TaskStatus == {"none", "pending", "dispatched", "running"} \cup Terminal
RunStatus  == {"idle", "planning", "running", "completed", "failed", "cancelled"}
Foreign  == {"note", "stop", "request"}     \* mail that is not a shared task

VARIABLES
    swarm,      \* status, current run, _cancel_requested, active_task_ids
    run,        \* per run: where its coroutine is, its plan, its result
    step,       \* per task: where _dispatch_and_process_step is
    task,       \* shared_task_list: status
    mate,       \* per teammate: status and current_run_id, as the task of the run
    inbox,      \* per teammate: the unread messages, oldest first
    cancel,     \* how many rounds a cancel_current in progress has left
    turn,       \* the sequential run that is between two steps
    foreign, cancels, kicks,    \* what clients have done so far
    slow,       \* how often a handler of swarm events has suspended a run
    ran,        \* history: how the message of a task was executed
    asked,      \* history: runs that were in flight at a cancel_current
    overlapped  \* history: a run was started while another was in flight

swarmVars == <<swarm, run, step, task, mate, inbox, cancel, turn,
          foreign, cancels, kicks, slow, ran, asked, overlapped>>
clients == <<foreign, cancels, kicks>>

NoPlan == [parallel |-> FALSE, depends |-> FALSE, failFast |-> FALSE]

Idle == [pc |-> "none", mate |-> NoMate, mail |-> NoTask, ok |-> FALSE, result |-> "none"]
TaskMail(k) == [kind |-> "task", task |-> k]
OtherMail(kind) == [kind |-> kind, task |-> NoTask]

SwarmInit ==
    /\ swarm = [status |-> "idle", current |-> NoRun, asked |-> FALSE, active |-> {}]
    /\ run = [r \in Runs |-> [pc |-> "none", at |-> 1, plan |-> NoPlan, outcome |-> "none"]]
    /\ step = [k \in Tasks |-> Idle]
    /\ task = [k \in Tasks |-> "none"]
    /\ mate = [t \in Mates |-> [status |-> "idle", current |-> NoTask]]
    /\ inbox = [t \in Mates |-> <<>>]
    /\ cancel = 0 /\ turn = NoRun
    /\ foreign = 0 /\ cancels = 0 /\ kicks = 0 /\ slow = 0
    /\ ran = [k \in Tasks |-> "no"] /\ asked = {} /\ overlapped = FALSE

Meddling(ofAKind) == ofAKind < MaxOfAKind /\ foreign + cancels + kicks + slow < MaxMeddling
\* A handler of swarm events suspends the coroutine that sends the event.
HandlerSuspends == Meddling(slow) /\ slow' = slow + 1 /\ turn' = NoRun
InFlight(r) == run[r].pc \notin {"none", "ended"}
RunOf(k) == k[1]
Available == {t \in Mates: mate[t].status \notin {"running", "stopped"}}
\* A coroutine other than that of the current turn may go on.
FreeTurn == turn = NoRun
\* Run r sends an event and goes on, or is suspended.
AfterEvent(r) == (turn' = r /\ UNCHANGED slow) \/ HandlerSuspends

-----------------------------------------------------------------------------
\* The end of a step and of a run

\* _dispatch_and_process_step returns its execution, sending TASK_COMPLETED or
\* TASK_FAILED unless it was cancelled before it began.
Done(k, success) ==
    /\ step' = [step EXCEPT ![k] = [Idle EXCEPT !.pc = "done", !.ok = success]]
    /\ swarm' = [swarm EXCEPT !.active = @ \ {k}]
    /\ IF run[RunOf(k)].pc = "seq"
       THEN run' = [run EXCEPT ![RunOf(k)].at = @ + 1] /\ turn' = RunOf(k)
       ELSE turn' = NoRun /\ UNCHANGED run

\* The same, suspended by a handler of that event.
Reporting(k, success) ==
    /\ HandlerSuspends
    /\ step' = [step EXCEPT ![k] = [Idle EXCEPT !.pc = "reporting", !.ok = success]]
    /\ swarm' = [swarm EXCEPT !.active = @ \cup {k}]
    /\ UNCHANGED run

Report(k, success) == (Done(k, success) /\ UNCHANGED slow) \/ Reporting(k, success)

Reported(k) ==
    /\ FreeTurn /\ step[k].pc = "reporting"
    /\ Done(k, step[k].ok)
    /\ UNCHANGED <<slow, task, mate, inbox, cancel, clients, ran, asked, overlapped>>

\* apply_result_message, for the task that a reply answers.
BookedAnyway(k, result) == result      \* a plausible bug: the cancel is not looked at
Booked(k, result) == IF task[k] = "cancelled" THEN "cancelled" ELSE result

\* A plausible bug: a reply is a success whatever it says.
SettleOnReply(k, mail, ok, result) ==
    LET applied == IF mail \in Tasks THEN [task EXCEPT ![mail] = Booked(mail, "succeeded")] ELSE task
    IN  /\ task' = [applied EXCEPT ![k] = IF @ \in Terminal THEN @ ELSE "failed"]
        /\ Report(k, task'[k] = "succeeded")

\* What is left of a step once its results are collected: the reply to the mail
\* that was handled is applied to the task of that mail, then the step's own task
\* gets what the teammate returned, if nothing decided it yet.
Settle(k, mail, ok, result) ==
    LET applied == IF mail \in Tasks THEN [task EXCEPT ![mail] = Booked(mail, result)] ELSE task
        settled == IF applied[k] \in Terminal THEN applied[k]
                   ELSE IF result # "none" THEN result
                   ELSE IF ~ok THEN "failed" ELSE applied[k]
    IN  /\ task' = [applied EXCEPT ![k] = settled]
        /\ Report(k, settled = "succeeded")

\* The finally clause of run.
Ended(status) ==
    [status  |-> IF status \in {"completed", "failed", "cancelled"} THEN "idle" ELSE status,
     current |-> NoRun, asked |-> FALSE, active |-> {}]

Outcome(r) ==
    IF swarm.asked THEN "cancelled"
    ELSE IF \A s \in Steps: step[<<r, s>>].ok THEN "completed" ELSE "failed"

\* The locals of run are gone when it ends; its result stays.
Leave(r, outcome) ==
    /\ run' = [run EXCEPT ![r] = [pc |-> "ended", at |-> 1, outcome |-> outcome,
                                  plan |-> [NoPlan EXCEPT !.failFast = run[r].plan.failFast]]]
    /\ step' = [k \in Tasks |-> IF RunOf(k) = r THEN Idle ELSE step[k]]

\* A plausible bug: the loop over the steps has no way out when the run is cancelled.
FinishAllSteps(r) ==
    /\ \/ run[r].pc = "seq" /\ turn = r /\ run[r].at > NSteps
       \/ run[r].pc = "gather" /\ FreeTurn /\ \A s \in Steps: step[<<r, s>>].pc = "done"
    /\ Leave(r, Outcome(r)) /\ swarm' = Ended(Outcome(r)) /\ turn' = NoRun
    /\ UNCHANGED <<task, mate, inbox, cancel, clients, slow, ran, asked, overlapped>>

\* run, after the last step; a handler of the last event may suspend it.
Finish(r) ==
    /\ \/ run[r].pc = "seq" /\ turn = r
          /\ \/ swarm.asked
             \/ run[r].at > NSteps
             \/ run[r].plan.failFast /\ \E s \in Steps: s < run[r].at /\ ~step[<<r, s>>].ok
       \/ run[r].pc = "gather" /\ FreeTurn /\ \A s \in Steps: step[<<r, s>>].pc = "done"
    /\ \/ Leave(r, Outcome(r)) /\ swarm' = Ended(Outcome(r)) /\ turn' = NoRun /\ UNCHANGED slow
       \/ /\ HandlerSuspends /\ UNCHANGED step
          /\ run' = [run EXCEPT ![r].pc = "telling", ![r].outcome = Outcome(r)]
          /\ swarm' = [swarm EXCEPT !.status = Outcome(r)]
    /\ UNCHANGED <<task, mate, inbox, cancel, clients, ran, asked, overlapped>>

Told(r) ==
    /\ FreeTurn /\ run[r].pc = "telling"
    /\ Leave(r, run[r].outcome)
    /\ swarm' = Ended(swarm.status)
    /\ UNCHANGED <<task, mate, inbox, cancel, turn, clients, slow, ran, asked, overlapped>>

-----------------------------------------------------------------------------
\* A run up to its steps

\* run: the guard and the STARTED event. The plan is given, or asked of an LLM.
Start(r) ==
    /\ FreeTurn /\ run[r].pc = "none" /\ \A q \in 1..(r - 1): run[q].pc # "none"
    /\ swarm.status \notin {"planning", "running"}
    /\ run' = [run EXCEPT ![r].pc = "planning"]
    /\ swarm' = [swarm EXCEPT !.status = "planning", !.current = r, !.asked = FALSE]
    /\ turn' \in {NoRun, r}
    /\ overlapped' = (overlapped \/ \E q \in Runs: InFlight(q))
    /\ UNCHANGED <<step, task, mate, inbox, cancel, clients, slow, ran, asked>>

\* What the LLM plans, the caller gives, or create_fallback_plan makes up.
CreatePlan(r) == \E plan \in Plans: run' = [run EXCEPT ![r].pc = "created", ![r].plan = plan]

\* The plan is there: materialize_plan_tasks and the TASK_CREATED events.
Materialize(r) ==
    /\ turn \in {NoRun, r} /\ run[r].pc = "planning"
    /\ CreatePlan(r)
    /\ task' = [k \in Tasks |-> IF RunOf(k) = r THEN "pending" ELSE task[k]]
    /\ AfterEvent(r)
    /\ UNCHANGED <<swarm, step, mate, inbox, cancel, clients, ran, asked, overlapped>>

\* No plan can be made: the except clause of run.
PlanFails(r) ==
    /\ turn \in {NoRun, r} /\ run[r].pc = "planning"
    /\ Leave(r, "failed")
    /\ swarm' = Ended("failed") /\ turn' = NoRun
    /\ UNCHANGED <<task, mate, inbox, cancel, clients, slow, ran, asked, overlapped>>

\* _run_parallel hands its steps to the event loop, _run_sequential goes on itself.
Launch(r) ==
    /\ turn \in {NoRun, r} /\ run[r].pc = "created"
    /\ swarm' = [swarm EXCEPT !.status = "running"]
    /\ IF run[r].plan.parallel /\ ~run[r].plan.depends
       THEN /\ run' = [run EXCEPT ![r].pc = "gather"] /\ turn' = NoRun
            /\ step' = [k \in Tasks |-> IF RunOf(k) = r THEN [Idle EXCEPT !.pc = "queued"]
                                        ELSE step[k]]
       ELSE run' = [run EXCEPT ![r].pc = "seq"] /\ turn' = r /\ UNCHANGED step
    /\ UNCHANGED <<task, mate, inbox, cancel, clients, slow, ran, asked, overlapped>>

-----------------------------------------------------------------------------
\* A step: _dispatch_and_process_step

\* The step is suspended; its run waits for it.
Suspend(k, pc, t, mail, ok, result) ==
    /\ step' = [step EXCEPT ![k] = [pc |-> pc, mate |-> t, mail |-> mail, ok |-> ok,
                                    result |-> result]]
    /\ turn' = NoRun
    /\ UNCHANGED <<run, slow>>

\* collect_result_messages finds nothing and waits for its timeout.
Collect(k, t, ok, result) == Suspend(k, "collecting", t, NoTask, ok, result)

\* A note is only reported, a control message stops the teammate.
TakeNote(k, t, status) ==
    /\ mate' = [mate EXCEPT ![t].status = status]
    /\ Collect(k, t, TRUE, "none")

TakeStop(k, t) ==
    /\ mate' = [mate EXCEPT ![t].status = "stopped"]
    /\ Collect(k, t, TRUE, "none")

\* execute_task refuses a teammate that is busy or stopped.
Refuse(k, t) == UNCHANGED mate /\ Collect(k, t, FALSE, "none")

\* execute_task of the shared task or the request that was handled, up to its run_agent.
Execute(k, t, mail) ==
    /\ mate' = [mate EXCEPT ![t] = [status |-> "running", current |-> k]]
    /\ Suspend(k, "executing", t, mail, FALSE, "none")

\* handle_message, for the oldest unread message of teammate t.
Handle(k, t, box, status) ==
    /\ inbox' = [inbox EXCEPT ![t] = Tail(box)]
    /\ \/ Head(box).kind = "note" /\ TakeNote(k, t, status)
       \/ Head(box).kind = "stop" /\ TakeStop(k, t)
       \/ /\ Head(box).kind \in {"task", "request"}
          /\ IF status \in {"running", "stopped"} THEN Refuse(k, t)
             ELSE Execute(k, t, Head(box).task)

\* process_next_message of teammate t: what is unread is handled at once.
Process(k, t, box) ==
    \/ /\ mate[t].status = "stopped"
       /\ inbox' = [inbox EXCEPT ![t] = box]
       /\ Collect(k, t, FALSE, "none") /\ UNCHANGED mate
    \/ /\ mate[t].status # "stopped" /\ box # <<>>
       /\ Handle(k, t, box, "waiting")
    \/ /\ mate[t].status # "stopped" /\ box = <<>>
       /\ mate' = [mate EXCEPT ![t].status = "waiting"]
       /\ Suspend(k, "waiting", t, NoTask, FALSE, "none") /\ UNCHANGED inbox

\* From the entry of the step to the first place where it is suspended.
Dispatch(k) ==
    \/ /\ swarm.asked
       /\ task' = [task EXCEPT ![k] = "cancelled"]
       /\ Done(k, FALSE)
       /\ UNCHANGED <<mate, inbox, slow>>
    \/ /\ ~swarm.asked /\ Available = {}
       /\ task' = [task EXCEPT ![k] = IF @ = "cancelled" THEN @ ELSE "failed"]
       /\ Report(k, FALSE)
       /\ UNCHANGED <<mate, inbox>>
    \/ /\ ~swarm.asked
       /\ \E t \in Available:
             \/ /\ task' = [task EXCEPT ![k] = "running"]
                /\ Process(k, t, Append(inbox[t], TaskMail(k)))
             \/ /\ HandlerSuspends
                /\ task' = [task EXCEPT ![k] = "dispatched"]
                /\ inbox' = [inbox EXCEPT ![t] = Append(@, TaskMail(k))]
                /\ step' = [step EXCEPT ![k] = [Idle EXCEPT !.pc = "dispatched", !.mate = t]]
                /\ UNCHANGED <<mate, run>>
       /\ swarm' = [swarm EXCEPT !.active = @ \cup {k}]

\* _run_parallel: the semaphore admits the steps in their order.
Enter(k) ==
    /\ FreeTurn /\ step[k].pc = "queued"
    /\ \A s \in 1..(k[2] - 1): step[<<k[1], s>>].pc # "queued"
    /\ Cardinality({s \in Steps: step[<<k[1], s>>].pc \notin {"none", "queued", "done"}}) < Concurrency
    /\ Dispatch(k)
    /\ UNCHANGED <<cancel, clients, ran, asked, overlapped>>

\* _run_sequential: the next step, unless the run is over or its dependency failed.
NextStep(r) ==
    LET k == <<r, run[r].at>> IN
    /\ turn = r /\ run[r].pc = "seq" /\ run[r].at <= NSteps /\ ~swarm.asked
    /\ run[r].plan.failFast => \A s \in 1..(run[r].at - 1): step[<<r, s>>].ok
    /\ IF run[r].plan.depends /\ run[r].at > 1 /\ ~step[<<r, run[r].at - 1>>].ok
       THEN /\ task' = [task EXCEPT ![k] = "cancelled"]
            /\ Done(k, FALSE) /\ UNCHANGED <<mate, inbox, slow>>
       ELSE Dispatch(k)
    /\ UNCHANGED <<cancel, clients, ran, asked, overlapped>>

\* The handler of TASK_DISPATCHED returns: mark_task_running, and on to the mail.
Dispatched(k) ==
    /\ FreeTurn /\ step[k].pc = "dispatched"
    /\ IF swarm.asked
       THEN /\ task' = [task EXCEPT ![k] = "cancelled"]
            /\ Done(k, FALSE) /\ UNCHANGED <<mate, inbox, slow>>
       ELSE /\ task' = [task EXCEPT ![k] = "running"]
            /\ Process(k, step[k].mate, inbox[step[k].mate])
            /\ UNCHANGED swarm
    /\ UNCHANGED <<cancel, clients, ran, asked, overlapped>>

\* wait_for_message ends, by a message or by its timeout.
WaitEnds(k) ==
    LET t == step[k].mate IN
    /\ FreeTurn /\ step[k].pc = "waiting"
    /\ IF inbox[t] # <<>>
       THEN Handle(k, t, inbox[t], mate[t].status)
       ELSE /\ mate' = [mate EXCEPT ![t].status = IF @ = "stopped" THEN @ ELSE "idle"]
            /\ Collect(k, t, TRUE, "none") /\ UNCHANGED inbox
    /\ UNCHANGED <<swarm, task, cancel, clients, ran, asked, overlapped>>

\* run_agent returns to execute_task. The reply to a shared task is in the mailbox of
\* the team when the step collects; the reply to a request went to somebody else.
ExecReturns(k, ok) ==
    LET t == step[k].mate
        result == IF ok THEN "succeeded" ELSE "failed"
    IN  /\ FreeTurn /\ step[k].pc = "executing"
        /\ mate' = [mate EXCEPT ![t] = [status |-> IF @.status = "stopped" THEN "stopped" ELSE "idle",
                                        current |-> NoTask]]
        /\ IF step[k].mail = NoTask
           THEN Collect(k, t, ok, result) /\ UNCHANGED <<swarm, task, ran>>
           ELSE /\ Settle(k, step[k].mail, ok, result)
                /\ ran' = [ran EXCEPT ![step[k].mail] = result]
        /\ UNCHANGED <<inbox, cancel, clients, asked, overlapped>>

CollectTimesOut(k) ==
    /\ FreeTurn /\ step[k].pc = "collecting"
    /\ Settle(k, NoTask, step[k].ok, step[k].result)
    /\ UNCHANGED <<mate, inbox, cancel, clients, ran, asked, overlapped>>

-----------------------------------------------------------------------------
\* Clients

\* One look for teammates to abort; the last one gives up and sets the status.
\* What an aborted run_agent returns is up to it: see ExecReturns.
CancelLook(left) ==
    IF \E t \in Mates: mate[t].current # NoTask
    THEN cancel' = 0 /\ swarm' = [swarm EXCEPT !.asked = TRUE, !.status = "cancelled"]
    ELSE cancel' = left /\ swarm' = [swarm EXCEPT !.asked = TRUE]

\* cancel_current, up to the end or its first sleep.
CancelCurrent ==
    LET named == swarm.active \cup {k \in Tasks: RunOf(k) = swarm.current} IN
    /\ FreeTurn /\ Meddling(cancels) /\ cancel = 0
    /\ cancels' = cancels + 1
    /\ task' = [k \in Tasks |-> IF k \in named /\ task[k] \notin Terminal \cup {"none"}
                                THEN "cancelled" ELSE task[k]]
    /\ CancelLook(CancelRounds)
    /\ asked' = asked \cup {r \in Runs: r = swarm.current /\ run[r].pc # "telling"}
    /\ UNCHANGED <<run, step, mate, inbox, turn, foreign, kicks, slow, ran, overlapped>>

\* Its further rounds, and its end.
CancelAgain ==
    /\ FreeTurn /\ cancel > 0
    /\ IF \/ cancel = 1
          \/ \E t \in Mates: mate[t].current # NoTask
       THEN cancel' = 0 /\ swarm' = [swarm EXCEPT !.status = "cancelled"]
       ELSE cancel' = cancel - 1 /\ UNCHANGED swarm
    /\ UNCHANGED <<run, step, task, mate, inbox, turn, clients, slow, ran, asked, overlapped>>

\* send_message: somebody writes to a teammate.
SendOther(t, kind) ==
    /\ FreeTurn /\ Meddling(foreign)
    /\ foreign' = foreign + 1
    /\ inbox' = [inbox EXCEPT ![t] = Append(@, OtherMail(kind))]
    /\ UNCHANGED <<swarm, run, step, task, mate, cancel, turn, cancels, kicks, slow, ran, asked, overlapped>>

\* send_message polls or reads in the name of a teammate: its mail is taken.
ReadOther(t) ==
    /\ FreeTurn /\ Meddling(foreign) /\ inbox[t] # <<>>
    /\ foreign' = foreign + 1
    /\ inbox' = [inbox EXCEPT ![t] = <<>>]
    /\ UNCHANGED <<swarm, run, step, task, mate, cancel, turn, cancels, kicks, slow, ran, asked, overlapped>>

\* stop_all_teammates.
StopAll ==
    /\ FreeTurn /\ Meddling(foreign)
    /\ foreign' = foreign + 1
    /\ mate' = [t \in Mates |-> [mate[t] EXCEPT !.status = "stopped"]]
    /\ UNCHANGED <<swarm, run, step, task, inbox, cancel, turn, cancels, kicks, slow, ran, asked, overlapped>>

\* The coroutine in run is cancelled: its finally clauses run, its except clauses do not.
CancelCaller(r) ==
    LET running == {t \in Mates: \E s \in Steps: step[<<r, s>>].pc = "executing"
                                                  /\ step[<<r, s>>].mate = t}
    IN  /\ FreeTurn /\ Meddling(kicks) /\ InFlight(r)
        /\ kicks' = kicks + 1
        /\ mate' = [t \in Mates |->
                      IF t \in running
                      THEN [status |-> IF mate[t].status = "stopped" THEN "stopped" ELSE "idle",
                            current |-> NoTask]
                      ELSE mate[t]]
        /\ Leave(r, "raised")
        /\ swarm' = Ended(swarm.status)
        /\ UNCHANGED <<task, inbox, cancel, turn, foreign, cancels, slow, ran, asked, overlapped>>

RunStep(r) == Materialize(r) \/ Launch(r) \/ NextStep(r) \/ Finish(r) \/ Told(r)
TaskStep(k) ==
    \/ Enter(k) \/ Dispatched(k) \/ WaitEnds(k) \/ CollectTimesOut(k) \/ Reported(k)
    \/ \E ok \in BOOLEAN: ExecReturns(k, ok)

SwarmNext ==
    \/ \E r \in Runs: Start(r) \/ PlanFails(r) \/ RunStep(r) \/ CancelCaller(r)
    \/ \E k \in Tasks: TaskStep(k)
    \/ \E t \in Addressees: ReadOther(t) \/ \E kind \in Foreign: SendOther(t, kind)
    \/ StopAll \/ CancelCurrent \/ CancelAgain

SwarmSpec == SwarmInit /\ [][SwarmNext]_swarmVars

\* The planner, the teammates and the handlers answer, timeouts run out.
SwarmFairness ==
    /\ \A r \in Runs: WF_swarmVars(RunStep(r))
    /\ \A k \in Tasks: WF_swarmVars(TaskStep(k))
    /\ WF_swarmVars(CancelAgain)
SwarmFairSpec == SwarmSpec /\ SwarmFairness

-----------------------------------------------------------------------------
\* Properties

SwarmTypeOK ==
    /\ swarm \in [status: RunStatus, current: Runs \cup {NoRun}, asked: BOOLEAN, active: SUBSET Tasks]
    /\ \A r \in Runs:
          /\ run[r].pc \in {"none", "planning", "created", "seq", "gather", "telling", "ended"}
          /\ run[r].at \in 1..(NSteps + 1)
          /\ run[r].outcome \in {"none", "completed", "failed", "cancelled", "raised"}
    /\ \A k \in Tasks:
          /\ step[k].pc \in {"none", "queued", "dispatched", "waiting", "executing", "collecting",
                             "reporting", "done"}
          /\ step[k].pc \in {"dispatched", "waiting", "executing", "collecting"} => step[k].mate \in Mates
          /\ step[k].pc \notin {"none", "done"} => InFlight(RunOf(k))
          /\ task[k] \in TaskStatus /\ ran[k] \in {"no", "succeeded", "failed"}
    /\ \A t \in Mates:
          /\ mate[t].status \in {"idle", "waiting", "running", "stopped"}
          /\ mate[t].current \in Tasks \cup {NoTask}
          /\ \A i \in DOMAIN inbox[t]: inbox[t][i].kind \in {"task"} \cup Foreign
    /\ cancel \in 0..CancelRounds /\ turn \in Runs \cup {NoRun}

\* A shared task is booked as succeeded only if its own message was executed, with
\* success, by a teammate - as long as nobody else writes to the teammates and no
\* handler of swarm events suspends. (With a note in an inbox the step handles the
\* note, and a later step is booked with the result of this one's message.)
BookedOnOwn ==
    foreign = 0 /\ slow = 0 => \A k \in Tasks: task[k] = "succeeded" => ran[k] = "succeeded"

\* A cancelled shared task is never dispatched, executed or decided again, although
\* late results arrive for it and steps fail around it - unless a second run was
\* started while the first was in flight, which makes the first forget the cancel.
CancelStays ==
    [][~overlapped => \A k \in Tasks: task[k] = "cancelled" => task'[k] = "cancelled"]_swarmVars

\* One at a time: a teammate executes one message, whatever runs overlap, for the
\* check of is_busy and the status WAITING set over RUNNING let no second one in; run
\* admits no second run before a first cancel_current, and a Swarm whose runs are over
\* can be started again unless a caller was cancelled.
OneAtATime ==
    /\ slow = 0 => \A t \in Mates:
          Cardinality({k \in Tasks: step[k].pc = "executing" /\ step[k].mate = t}) <= 1
    /\ cancels = 0 /\ slow = 0 => ~overlapped
    /\ kicks = 0 /\ swarm.status \in {"planning", "running"} => \E r \in Runs: InFlight(r)

\* What a run reports is true: one that cancel_current met in flight never reports that
\* it completed, and one that reports completed or failed leaves none of its tasks open,
\* unless fail_fast left it out or foreign mail took its turn. (A run cancelled while it
\* was planned leaves its tasks pending.)
OutcomeIsTrue ==
    /\ ~overlapped => \A r \in asked: run[r].outcome # "completed"
    /\ foreign = 0 /\ slow = 0 =>
          \A k \in Tasks:
              /\ run[RunOf(k)].outcome \in {"completed", "failed"}
              /\ ~run[RunOf(k)].plan.failFast
              => task[k] \in Terminal \cup {"none"}

\* The Swarm keeps its books, whoever cancels, stops or writes to its teammates.
SwarmIsTrue == SwarmTypeOK /\ BookedOnOwn /\ OneAtATime /\ OutcomeIsTrue

\* Every run ends, whatever is cancelled, stopped or written to its teammates.
RunsEnd == \A r \in Runs: []<>~InFlight(r)
=============================================================================
