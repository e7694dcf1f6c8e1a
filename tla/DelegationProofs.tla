-------------------------- MODULE DelegationProofs --------------------------
(***************************************************************************)
(* What a team, its deletion and the coordinator keep beside each other,   *)
(* for any number of tasks, runs and steps, any roster and any plans.      *)
(*                                                                         *)
(* TeamInv is about who executes what and which messages are on their way, *)
(* DeletionInv about how far team_delete has come, CoordInv about the      *)
(* workers of a run and the table of the active ones, and SignalInv about  *)
(* who is registered under which id and who has been told to stop.         *)
(***************************************************************************)
EXTENDS MCDelegation, FiniteSetTheorems, TLAPS

Statuses == {"idle", "waiting", "running", "stopped"}
ExecPcs == {"none", "queued", "running", "cancelled", "ended"}
MateType == [status: Statuses, asked: BOOLEAN, run: Tasks \cup {NoTask}]
ExecType == [pc: ExecPcs, by: MateSet \cup {NoMate}, backed: BOOLEAN, stored: BOOLEAN,
             signalled: BOOLEAN, unheard: BOOLEAN, ok: BOOLEAN]
SharedType == [status: SharedStatus, for: Addressees \cup {NoMate}]

Types ==
    /\ mate \in [MateSet -> MateType]
    /\ loop \in [MateSet -> {"off", "waiting", "executing"}]
    /\ inbox \in [MateSet -> Seq(Tasks \cup {Stop})]
    /\ exec \in [Tasks -> ExecType]
    /\ shared \in [Tasks -> SharedType]
    /\ replies \in SUBSET Tasks

Sent(k) == shared[k].status \notin {"none", "pending", "assigned"}

\* Whoever executes a task is in the middle of its loop, for this task.
Busy == \A m \in MateSet, k \in Tasks:
            InProgress(k) /\ exec[k].by = m => mate[m].run = k /\ loop[m] = "executing"

Shown == \A m \in MateSet: loop[m] = "executing" =>
            mate[m].status \in {"running", "stopped"} /\ mate[m].run \in Tasks

\* The message of a task that is still in an inbox is the only one, and new.
Mailed == \A m \in MateSet: \A i \in 1..Len(inbox[m]): inbox[m][i] \in Tasks =>
            Sent(inbox[m][i]) /\ exec[inbox[m][i]].pc = "none"

Once == \A m, n \in MateSet: \A i \in 1..Len(inbox[m]), j \in 1..Len(inbox[n]):
            inbox[m][i] = inbox[n][j] /\ inbox[m][i] \in Tasks => m = n /\ i = j

Begun == \A k \in Tasks: exec[k].pc # "none" => Sent(k)

Replied == \A k \in replies: exec[k].pc = "ended"

TeamInv == Types /\ Busy /\ Shown /\ Mailed /\ Once /\ Begun /\ Replied /\ ListIsTrue

\* What is not registered yet is a task of the task manager.
Backs == \A k \in Tasks: exec[k].pc = "queued" => exec[k].backed

Told(e) == e.signalled \/ (e.backed /\ e.unheard)

Quiet(m) == Stopped(m) /\ \A k \in Tasks: InProgress(k) /\ exec[k].by = m => Told(exec[k])

DeletionType == [pc: {"none", "cancelling", "stopping", "done"},
                 todo: SUBSET (DOMAIN Mates), waits: Tasks \cup {NoTask}]

\* The second pass leaves every member quiet that it has gone past.
DeletionIs ==
    /\ deletion \in DeletionType
    /\ deletion.waits # NoTask => deletion.pc \in {"cancelling", "stopping"}
    /\ deletion.pc = "stopping" =>
          \A m \in MateSet: Member(m) => Quiet(m) \/ \E i \in deletion.todo: Mates[i] = m
    /\ deletion.pc = "done" => \A m \in MateSet: Member(m) => Quiet(m)

RosterIs == roster \in [MateSet -> {"absent", "active", "disabled", "removed"}]

DeletionInv == RosterIs /\ Backs /\ DeletionIs

RunPcs == {"none", "starting", "planning", "announcing", "seq", "par", "closing",
           "broken", "failing", "ended", "raised", "wedged"}
StepPcs == {"none", "queued", "done", "raised"} \cup Holding
RunType == [pc: RunPcs, plan: Plan, at: 1..(NSteps + 1),
            outcome: {"none", "completed", "failed", "cancelled"}]
StepType == [pc: StepPcs, job: JobStatus, signal: {"none", "aborted", "cancelled"}, ok: BOOLEAN]

CTypes ==
    /\ coord \in [status: RunStatus, asked: BOOLEAN]
    /\ active \in [Steps -> Work \cup {NoWork}]
    /\ run \in [Runs -> RunType]
    /\ step \in [Work -> StepType]
    /\ cancel \in [on: BOOLEAN, awaits: Work \cup {NoWork}, left: SUBSET Work]
    /\ turn \in Runs \cup {NoRun}
    /\ cancels \in Nat /\ asked \in SUBSET Runs /\ caught \in SUBSET Work /\ hurt \in SUBSET Runs
    /\ overlapped \in BOOLEAN

\* Before its steps, and while its planner or a handler is at work, a run has no worker.
Unbegun == {"none", "starting", "planning", "announcing", "wedged"}
Decided == {"failing", "ended", "raised"}

\* A run that goes on without being suspended; a sequential run is at the step of its worker.
RunBook(r) ==
    /\ turn = r => run[r].pc \in {"planning", "seq", "broken"}
    /\ run[r].pc = "broken" => turn = r
    /\ run[r].pc \in Unbegun => run[r].at = 1
    /\ run[r].pc = "seq" => ~Parallel(run[r].plan) /\ run[r].at <= run[r].plan.n + 1
    /\ run[r].pc = "par" => Parallel(run[r].plan)
    /\ run[r].pc = "closing" => run[r].outcome # "none"

StepBook(k) ==
    LET r == RunOf(k)
        pc == step[k].pc
    IN  /\ pc # "none" => k[2] <= run[r].plan.n
        /\ pc = "raised" => r \in hurt
        /\ run[r].pc \in Unbegun => pc = "none"
        /\ run[r].pc = "seq" =>
              /\ k[2] < run[r].at => pc = "done"
              /\ k[2] > run[r].at => pc = "none"
              /\ k[2] = run[r].at => IF turn = r THEN pc \in {"none", "raised"} ELSE pc \in Holding
        /\ pc = "queued" \/ (pc \in Holding /\ run[r].pc # "seq") =>
              /\ Parallel(run[r].plan)
              /\ run[r].pc = "par" \/ (run[r].pc \in Decided /\ r \in hurt)
        /\ run[r].pc \in {"closing", "ended"} /\ run[r].outcome = "completed" =>
              (k[2] <= run[r].plan.n => pc = "done" /\ step[k].ok)

\* A cancel that comes before the results is kept till the run is over.
AskedBook ==
    \A r \in asked:
        /\ run[r].pc # "none"
        /\ ~overlapped => /\ InFlight(r) => coord.asked
                          /\ run[r].pc \in {"closing", "ended"} => run[r].outcome # "completed"

\* At work on its plan or its steps.
Core(r) == run[r].pc \in {"starting", "planning", "announcing", "seq", "par", "broken"}

BusyBook ==
    /\ ~overlapped => \A q, r \in Runs: InFlight(q) /\ InFlight(r) => q = r
    /\ cancels = 0 => /\ \A q, r \in Runs: Core(q) /\ Core(r) => q = r
                      /\ \A r \in Runs: Core(r) /\ run[r].pc # "broken" => ~MayRun
    /\ ~overlapped /\ ~MayRun => \E r \in Runs: Core(r) \/ run[r].pc = "wedged"

\* Whoever is recorded has begun and is recorded under its step id.
TableBook ==
    /\ \A s \in Steps: active[s] # NoWork => IdOf(active[s]) = s /\ step[active[s]].pc # "none"
    /\ ~overlapped /\ hurt = {} =>
          \A k \in Work: /\ active[IdOf(k)] = k => step[k].pc \in Holding
                         /\ step[k].pc \in Holding /\ Alone(k) => active[IdOf(k)] = k

\* Whoever was at work at the cancel has begun.
CancelBook ==
    /\ \A k \in caught: /\ step[k].pc \notin {"none", "queued", "starting"}
                        /\ step[k].job \notin {"none", "created"}
    /\ cancel.on => cancels # 0

CoordInv ==
    /\ CTypes /\ (\A r \in Runs: RunBook(r)) /\ (\A k \in Work: StepBook(k))
    /\ AskedBook /\ BusyBook /\ TableBook /\ CancelBook

\* The sub-agent of a worker is at work, and the worker waits for it.
Live(k) == AtWork(k) /\ step[k].job = "running"

\* A task begins and ends while its worker waits, a run without a task while it executes.
JobBook(k) ==
    /\ step[k].job = "created" => step[k].pc \in {"launching", "waiting"}
    /\ PlanOf(k).task /\ step[k].job = "running" => step[k].pc \in {"launching", "waiting"}
    /\ step[k].pc = "executing" => ~PlanOf(k).task
    /\ step[k].pc \in {"none", "queued", "starting"} => step[k].job \notin {"created", "running"}

\* A sub-agent at work is what is registered under the id of its run.
RegistryBook ==
    /\ registry \in [Work -> Work \cup {NoWork}]
    /\ \A k \in Work: Live(k) /\ Alone(k) => registry[RunId(k)] = k

\* Whoever was at work at the cancel has a signal, is through, or is still to be asked.
SignalBook ==
    /\ ~cancel.on => cancel.left = {}
    /\ ~overlapped /\ hurt = {} =>
          \A k \in caught: Live(k) /\ Alone(k) => step[k].signal # "none" \/ k \in cancel.left

SignalInv == (\A k \in Work: JobBook(k)) /\ RegistryBook /\ SignalBook

-----------------------------------------------------------------------------
LEMMA Constants == MaxTasks \in Nat /\ NoMate \notin MateSet /\ Stop \notin Tasks /\ NoTask \notin Tasks
  BY TeamAssumption DEF TeamAssumption, Tasks, Stop, NoTask

LEMMA TeamInvInit == TeamInit => TeamInv
<1> SUFFICES ASSUME TeamInit PROVE TeamInv
  OBVIOUS
<1>1. \A m \in MateSet: mate[m] = TeamMate("idle", FALSE, NoTask) /\ loop[m] = "off" /\ inbox[m] = <<>>
  BY DEF TeamInit
<1>2. \A k \in Tasks: /\ exec[k] = NotExecuted
                      /\ shared[k] = [status |-> "none", for |-> NoMate]
  BY DEF TeamInit
<1>3. Types
  <2>1. TeamMate("idle", FALSE, NoTask) \in MateType
    BY DEF TeamMate, MateType, Statuses
  <2>2. NotExecuted \in ExecType
    BY DEF NotExecuted, Execution, ExecType, ExecPcs
  <2>3. [status |-> "none", for |-> NoMate] \in SharedType
    BY DEF SharedType, SharedStatus
  <2>4. <<>> \in Seq(Tasks \cup {Stop})
    OBVIOUS
  <2>5. inbox \in [MateSet -> Seq(Tasks \cup {Stop})]
    BY <2>4 DEF TeamInit
  <2>6. mate \in [MateSet -> MateType]
    BY <2>1 DEF TeamInit
  <2>7. exec \in [Tasks -> ExecType] /\ shared \in [Tasks -> SharedType]
    BY <2>2, <2>3 DEF TeamInit
  <2> QED BY <2>5, <2>6, <2>7 DEF TeamInit, Types
<1>4. \A k \in Tasks: exec[k].pc = "none" /\ shared[k].status = "none"
  BY <1>2 DEF NotExecuted, Execution
<1>5. Busy /\ Begun /\ ListIsTrue
  BY <1>4 DEF Busy, Begun, ListIsTrue, InProgress
<1>6. Shown /\ Mailed /\ Once /\ Replied
  BY <1>1 DEF TeamInit, Shown, Mailed, Once, Replied
<1> QED BY <1>3, <1>5, <1>6 DEF TeamInv

\* What leaves the work, the list and the results alone.
LEMMA RosterKeeps == ASSUME TeamInv, UNCHANGED <<workVars, shared, replies>> PROVE TeamInv'
  BY DEF TeamInv, workVars, Types, Busy, Shown, Mailed, Once, Begun, Replied, ListIsTrue, Sent, InProgress

\* The list may forget or cancel what was sent; it never makes it unsent, and learns
\* of no success and no failure.
LEMMA ListKeeps ==
    ASSUME TeamInv, UNCHANGED workVars, shared' \in [Tasks -> SharedType], replies' \in SUBSET replies,
           \A k \in Tasks: Sent(k) => Sent(k)',
           \A k \in Tasks: shared'[k].status = "succeeded" => exec[k].pc = "ended" /\ exec[k].ok,
           \A k \in Tasks: shared'[k].status = "failed" => exec[k].pc = "ended" /\ ~exec[k].ok
    PROVE  TeamInv'
<1>1. Types' /\ Busy' /\ Shown' /\ Once' /\ Replied' /\ ListIsTrue'
  BY DEF TeamInv, workVars, Types, Busy, Shown, Once, Replied, ListIsTrue, InProgress
<1>2. Begun'
  BY DEF TeamInv, workVars, Begun
<1>3. Mailed'
  BY DEF TeamInv, workVars, Mailed
<1> QED BY <1>1, <1>2, <1>3 DEF TeamInv

\* Executions go on or end, whatever happens to the teammates besides.
LEMMA WorkKeeps ==
    ASSUME TeamInv, UNCHANGED <<loop, inbox, shared, replies>>,
           mate' \in [MateSet -> MateType], exec' \in [Tasks -> ExecType],
           \A m \in MateSet: mate'[m].run = mate[m].run,
           \A m \in MateSet: mate'[m].status \in {mate[m].status, "stopped"},
           \A k \in Tasks: exec'[k].by = exec[k].by,
           \A k \in Tasks: InProgress(k)' => InProgress(k),
           \A k \in Tasks: exec'[k].pc = "none" <=> exec[k].pc = "none",
           \A k \in Tasks: exec[k].pc = "ended" => exec'[k].pc = "ended" /\ (exec'[k].ok <=> exec[k].ok)
    PROVE  TeamInv'
<1>1. Types'
  BY DEF TeamInv, Types
<1>2. Busy'
  BY DEF TeamInv, Busy
<1>3. Shown'
  BY DEF TeamInv, Shown
<1>4. Mailed'
  BY DEF TeamInv, Mailed, Sent
<1>5. Once'
  BY DEF TeamInv, Once
<1>6. Begun'
  BY DEF TeamInv, Begun, Sent
<1>7. Replied'
  BY DEF TeamInv, Types, Replied
<1>8. ListIsTrue'
  BY DEF TeamInv, ListIsTrue
<1> QED BY <1>1, <1>2, <1>3, <1>4, <1>5, <1>6, <1>7, <1>8 DEF TeamInv

-----------------------------------------------------------------------------
\* The list

LEMMA CreateSharedKeeps ==
    ASSUME TeamInv, NEW j \in Tasks, NEW a \in Addressees, CreateShared(j, a) PROVE TeamInv'
<1> DEFINE new == [status |-> IF a \in Named THEN "assigned" ELSE "pending", for |-> a]
<1>1. shared \in [Tasks -> SharedType] /\ new \in SharedType
  BY DEF TeamInv, Types, SharedType, SharedStatus
<1>2. shared' = [shared EXCEPT ![j] = new] /\ shared[j].status = "none"
  BY DEF CreateShared
<1>3. shared' \in [Tasks -> SharedType] /\ \A k \in Tasks: shared'[k] = IF k = j THEN new ELSE shared[k]
  BY <1>1, <1>2
<1>4. new.status \in {"assigned", "pending"}
  OBVIOUS
<1>5. \A k \in Tasks: Sent(k) => Sent(k)'
  BY <1>2, <1>3 DEF Sent
<1>6. \A k \in Tasks: shared'[k].status \in {"succeeded", "failed"} => shared'[k] = shared[k]
  BY <1>3, <1>4
<1>7. ListIsTrue
  BY DEF TeamInv
<1> QED BY <1>3, <1>5, <1>6, <1>7, ListKeeps DEF CreateShared, ListIsTrue

LEMMA StatusChanges ==
    ASSUME shared \in [Tasks -> SharedType], NEW j \in Tasks, NEW s \in SharedStatus
    PROVE  /\ [shared[j] EXCEPT !.status = s] \in SharedType
           /\ [shared[j] EXCEPT !.status = s].status = s
  BY DEF SharedType

LEMMA CancelSharedKeeps == ASSUME TeamInv, NEW j \in Tasks, CancelShared(j) PROVE TeamInv'
<1>1. shared \in [Tasks -> SharedType]
  BY DEF TeamInv, Types
<1>2. shared' = [shared EXCEPT ![j].status = "cancelled"]
  BY DEF CancelShared
<1>3. /\ shared' \in [Tasks -> SharedType] /\ shared'[j].status = "cancelled"
      /\ \A k \in Tasks: k # j => shared'[k] = shared[k]
  BY <1>1, <1>2 DEF SharedType, SharedStatus
<1>4. \A k \in Tasks: Sent(k) => Sent(k)'
  BY <1>3 DEF Sent
<1>5. ListIsTrue
  BY DEF TeamInv
<1> QED BY <1>3, <1>4, <1>5, ListKeeps DEF CancelShared, ListIsTrue

LEMMA RemoveSharedKeeps == ASSUME TeamInv, NEW j \in Tasks, RemoveShared(j) PROVE TeamInv'
<1>1. shared \in [Tasks -> SharedType]
  BY DEF TeamInv, Types
<1>2. shared' = [shared EXCEPT ![j].status = "removed"]
  BY DEF RemoveShared
<1>3. /\ shared' \in [Tasks -> SharedType] /\ shared'[j].status = "removed"
      /\ \A k \in Tasks: k # j => shared'[k] = shared[k]
  BY <1>1, <1>2 DEF SharedType, SharedStatus
<1>4. \A k \in Tasks: Sent(k) => Sent(k)'
  BY <1>3 DEF Sent
<1>5. ListIsTrue
  BY DEF TeamInv
<1> QED BY <1>3, <1>4, <1>5, ListKeeps DEF RemoveShared, ListIsTrue

LEMMA ClearTerminalKeeps == ASSUME TeamInv, ClearTerminal PROVE TeamInv'
<1>1. shared \in [Tasks -> SharedType]
  BY DEF TeamInv, Types
<1>2. shared' = [k \in Tasks |-> IF shared[k].status \in TerminalShared
                                 THEN [shared[k] EXCEPT !.status = "removed"] ELSE shared[k]]
  BY DEF ClearTerminal
<1>3. "removed" \in SharedStatus
  BY DEF SharedStatus
<1>4. \A k \in Tasks: /\ shared'[k] \in SharedType
                      /\ shared'[k].status = "removed" \/ shared'[k] = shared[k]
  BY <1>1, <1>2, <1>3, StatusChanges
<1>5. shared' \in [Tasks -> SharedType]
  BY <1>2, <1>4
<1>6. \A k \in Tasks: Sent(k) => Sent(k)'
  BY <1>4 DEF Sent
<1>7. ListIsTrue
  BY DEF TeamInv
<1> QED BY <1>4, <1>5, <1>6, <1>7, ListKeeps DEF ClearTerminal, ListIsTrue

LEMMA CollectKeeps == ASSUME TeamInv, Collect PROVE TeamInv'
<1>1. shared \in [Tasks -> SharedType] /\ replies \in SUBSET Tasks
  BY DEF TeamInv, Types
<1>2. shared' = [k \in Tasks |-> IF k \in replies
                     THEN [shared[k] EXCEPT !.status = Applied(@, exec[k].ok)] ELSE shared[k]]
  BY DEF Collect
<1>3. \A k \in Tasks: Applied(shared[k].status, exec[k].ok) \in SharedStatus
  BY <1>1 DEF Applied, SharedType, SharedStatus
<1>4. \A k \in Tasks: /\ shared'[k] \in SharedType
                      /\ k \in replies => shared'[k].status = Applied(shared[k].status, exec[k].ok)
                      /\ k \notin replies => shared'[k] = shared[k]
  BY <1>1, <1>2, <1>3, StatusChanges
<1>5. shared' \in [Tasks -> SharedType]
  BY <1>2, <1>4
<1>6. \A k \in Tasks: Sent(k) => Sent(k)'
  BY <1>4 DEF Sent, Applied
<1>7. \A k \in replies: exec[k].pc = "ended"
  BY DEF TeamInv, Replied
<1>8. ListIsTrue
  BY DEF TeamInv
<1>9. ASSUME NEW k \in Tasks
      PROVE  /\ shared'[k].status = "succeeded" => exec[k].pc = "ended" /\ exec[k].ok
             /\ shared'[k].status = "failed" => exec[k].pc = "ended" /\ ~exec[k].ok
  <2>1. CASE k \notin replies
    BY <1>4, <1>8, <2>1 DEF ListIsTrue
  <2>2. CASE k \in replies /\ exec[k].ok
    BY <1>4, <1>7, <2>2 DEF Applied
  <2>3. CASE k \in replies /\ ~exec[k].ok
    BY <1>4, <1>7, <2>3 DEF Applied
  <2> QED BY <2>1, <2>2, <2>3
<1>10. UNCHANGED workVars /\ replies' \in SUBSET replies
  BY DEF Collect
<1> QED BY <1>5, <1>6, <1>9, <1>10, ListKeeps

\* Of one message at most one of the inboxes gets a copy, and none had one.
LEMMA SendKeeps ==
    ASSUME TeamInv, NEW j \in Tasks, NEW to, ~Sent(j), Send(j, to) PROVE TeamInv'
<1>1. /\ shared \in [Tasks -> SharedType] /\ exec \in [Tasks -> ExecType]
      /\ inbox \in [MateSet -> Seq(Tasks \cup {Stop})]
  BY DEF TeamInv, Types
<1>2. UNCHANGED <<mate, loop, exec, replies>>
  BY DEF Send
<1>3. /\ shared' \in [Tasks -> SharedType] /\ shared'[j].status = "dispatched"
      /\ \A k \in Tasks: k # j => shared'[k] = shared[k]
  BY <1>1 DEF Send, SharedType, SharedStatus
<1>4. exec[j].pc = "none"
  BY DEF TeamInv, Begun
<1>5. \A k \in Tasks: Sent(k) => Sent(k)'
  BY <1>3 DEF Sent
<1>6. Sent(j)'
  BY <1>3 DEF Sent
<1>7. \A m \in MateSet: \A i \in 1..Len(inbox[m]): inbox[m][i] # j
  BY DEF TeamInv, Mailed
<1>8. \A m \in MateSet:
         /\ inbox'[m] \in Seq(Tasks \cup {Stop})
         /\ m # to => inbox'[m] = inbox[m]
         /\ m = to => /\ Len(inbox'[m]) = Len(inbox[m]) + 1 /\ inbox'[m][Len(inbox[m]) + 1] = j
                      /\ \A i \in 1..Len(inbox[m]): inbox'[m][i] = inbox[m][i]
  BY <1>1 DEF Send
<1>9. \A m \in MateSet: Len(inbox[m]) \in Nat
  BY <1>1
<1>10. \A m \in MateSet: \A i \in 1..Len(inbox'[m]):
          \/ i \in 1..Len(inbox[m]) /\ inbox'[m][i] = inbox[m][i]
          \/ m = to /\ i = Len(inbox[m]) + 1 /\ inbox'[m][i] = j
  BY <1>8, <1>9
<1>11. Types'
  <2>1. inbox' \in [MateSet -> Seq(Tasks \cup {Stop})]
    BY <1>8 DEF Send
  <2> QED BY <1>2, <1>3, <2>1 DEF TeamInv, Types
<1>12. Busy' /\ Shown' /\ Replied'
  BY <1>2 DEF TeamInv, Busy, Shown, Replied, InProgress
<1>13. Begun'
  BY <1>2, <1>5 DEF TeamInv, Begun
<1>14. Mailed'
  BY <1>2, <1>4, <1>5, <1>6, <1>10 DEF TeamInv, Mailed
<1>15. Once'
  <2> SUFFICES ASSUME NEW m \in MateSet, NEW n \in MateSet,
                      NEW i \in 1..Len(inbox'[m]), NEW h \in 1..Len(inbox'[n]),
                      inbox'[m][i] = inbox'[n][h], inbox'[m][i] \in Tasks
               PROVE  m = n /\ i = h
    BY DEF Once
  <2>1. CASE inbox'[m][i] = j
    <3>1. m = to /\ i = Len(inbox[m]) + 1
      BY <1>7, <1>10, <2>1
    <3>2. n = to /\ h = Len(inbox[n]) + 1
      BY <1>7, <1>10, <2>1
    <3> QED BY <3>1, <3>2
  <2>2. CASE inbox'[m][i] # j
    BY <1>10, <2>2 DEF TeamInv, Once
  <2> QED BY <2>1, <2>2
<1>16. ListIsTrue'
  BY <1>2, <1>3 DEF TeamInv, ListIsTrue
<1> QED BY <1>11, <1>12, <1>13, <1>14, <1>15, <1>16 DEF TeamInv

LEMMA DispatchKeeps ==
    ASSUME TeamInv, DispatchNext \/ \E k \in Tasks: DispatchAssigned(k) PROVE TeamInv'
<1>1. PICK k \in Tasks: shared[k].status \in {"pending", "assigned"} /\ \E to: Send(k, to)
  BY DEF DispatchNext, DispatchAssigned
<1>2. ~Sent(k)
  BY <1>1 DEF Sent
<1> QED BY <1>1, <1>2, SendKeeps

-----------------------------------------------------------------------------
\* The loops

LEMMA TailShifts ==
    ASSUME NEW S, NEW q \in Seq(S), q # <<>>
    PROVE  /\ Tail(q) \in Seq(S) /\ Head(q) \in S /\ Head(q) = q[1] /\ 1 \in 1..Len(q)
           /\ \A i \in 1..Len(Tail(q)): i + 1 \in 1..Len(q) /\ Tail(q)[i] = q[i + 1]
  OBVIOUS

LEMMA AppendKeeps ==
    ASSUME NEW S, NEW q \in Seq(S), NEW e \in S
    PROVE  /\ Append(q, e) \in Seq(S)
           /\ \A i \in 1..Len(Append(q, e)): \/ i \in 1..Len(q) /\ Append(q, e)[i] = q[i]
                                            \/ Append(q, e)[i] = e
  OBVIOUS

\* What the loop of one teammate, that executes nothing, changes of itself; the tasks in
\* its inbox have been there, perhaps one place further behind.
LEMMA LoopKeeps ==
    ASSUME TeamInv, NEW m \in MateSet, UNCHANGED <<exec, shared, replies>>,
           mate' \in [MateSet -> MateType], loop' \in [MateSet -> {"off", "waiting", "executing"}],
           inbox' \in [MateSet -> Seq(Tasks \cup {Stop})],
           \A n \in MateSet: n # m => UNCHANGED <<mate[n], loop[n], inbox[n]>>,
           \A k \in Tasks: InProgress(k) => exec[k].by # m,
           loop'[m] # "executing",
           NEW d \in Nat,
           \A i \in 1..Len(inbox'[m]): inbox'[m][i] \in Tasks =>
               i + d \in 1..Len(inbox[m]) /\ inbox'[m][i] = inbox[m][i + d]
    PROVE  TeamInv'
<1>1. Types'
  BY DEF TeamInv, Types
<1>2. Busy'
  BY SMTT(30) DEF TeamInv, Busy, InProgress
<1>3. Shown'
  BY DEF TeamInv, Shown
<1>4. Begun' /\ Replied' /\ ListIsTrue'
  BY DEF TeamInv, Begun, Replied, ListIsTrue, Sent
<1>5. \A n \in MateSet: n # m => inbox'[n] = inbox[n]
  OBVIOUS
<1>6. Mailed'
  <2> SUFFICES ASSUME NEW n \in MateSet, NEW i \in 1..Len(inbox'[n]), NEW k \in Tasks, inbox'[n][i] = k
               PROVE  Sent(k)' /\ exec'[k].pc = "none"
    BY DEF Mailed, Sent
  <2>1. PICK h \in 1..Len(inbox[n]): inbox[n][h] = k
    BY <1>5, ZenonT(40)
  <2>2. Sent(k) /\ exec[k].pc = "none"
    BY <2>1, ZenonT(40) DEF TeamInv, Mailed
  <2> QED BY <2>2 DEF Sent
<1>8. \A i \in 1..Len(inbox'[m]): inbox'[m][i] \in Tasks =>
         \E x \in 1..Len(inbox[m]): x = i + d /\ inbox'[m][i] = inbox[m][x]
  OBVIOUS
<1>7. Once'
  <2> SUFFICES ASSUME NEW n \in MateSet, NEW p \in MateSet,
                      NEW i \in 1..Len(inbox'[n]), NEW h \in 1..Len(inbox'[p]),
                      inbox'[n][i] = inbox'[p][h], inbox'[n][i] \in Tasks
               PROVE  n = p /\ i = h
    BY DEF Once
  <2>1. CASE n # m /\ p # m
    <3>1. inbox'[n] = inbox[n] /\ inbox'[p] = inbox[p]
      BY <1>5, <2>1
    <3>2. i \in 1..Len(inbox[n]) /\ h \in 1..Len(inbox[p])
          /\ inbox[n][i] = inbox[p][h] /\ inbox[n][i] \in Tasks
      BY <3>1
    <3>3. Once
      BY DEF TeamInv
    <3> QED BY <3>2, <3>3 DEF Once
  <2>2. CASE n = m /\ p # m
    <3>1. i \in 1..Len(inbox'[m]) /\ inbox'[m][i] \in Tasks
      BY <2>2
    <3>2. PICK x \in 1..Len(inbox[m]): inbox'[m][i] = inbox[m][x]
      BY <1>8, <3>1, Zenon
    <3>3. inbox[p][h] = inbox[m][x] /\ h \in 1..Len(inbox[p]) /\ inbox[m][x] \in Tasks
      BY <1>5, <2>2, <3>1, <3>2
    <3> QED BY <2>2, <3>2, <3>3 DEF TeamInv, Once
  <2>3. CASE n # m /\ p = m
    <3>1. h \in 1..Len(inbox'[m]) /\ inbox'[m][h] \in Tasks
      BY <2>3
    <3>2. PICK y \in 1..Len(inbox[m]): inbox'[m][h] = inbox[m][y]
      BY <1>8, <3>1, Zenon
    <3>3. inbox[n][i] = inbox[m][y] /\ i \in 1..Len(inbox[n]) /\ inbox[m][y] \in Tasks
      BY <1>5, <2>3, <3>1, <3>2
    <3> QED BY <2>3, <3>2, <3>3 DEF TeamInv, Once
  <2>4. CASE n = m /\ p = m
    <3>1. i \in 1..Len(inbox'[m]) /\ inbox'[m][i] \in Tasks /\ h \in 1..Len(inbox'[m]) /\ inbox'[m][h] \in Tasks
      BY <2>4
    <3>2. PICK x \in 1..Len(inbox[m]): x = i + d /\ inbox'[m][i] = inbox[m][x]
      BY <1>8, <3>1, Zenon
    <3>3. PICK y \in 1..Len(inbox[m]): y = h + d /\ inbox'[m][h] = inbox[m][y]
      BY <1>8, <3>1, Zenon
    <3>4. x = y
      BY <2>4, <3>1, <3>2, <3>3 DEF TeamInv, Once
    <3>5. i \in Int /\ h \in Int /\ i + d = h + d
      BY <3>2, <3>3, <3>4
    <3> QED BY <2>4, <3>5
  <2> QED BY <2>1, <2>2, <2>3, <2>4
<1> QED BY <1>1, <1>2, <1>3, <1>4, <1>6, <1>7 DEF TeamInv

LEMMA MateChanges ==
    ASSUME Types, NEW m \in MateSet, NEW s \in Statuses, NEW a \in BOOLEAN, NEW r \in Tasks \cup {NoTask},
           mate' = [mate EXCEPT ![m] = TeamMate(s, a, r)]
    PROVE  /\ mate' \in [MateSet -> MateType]
           /\ mate'[m].status = s /\ mate'[m].run = r
           /\ \A n \in MateSet: n # m => mate'[n] = mate[n]
<1>1. TeamMate(s, a, r) \in MateType
  BY DEF TeamMate, MateType
<1>2. TeamMate(s, a, r).status = s /\ TeamMate(s, a, r).run = r
  BY DEF TeamMate
<1> QED BY <1>1, <1>2 DEF Types

LEMMA MateFields == ASSUME Types, NEW m \in MateSet
    PROVE  mate[m].status \in Statuses /\ mate[m].asked \in BOOLEAN /\ mate[m].run \in Tasks \cup {NoTask}
<1>1. mate[m] \in MateType
  BY DEF Types
<1>2. mate[m].status \in Statuses /\ mate[m].run \in Tasks \cup {NoTask}
  BY <1>1 DEF MateType
<1>3. mate[m].asked \in BOOLEAN
  BY <1>1, Zenon DEF MateType
<1> QED BY <1>2, <1>3

LEMMA LoopChanges ==
    ASSUME Types, NEW m \in MateSet, NEW s \in {"off", "waiting", "executing"}, loop' = [loop EXCEPT ![m] = s]
    PROVE  /\ loop' \in [MateSet -> {"off", "waiting", "executing"}] /\ loop'[m] = s
           /\ \A n \in MateSet: n # m => loop'[n] = loop[n]
  BY DEF Types

\* A loop that is not executing has nothing in progress.
LEMMA NotBusy == ASSUME TeamInv, NEW m \in MateSet, loop[m] # "executing"
                 PROVE  \A k \in Tasks: InProgress(k) => exec[k].by # m
  BY DEF TeamInv, Busy

\* The loop goes elsewhere and leaves its inbox alone.
LEMMA LoopMoves ==
    ASSUME TeamInv, NEW m \in MateSet, UNCHANGED <<inbox, exec, shared, replies>>,
           loop[m] # "executing", NEW l \in {"off", "waiting"}, loop' = [loop EXCEPT ![m] = l],
           NEW s \in Statuses, NEW a \in BOOLEAN, NEW r \in Tasks \cup {NoTask},
           mate' = [mate EXCEPT ![m] = TeamMate(s, a, r)]
    PROVE  TeamInv'
<1>1. Types
  BY DEF TeamInv
<1>2. mate' \in [MateSet -> MateType] /\ \A n \in MateSet: n # m => mate'[n] = mate[n]
  BY <1>1, MateChanges
<1>3. /\ loop' \in [MateSet -> {"off", "waiting", "executing"}] /\ loop'[m] # "executing"
      /\ \A n \in MateSet: n # m => loop'[n] = loop[n]
  BY <1>1, LoopChanges
<1>4. inbox' \in [MateSet -> Seq(Tasks \cup {Stop})]
  BY <1>1 DEF Types
<1>5. \A k \in Tasks: InProgress(k) => exec[k].by # m
  BY NotBusy
<1>6. \A i \in 1..Len(inbox'[m]): inbox'[m][i] \in Tasks =>
         i + 0 \in 1..Len(inbox[m]) /\ inbox'[m][i] = inbox[m][i + 0]
  OBVIOUS
<1> QED BY <1>2, <1>3, <1>4, <1>5, <1>6, LoopKeeps, ZenonT(40)

LEMMA StartsKeeps == ASSUME TeamInv, NEW m \in MateSet, Starts(m) PROVE TeamInv'
<1>1. mate[m].run \in Tasks \cup {NoTask}
  BY MateFields DEF TeamInv
<1>2. "waiting" \in Statuses /\ loop[m] # "executing"
  BY DEF Statuses, Starts
<1>3. /\ mate' = [mate EXCEPT ![m] = TeamMate("waiting", FALSE, mate[m].run)]
      /\ loop' = [loop EXCEPT ![m] = "waiting"]
      /\ UNCHANGED <<inbox, exec, shared, replies>>
  BY DEF Starts
<1> QED BY <1>1, <1>2, <1>3, LoopMoves

LEMMA IdlesKeeps == ASSUME TeamInv, NEW m \in MateSet, Idles(m) PROVE TeamInv'
<1>1. mate[m].run \in Tasks \cup {NoTask} /\ mate[m].asked \in BOOLEAN
  BY MateFields DEF TeamInv
<1>2. PICK s \in {"stopped", "idle"}:
         mate' = [mate EXCEPT ![m] = TeamMate(s, mate[m].asked, mate[m].run)]
  BY DEF Idles
<1>3. s \in Statuses /\ loop[m] # "executing"
  BY DEF Statuses, Idles
<1>4. loop' = [loop EXCEPT ![m] = "off"] /\ UNCHANGED <<inbox, exec, shared, replies>>
  BY DEF Idles
<1> QED BY <1>1, <1>2, <1>3, <1>4, LoopMoves

LEMMA SendStopKeeps == ASSUME TeamInv, NEW m \in MateSet, SendStop(m) PROVE TeamInv'
<1>1. /\ UNCHANGED <<mate, loop, exec, shared, replies>>
      /\ inbox' = [inbox EXCEPT ![m] = Append(inbox[m], Stop)]
  BY DEF SendStop
<1>2. inbox \in [MateSet -> Seq(Tasks \cup {Stop})]
  BY DEF TeamInv, Types
<1>3. Append(inbox[m], Stop) \in Seq(Tasks \cup {Stop})
  BY <1>2
<1>4. /\ inbox' \in [MateSet -> Seq(Tasks \cup {Stop})] /\ inbox'[m] = Append(inbox[m], Stop)
      /\ \A n \in MateSet: n # m => inbox'[n] = inbox[n]
  BY <1>1, <1>2, <1>3
<1>5. \A i \in 1..Len(inbox'[m]): \/ i \in 1..Len(inbox[m]) /\ inbox'[m][i] = inbox[m][i]
                                  \/ inbox'[m][i] = Stop
  BY <1>2, <1>4, AppendKeeps
<1>6. \A n \in MateSet: \A i \in 1..Len(inbox'[n]): inbox'[n][i] \in Tasks =>
         i \in 1..Len(inbox[n]) /\ inbox'[n][i] = inbox[n][i]
  BY <1>4, <1>5, Constants
<1>7. Types' /\ Busy' /\ Shown' /\ Begun' /\ Replied' /\ ListIsTrue'
  BY <1>1, <1>4 DEF TeamInv, Types, Busy, Shown, Begun, Replied, ListIsTrue, Sent, InProgress
<1>8. Mailed'
  BY <1>1, <1>6 DEF TeamInv, Mailed, Sent
<1>9. Once'
  BY <1>6 DEF TeamInv, Once
<1> QED BY <1>7, <1>8, <1>9 DEF TeamInv

LEMMA DropsKeeps == ASSUME TeamInv, NEW m \in MateSet, Receives(m), Drops(m) \/ Obeys(m) PROVE TeamInv'
<1>1. Types /\ inbox[m] \in Seq(Tasks \cup {Stop})
  BY DEF TeamInv, Types
<1>2. /\ loop[m] = "waiting" /\ inbox[m] # <<>> /\ UNCHANGED <<exec, shared, replies>>
      /\ inbox' = [inbox EXCEPT ![m] = Tail(inbox[m])] /\ loop' = [loop EXCEPT ![m] = "off"]
  BY DEF Receives, Drops, Obeys
<1>3. mate' \in [MateSet -> MateType] /\ \A n \in MateSet: n # m => mate'[n] = mate[n]
  <2>1. CASE Drops(m)
    BY <1>1, <2>1 DEF Drops, Types
  <2>2. CASE Obeys(m)
    <3>1. mate' = [mate EXCEPT ![m] = TeamMate("stopped", TRUE, mate[m].run)]
      BY <2>2 DEF Obeys
    <3>2. "stopped" \in Statuses /\ mate[m].run \in Tasks \cup {NoTask}
      BY <1>1, MateFields DEF Statuses
    <3> QED BY <1>1, <3>1, <3>2, MateChanges
  <2> QED BY <2>1, <2>2
<1>4. /\ loop' \in [MateSet -> {"off", "waiting", "executing"}] /\ loop'[m] # "executing"
      /\ \A n \in MateSet: n # m => loop'[n] = loop[n]
  BY <1>1, <1>2, LoopChanges
<1>5. Tail(inbox[m]) \in Seq(Tasks \cup {Stop})
  BY <1>1, <1>2, TailShifts
<1>6. /\ inbox' \in [MateSet -> Seq(Tasks \cup {Stop})] /\ inbox'[m] = Tail(inbox[m])
      /\ \A n \in MateSet: n # m => inbox'[n] = inbox[n]
  BY <1>1, <1>2, <1>5 DEF Types
<1>7. \A i \in 1..Len(inbox'[m]): inbox'[m][i] \in Tasks =>
         i + 1 \in 1..Len(inbox[m]) /\ inbox'[m][i] = inbox[m][i + 1]
  BY <1>1, <1>2, <1>6, TailShifts
<1>8. \A k \in Tasks: InProgress(k) => exec[k].by # m
  BY <1>2, NotBusy
<1> QED BY <1>2, <1>3, <1>4, <1>6, <1>7, <1>8, LoopKeeps

\* A teammate begins with a task nobody has begun with, and that nobody else will get.
LEMMA ExecutesKeeps ==
    ASSUME TeamInv, NEW m \in MateSet, NEW backed \in BOOLEAN, Receives(m), Executes(m, backed)
    PROVE  TeamInv'
<1> DEFINE j == Head(inbox[m])
<1>1. Types /\ inbox[m] \in Seq(Tasks \cup {Stop})
  BY DEF TeamInv, Types
<1>2. /\ loop[m] = "waiting" /\ inbox[m] # <<>> /\ UNCHANGED <<shared, replies>>
      /\ inbox' = [inbox EXCEPT ![m] = Tail(inbox[m])] /\ loop' = [loop EXCEPT ![m] = "executing"]
      /\ j \in Tasks
  BY DEF Receives, Executes
<1>3. j = inbox[m][1] /\ 1 \in 1..Len(inbox[m])
  BY <1>1, <1>2, TailShifts
<1>4. Sent(j) /\ exec[j].pc = "none"
  BY <1>2, <1>3 DEF TeamInv, Mailed
<1>5. mate' = [mate EXCEPT ![m] = TeamMate("running", mate[m].asked, j)]
  BY DEF Executes
<1>6. /\ mate' \in [MateSet -> MateType] /\ mate'[m].status = "running" /\ mate'[m].run = j
      /\ \A n \in MateSet: n # m => mate'[n] = mate[n]
  <2>1. "running" \in Statuses /\ mate[m].asked \in BOOLEAN
    BY <1>1, MateFields DEF Statuses
  <2> QED BY <1>1, <1>2, <1>5, <2>1, MateChanges, ZenonT(40)
<1>7. /\ loop' \in [MateSet -> {"off", "waiting", "executing"}] /\ loop'[m] = "executing"
      /\ \A n \in MateSet: n # m => loop'[n] = loop[n]
  BY <1>1, <1>2, LoopChanges
<1>8. PICK pc \in {"queued", "running"}: exec' = [exec EXCEPT ![j] = Execution(pc, m, backed, FALSE)]
  BY DEF Executes
<1>9. /\ Execution(pc, m, backed, FALSE) \in ExecType
      /\ Execution(pc, m, backed, FALSE).pc = pc /\ Execution(pc, m, backed, FALSE).by = m
  BY DEF Execution, ExecType, ExecPcs
<1>10. /\ exec' \in [Tasks -> ExecType] /\ exec'[j].pc = pc /\ exec'[j].by = m
       /\ \A k \in Tasks: k # j => exec'[k] = exec[k]
  BY <1>1, <1>2, <1>8, <1>9 DEF Types
<1>11. /\ Tail(inbox[m]) \in Seq(Tasks \cup {Stop})
       /\ \A i \in 1..Len(Tail(inbox[m])): i + 1 \in 1..Len(inbox[m]) /\ Tail(inbox[m])[i] = inbox[m][i + 1]
  BY <1>1, <1>2, TailShifts
<1>12. /\ inbox' \in [MateSet -> Seq(Tasks \cup {Stop})] /\ inbox'[m] = Tail(inbox[m])
       /\ \A n \in MateSet: n # m => inbox'[n] = inbox[n]
  BY <1>1, <1>2, <1>11 DEF Types
<1>13. Types'
  BY <1>1, <1>2, <1>6, <1>7, <1>10, <1>12 DEF Types
<1>14. Busy'
  <2>1. \A k \in Tasks: InProgress(k) => exec[k].by # m
    BY <1>2, NotBusy
  <2> QED BY <1>6, <1>7, <1>10, <2>1, SMTT(30) DEF TeamInv, Busy, InProgress
<1>15. Shown'
  BY <1>2, <1>6, <1>7 DEF TeamInv, Shown
<1>16. Begun' /\ Replied' /\ ListIsTrue'
  BY <1>1, <1>2, <1>4, <1>10, ZenonT(40) DEF TeamInv, Types, Begun, Replied, ListIsTrue, Sent
<1>17. \A n \in MateSet: \A i \in 1..Len(inbox'[n]):
          \E h \in 1..Len(inbox[n]): inbox'[n][i] = inbox[n][h] /\ (n = m => h = i + 1)
  BY <1>11, <1>12
<1>18. \A n \in MateSet: \A i \in 1..Len(inbox'[n]): inbox'[n][i] # j
  <2> SUFFICES ASSUME NEW n \in MateSet, NEW i \in 1..Len(inbox'[n]), inbox'[n][i] = j PROVE FALSE
    OBVIOUS
  <2>1. PICK h \in 1..Len(inbox[n]): inbox[n][h] = j /\ (n = m => h = i + 1)
    BY <1>17
  <2>2. n = m /\ h = 1
    BY <1>2, <1>3, <2>1 DEF TeamInv, Once
  <2> QED BY <2>1, <2>2
<1>19. Mailed'
  <2> SUFFICES ASSUME NEW n \in MateSet, NEW i \in 1..Len(inbox'[n]), NEW k \in Tasks, inbox'[n][i] = k
               PROVE  Sent(k)' /\ exec'[k].pc = "none"
    BY DEF Mailed, Sent
  <2>1. PICK h \in 1..Len(inbox[n]): inbox[n][h] = k
    BY <1>17
  <2>2. Sent(k) /\ exec[k].pc = "none"
    BY <2>1 DEF TeamInv, Mailed
  <2> QED BY <1>2, <1>10, <1>18, <2>2 DEF Sent
<1>20. Once'
  <2> SUFFICES ASSUME NEW n \in MateSet, NEW p \in MateSet,
                      NEW i \in 1..Len(inbox'[n]), NEW h \in 1..Len(inbox'[p]),
                      inbox'[n][i] = inbox'[p][h], inbox'[n][i] \in Tasks
               PROVE  n = p /\ i = h
    BY DEF Once
  <2>1. PICK x \in 1..Len(inbox[n]): inbox'[n][i] = inbox[n][x] /\ (n = m => x = i + 1)
    BY <1>17
  <2>2. PICK y \in 1..Len(inbox[p]): inbox'[p][h] = inbox[p][y] /\ (p = m => y = h + 1)
    BY <1>17
  <2>6. inbox[n][x] = inbox[p][y] /\ inbox[n][x] \in Tasks
    BY <2>1, <2>2
  <2>3. n = p /\ x = y
    BY <2>6 DEF TeamInv, Once
  <2>4. CASE n = m
    BY <2>1, <2>2, <2>3, <2>4
  <2>5. CASE n # m
    BY <1>12, <2>3, <2>5 DEF TeamInv, Once
  <2> QED BY <2>3, <2>4, <2>5
<1> QED BY <1>13, <1>14, <1>15, <1>16, <1>19, <1>20 DEF TeamInv

LEMMA ReceivesKeeps == ASSUME TeamInv, NEW m \in MateSet, Receives(m) PROVE TeamInv'
  BY DropsKeeps, ExecutesKeeps DEF Receives

\* An execution is over, and its loop goes on or ends.
LEMMA LoopFinishes ==
    ASSUME TeamInv, NEW m \in MateSet, UNCHANGED <<inbox, exec, shared>>,
           loop[m] = "executing", ~InProgress(mate[m].run),
           mate' \in [MateSet -> MateType], loop' \in [MateSet -> {"off", "waiting", "executing"}],
           loop'[m] # "executing", \A n \in MateSet: n # m => UNCHANGED <<mate[n], loop[n]>>,
           \/ UNCHANGED replies
           \/ replies' = replies \cup {mate[m].run} /\ exec[mate[m].run].pc = "ended"
    PROVE  TeamInv'
<1>1. mate[m].run \in Tasks
  BY DEF TeamInv, Shown
<1>2. Types' /\ Replied'
  BY <1>1 DEF TeamInv, Types, Replied
<1>3. \A k \in Tasks: InProgress(k) => exec[k].by # m
  BY DEF TeamInv, Busy
<1>4. Busy'
  BY <1>3 DEF TeamInv, Busy, InProgress
<1>5. Shown'
  BY DEF TeamInv, Shown
<1>6. Mailed' /\ Once'
  <2>1. Mailed'
    BY DEF TeamInv, Mailed, Sent
  <2>2. Once'
    BY DEF TeamInv, Once
  <2> QED BY <2>1, <2>2
<1>7. Begun' /\ ListIsTrue'
  <2>1. Begun'
    BY DEF TeamInv, Begun, Sent
  <2>2. ListIsTrue'
    BY DEF TeamInv, ListIsTrue
  <2> QED BY <2>1, <2>2
<1> QED BY <1>2, <1>4, <1>5, <1>6, <1>7 DEF TeamInv

LEMMA ReturnsKeeps == ASSUME TeamInv, NEW m \in MateSet, Returns(m) PROVE TeamInv'
<1>1. Types /\ mate[m].asked \in BOOLEAN /\ NoTask \in Tasks \cup {NoTask}
  BY MateFields DEF TeamInv
<1>2. PICK s \in {"stopped", "idle", "waiting"}:
         mate' = [mate EXCEPT ![m] = TeamMate(s, mate[m].asked, NoTask)]
  BY DEF Returns
<1>3. PICK l \in {"off", "waiting"}: loop' = [loop EXCEPT ![m] = l]
  BY DEF Returns
<1>4. s \in Statuses
  BY DEF Statuses
<1>5. mate' \in [MateSet -> MateType] /\ \A n \in MateSet: n # m => mate'[n] = mate[n]
  BY <1>1, <1>2, <1>4, MateChanges
<1>6. /\ loop' \in [MateSet -> {"off", "waiting", "executing"}] /\ loop'[m] # "executing"
      /\ \A n \in MateSet: n # m => loop'[n] = loop[n]
  BY <1>1, <1>3, LoopChanges
<1>7. /\ UNCHANGED <<inbox, exec, shared>> /\ loop[m] = "executing"
      /\ replies' = replies \cup {mate[m].run} /\ exec[mate[m].run].pc = "ended"
  BY DEF Returns
<1>8. ~InProgress(mate[m].run)
  BY <1>7 DEF InProgress
<1> QED BY <1>5, <1>6, <1>7, <1>8, LoopFinishes

-----------------------------------------------------------------------------
\* The executions and the end of the team

\* One execution that is in progress goes on or ends.
LEMMA ExecGoesOn ==
    ASSUME TeamInv, NEW j \in Tasks, InProgress(j), NEW e \in ExecType,
           e.by = exec[j].by, e.pc # "none", exec' = [exec EXCEPT ![j] = e],
           UNCHANGED <<mate, loop, inbox, shared, replies>>
    PROVE  TeamInv'
<1>1. Types
  BY DEF TeamInv
<1>2. /\ exec' \in [Tasks -> ExecType] /\ exec'[j] = e
      /\ \A k \in Tasks: k # j => exec'[k] = exec[k]
  BY <1>1 DEF Types
<1>3. mate' \in [MateSet -> MateType]
  BY <1>1 DEF Types
<1>4. exec[j].pc \notin {"none", "ended"}
  BY DEF InProgress
<1>5. \A k \in Tasks: exec'[k].by = exec[k].by
  BY <1>2
<1>6. \A k \in Tasks: InProgress(k)' => InProgress(k)
  BY <1>2 DEF InProgress
<1>7. \A k \in Tasks: exec'[k].pc = "none" <=> exec[k].pc = "none"
  BY <1>2, <1>4
<1>8. \A k \in Tasks: exec[k].pc = "ended" => exec'[k].pc = "ended" /\ (exec'[k].ok <=> exec[k].ok)
  BY <1>2, <1>4
<1> QED BY <1>2, <1>3, <1>5, <1>6, <1>7, <1>8, WorkKeeps

LEMMA PcChanges ==
    ASSUME NEW e \in ExecType, NEW pc \in ExecPcs
    PROVE  /\ [e EXCEPT !.pc = pc] \in ExecType
           /\ [e EXCEPT !.pc = pc].pc = pc /\ [e EXCEPT !.pc = pc].by = e.by
           /\ [e EXCEPT !.pc = pc].ok = e.ok
  BY DEF ExecType

LEMMA StoredType ==
    ASSUME NEW e \in ExecType
    PROVE  /\ [e EXCEPT !.stored = TRUE] \in ExecType
           /\ [e EXCEPT !.stored = TRUE].pc = e.pc /\ [e EXCEPT !.stored = TRUE].by = e.by
  BY DEF ExecType

LEMMA EndedType ==
    ASSUME Types, NEW k \in Tasks, NEW ok \in BOOLEAN
    PROVE  Ended(k, ok) \in ExecType /\ Ended(k, ok).by = exec[k].by /\ Ended(k, ok).pc = "ended"
<1>1. exec[k].by \in MateSet \cup {NoMate}
  BY DEF Types, ExecType
<1> QED BY <1>1 DEF Ended, Execution, ExecType, ExecPcs

LEMMA ExecKeeps == ASSUME TeamInv, NEW k \in Tasks, ExecNext(k) PROVE TeamInv'
<1>1. Types /\ exec[k] \in ExecType
  BY DEF TeamInv, Types
<1>2. InProgress(k) /\ UNCHANGED <<mate, loop, inbox, shared, replies>>
  BY DEF ExecNext, Begins, Stores, TimesOut, CatchesCancel, Concludes, ExecStep, InProgress
<1>3. ASSUME NEW pc \in {"running", "cancelled"}, exec' = [exec EXCEPT ![k] = [exec[k] EXCEPT !.pc = pc]]
      PROVE  TeamInv'
  <2>1. pc \in ExecPcs /\ pc # "none"
    BY DEF ExecPcs
  <2> QED BY <1>1, <1>2, <1>3, <2>1, PcChanges, ExecGoesOn
<1>4. ASSUME NEW ok \in BOOLEAN, exec' = [exec EXCEPT ![k] = Ended(k, ok)]
      PROVE  TeamInv'
  BY <1>1, <1>2, <1>4, EndedType, ExecGoesOn
<1>5. CASE Begins(k) \/ TimesOut(k)
  BY <1>3, <1>5 DEF Begins, TimesOut, ExecStep
<1>8. CASE Stores(k)
  <2>1. exec' = [exec EXCEPT ![k] = [exec[k] EXCEPT !.stored = TRUE]] /\ exec[k].pc # "none"
    BY <1>8 DEF Stores, ExecStep
  <2> QED BY <1>1, <1>2, <2>1, StoredType, ExecGoesOn
<1>6. CASE CatchesCancel(k)
  BY <1>4, <1>6 DEF CatchesCancel, ExecStep
<1>7. CASE \E ok \in BOOLEAN: Concludes(k, ok)
  <2>1. PICK ok \in BOOLEAN: exec' = [exec EXCEPT ![k] = Ended(k, ok /\ ~exec[k].signalled)]
    BY <1>7 DEF Concludes, ExecStep
  <2>2. (ok /\ ~exec[k].signalled) \in BOOLEAN
    OBVIOUS
  <2> QED BY <1>4, <2>1, <2>2
<1> QED BY <1>5, <1>6, <1>7, <1>8 DEF ExecNext

\* The execution that a member is left with.
LEMMA LeaveIs ==
    ASSUME Types, NEW i \in DOMAIN Mates, Leave(i), NEW k \in Tasks
    PROVE  /\ exec'[k] \in ExecType /\ exec'[k].pc = exec[k].pc /\ exec'[k].by = exec[k].by
           /\ exec'[k].ok = exec[k].ok /\ exec'[k].backed = exec[k].backed
           /\ IF k = mate[Mates[i]].run /\ InProgress(k)
              THEN (exec'[k].signalled = (exec[k].pc # "queued")) /\ (exec'[k].unheard = (exec[k].pc = "queued"))
              ELSE exec'[k] = exec[k]
<1>1. exec[k] \in ExecType
  BY DEF Types
<1>2. CASE k = mate[Mates[i]].run /\ InProgress(k)
  <2> DEFINE s == exec[k].pc # "queued"
             u == exec[k].pc = "queued"
             l == [exec[k] EXCEPT !.signalled = s, !.unheard = u]
  <2>0. s \in BOOLEAN /\ u \in BOOLEAN
    OBVIOUS
  <2>1. exec'[k] = l
    BY <1>2 DEF Leave
  <2>2. /\ l \in ExecType /\ l.pc = exec[k].pc /\ l.by = exec[k].by /\ l.ok = exec[k].ok
        /\ l.backed = exec[k].backed
        /\ l.signalled = s /\ l.unheard = u
    <3> HIDE DEF s, u
    <3> QED BY <1>1, <2>0 DEF ExecType
  <2> HIDE DEF l
  <2> QED BY <1>2, <2>1, <2>2
<1>3. CASE ~(k = mate[Mates[i]].run /\ InProgress(k))
  <2>1. exec'[k] = exec[k]
    BY <1>3 DEF Leave
  <2> QED BY <1>1, <1>3, <2>1
<1> QED BY <1>2, <1>3

LEMMA VisitKeeps == ASSUME TeamInv, NEW i \in DOMAIN Mates, Visit(i) PROVE TeamInv'
<1> DEFINE m == Mates[i]
           j == mate[m].run
<1>1. Types
  BY DEF TeamInv
<1>2. j # NoTask /\ exec[j].pc \in {"queued", "running", "cancelled"}
  BY DEF Visit, Backed
<1>3. exec' = [exec EXCEPT ![j].pc = "cancelled"]
  BY DEF Visit
<1>4. UNCHANGED <<loop, inbox, shared, replies>>
  BY DEF Visit
<1>5. mate' = [mate EXCEPT ![m].asked = mate[m].asked \/ deletion.pc = "stopping"]
  BY DEF Visit
<1>6. \A n \in MateSet: /\ mate'[n] \in MateType
                        /\ mate'[n].run = mate[n].run /\ mate'[n].status = mate[n].status
  <2> SUFFICES ASSUME NEW n \in MateSet
               PROVE  /\ mate'[n] \in MateType
                      /\ mate'[n].run = mate[n].run /\ mate'[n].status = mate[n].status
    OBVIOUS
  <2>1. mate[n] \in MateType
    BY <1>1 DEF Types
  <2>2. PICK a \in BOOLEAN: mate'[n] = mate[n] \/ mate'[n] = [mate[n] EXCEPT !.asked = a]
    BY <1>1, <1>5 DEF Types
  <2> QED BY <2>1, <2>2 DEF MateType
<1>7. mate' \in [MateSet -> MateType]
  BY <1>1, <1>5, <1>6 DEF Types
<1> DEFINE pc == "cancelled"
<1>8. exec' = [exec EXCEPT ![j] = [exec[j] EXCEPT !.pc = pc]]
  BY <1>3
<1>9. pc \in ExecPcs
  BY DEF ExecPcs
<1>10. \A k \in Tasks:
          /\ exec'[k] \in ExecType /\ exec'[k].by = exec[k].by
          /\ exec'[k] # exec[k] => /\ exec[k].pc \in {"queued", "running", "cancelled"}
                                   /\ exec'[k].pc = pc
  <2> SUFFICES ASSUME NEW k \in Tasks
               PROVE  /\ exec'[k] \in ExecType /\ exec'[k].by = exec[k].by
                      /\ exec'[k] # exec[k] => /\ exec[k].pc \in {"queued", "running", "cancelled"}
                                               /\ exec'[k].pc = pc
    OBVIOUS
  <2>1. exec[k] \in ExecType
    BY <1>1 DEF Types
  <2>2. CASE k = j
    <3>1. exec'[k] = [exec[k] EXCEPT !.pc = pc]
      BY <1>1, <1>8, <2>2 DEF Types
    <3>2. exec'[k] \in ExecType /\ exec'[k].by = exec[k].by /\ exec'[k].pc = pc
      BY <1>9, <2>1, <3>1, PcChanges
    <3> QED BY <1>2, <2>2, <3>2
  <2>3. CASE k # j
    <3>1. exec'[k] = exec[k]
      BY <1>1, <1>8, <2>3 DEF Types
    <3> QED BY <2>1, <3>1
  <2> QED BY <2>2, <2>3
<1>11. exec' \in [Tasks -> ExecType]
  BY <1>1, <1>8, <1>10 DEF Types
<1>12. \A k \in Tasks: InProgress(k)' => InProgress(k)
  BY <1>10 DEF InProgress
<1>13. \A k \in Tasks: exec'[k].pc = "none" <=> exec[k].pc = "none"
  BY <1>10
<1>14. \A k \in Tasks: exec[k].pc = "ended" => exec'[k].pc = "ended" /\ (exec'[k].ok <=> exec[k].ok)
  BY <1>10
<1> QED BY <1>4, <1>6, <1>7, <1>10, <1>11, <1>12, <1>13, <1>14, WorkKeeps

LEMMA LeaveKeeps ==
    ASSUME TeamInv, NEW i \in DOMAIN Mates, Leave(i) PROVE TeamInv'
<1>1. Types
  BY DEF TeamInv
<1>2. \A n \in MateSet: mate'[n] = mate[n] \/ mate'[n] = TeamMate("stopped", TRUE, mate[n].run)
  BY <1>1 DEF Leave, Types
<1>3. \A n \in MateSet: /\ mate'[n] \in MateType
                        /\ mate'[n].run = mate[n].run /\ mate'[n].status \in {mate[n].status, "stopped"}
  <2> SUFFICES ASSUME NEW n \in MateSet
               PROVE  /\ mate'[n] \in MateType
                      /\ mate'[n].run = mate[n].run /\ mate'[n].status \in {mate[n].status, "stopped"}
    OBVIOUS
  <2>1. mate[n] \in MateType /\ mate[n].run \in Tasks \cup {NoTask}
    BY <1>1, MateFields DEF Types
  <2>2. CASE mate'[n] = mate[n]
    BY <2>1, <2>2
  <2>3. CASE mate'[n] = TeamMate("stopped", TRUE, mate[n].run)
    BY <2>1, <2>3 DEF TeamMate, MateType, Statuses
  <2> QED BY <1>2, <2>2, <2>3
<1>4. mate' \in [MateSet -> MateType]
  BY <1>1, <1>3 DEF Leave, Types
<1>7. \A k \in Tasks: /\ exec'[k] \in ExecType /\ exec'[k].pc = exec[k].pc
                      /\ exec'[k].by = exec[k].by /\ exec'[k].ok = exec[k].ok
  BY <1>1, LeaveIs
<1>8. exec' \in [Tasks -> ExecType]
  BY <1>7 DEF Leave
<1>9. \A k \in Tasks: InProgress(k)' => InProgress(k)
  BY <1>7 DEF InProgress
<1>10. UNCHANGED <<loop, inbox, shared, replies>>
  BY DEF Leave
<1> QED BY <1>3, <1>4, <1>7, <1>8, <1>9, <1>10, WorkKeeps

LEMMA DeleteKeeps == ASSUME TeamInv, DeleteStep PROVE TeamInv'
<1>1. ASSUME NEW i \in DOMAIN Mates, Visit(i) PROVE TeamInv'
  BY <1>1, VisitKeeps
<1>2. ASSUME NEW i \in DOMAIN Mates, Pass(i) \/ Waited(i) PROVE TeamInv'
  BY <1>2, LeaveKeeps DEF Pass, Waited
<1>3. CASE PassEnds
  BY <1>3, RosterKeeps DEF PassEnds, Unregister
<1> QED BY <1>1, <1>2, <1>3 DEF DeleteStep

-----------------------------------------------------------------------------
LEMMA TeamInvNext == ASSUME TeamInv, TeamNext PROVE TeamInv'
<1>1. CASE EnsureTeam \/ (\E ms \in SUBSET MateSet: CreateTeam(ms)) \/ DeleteBegins
  BY <1>1, RosterKeeps DEF EnsureTeam, CreateTeam, NewTeam, DeleteBegins
<1>2. ASSUME NEW m \in MateSet, Join(m) \/ Remove(m) \/ \E status \in {"active", "disabled"}: Enable(m, status)
      PROVE  TeamInv'
  BY <1>2, RosterKeeps DEF Join, Remove, Enable
<1>3. ASSUME NEW m \in MateSet, Starts(m) \/ SendStop(m) \/ LoopStep(m) PROVE TeamInv'
  BY <1>3, StartsKeeps, SendStopKeeps, IdlesKeeps, ReceivesKeeps, ReturnsKeeps DEF LoopStep
<1>4. ASSUME NEW k \in Tasks, (\E for \in Addressees: CreateShared(k, for)) \/ CancelShared(k) \/ RemoveShared(k)
      PROVE  TeamInv'
  BY <1>4, CreateSharedKeeps, CancelSharedKeeps, RemoveSharedKeeps
<1>5. ASSUME NEW k \in Tasks, ExecNext(k) PROVE TeamInv'
  BY <1>5, ExecKeeps
<1>6. CASE DispatchNext \/ \E k \in Tasks: DispatchAssigned(k)
  BY <1>6, DispatchKeeps
<1>7. CASE ClearTerminal \/ Collect
  BY <1>7, ClearTerminalKeeps, CollectKeeps
<1>8. CASE DeleteStep
  BY <1>8, DeleteKeeps
<1> QED BY <1>1, <1>2, <1>3, <1>4, <1>5, <1>6, <1>7, <1>8 DEF TeamNext

\* Busy is what keeps a teammate to one task, and Shown what keeps others from it.
LEMMA BooksAreTrue == TeamInv => TeamIsTrue
<1> SUFFICES ASSUME TeamInv, NEW m \in MateSet
             PROVE  /\ Cardinality({k \in Tasks: InProgress(k) /\ exec[k].by = m}) <= 1
                    /\ Available(m) => \A k \in Tasks: InProgress(k) => exec[k].by # m
  BY DEF TeamInv, TeamIsTrue, OneThingAtATime
<1> DEFINE its == {k \in Tasks: InProgress(k) /\ exec[k].by = m}
<1>1. its \subseteq {mate[m].run}
  BY DEF TeamInv, Busy
<1>2. Cardinality(its) <= 1
  <2>1. IsFiniteSet({mate[m].run}) /\ Cardinality({mate[m].run}) = 1
    BY FS_Singleton
  <2>2. IsFiniteSet(its) /\ Cardinality(its) <= Cardinality({mate[m].run})
    BY <1>1, <2>1, FS_Subset
  <2> QED BY <2>1, <2>2
<1>3. Available(m) => its = {}
  BY DEF TeamInv, Busy, Shown, Available
<1> QED BY <1>2, <1>3

-----------------------------------------------------------------------------
\* The status of a task, from one state to the next.
LEMMA CancelledStep ==
    ASSUME TeamInv, TeamNext, NEW k \in Tasks, shared[k].status = "cancelled"
    PROVE  shared'[k].status \in {"cancelled", "removed"}
<1>1. shared \in [Tasks -> SharedType] /\ shared[k] \in SharedType
  BY DEF TeamInv, Types
<1>2. ASSUME UNCHANGED shared PROVE shared'[k].status = "cancelled"
  BY <1>2
<1>3. ASSUME NEW j \in Tasks, j # k, NEW new, shared' = [shared EXCEPT ![j] = new]
      PROVE  shared'[k].status = "cancelled"
  BY <1>1, <1>3
<1>4. CASE EnsureTeam \/ (\E ms \in SUBSET MateSet: CreateTeam(ms)) \/ DeleteBegins \/ DeleteStep
  BY <1>2, <1>4 DEF EnsureTeam, CreateTeam, NewTeam, DeleteBegins, DeleteStep, Visit, Pass, Waited,
                    Leave, PassEnds
<1>5. ASSUME NEW m \in MateSet,
             \/ Join(m) \/ Remove(m) \/ Starts(m) \/ SendStop(m) \/ LoopStep(m)
             \/ \E status \in {"active", "disabled"}: Enable(m, status)
      PROVE  shared'[k].status = "cancelled"
  BY <1>2, <1>5 DEF Join, Remove, Starts, SendStop, LoopStep, Idles, Receives, Returns, Enable
<1>6. ASSUME NEW j \in Tasks, (\E for \in Addressees: CreateShared(j, for)) \/ DispatchAssigned(j)
      PROVE  shared'[k].status = "cancelled"
  <2>1. shared[j].status # "cancelled" /\ \E new: shared' = [shared EXCEPT ![j] = new]
    BY <1>6 DEF CreateShared, DispatchAssigned, Send
  <2> QED BY <1>3, <2>1
<1>7. CASE DispatchNext
  <2>1. PICK j \in Tasks: shared[j].status = "pending" /\ \E new: shared' = [shared EXCEPT ![j] = new]
    BY <1>7 DEF DispatchNext, Send
  <2> QED BY <1>3, <2>1
<1>8. ASSUME NEW j \in Tasks, CancelShared(j) \/ RemoveShared(j)
      PROVE  shared'[k].status \in {"cancelled", "removed"}
  BY <1>1, <1>8 DEF CancelShared, RemoveShared, SharedType
<1>9. ASSUME NEW j \in Tasks, ExecNext(j) PROVE shared'[k].status = "cancelled"
  BY <1>2, <1>9 DEF ExecNext, Begins, Stores, TimesOut, CatchesCancel, Concludes, ExecStep
<1>10. CASE ClearTerminal
  BY <1>1, <1>10 DEF ClearTerminal, SharedType
<1>11. CASE Collect
  BY <1>1, <1>11 DEF Collect, Applied, SharedType
<1> QED BY <1>4, <1>5, <1>6, <1>7, <1>8, <1>9, <1>10, <1>11 DEF TeamNext

-----------------------------------------------------------------------------
\* team_delete
LEMMA DeletionInit == TeamInit => DeletionInv
<1> SUFFICES ASSUME TeamInit PROVE DeletionInv
  OBVIOUS
<1>1. \A k \in Tasks: exec[k].pc = "none"
  BY DEF TeamInit, NotExecuted, Execution
<1>2. RosterIs /\ deletion = [pc |-> "none", todo |-> {}, waits |-> NoTask]
  BY DEF TeamInit, RosterIs
<1>3. DeletionIs
  BY <1>2 DEF DeletionIs, DeletionType
<1> QED BY <1>1, <1>2, <1>3 DEF DeletionInv, Backs

\* What a step may do of a team while it is deleted: who is stopped stays it and begins
\* nothing, who was told to abort stays told, and nobody joins.
Winding ==
    /\ \A m \in MateSet: Member(m)' => Member(m)
    /\ \A m \in MateSet: Stopped(m) => Stopped(m)'
    /\ \A m \in MateSet, k \in Tasks: Stopped(m) /\ InProgress(k)' /\ exec'[k].by = m =>
          InProgress(k) /\ exec[k].by = m /\ (Told(exec[k]) => Told(exec'[k]))

LEMMA QuietStays == ASSUME Winding, NEW m \in MateSet, Quiet(m) PROVE Quiet(m)'
  BY DEF Winding, Quiet

LEMMA MatesAre == ASSUME NEW i \in DOMAIN Mates PROVE Mates[i] \in MateSet /\ i \in Nat
<1>1. Mates \in Seq(MateSet)
  BY TeamAssumption DEF TeamAssumption
<1> QED BY <1>1 DEF MateSet

LEMMA DeletionStays ==
    ASSUME DeletionIs, UNCHANGED deletion, deletion.pc # "none" => Winding PROVE DeletionIs'
<1>1. CASE deletion.pc = "none"
  BY <1>1 DEF DeletionIs
<1>2. CASE deletion.pc # "none"
  <2>1. Winding
    BY <1>2
  <2>2. deletion.pc = "stopping" =>
          \A m \in MateSet: Member(m)' => Quiet(m)' \/ \E i \in deletion.todo: Mates[i] = m
    BY <2>1, QuietStays DEF DeletionIs, Winding
  <2>3. deletion.pc = "done" => \A m \in MateSet: Member(m)' => Quiet(m)'
    BY <2>1, QuietStays DEF DeletionIs, Winding
  <2> QED BY <2>2, <2>3 DEF DeletionIs
<1> QED BY <1>1, <1>2

\* Who joins, leaves and is enabled does not work for it.
LEMMA RosterChanges ==
    ASSUME DeletionInv, RosterIs', UNCHANGED <<mate, loop, exec, deletion>>,
           deletion.pc # "none" => \A m \in MateSet: Member(m)' => Member(m)
    PROVE  DeletionInv'
<1>1. Backs'
  BY DEF DeletionInv, Backs
<1>2. deletion.pc # "none" => Winding
  BY DEF Winding, Stopped, InProgress
<1> QED BY <1>1, <1>2, DeletionStays DEF DeletionInv

LEMMA Untouched ==
    ASSUME DeletionInv, UNCHANGED <<roster, mate, loop, exec, deletion>> PROVE DeletionInv'
  BY RosterChanges DEF DeletionInv, RosterIs, Member

LEMMA RosterStepKeeps ==
    ASSUME DeletionInv,
           \/ EnsureTeam \/ (\E ms \in SUBSET MateSet: CreateTeam(ms))
           \/ \E m \in MateSet: Join(m) \/ Remove(m) \/ \E status \in {"active", "disabled"}: Enable(m, status)
    PROVE  DeletionInv'
<1>0. roster \in [MateSet -> {"absent", "active", "disabled", "removed"}]
  BY DEF DeletionInv, RosterIs
<1>1. ASSUME NEW ms, NewTeam(ms) PROVE DeletionInv'
  <2>1. RosterIs'
    BY <1>1 DEF NewTeam, RosterIs
  <2> QED BY <1>1, <2>1, RosterChanges DEF NewTeam, workVars
<1>2. ASSUME NEW m \in MateSet, NEW s \in {"active", "disabled", "removed"},
             roster' = [roster EXCEPT ![m] = s], Member(m) \/ deletion.pc = "none",
             UNCHANGED <<mate, loop, exec, deletion>>
      PROVE  DeletionInv'
  <2>1. RosterIs'
    BY <1>0, <1>2 DEF RosterIs
  <2>2. \A n \in MateSet: n # m => (Member(n)' <=> Member(n))
    BY <1>0, <1>2 DEF Member
  <2> QED BY <1>2, <2>1, <2>2, RosterChanges
<1>3. ASSUME NEW m \in MateSet, Join(m) \/ Remove(m) \/ \E status \in {"active", "disabled"}: Enable(m, status)
      PROVE  DeletionInv'
  <2>1. UNCHANGED <<mate, loop, exec, deletion>> /\ (Member(m) \/ deletion.pc = "none")
    BY <1>3 DEF Join, Remove, Enable, workVars
  <2>2. \E s \in {"active", "disabled", "removed"}: roster' = [roster EXCEPT ![m] = s]
    BY <1>3 DEF Join, Remove, Enable
  <2> QED BY <1>2, <2>1, <2>2
<1> QED BY <1>1, <1>3 DEF EnsureTeam, CreateTeam

\* A step of a loop that leaves the executions alone, and unstops nobody.
LEMMA LoopWinds ==
    ASSUME DeletionInv, UNCHANGED <<roster, exec, deletion>>,
           deletion.pc = "none" \/ \A n \in MateSet: Stopped(n) => Stopped(n)'
    PROVE  DeletionInv'
<1>1. RosterIs' /\ Backs'
  BY DEF DeletionInv, RosterIs, Backs
<1>2. deletion.pc # "none" => Winding
  BY DEF Winding, InProgress, Member
<1> QED BY <1>1, <1>2, DeletionStays DEF DeletionInv

\* One teammate changes.
LEMMA MateTurns ==
    ASSUME TeamInv, NEW m \in MateSet, NEW x, mate' = [mate EXCEPT ![m] = x], Stopped(m) => x.status = "stopped"
    PROVE  \A n \in MateSet: Stopped(n) => Stopped(n)'
  BY DEF TeamInv, Types, Stopped

LEMMA LoopStepsWind ==
    ASSUME TeamInv, DeletionInv, NEW m \in MateSet,
           \/ Starts(m) \/ Idles(m) \/ Returns(m)
           \/ Receives(m) /\ (Drops(m) \/ Obeys(m))
    PROVE  DeletionInv'
<1>1. CASE Starts(m)
  BY <1>1, LoopWinds DEF Starts
<1>2. CASE Idles(m)
  <2> DEFINE x == TeamMate(IF Stopped(m) THEN "stopped" ELSE "idle", mate[m].asked, mate[m].run)
  <2>1. mate' = [mate EXCEPT ![m] = x] /\ UNCHANGED <<roster, exec, deletion>>
    BY <1>2 DEF Idles
  <2>2. Stopped(m) => x.status = "stopped"
    BY DEF TeamMate
  <2> HIDE DEF x
  <2> QED BY <2>1, <2>2, MateTurns, LoopWinds
<1>3. CASE Returns(m)
  <2> DEFINE over == Stopped(m) \/ mate[m].asked
             x == TeamMate(IF Stopped(m) THEN "stopped" ELSE IF over THEN "idle" ELSE "waiting",
                           mate[m].asked, NoTask)
  <2>1. mate' = [mate EXCEPT ![m] = x] /\ UNCHANGED <<roster, exec, deletion>>
    BY <1>3 DEF Returns
  <2>2. Stopped(m) => x.status = "stopped"
    BY DEF TeamMate
  <2> HIDE DEF x
  <2> QED BY <2>1, <2>2, MateTurns, LoopWinds
<1>4. CASE Receives(m) /\ Drops(m)
  BY <1>4, LoopWinds DEF Receives, Drops, Stopped
<1>5. CASE Receives(m) /\ Obeys(m)
  <2>1. UNCHANGED <<roster, exec, deletion>> /\ mate' = [mate EXCEPT ![m] = TeamMate("stopped", TRUE, mate[m].run)]
    BY <1>5 DEF Receives, Obeys
  <2>2. TeamMate("stopped", TRUE, mate[m].run).status = "stopped"
    BY DEF TeamMate
  <2> QED BY <2>1, <2>2, MateTurns, LoopWinds
<1> QED BY <1>1, <1>2, <1>3, <1>4, <1>5

LEMMA ExecutesWinds ==
    ASSUME TeamInv, DeletionInv, NEW m \in MateSet, NEW backed \in BOOLEAN, Receives(m), Executes(m, backed)
    PROVE  DeletionInv'
<1> DEFINE k == Head(inbox[m])
           e == Execution(IF backed THEN "queued" ELSE "running", m, backed, FALSE)
           x == TeamMate("running", mate[m].asked, k)
<1>1. /\ ~Stopped(m) /\ k \in Tasks
      /\ mate' = [mate EXCEPT ![m] = x] /\ exec' = [exec EXCEPT ![k] = e] /\ UNCHANGED <<roster, deletion>>
  BY DEF Receives, Executes
<1>2. e.by = m /\ (e.pc = "queued" => e.backed)
  BY DEF Execution
<1> HIDE DEF e, x, k
<1>3. exec'[k] = e /\ \A j \in Tasks: j # k => exec'[j] = exec[j]
  BY <1>1 DEF TeamInv, Types
<1>4. RosterIs' /\ Backs'
  BY <1>1, <1>2, <1>3 DEF DeletionInv, RosterIs, Backs
<1>5. Winding
  <2>1. \A n \in MateSet: Member(n)' => Member(n)
    BY <1>1 DEF Member
  <2>2. \A n \in MateSet: Stopped(n) => n # m /\ Stopped(n)'
    BY <1>1, MateTurns DEF Stopped
  <2>3. \A n \in MateSet, j \in Tasks: Stopped(n) /\ exec'[j].by = n => exec'[j] = exec[j]
    BY <1>2, <1>3, <2>2
  <2> QED BY <2>1, <2>2, <2>3 DEF Winding, InProgress
<1> QED BY <1>1, <1>4, <1>5, DeletionStays DEF DeletionInv

\* Executions go on or end; each stays with whom it is, and stays told while it goes.
GoesOnAs(k, e) ==
    /\ e.by = exec[k].by
    /\ e.pc = "queued" => exec[k].pc = "queued" /\ e.backed = exec[k].backed
    /\ e.pc \in {"queued", "running", "cancelled"} =>
          InProgress(k) /\ (Told(exec[k]) => Told(e))

LEMMA ExecutionsWind ==
    ASSUME DeletionInv, UNCHANGED roster, \A m \in MateSet: Stopped(m) => Stopped(m)',
           \A k \in Tasks: GoesOnAs(k, exec'[k])
    PROVE  RosterIs' /\ Backs' /\ Winding
  BY DEF DeletionInv, RosterIs, Backs, Winding, Member, InProgress, GoesOnAs

LEMMA Same == ASSUME NEW k \in Tasks PROVE GoesOnAs(k, exec[k])
  BY DEF GoesOnAs, InProgress

\* A change of its stage, or of what is stored of it.
LEMMA GoesOnIs ==
    ASSUME Types, NEW k \in Tasks, InProgress(k)
    PROVE  /\ \A pc \in {"running", "cancelled"}: GoesOnAs(k, [exec[k] EXCEPT !.pc = pc])
           /\ GoesOnAs(k, [exec[k] EXCEPT !.stored = TRUE])
           /\ \A ok: GoesOnAs(k, Ended(k, ok))
<1>1. exec[k] \in ExecType
  BY DEF Types
<1>2. ASSUME NEW pc \in {"running", "cancelled"} PROVE GoesOnAs(k, [exec[k] EXCEPT !.pc = pc])
  <2> DEFINE e == [exec[k] EXCEPT !.pc = pc]
  <2>1. /\ e.by = exec[k].by /\ e.backed = exec[k].backed /\ e.signalled = exec[k].signalled
        /\ e.unheard = exec[k].unheard /\ e.pc = pc
    BY <1>1 DEF ExecType
  <2> HIDE DEF e
  <2>2. GoesOnAs(k, e)
    BY <2>1 DEF GoesOnAs, Told
  <2> QED BY <2>2 DEF e
<1>3. GoesOnAs(k, [exec[k] EXCEPT !.stored = TRUE])
  <2> DEFINE e == [exec[k] EXCEPT !.stored = TRUE]
  <2>1. /\ e.by = exec[k].by /\ e.backed = exec[k].backed /\ e.signalled = exec[k].signalled
        /\ e.unheard = exec[k].unheard /\ e.pc = exec[k].pc
    BY <1>1 DEF ExecType
  <2> HIDE DEF e
  <2>2. GoesOnAs(k, e)
    BY <2>1 DEF GoesOnAs, Told
  <2> QED BY <2>2 DEF e
<1>4. \A ok: Ended(k, ok).by = exec[k].by /\ Ended(k, ok).pc = "ended"
  BY DEF Ended, Execution
<1> QED BY <1>2, <1>3, <1>4 DEF GoesOnAs

LEMMA ExecNextWinds == ASSUME TeamInv, DeletionInv, NEW k \in Tasks, ExecNext(k) PROVE DeletionInv'
<1>1. UNCHANGED <<roster, mate, deletion>> /\ InProgress(k)
  BY DEF ExecNext, Begins, Stores, TimesOut, CatchesCancel, Concludes, ExecStep, InProgress
<1>2. Types
  BY DEF TeamInv
<1>3. \E e: exec' = [exec EXCEPT ![k] = e] /\ GoesOnAs(k, e)
  <2>1. CASE Begins(k) \/ TimesOut(k)
    <3>1. \E pc \in {"running", "cancelled"}: exec' = [exec EXCEPT ![k] = [exec[k] EXCEPT !.pc = pc]]
      BY <2>1 DEF Begins, TimesOut, ExecStep
    <3> QED BY <1>1, <1>2, <3>1, GoesOnIs
  <2>2. CASE Stores(k)
    BY <1>1, <1>2, <2>2, GoesOnIs DEF Stores, ExecStep
  <2>3. CASE CatchesCancel(k) \/ \E ok \in BOOLEAN: Concludes(k, ok)
    <3>1. \E ok: exec' = [exec EXCEPT ![k] = Ended(k, ok)]
      BY <2>3 DEF CatchesCancel, Concludes, ExecStep
    <3> QED BY <1>1, <1>2, <3>1, GoesOnIs
  <2> QED BY <2>1, <2>2, <2>3 DEF ExecNext
<1>4. \A j \in Tasks: GoesOnAs(j, exec'[j])
  BY <1>2, <1>3, Same DEF Types
<1>5. RosterIs' /\ Backs' /\ Winding
  BY <1>1, <1>4, ExecutionsWind DEF Stopped
<1> QED BY <1>1, <1>5, DeletionStays DEF DeletionInv

\* team_delete cancels the task of a member, and waits for it.
LEMMA VisitWinds == ASSUME TeamInv, DeletionInv, NEW i \in DOMAIN Mates, Visit(i) PROVE DeletionInv'
<1> DEFINE m == Mates[i]
           k == mate[m].run
           a == mate[m].asked \/ deletion.pc = "stopping"
           x == [mate[m] EXCEPT !.asked = a]
<1>1. /\ Types /\ m \in MateSet /\ Going /\ k # NoTask /\ InProgress(k) /\ UNCHANGED roster
  BY MatesAre DEF TeamInv, Visit, Backed, InProgress
<1>2. mate[m] \in MateType /\ k \in Tasks
  BY <1>1, MateFields DEF Types
<1>3. exec' = [exec EXCEPT ![k] = [exec[k] EXCEPT !.pc = "cancelled"]] /\ mate' = [mate EXCEPT ![m] = x]
  BY <1>1, <1>2 DEF Visit, Types
<1>4. /\ deletion' = [deletion EXCEPT !.waits = k] /\ deletion.waits = NoTask
      /\ deletion \in DeletionType /\ deletion.pc \in {"cancelling", "stopping"}
  BY <1>1 DEF Visit, Going, DeletionInv, DeletionIs
<1>5. x.status = mate[m].status
  BY <1>2 DEF MateType
<1> HIDE DEF x
<1>6. \A n \in MateSet: Stopped(n) => Stopped(n)'
  BY <1>1, <1>3, <1>5, MateTurns DEF Stopped
<1>7. \A j \in Tasks: GoesOnAs(j, exec'[j])
  BY <1>1, <1>2, <1>3, GoesOnIs, Same DEF Types
<1>8. RosterIs' /\ Backs' /\ Winding
  BY <1>1, <1>6, <1>7, ExecutionsWind
<1>9. \A n \in MateSet: (Quiet(n) => Quiet(n)') /\ (Member(n)' => Member(n))
  BY <1>8, QuietStays DEF Winding
<1>10. deletion'.pc = deletion.pc /\ deletion'.todo = deletion.todo /\ deletion' \in DeletionType
  BY <1>2, <1>4 DEF DeletionType
<1>11. DeletionIs'
  BY <1>4, <1>9, <1>10 DEF DeletionInv, DeletionIs
<1> QED BY <1>8, <1>11 DEF DeletionInv

\* What a member is left with is told to abort, or is a task that nobody hears of yet.
LEMMA LeaveWinds ==
    ASSUME TeamInv, DeletionInv, NEW i \in DOMAIN Mates, Leave(i), deletion.pc \in {"cancelling", "stopping"}
    PROVE  DeletionInv'
<1> DEFINE m == Mates[i]
           x == TeamMate("stopped", TRUE, mate[m].run)
<1>1. Types /\ m \in MateSet /\ UNCHANGED roster
  BY MatesAre DEF TeamInv, Leave
<1>2. ASSUME NEW k \in Tasks
      PROVE  /\ exec'[k].pc = exec[k].pc /\ exec'[k].by = exec[k].by /\ exec'[k].backed = exec[k].backed
             /\ k = mate[m].run /\ InProgress(k) => Told(exec'[k])
             /\ ~(k = mate[m].run /\ InProgress(k)) => exec'[k] = exec[k]
  <2>1. exec[k].pc = "queued" => exec[k].backed
    BY DEF DeletionInv, Backs
  <2> QED BY <1>1, <2>1, LeaveIs DEF Told
<1>3. mate' = IF deletion.pc = "stopping" THEN [mate EXCEPT ![m] = x] ELSE mate
  BY DEF Leave
<1>4. x.status = "stopped"
  BY DEF TeamMate
<1> HIDE DEF x, m
<1>5. \A n \in MateSet: Stopped(n) => Stopped(n)'
  BY <1>1, <1>3, <1>4, MateTurns DEF Stopped
<1>6. \A k \in Tasks: GoesOnAs(k, exec'[k])
  BY <1>2 DEF GoesOnAs, InProgress
<1>7. RosterIs' /\ Backs' /\ Winding
  BY <1>1, <1>5, <1>6, ExecutionsWind
<1>8. \A n \in MateSet: (Quiet(n) => Quiet(n)') /\ (Member(n)' => Member(n))
  BY <1>7, QuietStays DEF Winding
<1>9. deletion.pc = "stopping" => Quiet(m)'
  <2> SUFFICES ASSUME deletion.pc = "stopping" PROVE Quiet(m)'
    OBVIOUS
  <2>1. Stopped(m)'
    BY <1>1, <1>3, <1>4 DEF Stopped, Types
  <2>2. ASSUME NEW k \in Tasks, InProgress(k)', exec'[k].by = m PROVE Told(exec'[k])
    <3>1. InProgress(k) /\ exec[k].by = m
      BY <1>2, <2>2 DEF InProgress
    <3>2. k = mate[m].run
      BY <1>1, <3>1 DEF TeamInv, Busy
    <3> QED BY <1>2, <3>1, <3>2
  <2> QED BY <2>1, <2>2 DEF Quiet
<1>10. /\ deletion'.pc = deletion.pc /\ deletion'.todo = deletion.todo \ {i} /\ deletion'.waits = NoTask
       /\ deletion' \in DeletionType
  <2>1. /\ deletion' = [deletion EXCEPT !.todo = deletion.todo \ {i}, !.waits = NoTask]
        /\ deletion \in DeletionType
    BY DEF Leave, DeletionInv, DeletionIs
  <2> QED BY <2>1 DEF DeletionType
<1>11. ASSUME deletion.pc = "stopping", NEW n \in MateSet, Member(n)'
       PROVE  Quiet(n)' \/ \E j \in deletion.todo \ {i}: Mates[j] = n
  <2>1. Quiet(n) \/ \E j \in deletion.todo: Mates[j] = n
    BY <1>8, <1>11 DEF DeletionInv, DeletionIs
  <2>2. CASE Quiet(n)
    BY <1>8, <2>2
  <2>3. ASSUME NEW j \in deletion.todo, Mates[j] = n, j = i PROVE Quiet(n)'
    BY <1>9, <1>11, <2>3 DEF m
  <2> QED BY <2>1, <2>2, <2>3
<1>12. DeletionIs'
  BY <1>10, <1>11 DEF DeletionIs
<1> QED BY <1>7, <1>12 DEF DeletionInv

LEMMA DeleteStepWinds == ASSUME TeamInv, DeletionInv, DeleteStep \/ DeleteBegins PROVE DeletionInv'
<1>1. ASSUME NEW i \in DOMAIN Mates, Pass(i) \/ Waited(i) PROVE DeletionInv'
  <2>1. Leave(i) /\ deletion.pc \in {"cancelling", "stopping"}
    BY <1>1 DEF Pass, Going, Waited, DeletionInv, DeletionIs
  <2> QED BY <2>1, LeaveWinds
<1>2. deletion \in DeletionType /\ Members \subseteq DOMAIN Mates
  BY DEF DeletionInv, DeletionIs, Members
<1>3. ASSUME UNCHANGED <<roster, mate, exec>>, deletion' \in DeletionType,
             deletion'.waits = NoTask,
             deletion'.pc = "stopping" => deletion'.todo = Members,
             deletion'.pc = "done" => deletion.pc = "stopping" /\ deletion.todo = {}
      PROVE  DeletionInv'
  <2>1. RosterIs' /\ Backs'
    BY <1>3 DEF DeletionInv, RosterIs, Backs
  <2>2. \A m \in MateSet: (Quiet(m)' <=> Quiet(m)) /\ (Member(m)' <=> Member(m))
    BY <1>3 DEF Quiet, Stopped, InProgress, Member
  <2>3. \A m \in MateSet: Member(m) => \E i \in Members: Mates[i] = m
    BY DEF Members, MateSet
  <2>4. deletion'.pc = "done" => \A m \in MateSet: Member(m) => Quiet(m)
    BY <1>3 DEF DeletionInv, DeletionIs
  <2>5. DeletionIs'
    BY <1>3, <2>2, <2>3, <2>4 DEF DeletionIs
  <2> QED BY <2>1, <2>5 DEF DeletionInv
<1>4. CASE DeleteBegins
  <2>1. PICK pass \in {"cancelling", "stopping"}: deletion' = [pc |-> pass, todo |-> Members, waits |-> NoTask]
    BY <1>4 DEF DeleteBegins
  <2>2. UNCHANGED <<roster, mate, exec>>
    BY <1>4 DEF DeleteBegins, workVars
  <2>3. deletion' \in DeletionType
    BY <1>2, <2>1 DEF DeletionType
  <2> QED BY <1>3, <2>1, <2>2, <2>3
<1>5. CASE PassEnds
  <2>1. /\ UNCHANGED <<roster, mate, exec>> /\ deletion.waits = NoTask /\ deletion.todo = {}
        /\ deletion.pc \in {"cancelling", "stopping"}
    BY <1>5 DEF PassEnds, Going, workVars
  <2>2. CASE deletion.pc = "cancelling"
    <3>1. deletion' = [deletion EXCEPT !.pc = "stopping", !.todo = Members]
      BY <1>5, <2>2 DEF PassEnds
    <3>2. /\ deletion' \in DeletionType
          /\ deletion'.waits = NoTask /\ deletion'.pc = "stopping" /\ deletion'.todo = Members
      BY <1>2, <2>1, <3>1 DEF DeletionType
    <3> QED BY <1>3, <2>1, <3>2
  <2>3. CASE deletion.pc = "stopping"
    <3>1. deletion' = [deletion EXCEPT !.pc = "done"]
      BY <1>5, <2>3 DEF PassEnds
    <3>2. deletion' \in DeletionType /\ deletion'.waits = NoTask /\ deletion'.pc = "done"
      BY <1>2, <2>1, <3>1 DEF DeletionType
    <3> QED BY <1>3, <2>1, <2>3, <3>2
  <2> QED BY <2>1, <2>2, <2>3
<1>6. ASSUME NEW i \in DOMAIN Mates, Visit(i) PROVE DeletionInv'
  BY <1>6, VisitWinds
<1> QED BY <1>1, <1>4, <1>5, <1>6 DEF DeleteStep

LEMMA DeletionNext == ASSUME TeamInv, DeletionInv, TeamNext PROVE DeletionInv'
<1>1. CASE \/ EnsureTeam \/ (\E ms \in SUBSET MateSet: CreateTeam(ms))
           \/ \E m \in MateSet: Join(m) \/ Remove(m) \/ \E status \in {"active", "disabled"}: Enable(m, status)
  BY <1>1, RosterStepKeeps
<1>2. CASE DeleteBegins \/ DeleteStep
  BY <1>2, DeleteStepWinds
<1>3. ASSUME NEW m \in MateSet, Starts(m) \/ LoopStep(m) PROVE DeletionInv'
  <2>1. CASE Receives(m)
    BY <2>1, LoopStepsWind, ExecutesWinds DEF Receives
  <2>2. CASE Starts(m) \/ Idles(m) \/ Returns(m)
    BY <2>2, LoopStepsWind
  <2> QED BY <1>3, <2>1, <2>2 DEF LoopStep
<1>4. ASSUME NEW m \in MateSet, SendStop(m) PROVE DeletionInv'
  BY <1>4, Untouched DEF SendStop
<1>5. ASSUME NEW k \in Tasks, \/ \E for \in Addressees: CreateShared(k, for)
                              \/ DispatchAssigned(k) \/ CancelShared(k) \/ RemoveShared(k)
      PROVE  DeletionInv'
  BY <1>5, Untouched DEF CreateShared, DispatchAssigned, Send, CancelShared, RemoveShared, workVars
<1>6. ASSUME NEW k \in Tasks, ExecNext(k) PROVE DeletionInv'
  BY <1>6, ExecNextWinds
<1>7. CASE DispatchNext \/ ClearTerminal \/ Collect
  BY <1>7, Untouched DEF DispatchNext, Send, ClearTerminal, Collect, workVars
<1> QED BY <1>1, <1>2, <1>3, <1>4, <1>5, <1>6, <1>7 DEF TeamNext

LEMMA DeletedIs == DeletionInv => DeletedIsQuiet
  BY DEF DeletionInv, DeletionIs, Quiet, Told, DeletedIsQuiet

-----------------------------------------------------------------------------
LEMMA Numbers ==
    /\ Runs \subseteq Nat \ {0} /\ Steps \subseteq Nat \ {0} /\ NoRun \notin Runs
    /\ NSteps \in Nat \ {0} /\ MaxRuns \in Nat
  BY CoordinatorAssumption DEF CoordinatorAssumption, Runs, Steps, NoRun

\* A worker is a step of a run.
LEMMA WorkIs ==
    ASSUME NEW k \in Work
    PROVE  k[1] \in Runs /\ k[2] \in Steps /\ k = <<k[1], k[2]>> /\ k # NoWork
  BY Numbers DEF Work, NoWork, NoRun

LEMMA SameWork ==
    ASSUME NEW j \in Work, NEW k \in Work, j[1] = k[1], j[2] = k[2] PROVE j = k
  BY WorkIs

LEMMA PlanIs == ASSUME NEW p \in Plan
    PROVE  /\ p.n \in Nat /\ p.n <= NSteps /\ p.parallel \in BOOLEAN /\ p.depends \in BOOLEAN
           /\ p.failFast \in BOOLEAN /\ p.task \in BOOLEAN /\ \A s \in Steps: p.id[s] \in Steps
<1>1. p.n \in {0} \cup Steps /\ p.id \in [Steps -> Steps] /\ p.parallel \in BOOLEAN
      /\ p.depends \in BOOLEAN /\ p.failFast \in BOOLEAN /\ p.task \in BOOLEAN
  BY DEF Plan
<1>2. p.n \in Nat /\ p.n <= NSteps
  BY <1>1, Numbers DEF Steps
<1> QED BY <1>1, <1>2

LEMMA FallbackIs == FallbackPlan \in Plan /\ ~Parallel(FallbackPlan)
  BY Numbers, CoordinatorAssumption DEF FallbackPlan, Plan, Parallel, Steps, CoordinatorAssumption

LEMMA RunFields ==
    ASSUME CTypes, NEW r \in Runs
    PROVE  /\ run[r] \in RunType
           /\ run[r].pc \in RunPcs /\ run[r].plan \in Plan /\ run[r].at \in 1..(NSteps + 1)
           /\ run[r].at \in Nat /\ run[r].plan.n \in Nat /\ run[r].plan.n <= NSteps
           /\ run[r].outcome \in {"none", "completed", "failed", "cancelled"}
<1>1. run[r] \in RunType
  BY DEF CTypes
<1>2. run[r].plan \in Plan /\ run[r].at \in 1..(NSteps + 1)
  BY <1>1 DEF RunType
<1>3. run[r].plan.n \in Nat /\ run[r].plan.n <= NSteps
  BY <1>2, PlanIs
<1>5. run[r].at \in Nat
  <2> DEFINE a == run[r].at
  <2>1. a \in 1..(NSteps + 1)
    BY <1>2
  <2> HIDE DEF a
  <2>2. a \in Nat
    BY <2>1, Numbers
  <2> QED BY <2>2 DEF a
<1>4. run[r].pc \in RunPcs /\ run[r].outcome \in {"none", "completed", "failed", "cancelled"}
  BY <1>1 DEF RunType
<1> QED BY <1>1, <1>2, <1>3, <1>4, <1>5

\* The step id of a worker, and whether it is alone with it, is a matter of its plan.
LEMMA IdIs == ASSUME CTypes, NEW k \in Work PROVE IdOf(k) \in Steps /\ RunId(k) \in Work
<1>1. RunOf(k) \in Runs /\ k[2] \in Steps
  BY WorkIs DEF RunOf
<1>2. PlanOf(k) \in Plan
  BY <1>1, RunFields DEF PlanOf
<1>3. IdOf(k) \in Steps
  BY <1>1, <1>2, PlanIs DEF IdOf
<1> QED BY <1>1, <1>3 DEF RunId, Work

LEMMA IdStays == ASSUME run' \in [Runs -> RunType], NEW k \in Work PROVE IdOf(k)' \in Steps
<1>1. RunOf(k) \in Runs /\ k[2] \in Steps
  BY WorkIs DEF RunOf
<1>2. run'[RunOf(k)].plan \in Plan
  BY <1>1 DEF RunType
<1>3. run'[RunOf(k)].plan.id[k[2]] \in Steps
  BY <1>1, <1>2, PlanIs
<1> QED BY <1>3 DEF IdOf, PlanOf, RunOf

LEMMA AloneIs ==
    ASSUME NEW k \in Work, PlanOf(k)' = PlanOf(k)
    PROVE  IdOf(k)' = IdOf(k) /\ RunId(k)' = RunId(k) /\ (Alone(k)' <=> Alone(k))
<1>1. RunOf(k)' = RunOf(k) /\ IdOf(k)' = IdOf(k) /\ RunId(k)' = RunId(k)
  BY DEF IdOf, RunId, RunOf
<1>2. StepsOf(RunOf(k))' = StepsOf(RunOf(k))
  BY DEF StepsOf, RunOf, PlanOf
<1>3. \A j \in StepsOf(RunOf(k)): IdOf(j)' = IdOf(j)
  BY DEF StepsOf, RunOf, PlanOf, IdOf
<1>4. Parallel(PlanOf(k))' <=> Parallel(PlanOf(k))
  BY DEF Parallel
<1> QED BY <1>1, <1>2, <1>3, <1>4 DEF Alone

LEMMA RunChanges ==
    ASSUME NEW x \in RunType, NEW pc \in RunPcs, NEW p \in Plan, NEW a \in 1..(NSteps + 1),
           NEW o \in {"none", "completed", "failed", "cancelled"}
    PROVE  /\ [x EXCEPT !.pc = pc] \in RunType /\ [x EXCEPT !.at = a] \in RunType
           /\ [x EXCEPT !.pc = pc, !.plan = p] \in RunType
           /\ [x EXCEPT !.pc = pc, !.outcome = o] \in RunType
           /\ [x EXCEPT !.pc = pc, !.outcome = o, !.at = a] \in RunType
  BY DEF RunType

LEMMA StepFields ==
    ASSUME CTypes, NEW k \in Work
    PROVE  /\ step[k] \in StepType /\ step[k].pc \in StepPcs /\ step[k].job \in JobStatus
           /\ step[k].signal \in {"none", "aborted", "cancelled"} /\ step[k].ok \in BOOLEAN
  BY DEF CTypes, StepType

LEMMA StepTurns ==
    ASSUME NEW x \in StepType, NEW pc \in StepPcs, NEW o \in BOOLEAN
    PROVE  /\ [x EXCEPT !.pc = pc, !.ok = o] \in StepType
           /\ [x EXCEPT !.pc = pc, !.ok = o].pc = pc /\ [x EXCEPT !.pc = pc, !.ok = o].job = x.job
  BY DEF StepType

LEMMA Pcs == /\ {"none", "queued", "done", "raised"} \cap Holding = {}
             /\ {"launching", "waiting", "executing", "starting", "reporting"} = Holding
             /\ Holding \subseteq StepPcs /\ {"none", "queued", "done", "raised"} \subseteq StepPcs
  BY DEF Holding, StepPcs

LEMMA CoordInvInit == CoordInit => CoordInv
<1> SUFFICES ASSUME CoordInit PROVE CoordInv
  OBVIOUS
<1>1. \A r \in Runs: run[r] = [pc |-> "none", plan |-> FallbackPlan, at |-> 1, outcome |-> "none"]
  BY DEF CoordInit
<1>2. \A k \in Work: step[k] = NoWorker /\ step[k].pc = "none" /\ RunOf(k) \in Runs
  BY WorkIs DEF CoordInit, NoWorker, RunOf
<1>3. CTypes
  <2>1. NoWorker \in StepType
    BY DEF NoWorker, StepType, StepPcs, JobStatus
  <2>2. [pc |-> "none", plan |-> FallbackPlan, at |-> 1, outcome |-> "none"] \in RunType
    BY FallbackIs, Numbers DEF RunType, RunPcs
  <2> QED BY <2>1, <2>2 DEF CoordInit, CTypes, RunStatus, NotCancelling
<1>4. \A r \in Runs: RunBook(r)
  BY <1>1, Numbers DEF CoordInit, RunBook, Unbegun
<1>5. \A k \in Work: StepBook(k)
  BY <1>1, <1>2, Pcs DEF StepBook, Unbegun
<1>6. AskedBook /\ BusyBook
  BY <1>1 DEF CoordInit, AskedBook, BusyBook, InFlight, Core, MayRun
<1>7. TableBook /\ CancelBook
  <2>1. \A k \in Work: k # NoWork /\ IdOf(k) \in Steps
    BY <1>3, WorkIs, IdIs
  <2>2. \A s \in Steps: active[s] = NoWork
    BY DEF CoordInit
  <2>3. caught = {} /\ ~cancel.on
    BY DEF CoordInit, NotCancelling
  <2> QED BY <1>2, <2>1, <2>2, <2>3, Pcs DEF TableBook, CancelBook
<1> QED BY <1>3, <1>4, <1>5, <1>6, <1>7 DEF CoordInv

-----------------------------------------------------------------------------
\* A step is about one run: the books of the others stay, and those of their workers.
LEMMA OtherRuns ==
    ASSUME CoordInv, NEW r \in Runs, NEW q \in Runs, q # r, run'[q] = run[q],
           turn \in {r, NoRun}, turn' \in {r, NoRun}
    PROVE  RunBook(q)'
<1>1. RunBook(q)
  BY DEF CoordInv
<1>2. turn # q /\ turn' # q
  BY Numbers
<1> QED BY <1>1, <1>2 DEF RunBook

LEMMA OtherSteps ==
    ASSUME CoordInv, NEW r \in Runs, NEW k \in Work, RunOf(k) # r, run'[RunOf(k)] = run[RunOf(k)],
           turn \in {r, NoRun}, turn' \in {r, NoRun}, hurt \subseteq hurt', UNCHANGED step[k]
    PROVE  StepBook(k)'
<1>1. StepBook(k) /\ turn # RunOf(k) /\ turn' # RunOf(k) /\ RunOf(k)' = RunOf(k)
  BY Numbers, WorkIs DEF CoordInv, RunOf
<1> QED BY <1>1 DEF StepBook

\* The table stays true when nobody begins or ends.
LEMMA TableStays ==
    ASSUME CoordInv, active' = active, run' \in [Runs -> RunType], ~overlapped' => ~overlapped, hurt \subseteq hurt',
           \A k \in Work: step'[k].pc \in Holding <=> step[k].pc \in Holding,
           \A k \in Work: step[k].pc # "none" => step'[k].pc # "none" /\ PlanOf(k)' = PlanOf(k)
    PROVE  TableBook'
<1>1. TableBook /\ active \in [Steps -> Work \cup {NoWork}]
  BY DEF CoordInv, CTypes
<1>2. ASSUME NEW s \in Steps, active[s] # NoWork
      PROVE  IdOf(active[s])' = s /\ step'[active[s]].pc # "none"
  <2>1. PICK k \in Work: active[s] = k /\ IdOf(k) = s /\ step[k].pc # "none"
    BY <1>1, <1>2 DEF TableBook
  <2>2. IdOf(k)' = s /\ step'[k].pc # "none"
    BY <2>1, AloneIs
  <2> QED BY <2>1, <2>2 DEF IdOf, PlanOf, RunOf
<1>3. ASSUME ~overlapped', hurt' = {}, NEW k \in Work
      PROVE  /\ active'[IdOf(k)'] = k => step'[k].pc \in Holding
             /\ step'[k].pc \in Holding /\ Alone(k)' => active'[IdOf(k)'] = k
  <2>1. /\ active[IdOf(k)] = k => step[k].pc \in Holding
        /\ step[k].pc \in Holding /\ Alone(k) => active[IdOf(k)] = k
    BY <1>1, <1>3 DEF TableBook
  <2>2. CASE step[k].pc # "none"
    BY <2>1, <2>2, AloneIs
  <2>3. CASE step[k].pc = "none"
    <3>1. step'[k].pc \notin Holding
      BY <2>3, Pcs
    <3>2. active'[IdOf(k)'] # k
      <4>1. \A s \in Steps: active[s] # k
        BY <1>1, <2>3, WorkIs DEF TableBook
      <4> QED BY <4>1, IdStays
    <3> QED BY <3>1, <3>2
  <2> QED BY <2>2, <2>3
<1> QED BY <1>2, <1>3 DEF TableBook

-----------------------------------------------------------------------------
\* A worker that can go on: it holds its permit or waits for one, or its step is next.
MayMove(k) ==
    \/ FreeTurn /\ step[k].pc \in Holding \cup {"queued"}
    \/ LET r == RunOf(k)
       IN /\ run[r].pc = "seq" /\ turn = r /\ k[2] = run[r].at /\ k[2] <= run[r].plan.n
          /\ step[k].pc = "none"

\* What a worker that goes on leaves alone.
OthersStay(k) ==
    /\ step' \in [Work -> StepType] /\ \A j \in Work: j # k => step'[j] = step[j]
    /\ k \in caught => step'[k].job = step[k].job /\ step'[k].pc \in {"reporting", "done", "raised"}
    /\ UNCHANGED <<coord, cancel, cancels, asked, caught, overlapped>>

Recorded(k) == [active EXCEPT ![IdOf(k)] = k]

\* It holds a permit, is done, or has raised.
HoldsOn(k) ==
    /\ step'[k].pc \in Holding /\ turn' = NoRun /\ UNCHANGED <<run, hurt>>
    /\ active' = IF step[k].pc \in Holding THEN active ELSE Recorded(k)

IsDone(k) ==
    /\ step'[k].pc = "done" /\ step[k].pc \in Holding
    /\ active' = Popped(k, TRUE) /\ turn' = Back(k) /\ UNCHANGED hurt
    /\ run' = [run EXCEPT ![RunOf(k)].at = IF Back(k) # NoRun THEN @ + 1 ELSE @]

HasRaised(k) ==
    /\ step'[k].pc = "raised" /\ turn' = Back(k) /\ hurt' = hurt \cup {RunOf(k)} /\ UNCHANGED run
    /\ active' \in {Popped(k, FALSE), Recorded(k)}

Moves(k) == MayMove(k) /\ OthersStay(k) /\ (HoldsOn(k) \/ IsDone(k) \/ HasRaised(k))

\* Where a worker can be that goes on, and its run.
LEMMA MoverIs ==
    ASSUME CoordInv, NEW k \in Work, MayMove(k)
    PROVE  /\ RunOf(k) \in Runs /\ k[2] <= run[RunOf(k)].plan.n
           /\ turn \in {RunOf(k), NoRun}
           /\ \/ /\ run[RunOf(k)].pc = "seq" /\ k[2] = run[RunOf(k)].at /\ Back(k) = RunOf(k)
                 /\ ~Parallel(run[RunOf(k)].plan) /\ step[k].pc \in Holding \cup {"none"}
              \/ /\ run[RunOf(k)].pc = "par" \/ (run[RunOf(k)].pc \in Decided /\ RunOf(k) \in hurt)
                 /\ FreeTurn /\ step[k].pc \in Holding \cup {"queued"}
                 /\ Parallel(run[RunOf(k)].plan) /\ Back(k) = NoRun
<1> DEFINE r == RunOf(k)
<1>1. r \in Runs /\ k[2] \in Nat /\ run[r].at \in Nat
  BY WorkIs, RunFields, Numbers DEF RunOf, CoordInv
<1>2. StepBook(k) /\ RunBook(r)
  BY <1>1 DEF CoordInv
<1>3. CASE FreeTurn /\ step[k].pc \in Holding \cup {"queued"}
  <2>1. turn # r
    BY <1>1, <1>3, Numbers DEF FreeTurn
  <2>2. k[2] <= run[r].plan.n
    BY <1>2, <1>3, Pcs DEF StepBook
  <2>3. CASE run[r].pc = "seq"
    <3>1. step[k].pc \in Holding /\ k[2] = run[r].at
      BY <1>1, <1>2, <1>3, <2>3, Pcs, Numbers DEF StepBook, RunBook
    <3> QED BY <1>1, <1>2, <1>3, <2>1, <2>2, <2>3, <3>1 DEF FreeTurn, Back, RunBook
  <2>4. CASE run[r].pc # "seq"
    BY <1>1, <1>2, <1>3, <2>1, <2>2, <2>4 DEF FreeTurn, Back, StepBook
  <2> QED BY <2>3, <2>4
<1>4. CASE ~(FreeTurn /\ step[k].pc \in Holding \cup {"queued"})
  BY <1>1, <1>2, <1>4 DEF MayMove, Back, RunBook
<1> QED BY <1>3, <1>4

LEMMA MovesTypes == ASSUME CoordInv, NEW k \in Work, Moves(k) PROVE CTypes'
<1> DEFINE r == RunOf(k)
<1>1. r \in Runs /\ k[2] \in Steps /\ k[2] \in Nat /\ NoWork \in Work \cup {NoWork} /\ k \in Work \cup {NoWork}
  BY WorkIs, Numbers DEF RunOf
<1>2. active \in [Steps -> Work \cup {NoWork}]
  BY DEF CoordInv, CTypes
<1>3. active' \in [Steps -> Work \cup {NoWork}]
  BY <1>1, <1>2, IdIs DEF Moves, HoldsOn, IsDone, HasRaised, Recorded, Popped, CoordInv
<1>4. turn' \in Runs \cup {NoRun}
  BY <1>1 DEF Moves, HoldsOn, IsDone, HasRaised, Back
<1>5. hurt' \in SUBSET Runs
  BY <1>1 DEF CoordInv, CTypes, Moves, HoldsOn, IsDone, HasRaised
<1>6. run' \in [Runs -> RunType]
  <2>1. CASE UNCHANGED run
    BY <2>1 DEF CoordInv, CTypes
  <2>2. CASE IsDone(k)
    <3> DEFINE a == IF Back(k) # NoRun THEN run[r].at + 1 ELSE run[r].at
    <3>1. run[r] \in RunType /\ run[r].at \in 1..(NSteps + 1) /\ run[r].plan.n \in Nat /\ run[r].plan.n <= NSteps
      BY <1>1, RunFields DEF CoordInv
    <3>2. Back(k) # NoRun => run[r].at <= run[r].plan.n
      BY <1>1, MoverIs DEF Moves
    <3>3. a \in 1..(NSteps + 1)
      BY <3>1, <3>2, Numbers
    <3>4. [run[r] EXCEPT !.at = a] \in RunType
      BY <3>1, <3>3 DEF RunType
    <3>5. run \in [Runs -> RunType] /\ run' = [run EXCEPT ![r] = [run[r] EXCEPT !.at = a]]
      BY <1>1, <2>2 DEF IsDone, CoordInv, CTypes
    <3> QED BY <3>4, <3>5
  <2> QED BY <2>1, <2>2 DEF Moves, HoldsOn, HasRaised
<1> QED BY <1>3, <1>4, <1>5, <1>6 DEF CoordInv, CTypes, Moves, OthersStay

LEMMA MovesBooks ==
    ASSUME CoordInv, NEW k \in Work, Moves(k)
    PROVE  (\A q \in Runs: RunBook(q)') /\ (\A j \in Work: StepBook(j)')
<1> DEFINE r == RunOf(k)
<1>1. r \in Runs /\ k[2] \in Nat /\ run[r].at \in Nat /\ run[r].plan.n \in Nat /\ turn \in {r, NoRun} /\ r \notin {NoRun}
  BY WorkIs, RunFields, MoverIs, Numbers DEF RunOf, CoordInv, Moves
<1>2. /\ \A q \in Runs: q # r => run'[q] = run[q]
      /\ run'[r].pc = run[r].pc /\ run'[r].plan = run[r].plan /\ run'[r].outcome = run[r].outcome
      /\ run'[r].at = IF IsDone(k) /\ Back(k) # NoRun THEN run[r].at + 1 ELSE run[r].at
  <2>1. run \in [Runs -> RunType] /\ run[r] \in RunType
    BY <1>1 DEF CoordInv, CTypes
  <2>2. CASE IsDone(k)
    <3> DEFINE a == IF Back(k) # NoRun THEN run[r].at + 1 ELSE run[r].at
    <3>1. run' = [run EXCEPT ![r] = [run[r] EXCEPT !.at = a]]
      BY <1>1, <2>1, <2>2 DEF IsDone
    <3>2. /\ [run[r] EXCEPT !.at = a].pc = run[r].pc /\ [run[r] EXCEPT !.at = a].plan = run[r].plan
          /\ [run[r] EXCEPT !.at = a].outcome = run[r].outcome /\ [run[r] EXCEPT !.at = a].at = a
      BY <2>1 DEF RunType
    <3>3. run'[r] = [run[r] EXCEPT !.at = a] /\ \A q \in Runs: q # r => run'[q] = run[q]
      BY <1>1, <2>1, <3>1
    <3> QED BY <2>2, <3>2, <3>3
  <2>3. CASE ~IsDone(k)
    BY <2>3 DEF Moves, HoldsOn, HasRaised
  <2> QED BY <2>2, <2>3
<1>3. turn' \in {r, NoRun} /\ hurt \subseteq hurt'
  BY DEF Moves, HoldsOn, IsDone, HasRaised, Back
<1>4. \A j \in Work: j # k => step'[j] = step[j]
  BY DEF Moves, OthersStay
<1>5. RunBook(r) /\ StepBook(k)
  BY <1>1 DEF CoordInv
<1>6. step'[k].pc \in Holding \cup {"done", "raised"}
  BY DEF Moves, HoldsOn, IsDone, HasRaised
<1>7. RunBook(r)'
  <2>1. CASE run[r].pc = "seq"
    <3>1. Back(k) = r /\ run[r].at = k[2] /\ k[2] <= run[r].plan.n
      BY <2>1, MoverIs DEF Moves, Decided
    <3> QED BY <1>1, <1>2, <1>3, <1>5, <2>1, <3>1 DEF RunBook, Unbegun
  <2>2. CASE run[r].pc # "seq"
    <3>1. Back(k) = NoRun /\ FreeTurn /\ turn' = NoRun
      BY <2>2, MoverIs DEF Moves, HoldsOn, IsDone, HasRaised
    <3> QED BY <1>1, <1>2, <1>5, <2>2, <3>1 DEF RunBook, FreeTurn
  <2> QED BY <2>1, <2>2
<1>8. \A q \in Runs: RunBook(q)'
  BY <1>1, <1>2, <1>3, <1>7, OtherRuns
<1>9. ASSUME NEW j \in Work, RunOf(j) # r PROVE StepBook(j)'
  <2>1. RunOf(j) \in Runs /\ j # k
    BY <1>9, WorkIs DEF RunOf
  <2> QED BY <1>1, <1>2, <1>3, <1>4, <1>9, <2>1, OtherSteps
<1>10. ASSUME NEW j \in Work, RunOf(j) = r, run[r].pc = "seq" PROVE StepBook(j)'
  <2>1. Back(k) = r /\ run[r].at = k[2] /\ k[2] <= run[r].plan.n /\ ~Parallel(run[r].plan)
    BY <1>10, MoverIs DEF Moves, Decided
  <2>2. j[2] \in Nat /\ StepBook(j) /\ RunOf(j)' = r
    BY <1>10, WorkIs, Numbers DEF CoordInv, RunOf
  <2>3. j = k \/ (j[2] # k[2] /\ step'[j] = step[j])
    BY <1>4, <1>10, SameWork DEF RunOf
  <2>4. CASE j = k
    <3>1. CASE HoldsOn(k)
      <4>1. ~IsDone(k) /\ turn' # r
        BY <1>1, <3>1, Pcs DEF HoldsOn, IsDone
      <4> QED BY <1>1, <1>2, <1>3, <1>10, <2>1, <2>2, <2>4, <3>1, <4>1, Pcs DEF HoldsOn, StepBook, Unbegun
    <3>2. CASE IsDone(k)
      BY <1>1, <1>2, <1>3, <1>10, <2>1, <2>2, <2>4, <3>2, Pcs DEF IsDone, StepBook, Unbegun
    <3>3. CASE HasRaised(k)
      <4>1. ~IsDone(k) /\ turn' = r /\ r \in hurt'
        BY <2>1, <3>3 DEF HasRaised, IsDone
      <4> QED BY <1>1, <1>2, <1>3, <1>10, <2>1, <2>2, <2>4, <3>3, <4>1, Pcs DEF HasRaised, StepBook, Unbegun
    <3> QED BY <3>1, <3>2, <3>3 DEF Moves
  <2>5. CASE j # k
    <3>1. IsDone(k) => turn' = r
      BY <2>1 DEF IsDone
    <3>2. step'[j] = step[j] /\ j[2] # run[r].at
      BY <2>1, <2>3, <2>5
    <3>3. CASE j[2] < run[r].at
      BY <1>1, <1>2, <1>3, <1>10, <2>2, <3>2, <3>3, Pcs DEF StepBook, Unbegun
    <3>4. CASE j[2] > run[r].at
      BY <1>1, <1>2, <1>3, <1>10, <2>2, <3>1, <3>2, <3>4, Pcs DEF StepBook, Unbegun
    <3> QED BY <1>1, <2>2, <3>2, <3>3, <3>4
  <2> QED BY <2>4, <2>5
<1>11. ASSUME NEW j \in Work, RunOf(j) = r, run[r].pc # "seq" PROVE StepBook(j)'
  <2>1. /\ Back(k) = NoRun /\ turn = NoRun /\ turn' = NoRun /\ Parallel(run[r].plan)
        /\ k[2] <= run[r].plan.n /\ step[k].pc \in Holding \cup {"queued"}
        /\ run[r].pc = "par" \/ (run[r].pc \in Decided /\ r \in hurt)
    BY <1>11, MoverIs DEF Moves, HoldsOn, IsDone, HasRaised, FreeTurn
  <2>2. j[2] \in Nat /\ StepBook(j) /\ RunOf(j)' = r
    BY <1>11, WorkIs, Numbers DEF CoordInv, RunOf
  <2>3. run'[r].pc = run[r].pc /\ run'[r].plan = run[r].plan /\ run'[r].outcome = run[r].outcome
    BY <1>2
  <2>4. CASE j = k
    <3>1. step'[k].pc = "raised" => r \in hurt'
      BY Pcs DEF Moves, HoldsOn, IsDone, HasRaised
    <3>2. ~(run[r].pc \in {"closing", "ended"} /\ run[r].outcome = "completed")
      <4>1. run[r].pc \in {"closing", "ended"} /\ run[r].outcome = "completed" => step[k].pc = "done"
        BY <1>5, <2>1 DEF StepBook
      <4> QED BY <2>1, <4>1, Pcs
    <3> QED BY <1>1, <1>3, <1>6, <1>11, <2>1, <2>2, <2>3, <2>4, <3>1, <3>2, Pcs DEF StepBook, Unbegun, Decided
  <2>5. CASE j # k
    BY <1>1, <1>3, <1>4, <1>11, <2>1, <2>2, <2>3, <2>5 DEF StepBook
  <2> QED BY <2>4, <2>5
<1> QED BY <1>8, <1>9, <1>10, <1>11

LEMMA MovesPlans ==
    ASSUME CTypes, NEW k \in Work, Moves(k), NEW j \in Work
    PROVE  PlanOf(j)' = PlanOf(j)
<1>1. run \in [Runs -> RunType] /\ RunOf(k) \in Runs /\ RunOf(j) \in Runs /\ run[RunOf(k)] \in RunType
  BY WorkIs, RunFields DEF CTypes, RunOf
<1>2. CASE IsDone(k)
  <2> DEFINE a == IF Back(k) # NoRun THEN run[RunOf(k)].at + 1 ELSE run[RunOf(k)].at
  <2>1. run' = [run EXCEPT ![RunOf(k)] = [run[RunOf(k)] EXCEPT !.at = a]]
    BY <1>1, <1>2 DEF IsDone
  <2>2. [run[RunOf(k)] EXCEPT !.at = a].plan = run[RunOf(k)].plan
    BY <1>1 DEF RunType
  <2> HIDE DEF a
  <2>3. run'[RunOf(j)].plan = run[RunOf(j)].plan
    BY <1>1, <2>1, <2>2
  <2> QED BY <2>3 DEF PlanOf, RunOf
<1> QED BY <1>2 DEF Moves, HoldsOn, HasRaised, PlanOf, RunOf

\* Whoever holds a permit beside the one that moves, under its step id, is not alone with it.
LEMMA MoverAlone ==
    ASSUME CoordInv, NEW k \in Work, MayMove(k), NEW j \in Work, step[j].pc \in Holding, Alone(j),
           RunOf(j) = RunOf(k), IdOf(j) = IdOf(k)
    PROVE  j = k
<1> DEFINE r == RunOf(k)
<1>1. r \in Runs /\ k[2] <= run[r].plan.n /\ PlanOf(j) = run[r].plan /\ PlanOf(k) = run[r].plan
  BY MoverIs, WorkIs DEF PlanOf
<1>2. CASE Parallel(run[r].plan)
  <2>1. k \in StepsOf(RunOf(j))
    BY <1>1 DEF StepsOf
  <2> QED BY <1>1, <1>2, <2>1 DEF Alone
<1>3. CASE ~Parallel(run[r].plan)
  <2>1. run[r].pc = "seq" /\ k[2] = run[r].at
    BY <1>3, MoverIs
  <2>2. j[2] \in Nat /\ run[r].at \in Nat /\ StepBook(j)
    BY <1>1, WorkIs, RunFields, Numbers DEF CoordInv
  <2>3. j[2] = run[r].at
    BY <2>1, <2>2, Pcs DEF StepBook
  <2> QED BY <2>1, <2>3, SameWork DEF RunOf
<1> QED BY <1>2, <1>3

LEMMA MovesTable == ASSUME CoordInv, NEW k \in Work, Moves(k) PROVE TableBook'
<1>1. RunOf(k) \in Runs /\ IdOf(k) \in Steps /\ k # NoWork /\ active \in [Steps -> Work \cup {NoWork}] /\ CTypes
  BY WorkIs, IdIs DEF RunOf, CoordInv, CTypes
<1>2. TableBook
  BY DEF CoordInv
<1>3. \/ active' = active /\ step[k].pc \in Holding
      \/ active' = [active EXCEPT ![IdOf(k)] = NoWork]
      \/ active' = [active EXCEPT ![IdOf(k)] = k]
  BY DEF Moves, HoldsOn, IsDone, HasRaised, Recorded, Popped
<1>4. \A s \in Steps: active'[s] = active[s] \/ (s = IdOf(k) /\ active'[s] \in {NoWork, k})
  BY <1>1, <1>3
<1>5. \A j \in Work: IdOf(j)' = IdOf(j) /\ IdOf(j) \in Steps /\ (Alone(j)' <=> Alone(j))
  BY <1>1, MovesPlans, AloneIs, IdIs
<1>6. \A j \in Work: step[j].pc # "none" => step'[j].pc # "none"
  BY Pcs DEF Moves, OthersStay, HoldsOn, IsDone, HasRaised
<1>7. step'[k].pc # "none"
  BY Pcs DEF Moves, HoldsOn, IsDone, HasRaised
<1>8. ASSUME NEW s \in Steps, active'[s] # NoWork
      PROVE  IdOf(active[s])' = s /\ step'[active'[s]].pc # "none"
  <2>1. PICK j \in Work: active'[s] = j /\ IdOf(j) = s /\ step'[j].pc # "none"
    <3>1. CASE active'[s] = active[s]
      <4>1. active[s] \in Work /\ IdOf(active[s]) = s /\ step[active[s]].pc # "none"
        BY <1>1, <1>2, <1>8, <3>1 DEF TableBook
      <4> QED BY <1>6, <3>1, <4>1
    <3>2. CASE active'[s] # active[s]
      BY <1>4, <1>7, <1>8, <3>2
    <3> QED BY <3>1, <3>2
  <2>2. IdOf(j)' = s
    BY <1>5, <2>1
  <2> QED BY <2>1, <2>2 DEF IdOf, PlanOf, RunOf
<1>9. ASSUME ~overlapped', hurt' = {}, NEW j \in Work
      PROVE  /\ active'[IdOf(j)] = j => step'[j].pc \in Holding
             /\ step'[j].pc \in Holding /\ Alone(j) => active'[IdOf(j)] = j
  <2>1. ~overlapped /\ hurt = {} /\ ~HasRaised(k)
    BY <1>9 DEF Moves, OthersStay, HoldsOn, IsDone, HasRaised
  <2>2. \A i \in Work: /\ active[IdOf(i)] = i => step[i].pc \in Holding
                       /\ step[i].pc \in Holding /\ Alone(i) => active[IdOf(i)] = i
    BY <1>2, <2>1 DEF TableBook
  <2>3. ASSUME NEW i \in Work, step[i].pc \in Holding PROVE RunOf(i) = RunOf(k)
    <3>1. RunOf(i) \in Runs /\ run[RunOf(i)].pc \in {"seq", "par"}
      BY <2>1, <2>3, WorkIs, Pcs DEF CoordInv, StepBook, RunOf
    <3>2. run[RunOf(k)].pc \in {"seq", "par"}
      BY <2>1, MoverIs DEF Moves
    <3> QED BY <1>1, <2>1, <3>1, <3>2 DEF CoordInv, BusyBook, InFlight
  <2>4. IdOf(j) \in Steps /\ j # NoWork
    BY <1>5, WorkIs
  <2>5. CASE j = k
    <3>1. CASE HoldsOn(k)
      BY <1>1, <2>2, <2>5, <3>1 DEF HoldsOn, Recorded
    <3>2. CASE IsDone(k)
      BY <1>1, <2>5, <3>2, Pcs DEF IsDone, Popped
    <3> QED BY <2>1, <3>1, <3>2 DEF Moves
  <2>6. CASE j # k
    <3>1. step'[j] = step[j]
      BY <2>6 DEF Moves, OthersStay
    <3>2. CASE IdOf(j) # IdOf(k)
      <4>1. active'[IdOf(j)] = active[IdOf(j)]
        BY <1>4, <2>4, <3>2
      <4> QED BY <2>2, <3>1, <4>1
    <3>3. CASE IdOf(j) = IdOf(k)
      <4>1. ~(step[j].pc \in Holding /\ Alone(j))
        BY <2>3, <2>6, <3>3, MoverAlone DEF Moves
      <4>2. active'[IdOf(j)] = j => active[IdOf(j)] = j
        BY <1>4, <2>4, <2>6
      <4> QED BY <2>2, <3>1, <4>1, <4>2
    <3> QED BY <3>2, <3>3
  <2> QED BY <2>5, <2>6
<1> QED BY <1>5, <1>8, <1>9 DEF TableBook

LEMMA MovesRest == ASSUME CoordInv, NEW k \in Work, Moves(k) PROVE AskedBook' /\ BusyBook' /\ CancelBook'
<1>1. \A q \in Runs: run'[q].pc = run[q].pc /\ run'[q].outcome = run[q].outcome
  <2>1. run \in [Runs -> RunType] /\ RunOf(k) \in Runs
    BY WorkIs DEF CoordInv, CTypes, RunOf
  <2>2. CASE IsDone(k)
    <3> DEFINE a == IF Back(k) # NoRun THEN run[RunOf(k)].at + 1 ELSE run[RunOf(k)].at
    <3>1. run' = [run EXCEPT ![RunOf(k)] = [run[RunOf(k)] EXCEPT !.at = a]]
      BY <2>1, <2>2 DEF IsDone
    <3>2. /\ [run[RunOf(k)] EXCEPT !.at = a].pc = run[RunOf(k)].pc
          /\ [run[RunOf(k)] EXCEPT !.at = a].outcome = run[RunOf(k)].outcome
      BY <2>1 DEF RunType
    <3> QED BY <2>1, <3>1, <3>2
  <2> QED BY <2>2 DEF Moves, HoldsOn, HasRaised
<1>2. UNCHANGED <<coord, cancel, cancels, asked, caught, overlapped>>
  BY DEF Moves, OthersStay
<1>3. hurt \subseteq hurt'
  BY DEF Moves, HoldsOn, IsDone, HasRaised
<1>4. AskedBook'
  <2>1. asked \subseteq Runs /\ AskedBook
    BY DEF CoordInv, CTypes
  <2> QED BY <1>1, <1>2, <2>1 DEF AskedBook, InFlight
<1>5. BusyBook'
  BY <1>1, <1>2 DEF CoordInv, BusyBook, InFlight, Core, MayRun
<1>6. ASSUME NEW j \in caught
      PROVE  step'[j].pc \notin {"none", "queued", "starting"} /\ step'[j].job \notin {"none", "created"}
  <2>1. j \in Work /\ step[j].pc \notin {"none", "queued", "starting"} /\ step[j].job \notin {"none", "created"}
    BY DEF CoordInv, CTypes, CancelBook
  <2>2. CASE j = k
    BY <2>1, <2>2 DEF Moves, OthersStay
  <2>3. CASE j # k
    BY <2>1, <2>3 DEF Moves, OthersStay
  <2> QED BY <2>2, <2>3
<1>7. CancelBook'
  BY <1>2, <1>6 DEF CoordInv, CancelBook
<1> QED BY <1>4, <1>5, <1>7

LEMMA MovesKeep == ASSUME CoordInv, NEW k \in Work, Moves(k) PROVE CoordInv'
  BY MovesTypes, MovesBooks, MovesTable, MovesRest DEF CoordInv

-----------------------------------------------------------------------------
\* The steps of a worker.
LEMMA StepChanged ==
    ASSUME CTypes, NEW k \in Work, NEW x \in StepType, step' = [step EXCEPT ![k] = x]
    PROVE  /\ step' \in [Work -> StepType] /\ step'[k] = x /\ \A j \in Work: j # k => step'[j] = step[j]
  BY DEF CTypes

LEMMA StepTurned ==
    ASSUME CTypes, NEW k \in Work, NEW pc \in StepPcs, NEW o \in BOOLEAN
    PROVE  LET x == [step[k] EXCEPT !.pc = pc, !.ok = o] IN
           step[k] \in StepType /\ x \in StepType /\ x.pc = pc /\ x.job = step[k].job
<1> DEFINE y == step[k]
<1>1. y \in StepType
  BY StepFields
<1> HIDE DEF y
<1>2. LET x == [y EXCEPT !.pc = pc, !.ok = o] IN x \in StepType /\ x.pc = pc /\ x.job = y.job
  BY <1>1, StepTurns
<1> QED BY <1>1, <1>2 DEF y

LEMMA RaisesIs ==
    ASSUME CTypes, NEW k \in Work, NEW table, Raises(k, table), table \in {Popped(k, FALSE), Recorded(k)},
           UNCHANGED <<coord, cancel, cancels, asked, caught, overlapped>>
    PROVE  OthersStay(k) /\ HasRaised(k)
<1> DEFINE x == [step[k] EXCEPT !.pc = "raised", !.ok = FALSE]
<1>1. step[k] \in StepType /\ x \in StepType /\ x.pc = "raised" /\ x.job = step[k].job
  <2>1. "raised" \in StepPcs
    BY Pcs
  <2> QED BY <2>1, StepTurned
<1>2. step' = [step EXCEPT ![k] = x]
  BY DEF Raises, CTypes
<1>3. step' \in [Work -> StepType] /\ step'[k] = x /\ \A j \in Work: j # k => step'[j] = step[j]
  BY <1>1, <1>2, StepChanged
<1> QED BY <1>1, <1>3 DEF Raises, OthersStay, HasRaised

LEMMA DoneIs ==
    ASSUME CTypes, NEW k \in Work, NEW ok \in BOOLEAN, Done(k, ok), step[k].pc \in Holding,
           UNCHANGED <<coord, cancel, cancels, asked, caught, overlapped>>
    PROVE  OthersStay(k) /\ IsDone(k)
<1> DEFINE x == [step[k] EXCEPT !.pc = "done", !.ok = ok]
<1>1. step[k] \in StepType /\ x \in StepType /\ x.pc = "done" /\ x.job = step[k].job
  <2>1. "done" \in StepPcs
    BY Pcs
  <2> QED BY <2>1, StepTurned
<1>2. step' = [step EXCEPT ![k] = x]
  BY DEF Done, CTypes
<1>3. step' \in [Work -> StepType] /\ step'[k] = x /\ \A j \in Work: j # k => step'[j] = step[j]
  BY <1>1, <1>2, StepChanged
<1> QED BY <1>1, <1>3 DEF Done, OthersStay, IsDone, Popped

LEMMA ReportsIs ==
    ASSUME CTypes, NEW k \in Work, NEW ok \in BOOLEAN, Reports(k, ok), step[k].pc \in Holding,
           UNCHANGED <<coord, cancel, cancels, asked, caught, overlapped>>
    PROVE  OthersStay(k) /\ (HoldsOn(k) \/ IsDone(k) \/ HasRaised(k))
<1>1. CASE Done(k, ok)
  BY <1>1, DoneIs
<1>2. CASE Raises(k, Popped(k, ok))
  <2>1. Popped(k, ok) = Popped(k, FALSE)
    BY DEF Popped
  <2> QED BY <1>2, <2>1, RaisesIs
<1>3. CASE /\ step' = [step EXCEPT ![k].pc = "reporting", ![k].ok = ok]
           /\ turn' = NoRun /\ UNCHANGED <<active, run, hurt>>
  <2> DEFINE x == [step[k] EXCEPT !.pc = "reporting", !.ok = ok]
  <2>1. step[k] \in StepType /\ x \in StepType /\ x.pc = "reporting" /\ x.job = step[k].job
    <3>1. "reporting" \in StepPcs
      BY Pcs
    <3> QED BY <3>1, StepTurned
  <2>2. step' = [step EXCEPT ![k] = x]
    BY <1>3 DEF CTypes
  <2>3. step' \in [Work -> StepType] /\ step'[k] = x /\ \A j \in Work: j # k => step'[j] = step[j]
    BY <2>1, <2>2, StepChanged
  <2> QED BY <1>3, <2>1, <2>3, Pcs DEF OthersStay, HoldsOn
<1> QED BY <1>1, <1>2, <1>3 DEF Reports, Event

LEMMA NotCaught ==
    ASSUME CoordInv, NEW k \in Work, step[k].pc \in {"none", "queued", "starting"} PROVE k \notin caught
  BY DEF CoordInv, CancelBook

LEMMA ExecutesIs ==
    ASSUME CoordInv, NEW k \in Work, step[k].pc \in {"none", "queued", "starting"},
           NEW table, table = IF step[k].pc \in Holding THEN active ELSE Recorded(k),
           WorkerExecutes(k, table), UNCHANGED <<coord, cancel, cancels, asked, caught, overlapped>>
    PROVE  OthersStay(k) /\ (HoldsOn(k) \/ HasRaised(k))
<1>1. CTypes /\ k \notin caught /\ k[2] \in Steps
  BY NotCaught, WorkIs DEF CoordInv
<1>2. CASE k[2] \in PlanOf(k).unknown
  <2>1. [table EXCEPT ![IdOf(k)] = NoWork] = Popped(k, FALSE)
    BY <1>1, IdIs DEF CTypes, Popped, Recorded
  <2> QED BY <1>1, <1>2, <2>1, RaisesIs DEF WorkerExecutes
<1>3. CASE k[2] \notin PlanOf(k).unknown
  <2> DEFINE x == IF PlanOf(k).task THEN [NoWorker EXCEPT !.pc = "launching", !.job = "created"]
                                    ELSE [NoWorker EXCEPT !.pc = "executing", !.job = "running"]
  <2>1. x \in StepType /\ x.pc \in {"launching", "executing"}
    BY Pcs DEF NoWorker, StepType, JobStatus
  <2>2. step' = [step EXCEPT ![k] = x] /\ active' = table /\ turn' = NoRun /\ UNCHANGED <<run, hurt>>
    BY <1>3 DEF WorkerExecutes
  <2>3. step' \in [Work -> StepType] /\ step'[k] = x /\ \A j \in Work: j # k => step'[j] = step[j]
    BY <1>1, <2>1, <2>2, StepChanged
  <2> QED BY <1>1, <2>1, <2>2, <2>3, Pcs DEF OthersStay, HoldsOn
<1> QED BY <1>2, <1>3

LEMMA BeginStepIs ==
    ASSUME CoordInv, NEW k \in Work, MayMove(k), step[k].pc \in {"none", "queued"}, BeginStep(k)
    PROVE  Moves(k)
<1> DEFINE table == [active EXCEPT ![IdOf(k)] = k]
<1>1. CTypes /\ k \notin caught /\ step[k].pc \notin Holding /\ table = Recorded(k)
      /\ UNCHANGED <<coord, cancel, cancels, asked, caught, overlapped>>
  BY NotCaught, Pcs DEF CoordInv, BeginStep, history, Recorded
<1>2. CASE WorkerExecutes(k, table)
  BY <1>1, <1>2, ExecutesIs DEF Moves
<1>3. CASE Raises(k, table)
  BY <1>1, <1>3, RaisesIs DEF Moves
<1>4. CASE /\ step' = [step EXCEPT ![k].pc = "starting"]
           /\ active' = table /\ turn' = NoRun /\ UNCHANGED <<run, hurt>>
  <2> DEFINE x == [step[k] EXCEPT !.pc = "starting"]
  <2>1. step[k] \in StepType /\ x \in StepType /\ x.pc = "starting"
    BY <1>1, Pcs DEF CTypes, StepType
  <2>2. step' = [step EXCEPT ![k] = x]
    BY <1>1, <1>4 DEF CTypes
  <2>3. step' \in [Work -> StepType] /\ step'[k] = x /\ \A j \in Work: j # k => step'[j] = step[j]
    BY <1>1, <2>1, <2>2, StepChanged
  <2> QED BY <1>1, <1>4, <2>1, <2>3, Pcs DEF Moves, OthersStay, HoldsOn
<1> QED BY <1>2, <1>3, <1>4 DEF BeginStep, Event

LEMMA SeqStepMoves ==
    ASSUME CoordInv, NEW r \in Runs, SeqStep(r)
    PROVE  \E k \in Work: Moves(k) /\ step[k].pc = "none" /\ BeginStep(k)
<1> DEFINE k == <<r, run[r].at>>
<1>1. run[r].pc = "seq" /\ turn = r /\ ~MustFail(r) /\ run[r].at <= run[r].plan.n /\ BeginStep(k)
      /\ run[r].at \in Nat \ {0} /\ run[r].plan.n \in 0..NSteps /\ NSteps \in Nat
  <2>1. run[r].at \in 1..(NSteps + 1) /\ run[r].plan.n \in Nat /\ run[r].plan.n <= NSteps
    BY RunFields DEF CoordInv
  <2>2. run[r].at \in Nat \ {0}
    BY <2>1, Numbers
  <2>3. ~(run[r].at > run[r].plan.n)
    BY DEF SeqStep, SeqOver
  <2>4. run[r].plan.n \in 0..NSteps
    BY <2>1, Numbers
  <2> QED BY <2>2, <2>3, <2>4, Numbers DEF SeqStep
<1>2. k \in Work /\ RunOf(k) = r /\ k[2] = run[r].at
  <2>1. run[r].at \in Steps
    BY <1>1 DEF Steps
  <2> QED BY <2>1 DEF Work, RunOf
<1>3. step[k].pc = "none"
  <2>1. step[k].pc \in {"none", "raised"}
    BY <1>1, <1>2 DEF CoordInv, StepBook
  <2>2. k \in StepsOf(r)
    BY <1>1, <1>2 DEF StepsOf
  <2> QED BY <1>1, <2>1, <2>2 DEF MustFail
<1>4. MayMove(k)
  BY <1>1, <1>2, <1>3 DEF MayMove
<1> HIDE DEF k
<1> QED BY <1>1, <1>2, <1>3, <1>4, BeginStepIs

LEMMA ParStepMoves ==
    ASSUME CoordInv, NEW k \in Work, ParStep(k)
    PROVE  Moves(k) /\ step[k].pc = "queued" /\ BeginStep(k)
<1>1. MayMove(k) /\ step[k].pc = "queued" /\ BeginStep(k)
  BY DEF ParStep, MayMove
<1> QED BY <1>1, BeginStepIs

LEMMA WorkersMove ==
    ASSUME CoordInv, NEW k \in Work, StepStarted(k) \/ JobEnds(k) \/ TaskReturns(k) \/ Reported(k)
    PROVE  Moves(k)
<1>1. CTypes /\ step[k].ok \in BOOLEAN
  BY StepFields DEF CoordInv
<1>2. FreeTurn /\ step[k].pc \in Holding /\ UNCHANGED <<coord, cancel, cancels, asked, caught, overlapped>>
  BY Pcs DEF StepStarted, JobEnds, TaskReturns, Reported, history
<1>3. MayMove(k)
  BY <1>2 DEF MayMove
<1>4. OthersStay(k) /\ (HoldsOn(k) \/ IsDone(k) \/ HasRaised(k))
  <2>1. CASE StepStarted(k)
    <3>1. step[k].pc = "starting" /\ WorkerExecutes(k, active)
      BY <2>1 DEF StepStarted
    <3> QED BY <1>2, <3>1, ExecutesIs
  <2>2. CASE Reported(k)
    BY <1>1, <1>2, <2>2, DoneIs DEF Reported
  <2>3. CASE JobEnds(k) \/ TaskReturns(k)
    <3>1. PICK ok \in BOOLEAN: Reports(k, ok)
      BY <2>3 DEF JobEnds, TaskReturns
    <3> QED BY <1>1, <1>2, <3>1, ReportsIs
  <2> QED BY <2>1, <2>2, <2>3
<1> QED BY <1>3, <1>4 DEF Moves

-----------------------------------------------------------------------------
\* Tasks begin and end, and signals arrive, while the workers wait.
LEMMA InnerBooks ==
    ASSUME CoordInv, UNCHANGED <<active, run, turn, hurt, overlapped>>,
           \A k \in Work: \/ step'[k].pc = step[k].pc
                          \/ step[k].pc = "launching" /\ step'[k].pc = "waiting",
           \A k \in Work: step'[k].ok = step[k].ok
    PROVE  (\A r \in Runs: RunBook(r)') /\ (\A k \in Work: StepBook(k)') /\ TableBook'
<1>1. \A r \in Runs: RunBook(r)'
  BY DEF CoordInv, RunBook
<1>2. ASSUME NEW k \in Work
      PROVE  /\ step'[k].pc \in Holding <=> step[k].pc \in Holding
             /\ \A x \in {"none", "queued", "raised", "done"}: step'[k].pc = x <=> step[k].pc = x
  BY Pcs
<1>3. ASSUME NEW k \in Work PROVE StepBook(k)'
  <2>1. StepBook(k)
    BY DEF CoordInv
  <2>2. \A x \in {"none", "queued", "raised", "done"}: step'[k].pc = x <=> step[k].pc = x
    BY <1>2
  <2>3. /\ step'[k].pc = "none" <=> step[k].pc = "none"
        /\ step'[k].pc = "queued" <=> step[k].pc = "queued"
        /\ step'[k].pc = "raised" <=> step[k].pc = "raised"
        /\ step'[k].pc = "done" <=> step[k].pc = "done"
        /\ step'[k].pc \in Holding <=> step[k].pc \in Holding
    BY <1>2, <2>2
  <2> QED BY <2>1, <2>3 DEF StepBook, RunOf
<1>4. TableBook'
  <2>1. run' \in [Runs -> RunType] /\ \A k \in Work: PlanOf(k)' = PlanOf(k)
    BY DEF CoordInv, CTypes, PlanOf, RunOf
  <2> QED BY <1>2, <2>1, TableStays
<1> QED BY <1>1, <1>3, <1>4

\* What one worker's task does by itself.
LEMMA InnerKeeps ==
    ASSUME CoordInv, NEW k \in Work, NEW x \in StepType, step' = [step EXCEPT ![k] = x],
           x.pc = step[k].pc \/ (step[k].pc = "launching" /\ x.pc = "waiting"), x.ok = step[k].ok,
           k \in caught => x.job \notin {"none", "created"},
           UNCHANGED <<coord, active, run, cancel, turn, cancels, history, hurt>>
    PROVE  CoordInv'
<1>1. step' \in [Work -> StepType] /\ step'[k] = x /\ \A j \in Work: j # k => step'[j] = step[j]
  BY StepChanged DEF CoordInv
<1>2. UNCHANGED <<coord, active, run, cancel, turn, cancels, asked, caught, hurt, overlapped>>
  BY DEF history
<1>3. CTypes'
  BY <1>1, <1>2 DEF CoordInv, CTypes
<1>4. (\A r \in Runs: RunBook(r)') /\ (\A j \in Work: StepBook(j)') /\ TableBook'
  <2>1. ASSUME NEW j \in Work
        PROVE  /\ \/ step'[j].pc = step[j].pc
                  \/ step[j].pc = "launching" /\ step'[j].pc = "waiting"
               /\ step'[j].ok = step[j].ok
    BY <1>1
  <2> QED BY <1>2, <2>1, InnerBooks
<1>5. AskedBook' /\ BusyBook'
  BY <1>2 DEF CoordInv, AskedBook, BusyBook, InFlight, Core, MayRun
<1>6. CancelBook'
  <2>1. CancelBook /\ caught \subseteq Work
    BY DEF CoordInv, CTypes
  <2>2. ASSUME NEW j \in caught
        PROVE  step'[j].pc \notin {"none", "queued", "starting"} /\ step'[j].job \notin {"none", "created"}
    <3>1. CASE j = k
      BY <1>1, <2>1, <3>1 DEF CancelBook
    <3>2. CASE j # k
      BY <1>1, <2>1, <3>2 DEF CancelBook
    <3> QED BY <3>1, <3>2
  <2> QED BY <1>2, <2>1, <2>2 DEF CancelBook
<1> QED BY <1>3, <1>4, <1>5, <1>6 DEF CoordInv

LEMMA WaitsSet ==
    ASSUME NEW x \in StepType
    PROVE  LET y == [x EXCEPT !.pc = "waiting"]
           IN y \in StepType /\ y.pc = "waiting" /\ y.ok = x.ok /\ y.job = x.job /\ y.signal = x.signal
  BY DEF StepType, StepPcs, Holding

LEMMA JobSet ==
    ASSUME NEW x \in StepType, NEW j \in JobStatus
    PROVE  LET y == [x EXCEPT !.job = j]
           IN y \in StepType /\ y.pc = x.pc /\ y.ok = x.ok /\ y.job = j /\ y.signal = x.signal
  BY DEF StepType

LEMMA SignalSet ==
    ASSUME NEW x \in StepType, NEW g \in {"aborted", "cancelled"}
    PROVE  LET y == [x EXCEPT !.signal = g]
           IN y \in StepType /\ y.pc = x.pc /\ y.ok = x.ok /\ y.job = x.job /\ y.signal = g
  BY DEF StepType

LEMMA TasksKeep ==
    ASSUME CoordInv, NEW k \in Work,
           Launched(k) \/ JobBegins(k) \/ TaskEnds(k) \/ WorkerTimesOut(k)
    PROVE  CoordInv'
<1>1. step[k] \in StepType /\ step \in [Work -> StepType]
  BY DEF CoordInv, CTypes
<1>2. k \in caught => step[k].job \notin {"none", "created"}
  BY DEF CoordInv, CancelBook
<1>3. CASE Launched(k)
  <2> DEFINE x == [step[k] EXCEPT !.pc = "waiting"]
  <2>2. step' = [step EXCEPT ![k] = x]
    BY <1>1, <1>3 DEF Launched
  <2>3. step[k].pc = "launching"
    BY <1>3 DEF Launched, JobStatus, Results
  <2>4. x \in StepType /\ x.pc = "waiting" /\ x.job = step[k].job /\ x.ok = step[k].ok /\ x.signal = step[k].signal
    BY <1>1, WaitsSet
  <2> HIDE DEF x
  <2> QED BY <1>2, <1>3, <2>2, <2>3, <2>4, InnerKeeps DEF Launched
<1>4. CASE JobBegins(k)
  <2>1. PICK j \in {"cancelled", "running"}: step' = [step EXCEPT ![k] = [step[k] EXCEPT !.job = j]]
    BY <1>1, <1>4 DEF JobBegins
  <2> DEFINE x == [step[k] EXCEPT !.job = j]
  <2>2. step' = [step EXCEPT ![k] = x]
    BY <1>1, <1>4, <2>1 DEF JobBegins
  <2>3. step[k].job = "created" /\ j \in JobStatus
    BY <1>4, <2>1 DEF JobBegins, JobStatus, Results
  <2>4. x \in StepType /\ x.pc = step[k].pc /\ x.ok = step[k].ok /\ x.signal = step[k].signal
    BY <1>1, <2>1, <2>3, JobSet
  <2> HIDE DEF x
  <2> QED BY <1>2, <1>4, <2>1, <2>2, <2>3, <2>4, InnerKeeps DEF JobBegins
<1>5. CASE TaskEnds(k)
  <2>1. PICK j \in Results(k): step' = [step EXCEPT ![k] = [step[k] EXCEPT !.job = j]]
    BY <1>1, <1>5 DEF TaskEnds
  <2> DEFINE x == [step[k] EXCEPT !.job = j]
  <2>2. step' = [step EXCEPT ![k] = x]
    BY <1>1, <1>5, <2>1 DEF TaskEnds
  <2>3. step[k].job = "running" /\ j \in JobStatus /\ j \notin {"none", "created", "running"}
    BY <1>5, <2>1 DEF TaskEnds, JobStatus, Results
  <2>4. x \in StepType /\ x.pc = step[k].pc /\ x.job = j /\ x.ok = step[k].ok /\ x.signal = step[k].signal
    BY <1>1, <2>1, <2>3, JobSet
  <2> HIDE DEF x
  <2> QED BY <1>2, <1>5, <2>1, <2>2, <2>3, <2>4, InnerKeeps DEF TaskEnds
<1>6. CASE WorkerTimesOut(k)
  <2> DEFINE x == [step[k] EXCEPT !.signal = "cancelled"]
  <2>2. step' = [step EXCEPT ![k] = x]
    BY <1>1, <1>6 DEF WorkerTimesOut
  <2>3. step[k].pc = "waiting"
    BY <1>6 DEF WorkerTimesOut, JobStatus, Results
  <2>4. x \in StepType /\ x.pc = step[k].pc /\ x.job = step[k].job /\ x.ok = step[k].ok /\ x.signal = "cancelled"
    BY <1>1, SignalSet
  <2> HIDE DEF x
  <2> QED BY <1>2, <1>6, <2>2, <2>3, <2>4, InnerKeeps DEF WorkerTimesOut
<1> QED BY <1>3, <1>4, <1>5, <1>6

-----------------------------------------------------------------------------
\* A cancel_current, as far as it gets without waiting.
Signals(table) ==
    /\ table \in [Work -> StepType]
    /\ \A k \in Work: /\ table[k].pc = step[k].pc /\ table[k].ok = step[k].ok /\ table[k].job = step[k].job
                      /\ table[k].signal = step[k].signal \/ table[k].signal # "none"

Reached(S) == {registry[RunId(j)]: j \in {i \in S: AtWork(i)}}

LEMMA AbortedIs ==
    ASSUME CTypes, NEW S
    PROVE  Signals(Aborted(S)) /\ \A k \in Work: k \in Reached(S) => Aborted(S)[k].signal # "none"
<1>1. Aborted(S) = [k \in Work |-> IF k \in Reached(S) /\ step[k].signal = "none"
                                   THEN [step[k] EXCEPT !.signal = "aborted"] ELSE step[k]]
  BY DEF Aborted, Reached
<1>2. ASSUME NEW k \in Work
      PROVE  /\ Aborted(S)[k] \in StepType
             /\ Aborted(S)[k].pc = step[k].pc /\ Aborted(S)[k].ok = step[k].ok
             /\ Aborted(S)[k].job = step[k].job
             /\ Aborted(S)[k].signal = step[k].signal \/ Aborted(S)[k].signal # "none"
             /\ k \in Reached(S) => Aborted(S)[k].signal # "none"
  <2> DEFINE y == [step[k] EXCEPT !.signal = "aborted"]
  <2>1. step[k] \in StepType
    BY StepFields
  <2>2. y \in StepType /\ y.pc = step[k].pc /\ y.ok = step[k].ok /\ y.job = step[k].job /\ y.signal = "aborted"
    BY <2>1, SignalSet
  <2>3. IF k \in Reached(S) /\ step[k].signal = "none"
        THEN Aborted(S)[k] = y ELSE Aborted(S)[k] = step[k]
    BY <1>1
  <2> HIDE DEF y
  <2> QED BY <2>1, <2>2, <2>3
<1>3. Aborted(S) \in [Work -> StepType]
  BY <1>1, <1>2
<1> QED BY <1>2, <1>3 DEF Signals

\* A worker is left for later, or told, or one of those that were told of what is under their id.
Heard(k, left) ==
    \/ k \in cancel'.left \/ step'[k].signal # "none"
    \/ \E S \in SUBSET left: k \in S /\ \A j \in Work: j \in Reached(S) => step'[j].signal # "none"

LEMMA AskTells ==
    ASSUME CTypes, NEW waited, NEW left \in SUBSET Work, NEW c \in [status: RunStatus, asked: BOOLEAN],
           Ask(waited, left, c)
    PROVE  /\ Signals(step')
           /\ coord' \in [status: RunStatus, asked: BOOLEAN]
           /\ coord'.asked = c.asked /\ coord'.status \in {c.status, "cancelled"}
           /\ cancel' \in [on: BOOLEAN, awaits: Work \cup {NoWork}, left: SUBSET Work]
           /\ ~cancel'.on => cancel'.left = {}
           /\ \A k \in left: Heard(k, left)
<1> DEFINE tasks == {k \in left: step[k].pc = "waiting"}
<1>1. CASE tasks = {}
  <2>1. /\ step' = Aborted(waited \cup left) /\ coord' = [c EXCEPT !.status = "cancelled"]
        /\ cancel' = NotCancelling
    BY <1>1 DEF Ask
  <2>2. coord' \in [status: RunStatus, asked: BOOLEAN] /\ coord'.asked = c.asked
        /\ coord'.status = "cancelled" /\ cancel' \in [on: BOOLEAN, awaits: Work \cup {NoWork}, left: SUBSET Work]
        /\ cancel'.left = {}
    BY <2>1 DEF RunStatus, NotCancelling
  <2>3. Reached(left) \subseteq Reached(waited \cup left)
    BY DEF Reached
  <2>4. Signals(step') /\ \A k \in Work: k \in Reached(left) => step'[k].signal # "none"
    BY <2>1, <2>3, AbortedIs
  <2>5. \A k \in left: Heard(k, left)
    BY <2>4 DEF Heard
  <2> QED BY <2>1, <2>2, <2>4, <2>5
<1>2. CASE tasks # {}
  <2>1. PICK k \in tasks, before \in SUBSET (left \ tasks):
            /\ step' = [Aborted(waited \cup before) EXCEPT ![k].signal = "cancelled"]
            /\ cancel' = [on |-> TRUE, awaits |-> k, left |-> left \ (before \cup {k})]
            /\ coord' = c
    BY <1>2 DEF Ask
  <2> DEFINE table == Aborted(waited \cup before)
             x == [table[k] EXCEPT !.signal = "cancelled"]
  <2>2. k \in Work /\ Signals(table) /\ table \in [Work -> StepType] /\ table[k] \in StepType
        /\ \A j \in Work: j \in Reached(waited \cup before) => table[j].signal # "none"
    BY AbortedIs DEF Signals
  <2>3. step' = [table EXCEPT ![k] = x]
    BY <2>1, <2>2
  <2>4. x \in StepType /\ x.pc = table[k].pc /\ x.ok = table[k].ok
        /\ x.job = table[k].job /\ x.signal = "cancelled"
    BY <2>2, SignalSet
  <2> HIDE DEF x, table
  <2>5. step' \in [Work -> StepType] /\ step'[k] = x /\ \A j \in Work: j # k => step'[j] = table[j]
    BY <2>2, <2>3, <2>4
  <2>6. Signals(step')
    BY <2>2, <2>4, <2>5 DEF Signals
  <2>7. \A j \in Work: j \in Reached(before) => step'[j].signal # "none"
    <3>1. Reached(before) \subseteq Reached(waited \cup before)
      BY DEF Reached
    <3> QED BY <2>2, <2>4, <2>5, <3>1
  <2>8. cancel'.on /\ cancel'.left = left \ (before \cup {k})
        /\ cancel' \in [on: BOOLEAN, awaits: Work \cup {NoWork}, left: SUBSET Work]
    BY <2>1, <2>2
  <2>9. before \in SUBSET left /\ step'[k].signal # "none"
    BY <2>4, <2>5
  <2>10. ASSUME NEW j \in left PROVE Heard(j, left)
    <3>1. CASE j \in before
      BY <2>7, <2>9, <3>1 DEF Heard
    <3>2. CASE j \notin before
      BY <2>8, <2>9, <3>2 DEF Heard
    <3> QED BY <3>1, <3>2
  <2> QED BY <2>1, <2>6, <2>8, <2>10
<1> QED BY <1>1, <1>2

LEMMA AskIs ==
    ASSUME CTypes, NEW waited, NEW left \in SUBSET Work, NEW c \in [status: RunStatus, asked: BOOLEAN],
           Ask(waited, left, c)
    PROVE  /\ Signals(step')
           /\ coord' \in [status: RunStatus, asked: BOOLEAN]
           /\ coord'.asked = c.asked /\ coord'.status \in {c.status, "cancelled"}
           /\ cancel' \in [on: BOOLEAN, awaits: Work \cup {NoWork}, left: SUBSET Work]
           /\ ~cancel'.on => cancel'.left = {}
  BY AskTells

\* What both steps of a cancel_current have in common.
LEMMA AskedKeeps ==
    ASSUME CoordInv, Signals(step'), coord' \in [status: RunStatus, asked: BOOLEAN],
           cancel' \in [on: BOOLEAN, awaits: Work \cup {NoWork}, left: SUBSET Work],
           coord'.status \in {coord.status, "cancelled"}, cancels' \in Nat, cancels' # 0, asked' \in SUBSET Runs,
           caught' \in SUBSET Work,
           \A k \in caught': k \in caught \/ (AtWork(k) /\ step[k].job = "running"),
           UNCHANGED <<active, run, turn, hurt, overlapped>>, AskedBook'
    PROVE  CoordInv'
<1>1. CTypes'
  BY DEF CoordInv, CTypes, Signals
<1>2. (\A r \in Runs: RunBook(r)') /\ (\A k \in Work: StepBook(k)') /\ TableBook'
  BY InnerBooks DEF Signals
<1>3. BusyBook'
  <2>1. ~MayRun' => ~MayRun
    BY DEF MayRun
  <2> QED BY <2>1 DEF CoordInv, BusyBook, InFlight, Core
<1>4. CancelBook'
  <2>1. ASSUME NEW k \in caught'
        PROVE  step'[k].pc \notin {"none", "queued", "starting"} /\ step'[k].job \notin {"none", "created"}
    <3>1. step'[k].pc = step[k].pc /\ step'[k].job = step[k].job
      BY DEF Signals
    <3> QED BY <3>1 DEF CoordInv, CancelBook, AtWork
  <2> QED BY <2>1 DEF CancelBook
<1> QED BY <1>1, <1>2, <1>3, <1>4 DEF CoordInv

LEMMA CancelIs ==
    ASSUME CoordInv, Cancel
    PROVE  LET table == {active[s]: s \in Steps} \ {NoWork}
               c == [coord EXCEPT !.asked = TRUE]
           IN /\ table \in SUBSET Work /\ c \in [status: RunStatus, asked: BOOLEAN]
              /\ c.asked = TRUE /\ c.status = coord.status /\ Ask({}, table, c)
<1>1. coord \in [status: RunStatus, asked: BOOLEAN] /\ active \in [Steps -> Work \cup {NoWork}]
  BY DEF CoordInv, CTypes
<1> QED BY <1>1 DEF Cancel

LEMMA CancelKeeps == ASSUME CoordInv, Cancel PROVE CoordInv'
<1> DEFINE table == {active[s]: s \in Steps} \ {NoWork}
           c == [coord EXCEPT !.asked = TRUE]
<1>1. /\ UNCHANGED <<active, run, turn, hurt, overlapped>> /\ cancels' = cancels + 1
      /\ asked' = asked \cup {r \in Runs: run[r].pc \in {"starting", "planning", "announcing", "seq", "par"}}
      /\ caught' = {k \in Work: AtWork(k) /\ step[k].job = "running"}
  BY DEF Cancel
<1>2. CTypes /\ table \in SUBSET Work /\ c \in [status: RunStatus, asked: BOOLEAN]
      /\ c.asked = TRUE /\ c.status = coord.status /\ Ask({}, table, c)
  BY CancelIs DEF CoordInv
<1> HIDE DEF c, table
<1>3. /\ Signals(step') /\ coord' \in [status: RunStatus, asked: BOOLEAN]
      /\ coord'.asked = TRUE /\ coord'.status \in {coord.status, "cancelled"}
      /\ cancel' \in [on: BOOLEAN, awaits: Work \cup {NoWork}, left: SUBSET Work]
  BY <1>2, AskIs
<1>4. cancels' \in Nat /\ cancels' # 0 /\ asked' \in SUBSET Runs /\ caught' \in SUBSET Work
  BY <1>1, <1>2 DEF CTypes
<1>5. AskedBook'
  BY <1>1, <1>3 DEF CoordInv, AskedBook, InFlight
<1> QED BY <1>1, <1>3, <1>4, <1>5, AskedKeeps

LEMMA CancelGoesOnKeeps == ASSUME CoordInv, CancelGoesOn PROVE CoordInv'
<1>1. /\ UNCHANGED <<active, run, turn, cancels, asked, caught, hurt, overlapped>>
      /\ cancel.on /\ Ask({cancel.awaits}, cancel.left, coord)
  BY DEF CancelGoesOn
<1>2. CTypes /\ cancel.left \in SUBSET Work /\ coord \in [status: RunStatus, asked: BOOLEAN]
  BY DEF CoordInv, CTypes
<1>3. /\ Signals(step') /\ coord' \in [status: RunStatus, asked: BOOLEAN]
      /\ coord'.asked = coord.asked /\ coord'.status \in {coord.status, "cancelled"}
      /\ cancel' \in [on: BOOLEAN, awaits: Work \cup {NoWork}, left: SUBSET Work]
  BY <1>1, <1>2, AskIs
<1>4. AskedBook'
  BY <1>1, <1>3 DEF CoordInv, AskedBook, InFlight
<1>5. cancels' \in Nat /\ cancels' # 0 /\ asked' \in SUBSET Runs /\ caught' \in SUBSET Work
  BY <1>1, <1>2 DEF CoordInv, CancelBook, CTypes
<1> QED BY <1>1, <1>3, <1>4, <1>5, AskedKeeps

-----------------------------------------------------------------------------
\* The steps of a run.
LEMMA RunChanged ==
    ASSUME CTypes, NEW r \in Runs, NEW x \in RunType, run' = [run EXCEPT ![r] = x]
    PROVE  /\ run' \in [Runs -> RunType] /\ run'[r] = x /\ \A q \in Runs: q # r => run'[q] = run[q]
  BY DEF CTypes

\* What a step of a run leaves alone that changes nothing of the workers.
RunOnly(r) ==
    /\ run' \in [Runs -> RunType] /\ \A q \in Runs: q # r => run'[q] = run[q]
    /\ turn \in {r, NoRun} /\ turn' \in {r, NoRun}
    /\ coord' \in [status: RunStatus, asked: BOOLEAN]
    /\ UNCHANGED <<step, cancel, cancels, asked, caught, hurt>>

LEMMA RunOnlyTypes ==
    ASSUME CoordInv, NEW r \in Runs, RunOnly(r), overlapped' \in BOOLEAN,
           active' = active \/ active' = [s \in Steps |-> NoWork]
    PROVE  CTypes'
<1>1. active' \in [Steps -> Work \cup {NoWork}]
  BY DEF CoordInv, CTypes
<1> QED BY <1>1 DEF CoordInv, CTypes, RunOnly

LEMMA RunOnlyBooks ==
    ASSUME CoordInv, NEW r \in Runs, RunOnly(r), RunBook(r)',
           \A k \in Work: RunOf(k) = r => StepBook(k)'
    PROVE  (\A q \in Runs: RunBook(q)') /\ (\A k \in Work: StepBook(k)')
<1>1. \A q \in Runs: q # r => RunBook(q)'
  BY OtherRuns DEF RunOnly
<1>2. ASSUME NEW k \in Work, RunOf(k) # r PROVE StepBook(k)'
  <2>1. RunOf(k) \in Runs
    BY WorkIs DEF RunOf
  <2> QED BY <1>2, <2>1, OtherSteps DEF RunOnly
<1> QED BY <1>1, <1>2

LEMMA RunOnlyCancel ==
    ASSUME CoordInv, NEW r \in Runs, RunOnly(r)
    PROVE  CancelBook'
  BY DEF CoordInv, RunOnly, CancelBook

\* Up to its steps a run has no worker, whatever it does.
LEMMA EarlyKeeps ==
    ASSUME CoordInv, NEW r \in Runs, RunOnly(r), run[r].pc \in {"starting", "planning", "announcing"},
           run'[r].pc \in {"planning", "announcing", "broken"},
           run'[r].outcome = run[r].outcome, run'[r].at = run[r].at,
           turn' = r => run'[r].pc \in {"planning", "broken"}, run'[r].pc = "broken" => turn' = r,
           UNCHANGED <<coord, active, overlapped>>
    PROVE  CoordInv'
<1>1. CTypes' /\ CancelBook'
  BY RunOnlyTypes, RunOnlyCancel DEF CoordInv, CTypes
<1>2. RunBook(r)'
  BY DEF CoordInv, RunBook, Unbegun
<1>3. ASSUME NEW k \in Work, RunOf(k) = r PROVE StepBook(k)'
  <2>1. step[k].pc = "none" /\ step'[k] = step[k] /\ RunOf(k)' = r
    BY <1>3 DEF CoordInv, StepBook, Unbegun, RunOnly, RunOf
  <2> QED BY <2>1, Pcs DEF StepBook, Unbegun
<1>4. (\A q \in Runs: RunBook(q)') /\ (\A k \in Work: StepBook(k)')
  BY <1>2, <1>3, RunOnlyBooks
<1>5. TableBook'
  <2>1. \A k \in Work: step[k].pc # "none" => PlanOf(k)' = PlanOf(k)
    <3>1. \A k \in Work: step[k].pc # "none" => RunOf(k) # r /\ RunOf(k) \in Runs
      BY WorkIs DEF CoordInv, StepBook, Unbegun, RunOf
    <3> QED BY <3>1 DEF RunOnly, PlanOf, RunOf
  <2> QED BY <2>1, TableStays DEF RunOnly
<1>6. \A q \in Runs: /\ InFlight(q)' <=> InFlight(q)
                     /\ Core(q)' <=> Core(q)
                     /\ run'[q].pc = "wedged" <=> run[q].pc = "wedged"
                     /\ run[q].pc = "broken" => run'[q].pc = "broken"
                     /\ run'[q].pc \in {"none", "closing", "ended"} <=> run[q].pc \in {"none", "closing", "ended"}
                     /\ run'[q].pc = "none" <=> run[q].pc = "none"
                     /\ run'[q].outcome = run[q].outcome
  BY DEF RunOnly, InFlight, Core
<1>7. AskedBook'
  <2>1. asked \subseteq Runs /\ AskedBook /\ asked' = asked
    BY DEF CoordInv, CTypes, RunOnly
  <2>2. \A q \in Runs: run'[q].pc \in {"closing", "ended"} => run[q].pc \in {"closing", "ended"}
    BY DEF RunOnly
  <2> QED BY <1>6, <2>1, <2>2 DEF AskedBook
<1>8. BusyBook'
  <2>1. UNCHANGED <<coord, cancels, overlapped>> /\ (MayRun' <=> MayRun)
    BY DEF RunOnly, MayRun
  <2> QED BY <1>6, <2>1 DEF CoordInv, BusyBook
<1> QED BY <1>1, <1>4, <1>5, <1>7, <1>8 DEF CoordInv

\* Unless runs overlap or one has raised, whoever holds a permit is of the run in flight.
LEMMA NobodyHolds ==
    ASSUME CoordInv, ~overlapped, hurt = {}, NEW r \in Runs, InFlight(r),
           \A k \in Work: RunOf(k) = r /\ step[k].pc \in Holding => r \in hurt
    PROVE  \A k \in Work: step[k].pc \notin Holding
<1> SUFFICES ASSUME NEW k \in Work, step[k].pc \in Holding PROVE FALSE
  OBVIOUS
<1>1. RunOf(k) \in Runs /\ run[RunOf(k)].pc \in {"seq", "par"}
  BY WorkIs DEF CoordInv, StepBook, RunOf
<1>2. RunOf(k) = r
  BY <1>1 DEF CoordInv, BusyBook, InFlight
<1> QED BY <1>2

\* A run leaves its steps, or what it was before.
Leaves(r) ==
    /\ run[r].pc \in {"seq", "par", "broken", "closing", "failing"}
    /\ run'[r].pc \in {"ended", "raised", "failing", "closing", "broken"}
    /\ run'[r].plan = run[r].plan
    /\ turn' = r => run'[r].pc = "broken"
    /\ run'[r].pc = "broken" => turn' = r /\ run[r].pc \in {"seq", "par"}
    /\ run'[r].pc = "closing" => run'[r].outcome # "none"
    /\ \A k \in Work: RunOf(k) = r /\ step[k].pc \in Holding \cup {"queued"} =>
          Parallel(run[r].plan) /\ run'[r].pc \in Decided /\ r \in hurt
    /\ run'[r].pc \in {"closing", "ended"} /\ run'[r].outcome = "completed" =>
          \A k \in Work: RunOf(k) = r /\ k[2] <= run[r].plan.n => step[k].pc = "done" /\ step[k].ok

LEMMA LeavesBooks ==
    ASSUME CoordInv, NEW r \in Runs, RunOnly(r), Leaves(r)
    PROVE  (\A q \in Runs: RunBook(q)') /\ (\A k \in Work: StepBook(k)')
<1>1. RunBook(r)'
  BY DEF RunBook, Leaves, Unbegun
<1>2. ASSUME NEW k \in Work, RunOf(k) = r PROVE StepBook(k)'
  <2>1. step'[k] = step[k] /\ RunOf(k)' = r /\ StepBook(k) /\ hurt' = hurt
    BY <1>2 DEF CoordInv, RunOnly, RunOf
  <2>2. step[k].pc \in Holding \cup {"queued"} =>
           Parallel(run[r].plan) /\ run'[r].pc \in Decided /\ r \in hurt
    BY <1>2 DEF Leaves
  <2>3. run'[r].pc \in {"closing", "ended"} /\ run'[r].outcome = "completed" =>
           (k[2] <= run[r].plan.n => step[k].pc = "done" /\ step[k].ok)
    BY <1>2 DEF Leaves
  <2>4. run'[r].pc \notin Unbegun /\ run'[r].pc # "seq" /\ run'[r].plan = run[r].plan
    BY DEF Leaves, Unbegun
  <2> QED BY <1>2, <2>1, <2>2, <2>3, <2>4 DEF StepBook
<1> QED BY <1>1, <1>2, RunOnlyBooks

\* Every run that ends gives the coordinator free, or goes on with a status that does.
LEMMA LeavesKeeps ==
    ASSUME CoordInv, NEW r \in Runs, RunOnly(r), Leaves(r), overlapped' = overlapped,
           \/ active' = active /\ coord'.asked = coord.asked
           \/ active' = [s \in Steps |-> NoWork] /\ run'[r].pc \in {"ended", "raised"},
           IF run[r].pc \in {"closing", "failing"} THEN MayRun' <=> MayRun ELSE MayRun',
           r \in asked /\ ~overlapped /\ run'[r].pc \in {"closing", "ended"} => run'[r].outcome # "completed"
    PROVE  CoordInv'
<1>1. CTypes' /\ CancelBook'
  BY RunOnlyTypes, RunOnlyCancel DEF CoordInv, CTypes
<1>2. (\A q \in Runs: RunBook(q)') /\ (\A k \in Work: StepBook(k)')
  BY LeavesBooks
<1>3. TableBook'
  <2>1. CASE active' = active
    <3>1. \A k \in Work: RunOf(k) = r \/ run'[RunOf(k)] = run[RunOf(k)]
      BY WorkIs DEF RunOnly, RunOf
    <3>2. \A k \in Work: PlanOf(k)' = PlanOf(k)
      BY <3>1 DEF Leaves, PlanOf, RunOf
    <3> QED BY <2>1, <3>2, TableStays DEF RunOnly
  <2>2. CASE active' = [s \in Steps |-> NoWork]
    <3>1. \A k \in Work: active'[IdOf(k)'] # k
      BY <2>2, WorkIs, IdStays DEF RunOnly
    <3>2. ~overlapped /\ hurt = {} => \A k \in Work: step[k].pc \notin Holding
      <4>1. InFlight(r)
        BY DEF Leaves, InFlight
      <4>2. \A k \in Work: RunOf(k) = r /\ step[k].pc \in Holding => r \in hurt
        BY DEF Leaves
      <4> QED BY <4>1, <4>2, NobodyHolds
    <3>3. step' = step /\ hurt' = hurt
      BY DEF RunOnly
    <3> QED BY <2>2, <3>1, <3>2, <3>3 DEF TableBook
  <2> QED BY <2>1, <2>2
<1>4. InFlight(r) /\ run'[r].pc # "none" /\ ~(Core(r)' /\ run'[r].pc # "broken")
      /\ (run[r].pc \in {"closing", "failing"} => ~Core(r)) /\ run[r].pc # "wedged"
  BY DEF Leaves, InFlight, Core
<1>5. \A q \in Runs: q # r => /\ run'[q] = run[q] /\ (InFlight(q)' <=> InFlight(q)) /\ (Core(q)' <=> Core(q))
  BY DEF RunOnly, InFlight, Core
<1>6. UNCHANGED <<cancels, asked>> /\ asked \subseteq Runs
  BY DEF RunOnly, CoordInv, CTypes
<1>7. AskedBook'
  <2>1. ASSUME NEW q \in asked, ~overlapped
        PROVE  /\ InFlight(q)' => coord'.asked
               /\ run'[q].pc \in {"closing", "ended"} => run'[q].outcome # "completed"
    <3>1. CASE q = r
      <4>1. coord.asked
        BY <1>4, <2>1, <3>1 DEF CoordInv, AskedBook
      <4>2. InFlight(r)' => coord'.asked = coord.asked
        BY DEF InFlight
      <4> QED BY <1>6, <2>1, <3>1, <4>1, <4>2
    <3>2. CASE q # r
      <4>1. ~InFlight(q)
        BY <1>4, <1>6, <2>1, <3>2 DEF CoordInv, BusyBook
      <4> QED BY <1>5, <1>6, <2>1, <3>2, <4>1 DEF CoordInv, AskedBook
    <3> QED BY <3>1, <3>2
  <2>2. \A q \in asked: run'[q].pc # "none"
    BY <1>4, <1>5, <1>6 DEF CoordInv, AskedBook
  <2> QED BY <1>6, <2>1, <2>2 DEF AskedBook
<1>8. BusyBook'
  <2>1. ASSUME ~overlapped PROVE \A p, q \in Runs: InFlight(p)' /\ InFlight(q)' => p = q
    BY <1>4, <1>5, <2>1 DEF CoordInv, BusyBook
  <2>2. Core(r)' => Core(r)
    BY DEF Leaves, Core
  <2>3. ASSUME cancels = 0 PROVE \A p, q \in Runs: Core(p)' /\ Core(q)' => p = q
    <3>1. \A q \in Runs: Core(q)' => Core(q)
      BY <1>5, <2>2
    <3>2. \A p, q \in Runs: Core(p) /\ Core(q) => p = q
      BY <2>3 DEF CoordInv, BusyBook
    <3> QED BY <3>1, <3>2
  <2>4. ASSUME cancels = 0, NEW q \in Runs, Core(q)', run'[q].pc # "broken" PROVE ~MayRun'
    <3>1. q # r /\ Core(q) /\ run[q].pc # "broken"
      BY <1>4, <1>5, <2>4
    <3>2. ~Core(r) /\ ~MayRun
      BY <2>4, <3>1 DEF CoordInv, BusyBook
    <3>3. run[r].pc \in {"closing", "failing"}
      BY <3>2 DEF Leaves, Core
    <3> QED BY <3>2, <3>3
  <2>5. ASSUME ~overlapped, ~MayRun' PROVE \E q \in Runs: Core(q)' \/ run'[q].pc = "wedged"
    <3>1. run[r].pc \in {"closing", "failing"} /\ ~MayRun
      BY <2>5
    <3>3. PICK q \in Runs: Core(q) \/ run[q].pc = "wedged"
      BY <2>5, <3>1 DEF CoordInv, BusyBook
    <3>4. q # r
      BY <1>4, <3>1, <3>3
    <3> QED BY <1>5, <3>3, <3>4
  <2> QED BY <1>6, <2>1, <2>3, <2>4, <2>5 DEF BusyBook
<1> QED BY <1>1, <1>2, <1>3, <1>7, <1>8 DEF CoordInv

\* A coordinator that has a status it runs with is not free.
LEMMA AfterRunIs ==
    ASSUME NEW status \in RunStatus
    PROVE  /\ AfterRun(status) \in [status: RunStatus, asked: BOOLEAN] /\ AfterRun(status).asked = FALSE
           /\ AfterRun(status).status \in {"planning", "running"} <=> status \in {"planning", "running"}
  BY DEF AfterRun, RunStatus

LEMMA EndIs ==
    ASSUME CTypes, NEW r \in Runs, NEW pc \in {"ended", "raised"}, NEW status \in RunStatus,
           NEW outcome \in {"none", "completed", "failed", "cancelled"},
           turn \in {r, NoRun}, End(r, pc, outcome, status), UNCHANGED <<step, cancel, cancels, history, hurt>>
    PROVE  /\ RunOnly(r) /\ run'[r].pc = pc /\ run'[r].outcome = outcome /\ run'[r].plan = run[r].plan
           /\ active' = [s \in Steps |-> NoWork] /\ turn' = NoRun
           /\ MayRun' <=> status \notin {"planning", "running"}
<1> DEFINE x == [run[r] EXCEPT !.pc = pc, !.outcome = outcome, !.at = 1]
<1>1. run[r] \in RunType /\ run \in [Runs -> RunType]
  BY DEF CTypes
<1>2. x \in RunType /\ x.pc = pc /\ x.outcome = outcome /\ x.plan = run[r].plan
  <2>1. 1 \in 1..(NSteps + 1) /\ pc \in RunPcs
    BY Numbers DEF RunPcs
  <2>2. x \in RunType
    BY <1>1, <2>1 DEF RunType
  <2> QED BY <1>1, <2>2 DEF RunType
<1>3. run' = [run EXCEPT ![r] = x]
  BY <1>1 DEF End
<1> HIDE DEF x
<1>4. run' \in [Runs -> RunType] /\ run'[r] = x /\ \A q \in Runs: q # r => run'[q] = run[q]
  BY <1>2, <1>3, RunChanged
<1>5. coord' = AfterRun(status) /\ active' = [s \in Steps |-> NoWork] /\ turn' = NoRun
  BY DEF End
<1> QED BY <1>2, <1>4, <1>5, AfterRunIs DEF RunOnly, history, MayRun

LEMMA ToIs ==
    ASSUME CTypes, NEW r \in Runs, NEW pc \in RunPcs, NEW status \in RunStatus,
           NEW next \in {r, NoRun}, turn \in {r, NoRun}, To(r, pc, status, next),
           UNCHANGED <<step, cancel, cancels, history, hurt>>
    PROVE  /\ RunOnly(r) /\ run'[r].pc = pc /\ run'[r].outcome = run[r].outcome
           /\ run'[r].plan = run[r].plan /\ turn' = next /\ coord'.asked = coord.asked
           /\ MayRun' <=> status \notin {"planning", "running"}
<1> DEFINE x == [run[r] EXCEPT !.pc = pc]
<1>1. run[r] \in RunType /\ run \in [Runs -> RunType]
  BY DEF CTypes
<1>2. x \in RunType /\ x.pc = pc /\ x.outcome = run[r].outcome /\ x.plan = run[r].plan
  BY <1>1 DEF RunType
<1>3. run' = [run EXCEPT ![r] = x]
  BY <1>1 DEF To
<1> HIDE DEF x
<1>4. run' \in [Runs -> RunType] /\ run'[r] = x /\ \A q \in Runs: q # r => run'[q] = run[q]
  BY <1>2, <1>3, RunChanged
<1>5. coord' = [coord EXCEPT !.status = status] /\ turn' = next /\ coord \in [status: RunStatus, asked: BOOLEAN]
  BY DEF To, CTypes
<1>6. coord' \in [status: RunStatus, asked: BOOLEAN] /\ coord'.status = status /\ coord'.asked = coord.asked
  BY <1>5
<1> QED BY <1>2, <1>4, <1>5, <1>6 DEF RunOnly, history, MayRun

LEMMA RunFailsKeeps == ASSUME CoordInv, NEW r \in Runs, RunFails(r) PROVE CoordInv'
<1>1. CTypes /\ UNCHANGED <<step, cancel, cancels, history, hurt>> /\ "failed" \in RunStatus
      /\ "failing" \in RunPcs /\ overlapped' = overlapped
  BY DEF CoordInv, RunFails, RunStatus, RunPcs, history
<1>2. turn \in {r, NoRun} /\ run[r].pc \in {"seq", "par", "broken"}
  BY DEF RunFails, MustFail, FreeTurn
<1>3. ASSUME NEW k \in Work, RunOf(k) = r, step[k].pc \in Holding \cup {"queued"}
      PROVE  Parallel(run[r].plan) /\ r \in hurt
  <2>1. StepBook(k) /\ k[2] \in Nat /\ run[r].at \in Nat
    BY WorkIs, RunFields, Numbers DEF CoordInv
  <2>2. CASE run[r].pc = "seq"
    <3>1. turn = r
      BY <2>2 DEF RunFails, MustFail
    <3> QED BY <1>3, <2>1, <2>2, <3>1, Pcs DEF StepBook
  <2>3. CASE run[r].pc = "par"
    <3>1. Parallel(run[r].plan)
      BY <2>3 DEF CoordInv, RunBook
    <3>2. PICK j \in StepsOf(r): step[j].pc = "raised"
      BY <2>3 DEF RunFails, MustFail
    <3>3. j \in Work /\ RunOf(j) = r
      BY DEF StepsOf
    <3> QED BY <3>1, <3>2, <3>3 DEF CoordInv, StepBook
  <2>4. CASE run[r].pc = "broken"
    BY <1>3, <2>1, <2>4, Pcs DEF StepBook, Decided
  <2> QED BY <1>2, <2>2, <2>3, <2>4
<1>4. CASE End(r, "ended", "failed", "failed") \/ End(r, "raised", "failed", "failed")
  <2>1. /\ RunOnly(r) /\ run'[r].pc \in {"ended", "raised"} /\ run'[r].outcome = "failed"
        /\ run'[r].plan = run[r].plan /\ active' = [s \in Steps |-> NoWork] /\ turn' = NoRun /\ MayRun'
    BY <1>1, <1>2, <1>4, EndIs
  <2>2. Leaves(r)
    BY <1>2, <1>3, <2>1, Numbers DEF Leaves, Decided
  <2> QED BY <1>1, <1>2, <2>1, <2>2, LeavesKeeps
<1>5. CASE To(r, "failing", "failed", NoRun) /\ UNCHANGED active
  <2>1. /\ RunOnly(r) /\ run'[r].pc = "failing"
        /\ run'[r].plan = run[r].plan /\ turn' = NoRun /\ coord'.asked = coord.asked /\ MayRun'
    BY <1>1, <1>2, <1>5, ToIs
  <2>2. Leaves(r)
    BY <1>2, <1>3, <2>1, Numbers DEF Leaves, Decided
  <2> QED BY <1>1, <1>2, <1>5, <2>1, <2>2, LeavesKeeps
<1> QED BY <1>4, <1>5 DEF RunFails, Event

\* The results are in.
LEMMA FinishKeeps ==
    ASSUME CoordInv, NEW r \in Runs, Finish(r), turn \in {r, NoRun}, run[r].pc \in {"seq", "par"},
           \A k \in Work: RunOf(k) = r => step[k].pc \notin Holding \cup {"queued"},
           Outcome(r) = "completed" =>
              \A k \in Work: RunOf(k) = r /\ k[2] <= run[r].plan.n => step[k].pc = "done" /\ step[k].ok
    PROVE  CoordInv'
<1> DEFINE o == Outcome(r)
<1>1. /\ CTypes /\ UNCHANGED <<step, cancel, cancels, history, hurt>> /\ overlapped' = overlapped
      /\ o \in {"completed", "failed", "cancelled"} /\ o \in RunStatus /\ "broken" \in RunPcs
      /\ (coord.asked => o = "cancelled") /\ o \notin {"planning", "running"}
  BY DEF CoordInv, Finish, RunStatus, RunPcs, history, Outcome
<1> HIDE DEF o
<1>2. r \in asked /\ ~overlapped => o # "completed"
  BY <1>1 DEF CoordInv, AskedBook, InFlight
<1>3. CASE End(r, "ended", o, o)
  <2>1. /\ RunOnly(r) /\ run'[r].pc = "ended" /\ run'[r].outcome = o
        /\ run'[r].plan = run[r].plan /\ active' = [s \in Steps |-> NoWork] /\ turn' = NoRun /\ MayRun'
    BY <1>1, <1>3, EndIs
  <2>2. Leaves(r)
    BY <2>1, Numbers DEF Leaves, Decided, o
  <2> QED BY <1>1, <1>2, <2>1, <2>2, LeavesKeeps
<1>4. CASE /\ run' = [run EXCEPT ![r].pc = "closing", ![r].outcome = o]
           /\ coord' = [coord EXCEPT !.status = o]
           /\ turn' = NoRun /\ UNCHANGED active
  <2> DEFINE x == [run[r] EXCEPT !.pc = "closing", !.outcome = o]
  <2>1. run[r] \in RunType /\ run \in [Runs -> RunType] /\ coord \in [status: RunStatus, asked: BOOLEAN]
    BY <1>1 DEF CTypes
  <2>2. x \in RunType /\ x.pc = "closing" /\ x.outcome = o /\ x.plan = run[r].plan
    BY <1>1, <2>1 DEF RunType, RunPcs
  <2>3. run' = [run EXCEPT ![r] = x]
    BY <1>4, <2>1
  <2> HIDE DEF x
  <2>4. run' \in [Runs -> RunType] /\ run'[r] = x /\ \A q \in Runs: q # r => run'[q] = run[q]
    BY <1>1, <2>2, <2>3, RunChanged
  <2>5. coord' \in [status: RunStatus, asked: BOOLEAN] /\ coord'.asked = coord.asked /\ coord'.status = o
    BY <1>1, <1>4, <2>1
  <2>6. RunOnly(r) /\ MayRun'
    BY <1>1, <1>4, <2>4, <2>5 DEF RunOnly, history, MayRun
  <2>7. Leaves(r)
    BY <1>1, <1>4, <2>2, <2>4, Numbers DEF Leaves, o
  <2> QED BY <1>1, <1>2, <1>4, <2>2, <2>4, <2>5, <2>6, <2>7, LeavesKeeps
<1>5. CASE To(r, "broken", o, r) /\ UNCHANGED active
  <2>1. /\ RunOnly(r) /\ run'[r].pc = "broken"
        /\ run'[r].plan = run[r].plan /\ turn' = r /\ coord'.asked = coord.asked /\ MayRun'
    BY <1>1, <1>5, ToIs
  <2>2. Leaves(r)
    BY <2>1, Numbers DEF Leaves
  <2> QED BY <1>1, <1>5, <2>1, <2>2, LeavesKeeps
<1> QED BY <1>3, <1>4, <1>5 DEF Finish, Event, o

LEMMA SeqReturnsKeeps == ASSUME CoordInv, NEW r \in Runs, SeqReturns(r) PROVE CoordInv'
<1>1. /\ run[r].pc = "seq" /\ turn = r /\ ~MustFail(r) /\ SeqOver(r) /\ Finish(r)
      /\ run[r].at \in Nat /\ run[r].plan.n \in Nat
  BY RunFields DEF SeqReturns, CoordInv
<1>2. ASSUME NEW k \in Work, RunOf(k) = r
      PROVE  /\ StepBook(k) /\ k[2] \in Nat /\ step[k].pc \notin Holding \cup {"queued"}
             /\ k[2] < run[r].at => step[k].pc = "done"
  <2>1. StepBook(k) /\ k[2] \in Nat
    BY WorkIs, Numbers DEF CoordInv
  <2> QED BY <1>1, <1>2, <2>1, Pcs DEF StepBook
<1>3. ASSUME Outcome(r) = "completed", NEW k \in Work, RunOf(k) = r, k[2] <= run[r].plan.n
      PROVE  step[k].pc = "done" /\ step[k].ok
  <2>1. ~coord.asked /\ \A j \in StepsOf(r): step[j].pc = "done" => step[j].ok
    BY <1>3 DEF Outcome
  <2>2. run[r].at > run[r].plan.n
    BY <1>1, <2>1 DEF SeqOver
  <2>3. step[k].pc = "done" /\ k \in StepsOf(r)
    BY <1>1, <1>2, <1>3, <2>2 DEF StepsOf
  <2> QED BY <2>1, <2>3
<1> QED BY <1>1, <1>2, <1>3, FinishKeeps

LEMMA ParReturnsKeeps == ASSUME CoordInv, NEW r \in Runs, ParReturns(r) PROVE CoordInv'
<1>1. run[r].pc = "par" /\ turn = NoRun /\ Finish(r) /\ \A k \in StepsOf(r): step[k].pc = "done"
  BY DEF ParReturns, FreeTurn
<1>2. ASSUME NEW k \in Work, RunOf(k) = r PROVE step[k].pc \notin Holding \cup {"queued"}
  <2>1. step[k].pc # "none" => k \in StepsOf(r)
    BY <1>2 DEF CoordInv, StepBook, StepsOf
  <2> QED BY <1>1, <2>1, Pcs
<1>3. ASSUME Outcome(r) = "completed", NEW k \in Work, RunOf(k) = r, k[2] <= run[r].plan.n
      PROVE  step[k].pc = "done" /\ step[k].ok
  BY <1>1, <1>3 DEF Outcome, StepsOf
<1> QED BY <1>1, <1>2, <1>3, FinishKeeps

LEMMA ClosedKeeps == ASSUME CoordInv, NEW r \in Runs, Closed(r) PROVE CoordInv'
<1> DEFINE o == IF run[r].pc = "failing" THEN "failed" ELSE run[r].outcome
<1>1. /\ CTypes /\ UNCHANGED <<step, cancel, cancels, history, hurt>> /\ overlapped' = overlapped
      /\ run[r].pc \in {"closing", "failing"} /\ turn \in {r, NoRun} /\ coord.status \in RunStatus
      /\ End(r, "ended", o, coord.status)
  BY DEF CoordInv, CTypes, Closed, FreeTurn, history
<1>2. o \in {"none", "completed", "failed", "cancelled"}
  BY <1>1, RunFields
<1>3. o = "completed" => run[r].pc = "closing" /\ run[r].outcome = "completed"
  BY <1>1
<1> HIDE DEF o
<1>4. /\ RunOnly(r) /\ run'[r].pc = "ended" /\ run'[r].outcome = o
      /\ run'[r].plan = run[r].plan /\ active' = [s \in Steps |-> NoWork] /\ turn' = NoRun
      /\ MayRun' <=> MayRun
  BY <1>1, <1>2, EndIs DEF MayRun
<1>5. ASSUME NEW k \in Work, RunOf(k) = r
      PROVE  /\ step[k].pc \in Holding \cup {"queued"} => Parallel(run[r].plan) /\ r \in hurt
             /\ o = "completed" => (k[2] <= run[r].plan.n => step[k].pc = "done" /\ step[k].ok)
  <2>1. StepBook(k)
    BY DEF CoordInv
  <2> QED BY <1>1, <1>3, <1>5, <2>1, Pcs DEF StepBook, Decided
<1>6. Leaves(r)
  BY <1>1, <1>4, <1>5, Numbers DEF Leaves, Decided
<1>7. r \in asked /\ ~overlapped => o # "completed"
  BY <1>3 DEF CoordInv, AskedBook
<1> QED BY <1>1, <1>4, <1>6, <1>7, LeavesKeeps

\* A run starts its planner, has its plan, or fails before its first step.
LEMMA PlanningIs ==
    ASSUME CoordInv, NEW r \in Runs, run[r].pc \in {"starting", "planning", "announcing"},
           turn \in {r, NoRun}, NEW pc \in {"planning", "announcing", "broken"}, NEW plan \in Plan,
           run' = [run EXCEPT ![r].pc = pc, ![r].plan = plan],
           turn' = IF pc = "broken" THEN r ELSE NoRun,
           UNCHANGED <<coord, active, step, cancel, cancels, asked, caught, hurt, overlapped>>
    PROVE  CoordInv'
<1> DEFINE x == [run[r] EXCEPT !.pc = pc, !.plan = plan]
<1>1. CTypes /\ run[r] \in RunType /\ run \in [Runs -> RunType] /\ pc \in RunPcs
  BY DEF CoordInv, CTypes, RunPcs
<1>2. x \in RunType /\ x.pc = pc /\ x.outcome = run[r].outcome /\ x.at = run[r].at
  BY <1>1 DEF RunType
<1>3. run' = [run EXCEPT ![r] = x]
  BY <1>1
<1> HIDE DEF x
<1>4. run' \in [Runs -> RunType] /\ run'[r] = x /\ \A q \in Runs: q # r => run'[q] = run[q]
  BY <1>1, <1>2, <1>3, RunChanged
<1>5. RunOnly(r)
  BY <1>1, <1>4 DEF RunOnly, CTypes
<1>6. turn' # r \/ pc = "broken"
  BY Numbers
<1> QED BY <1>2, <1>4, <1>5, <1>6, EarlyKeeps

LEMMA SamePlan ==
    ASSUME CTypes, NEW r \in Runs, NEW pc, run' = [run EXCEPT ![r].pc = pc]
    PROVE  run[r].plan \in Plan /\ run' = [run EXCEPT ![r].pc = pc, ![r].plan = run[r].plan]
<1>1. run[r] \in RunType /\ run \in [Runs -> RunType]
  BY DEF CTypes
<1>2. run[r].plan \in Plan
  BY <1>1 DEF RunType
<1>3. [run[r] EXCEPT !.pc = pc] = [run[r] EXCEPT !.pc = pc, !.plan = run[r].plan]
  BY <1>1 DEF RunType
<1> QED BY <1>1, <1>2, <1>3

LEMMA StartedKeeps == ASSUME CoordInv, NEW r \in Runs, Started(r) \/ PlanFails(r) PROVE CoordInv'
<1>1. CTypes
  BY DEF CoordInv
<1>2. CASE Started(r)
  <2>1. run[r].plan \in Plan /\ run' = [run EXCEPT ![r].pc = "planning", ![r].plan = run[r].plan]
    BY <1>1, <1>2, SamePlan DEF Started
  <2>2. turn' = NoRun /\ turn = NoRun
    BY <1>2 DEF Started, FreeTurn
  <2>3. /\ run[r].pc \in {"starting", "planning", "announcing"}
        /\ UNCHANGED <<coord, active, step, cancel, cancels, asked, caught, hurt, overlapped>>
    BY <1>2 DEF Started, history
  <2> QED BY <2>1, <2>2, <2>3, PlanningIs
<1>3. CASE PlanFails(r)
  <2>1. run[r].plan \in Plan /\ run' = [run EXCEPT ![r].pc = "broken", ![r].plan = run[r].plan]
    BY <1>1, <1>3, SamePlan DEF PlanFails
  <2>2. turn' = r /\ turn \in {r, NoRun}
    BY <1>3 DEF PlanFails
  <2>3. /\ run[r].pc \in {"starting", "planning", "announcing"}
        /\ UNCHANGED <<coord, active, step, cancel, cancels, asked, caught, hurt, overlapped>>
    BY <1>3 DEF PlanFails, history
  <2> QED BY <2>1, <2>2, <2>3, PlanningIs
<1> QED BY <1>2, <1>3

\* The workers of a plan are queued all at once, or begin in a row.
LEMMA BeginSteps ==
    ASSUME CoordInv, NEW r \in Runs, NEW plan \in Plan, run[r].pc \in {"planning", "announcing"},
           Begin(r, plan)
    PROVE  /\ step' \in [Work -> StepType]
           /\ \A k \in Work: RunOf(k) # r => step'[k] = step[k]
           /\ \A k \in Work: RunOf(k) = r =>
                 /\ step[k].pc = "none"
                 /\ step'[k].pc \in {"none", "queued"}
                 /\ step'[k].pc = "queued" => Parallel(plan) /\ k[2] <= plan.n
<1>1. step \in [Work -> StepType]
  BY DEF CoordInv, CTypes
<1>2. step' = [k \in Work |-> IF RunOf(k) = r /\ k[2] <= plan.n /\ Parallel(plan)
                               THEN [NoWorker EXCEPT !.pc = "queued"] ELSE step[k]]
  BY DEF Begin
<1> DEFINE x == [NoWorker EXCEPT !.pc = "queued"]
<1>3. x \in StepType /\ x.pc = "queued"
  BY Pcs DEF NoWorker, StepType, JobStatus
<1> HIDE DEF x
<1>4. step' = [k \in Work |-> IF RunOf(k) = r /\ k[2] <= plan.n /\ Parallel(plan) THEN x ELSE step[k]]
  BY <1>2 DEF x
<1>5. step' \in [Work -> StepType]
  BY <1>1, <1>3, <1>4
<1>6. ASSUME NEW k \in Work, RunOf(k) = r PROVE step[k].pc = "none"
  BY <1>6 DEF CoordInv, StepBook, Unbegun
<1> QED BY <1>1, <1>3, <1>4, <1>5, <1>6

LEMMA BeginKeeps ==
    ASSUME CoordInv, NEW r \in Runs, NEW plan \in Plan, run[r].pc \in {"planning", "announcing"},
           turn \in {r, NoRun}, Begin(r, plan),
           UNCHANGED <<cancel, cancels, asked, caught, hurt, overlapped>>
    PROVE  CoordInv'
<1> DEFINE pc == IF Parallel(plan) THEN "par" ELSE "seq"
           x == [run[r] EXCEPT !.pc = pc, !.plan = plan]
<1>1. CTypes /\ run[r] \in RunType /\ run \in [Runs -> RunType] /\ pc \in RunPcs /\ run[r].at = 1
      /\ plan.n \in Nat /\ coord \in [status: RunStatus, asked: BOOLEAN]
  BY Numbers, PlanIs DEF CoordInv, CTypes, RunPcs, RunBook, Unbegun
<1>2. x \in RunType /\ x.pc = pc /\ x.outcome = run[r].outcome /\ x.at = 1 /\ x.plan = plan
  BY <1>1 DEF RunType
<1>3. run' = [run EXCEPT ![r] = x]
  BY <1>1 DEF Begin
<1> HIDE DEF x
<1>4. run' \in [Runs -> RunType] /\ run'[r] = x /\ \A q \in Runs: q # r => run'[q] = run[q]
  BY <1>1, <1>2, <1>3, RunChanged
<1>5. /\ step' \in [Work -> StepType]
      /\ \A k \in Work: RunOf(k) # r => step'[k] = step[k]
      /\ \A k \in Work: RunOf(k) = r =>
            /\ step[k].pc = "none" /\ step'[k].pc \in {"none", "queued"}
            /\ step'[k].pc = "queued" => Parallel(plan) /\ k[2] <= plan.n
  BY BeginSteps
<1>6. coord' \in [status: RunStatus, asked: BOOLEAN] /\ coord'.asked = coord.asked
      /\ coord'.status = "running" /\ ~MayRun'
  <2>1. coord' = [coord EXCEPT !.status = "running"]
    BY DEF Begin
  <2> QED BY <1>1, <2>1 DEF RunStatus, MayRun
<1>7. turn' \in {r, NoRun} /\ (turn' = r <=> ~Parallel(plan)) /\ UNCHANGED active
  BY Numbers DEF Begin
<1>8. CTypes'
  BY <1>1, <1>4, <1>5, <1>6, <1>7 DEF CTypes
<1>9. \A q \in Runs: RunBook(q)'
  <2>1. RunBook(r)'
    BY <1>1, <1>2, <1>4, <1>7 DEF RunBook, Unbegun
  <2> QED BY <1>4, <1>7, <2>1, OtherRuns
<1>10. \A k \in Work: StepBook(k)'
  <2>1. ASSUME NEW k \in Work, RunOf(k) = r PROVE StepBook(k)'
    <3>1. k[2] \in Nat \ {0} /\ RunOf(k)' = r
      BY <2>1, WorkIs, Numbers DEF RunOf
    <3> QED BY <1>1, <1>2, <1>4, <1>5, <1>7, <2>1, <3>1, Pcs DEF StepBook, Unbegun
  <2>2. ASSUME NEW k \in Work, RunOf(k) # r PROVE StepBook(k)'
    <3>1. RunOf(k) \in Runs
      BY WorkIs DEF RunOf
    <3> QED BY <1>4, <1>5, <1>7, <2>2, <3>1, OtherSteps
  <2> QED BY <2>1, <2>2
<1>11. \A q \in Runs: /\ InFlight(q)' <=> InFlight(q)
                      /\ Core(q)' <=> Core(q)
                      /\ run'[q].pc = "wedged" <=> run[q].pc = "wedged"
                      /\ run'[q].pc \in {"closing", "ended"} <=> run[q].pc \in {"closing", "ended"}
                      /\ run'[q].pc = "none" <=> run[q].pc = "none"
                      /\ run'[q].outcome = run[q].outcome
  BY <1>2, <1>4 DEF InFlight, Core
<1>12. AskedBook'
  <2>1. asked \subseteq Runs /\ AskedBook
    BY DEF CoordInv, CTypes
  <2> QED BY <1>6, <1>11, <2>1 DEF AskedBook
<1>13. BusyBook'
  <2>1. Core(r)' /\ BusyBook
    BY <1>2, <1>4 DEF Core, CoordInv
  <2> QED BY <1>6, <1>11, <2>1 DEF BusyBook
<1>14. \A k \in Work: step'[k].pc \in Holding <=> step[k].pc \in Holding
  BY <1>5, Pcs
<1>15. TableBook'
  <2>1. \A k \in Work: step[k].pc # "none" => step'[k] = step[k] /\ PlanOf(k)' = PlanOf(k)
    <3>1. \A k \in Work: step[k].pc # "none" => RunOf(k) # r /\ RunOf(k) \in Runs
      BY <1>5, WorkIs DEF RunOf
    <3> QED BY <1>4, <1>5, <3>1 DEF PlanOf, RunOf
  <2> QED BY <1>4, <1>7, <1>14, <2>1, TableStays
<1>16. CancelBook'
  <2>1. CancelBook /\ caught \subseteq Work
    BY DEF CoordInv, CTypes
  <2>2. \A k \in caught: step'[k] = step[k]
    BY <1>5, <2>1 DEF CancelBook
  <2> QED BY <2>1, <2>2 DEF CancelBook
<1> QED BY <1>8, <1>9, <1>10, <1>12, <1>13, <1>15, <1>16 DEF CoordInv

LEMMA AnnouncedKeeps == ASSUME CoordInv, NEW r \in Runs, Announced(r) PROVE CoordInv'
<1>1. run[r].plan \in Plan
  BY RunFields DEF CoordInv
<1> QED BY <1>1, BeginKeeps DEF Announced, FreeTurn, history

LEMMA PlanReadyKeeps == ASSUME CoordInv, NEW r \in Runs, NEW plan \in Plan, PlanReady(r, plan) PROVE CoordInv'
<1>1. /\ CTypes /\ run[r].pc = "planning" /\ turn \in {r, NoRun}
      /\ UNCHANGED <<cancel, cancels, asked, caught, hurt, overlapped>>
  BY DEF CoordInv, PlanReady, history
<1>2. CASE Begin(r, plan)
  BY <1>1, <1>2, BeginKeeps
<1>3. CASE /\ run' = [run EXCEPT ![r].pc = "announcing", ![r].plan = plan]
           /\ turn' = NoRun /\ UNCHANGED <<coord, active, step>>
  BY <1>1, <1>3, PlanningIs
<1>4. CASE run' = [run EXCEPT ![r].pc = "broken"] /\ turn' = r /\ UNCHANGED <<coord, active, step>>
  <2>1. run[r].plan \in Plan /\ run' = [run EXCEPT ![r].pc = "broken", ![r].plan = run[r].plan]
    BY <1>1, <1>4, SamePlan
  <2> QED BY <1>1, <1>4, <2>1, PlanningIs
<1> QED BY <1>2, <1>3, <1>4 DEF PlanReady, Event

\* A run begins when the coordinator is free: unless a cancel has made it so, no other is going.
LEMMA RunKeeps == ASSUME CoordInv, NEW r \in Runs, Run(r) PROVE CoordInv'
<1>1. /\ CTypes /\ run[r] \in RunType /\ run \in [Runs -> RunType] /\ turn = NoRun /\ run[r].pc = "none" /\ MayRun
      /\ coord' = [status |-> "planning", asked |-> FALSE]
      /\ overlapped' = (overlapped \/ \E q \in Runs: InFlight(q))
      /\ UNCHANGED <<active, step, cancel, cancels, asked, caught, hurt>>
  BY DEF CoordInv, CTypes, Run, FreeTurn
<1>2. PICK pc \in {"planning", "starting", "wedged"}:
         run' = [run EXCEPT ![r].pc = pc] /\ turn' \in {r, NoRun} /\ (pc # "planning" => turn' = NoRun)
  BY DEF Run, Event
<1> DEFINE x == [run[r] EXCEPT !.pc = pc]
<1>3. x \in RunType /\ x.pc = pc /\ x.at = run[r].at
  BY <1>1 DEF RunType, RunPcs
<1>4. run' = [run EXCEPT ![r] = x]
  BY <1>1, <1>2
<1> HIDE DEF x
<1>5. run' \in [Runs -> RunType] /\ run'[r] = x /\ \A q \in Runs: q # r => run'[q] = run[q]
  BY <1>1, <1>3, <1>4, RunChanged
<1>6. RunOnly(r) /\ ~MayRun'
  <2>1. coord' \in [status: RunStatus, asked: BOOLEAN] /\ coord'.status = "planning"
    BY <1>1 DEF RunStatus
  <2> QED BY <1>1, <1>2, <1>5, <2>1 DEF RunOnly, MayRun
<1>7. CTypes'
  BY <1>1, <1>6, RunOnlyTypes DEF CTypes
<1>8. (\A q \in Runs: RunBook(q)') /\ (\A k \in Work: StepBook(k)')
  <2>1. RunBook(r)'
    BY <1>1, <1>2, <1>3, <1>5, Numbers DEF CoordInv, RunBook, Unbegun
  <2>2. ASSUME NEW k \in Work, RunOf(k) = r PROVE StepBook(k)'
    <3>1. step[k].pc = "none" /\ step'[k] = step[k] /\ RunOf(k)' = r
      BY <1>1, <2>2 DEF CoordInv, StepBook, Unbegun, RunOf
    <3> QED BY <1>2, <1>3, <1>5, <3>1, Pcs DEF StepBook, Unbegun
  <2> QED BY <1>6, <2>1, <2>2, RunOnlyBooks
<1>9. ~overlapped' => ~overlapped /\ \A q \in Runs: ~InFlight(q)
  BY <1>1
<1>10. CancelBook'
  BY <1>6, RunOnlyCancel
<1>11. TableBook'
  <2>1. \A k \in Work: step[k].pc # "none" => RunOf(k) # r /\ RunOf(k) \in Runs
    BY <1>1, WorkIs DEF CoordInv, StepBook, Unbegun, RunOf
  <2>2. \A k \in Work: step[k].pc # "none" => PlanOf(k)' = PlanOf(k)
    BY <1>5, <2>1 DEF PlanOf, RunOf
  <2> QED BY <1>1, <1>5, <1>9, <2>2, TableStays
<1>12. AskedBook'
  <2>1. asked \subseteq Runs /\ AskedBook /\ r \notin asked /\ asked' = asked
    BY <1>1 DEF CoordInv, CTypes, AskedBook
  <2>2. \A q \in asked: run'[q] = run[q] /\ (InFlight(q)' <=> InFlight(q))
    BY <1>5, <2>1 DEF InFlight
  <2> QED BY <1>9, <2>1, <2>2 DEF AskedBook
<1>13. BusyBook'
  <2>1. \A q \in Runs: q # r => /\ run'[q] = run[q] /\ (InFlight(q)' <=> InFlight(q)) /\ (Core(q)' <=> Core(q))
    BY <1>5 DEF InFlight, Core
  <2>2. ~overlapped' => \A p, q \in Runs: InFlight(p)' /\ InFlight(q)' => p = q
    BY <1>9, <2>1
  <2>3. cancels = 0 => \A q \in Runs: q # r => ~Core(q)
    <3>1. \A q \in Runs: run[q].pc # "broken"
      BY <1>1, Numbers DEF CoordInv, RunBook
    <3> QED BY <1>1, <3>1 DEF CoordInv, BusyBook
  <2>4. Core(r)' \/ run'[r].pc = "wedged"
    BY <1>2, <1>3, <1>5 DEF Core
  <2> QED BY <1>1, <1>6, <2>1, <2>2, <2>3, <2>4 DEF BusyBook
<1> QED BY <1>7, <1>8, <1>10, <1>11, <1>12, <1>13 DEF CoordInv

LEMMA CoordInvNext == ASSUME CoordInv, [CoordNext]_coordVars PROVE CoordInv'
<1>1. CASE UNCHANGED coordVars
  <2>1. UNCHANGED <<coord, active, run, step, cancel, turn, cancels, asked, caught, hurt, overlapped>>
    BY <1>1 DEF coordVars
  <2>2. CTypes' /\ CancelBook' /\ AskedBook' /\ BusyBook'
    BY <2>1 DEF CoordInv, CTypes, CancelBook, AskedBook, BusyBook, InFlight, Core, MayRun
  <2>3. (\A r \in Runs: RunBook(r)') /\ (\A k \in Work: StepBook(k)') /\ TableBook'
    BY <2>1, InnerBooks DEF CoordInv, CTypes
  <2> QED BY <2>2, <2>3 DEF CoordInv
<1>2. CASE CancelGoesOn \/ Cancel
  BY <1>2, CancelKeeps, CancelGoesOnKeeps
<1>3. ASSUME NEW k \in Work, StepGoesOn(k) \/ JobOver(k) \/ WorkerTimesOut(k) PROVE CoordInv'
  BY <1>3, WorkersMove, TasksKeep, ParStepMoves, MovesKeep DEF StepGoesOn, JobOver
<1>4. ASSUME NEW r \in Runs, RunGoesOn(r) PROVE CoordInv'
  <2>1. CASE \E plan \in Plans[r] \cup {FallbackPlan}: PlanReady(r, plan)
    <3>1. PICK plan \in Plans[r] \cup {FallbackPlan}: PlanReady(r, plan)
      BY <2>1
    <3>2. plan \in Plan
      BY PlansAssumption, FallbackIs DEF PlansAssumption
    <3> QED BY <3>1, <3>2, PlanReadyKeeps
  <2>2. CASE Started(r) \/ PlanFails(r) \/ Announced(r)
    BY <2>2, StartedKeeps, AnnouncedKeeps
  <2>3. CASE SeqStep(r) \/ SeqReturns(r) \/ ParReturns(r)
    BY <2>3, SeqStepMoves, MovesKeep, SeqReturnsKeeps, ParReturnsKeeps
  <2>4. CASE RunFails(r) \/ Closed(r)
    BY <2>4, RunFailsKeeps, ClosedKeeps
  <2> QED BY <1>4, <2>1, <2>2, <2>3, <2>4 DEF RunGoesOn
<1>5. ASSUME NEW r \in Runs, Run(r) PROVE CoordInv'
  BY <1>5, RunKeeps
<1> QED BY <1>1, <1>2, <1>3, <1>4, <1>5 DEF CoordNext, GoesOn

-----------------------------------------------------------------------------
\* Who is registered and who has been told to stop.
LEMMA SignalInvInit == CoordInit => SignalInv
<1> SUFFICES ASSUME CoordInit PROVE SignalInv
  OBVIOUS
<1>1. \A k \in Work: step[k].pc = "none" /\ step[k].job = "none"
  BY DEF CoordInit, NoWorker
<1>2. registry \in [Work -> Work \cup {NoWork}] /\ cancel.left = {} /\ caught = {}
  BY DEF CoordInit, NotCancelling
<1>3. \A k \in Work: ~Live(k)
  BY <1>1 DEF Live
<1> QED BY <1>1, <1>2, <1>3 DEF SignalInv, JobBook, RegistryBook, SignalBook

\* The plan of a worker that has begun is settled.
PlansStay == \A k \in Work: step[k].pc # "none" => PlanOf(k)' = PlanOf(k)

\* Its sub-agent has not begun just now, and a signal is not taken back.
LivesOn(k) == Live(k)' => Live(k) /\ (step'[k].signal = step[k].signal \/ step'[k].signal # "none")

LEMMA SignalStays ==
    ASSUME CoordInv, SignalInv, PlansStay, UNCHANGED <<cancel, caught>>, ~overlapped' => ~overlapped,
           hurt \subseteq hurt', \A k \in caught: LivesOn(k)
    PROVE  SignalBook'
<1>1. SignalBook /\ CancelBook /\ caught \subseteq Work
  BY DEF SignalInv, CoordInv, CTypes
<1>2. \A k \in caught: Alone(k)' <=> Alone(k)
  BY <1>1, AloneIs DEF CancelBook, PlansStay
<1>3. ASSUME ~overlapped', hurt' = {}, NEW k \in caught, Live(k)', Alone(k)'
      PROVE  step'[k].signal # "none" \/ k \in cancel.left
  <2>1. ~overlapped /\ hurt = {} /\ Live(k) /\ Alone(k)
    BY <1>2, <1>3 DEF LivesOn
  <2> QED BY <1>1, <1>3, <2>1 DEF SignalBook, LivesOn
<1> QED BY <1>1, <1>3 DEF SignalBook

LEMMA RegistryStays ==
    ASSUME SignalInv, PlansStay, registry' = registry, \A k \in Work: Live(k)' => Live(k)
    PROVE  RegistryBook'
<1>1. RegistryBook
  BY DEF SignalInv
<1>2. ASSUME NEW k \in Work, Live(k)', Alone(k)' PROVE registry[RunId(k)'] = k
  <2>1. Live(k) /\ step[k].pc # "none"
    BY <1>2 DEF Live, AtWork
  <2>2. RunId(k)' = RunId(k) /\ Alone(k)
    BY <1>2, <2>1, AloneIs DEF PlansStay
  <2> QED BY <1>1, <2>1, <2>2 DEF RegistryBook
<1> QED BY <1>1, <1>2 DEF RegistryBook

\* One worker's run begins or ends under its id: the others are registered as they were.
LEMMA RegistryTold ==
    ASSUME CoordInv, SignalInv, NEW k \in Work, MayMove(k), \A j \in Work: PlanOf(j)' = PlanOf(j),
           registry' \in {Registered(k), Deregistered(k)}, Live(k)' => registry' = Registered(k),
           \A j \in Work: j # k => (Live(j)' => Live(j))
    PROVE  RegistryBook'
<1>1. RegistryBook /\ RunId(k) \in Work /\ registry \in [Work -> Work \cup {NoWork}]
  BY IdIs DEF SignalInv, RegistryBook, CoordInv
<1>2. registry' \in [Work -> Work \cup {NoWork}] /\ \A i \in Work: i # RunId(k) => registry'[i] = registry[i]
  BY <1>1 DEF Registered, Deregistered
<1>3. ASSUME NEW j \in Work, Live(j)', Alone(j)' PROVE registry'[RunId(j)'] = j
  <2>1. RunId(j)' = RunId(j) /\ Alone(j) /\ RunId(j) \in Work
    BY <1>3, AloneIs, IdIs DEF CoordInv
  <2>2. CASE j = k
    BY <1>1, <1>3, <2>1, <2>2 DEF Registered
  <2>3. CASE j # k
    <3>1. Live(j) /\ registry[RunId(j)] = j /\ step[j].pc \in Holding
      BY <1>1, <1>3, <2>1, <2>3, Pcs DEF RegistryBook, Live, AtWork
    <3>2. RunId(j) # RunId(k)
      BY <2>1, <2>3, <3>1, MoverAlone DEF RunId
    <3> QED BY <1>2, <2>1, <3>1, <3>2
  <2> QED BY <2>2, <2>3
<1> QED BY <1>2, <1>3 DEF RegistryBook

LEMMA JobStays ==
    ASSUME NEW k \in Work, JobBook(k), step'[k].pc = step[k].pc, step'[k].job = step[k].job,
           step[k].pc # "none" => PlanOf(k)' = PlanOf(k)
    PROVE  JobBook(k)'
<1>1. CASE step[k].pc = "none"
  BY <1>1 DEF JobBook
<1>2. CASE step[k].pc # "none"
  BY <1>2 DEF JobBook
<1> QED BY <1>1, <1>2

LEMMA WorkerSignals ==
    ASSUME CoordInv, SignalInv, NEW k \in Work, JobBook(k)', \A j \in Work: PlanOf(j)' = PlanOf(j),
           UNCHANGED <<cancel, caught>>, ~overlapped' => ~overlapped, hurt \subseteq hurt',
           \A j \in Work: j # k => step'[j] = step[j],
           \/ registry' = registry /\ LivesOn(k)
           \/ /\ MayMove(k) /\ registry' \in {Registered(k), Deregistered(k)}
              /\ Live(k)' => registry' = Registered(k) /\ k \notin caught
    PROVE  SignalInv'
<1>1. ASSUME NEW j \in Work, j # k PROVE LivesOn(j) /\ (Live(j)' => Live(j)) /\ JobBook(j)'
  <2>1. step'[j] = step[j] /\ JobBook(j) /\ PlanOf(j)' = PlanOf(j)
    BY <1>1 DEF SignalInv
  <2>2. JobBook(j)'
    BY <2>1, JobStays
  <2> QED BY <2>1, <2>2 DEF LivesOn, Live, AtWork
<1>2. PlansStay /\ caught \subseteq Work
  BY DEF PlansStay, CoordInv, CTypes
<1>3. \A j \in caught: LivesOn(j)
  BY <1>1, <1>2 DEF LivesOn
<1>4. SignalBook'
  BY <1>2, <1>3, SignalStays
<1>5. RegistryBook'
  <2>1. CASE registry' = registry /\ LivesOn(k)
    <3>1. \A j \in Work: Live(j)' => Live(j)
      BY <1>1, <2>1 DEF LivesOn
    <3> QED BY <1>2, <2>1, <3>1, RegistryStays
  <2>2. CASE /\ MayMove(k) /\ registry' \in {Registered(k), Deregistered(k)}
             /\ Live(k)' => registry' = Registered(k) /\ k \notin caught
    BY <1>1, <2>2, RegistryTold
  <2> QED BY <2>1, <2>2
<1> QED BY <1>1, <1>4, <1>5 DEF SignalInv

LEMMA MoveSignals ==
    ASSUME CoordInv, SignalInv, NEW k \in Work, Moves(k), JobBook(k)',
           \/ registry' = registry /\ ~Live(k)'
           \/ /\ registry' \in {Registered(k), Deregistered(k)}
              /\ Live(k)' => registry' = Registered(k) /\ k \notin caught
    PROVE  SignalInv'
<1>1. MayMove(k) /\ UNCHANGED <<cancel, caught, overlapped>> /\ \A j \in Work: j # k => step'[j] = step[j]
  BY DEF Moves, OthersStay
<1>2. hurt \subseteq hurt'
  BY DEF Moves, HoldsOn, IsDone, HasRaised
<1>3. \A j \in Work: PlanOf(j)' = PlanOf(j)
  BY MovesPlans DEF CoordInv
<1>4. ~Live(k)' => LivesOn(k)
  BY DEF LivesOn
<1> QED BY <1>1, <1>2, <1>3, <1>4, WorkerSignals

\* What a worker has become when it goes on.
LEMMA TurnedIs ==
    ASSUME CTypes, NEW k \in Work, NEW pc, NEW ok, step' = [step EXCEPT ![k] = [step[k] EXCEPT !.pc = pc, !.ok = ok]]
    PROVE  step'[k].pc = pc /\ step'[k].job = step[k].job
  BY DEF CTypes, StepType

LEMMA RaisedIs ==
    ASSUME CTypes, NEW k \in Work, NEW table, Raises(k, table)
    PROVE  step'[k].pc = "raised" /\ step'[k].job = step[k].job
<1>1. step' = [step EXCEPT ![k] = [step[k] EXCEPT !.pc = "raised", !.ok = FALSE]]
  BY DEF Raises, CTypes
<1> QED BY <1>1, TurnedIs

LEMMA ReportedIs ==
    ASSUME CTypes, NEW k \in Work, NEW ok, Reports(k, ok) \/ Done(k, ok)
    PROVE  step'[k].pc \in {"done", "reporting", "raised"} /\ step'[k].job = step[k].job
<1>1. CASE Done(k, ok)
  <2>1. step' = [step EXCEPT ![k] = [step[k] EXCEPT !.pc = "done", !.ok = ok]]
    BY <1>1 DEF Done, CTypes
  <2> QED BY <2>1, TurnedIs
<1>2. CASE Raises(k, Popped(k, ok))
  BY <1>2, RaisedIs
<1>3. CASE step' = [step EXCEPT ![k].pc = "reporting", ![k].ok = ok]
  <2>1. step' = [step EXCEPT ![k] = [step[k] EXCEPT !.pc = "reporting", !.ok = ok]]
    BY <1>3 DEF CTypes
  <2> QED BY <2>1, TurnedIs
<1> QED BY <1>1, <1>2, <1>3 DEF Reports, Event

LEMMA ExecutesSignals ==
    ASSUME CoordInv, SignalInv, NEW k \in Work, Moves(k), step[k].pc \in {"none", "queued", "starting"},
           NEW table, WorkerExecutes(k, table)
    PROVE  SignalInv'
<1>1. CTypes /\ k \notin caught /\ JobBook(k) /\ PlanOf(k)' = PlanOf(k)
  BY NotCaught, MovesPlans DEF CoordInv, SignalInv
<1>2. CASE k[2] \in PlanOf(k).unknown
  <2>1. step'[k].pc = "raised" /\ step'[k].job = step[k].job /\ registry' = registry
    BY <1>1, <1>2, RaisedIs DEF WorkerExecutes
  <2>2. JobBook(k)' /\ ~Live(k)'
    BY <1>1, <2>1 DEF JobBook, Live, AtWork
  <2> QED BY <2>1, <2>2, MoveSignals
<1>3. CASE k[2] \notin PlanOf(k).unknown /\ PlanOf(k).task
  <2>1. step' = [step EXCEPT ![k] = [NoWorker EXCEPT !.pc = "launching", !.job = "created"]] /\ registry' = registry
    BY <1>3 DEF WorkerExecutes
  <2>2. step'[k].pc = "launching" /\ step'[k].job = "created"
    BY <1>1, <2>1 DEF CTypes, NoWorker
  <2>3. JobBook(k)' /\ ~Live(k)'
    BY <1>1, <2>2 DEF JobBook, Live
  <2> QED BY <2>1, <2>3, MoveSignals
<1>4. CASE k[2] \notin PlanOf(k).unknown /\ ~PlanOf(k).task
  <2>1. step' = [step EXCEPT ![k] = [NoWorker EXCEPT !.pc = "executing", !.job = "running"]]
        /\ registry' = Registered(k)
    BY <1>4 DEF WorkerExecutes
  <2>2. step'[k].pc = "executing" /\ step'[k].job = "running"
    BY <1>1, <2>1 DEF CTypes, NoWorker
  <2>3. JobBook(k)'
    BY <1>1, <1>4, <2>2 DEF JobBook
  <2> QED BY <1>1, <2>1, <2>3, MoveSignals
<1> QED BY <1>2, <1>3, <1>4

LEMMA BeginStepSignals ==
    ASSUME CoordInv, SignalInv, NEW k \in Work, Moves(k), step[k].pc \in {"none", "queued"}, BeginStep(k)
    PROVE  SignalInv'
<1> DEFINE table == [active EXCEPT ![IdOf(k)] = k]
<1>1. CTypes /\ JobBook(k)
  BY DEF CoordInv, SignalInv
<1>2. CASE WorkerExecutes(k, table)
  BY <1>2, ExecutesSignals
<1>3. CASE registry' = registry /\ step'[k].pc \in {"starting", "raised"} /\ step'[k].job = step[k].job
  <2>1. JobBook(k)' /\ ~Live(k)'
    BY <1>1, <1>3 DEF JobBook, Live, AtWork
  <2> QED BY <1>3, <2>1, MoveSignals
<1>4. CASE Raises(k, table) /\ UNCHANGED registry
  BY <1>1, <1>3, <1>4, RaisedIs
<1>5. CASE step' = [step EXCEPT ![k].pc = "starting"] /\ UNCHANGED registry
  <2>1. step'[k].pc = "starting" /\ step'[k].job = step[k].job
    BY <1>1, <1>5 DEF CTypes, StepType
  <2> QED BY <1>3, <1>5, <2>1
<1> QED BY <1>2, <1>4, <1>5 DEF BeginStep, Event

LEMMA WorkersSignals ==
    ASSUME CoordInv, SignalInv, NEW k \in Work, StepStarted(k) \/ JobEnds(k) \/ TaskReturns(k) \/ Reported(k)
    PROVE  SignalInv'
<1>1. CTypes /\ JobBook(k) /\ Moves(k) /\ PlanOf(k)' = PlanOf(k)
  BY WorkersMove, MovesPlans DEF CoordInv, SignalInv
<1>2. CASE StepStarted(k)
  BY <1>1, <1>2, ExecutesSignals DEF StepStarted
<1>3. CASE JobEnds(k)
  <2>1. step'[k].pc \in {"done", "reporting", "raised"} /\ step'[k].job = step[k].job
    BY <1>1, <1>3, ReportedIs DEF JobEnds
  <2>2. step[k].pc = "executing" /\ registry' = Deregistered(k)
    BY <1>3 DEF JobEnds
  <2>3. JobBook(k)' /\ ~Live(k)'
    BY <1>1, <2>1, <2>2 DEF JobBook, Live, AtWork
  <2> QED BY <1>1, <2>2, <2>3, MoveSignals
<1>4. CASE TaskReturns(k) \/ Reported(k)
  <2>1. step'[k].pc \in {"done", "reporting", "raised"} /\ step'[k].job = step[k].job
    BY <1>1, <1>4, ReportedIs DEF TaskReturns, Reported
  <2>2. /\ registry' = registry
        /\ step[k].pc = "reporting" \/ step[k].job \in {"succeeded", "failed", "cancelled"}
    BY <1>4 DEF TaskReturns, Reported
  <2>3. JobBook(k)' /\ ~Live(k)'
    BY <1>1, <2>1, <2>2 DEF JobBook, Live, AtWork
  <2> QED BY <1>1, <2>2, <2>3, MoveSignals
<1> QED BY <1>2, <1>3, <1>4

LEMMA TasksSignals ==
    ASSUME CoordInv, SignalInv, NEW k \in Work,
           Launched(k) \/ JobBegins(k) \/ TaskEnds(k) \/ WorkerTimesOut(k)
    PROVE  SignalInv'
<1>1. CTypes /\ JobBook(k) /\ step \in [Work -> StepType] /\ step[k] \in StepType
  BY StepFields DEF CoordInv, SignalInv, CTypes
<1>2. /\ UNCHANGED <<run, cancel, caught, overlapped, hurt>> /\ FreeTurn
      /\ \A j \in Work: j # k => step'[j] = step[j]
  BY <1>1 DEF Launched, JobBegins, TaskEnds, WorkerTimesOut, history
<1>3. \A j \in Work: PlanOf(j)' = PlanOf(j)
  BY <1>2 DEF PlanOf, RunOf
<1>4. CASE Launched(k)
  <2>1. step[k].pc = "launching" /\ step' = [step EXCEPT ![k] = [step[k] EXCEPT !.pc = "waiting"]]
        /\ registry' = registry
    BY <1>1, <1>4 DEF Launched
  <2>2. step'[k].pc = "waiting" /\ step'[k].job = step[k].job /\ step'[k].signal = step[k].signal
    BY <1>1, <2>1, WaitsSet
  <2>3. JobBook(k)' /\ LivesOn(k)
    BY <1>1, <1>3, <2>1, <2>2 DEF JobBook, LivesOn, Live, AtWork
  <2> QED BY <1>2, <1>3, <2>1, <2>3, WorkerSignals
<1>5. CASE JobBegins(k)
  <2>1. PICK j \in {"cancelled", "running"}:
            /\ step' = [step EXCEPT ![k] = [step[k] EXCEPT !.job = j]]
            /\ registry' = IF j = "running" THEN Registered(k) ELSE registry
    BY <1>1, <1>5 DEF JobBegins
  <2>2. step[k].job = "created" /\ k \notin caught
    BY <1>5 DEF JobBegins, CoordInv, CancelBook
  <2>3. step[k].pc \in {"launching", "waiting"} /\ MayMove(k)
    BY <1>1, <1>2, <2>2, Pcs DEF JobBook, MayMove
  <2>4. step'[k].pc = step[k].pc /\ step'[k].job = j
    <3>1. j \in JobStatus
      BY DEF JobStatus
    <3> QED BY <1>1, <2>1, <3>1, JobSet
  <2>5. JobBook(k)'
    BY <1>3, <2>3, <2>4 DEF JobBook
  <2>6. j = "cancelled" => LivesOn(k)
    BY <2>4 DEF LivesOn, Live
  <2> QED BY <1>2, <1>3, <2>1, <2>2, <2>3, <2>5, <2>6, WorkerSignals
<1>6. CASE TaskEnds(k)
  <2>1. PICK j \in Results(k): step' = [step EXCEPT ![k] = [step[k] EXCEPT !.job = j]]
    BY <1>1, <1>6 DEF TaskEnds
  <2>2. j \in JobStatus /\ j \notin {"created", "running"}
    BY DEF JobStatus, Results
  <2>3. step[k].pc \in {"launching", "waiting"} /\ MayMove(k) /\ registry' = Deregistered(k)
    BY <1>1, <1>2, <1>6, Pcs DEF TaskEnds, JobBook, MayMove
  <2>4. step'[k].pc = step[k].pc /\ step'[k].job = j
    BY <1>1, <2>1, <2>2, JobSet
  <2>5. JobBook(k)' /\ ~Live(k)'
    BY <1>3, <2>2, <2>3, <2>4 DEF JobBook, Live
  <2> QED BY <1>2, <1>3, <2>3, <2>5, WorkerSignals
<1>7. CASE WorkerTimesOut(k)
  <2>1. step' = [step EXCEPT ![k] = [step[k] EXCEPT !.signal = "cancelled"]] /\ registry' = registry
    BY <1>1, <1>7 DEF WorkerTimesOut
  <2>2. step'[k].pc = step[k].pc /\ step'[k].job = step[k].job /\ step'[k].signal = "cancelled"
    BY <1>1, <2>1, SignalSet
  <2>3. JobBook(k)' /\ LivesOn(k)
    BY <1>1, <1>3, <2>2, JobStays DEF LivesOn, Live, AtWork
  <2> QED BY <1>2, <1>3, <2>1, <2>3, WorkerSignals
<1> QED BY <1>4, <1>5, <1>6, <1>7

\* Whoever is asked and alone with its id is told, or is left for later.
LEMMA AskedHears ==
    ASSUME CoordInv, SignalInv, NEW waited, NEW left \in SUBSET Work,
           NEW c \in [status: RunStatus, asked: BOOLEAN], Ask(waited, left, c),
           NEW k \in left, Live(k), Alone(k)
    PROVE  step'[k].signal # "none" \/ k \in cancel'.left
<1>1. CTypes /\ registry[RunId(k)] = k /\ AtWork(k) /\ k \in Work
  BY DEF CoordInv, SignalInv, RegistryBook, Live
<1>2. ASSUME NEW S \in SUBSET left, k \in S, \A j \in Work: j \in Reached(S) => step'[j].signal # "none"
      PROVE  step'[k].signal # "none"
  <2>1. k \in Reached(S)
    BY <1>1, <1>2 DEF Reached
  <2> QED BY <1>1, <1>2, <2>1
<1>3. Heard(k, left)
  BY <1>1, AskTells
<1> QED BY <1>2, <1>3 DEF Heard

LEMMA AskedSignals ==
    ASSUME CoordInv, SignalInv, Signals(step'), UNCHANGED <<run, registry>>
    PROVE  /\ (\A k \in Work: JobBook(k)') /\ RegistryBook'
           /\ \A k \in Work: (Live(k)' <=> Live(k)) /\ (Alone(k)' <=> Alone(k))
<1>1. \A k \in Work: PlanOf(k)' = PlanOf(k)
  BY DEF PlanOf, RunOf
<1>2. \A k \in Work: JobBook(k)'
  BY <1>1, JobStays DEF Signals, SignalInv
<1>3. \A k \in Work: Live(k)' <=> Live(k)
  BY DEF Signals, Live, AtWork
<1>4. RegistryBook'
  BY <1>1, <1>3, RegistryStays DEF PlansStay
<1> QED BY <1>1, <1>2, <1>3, <1>4, AloneIs

LEMMA CancelSignals == ASSUME CoordInv, SignalInv, Cancel PROVE SignalInv'
<1> DEFINE table == {active[s]: s \in Steps} \ {NoWork}
           c == [coord EXCEPT !.asked = TRUE]
<1>1. UNCHANGED <<active, registry, run, hurt, overlapped>>
      /\ caught' = {k \in Work: AtWork(k) /\ step[k].job = "running"}
  BY DEF Cancel
<1>2. CTypes /\ table \in SUBSET Work /\ c \in [status: RunStatus, asked: BOOLEAN] /\ Ask({}, table, c)
  BY CancelIs DEF CoordInv
<1>3. ASSUME ~overlapped, hurt = {}, NEW k \in Work, Live(k), Alone(k) PROVE k \in table
  <2>1. active[IdOf(k)] = k /\ IdOf(k) \in Steps /\ k # NoWork
    BY <1>2, <1>3, WorkIs, IdIs, Pcs DEF CoordInv, TableBook, Live, AtWork
  <2> QED BY <2>1
<1> HIDE DEF c, table
<1>4. Signals(step') /\ (~cancel'.on => cancel'.left = {})
  BY <1>2, AskIs
<1>5. /\ (\A k \in Work: JobBook(k)') /\ RegistryBook'
      /\ \A k \in Work: (Live(k)' <=> Live(k)) /\ (Alone(k)' <=> Alone(k))
  BY <1>1, <1>4, AskedSignals
<1>6. ASSUME ~overlapped, hurt = {}, NEW k \in Work, Live(k), Alone(k)
      PROVE  step'[k].signal # "none" \/ k \in cancel'.left
  <2>1. k \in table
    BY <1>3, <1>6
  <2> QED BY <1>2, <1>6, <2>1, AskedHears
<1>7. SignalBook'
  BY <1>1, <1>4, <1>5, <1>6 DEF SignalBook
<1> QED BY <1>5, <1>7 DEF SignalInv

LEMMA CancelGoesOnSignals == ASSUME CoordInv, SignalInv, CancelGoesOn PROVE SignalInv'
<1>1. UNCHANGED <<active, registry, run, caught, hurt, overlapped>> /\ Ask({cancel.awaits}, cancel.left, coord)
  BY DEF CancelGoesOn
<1>2. CTypes /\ cancel.left \in SUBSET Work /\ coord \in [status: RunStatus, asked: BOOLEAN] /\ caught \subseteq Work
  BY DEF CoordInv, CTypes
<1>4. Signals(step') /\ (~cancel'.on => cancel'.left = {})
  BY <1>1, <1>2, AskIs
<1>5. /\ (\A k \in Work: JobBook(k)') /\ RegistryBook'
      /\ \A k \in Work: (Live(k)' <=> Live(k)) /\ (Alone(k)' <=> Alone(k))
  BY <1>1, <1>4, AskedSignals
<1>6. ASSUME ~overlapped, hurt = {}, NEW k \in caught, Live(k), Alone(k)
      PROVE  step'[k].signal # "none" \/ k \in cancel'.left
  <2>1. CASE step[k].signal # "none"
    BY <1>2, <1>4, <2>1 DEF Signals
  <2>2. CASE step[k].signal = "none"
    <3>1. k \in cancel.left
      BY <1>6, <2>2 DEF SignalInv, SignalBook
    <3> QED BY <1>1, <1>2, <1>6, <3>1, AskedHears
  <2> QED BY <2>1, <2>2
<1>7. SignalBook'
  BY <1>1, <1>2, <1>4, <1>5, <1>6 DEF SignalBook
<1> QED BY <1>5, <1>7 DEF SignalInv

\* A step of a run: it settles its plan before its workers begin.
LEMMA RunSignals ==
    ASSUME CoordInv, SignalInv, NEW r \in Runs, UNCHANGED <<registry, cancel, caught, hurt>>,
           ~overlapped' => ~overlapped,
           \A k \in Work: \/ step'[k] = step[k]
                          \/ step[k].pc = "none" /\ step'[k].pc = "queued" /\ step'[k].job = "none",
           \A q \in Runs: q # r => run'[q] = run[q],
           run[r].pc \in Unbegun \/ run'[r].plan = run[r].plan
    PROVE  SignalInv'
<1>1. PlansStay
  <2>1. ASSUME NEW k \in Work, step[k].pc # "none" PROVE PlanOf(k)' = PlanOf(k)
    <3>1. RunOf(k) \in Runs /\ (RunOf(k) = r => run[r].pc \notin Unbegun)
      BY <2>1, WorkIs DEF CoordInv, StepBook, RunOf
    <3> QED BY <3>1 DEF PlanOf, RunOf
  <2> QED BY <2>1 DEF PlansStay
<1>2. ASSUME NEW k \in Work PROVE JobBook(k)' /\ LivesOn(k) /\ (Live(k)' => Live(k))
  <2>1. CASE step'[k] = step[k]
    <3>1. JobBook(k)'
      BY <1>1, <2>1, JobStays DEF PlansStay, SignalInv
    <3> QED BY <2>1, <3>1 DEF LivesOn, Live, AtWork
  <2>2. CASE step'[k].pc = "queued" /\ step'[k].job = "none"
    BY <2>2 DEF JobBook, LivesOn, Live
  <2> QED BY <2>1, <2>2
<1>3. caught \subseteq Work
  BY DEF CoordInv, CTypes
<1>4. SignalBook'
  BY <1>1, <1>2, <1>3, SignalStays
<1>5. RegistryBook'
  BY <1>1, <1>2, RegistryStays
<1> QED BY <1>2, <1>4, <1>5 DEF SignalInv

LEMMA BeginsIs ==
    ASSUME CoordInv, NEW r \in Runs, NEW plan, Begin(r, plan), run[r].pc \in Unbegun
    PROVE  \A k \in Work: \/ step'[k] = step[k]
                          \/ step[k].pc = "none" /\ step'[k].pc = "queued" /\ step'[k].job = "none"
<1>1. \A k \in Work: RunOf(k) = r => step[k].pc = "none"
  BY DEF CoordInv, StepBook
<1> QED BY <1>1 DEF Begin, NoWorker

LEMMA EarlySignals ==
    ASSUME CoordInv, SignalInv, NEW r \in Runs,
           \/ Run(r) \/ Started(r) \/ PlanFails(r) \/ Announced(r) \/ \E plan \in Plan: PlanReady(r, plan)
    PROVE  SignalInv'
<1>1. run \in [Runs -> RunType]
  BY DEF CoordInv, CTypes
<1>2. CASE Run(r) \/ Started(r) \/ PlanFails(r)
  <2>1. /\ run[r].pc \in Unbegun /\ UNCHANGED <<registry, step, cancel, caught, hurt>> /\ (~overlapped' => ~overlapped)
        /\ \A q \in Runs: q # r => run'[q] = run[q]
    <3>1. CASE Run(r)
      BY <1>1, <3>1 DEF Run, Event, Unbegun
    <3>2. CASE Started(r)
      BY <1>1, <3>2 DEF Started, history, Unbegun
    <3>3. CASE PlanFails(r)
      BY <1>1, <3>3 DEF PlanFails, history, Unbegun
    <3> QED BY <1>2, <3>1, <3>2, <3>3
  <2> QED BY <2>1, RunSignals
<1>3. CASE Announced(r)
  <2>1. /\ run[r].pc \in Unbegun /\ UNCHANGED <<registry, cancel, caught, hurt, overlapped>> /\ Begin(r, run[r].plan)
    BY <1>3 DEF Announced, history, Unbegun
  <2>2. \A q \in Runs: q # r => run'[q] = run[q]
    BY <1>1, <2>1 DEF Begin
  <2> QED BY <2>1, <2>2, BeginsIs, RunSignals
<1>4. ASSUME NEW plan \in Plan, PlanReady(r, plan) PROVE SignalInv'
  <2>1. run[r].pc \in Unbegun /\ UNCHANGED <<registry, cancel, caught, hurt, overlapped>>
    BY <1>4 DEF PlanReady, history, Unbegun
  <2>2. \A q \in Runs: q # r => run'[q] = run[q]
    BY <1>1, <1>4 DEF PlanReady, Event, Begin
  <2>3. step' = step \/ Begin(r, plan)
    BY <1>4 DEF PlanReady, Event
  <2> QED BY <2>1, <2>2, <2>3, BeginsIs, RunSignals
<1> QED BY <1>2, <1>3, <1>4

\* The plan of a run is not changed any more.
PlanKept(r) == (\A q \in Runs: q # r => run'[q] = run[q]) /\ run'[r].plan = run[r].plan

LEMMA EndKeeps ==
    ASSUME CTypes, NEW r \in Runs, NEW pc, NEW o, NEW s, End(r, pc, o, s)
    PROVE  PlanKept(r)
  BY DEF End, CTypes, RunType, PlanKept

LEMMA ToKeeps ==
    ASSUME CTypes, NEW r \in Runs, NEW pc, NEW s, NEW next, To(r, pc, s, next)
    PROVE  PlanKept(r)
  BY DEF To, CTypes, RunType, PlanKept

LEMMA FinishPlan == ASSUME CTypes, NEW r \in Runs, Finish(r) PROVE PlanKept(r)
<1> DEFINE o == Outcome(r)
<1>1. CASE End(r, "ended", o, o)
  BY <1>1, EndKeeps
<1>2. CASE To(r, "broken", o, r)
  BY <1>2, ToKeeps
<1>3. CASE run' = [run EXCEPT ![r].pc = "closing", ![r].outcome = o]
  <2> HIDE DEF o
  <2> QED BY <1>3 DEF CTypes, RunType, PlanKept
<1> QED BY <1>1, <1>2, <1>3 DEF Finish, Event

LEMMA LateSignals ==
    ASSUME CoordInv, SignalInv, NEW r \in Runs,
           SeqReturns(r) \/ ParReturns(r) \/ RunFails(r) \/ Closed(r)
    PROVE  SignalInv'
<1>1. CTypes /\ UNCHANGED <<registry, step, cancel, caught, hurt, overlapped>>
  BY DEF CoordInv, SeqReturns, ParReturns, Finish, RunFails, Closed, history
<1>2. PlanKept(r)
  <2>1. CASE SeqReturns(r) \/ ParReturns(r)
    BY <1>1, <2>1, FinishPlan DEF SeqReturns, ParReturns
  <2>2. CASE RunFails(r)
    BY <1>1, <2>2, EndKeeps, ToKeeps DEF RunFails, Event
  <2>3. CASE Closed(r)
    BY <1>1, <2>3, EndKeeps DEF Closed
  <2> QED BY <2>1, <2>2, <2>3
<1> QED BY <1>1, <1>2, RunSignals DEF PlanKept

LEMMA SignalInvNext == ASSUME CoordInv, SignalInv, [CoordNext]_coordVars PROVE SignalInv'
<1>1. CASE UNCHANGED coordVars
  <2>1. UNCHANGED <<registry, run, step, cancel, caught, hurt, overlapped>>
    BY <1>1 DEF coordVars
  <2>2. CASE Runs = {}
    <3>1. Work = {} /\ caught = {}
      BY <2>2 DEF Work, CoordInv, CTypes
    <3> QED BY <2>1, <3>1 DEF SignalInv, JobBook, RegistryBook, SignalBook
  <2>3. ASSUME NEW r \in Runs PROVE SignalInv'
    BY <2>1, RunSignals
  <2> QED BY <2>2, <2>3
<1>2. CASE CancelGoesOn \/ Cancel
  BY <1>2, CancelSignals, CancelGoesOnSignals
<1>3. ASSUME NEW k \in Work, StepGoesOn(k) \/ JobOver(k) \/ WorkerTimesOut(k) PROVE SignalInv'
  <2>1. CASE ParStep(k)
    BY <2>1, ParStepMoves, BeginStepSignals
  <2> QED BY <1>3, <2>1, WorkersSignals, TasksSignals DEF StepGoesOn, JobOver
<1>4. ASSUME NEW r \in Runs, RunGoesOn(r) \/ Run(r) PROVE SignalInv'
  <2>1. CASE SeqStep(r)
    <3>1. PICK k \in Work: Moves(k) /\ step[k].pc = "none" /\ BeginStep(k)
      BY <2>1, SeqStepMoves
    <3> QED BY <3>1, BeginStepSignals
  <2>2. Plans[r] \cup {FallbackPlan} \subseteq Plan
    BY PlansAssumption, FallbackIs DEF PlansAssumption
  <2>3. CASE SeqReturns(r) \/ ParReturns(r) \/ RunFails(r) \/ Closed(r)
    BY <2>3, LateSignals
  <2>4. CASE \/ Run(r) \/ Started(r) \/ PlanFails(r) \/ Announced(r)
             \/ \E plan \in Plans[r] \cup {FallbackPlan}: PlanReady(r, plan)
    BY <2>2, <2>4, EarlySignals
  <2> QED BY <1>4, <2>1, <2>3, <2>4 DEF RunGoesOn
<1> QED BY <1>1, <1>2, <1>3, <1>4 DEF CoordNext, GoesOn

-----------------------------------------------------------------------------
\* What the books say.
LEMMA CoordTypes == CoordInv => CoordTypeOK
<1> SUFFICES ASSUME CoordInv PROVE CoordTypeOK
  OBVIOUS
<1>1. CTypes /\ coord \in [status: RunStatus, asked: BOOLEAN] /\ turn \in Runs \cup {NoRun}
  BY DEF CoordInv, CTypes
<1>2. \A s \in Steps: active[s] # NoWork => active[s] \in Work /\ IdOf(active[s]) = s
  BY DEF CoordInv, CTypes, TableBook
<1>3. \A r \in Runs: /\ run[r].pc \in RunPcs /\ run[r].at \in 1..(NSteps + 1)
                     /\ run[r].outcome \in {"none", "completed", "failed", "cancelled"}
  BY <1>1, RunFields
<1>4. ASSUME NEW k \in Work
      PROVE  /\ step[k].pc \in StepPcs /\ step[k].job \in JobStatus
             /\ step[k].signal \in {"none", "aborted", "cancelled"}
             /\ step[k].pc # "none" => k \in StepsOf(RunOf(k))
  <2>1. step[k].pc # "none" => k \in StepsOf(RunOf(k))
    BY DEF CoordInv, StepBook, StepsOf
  <2> QED BY <1>1, <2>1, StepFields
<1> QED BY <1>1, <1>2, <1>3, <1>4 DEF CoordTypeOK, RunPcs, StepPcs

\* A run that has ended left nobody behind, unless one has raised.
LEMMA Tracked == CoordInv => WorkersTracked
<1> SUFFICES ASSUME CoordInv, ~overlapped, hurt = {} PROVE
      /\ \A k \in Work: active[IdOf(k)] = k => step[k].pc \in Holding
      /\ \A k \in Work: step[k].pc \in Holding /\ Alone(k) => active[IdOf(k)] = k
      /\ \A r \in Runs: run[r].pc \in {"ended", "raised"} => \A k \in Work: RunOf(k) = r => ~AtWork(k)
  BY DEF WorkersTracked
<1>1. \A k \in Work: /\ active[IdOf(k)] = k => step[k].pc \in Holding
                     /\ step[k].pc \in Holding /\ Alone(k) => active[IdOf(k)] = k
  BY DEF CoordInv, TableBook
<1>2. ASSUME NEW r \in Runs, run[r].pc \in {"ended", "raised"}, NEW k \in Work, RunOf(k) = r PROVE ~AtWork(k)
  <2>1. step[k].pc \notin Holding
    BY <1>2 DEF CoordInv, StepBook
  <2> QED BY <2>1, Pcs DEF AtWork
<1> QED BY <1>1, <1>2

LEMMA BusyHolds == CoordInv => BusyIsTrue
<1> SUFFICES ASSUME CoordInv PROVE BusyIsTrue
  OBVIOUS
<1>1. CTypes /\ BusyBook /\ \A r \in Runs: run[r].pc \in RunPcs
  BY RunFields DEF CoordInv
<1>2. ASSUME NEW q \in Runs, NEW r \in Runs, InFlight(q), InFlight(r),
             {run[q].pc, run[r].pc} \cap {"closing", "failing"} = {}
      PROVE  q = r \/ cancels > 0
  <2>1. Core(q) /\ Core(r)
    BY <1>1, <1>2 DEF Core, InFlight, RunPcs
  <2>2. cancels = 0 \/ cancels > 0
    BY <1>1 DEF CTypes
  <2> QED BY <1>1, <2>1, <2>2 DEF BusyBook
<1>3. ~MayRun /\ ~overlapped => \E r \in Runs: InFlight(r) \/ run[r].pc = "wedged"
  <2>1. \A r \in Runs: Core(r) => InFlight(r)
    BY DEF Core, InFlight
  <2> QED BY <1>1, <2>1 DEF BusyBook
<1> QED BY <1>2, <1>3 DEF BusyIsTrue

LEMMA Outcomes == CoordInv => OutcomeIsTrue
<1> SUFFICES ASSUME CoordInv, NEW r \in Runs PROVE
      /\ run[r].pc = "ended" /\ run[r].outcome = "completed" =>
            /\ \A k \in StepsOf(r): step[k].pc = "done" /\ step[k].ok
            /\ r \in asked => overlapped
      /\ ~Parallel(run[r].plan) => \A j, k \in StepsOf(r): AtWork(j) /\ AtWork(k) => j = k
  BY DEF OutcomeIsTrue
<1>1. \A k \in StepsOf(r): k \in Work /\ RunOf(k) = r /\ k[2] <= run[r].plan.n /\ StepBook(k)
  BY DEF StepsOf, CoordInv
<1>2. ASSUME run[r].pc = "ended", run[r].outcome = "completed"
      PROVE  /\ \A k \in StepsOf(r): step[k].pc = "done" /\ step[k].ok
             /\ r \in asked => overlapped
  BY <1>1, <1>2 DEF StepBook, CoordInv, AskedBook
<1>3. ASSUME ~Parallel(run[r].plan), NEW j \in StepsOf(r), NEW k \in StepsOf(r), AtWork(j), AtWork(k)
      PROVE  j = k
  <2>1. step[j].pc \in Holding /\ step[k].pc \in Holding
    BY <1>3, Pcs DEF AtWork
  <2>2. run[r].pc = "seq"
    BY <1>1, <1>3, <2>1 DEF StepBook
  <2>3. j[2] \in Nat /\ k[2] \in Nat /\ run[r].at \in Nat
    BY <1>1, WorkIs, RunFields, Numbers DEF CoordInv
  <2>4. j[2] = run[r].at /\ k[2] = run[r].at
    BY <1>1, <2>1, <2>2, <2>3, Pcs DEF StepBook
  <2> QED BY <1>1, <2>4, SameWork DEF RunOf
<1> QED BY <1>2, <1>3

\* Nobody is left to be asked by a cancel_current that has returned.
LEMMA CancelReaches == CoordInv /\ SignalInv => CancelReachesAll
<1> SUFFICES ASSUME SignalBook, ~cancel.on, ~overlapped, hurt = {}, NEW k \in caught,
                    AtWork(k), step[k].job = "running", Alone(k)
             PROVE  step[k].signal # "none"
  BY DEF SignalInv, CancelReachesAll
<1> QED BY DEF SignalBook, Live

-----------------------------------------------------------------------------
\* Both desks.
DelegationInv == TeamInv /\ DeletionInv /\ CoordInv /\ SignalInv

LEMMA TeamKeeps == ASSUME TeamInv, DeletionInv, [TeamNext]_teamVars PROVE TeamInv' /\ DeletionInv'
<1>1. CASE TeamNext
  BY <1>1, TeamInvNext, DeletionNext
<1>2. CASE UNCHANGED teamVars
  BY <1>2, RosterKeeps, Untouched DEF teamVars, workVars
<1> QED BY <1>1, <1>2

LEMMA DelegationHolds == Spec => []DelegationInv
<1>1. Init => DelegationInv
  BY TeamInvInit, DeletionInit, CoordInvInit, SignalInvInit DEF Init, DelegationInv
<1>2. DelegationInv /\ [Next]_vars => DelegationInv'
  <2> SUFFICES ASSUME DelegationInv, [Next]_vars PROVE DelegationInv'
    OBVIOUS
  <2>1. [TeamNext]_teamVars /\ [CoordNext]_coordVars
    BY DEF Next, AtTeam, AtPlan, vars
  <2> QED BY <2>1, TeamKeeps, CoordInvNext, SignalInvNext DEF DelegationInv
<1> QED BY <1>1, <1>2, PTL DEF Spec

LEMMA TeamTypes == TeamInv /\ DeletionInv => TeamTypeOK
<1> SUFFICES ASSUME TeamInv, DeletionInv PROVE TeamTypeOK
  OBVIOUS
<1>1. ASSUME NEW m \in MateSet
      PROVE  /\ roster[m] \in {"absent", "active", "disabled", "removed"}
             /\ mate[m].status \in {"idle", "waiting", "running", "stopped"}
             /\ mate[m].run \in Tasks \cup {NoTask}
             /\ loop[m] \in {"off", "waiting", "executing"} /\ inbox[m] \in Seq(Tasks \cup {Stop})
  BY DEF TeamInv, Types, MateType, Statuses, DeletionInv, RosterIs
<1>2. \A k \in Tasks: shared[k].status \in SharedStatus
  BY DEF TeamInv, Types, SharedType
<1>3. deletion.pc \in {"none", "cancelling", "stopping", "done"}
  BY DEF DeletionInv, DeletionIs, DeletionType
<1> QED BY <1>1, <1>2, <1>3 DEF TeamTypeOK

(***************************************************************************)
(* The values of the team and of the coordinator stay what they are said   *)
(* to be, and only steps that are in the plan of their run have a worker.  *)
(***************************************************************************)
THEOREM DelegationIsTyped == Spec => []TypeOK
<1>1. DelegationInv => TypeOK
  BY TeamTypes, CoordTypes DEF DelegationInv, TypeOK
<1> QED BY <1>1, DelegationHolds, PTL

(***************************************************************************)
(* A team keeps its books, for any number of teammates, tasks and changes: *)
(* a teammate executes one thing at a time, is offered a task only when it *)
(* has nothing to do, and what the list says of a task is what came of it. *)
(***************************************************************************)
THEOREM TeamBooks == Spec => []TeamIsTrue
<1>1. DelegationInv => TeamIsTrue
  BY BooksAreTrue DEF DelegationInv
<1> QED BY <1>1, DelegationHolds, PTL

(***************************************************************************)
(* The coordinator keeps its books, for any number of runs, any plans and  *)
(* any concurrency: active_workers is what is at work, up to steps side by *)
(* side that have the same id, it is busy when a run is going, and it      *)
(* reports of a run what came of its steps.                                *)
(***************************************************************************)
THEOREM PlanHolds == Spec => []PlanIsTrue
<1>1. DelegationInv => PlanIsTrue
  BY Tracked, BusyHolds, Outcomes DEF DelegationInv, PlanIsTrue
<1> QED BY <1>1, DelegationHolds, PTL

(***************************************************************************)
(* Who cancels gets what was asked for: a cancelled shared task stays      *)
(* cancelled until it is removed, a cancel_current of the coordinator has  *)
(* reached every worker at work whose step id is its own when it returns,  *)
(* and after team_delete no member works unsignalled, but for a task whose *)
(* id was not known yet, whatever comes in between.                        *)
(***************************************************************************)
THEOREM CancelIsHeeded == Spec => CancelHolds
<1>1. DelegationInv /\ [Next]_vars =>
        [\A k \in Tasks: shared[k].status = "cancelled" =>
            shared'[k].status \in {"cancelled", "removed"}]_teamVars
  <2> SUFFICES ASSUME DelegationInv, [Next]_vars
               PROVE  (\A k \in Tasks: shared[k].status = "cancelled" =>
                         shared'[k].status \in {"cancelled", "removed"}) \/ UNCHANGED teamVars
    OBVIOUS
  <2>1. TeamNext \/ UNCHANGED teamVars
    BY DEF Next, AtTeam, AtPlan, vars
  <2> QED BY <2>1, CancelledStep DEF DelegationInv
<1>2. DelegationInv => CancelReachesAll /\ DeletedIsQuiet
  BY CancelReaches, DeletedIs DEF DelegationInv
<1>3. Spec => CancelledStays
  BY <1>1, DelegationHolds, PTL DEF Spec, CancelledStays
<1>4. Spec => [](CancelReachesAll /\ DeletedIsQuiet)
  BY <1>2, DelegationHolds, PTL
<1> QED BY <1>3, <1>4 DEF CancelHolds

=============================================================================
