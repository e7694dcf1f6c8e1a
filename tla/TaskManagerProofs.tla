-------------------------- MODULE TaskManagerProofs --------------------------
(***************************************************************************)
(* What TaskManager keeps for any number of tasks, callers, executions,    *)
(* faults and crashes: records, executions and the table of active ones    *)
(* first, then the story that the rows and the event log tell.             *)
(***************************************************************************)
EXTENDS MCTaskClient, FiniteSetTheorems, TLAPS

USE DEF ExecIds

-----------------------------------------------------------------------------
(***************************************************************************)
(* Records, rows and events.                                               *)
(***************************************************************************)
\* Every mark_* method turns a record into a record; a retry is counted only
\* while max_retries allows it.
LEMMA RecordOps ==
    ASSUME NEW r \in Record
    PROVE  /\ r.status # "absent"
           /\ NewRecord \in Record
           /\ MarkQueued(r) \in Record
           /\ MarkRunning(r) \in Record
           /\ MarkSucceeded(r) \in Record
           /\ MarkFailed(r) \in Record
           /\ MarkCancelled(r) \in Record
           /\ PrepareNextAttempt(r) \in Record
           /\ CanRetry(r) => MarkRetrying(r) \in Record
<1> USE DEF Record, TaskStatus
<1>1. r.status # "absent"
  OBVIOUS
<1>2. NewRecord \in Record
  BY MaxRetriesIsNat DEF MaxRetriesIsNat, NewRecord
<1>3. MarkQueued(r) \in Record /\ MarkRunning(r) \in Record
  BY DEF MarkQueued, MarkRunning
<1>4. MarkSucceeded(r) \in Record /\ MarkFailed(r) \in Record /\ MarkCancelled(r) \in Record
  BY DEF MarkSucceeded, MarkFailed, MarkCancelled
<1>5. PrepareNextAttempt(r) \in Record
  BY DEF PrepareNextAttempt
<1>6. CanRetry(r) => MarkRetrying(r) \in Record
  <2> SUFFICES ASSUME CanRetry(r) PROVE MarkRetrying(r) \in Record
    OBVIOUS
  <2>1. r.retries \in 0..MaxRetries /\ r.retries < MaxRetries
    BY DEF CanRetry
  <2>2. r.retries + 1 \in 0..MaxRetries
    BY <2>1, MaxRetriesIsNat DEF MaxRetriesIsNat
  <2> QED BY <2>2 DEF MarkRetrying
<1> QED BY <1>1, <1>2, <1>3, <1>4, <1>5, <1>6

\* The record a method works on, once its task is known.
LEMMA LoadedIsRecord ==
    ASSUME TypeOK, NEW t \in Tasks
    PROVE  /\ InMemory(t) => mem[t] \in Record
           /\ Known(t) => Loaded(t) \in Record
BY DEF TypeOK, InMemory, Known, Loaded, NoRecord

\* Writing a record, with or without its event, keeps the tables' types and
\* forgets no record.
LEMMA EmitTypes ==
    ASSUME TypeOK, NEW t \in Tasks, NEW r \in Record, NEW ev \in TaskEventType, NEW out,
           Emit(t, r, ev, out)
    PROVE  /\ mem' \in [Tasks -> Record \cup {NoRecord}]
           /\ row' \in [Tasks -> Record \cup {NoRecord}]
           /\ log' \in [Tasks -> Seq(TaskEventType)]
           /\ faults' \in 0..MaxFaults
           /\ InMemory(t)'
           /\ \A u \in Tasks: InMemory(u) => InMemory(u)'
<1>1. mem' = [mem EXCEPT ![t] = r]
  BY DEF Emit
<1>2. mem' \in [Tasks -> Record \cup {NoRecord}] /\ row' \in [Tasks -> Record \cup {NoRecord}]
  BY <1>1 DEF Emit, TypeOK
<1>3. log' \in [Tasks -> Seq(TaskEventType)]
  BY DEF Emit, TypeOK
<1>4. faults' \in 0..MaxFaults
  BY TaskManagerAssumption DEF TaskManagerAssumption, Emit, Fault, CanFault, TypeOK
<1>5. InMemory(t)' /\ \A u \in Tasks: InMemory(u) => InMemory(u)'
  BY <1>1, RecordOps DEF InMemory, TypeOK
<1> QED BY <1>2, <1>3, <1>4, <1>5

LEMMA PersistTypes ==
    ASSUME TypeOK, NEW t \in Tasks, NEW r \in Record, NEW ok \in BOOLEAN, Persist(t, r, ok)
    PROVE  /\ mem' \in [Tasks -> Record \cup {NoRecord}]
           /\ row' \in [Tasks -> Record \cup {NoRecord}]
           /\ faults' \in 0..MaxFaults
           /\ InMemory(t)'
           /\ \A u \in Tasks: InMemory(u) => InMemory(u)'
<1>1. mem' = [mem EXCEPT ![t] = r]
  BY DEF Persist
<1>2. mem' \in [Tasks -> Record \cup {NoRecord}] /\ row' \in [Tasks -> Record \cup {NoRecord}]
  BY <1>1 DEF Persist, TypeOK
<1>4. faults' \in 0..MaxFaults
  BY TaskManagerAssumption DEF TaskManagerAssumption, Persist, Fault, CanFault, TypeOK
<1>5. InMemory(t)' /\ \A u \in Tasks: InMemory(u) => InMemory(u)'
  BY <1>1, RecordOps DEF InMemory, TypeOK
<1> QED BY <1>2, <1>4, <1>5

LEMMA LoadTypes ==
    ASSUME TypeOK, NEW t \in Tasks, Known(t), Load(t)
    PROVE  /\ mem' \in [Tasks -> Record \cup {NoRecord}]
           /\ InMemory(t)'
           /\ \A u \in Tasks: InMemory(u) => InMemory(u)'
<1>1. Loaded(t) \in Record
  BY LoadedIsRecord
<1> QED BY <1>1, RecordOps DEF Load, InMemory, TypeOK

-----------------------------------------------------------------------------
(***************************************************************************)
(* Type correctness.                                                       *)
(***************************************************************************)
TypeInv == TypeOK /\ TasksLoaded

LEMMA IdleCaller == Idle \in Caller /\ Idle.pc = "idle" /\ Idle.rest = {}
BY TaskManagerAssumption DEF TaskManagerAssumption, Idle, Caller, CallPc

LEMMA TypeInit == Init => TypeInv
<1> SUFFICES ASSUME Init PROVE TypeInv
  OBVIOUS
<1>1. NoExec \in Execution /\ Idle \in Caller
  BY TaskManagerAssumption DEF TaskManagerAssumption, NoExec, Execution, ExecPc, Idle, Caller, CallPc
<1>2. TypeOK
  BY <1>1, TaskManagerAssumption DEF TaskManagerAssumption, TypeOK, Init
<1>3. TasksLoaded
  BY DEF TasksLoaded, Init, NoExec, Idle
<1> QED BY <1>2, <1>3 DEF TypeInv

\* What most steps do to the four maps that TasksLoaded relates.
MemGrows == \A u \in Tasks: InMemory(u) => InMemory(u)'
ExecsKept ==
    /\ exec' \in [ExecIds -> Execution]
    /\ \A d \in ExecIds: exec'[d].task = exec[d].task
    /\ \A d \in ExecIds: (exec'[d].pc = "unused") <=> (exec[d].pc = "unused")
ActiveShrinks == /\ active' \in [Tasks -> 0..MaxExecutions]
                 /\ \A t \in Tasks: active'[t] \in {0, active[t]}
CallsLoaded == \A c \in Callers: call[c].pc \notin {"idle", "all"} =>
                  call[c].task \in Tasks /\ InMemory(call[c].task)

\* Steps that launch nothing keep TasksLoaded.
LEMMA KeepLoaded ==
    ASSUME TypeInv, MemGrows, ExecsKept, ActiveShrinks, CallsLoaded'
    PROVE  TasksLoaded'
<1>1. ASSUME NEW e \in ExecIds, exec'[e].pc # "unused"
      PROVE  (exec[e].task \in Tasks /\ InMemory(exec[e].task))'
  <2>1. exec[e].pc # "unused" /\ exec'[e].task = exec[e].task
    BY <1>1 DEF ExecsKept
  <2>2. exec[e].task \in Tasks /\ InMemory(exec[e].task)
    BY <2>1 DEF TypeInv, TasksLoaded
  <2> QED BY <2>1, <2>2 DEF MemGrows, InMemory
<1>2. ASSUME NEW t \in Tasks, active'[t] # 0
      PROVE  (exec[active[t]].task = t /\ exec[active[t]].pc # "unused")'
  <2>1. active'[t] = active[t] /\ active[t] \in ExecIds
    BY <1>2, TaskManagerAssumption DEF TaskManagerAssumption, ActiveShrinks, TypeInv, TypeOK
  <2>2. exec[active[t]].task = t /\ exec[active[t]].pc # "unused"
    BY <1>2, <2>1 DEF TypeInv, TasksLoaded
  <2> QED BY <2>1, <2>2 DEF ExecsKept
<1>3. (\A c \in Callers: call[c].pc \notin {"idle", "all"} =>
          call[c].task \in Tasks /\ InMemory(call[c].task))'
  BY DEF CallsLoaded
<1> QED BY <1>1, <1>2, <1>3 DEF TasksLoaded

LEMMA CallsKept ==
    ASSUME TypeInv, MemGrows, UNCHANGED call
    PROVE  CallsLoaded'
BY DEF TypeInv, TasksLoaded, MemGrows, CallsLoaded

LEMMA GotoKeeps ==
    ASSUME TypeInv, NEW e \in ExecIds, exec[e].pc # "unused",
           NEW pc \in ExecPc \ {"unused"}, Goto(e, pc) \/ GotoCaught(e, pc)
    PROVE  ExecsKept
<1>1. exec \in [ExecIds -> Execution]
  BY DEF TypeInv, TypeOK
<1>2. [exec[e] EXCEPT !.pc = pc] \in Execution /\ [exec[e] EXCEPT !.pc = pc, !.cancel = FALSE] \in Execution
  BY <1>1 DEF Execution
<1>3. exec' = [exec EXCEPT ![e] = [@ EXCEPT !.pc = pc]]
      \/ exec' = [exec EXCEPT ![e] = [@ EXCEPT !.pc = pc, !.cancel = FALSE]]
  BY DEF Goto, GotoCaught
<1>4. exec' \in [ExecIds -> Execution]
  BY <1>1, <1>2, <1>3
<1>5. ASSUME NEW d \in ExecIds
      PROVE  exec'[d].task = exec[d].task /\ (exec'[d].pc = "unused" <=> exec[d].pc = "unused")
  <2>1. CASE d = e
    BY <1>1, <1>3, <2>1 DEF Execution
  <2>2. CASE d # e
    BY <1>1, <1>3, <2>2
  <2> QED BY <2>1, <2>2
<1> QED BY <1>4, <1>5 DEF ExecsKept

LEMMA CancelKeeps ==
    ASSUME TypeInv, NEW e \in ExecIds, exec' = [exec EXCEPT ![e] = Cancelled(@)]
    PROVE  ExecsKept
BY DEF TypeInv, TypeOK, ExecsKept, Execution, Cancelled

\* Cancelling an id that names no execution changes nothing.
LEMMA CancelStep ==
    ASSUME TypeInv, NEW n, exec' = [exec EXCEPT ![n] = Cancelled(@)]
    PROVE  ExecsKept
<1>1. CASE n \in ExecIds
  BY <1>1, CancelKeeps
<1>2. CASE n \notin ExecIds
  <2>1. exec' = exec
    BY <1>2 DEF TypeInv, TypeOK
  <2> QED BY <2>1 DEF TypeInv, TypeOK, ExecsKept
<1> QED BY <1>1, <1>2

LEMMA LeaveKeeps ==
    ASSUME TypeInv, NEW e \in ExecIds, exec[e].pc # "unused",
           NEW pc \in ExecPc \ {"unused"}, Leave(e, pc)
    PROVE  ExecsKept /\ ActiveShrinks
<1>1. ExecsKept
  BY GotoKeeps DEF Leave
<1>2. active' = [active EXCEPT ![exec[e].task] = 0] /\ active \in [Tasks -> 0..MaxExecutions]
  BY DEF Leave, TypeInv, TypeOK
<1>3. 0 \in 0..MaxExecutions
  BY TaskManagerAssumption DEF TaskManagerAssumption
<1>4. ActiveShrinks
  BY <1>2, <1>3 DEF ActiveShrinks
<1> QED BY <1>1, <1>4

LEMMA ActiveUnchanged ==
    ASSUME TypeInv, UNCHANGED active
    PROVE  ActiveShrinks
BY DEF ActiveShrinks, TypeInv, TypeOK

LEMMA ExecUnchanged ==
    ASSUME TypeInv, UNCHANGED exec
    PROVE  ExecsKept
BY DEF ExecsKept, TypeInv, TypeOK

\* A caller that goes on to work on task t, which is in memory.
LEMMA CallerMoves ==
    ASSUME TypeInv, MemGrows, NEW c \in Callers, NEW x \in Caller,
           call' = [call EXCEPT ![c] = x],
           x.pc \in {"idle", "all"} \/ (x.task \in Tasks /\ InMemory(x.task)')
    PROVE  call' \in [Callers -> Caller] /\ CallsLoaded'
BY DEF TypeInv, TypeOK, TasksLoaded, CallsLoaded, MemGrows

\* The steps of an execution.
LEMMA TypeExec ==
    ASSUME TypeInv, NEW e \in ExecIds, ExecStep(e)
    PROVE  TypeInv'
<1> DEFINE t == exec[e].task
<1>0. TypeOK /\ TasksLoaded
  BY DEF TypeInv
<1>u. exec[e].pc # "unused"
  BY DEF ExecStep, EnterRecord, NeverEntered, CallRunner, RunnerReturns, RunnerRaises,
         RunnerIgnoresCancel, EndRecord, CatchCancel, CatchException, LeaveHandler
<1>t. t \in Tasks /\ mem[t] \in Record
  BY <1>0, <1>u, LoadedIsRecord DEF TasksLoaded
<1>r. /\ MarkRunning(mem[t]) \in Record /\ MarkSucceeded(mem[t]) \in Record
      /\ MarkFailed(mem[t]) \in Record /\ MarkCancelled(mem[t]) \in Record
  BY <1>t, RecordOps
<1>v. {"STARTED", "SUCCEEDED", "FAILED", "CANCELLED"} \subseteq TaskEventType
  BY DEF TaskEventType
<1>p. ExecPc \ {"unused"} = {"created", "started", "running", "ending", "failing",
                             "handling", "returned", "raised", "cancelled"}
  BY DEF ExecPc
<1> HIDE DEF t
<1>e. ASSUME NEW r \in Record, NEW ev \in TaskEventType, NEW out, Emit(t, r, ev, out)
      PROVE  /\ mem' \in [Tasks -> Record \cup {NoRecord}]
             /\ row' \in [Tasks -> Record \cup {NoRecord}]
             /\ log' \in [Tasks -> Seq(TaskEventType)]
             /\ faults' \in 0..MaxFaults
             /\ MemGrows
  BY <1>0, <1>t, <1>e, EmitTypes DEF MemGrows
<1>f. ASSUME NEW ok \in BOOLEAN, Fault(ok)
      PROVE  faults' \in 0..MaxFaults
  BY <1>0, <1>f, TaskManagerAssumption DEF TaskManagerAssumption, Fault, CanFault, TypeOK
<1>g. ASSUME NEW pc \in ExecPc \ {"unused"}, Goto(e, pc) \/ GotoCaught(e, pc)
      PROVE  ExecsKept
  BY <1>u, <1>g, GotoKeeps
<1>l. ASSUME NEW pc \in ExecPc \ {"unused"}, Leave(e, pc)
      PROVE  ExecsKept /\ ActiveShrinks
  BY <1>u, <1>l, LeaveKeeps
<1>m. UNCHANGED mem => mem' \in [Tasks -> Record \cup {NoRecord}] /\ MemGrows
  BY <1>0 DEF TypeOK, MemGrows, InMemory
<1>a. UNCHANGED active => ActiveShrinks
  BY ActiveUnchanged
\* What remains of TypeInv' once the tables, the execution and _active are done.
<1>q. ASSUME mem' \in [Tasks -> Record \cup {NoRecord}], row' \in [Tasks -> Record \cup {NoRecord}],
             log' \in [Tasks -> Seq(TaskEventType)], faults' \in 0..MaxFaults,
             MemGrows, ExecsKept, ActiveShrinks, UNCHANGED <<runners, call, crashes>>
      PROVE  TypeInv'
  <2>1. TypeOK'
    BY <1>0, <1>q DEF TypeOK, ExecsKept, ActiveShrinks
  <2>2. TasksLoaded'
    BY <1>q, CallsKept, KeepLoaded
  <2> QED BY <2>1, <2>2 DEF TypeInv
<1>1. CASE EnterRecord(e)
  <2>1. PICK out \in EmitOutcome:
           Emit(t, MarkRunning(mem[t]), "STARTED", out) /\ Goto(e, IF out = "ok" THEN "started" ELSE "failing")
    BY <1>1 DEF EnterRecord, t
  <2>2. ExecsKept
    BY <2>1, <1>g, <1>p
  <2> QED BY <1>1, <2>1, <2>2, <1>e, <1>r, <1>v, <1>a, <1>q DEF EnterRecord
<1>2. CASE NeverEntered(e)
  <2>1. ExecsKept
    BY <1>2, <1>g, <1>p DEF NeverEntered
  <2> QED BY <1>2, <2>1, <1>0, <1>m, <1>a, <1>q DEF NeverEntered, TypeOK
<1>3. CASE CallRunner(e)
  <2>1. PICK ok \in BOOLEAN: Fault(ok) /\ Goto(e, IF ok THEN "running" ELSE "failing")
    BY <1>3 DEF CallRunner
  <2>2. ExecsKept
    BY <2>1, <1>g, <1>p
  <2> QED BY <1>3, <2>1, <2>2, <1>0, <1>f, <1>m, <1>a, <1>q DEF CallRunner, TypeOK
<1>4. CASE RunnerReturns(e)
  <2>1. PICK out \in EmitOutcome:
           /\ \/ Emit(t, MarkSucceeded(mem[t]), "SUCCEEDED", out)
              \/ Emit(t, MarkFailed(mem[t]), "FAILED", out)
           /\ Goto(e, IF out = "ok" THEN "ending" ELSE "failing")
    BY <1>4 DEF RunnerReturns, t
  <2>2. ExecsKept
    BY <2>1, <1>g, <1>p
  <2> QED BY <1>4, <2>1, <2>2, <1>e, <1>r, <1>v, <1>a, <1>q DEF RunnerReturns
<1>5. CASE RunnerRaises(e)
  <2>1. ExecsKept
    BY <1>5, <1>g, <1>p DEF RunnerRaises
  <2> QED BY <1>5, <2>1, <1>0, <1>m, <1>a, <1>q DEF RunnerRaises, TypeOK
<1>6. CASE RunnerIgnoresCancel(e)
  <2>1. ExecsKept
    BY <1>6, <1>g, <1>p DEF RunnerIgnoresCancel
  <2> QED BY <1>6, <2>1, <1>0, <1>m, <1>a, <1>q DEF RunnerIgnoresCancel, TypeOK
<1>7. CASE EndRecord(e)
  <2>1. PICK ok \in BOOLEAN:
           Fault(ok) /\ (Leave(e, "returned") \/ (Goto(e, "failing") /\ UNCHANGED active))
    BY <1>7 DEF EndRecord
  <2>2. ExecsKept /\ ActiveShrinks
    BY <2>1, <1>g, <1>l, <1>p, <1>a
  <2> QED BY <1>7, <2>1, <2>2, <1>0, <1>f, <1>m, <1>q DEF EndRecord, TypeOK
<1>8. CASE CatchCancel(e)
  <2>1. PICK out \in EmitOutcome:
           /\ Emit(t, MarkCancelled(mem[t]), "CANCELLED", out)
           /\ (GotoCaught(e, "handling") /\ UNCHANGED active) \/ Leave(e, "raised")
    BY <1>8 DEF CatchCancel, t
  <2>2. ExecsKept /\ ActiveShrinks
    BY <2>1, <1>g, <1>l, <1>p, <1>a
  <2> QED BY <1>8, <2>1, <2>2, <1>e, <1>r, <1>v, <1>q DEF CatchCancel
<1>9. CASE CatchException(e)
  <2>1. PICK out \in EmitOutcome:
           /\ Emit(t, MarkFailed(mem[t]), "FAILED", out)
           /\ (Goto(e, "handling") /\ UNCHANGED active) \/ Leave(e, "raised")
    BY <1>9 DEF CatchException, t
  <2>2. ExecsKept /\ ActiveShrinks
    BY <2>1, <1>g, <1>l, <1>p, <1>a
  <2> QED BY <1>9, <2>1, <2>2, <1>e, <1>r, <1>v, <1>q DEF CatchException
<1>10. CASE LeaveHandler(e)
  <2>1. PICK ok \in BOOLEAN:
           /\ Fault(ok)
           /\ Leave(e, CASE exec[e].cancel -> "cancelled"
                         [] ~exec[e].cancel /\ ok -> "returned"
                         [] OTHER -> "raised")
    BY <1>10 DEF LeaveHandler
  <2>2. ExecsKept /\ ActiveShrinks
    BY <2>1, <1>l, <1>p
  <2> QED BY <1>10, <2>1, <2>2, <1>0, <1>f, <1>m, <1>q DEF LeaveHandler, TypeOK
<1> QED BY <1>1, <1>2, <1>3, <1>4, <1>5, <1>6, <1>7, <1>8, <1>9, <1>10 DEF ExecStep

\* A caller's step that writes no log entry or one of its own.
TablesTyped == /\ mem' \in [Tasks -> Record \cup {NoRecord}]
               /\ row' \in [Tasks -> Record \cup {NoRecord}]
               /\ log' \in [Tasks -> Seq(TaskEventType)]
               /\ faults' \in 0..MaxFaults
               /\ MemGrows

LEMMA TablesUnchanged ==
    ASSUME TypeInv, UNCHANGED <<mem, row, log, faults>>
    PROVE  TablesTyped
BY DEF TypeInv, TypeOK, TablesTyped, MemGrows, InMemory

LEMMA TablesFault ==
    ASSUME TypeInv, NEW ok \in BOOLEAN, Fault(ok), UNCHANGED <<mem, row, log>>
    PROVE  TablesTyped
BY TaskManagerAssumption
   DEF TaskManagerAssumption, TypeInv, TypeOK, TablesTyped, MemGrows, InMemory, Fault, CanFault

LEMMA TablesPersist ==
    ASSUME TypeInv, NEW t \in Tasks, NEW r \in Record, NEW ok \in BOOLEAN,
           Persist(t, r, ok), UNCHANGED log
    PROVE  TablesTyped /\ InMemory(t)'
<1>1. TypeOK /\ log \in [Tasks -> Seq(TaskEventType)]
  BY DEF TypeInv, TypeOK
<1> QED BY <1>1, PersistTypes DEF TablesTyped, MemGrows

LEMMA TablesEmit ==
    ASSUME TypeInv, NEW t \in Tasks, NEW r \in Record, NEW ev \in TaskEventType, NEW out,
           Emit(t, r, ev, out)
    PROVE  TablesTyped /\ InMemory(t)'
<1>1. TypeOK
  BY DEF TypeInv
<1> QED BY <1>1, EmitTypes DEF TablesTyped, MemGrows

LEMMA TablesLoad ==
    ASSUME TypeInv, NEW t \in Tasks, Known(t), Load(t), UNCHANGED <<row, log, faults>>
    PROVE  TablesTyped /\ InMemory(t)'
<1>1. TypeOK /\ row \in [Tasks -> Record \cup {NoRecord}]
      /\ log \in [Tasks -> Seq(TaskEventType)] /\ faults \in 0..MaxFaults
  BY DEF TypeInv, TypeOK
<1> QED BY <1>1, LoadTypes DEF TablesTyped, MemGrows

\* TypeInv' from its parts, for a step that launches nothing.
LEMMA TypeParts ==
    ASSUME TypeInv, TablesTyped, ExecsKept, ActiveShrinks, runners' \subseteq Tasks,
           call' \in [Callers -> Caller], CallsLoaded', UNCHANGED crashes
    PROVE  TypeInv'
<1>1. TypeOK'
  BY DEF TypeInv, TypeOK, TablesTyped, ExecsKept, ActiveShrinks
<1>2. TasksLoaded'
  BY KeepLoaded DEF TablesTyped
<1> QED BY <1>1, <1>2 DEF TypeInv

LEMMA CallSame ==
    ASSUME TypeInv, MemGrows, UNCHANGED call
    PROVE  call' \in [Callers -> Caller] /\ CallsLoaded'
BY CallsKept DEF TypeInv, TypeOK

LEMMA CallReturns ==
    ASSUME TypeInv, MemGrows, NEW c \in Callers, Return(c)
    PROVE  call' \in [Callers -> Caller] /\ CallsLoaded'
BY IdleCaller, CallerMoves DEF Return

\* The record a busy caller works on.
LEMMA BusyCaller ==
    ASSUME TypeInv, NEW c \in Callers, call[c].pc \notin {"idle", "all"}
    PROVE  /\ call[c] \in Caller /\ call[c].task \in Tasks
           /\ InMemory(call[c].task) /\ mem[call[c].task] \in Record
<1>1. TypeOK /\ call[c] \in Caller /\ call[c].task \in Tasks /\ InMemory(call[c].task)
  BY DEF TypeInv, TypeOK, TasksLoaded
<1> QED BY <1>1, LoadedIsRecord

LEMMA TypeLaunch ==
    ASSUME TypeInv, NEW c \in Callers, Launch(c)
    PROVE  TypeInv'
<1>0. PICK t \in Tasks: /\ t = call[c].task /\ InMemory(t)
                       /\ call[c].pc = "queued" /\ call[c] \in Caller
  BY BusyCaller DEF Launch
<1>1. CASE Fault(FALSE) /\ Return(c) /\ UNCHANGED <<exec, active>>
  <2>1. TablesTyped /\ MemGrows
    BY <1>1, TablesFault DEF Launch, TablesTyped
  <2>2. call' \in [Callers -> Caller] /\ CallsLoaded'
    BY <1>1, <2>1, CallReturns
  <2>3. ExecsKept /\ ActiveShrinks
    BY <1>1, ExecUnchanged, ActiveUnchanged
  <2>4. runners' \subseteq Tasks /\ UNCHANGED crashes
    BY DEF Launch, TypeInv, TypeOK
  <2> QED BY <2>1, <2>2, <2>3, <2>4, TypeParts
<1>2. ASSUME NEW e \in ExecIds, exec[e].pc = "unused",
             exec' = [exec EXCEPT ![e] = [NoExec EXCEPT !.task = t, !.pc = "created"]],
             active' = [active EXCEPT ![t] = e],
             call' = [call EXCEPT ![c].pc = "sleep", ![c].exec = e],
             UNCHANGED faults
      PROVE  TypeInv'
  <2>t. TypeOK /\ TasksLoaded /\ e \in 0..MaxExecutions
    BY TaskManagerAssumption DEF TaskManagerAssumption, TypeInv
  <2>1. PICK x \in Execution: x.task = t /\ x.pc = "created" /\ exec' = [exec EXCEPT ![e] = x]
    BY <1>2 DEF Execution, NoExec, ExecPc
  <2>2. PICK y \in Caller: y.task = t /\ y.pc = "sleep" /\ call' = [call EXCEPT ![c] = y]
    <3>1. [call[c] EXCEPT !.pc = "sleep", !.exec = e] \in Caller
      BY <1>0, <2>t DEF Caller, CallPc
    <3>2. call' = [call EXCEPT ![c] = [@ EXCEPT !.pc = "sleep", !.exec = e]]
      BY <1>2
    <3> QED BY <1>0, <3>1, <3>2 DEF Caller
  <2>m. UNCHANGED <<mem, row, log, runners, crashes>>
    BY DEF Launch
  <2>4. TablesTyped /\ MemGrows
    BY <1>2, <2>m, TablesUnchanged DEF TablesTyped
  <2>5. InMemory(t)'
    BY <1>0, <2>m DEF InMemory
  <2>6. call' \in [Callers -> Caller] /\ CallsLoaded'
    BY <1>0, <2>2, <2>4, <2>5, CallerMoves
  <2>7. TypeOK'
    BY <1>0, <1>2, <2>t, <2>1, <2>4, <2>6, <2>m DEF TypeOK, TablesTyped
  <2>8. ASSUME NEW d \in ExecIds, exec'[d].pc # "unused"
        PROVE  (exec[d].task \in Tasks /\ InMemory(exec[d].task))'
    <3>1. CASE d = e
      BY <1>0, <2>t, <2>1, <2>5, <3>1 DEF TypeOK, InMemory
    <3>2. CASE d # e
      BY <2>8, <2>t, <2>1, <2>m, <3>2 DEF TypeOK, TasksLoaded, InMemory
    <3> QED BY <3>1, <3>2
  <2>9. ASSUME NEW u \in Tasks, active'[u] # 0
        PROVE  (exec[active[u]].task = u /\ exec[active[u]].pc # "unused")'
    <3>1. CASE u = t
      BY <1>2, <2>t, <2>1, <3>1 DEF TypeOK
    <3>2. CASE u # t
      <4>1. active'[u] = active[u] /\ active[u] \in ExecIds
        BY <1>2, <2>t, <2>9, <3>2, TaskManagerAssumption DEF TaskManagerAssumption, TypeOK
      <4>2. exec[active[u]].task = u /\ exec[active[u]].pc # "unused"
        BY <2>t, <2>9, <4>1 DEF TasksLoaded
      <4>3. active[u] # e
        BY <1>2, <4>2
      <4> QED BY <2>t, <2>1, <4>1, <4>2, <4>3 DEF TypeOK
    <3> QED BY <3>1, <3>2
  <2>10. (\A d \in Callers: call[d].pc \notin {"idle", "all"} =>
             call[d].task \in Tasks /\ InMemory(call[d].task))'
    BY <2>6 DEF CallsLoaded
  <2> QED BY <2>7, <2>8, <2>9, <2>10 DEF TypeInv, TasksLoaded
<1>3. ASSUME ~(Fault(FALSE) /\ Return(c) /\ UNCHANGED <<exec, active>>)
      PROVE  \E e \in ExecIds:
                /\ exec[e].pc = "unused"
                /\ exec' = [exec EXCEPT ![e] = [NoExec EXCEPT !.task = t, !.pc = "created"]]
                /\ active' = [active EXCEPT ![t] = e]
                /\ call' = [call EXCEPT ![c].pc = "sleep", ![c].exec = e]
                /\ UNCHANGED faults
  BY <1>0, <1>3 DEF Launch
<1> QED BY <1>1, <1>2, <1>3

\* A busy caller that keeps its task.
LEMMA CallerStays ==
    ASSUME TypeInv, MemGrows, NEW c \in Callers, call[c].pc \notin {"idle", "all"},
           NEW x \in Caller, x.task = call[c].task, call' = [call EXCEPT ![c] = x]
    PROVE  call' \in [Callers -> Caller] /\ CallsLoaded'
<1>1. PICK t \in Tasks: t = call[c].task /\ InMemory(t)
  BY BusyCaller
<1>2. x.task \in Tasks /\ InMemory(x.task)'
  BY <1>1 DEF MemGrows, InMemory
<1> QED BY <1>2, CallerMoves

LEMMA TypeAwake ==
    ASSUME TypeInv, NEW c \in Callers, Awake(c)
    PROVE  TypeInv'
<1>0. /\ call[c].pc \notin {"idle", "all"} /\ call[c] \in Caller
      /\ call[c].task \in Tasks /\ mem[call[c].task] \in Record
  BY BusyCaller DEF Awake
<1>1. PICK ok \in BOOLEAN:
         /\ IF call[c].op = "start" THEN Persist(call[c].task, mem[call[c].task], ok)
                                    ELSE ok /\ UNCHANGED <<mem, row, faults>>
         /\ IF ok /\ call[c].wait THEN call' = [call EXCEPT ![c].pc = "waiting"] ELSE Return(c)
  BY DEF Awake
<1>2. UNCHANGED <<log, runners, active, exec, crashes>>
  BY DEF Awake
<1>3. TablesTyped
  BY <1>0, <1>1, <1>2, TablesPersist, TablesUnchanged
<1>4. call' \in [Callers -> Caller] /\ CallsLoaded'
  <2>1. MemGrows
    BY <1>3 DEF TablesTyped
  <2>2. CASE Return(c)
    BY <2>1, <2>2, CallReturns
  <2>3. CASE call' = [call EXCEPT ![c].pc = "waiting"]
    <3>1. [call[c] EXCEPT !.pc = "waiting"] \in Caller /\ [call[c] EXCEPT !.pc = "waiting"].task = call[c].task
      BY <1>0 DEF Caller, CallPc
    <3> QED BY <1>0, <2>1, <2>3, <3>1, CallerStays
  <2> QED BY <1>1, <2>2, <2>3
<1>5. runners' \subseteq Tasks
  BY <1>2 DEF TypeInv, TypeOK
<1> QED BY <1>2, <1>3, <1>4, <1>5, ExecUnchanged, ActiveUnchanged, TypeParts

LEMMA TypeTimeout ==
    ASSUME TypeInv, NEW c \in Callers, Timeout(c)
    PROVE  TypeInv'
<1>0. call[c].pc \notin {"idle", "all"} /\ call[c] \in Caller
  BY BusyCaller DEF Timeout
<1>1. UNCHANGED <<mem, row, log, runners, active, faults, crashes>> /\ runners' \subseteq Tasks
  BY DEF Timeout, TypeInv, TypeOK
<1>2. TablesTyped /\ MemGrows
  BY <1>1, TablesUnchanged DEF TablesTyped
<1>3. call' \in [Callers -> Caller] /\ CallsLoaded'
  <2>1. /\ [call[c] EXCEPT !.timed = FALSE, !.expired = TRUE] \in Caller
        /\ [call[c] EXCEPT !.timed = FALSE, !.expired = TRUE].task = call[c].task
    BY <1>0 DEF Caller
  <2>2. call' = [call EXCEPT ![c] = [@ EXCEPT !.timed = FALSE, !.expired = TRUE]]
    BY DEF Timeout
  <2> QED BY <1>0, <1>2, <2>1, <2>2, CallerStays
<1>4. ExecsKept
  BY CancelStep DEF Timeout
<1> QED BY <1>1, <1>2, <1>3, <1>4, ActiveUnchanged, TypeParts

LEMMA TypeWaitReturns ==
    ASSUME TypeInv, NEW c \in Callers, WaitReturns(c)
    PROVE  TypeInv'
<1>0. /\ call[c].pc \notin {"idle", "all"} /\ call[c] \in Caller
      /\ call[c].task \in Tasks /\ mem[call[c].task] \in Record
  BY BusyCaller DEF WaitReturns
<1>1. PICK ok \in BOOLEAN: Persist(call[c].task, mem[call[c].task], ok) /\ (NextWait(c) \/ Return(c))
  BY DEF WaitReturns
<1>2. UNCHANGED <<log, runners, active, exec, crashes>> /\ runners' \subseteq Tasks
  BY DEF WaitReturns, TypeInv, TypeOK
<1>3. TablesTyped /\ MemGrows
  BY <1>0, <1>1, <1>2, TablesPersist DEF TablesTyped
<1>4. call' \in [Callers -> Caller] /\ CallsLoaded'
  <2>1. CASE Return(c)
    BY <1>3, <2>1, CallReturns
  <2>2. CASE NextWait(c) /\ call[c].rest # {}
    <3>1. [Idle EXCEPT !.pc = "all", !.rest = call[c].rest] \in Caller
      BY <1>0, IdleCaller DEF Caller, CallPc
    <3>2. [Idle EXCEPT !.pc = "all", !.rest = call[c].rest].pc = "all"
      BY IdleCaller DEF Caller
    <3>3. call' = [call EXCEPT ![c] = [Idle EXCEPT !.pc = "all", !.rest = call[c].rest]]
      BY <2>2 DEF NextWait
    <3> QED BY <1>3, <3>1, <3>2, <3>3, CallerMoves
  <2>3. NextWait(c) /\ call[c].rest = {} => Return(c)
    BY DEF NextWait, Return
  <2> QED BY <1>1, <2>1, <2>2, <2>3
<1> QED BY <1>2, <1>3, <1>4, ExecUnchanged, ActiveUnchanged, TypeParts

LEMMA TypeWaitRaises ==
    ASSUME TypeInv, NEW c \in Callers, WaitRaises(c)
    PROVE  TypeInv'
<1>1. UNCHANGED <<mem, row, log, runners, active, faults, crashes>> /\ runners' \subseteq Tasks
  BY DEF WaitRaises, TypeInv, TypeOK
<1>2. TablesTyped /\ MemGrows
  BY <1>1, TablesUnchanged DEF TablesTyped
<1>3. call' \in [Callers -> Caller] /\ CallsLoaded'
  BY <1>2, CallReturns DEF WaitRaises
<1>4. ExecsKept
  BY CancelStep, ExecUnchanged DEF WaitRaises
<1> QED BY <1>1, <1>2, <1>3, <1>4, ActiveUnchanged, TypeParts

LEMMA TypeCancelAllNext ==
    ASSUME TypeInv, NEW c \in Callers, NEW t \in Tasks, CancelAllNext(c, t)
    PROVE  TypeInv'
<1>1. UNCHANGED <<mem, row, log, runners, active, exec, faults, crashes>> /\ runners' \subseteq Tasks
  BY DEF CancelAllNext, TypeInv, TypeOK
<1>2. TablesTyped /\ MemGrows
  BY <1>1, TablesUnchanged DEF TablesTyped
<1>3. call' \in [Callers -> Caller] /\ CallsLoaded'
  <2> DEFINE left == [Idle EXCEPT !.rest = call[c].rest \ {t}]
             run == [left EXCEPT !.pc = "waiting", !.op = "all", !.task = t, !.exec = active[t]]
             more == [left EXCEPT !.pc = "all"]
  <2>0. call[c] \in Caller /\ active \in [Tasks -> 0..MaxExecutions]
    BY DEF TypeInv, TypeOK
  <2>1. left \in Caller
    <3>1. call[c].rest \ {t} \subseteq Tasks
      BY <2>0 DEF Caller
    <3> QED BY <3>1, IdleCaller DEF Caller
  <2>2. run \in Caller /\ run.task = t
    BY <2>0, <2>1 DEF Caller, CallPc
  <2>3. more \in Caller /\ more.pc = "all"
    BY <2>1 DEF Caller, CallPc
  <2> HIDE DEF left
  <2>4. \/ IsRunning(t) /\ call' = [call EXCEPT ![c] = run]
        \/ call' = [call EXCEPT ![c] = more]
        \/ Return(c)
    BY DEF CancelAllNext, Return, left
  <2>5. ASSUME IsRunning(t) PROVE InMemory(t)'
    <3>1. active[t] \in ExecIds /\ active[t] # 0
      BY <2>0, <2>5, TaskManagerAssumption DEF TaskManagerAssumption, IsRunning
    <3>2. InMemory(t)
      BY <3>1 DEF TypeInv, TasksLoaded
    <3> QED BY <1>2, <3>2 DEF MemGrows
  <2>6. CASE IsRunning(t) /\ call' = [call EXCEPT ![c] = run]
    <3>1. PICK x \in Caller: x.task = t /\ call' = [call EXCEPT ![c] = x]
      BY <2>2, <2>6
    <3>2. InMemory(x.task)'
      BY <2>5, <2>6, <3>1 DEF InMemory
    <3> QED BY <1>2, <3>1, <3>2, CallerMoves
  <2>7. CASE call' = [call EXCEPT ![c] = more]
    <3> HIDE DEF more
    <3> QED BY <1>2, <2>3, <2>7, CallerMoves
  <2> QED BY <1>2, <2>4, <2>6, <2>7, CallReturns
<1> QED BY <1>1, <1>2, <1>3, ExecUnchanged, ActiveUnchanged, TypeParts

LEMMA TypePrepareAttempt ==
    ASSUME TypeInv, NEW c \in Callers, PrepareAttempt(c)
    PROVE  TypeInv'
<1>0. PICK t \in Tasks: /\ t = call[c].task /\ mem[t] \in Record
                       /\ call[c].pc \notin {"idle", "all"} /\ call[c] \in Caller
  BY BusyCaller DEF PrepareAttempt
<1>1. UNCHANGED <<runners, active, exec, crashes>> /\ runners' \subseteq Tasks
  BY DEF PrepareAttempt, TypeInv, TypeOK
<1>2. PICK r \in Record: r = PrepareNextAttempt(mem[t])
  BY <1>0, RecordOps
<1>3. MarkQueued(r) \in Record /\ "QUEUED" \in TaskEventType
  BY RecordOps DEF TaskEventType
<1>4. \/ \E out \in EmitOutcome:
            /\ Emit(t, MarkQueued(r), "QUEUED", out)
            /\ call' = [call EXCEPT ![c].pc = "queued"] \/ Return(c)
      \/ \E ok \in BOOLEAN: Persist(t, r, ok) /\ Return(c) /\ UNCHANGED log
      \/ Fault(FALSE) /\ Return(c) /\ UNCHANGED <<mem, row, log>>
  BY <1>0, <1>2 DEF PrepareAttempt
<1>5. TablesTyped /\ MemGrows
  BY <1>3, <1>4, TablesEmit, TablesPersist, TablesFault DEF TablesTyped
<1>6. call' \in [Callers -> Caller] /\ CallsLoaded'
  <2>1. CASE Return(c)
    BY <1>5, <2>1, CallReturns
  <2>2. CASE call' = [call EXCEPT ![c].pc = "queued"]
    <3>1. [call[c] EXCEPT !.pc = "queued"] \in Caller /\ [call[c] EXCEPT !.pc = "queued"].task = call[c].task
      BY <1>0 DEF Caller, CallPc
    <3> QED BY <1>0, <1>5, <2>2, <3>1, CallerStays
  <2> QED BY <1>4, <2>1, <2>2
<1> QED BY <1>1, <1>5, <1>6, ExecUnchanged, ActiveUnchanged, TypeParts

\* A caller enters a method that works on task t, which it has loaded, and is
\* suspended in an event or waits for execution n.
LEMMA CallerEnters ==
    ASSUME TypeInv, MemGrows, NEW c \in Callers, NEW t \in Tasks, InMemory(t)',
           NEW pc \in CallPc, NEW op \in {"none", "start", "retry", "wait", "cancel", "all"},
           NEW n \in 0..MaxExecutions, NEW timed \in BOOLEAN,
           \/ call' = [call EXCEPT ![c] = [Idle EXCEPT !.pc = pc, !.op = op, !.task = t,
                                                       !.exec = n, !.timed = timed]]
           \/ call' = [call EXCEPT ![c] = [Idle EXCEPT !.pc = pc, !.op = op, !.task = t,
                                                       !.exec = n]]
    PROVE  call' \in [Callers -> Caller] /\ CallsLoaded'
<1> DEFINE x2 == [Idle EXCEPT !.pc = pc, !.op = op, !.task = t, !.exec = n, !.timed = timed]
           x3 == [Idle EXCEPT !.pc = pc, !.op = op, !.task = t, !.exec = n]
<1>1. x2 \in Caller /\ x2.task = t /\ x3 \in Caller /\ x3.task = t
  BY IdleCaller DEF Caller
<1>2. PICK x \in Caller: x.task = t /\ call' = [call EXCEPT ![c] = x]
  BY <1>1
<1>3. InMemory(x.task)'
  BY <1>2 DEF InMemory
<1> QED BY <1>2, <1>3, CallerMoves

\* The optional runner argument.
LEMMA RunnerTyped ==
    ASSUME TypeInv, NEW t \in Tasks, NEW r, SetRunner(t, r)
    PROVE  runners' \subseteq Tasks
BY DEF SetRunner, TypeInv, TypeOK

LEMMA TypeCreate ==
    ASSUME TypeInv, NEW c \in Callers, NEW t \in Tasks, NEW r \in BOOLEAN, CreateTask(c, t, r)
    PROVE  TypeInv'
<1>1. NewRecord \in Record /\ "CREATED" \in TaskEventType
  BY MaxRetriesIsNat DEF MaxRetriesIsNat, NewRecord, Record, TaskStatus, TaskEventType
<1>2. TablesTyped /\ MemGrows
  BY <1>1, TablesEmit DEF CreateTask, TablesTyped
<1>3. UNCHANGED <<active, exec, call, crashes>> /\ runners' \subseteq Tasks
  BY RunnerTyped DEF CreateTask
<1> QED BY <1>2, <1>3, CallSame, ExecUnchanged, ActiveUnchanged, TypeParts

LEMMA TypeGet ==
    ASSUME TypeInv, NEW c \in Callers, NEW t \in Tasks, GetTask(c, t)
    PROVE  TypeInv'
<1>1. TablesTyped /\ MemGrows
  BY TablesLoad DEF GetTask, TablesTyped
<1>2. UNCHANGED <<active, exec, call, crashes>> /\ runners' \subseteq Tasks
  BY DEF GetTask, TypeInv, TypeOK
<1> QED BY <1>1, <1>2, CallSame, ExecUnchanged, ActiveUnchanged, TypeParts

\* start_task and retry_task up to their first event.
LEMMA TypeBegin ==
    ASSUME TypeInv, NEW c \in Callers, NEW t \in Tasks, NEW r \in BOOLEAN,
           NEW w \in BOOLEAN, NEW timed \in BOOLEAN,
           StartTask(c, t, r, w, timed) \/ RetryTask(c, t, r, w, timed)
    PROVE  TypeInv'
<1>1. Known(t) /\ runners' \subseteq Tasks /\ UNCHANGED <<active, exec, crashes>>
  BY RunnerTyped DEF StartTask, RetryTask
<1>2. Loaded(t) \in Record
  BY <1>1, LoadedIsRecord DEF TypeInv
<1>3. /\ MarkQueued(Loaded(t)) \in Record
      /\ CanRetry(Loaded(t)) => MarkRetrying(Loaded(t)) \in Record
      /\ {"QUEUED", "RETRYING"} \subseteq TaskEventType
  BY <1>2, RecordOps DEF TaskEventType
<1>4. CASE Load(t) /\ UNCHANGED <<row, log, call, faults>>
  BY <1>1, <1>4, TablesLoad, CallSame, ExecUnchanged, ActiveUnchanged, TypeParts DEF TablesTyped
<1>5. ASSUME NEW out \in EmitOutcome, NEW x \in Record, NEW ev \in TaskEventType,
             NEW pc \in CallPc, NEW op \in {"none", "start", "retry", "wait", "cancel", "all"},
             Emit(t, x, ev, out),
             call' = IF out # "ok" THEN call ELSE
                     [call EXCEPT ![c] = [Idle EXCEPT !.pc = pc, !.op = op, !.task = t,
                                                      !.wait = w, !.timed = timed]]
      PROVE  TypeInv'
  <2>1. TablesTyped /\ MemGrows /\ InMemory(t)'
    BY <1>5, TablesEmit DEF TablesTyped
  <2>3. call' \in [Callers -> Caller] /\ CallsLoaded'
    <3>1. CASE UNCHANGED call
      BY <2>1, <3>1, CallSame
    <3>2. CASE call' = [call EXCEPT ![c] = [Idle EXCEPT !.pc = pc, !.op = op, !.task = t,
                                                       !.wait = w, !.timed = timed]]
      <4> DEFINE entered == [Idle EXCEPT !.pc = pc, !.op = op, !.task = t,
                                         !.wait = w, !.timed = timed]
      <4>1. entered \in Caller /\ entered.task = t
        BY <1>5, IdleCaller DEF Caller
      <4>2. PICK x2 \in Caller: x2.task = t /\ call' = [call EXCEPT ![c] = x2]
        BY <3>2, <4>1
      <4>3. InMemory(x2.task)'
        BY <2>1, <4>2 DEF InMemory
      <4> QED BY <2>1, <4>2, <4>3, CallerMoves
    <3> QED BY <1>5, <3>1, <3>2
  <2> QED BY <1>1, <2>1, <2>3, ExecUnchanged, ActiveUnchanged, TypeParts
<1>6. {"queued", "retrying"} \subseteq CallPc
  BY DEF CallPc
<1>7. CASE StartTask(c, t, r, w, timed)
  <2>1. \/ Load(t) /\ UNCHANGED <<row, log, call, faults>>
        \/ \E out \in EmitOutcome:
              /\ Emit(t, MarkQueued(Loaded(t)), "QUEUED", out)
              /\ call' = IF out # "ok" THEN call ELSE
                         [call EXCEPT ![c] = [Idle EXCEPT !.pc = "queued", !.op = "start",
                                              !.task = t, !.wait = w, !.timed = timed]]
    BY <1>7 DEF StartTask
  <2> QED BY <1>3, <1>4, <1>5, <1>6, <2>1
<1>8. CASE RetryTask(c, t, r, w, timed)
  <2>1. \/ Load(t) /\ UNCHANGED <<row, log, call, faults>>
        \/ CanRetry(Loaded(t)) /\ \E out \in EmitOutcome:
              /\ Emit(t, MarkRetrying(Loaded(t)), "RETRYING", out)
              /\ call' = IF out # "ok" THEN call ELSE
                         [call EXCEPT ![c] = [Idle EXCEPT !.pc = "retrying", !.op = "retry",
                                              !.task = t, !.wait = w, !.timed = timed]]
    BY <1>8 DEF RetryTask
  <2> QED BY <1>3, <1>4, <1>5, <1>6, <2>1
<1> QED BY <1>7, <1>8

\* A running task's execution is in use and its record in memory.
LEMMA RunningLoaded ==
    ASSUME TypeInv, NEW t \in Tasks, IsRunning(t)
    PROVE  active[t] \in 0..MaxExecutions /\ InMemory(t) /\ mem[t] \in Record
<1>1. active[t] \in ExecIds /\ active[t] # 0 /\ active[t] \in 0..MaxExecutions
  BY TaskManagerAssumption DEF TaskManagerAssumption, IsRunning, TypeInv, TypeOK
<1>2. InMemory(t)
  BY <1>1 DEF TypeInv, TasksLoaded
<1> QED BY <1>1, <1>2, LoadedIsRecord DEF TypeInv

LEMMA TypeWaitTask ==
    ASSUME TypeInv, NEW c \in Callers, NEW t \in Tasks, NEW timed \in BOOLEAN, WaitTask(c, t, timed)
    PROVE  TypeInv'
<1>1. UNCHANGED <<mem, row, log, runners, active, exec, faults, crashes>> /\ runners' \subseteq Tasks
  BY DEF WaitTask, TypeInv, TypeOK
<1>2. TablesTyped /\ MemGrows
  BY <1>1, TablesUnchanged DEF TablesTyped
<1>3. PICK n \in 0..MaxExecutions: n = active[t]
  BY RunningLoaded DEF WaitTask
<1>4. InMemory(t)'
  BY <1>1, RunningLoaded DEF WaitTask, InMemory
<1>5. "waiting" \in CallPc
  BY DEF CallPc
<1>6. call' \in [Callers -> Caller] /\ CallsLoaded'
  BY <1>2, <1>3, <1>4, <1>5, CallerEnters DEF WaitTask
<1> QED BY <1>1, <1>2, <1>6, ExecUnchanged, ActiveUnchanged, TypeParts

LEMMA TypeCancelTask ==
    ASSUME TypeInv, NEW c \in Callers, NEW t \in Tasks, NEW w \in BOOLEAN, CancelTask(c, t, w)
    PROVE  TypeInv'
<1>1. Known(t) /\ UNCHANGED <<runners, active, crashes>> /\ runners' \subseteq Tasks
  BY DEF CancelTask, TypeInv, TypeOK
<1>2. CASE ~IsRunning(t) /\ IsTerminal(Loaded(t))
  <2>1. Load(t) /\ UNCHANGED <<row, log, exec, call, faults>>
    BY <1>2 DEF CancelTask
  <2> QED BY <1>1, <2>1, TablesLoad, CallSame, ExecUnchanged, ActiveUnchanged, TypeParts DEF TablesTyped
<1>3. CASE ~IsRunning(t) /\ ~IsTerminal(Loaded(t))
  <2>1. PICK out \in EmitOutcome: Emit(t, MarkCancelled(Loaded(t)), "CANCELLED", out)
    BY <1>3 DEF CancelTask
  <2>2. UNCHANGED <<exec, call>>
    BY <1>3 DEF CancelTask
  <2>3. MarkCancelled(Loaded(t)) \in Record /\ "CANCELLED" \in TaskEventType
    BY <1>1, LoadedIsRecord, RecordOps DEF TypeInv, TaskEventType
  <2>4. TablesTyped /\ MemGrows
    BY <2>1, <2>3, TablesEmit DEF TablesTyped
  <2> QED BY <1>1, <2>2, <2>4, CallSame, ExecUnchanged, ActiveUnchanged, TypeParts
<1>4. CASE IsRunning(t)
  <2>1. /\ exec' = [exec EXCEPT ![active[t]] = Cancelled(@)] /\ UNCHANGED log
        /\ \/ /\ call' = [call EXCEPT ![c] = [Idle EXCEPT !.pc = "waiting", !.op = "cancel",
                                                !.task = t, !.exec = active[t]]]
              /\ UNCHANGED <<mem, row, faults>>
           \/ (\E ok \in BOOLEAN: Persist(t, mem[t], ok)) /\ UNCHANGED call
    BY <1>4 DEF CancelTask
  <2>2. PICK n \in 0..MaxExecutions: n = active[t] /\ InMemory(t) /\ mem[t] \in Record
    BY <1>4, RunningLoaded
  <2>3. ExecsKept
    BY <2>1, <2>2, CancelStep
  <2>4. TablesTyped /\ MemGrows /\ InMemory(t)'
    BY <2>1, <2>2, TablesPersist, TablesUnchanged DEF TablesTyped, MemGrows
  <2>5. "waiting" \in CallPc
    BY DEF CallPc
  <2>6. call' \in [Callers -> Caller] /\ CallsLoaded'
    <3>1. CASE UNCHANGED call
      BY <2>4, <3>1, CallSame
    <3>2. CASE call' = [call EXCEPT ![c] = [Idle EXCEPT !.pc = "waiting", !.op = "cancel",
                                            !.task = t, !.exec = n]]
      BY <2>4, <2>5, <3>2, CallerEnters
    <3> QED BY <2>1, <2>2, <3>1, <3>2
  <2> QED BY <1>1, <2>3, <2>4, <2>6, ActiveUnchanged, TypeParts
<1> QED BY <1>2, <1>3, <1>4

LEMMA TypeCancelAll ==
    ASSUME TypeInv, NEW c \in Callers, NEW w \in BOOLEAN, CancelAll(c, w)
    PROVE  TypeInv'
<1>1. UNCHANGED <<mem, row, log, runners, active, faults, crashes>> /\ runners' \subseteq Tasks
  BY DEF CancelAll, TypeInv, TypeOK
<1>2. TablesTyped /\ MemGrows
  BY <1>1, TablesUnchanged DEF TablesTyped
<1>3. ExecsKept
  <2>1. \A e \in ExecIds: exec'[e] \in {exec[e], Cancelled(exec[e])}
    BY DEF CancelAll
  <2>2. DOMAIN exec' = ExecIds /\ exec' = [e \in ExecIds |-> exec'[e]]
    BY DEF CancelAll
  <2>3. \A e \in ExecIds: /\ Cancelled(exec[e]) \in Execution
                         /\ Cancelled(exec[e]).task = exec[e].task
                         /\ Cancelled(exec[e]).pc = exec[e].pc
    BY DEF Cancelled, TypeInv, TypeOK, Execution
  <2> QED BY <2>1, <2>2, <2>3 DEF ExecsKept, TypeInv, TypeOK
<1>4. call' \in [Callers -> Caller] /\ CallsLoaded'
  <2>1. CASE UNCHANGED call
    BY <1>2, <2>1, CallSame
  <2>2. CASE ~ UNCHANGED call
    <3>1. PICK S \in SUBSET Tasks: call' = [call EXCEPT ![c] = [Idle EXCEPT !.pc = "all", !.rest = S]]
      BY <2>2 DEF CancelAll
    <3>2. [Idle EXCEPT !.pc = "all", !.rest = S] \in Caller /\ [Idle EXCEPT !.pc = "all", !.rest = S].pc = "all"
      BY IdleCaller DEF Caller, CallPc
    <3> QED BY <1>2, <3>1, <3>2, CallerMoves
  <2> QED BY <2>1, <2>2
<1> QED BY <1>1, <1>2, <1>3, <1>4, ActiveUnchanged, TypeParts

LEMMA TypeCrash ==
    ASSUME TypeInv, Crash
    PROVE  TypeInv'
<1>1. NoExec \in Execution /\ NoExec.pc = "unused" /\ NoRecord.status = "absent"
  BY DEF NoExec, Execution, ExecPc, NoRecord
<1>2. TypeOK'
  BY <1>1, IdleCaller, TaskManagerAssumption DEF TaskManagerAssumption, Crash, TypeInv, TypeOK
<1>3. TasksLoaded'
  BY <1>1, IdleCaller DEF Crash, TasksLoaded
<1> QED BY <1>2, <1>3 DEF TypeInv

LEMMA TypeStutter == TypeInv /\ UNCHANGED vars => TypeInv'
BY DEF TypeInv, TypeOK, TasksLoaded, InMemory, vars

LEMMA TypeNext == TypeInv /\ [Next]_vars => TypeInv'
<1> SUFFICES ASSUME TypeInv, [Next]_vars PROVE TypeInv'
  OBVIOUS
<1>1. CASE \E e \in ExecIds: ExecStep(e)
  BY <1>1, TypeExec
<1>2. ASSUME NEW c \in Callers, CallerStep(c)
      PROVE  TypeInv'
  BY <1>2, TypeLaunch, TypeAwake, TypeTimeout, TypeWaitReturns, TypeWaitRaises,
     TypePrepareAttempt, TypeCancelAllNext DEF CallerStep
<1>3. ASSUME NEW c \in Callers, Request(c)
      PROVE  TypeInv'
  BY <1>3, TypeGet, TypeCreate, TypeCancelTask, TypeCancelAll, TypeWaitTask, TypeBegin DEF Request
<1>4. CASE Crash
  BY <1>4, TypeCrash
<1>5. CASE UNCHANGED vars
  BY <1>5, TypeStutter
<1> QED BY <1>1, <1>2, <1>3, <1>4, <1>5 DEF Next

\* Every variable keeps its type, no task is retried more often than its
\* max_retries allows, and every coroutine works on a record in memory: for any
\* number of tasks, callers, executions, faults and crashes.
THEOREM TypeCorrect == Spec => [](TypeOK /\ TasksLoaded)
<1>1. TypeInv => TypeOK /\ TasksLoaded
  BY DEF TypeInv
<1> QED BY TypeInit, TypeNext, <1>1, PTL DEF Spec

-----------------------------------------------------------------------------
(***************************************************************************)
(* One live execution per task.  When no event handler suspends, the guard *)
(* of start_task and its entry in _active are one step as far as the other *)
(* coroutines can see: a caller between the two is the only one to run.    *)
(***************************************************************************)
TrackInv == LiveIsTracked /\ QueuedIsFree

\* A step that keeps every execution's task, starts none, takes no entry from a
\* live one and queues only callers whose task is free.
LEMMA TrackKeep ==
    ASSUME TrackInv,
           \A d \in ExecIds: exec'[d].task = exec[d].task /\ (Live(d)' => Live(d)),
           \A d \in ExecIds: Live(d)' => active'[exec[d].task] = active[exec[d].task],
           \A c \in Callers: call'[c].pc = "queued" => active'[call'[c].task] = 0
    PROVE  TrackInv'
<1>1. ASSUME NEW d \in ExecIds, Live(d)'
      PROVE  (active[exec[d].task] = d)'
  BY <1>1 DEF TrackInv, LiveIsTracked
<1>2. ASSUME NEW c \in Callers
      PROVE  (call[c].pc = "queued" => active[call[c].task] = 0)'
  OBVIOUS
<1> QED BY <1>1, <1>2 DEF TrackInv, LiveIsTracked, QueuedIsFree

\* A step that changes neither _active nor what an execution is, and queues
\* only callers whose task is free.
LEMMA TrackSame ==
    ASSUME TrackInv, UNCHANGED active,
           \A d \in ExecIds: exec'[d].task = exec[d].task /\ exec'[d].pc = exec[d].pc,
           \A c \in Callers: call'[c].pc = "queued" =>
              (call[c].pc = "queued" /\ call'[c].task = call[c].task) \/ active[call'[c].task] = 0
    PROVE  TrackInv'
<1>1. \A d \in ExecIds: Live(d)' => Live(d)
  BY DEF Live
<1>2. \A c \in Callers: call'[c].pc = "queued" => active'[call'[c].task] = 0
  BY DEF TrackInv, QueuedIsFree
<1> QED BY <1>1, <1>2, TrackKeep

\* The steps of an execution: only Leave touches _active, and it takes out the
\* entry of the execution that leaves.
LEMMA TrackExec ==
    ASSUME TypeInv, TrackInv, NEW e \in ExecIds, ExecStep(e)
    PROVE  TrackInv'
<1>1. /\ Live(e) /\ UNCHANGED call /\ exec \in [ExecIds -> Execution]
      /\ exec[e].task \in Tasks /\ active \in [Tasks -> 0..MaxExecutions]
  <2>1. exec[e].pc \notin Done \cup {"unused"} /\ UNCHANGED call
    BY DEF ExecStep, EnterRecord, NeverEntered, CallRunner, RunnerReturns, RunnerRaises,
           RunnerIgnoresCancel, EndRecord, CatchCancel, CatchException, LeaveHandler, Done
  <2> QED BY <2>1 DEF Live, TypeInv, TypeOK, TasksLoaded
<1>2. PICK pc: /\ Goto(e, pc) \/ GotoCaught(e, pc)
               /\ \/ UNCHANGED active
                  \/ pc \in Done /\ active' = [active EXCEPT ![exec[e].task] = 0]
  <2>1. CASE EnterRecord(e)
    BY <2>1 DEF EnterRecord
  <2>2. CASE NeverEntered(e) \/ CallRunner(e) \/ RunnerReturns(e) \/ RunnerRaises(e)
             \/ RunnerIgnoresCancel(e)
    BY <2>2 DEF NeverEntered, CallRunner, RunnerReturns, RunnerRaises, RunnerIgnoresCancel
  <2>3. CASE EndRecord(e) \/ CatchCancel(e) \/ CatchException(e)
    BY <2>3 DEF EndRecord, CatchCancel, CatchException, Leave, Done
  <2>4. CASE LeaveHandler(e)
    <3>1. PICK pc \in Done: Leave(e, pc)
      BY <2>4 DEF LeaveHandler, Done
    <3> QED BY <3>1 DEF Leave
  <2> QED BY <2>1, <2>2, <2>3, <2>4 DEF ExecStep
<1>r. exec'[e].task = exec[e].task /\ exec'[e].pc = pc /\ \A d \in ExecIds \ {e}: exec'[d] = exec[d]
  <2>0. exec[e] \in Execution
    BY <1>1
  <2>1. /\ [exec[e] EXCEPT !.pc = pc].task = exec[e].task
        /\ [exec[e] EXCEPT !.pc = pc].pc = pc
        /\ [exec[e] EXCEPT !.pc = pc, !.cancel = FALSE].task = exec[e].task
        /\ [exec[e] EXCEPT !.pc = pc, !.cancel = FALSE].pc = pc
    BY <2>0 DEF Execution
  <2>2. \/ exec' = [exec EXCEPT ![e] = [exec[e] EXCEPT !.pc = pc]]
        \/ exec' = [exec EXCEPT ![e] = [exec[e] EXCEPT !.pc = pc, !.cancel = FALSE]]
    BY <1>2 DEF Goto, GotoCaught
  <2> QED BY <1>1, <2>1, <2>2
<1>3. \A d \in ExecIds: exec'[d].task = exec[d].task /\ (d # e => exec'[d].pc = exec[d].pc)
  BY <1>r
<1>4. exec'[e].pc = pc
  BY <1>r
<1>5. \A d \in ExecIds: Live(d)' => Live(d)
  BY <1>1, <1>3 DEF Live
<1>6. ASSUME NEW d \in ExecIds, Live(d)'
      PROVE  active'[exec[d].task] = active[exec[d].task]
  <2>1. CASE UNCHANGED active
    BY <2>1
  <2>2. CASE pc \in Done /\ active' = [active EXCEPT ![exec[e].task] = 0]
    <3>1. d # e
      BY <1>4, <1>6, <2>2 DEF Live
    <3>2. active[exec[d].task] = d /\ active[exec[e].task] = e
      BY <1>1, <1>5, <1>6 DEF TrackInv, LiveIsTracked
    <3> QED BY <1>1, <2>2, <3>1, <3>2
  <2> QED BY <1>2, <2>1, <2>2
<1>7. ASSUME NEW c \in Callers, call'[c].pc = "queued"
      PROVE  active'[call'[c].task] = 0
  <2>1. call[c].task \in Tasks /\ active[call[c].task] = 0
    BY <1>1, <1>7 DEF TypeInv, TasksLoaded, TrackInv, QueuedIsFree
  <2> QED BY <1>1, <1>2, <2>1
<1> QED BY <1>3, <1>5, <1>6, <1>7, TrackKeep

\* Launch: the caller that launches is alone between the guard and the entry.
LEMMA TrackLaunch ==
    ASSUME TypeInv, TrackInv, ~HandlersSuspend, NEW c \in Callers, Launch(c)
    PROVE  TrackInv'
<1>0. /\ exec \in [ExecIds -> Execution] /\ active \in [Tasks -> 0..MaxExecutions]
      /\ call \in [Callers -> Caller] /\ ExecIds \subseteq 0..MaxExecutions
  BY TaskManagerAssumption DEF TaskManagerAssumption, TypeInv, TypeOK
<1>1. PICK t \in Tasks: t = call[c].task /\ active[t] = 0 /\ call[c].pc = "queued"
  BY DEF Launch, TypeInv, TasksLoaded, TrackInv, QueuedIsFree
<1>2. \A d \in Callers \ {c}: call[d].pc # "queued"
  BY DEF Launch, CallerTurn, EmittingCallers
<1>3. ASSUME NEW d \in Callers, call'[d].pc = "queued"
      PROVE  FALSE
  <2>1. Return(c) \/ \E e \in ExecIds: call' = [call EXCEPT ![c].pc = "sleep", ![c].exec = e]
    BY DEF Launch
  <2>2. call'[c].pc # "queued"
    BY <1>0, <2>1 DEF Return, Idle, Caller
  <2>3. d # c => call'[d] = call[d]
    BY <1>0, <2>1 DEF Return
  <2> QED BY <1>2, <1>3, <2>2, <2>3
<1>4. CASE UNCHANGED <<exec, active>>
  BY <1>3, <1>4, TrackSame
<1>5. ASSUME NEW e \in ExecIds, exec[e].pc = "unused",
             exec' = [exec EXCEPT ![e] = [NoExec EXCEPT !.task = t, !.pc = "created"]],
             active' = [active EXCEPT ![t] = e]
      PROVE  TrackInv'
  <2>1. exec'[e].task = t /\ active'[t] = e
    BY <1>0, <1>5 DEF NoExec
  <2>2. ASSUME NEW d \in ExecIds, Live(d)'
        PROVE  (active[exec[d].task] = d)'
    <3>1. CASE d = e
      BY <2>1, <3>1
    <3>2. CASE d # e
      <4>1. exec'[d] = exec[d] /\ Live(d)
        BY <1>5, <2>2, <3>2 DEF Live
      <4>2. exec[d].task \in Tasks /\ active[exec[d].task] = d
        BY <4>1 DEF Live, TypeInv, TasksLoaded, TrackInv, LiveIsTracked
      <4>3. exec[d].task # t
        BY <1>1, <4>2, <1>0
      <4> QED BY <1>0, <1>5, <4>1, <4>2, <4>3
    <3> QED BY <3>1, <3>2
  <2>3. QueuedIsFree'
    BY <1>3 DEF QueuedIsFree
  <2> QED BY <2>2, <2>3 DEF TrackInv, LiveIsTracked
<1> QED BY <1>1, <1>4, <1>5 DEF Launch

\* start_task, retry_task and its second half put a caller in the queue only
\* after the guard found no entry for the task.
LEMMA TrackBegin ==
    ASSUME TypeInv, TrackInv, NEW c \in Callers, NEW t \in Tasks, NEW r \in BOOLEAN,
           NEW w \in BOOLEAN, NEW timed \in BOOLEAN,
           StartTask(c, t, r, w, timed) \/ RetryTask(c, t, r, w, timed)
    PROVE  TrackInv'
<1>0. UNCHANGED <<active, exec>> /\ call \in [Callers -> Caller]
  BY DEF StartTask, RetryTask, TypeInv, TypeOK
<1> DEFINE start == [Idle EXCEPT !.pc = "queued", !.op = "start", !.task = t,
                                 !.wait = w, !.timed = timed]
           retry == [Idle EXCEPT !.pc = "retrying", !.op = "retry", !.task = t,
                                 !.wait = w, !.timed = timed]
<1>1. start.pc = "queued" /\ start.task = t /\ retry.pc = "retrying"
  BY DEF Idle
<1> HIDE DEF start, retry
<1>2. CASE UNCHANGED call
  BY <1>0, <1>2, TrackSame
<1>3. CASE active[t] = 0 /\ call' = [call EXCEPT ![c] = start]
  BY <1>0, <1>1, <1>3, TrackSame
<1>4. CASE call' = [call EXCEPT ![c] = retry]
  BY <1>0, <1>1, <1>4, TrackSame
<1>5. CASE StartTask(c, t, r, w, timed)
  <2>1. UNCHANGED call \/ (active[t] = 0 /\ call' = [call EXCEPT ![c] = start])
    BY <1>5 DEF StartTask, MayStart, start
  <2> QED BY <1>2, <1>3, <2>1
<1>6. CASE RetryTask(c, t, r, w, timed)
  <2>1. UNCHANGED call \/ call' = [call EXCEPT ![c] = retry]
    BY <1>6 DEF RetryTask, retry
  <2> QED BY <1>2, <1>4, <2>1
<1> QED BY <1>5, <1>6

LEMMA TrackPrepareAttempt ==
    ASSUME TypeInv, TrackInv, NEW c \in Callers, PrepareAttempt(c)
    PROVE  TrackInv'
<1>0. UNCHANGED <<active, exec>> /\ call \in [Callers -> Caller]
  BY DEF PrepareAttempt, TypeInv, TypeOK
<1>1. \/ Return(c)
      \/ active[call[c].task] = 0 /\ call' = [call EXCEPT ![c].pc = "queued"]
  BY DEF PrepareAttempt, MayStart
<1>2. \A d \in Callers \ {c}: call'[d] = call[d]
  BY <1>0, <1>1 DEF Return
<1>3. call'[c].pc = "queued" => call'[c].task = call[c].task /\ active[call[c].task] = 0
  BY <1>0, <1>1 DEF Return, Idle, Caller
<1> QED BY <1>0, <1>2, <1>3, TrackSame

\* Every other step of a caller leaves _active alone, cancels at most, and puts
\* no caller in the queue.
LEMMA TrackCaller ==
    ASSUME TypeInv, TrackInv, NEW c \in Callers, UNCHANGED active,
           \A d \in ExecIds: exec'[d].task = exec[d].task /\ exec'[d].pc = exec[d].pc,
           \A d \in Callers \ {c}: call'[d] = call[d], call'[c].pc # "queued"
    PROVE  TrackInv'
BY TrackSame

LEMMA CancelSame ==
    ASSUME TypeInv, NEW n, exec' = [exec EXCEPT ![n] = Cancelled(@)]
    PROVE  \A d \in ExecIds: exec'[d].task = exec[d].task /\ exec'[d].pc = exec[d].pc
BY DEF TypeInv, TypeOK, Execution, Cancelled

LEMMA TrackWaits ==
    ASSUME TypeInv, TrackInv, NEW c \in Callers,
           \/ Awake(c) \/ Timeout(c) \/ WaitReturns(c) \/ WaitRaises(c)
           \/ \E t \in Tasks: CancelAllNext(c, t)
    PROVE  TrackInv'
<1>0. UNCHANGED active /\ call \in [Callers -> Caller]
  BY DEF Awake, Timeout, WaitReturns, WaitRaises, CancelAllNext, TypeInv, TypeOK
<1>1. \A d \in ExecIds: exec'[d].task = exec[d].task /\ exec'[d].pc = exec[d].pc
  <2>1. UNCHANGED exec \/ \E n: exec' = [exec EXCEPT ![n] = Cancelled(@)]
    BY DEF Awake, Timeout, WaitReturns, WaitRaises, CancelAllNext
  <2> QED BY <2>1, CancelSame
<1>2. /\ \A d \in Callers \ {c}: call'[d] = call[d]
      /\ call'[c].pc # "queued"
  <2>1. CASE Awake(c)
    <3>1. Return(c) \/ call' = [call EXCEPT ![c].pc = "waiting"]
      BY <2>1 DEF Awake
    <3> QED BY <1>0, <3>1 DEF Return, Idle, Caller
  <2>2. CASE Timeout(c)
    <3>1. call[c].pc = "waiting" /\ call' = [call EXCEPT ![c].timed = FALSE, ![c].expired = TRUE]
      BY <2>2 DEF Timeout
    <3> QED BY <1>0, <3>1 DEF Caller
  <2>3. CASE WaitReturns(c) \/ WaitRaises(c)
    <3> DEFINE more == [Idle EXCEPT !.pc = "all", !.rest = call[c].rest]
    <3>1. Return(c) \/ call' = [call EXCEPT ![c] = more]
      BY <2>3 DEF WaitReturns, WaitRaises, NextWait, Return
    <3>2. more.pc = "all" /\ Idle.pc = "idle"
      BY DEF Idle
    <3> HIDE DEF more
    <3> QED BY <1>0, <3>1, <3>2 DEF Return
  <2>4. ASSUME NEW t \in Tasks, CancelAllNext(c, t)
        PROVE  (\A d \in Callers \ {c}: call'[d] = call[d]) /\ call'[c].pc # "queued"
    <3> DEFINE left == [Idle EXCEPT !.rest = call[c].rest \ {t}]
               run == [left EXCEPT !.pc = "waiting", !.op = "all", !.task = t, !.exec = active[t]]
               more == [left EXCEPT !.pc = "all"]
    <3>1. \/ call' = [call EXCEPT ![c] = run] \/ call' = [call EXCEPT ![c] = more]
          \/ Return(c)
      BY <2>4 DEF CancelAllNext, Return
    <3>2. run.pc = "waiting" /\ more.pc = "all" /\ Idle.pc = "idle"
      BY DEF Idle
    <3> HIDE DEF run, more
    <3> QED BY <1>0, <3>1, <3>2 DEF Return
  <2> QED BY <2>1, <2>2, <2>3, <2>4
<1> QED BY <1>0, <1>1, <1>2, TrackCaller

LEMMA TrackRequest ==
    ASSUME TypeInv, TrackInv, NEW c \in Callers, NEW t \in Tasks, NEW b \in BOOLEAN,
           GetTask(c, t) \/ CreateTask(c, t, b) \/ CancelTask(c, t, b) \/ CancelAll(c, b)
              \/ WaitTask(c, t, b)
    PROVE  TrackInv'
<1>0. UNCHANGED active /\ call \in [Callers -> Caller] /\ exec \in [ExecIds -> Execution]
  BY DEF GetTask, CreateTask, CancelTask, CancelAll, WaitTask, TypeInv, TypeOK
<1>1. \A d \in ExecIds: exec'[d].task = exec[d].task /\ exec'[d].pc = exec[d].pc
  <2>1. CASE UNCHANGED exec
    BY <2>1
  <2>2. CASE exec' = [exec EXCEPT ![active[t]] = Cancelled(@)]
    BY <2>2, CancelSame
  <2>3. CASE CancelAll(c, b)
    <3>1. \A d \in ExecIds: exec'[d] \in {exec[d], Cancelled(exec[d])}
      BY <2>3 DEF CancelAll
    <3>2. \A d \in ExecIds: /\ Cancelled(exec[d]).task = exec[d].task
                           /\ Cancelled(exec[d]).pc = exec[d].pc
      BY <1>0 DEF Cancelled, Execution
    <3> QED BY <3>1, <3>2
  <2> QED BY <2>1, <2>2, <2>3 DEF GetTask, CreateTask, CancelTask, WaitTask
<1>2. /\ \A d \in Callers \ {c}: call'[d] = call[d]
      /\ call'[c].pc # "queued"
  <2>0. call[c].pc = "idle"
    BY DEF GetTask, CreateTask, CancelTask, CancelAll, WaitTask, Free
  <2>1. CASE UNCHANGED call
    BY <2>0, <2>1
  <2>2. CASE WaitTask(c, t, b)
    BY <1>0, <2>2 DEF WaitTask, Idle
  <2>3. CASE CancelTask(c, t, b) /\ ~ UNCHANGED call
    <3>1. call' = [call EXCEPT ![c] = [Idle EXCEPT !.pc = "waiting", !.op = "cancel", !.task = t,
                                                  !.exec = active[t]]]
      BY <2>3 DEF CancelTask
    <3> QED BY <1>0, <3>1 DEF Idle
  <2>4. CASE CancelAll(c, b) /\ ~ UNCHANGED call
    <3>1. PICK S: call' = [call EXCEPT ![c] = [Idle EXCEPT !.pc = "all", !.rest = S]]
      BY <2>4 DEF CancelAll
    <3> QED BY <1>0, <3>1 DEF Idle
  <2> QED BY <2>1, <2>2, <2>3, <2>4 DEF GetTask, CreateTask
<1> QED BY <1>0, <1>1, <1>2, TrackCaller

LEMMA TrackInit == Init => TrackInv
<1> SUFFICES ASSUME Init PROVE TrackInv
  OBVIOUS
<1>1. (\A e \in ExecIds: exec[e].pc = "unused") /\ (\A c \in Callers: call[c].pc = "idle")
  BY DEF Init, NoExec, Idle
<1> QED BY <1>1 DEF TrackInv, LiveIsTracked, QueuedIsFree, Live

\* TrackInv is inductive next to TypeInv.
LEMMA TrackNext ==
    ASSUME ~HandlersSuspend
    PROVE  TypeInv /\ TrackInv /\ [Next]_vars => TrackInv'
<1> SUFFICES ASSUME TypeInv, TrackInv, [Next]_vars PROVE TrackInv'
  OBVIOUS
<1>1. CASE \E e \in ExecIds: ExecStep(e)
  BY <1>1, TrackExec
<1>2. ASSUME NEW c \in Callers, CallerStep(c)
      PROVE  TrackInv'
  BY <1>2, TrackLaunch, TrackWaits, TrackPrepareAttempt DEF CallerStep
<1>3. ASSUME NEW c \in Callers, Request(c)
      PROVE  TrackInv'
  <2>1. PICK t \in Tasks:
          \/ \E b \in BOOLEAN: GetTask(c, t) \/ CreateTask(c, t, b) \/ CancelTask(c, t, b)
                               \/ CancelAll(c, b) \/ WaitTask(c, t, b)
          \/ \E r, w, timed \in BOOLEAN: StartTask(c, t, r, w, timed) \/ RetryTask(c, t, r, w, timed)
    BY <1>3 DEF Request
  <2> QED BY <2>1, TrackRequest, TrackBegin
<1>4. CASE Crash
  <2>1. (\A e \in ExecIds: exec'[e].pc = "unused") /\ (\A c \in Callers: call'[c].pc = "idle")
    BY <1>4 DEF Crash, NoExec, Idle
  <2> QED BY <2>1 DEF TrackInv, LiveIsTracked, QueuedIsFree, Live
<1>5. CASE UNCHANGED vars
  BY <1>5 DEF vars, TrackInv, LiveIsTracked, QueuedIsFree, Live
<1> QED BY <1>1, <1>2, <1>3, <1>4, <1>5 DEF Next

LEMMA TrackAlways == ~HandlersSuspend => (Spec => []TrackInv)
<1> SUFFICES ASSUME ~HandlersSuspend PROVE Spec => []TrackInv
  OBVIOUS
<1>1. Spec => []TypeInv
  BY TypeCorrect DEF TypeInv
<1> QED BY TrackInit, TrackNext, <1>1, PTL DEF Spec

\* As long as no event handler suspends the coroutine that awaits it, a task
\* never has two live executions, and _active names the one it has: start_task's
\* "Task is already running" guard cannot be overtaken, for any number of tasks,
\* callers, storage errors and crashes.
THEOREM OneExecutionPerTask == ~HandlersSuspend => (Spec => []LiveIsTracked)
<1>1. TrackInv => LiveIsTracked
  BY DEF TrackInv
<1> QED BY <1>1, TrackAlways, PTL

-----------------------------------------------------------------------------
(***************************************************************************)
(* Who replaces an outcome, under any faults, crashes and handlers.        *)
(***************************************************************************)
\* What a step may do to the record of task t, once it has an outcome.
OutcomeAt(t) ==
    \/ mem'[t].status = mem[t].status
    \/ mem[t].status = "failed" /\ mem'[t].status = "retrying"
    \/ \E e \in ExecIds: Live(e) /\ exec[e].task = t
    \/ \E c \in Callers: call[c].pc \in {"queued", "retrying"} /\ call[c].task = t
OutcomeKept == \A t \in Tasks: IsTerminal(mem[t]) /\ mem'[t].status # "absent" => OutcomeAt(t)

LEMMA OutcomeSame == UNCHANGED mem => OutcomeKept
  BY DEF OutcomeKept, OutcomeAt

\* A step that writes one record keeps the outcomes if it may write that one.
LEMMA OutcomeWritten ==
    ASSUME NEW u, NEW r, mem \in [Tasks -> Record \cup {NoRecord}], mem' = [mem EXCEPT ![u] = r],
           u \in Tasks /\ IsTerminal(mem[u]) => OutcomeAt(u)
    PROVE  OutcomeKept
<1> SUFFICES ASSUME NEW t \in Tasks, IsTerminal(mem[t]) PROVE OutcomeAt(t)
  BY DEF OutcomeKept
<1>1. CASE t = u
  BY <1>1
<1>2. CASE t # u
  BY <1>2 DEF OutcomeAt
<1> QED BY <1>1, <1>2

\* An execution writes its own record, and until it has left.
LEMMA OutcomeExec == ASSUME TypeInv, NEW e \in ExecIds, ExecStep(e) PROVE OutcomeKept
<1> DEFINE u == exec[e].task
<1>1. mem \in [Tasks -> Record \cup {NoRecord}]
  BY DEF TypeInv, TypeOK
<1>2. UNCHANGED mem \/ (Live(e) /\ \E r: mem' = [mem EXCEPT ![u] = r])
  BY DEF ExecStep, EnterRecord, NeverEntered, CallRunner, RunnerReturns, RunnerRaises,
         RunnerIgnoresCancel, EndRecord, CatchCancel, CatchException, LeaveHandler, Emit, Live, Done
<1>3. CASE Live(e) /\ \E r: mem' = [mem EXCEPT ![u] = r]
  <2>1. PICK r: mem' = [mem EXCEPT ![u] = r]
    BY <1>3
  <2>2. OutcomeAt(u)
    BY <1>3 DEF OutcomeAt
  <2> QED BY <1>1, <2>1, <2>2, OutcomeWritten
<1> QED BY <1>2, <1>3, OutcomeSame

\* A caller writes what it was suspended for, or the record it has found.
LEMMA OutcomeCaller == ASSUME TypeInv, NEW c \in Callers, CallerStep(c) PROVE OutcomeKept
<1>1. mem \in [Tasks -> Record \cup {NoRecord}]
  BY DEF TypeInv, TypeOK
<1>2. CASE Launch(c) \/ Timeout(c) \/ WaitRaises(c) \/ \E t \in Tasks: CancelAllNext(c, t)
  BY <1>2, OutcomeSame DEF Launch, Timeout, WaitRaises, CancelAllNext
<1>3. CASE Awake(c) \/ WaitReturns(c)
  <2>1. UNCHANGED mem \/ mem' = [mem EXCEPT ![call[c].task] = mem[call[c].task]]
    BY <1>3 DEF Awake, WaitReturns, Persist
  <2>2. UNCHANGED mem
    BY <1>1, <2>1
  <2> QED BY <2>2, OutcomeSame
<1>4. CASE PrepareAttempt(c)
  <2>1. call[c].pc = "retrying" /\ (UNCHANGED mem \/ \E r: mem' = [mem EXCEPT ![call[c].task] = r])
    BY <1>4 DEF PrepareAttempt, Emit, Persist
  <2>2. OutcomeAt(call[c].task)
    BY <2>1 DEF OutcomeAt
  <2> QED BY <1>1, <2>1, <2>2, OutcomeSame, OutcomeWritten
<1> QED BY <1>2, <1>3, <1>4 DEF CallerStep

\* A request takes up an outcome only by retry_task, and only a failure.
LEMMA OutcomeRequest ==
    ASSUME TypeInv, NEW c \in Callers, NEW t \in Tasks,
           NEW b \in BOOLEAN, NEW r \in BOOLEAN, NEW w \in BOOLEAN, NEW timed \in BOOLEAN,
           \/ GetTask(c, t) \/ CreateTask(c, t, b) \/ CancelTask(c, t, b) \/ CancelAll(c, b)
           \/ WaitTask(c, t, b) \/ StartTask(c, t, r, w, timed) \/ RetryTask(c, t, r, w, timed)
    PROVE  OutcomeKept
<1>1. mem \in [Tasks -> Record \cup {NoRecord}]
  BY DEF TypeInv, TypeOK
<1>2. IsTerminal(mem[t]) => InMemory(t) /\ Loaded(t) = mem[t]
  BY DEF IsTerminal, InMemory, Loaded, TerminalStatus
<1>3. ASSUME mem' = [mem EXCEPT ![t] = Loaded(t)] PROVE OutcomeKept
  <2>1. IsTerminal(mem[t]) => OutcomeAt(t)
    BY <1>1, <1>2, <1>3 DEF OutcomeAt
  <2> QED BY <1>1, <1>3, <2>1, OutcomeWritten
<1>4. CASE GetTask(c, t)
  BY <1>4, <1>3 DEF GetTask, Load
<1>5. CASE CreateTask(c, t, b)
  <2>1. ~IsTerminal(mem[t]) /\ \E x: mem' = [mem EXCEPT ![t] = x]
    BY <1>5, <1>2 DEF CreateTask, Known, Emit
  <2> QED BY <1>1, <2>1, OutcomeWritten
<1>6. CASE CancelTask(c, t, b)
  <2>1. \/ UNCHANGED mem
        \/ mem' = [mem EXCEPT ![t] = mem[t]]
        \/ mem' = [mem EXCEPT ![t] = Loaded(t)]
        \/ ~IsTerminal(Loaded(t)) /\ \E x: mem' = [mem EXCEPT ![t] = x]
    BY <1>6 DEF CancelTask, Persist, Load, Emit
  <2>2. mem' = [mem EXCEPT ![t] = mem[t]] => UNCHANGED mem
    BY <1>1
  <2> QED BY <1>1, <1>2, <1>3, <2>1, <2>2, OutcomeSame, OutcomeWritten
<1>7. CASE CancelAll(c, b) \/ WaitTask(c, t, b)
  BY <1>7, OutcomeSame DEF CancelAll, WaitTask
<1>8. CASE StartTask(c, t, r, w, timed)
  <2>1. \/ mem' = [mem EXCEPT ![t] = Loaded(t)]
        \/ ~IsTerminal(Loaded(t)) /\ \E x: mem' = [mem EXCEPT ![t] = x]
    BY <1>8 DEF StartTask, MayStart, Load, Emit
  <2> QED BY <1>1, <1>2, <1>3, <2>1, OutcomeWritten
<1>9. CASE RetryTask(c, t, r, w, timed)
  <2>1. \/ mem' = [mem EXCEPT ![t] = Loaded(t)]
        \/ CanRetry(Loaded(t)) /\ mem' = [mem EXCEPT ![t] = MarkRetrying(Loaded(t))]
    BY <1>9 DEF RetryTask, Load, Emit
  <2>2. ASSUME CanRetry(Loaded(t)), mem' = [mem EXCEPT ![t] = MarkRetrying(Loaded(t))]
        PROVE  IsTerminal(mem[t]) => OutcomeAt(t)
    <3>1. SUFFICES ASSUME IsTerminal(mem[t]) PROVE mem[t].status = "failed" /\ mem'[t].status = "retrying"
      BY DEF OutcomeAt
    <3>2. mem[t].status = "failed" /\ mem[t] \in Record
      BY <1>1, <1>2, <2>2, <3>1 DEF CanRetry, NoRecord
    <3>3. mem'[t] = MarkRetrying(mem[t])
      BY <1>1, <1>2, <2>2, <3>1
    <3> QED BY <3>2, <3>3 DEF MarkRetrying, Record
  <2> QED BY <1>1, <1>3, <2>1, <2>2, OutcomeWritten
<1> QED BY <1>4, <1>5, <1>6, <1>7, <1>8, <1>9

\* Whatever fails, crashes or suspends: an outcome is replaced by a retry, by the
\* execution that has not yet left its task, or by a caller of start_task or
\* retry_task that was suspended in an event while the outcome came.
THEOREM OutcomesHaveReplacer == Spec => OutcomeReplacedInFlight
<1>1. TypeInv /\ [Next]_vars => [OutcomeKept]_mem
  <2> SUFFICES ASSUME TypeInv, [Next]_vars PROVE OutcomeKept \/ UNCHANGED mem
    OBVIOUS
  <2>1. CASE UNCHANGED vars
    BY <2>1 DEF vars
  <2>2. CASE \E e \in ExecIds: ExecStep(e)
    BY <2>2, OutcomeExec
  <2>3. CASE \E c \in Callers: CallerStep(c)
    BY <2>3, OutcomeCaller
  <2>4. CASE \E c \in Callers: Request(c)
    <3>1. PICK c \in Callers: Request(c)
      BY <2>4
    <3> QED BY <3>1, OutcomeRequest DEF Request
  <2>5. CASE Crash
    BY <2>5 DEF Crash, OutcomeKept, NoRecord
  <2> QED BY <2>1, <2>2, <2>3, <2>4, <2>5 DEF Next
<1>2. Spec => []TypeInv
  BY TypeCorrect DEF TypeInv
<1>3. Spec => [][OutcomeKept]_mem
  BY <1>1, <1>2, PTL DEF Spec
<1> QED BY <1>3 DEF OutcomeReplacedInFlight, OutcomeKept, OutcomeAt

-----------------------------------------------------------------------------
(***************************************************************************)
(* One client: the sleep(0) of start_task lets the execution it made begin *)
(* before the client can cancel it, so that it always comes to the finally *)
(* clause that pops its entry; whatever fails and whoever suspends.        *)
(***************************************************************************)
BeginsFirst ==
    \A e \in ExecIds: exec[e].pc = "created" =>
       ~exec[e].cancel /\ \E c \in Callers: call[c].pc = "sleep" /\ call[c].exec = e

ClientInv == EntriesAreLive /\ BeginsFirst

LEMMA ClientInvInit == Init => ClientInv
BY DEF Init, NoExec, ClientInv, EntriesAreLive, BeginsFirst, ExecIds

\* Nothing new is made, and nothing ends but leaves.
LEMMA ClientKept ==
    ASSUME TypeInv, ClientInv, \A c, d \in Callers: c = d,
           \A e \in ExecIds: exec'[e].pc = "created" => exec'[e] = exec[e],
           \A t \in Tasks: active'[t] # 0 =>
              active'[t] = active[t] /\ (IsDone(active[t])' => IsDone(active[t])),
           \/ UNCHANGED call
           \/ \E c \in Callers: \/ call[c].pc # "sleep"
                               \/ exec[call[c].exec].pc # "created"
    PROVE  ClientInv'
<1>1. EntriesAreLive'
  BY DEF ClientInv, EntriesAreLive
<1>2. BeginsFirst'
  <2>1. CASE UNCHANGED call
    BY <2>1 DEF ClientInv, BeginsFirst
  <2>2. ASSUME NEW c \in Callers, call[c].pc # "sleep" \/ exec[call[c].exec].pc # "created"
        PROVE  \A e \in ExecIds: exec[e].pc # "created"
    BY <2>2 DEF ClientInv, BeginsFirst
  <2> QED BY <2>1, <2>2 DEF BeginsFirst
<1> QED BY <1>1, <1>2 DEF ClientInv

LEMMA ClientExec ==
    ASSUME TypeInv, ClientInv, \A c, d \in Callers: c = d, NEW e \in ExecIds, ExecStep(e)
    PROVE  ClientInv'
<1>0. /\ exec \in [ExecIds -> Execution] /\ active \in [Tasks -> 0..MaxExecutions]
      /\ \A t \in Tasks: active[t] # 0 => exec[active[t]].task = t
  BY DEF TypeInv, TypeOK, TasksLoaded
<1>1. UNCHANGED call
  BY DEF ExecStep, EnterRecord, NeverEntered, CallRunner, RunnerReturns, RunnerRaises,
         RunnerIgnoresCancel, EndRecord, CatchCancel, CatchException, LeaveHandler
<1>2. ~NeverEntered(e)
  BY DEF NeverEntered, ClientInv, BeginsFirst
<1>3. \/ /\ \/ \E pc \in ExecPc \ (Done \cup {"created"}): Goto(e, pc) \/ GotoCaught(e, pc)
         /\ UNCHANGED active
      \/ \E pc \in Done: Leave(e, pc)
  <2> USE DEF ExecPc, Done
  <2>1. CASE EnterRecord(e) \/ CallRunner(e) \/ RunnerReturns(e)
    BY <2>1 DEF EnterRecord, CallRunner, RunnerReturns
  <2>2. CASE RunnerRaises(e) \/ RunnerIgnoresCancel(e) \/ EndRecord(e)
    BY <2>2 DEF RunnerRaises, RunnerIgnoresCancel, EndRecord
  <2>3. CASE CatchCancel(e) \/ CatchException(e)
    BY <2>3 DEF CatchCancel, CatchException
  <2>4. CASE LeaveHandler(e)
    BY <2>4 DEF LeaveHandler
  <2> QED BY <1>2, <2>1, <2>2, <2>3, <2>4 DEF ExecStep
<1>4. \A d \in ExecIds: (d # e => exec'[d] = exec[d]) /\ exec'[e].pc # "created"
  <2>1. PICK pc \in ExecPc \ {"created"}: Goto(e, pc) \/ GotoCaught(e, pc)
    BY <1>3 DEF Leave, ExecPc, Done
  <2>2. exec' = [exec EXCEPT ![e].pc = pc] \/ exec' = [exec EXCEPT ![e].pc = pc, ![e].cancel = FALSE]
    BY <2>1 DEF Goto, GotoCaught
  <2>3. \A d \in ExecIds: d # e => exec'[d] = exec[d]
    BY <1>0, <2>2
  <2>4. exec'[e].pc = pc
    BY <1>0, <2>2 DEF Execution
  <2> QED BY <2>3, <2>4
<1>5. ASSUME NEW t \in Tasks, active'[t] # 0
      PROVE  active'[t] = active[t] /\ (IsDone(active[t])' => IsDone(active[t]))
  <2>1. CASE active[t] = e
    <3>1. exec[e].task = t
      BY <1>0, <1>5, <2>1 DEF ExecIds
    <3>2. CASE \E pc \in Done: Leave(e, pc)
      BY <1>0, <1>5, <3>1, <3>2 DEF Leave
    <3>3. CASE UNCHANGED active /\ exec'[e].pc \notin Done
      BY <2>1, <3>3 DEF IsDone
    <3> QED BY <1>0, <1>3, <3>2, <3>3 DEF Goto, GotoCaught, Execution
  <2>2. CASE active[t] # e
    <3>1. active'[t] = active[t]
      BY <1>0, <1>3, <1>5 DEF Leave
    <3>2. exec'[active[t]] = exec[active[t]]
      BY <1>0, <1>4, <1>5, <2>2, <3>1 DEF ExecIds
    <3> QED BY <3>1, <3>2 DEF IsDone
  <2> QED BY <2>1, <2>2
<1> QED BY <1>1, <1>4, <1>5, ClientKept

LEMMA ClientCaller ==
    ASSUME TypeInv, ClientInv, \A c, d \in Callers: c = d, NEW c \in Callers,
           CallerStep(c) \/ Request(c)
    PROVE  ClientInv'
<1>0. /\ exec \in [ExecIds -> Execution] /\ active \in [Tasks -> 0..MaxExecutions]
      /\ call \in [Callers -> Caller]
      /\ \A t \in Tasks: active[t] # 0 => exec[active[t]].pc # "unused"
  BY DEF TypeInv, TypeOK, TasksLoaded
<1>1. ASSUME UNCHANGED <<exec, active>>, call[c].pc # "sleep" \/ exec[call[c].exec].pc # "created"
      PROVE  ClientInv'
  BY <1>1, ClientKept DEF IsDone
<1>2. ASSUME UNCHANGED active, call[c].pc # "sleep",
             \A e \in ExecIds: exec'[e] \in {exec[e], Cancelled(exec[e])}
      PROVE  ClientInv'
  <2>1. \A e \in ExecIds: exec[e].pc # "created"
    BY <1>2 DEF ClientInv, BeginsFirst
  <2>2. \A e \in ExecIds: exec'[e].pc = exec[e].pc
    BY <1>0, <1>2 DEF Cancelled, Execution
  <2>3. \A t \in Tasks: active[t] # 0 => (IsDone(active[t])' <=> IsDone(active[t]))
    BY <1>0, <1>2, <2>2 DEF IsDone, ExecIds
  <2> QED BY <1>2, <2>1, <2>2, <2>3, ClientKept
<1>3. ASSUME NEW d, exec' = [exec EXCEPT ![d] = Cancelled(@)]
      PROVE  \A e \in ExecIds: exec'[e] \in {exec[e], Cancelled(exec[e])}
  BY <1>0, <1>3
<1>4. CASE Launch(c) /\ ~UNCHANGED exec
  <2>1. PICK e \in ExecIds:
          /\ exec[e].pc = "unused"
          /\ exec' = [exec EXCEPT ![e] = [NoExec EXCEPT !.task = call[c].task, !.pc = "created"]]
          /\ active' = [active EXCEPT ![call[c].task] = e]
          /\ call' = [call EXCEPT ![c].pc = "sleep", ![c].exec = e]
          /\ call[c].pc = "queued"
    BY <1>4 DEF Launch
  <2>2. exec'[e].pc = "created" /\ ~exec'[e].cancel /\ \A d \in ExecIds: d # e => exec'[d] = exec[d]
    BY <1>0, <2>1 DEF NoExec
  <2>3. call'[c].pc = "sleep" /\ call'[c].exec = e
    BY <1>0, <2>1 DEF Caller
  <2>4. \A d \in ExecIds: exec[d].pc # "created"
    BY <2>1 DEF ClientInv, BeginsFirst
  <2>5. BeginsFirst'
    BY <2>2, <2>3, <2>4 DEF BeginsFirst
  <2>6. ASSUME NEW t \in Tasks, active'[t] # 0 PROVE exec'[active'[t]].pc \notin Done
    <3>1. CASE active'[t] = e
      BY <2>2, <3>1 DEF Done
    <3>2. CASE active'[t] # e
      <4>1. active'[t] = active[t] /\ active[t] \in ExecIds
        BY <1>0, <2>1, <2>6, <3>2 DEF ExecIds
      <4> QED BY <2>2, <2>6, <3>2, <4>1 DEF IsDone, ClientInv, EntriesAreLive
    <3> QED BY <3>1, <3>2
  <2>7. EntriesAreLive'
    BY <2>6 DEF EntriesAreLive, IsDone
  <2> QED BY <2>5, <2>7 DEF ClientInv
<1>5. CASE Launch(c) /\ UNCHANGED exec
  <2>1. UNCHANGED <<exec, active>> /\ call[c].pc = "queued"
    <3>1. ASSUME NEW e \in ExecIds, exec[e].pc = "unused",
                 exec' = [exec EXCEPT ![e] = [NoExec EXCEPT !.task = call[c].task, !.pc = "created"]]
          PROVE  FALSE
      BY <1>0, <1>5, <3>1 DEF NoExec
    <3> QED BY <1>5, <3>1 DEF Launch
  <2> QED BY <1>1, <2>1
<1>6. CASE Awake(c) \/ WaitReturns(c) \/ PrepareAttempt(c) \/ \E t \in Tasks: CancelAllNext(c, t)
  BY <1>1, <1>6 DEF Awake, Slept, WaitReturns, PrepareAttempt, CancelAllNext
<1>7. CASE Timeout(c) \/ WaitRaises(c)
  <2>1. UNCHANGED active /\ call[c].pc # "sleep"
    BY <1>7 DEF Timeout, WaitRaises
  <2>2. \A e \in ExecIds: exec'[e] \in {exec[e], Cancelled(exec[e])}
    BY <1>3, <1>7 DEF Timeout, WaitRaises
  <2> QED BY <1>2, <2>1, <2>2
<1>8. CASE Request(c)
  <2>1. UNCHANGED active /\ call[c].pc # "sleep"
    BY <1>8 DEF Request, GetTask, CreateTask, CancelTask, CancelAll, WaitTask, StartTask, RetryTask, Free
  <2>2. \A e \in ExecIds: exec'[e] \in {exec[e], Cancelled(exec[e])}
    <3>1. ASSUME NEW b \in BOOLEAN, CancelAll(c, b) PROVE <2>2
      BY <3>1 DEF CancelAll
    <3>2. ASSUME NEW t \in Tasks, NEW b \in BOOLEAN, CancelTask(c, t, b) PROVE <2>2
      BY <1>3, <3>2 DEF CancelTask
    <3>3. CASE UNCHANGED exec
      BY <3>3
    <3> QED BY <1>8, <3>1, <3>2, <3>3
            DEF Request, GetTask, CreateTask, WaitTask, StartTask, RetryTask
  <2> QED BY <1>2, <2>1, <2>2
<1> QED BY <1>4, <1>5, <1>6, <1>7, <1>8 DEF CallerStep

LEMMA ClientInvNext ==
    ASSUME \A c, d \in Callers: c = d
    PROVE  TypeInv /\ ClientInv /\ [Next]_vars => ClientInv'
<1> SUFFICES ASSUME TypeInv, ClientInv, [Next]_vars PROVE ClientInv'
  OBVIOUS
<1>1. CASE Crash
  BY <1>1 DEF Crash, NoExec, ClientInv, EntriesAreLive, BeginsFirst, ExecIds
<1>2. CASE UNCHANGED vars
  BY <1>2 DEF vars, ClientInv, EntriesAreLive, BeginsFirst, IsDone
<1> QED BY <1>1, <1>2, ClientExec, ClientCaller DEF Next

\* With one client no entry of _active outlives its execution, whatever storage and
\* handlers fail or suspend and whenever the process crashes: a task that is over can
\* be started, retried or cancelled again.  (Two clients can leave one: the second
\* cancels an execution before its first step.)
THEOREM ClientFindsNoStaleEntry ==
    (\A c, d \in Callers: c = d) => (Spec => []EntriesAreLive)
<1> SUFFICES ASSUME \A c, d \in Callers: c = d PROVE Spec => []EntriesAreLive
  OBVIOUS
<1>1. Spec => []TypeInv
  BY TypeCorrect DEF TypeInv
<1>2. ClientInv => EntriesAreLive
  BY DEF ClientInv
<1> QED BY <1>1, <1>2, ClientInvInit, ClientInvNext, PTL DEF Spec

-----------------------------------------------------------------------------
(***************************************************************************)
(* The story that the rows and the event log of the task store tell, as    *)
(* long as no event handler suspends and the storage works.                *)
(***************************************************************************)
Unfinished == {"pending", "queued", "running", "retrying"}

-----------------------------------------------------------------------------
(***************************************************************************)
(* The inductive invariant, on the rows, which a crash leaves alone.       *)
(***************************************************************************)
\* The log of a known task ends with the event of its status.
LogStory ==
    \A t \in Tasks:
       IF row[t].status = "absent" THEN log[t] = << >>
       ELSE log[t] # << >> /\ StatusOf(log[t][Len(log[t])]) = row[t].status

\* The attempt that its retries and the crashes grant a task is used up.
Spent(t) == row[t].status \in TerminalStatus \/ (row[t].status = "running" /\ IsRunning(t))
AttemptBook ==
    \A t \in Tasks: row[t].status # "absent" =>
       Attempts(t) <= row[t].retries + crashes + (IF Spent(t) THEN 1 ELSE 0)

\* How far an execution is tells the status of its task, and a cancel finds it
\* only where it can be caught.
Matches(e, s) ==
    /\ exec[e].pc = "created" => s = "queued"
    /\ exec[e].pc \in {"started", "running", "failing"} => s = "running"
    /\ exec[e].pc \in {"ending", "handling"} => s \in TerminalStatus
    /\ exec[e].pc \in {"started", "ending"} => ~exec[e].cancel
ExecBook(t) == \A e \in ExecIds: exec[e].task = t => Matches(e, row[t].status)

\* So does the event a caller is suspended in, and a task taken up for its retry
\* is free.
CallBook(t) ==
    \A c \in Callers: call[c].task = t =>
       /\ call[c].pc = "queued" => row[t].status = "queued"
       /\ call[c].pc = "retrying" => row[t].status = "retrying" /\ active[t] = 0

\* The entry that an execution cancelled before its first step leaves behind.
StaleBook(t) ==
    active[t] # 0 /\ IsDone(active[t]) => row[t].status \in {"queued", "cancelled"}

\* Before the first crash nothing is left in the middle of an attempt.
OwnerBook(t) ==
    crashes = 0 =>
       /\ row[t].status = "running" => IsRunning(t)
       /\ row[t].status = "queued" =>
             active[t] # 0 \/ \E c \in Callers: call[c].pc = "queued" /\ call[c].task = t
       /\ row[t].status = "retrying" =>
             \E c \in Callers: call[c].pc = "retrying" /\ call[c].task = t

TaskBook(t) == ExecBook(t) /\ CallBook(t) /\ StaleBook(t) /\ OwnerBook(t)

StoryInv == RowsCurrent /\ LogStory /\ LogLegal /\ AttemptBook
BookInv == StoryInv /\ \A t \in Tasks: TaskBook(t)

-----------------------------------------------------------------------------
(***************************************************************************)
(* What a step does to the books: it writes one record with its event,     *)
(* which the status of the record allows, or at most loads records.        *)
(***************************************************************************)
Writes(t, r, ev) ==
    /\ mem' = [mem EXCEPT ![t] = r]
    /\ row' = [row EXCEPT ![t] = r]
    /\ log' = [log EXCEPT ![t] = Append(@, ev)]

Allowed(t, r, ev) ==
    LET s == row[t].status IN
    /\ r.status = StatusOf(ev)
    /\ ev \notin {"CREATED", "RETRYING"} => r.retries = row[t].retries
    /\ \/ ev = "CREATED" /\ s = "absent" /\ r.retries = 0
       \/ /\ ev = "QUEUED" /\ s \in Unfinished /\ ~Spent(t)
          /\ crashes = 0 => s \in {"pending", "retrying"}
       \/ ev = "STARTED" /\ s = "queued"
       \/ ev \in {"SUCCEEDED", "FAILED", "CANCELLED"} /\ s = "running"
       \/ /\ ev = "CANCELLED" /\ s \in Unfinished
          /\ crashes = 0 => s \in {"pending", "queued"}
       \/ ev = "RETRYING" /\ s = "failed" /\ row[t].retries < MaxRetries
          /\ r.retries = row[t].retries + 1

Quiet ==
    /\ UNCHANGED <<row, log>>
    /\ \A t \in Tasks: mem'[t] \in {mem[t], row[t]}

\* A task that runs, or starts to, has an execution as long as its row says so.
RunsKept ==
    \A t \in Tasks:
       row'[t].status = "running" /\ (IsRunning(t) \/ row[t].status = "queued") => IsRunning(t)'

BookStep ==
    /\ UNCHANGED crashes /\ RunsKept
    /\ \/ Quiet
       \/ \E t \in Tasks, r \in Record, ev \in TaskEventType: Writes(t, r, ev) /\ Allowed(t, r, ev)

-----------------------------------------------------------------------------
(***************************************************************************)
(* The steps of the story.                                                 *)
(***************************************************************************)
\* Another event adds to the attempts only if it starts one.
LEMMA AttemptsAppend ==
    ASSUME NEW s \in Seq(TaskEventType), NEW ev \in TaskEventType
    PROVE  /\ Cardinality({i \in DOMAIN s: s[i] = "STARTED"}) \in Nat
           /\ Cardinality({i \in DOMAIN Append(s, ev): Append(s, ev)[i] = "STARTED"})
              = Cardinality({i \in DOMAIN s: s[i] = "STARTED"}) + (IF ev = "STARTED" THEN 1 ELSE 0)
<1> DEFINE A == {i \in DOMAIN s: s[i] = "STARTED"}
           B == {i \in DOMAIN Append(s, ev): Append(s, ev)[i] = "STARTED"}
<1>1. IsFiniteSet(A) /\ Cardinality(A) \in Nat /\ Len(s) + 1 \notin A
  <2>1. IsFiniteSet(1..Len(s))
    BY FS_Interval
  <2>2. A \in SUBSET (1..Len(s))
    OBVIOUS
  <2> QED BY <2>1, <2>2, FS_Subset, FS_CardinalityType
<1>2. B = IF ev = "STARTED" THEN A \cup {Len(s) + 1} ELSE A
  <2>1. /\ DOMAIN Append(s, ev) = 1..(Len(s) + 1) /\ Append(s, ev)[Len(s) + 1] = ev
        /\ DOMAIN s = 1..Len(s) /\ Len(s) \in Nat
        /\ \A i \in 1..Len(s): Append(s, ev)[i] = s[i]
    OBVIOUS
  <2> QED BY <2>1
<1> HIDE DEF A, B
<1>3. ev = "STARTED" => Cardinality(B) = Cardinality(A) + 1
  BY <1>1, <1>2, FS_AddElement
<1>4. Cardinality(A) + 0 = Cardinality(A)
  BY <1>1
<1>5. Cardinality(B) = Cardinality(A) + (IF ev = "STARTED" THEN 1 ELSE 0)
  BY <1>2, <1>3, <1>4
<1> QED BY <1>1, <1>5 DEF A, B

\* A row is the record in memory, or the task is not loaded.
LEMMA Rows ==
    ASSUME TypeInv, RowsCurrent, NEW t \in Tasks
    PROVE  /\ row[t] \in Record \cup {NoRecord} /\ mem[t] \in Record \cup {NoRecord}
           /\ row[t].status # "absent" => row[t] \in Record
           /\ InMemory(t) => mem[t] = row[t] /\ row[t] \in Record
           /\ Known(t) => Loaded(t) = row[t] /\ row[t] \in Record
           /\ ~Known(t) => row[t] = NoRecord /\ row[t].status = "absent"
           /\ ~InMemory(t) => mem[t] = NoRecord
BY DEF TypeInv, TypeOK, RowsCurrent, InMemory, Known, Loaded, NoRecord, Record, TaskStatus

\* Only one event names a status.
LEMMA StatusNames ==
    ASSUME NEW ev \in TaskEventType
    PROVE  /\ StatusOf(ev) \in TaskStatus
           /\ StatusOf(ev) = "pending" => ev = "CREATED"
           /\ StatusOf(ev) = "queued" => ev = "QUEUED"
           /\ StatusOf(ev) = "running" => ev = "STARTED"
           /\ StatusOf(ev) = "retrying" => ev = "RETRYING"
           /\ StatusOf(ev) = "succeeded" => ev = "SUCCEEDED"
           /\ StatusOf(ev) = "failed" => ev = "FAILED"
           /\ StatusOf(ev) = "cancelled" => ev = "CANCELLED"
BY DEF TaskEventType, StatusOf, TaskStatus

LEMMA EventNames ==
    /\ StatusOf("CREATED") = "pending" /\ StatusOf("QUEUED") = "queued"
    /\ StatusOf("STARTED") = "running" /\ StatusOf("RETRYING") = "retrying"
    /\ StatusOf("SUCCEEDED") = "succeeded" /\ StatusOf("FAILED") = "failed"
    /\ StatusOf("CANCELLED") = "cancelled"
BY DEF StatusOf

\* An event that is allowed may follow the one before it.
LEMMA AllowedFollows ==
    ASSUME NEW t \in Tasks, NEW r, NEW ev \in TaskEventType, Allowed(t, r, ev), crashes \in Nat,
           NEW last \in TaskEventType, StatusOf(last) = row[t].status
    PROVE  \/ ev \in LegalNext(last)
           \/ /\ crashes > 0 /\ StatusOf(last) \notin TerminalStatus
              /\ ev \in {"QUEUED", "CANCELLED"}
<1> DEFINE s == row[t].status
<1>0. s \in TaskStatus
  BY StatusNames
<1>1. CASE ev = "CREATED"
  BY <1>0, <1>1 DEF Allowed, TaskStatus
<1>2. CASE ev = "QUEUED"
  <2>1. s \in Unfinished /\ (crashes = 0 => s \in {"pending", "retrying"})
    BY <1>2 DEF Allowed
  <2>2. CASE crashes = 0
    BY <1>2, <2>1, <2>2, StatusNames DEF LegalNext
  <2>3. CASE crashes > 0
    BY <1>2, <2>1, <2>3 DEF Unfinished, TerminalStatus
  <2> QED BY <2>2, <2>3
<1>3. CASE ev = "STARTED"
  BY <1>3, StatusNames DEF Allowed, LegalNext
<1>4. CASE ev \in {"SUCCEEDED", "FAILED", "CANCELLED"} /\ s = "running"
  BY <1>4, StatusNames DEF LegalNext
<1>5. CASE ev = "CANCELLED" /\ s \in Unfinished /\ (crashes = 0 => s \in {"pending", "queued"})
  <2>1. CASE crashes = 0
    BY <1>5, <2>1, StatusNames DEF LegalNext
  <2>2. CASE crashes > 0
    BY <1>5, <2>2 DEF Unfinished, TerminalStatus
  <2> QED BY <2>1, <2>2
<1>6. CASE ev = "RETRYING"
  BY <1>6, StatusNames DEF Allowed, LegalNext
<1> QED BY <1>1, <1>2, <1>3, <1>4, <1>5, <1>6 DEF Allowed

LEMMA StoryWrites ==
    ASSUME TypeInv, StoryInv, RunsKept, UNCHANGED crashes,
           NEW t \in Tasks, NEW r \in Record, NEW ev \in TaskEventType,
           Writes(t, r, ev), Allowed(t, r, ev)
    PROVE  StoryInv'
<1>0. /\ mem \in [Tasks -> Record \cup {NoRecord}] /\ row \in [Tasks -> Record \cup {NoRecord}]
      /\ log \in [Tasks -> Seq(TaskEventType)] /\ crashes \in Nat
  BY TaskManagerAssumption DEF TaskManagerAssumption, TypeInv, TypeOK
<1>1. /\ mem'[t] = r /\ row'[t] = r /\ log'[t] = Append(log[t], ev)
      /\ \A u \in Tasks \ {t}: mem'[u] = mem[u] /\ row'[u] = row[u] /\ log'[u] = log[u]
  BY <1>0 DEF Writes
<1>2. RowsCurrent'
  BY <1>1 DEF RowsCurrent, InMemory, StoryInv
<1>3. LogStory'
  <2>1. /\ log'[t] # << >> /\ log'[t][Len(log'[t])] = ev /\ row'[t].status = StatusOf(ev)
    <3>1. log[t] \in Seq(TaskEventType)
      BY <1>0
    <3>2. \A s \in Seq(TaskEventType): Append(s, ev) # << >> /\ Append(s, ev)[Len(Append(s, ev))] = ev
      OBVIOUS
    <3> QED BY <1>1, <3>1, <3>2 DEF Allowed
  <2>2. row'[t].status # "absent"
    BY <1>1 DEF Record, TaskStatus
  <2>3. ASSUME NEW u \in Tasks
        PROVE  (IF row[u].status = "absent" THEN log[u] = << >>
                ELSE log[u] # << >> /\ StatusOf(log[u][Len(log[u])]) = row[u].status)'
    <3>1. CASE u = t
      BY <2>1, <2>2, <3>1
    <3>2. CASE u # t
      BY <1>1, <3>2 DEF StoryInv, LogStory
    <3> QED BY <3>1, <3>2
  <2> QED BY <2>3 DEF LogStory
<1>4. LogLegal'
  <2> DEFINE OK(s, i) == \/ s[i + 1] \in LegalNext(s[i])
                         \/ /\ crashes > 0 /\ StatusOf(s[i]) \notin TerminalStatus
                            /\ s[i + 1] \in {"QUEUED", "CANCELLED"}
  <2>1. \A u \in Tasks: \A i \in 1..Len(log[u]) - 1: OK(log[u], i)
    BY DEF StoryInv, LogLegal
  <2>2. ASSUME NEW i \in 1..Len(log'[t]) - 1
        PROVE  OK(log'[t], i)
    <3>0. Len(log'[t]) = Len(log[t]) + 1 /\ Len(log[t]) \in Nat
      BY <1>0, <1>1
    <3>1. CASE i < Len(log[t])
      <4>1. log'[t][i] = log[t][i] /\ log'[t][i + 1] = log[t][i + 1] /\ i \in 1..Len(log[t]) - 1
        BY <1>0, <1>1, <3>0, <3>1
      <4> QED BY <2>1, <4>1
    <3>2. CASE i = Len(log[t])
      <4>1. log'[t][i] = log[t][i] /\ log'[t][i + 1] = ev /\ log[t][i] \in TaskEventType
            /\ log[t] # << >>
        BY <1>0, <1>1, <3>0, <3>2
      <4>2. StatusOf(log[t][i]) = row[t].status
        BY <3>2, <4>1 DEF StoryInv, LogStory
      <4> QED BY <1>0, <4>1, <4>2, AllowedFollows
    <3> QED BY <3>0, <3>1, <3>2
  <2>3. ASSUME NEW u \in Tasks, NEW i \in 1..Len(log'[u]) - 1
        PROVE  OK(log'[u], i)
    <3>1. CASE u = t
      BY <2>2, <3>1
    <3>2. CASE u # t
      <4>1. log'[u] = log[u]
        BY <1>1, <3>2
      <4> HIDE DEF OK
      <4> QED BY <2>1, <4>1
    <3> QED BY <3>1, <3>2
  <2> QED BY <2>3 DEF LogLegal
<1>5. AttemptBook'
  <2>1. ASSUME NEW u \in Tasks, u # t, row'[u].status # "absent"
        PROVE  Attempts(u)' <= row'[u].retries + crashes' + (IF Spent(u)' THEN 1 ELSE 0)
    <3>1. row'[u] = row[u] /\ log'[u] = log[u]
      BY <1>1, <2>1
    <3>2. row[u] \in Record /\ row[u].retries \in Nat
      BY <1>0, <2>1, <3>1, MaxRetriesIsNat DEF NoRecord, Record, MaxRetriesIsNat
    <3>3. Attempts(u)' = Attempts(u) /\ Attempts(u) \in Nat
      BY <1>0, <3>1, AttemptsAppend DEF Attempts, TaskEventType
    <3>4. Attempts(u) <= row[u].retries + crashes + (IF Spent(u) THEN 1 ELSE 0)
      BY <2>1, <3>1 DEF StoryInv, AttemptBook
    <3>5. Spent(u) => Spent(u)'
      BY <3>1 DEF Spent, RunsKept
    <3> QED BY <1>0, <3>1, <3>2, <3>3, <3>4, <3>5
  <2>2. Attempts(t)' <= row'[t].retries + crashes' + (IF Spent(t)' THEN 1 ELSE 0)
    <3> DEFINE n == Attempts(t)
    <3>1. n \in Nat /\ Attempts(t)' = n + (IF ev = "STARTED" THEN 1 ELSE 0)
      <4> DEFINE Started(s) == Cardinality({i \in DOMAIN s: s[i] = "STARTED"})
      <4>1. \A s \in Seq(TaskEventType):
               Started(s) \in Nat /\ Started(Append(s, ev)) = Started(s) + (IF ev = "STARTED" THEN 1 ELSE 0)
        BY AttemptsAppend
      <4>2. n = Started(log[t]) /\ Attempts(t)' = Started(Append(log[t], ev)) /\ log[t] \in Seq(TaskEventType)
        BY <1>0, <1>1 DEF Attempts
      <4> HIDE DEF Started, n
      <4> QED BY <4>1, <4>2
    <3>2. r.retries \in Nat /\ r.status = StatusOf(ev) /\ row'[t] = r
      BY <1>1, MaxRetriesIsNat DEF Record, MaxRetriesIsNat, Allowed
    <3>3. row[t].status # "absent" =>
             row[t].retries \in Nat /\ n <= row[t].retries + crashes + (IF Spent(t) THEN 1 ELSE 0)
      <4>1. row[t].status # "absent" => row[t] \in Record
        BY <1>0 DEF NoRecord
      <4> QED BY <4>1, MaxRetriesIsNat DEF Record, MaxRetriesIsNat, StoryInv, AttemptBook
    <3>4. ev \in {"SUCCEEDED", "FAILED", "CANCELLED"} => Spent(t)'
      BY <3>2, EventNames DEF Spent, TerminalStatus
    <3>5. ev = "STARTED" => Spent(t)' /\ ~Spent(t)
      <4>1. ev = "STARTED" => row[t].status = "queued" /\ row'[t].status = "running"
        BY <3>2, EventNames DEF Allowed
      <4> QED BY <4>1 DEF RunsKept, Spent, TerminalStatus
    <3>6. ev = "CREATED" => n = 0
      <4>1. ev = "CREATED" => log[t] = << >>
        BY DEF Allowed, StoryInv, LogStory
      <4>2. ev = "CREATED" => {i \in DOMAIN log[t]: log[t][i] = "STARTED"} = {}
        BY <4>1
      <4> QED BY <4>2, FS_EmptySet DEF Attempts
    <3> HIDE DEF n
    <3>7. CASE ev = "CREATED"
      BY <1>0, <3>1, <3>2, <3>6, <3>7
    <3>8. CASE ev = "QUEUED"
      <4>1. row[t].status # "absent" /\ ~Spent(t) /\ r.retries = row[t].retries
        BY <3>8 DEF Allowed, Unfinished
      <4> QED BY <1>0, <3>1, <3>2, <3>3, <3>8, <4>1
    <3>9. CASE ev = "STARTED"
      <4>1. row[t].status # "absent" /\ r.retries = row[t].retries
        BY <3>9 DEF Allowed
      <4> QED BY <1>0, <3>1, <3>2, <3>3, <3>5, <3>9, <4>1
    <3>10. CASE ev \in {"SUCCEEDED", "FAILED", "CANCELLED"}
      <4>1. row[t].status # "absent" /\ r.retries = row[t].retries
        BY <3>10 DEF Allowed, Unfinished
      <4> QED BY <1>0, <3>1, <3>2, <3>3, <3>4, <3>10, <4>1
    <3>11. CASE ev = "RETRYING"
      <4>1. row[t].status # "absent" /\ r.retries = row[t].retries + 1
        BY <3>11 DEF Allowed
      <4> QED BY <1>0, <3>1, <3>2, <3>3, <3>11, <4>1
    <3> QED BY <3>7, <3>8, <3>9, <3>10, <3>11 DEF TaskEventType
  <2>3. \A u \in Tasks: (row[u].status # "absent")' =>
            Attempts(u)' <= row'[u].retries + crashes' + (IF Spent(u)' THEN 1 ELSE 0)
    BY <2>1, <2>2
  <2> QED BY <2>3 DEF AttemptBook
<1> QED BY <1>2, <1>3, <1>4, <1>5 DEF StoryInv

LEMMA AttemptsNat ==
    ASSUME TypeInv, NEW t \in Tasks
    PROVE  Attempts(t) \in Nat /\ (row[t].status # "absent" => row[t].retries \in Nat)
<1>1. log[t] \in Seq(TaskEventType) /\ row[t] \in Record \cup {NoRecord} /\ "CREATED" \in TaskEventType
  BY DEF TypeInv, TypeOK, TaskEventType
<1>2. row[t].status # "absent" => row[t] \in Record
  BY <1>1 DEF NoRecord
<1>3. \A r \in Record: r.retries \in Nat
  BY MaxRetriesIsNat DEF Record, MaxRetriesIsNat
<1> QED BY <1>1, <1>2, <1>3, AttemptsAppend DEF Attempts

LEMMA StoryQuiet ==
    ASSUME TypeInv, StoryInv, RunsKept, UNCHANGED crashes, Quiet
    PROVE  StoryInv'
<1>0. crashes \in Nat
  BY TaskManagerAssumption DEF TaskManagerAssumption, TypeInv, TypeOK
<1>1. RowsCurrent'
  BY DEF StoryInv, RowsCurrent, Quiet, InMemory
<1>2. LogStory' /\ LogLegal'
  BY DEF StoryInv, LogStory, LogLegal, Quiet
<1>3. ASSUME NEW t \in Tasks, row'[t].status # "absent"
      PROVE  Attempts(t)' <= row'[t].retries + crashes' + (IF Spent(t)' THEN 1 ELSE 0)
  <2>1. /\ Attempts(t)' = Attempts(t) /\ row'[t] = row[t]
        /\ Attempts(t) \in Nat /\ row[t].retries \in Nat
    BY <1>3, AttemptsNat DEF Attempts, Quiet
  <2>2. Attempts(t) <= row[t].retries + crashes + (IF Spent(t) THEN 1 ELSE 0)
    BY <1>3, <2>1 DEF StoryInv, AttemptBook
  <2>3. Spent(t) => Spent(t)'
    BY <2>1 DEF Spent, RunsKept
  <2> QED BY <1>0, <2>1, <2>2, <2>3
<1>4. \A t \in Tasks: (row[t].status # "absent")' =>
          Attempts(t)' <= row'[t].retries + crashes' + (IF Spent(t)' THEN 1 ELSE 0)
  BY <1>3
<1> QED BY <1>1, <1>2, <1>4 DEF StoryInv, AttemptBook

\* A crash counts for the attempt it may have cut short.
LEMMA StoryCrash ==
    ASSUME TypeInv, StoryInv, Crash
    PROVE  StoryInv'
<1>0. crashes \in Nat /\ crashes' = crashes + 1 /\ UNCHANGED <<row, log>>
  BY TaskManagerAssumption DEF TaskManagerAssumption, TypeInv, TypeOK, Crash
<1>1. RowsCurrent'
  BY DEF Crash, RowsCurrent, InMemory, NoRecord
<1>2. LogStory'
  BY <1>0 DEF StoryInv, LogStory
<1>3. LogLegal'
  <2>1. crashes' > 0 /\ (crashes > 0 => crashes' > 0)
    BY <1>0
  <2> QED BY <1>0, <2>1 DEF StoryInv, LogLegal
<1>4. ASSUME NEW t \in Tasks, row'[t].status # "absent"
      PROVE  Attempts(t)' <= row'[t].retries + crashes' + (IF Spent(t)' THEN 1 ELSE 0)
  <2>1. /\ Attempts(t)' = Attempts(t) /\ row'[t] = row[t]
        /\ Attempts(t) \in Nat /\ row[t].retries \in Nat
    BY <1>0, <1>4, AttemptsNat DEF Attempts
  <2>2. Attempts(t) <= row[t].retries + crashes + (IF Spent(t) THEN 1 ELSE 0)
    BY <1>4, <2>1 DEF StoryInv, AttemptBook
  <2> QED BY <1>0, <2>1, <2>2
<1>5. \A t \in Tasks: (row[t].status # "absent")' =>
          Attempts(t)' <= row'[t].retries + crashes' + (IF Spent(t)' THEN 1 ELSE 0)
  BY <1>4
<1> QED BY <1>1, <1>2, <1>3, <1>5 DEF StoryInv, AttemptBook

\* What LogIsTrue says follows from the story.
LEMMA StoryIsTrue == TypeInv /\ StoryInv => LogIsTrue
<1> SUFFICES ASSUME TypeInv, StoryInv PROVE LogIsTrue
  OBVIOUS
<1>1. RowsCurrent /\ LogLegal
  BY DEF StoryInv
<1>2. ASSUME NEW t \in Tasks, InMemory(t)
      PROVE  /\ log[t] # << >> /\ StatusOf(log[t][Len(log[t])]) = mem[t].status
             /\ Attempts(t) <= 1 + mem[t].retries + crashes
  <2>1. mem[t] = row[t] /\ row[t].status # "absent"
    BY <1>1, <1>2 DEF RowsCurrent, InMemory
  <2>2. crashes \in Nat /\ Attempts(t) \in Nat /\ row[t].retries \in Nat
    BY <2>1, AttemptsNat, TaskManagerAssumption DEF TaskManagerAssumption, TypeInv, TypeOK
  <2>3. Attempts(t) <= row[t].retries + crashes + (IF Spent(t) THEN 1 ELSE 0)
    BY <2>1 DEF StoryInv, AttemptBook
  <2>4. Attempts(t) <= 1 + mem[t].retries + crashes
    BY <2>1, <2>2, <2>3
  <2> QED BY <2>1, <2>4 DEF StoryInv, LogStory
<1> QED BY <1>1, <1>2 DEF LogIsTrue, LastEventIsStatus, AttemptsBounded

\* An outcome is only followed by the retry of a failure.
LEMMA StepKeepsOutcomes ==
    ASSUME TypeInv, StoryInv, BookStep \/ Crash, NEW t \in Tasks,
           IsTerminal(mem[t]), mem'[t].status # "absent"
    PROVE  \/ mem'[t].status = mem[t].status
           \/ mem[t].status = "failed" /\ mem'[t].status = "retrying"
<1>1. InMemory(t) /\ mem[t] = row[t] /\ row[t].status \in TerminalStatus /\ mem \in [Tasks -> Record \cup {NoRecord}]
  BY DEF InMemory, IsTerminal, TerminalStatus, StoryInv, RowsCurrent, TypeInv, TypeOK
<1>2. CASE Crash
  BY <1>2 DEF Crash, NoRecord
<1>3. CASE Quiet
  BY <1>1, <1>3 DEF Quiet
<1>4. ASSUME NEW u \in Tasks, NEW r \in Record, NEW ev \in TaskEventType,
             Writes(u, r, ev), Allowed(u, r, ev)
      PROVE  \/ mem'[t].status = mem[t].status
             \/ mem[t].status = "failed" /\ mem'[t].status = "retrying"
  <2>1. CASE u # t
    BY <1>1, <1>4, <2>1 DEF Writes
  <2>2. CASE u = t
    <3>1. mem'[t] = r
      BY <1>1, <1>4, <2>2 DEF Writes
    <3>2. ev = "RETRYING" /\ row[t].status = "failed" /\ r.status = StatusOf(ev)
      BY <1>1, <1>4, <2>2 DEF Allowed, TerminalStatus, Unfinished
    <3> QED BY <1>1, <3>1, <3>2, EventNames
  <2> QED BY <2>1, <2>2
<1> QED BY <1>2, <1>3, <1>4 DEF BookStep

\* The rows, read as TaskLifecycle reads them.
StatusBar == [t \in Tasks |-> row[t].status]
RetriesBar == [t \in Tasks |-> IF row[t].status = "absent" THEN 0 ELSE row[t].retries]

\* A write with its event is a step of TaskLifecycle, every other step a stutter.
LEMMA StepIsLifecycle ==
    ASSUME TypeInv, BookStep \/ Crash
    PROVE  Lifecycle!Next \/ UNCHANGED <<StatusBar, RetriesBar>>
<1>1. CASE UNCHANGED row
  BY <1>1 DEF StatusBar, RetriesBar
<1>2. ASSUME NEW t \in Tasks, NEW r \in Record, NEW ev \in TaskEventType,
             Writes(t, r, ev), Allowed(t, r, ev)
      PROVE  Lifecycle!Next
  <2>1. /\ row \in [Tasks -> Record \cup {NoRecord}]
        /\ row' = [row EXCEPT ![t] = r] /\ r.status # "absent"
    BY <1>2 DEF Writes, TypeInv, TypeOK, Record, TaskStatus
  <2>2. /\ StatusBar' = [StatusBar EXCEPT ![t] = r.status]
        /\ RetriesBar' = [RetriesBar EXCEPT ![t] = r.retries]
        /\ StatusBar[t] = row[t].status
        /\ RetriesBar[t] = IF row[t].status = "absent" THEN 0 ELSE row[t].retries
        /\ RetriesBar = [u \in Tasks |-> RetriesBar[u]]
    BY <2>1 DEF StatusBar, RetriesBar
  <2>3. r.retries = RetriesBar[t] => RetriesBar' = RetriesBar
    BY <2>2
  <2>4. r.status = StatusOf(ev)
    BY <1>2 DEF Allowed
  <2>5. CASE ev = "RETRYING"
    <3>1. /\ row[t].status = "failed" /\ row[t].retries < MaxRetries
          /\ r.retries = row[t].retries + 1
      BY <1>2, <2>5 DEF Allowed
    <3>2. /\ StatusBar[t] = "failed" /\ RetriesBar[t] < MaxRetries
          /\ StatusBar' = [StatusBar EXCEPT ![t] = "retrying"]
          /\ RetriesBar' = [RetriesBar EXCEPT ![t] = @ + 1]
      BY <2>2, <2>4, <2>5, <3>1, EventNames
    <3>3. Lifecycle!Retry(t)
      BY <3>2 DEF Lifecycle!Retry, StatusBar, RetriesBar
    <3> QED BY <3>3 DEF Lifecycle!Next
  <2>6. ASSUME NEW from, NEW to, row[t].status \in from, r.status = to, r.retries = RetriesBar[t]
        PROVE  Lifecycle!Move(t, from, to)
    <3>1. StatusBar[t] \in from /\ StatusBar' = [StatusBar EXCEPT ![t] = to] /\ UNCHANGED RetriesBar
      BY <2>2, <2>3, <2>6
    <3> QED BY <3>1 DEF Lifecycle!Move, StatusBar, RetriesBar
  <2>7. CASE ev # "RETRYING"
    <3>1. r.retries = RetriesBar[t]
      BY <1>2, <2>2, <2>7 DEF Allowed, Unfinished
    <3>2. CASE ev = "CREATED"
      <4>1. row[t].status \in {"absent"} /\ r.status = "pending"
        BY <1>2, <2>4, <3>2, EventNames DEF Allowed
      <4>2. Lifecycle!Create(t)
        BY <2>6, <3>1, <4>1 DEF Lifecycle!Create
      <4> QED BY <4>2 DEF Lifecycle!Next
    <3>3. CASE ev = "QUEUED"
      <4>1. row[t].status \in Lifecycle!Unfinished /\ r.status = "queued"
        BY <1>2, <2>4, <3>3, EventNames DEF Allowed, Unfinished, Lifecycle!Unfinished
      <4>2. Lifecycle!Enqueue(t)
        BY <2>6, <3>1, <4>1 DEF Lifecycle!Enqueue
      <4> QED BY <4>2 DEF Lifecycle!Next
    <3>4. CASE ev = "STARTED"
      <4>1. row[t].status \in {"queued"} /\ r.status = "running"
        BY <1>2, <2>4, <3>4, EventNames DEF Allowed
      <4>2. Lifecycle!Begin(t)
        BY <2>6, <3>1, <4>1 DEF Lifecycle!Begin
      <4> QED BY <4>2 DEF Lifecycle!Next
    <3>5. CASE ev \in {"SUCCEEDED", "FAILED", "CANCELLED"} /\ row[t].status = "running"
      <4>1. r.status \in Lifecycle!Outcome /\ row[t].status \in {"running"}
        BY <2>4, <3>5, EventNames DEF Lifecycle!Outcome
      <4>2. Lifecycle!Finish(t)
        BY <2>6, <3>1, <4>1 DEF Lifecycle!Finish
      <4> QED BY <4>2 DEF Lifecycle!Next
    <3>6. CASE ev = "CANCELLED" /\ row[t].status \in Unfinished
      <4>1. row[t].status \in Lifecycle!Unfinished /\ r.status = "cancelled"
        BY <2>4, <3>6, EventNames DEF Unfinished, Lifecycle!Unfinished
      <4>2. Lifecycle!Cancel(t)
        BY <2>6, <3>1, <4>1 DEF Lifecycle!Cancel
      <4> QED BY <4>2 DEF Lifecycle!Next
    <3> QED BY <1>2, <2>7, <3>2, <3>3, <3>4, <3>5, <3>6 DEF Allowed
  <2> QED BY <2>5, <2>7
<1> QED BY <1>1, <1>2 DEF BookStep, Quiet, Crash

-----------------------------------------------------------------------------
(***************************************************************************)
(* The steps, each with what it does to the books of the task it is about. *)
(***************************************************************************)
\* The storage works: nothing fails.
LEMMA NoFault ==
    ASSUME TypeInv, MaxFaults = 0, NEW ok \in BOOLEAN, Fault(ok)
    PROVE  ok
BY DEF TypeInv, TypeOK, Fault, CanFault

LEMMA EmitWrites ==
    ASSUME TypeInv, MaxFaults = 0, NEW t, NEW r, NEW ev, NEW out \in EmitOutcome, Emit(t, r, ev, out)
    PROVE  out = "ok" /\ Writes(t, r, ev)
<1>1. (out = "ok") \in BOOLEAN /\ Fault(out = "ok")
  BY DEF Emit
<1>2. out = "ok"
  BY <1>1, NoFault
<1> QED BY <1>2 DEF Emit, Writes

\* Persisting a record once more changes nothing.
LEMMA PersistAgain ==
    ASSUME TypeInv, RowsCurrent, MaxFaults = 0, NEW t \in Tasks, InMemory(t),
           NEW ok \in BOOLEAN, Persist(t, mem[t], ok)
    PROVE  ok /\ UNCHANGED <<mem, row>>
<1>1. ok
  BY NoFault DEF Persist
<1>2. mem[t] = row[t] /\ mem \in [Tasks -> Record \cup {NoRecord}] /\ row \in [Tasks -> Record \cup {NoRecord}]
  BY DEF RowsCurrent, TypeInv, TypeOK
<1> QED BY <1>1, <1>2 DEF Persist

LEMMA LoadIsQuiet ==
    ASSUME TypeInv, RowsCurrent, NEW t \in Tasks, Known(t), Load(t), UNCHANGED <<row, log>>
    PROVE  Quiet
<1>1. Loaded(t) = row[t] /\ mem \in [Tasks -> Record \cup {NoRecord}]
  BY Rows DEF TypeInv, TypeOK
<1> QED BY <1>1 DEF Load, Quiet

\* A step that leaves alone a task's row and entry, and whatever works on it.
Untouched(u) ==
    /\ row'[u] = row[u] /\ active'[u] = active[u]
    /\ \A e \in ExecIds: exec'[e].task = u \/ exec[e].task = u =>
          /\ exec'[e].task = exec[e].task /\ exec'[e].pc = exec[e].pc
          /\ exec'[e].cancel => exec[e].cancel \/ exec[e].pc \notin {"started", "ending"}
    /\ \A c \in Callers, pc \in {"queued", "retrying"}:
          (call'[c].pc = pc /\ call'[c].task = u) <=> (call[c].pc = pc /\ call[c].task = u)

RunKept(u) == row'[u].status = "running" /\ (IsRunning(u) \/ row[u].status = "queued") => IsRunning(u)'

LEMMA BookFrame ==
    ASSUME TypeInv, NEW u \in Tasks, TaskBook(u), Untouched(u), UNCHANGED crashes
    PROVE  TaskBook(u)' /\ RunKept(u)
<1>0. active[u] # 0 => active[u] \in ExecIds /\ exec[active[u]].task = u
  BY TaskManagerAssumption DEF TaskManagerAssumption, TypeInv, TypeOK, TasksLoaded
<1>1. row'[u] = row[u] /\ active'[u] = active[u]
  BY DEF Untouched
<1>2. active[u] # 0 => IsDone(active[u])' = IsDone(active[u])
  BY <1>0, <1>1 DEF Untouched, IsDone
<1>3. IsRunning(u)' = IsRunning(u)
  BY <1>1, <1>2 DEF IsRunning
<1>4. ExecBook(u)'
  <2>1. ASSUME NEW e \in ExecIds, exec'[e].task = u
        PROVE  Matches(e, row[u].status)'
    <3>1. /\ exec[e].task = u /\ exec'[e].pc = exec[e].pc
          /\ exec'[e].cancel => exec[e].cancel \/ exec[e].pc \notin {"started", "ending"}
      BY <2>1 DEF Untouched
    <3>2. Matches(e, row[u].status)
      BY <3>1 DEF TaskBook, ExecBook
    <3> QED BY <1>1, <3>1, <3>2 DEF Matches
  <2> QED BY <2>1 DEF ExecBook
<1>5. CallBook(u)'
  BY <1>1 DEF TaskBook, CallBook, Untouched
<1>6. StaleBook(u)'
  BY <1>1, <1>2 DEF TaskBook, StaleBook
<1>7. OwnerBook(u)'
  <2>1. ASSUME NEW c \in Callers, NEW pc \in {"queued", "retrying"}, call[c].pc = pc, call[c].task = u
        PROVE  call'[c].pc = pc /\ call'[c].task = u
    BY <2>1 DEF Untouched
  <2>2. ASSUME NEW pc \in {"queued", "retrying"}, \E c \in Callers: call[c].pc = pc /\ call[c].task = u
        PROVE  \E c \in Callers: call'[c].pc = pc /\ call'[c].task = u
    BY <2>1, <2>2
  <2>3. /\ (\E c \in Callers: call[c].pc = "queued" /\ call[c].task = u)
              => \E c \in Callers: call'[c].pc = "queued" /\ call'[c].task = u
        /\ (\E c \in Callers: call[c].pc = "retrying" /\ call[c].task = u)
              => \E c \in Callers: call'[c].pc = "retrying" /\ call'[c].task = u
    BY <2>2
  <2> QED BY <1>1, <1>3, <2>3 DEF TaskBook, OwnerBook
<1>8. RunKept(u)
  BY <1>1, <1>3 DEF RunKept
<1> QED BY <1>4, <1>5, <1>6, <1>7, <1>8 DEF TaskBook

\* An execution goes from one await to the next, or leaves its task.
LEMMA BookExecMoves ==
    ASSUME TypeInv, TrackInv, \A u \in Tasks: TaskBook(u), NEW e \in ExecIds, Live(e),
           NEW pc \in ExecPc \ {"unused", "created"}, Goto(e, pc) \/ GotoCaught(e, pc),
           UNCHANGED <<call, crashes>>,
           NEW t \in Tasks, t = exec[e].task, \A u \in Tasks \ {t}: row'[u] = row[u],
           NEW a \in {0, e}, active' = [active EXCEPT ![t] = a],
           row'[t].status = "running" => pc \notin Done /\ a = e,
           pc \in Done /\ a = e => row'[t].status = "queued",
           row'[t].status = "queued" => a = e,
           row'[t].status # "retrying",
           pc \in {"started", "running", "failing"} => row'[t].status = "running",
           pc \in {"ending", "handling"} => row'[t].status \in TerminalStatus,
           pc \in {"started", "ending"} => ~exec[e].cancel
    PROVE  RunsKept /\ \A u \in Tasks: TaskBook(u)'
<1>0. /\ exec \in [ExecIds -> Execution] /\ active \in [Tasks -> 0..MaxExecutions]
      /\ active[t] = e /\ e # 0
  BY DEF TypeInv, TypeOK, TrackInv, LiveIsTracked
<1>1. /\ exec'[e].task = t /\ exec'[e].pc = pc /\ (exec'[e].cancel => exec[e].cancel)
      /\ \A d \in ExecIds \ {e}: exec'[d] = exec[d]
  <2>0. exec[e] \in Execution
    BY <1>0
  <2>1. /\ [exec[e] EXCEPT !.pc = pc].task = exec[e].task
        /\ [exec[e] EXCEPT !.pc = pc].pc = pc
        /\ [exec[e] EXCEPT !.pc = pc].cancel = exec[e].cancel
        /\ [exec[e] EXCEPT !.pc = pc, !.cancel = FALSE].task = exec[e].task
        /\ [exec[e] EXCEPT !.pc = pc, !.cancel = FALSE].pc = pc
        /\ [exec[e] EXCEPT !.pc = pc, !.cancel = FALSE].cancel = FALSE
    BY <2>0 DEF Execution
  <2>2. \/ exec' = [exec EXCEPT ![e] = [exec[e] EXCEPT !.pc = pc]]
        \/ exec' = [exec EXCEPT ![e] = [exec[e] EXCEPT !.pc = pc, !.cancel = FALSE]]
    BY DEF Goto, GotoCaught
  <2> QED BY <1>0, <2>1, <2>2
<1>2. active'[t] = a /\ \A u \in Tasks \ {t}: active'[u] = active[u]
  BY <1>0
<1>3. ASSUME NEW u \in Tasks \ {t}
      PROVE  TaskBook(u)' /\ RunKept(u)
  <2>1. Untouched(u)
    BY <1>1, <1>2, <1>3 DEF Untouched
  <2> QED BY <2>1, BookFrame
<1>4. ExecBook(t)'
  <2>1. ASSUME NEW d \in ExecIds, exec'[d].task = t
        PROVE  Matches(d, row[t].status)'
    <3>1. CASE d = e
      BY <1>1, <3>1 DEF Matches
    <3>2. CASE d # e
      <4>1. exec'[d] = exec[d] /\ exec[d].task = t /\ active[t] # d
        BY <1>0, <1>1, <2>1, <3>2
      <4>2. exec[d].pc \in Done \cup {"unused"}
        BY <4>1 DEF TrackInv, LiveIsTracked, Live
      <4> QED BY <4>1, <4>2 DEF Matches, Done
    <3> QED BY <3>1, <3>2
  <2> QED BY <2>1 DEF ExecBook
<1>5. ASSUME NEW c \in Callers, call[c].task = t, call[c].pc \in {"queued", "retrying"}
      PROVE  FALSE
  BY <1>0, <1>5 DEF TrackInv, QueuedIsFree, TaskBook, CallBook
<1>6. CallBook(t)'
  BY <1>5 DEF CallBook
<1>7. active'[t] # 0 => active'[t] = e /\ a = e /\ (IsDone(active[t])' <=> pc \in Done)
  BY <1>1, <1>2 DEF IsDone
<1>8. StaleBook(t)'
  BY <1>2, <1>7 DEF StaleBook
<1>9. row'[t].status = "running" => IsRunning(t)'
  BY <1>0, <1>2, <1>7 DEF IsRunning
<1>10. OwnerBook(t)'
  BY <1>0, <1>2, <1>9 DEF OwnerBook
<1>11. TaskBook(t)' /\ RunKept(t)
  BY <1>4, <1>6, <1>8, <1>9, <1>10 DEF TaskBook, RunKept
<1> QED BY <1>3, <1>11 DEF RunsKept, RunKept

\* The status, the retries and the type of what the mark_* methods return.
LEMMA MarksOf ==
    ASSUME NEW r \in Record
    PROVE  /\ NewRecord.status = "pending" /\ NewRecord.retries = 0
           /\ MarkQueued(r).status = "queued" /\ MarkQueued(r).retries = r.retries
           /\ MarkRunning(r).status = "running" /\ MarkRunning(r).retries = r.retries
           /\ MarkSucceeded(r).status = "succeeded" /\ MarkSucceeded(r).retries = r.retries
           /\ MarkFailed(r).status = "failed" /\ MarkFailed(r).retries = r.retries
           /\ MarkCancelled(r).status = "cancelled" /\ MarkCancelled(r).retries = r.retries
           /\ MarkRetrying(r).status = "retrying" /\ MarkRetrying(r).retries = r.retries + 1
           /\ PrepareNextAttempt(r).status = "queued" /\ PrepareNextAttempt(r).retries = r.retries
<1>1. NewRecord.status = "pending" /\ NewRecord.retries = 0
  BY DEF NewRecord
<1>2. /\ MarkQueued(r).status = "queued" /\ MarkQueued(r).retries = r.retries
      /\ MarkRunning(r).status = "running" /\ MarkRunning(r).retries = r.retries
  BY DEF Record, MarkQueued, MarkRunning
<1>3. /\ MarkSucceeded(r).status = "succeeded" /\ MarkSucceeded(r).retries = r.retries
      /\ MarkFailed(r).status = "failed" /\ MarkFailed(r).retries = r.retries
  BY DEF Record, MarkSucceeded, MarkFailed
<1>4. /\ MarkCancelled(r).status = "cancelled" /\ MarkCancelled(r).retries = r.retries
      /\ MarkRetrying(r).status = "retrying" /\ MarkRetrying(r).retries = r.retries + 1
  BY DEF Record, MarkCancelled, MarkRetrying
<1>5. PrepareNextAttempt(r).status = "queued" /\ PrepareNextAttempt(r).retries = r.retries
  BY DEF Record, PrepareNextAttempt
<1> QED BY <1>1, <1>2, <1>3, <1>4, <1>5

LEMMA EventTypes == {"CREATED", "QUEUED", "STARTED", "RETRYING", "SUCCEEDED", "FAILED", "CANCELLED"}
                    = TaskEventType
BY DEF TaskEventType

\* The steps of an execution.
LEMMA BookExec ==
    ASSUME MaxFaults = 0, ~HandlersSuspend, TypeInv, TrackInv, BookInv,
           NEW e \in ExecIds, ExecStep(e)
    PROVE  BookStep /\ \A u \in Tasks: TaskBook(u)'
<1>0. /\ Live(e) /\ UNCHANGED <<call, crashes>> /\ StoryInv /\ RowsCurrent
      /\ active \in [Tasks -> 0..MaxExecutions]
  <2>1. exec[e].pc \notin Done \cup {"unused"} /\ UNCHANGED <<call, crashes>>
    BY DEF ExecStep, EnterRecord, NeverEntered, CallRunner, RunnerReturns, RunnerRaises,
           RunnerIgnoresCancel, EndRecord, CatchCancel, CatchException, LeaveHandler, Done
  <2> QED BY <2>1 DEF Live, TypeInv, TypeOK, BookInv, StoryInv
<1>1. PICK t \in Tasks: /\ t = exec[e].task /\ InMemory(t) /\ mem[t] = row[t] /\ row[t] \in Record
                       /\ active[t] = e
  BY <1>0, Rows DEF TypeInv, TasksLoaded, Live, TrackInv, LiveIsTracked
<1>2. Matches(e, row[t].status) /\ \A u \in Tasks: TaskBook(u)
  BY <1>1 DEF BookInv, TaskBook, ExecBook
<1>3. active' = active => active' = [active EXCEPT ![t] = e]
  BY <1>0, <1>1
<1>4. PICK r \in Record: r = mem[t]
  BY <1>1
<1>p. ExecPc \ {"unused", "created"} = {"started", "running", "ending", "failing", "handling"} \cup Done
  BY DEF ExecPc, Done
<1>m. ASSUME NEW pc \in ExecPc \ {"unused", "created"}, Goto(e, pc) \/ GotoCaught(e, pc),
             \A u \in Tasks \ {t}: row'[u] = row[u],
             NEW a \in {0, e}, active' = [active EXCEPT ![t] = a],
             row'[t].status = "running" => pc \notin Done /\ a = e,
             pc \in Done /\ a = e => row'[t].status = "queued",
             row'[t].status = "queued" => a = e,
             row'[t].status # "retrying",
             pc \in {"started", "running", "failing"} => row'[t].status = "running",
             pc \in {"ending", "handling"} => row'[t].status \in TerminalStatus,
             pc \in {"started", "ending"} => ~exec[e].cancel
      PROVE  RunsKept /\ \A u \in Tasks: TaskBook(u)'
  BY <1>0, <1>1, <1>2, <1>m, BookExecMoves, ZenonT(60)
<1>x. /\ {MarkRunning(r), MarkSucceeded(r), MarkFailed(r), MarkCancelled(r)} \subseteq Record
      /\ MarkRunning(r).status = StatusOf("STARTED") /\ MarkRunning(r).retries = row[t].retries
      /\ MarkSucceeded(r).status = StatusOf("SUCCEEDED") /\ MarkSucceeded(r).retries = row[t].retries
      /\ MarkFailed(r).status = StatusOf("FAILED") /\ MarkFailed(r).retries = row[t].retries
      /\ MarkCancelled(r).status = StatusOf("CANCELLED") /\ MarkCancelled(r).retries = row[t].retries
  <2>1. {MarkRunning(r), MarkSucceeded(r), MarkFailed(r), MarkCancelled(r)} \subseteq Record
    BY RecordOps
  <2>2. r = row[t]
    BY <1>1, <1>4
  <2>3. /\ MarkRunning(r).status = StatusOf("STARTED") /\ MarkSucceeded(r).status = StatusOf("SUCCEEDED")
        /\ MarkFailed(r).status = StatusOf("FAILED") /\ MarkCancelled(r).status = StatusOf("CANCELLED")
    BY MarksOf, EventNames
  <2>4. /\ MarkRunning(r).retries = r.retries /\ MarkSucceeded(r).retries = r.retries
        /\ MarkFailed(r).retries = r.retries /\ MarkCancelled(r).retries = r.retries
    BY MarksOf
  <2> QED BY <2>1, <2>2, <2>3, <2>4
\* A step that writes no record.
<1>5. ASSUME UNCHANGED <<mem, row, log>>, RunsKept
      PROVE  BookStep
  BY <1>0, <1>5 DEF BookStep, Quiet
\* A step that writes the record with an event.
<1>6. ASSUME NEW x \in Record, NEW ev \in TaskEventType, NEW out \in EmitOutcome,
             Emit(t, x, ev, out), x.status = StatusOf(ev), x.retries = row[t].retries,
             \/ ev = "STARTED" /\ row[t].status = "queued"
             \/ ev \in {"SUCCEEDED", "FAILED", "CANCELLED"} /\ row[t].status = "running"
      PROVE  /\ out = "ok" /\ row'[t] = x /\ \A u \in Tasks \ {t}: row'[u] = row[u]
             /\ RunsKept => BookStep
  <2>1. out = "ok" /\ Writes(t, x, ev)
    BY <1>6, EmitWrites
  <2>2. Allowed(t, x, ev)
    BY <1>6 DEF Allowed
  <2>3. row \in [Tasks -> Record \cup {NoRecord}]
    BY DEF TypeInv, TypeOK
  <2> QED BY <1>0, <2>1, <2>2, <2>3 DEF Writes, BookStep
<1>7. CASE EnterRecord(e)
  <2>1. PICK out \in EmitOutcome:
           Emit(t, MarkRunning(r), "STARTED", out) /\ Goto(e, IF out = "ok" THEN "started" ELSE "failing")
    BY <1>1, <1>4, <1>7 DEF EnterRecord
  <2>2. row[t].status = "queued" /\ ~exec[e].cancel /\ active' = [active EXCEPT ![t] = e]
    BY <1>2, <1>3, <1>7 DEF Matches, EnterRecord
  <2>3. /\ out = "ok" /\ row'[t].status = "running" /\ \A u \in Tasks \ {t}: row'[u] = row[u]
        /\ RunsKept => BookStep
    BY <1>x, <1>6, <2>1, <2>2, EventNames, EventTypes
  <2>4. RunsKept /\ \A u \in Tasks: TaskBook(u)'
    BY <1>m, <1>p, <2>1, <2>2, <2>3 DEF Done
  <2> QED BY <2>3, <2>4
<1>8. CASE NeverEntered(e)
  <2>1. /\ row[t].status = "queued" /\ active' = [active EXCEPT ![t] = e]
        /\ Goto(e, "cancelled") /\ UNCHANGED <<mem, row, log>>
    BY <1>2, <1>3, <1>8 DEF Matches, NeverEntered
  <2>2. RunsKept /\ \A u \in Tasks: TaskBook(u)'
    BY <1>m, <1>p, <2>1 DEF Done
  <2> QED BY <1>5, <2>1, <2>2
<1>9. CASE CallRunner(e)
  <2>1. PICK ok \in BOOLEAN: Fault(ok) /\ Goto(e, IF ok THEN "running" ELSE "failing")
    BY <1>9 DEF CallRunner
  <2>2. Goto(e, "running")
    BY <2>1, NoFault
  <2>3. /\ row[t].status = "running" /\ active' = [active EXCEPT ![t] = e]
        /\ UNCHANGED <<mem, row, log>>
    BY <1>2, <1>3, <1>9 DEF Matches, CallRunner
  <2>4. RunsKept /\ \A u \in Tasks: TaskBook(u)'
    BY <1>m, <1>p, <2>2, <2>3 DEF Done
  <2> QED BY <1>5, <2>3, <2>4
<1>10. CASE RunnerReturns(e)
  <2>1. PICK out \in EmitOutcome, success \in BOOLEAN:
           /\ IF success THEN Emit(t, MarkSucceeded(r), "SUCCEEDED", out)
                         ELSE Emit(t, MarkFailed(r), "FAILED", out)
           /\ Goto(e, IF out = "ok" THEN "ending" ELSE "failing")
    BY <1>1, <1>4, <1>10 DEF RunnerReturns
  <2>2. row[t].status = "running" /\ ~exec[e].cancel /\ active' = [active EXCEPT ![t] = e]
    BY <1>2, <1>3, <1>10 DEF Matches, RunnerReturns
  <2>3. /\ out = "ok" /\ row'[t].status \in {"succeeded", "failed"}
        /\ \A u \in Tasks \ {t}: row'[u] = row[u]
        /\ RunsKept => BookStep
    BY <1>x, <1>6, <2>1, <2>2, EventNames, EventTypes
  <2>4. RunsKept /\ \A u \in Tasks: TaskBook(u)'
    BY <1>m, <1>p, <2>1, <2>2, <2>3 DEF Done, TerminalStatus
  <2> QED BY <2>3, <2>4
<1>11. CASE RunnerRaises(e)
  <2>1. /\ row[t].status = "running" /\ active' = [active EXCEPT ![t] = e]
        /\ Goto(e, "failing") /\ UNCHANGED <<mem, row, log>>
    BY <1>2, <1>3, <1>11 DEF Matches, RunnerRaises
  <2>2. RunsKept /\ \A u \in Tasks: TaskBook(u)'
    BY <1>m, <1>p, <2>1 DEF Done
  <2> QED BY <1>5, <2>1, <2>2
<1>12. CASE RunnerIgnoresCancel(e)
  <2>1. /\ row[t].status = "running" /\ active' = [active EXCEPT ![t] = e]
        /\ GotoCaught(e, "running") /\ UNCHANGED <<mem, row, log>>
    BY <1>2, <1>3, <1>12 DEF Matches, RunnerIgnoresCancel
  <2>2. RunsKept /\ \A u \in Tasks: TaskBook(u)'
    BY <1>m, <1>p, <2>1 DEF Done
  <2> QED BY <1>5, <2>1, <2>2
<1>13. CASE EndRecord(e)
  <2>1. PICK ok \in BOOLEAN:
           Fault(ok) /\ IF ok THEN Leave(e, "returned") ELSE Goto(e, "failing") /\ UNCHANGED active
    BY <1>13 DEF EndRecord
  <2>2. Goto(e, "returned") /\ active' = [active EXCEPT ![t] = 0]
    BY <1>1, <2>1, NoFault DEF Leave
  <2>3. row[t].status \in TerminalStatus /\ UNCHANGED <<mem, row, log>>
    BY <1>2, <1>13 DEF Matches, EndRecord
  <2>4. RunsKept /\ \A u \in Tasks: TaskBook(u)'
    BY <1>m, <1>p, <2>2, <2>3 DEF Done, TerminalStatus
  <2> QED BY <1>5, <2>3, <2>4
<1>14. CASE CatchCancel(e)
  <2>1. PICK out \in EmitOutcome:
           /\ Emit(t, MarkCancelled(r), "CANCELLED", out)
           /\ out = "ok" => GotoCaught(e, "handling") /\ UNCHANGED active
    BY <1>1, <1>4, <1>14 DEF CatchCancel
  <2>2. row[t].status = "running"
    BY <1>2, <1>14 DEF Matches, CatchCancel
  <2>3. /\ out = "ok" /\ row'[t].status = "cancelled" /\ \A u \in Tasks \ {t}: row'[u] = row[u]
        /\ RunsKept => BookStep
    BY <1>x, <1>6, <2>1, <2>2, EventNames, EventTypes
  <2>4. RunsKept /\ \A u \in Tasks: TaskBook(u)'
    BY <1>3, <1>m, <1>p, <2>1, <2>2, <2>3 DEF Done, TerminalStatus
  <2> QED BY <2>3, <2>4
<1>15. CASE CatchException(e)
  <2>1. PICK out \in EmitOutcome:
           /\ Emit(t, MarkFailed(r), "FAILED", out)
           /\ out = "ok" => Goto(e, "handling") /\ UNCHANGED active
    BY <1>1, <1>4, <1>15 DEF CatchException
  <2>2. row[t].status = "running"
    BY <1>2, <1>15 DEF Matches, CatchException
  <2>3. /\ out = "ok" /\ row'[t].status = "failed" /\ \A u \in Tasks \ {t}: row'[u] = row[u]
        /\ RunsKept => BookStep
    BY <1>x, <1>6, <2>1, <2>2, EventNames, EventTypes
  <2>4. RunsKept /\ \A u \in Tasks: TaskBook(u)'
    BY <1>3, <1>m, <1>p, <2>1, <2>2, <2>3 DEF Done, TerminalStatus
  <2> QED BY <2>3, <2>4
<1>16. CASE LeaveHandler(e)
  <2>1. PICK pc \in Done: Leave(e, pc)
    BY <1>16 DEF LeaveHandler, Done
  <2>2. /\ Goto(e, pc) /\ active' = [active EXCEPT ![t] = 0]
        /\ row[t].status \in TerminalStatus /\ UNCHANGED <<mem, row, log>>
    BY <1>1, <1>2, <1>16, <2>1 DEF Leave, Matches, LeaveHandler
  <2>3. RunsKept /\ \A u \in Tasks: TaskBook(u)'
    BY <1>m, <1>p, <2>2 DEF Done, TerminalStatus
  <2> QED BY <1>5, <2>2, <2>3
<1> QED BY <1>7, <1>8, <1>9, <1>10, <1>11, <1>12, <1>13, <1>14, <1>15, <1>16 DEF ExecStep

\* While a caller runs, nobody else is in an event and no exception is under way.
LEMMA CallerAlone ==
    ASSUME ~HandlersSuspend, NEW c \in Callers, CallerTurn(c)
    PROVE  /\ \A e \in ExecIds: exec[e].pc \notin {"started", "ending", "handling", "failing"}
           /\ \A d \in Callers \ {c}: call[d].pc \notin {"queued", "retrying"}
BY DEF CallerTurn, Unwinding, EmittingExecs, EmittingCallers

\* A caller that writes nothing: it looks, waits, cancels or returns.
LEMMA BookLooks ==
    ASSUME ~HandlersSuspend, TypeInv, BookInv, NEW c \in Callers, CallerTurn(c),
           Quiet, UNCHANGED <<active, crashes>>,
           \A e \in ExecIds: exec'[e].task = exec[e].task /\ exec'[e].pc = exec[e].pc,
           \A d \in Callers \ {c}: call'[d] = call[d],
           call[c].pc \notin {"queued", "retrying"}, call'[c].pc \notin {"queued", "retrying"}
    PROVE  BookStep /\ \A u \in Tasks: TaskBook(u)'
<1>1. ASSUME NEW u \in Tasks
      PROVE  TaskBook(u)' /\ RunKept(u)
  <2>1. row'[u] = row[u] /\ active'[u] = active[u]
    BY DEF Quiet
  <2>2. \A e \in ExecIds: exec[e].pc \notin {"started", "ending"}
    BY CallerAlone
  <2>3. \A d \in Callers, pc \in {"queued", "retrying"}:
           (call'[d].pc = pc /\ call'[d].task = u) <=> (call[d].pc = pc /\ call[d].task = u)
    OBVIOUS
  <2>4. Untouched(u)
    BY <2>1, <2>2, <2>3 DEF Untouched
  <2> QED BY <2>4, BookFrame DEF BookInv
<1> QED BY <1>1 DEF BookStep, RunsKept, RunKept

\* A caller that writes a record with its event, of a task that nothing works on.
LEMMA BookWrites ==
    ASSUME ~HandlersSuspend, TypeInv, BookInv, NEW c \in Callers, CallerTurn(c),
           NEW t \in Tasks, NEW r \in Record, NEW ev \in TaskEventType,
           Writes(t, r, ev), Allowed(t, r, ev), UNCHANGED <<active, exec, crashes>>,
           \A e \in ExecIds: exec[e].task = t => ~Live(e),
           \A d \in Callers \ {c}: call'[d] = call[d],
           call[c].pc \in {"queued", "retrying"} => call[c].task = t,
           call'[c].pc \in {"queued", "retrying"} =>
              call'[c].task = t /\ call'[c].pc = r.status /\ active[t] = 0,
           active[t] # 0 => r.status = "cancelled",
           r.status # "running",
           r.status \in {"queued", "retrying"} => call'[c].pc = r.status /\ call'[c].task = t
    PROVE  BookStep /\ \A u \in Tasks: TaskBook(u)'
<1>0. row \in [Tasks -> Record \cup {NoRecord}]
  BY DEF TypeInv, TypeOK
<1>1. row'[t] = r /\ \A u \in Tasks \ {t}: row'[u] = row[u]
  BY <1>0 DEF Writes
<1>2. ASSUME NEW u \in Tasks \ {t}
      PROVE  TaskBook(u)' /\ RunKept(u)
  <2>1. \A d \in Callers, pc \in {"queued", "retrying"}:
           (call'[d].pc = pc /\ call'[d].task = u) <=> (call[d].pc = pc /\ call[d].task = u)
    <3>1. \A d \in Callers \ {c}: call'[d] = call[d]
      OBVIOUS
    <3> QED BY <1>2, <3>1
  <2>2. Untouched(u)
    BY <1>1, <1>2, <2>1 DEF Untouched
  <2> QED BY <2>2, BookFrame DEF BookInv
<1>3. ExecBook(t)'
  <2>1. \A e \in ExecIds: exec[e].task = t => Matches(e, row[t].status)'
    BY DEF Matches, Live, Done
  <2> QED BY <2>1 DEF ExecBook
<1>4. CallBook(t)'
  <2>1. \A d \in Callers \ {c}: call'[d].pc \notin {"queued", "retrying"}
    BY CallerAlone
  <2> QED BY <1>1, <2>1 DEF CallBook
<1>5. StaleBook(t)'
  BY <1>1 DEF StaleBook
<1>6. OwnerBook(t)'
  BY <1>1 DEF OwnerBook
<1>7. TaskBook(t)' /\ RunKept(t)
  BY <1>1, <1>3, <1>4, <1>5, <1>6 DEF TaskBook, RunKept
<1>8. RunsKept /\ \A u \in Tasks: TaskBook(u)'
  BY <1>2, <1>7 DEF RunsKept, RunKept
<1> QED BY <1>8 DEF BookStep

\* A task without an entry has no live execution.
LEMMA FreeTask ==
    ASSUME TypeInv, TrackInv, NEW t \in Tasks, active[t] = 0 \/ ~IsRunning(t)
    PROVE  \A e \in ExecIds: exec[e].task = t => ~Live(e)
<1> SUFFICES ASSUME NEW e \in ExecIds, exec[e].task = t, Live(e) PROVE FALSE
  OBVIOUS
<1>1. active[t] = e /\ e # 0
  BY DEF TrackInv, LiveIsTracked
<1> QED BY <1>1 DEF IsRunning, IsDone, Live

\* Launch: the task is queued, and nothing but its caller works on it.
LEMMA BookLaunch ==
    ASSUME MaxFaults = 0, ~HandlersSuspend, TypeInv, TrackInv, BookInv,
           NEW c \in Callers, Launch(c)
    PROVE  BookStep /\ \A u \in Tasks: TaskBook(u)'
<1>0. /\ exec \in [ExecIds -> Execution] /\ active \in [Tasks -> 0..MaxExecutions]
      /\ call \in [Callers -> Caller] /\ CallerTurn(c)
  BY DEF TypeInv, TypeOK, Launch
<1>1. PICK t \in Tasks: t = call[c].task /\ active[t] = 0 /\ call[c].pc = "queued"
  BY DEF Launch, TypeInv, TasksLoaded, TrackInv, QueuedIsFree
<1>2. row[t].status = "queued"
  BY <1>1 DEF BookInv, TaskBook, CallBook
<1>3. ~Fault(FALSE)
  BY NoFault
<1>4. PICK e \in ExecIds:
         /\ exec[e].pc = "unused"
         /\ exec' = [exec EXCEPT ![e] = [NoExec EXCEPT !.task = t, !.pc = "created"]]
         /\ active' = [active EXCEPT ![t] = e]
         /\ call' = [call EXCEPT ![c].pc = "sleep", ![c].exec = e]
  BY <1>1, <1>3 DEF Launch
<1>5. UNCHANGED <<mem, row, log, crashes>>
  BY DEF Launch
<1>6. /\ exec'[e].task = t /\ exec'[e].pc = "created" /\ \A d \in ExecIds \ {e}: exec'[d] = exec[d]
      /\ active'[t] = e /\ e # 0 /\ \A u \in Tasks \ {t}: active'[u] = active[u]
  BY <1>0, <1>4 DEF NoExec
<1>7. /\ call'[c].pc = "sleep" /\ call'[c].task = t /\ \A d \in Callers \ {c}: call'[d] = call[d]
  BY <1>0, <1>1, <1>4 DEF Caller
<1>8. \A d \in Callers: call'[d].pc \notin {"queued", "retrying"}
  BY <1>0, <1>7, CallerAlone
<1>9. ASSUME NEW u \in Tasks \ {t}
      PROVE  TaskBook(u)' /\ RunKept(u)
  <2>2. ExecBook(u)'
    <3>1. ASSUME NEW d \in ExecIds, exec'[d].task = u
          PROVE  Matches(d, row[u].status)'
      <4>1. d # e /\ exec'[d] = exec[d]
        BY <1>6, <3>1
      <4>2. Matches(d, row[u].status)
        BY <3>1, <4>1 DEF BookInv, TaskBook, ExecBook
      <4> QED BY <1>5, <4>1, <4>2 DEF Matches
    <3> QED BY <3>1 DEF ExecBook
  <2>3. CallBook(u)'
    BY <1>8 DEF CallBook
  <2>4. active[u] # 0 => active[u] \in ExecIds /\ active[u] # e
    BY <1>0, <1>4 DEF TypeInv, TasksLoaded
  <2>5. active'[u] = active[u] /\ (active[u] # 0 => IsDone(active[u])' = IsDone(active[u]))
    BY <1>6, <2>4 DEF IsDone
  <2>6. StaleBook(u) /\ OwnerBook(u)
    BY DEF BookInv, TaskBook
  <2>7. StaleBook(u)'
    BY <1>5, <2>5, <2>6 DEF StaleBook
  <2>8. IsRunning(u)' = IsRunning(u)
    BY <2>5 DEF IsRunning
  <2>9. OwnerBook(u)'
    <3>1. ASSUME NEW d \in Callers, call[d].pc \in {"queued", "retrying"}
          PROVE  d = c /\ call[d].task = t
      BY <1>0, <1>1, <3>1, CallerAlone
    <3> QED BY <1>5, <1>9, <2>5, <2>6, <2>8, <3>1 DEF OwnerBook
  <2> QED BY <1>5, <2>2, <2>3, <2>7, <2>8, <2>9 DEF TaskBook, RunKept
<1>10. TaskBook(t)' /\ RunKept(t)
  <2>1. ExecBook(t)'
    <3>1. ASSUME NEW d \in ExecIds, exec'[d].task = t
          PROVE  Matches(d, row[t].status)'
      <4>1. CASE d = e
        BY <1>2, <1>5, <1>6, <4>1 DEF Matches
      <4>2. CASE d # e
        <5>1. exec'[d] = exec[d] /\ ~Live(d)
          BY <1>1, <1>6, <3>1, <4>2, FreeTask
        <5> QED BY <5>1 DEF Matches, Live, Done
      <4> QED BY <4>1, <4>2
    <3> QED BY <3>1 DEF ExecBook
  <2>2. CallBook(t)'
    BY <1>8 DEF CallBook
  <2>3. IsRunning(t)'
    BY <1>6 DEF IsRunning, IsDone, Done
  <2>4. StaleBook(t)'
    BY <2>3 DEF StaleBook, IsRunning
  <2>5. OwnerBook(t)'
    BY <1>2, <1>5, <1>6 DEF OwnerBook
  <2> QED BY <2>1, <2>2, <2>3, <2>4, <2>5 DEF TaskBook, RunKept
<1>11. RunsKept /\ \A u \in Tasks: TaskBook(u)'
  BY <1>9, <1>10 DEF RunsKept, RunKept
<1> QED BY <1>5, <1>11 DEF BookStep, Quiet

\* Waiting, waking up and returning.
LEMMA BookWaits ==
    ASSUME MaxFaults = 0, ~HandlersSuspend, TypeInv, TrackInv, BookInv, NEW c \in Callers,
           \/ Awake(c) \/ Timeout(c) \/ WaitReturns(c) \/ WaitRaises(c)
           \/ \E t \in Tasks: CancelAllNext(c, t)
    PROVE  BookStep /\ \A u \in Tasks: TaskBook(u)'
<1>0. /\ UNCHANGED <<active, log, crashes>> /\ call \in [Callers -> Caller] /\ CallerTurn(c)
      /\ call[c].pc \notin {"queued", "retrying", "idle"} /\ RowsCurrent
  BY DEF Awake, Timeout, WaitReturns, WaitRaises, CancelAllNext, TypeInv, TypeOK, BookInv, StoryInv
<1>1. \A d \in ExecIds: exec'[d].task = exec[d].task /\ exec'[d].pc = exec[d].pc
  <2>1. UNCHANGED exec \/ \E n: exec' = [exec EXCEPT ![n] = Cancelled(@)]
    BY DEF Awake, Timeout, WaitReturns, WaitRaises, CancelAllNext
  <2> QED BY <2>1, CancelSame
<1>2. UNCHANGED <<mem, row>>
  <2>1. \/ UNCHANGED <<mem, row>>
        \/ /\ call[c].pc # "all"
           /\ \E ok \in BOOLEAN: Persist(call[c].task, mem[call[c].task], ok)
    BY DEF Awake, Timeout, WaitReturns, WaitRaises, CancelAllNext
  <2>2. call[c].pc # "all" => call[c].task \in Tasks /\ InMemory(call[c].task)
    BY <1>0, BusyCaller
  <2> QED BY <1>0, <2>1, <2>2, PersistAgain
<1>3. /\ \A d \in Callers \ {c}: call'[d] = call[d]
      /\ call'[c].pc \notin {"queued", "retrying"}
  <2>1. CASE Awake(c)
    <3>1. Return(c) \/ call' = [call EXCEPT ![c].pc = "waiting"]
      BY <2>1 DEF Awake
    <3> QED BY <1>0, <3>1 DEF Return, Idle, Caller
  <2>2. CASE Timeout(c)
    <3>1. call[c].pc = "waiting" /\ call' = [call EXCEPT ![c].timed = FALSE, ![c].expired = TRUE]
      BY <2>2 DEF Timeout
    <3> QED BY <1>0, <3>1 DEF Caller
  <2>3. CASE WaitReturns(c) \/ WaitRaises(c)
    <3> DEFINE more == [Idle EXCEPT !.pc = "all", !.rest = call[c].rest]
    <3>1. Return(c) \/ call' = [call EXCEPT ![c] = more]
      BY <2>3 DEF WaitReturns, WaitRaises, NextWait, Return
    <3>2. more.pc = "all" /\ Idle.pc = "idle"
      BY DEF Idle
    <3> HIDE DEF more
    <3> QED BY <1>0, <3>1, <3>2 DEF Return
  <2>4. ASSUME NEW t \in Tasks, CancelAllNext(c, t)
        PROVE  (\A d \in Callers \ {c}: call'[d] = call[d]) /\ call'[c].pc \notin {"queued", "retrying"}
    <3> DEFINE left == [Idle EXCEPT !.rest = call[c].rest \ {t}]
               run == [left EXCEPT !.pc = "waiting", !.op = "all", !.task = t, !.exec = active[t]]
               more == [left EXCEPT !.pc = "all"]
    <3>1. \/ call' = [call EXCEPT ![c] = run] \/ call' = [call EXCEPT ![c] = more]
          \/ Return(c)
      BY <2>4 DEF CancelAllNext, Return
    <3>2. run.pc = "waiting" /\ more.pc = "all" /\ Idle.pc = "idle"
      BY DEF Idle
    <3> HIDE DEF run, more
    <3> QED BY <1>0, <3>1, <3>2 DEF Return
  <2> QED BY <2>1, <2>2, <2>3, <2>4
<1>4. Quiet
  BY <1>0, <1>2 DEF Quiet
<1> QED BY <1>0, <1>1, <1>3, <1>4, BookLooks

\* wait_task, cancel_all, get_task, and cancel_task of a task that runs or is over.
LEMMA BookRequests ==
    ASSUME MaxFaults = 0, ~HandlersSuspend, TypeInv, TrackInv, BookInv,
           NEW c \in Callers, NEW t \in Tasks, NEW b \in BOOLEAN,
           \/ GetTask(c, t) \/ WaitTask(c, t, b) \/ CancelAll(c, b)
           \/ CancelTask(c, t, b) /\ (IsRunning(t) \/ IsTerminal(Loaded(t)))
    PROVE  BookStep /\ \A u \in Tasks: TaskBook(u)'
<1>0. /\ UNCHANGED <<active, log, crashes>> /\ call \in [Callers -> Caller] /\ CallerTurn(c)
      /\ call[c].pc = "idle" /\ RowsCurrent /\ exec \in [ExecIds -> Execution]
  BY DEF GetTask, WaitTask, CancelAll, CancelTask, Free, TypeInv, TypeOK, BookInv, StoryInv
<1>1. \A d \in ExecIds: exec'[d].task = exec[d].task /\ exec'[d].pc = exec[d].pc
  <2>1. CASE UNCHANGED exec
    BY <2>1
  <2>2. CASE exec' = [exec EXCEPT ![active[t]] = Cancelled(@)]
    BY <2>2, CancelSame
  <2>3. CASE CancelAll(c, b)
    <3>1. \A d \in ExecIds: exec'[d] \in {exec[d], Cancelled(exec[d])}
      BY <2>3 DEF CancelAll
    <3>2. \A d \in ExecIds: /\ Cancelled(exec[d]).task = exec[d].task
                           /\ Cancelled(exec[d]).pc = exec[d].pc
      BY <1>0 DEF Cancelled, Execution
    <3> QED BY <3>1, <3>2
  <2> QED BY <2>1, <2>2, <2>3 DEF GetTask, CancelTask, WaitTask
<1>2. Quiet
  <2>1. CASE UNCHANGED <<mem, row>>
    BY <1>0, <2>1 DEF Quiet
  <2>2. CASE Known(t) /\ Load(t) /\ UNCHANGED row
    BY <1>0, <2>2, LoadIsQuiet
  <2>3. CASE IsRunning(t) /\ \E ok \in BOOLEAN: Persist(t, mem[t], ok)
    <3>1. InMemory(t)
      BY <2>3, RunningLoaded
    <3> QED BY <1>0, <2>1, <2>3, <3>1, PersistAgain
  <2> QED BY <2>1, <2>2, <2>3 DEF GetTask, WaitTask, CancelAll, CancelTask
<1>3. /\ \A d \in Callers \ {c}: call'[d] = call[d]
      /\ call'[c].pc \notin {"queued", "retrying"}
  <2>1. CASE UNCHANGED call
    BY <1>0, <2>1
  <2>2. CASE WaitTask(c, t, b)
    BY <1>0, <2>2 DEF WaitTask, Idle
  <2>3. CASE CancelTask(c, t, b) /\ ~ UNCHANGED call
    <3>1. call' = [call EXCEPT ![c] = [Idle EXCEPT !.pc = "waiting", !.op = "cancel", !.task = t,
                                                  !.exec = active[t]]]
      BY <2>3 DEF CancelTask
    <3> QED BY <1>0, <3>1 DEF Idle
  <2>4. CASE CancelAll(c, b) /\ ~ UNCHANGED call
    <3>1. PICK S: call' = [call EXCEPT ![c] = [Idle EXCEPT !.pc = "all", !.rest = S]]
      BY <2>4 DEF CancelAll
    <3> QED BY <1>0, <3>1 DEF Idle
  <2> QED BY <2>1, <2>2, <2>3, <2>4 DEF GetTask
<1> QED BY <1>0, <1>1, <1>2, <1>3, BookLooks

LEMMA BookCreate ==
    ASSUME MaxFaults = 0, ~HandlersSuspend, TypeInv, TrackInv, BookInv,
           NEW c \in Callers, NEW t \in Tasks, NEW b \in BOOLEAN, CreateTask(c, t, b)
    PROVE  BookStep /\ \A u \in Tasks: TaskBook(u)'
<1>0. /\ UNCHANGED <<active, exec, call, crashes>> /\ CallerTurn(c) /\ call[c].pc = "idle"
      /\ RowsCurrent /\ ~Known(t)
  BY DEF CreateTask, Free, BookInv, StoryInv
<1>1. PICK out \in EmitOutcome: Emit(t, NewRecord, "CREATED", out)
  BY DEF CreateTask
<1>2. NewRecord \in Record /\ NewRecord.status = "pending" /\ NewRecord.retries = 0
  BY MaxRetriesIsNat DEF MaxRetriesIsNat, NewRecord, Record, TaskStatus
<1>3. Writes(t, NewRecord, "CREATED") /\ "CREATED" \in TaskEventType
  BY <1>1, EmitWrites, EventTypes
<1>4. row[t].status = "absent" /\ ~InMemory(t)
  BY <1>0, Rows DEF Known
<1>5. Allowed(t, NewRecord, "CREATED")
  BY <1>2, <1>4, EventNames DEF Allowed
<1>6. active[t] = 0
  <2>1. active[t] # 0 => active[t] \in ExecIds
    BY TaskManagerAssumption DEF TaskManagerAssumption, TypeInv, TypeOK
  <2> QED BY <1>4, <2>1 DEF TypeInv, TasksLoaded
<1>7. \A e \in ExecIds: exec[e].task = t => ~Live(e)
  BY <1>6, FreeTask
<1>8. PICK r \in Record: r = NewRecord
  BY <1>2
<1> QED BY <1>0, <1>2, <1>3, <1>5, <1>6, <1>7, <1>8, BookWrites

\* While a caller is about to enter a method, a task without an entry is not in
\* the middle of an attempt, unless a crash left it there.
LEMMA FreeRow ==
    ASSUME ~HandlersSuspend, TypeInv, TrackInv, BookInv, NEW c \in Callers,
           CallerTurn(c), call[c].pc = "idle", NEW t \in Tasks
    PROVE  /\ ~IsRunning(t) /\ crashes = 0 => row[t].status \notin {"running", "retrying"}
           /\ active[t] = 0 /\ crashes = 0 => row[t].status # "queued"
           /\ row[t].status = "failed" => active[t] = 0
<1>1. \A d \in Callers: call[d].pc \notin {"queued", "retrying"}
  BY CallerAlone
<1>2. TaskBook(t)
  BY DEF BookInv
<1>3. /\ ~IsRunning(t) /\ crashes = 0 => row[t].status \notin {"running", "retrying"}
      /\ active[t] = 0 /\ crashes = 0 => row[t].status # "queued"
  BY <1>1, <1>2 DEF TaskBook, OwnerBook
<1>4. ASSUME row[t].status = "failed", active[t] # 0
      PROVE  FALSE
  <2>1. active[t] \in ExecIds /\ exec[active[t]].task = t /\ exec[active[t]].pc \in ExecPc \ {"unused"}
    BY <1>4, TaskManagerAssumption DEF TaskManagerAssumption, TypeInv, TypeOK, TasksLoaded, Execution
  <2>2. ~IsDone(active[t])
    BY <1>2, <1>4 DEF TaskBook, StaleBook
  <2>3. Matches(active[t], "failed")
    BY <1>2, <1>4, <2>1 DEF TaskBook, ExecBook
  <2>4. exec[active[t]].pc \notin {"started", "ending", "handling", "failing"}
    BY <2>1, CallerAlone
  <2> QED BY <2>1, <2>2, <2>3, <2>4 DEF Matches, IsDone, Done, ExecPc
<1> QED BY <1>3, <1>4

\* cancel_task of a task that neither runs nor is over.
LEMMA BookCancel ==
    ASSUME MaxFaults = 0, ~HandlersSuspend, TypeInv, TrackInv, BookInv,
           NEW c \in Callers, NEW t \in Tasks, NEW b \in BOOLEAN, CancelTask(c, t, b),
           ~IsRunning(t), ~IsTerminal(Loaded(t))
    PROVE  BookStep /\ \A u \in Tasks: TaskBook(u)'
<1>0. /\ UNCHANGED <<active, exec, call, crashes>> /\ CallerTurn(c) /\ call[c].pc = "idle"
      /\ RowsCurrent /\ Known(t)
  BY DEF CancelTask, Free, BookInv, StoryInv
<1>1. Loaded(t) = row[t] /\ row[t] \in Record
  BY <1>0, Rows
<1>2. PICK r \in Record: r = MarkCancelled(row[t])
  BY <1>1, RecordOps
<1>3. r.status = "cancelled" /\ r.retries = row[t].retries
  BY <1>1, <1>2, MarksOf
<1>4. PICK out \in EmitOutcome: Emit(t, r, "CANCELLED", out)
  BY <1>1, <1>2 DEF CancelTask
<1>5. Writes(t, r, "CANCELLED") /\ "CANCELLED" \in TaskEventType
  BY <1>4, EmitWrites, EventTypes
<1>6. row[t].status \in Unfinished
  BY <1>1 DEF Record, TaskStatus, Unfinished, IsTerminal, TerminalStatus
<1>7. Allowed(t, r, "CANCELLED")
  BY <1>0, <1>3, <1>6, FreeRow, EventNames DEF Allowed, Unfinished
<1>8. \A e \in ExecIds: exec[e].task = t => ~Live(e)
  BY FreeTask
<1> QED BY <1>0, <1>3, <1>5, <1>7, <1>8, BookWrites

\* start_task and retry_task up to their first event.
LEMMA BookBegin ==
    ASSUME MaxFaults = 0, ~HandlersSuspend, TypeInv, TrackInv, BookInv,
           NEW c \in Callers, NEW t \in Tasks, NEW r \in BOOLEAN,
           NEW w \in BOOLEAN, NEW timed \in BOOLEAN,
           StartTask(c, t, r, w, timed) \/ RetryTask(c, t, r, w, timed)
    PROVE  BookStep /\ \A u \in Tasks: TaskBook(u)'
<1>0. /\ UNCHANGED <<active, exec, crashes>> /\ CallerTurn(c) /\ call[c].pc = "idle"
      /\ RowsCurrent /\ Known(t) /\ call \in [Callers -> Caller]
  BY DEF StartTask, RetryTask, Free, BookInv, StoryInv, TypeInv, TypeOK
<1>1. Loaded(t) = row[t] /\ row[t] \in Record
  BY <1>0, Rows
<1> DEFINE start == [Idle EXCEPT !.pc = "queued", !.op = "start", !.task = t,
                                 !.wait = w, !.timed = timed]
           retry == [Idle EXCEPT !.pc = "retrying", !.op = "retry", !.task = t,
                                 !.wait = w, !.timed = timed]
<1>2. start.pc = "queued" /\ start.task = t /\ retry.pc = "retrying" /\ retry.task = t
  BY DEF Idle
<1> HIDE DEF start, retry
<1>3. CASE Load(t) /\ UNCHANGED <<row, log, call>>
  BY <1>0, <1>3, LoadIsQuiet, BookLooks
\* The caller is suspended in the event, x says where.
<1>4. ASSUME NEW x, x.task = t, call' = [call EXCEPT ![c] = x], NEW q \in Record,
             NEW ev \in TaskEventType, Writes(t, q, ev), Allowed(t, q, ev),
             x.pc \in {"queued", "retrying"}, q.status = x.pc, active[t] = 0
      PROVE  BookStep /\ \A u \in Tasks: TaskBook(u)'
  <2>1. call'[c] = x /\ \A d \in Callers \ {c}: call'[d] = call[d]
    BY <1>0, <1>4
  <2>2. \A e \in ExecIds: exec[e].task = t => ~Live(e)
    BY <1>4, FreeTask
  <2> QED BY <1>0, <1>4, <2>1, <2>2, BookWrites
<1>5. CASE StartTask(c, t, r, w, timed) /\ MayStart(t, row[t]) /\ ~(Load(t) /\ UNCHANGED <<row, log, call>>)
  <2>1. PICK q \in Record: q = MarkQueued(row[t])
    BY <1>1, RecordOps
  <2>2. q.status = "queued" /\ q.retries = row[t].retries
    BY <1>1, <2>1, MarksOf
  <2>3. PICK out \in EmitOutcome:
           /\ Emit(t, q, "QUEUED", out)
           /\ out = "ok" => call' = [call EXCEPT ![c] = start]
    BY <1>1, <1>5, <2>1 DEF StartTask, start
  <2>4. Writes(t, q, "QUEUED") /\ "QUEUED" \in TaskEventType /\ call' = [call EXCEPT ![c] = start]
    BY <2>3, EmitWrites, EventTypes
  <2>5. active[t] = 0 /\ ~IsRunning(t) /\ row[t].status \in Unfinished
    BY <1>1, <1>5 DEF MayStart, IsRunning, Record, TaskStatus, Unfinished, IsTerminal, TerminalStatus
  <2>6. ~Spent(t) /\ (crashes = 0 => row[t].status \in {"pending", "retrying"})
    <3>1. row[t].status \notin TerminalStatus
      BY <2>5 DEF Unfinished, TerminalStatus
    <3>2. crashes = 0 => row[t].status \notin {"running", "queued"}
      BY <1>0, <2>5, FreeRow
    <3> QED BY <2>5, <3>1, <3>2 DEF Spent, Unfinished
  <2>7. Allowed(t, q, "QUEUED")
    BY <2>2, <2>5, <2>6, EventNames DEF Allowed
  <2> QED BY <1>2, <1>4, <2>2, <2>4, <2>5, <2>7
<1>6. CASE RetryTask(c, t, r, w, timed) /\ CanRetry(row[t]) /\ ~(Load(t) /\ UNCHANGED <<row, log, call>>)
  <2>1. PICK q \in Record: q = MarkRetrying(row[t])
    BY <1>1, <1>6, RecordOps
  <2>2. q.status = "retrying" /\ q.retries = row[t].retries + 1
    BY <1>1, <2>1, MarksOf
  <2>3. PICK out \in EmitOutcome:
           /\ Emit(t, q, "RETRYING", out)
           /\ out = "ok" => call' = [call EXCEPT ![c] = retry]
    BY <1>1, <1>6, <2>1 DEF RetryTask, retry
  <2>4. Writes(t, q, "RETRYING") /\ "RETRYING" \in TaskEventType /\ call' = [call EXCEPT ![c] = retry]
    BY <2>3, EmitWrites, EventTypes
  <2>5. row[t].status = "failed" /\ row[t].retries < MaxRetries /\ active[t] = 0
    BY <1>0, <1>6, FreeRow DEF CanRetry
  <2>6. Allowed(t, q, "RETRYING")
    BY <2>2, <2>5, EventNames DEF Allowed
  <2> QED BY <1>2, <1>4, <2>2, <2>4, <2>5, <2>6
<1> QED BY <1>1, <1>3, <1>5, <1>6 DEF StartTask, RetryTask

\* retry_task from its RETRYING event to its QUEUED event.
LEMMA BookPrepareAttempt ==
    ASSUME MaxFaults = 0, ~HandlersSuspend, TypeInv, TrackInv, BookInv,
           NEW c \in Callers, PrepareAttempt(c)
    PROVE  BookStep /\ \A u \in Tasks: TaskBook(u)'
<1>0. /\ UNCHANGED <<active, exec, crashes>> /\ CallerTurn(c) /\ call[c].pc = "retrying"
      /\ RowsCurrent /\ call \in [Callers -> Caller] /\ ~Fault(FALSE)
  BY NoFault DEF PrepareAttempt, BookInv, StoryInv, TypeInv, TypeOK
<1>1. PICK t \in Tasks: t = call[c].task /\ InMemory(t) /\ mem[t] = row[t] /\ row[t] \in Record
  BY <1>0, BusyCaller, Rows
<1>2. row[t].status = "retrying" /\ active[t] = 0
  BY <1>0, <1>1 DEF BookInv, TaskBook, CallBook
<1>3. PICK p \in Record: p = PrepareNextAttempt(mem[t])
  BY <1>1, RecordOps
<1>4. p.status = "queued" /\ p.retries = row[t].retries
  BY <1>1, <1>3, MarksOf
<1>5. PICK q \in Record: q = MarkQueued(p)
  BY RecordOps
<1>6. q.status = "queued" /\ q.retries = row[t].retries
  BY <1>4, <1>5, MarksOf
<1>7. MayStart(t, p)
  BY <1>2, <1>4 DEF MayStart, IsTerminal, TerminalStatus
<1>8. PICK out \in EmitOutcome:
         /\ Emit(t, q, "QUEUED", out)
         /\ out = "ok" => call' = [call EXCEPT ![c].pc = "queued"]
  BY <1>0, <1>1, <1>3, <1>5, <1>7 DEF PrepareAttempt
<1>9. Writes(t, q, "QUEUED") /\ "QUEUED" \in TaskEventType /\ call' = [call EXCEPT ![c].pc = "queued"]
  BY <1>8, EmitWrites, EventTypes
<1>10. Allowed(t, q, "QUEUED")
  BY <1>2, <1>6, EventNames DEF Allowed, Unfinished, Spent, TerminalStatus
<1>11. call'[c].pc = "queued" /\ call'[c].task = t /\ \A d \in Callers \ {c}: call'[d] = call[d]
  BY <1>0, <1>1, <1>9 DEF Caller
<1>12. \A e \in ExecIds: exec[e].task = t => ~Live(e)
  BY <1>2, FreeTask
<1> QED BY <1>0, <1>1, <1>2, <1>6, <1>9, <1>10, <1>11, <1>12, BookWrites

LEMMA BookCrash ==
    ASSUME TypeInv, Crash
    PROVE  \A u \in Tasks: TaskBook(u)'
<1>1. crashes' # 0
  BY TaskManagerAssumption DEF TaskManagerAssumption, TypeInv, TypeOK, Crash
<1>2. /\ \A e \in ExecIds: exec'[e].pc = "unused" /\ exec'[e].cancel = FALSE
      /\ \A c \in Callers: call'[c].pc = "idle"
      /\ \A u \in Tasks: active'[u] = 0
  BY DEF Crash, NoExec, Idle
<1>3. SUFFICES ASSUME NEW u \in Tasks PROVE TaskBook(u)'
  OBVIOUS
<1>4. ExecBook(u)'
  BY <1>2 DEF ExecBook, Matches
<1>5. CallBook(u)' /\ StaleBook(u)' /\ OwnerBook(u)'
  BY <1>1, <1>2 DEF CallBook, StaleBook, OwnerBook
<1> QED BY <1>4, <1>5 DEF TaskBook

-----------------------------------------------------------------------------
(***************************************************************************)
(* The books are kept.                                                     *)
(***************************************************************************)
LEMMA BookInit == Init => BookInv
<1> SUFFICES ASSUME Init PROVE BookInv
  OBVIOUS
<1>1. /\ \A t \in Tasks: /\ row[t] = NoRecord /\ mem[t] = NoRecord /\ log[t] = << >>
                         /\ active[t] = 0
      /\ \A e \in ExecIds: exec[e].pc = "unused" /\ exec[e].cancel = FALSE
      /\ \A c \in Callers: call[c].pc = "idle"
      /\ NoRecord.status = "absent"
  BY DEF Init, NoExec, Idle, NoRecord
<1>2. RowsCurrent /\ LogStory /\ AttemptBook
  BY <1>1 DEF RowsCurrent, LogStory, AttemptBook, InMemory
<1>3. LogLegal
  <2>1. Len(<< >>) = 0
    OBVIOUS
  <2> QED BY <1>1, <2>1 DEF LogLegal
<1>4. ASSUME NEW t \in Tasks PROVE TaskBook(t)
  <2>1. ExecBook(t)
    BY <1>1 DEF ExecBook, Matches
  <2>2. CallBook(t) /\ StaleBook(t) /\ OwnerBook(t)
    BY <1>1 DEF CallBook, StaleBook, OwnerBook
  <2> QED BY <2>1, <2>2 DEF TaskBook
<1> QED BY <1>2, <1>3, <1>4 DEF BookInv, StoryInv

\* Every step is one that the books allow.
LEMMA BookNext ==
    ASSUME MaxFaults = 0, ~HandlersSuspend, TypeInv, TrackInv, BookInv, Next
    PROVE  (BookStep \/ Crash) /\ \A u \in Tasks: TaskBook(u)'
<1>1. ASSUME NEW e \in ExecIds, ExecStep(e)
      PROVE  BookStep /\ \A u \in Tasks: TaskBook(u)'
  BY <1>1, BookExec
<1>2. ASSUME NEW c \in Callers, CallerStep(c)
      PROVE  BookStep /\ \A u \in Tasks: TaskBook(u)'
  <2>1. CASE Launch(c)
    BY <2>1, BookLaunch
  <2>2. CASE PrepareAttempt(c)
    BY <2>2, BookPrepareAttempt
  <2>3. CASE \/ Awake(c) \/ Timeout(c) \/ WaitReturns(c) \/ WaitRaises(c)
             \/ \E t \in Tasks: CancelAllNext(c, t)
    BY <2>3, BookWaits
  <2> QED BY <1>2, <2>1, <2>2, <2>3 DEF CallerStep
<1>3. ASSUME NEW c \in Callers, Request(c)
      PROVE  BookStep /\ \A u \in Tasks: TaskBook(u)'
  <2>1. PICK t \in Tasks:
           \/ GetTask(c, t)
           \/ \E b \in BOOLEAN: \/ CreateTask(c, t, b) \/ CancelTask(c, t, b)
                                \/ CancelAll(c, b) \/ WaitTask(c, t, b)
           \/ \E r, w, timed \in BOOLEAN: \/ StartTask(c, t, r, w, timed)
                                          \/ RetryTask(c, t, r, w, timed)
    BY <1>3 DEF Request
  <2>2. ASSUME NEW b \in BOOLEAN, CreateTask(c, t, b)
        PROVE  BookStep /\ \A u \in Tasks: TaskBook(u)'
    BY <2>2, BookCreate
  <2>3. ASSUME NEW b \in BOOLEAN, CancelTask(c, t, b)
        PROVE  BookStep /\ \A u \in Tasks: TaskBook(u)'
    BY <2>3, BookCancel, BookRequests
  <2>4. ASSUME NEW b \in BOOLEAN, GetTask(c, t) \/ CancelAll(c, b) \/ WaitTask(c, t, b)
        PROVE  BookStep /\ \A u \in Tasks: TaskBook(u)'
    BY <2>4, BookRequests
  <2>5. ASSUME NEW r \in BOOLEAN, NEW w \in BOOLEAN, NEW timed \in BOOLEAN,
               StartTask(c, t, r, w, timed) \/ RetryTask(c, t, r, w, timed)
        PROVE  BookStep /\ \A u \in Tasks: TaskBook(u)'
    BY <2>5, BookBegin
  <2>6. TRUE \in BOOLEAN
    OBVIOUS
  <2> QED BY <2>1, <2>2, <2>3, <2>4, <2>5, <2>6
<1>4. CASE Crash
  BY <1>4, BookCrash
<1> QED BY <1>1, <1>2, <1>3, <1>4 DEF Next

LEMMA BookKept ==
    ASSUME MaxFaults = 0, ~HandlersSuspend
    PROVE  TypeInv /\ TrackInv /\ BookInv /\ [Next]_vars => BookInv'
<1> SUFFICES ASSUME TypeInv, TrackInv, BookInv, [Next]_vars PROVE BookInv'
  OBVIOUS
<1>1. CASE Next
  <2>1. (BookStep \/ Crash) /\ \A u \in Tasks: TaskBook(u)'
    BY <1>1, BookNext
  <2>2. StoryInv
    BY DEF BookInv
  <2>3. CASE Crash
    BY <2>1, <2>2, <2>3, StoryCrash DEF BookInv
  <2>4. CASE BookStep
    <3>1. UNCHANGED crashes /\ RunsKept
      BY <2>4 DEF BookStep
    <3>2. CASE Quiet
      BY <2>1, <2>2, <3>1, <3>2, StoryQuiet DEF BookInv
    <3>3. CASE \E t \in Tasks, r \in Record, ev \in TaskEventType:
                  Writes(t, r, ev) /\ Allowed(t, r, ev)
      <4>1. StoryInv'
        BY <2>2, <3>1, <3>3, StoryWrites
      <4> QED BY <2>1, <4>1 DEF BookInv
    <3> QED BY <2>4, <3>2, <3>3 DEF BookStep
  <2> QED BY <2>1, <2>3, <2>4
<1>2. CASE UNCHANGED vars
  <2>1. UNCHANGED <<mem, row, log, active, exec, call, crashes>>
    BY <1>2 DEF vars
  <2>2. StoryInv'
    BY <2>1 DEF BookInv, StoryInv, RowsCurrent, InMemory, LogStory, LogLegal, AttemptBook,
                Attempts, Spent, IsRunning, IsDone
  <2>3. ASSUME NEW t \in Tasks PROVE TaskBook(t)'
    BY <2>1 DEF BookInv, TaskBook, ExecBook, Matches, CallBook, StaleBook, OwnerBook,
                IsRunning, IsDone
  <2> QED BY <2>2, <2>3 DEF BookInv
<1> QED BY <1>1, <1>2

LEMMA BookAlways == MaxFaults = 0 /\ ~HandlersSuspend => (Spec => []BookInv)
<1> SUFFICES ASSUME MaxFaults = 0, ~HandlersSuspend PROVE Spec => []BookInv
  OBVIOUS
<1>1. Spec => []TypeInv
  BY TypeCorrect DEF TypeInv
<1>2. Spec => []TrackInv
  BY TrackAlways
<1> QED BY <1>1, <1>2, BookInit, BookKept, PTL DEF Spec

-----------------------------------------------------------------------------
\* What is on disk tells the story of every task: its row is the record in
\* memory, its log ends with the event of that status, is a log a task can have,
\* and starts no attempt that was neither the first, nor granted by retry_task,
\* nor cut short by a crash.  For any number of tasks, callers, executions,
\* retries and crashes, as long as the storage works and no handler suspends.
THEOREM LogHolds == MaxFaults = 0 /\ ~HandlersSuspend => (Spec => []LogIsTrue)
<1> SUFFICES ASSUME MaxFaults = 0, ~HandlersSuspend PROVE Spec => []LogIsTrue
  OBVIOUS
<1>1. Spec => []TypeInv
  BY TypeCorrect DEF TypeInv
<1>2. Spec => []BookInv
  BY BookAlways
<1>3. TypeInv /\ BookInv => LogIsTrue
  BY StoryIsTrue DEF BookInv
<1> QED BY <1>1, <1>2, <1>3, PTL

\* Under the same assumptions an outcome is final, but for the failure that
\* retry_task takes up: no late callback, cancel or timeout replaces it.
THEOREM OutcomesAreFinal == MaxFaults = 0 /\ ~HandlersSuspend => (Spec => TerminalIsFinal)
<1> SUFFICES ASSUME MaxFaults = 0, ~HandlersSuspend PROVE Spec => TerminalIsFinal
  OBVIOUS
<1> DEFINE Kept == \A t \in Tasks: IsTerminal(mem[t]) /\ mem'[t].status # "absent" =>
                      \/ mem'[t].status = mem[t].status
                      \/ mem[t].status = "failed" /\ mem'[t].status = "retrying"
<1>1. TypeInv /\ TrackInv /\ BookInv /\ [Next]_vars => [Kept]_mem
  <2> SUFFICES ASSUME TypeInv, TrackInv, BookInv, [Next]_vars PROVE [Kept]_mem
    OBVIOUS
  <2>1. CASE UNCHANGED vars
    BY <2>1 DEF vars
  <2>2. CASE Next
    <3>1. (BookStep \/ Crash) /\ StoryInv
      BY <2>2, BookNext DEF BookInv
    <3> QED BY <3>1, StepKeepsOutcomes
  <2> QED BY <2>1, <2>2
<1>2. Spec => []TypeInv
  BY TypeCorrect DEF TypeInv
<1>3. Spec => []TrackInv
  BY TrackAlways
<1>4. Spec => []BookInv
  BY BookAlways
<1>5. Spec => [][Kept]_mem
  <2> HIDE DEF Kept
  <2> QED BY <1>1, <1>2, <1>3, <1>4, PTL DEF Spec
<1> QED BY <1>5 DEF TerminalIsFinal

\* Under the same assumptions the stored status of the tasks is what
\* TaskLifecycle promises: every write of a record is one of its steps, and
\* everything else the TaskManager does, a crash included, a stutter.
THEOREM LifecycleImplemented ==
    MaxFaults = 0 /\ ~HandlersSuspend => (Spec => ImplementsLifecycle)
<1> SUFFICES ASSUME MaxFaults = 0, ~HandlersSuspend PROVE Spec => Lifecycle!Spec
  BY DEF ImplementsLifecycle
<1>1. Init => Lifecycle!Init
  BY DEF Init, Lifecycle!Init, NoRecord
<1>2. TypeInv /\ TrackInv /\ BookInv /\ [Next]_vars => [Lifecycle!Next]_(Lifecycle!lifecycleVars)
  <2> SUFFICES ASSUME TypeInv, TrackInv, BookInv, [Next]_vars
               PROVE  [Lifecycle!Next]_(Lifecycle!lifecycleVars)
    OBVIOUS
  <2>1. CASE UNCHANGED vars
    BY <2>1 DEF vars, Lifecycle!lifecycleVars
  <2>2. CASE Next
    <3>1. BookStep \/ Crash
      BY <2>2, BookNext
    <3>2. Lifecycle!Next \/ UNCHANGED <<StatusBar, RetriesBar>>
      BY <3>1, StepIsLifecycle
    <3> QED BY <3>2 DEF Lifecycle!lifecycleVars, StatusBar, RetriesBar
  <2> QED BY <2>1, <2>2
<1>3. Spec => []TypeInv
  BY TypeCorrect DEF TypeInv
<1>4. Spec => []TrackInv
  BY TrackAlways
<1>5. Spec => []BookInv
  BY BookAlways
<1> QED BY <1>1, <1>2, <1>3, <1>4, <1>5, PTL DEF Spec, Lifecycle!Spec

-----------------------------------------------------------------------------
(***************************************************************************)
(* One client, where nothing fails: the run of MCTaskClient.               *)
(***************************************************************************)
SoundInv == TypeInv /\ TrackInv /\ BookInv /\ ClientInv /\ crashes = 0

LEMMA SoundIsTracked == SoundInv => EntriesAreLive /\ QueuedHasOwner
<1> SUFFICES ASSUME SoundInv PROVE EntriesAreLive /\ QueuedHasOwner
  OBVIOUS
<1> USE DEF SoundInv
<1>1. EntriesAreLive
  BY DEF ClientInv
<1>2. ASSUME NEW t \in Tasks, mem[t].status = "queued"
      PROVE  \/ \E c \in Callers: call[c].pc = "queued" /\ call[c].task = t
             \/ IsRunning(t)
  <2>1. row[t].status = "queued"
    BY <1>2 DEF BookInv, StoryInv, RowsCurrent, InMemory
  <2>2. active[t] # 0 \/ \E c \in Callers: call[c].pc = "queued" /\ call[c].task = t
    BY <2>1 DEF BookInv, TaskBook, OwnerBook
  <2> QED BY <1>1, <2>2 DEF EntriesAreLive, IsRunning
<1> QED BY <1>1, <1>2 DEF QueuedHasOwner

\* What sleep(0) in start_task is for, with one client, any tasks, executions and
\* retries, and no faults: no entry of _active outlives its execution, and whatever is
\* queued has a client about to launch it or an execution made for it.
THEOREM ClientTracks ==
    ASSUME \A c, d \in Callers: c = d, MaxFaults = 0, MaxCrashes = 0, ~HandlersSuspend
    PROVE  ClientSpec => []Tracking
<1> DEFINE Inv == setup = "sound" => SoundInv
<1>1. ClientInit => Inv
  BY TypeInit, TrackInit, BookInit, ClientInvInit DEF ClientInit, Init, SoundInv
<1>2. SoundInv /\ [Next]_vars => SoundInv'
  <2> SUFFICES ASSUME SoundInv, [Next]_vars PROVE SoundInv'
    OBVIOUS
  <2>1. ~Crash
    BY DEF Crash, SoundInv
  <2>2. ASSUME NEW e \in ExecIds, ExecStep(e) PROVE UNCHANGED crashes
    BY <2>2 DEF ExecStep, EnterRecord, NeverEntered, CallRunner, RunnerReturns, RunnerRaises,
                RunnerIgnoresCancel, EndRecord, CatchCancel, CatchException, LeaveHandler
  <2>3. ASSUME NEW c \in Callers, CallerStep(c) \/ Request(c) PROVE UNCHANGED crashes
    BY <2>3 DEF CallerStep, Request, Launch, Awake, Timeout, WaitReturns, WaitRaises,
                PrepareAttempt, CancelAllNext, GetTask, CreateTask, CancelTask, CancelAll,
                WaitTask, StartTask, RetryTask
  <2>4. UNCHANGED crashes
    BY <2>1, <2>2, <2>3 DEF Next, vars
  <2> QED BY <2>4, TypeNext, TrackNext, BookKept, ClientInvNext DEF SoundInv
<1>3. Inv /\ [ClientNext]_<<setup, vars>> => Inv'
  BY <1>2 DEF ClientNext, Sound, Fails
<1>4. Inv => Tracking
  BY SoundIsTracked DEF Tracking
<1> QED
  <2> HIDE DEF Inv
  <2> QED BY <1>1, <1>3, <1>4, PTL DEF ClientSpec
=============================================================================
