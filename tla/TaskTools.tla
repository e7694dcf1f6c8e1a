------------------------------ MODULE TaskTools ------------------------------
(***************************************************************************)
(* The tools by which a turn uses background tasks: task_create, task_list,*)
(* task_output and task_stop of pywork/tools/task_tools.py, task_update of *)
(* pywork/tools/task_update.py, and the user's /stop of pywork/tui/app.py. *)
(* They work on one TaskManager without storage and one runtime Team       *)
(* (pywork/runtime/shared_objects.py), reached by the same task id.  The   *)
(* model may choose an id that is taken: then two records have it.         *)
(***************************************************************************)
EXTENDS TaskRecords, Sequences

CONSTANTS
    TaskIds,       \* ids a tool call names
    MaxRecords,    \* bound: records made in all
    MaxEdits       \* bound: times task_update writes one record

ASSUME TaskToolBounds == MaxRecords \in Nat /\ MaxEdits \in Nat

VARIABLES
    record,     \* every TaskRecord made: its id, the record, the writes of task_update
    listed,     \* TaskManager._records: the number of the record of an id, or 0
    entry,      \* LocalTaskBackend._active: the record of an id and its execution
    runners,    \* TaskManager._runners: ids a runner is known for
    shared,     \* Team.shared_task_list: the status of each shared task
    call,       \* the tool call the turn is in
    said        \* what the last tool call answered, and about which id

taskVars == <<record, listed, entry, runners, shared, call, said>>

NoEntry == [rec |-> 0, at |-> "none"]
NoTaskCall == [at |-> "idle", id |-> "none", rec |-> 0, wait |-> FALSE, target |-> "none"]
Nothing == [id |-> "none", what |-> "none"]

TaskInit ==
    /\ record = <<>>
    /\ listed = [id \in TaskIds |-> 0]
    /\ entry = [id \in TaskIds |-> NoEntry]
    /\ runners = {}
    /\ shared = [id \in TaskIds |-> "none"]
    /\ call = NoTaskCall
    /\ said = Nothing

\* A finished execution whose coroutine never began keeps its entry.
IsRunning(id) == entry[id].at \notin {"none", "dead"}

Answer(id, what) == call' = NoTaskCall /\ said' = [id |-> id, what |-> what]

-----------------------------------------------------------------------------
(***************************************************************************)
(* The executions of tasks.                                                *)
(***************************************************************************)
Write(n, r) == record' = [record EXCEPT ![n].rec = r]

Begins(id) ==
    /\ entry[id].at = "ready"
    /\ entry' = [entry EXCEPT ![id].at = "running"]
    /\ Write(entry[id].rec, MarkRunning(record[entry[id].rec].rec))
    /\ UNCHANGED <<listed, runners, shared, call, said>>

\* Cancelled before its first step: neither the except nor the finally is reached.
NeverBegins(id) ==
    /\ entry[id].at = "doomed"
    /\ entry' = [entry EXCEPT ![id].at = "dead"]
    /\ UNCHANGED <<record, listed, runners, shared, call, said>>

Leaves(id, r) ==
    /\ entry' = [entry EXCEPT ![id] = NoEntry]
    /\ Write(entry[id].rec, r)
    /\ UNCHANGED <<listed, runners, shared, call, said>>

Finishes(id) ==
    /\ entry[id].at = "running"
    /\ \/ Leaves(id, MarkSucceeded(record[entry[id].rec].rec))
       \/ Leaves(id, MarkFailed(record[entry[id].rec].rec))

CatchesCancel(id) ==
    /\ entry[id].at = "cancelling"
    /\ Leaves(id, MarkCancelled(record[entry[id].rec].rec))

\* Task.cancel: a coroutine that has not begun never will.
Cancelled(at) == CASE at \in {"ready", "doomed"}       -> "doomed"
                   [] at \in {"running", "cancelling"} -> "cancelling"
                   [] OTHER                            -> at

-----------------------------------------------------------------------------
(***************************************************************************)
(* task_create.                                                            *)
(***************************************************************************)
Made(id, r) ==
    /\ record' = Append(record, [id |-> id, rec |-> r, edits |-> 0])
    /\ listed' = [listed EXCEPT ![id] = Len(record) + 1]

Started(id, wait) ==
    /\ Made(id, MarkQueued(NewRecord))
    /\ entry' = [entry EXCEPT ![id] = [rec |-> Len(record) + 1, at |-> "ready"]]
    /\ call' = [at |-> "starting", id |-> id, rec |-> Len(record) + 1, wait |-> wait,
                target |-> "none"]
    /\ said' = Nothing

\* target task_manager: a start that fails leaves the new record behind.
CreateRecord(id) ==
    /\ call.at = "idle" /\ Len(record) < MaxRecords
    /\ UNCHANGED <<runners, shared>>
    /\ \/ Made(id, NewRecord) /\ Answer(id, "created") /\ UNCHANGED entry
       \/ /\ id \notin runners \/ entry[id].at # "none"
          /\ Made(id, NewRecord) /\ Answer(id, "failed") /\ UNCHANGED entry
       \/ /\ id \in runners /\ entry[id].at = "none"
          /\ Started(id, FALSE)

\* target subagent: run_agent_task makes the id.
Delegate(id) ==
    /\ call.at = "idle" /\ Len(record) < MaxRecords
    /\ listed[id] = 0 /\ shared[id] = "none"
    /\ runners' = runners \union {id}
    /\ \E wait \in BOOLEAN : Started(id, wait)
    /\ UNCHANGED shared

CreateShared(id) ==
    /\ call.at = "idle"
    /\ IF shared[id] # "none" THEN Answer(id, "failed") /\ UNCHANGED shared
       ELSE /\ \E assigned \in BOOLEAN :
                   shared' = [shared EXCEPT ![id] = IF assigned THEN "assigned" ELSE "pending"]
            /\ Answer(id, "created")
    /\ UNCHANGED <<record, listed, entry, runners>>

\* start_task returns after its sleep(0): the execution has had its turn.
StartReturns ==
    /\ call.at = "starting" /\ entry[call.id].at \notin {"ready", "doomed"}
    /\ IF call.wait THEN call' = [call EXCEPT !.at = "waiting"] /\ UNCHANGED said
                    ELSE Answer(call.id, "created")
    /\ UNCHANGED <<record, listed, entry, runners, shared>>

\* Awaiting a task that was cancelled before it began raises into the turn.
CreateReturns ==
    /\ call.at = "waiting" /\ ~IsRunning(call.id)
    /\ Answer(call.id, IF entry[call.id].at = "dead" THEN "cancelled" ELSE "created")
    /\ UNCHANGED <<record, listed, entry, runners, shared>>

-----------------------------------------------------------------------------
(***************************************************************************)
(* TaskManager.cancel_task.                                                *)
(***************************************************************************)
\* Nothing runs: the record is cancelled unless it is terminal.
MarkStopped(id) ==
    LET r == record[listed[id]].rec
    IN IF IsTerminal(r) THEN UNCHANGED record ELSE Write(listed[id], MarkCancelled(r))

Signal(id) == entry' = [entry EXCEPT ![id].at = Cancelled(@)]

CancelShared(id, target) ==
    shared' = IF target \in {"auto", "team"} /\ shared[id] # "none"
              THEN [shared EXCEPT ![id] = "cancelled"] ELSE shared

(***************************************************************************)
(* task_stop.  A task the manager does not have makes it raise before the  *)
(* team is asked, in every tool here.                                      *)
(***************************************************************************)
Missing(target) == IF target = "auto" THEN "found nowhere" ELSE "not found"

StopUnlisted(id) ==
    /\ call.at = "idle" /\ listed[id] = 0
    /\ \E target \in {"auto", "task_manager", "subagent"} : Answer(id, Missing(target))
    /\ UNCHANGED <<record, listed, entry, runners, shared>>

StopShared(id) ==
    /\ call.at = "idle"
    /\ CancelShared(id, "team")
    /\ Answer(id, IF shared[id] = "none" THEN "not found" ELSE "stopped shared")
    /\ UNCHANGED <<record, listed, entry, runners>>

StopIdle(id) ==
    /\ call.at = "idle" /\ listed[id] # 0 /\ ~IsRunning(id)
    /\ MarkStopped(id)
    /\ \E target \in {"auto", "task_manager"} : CancelShared(id, target)
    /\ Answer(id, "stopped")
    /\ UNCHANGED <<listed, entry, runners>>

StopRunning(id) ==
    /\ call.at = "idle" /\ listed[id] # 0 /\ IsRunning(id)
    /\ Signal(id)
    /\ \E target \in {"auto", "task_manager"} :
           call' = [at |-> "stopping", id |-> id, rec |-> entry[id].rec, wait |-> TRUE,
                    target |-> target]
    /\ said' = Nothing
    /\ UNCHANGED <<record, listed, runners, shared>>

\* The record of the execution is listed again, were it not the latest of its id.
StopReturns ==
    /\ call.at = "stopping" /\ entry[call.id].at = "none"
    /\ listed' = [listed EXCEPT ![call.id] = call.rec]
    /\ CancelShared(call.id, call.target)
    /\ Answer(call.id, "stopped")
    /\ UNCHANGED <<record, entry, runners>>

\* /stop does not wait; it is a worker of its own and runs beside the turn.
UserStop(id) ==
    /\ listed[id] # 0
    /\ IF IsRunning(id) THEN Signal(id) /\ UNCHANGED record
                        ELSE MarkStopped(id) /\ UNCHANGED entry
    /\ UNCHANGED <<listed, runners, shared, call, said>>

(***************************************************************************)
(* The abort of a turn.  In an await of the execution it goes to the       *)
(* execution, which ends as cancelled: the tool call goes on.              *)
(***************************************************************************)
AbortStarting ==
    /\ call.at = "starting" /\ entry[call.id].at \notin {"ready", "doomed"}
    /\ Answer(call.id, "cancelled")
    /\ UNCHANGED <<record, listed, entry, runners, shared>>

AbortAwaiting ==
    /\ call.at \in {"waiting", "stopping"}
    /\ IF IsRunning(call.id) THEN Signal(call.id) /\ UNCHANGED <<call, said>>
                             ELSE Answer(call.id, "cancelled") /\ UNCHANGED entry
    /\ UNCHANGED <<record, listed, runners, shared>>

-----------------------------------------------------------------------------
(***************************************************************************)
(* task_output, task_list and task_update.                                 *)
(***************************************************************************)
OutputOf(id, target) ==
    IF target # "team" THEN IF listed[id] = 0 THEN Missing(target) ELSE "shown"
    ELSE IF shared[id] = "none" THEN "not found" ELSE "shown"

\* What task_list shows of each source.
ListRecords(status) == {id \in TaskIds : listed[id] # 0 /\ record[listed[id]].rec.status = status}
ListShared(status) == {id \in TaskIds : shared[id] = status}

TaskList ==
    /\ call.at = "idle"
    /\ \E status \in TaskStatus, target \in {"auto", "task_manager", "team"} :
         \E id \in (IF target = "team" THEN {} ELSE ListRecords(status))
                  \union (IF target = "task_manager" THEN {} ELSE ListShared(status)) :
             Answer(id, "listed")
    /\ UNCHANGED <<record, listed, entry, runners, shared>>

TaskOutput(id) ==
    /\ call.at = "idle"
    /\ \E target \in {"auto", "task_manager", "team"} : Answer(id, OutputOf(id, target))
    /\ UNCHANGED <<record, listed, entry, runners, shared>>

Updated(r, status) ==
    CASE status = "queued"    -> MarkQueued(r)
      [] status = "running"   -> MarkRunning(r)
      [] status = "retrying"  -> MarkRetrying(r)
      [] status = "succeeded" -> MarkSucceeded(r)
      [] status = "failed"    -> MarkFailed(r)
      [] status = "cancelled" -> MarkCancelled(r)
      [] OTHER                -> [r EXCEPT !.status = status]

SharedStatusAsIs(status) == status                          \* mutant
\* normalize_team_status_from_common: a team task is not queued and not retried.
SharedStatus(status) == CASE status = "queued"   -> "pending"
                          [] status = "retrying" -> "running"
                          [] OTHER               -> status

UpdateShared(id, status, target) ==
    shared' = IF target # "task_manager" /\ shared[id] # "none"
              THEN [shared EXCEPT ![id] = SharedStatus(status)] ELSE shared

\* No execution is asked: the status may be any, whatever the task does.
UpdateRecord(id, status, target) ==
    /\ listed[id] # 0 /\ record[listed[id]].edits < MaxEdits
    /\ status = "retrying" => CanRetry(record[listed[id]].rec)
    /\ record' = [record EXCEPT ![listed[id]].rec = Updated(@, status),
                                ![listed[id]].edits = @ + 1]
    /\ UpdateShared(id, status, target)
    /\ Answer(id, "updated")

UpdateRaises(id, status, target) ==
    /\ listed[id] # 0 => status = "retrying" /\ ~CanRetry(record[listed[id]].rec)
    /\ Answer(id, IF listed[id] = 0 THEN Missing(target) ELSE "failed")
    /\ UNCHANGED <<record, shared>>

TaskUpdate(id) ==
    /\ call.at = "idle"
    /\ \E status \in TaskStatus :
         \/ \E target \in {"auto", "task_manager"} :
               UpdateRecord(id, status, target) \/ UpdateRaises(id, status, target)
         \/ /\ UpdateShared(id, status, "team")
            /\ Answer(id, IF shared[id] = "none" THEN "not found" ELSE "updated")
            /\ UNCHANGED record
    /\ UNCHANGED <<listed, entry, runners>>

-----------------------------------------------------------------------------
ExecutionStep(id) == Begins(id) \/ NeverBegins(id) \/ Finishes(id) \/ CatchesCancel(id)

ToolStep(id) ==
    \/ CreateRecord(id) \/ Delegate(id) \/ CreateShared(id)
    \/ StopUnlisted(id) \/ StopShared(id) \/ StopIdle(id) \/ StopRunning(id)
    \/ TaskOutput(id) \/ TaskUpdate(id) \/ UserStop(id)

TaskNext ==
    \/ \E id \in TaskIds : ExecutionStep(id) \/ ToolStep(id)
    \/ TaskList \/ StartReturns \/ CreateReturns \/ StopReturns \/ AbortStarting \/ AbortAwaiting

\* The event loop runs every ready coroutine; a runner may work for ever until it is cancelled.
TaskFairness ==
    /\ \A id \in TaskIds :
         WF_taskVars(Begins(id) \/ NeverBegins(id)) /\ WF_taskVars(CatchesCancel(id))
    /\ WF_taskVars(StartReturns) /\ WF_taskVars(CreateReturns) /\ WF_taskVars(StopReturns)

-----------------------------------------------------------------------------
TaskTypeOK ==
    /\ \A n \in DOMAIN record :
         record[n].id \in TaskIds /\ record[n].rec \in Record /\ record[n].edits \in 0..MaxEdits
    /\ listed \in [TaskIds -> 0..Len(record)]
    /\ \A id \in TaskIds :
         /\ entry[id].rec \in 0..Len(record)
         /\ entry[id].at \in {"none", "ready", "doomed", "running", "cancelling", "dead"}
    /\ runners \subseteq TaskIds
    /\ shared \in [TaskIds -> (TaskStatus \ {"queued", "retrying"}) \union {"none", "assigned"}]
    /\ call.at \in {"idle", "starting", "waiting", "stopping"}

(***************************************************************************)
(* When task_stop has answered that a task is stopped, no execution of it  *)
(* is in flight and its record is terminal, whatever task_update has made  *)
(* of the status, whichever record has the id by now, and whoever else     *)
(* cancelled it meanwhile.                                                 *)
(***************************************************************************)
StopIsReal ==
    said.what = "stopped" =>
        ~IsRunning(said.id) /\ IsTerminal(record[listed[said.id]].rec)

(***************************************************************************)
(* A task that task_list shows as queued or running, and that has that     *)
(* word from nobody but its execution, has an entry with that very record: *)
(* what looks busy can be stopped, unless task_update made it look so.     *)
(***************************************************************************)
BusyIsTrue ==
    \A id \in ListRecords("queued") \union ListRecords("running") :
        record[listed[id]].edits = 0 => entry[id].rec = listed[id]

(***************************************************************************)
(* task_stop comes back, however long the runner of the task would work.   *)
(***************************************************************************)
StopsReturn == []<>(call.at # "stopping")
=============================================================================
