---------------------------- MODULE MCTaskClient ----------------------------
(***************************************************************************)
(* One client of the TaskManager, in two setups: either nothing fails and  *)
(* handlers of events do not suspend; or they do, one storage operation or *)
(* handler fails and the process crashes once, with one task only.         *)
(***************************************************************************)
EXTENDS TaskManager

CONSTANT Other       \* the task that the faults leave out

VARIABLE setup

Faulty == INSTANCE TaskManager WITH MaxFaults <- 1, MaxCrashes <- 1, HandlersSuspend <- TRUE

ClientInit == setup \in {"sound", "faulty"} /\ Init

Sound == setup = "sound" /\ Next /\ UNCHANGED setup

\* Bound: two executions.
Fails ==
    /\ setup = "faulty" /\ Faulty!Next /\ UNCHANGED setup
    /\ mem'[Other] = NoRecord /\ \A e \in ExecIds: e > 2 => exec'[e] = NoExec

ClientNext == Sound \/ Fails

ClientSpec == ClientInit /\ [][ClientNext]_<<setup, vars>> /\ Fairness

-----------------------------------------------------------------------------
(***************************************************************************)
(* What the sleep(0) of start_task is for: no entry of _active outlives    *)
(* its execution, and a queued task has somebody to run it.                *)
(***************************************************************************)
Tracking == setup = "sound" => EntriesAreLive /\ QueuedHasOwner

(***************************************************************************)
(* Whoever waits for a task gets an answer.                                *)
(***************************************************************************)
WaitersAreAnswered == \A c \in Callers: []<>(setup = "sound" => call[c].pc # "waiting")

(***************************************************************************)
(* Every execution ends, as its runner does, and a queued task is run.     *)
(***************************************************************************)
Progress ==
    /\ \A e \in ExecIds: []<>(setup = "sound" => ~Live(e))
    /\ \A t \in Tasks: []<>(setup = "sound" => mem[t].status # "queued")
=============================================================================
