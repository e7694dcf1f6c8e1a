---------------------------- MODULE TaskLifecycle ----------------------------
(***************************************************************************)
(* What the task layer promises about the stored status of a task          *)
(* (TaskStatus, can_retry and the mark_* methods of pywork/tasks/task.py): *)
(* an outcome is reached once per attempt and is final, except that a      *)
(* failure may be retried, at most MaxRetries times.  A restarted process  *)
(* may enqueue again what the last one left unfinished.                    *)
(***************************************************************************)
EXTENDS Naturals

CONSTANTS Tasks, MaxRetries

VARIABLES status, retries

lifecycleVars == <<status, retries>>

Unfinished == {"pending", "queued", "running", "retrying"}
Outcome == {"succeeded", "failed", "cancelled"}

Init == /\ status = [t \in Tasks |-> "absent"]
        /\ retries = [t \in Tasks |-> 0]

Move(t, from, to) == /\ status[t] \in from
                     /\ status' = [status EXCEPT ![t] = to]
                     /\ UNCHANGED retries

Create(t)  == Move(t, {"absent"}, "pending")
Enqueue(t) == Move(t, Unfinished, "queued")
Begin(t)   == Move(t, {"queued"}, "running")
Finish(t)  == \E to \in Outcome: Move(t, {"running"}, to)
Cancel(t)  == Move(t, Unfinished, "cancelled")
Retry(t)   == /\ status[t] = "failed" /\ retries[t] < MaxRetries
              /\ status' = [status EXCEPT ![t] = "retrying"]
              /\ retries' = [retries EXCEPT ![t] = @ + 1]

Next == \E t \in Tasks: \/ Create(t) \/ Enqueue(t) \/ Begin(t)
                        \/ Finish(t) \/ Cancel(t) \/ Retry(t)

Spec == Init /\ [][Next]_lifecycleVars
=============================================================================
