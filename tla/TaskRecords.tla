----------------------------- MODULE TaskRecords -----------------------------
(***************************************************************************)
(* The TaskRecord of pywork/tasks/task.py: its statuses and the mark_*     *)
(* methods that are its only writers.  Timestamps are kept as "is it set", *)
(* a result as its success flag; names, payloads and error texts are left  *)
(* out, since no decision of the task layer reads them.                    *)
(***************************************************************************)
EXTENDS Naturals

CONSTANT MaxRetries   \* TaskRecord.max_retries, the same for every task

ASSUME MaxRetriesIsNat == MaxRetries \in Nat

TaskStatus == {"pending", "queued", "running", "retrying",
               "succeeded", "failed", "cancelled"}

TerminalStatus == {"succeeded", "failed", "cancelled"}

TaskEventType == {"CREATED", "QUEUED", "STARTED", "RETRYING",
                  "SUCCEEDED", "FAILED", "CANCELLED"}

Record == [status: TaskStatus,
           result: {"none", "success", "failure"},
           retries: 0..MaxRetries,
           started: BOOLEAN, finished: BOOLEAN, cancelled: BOOLEAN]

NoRecord == [status |-> "absent"]

IsTerminal(r) == r.status \in TerminalStatus

CanRetryOnceMore(r) == r.status = "failed" /\ r.retries <= MaxRetries   \* mutant
CanRetry(r) == r.status = "failed" /\ r.retries < MaxRetries

-----------------------------------------------------------------------------
NewRecord == [status |-> "pending", result |-> "none", retries |-> 0,
              started |-> FALSE, finished |-> FALSE, cancelled |-> FALSE]

MarkQueued(r) == [r EXCEPT !.status = "queued"]

\* started_at survives a second start; result and error are not cleared here.
MarkRunning(r) == [r EXCEPT !.status = "running", !.started = TRUE,
                            !.finished = FALSE, !.cancelled = FALSE]

MarkSucceeded(r) == [r EXCEPT !.status = "succeeded", !.result = "success",
                              !.finished = TRUE]

MarkFailed(r) == [r EXCEPT !.status = "failed", !.result = "failure",
                           !.finished = TRUE]

MarkCancelled(r) == [r EXCEPT !.status = "cancelled", !.result = "failure",
                              !.finished = TRUE, !.cancelled = TRUE]

\* The result, the error and finished_at of the failed attempt stay.
MarkRetrying(r) == [r EXCEPT !.status = "retrying", !.retries = @ + 1]

PrepareNextAttempt(r) ==
    [r EXCEPT !.status = "queued", !.result = "none", !.started = FALSE,
              !.finished = FALSE, !.cancelled = FALSE]
=============================================================================
