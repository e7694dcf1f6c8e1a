------------------------------- MODULE SubAgents -------------------------------
(***************************************************************************)
(* The SubAgentManager (subagents/manager.py) with the agents it runs      *)
(* (subagents/base.py), the LLM router in front of it (subagents/router.py) *)
(* and the agent tool that calls both (tools/agent_tool.py).               *)
(*                                                                         *)
(* A batch is one call: of run_many, of run_agent, of route_and_run or of  *)
(* an agent task's runner. A job is one request of a batch. All coroutines *)
(* share an event loop: an action is the code between two points where its *)
(* coroutine is suspended. turn names the batch in sequence that is between *)
(* two of its jobs without being suspended.                                *)
(***************************************************************************)
EXTENDS Naturals, Sequences, FiniteSets

CONSTANTS
    Agents,         \* registered names; one of them is the router's fallback
    Fallback,       \* SubAgentRouterConfig.fallback_agent
    MaxBatches,     \* bound on calls, numbered in the order they are made
    MaxJobs,        \* bound on the requests of a batch
    Lists,          \* the lists of requests that calls are tried with
    Routes,         \* the lists of names that the router's LLM answers, known or not
    Concurrency,    \* SubAgentManagerConfig.max_concurrent_agents
    MaxMeddling,    \* bound on what others do: aborts and cancelled callers, changes of
                    \* the registered agents, event handlers that suspend or raise
    MaxOfAKind,     \* bound on each of these three
    MaxRetries      \* TaskSpec.max_retries of an agent task

ASSUME SubAgentsAssumption ==
    /\ Fallback \in Agents
    /\ MaxBatches \in Nat /\ MaxJobs \in Nat \ {0} /\ Concurrency \in Nat \ {0}
    /\ MaxMeddling \in Nat /\ MaxOfAKind \in Nat /\ MaxRetries \in Nat
    /\ \A reqs \in Lists: Len(reqs) <= MaxJobs /\ reqs \in Seq([agent: Agents, given: BOOLEAN])
    /\ \A names \in Routes: Len(names) \in 0..MaxJobs /\ DOMAIN names = 1..Len(names)

Batches == 1..MaxBatches
NoBatch == 0
Jobs == Batches \X (1..MaxJobs)
NoJob == <<NoBatch, 0>>
GivenId == <<NoBatch, 1>>       \* a run_id that the caller chose
RunIds == Jobs \cup {GivenId}   \* otherwise a run has an id of its own

SpecStatus == {"enabled", "disabled", "absent"}
RunStatus  == {"none", "completed", "failed", "aborted", "raised", "cancelled"}

VARIABLES
    spec,       \* _specs: per agent
    batch,      \* per call: where its coroutine is, how it runs its requests
    job,        \* per request: where run_agent is, its abort signal, its result
    active,     \* _active_runs: the job recorded under a run id
    turn,       \* the batch whose coroutine is between two jobs
    aborts, edits, handlers,    \* what others have done so far
    shared,     \* history: a run began under the id of a run in flight
    late        \* history: jobs that began after one of their batch had failed

vars == <<spec, batch, job, active, turn, aborts, edits, handlers, shared, late>>
others == <<aborts, edits, handlers>>

NoCall == [pc |-> "none", task |-> FALSE, parallel |-> FALSE, abortFirst |-> FALSE,
           reqs |-> <<>>, at |-> 1, tries |-> 0]
Ended(result) == [pc |-> "ended", aborted |-> FALSE, result |-> result]
Unborn == [pc |-> "none", aborted |-> FALSE, result |-> "none"]

Init ==
    /\ spec = [a \in Agents |-> "enabled"]
    /\ batch = [b \in Batches |-> NoCall]
    /\ job = [j \in Jobs |-> Unborn]
    /\ active = [i \in RunIds |-> NoJob]
    /\ turn = NoBatch
    /\ aborts = 0 /\ edits = 0 /\ handlers = 0
    /\ shared = FALSE /\ late = {}

Of(j) == batch[j[1]]
Request(j) == Of(j).reqs[j[2]]
IdOf(j) == IF Request(j).given THEN GivenId ELSE j
JobsOf(b) == {j \in Jobs: j[1] = b /\ j[2] <= Len(batch[b].reqs)}
Running == {"starting", "asking", "telling"}
Failing == {"failed", "aborted"}
FreeTurn == turn = NoBatch
Meddling(ofAKind) == ofAKind < MaxOfAKind /\ aborts + edits + handlers < MaxMeddling
HandlerDisturbs == Meddling(handlers) /\ handlers' = handlers + 1

-----------------------------------------------------------------------------
\* run_agent

\* What abort_run, abort_agent and abort_all do to the records they find.
Signalled(jobs, found) ==
    [j \in Jobs |-> IF j \in found THEN [jobs[j] EXCEPT !.aborted = TRUE] ELSE jobs[j]]
Recorded(table) == {j \in Jobs: \E i \in RunIds: table[i] = j}

\* The finally clause of run_agent, whoever is recorded under the id by then.
Popped(j) == [active EXCEPT ![IdOf(j)] = NoJob]

\* A job is over: its batch goes on to the next one, ends or, in parallel, waits for
\* the others; a failure aborts all runs of the manager if the batch asks for it.
\* A run that raises ends a batch in sequence and makes gather raise.
NextOf(b, result) ==
    IF result = "raised" THEN [batch[b] EXCEPT !.pc = "raised", !.at = 1]
    ELSE [batch[b] EXCEPT !.at = IF batch[b].parallel THEN @ ELSE @ + 1]

Over(j, result) ==
    LET b == j[1]
        found == IF Of(j).abortFirst /\ result \in Failing THEN Recorded(Popped(j)) ELSE {}
    IN  /\ job' = Signalled([job EXCEPT ![j] = Ended(result)], found)
        /\ batch' = [batch EXCEPT ![b] = IF @.pc = "running" THEN NextOf(b, result) ELSE @]
        /\ turn' = IF batch'[b].pc = "running" /\ ~Of(j).parallel THEN b ELSE NoBatch

\* record.finish and the event of the result; a handler of it may suspend or raise.
Finished(j, result) ==
    \/ /\ Over(j, result) /\ active' = Popped(j) /\ UNCHANGED handlers
    \/ /\ HandlerDisturbs
       /\ \/ /\ job' = [job EXCEPT ![j].pc = "telling", ![j].result = result]
             /\ turn' = NoBatch /\ UNCHANGED <<batch, active>>
          \/ Over(j, "raised") /\ active' = Popped(j)

\* The agent's run up to its LLM call.
Ask(j) ==
    /\ job' = [job EXCEPT ![j].pc = "asking"]
    /\ turn' = NoBatch /\ UNCHANGED batch

\* run_agent begins: the agent must be known and enabled. The STARTED event is sent
\* with the run recorded, and outside of the clause that takes the record back.
BeginRun(j) ==
    /\ IF spec[Request(j).agent] # "enabled"
       THEN Over(j, "raised") /\ UNCHANGED <<active, shared, handlers>>
       ELSE /\ active' = [active EXCEPT ![IdOf(j)] = j]
            /\ shared' = (shared \/ active[IdOf(j)] # NoJob)
            /\ \/ Ask(j) /\ UNCHANGED handlers
               \/ /\ HandlerDisturbs
                  /\ \/ /\ job' = [job EXCEPT ![j].pc = "starting"]
                        /\ turn' = NoBatch /\ UNCHANGED batch
                     \/ Over(j, "raised")
    /\ late' = late \cup {x \in {j}: \E k \in JobsOf(j[1]): job[k].result \in Failing}
    /\ UNCHANGED <<spec, aborts, edits>>

\* The handler of STARTED returns.
Started(j) ==
    /\ FreeTurn /\ job[j].pc = "starting"
    /\ IF job[j].aborted THEN Finished(j, "aborted") ELSE Ask(j) /\ UNCHANGED <<active, handlers>>
    /\ UNCHANGED <<spec, aborts, edits, shared, late>>

\* A plausible bug: the signal is looked at before the LLM call only.
AnswerKept(j, ok) == IF ok THEN "completed" ELSE "failed"

\* The LLM call returns or raises; an answer that comes after an abort is dropped.
Answer(j, ok) == IF ~ok THEN "failed" ELSE IF job[j].aborted THEN "aborted" ELSE "completed"

LlmReturns(j, ok) ==
    /\ FreeTurn /\ job[j].pc = "asking"
    /\ Finished(j, Answer(j, ok))
    /\ UNCHANGED <<spec, aborts, edits, shared, late>>

\* The handler of the last event returns.
Told(j) ==
    /\ FreeTurn /\ job[j].pc = "telling"
    /\ Over(j, job[j].result) /\ active' = Popped(j)
    /\ UNCHANGED <<spec, others, shared, late>>

-----------------------------------------------------------------------------
\* Batches

\* A plausible bug: a permit is never given back.
HasPermitOnce(b) == Cardinality({j \in JobsOf(b): job[j].pc # "queued"}) < Concurrency
\* run_parallel: the semaphore of the call, released when a run is over.
HasPermit(b) == Cardinality({j \in JobsOf(b): job[j].pc \in Running}) < Concurrency

\* The semaphore is first come, first served.
EnterParallel(j) ==
    /\ FreeTurn /\ job[j].pc = "queued" /\ HasPermit(j[1])
    /\ \A k \in JobsOf(j[1]): k[2] < j[2] => job[k].pc # "queued"
    /\ BeginRun(j)

\* A plausible bug: the loop goes on after a failure.
BrokenNever(b) == FALSE
\* run_sequence leaves its loop after a failure that is to abort the rest.
Broken(b) == batch[b].abortFirst /\ \E j \in JobsOf(b): job[j].result \in Failing

EnterSequence(b) ==
    LET j == <<b, batch[b].at>> IN
    /\ turn = b /\ batch[b].pc = "running" /\ ~batch[b].parallel
    /\ batch[b].at <= Len(batch[b].reqs) /\ ~Broken(b)
    /\ BeginRun(j)

\* run_sequence and run_parallel return.
Returns(b) ==
    /\ batch[b].pc = "running"
    /\ IF batch[b].parallel
       THEN FreeTurn /\ \A j \in JobsOf(b): job[j].pc = "ended"
       ELSE turn = b /\ (batch[b].at > Len(batch[b].reqs) \/ Broken(b))
    /\ batch' = [batch EXCEPT ![b].pc = "returned", ![b].at = 1]
    /\ turn' = NoBatch
    /\ UNCHANGED <<spec, job, active, others, shared, late>>

\* The coroutine goes on with its requests: in parallel as tasks of the event loop.
Go(b, parallel, abortFirst, task, reqs) ==
    /\ batch' = [batch EXCEPT ![b] = [pc |-> "running", task |-> task, parallel |-> parallel,
                                      abortFirst |-> abortFirst, reqs |-> reqs, at |-> 1,
                                      tries |-> @.tries]]
    /\ job' = [j \in Jobs |-> IF j[1] = b /\ parallel /\ j[2] <= Len(reqs)
                              THEN [Unborn EXCEPT !.pc = "queued"] ELSE job[j]]
    /\ turn' = IF parallel THEN NoBatch ELSE b

Fresh(b) == FreeTurn /\ batch[b].pc = "none" /\ \A c \in 1..(b - 1): batch[c].pc # "none"

\* The agent tool: run_many, whose items may name the same run_id.
RunMany(b) ==
    /\ Fresh(b)
    /\ \E reqs \in Lists, parallel, abortFirst \in BOOLEAN:
          Len(reqs) > 1 /\ Go(b, parallel, abortFirst, FALSE, reqs)
    /\ UNCHANGED <<spec, active, others, shared, late>>

\* The agent tool: run.
RunOne(b) ==
    /\ Fresh(b)
    /\ \E reqs \in Lists: Len(reqs) = 1 /\ Go(b, FALSE, FALSE, FALSE, reqs)
    /\ UNCHANGED <<spec, active, others, shared, late>>

\* run_agent_task: the run id of the task is used again when it is retried.
RunTask(b) ==
    /\ Fresh(b)
    /\ \E reqs \in Lists: Len(reqs) = 1 /\ Go(b, FALSE, FALSE, TRUE, reqs)
    /\ UNCHANGED <<spec, active, others, shared, late>>

\* A plausible bug: the retries are not counted against max_retries.
RetryTaskAlways(b) ==
    /\ FreeTurn /\ batch[b].task /\ batch[b].pc \in {"returned", "raised"}
    /\ batch' = [batch EXCEPT ![b].pc = "running", ![b].tries = @ + 1]
    /\ job' = [job EXCEPT ![<<b, 1>>] = Unborn]
    /\ turn' = b
    /\ UNCHANGED <<spec, active, others, shared, late>>

RetryTask(b) ==
    /\ FreeTurn /\ batch[b].task /\ batch[b].tries < MaxRetries
    /\ \/ batch[b].pc = "returned" /\ job[<<b, 1>>].result \in Failing
       \/ batch[b].pc = "raised"
    /\ batch' = [batch EXCEPT ![b].pc = "running", ![b].at = 1, ![b].tries = @ + 1]
    /\ job' = [job EXCEPT ![<<b, 1>>] = Unborn]
    /\ turn' = b
    /\ UNCHANGED <<spec, active, others, shared, late>>

\* The agent tool: route_and_run, up to the LLM call of the router.
RouteAndRun(b) ==
    /\ Fresh(b)
    /\ batch' = [batch EXCEPT ![b].pc = "routing"]
    /\ UNCHANGED <<spec, job, active, turn, others, shared, late>>

\* resolve_agent_name_or_fallback: a disabled agent is known.
Resolvable(name) == name \in Agents /\ spec[name] # "absent"
Resolved(name) == IF Resolvable(name) THEN name ELSE Fallback

\* An answer that cannot be parsed counts as one that names nobody known.
RouterAnswers(b) ==
    /\ FreeTurn /\ batch[b].pc = "routing"
    /\ \E names \in Routes, parallel \in BOOLEAN:
          IF \E i \in DOMAIN names: ~Resolvable(Resolved(names[i]))
          THEN batch' = [batch EXCEPT ![b].pc = "raised"] /\ UNCHANGED <<job, turn>>
          ELSE Go(b, parallel /\ Len(names) > 1, FALSE, FALSE,
                  [i \in DOMAIN names |-> [agent |-> Resolved(names[i]), given |-> FALSE]])
    /\ UNCHANGED <<spec, active, others, shared, late>>

RouterFails(b) ==
    /\ FreeTurn /\ batch[b].pc = "routing"
    /\ batch' = [batch EXCEPT ![b].pc = "raised"]
    /\ UNCHANGED <<spec, job, active, turn, others, shared, late>>

-----------------------------------------------------------------------------
\* Others

Abort(found) ==
    /\ FreeTurn /\ Meddling(aborts)
    /\ aborts' = aborts + 1
    /\ job' = Signalled(job, found)
    /\ UNCHANGED <<spec, batch, active, turn, edits, handlers, shared, late>>

AbortRun(i) == active[i] # NoJob /\ Abort({active[i]})
AbortAgent(a) ==
    /\ spec[a] # "absent"
    /\ Abort({j \in Recorded(active): Request(j).agent = a})
AbortAll == Abort(Recorded(active))

\* The coroutine of a call is cancelled, and with it the tasks it gathers. A run that
\* is suspended in a handler of STARTED leaves its record behind.
CancelCaller(b) ==
    LET open == {j \in JobsOf(b): job[j].pc \in {"queued"} \cup Running} IN
    /\ FreeTurn /\ batch[b].pc \in {"routing", "running"} /\ Meddling(aborts)
    /\ aborts' = aborts + 1
    /\ batch' = [batch EXCEPT ![b].pc = "cancelled", ![b].at = 1]
    /\ job' = [j \in Jobs |-> IF j \in open THEN Ended("cancelled") ELSE job[j]]
    /\ active' = [i \in RunIds |-> IF \E j \in open: IdOf(j) = i /\ job[j].pc \in {"asking", "telling"}
                                   THEN NoJob ELSE active[i]]
    /\ UNCHANGED <<spec, turn, edits, handlers, shared, late>>

\* register_agent, unregister_agent, enable_agent, disable_agent.
EditSpec(a, to) ==
    /\ FreeTurn /\ Meddling(edits) /\ spec[a] # to
    /\ edits' = edits + 1
    /\ spec' = [spec EXCEPT ![a] = to]
    /\ UNCHANGED <<batch, job, active, turn, aborts, handlers, shared, late>>

JobStep(j) ==
    /\ j \in JobsOf(j[1])
    /\ \/ Started(j) \/ Told(j) \/ EnterParallel(j)
       \/ \E ok \in BOOLEAN: LlmReturns(j, ok)
BatchStep(b) == EnterSequence(b) \/ Returns(b) \/ RouterAnswers(b) \/ RouterFails(b)
Call(b) == RunMany(b) \/ RunOne(b) \/ RunTask(b) \/ RetryTask(b) \/ RouteAndRun(b)

Next ==
    \/ \E j \in Jobs: JobStep(j)
    \/ \E b \in Batches: BatchStep(b) \/ Call(b) \/ CancelCaller(b)
    \/ \E i \in RunIds: AbortRun(i)
    \/ \E a \in Agents: AbortAgent(a) \/ \E to \in SpecStatus: EditSpec(a, to)
    \/ AbortAll

Spec == Init /\ [][Next]_vars

\* LLM calls and handlers return.
Fairness == (\A j \in Jobs: WF_vars(JobStep(j))) /\ (\A b \in Batches: WF_vars(BatchStep(b)))
FairSpec == Spec /\ Fairness

-----------------------------------------------------------------------------
\* Properties

InFlight(j) == j \in JobsOf(j[1]) /\ job[j].pc \in Running

\* Types; and a job is recorded under its own id or under none.
TypeOK ==
    /\ spec \in [Agents -> SpecStatus]
    /\ \A b \in Batches:
          /\ batch[b].pc \in {"none", "routing", "running", "returned", "raised", "cancelled"}
          /\ batch[b].tries \in 0..MaxRetries
          /\ batch[b].at \in 1..(MaxJobs + 1) /\ Len(batch[b].reqs) <= MaxJobs
    /\ \A j \in Jobs:
          /\ job[j].pc \in {"none", "queued", "ended"} \cup Running /\ job[j].result \in RunStatus
          /\ job[j].pc # "none" => j \in JobsOf(j[1])
    /\ \A i \in RunIds: active[i] # NoJob => IdOf(active[i]) = i
    /\ turn \in Batches \cup {NoBatch}

\* _active_runs is what runs: as long as no handler disturbs, whatever is recorded is
\* in flight (nothing stays behind when calls fail, abort or are cancelled); and unless
\* a run_id was given twice, every run in flight is recorded, so that an abort finds it.
ActiveIsTrue ==
    /\ handlers = 0 => \A j \in Recorded(active): InFlight(j)
    /\ ~shared => \A j \in Jobs: InFlight(j) => active[IdOf(j)] = j

\* A batch runs in order: no more runs at a time than allowed, in sequence none after
\* the failure that aborts the rest; in parallel the runs that such a failure finds are
\* signalled, so that only runs that begin after it can go on.
BatchInOrder ==
    \A b \in Batches:
        /\ Cardinality({j \in JobsOf(b): InFlight(j)}) <= IF batch[b].parallel THEN Concurrency ELSE 1
        /\ batch[b].abortFirst /\ ~shared =>
              \A j, k \in JobsOf(b):
                  job[k].pc = "ended" /\ job[k].result \in Failing =>
                      IF batch[b].parallel
                      THEN job[j].pc \in {"starting", "asking"} => job[j].aborted \/ j \in late
                      ELSE j[2] > k[2] => job[j].pc = "none"

\* A call that returns its results leaves no run behind; one in sequence does not even
\* when it raises. (In parallel the other runs go on when one raises.)
NothingLeftRunning ==
    \A b \in Batches:
        batch[b].pc \in {"returned", "cancelled"} \/ (batch[b].pc = "raised" /\ ~batch[b].parallel)
        => \A j \in JobsOf(b): job[j].pc \in {"none", "ended"}

\* The manager keeps its books, and a call is answered when its runs are over.
CallsAreOrderly == ActiveIsTrue /\ BatchInOrder /\ NothingLeftRunning

\* An abort that reaches a run before its LLM has answered is heeded: whatever the LLM
\* returns then, the run never reports that it completed.
AbortIsHeeded ==
    [][\A j \in Jobs: job[j].aborted /\ job[j].pc \in {"starting", "asking"}
                      => job'[j].result # "completed"]_vars

\* Every call returns or raises, and every run ends, the orphans of a raising call too:
\* again and again nothing is in progress.
CallsEnd ==
    []<>(/\ \A b \in Batches: batch[b].pc \notin {"routing", "running"}
         /\ \A j \in Jobs: ~InFlight(j))
=============================================================================
