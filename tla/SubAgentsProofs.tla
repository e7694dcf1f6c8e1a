--------------------------- MODULE SubAgentsProofs ---------------------------
(***************************************************************************)
(* What the subagent manager keeps for any agents, lists of requests,      *)
(* concurrency, retries, aborts, edits of the agents and handlers that     *)
(* suspend or raise.                                                       *)
(*                                                                         *)
(* SubInv has five parts beside the types: CallBook is about one call of   *)
(* the manager, JobBook about one run and the place of its batch,          *)
(* ActiveBook about the table of active runs, FailureBook about what a     *)
(* failure leaves going, PermitBook about the semaphore of a batch.        *)
(***************************************************************************)
EXTENDS SubAgents, FiniteSetTheorems, TLAPS

Requests == [agent: Agents, given: BOOLEAN]
CallPcs == {"none", "routing", "running", "returned", "raised", "cancelled"}
CallType == [pc: CallPcs, task: BOOLEAN, parallel: BOOLEAN, abortFirst: BOOLEAN,
             reqs: Seq(Requests), at: 1..(MaxJobs + 1), tries: 0..MaxRetries]
JobPcs == {"none", "queued", "ended"} \cup Running
JobType == [pc: JobPcs, aborted: BOOLEAN, result: RunStatus]

Types ==
    /\ spec \in [Agents -> SpecStatus]
    /\ batch \in [Batches -> CallType]
    /\ job \in [Jobs -> JobType]
    /\ active \in [RunIds -> Jobs \cup {NoJob}]
    /\ turn \in Batches \cup {NoBatch}
    /\ aborts \in Nat /\ edits \in Nat /\ handlers \in Nat
    /\ shared \in BOOLEAN /\ late \subseteq Jobs

\* The request is one of its batch.
Asked(j) == j[2] <= Len(batch[j[1]].reqs)

\* A call that has no requests yet has none at work; a task has one; and whoever goes on
\* without being suspended is a batch in sequence.
CallBook(b) ==
    LET c == batch[b] IN
    /\ Len(c.reqs) <= MaxJobs
    /\ c.pc \in {"none", "routing"} => c.reqs = <<>> /\ ~c.parallel
    /\ c.task => ~c.parallel /\ Len(c.reqs) = 1
    /\ c.parallel => c.at = 1
    /\ c.at <= Len(c.reqs) + 1
    /\ turn = b => c.pc = "running" /\ ~c.parallel

\* Where a run can be, by the place its batch has reached.
JobBook(j) ==
    LET c == batch[j[1]]
        pc == job[j].pc
    IN  /\ pc # "none" => Asked(j)
        /\ pc \in {"none", "queued", "starting", "asking"} => job[j].result = "none"
        /\ pc = "queued" => c.parallel
        /\ c.pc \in {"returned", "cancelled"} \/ (c.pc # "running" /\ ~c.parallel)
              => pc \in {"none", "ended"}
        /\ c.pc = "running" /\ ~c.parallel =>
              /\ j[2] < c.at => pc = "ended"
              /\ j[2] > c.at => pc = "none"
              /\ j[2] = c.at /\ j[2] <= Len(c.reqs) =>
                    IF turn = j[1] THEN pc = "none" ELSE pc \in Running

\* Who is recorded, and who is not.
ActiveBook ==
    /\ \A i \in RunIds: active[i] # NoJob => Asked(active[i]) /\ IdOf(active[i]) = i
    /\ handlers = 0 => \A j \in Jobs: job[j].pc \notin {"starting", "telling"}
    /\ handlers = 0 => \A i \in RunIds: active[i] # NoJob => job[active[i]].pc \in Running
    /\ ~shared => \A j \in Jobs: job[j].pc \in Running => active[IdOf(j)] = j

\* After a failure that aborts the rest, no run of the batch goes on unknowing.
FailureBook ==
    \A j, k \in Jobs:
        j[1] = k[1] /\ batch[k[1]].abortFirst /\ job[k].pc = "ended" /\ job[k].result \in Failing =>
            IF batch[k[1]].parallel
            THEN ~shared => (job[j].pc \in {"starting", "asking"} => job[j].aborted \/ j \in late)
            ELSE j[2] > k[2] => job[j].pc = "none"

RunsOf(b) == {j \in JobsOf(b): job[j].pc \in Running}
PermitBook == \A b \in Batches: batch[b].parallel => Cardinality(RunsOf(b)) <= Concurrency

SubInv ==
    /\ Types /\ (\A b \in Batches: CallBook(b)) /\ (\A j \in Jobs: JobBook(j))
    /\ ActiveBook /\ FailureBook /\ PermitBook

-----------------------------------------------------------------------------
\* Jobs and batches.
LEMMA JobIs ==
    ASSUME NEW j \in Jobs
    PROVE  /\ j[1] \in Batches /\ j[2] \in 1..MaxJobs /\ j[1] # NoBatch /\ j # NoJob /\ j # GivenId
           /\ j \in RunIds
  BY SubAgentsAssumption DEF Jobs, Batches, NoBatch, NoJob, GivenId, RunIds

LEMMA JobEq == ASSUME NEW j \in Jobs, NEW k \in Jobs, j[1] = k[1], j[2] = k[2] PROVE j = k
  BY DEF Jobs

LEMMA OfBatch ==
    ASSUME NEW b \in Batches, NEW n \in 1..MaxJobs
    PROVE  <<b, n>> \in Jobs /\ <<b, n>>[1] = b /\ <<b, n>>[2] = n
  BY DEF Jobs

LEMMA IdIs == ASSUME NEW j \in Jobs PROVE IdOf(j) \in RunIds
  BY DEF IdOf, RunIds

LEMMA InJobsOf == ASSUME NEW j \in Jobs, NEW b PROVE j \in JobsOf(b) <=> j[1] = b /\ Asked(j)
  BY DEF JobsOf, Asked

LEMMA JobsFinite == IsFiniteSet(Jobs)
<1>1. IsFiniteSet(Batches) /\ IsFiniteSet(1..MaxJobs)
  BY FS_Interval, SubAgentsAssumption DEF Batches
<1> QED BY <1>1, FS_Product DEF Jobs

LEMMA CallFields ==
    ASSUME Types, NEW b \in Batches
    PROVE  /\ batch[b] \in CallType /\ batch[b].pc \in CallPcs /\ batch[b].reqs \in Seq(Requests)
           /\ batch[b].at \in 1..(MaxJobs + 1) /\ batch[b].tries \in 0..MaxRetries
           /\ batch[b].task \in BOOLEAN /\ batch[b].parallel \in BOOLEAN
           /\ batch[b].abortFirst \in BOOLEAN /\ Len(batch[b].reqs) \in Nat
<1>1. batch[b] \in CallType
  BY DEF Types
<1>2. batch[b].reqs \in Seq(Requests)
  BY <1>1 DEF CallType
<1> QED BY <1>1, <1>2 DEF CallType

LEMMA JobFields ==
    ASSUME Types, NEW j \in Jobs
    PROVE  /\ job[j] \in JobType /\ job[j].pc \in JobPcs /\ job[j].aborted \in BOOLEAN
           /\ job[j].result \in RunStatus
  BY DEF Types, JobType

LEMMA Pcs == /\ Running = {"starting", "asking", "telling"}
             /\ JobPcs = {"none", "queued", "ended", "starting", "asking", "telling"}
  BY DEF Running, JobPcs

LEMMA SubInvInit == Init => SubInv
<1> SUFFICES ASSUME Init PROVE SubInv
  OBVIOUS
<1>1. ASSUME NEW b \in Batches
      PROVE  batch[b] = NoCall /\ batch[b].reqs = <<>> /\ batch[b].pc = "none" /\ ~batch[b].parallel
             /\ ~batch[b].task /\ batch[b].at = 1 /\ Len(batch[b].reqs) = 0
  BY DEF Init, NoCall
<1>2. ASSUME NEW j \in Jobs
      PROVE  job[j].pc = "none" /\ job[j].result = "none" /\ job[j] = Unborn
  BY DEF Init, Unborn
<1>3. NoCall \in CallType
  <2>1. <<>> \in Seq(Requests)
    OBVIOUS
  <2>2. 1 \in 1..(MaxJobs + 1) /\ 0 \in 0..MaxRetries
    BY SubAgentsAssumption
  <2> QED BY <2>1, <2>2 DEF NoCall, CallType, CallPcs
<1>4. Unborn \in JobType
  BY DEF Unborn, JobType, JobPcs, RunStatus
<1>5. Types
  BY <1>3, <1>4 DEF Init, Types, SpecStatus
<1>6. ASSUME NEW b \in Batches PROVE CallBook(b)
  <2>1. turn # b
    BY SubAgentsAssumption DEF Init, NoBatch, Batches
  <2> QED BY <1>1, <2>1, SubAgentsAssumption DEF CallBook
<1>7. ASSUME NEW j \in Jobs PROVE JobBook(j)
  BY <1>1, <1>2, JobIs DEF JobBook
<1>8. ActiveBook
  BY <1>2, Pcs DEF Init, ActiveBook
<1>9. FailureBook
  BY <1>2 DEF FailureBook
<1>10. ASSUME NEW b \in Batches, batch[b].parallel PROVE Cardinality(RunsOf(b)) <= Concurrency
  BY <1>1, <1>10
<1> QED BY <1>5, <1>6, <1>7, <1>8, <1>9, <1>10 DEF SubInv, PermitBook

\* What ends, does not keep anybody waiting.
LEMMA RunsFinite == ASSUME NEW b PROVE IsFiniteSet(RunsOf(b)) /\ Cardinality(RunsOf(b)) \in Nat
<1>1. RunsOf(b) \subseteq Jobs
  BY DEF RunsOf, JobsOf
<1> QED BY <1>1, JobsFinite, FS_Subset, FS_CardinalityType

LEMMA PermitKept ==
    ASSUME PermitBook, \A b \in Batches: batch'[b].parallel => batch[b].parallel /\ RunsOf(b)' \subseteq RunsOf(b)
    PROVE  PermitBook'
<1> SUFFICES ASSUME NEW b \in Batches, batch'[b].parallel PROVE Cardinality(RunsOf(b)') <= Concurrency
  BY DEF PermitBook
<1>1. batch[b].parallel /\ RunsOf(b)' \subseteq RunsOf(b)
  OBVIOUS
<1>2. Cardinality(RunsOf(b)') <= Cardinality(RunsOf(b)) /\ IsFiniteSet(RunsOf(b)')
  BY <1>1, RunsFinite, FS_Subset
<1>3. Cardinality(RunsOf(b)') \in Nat
  BY <1>2, FS_CardinalityType
<1> QED BY <1>1, <1>2, <1>3, RunsFinite, SubAgentsAssumption DEF PermitBook

-----------------------------------------------------------------------------
\* A step that moves nobody: others abort or edit, or nothing happens.
LEMMA QuietKeeps ==
    ASSUME SubInv, job' \in [Jobs -> JobType], spec' \in [Agents -> SpecStatus],
           \A k \in Jobs: /\ job'[k].pc = job[k].pc /\ job'[k].result = job[k].result
                          /\ job[k].aborted => job'[k].aborted,
           UNCHANGED <<batch, active, turn, handlers, shared, late>>, aborts' \in Nat, edits' \in Nat
    PROVE  SubInv'
<1>1. Types'
  BY DEF SubInv, Types
<1>2. \A b \in Batches: CallBook(b)'
  BY DEF SubInv, CallBook
<1>3. ASSUME NEW j \in Jobs PROVE JobBook(j)'
  <2>1. JobBook(j)
    BY DEF SubInv
  <2> QED BY <2>1 DEF JobBook, Asked
<1>4. ActiveBook'
  <2>1. \A j \in Jobs: IdOf(j)' = IdOf(j)
    BY DEF IdOf, Request, Of
  <2>2. \A i \in RunIds: active[i] # NoJob => active[i] \in Jobs
    BY DEF SubInv, Types
  <2>3. (\A i \in RunIds: active[i] # NoJob => Asked(active[i]) /\ IdOf(active[i]) = i)'
    BY <2>1, <2>2 DEF SubInv, ActiveBook, Asked
  <2>4. handlers' = 0 => \A j \in Jobs: job'[j].pc \notin {"starting", "telling"}
    BY DEF SubInv, ActiveBook
  <2>5. handlers' = 0 => \A i \in RunIds: active'[i] # NoJob => job'[active'[i]].pc \in Running
    BY <2>2 DEF SubInv, ActiveBook
  <2>6. (~shared => \A j \in Jobs: job[j].pc \in Running => active[IdOf(j)] = j)'
    BY <2>1 DEF SubInv, ActiveBook
  <2> QED BY <2>3, <2>4, <2>5, <2>6 DEF ActiveBook
<1>5. FailureBook'
  BY DEF SubInv, FailureBook
<1>6. PermitBook'
  <2>1. \A b \in Batches: RunsOf(b)' \subseteq RunsOf(b)
    BY DEF RunsOf, JobsOf
  <2> QED BY <2>1, PermitKept DEF SubInv
<1> QED BY <1>1, <1>2, <1>3, <1>4, <1>5, <1>6 DEF SubInv

LEMMA SignalledIs ==
    ASSUME NEW jobs \in [Jobs -> JobType], NEW found
    PROVE  /\ Signalled(jobs, found) \in [Jobs -> JobType]
           /\ \A k \in Jobs: /\ Signalled(jobs, found)[k].pc = jobs[k].pc
                             /\ Signalled(jobs, found)[k].result = jobs[k].result
                             /\ jobs[k].aborted \/ k \in found => Signalled(jobs, found)[k].aborted
<1>1. ASSUME NEW x \in JobType
      PROVE  LET y == [x EXCEPT !.aborted = TRUE] IN y \in JobType /\ y.pc = x.pc /\ y.result = x.result /\ y.aborted
  BY DEF JobType
<1>2. ASSUME NEW k \in Jobs
      PROVE  /\ Signalled(jobs, found)[k] \in JobType
             /\ Signalled(jobs, found)[k].pc = jobs[k].pc
             /\ Signalled(jobs, found)[k].result = jobs[k].result
             /\ jobs[k].aborted \/ k \in found => Signalled(jobs, found)[k].aborted
  <2>1. jobs[k] \in JobType
    OBVIOUS
  <2>2. Signalled(jobs, found)[k] = IF k \in found THEN [jobs[k] EXCEPT !.aborted = TRUE] ELSE jobs[k]
    BY DEF Signalled
  <2> QED BY <2>1, <2>2, <1>1
<1>3. Signalled(jobs, found) = [k \in Jobs |-> Signalled(jobs, found)[k]]
  BY DEF Signalled
<1> QED BY <1>2, <1>3

LEMMA AbortKeeps == ASSUME SubInv, NEW found, Abort(found) PROVE SubInv'
<1>1. job \in [Jobs -> JobType] /\ aborts \in Nat /\ edits \in Nat /\ spec \in [Agents -> SpecStatus]
  BY DEF SubInv, Types
<1>2. job' = Signalled(job, found) /\ aborts' = aborts + 1
      /\ UNCHANGED <<spec, batch, active, turn, edits, handlers, shared, late>>
  BY DEF Abort
<1> QED BY <1>1, <1>2, SignalledIs, QuietKeeps

LEMMA EditKeeps == ASSUME SubInv, NEW a \in Agents, NEW to \in SpecStatus, EditSpec(a, to) PROVE SubInv'
<1>1. aborts \in Nat /\ edits \in Nat /\ spec \in [Agents -> SpecStatus] /\ job \in [Jobs -> JobType]
  BY DEF SubInv, Types
<1>2. spec' \in [Agents -> SpecStatus] /\ edits' \in Nat
      /\ UNCHANGED <<batch, job, active, turn, aborts, handlers, shared, late>>
  BY <1>1 DEF EditSpec
<1> QED BY <1>1, <1>2, QuietKeeps

LEMMA StutterKeeps == ASSUME SubInv, UNCHANGED vars PROVE SubInv'
<1>1. aborts \in Nat /\ edits \in Nat /\ spec \in [Agents -> SpecStatus] /\ job \in [Jobs -> JobType]
  BY DEF SubInv, Types
<1> QED BY <1>1, QuietKeeps DEF vars

-----------------------------------------------------------------------------
\* A batch that ends, or begins anew, while none of its jobs is at work.
LEMMA TypesOfCalls ==
    ASSUME Types, batch' \in [Batches -> CallType], job' \in [Jobs -> JobType],
           turn' \in Batches \cup {NoBatch}, UNCHANGED <<spec, active, others, shared, late>>
    PROVE  Types'
  BY DEF Types, others

\* What is asked of a job does not change when the requests of its batch do not.
LEMMA SameRequests ==
    ASSUME NEW j \in Jobs, batch'[j[1]].reqs = batch[j[1]].reqs
    PROVE  IdOf(j)' = IdOf(j) /\ Asked(j)' = Asked(j)
  BY DEF IdOf, Request, Of, Asked

\* The table stays as it is, and so do the jobs that are at work.
LEMMA ActiveStays ==
    ASSUME Types, ActiveBook, UNCHANGED <<active, others, shared>>,
           \A b \in Batches: batch'[b].reqs = batch[b].reqs \/ \A j \in Jobs: j[1] = b => ~Asked(j),
           \A j \in Jobs: job'[j].pc \in Running <=> job[j].pc \in Running,
           \A j \in Jobs: job'[j].pc \in Running => job'[j].pc = job[j].pc /\ Asked(j)
    PROVE  ActiveBook'
<1>1. \A i \in RunIds: active[i] # NoJob => active[i] \in Jobs
  BY DEF Types
<1>2. ASSUME NEW j \in Jobs, Asked(j) PROVE IdOf(j)' = IdOf(j) /\ Asked(j)'
  <2>1. batch'[j[1]].reqs = batch[j[1]].reqs
    BY <1>2, JobIs
  <2> QED BY <1>2, <2>1, SameRequests
<1>3. (\A i \in RunIds: active[i] # NoJob => Asked(active[i]) /\ IdOf(active[i]) = i)'
  BY <1>1, <1>2 DEF ActiveBook
<1>4. handlers' = 0 => \A j \in Jobs: job'[j].pc \notin {"starting", "telling"}
  BY Pcs DEF ActiveBook, others
<1>5. handlers' = 0 => \A i \in RunIds: active'[i] # NoJob => job'[active'[i]].pc \in Running
  BY <1>1 DEF ActiveBook, others
<1>6. (~shared => \A j \in Jobs: job[j].pc \in Running => active[IdOf(j)] = j)'
  BY <1>2 DEF ActiveBook
<1> QED BY <1>3, <1>4, <1>5, <1>6 DEF ActiveBook

\* What a call that goes on with its requests leaves behind.
LEMMA GoKeeps ==
    ASSUME SubInv, NEW b \in Batches, batch[b].pc \in {"none", "routing"}, FreeTurn,
           NEW parallel \in BOOLEAN, NEW abortFirst \in BOOLEAN, NEW task \in BOOLEAN,
           NEW reqs \in Seq(Requests), Len(reqs) <= MaxJobs, task => ~parallel /\ Len(reqs) = 1,
           Go(b, parallel, abortFirst, task, reqs), UNCHANGED <<spec, active, others, shared, late>>
    PROVE  SubInv'
<1> DEFINE c == [pc |-> "running", task |-> task, parallel |-> parallel, abortFirst |-> abortFirst,
                 reqs |-> reqs, at |-> 1, tries |-> batch[b].tries]
           queued == [Unborn EXCEPT !.pc = "queued"]
<1>1. c \in CallType
  <2>1. batch[b].tries \in 0..MaxRetries /\ 1 \in 1..(MaxJobs + 1)
    BY CallFields, SubAgentsAssumption DEF SubInv
  <2> QED BY <2>1 DEF CallType, CallPcs
<1>2. /\ batch' \in [Batches -> CallType] /\ batch'[b] = c
      /\ \A d \in Batches: d # b => batch'[d] = batch[d]
  BY <1>1 DEF SubInv, Types, Go
<1>3. batch[b].reqs = <<>> /\ Len(batch[b].reqs) = 0
  BY DEF SubInv, CallBook
<1>4. \A j \in Jobs: j[1] = b => ~Asked(j) /\ job[j].pc = "none" /\ job[j].result = "none"
  <2> SUFFICES ASSUME NEW j \in Jobs, j[1] = b PROVE ~Asked(j) /\ job[j].pc = "none" /\ job[j].result = "none"
    OBVIOUS
  <2>1. ~Asked(j)
    BY <1>3, JobIs DEF Asked
  <2> QED BY <2>1 DEF SubInv, JobBook
<1>5. queued \in JobType /\ queued.pc = "queued" /\ queued.result = "none"
  BY DEF Unborn, JobType, JobPcs, RunStatus
<1>6. \A j \in Jobs: job'[j] = IF j[1] = b /\ parallel /\ j[2] <= Len(reqs) THEN queued ELSE job[j]
  BY DEF Go
<1>7. job' \in [Jobs -> JobType]
  <2>1. job' = [j \in Jobs |-> IF j[1] = b /\ parallel /\ j[2] <= Len(reqs) THEN queued ELSE job[j]]
    BY DEF Go
  <2>2. job \in [Jobs -> JobType]
    BY DEF SubInv, Types
  <2> QED BY <1>5, <2>1, <2>2
<1>8. turn' = (IF parallel THEN NoBatch ELSE b) /\ turn = NoBatch
  BY DEF Go, FreeTurn
<1> HIDE DEF c, queued
<1>9. /\ c.pc = "running" /\ c.task = task /\ c.parallel = parallel /\ c.reqs = reqs /\ c.at = 1
      /\ c.abortFirst = abortFirst
  BY DEF c
<1>10. Types'
  BY <1>2, <1>7, <1>8, TypesOfCalls DEF SubInv
<1>11. ASSUME NEW d \in Batches PROVE CallBook(d)'
  <2>1. CASE d = b
    <3>1. Len(reqs) \in Nat
      OBVIOUS
    <3> QED BY <2>1, <3>1, <1>2, <1>8, <1>9 DEF CallBook, NoBatch, Batches
  <2>2. CASE d # b
    <3>1. turn' # d
      BY <2>2, <1>8 DEF NoBatch, Batches
    <3> QED BY <2>2, <3>1, <1>2 DEF SubInv, CallBook
  <2> QED BY <2>1, <2>2
<1>12. ASSUME NEW j \in Jobs PROVE JobBook(j)'
  <2>1. j[1] \in Batches /\ j[2] \in 1..MaxJobs /\ JobBook(j)
    BY JobIs DEF SubInv
  <2>2. CASE j[1] = b
    <3>1. job[j].pc = "none" /\ job[j].result = "none"
      BY <2>2, <1>4
    <3>2. batch'[j[1]] = c
      BY <2>2, <1>2
    <3>3. CASE parallel /\ j[2] <= Len(reqs)
      <4>1. job'[j].pc = "queued" /\ job'[j].result = "none"
        BY <2>2, <3>3, <1>5, <1>6
      <4> QED BY <3>2, <3>3, <4>1, <1>9 DEF JobBook, Asked
    <3>4. CASE ~(parallel /\ j[2] <= Len(reqs))
      <4>1. job'[j].pc = "none" /\ job'[j].result = "none"
        BY <3>1, <3>4, <1>6
      <4>2. ~parallel => turn' = j[1]
        BY <2>2, <1>8
      <4> QED BY <2>1, <3>2, <4>1, <4>2, <1>9 DEF JobBook
    <3> QED BY <3>3, <3>4
  <2>3. CASE j[1] # b
    <3>1. job'[j] = job[j] /\ batch'[j[1]] = batch[j[1]]
      BY <2>1, <2>3, <1>2, <1>6
    <3>2. turn' # j[1] /\ turn # j[1]
      BY <2>1, <2>3, <1>8 DEF NoBatch, Batches
    <3> QED BY <2>1, <3>1, <3>2 DEF JobBook, Asked
  <2> QED BY <2>2, <2>3
<1>13. ActiveBook'
  <2>1. \A d \in Batches: batch'[d].reqs = batch[d].reqs \/ \A j \in Jobs: j[1] = d => ~Asked(j)
    BY <1>2, <1>4
  <2>2. \A j \in Jobs: (job'[j].pc \in Running <=> job[j].pc \in Running)
                       /\ (job'[j].pc \in Running => job'[j].pc = job[j].pc)
    BY <1>4, <1>5, <1>6, Pcs
  <2>3. \A j \in Jobs: job[j].pc \in Running => Asked(j)
    BY Pcs DEF SubInv, JobBook
  <2> QED BY <2>1, <2>2, <2>3, ActiveStays DEF SubInv
<1>14. FailureBook'
  <2> SUFFICES ASSUME NEW j \in Jobs, NEW k \in Jobs, j[1] = k[1],
                      job'[k].pc = "ended", job'[k].result \in Failing, batch'[k[1]].abortFirst
               PROVE  IF batch'[k[1]].parallel
                      THEN ~shared' => (job'[j].pc \in {"starting", "asking"} => job'[j].aborted \/ j \in late')
                      ELSE j[2] > k[2] => job'[j].pc = "none"
    BY DEF FailureBook
  <2>1. k[1] # b
    BY <1>4, <1>5, <1>6
  <2>2. job'[j] = job[j] /\ job'[k] = job[k] /\ batch'[k[1]] = batch[k[1]]
    BY <2>1, <1>2, <1>6, JobIs
  <2> QED BY <2>2 DEF SubInv, FailureBook
<1>15. PermitBook'
  <2> SUFFICES ASSUME NEW d \in Batches, batch'[d].parallel PROVE Cardinality(RunsOf(d)') <= Concurrency
    BY DEF PermitBook
  <2>1. CASE d = b
    <3>1. RunsOf(d)' = {}
      BY <2>1, <1>4, <1>5, <1>6, Pcs DEF RunsOf, JobsOf
    <3> QED BY <3>1, FS_EmptySet, SubAgentsAssumption
  <2>2. CASE d # b
    <3>1. RunsOf(d)' = RunsOf(d)
      BY <2>2, <1>2, <1>6 DEF RunsOf, JobsOf
    <3> QED BY <2>2, <3>1, <1>2 DEF SubInv, PermitBook
  <2> QED BY <2>1, <2>2
<1> QED BY <1>10, <1>11, <1>12, <1>13, <1>14, <1>15 DEF SubInv

\* A call of which nobody is at work changes its place only.
LEMMA CallMoves ==
    ASSUME SubInv, NEW b \in Batches, batch' \in [Batches -> CallType],
           \A d \in Batches: d # b => batch'[d] = batch[d],
           UNCHANGED <<batch[b].reqs, batch[b].task, batch[b].parallel, batch[b].abortFirst>>,
           \/ batch[b].pc \in {"none", "routing"} /\ batch'[b].pc = "routing"
           \/ batch'[b].pc \in {"returned", "raised"},
           batch'[b].at = 1, turn' = NoBatch, turn \in {b, NoBatch},
           \A j \in Jobs: j[1] = b => job[j].pc \in {"none", "ended"},
           UNCHANGED <<spec, job, active, others, shared, late>>
    PROVE  SubInv'
<1>1. Types'
  BY TypesOfCalls DEF SubInv, Types
<1>2. ASSUME NEW d \in Batches PROVE CallBook(d)'
  <2>1. turn' # d
    BY DEF NoBatch, Batches
  <2>2. CASE d = b
    <3>1. CallBook(b) /\ Len(batch[b].reqs) \in Nat
      BY CallFields DEF SubInv
    <3> QED BY <2>1, <2>2, <3>1 DEF CallBook
  <2>3. CASE d # b
    BY <2>1, <2>3 DEF SubInv, CallBook
  <2> QED BY <2>2, <2>3
<1>3. ASSUME NEW j \in Jobs PROVE JobBook(j)'
  <2>1. j[1] \in Batches /\ JobBook(j)
    BY JobIs DEF SubInv
  <2>2. CASE j[1] = b
    <3>1. job[j].pc \in {"none", "ended"} /\ batch'[j[1]].pc # "running"
      BY <2>2
    <3> QED BY <2>1, <2>2, <3>1 DEF JobBook, Asked
  <2>3. CASE j[1] # b
    <3>1. turn' # j[1] /\ turn # j[1] /\ batch'[j[1]] = batch[j[1]]
      BY <2>1, <2>3 DEF NoBatch, Batches
    <3> QED BY <2>1, <3>1 DEF JobBook, Asked
  <2> QED BY <2>2, <2>3
<1>4. \A d \in Batches: UNCHANGED <<batch[d].reqs, batch[d].parallel, batch[d].abortFirst>>
  OBVIOUS
<1>5. ActiveBook'
  <2>1. \A j \in Jobs: job[j].pc \in Running => Asked(j)
    BY Pcs DEF SubInv, JobBook
  <2> QED BY <1>4, <2>1, ActiveStays DEF SubInv
<1>6. FailureBook'
  <2>1. \A k \in Jobs: UNCHANGED <<batch[k[1]].parallel, batch[k[1]].abortFirst>>
    BY <1>4, JobIs
  <2> QED BY <2>1 DEF SubInv, FailureBook
<1>7. PermitBook'
  <2>1. \A d \in Batches: RunsOf(d)' = RunsOf(d)
    BY <1>4 DEF RunsOf, JobsOf
  <2> QED BY <2>1, <1>4, PermitKept DEF SubInv
<1> QED BY <1>1, <1>2, <1>3, <1>5, <1>6, <1>7 DEF SubInv

LEMMA ReturnsKeeps == ASSUME SubInv, NEW b \in Batches, Returns(b) PROVE SubInv'
<1>1. batch[b] \in CallType /\ batch \in [Batches -> CallType] /\ CallBook(b)
  BY CallFields DEF SubInv, Types
<1>2. 1 \in 1..(MaxJobs + 1)
  BY SubAgentsAssumption
<1>3. /\ batch' \in [Batches -> CallType] /\ batch'[b].pc = "returned" /\ batch'[b].at = 1
      /\ UNCHANGED <<batch[b].reqs, batch[b].task, batch[b].parallel, batch[b].abortFirst>>
      /\ \A d \in Batches: d # b => batch'[d] = batch[d]
  BY <1>1, <1>2 DEF Returns, CallType, CallPcs
<1>4. ASSUME NEW j \in Jobs, j[1] = b PROVE job[j].pc \in {"none", "ended"}
  <2>1. JobBook(j) /\ j[2] \in 1..MaxJobs
    BY JobIs DEF SubInv
  <2>2. CASE batch[b].parallel
    BY <1>4, <2>1, <2>2, InJobsOf DEF Returns, JobBook
  <2>3. CASE ~batch[b].parallel
    <3>1. turn = b /\ batch[b].pc = "running"
      BY <2>3 DEF Returns
    <3>2. j[2] < batch[b].at => job[j].pc = "ended"
      BY <1>4, <2>1, <2>3, <3>1 DEF JobBook
    <3>3. j[2] > batch[b].at => job[j].pc = "none"
      BY <1>4, <2>1, <2>3, <3>1 DEF JobBook
    <3>4. j[2] = batch[b].at => job[j].pc = "none"
      <4>1. j[2] <= Len(batch[b].reqs) \/ job[j].pc = "none"
        BY <1>4, <2>1 DEF JobBook, Asked
      <4> QED BY <1>4, <2>1, <2>3, <3>1, <4>1 DEF JobBook
    <3>5. batch[b].at \in Nat
      BY CallFields DEF SubInv
    <3> QED BY <2>1, <3>2, <3>3, <3>4, <3>5
  <2> QED BY <2>2, <2>3
<1>5. turn \in {b, NoBatch} /\ turn' = NoBatch /\ UNCHANGED <<spec, job, active, others, shared, late>>
  BY DEF Returns, FreeTurn
<1> QED BY <1>3, <1>4, <1>5, CallMoves

\* A call that has no requests yet.
LEMMA NoneAtWork ==
    ASSUME SubInv, NEW b \in Batches, batch[b].pc \in {"none", "routing"}
    PROVE  /\ batch[b].at = 1 /\ \A j \in Jobs: j[1] = b => job[j].pc \in {"none", "ended"}
<1>1. CallBook(b) /\ batch[b].at \in Nat /\ batch[b].at >= 1
  BY CallFields DEF SubInv
<1>2. batch[b].reqs = <<>> /\ Len(batch[b].reqs) = 0 /\ ~batch[b].parallel
  BY <1>1 DEF CallBook
<1>3. batch[b].at = 1
  BY <1>1, <1>2 DEF CallBook
<1>4. ASSUME NEW j \in Jobs, j[1] = b PROVE job[j].pc \in {"none", "ended"}
  BY <1>2, <1>4 DEF SubInv, JobBook
<1> QED BY <1>3, <1>4

LEMMA RoutingMoves ==
    ASSUME SubInv, NEW b \in Batches, batch[b].pc \in {"none", "routing"}, FreeTurn,
           NEW pc \in {"routing", "raised"}, batch' = [batch EXCEPT ![b].pc = pc],
           UNCHANGED <<spec, job, active, turn, others, shared, late>>
    PROVE  SubInv'
<1>1. batch[b] \in CallType /\ batch \in [Batches -> CallType]
  BY CallFields DEF SubInv, Types
<1>2. /\ batch' \in [Batches -> CallType] /\ batch'[b].pc = pc /\ batch'[b].at = batch[b].at
      /\ UNCHANGED <<batch[b].reqs, batch[b].task, batch[b].parallel, batch[b].abortFirst>>
      /\ \A d \in Batches: d # b => batch'[d] = batch[d]
  BY <1>1 DEF CallType, CallPcs
<1>3. turn = NoBatch /\ turn' = NoBatch
  BY DEF FreeTurn
<1> QED BY <1>2, <1>3, NoneAtWork, CallMoves

LEMMA AnswersKeeps == ASSUME SubInv, NEW b \in Batches, RouterAnswers(b) PROVE SubInv'
<1>1. FreeTurn /\ batch[b].pc = "routing" /\ UNCHANGED <<spec, active, others, shared, late>>
  BY DEF RouterAnswers
<1>2. PICK names \in Routes, parallel \in BOOLEAN:
        IF \E i \in DOMAIN names: ~Resolvable(Resolved(names[i]))
        THEN batch' = [batch EXCEPT ![b].pc = "raised"] /\ UNCHANGED <<job, turn>>
        ELSE Go(b, parallel /\ Len(names) > 1, FALSE, FALSE,
                [i \in DOMAIN names |-> [agent |-> Resolved(names[i]), given |-> FALSE]])
  BY DEF RouterAnswers
<1>3. CASE \E i \in DOMAIN names: ~Resolvable(Resolved(names[i]))
  BY <1>1, <1>2, <1>3, RoutingMoves
<1>4. CASE \A i \in DOMAIN names: Resolvable(Resolved(names[i]))
  <2> DEFINE reqs == [i \in DOMAIN names |-> [agent |-> Resolved(names[i]), given |-> FALSE]]
             side == parallel /\ Len(names) > 1
  <2>1. Len(names) \in 0..MaxJobs /\ DOMAIN names = 1..Len(names)
    BY SubAgentsAssumption
  <2>2. \A i \in DOMAIN names: [agent |-> Resolved(names[i]), given |-> FALSE] \in Requests
    BY SubAgentsAssumption DEF Resolved, Resolvable, Requests
  <2>3. reqs \in [1..Len(names) -> Requests] /\ Len(names) \in Nat
    BY <2>1, <2>2, SubAgentsAssumption
  <2>4. reqs \in Seq(Requests) /\ Len(reqs) <= MaxJobs
    BY <2>1, <2>3, SubAgentsAssumption
  <2>5. Go(b, side, FALSE, FALSE, reqs) /\ side \in BOOLEAN
    BY <1>2, <1>4
  <2> HIDE DEF reqs, side
  <2> QED BY <1>1, <2>4, <2>5, GoKeeps
<1> QED BY <1>3, <1>4

LEMMA CallsKeep ==
    ASSUME SubInv, NEW b \in Batches, RunMany(b) \/ RunOne(b) \/ RunTask(b) \/ RouteAndRun(b) \/ RouterFails(b)
    PROVE  SubInv'
<1>1. ASSUME NEW reqs \in Lists PROVE reqs \in Seq(Requests) /\ Len(reqs) <= MaxJobs
  BY SubAgentsAssumption DEF Requests
<1>2. CASE RunMany(b)
  <2>1. PICK reqs \in Lists, parallel \in BOOLEAN, abortFirst \in BOOLEAN: Go(b, parallel, abortFirst, FALSE, reqs)
    BY <1>2 DEF RunMany
  <2> QED BY <1>1, <1>2, <2>1, GoKeeps DEF RunMany, Fresh
<1>3. CASE RunOne(b)
  <2>1. PICK reqs \in Lists: Len(reqs) = 1 /\ Go(b, FALSE, FALSE, FALSE, reqs)
    BY <1>3 DEF RunOne
  <2> QED BY <1>1, <1>3, <2>1, GoKeeps DEF RunOne, Fresh
<1>4. CASE RunTask(b)
  <2>1. PICK reqs \in Lists: Len(reqs) = 1 /\ Go(b, FALSE, FALSE, TRUE, reqs)
    BY <1>4 DEF RunTask
  <2> QED BY <1>1, <1>4, <2>1, GoKeeps DEF RunTask, Fresh
<1>5. CASE RouteAndRun(b)
  BY <1>5, RoutingMoves DEF RouteAndRun, Fresh
<1>6. CASE RouterFails(b)
  BY <1>6, RoutingMoves DEF RouterFails
<1> QED BY <1>2, <1>3, <1>4, <1>5, <1>6

LEMMA RetryKeeps == ASSUME SubInv, NEW b \in Batches, RetryTask(b) PROVE SubInv'
<1> DEFINE first == <<b, 1>>
<1>1. first \in Jobs /\ first[1] = b /\ first[2] = 1
  BY OfBatch, SubAgentsAssumption
<1>2. /\ FreeTurn /\ batch[b].task /\ batch[b].pc \in {"returned", "raised"} /\ batch[b].tries < MaxRetries
      /\ UNCHANGED <<spec, active, others, shared, late>>
  BY DEF RetryTask
<1>3. ~batch[b].parallel /\ Len(batch[b].reqs) = 1
  BY <1>2 DEF SubInv, CallBook
<1>4. /\ batch' \in [Batches -> CallType] /\ batch'[b].pc = "running" /\ batch'[b].at = 1
      /\ UNCHANGED <<batch[b].reqs, batch[b].task, batch[b].parallel, batch[b].abortFirst>>
      /\ \A d \in Batches: d # b => batch'[d] = batch[d]
  <2>1. batch[b] \in CallType /\ batch \in [Batches -> CallType]
    BY CallFields DEF SubInv, Types
  <2>2. 1 \in 1..(MaxJobs + 1) /\ batch[b].tries + 1 \in 0..MaxRetries
    BY <1>2, CallFields, SubAgentsAssumption DEF SubInv
  <2> DEFINE x == [batch[b] EXCEPT !.pc = "running", !.at = 1, !.tries = batch[b].tries + 1]
  <2>3. batch' = [batch EXCEPT ![b] = x]
    <3>1. \A d \in Batches: batch'[d] = [batch EXCEPT ![b] = x][d]
      BY <2>1 DEF RetryTask, CallType
    <3> QED BY <2>1, <3>1 DEF RetryTask
  <2>4. /\ x \in CallType /\ x.pc = "running" /\ x.at = 1
        /\ x.reqs = batch[b].reqs /\ x.task = batch[b].task /\ x.parallel = batch[b].parallel
        /\ x.abortFirst = batch[b].abortFirst
    BY <2>1, <2>2 DEF CallType, CallPcs
  <2> HIDE DEF x
  <2> QED BY <2>1, <2>3, <2>4
<1>5. /\ job' \in [Jobs -> JobType] /\ job'[first].pc = "none" /\ job'[first].result = "none"
      /\ \A j \in Jobs: j # first => job'[j] = job[j]
  <2>1. Unborn \in JobType /\ Unborn.pc = "none" /\ Unborn.result = "none"
    BY DEF Unborn, JobType, JobPcs, RunStatus
  <2>2. job' = [job EXCEPT ![first] = Unborn]
    BY DEF RetryTask
  <2>3. job \in [Jobs -> JobType]
    BY DEF SubInv, Types
  <2> HIDE DEF first
  <2> QED BY <1>1, <2>1, <2>2, <2>3
<1>6. \A j \in Jobs: j[1] = b => j = first \/ job[j].pc = "none"
  <2> SUFFICES ASSUME NEW j \in Jobs, j[1] = b, job[j].pc # "none" PROVE j = first
    OBVIOUS
  <2>1. j[2] \in 1..MaxJobs /\ j[2] <= 1
    BY <1>3, JobIs DEF SubInv, JobBook, Asked
  <2> QED BY <1>1, <2>1, JobEq
<1>7. job[first].pc \in {"none", "ended"}
  BY <1>1, <1>2, <1>3 DEF SubInv, JobBook
<1>8. turn' = b /\ turn = NoBatch
  BY <1>2 DEF RetryTask, FreeTurn
<1> HIDE DEF first
<1>9. Types'
  BY <1>2, <1>4, <1>5, <1>8, TypesOfCalls DEF SubInv
<1>10. ASSUME NEW d \in Batches PROVE CallBook(d)'
  <2>1. CASE d = b
    BY <2>1, <1>3, <1>4, <1>8 DEF SubInv, CallBook
  <2>2. CASE d # b
    BY <2>2, <1>4, <1>8 DEF SubInv, CallBook
  <2> QED BY <2>1, <2>2
<1>11. ASSUME NEW j \in Jobs PROVE JobBook(j)'
  <2>1. j[1] \in Batches /\ j[2] \in 1..MaxJobs /\ JobBook(j)
    BY JobIs DEF SubInv
  <2>2. CASE j[1] = b
    <3>1. job'[j].pc = "none" /\ job'[j].result = "none"
      <4>1. CASE j = first
        BY <4>1, <1>5
      <4>2. CASE j # first
        BY <4>2, <2>1, <2>2, <1>5, <1>6 DEF JobBook
      <4> QED BY <4>1, <4>2
    <3>2. batch'[j[1]].pc = "running" /\ batch'[j[1]].at = 1 /\ turn' = j[1]
      BY <2>2, <1>4, <1>8
    <3> QED BY <2>1, <3>1, <3>2 DEF JobBook
  <2>3. CASE j[1] # b
    <3>1. job'[j] = job[j] /\ batch'[j[1]] = batch[j[1]]
      BY <2>1, <2>3, <1>1, <1>4, <1>5
    <3>2. turn' # j[1] /\ turn # j[1]
      BY <2>1, <2>3, <1>8 DEF NoBatch, Batches
    <3> QED BY <2>1, <3>1, <3>2 DEF JobBook, Asked
  <2> QED BY <2>2, <2>3
<1>12. ActiveBook'
  <2>1. \A d \in Batches: batch'[d].reqs = batch[d].reqs
    BY <1>4
  <2>2. \A j \in Jobs: (job'[j].pc \in Running <=> job[j].pc \in Running)
                       /\ (job'[j].pc \in Running => job'[j].pc = job[j].pc)
    BY <1>5, <1>7, Pcs
  <2>3. \A j \in Jobs: job[j].pc \in Running => Asked(j)
    BY Pcs DEF SubInv, JobBook
  <2> QED BY <1>2, <2>1, <2>2, <2>3, ActiveStays DEF SubInv
<1>13. FailureBook'
  <2> SUFFICES ASSUME NEW j \in Jobs, NEW k \in Jobs, j[1] = k[1],
                      job'[k].pc = "ended", job'[k].result \in Failing, batch'[k[1]].abortFirst
               PROVE  IF batch'[k[1]].parallel
                      THEN ~shared' => (job'[j].pc \in {"starting", "asking"} => job'[j].aborted \/ j \in late')
                      ELSE j[2] > k[2] => job'[j].pc = "none"
    BY DEF FailureBook
  <2>1. k[1] # b
    BY <1>5, <1>6
  <2>2. job'[j] = job[j] /\ job'[k] = job[k] /\ batch'[k[1]] = batch[k[1]]
    BY <2>1, <1>1, <1>4, <1>5, JobIs
  <2> QED BY <2>2, <1>2 DEF SubInv, FailureBook
<1>14. PermitBook'
  <2>1. \A d \in Batches: RunsOf(d)' \subseteq RunsOf(d)
    BY <1>4, <1>5, Pcs DEF RunsOf, JobsOf
  <2>2. \A d \in Batches: batch'[d].parallel => batch[d].parallel
    BY <1>4
  <2> QED BY <2>1, <2>2, PermitKept DEF SubInv
<1> QED BY <1>9, <1>10, <1>11, <1>12, <1>13, <1>14 DEF SubInv

LEMMA CancelKeeps == ASSUME SubInv, NEW b \in Batches, CancelCaller(b) PROVE SubInv'
<1> DEFINE open == {j \in JobsOf(b): job[j].pc \in {"queued"} \cup Running}
           taken(i) == \E j \in open: IdOf(j) = i /\ job[j].pc \in {"asking", "telling"}
<1>1. /\ FreeTurn /\ batch[b].pc \in {"routing", "running"} /\ aborts' = aborts + 1
      /\ UNCHANGED <<spec, turn, edits, handlers, shared, late>>
  BY DEF CancelCaller
<1>2. /\ batch' \in [Batches -> CallType] /\ batch'[b].pc = "cancelled" /\ batch'[b].at = 1
      /\ UNCHANGED <<batch[b].reqs, batch[b].task, batch[b].parallel, batch[b].abortFirst>>
      /\ \A d \in Batches: d # b => batch'[d] = batch[d]
  <2>1. batch[b] \in CallType /\ batch \in [Batches -> CallType] /\ 1 \in 1..(MaxJobs + 1)
    BY CallFields, SubAgentsAssumption DEF SubInv, Types
  <2> QED BY <2>1 DEF CancelCaller, CallType, CallPcs
<1>3. \A j \in Jobs: job'[j] = IF j \in open THEN Ended("cancelled") ELSE job[j]
  BY DEF CancelCaller
<1>4. Ended("cancelled") \in JobType /\ Ended("cancelled").pc = "ended" /\ Ended("cancelled").result = "cancelled"
  BY DEF Ended, JobType, JobPcs, RunStatus
<1>5. job' \in [Jobs -> JobType]
  <2>1. job' = [j \in Jobs |-> IF j \in open THEN Ended("cancelled") ELSE job[j]]
    BY DEF CancelCaller
  <2>2. job \in [Jobs -> JobType]
    BY DEF SubInv, Types
  <2> HIDE DEF open
  <2> QED BY <1>4, <2>1, <2>2
<1>6. \A i \in RunIds: active'[i] = IF taken(i) THEN NoJob ELSE active[i]
  BY DEF CancelCaller
<1>7. active' \in [RunIds -> Jobs \cup {NoJob}]
  <2>1. active' = [i \in RunIds |-> IF taken(i) THEN NoJob ELSE active[i]]
    BY DEF CancelCaller
  <2>2. active \in [RunIds -> Jobs \cup {NoJob}]
    BY DEF SubInv, Types
  <2> HIDE DEF taken
  <2> QED BY <2>1, <2>2
<1>8. ASSUME NEW j \in Jobs
      PROVE  /\ j \in open => j[1] = b
             /\ j[1] = b => job'[j].pc \in {"none", "ended"}
             /\ job'[j].pc = "none" => job'[j] = job[j]
  <2>1. j \in open => j[1] = b
    BY DEF JobsOf
  <2>2. ASSUME j[1] = b, j \notin open PROVE job[j].pc \in {"none", "ended"}
    <3>1. job[j].pc # "none" => Asked(j)
      BY DEF SubInv, JobBook
    <3>2. job[j].pc \in JobPcs
      BY JobFields DEF SubInv
    <3> QED BY <2>2, <3>1, <3>2, InJobsOf, Pcs
  <2>3. j[1] = b => job'[j].pc \in {"none", "ended"}
    BY <2>2, <1>3, <1>4
  <2>4. job'[j].pc = "none" => job'[j] = job[j]
    BY <1>3, <1>4
  <2> QED BY <2>1, <2>3, <2>4
<1>9. \A d \in Batches: UNCHANGED <<batch[d].reqs, batch[d].parallel, batch[d].abortFirst>>
  BY <1>2
<1>10. Types'
  <2>1. aborts' \in Nat
    BY <1>1 DEF SubInv, Types
  <2> QED BY <1>1, <1>2, <1>5, <1>7, <2>1 DEF SubInv, Types
<1>11. ASSUME NEW d \in Batches PROVE CallBook(d)'
  <2>1. turn' # d
    BY <1>1 DEF FreeTurn, NoBatch, Batches
  <2>2. CASE d = b
    <3>1. CallBook(b) /\ Len(batch[b].reqs) \in Nat
      BY CallFields DEF SubInv
    <3> QED BY <2>1, <2>2, <3>1, <1>2 DEF CallBook
  <2>3. CASE d # b
    BY <2>1, <2>3, <1>2 DEF SubInv, CallBook
  <2> QED BY <2>2, <2>3
<1>12. ASSUME NEW j \in Jobs PROVE JobBook(j)'
  <2>1. j[1] \in Batches /\ JobBook(j) /\ job[j].pc \in JobPcs
    BY JobIs, JobFields DEF SubInv
  <2>2. CASE j[1] = b
    <3>1. batch'[j[1]].pc = "cancelled" /\ batch'[j[1]].reqs = batch[j[1]].reqs
      BY <2>2, <1>2
    <3>2. job'[j].pc \in {"none", "ended"} /\ (job'[j].pc = "none" => job'[j].result = "none")
      BY <2>1, <2>2, <1>8 DEF JobBook
    <3>3. job'[j].pc # "none" => Asked(j)
      <4>1. job[j].pc # "none" => Asked(j)
        BY <2>1 DEF JobBook
      <4>2. j \in open => job[j].pc # "none"
        BY Pcs
      <4> QED BY <4>1, <4>2, <1>3
    <3> QED BY <3>1, <3>2, <3>3 DEF JobBook, Asked
  <2>3. CASE j[1] # b
    <3>1. job'[j] = job[j] /\ batch'[j[1]] = batch[j[1]]
      BY <2>1, <2>3, <1>2, <1>3, <1>8
    <3>2. turn' # j[1] /\ turn # j[1]
      BY <2>1, <1>1 DEF FreeTurn, NoBatch, Batches
    <3> QED BY <2>1, <3>1, <3>2 DEF JobBook, Asked
  <2> QED BY <2>2, <2>3
<1>13. ActiveBook'
  <2>1. \A j \in Jobs: IdOf(j)' = IdOf(j) /\ Asked(j)' = Asked(j)
    BY <1>9, JobIs, SameRequests
  <2>2. \A i \in RunIds: active[i] # NoJob => active[i] \in Jobs
    BY DEF SubInv, Types
  <2>3. (\A i \in RunIds: active[i] # NoJob => Asked(active[i]) /\ IdOf(active[i]) = i)'
    BY <1>6, <2>1, <2>2 DEF SubInv, ActiveBook
  <2>4. handlers' = 0 => \A j \in Jobs: job'[j].pc \notin {"starting", "telling"}
    BY <1>1, <1>3, <1>4 DEF SubInv, ActiveBook
  <2>5. ASSUME handlers' = 0, NEW i \in RunIds, active'[i] # NoJob PROVE job'[active'[i]].pc \in Running
    <3>1. active'[i] = active[i] /\ ~taken(i) /\ active[i] # NoJob
      BY <2>5, <1>6
    <3>2. /\ active[i] \in Jobs /\ IdOf(active[i]) = i /\ job[active[i]].pc \in Running
          /\ job[active[i]].pc \notin {"starting", "telling"}
      BY <2>2, <2>5, <3>1, <1>1 DEF SubInv, ActiveBook
    <3>3. active[i] \notin open
      BY <3>1, <3>2, Pcs
    <3> QED BY <3>1, <3>2, <3>3, <1>3
  <2>6. (~shared => \A j \in Jobs: job[j].pc \in Running => active[IdOf(j)] = j)'
    <3> SUFFICES ASSUME ~shared, NEW j \in Jobs, job'[j].pc \in Running PROVE active'[IdOf(j)] = j
      BY <1>1, <2>1
    <3>1. j \notin open /\ job[j].pc \in Running
      BY <1>3, <1>4, Pcs
    <3>2. ~taken(IdOf(j))
      <4> SUFFICES ASSUME NEW k \in open, IdOf(k) = IdOf(j), job[k].pc \in {"asking", "telling"} PROVE FALSE
        OBVIOUS
      <4>1. k \in Jobs /\ job[k].pc \in Running
        BY Pcs DEF JobsOf
      <4>2. active[IdOf(k)] = k /\ active[IdOf(j)] = j
        BY <3>1, <4>1 DEF SubInv, ActiveBook
      <4> QED BY <3>1, <4>2
    <3> QED BY <3>1, <3>2, <1>6, IdIs DEF SubInv, ActiveBook
  <2> QED BY <2>3, <2>4, <2>5, <2>6 DEF ActiveBook
<1>14. FailureBook'
  <2> SUFFICES ASSUME NEW j \in Jobs, NEW k \in Jobs, j[1] = k[1],
                      job'[k].pc = "ended", job'[k].result \in Failing, batch'[k[1]].abortFirst
               PROVE  IF batch'[k[1]].parallel
                      THEN ~shared' => (job'[j].pc \in {"starting", "asking"} => job'[j].aborted \/ j \in late')
                      ELSE j[2] > k[2] => job'[j].pc = "none"
    BY DEF FailureBook
  <2>1. job'[k] = job[k] /\ k \notin open
    BY <1>3, <1>4 DEF Failing
  <2>2. UNCHANGED <<batch[k[1]].parallel, batch[k[1]].abortFirst>>
    BY <1>9, JobIs
  <2>3. CASE job'[j] = job[j]
    BY <2>1, <2>2, <2>3, <1>1 DEF SubInv, FailureBook
  <2>4. CASE j \in open
    <3>1. job[j].pc # "none" /\ job'[j].pc = "ended"
      BY <2>4, <1>3, <1>4, Pcs
    <3>2. ~batch[k[1]].parallel => ~(j[2] > k[2])
      BY <2>1, <2>2, <3>1 DEF SubInv, FailureBook
    <3> QED BY <2>2, <3>1, <3>2
  <2> QED BY <2>3, <2>4, <1>3
<1>15. PermitBook'
  <2>1. \A d \in Batches: RunsOf(d)' \subseteq RunsOf(d)
    BY <1>3, <1>4, <1>9, Pcs DEF RunsOf, JobsOf
  <2> QED BY <2>1, <1>9, PermitKept DEF SubInv
<1> QED BY <1>10, <1>11, <1>12, <1>13, <1>14, <1>15 DEF SubInv

-----------------------------------------------------------------------------
\* A run begins, goes on or ends.
Alike(j) ==
    /\ job' \in [Jobs -> JobType]
    /\ \A k \in Jobs: k # j => /\ job'[k].pc = job[k].pc /\ job'[k].result = job[k].result
                               /\ job[k].aborted => job'[k].aborted

EndsAs(j, r) ==
    LET b == j[1] IN
    /\ job'[j].pc = "ended" /\ job'[j].result = r
    /\ batch' = [batch EXCEPT ![b] = IF @.pc = "running" THEN NextOf(b, r) ELSE @]
    /\ turn' = IF batch'[b].pc = "running" /\ ~Of(j).parallel THEN b ELSE NoBatch

GoesOn(j) ==
    /\ job'[j].pc \in Running /\ (job'[j].pc \in {"starting", "asking"} => job'[j].result = "none")
    /\ UNCHANGED batch /\ turn' = NoBatch

Moves(j) == Alike(j) /\ (GoesOn(j) \/ \E r \in RunStatus: EndsAs(j, r))

MayMove(j) ==
    /\ Asked(j)
    /\ \/ FreeTurn /\ job[j].pc \in Running \cup {"queued"}
       \/ turn = j[1] /\ j[2] = batch[j[1]].at

\* A run in sequence is at the place of its batch, with the others before or behind it.
LEMMA PlaceIs ==
    ASSUME SubInv, NEW j \in Jobs, MayMove(j)
    PROVE  /\ turn \in {j[1], NoBatch}
           /\ batch[j[1]].parallel => job[j].pc \in Running \cup {"queued"}
                                      /\ batch[j[1]].pc \in {"running", "raised"} /\ FreeTurn
           /\ ~batch[j[1]].parallel =>
                 /\ batch[j[1]].pc = "running" /\ j[2] = batch[j[1]].at
                 /\ job[j].pc \in Running \cup {"none"} /\ (turn = j[1] <=> job[j].pc = "none")
                 /\ \A k \in Jobs: k[1] = j[1] /\ k # j =>
                       /\ k[2] < j[2] => job[k].pc = "ended"
                       /\ k[2] > j[2] => job[k].pc = "none"
                       /\ k[2] # j[2]
<1>1. /\ j[1] \in Batches /\ j[2] \in 1..MaxJobs /\ JobBook(j) /\ CallBook(j[1]) /\ j[1] # NoBatch
      /\ batch[j[1]].pc \in CallPcs /\ batch[j[1]].at \in Nat
  BY JobIs, CallFields DEF SubInv
<1>2. turn \in {j[1], NoBatch}
  BY DEF MayMove, FreeTurn
<1>3. ASSUME batch[j[1]].parallel
      PROVE  /\ job[j].pc \in Running \cup {"queued"} /\ batch[j[1]].pc \in {"running", "raised"} /\ FreeTurn
  <2>1. turn # j[1]
    BY <1>1, <1>3 DEF CallBook
  <2>2. job[j].pc \in Running \cup {"queued"} /\ FreeTurn
    BY <2>1 DEF MayMove
  <2>3. job[j].pc \notin {"none", "ended"}
    BY <2>2, Pcs
  <2>4. batch[j[1]].pc \notin {"returned", "cancelled"}
    BY <1>1, <2>3 DEF JobBook
  <2>5. batch[j[1]].pc \notin {"none", "routing"}
    BY <1>1, <1>3 DEF CallBook
  <2> QED BY <1>1, <2>2, <2>4, <2>5 DEF CallPcs
<1>4. ASSUME ~batch[j[1]].parallel
      PROVE  /\ batch[j[1]].pc = "running" /\ j[2] = batch[j[1]].at
             /\ job[j].pc \in Running \cup {"none"} /\ (turn = j[1] <=> job[j].pc = "none")
  <2>1. CASE turn = j[1]
    <3>1. batch[j[1]].pc = "running" /\ j[2] = batch[j[1]].at
      BY <1>1, <2>1 DEF MayMove, CallBook, FreeTurn
    <3> QED BY <1>1, <1>4, <2>1, <3>1 DEF MayMove, JobBook, Asked
  <2>2. CASE turn # j[1]
    <3>1. job[j].pc \in Running /\ job[j].pc \notin {"none", "ended"}
      BY <1>1, <1>4, <2>2, Pcs DEF MayMove, JobBook
    <3>2. batch[j[1]].pc = "running"
      BY <1>1, <1>4, <3>1 DEF JobBook
    <3>3. ~(j[2] < batch[j[1]].at) /\ ~(j[2] > batch[j[1]].at)
      BY <1>1, <1>4, <3>1, <3>2 DEF JobBook
    <3> QED BY <1>1, <2>2, <3>1, <3>2, <3>3
  <2> QED BY <2>1, <2>2
<1>5. ASSUME ~batch[j[1]].parallel, NEW k \in Jobs, k[1] = j[1], k # j
      PROVE  /\ k[2] < j[2] => job[k].pc = "ended"
             /\ k[2] > j[2] => job[k].pc = "none"
             /\ k[2] # j[2]
  <2>1. JobBook(k) /\ k[2] # j[2]
    BY <1>5, JobEq DEF SubInv
  <2> QED BY <1>4, <1>5, <2>1 DEF JobBook
<1> QED BY <1>2, <1>3, <1>4, <1>5

LEMMA EndedBatch ==
    ASSUME SubInv, NEW j \in Jobs, MayMove(j), NEW r \in RunStatus, EndsAs(j, r)
    PROVE  /\ batch' \in [Batches -> CallType] /\ \A d \in Batches: d # j[1] => batch'[d] = batch[d]
           /\ LET b == j[1]
                  c == batch'[b]
              IN  /\ c.reqs = batch[b].reqs /\ c.task = batch[b].task /\ c.parallel = batch[b].parallel
                  /\ c.abortFirst = batch[b].abortFirst
                  /\ \/ batch[b].pc # "running" /\ c.pc = batch[b].pc /\ c.at = batch[b].at
                     \/ batch[b].pc = "running" /\ c.pc = "raised" /\ c.at = 1
                     \/ /\ batch[b].pc = "running" /\ c.pc = "running"
                        /\ c.at = IF batch[b].parallel THEN batch[b].at ELSE batch[b].at + 1
<1> DEFINE b == j[1]
           x == NextOf(b, r)
<1>1. /\ b \in Batches /\ batch[b] \in CallType /\ batch \in [Batches -> CallType]
      /\ ~batch[b].parallel => batch[b].at \in 1..MaxJobs
  BY JobIs, CallFields, PlaceIs DEF SubInv, Types
<1>2. 1 \in 1..(MaxJobs + 1) /\ (~batch[b].parallel => batch[b].at + 1 \in 1..(MaxJobs + 1))
  BY <1>1, SubAgentsAssumption
<1>3. /\ x \in CallType /\ x.reqs = batch[b].reqs /\ x.task = batch[b].task
      /\ x.parallel = batch[b].parallel /\ x.abortFirst = batch[b].abortFirst
  <2>1. CASE r = "raised"
    BY <1>1, <1>2, <2>1 DEF NextOf, CallType, CallPcs
  <2>2. CASE r # "raised"
    BY <1>1, <1>2, <2>2 DEF NextOf, CallType, CallPcs
  <2> QED BY <2>1, <2>2
<1>4. ASSUME batch[b].pc = "running"
      PROVE  \/ x.pc = "raised" /\ x.at = 1
             \/ x.pc = "running" /\ x.at = IF batch[b].parallel THEN batch[b].at ELSE batch[b].at + 1
  <2>1. CASE r = "raised"
    BY <1>1, <2>1 DEF NextOf, CallType
  <2>2. CASE r # "raised"
    BY <1>1, <1>4, <2>2 DEF NextOf, CallType
  <2> QED BY <2>1, <2>2
<1>5. batch' = [batch EXCEPT ![b] = IF batch[b].pc = "running" THEN x ELSE batch[b]]
  BY DEF EndsAs
<1> HIDE DEF b, x
<1>6. CASE batch[b].pc = "running"
  <2>1. batch' = [batch EXCEPT ![b] = x]
    BY <1>5, <1>6
  <2>2. batch'[b] = x /\ batch' \in [Batches -> CallType] /\ \A d \in Batches: d # b => batch'[d] = batch[d]
    BY <1>1, <1>3, <2>1
  <2> QED BY <1>3, <1>4, <1>6, <2>2 DEF b
<1>7. CASE batch[b].pc # "running"
  <2>1. batch' = batch
    BY <1>1, <1>5, <1>7
  <2> QED BY <1>1, <1>7, <2>1 DEF b
<1> QED BY <1>6, <1>7

\* What Moves leaves of the batches.
LEMMA MovedBatch ==
    ASSUME SubInv, NEW j \in Jobs, MayMove(j), Moves(j)
    PROVE  /\ batch' \in [Batches -> CallType] /\ turn' \in Batches \cup {NoBatch}
           /\ \A d \in Batches: /\ d # j[1] => batch'[d] = batch[d]
                                /\ UNCHANGED <<batch[d].reqs, batch[d].task, batch[d].parallel, batch[d].abortFirst>>
<1>1. j[1] \in Batches /\ batch \in [Batches -> CallType]
  BY JobIs DEF SubInv, Types
<1>2. CASE GoesOn(j)
  BY <1>1, <1>2 DEF GoesOn
<1>3. CASE \E r \in RunStatus: EndsAs(j, r)
  BY <1>1, <1>3, EndedBatch DEF EndsAs
<1> QED BY <1>2, <1>3 DEF Moves

LEMMA CallsMove ==
    ASSUME SubInv, NEW j \in Jobs, MayMove(j), Moves(j), NEW d \in Batches
    PROVE  CallBook(d)'
<1>1. CallBook(d) /\ batch[d].at \in Nat /\ Len(batch[d].reqs) \in Nat
  BY CallFields DEF SubInv
<1>2. turn \in {j[1], NoBatch} /\ d # NoBatch
  BY PlaceIs DEF NoBatch, Batches
<1>3. CASE GoesOn(j)
  BY <1>1, <1>2, <1>3 DEF GoesOn, CallBook
<1>4. ASSUME NEW r \in RunStatus, EndsAs(j, r) PROVE CallBook(d)'
  <2>1. CASE d # j[1]
    <3>1. batch'[d] = batch[d] /\ turn' # d
      BY <1>2, <1>4, <2>1, EndedBatch DEF EndsAs
    <3> QED BY <1>1, <3>1 DEF CallBook
  <2>2. CASE d = j[1]
    <3>1. turn' = d => batch'[d].pc = "running" /\ ~batch[d].parallel
      BY <1>2, <1>4, <2>2 DEF EndsAs, Of
    <3>2. ~batch[d].parallel => batch[d].at <= Len(batch[d].reqs) /\ batch[d].pc = "running"
      BY <2>2, PlaceIs DEF MayMove, Asked
    <3>3. /\ UNCHANGED <<batch[d].reqs, batch[d].task, batch[d].parallel>>
          /\ batch'[d].pc \in {"none", "routing"} => batch'[d].pc = batch[d].pc
          /\ batch'[d].at \in {1, batch[d].at} \/ (~batch[d].parallel /\ batch'[d].at = batch[d].at + 1)
          /\ batch[d].parallel => batch'[d].at \in {1, batch[d].at}
      BY <1>4, <2>2, EndedBatch
    <3> QED BY <1>1, <3>1, <3>2, <3>3 DEF CallBook
  <2> QED BY <2>1, <2>2
<1> QED BY <1>3, <1>4 DEF Moves

LEMMA JobsMove ==
    ASSUME SubInv, NEW j \in Jobs, MayMove(j), Moves(j), NEW k \in Jobs
    PROVE  JobBook(k)'
<1>1. /\ JobBook(k) /\ k[1] \in Batches /\ k[2] \in 1..MaxJobs /\ job[k].pc \in JobPcs
      /\ batch[k[1]].at \in Nat /\ k[1] # NoBatch /\ j[1] # NoBatch
  BY JobIs, JobFields, CallFields DEF SubInv
<1>2. turn \in {j[1], NoBatch} /\ Asked(j) /\ Asked(k)' = Asked(k)
  BY <1>1, PlaceIs, MovedBatch, SameRequests DEF MayMove
<1>3. ASSUME k[1] # j[1] PROVE JobBook(k)'
  <2>1. batch'[k[1]] = batch[k[1]] /\ turn' # k[1] /\ turn # k[1]
    <3>1. turn' \in {j[1], NoBatch}
      BY DEF Moves, GoesOn, EndsAs
    <3> QED BY <1>1, <1>2, <1>3, <3>1, MovedBatch
  <2>2. job'[k].pc = job[k].pc /\ job'[k].result = job[k].result
    BY <1>3 DEF Moves, Alike
  <2> QED BY <1>1, <1>2, <2>1, <2>2 DEF JobBook
<1>4. ASSUME k[1] = j[1], GoesOn(j) PROVE JobBook(k)'
  <2>1. UNCHANGED batch /\ turn' # k[1] /\ job'[j].pc \in Running
    BY <1>1, <1>4 DEF GoesOn
  <2>2. CASE k = j
    <3>1. /\ job'[k].pc \notin {"none", "queued", "ended"} /\ Asked(k)
          /\ job'[k].pc \in {"starting", "asking"} => job'[k].result = "none"
      BY <1>2, <1>4, <2>1, <2>2, Pcs DEF GoesOn
    <3>2. IF batch[k[1]].parallel THEN batch[k[1]].pc \in {"running", "raised"}
          ELSE batch[k[1]].pc = "running" /\ k[2] = batch[k[1]].at
      BY <2>2, PlaceIs
    <3> QED BY <1>1, <1>2, <2>1, <2>2, <3>1, <3>2 DEF JobBook
  <2>3. CASE k # j
    <3>1. job'[k].pc = job[k].pc /\ job'[k].result = job[k].result
      BY <2>3 DEF Moves, Alike
    <3>2. ~batch[k[1]].parallel => batch[k[1]].pc = "running" /\ k[2] # batch[k[1]].at
      BY <1>4, <2>3, PlaceIs
    <3> QED BY <1>1, <1>2, <2>1, <3>1, <3>2 DEF JobBook
  <2> QED BY <2>2, <2>3
<1>5. ASSUME k[1] = j[1], NEW r \in RunStatus, EndsAs(j, r) PROVE JobBook(k)'
  <2> DEFINE c == batch[k[1]]
             d == batch'[k[1]]
  <2>1. job'[j].pc = "ended"
    BY <1>5 DEF EndsAs
  <2>2. /\ d.reqs = c.reqs /\ d.parallel = c.parallel
        /\ \/ c.pc # "running" /\ d.pc = c.pc /\ d.at = c.at
           \/ c.pc = "running" /\ d.pc = "raised" /\ d.at = 1
           \/ c.pc = "running" /\ d.pc = "running" /\ d.at = IF c.parallel THEN c.at ELSE c.at + 1
    BY <1>5, EndedBatch
  <2>3. /\ Asked(k)' = Asked(k)
        /\ k # j => job'[k].pc = job[k].pc /\ job'[k].result = job[k].result
    BY <1>2 DEF Moves, Alike
  <2>4. CASE c.parallel
    <3>1. c.pc \in {"running", "raised"}
      BY <1>5, <2>4, PlaceIs
    <3>2. d.pc \notin {"returned", "cancelled"}
      BY <2>2, <3>1
    <3>3. CASE k = j
      BY <1>2, <2>1, <2>2, <2>4, <3>2, <3>3 DEF JobBook
    <3>4. CASE k # j
      BY <1>1, <2>2, <2>3, <2>4, <3>2, <3>4 DEF JobBook
    <3> QED BY <3>3, <3>4
  <2>5. CASE ~c.parallel
    <3>1. c.pc = "running" /\ j[2] = c.at
      BY <1>5, <2>5, PlaceIs
    <3>2. CASE k = j
      <4>1. k[2] < d.at \/ d.pc = "raised"
        BY <2>2, <2>5, <3>1, <3>2, <1>1
      <4> QED BY <1>1, <1>2, <2>1, <2>2, <2>5, <3>2, <4>1 DEF JobBook
    <3>3. CASE k # j
      <4>1. /\ k[2] < c.at => job'[k].pc = "ended"
            /\ k[2] > c.at => job'[k].pc = "none"
            /\ k[2] # c.at
        BY <1>5, <2>3, <2>5, <3>1, <3>3, PlaceIs
      <4>2. CASE d.pc = "raised"
        BY <1>1, <2>2, <2>3, <2>5, <3>3, <4>1, <4>2 DEF JobBook
      <4>3. CASE d.pc = "running" /\ d.at = c.at + 1
        <5>1. turn' = k[1]
          BY <1>5, <2>5, <4>3 DEF EndsAs, Of
        <5>2. (k[2] < d.at => job'[k].pc = "ended") /\ (k[2] >= d.at => job'[k].pc = "none")
          BY <1>1, <4>1, <4>3
        <5> QED BY <1>1, <2>2, <2>3, <2>5, <3>3, <4>3, <5>1, <5>2 DEF JobBook
      <4> QED BY <2>2, <2>5, <3>1, <4>2, <4>3
    <3> QED BY <3>2, <3>3
  <2> QED BY <2>4, <2>5
<1> QED BY <1>3, <1>4, <1>5 DEF Moves

\* How a failure and a beginning take notice of each other.
Heeds(j) ==
    /\ late \subseteq late' /\ (shared => shared')
    /\ job[j].pc \notin Running =>
          /\ job'[j].pc \in {"starting", "asking"} /\ batch[j[1]].abortFirst =>
                \A k \in JobsOf(j[1]): job[k].result \in Failing => j \in late'
          /\ ~batch[j[1]].parallel => ~Broken(j[1])
    /\ job[j].pc \in Running /\ job'[j].pc \in {"starting", "asking"} =>
          job[j].pc \in {"starting", "asking"} /\ (job[j].aborted => job'[j].aborted)
    /\ job'[j].pc = "ended" /\ job'[j].result \in Failing =>
          /\ job[j].pc \in Running
          /\ batch[j[1]].abortFirst => \A k \in Recorded(Popped(j)): job'[k].aborted

LEMMA FailureMoves ==
    ASSUME SubInv, NEW j \in Jobs, MayMove(j), Moves(j), Heeds(j)
    PROVE  FailureBook'
<1> SUFFICES ASSUME NEW p \in Jobs, NEW k \in Jobs, p[1] = k[1],
                    job'[k].pc = "ended", job'[k].result \in Failing, batch'[k[1]].abortFirst
             PROVE  IF batch'[k[1]].parallel
                    THEN ~shared' => (job'[p].pc \in {"starting", "asking"} => job'[p].aborted \/ p \in late')
                    ELSE p[2] > k[2] => job'[p].pc = "none"
  BY DEF FailureBook
<1>1. /\ UNCHANGED <<batch[k[1]].parallel, batch[k[1]].abortFirst>> /\ batch[k[1]].abortFirst
      /\ p[2] \in Nat /\ k[2] \in Nat
  <2>1. k[1] \in Batches /\ p[2] \in 1..MaxJobs /\ k[2] \in 1..MaxJobs
    BY JobIs
  <2>2. UNCHANGED <<batch[k[1]].parallel, batch[k[1]].abortFirst>>
    BY <2>1, MovedBatch
  <2>3. p[2] \in Nat /\ k[2] \in Nat
    BY <2>1, SubAgentsAssumption
  <2>4. batch'[k[1]].abortFirst = batch[k[1]].abortFirst
    BY <2>2
  <2>5. batch[k[1]].abortFirst
    BY <2>4
  <2> QED BY <2>2, <2>3, <2>5
<1>2. (shared => shared') /\ late \subseteq late'
  BY DEF Heeds
<1>3. ASSUME k # j, p # j PROVE IF batch'[k[1]].parallel
                    THEN ~shared' => (job'[p].pc \in {"starting", "asking"} => job'[p].aborted \/ p \in late')
                    ELSE p[2] > k[2] => job'[p].pc = "none"
  <2>1. /\ job'[k].pc = job[k].pc /\ job'[k].result = job[k].result /\ job'[p].pc = job[p].pc
        /\ job[p].aborted => job'[p].aborted
    BY <1>3 DEF Moves, Alike
  <2> QED BY <1>1, <1>2, <2>1 DEF SubInv, FailureBook
<1>4. ASSUME k # j, p = j PROVE IF batch'[k[1]].parallel
                    THEN ~shared' => (job'[p].pc \in {"starting", "asking"} => job'[p].aborted \/ p \in late')
                    ELSE p[2] > k[2] => job'[p].pc = "none"
  <2>1. job[k].pc = "ended" /\ job[k].result \in Failing
    BY <1>4 DEF Moves, Alike
  <2>2. k \in JobsOf(j[1])
    <3>1. Asked(k)
      BY <2>1 DEF SubInv, JobBook
    <3> QED BY <1>4, <3>1, InJobsOf
  <2>3. CASE batch[k[1]].parallel
    <3> SUFFICES ASSUME ~shared', job'[j].pc \in {"starting", "asking"} PROVE job'[j].aborted \/ j \in late'
      BY <1>1, <1>4, <2>3
    <3>1. CASE job[j].pc \in Running
      <4>1. job[j].pc \in {"starting", "asking"} /\ (job[j].aborted => job'[j].aborted)
        BY <3>1 DEF Heeds
      <4>2. job[j].aborted \/ j \in late
        BY <1>1, <1>2, <1>4, <2>1, <2>3, <4>1 DEF SubInv, FailureBook
      <4> QED BY <1>2, <4>1, <4>2
    <3>2. CASE job[j].pc \notin Running
      BY <1>1, <1>4, <2>1, <2>2, <3>2 DEF Heeds
    <3> QED BY <3>1, <3>2
  <2>4. CASE ~batch[k[1]].parallel
    <3> SUFFICES ASSUME j[2] > k[2] PROVE FALSE
      BY <1>1, <1>4, <2>4
    <3>1. job[j].pc = "none"
      BY <1>1, <1>4, <2>1, <2>4 DEF SubInv, FailureBook
    <3>2. ~Broken(j[1])
      BY <1>4, <2>4, <3>1, Pcs DEF Heeds
    <3> QED BY <1>1, <1>4, <2>1, <2>2, <3>2 DEF Broken
  <2> QED BY <2>3, <2>4
<1>5. ASSUME k = j PROVE IF batch'[k[1]].parallel
                    THEN ~shared' => (job'[p].pc \in {"starting", "asking"} => job'[p].aborted \/ p \in late')
                    ELSE p[2] > k[2] => job'[p].pc = "none"
  <2>1. job[j].pc \in Running /\ \A q \in Recorded(Popped(j)): job'[q].aborted
    BY <1>1, <1>5 DEF Heeds
  <2>2. CASE batch[k[1]].parallel
    <3> SUFFICES ASSUME ~shared', job'[p].pc \in {"starting", "asking"} PROVE job'[p].aborted
      BY <1>1, <2>2
    <3>1. p # j /\ job[p].pc \in Running
      <4>1. p # j
        BY <1>5
      <4> QED BY <4>1, Pcs DEF Moves, Alike
    <3>2. active[IdOf(p)] = p /\ active[IdOf(j)] = j
      BY <1>2, <2>1, <3>1 DEF SubInv, ActiveBook
    <3>3. Popped(j)[IdOf(p)] = p /\ IdOf(p) \in RunIds
      BY <3>1, <3>2, IdIs DEF Popped, SubInv, Types
    <3>4. p \in Recorded(Popped(j))
      BY <3>3 DEF Recorded
    <3> QED BY <2>1, <3>4
  <2>3. CASE ~batch[k[1]].parallel
    <3> SUFFICES ASSUME p[2] > j[2] PROVE job'[p].pc = "none"
      BY <1>1, <1>5, <2>3
    <3>1. p # j /\ job[p].pc = "none"
      BY <1>1, <1>5, <2>3, PlaceIs
    <3> QED BY <3>1 DEF Moves, Alike
  <2> QED BY <2>2, <2>3
<1> QED BY <1>3, <1>4, <1>5

\* A permit is taken by who finds one.
LEMMA PermitMoves ==
    ASSUME SubInv, NEW j \in Jobs, MayMove(j), Moves(j),
           job[j].pc \notin Running /\ batch[j[1]].parallel => HasPermit(j[1])
    PROVE  PermitBook'
<1> SUFFICES ASSUME NEW d \in Batches, batch'[d].parallel PROVE Cardinality(RunsOf(d)') <= Concurrency
  BY DEF PermitBook
<1>1. UNCHANGED <<batch[d].reqs, batch[d].parallel>> /\ IsFiniteSet(RunsOf(d)) /\ Cardinality(RunsOf(d)) \in Nat
  BY MovedBatch, RunsFinite
<1>2. JobsOf(d)' = JobsOf(d)
  BY <1>1 DEF JobsOf
<1>3. RunsOf(d)' \subseteq RunsOf(d) \cup {j}
  BY <1>2 DEF RunsOf, JobsOf, Moves, Alike
<1>4. Cardinality(RunsOf(d)) <= Concurrency
  BY <1>1 DEF SubInv, PermitBook
<1>5. CASE j \notin RunsOf(d)'
  <2>1. Cardinality(RunsOf(d)') <= Cardinality(RunsOf(d)) /\ IsFiniteSet(RunsOf(d)')
    BY <1>1, <1>3, <1>5, FS_Subset
  <2> QED BY <1>1, <1>4, <2>1, FS_CardinalityType, SubAgentsAssumption
<1>6. CASE j \in RunsOf(d)'
  <2>1. j \in JobsOf(d) /\ d = j[1]
    BY <1>2, <1>6 DEF RunsOf, JobsOf
  <2>2. CASE job[j].pc \in Running
    <3>1. RunsOf(d)' \subseteq RunsOf(d)
      BY <1>3, <2>1, <2>2 DEF RunsOf
    <3>2. Cardinality(RunsOf(d)') <= Cardinality(RunsOf(d)) /\ IsFiniteSet(RunsOf(d)')
      BY <1>1, <3>1, FS_Subset
    <3> QED BY <1>1, <1>4, <3>2, FS_CardinalityType, SubAgentsAssumption
  <2>3. CASE job[j].pc \notin Running
    <3>1. Cardinality(RunsOf(d)) < Concurrency
      BY <1>1, <2>1, <2>3 DEF HasPermit, RunsOf
    <3>2. IsFiniteSet(RunsOf(d) \cup {j}) /\ Cardinality(RunsOf(d) \cup {j}) <= Cardinality(RunsOf(d)) + 1
      <4> DEFINE runs == RunsOf(d)
      <4>1. IsFiniteSet(runs) /\ Cardinality(runs) \in Nat
        BY <1>1
      <4> HIDE DEF runs
      <4>2. IsFiniteSet(runs \cup {j})
            /\ Cardinality(runs \cup {j}) = IF j \in runs THEN Cardinality(runs) ELSE Cardinality(runs) + 1
        BY <4>1, FS_AddElement
      <4>3. Cardinality(runs \cup {j}) <= Cardinality(runs) + 1
        BY <4>1, <4>2
      <4> QED BY <4>2, <4>3 DEF runs
    <3>3. Cardinality(RunsOf(d)') <= Cardinality(RunsOf(d) \cup {j}) /\ IsFiniteSet(RunsOf(d)')
      BY <1>3, <3>2, FS_Subset
    <3>4. Cardinality(RunsOf(d)') \in Nat /\ Cardinality(RunsOf(d) \cup {j}) \in Nat
      BY <3>2, <3>3, FS_CardinalityType
    <3> QED BY <1>1, <3>1, <3>2, <3>3, <3>4, SubAgentsAssumption
  <2> QED BY <2>2, <2>3
<1> QED BY <1>5, <1>6

\* What becomes of the table.
TableMoves(j) ==
    \/ /\ job[j].pc \in Running /\ job'[j].pc = "ended" /\ active' = Popped(j) /\ UNCHANGED shared
       /\ handlers' \in {handlers, handlers + 1}
    \/ /\ job[j].pc \in Running /\ job'[j].pc \in Running /\ UNCHANGED <<active, shared>>
       /\ \/ job'[j].pc = "asking" /\ handlers' = handlers
          \/ handlers' = handlers + 1
    \/ job[j].pc \notin Running /\ job'[j].pc = "ended" /\ UNCHANGED <<active, handlers, shared>>
    \/ /\ job[j].pc \notin Running /\ active' = [active EXCEPT ![IdOf(j)] = j]
       /\ shared' = (shared \/ active[IdOf(j)] # NoJob)
       /\ \/ job'[j].pc = "asking" /\ handlers' = handlers
          \/ job'[j].pc \in {"starting", "ended"} /\ handlers' = handlers + 1

LEMMA ActiveMoves ==
    ASSUME SubInv, NEW j \in Jobs, MayMove(j), Moves(j), TableMoves(j)
    PROVE  ActiveBook' /\ active' \in [RunIds -> Jobs \cup {NoJob}] /\ handlers' \in Nat /\ shared' \in BOOLEAN
<1>1. /\ \A i \in RunIds: active[i] # NoJob => active[i] \in Jobs
      /\ handlers \in Nat /\ shared \in BOOLEAN /\ active \in [RunIds -> Jobs \cup {NoJob}]
  BY DEF SubInv, Types
<1>2. ASSUME NEW k \in Jobs PROVE IdOf(k)' = IdOf(k) /\ Asked(k)' = Asked(k)
  <2>1. batch'[k[1]].reqs = batch[k[1]].reqs
    BY MovedBatch, JobIs
  <2> QED BY <2>1, SameRequests
<1>3. \A k \in Jobs: k # j => job'[k].pc = job[k].pc
  BY DEF Moves, Alike
<1>4. Asked(j) /\ IdOf(j) \in RunIds /\ j # NoJob /\ NoJob \notin Jobs
  <2>1. NoJob \notin Jobs
    BY JobIs
  <2> QED BY <2>1, IdIs DEF MayMove
<1>5. handlers' \in Nat /\ (handlers' = 0 => handlers' = handlers)
  BY <1>1 DEF TableMoves
<1>6. /\ active' \in [RunIds -> Jobs \cup {NoJob}] /\ shared' \in BOOLEAN /\ (shared => shared')
      /\ \A i \in RunIds: i # IdOf(j) => active'[i] = active[i]
  BY <1>1, <1>4 DEF TableMoves, Popped
<1>7. (\A i \in RunIds: active[i] # NoJob => Asked(active[i]) /\ IdOf(active[i]) = i)'
  <2> SUFFICES ASSUME NEW i \in RunIds, active'[i] # NoJob PROVE (Asked(active[i]) /\ IdOf(active[i]) = i)'
    OBVIOUS
  <2>1. CASE active'[i] = active[i]
    <3>1. active[i] \in Jobs /\ Asked(active[i]) /\ IdOf(active[i]) = i
      BY <1>1, <2>1 DEF SubInv, ActiveBook
    <3> QED BY <2>1, <3>1, <1>2
  <2>2. CASE active'[i] # active[i]
    <3>1. i = IdOf(j)
      BY <1>6, <2>2
    <3>2. active'[i] \in {active[i], NoJob, j}
      BY <1>1, <1>4, <3>1 DEF TableMoves, Popped
    <3> QED BY <2>2, <3>1, <3>2, <1>2, <1>4
  <2> QED BY <2>1, <2>2
<1>8. handlers' = 0 => \A k \in Jobs: job'[k].pc \notin {"starting", "telling"}
  <2> SUFFICES ASSUME handlers' = 0, NEW k \in Jobs PROVE job'[k].pc \notin {"starting", "telling"}
    OBVIOUS
  <2>1. handlers = 0 /\ handlers' = handlers /\ handlers' # handlers + 1
    BY <1>1, <1>5
  <2>2. CASE k = j
    BY <2>1, <2>2 DEF TableMoves
  <2>3. CASE k # j
    BY <2>1, <2>3, <1>3 DEF SubInv, ActiveBook
  <2> QED BY <2>2, <2>3
<1>9. ASSUME handlers' = 0, NEW i \in RunIds, active'[i] # NoJob PROVE job'[active'[i]].pc \in Running
  <2>1. handlers = 0 /\ handlers' # handlers + 1
    BY <1>1, <1>5, <1>9
  <2>2. CASE active'[i] = active[i] /\ active[i] # j
    <3>1. active[i] \in Jobs /\ job[active[i]].pc \in Running
      BY <1>1, <1>9, <2>1, <2>2 DEF SubInv, ActiveBook
    <3> QED BY <2>2, <3>1, <1>3
  <2>3. CASE active'[i] = j
    <3>1. ASSUME active[i] = j PROVE job[j].pc \in Running /\ i = IdOf(j)
      BY <2>1, <3>1, <1>4 DEF SubInv, ActiveBook
    <3>2. CASE active' = Popped(j)
      <4>1. active'[IdOf(j)] = NoJob
        BY <1>1, <1>4, <3>2 DEF Popped
      <4>2. i # IdOf(j)
        BY <1>9, <4>1
      <4>3. active[i] = j
        BY <1>6, <2>3, <4>2
      <4> QED BY <3>1, <4>2, <4>3
    <3>3. CASE UNCHANGED active /\ active' # Popped(j)
      BY <2>1, <2>3, <3>1, <3>3, Pcs DEF TableMoves
    <3>4. CASE active' = [active EXCEPT ![IdOf(j)] = j] /\ active' # Popped(j) /\ active' # active
      BY <2>1, <2>3, <3>4, Pcs DEF TableMoves
    <3> QED BY <3>2, <3>3, <3>4 DEF TableMoves
  <2>4. CASE active'[i] # active[i]
    <3>1. active'[i] = j
      <4>1. i = IdOf(j)
        BY <1>6, <2>4
      <4> QED BY <1>1, <1>4, <1>9, <2>4, <4>1 DEF TableMoves, Popped
    <3> QED BY <2>3, <3>1
  <2> QED BY <2>2, <2>3, <2>4
<1>10. (~shared => \A k \in Jobs: job[k].pc \in Running => active[IdOf(k)] = k)'
  <2> SUFFICES ASSUME ~shared', NEW k \in Jobs, job'[k].pc \in Running PROVE active'[IdOf(k)] = k
    BY <1>2
  <2>1. ~shared
    BY <1>6
  <2>2. CASE k = j
    <3>1. CASE job[j].pc \in Running
      <4>1. active' = active /\ active[IdOf(j)] = j
        BY <2>1, <2>2, <3>1, Pcs DEF TableMoves, SubInv, ActiveBook
      <4> QED BY <2>2, <4>1
    <3>2. CASE job[j].pc \notin Running
      <4>1. active' = [active EXCEPT ![IdOf(j)] = j]
        BY <2>2, <3>2, Pcs DEF TableMoves
      <4> QED BY <1>1, <1>4, <2>2, <4>1
    <3> QED BY <3>1, <3>2
  <2>3. CASE k # j
    <3>1. job[k].pc \in Running /\ active[IdOf(k)] = k /\ IdOf(k) \in RunIds /\ k # NoJob
      BY <1>3, <2>1, <2>3, IdIs, JobIs DEF SubInv, ActiveBook
    <3>2. CASE IdOf(k) # IdOf(j)
      BY <1>6, <3>1, <3>2
    <3>3. CASE IdOf(k) = IdOf(j)
      <4>1. job[j].pc \notin Running
        BY <2>1, <2>3, <3>1, <3>3 DEF SubInv, ActiveBook
      <4>2. active[IdOf(j)] # NoJob
        BY <3>1, <3>3
      <4>3. UNCHANGED active
        BY <4>1, <4>2 DEF TableMoves
      <4> QED BY <3>1, <4>3
    <3> QED BY <3>2, <3>3
  <2> QED BY <2>2, <2>3
<1>11. ActiveBook'
  BY <1>7, <1>8, <1>9, <1>10 DEF ActiveBook
<1> QED BY <1>5, <1>6, <1>11

\* All of it.
LEMMA JobMoves ==
    ASSUME SubInv, NEW j \in Jobs, MayMove(j), Moves(j), TableMoves(j), Heeds(j), late' \subseteq Jobs,
           job[j].pc \notin Running /\ batch[j[1]].parallel => HasPermit(j[1]),
           UNCHANGED <<spec, aborts, edits>>
    PROVE  SubInv' /\ Alike(j)
<1>1. Types'
  BY MovedBatch, ActiveMoves DEF SubInv, Types, Moves, Alike
<1>2. Alike(j)
  BY DEF Moves
<1> QED BY <1>1, <1>2, CallsMove, JobsMove, ActiveMoves, FailureMoves, PermitMoves DEF SubInv

-----------------------------------------------------------------------------
\* The steps of a run.
LEMMA OverIs ==
    ASSUME Types, NEW j \in Jobs, NEW r \in RunStatus, Over(j, r)
    PROVE  /\ Alike(j) /\ EndsAs(j, r)
           /\ batch[j[1]].abortFirst /\ r \in Failing => \A k \in Recorded(Popped(j)): job'[k].aborted
<1> DEFINE found == IF Of(j).abortFirst /\ r \in Failing THEN Recorded(Popped(j)) ELSE {}
           jobs == [job EXCEPT ![j] = Ended(r)]
<1>1. Ended(r) \in JobType /\ Ended(r).pc = "ended" /\ Ended(r).result = r
  BY DEF Ended, JobType, JobPcs
<1>2. job \in [Jobs -> JobType]
  BY DEF Types
<1>3. jobs \in [Jobs -> JobType] /\ jobs[j] = Ended(r) /\ \A k \in Jobs: k # j => jobs[k] = job[k]
  BY <1>1, <1>2
<1>4. job' = Signalled(jobs, found)
  BY DEF Over
<1>5. batch[j[1]].abortFirst /\ r \in Failing => found = Recorded(Popped(j))
  BY DEF Of
<1>6. Recorded(Popped(j)) \subseteq Jobs
  BY DEF Recorded
<1> HIDE DEF found, jobs
<1>7. /\ job' \in [Jobs -> JobType]
      /\ \A k \in Jobs: /\ job'[k].pc = jobs[k].pc /\ job'[k].result = jobs[k].result
                        /\ jobs[k].aborted \/ k \in found => job'[k].aborted
  BY <1>3, <1>4, SignalledIs
<1>8. Alike(j)
  BY <1>3, <1>7 DEF Alike
<1>9. job'[j].pc = "ended" /\ job'[j].result = r
  BY <1>1, <1>3, <1>7
<1>10. EndsAs(j, r)
  BY <1>9 DEF EndsAs, Over
<1> QED BY <1>5, <1>6, <1>7, <1>8, <1>10

LEMMA PcTurns ==
    ASSUME Types, NEW j \in Jobs, NEW pc \in JobPcs, job' = [job EXCEPT ![j].pc = pc]
    PROVE  /\ Alike(j) /\ job'[j].pc = pc /\ job'[j].result = job[j].result
           /\ job'[j].aborted = job[j].aborted
<1> DEFINE x == [job[j] EXCEPT !.pc = pc]
<1>1. x \in JobType /\ x.pc = pc /\ x.result = job[j].result /\ x.aborted = job[j].aborted
  BY JobFields DEF JobType
<1>2. job \in [Jobs -> JobType] /\ job' = [job EXCEPT ![j] = x]
  BY DEF Types
<1> HIDE DEF x
<1> QED BY <1>1, <1>2 DEF Alike

LEMMA TellingTurns ==
    ASSUME Types, NEW j \in Jobs, NEW r \in RunStatus,
           job' = [job EXCEPT ![j].pc = "telling", ![j].result = r]
    PROVE  Alike(j) /\ job'[j].pc = "telling" /\ job'[j].result = r
<1> DEFINE x == [job[j] EXCEPT !.pc = "telling", !.result = r]
<1>1. "telling" \in JobPcs
  BY Pcs
<1>2. x \in JobType /\ x.pc = "telling" /\ x.result = r
  BY <1>1, JobFields DEF JobType
<1>3. job \in [Jobs -> JobType] /\ job' = [job EXCEPT ![j] = x]
  BY DEF Types
<1> HIDE DEF x
<1> QED BY <1>2, <1>3 DEF Alike

\* A run that was at work goes on or ends.
Continues(j) == Moves(j) /\ TableMoves(j) /\ Heeds(j)

LEMMA FinishedIs ==
    ASSUME SubInv, NEW j \in Jobs, job[j].pc \in Running, NEW r \in RunStatus, Finished(j, r),
           UNCHANGED <<shared, late>>
    PROVE  Continues(j) /\ job'[j].result \in {r, "raised"}
<1>1. Types /\ "raised" \in RunStatus /\ "raised" \notin Failing
  BY DEF SubInv, RunStatus, Failing
<1>2. CASE Over(j, r) /\ active' = Popped(j) /\ UNCHANGED handlers
  <2>1. Alike(j) /\ EndsAs(j, r) /\ (batch[j[1]].abortFirst /\ r \in Failing => \A k \in Recorded(Popped(j)): job'[k].aborted)
    BY <1>1, <1>2, OverIs
  <2>2. job'[j].pc = "ended" /\ job'[j].result = r
    BY <2>1 DEF EndsAs
  <2>3. Moves(j)
    BY <2>1 DEF Moves
  <2>4. TableMoves(j)
    BY <1>2, <2>2 DEF TableMoves
  <2>5. Heeds(j)
    BY <2>1, <2>2 DEF Heeds
  <2> QED BY <2>2, <2>3, <2>4, <2>5 DEF Continues
<1>3. CASE /\ HandlerDisturbs /\ job' = [job EXCEPT ![j].pc = "telling", ![j].result = r]
           /\ turn' = NoBatch /\ UNCHANGED <<batch, active>>
  <2>1. Alike(j) /\ job'[j].pc = "telling" /\ job'[j].result = r
    BY <1>1, <1>3, TellingTurns
  <2>2. Moves(j)
    BY <1>3, <2>1, Pcs DEF Moves, GoesOn
  <2>3. TableMoves(j)
    BY <1>3, <2>1, Pcs DEF TableMoves, HandlerDisturbs
  <2>4. Heeds(j)
    BY <2>1 DEF Heeds
  <2> QED BY <2>1, <2>2, <2>3, <2>4 DEF Continues
<1>4. CASE HandlerDisturbs /\ Over(j, "raised") /\ active' = Popped(j)
  <2>1. Alike(j) /\ EndsAs(j, "raised")
    BY <1>1, <1>4, OverIs
  <2>2. job'[j].pc = "ended" /\ job'[j].result = "raised"
    BY <2>1 DEF EndsAs
  <2>3. Moves(j)
    BY <1>1, <2>1 DEF Moves
  <2>4. TableMoves(j)
    BY <1>4, <2>2 DEF TableMoves, HandlerDisturbs
  <2>5. Heeds(j)
    BY <1>1, <2>2 DEF Heeds
  <2> QED BY <2>2, <2>3, <2>4, <2>5 DEF Continues
<1> QED BY <1>2, <1>3, <1>4 DEF Finished

LEMMA ContinuesKeeps ==
    ASSUME SubInv, NEW j \in Jobs, FreeTurn, job[j].pc \in Running, Continues(j),
           UNCHANGED <<spec, aborts, edits, shared, late>>
    PROVE  SubInv' /\ Alike(j)
<1>1. MayMove(j)
  BY Pcs DEF MayMove, SubInv, JobBook
<1>2. late' \subseteq Jobs
  BY DEF SubInv, Types
<1> QED BY <1>1, <1>2, JobMoves DEF Continues

LEMMA StartedIs == ASSUME SubInv, NEW j \in Jobs, Started(j)
    PROVE SubInv' /\ Alike(j) /\ (job[j].aborted => job'[j].result # "completed")
<1>1. /\ FreeTurn /\ job[j].pc = "starting" /\ job[j].pc \in Running /\ Types
      /\ UNCHANGED <<spec, aborts, edits, shared, late>>
  BY Pcs DEF Started, SubInv
<1>2. CASE job[j].aborted
  <2>1. Finished(j, "aborted") /\ "aborted" \in RunStatus
    BY <1>1, <1>2 DEF Started, RunStatus
  <2>2. Continues(j) /\ job'[j].result \in {"aborted", "raised"}
    BY <1>1, <2>1, FinishedIs
  <2> QED BY <1>1, <2>2, ContinuesKeeps
<1>3. CASE ~job[j].aborted
  <2>1. job' = [job EXCEPT ![j].pc = "asking"] /\ turn' = NoBatch /\ UNCHANGED <<batch, active, handlers>>
    BY <1>1, <1>3 DEF Started, Ask
  <2>2. "asking" \in JobPcs /\ job[j].result = "none"
    BY <1>1, Pcs DEF SubInv, JobBook
  <2>3. Alike(j) /\ job'[j].pc = "asking" /\ job'[j].result = "none" /\ job'[j].aborted = job[j].aborted
    BY <1>1, <2>1, <2>2, PcTurns
  <2>4. Moves(j)
    BY <2>1, <2>3, Pcs DEF Moves, GoesOn
  <2>5. TableMoves(j) /\ Heeds(j)
    BY <1>1, <2>1, <2>3, Pcs DEF TableMoves, Heeds
  <2> QED BY <1>1, <1>3, <2>4, <2>5, ContinuesKeeps DEF Continues
<1> QED BY <1>2, <1>3

LEMMA ReturnedIs == ASSUME SubInv, NEW j \in Jobs, NEW ok \in BOOLEAN, LlmReturns(j, ok)
    PROVE SubInv' /\ Alike(j) /\ (job[j].aborted => job'[j].result # "completed")
<1>1. /\ FreeTurn /\ job[j].pc = "asking" /\ job[j].pc \in Running
      /\ UNCHANGED <<spec, aborts, edits, shared, late>>
  BY Pcs DEF LlmReturns
<1>2. Answer(j, ok) \in RunStatus /\ (job[j].aborted => Answer(j, ok) # "completed")
  BY DEF Answer, RunStatus
<1>3. Continues(j) /\ job'[j].result \in {Answer(j, ok), "raised"}
  BY <1>1, <1>2, FinishedIs DEF LlmReturns
<1> QED BY <1>1, <1>2, <1>3, ContinuesKeeps

LEMMA ToldIs == ASSUME SubInv, NEW j \in Jobs, Told(j) PROVE SubInv' /\ Alike(j)
<1>1. /\ FreeTurn /\ job[j].pc = "telling" /\ job[j].pc \in Running /\ job[j].result \in RunStatus
      /\ UNCHANGED <<spec, aborts, edits, handlers, shared, late>>
  BY Pcs, JobFields DEF Told, SubInv, others
<1>2. Finished(j, job[j].result)
  BY <1>1 DEF Told, Finished
<1> QED BY <1>1, <1>2, FinishedIs, ContinuesKeeps

\* A run that begins.
LEMMA BeginsIs ==
    ASSUME SubInv, NEW j \in Jobs, MayMove(j), job[j].pc \notin Running, BeginRun(j),
           batch[j[1]].parallel => HasPermit(j[1]), ~batch[j[1]].parallel => ~Broken(j[1])
    PROVE  SubInv' /\ Alike(j)
<1>1. /\ Types /\ "raised" \in RunStatus /\ "raised" \notin Failing /\ UNCHANGED <<spec, aborts, edits>>
      /\ late' = late \cup {x \in {j}: \E k \in JobsOf(j[1]): job[k].result \in Failing}
  BY DEF SubInv, RunStatus, Failing, BeginRun
<1>2. late' \subseteq Jobs /\ late \subseteq late'
      /\ \A k \in JobsOf(j[1]): job[k].result \in Failing => j \in late'
  BY <1>1 DEF SubInv, Types
<1>3. job[j].result = "none"
  BY PlaceIs DEF SubInv, JobBook
<1>4. ASSUME Over(j, "raised")
      PROVE  Moves(j) /\ job'[j].pc = "ended" /\ job'[j].result = "raised"
  <2>1. Alike(j) /\ EndsAs(j, "raised")
    BY <1>1, <1>4, OverIs
  <2> QED BY <1>1, <2>1 DEF Moves, EndsAs
<1>5. ASSUME NEW pc \in {"starting", "asking"}, job' = [job EXCEPT ![j].pc = pc], turn' = NoBatch, UNCHANGED batch
      PROVE  Moves(j) /\ job'[j].pc = pc
  <2>1. pc \in JobPcs /\ pc \in Running
    BY Pcs
  <2>2. Alike(j) /\ job'[j].pc = pc /\ job'[j].result = "none"
    BY <1>1, <1>3, <1>5, <2>1, PcTurns
  <2> QED BY <1>5, <2>1, <2>2 DEF Moves, GoesOn
<1>6. CASE spec[Request(j).agent] # "enabled"
  <2>1. Over(j, "raised") /\ UNCHANGED <<active, shared, handlers>>
    BY <1>6 DEF BeginRun
  <2>2. TableMoves(j) /\ Heeds(j)
    BY <1>1, <1>2, <1>4, <2>1 DEF TableMoves, Heeds
  <2> QED BY <1>1, <1>2, <1>4, <2>1, <2>2, JobMoves
<1>7. CASE spec[Request(j).agent] = "enabled"
  <2>1. /\ active' = [active EXCEPT ![IdOf(j)] = j] /\ shared' = (shared \/ active[IdOf(j)] # NoJob)
        /\ \/ Ask(j) /\ UNCHANGED handlers
           \/ /\ HandlerDisturbs
              /\ \/ job' = [job EXCEPT ![j].pc = "starting"] /\ turn' = NoBatch /\ UNCHANGED batch
                 \/ Over(j, "raised")
    BY <1>7 DEF BeginRun
  <2>2. CASE Ask(j) /\ UNCHANGED handlers
    <3>1. Moves(j) /\ job'[j].pc = "asking"
      BY <1>5, <2>2 DEF Ask
    <3>2. TableMoves(j) /\ Heeds(j)
      BY <1>2, <2>1, <2>2, <3>1 DEF TableMoves, Heeds
    <3> QED BY <1>1, <1>2, <3>1, <3>2, JobMoves
  <2>3. CASE HandlerDisturbs /\ job' = [job EXCEPT ![j].pc = "starting"] /\ turn' = NoBatch /\ UNCHANGED batch
    <3>1. Moves(j) /\ job'[j].pc = "starting"
      BY <1>5, <2>3
    <3>2. TableMoves(j) /\ Heeds(j)
      BY <1>2, <2>1, <2>3, <3>1 DEF TableMoves, Heeds, HandlerDisturbs
    <3> QED BY <1>1, <1>2, <3>1, <3>2, JobMoves
  <2>4. CASE HandlerDisturbs /\ Over(j, "raised")
    <3>1. TableMoves(j) /\ Heeds(j)
      BY <1>1, <1>2, <1>4, <2>1, <2>4 DEF TableMoves, Heeds, HandlerDisturbs
    <3> QED BY <1>1, <1>2, <1>4, <2>4, <3>1, JobMoves
  <2> QED BY <2>1, <2>2, <2>3, <2>4
<1> QED BY <1>6, <1>7

LEMMA EnterParallelKeeps == ASSUME SubInv, NEW j \in Jobs, j \in JobsOf(j[1]), EnterParallel(j)
    PROVE SubInv' /\ job[j].pc \notin Running /\ Alike(j)
<1>1. FreeTurn /\ job[j].pc = "queued" /\ HasPermit(j[1]) /\ BeginRun(j) /\ Asked(j) /\ job[j].pc \notin Running
  BY InJobsOf, Pcs DEF EnterParallel
<1>2. MayMove(j) /\ batch[j[1]].parallel
  BY <1>1 DEF MayMove, SubInv, JobBook
<1> QED BY <1>1, <1>2, BeginsIs

LEMMA EnterSequenceKeeps == ASSUME SubInv, NEW b \in Batches, EnterSequence(b)
    PROVE SubInv' /\ \E j \in Jobs: job[j].pc \notin Running /\ Alike(j)
<1> DEFINE j == <<b, batch[b].at>>
<1>1. /\ turn = b /\ batch[b].pc = "running" /\ ~batch[b].parallel /\ batch[b].at <= Len(batch[b].reqs)
      /\ ~Broken(b) /\ BeginRun(j)
  BY DEF EnterSequence
<1>2. j \in Jobs /\ j[1] = b /\ j[2] = batch[b].at
  <2>1. batch[b].at \in 1..MaxJobs
    BY <1>1, CallFields, SubAgentsAssumption DEF SubInv, CallBook
  <2> QED BY <2>1, OfBatch
<1> HIDE DEF j
<1>3. MayMove(j)
  BY <1>1, <1>2 DEF MayMove, Asked
<1>4. job[j].pc \notin Running
  <2>1. job[j].pc = "none"
    BY <1>1, <1>2, <1>3, PlaceIs
  <2> QED BY <2>1, Pcs
<1> QED BY <1>1, <1>2, <1>3, <1>4, BeginsIs

-----------------------------------------------------------------------------
\* Every step.
LEMMA SubInvNext == ASSUME SubInv, [Next]_vars PROVE SubInv'
<1>1. ASSUME NEW j \in Jobs, JobStep(j) PROVE SubInv'
  <2>1. j \in JobsOf(j[1])
    BY <1>1 DEF JobStep
  <2>2. CASE Started(j)
    BY <2>2, StartedIs
  <2>3. CASE Told(j)
    BY <2>3, ToldIs
  <2>4. CASE EnterParallel(j)
    BY <2>1, <2>4, EnterParallelKeeps
  <2>5. CASE \E ok \in BOOLEAN: LlmReturns(j, ok)
    BY <2>5, ReturnedIs
  <2> QED BY <1>1, <2>2, <2>3, <2>4, <2>5 DEF JobStep
<1>2. ASSUME NEW b \in Batches, BatchStep(b) PROVE SubInv'
  BY <1>2, EnterSequenceKeeps, ReturnsKeeps, AnswersKeeps, CallsKeep DEF BatchStep
<1>3. ASSUME NEW b \in Batches, Call(b) PROVE SubInv'
  BY <1>3, CallsKeep, RetryKeeps DEF Call
<1>4. ASSUME NEW b \in Batches, CancelCaller(b) PROVE SubInv'
  BY <1>4, CancelKeeps
<1>5. ASSUME NEW i \in RunIds, AbortRun(i) PROVE SubInv'
  BY <1>5, AbortKeeps DEF AbortRun
<1>6. ASSUME NEW a \in Agents, AbortAgent(a) PROVE SubInv'
  BY <1>6, AbortKeeps DEF AbortAgent
<1>7. ASSUME NEW a \in Agents, NEW to \in SpecStatus, EditSpec(a, to) PROVE SubInv'
  BY <1>7, EditKeeps
<1>8. ASSUME AbortAll PROVE SubInv'
  BY <1>8, AbortKeeps DEF AbortAll
<1>9. CASE UNCHANGED vars
  BY <1>9, StutterKeeps
<1> QED BY <1>1, <1>2, <1>3, <1>4, <1>5, <1>6, <1>7, <1>8, <1>9 DEF Next

LEMMA SubInvHolds == Spec => []SubInv
  BY SubInvInit, SubInvNext, PTL DEF Spec

(***************************************************************************)
(* The values of the manager, its calls and their runs stay what they are  *)
(* said to be, and a run is recorded under its own id only.                *)
(***************************************************************************)
THEOREM SubAgentsAreTyped == Spec => []TypeOK
<1>1. SubInv => TypeOK
  <2> SUFFICES ASSUME SubInv PROVE TypeOK
    OBVIOUS
  <2>1. ASSUME NEW b \in Batches
        PROVE  /\ batch[b].pc \in {"none", "routing", "running", "returned", "raised", "cancelled"}
               /\ batch[b].tries \in 0..MaxRetries
               /\ batch[b].at \in 1..(MaxJobs + 1) /\ Len(batch[b].reqs) <= MaxJobs
    BY CallFields DEF SubInv, CallPcs, CallBook
  <2>2. ASSUME NEW j \in Jobs
        PROVE  /\ job[j].pc \in {"none", "queued", "ended"} \cup Running /\ job[j].result \in RunStatus
               /\ job[j].pc # "none" => j \in JobsOf(j[1])
    BY JobFields, InJobsOf DEF SubInv, JobPcs, JobBook
  <2>3. \A i \in RunIds: active[i] # NoJob => IdOf(active[i]) = i
    BY DEF SubInv, ActiveBook
  <2>4. spec \in [Agents -> SpecStatus] /\ turn \in Batches \cup {NoBatch}
    BY DEF SubInv, Types
  <2> QED BY <2>1, <2>2, <2>3, <2>4 DEF TypeOK
<1> QED BY <1>1, SubInvHolds, PTL

LEMMA FlightIs == ASSUME SubInv, NEW j \in Jobs PROVE InFlight(j) <=> job[j].pc \in Running
<1>1. job[j].pc \in Running => Asked(j)
  BY Pcs DEF SubInv, JobBook
<1> QED BY <1>1, InJobsOf DEF InFlight

LEMMA ActiveHolds == SubInv => ActiveIsTrue
<1> SUFFICES ASSUME SubInv PROVE ActiveIsTrue
  OBVIOUS
<1>1. ASSUME handlers = 0, NEW j \in Recorded(active) PROVE InFlight(j)
  <2>1. j \in Jobs /\ \E i \in RunIds: active[i] = j
    BY DEF Recorded
  <2>2. job[j].pc \in Running
    BY <1>1, <2>1, JobIs DEF SubInv, ActiveBook
  <2> QED BY <2>1, <2>2, FlightIs
<1>2. ASSUME ~shared, NEW j \in Jobs, InFlight(j) PROVE active[IdOf(j)] = j
  BY <1>2, FlightIs DEF SubInv, ActiveBook
<1> QED BY <1>1, <1>2 DEF ActiveIsTrue

LEMMA OrderHolds == SubInv => BatchInOrder
<1> SUFFICES ASSUME SubInv, NEW b \in Batches
             PROVE  /\ Cardinality({j \in JobsOf(b): InFlight(j)}) <= IF batch[b].parallel THEN Concurrency ELSE 1
                    /\ batch[b].abortFirst /\ ~shared =>
                          \A j, k \in JobsOf(b):
                              job[k].pc = "ended" /\ job[k].result \in Failing =>
                                  IF batch[b].parallel
                                  THEN job[j].pc \in {"starting", "asking"} => job[j].aborted \/ j \in late
                                  ELSE j[2] > k[2] => job[j].pc = "none"
  BY DEF BatchInOrder
<1>1. {j \in JobsOf(b): InFlight(j)} = RunsOf(b)
  BY FlightIs DEF RunsOf, JobsOf
<1>2. ASSUME batch[b].parallel PROVE Cardinality(RunsOf(b)) <= Concurrency
  BY <1>1, <1>2 DEF SubInv, PermitBook
<1>3. ASSUME ~batch[b].parallel PROVE Cardinality(RunsOf(b)) <= 1
  <2>1. ASSUME NEW j \in RunsOf(b), NEW k \in RunsOf(b) PROVE j = k
    <3>1. ASSUME NEW p \in RunsOf(b) PROVE p \in Jobs /\ p[1] = b /\ p[2] = batch[b].at
      <4>1. p \in Jobs /\ p[1] = b /\ job[p].pc \notin {"none", "ended"}
        BY Pcs DEF RunsOf, JobsOf
      <4>2. JobBook(p) /\ p[2] \in Nat /\ batch[b].at \in Nat
        <5>1. p[2] \in 1..MaxJobs /\ batch[b].at \in 1..(MaxJobs + 1)
          BY <4>1, JobIs, CallFields DEF SubInv
        <5> QED BY <4>1, <5>1 DEF SubInv
      <4>3. ~(p[2] < batch[b].at) /\ ~(p[2] > batch[b].at)
        BY <1>3, <4>1, <4>2 DEF JobBook
      <4> QED BY <4>1, <4>2, <4>3
    <3> QED BY <3>1, JobEq
  <2>2. CASE RunsOf(b) = {}
    BY <2>2, FS_EmptySet
  <2>3. CASE RunsOf(b) # {}
    <3>1. PICK j \in RunsOf(b): TRUE
      BY <2>3
    <3>2. RunsOf(b) = {j}
      BY <2>1, <3>1
    <3> QED BY <3>2, FS_Singleton
  <2> QED BY <2>2, <2>3
<1>4. ASSUME batch[b].abortFirst, ~shared, NEW j \in JobsOf(b), NEW k \in JobsOf(b),
             job[k].pc = "ended", job[k].result \in Failing
      PROVE  IF batch[b].parallel
             THEN job[j].pc \in {"starting", "asking"} => job[j].aborted \/ j \in late
             ELSE j[2] > k[2] => job[j].pc = "none"
  <2>1. j \in Jobs /\ k \in Jobs /\ j[1] = b /\ k[1] = b
    BY DEF JobsOf
  <2> QED BY <1>4, <2>1 DEF SubInv, FailureBook
<1> QED BY <1>1, <1>2, <1>3, <1>4

LEMMA NothingLeft == SubInv => NothingLeftRunning
<1> SUFFICES ASSUME SubInv, NEW b \in Batches, NEW j \in JobsOf(b),
                    batch[b].pc \in {"returned", "cancelled"} \/ (batch[b].pc = "raised" /\ ~batch[b].parallel)
             PROVE  job[j].pc \in {"none", "ended"}
  BY DEF NothingLeftRunning
<1>1. j \in Jobs /\ j[1] = b
  BY DEF JobsOf
<1> QED BY <1>1 DEF SubInv, JobBook

(***************************************************************************)
(* The manager keeps its books for any calls, requests, routes, aborts,    *)
(* edits, disturbed handlers and retries: _active_runs is what runs, a     *)
(* batch runs in order and within its permits, a failure that aborts the   *)
(* rest reaches them, and who returns leaves no run behind.                *)
(***************************************************************************)
THEOREM CallsHold == Spec => []CallsAreOrderly
<1>1. SubInv => CallsAreOrderly
  BY ActiveHolds, OrderHolds, NothingLeft DEF CallsAreOrderly
<1> QED BY <1>1, SubInvHolds, PTL

-----------------------------------------------------------------------------
\* What is said of a run that is aborted before its answer.
Heeded == \A j \in Jobs: job[j].aborted /\ job[j].pc \in {"starting", "asking"}
                         => job'[j].result # "completed"

LEMMA OthersHeed ==
    ASSUME SubInv, \A j \in Jobs: job'[j].result \in {job[j].result, "none", "cancelled"}
    PROVE  Heeded
<1>1. ASSUME NEW j \in Jobs, job[j].pc \in {"starting", "asking"} PROVE job[j].result = "none"
  BY <1>1 DEF SubInv, JobBook
<1> QED BY <1>1 DEF Heeded

LEMMA AlikeHeeds ==
    ASSUME SubInv, NEW j \in Jobs, Alike(j),
           job[j].pc \notin {"starting", "asking"} \/ (job[j].aborted => job'[j].result # "completed")
    PROVE  Heeded
<1> SUFFICES ASSUME NEW k \in Jobs, job[k].aborted, job[k].pc \in {"starting", "asking"}
             PROVE  job'[k].result # "completed"
  BY DEF Heeded
<1>1. job[k].result = "none"
  BY DEF SubInv, JobBook
<1>2. CASE k = j
  BY <1>2
<1>3. CASE k # j
  BY <1>1, <1>3 DEF Alike
<1> QED BY <1>2, <1>3

LEMMA GoResults ==
    ASSUME NEW b, NEW parallel, NEW abortFirst, NEW task, NEW reqs, Go(b, parallel, abortFirst, task, reqs)
    PROVE  \A j \in Jobs: job'[j].result \in {job[j].result, "none", "cancelled"}
<1>1. [Unborn EXCEPT !.pc = "queued"].result = "none"
  BY DEF Unborn
<1> QED BY <1>1 DEF Go

LEMMA SignalledResults ==
    ASSUME SubInv, NEW found, job' = Signalled(job, found)
    PROVE  \A j \in Jobs: job'[j].result \in {job[j].result, "none", "cancelled"}
<1>1. job \in [Jobs -> JobType]
  BY DEF SubInv, Types
<1> QED BY <1>1, SignalledIs

LEMMA NextHeeds == ASSUME SubInv, Next PROVE Heeded
<1>1. ASSUME NEW j \in Jobs, JobStep(j) PROVE Heeded
  <2>1. j \in JobsOf(j[1])
    BY <1>1 DEF JobStep
  <2>2. CASE Started(j)
    BY <2>2, StartedIs, AlikeHeeds
  <2>3. CASE Told(j)
    <3>1. job[j].pc = "telling"
      BY <2>3 DEF Told
    <3> QED BY <2>3, <3>1, ToldIs, AlikeHeeds
  <2>4. CASE EnterParallel(j)
    BY <2>1, <2>4, EnterParallelKeeps, AlikeHeeds, Pcs
  <2>5. CASE \E ok \in BOOLEAN: LlmReturns(j, ok)
    BY <2>5, ReturnedIs, AlikeHeeds
  <2> QED BY <1>1, <2>2, <2>3, <2>4, <2>5 DEF JobStep
<1>2. ASSUME NEW b \in Batches, EnterSequence(b) PROVE Heeded
  BY <1>2, EnterSequenceKeeps, AlikeHeeds, Pcs
<1>3. ASSUME NEW b \in Batches, RouterAnswers(b) PROVE Heeded
  <2>1. UNCHANGED job \/ \E names \in Routes, parallel \in BOOLEAN:
          Go(b, parallel /\ Len(names) > 1, FALSE, FALSE,
             [i \in DOMAIN names |-> [agent |-> Resolved(names[i]), given |-> FALSE]])
    BY <1>3 DEF RouterAnswers
  <2> QED BY <2>1, GoResults, OthersHeed
<1>4. ASSUME NEW b \in Batches, Returns(b) \/ RouterFails(b) \/ RouteAndRun(b) PROVE Heeded
  BY <1>4, OthersHeed DEF Returns, RouterFails, RouteAndRun
<1>5. ASSUME NEW b \in Batches, RunMany(b) \/ RunOne(b) \/ RunTask(b) PROVE Heeded
  <2>1. \E reqs \in Lists, parallel, abortFirst, task \in BOOLEAN: Go(b, parallel, abortFirst, task, reqs)
    BY <1>5 DEF RunMany, RunOne, RunTask
  <2> QED BY <2>1, GoResults, OthersHeed
<1>6. ASSUME NEW b \in Batches, RetryTask(b) PROVE Heeded
  <2>1. Unborn.result = "none"
    BY DEF Unborn
  <2>2. \A j \in Jobs: job'[j].result \in {job[j].result, "none", "cancelled"}
    BY <1>6, <2>1 DEF RetryTask, SubInv, Types
  <2> QED BY <2>2, OthersHeed
<1>7. ASSUME NEW b \in Batches, CancelCaller(b) PROVE Heeded
  <2>1. Ended("cancelled").result = "cancelled"
    BY DEF Ended
  <2>2. \A j \in Jobs: job'[j].result \in {job[j].result, "none", "cancelled"}
    BY <1>7, <2>1 DEF CancelCaller
  <2> QED BY <2>2, OthersHeed
<1>8. ASSUME NEW found, Abort(found) PROVE Heeded
  BY <1>8, SignalledResults, OthersHeed DEF Abort
<1>9. ASSUME NEW a \in Agents, NEW to \in SpecStatus, EditSpec(a, to) PROVE Heeded
  BY <1>9, OthersHeed DEF EditSpec
<1>10. ASSUME NEW b \in Batches, BatchStep(b) \/ Call(b) \/ CancelCaller(b) PROVE Heeded
  BY <1>2, <1>3, <1>4, <1>5, <1>6, <1>7, <1>10 DEF BatchStep, Call
<1> QED BY <1>1, <1>8, <1>9, <1>10 DEF Next, AbortRun, AbortAgent, AbortAll

(***************************************************************************)
(* However steps interleave, a run that an abort reached before its LLM    *)
(* has answered never reports that it completed, whatever the LLM returns. *)
(***************************************************************************)
THEOREM AbortHeld == Spec => AbortIsHeeded
<1>1. SubInv /\ [Next]_vars =>
        [\A j \in Jobs: job[j].aborted /\ job[j].pc \in {"starting", "asking"}
                        => job'[j].result # "completed"]_vars
  BY NextHeeds DEF Heeded
<1> QED BY <1>1, SubInvHolds, PTL DEF Spec, AbortIsHeeded

==============================================================================
