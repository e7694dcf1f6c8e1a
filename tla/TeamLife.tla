------------------------------- MODULE TeamLife -------------------------------
(***************************************************************************)
(* A Team without a swarm: team_create and team_delete make and end it     *)
(* (with stop_members, as by default, and with or without cancel_current), *)
(* clients put tasks on its list and dispatch them to the members of its   *)
(* roster, the members work through their mail in loops of their own       *)
(* (TeammateAgent.run_loop), and the team collects their results.          *)
(*                                                                         *)
(* All coroutines share an event loop: an action is the code between two   *)
(* points where its coroutine is suspended.  team_delete goes through the  *)
(* members without being suspended unless it waits for an agent task.      *)
(***************************************************************************)
EXTENDS Naturals, Sequences, FiniteSets

CONSTANTS
    Mates,      \* the teammates of the specs, sorted by role, by age: a sequence
    RoleOf,     \* the role of each of them
    Addressees, \* whom tasks are for: a role, anyone, or the assigned_to of a member or a stranger
    MaxTasks,   \* bound: shared tasks, numbered as they are created
    MaxChanges  \* bound: changes of the roster, cancelled or removed tasks, control messages

MateSet == {Mates[i]: i \in DOMAIN Mates}
Roles == {RoleOf[m]: m \in MateSet}
AnyRole == "any"
NoMate == "nobody"
Named == Addressees \ (Roles \cup {AnyRole})       \* the tasks for one of them are ASSIGNED
Tasks == 1..MaxTasks
NoTask == 0
Stop == MaxTasks + 1        \* a control message, among the tasks in an inbox

ASSUME TeamAssumption ==
    /\ MaxTasks \in Nat /\ MaxChanges \in Nat
    /\ Mates \in Seq(MateSet)
    /\ NoMate \notin MateSet /\ AnyRole \notin Roles

VARIABLES
    registered, \* whether team_registry has the team
    roster,     \* per teammate: RosterMember.status, "absent" before the team is made
    mate,       \* per teammate: [status, asked (_stop_requested), run (what it executes)]
    loop,       \* per teammate: where run_loop is
    inbox,      \* per teammate: its unread messages
    cursor,     \* _role_cursors
    shared,     \* shared_task_list: per task [status, for], for as in Addressees until it is sent
    exec,       \* per task: the execution of its message
    replies,    \* the tasks whose results are unread in the mailbox of the team
    changes,    \* how many of these changes there were
    deletion    \* team_delete: [pc, todo, waits], todo as places in Mates

workVars == <<mate, loop, inbox, exec>>
teamVars == <<registered, roster, workVars, cursor, shared, replies, changes, deletion>>

SharedStatus == {"none", "pending", "assigned", "dispatched", "succeeded", "failed",
                 "cancelled", "removed"}
TerminalShared == {"succeeded", "failed", "cancelled"}

\* Of a task that is backed: stored is whether current_task_record_id is set, and unheard
\* (history) whether team_delete found nothing to cancel or to abort yet.
Execution(pc, by, backed, ok) ==
    [pc |-> pc, by |-> by, backed |-> backed, stored |-> FALSE, signalled |-> FALSE,
     unheard |-> FALSE, ok |-> ok]
NotExecuted == Execution("none", NoMate, FALSE, FALSE)

TeamMate(status, asked, run) == [status |-> status, asked |-> asked, run |-> run]

TeamInit ==
    /\ registered = FALSE
    /\ roster = [m \in MateSet |-> "absent"]
    /\ mate = [m \in MateSet |-> TeamMate("idle", FALSE, NoTask)]
    /\ loop = [m \in MateSet |-> "off"]
    /\ inbox = [m \in MateSet |-> <<>>]
    /\ cursor = [r \in Roles \cup {AnyRole} |-> 0]
    /\ shared = [k \in Tasks |-> [status |-> "none", for |-> NoMate]]
    /\ exec = [k \in Tasks |-> NotExecuted]
    /\ replies = {} /\ changes = 0
    /\ deletion = [pc |-> "none", todo |-> {}, waits |-> NoTask]

\* Nobody else runs while team_delete goes through the members.
Going == deletion.pc \in {"cancelling", "stopping"} /\ deletion.waits = NoTask
Free == ~Going
Changing == Free /\ changes < MaxChanges /\ changes' = changes + 1

Member(m) == roster[m] \in {"active", "disabled"}
Members == {i \in DOMAIN Mates: Member(Mates[i])}

\* TeammateAgent.is_stopped, RosterMember.is_available.
Stopped(m) == mate[m].status = "stopped"
AvailableWhenAsked(m) == roster[m] = "active" /\ ~Stopped(m)   \* mutant: busy or not
Available(m) == roster[m] = "active" /\ mate[m].status \notin {"running", "stopped"}

-----------------------------------------------------------------------------
\* The team and its roster

\* create_team: all the members are idle, and no loop is started for them.
NewTeam(ms) ==
    /\ ~registered /\ deletion.pc = "none"
    /\ roster' = [m \in MateSet |-> IF m \in ms THEN "active" ELSE "absent"]
    /\ registered' = TRUE
    /\ UNCHANGED <<workVars, cursor, shared, replies, changes, deletion>>

\* ensure_runtime_team, when the shared objects of a session are made.
EnsureTeam == NewTeam({})

\* team_create, with the members of its call.
CreateTeam(ms) == ms # {} /\ NewTeam(ms)

\* create_teammate for a member that is to replace none.
Join(m) ==
    /\ Changing /\ registered /\ deletion.pc = "none" /\ roster[m] = "absent"
    /\ roster' = [roster EXCEPT ![m] = "active"]
    /\ UNCHANGED <<registered, workVars, cursor, shared, replies, deletion>>

Enable(m, status) ==
    /\ Changing /\ Member(m) /\ roster[m] # status
    /\ roster' = [roster EXCEPT ![m] = status]
    /\ UNCHANGED <<registered, workVars, cursor, shared, replies, deletion>>

\* remove_teammate leaves the teammate itself alone.
Remove(m) ==
    /\ Changing /\ Member(m)
    /\ roster' = [roster EXCEPT ![m] = "removed"]
    /\ UNCHANGED <<registered, workVars, cursor, shared, replies, deletion>>

-----------------------------------------------------------------------------
\* The shared tasks

CreateShared(k, for) ==
    /\ Free /\ registered /\ shared[k].status = "none"
    /\ \A j \in 1..(k - 1): shared[j].status # "none"
    /\ shared' = [shared EXCEPT ![k] = [status |-> IF for \in Named THEN "assigned" ELSE "pending",
                                        for |-> for]]
    /\ UNCHANGED <<registered, roster, workVars, cursor, replies, changes, deletion>>

\* select_member, round robin over the members available now.
Candidates(role) == SelectSeq(Mates, LAMBDA m: Available(m) /\ role \in {AnyRole, RoleOf[m]})
Selected(role) == Candidates(role)[1 + (cursor[role] % Len(Candidates(role)))]

\* mailbox.send_message and mark_dispatched, whatever the recipient and the status are.
Send(k, to) ==
    /\ inbox' = [m \in MateSet |-> IF m = to THEN Append(inbox[m], k) ELSE inbox[m]]
    /\ shared' = [shared EXCEPT ![k] = [status |-> "dispatched", for |-> NoMate]]
    /\ UNCHANGED <<registered, roster, mate, loop, exec, replies, changes, deletion>>

\* dispatch_next_task: the oldest one that is pending, never one that is assigned.
DispatchNext ==
    \E k \in Tasks:
       /\ Free /\ shared[k].status = "pending"
       /\ \A j \in 1..(k - 1): shared[j].status # "pending"
       /\ Candidates(shared[k].for) # <<>>
       /\ Send(k, Selected(shared[k].for))
       /\ cursor' = [cursor EXCEPT ![shared[k].for] = @ + 1]

DispatchAssigned(k) ==
    /\ Free /\ shared[k].status = "assigned"
    /\ Send(k, shared[k].for)
    /\ UNCHANGED cursor

\* mark_task_cancelled, by task_stop.
CancelShared(k) ==
    /\ Changing /\ shared[k].status \notin {"none", "removed"}
    /\ shared' = [shared EXCEPT ![k].status = "cancelled"]
    /\ UNCHANGED <<registered, roster, workVars, cursor, replies, deletion>>

\* clear_shared_tasks and remove_shared_task.
ClearTerminal ==
    /\ Changing /\ \E k \in Tasks: shared[k].status \in TerminalShared
    /\ shared' = [k \in Tasks |-> IF shared[k].status \in TerminalShared
                                  THEN [shared[k] EXCEPT !.status = "removed"] ELSE shared[k]]
    /\ UNCHANGED <<registered, roster, workVars, cursor, replies, deletion>>

RemoveShared(k) ==
    /\ Changing /\ shared[k].status \notin {"none", "removed"}
    /\ shared' = [shared EXCEPT ![k].status = "removed"]
    /\ UNCHANGED <<registered, roster, workVars, cursor, replies, deletion>>

\* collect_result_messages, apply_result_message: a cancelled task stays cancelled.
AppliedAnyway(status, ok) ==                       \* mutant
    IF status = "removed" THEN status ELSE IF ok THEN "succeeded" ELSE "failed"

Applied(status, ok) ==
    IF status \in {"cancelled", "removed"} THEN status
    ELSE IF ok THEN "succeeded" ELSE "failed"

Collect ==
    /\ Free /\ replies # {}
    /\ shared' = [k \in Tasks |-> IF k \in replies
                                  THEN [shared[k] EXCEPT !.status = Applied(@, exec[k].ok)]
                                  ELSE shared[k]]
    /\ replies' = {}
    /\ UNCHANGED <<registered, roster, workVars, cursor, changes, deletion>>

-----------------------------------------------------------------------------
\* The loop of a teammate

\* run_loop, called by a client of the package while the team is not being deleted;
\* process_next_message waits for a message at once.
Starts(m) ==
    /\ Free /\ Member(m) /\ deletion.pc = "none" /\ loop[m] = "off" /\ ~Stopped(m)
    /\ loop' = [loop EXCEPT ![m] = "waiting"]
    /\ mate' = [mate EXCEPT ![m] = TeamMate("waiting", FALSE, @.run)]
    /\ UNCHANGED <<registered, roster, inbox, cursor, shared, exec, replies, changes, deletion>>

\* The loop ends: no message came, and it was stopped or max_iterations is reached.
Idles(m) ==
    /\ Free /\ loop[m] = "waiting"
    /\ loop' = [loop EXCEPT ![m] = "off"]
    /\ mate' = [mate EXCEPT ![m] =
                  TeamMate(IF Stopped(m) THEN "stopped" ELSE "idle", @.asked, @.run)]
    /\ UNCHANGED <<registered, roster, inbox, cursor, shared, exec, replies, changes, deletion>>

\* A message came, and is marked read.  A teammate that was stopped while it waited
\* drops it: execute_task raises, and no result is sent.
Drops(m) ==
    /\ Stopped(m) /\ loop' = [loop EXCEPT ![m] = "off"]
    /\ UNCHANGED <<mate, exec>>

Obeys(m) ==
    /\ ~Stopped(m) /\ Head(inbox[m]) = Stop
    /\ mate' = [mate EXCEPT ![m] = TeamMate("stopped", TRUE, @.run)]
    /\ loop' = [loop EXCEPT ![m] = "off"]
    /\ UNCHANGED exec

Executes(m, backed) ==
    /\ ~Stopped(m) /\ Head(inbox[m]) \in Tasks
    /\ mate' = [mate EXCEPT ![m] = TeamMate("running", @.asked, Head(inbox[m]))]
    /\ exec' = [exec EXCEPT ![Head(inbox[m])] =
                  Execution(IF backed THEN "queued" ELSE "running", m, backed, FALSE)]
    /\ loop' = [loop EXCEPT ![m] = "executing"]

Receives(m) ==
    /\ Free /\ loop[m] = "waiting" /\ inbox[m] # <<>>
    /\ inbox' = [inbox EXCEPT ![m] = Tail(@)]
    /\ Drops(m) \/ Obeys(m) \/ \E backed \in BOOLEAN: Executes(m, backed)
    /\ UNCHANGED <<registered, roster, cursor, shared, replies, changes, deletion>>

InProgress(k) == exec[k].pc \in {"queued", "running", "cancelled"}

\* The subagent run, in a task of the task manager if it is backed.
ExecStep(k, execution) ==
    /\ Free /\ exec' = [exec EXCEPT ![k] = execution]
    /\ UNCHANGED <<registered, roster, mate, loop, inbox, cursor, shared, replies, changes, deletion>>

Ended(k, ok) == Execution("ended", exec[k].by, FALSE, ok)

\* run_agent registers its run, which abort_run finds from now on.
Begins(k) == exec[k].pc = "queued" /\ ExecStep(k, [exec[k] EXCEPT !.pc = "running"])

\* run_agent_task returns to the teammate, when the task has begun and lets it.
Stores(k) ==
    /\ exec[k].pc \in {"queued", "running"} /\ exec[k].backed /\ ~exec[k].stored
    /\ ExecStep(k, [exec[k] EXCEPT !.stored = TRUE])

Concludes(k, ok) ==
    /\ exec[k].pc = "running"
    /\ ExecStep(k, Ended(k, ok /\ ~exec[k].signalled))

\* LocalTaskExecution.wait times out and cancels the task; the task catches it.
TimesOut(k) ==
    /\ exec[k].pc \in {"queued", "running"} /\ exec[k].stored
    /\ ExecStep(k, [exec[k] EXCEPT !.pc = "cancelled"])

CatchesCancel(k) == exec[k].pc = "cancelled" /\ ExecStep(k, Ended(k, FALSE))

\* execute_task returns; the result is sent to the team, and the loop goes on.
Returns(m) ==
    LET k == mate[m].run
        over == Stopped(m) \/ mate[m].asked
    IN
    /\ Free /\ loop[m] = "executing" /\ exec[k].pc = "ended"
    /\ replies' = replies \cup {k}
    /\ mate' = [mate EXCEPT ![m] =
                  TeamMate(IF Stopped(m) THEN "stopped" ELSE IF over THEN "idle" ELSE "waiting",
                           @.asked, NoTask)]
    /\ loop' = [loop EXCEPT ![m] = IF over THEN "off" ELSE "waiting"]
    /\ UNCHANGED <<registered, roster, inbox, cursor, shared, exec, changes, deletion>>

SendStop(m) ==
    /\ Changing /\ Member(m)
    /\ inbox' = [inbox EXCEPT ![m] = Append(@, Stop)]
    /\ UNCHANGED <<registered, roster, mate, loop, cursor, shared, exec, replies, deletion>>

-----------------------------------------------------------------------------
\* team_delete: cancel_current of every member, then stop of every member

DeleteBegins ==
    /\ Free /\ registered /\ deletion.pc = "none"
    /\ \E pass \in {"cancelling", "stopping"}:
          deletion' = [pc |-> pass, todo |-> Members, waits |-> NoTask]
    /\ UNCHANGED <<registered, roster, workVars, cursor, shared, replies, changes>>

\* They go through the members in the order of the roster.
IsNext(i) == i \in deletion.todo /\ \A j \in deletion.todo: i <= j

\* The agent task that cancel_current finds and waits for.
Backed(m) == LET k == mate[m].run
             IN k # NoTask /\ exec[k].stored /\ exec[k].pc \in {"queued", "running", "cancelled"}

\* cancel_agent_task: a task whose id is stored has begun, and catches it.
Visit(i) ==
    LET m == Mates[i]
        k == mate[m].run
    IN
    /\ Going /\ IsNext(i) /\ Backed(m)
    /\ exec' = [exec EXCEPT ![k].pc = "cancelled"]
    /\ mate' = [mate EXCEPT ![m].asked = @ \/ deletion.pc = "stopping"]
    /\ deletion' = [deletion EXCEPT !.waits = k]
    /\ UNCHANGED <<registered, roster, loop, inbox, cursor, shared, replies, changes>>

\* abort_run, which finds nothing before the run is registered; and in the second pass
\* the member is stopped all the same.
Leave(i) ==
    LET m == Mates[i] IN
    /\ exec' = [k \in Tasks |->
                  IF k = mate[m].run /\ InProgress(k)
                  THEN [exec[k] EXCEPT !.signalled = exec[k].pc # "queued", !.unheard = exec[k].pc = "queued"]
                  ELSE exec[k]]
    /\ mate' = IF deletion.pc = "stopping"
               THEN [mate EXCEPT ![m] = TeamMate("stopped", TRUE, @.run)] ELSE mate
    /\ deletion' = [deletion EXCEPT !.todo = @ \ {i}, !.waits = NoTask]
    /\ UNCHANGED <<registered, roster, loop, inbox, cursor, shared, replies, changes>>

Pass(i) == Going /\ IsNext(i) /\ ~Backed(Mates[i]) /\ Leave(i)

Waited(i) ==
    /\ deletion.waits # NoTask /\ exec[deletion.waits].pc = "ended"
    /\ IsNext(i) /\ Leave(i)

Unregister == registered' = FALSE

PassEnds ==
    /\ Going /\ deletion.todo = {}
    /\ IF deletion.pc = "cancelling"
       THEN deletion' = [deletion EXCEPT !.pc = "stopping", !.todo = Members] /\ UNCHANGED registered
       ELSE deletion' = [deletion EXCEPT !.pc = "done"] /\ Unregister
    /\ UNCHANGED <<roster, workVars, cursor, shared, replies, changes>>

LoopStep(m) == Idles(m) \/ Receives(m) \/ Returns(m)
ExecNext(k) == Begins(k) \/ Stores(k) \/ TimesOut(k) \/ CatchesCancel(k) \/ \E ok \in BOOLEAN: Concludes(k, ok)
DeleteStep == (\E i \in DOMAIN Mates: Visit(i) \/ Pass(i) \/ Waited(i)) \/ PassEnds

TeamNext ==
    \/ EnsureTeam \/ \E ms \in SUBSET MateSet: CreateTeam(ms)
    \/ \E m \in MateSet: Join(m) \/ Remove(m) \/ Starts(m) \/ SendStop(m) \/ LoopStep(m)
                         \/ \E status \in {"active", "disabled"}: Enable(m, status)
    \/ \E k \in Tasks: \/ \E for \in Addressees: CreateShared(k, for)
                       \/ DispatchAssigned(k) \/ CancelShared(k) \/ RemoveShared(k) \/ ExecNext(k)
    \/ DispatchNext \/ ClearTerminal \/ Collect \/ DeleteBegins \/ DeleteStep

TeamSpec == TeamInit /\ [][TeamNext]_teamVars

\* Waits of the loops time out or end, agents answer, and team_delete goes on.
TeamFairness ==
    /\ \A m \in MateSet: WF_teamVars(LoopStep(m))
    /\ \A k \in Tasks: WF_teamVars(ExecNext(k))
    /\ WF_teamVars(DeleteStep)

-----------------------------------------------------------------------------
TeamTypeOK ==
    /\ \A m \in MateSet:
          /\ roster[m] \in {"absent", "active", "disabled", "removed"}
          /\ mate[m].status \in {"idle", "waiting", "running", "stopped"} /\ mate[m].run \in Tasks \cup {NoTask}
          /\ loop[m] \in {"off", "waiting", "executing"} /\ inbox[m] \in Seq(Tasks \cup {Stop})
    /\ \A k \in Tasks: shared[k].status \in SharedStatus
    /\ deletion.pc \in {"none", "cancelling", "stopping", "done"}

(***************************************************************************)
(* A teammate executes one thing at a time, however it is stopped or its   *)
(* tasks are cancelled; and one that is offered a task has nothing to do.  *)
(***************************************************************************)
OneThingAtATime ==
    \A m \in MateSet:
       /\ Cardinality({k \in Tasks: InProgress(k) /\ exec[k].by = m}) <= 1
       /\ Available(m) => \A k \in Tasks: InProgress(k) => exec[k].by # m

(***************************************************************************)
(* What the list says of a task is what came of its message: a success     *)
(* only after its execution succeeded, a failure only after it failed.     *)
(***************************************************************************)
ListIsTrue ==
    \A k \in Tasks:
       /\ shared[k].status = "succeeded" => exec[k].pc = "ended" /\ exec[k].ok
       /\ shared[k].status = "failed" => exec[k].pc = "ended" /\ ~exec[k].ok

(***************************************************************************)
(* A team keeps its books: both of them, whatever is stopped or cancelled. *)
(***************************************************************************)
TeamIsTrue == OneThingAtATime /\ ListIsTrue

(***************************************************************************)
(* A task that was cancelled stays cancelled, whatever is collected later. *)
(***************************************************************************)
CancelledStays ==
    [][\A k \in Tasks: shared[k].status = "cancelled" =>
          shared'[k].status \in {"cancelled", "removed"}]_teamVars

(***************************************************************************)
(* After team_delete each member is stopped, and what is still under way   *)
(* was told to abort and will not succeed - but for a task in the task     *)
(* manager whose start the teammate still waited for when it was stopped:  *)
(* its id was not stored and its run not registered, so that it goes on.   *)
(***************************************************************************)
DeletedIsQuiet ==
    deletion.pc = "done" =>
        \A m \in MateSet: Member(m) =>
            /\ Stopped(m)
            /\ \A k \in Tasks: InProgress(k) /\ exec[k].by = m =>
                  exec[k].signalled \/ (exec[k].backed /\ exec[k].unheard)

(***************************************************************************)
(* team_delete comes to an end, and so does every execution, however they  *)
(* wait for each other.                                                    *)
(***************************************************************************)
TeamSettles ==
    /\ []<>(deletion.pc \notin {"cancelling", "stopping"})
    /\ \A k \in Tasks: []<>~InProgress(k)
=============================================================================
