----------------------------- MODULE ToolsProofs -----------------------------
(***************************************************************************)
(* What is said of the tools, the mailbox, the panel and the models holds  *)
(* for any commands, tasks, agents, providers, replies and configurations, *)
(* and whatever the bounds.  The parts share no state: each has its own    *)
(* inductive invariant, and the theorems at the end put them together.     *)
(***************************************************************************)
EXTENDS MCTools, SequenceTheorems, FiniteSetTheorems, TLAPS

-----------------------------------------------------------------------------
(***************************************************************************)
(* The commands: where the call is tells how far its process can be.       *)
(***************************************************************************)
\* What is over: nobody of it can write to its pipes any more.
Over(c) == process[c] = "dead" /\ ~(child[c].alive /\ child[c].pipe)
GroupGone(c) == ~(child[c].alive /\ child[c].group)

\* Where the call of a command is tells how far its process can be.
CommandBook(c) ==
    /\ running.cmd = c => outcome[c] = "none" /\ running.at # "none"
    /\ (outcome[c] = "none" /\ running.cmd # c) \/ (running.cmd = c /\ running.at = "start")
          => process[c] = "none"
    /\ process[c] = "none" => child[c] = NoChild
    /\ c \in noticed => process[c] = "dead"
    /\ outcome[c] = "raised" => ~Alive(c)
    /\ running.cmd = c /\ running.at = "drain" =>
          process[c] = "dead" /\ (running.killed = "group" => GroupGone(c))
    /\ outcome[c] \in {"result", "late", "half killed", "killed"} =>
          Over(c) /\ (outcome[c] = "killed" => GroupGone(c))

ShellInv ==
    /\ ShellTypeOK
    /\ running.cmd = NoCommand => running = NoCall
    /\ \A c \in Commands: CommandBook(c)

LEMMA ShellInvInit == ShellInit => ShellInv
  BY ShellAssumption DEF ShellInit, ShellInv, ShellTypeOK, CommandBook, NoCall, NoChild, Alive, NoCommand

ChildSet == [alive: BOOLEAN, group: BOOLEAN, pipe: BOOLEAN]

LEMMA ChildFields ==
    ASSUME NEW a \in BOOLEAN, NEW g \in BOOLEAN, NEW p \in BOOLEAN, NEW r \in ChildSet
    PROVE  /\ [alive |-> a, group |-> g, pipe |-> p] \in ChildSet
           /\ [r EXCEPT !.alive = a] = [alive |-> a, group |-> r.group, pipe |-> r.pipe]
           /\ r.alive \in BOOLEAN /\ r.group \in BOOLEAN /\ r.pipe \in BOOLEAN
  BY DEF ChildSet

\* A step is about one command: the others keep what they have.
OthersKeep(c) ==
    /\ running' = running \/ (running.cmd \in {c, NoCommand} /\ running'.cmd \in {c, NoCommand})
    /\ \A d \in Commands: d # c => /\ outcome'[d] = outcome[d] /\ process'[d] = process[d]
                                   /\ child'[d] = child[d] /\ (d \in noticed' <=> d \in noticed)

LEMMA OneCommand ==
    ASSUME ShellInv, NEW c \in Commands, ShellTypeOK', OthersKeep(c),
           running'.cmd = NoCommand => running' = NoCall, CommandBook(c)'
    PROVE  ShellInv'
<1>1. ASSUME NEW d \in Commands, d # c PROVE CommandBook(d)'
  <2>1. CommandBook(d) /\ d # NoCommand
    BY ShellAssumption DEF ShellInv
  <2>2. /\ outcome'[d] = outcome[d] /\ process'[d] = process[d]
        /\ child'[d] = child[d] /\ (d \in noticed' <=> d \in noticed)
    BY <1>1 DEF OthersKeep
  <2>3. /\ Alive(d)' = Alive(d) /\ Over(d)' = Over(d) /\ GroupGone(d)' = GroupGone(d)
    BY <2>2 DEF Alive, Over, GroupGone
  <2>4. CASE running' = running
    BY <2>1, <2>2, <2>3, <2>4 DEF CommandBook
  <2>5. CASE running.cmd # d /\ running'.cmd # d
    BY <2>1, <2>2, <2>3, <2>5 DEF CommandBook
  <2> QED BY <1>1, <2>1, <2>4, <2>5 DEF OthersKeep
<1> QED BY <1>1 DEF ShellInv

LEMMA ShellParts ==
    ASSUME ShellInv, NEW c \in Commands
    PROVE  /\ ShellTypeOK /\ CommandBook(c) /\ c # NoCommand
           /\ running.cmd = NoCommand => running = NoCall
  BY ShellAssumption DEF ShellInv

LEMMA ProcessKeeps ==
    ASSUME ShellInv, NEW c \in Commands, Forks(c) \/ Exits(c) \/ ChildExits(c) \/ Notices(c)
    PROVE  ShellInv'
<1> USE DEF NoCall, NoChild, Alive, NoCommand, GroupGone, Over
<1>1. CASE Forks(c)
  <2>1. ShellTypeOK'
    <3>1. PICK g \in BOOLEAN, p \in BOOLEAN:
             child' = [child EXCEPT ![c] = [alive |-> TRUE, group |-> g, pipe |-> p]]
      BY <1>1 DEF Forks
    <3>2. [alive |-> TRUE, group |-> g, pipe |-> p] \in ChildSet
      BY DEF ChildSet
    <3>3. child \in [Commands -> ChildSet]
      BY DEF ShellInv, ShellTypeOK, ChildSet
    <3>4. child' \in [Commands -> ChildSet]
      BY <3>1, <3>2, <3>3
    <3> QED BY <1>1, <3>4 DEF Forks, ShellInv, ShellTypeOK, ChildSet
  <2>2. (running.cmd = NoCommand => running = NoCall)'
    BY <1>1 DEF Forks, ShellInv, ShellTypeOK
  <2>3. ASSUME NEW d \in Commands PROVE CommandBook(d)'
    <3>1. CommandBook(d) /\ CommandBook(c)
      BY DEF ShellInv
    <3>2. CASE d = c
      BY <1>1, <3>1, <3>2 DEF Forks, ShellInv, ShellTypeOK, CommandBook
    <3>3. CASE d # c
      BY <1>1, <3>1, <3>3 DEF Forks, ShellInv, ShellTypeOK, CommandBook
    <3> QED BY <3>2, <3>3
  <2> QED BY <2>1, <2>2, <2>3 DEF ShellInv
<1>2. CASE Exits(c)
  <2>1. ShellTypeOK /\ CommandBook(c) /\ c # NoCommand /\ (running.cmd = NoCommand => running = NoCall)
    BY ShellParts
  <2>2. ShellTypeOK'
    BY <1>2, <2>1 DEF Exits, ShellTypeOK
  <2>3. OthersKeep(c) /\ (running'.cmd = NoCommand => running' = NoCall)
    BY <1>2, <2>1 DEF Exits, ShellTypeOK, OthersKeep
  <2>4. CommandBook(c)'
    BY <1>2, <2>1 DEF Exits, ShellTypeOK, CommandBook
  <2> QED BY <2>2, <2>3, <2>4, OneCommand
<1>3. CASE ChildExits(c)
  <2>1. child \in [Commands -> ChildSet]
    BY DEF ShellInv, ShellTypeOK, ChildSet
  <2>2. /\ [child[c] EXCEPT !.alive = FALSE] \in ChildSet
        /\ [child[c] EXCEPT !.alive = FALSE].alive = FALSE
    BY <2>1 DEF ChildSet
  <2>3. child' = [child EXCEPT ![c] = [child[c] EXCEPT !.alive = FALSE]]
    BY <1>3 DEF ChildExits
  <2>4. child' \in [Commands -> ChildSet]
    BY <2>1, <2>2, <2>3
  <2>5. ShellTypeOK'
    BY <1>3, <2>4 DEF ChildExits, ShellInv, ShellTypeOK, ChildSet
  <2>6. ASSUME NEW d \in Commands PROVE CommandBook(d)'
    <3>1. CommandBook(d)
      BY DEF ShellInv
    <3>2. child'[d] = IF d = c THEN [child[c] EXCEPT !.alive = FALSE] ELSE child[d]
      BY <2>1, <2>3
    <3>3. process[c] # "none"
      <4>1. CommandBook(c) /\ child[c].alive
        BY <1>3 DEF ChildExits, ShellInv
      <4> HIDE DEF NoChild
      <4>2. process[c] = "none" => child[c] = NoChild
        BY <4>1 DEF CommandBook
      <4>3. ~NoChild.alive
        BY DEF NoChild
      <4> QED BY <4>1, <4>2, <4>3
    <3> HIDE DEF Alive, NoChild
    <3>4. Alive(d)' = Alive(d)
      BY <1>3 DEF ChildExits, Alive
    <3>5. CASE d = c
      <4>1. /\ UNCHANGED <<running, outcome, process, noticed>>
            /\ child'[c].alive = FALSE /\ process[c] # "none"
        BY <1>3, <2>2, <3>2, <3>3, <3>5 DEF ChildExits
      <4> QED BY <3>1, <3>4, <3>5, <4>1 DEF CommandBook
    <3>6. CASE d # c
      <4>1. /\ UNCHANGED <<running, outcome, process, noticed>>
            /\ child'[d] = child[d]
        BY <1>3, <3>2, <3>6 DEF ChildExits
      <4> QED BY <3>1, <3>4, <4>1 DEF CommandBook
    <3> QED BY <3>5, <3>6
  <2> QED BY <1>3, <2>5, <2>6 DEF ChildExits, ShellInv
<1>4. CASE Notices(c)
  <2>1. ShellTypeOK /\ CommandBook(c) /\ c # NoCommand /\ (running.cmd = NoCommand => running = NoCall)
    BY ShellParts
  <2>2. ShellTypeOK'
    BY <1>4, <2>1 DEF Notices, ShellTypeOK
  <2>3. OthersKeep(c) /\ (running'.cmd = NoCommand => running' = NoCall)
    BY <1>4, <2>1 DEF Notices, ShellTypeOK, OthersKeep
  <2>4. CommandBook(c)'
    BY <1>4, <2>1 DEF Notices, ShellTypeOK, CommandBook
  <2> QED BY <2>2, <2>3, <2>4, OneCommand
<1> QED BY <1>1, <1>2, <1>3, <1>4

LEMMA CallKeeps ==
    ASSUME ShellInv, NEW c \in Commands,
           Refused(c) \/ Bash(c) \/ PowerShell(c) \/ Rg(c) \/ Starts(c)
    PROVE  ShellInv'
<1> USE ShellAssumption DEF NoCall, NoChild, Alive, NoCommand, GroupGone, Over
<1>1. CASE Refused(c)
  <2>1. ShellTypeOK /\ CommandBook(c) /\ c # NoCommand /\ (running.cmd = NoCommand => running = NoCall)
    BY ShellParts
  <2>2. ShellTypeOK'
    BY <1>1, <2>1 DEF Refused, ShellTypeOK
  <2>3. OthersKeep(c) /\ (running'.cmd = NoCommand => running' = NoCall)
    BY <1>1, <2>1 DEF Refused, ShellTypeOK, OthersKeep
  <2>4. CommandBook(c)'
    BY <1>1, <2>1 DEF Refused, ShellTypeOK, CommandBook
  <2> QED BY <2>2, <2>3, <2>4, OneCommand
<1>2. CASE Bash(c) \/ PowerShell(c) \/ Rg(c)
  <2>1. PICK tool \in {"bash", "powershell", "rg"}: Calls(c, tool)
    BY <1>2 DEF Bash, PowerShell, Rg
  <2>2. /\ running'.cmd = c /\ running'.at = "start" /\ running.cmd = NoCommand
        /\ outcome[c] = "none" /\ UNCHANGED <<outcome, process, child, noticed>>
    BY <2>1 DEF Calls
  <2>3. ShellTypeOK'
    BY <2>1 DEF Calls, ShellInv, ShellTypeOK
  <2>4. ASSUME NEW d \in Commands PROVE CommandBook(d)'
    <3>1. CommandBook(d)
      BY DEF ShellInv
    <3>2. running.cmd # d /\ UNCHANGED <<outcome[d], process[d], child[d], noticed>>
      BY <2>2
    <3>3. running'.at = "start" /\ running'.cmd = c /\ outcome[c] = "none"
      BY <2>2
    <3> HIDE DEF Alive
    <3>4. Alive(d)' = Alive(d)
      BY <3>2 DEF Alive
    <3> QED BY <3>1, <3>2, <3>3, <3>4 DEF CommandBook
  <2> QED BY <2>2, <2>3, <2>4 DEF ShellInv
<1>3. CASE Starts(c)
  <2>1. ShellTypeOK'
    BY <1>3 DEF Starts, ShellInv, ShellTypeOK, CommandBook
  <2>2. (running.cmd = NoCommand => running = NoCall)'
    BY <1>3 DEF Starts, ShellInv, ShellTypeOK
  <2>3. ASSUME NEW d \in Commands PROVE CommandBook(d)'
    <3>1. CommandBook(d) /\ CommandBook(c)
      BY DEF ShellInv
    <3>2. CASE d = c
      BY <1>3, <3>1, <3>2 DEF Starts, ShellInv, ShellTypeOK, CommandBook
    <3>3. CASE d # c
      BY <1>3, <3>1, <3>3 DEF Starts, ShellInv, ShellTypeOK, CommandBook
    <3> QED BY <3>2, <3>3
  <2> QED BY <2>1, <2>2, <2>3 DEF ShellInv
<1> QED BY <1>1, <1>2, <1>3

LEMMA EndKeeps ==
    ASSUME ShellInv, NEW c \in Commands,
           StartFails(c) \/ Returns(c) \/ Drains(c) \/ Abort(c)
    PROVE  ShellInv'
<1> USE ShellAssumption DEF NoCall, NoChild, Alive, NoCommand, GroupGone, Over
<1>1. CASE StartFails(c)
  <2>1. ShellTypeOK /\ CommandBook(c) /\ c # NoCommand /\ (running.cmd = NoCommand => running = NoCall)
    BY ShellParts
  <2>2. ShellTypeOK'
    BY <1>1, <2>1 DEF StartFails, Ends, ShellTypeOK
  <2>3. OthersKeep(c) /\ (running'.cmd = NoCommand => running' = NoCall)
    BY <1>1, <2>1 DEF StartFails, Ends, ShellTypeOK, OthersKeep
  <2>4. CommandBook(c)'
    BY <1>1, <2>1 DEF StartFails, Ends, ShellTypeOK, CommandBook
  <2> QED BY <2>2, <2>3, <2>4, OneCommand
<1>2. CASE Returns(c)
  <2>1. ShellTypeOK /\ CommandBook(c) /\ c # NoCommand /\ (running.cmd = NoCommand => running = NoCall)
    BY ShellParts
  <2>2. ShellTypeOK'
    BY <1>2, <2>1 DEF Returns, AtEnd, Ends, ShellTypeOK
  <2>3. OthersKeep(c) /\ (running'.cmd = NoCommand => running' = NoCall)
    BY <1>2, <2>1 DEF Returns, AtEnd, Ends, ShellTypeOK, OthersKeep
  <2>4. CommandBook(c)'
    BY <1>2, <2>1 DEF Returns, AtEnd, Ends, ShellTypeOK, CommandBook
  <2> QED BY <2>2, <2>3, <2>4, OneCommand
<1>3. CASE Drains(c)
  <2>1. ShellTypeOK /\ CommandBook(c) /\ c # NoCommand /\ (running.cmd = NoCommand => running = NoCall)
    BY ShellParts
  <2>2. ShellTypeOK'
    BY <1>3, <2>1 DEF Drains, TimedOut, AtEnd, Ends, ShellTypeOK
  <2>3. OthersKeep(c) /\ (running'.cmd = NoCommand => running' = NoCall)
    BY <1>3, <2>1 DEF Drains, AtEnd, Ends, ShellTypeOK, OthersKeep
  <2>4. CommandBook(c)'
    BY <1>3, <2>1 DEF Drains, TimedOut, AtEnd, Ends, ShellTypeOK, CommandBook
  <2> QED BY <2>2, <2>3, <2>4, OneCommand
<1>4. CASE Abort(c)
  <2>1. ShellTypeOK /\ CommandBook(c) /\ c # NoCommand /\ (running.cmd = NoCommand => running = NoCall)
    BY ShellParts
  <2>2. ShellTypeOK'
    BY <1>4, <2>1 DEF Abort, Ends, ShellTypeOK
  <2>3. OthersKeep(c) /\ (running'.cmd = NoCommand => running' = NoCall)
    BY <1>4, <2>1 DEF Abort, Ends, ShellTypeOK, OthersKeep
  <2>4. CommandBook(c)'
    BY <1>4, <2>1 DEF Abort, Ends, ShellTypeOK, CommandBook
  <2> QED BY <2>2, <2>3, <2>4, OneCommand
<1> QED BY <1>1, <1>2, <1>3, <1>4

LEMMA TimeoutKeeps == ASSUME ShellInv, NEW c \in Commands, TimesOut(c) PROVE ShellInv'
<1> USE ShellAssumption DEF NoCall, NoChild, Alive, NoCommand, GroupGone, Over
<1>0. PICK reached \in {"none", "process", "group"}:
         Terminate(c, reached) /\ running' = [running EXCEPT !.at = "drain", !.killed = reached]
  BY DEF TimesOut
<1>a. running.cmd = c /\ running.at = "read" /\ UNCHANGED <<outcome, noticed>>
  BY DEF TimesOut
<1>b. /\ running'.cmd = c /\ running'.tool = running.tool /\ running'.at = "drain"
      /\ running'.killed = reached /\ running' # NoCall
  BY <1>0, <1>a DEF ShellInv, ShellTypeOK
<1>1. CASE c \in noticed
  <2>1. reached = "none" /\ UNCHANGED <<process, child>>
    BY <1>0, <1>1 DEF Terminate
  <2>2. ShellTypeOK'
    BY <1>0, <1>a, <2>1 DEF ShellInv, ShellTypeOK
  <2>3. ASSUME NEW d \in Commands PROVE CommandBook(d)'
    <3>1. CommandBook(d)
      BY DEF ShellInv
    <3>2. CASE d = c
      BY <1>1, <1>a, <1>b, <2>1, <3>1, <3>2 DEF ShellInv, ShellTypeOK, CommandBook
    <3>3. CASE d # c
      BY <1>a, <1>b, <2>1, <3>1, <3>3 DEF ShellInv, ShellTypeOK, CommandBook
    <3> QED BY <3>2, <3>3
  <2> QED BY <1>b, <2>2, <2>3 DEF ShellInv
<1>2. CASE c \notin noticed
  <2> DEFINE lives == child[c].alive /\ ~(reached = "group" /\ child[c].group)
             then == [child[c] EXCEPT !.alive = lives]
  <2>1. child \in [Commands -> ChildSet]
    BY DEF ShellInv, ShellTypeOK, ChildSet
  <2>2. then \in ChildSet /\ then.alive = lives /\ then.group = child[c].group /\ then.pipe = child[c].pipe
    <3>1. lives \in BOOLEAN
      OBVIOUS
    <3> HIDE DEF lives
    <3> QED BY <2>1, <3>1 DEF ChildSet
  <2>3. /\ child' = [child EXCEPT ![c] = then]
        /\ process' = [process EXCEPT ![c] = "dead"]
    BY <1>0, <1>2 DEF Terminate, Kill
  <2> HIDE DEF then
  <2>4. child' \in [Commands -> ChildSet]
    BY <2>1, <2>2, <2>3
  <2>5. ShellTypeOK'
    BY <1>0, <1>a, <2>3, <2>4 DEF ShellInv, ShellTypeOK, ChildSet
  <2>6. ASSUME NEW d \in Commands, d # c PROVE CommandBook(d)'
    <3>1. CommandBook(d) /\ child'[d] = child[d] /\ process'[d] = process[d]
      BY <2>1, <2>3, <2>6 DEF ShellInv, ShellTypeOK
    <3> QED BY <1>a, <1>b, <2>6, <3>1 DEF CommandBook
  <2>7. CommandBook(c)'
    <3>1. child'[c] = then /\ process'[c] = "dead" /\ CommandBook(c)
      BY <2>1, <2>3 DEF ShellInv, ShellTypeOK
    <3> QED BY <1>a, <1>b, <2>2, <3>1 DEF CommandBook
  <2> QED BY <1>b, <2>5, <2>6, <2>7 DEF ShellInv
<1> QED BY <1>1, <1>2

LEMMA ShellInvNext == ASSUME ShellInv, [ShellNext]_shellVars PROVE ShellInv'
<1>1. CASE UNCHANGED shellVars
  BY <1>1 DEF shellVars, ShellInv, ShellTypeOK, CommandBook, Alive, Over, GroupGone
<1>2. CASE ShellNext
  BY <1>2, ProcessKeeps, CallKeeps, EndKeeps, TimeoutKeeps DEF ShellNext, ShellStep, ProgramStep
<1> QED BY <1>1, <1>2

LEMMA ShellAnswers == ShellInv => ResultIsFinal
  BY DEF ShellInv, CommandBook, ResultIsFinal, Over, GroupGone, Alive, ShellTypeOK

-----------------------------------------------------------------------------
(***************************************************************************)
(* The tools for background tasks: an execution, its record and its id.    *)
(***************************************************************************)
EntryAt == {"none", "ready", "doomed", "running", "cancelling", "dead"}
CallAt == {"idle", "starting", "waiting", "stopping"}
Shareds == (TaskStatus \ {"queued", "retrying"}) \union {"none", "assigned"}
CallSet == [at: CallAt, id: TaskIds \union {"none"}, rec: Nat, wait: BOOLEAN,
            target: {"none", "auto", "task_manager"}]
Row == [id: TaskIds, rec: Record, edits: 0..MaxEdits]

TaskTypes ==
    /\ record \in Seq(Row) /\ listed \in [TaskIds -> 0..Len(record)]
    /\ entry \in [TaskIds -> [rec: 0..Len(record), at: EntryAt]]
    /\ runners \subseteq TaskIds /\ shared \in [TaskIds -> Shareds]
    /\ call \in CallSet

\* A record is found, and executed, under its own id; and what is executed is listed.
ListedIsOwn == \A id \in TaskIds: listed[id] # 0 => record[listed[id]].id = id

EntryIsOwn ==
    \A id \in TaskIds:
        /\ entry[id].at = "none" => entry[id].rec = 0
        /\ entry[id].at # "none" =>
              entry[id].rec # 0 /\ record[entry[id].rec].id = id /\ listed[id] # 0

\* Of the records of one id only the one that is executed looks busy.
BusyHasEntry ==
    \A n \in 1..Len(record):
        record[n].edits = 0 /\ record[n].rec.status \in {"queued", "running"} =>
            entry[record[n].id].rec = n

\* A call in progress is about a record of its id, and nothing has been said meanwhile.
CallIsOwn ==
    call.at # "idle" =>
        /\ call.id \in TaskIds /\ call.rec \in 1..Len(record)
        /\ record[call.rec].id = call.id /\ said.what # "stopped"

\* What is being stopped is the record that was executed when the stop was asked.
StopTracks ==
    call.at = "stopping" =>
        /\ entry[call.id].at # "none" => entry[call.id].rec = call.rec
        /\ entry[call.id].at = "none" => IsTerminal(record[call.rec].rec)

StopWasTold ==
    said.what = "stopped" =>
        /\ said.id \in TaskIds /\ listed[said.id] # 0
        /\ ~IsRunning(said.id) /\ IsTerminal(record[listed[said.id]].rec)

TaskInv == TaskTypes /\ ListedIsOwn /\ EntryIsOwn /\ BusyHasEntry /\ CallIsOwn
           /\ StopTracks /\ StopWasTold

LEMMA MarksAreRecords ==
    ASSUME NEW r \in Record
    PROVE  /\ MarkQueued(r) \in Record /\ MarkQueued(r).status = "queued"
           /\ MarkRunning(r) \in Record /\ MarkRunning(r).status = "running"
           /\ MarkSucceeded(r) \in Record /\ IsTerminal(MarkSucceeded(r))
           /\ MarkFailed(r) \in Record /\ IsTerminal(MarkFailed(r))
           /\ MarkCancelled(r) \in Record /\ IsTerminal(MarkCancelled(r))
           /\ CanRetry(r) => MarkRetrying(r) \in Record
           /\ IsTerminal(r) => r.status \notin {"queued", "running"}
<1>1. MarkQueued(r) \in Record /\ MarkQueued(r).status = "queued"
  BY DEF Record, TaskStatus, MarkQueued
<1>2. MarkRunning(r) \in Record /\ MarkRunning(r).status = "running"
  BY DEF Record, TaskStatus, MarkRunning
<1>3. MarkSucceeded(r) \in Record /\ IsTerminal(MarkSucceeded(r))
  BY DEF Record, TaskStatus, MarkSucceeded, IsTerminal, TerminalStatus
<1>4. MarkFailed(r) \in Record /\ IsTerminal(MarkFailed(r))
  BY DEF Record, TaskStatus, MarkFailed, IsTerminal, TerminalStatus
<1>5. MarkCancelled(r) \in Record /\ IsTerminal(MarkCancelled(r))
  BY DEF Record, TaskStatus, MarkCancelled, IsTerminal, TerminalStatus
<1>6. ASSUME CanRetry(r) PROVE MarkRetrying(r) \in Record
  <2>1. r.retries + 1 \in 0..MaxRetries
    BY <1>6, MaxRetriesIsNat DEF Record, CanRetry
  <2>2. MarkRetrying(r) = [r EXCEPT !.status = "retrying", !.retries = r.retries + 1]
    BY DEF MarkRetrying
  <2> QED BY <2>1, <2>2 DEF Record, TaskStatus
<1>7. IsTerminal(r) => r.status \notin {"queued", "running"}
  BY DEF IsTerminal, TerminalStatus
<1> QED BY <1>1, <1>2, <1>3, <1>4, <1>5, <1>6, <1>7

LEMMA NewIsRecord ==
    /\ NewRecord \in Record /\ NewRecord.status = "pending"
    /\ MarkQueued(NewRecord) \in Record /\ MarkQueued(NewRecord).status = "queued"
<1>1. NewRecord \in Record /\ NewRecord.status = "pending"
  BY MaxRetriesIsNat DEF NewRecord, Record, TaskStatus
<1> QED BY <1>1, MarksAreRecords

LEMMA TaskInvInit == TaskInit => TaskInv
<1> SUFFICES ASSUME TaskInit PROVE TaskInv
  OBVIOUS
<1>1. record = <<>> /\ Len(record) = 0 /\ record \in Seq(Row)
  BY DEF TaskInit
<1>2. TaskTypes
  <2>1. listed \in [TaskIds -> 0..0]
    BY DEF TaskInit
  <2>2. NoEntry \in [rec: 0..0, at: EntryAt]
    BY DEF NoEntry, EntryAt
  <2>3. entry \in [TaskIds -> [rec: 0..0, at: EntryAt]]
    BY <2>2 DEF TaskInit
  <2>4. shared \in [TaskIds -> Shareds] /\ runners \subseteq TaskIds /\ call \in CallSet
    BY DEF TaskInit, Shareds, NoTaskCall, CallAt, CallSet
  <2> QED BY <1>1, <2>1, <2>3, <2>4 DEF TaskTypes
<1>3. ListedIsOwn /\ EntryIsOwn /\ BusyHasEntry
  BY <1>1 DEF TaskInit, ListedIsOwn, EntryIsOwn, BusyHasEntry, NoEntry
<1>4. CallIsOwn /\ StopTracks /\ StopWasTold
  BY DEF TaskInit, CallIsOwn, StopTracks, StopWasTold, NoTaskCall, Nothing
<1> QED BY <1>2, <1>3, <1>4 DEF TaskInv

\* What the rows are after a write: the same rows, but for the record of one of them.
RowsStay(n) ==
    /\ record' \in Seq(Row) /\ Len(record') = Len(record)
    /\ \A m \in 1..Len(record): record'[m].id = record[m].id
    /\ \A m \in 1..Len(record): m # n => record'[m] = record[m]

LEMMA FunctionIsSeq ==
    ASSUME NEW S, NEW n \in Nat, NEW f \in [1..n -> S]
    PROVE  f \in Seq(S) /\ Len(f) = n
  OBVIOUS

LEMMA RowWritten ==
    ASSUME record \in Seq(Row), NEW n \in 1..Len(record), NEW r \in Record, NEW e \in 0..MaxEdits,
           record' = [record EXCEPT ![n].rec = r, ![n].edits = e]
    PROVE  RowsStay(n) /\ record'[n].rec = r /\ record'[n].edits = e
<1> DEFINE row == [record[n] EXCEPT !.rec = r, !.edits = e]
<1>1. Len(record) \in Nat /\ DOMAIN record = 1..Len(record) /\ \A m \in 1..Len(record): record[m] \in Row
  OBVIOUS
<1>2. row \in Row /\ row.rec = r /\ row.edits = e /\ row.id = record[n].id
  BY <1>1 DEF Row
<1>3. record' = [m \in 1..Len(record) |-> IF m = n THEN row ELSE record[m]]
  BY <1>1
<1> HIDE DEF row
<1>4. record' \in [1..Len(record) -> Row]
  BY <1>1, <1>2, <1>3
<1>5. record' \in Seq(Row) /\ Len(record') = Len(record)
  <2> DEFINE len == Len(record)
  <2>1. len \in Nat /\ record' \in [1..len -> Row]
    BY <1>1, <1>4
  <2> HIDE DEF len
  <2>2. record' \in Seq(Row) /\ Len(record') = len
    BY ONLY <2>1, FunctionIsSeq
  <2> QED BY <2>2 DEF len
<1>6. record'[n] = row /\ \A m \in 1..Len(record): m # n => record'[m] = record[m]
  BY <1>3
<1> QED BY <1>2, <1>5, <1>6 DEF RowsStay

LEMMA RecordWritten ==
    ASSUME record \in Seq(Row), NEW n \in 1..Len(record), NEW r \in Record, Write(n, r)
    PROVE  RowsStay(n) /\ record'[n].rec = r /\ record'[n].edits = record[n].edits
<1>1. record[n] \in Row
  OBVIOUS
<1>2. record[n].edits \in 0..MaxEdits
  BY <1>1 DEF Row
<1>3. record' = [record EXCEPT ![n].rec = r, ![n].edits = record[n].edits]
  <2>1. [record[n] EXCEPT !.rec = r] = [record[n] EXCEPT !.rec = r, !.edits = record[n].edits]
    BY <1>1 DEF Row
  <2>2. record' = [record EXCEPT ![n] = [record[n] EXCEPT !.rec = r]]
    BY DEF Write
  <2> QED BY <2>1, <2>2
<1> QED BY <1>2, <1>3, RowWritten

\* What an execution may do: its entry changes or goes, its record is written.
LEMMA ExecutionKeeps ==
    ASSUME TaskInv, NEW id \in TaskIds, entry[id].at \notin {"none", "dead"},
           NEW e \in [rec: 0..Len(record), at: EntryAt], entry' = [entry EXCEPT ![id] = e],
           RowsStay(entry[id].rec),
           record'[entry[id].rec].edits = record[entry[id].rec].edits,
           e.at = "none" => e.rec = 0 /\ IsTerminal(record'[entry[id].rec].rec),
           e.at # "none" => e.rec = entry[id].rec,
           UNCHANGED <<listed, runners, shared, call, said>>
    PROVE  TaskInv'
<1> DEFINE n == entry[id].rec
<1>1. /\ record \in Seq(Row) /\ Len(record) \in Nat /\ listed \in [TaskIds -> 0..Len(record)]
      /\ entry \in [TaskIds -> [rec: 0..Len(record), at: EntryAt]]
  BY DEF TaskInv, TaskTypes
<1>2. n \in 1..Len(record) /\ record[n].id = id /\ listed[id] # 0
  BY <1>1 DEF TaskInv, EntryIsOwn
<1>3. entry'[id] = e /\ \A i \in TaskIds: i # id => entry'[i] = entry[i]
  BY <1>1
<1>4. RowsStay(n) /\ record'[n].edits = record[n].edits
  OBVIOUS
<1> HIDE DEF n
<1>5. TaskTypes'
  BY <1>4 DEF TaskInv, TaskTypes, RowsStay
<1>6. ListedIsOwn'
  BY <1>1, <1>4 DEF TaskInv, ListedIsOwn, RowsStay
<1>7. EntryIsOwn'
  <2> SUFFICES ASSUME NEW i \in TaskIds
               PROVE  /\ entry'[i].at = "none" => entry'[i].rec = 0
                      /\ entry'[i].at # "none" =>
                            entry'[i].rec # 0 /\ record'[entry'[i].rec].id = i /\ listed'[i] # 0
    BY DEF EntryIsOwn
  <2>1. CASE i = id
    BY <1>2, <1>3, <1>4, <2>1 DEF RowsStay, n
  <2>2. CASE i # id
    <3>1. entry[i].rec \in 0..Len(record)
      BY <1>1
    <3> QED BY <1>1, <1>3, <1>4, <2>2, <3>1 DEF TaskInv, EntryIsOwn, RowsStay
  <2> QED BY <2>1, <2>2
<1>8. BusyHasEntry'
  <2> SUFFICES ASSUME NEW m \in 1..Len(record), record'[m].edits = 0,
                      record'[m].rec.status \in {"queued", "running"}
               PROVE  entry'[record'[m].id].rec = m
    BY <1>4 DEF BusyHasEntry, RowsStay
  <2>1. record'[m].id = record[m].id /\ record[m].id \in TaskIds
    <3>1. record[m] \in Row
      BY <1>1
    <3> QED BY <1>4, <3>1 DEF RowsStay, Row
  <2>2. CASE m = n
    <3>1. ~IsTerminal(record'[n].rec)
      BY <2>2 DEF IsTerminal, TerminalStatus
    <3> QED BY <1>2, <1>3, <2>1, <2>2, <3>1 DEF n
  <2>3. CASE m # n
    <3>1. record'[m] = record[m]
      BY <1>4, <2>3 DEF RowsStay
    <3>2. entry[record[m].id].rec = m
      BY <3>1 DEF TaskInv, BusyHasEntry
    <3>3. record[m].id # id
      BY <2>3, <3>2 DEF n
    <3> QED BY <1>3, <2>1, <3>2, <3>3
  <2> QED BY <2>2, <2>3
<1>9. CallIsOwn'
  BY <1>4 DEF TaskInv, CallIsOwn, RowsStay
<1>10. StopTracks'
  <2> SUFFICES ASSUME call.at = "stopping"
               PROVE  /\ entry'[call.id].at # "none" => entry'[call.id].rec = call.rec
                      /\ entry'[call.id].at = "none" => IsTerminal(record'[call.rec].rec)
    BY DEF StopTracks
  <2>1. call.id \in TaskIds /\ call.rec \in 1..Len(record) /\ record[call.rec].id = call.id
    BY DEF TaskInv, CallIsOwn
  <2>2. CASE call.id = id
    BY <1>3, <2>1, <2>2 DEF TaskInv, StopTracks
  <2>3. CASE call.id # id
    <3>1. record'[call.rec] = record[call.rec]
      BY <1>2, <1>4, <2>1, <2>3 DEF RowsStay
    <3> QED BY <1>3, <2>1, <2>3, <3>1 DEF TaskInv, StopTracks
  <2> QED BY <2>2, <2>3
<1>11. StopWasTold'
  <2> SUFFICES ASSUME said.what = "stopped"
               PROVE  /\ said.id \in TaskIds /\ listed[said.id] # 0
                      /\ entry'[said.id].at \in {"none", "dead"} /\ IsTerminal(record'[listed[said.id]].rec)
    BY DEF StopWasTold, IsRunning
  <2>1. /\ said.id \in TaskIds /\ listed[said.id] # 0
        /\ entry[said.id].at \in {"none", "dead"} /\ IsTerminal(record[listed[said.id]].rec)
    BY DEF TaskInv, StopWasTold, IsRunning
  <2>2. said.id # id
    BY <2>1
  <2>3. listed[said.id] \in 1..Len(record) /\ record[listed[said.id]].id = said.id
    BY <1>1, <2>1 DEF TaskInv, ListedIsOwn
  <2>4. record'[listed[said.id]] = record[listed[said.id]]
    BY <1>2, <1>4, <2>2, <2>3 DEF RowsStay
  <2> QED BY <1>3, <2>1, <2>2, <2>4
<1> QED BY <1>5, <1>6, <1>7, <1>8, <1>9, <1>10, <1>11 DEF TaskInv

LEMMA ExecutionStepKeeps == ASSUME TaskInv, NEW id \in TaskIds, ExecutionStep(id) PROVE TaskInv'
<1> DEFINE n == entry[id].rec
<1>1. /\ record \in Seq(Row) /\ entry \in [TaskIds -> [rec: 0..Len(record), at: EntryAt]]
      /\ Len(record) \in Nat
  BY DEF TaskInv, TaskTypes
<1>2. entry[id].at \notin {"none", "dead"}
  BY DEF ExecutionStep, Begins, NeverBegins, Finishes, CatchesCancel
<1>3. n \in 1..Len(record) /\ record[n].rec \in Record
  <2>1. n \in 1..Len(record)
    BY <1>1, <1>2 DEF TaskInv, EntryIsOwn
  <2>2. record[n] \in Row
    BY <1>1, <2>1
  <2> QED BY <2>1, <2>2 DEF Row
<1>4. entry[id] \in [rec: 0..Len(record), at: EntryAt] /\ n \in 0..Len(record)
  BY <1>1
<1> HIDE DEF n
<1>5. ASSUME NEW at \in EntryAt
      PROVE  /\ [entry[id] EXCEPT !.at = at] \in [rec: 0..Len(record), at: EntryAt]
             /\ [entry[id] EXCEPT !.at = at].rec = n /\ [entry[id] EXCEPT !.at = at].at = at
  BY <1>4 DEF n
<1>6. CASE Begins(id)
  <2>1. /\ entry' = [entry EXCEPT ![id] = [entry[id] EXCEPT !.at = "running"]]
        /\ Write(n, MarkRunning(record[n].rec)) /\ UNCHANGED <<listed, runners, shared, call, said>>
    BY <1>6 DEF Begins, n
  <2>2. RowsStay(n) /\ record'[n].edits = record[n].edits
    BY <1>1, <1>3, <2>1, MarksAreRecords, RecordWritten
  <2>3. "running" \in EntryAt /\ "running" # "none"
    BY DEF EntryAt
  <2> QED BY <1>2, <1>5, <2>1, <2>2, <2>3, ExecutionKeeps DEF n
<1>7. CASE NeverBegins(id)
  <2>1. /\ entry' = [entry EXCEPT ![id] = [entry[id] EXCEPT !.at = "dead"]]
        /\ record' = record /\ UNCHANGED <<listed, runners, shared, call, said>>
    BY <1>7 DEF NeverBegins
  <2>2. RowsStay(n) /\ record'[n].edits = record[n].edits
    BY <1>1, <2>1 DEF RowsStay
  <2>3. "dead" \in EntryAt /\ "dead" # "none"
    BY DEF EntryAt
  <2> QED BY <1>2, <1>5, <2>1, <2>2, <2>3, ExecutionKeeps DEF n
<1>8. ASSUME NEW r \in Record, IsTerminal(r), Leaves(id, r) PROVE TaskInv'
  <2>1. /\ entry' = [entry EXCEPT ![id] = NoEntry]
        /\ Write(n, r) /\ UNCHANGED <<listed, runners, shared, call, said>>
    BY <1>8 DEF Leaves, n
  <2>2. RowsStay(n) /\ record'[n].edits = record[n].edits /\ record'[n].rec = r
    BY <1>1, <1>3, <2>1, RecordWritten
  <2>3. NoEntry \in [rec: 0..Len(record), at: EntryAt] /\ NoEntry.at = "none" /\ NoEntry.rec = 0
    BY <1>1 DEF EntryAt, NoEntry
  <2> QED BY <1>2, <1>8, <2>1, <2>2, <2>3, ExecutionKeeps DEF n
<1>9. CASE Finishes(id) \/ CatchesCancel(id)
  BY <1>3, <1>8, <1>9, MarksAreRecords DEF Finishes, CatchesCancel, n
<1> QED BY <1>6, <1>7, <1>9 DEF ExecutionStep

\* An answer other than "stopped", and nothing done but to the shared tasks.
LEMMA AnswerKeeps ==
    ASSUME TaskInv, UNCHANGED <<record, listed, entry>>, runners' \subseteq TaskIds,
           shared' \in [TaskIds -> Shareds], NEW id, NEW what, what # "stopped", Answer(id, what)
    PROVE  TaskInv'
<1>1. call' = NoTaskCall /\ said'.what # "stopped"
  BY DEF Answer
<1>2. call' \in CallSet /\ call'.at = "idle"
  BY <1>1 DEF NoTaskCall, CallSet, CallAt
<1>3. TaskTypes'
  BY <1>2 DEF TaskInv, TaskTypes
<1>4. ListedIsOwn' /\ EntryIsOwn' /\ BusyHasEntry'
  BY DEF TaskInv, ListedIsOwn, EntryIsOwn, BusyHasEntry
<1>5. CallIsOwn' /\ StopTracks' /\ StopWasTold'
  BY <1>1, <1>2 DEF CallIsOwn, StopTracks, StopWasTold
<1> QED BY <1>3, <1>4, <1>5 DEF TaskInv

LEMMA SharedKept ==
    ASSUME NEW id \in TaskIds, shared \in [TaskIds -> Shareds], NEW to \in Shareds,
           shared' = shared \/ shared' = [shared EXCEPT ![id] = to]
    PROVE  shared' \in [TaskIds -> Shareds]
  OBVIOUS

LEMMA SharedStatuses ==
    /\ "cancelled" \in Shareds /\ "assigned" \in Shareds /\ "pending" \in Shareds
    /\ \A status \in TaskStatus: SharedStatus(status) \in Shareds
  BY DEF Shareds, TaskStatus, SharedStatus

LEMMA CancelSharedKept ==
    ASSUME TaskInv, NEW id \in TaskIds, NEW target, CancelShared(id, target)
    PROVE  shared' \in [TaskIds -> Shareds]
<1>1. shared \in [TaskIds -> Shareds] /\ "cancelled" \in Shareds
  BY SharedStatuses DEF TaskInv, TaskTypes
<1>2. shared' = shared \/ shared' = [shared EXCEPT ![id] = "cancelled"]
  BY DEF CancelShared
<1> QED BY <1>1, <1>2, SharedKept

LEMMA UpdateSharedKept ==
    ASSUME TaskInv, NEW id \in TaskIds, NEW status \in TaskStatus, NEW target,
           UpdateShared(id, status, target)
    PROVE  shared' \in [TaskIds -> Shareds]
<1>1. shared \in [TaskIds -> Shareds] /\ SharedStatus(status) \in Shareds
  BY SharedStatuses DEF TaskInv, TaskTypes
<1>2. shared' = shared \/ shared' = [shared EXCEPT ![id] = SharedStatus(status)]
  BY DEF UpdateShared
<1> QED BY <1>1, <1>2, SharedKept

LEMMA SharedToolsKeep ==
    ASSUME TaskInv, NEW id \in TaskIds,
           CreateShared(id) \/ StopUnlisted(id) \/ StopShared(id) \/ TaskOutput(id)
    PROVE  TaskInv'
<1>1. shared \in [TaskIds -> Shareds] /\ runners \subseteq TaskIds
  BY DEF TaskInv, TaskTypes
<1>2. CASE CreateShared(id)
  <2>1. PICK what \in {"failed", "created"}: Answer(id, what)
    BY <1>2 DEF CreateShared
  <2>2. \/ shared' = shared
        \/ shared' = [shared EXCEPT ![id] = "assigned"]
        \/ shared' = [shared EXCEPT ![id] = "pending"]
    BY <1>2 DEF CreateShared
  <2>3. shared' \in [TaskIds -> Shareds]
    BY <1>1, <2>2, SharedKept, SharedStatuses
  <2> QED BY <1>1, <1>2, <2>1, <2>3, AnswerKeeps DEF CreateShared
<1>3. CASE StopUnlisted(id)
  <2>1. PICK what \in {"found nowhere", "not found"}: Answer(id, what)
    BY <1>3 DEF StopUnlisted, Missing
  <2> QED BY <1>1, <1>3, <2>1, AnswerKeeps DEF StopUnlisted
<1>4. CASE StopShared(id)
  <2>1. PICK what \in {"stopped shared", "not found"}: Answer(id, what)
    BY <1>4 DEF StopShared
  <2>2. shared' \in [TaskIds -> Shareds]
    BY <1>4, CancelSharedKept DEF StopShared
  <2> QED BY <1>1, <1>4, <2>1, <2>2, AnswerKeeps DEF StopShared
<1>5. CASE TaskOutput(id)
  <2>1. PICK what \in {"found nowhere", "not found", "shown"}: Answer(id, what)
    BY <1>5 DEF TaskOutput, OutputOf, Missing
  <2> QED BY <1>1, <1>5, <2>1, AnswerKeeps DEF TaskOutput
<1> QED BY <1>2, <1>3, <1>4, <1>5

\* Task.cancel changes how an execution stands, never which it is.
LEMMA SignalKeeps ==
    ASSUME TaskInv, NEW id \in TaskIds, IsRunning(id), Signal(id),
           UNCHANGED <<record, listed, runners, shared, call, said>>
    PROVE  TaskInv'
<1> DEFINE e == [entry[id] EXCEPT !.at = Cancelled(entry[id].at)]
<1>1. /\ record \in Seq(Row) /\ entry \in [TaskIds -> [rec: 0..Len(record), at: EntryAt]]
  BY DEF TaskInv, TaskTypes
<1>2. entry[id] \in [rec: 0..Len(record), at: EntryAt] /\ entry[id].at \notin {"none", "dead"}
  BY <1>1 DEF IsRunning
<1>3. Cancelled(entry[id].at) \in {"doomed", "cancelling"}
  BY <1>2 DEF Cancelled, EntryAt
<1>4. e \in [rec: 0..Len(record), at: EntryAt] /\ e.at # "none" /\ e.rec = entry[id].rec
  BY <1>2, <1>3 DEF EntryAt
<1>5. entry' = [entry EXCEPT ![id] = e]
  BY DEF Signal
<1> HIDE DEF e
<1>6. RowsStay(entry[id].rec) /\ record'[entry[id].rec].edits = record[entry[id].rec].edits
  BY <1>1 DEF RowsStay
<1> QED BY <1>2, <1>4, <1>5, <1>6, ExecutionKeeps

LEMMA WaitsKeep ==
    ASSUME TaskInv, StartReturns \/ CreateReturns \/ AbortStarting \/ AbortAwaiting \/ TaskList
    PROVE  TaskInv'
<1>1. shared \in [TaskIds -> Shareds] /\ runners \subseteq TaskIds /\ call \in CallSet
  BY DEF TaskInv, TaskTypes
<1>2. CASE StartReturns /\ call.wait
  <2>1. /\ call' = [call EXCEPT !.at = "waiting"] /\ call.at = "starting"
        /\ UNCHANGED <<record, listed, entry, runners, shared, said>>
    BY <1>2 DEF StartReturns
  <2>2. call' \in CallSet /\ call'.at = "waiting" /\ call'.id = call.id /\ call'.rec = call.rec
    BY <1>1, <2>1 DEF CallSet, CallAt
  <2>3. TaskTypes' /\ ListedIsOwn' /\ EntryIsOwn' /\ BusyHasEntry'
    BY <2>1, <2>2 DEF TaskInv, TaskTypes, ListedIsOwn, EntryIsOwn, BusyHasEntry
  <2>4. CallIsOwn' /\ StopTracks'
    BY <2>1, <2>2 DEF TaskInv, CallIsOwn, StopTracks
  <2>5. StopWasTold'
    BY <2>1 DEF TaskInv, StopWasTold, IsRunning
  <2> QED BY <2>3, <2>4, <2>5 DEF TaskInv
<1>3. CASE StartReturns /\ ~call.wait
  BY <1>1, <1>3, AnswerKeeps DEF StartReturns
<1>4. CASE CreateReturns
  <2>1. PICK what \in {"cancelled", "created"}: Answer(call.id, what)
    BY <1>4 DEF CreateReturns
  <2> QED BY <1>1, <1>4, <2>1, AnswerKeeps DEF CreateReturns
<1>5. CASE AbortStarting
  BY <1>1, <1>5, AnswerKeeps DEF AbortStarting
<1>6. CASE AbortAwaiting
  <2>1. call.id \in TaskIds
    BY <1>6 DEF AbortAwaiting, TaskInv, CallIsOwn
  <2>2. CASE IsRunning(call.id)
    BY <1>6, <2>1, <2>2, SignalKeeps DEF AbortAwaiting
  <2>3. CASE ~IsRunning(call.id)
    BY <1>1, <1>6, <2>3, AnswerKeeps DEF AbortAwaiting
  <2> QED BY <2>2, <2>3
<1>7. CASE TaskList
  <2>1. PICK id: Answer(id, "listed")
    BY <1>7 DEF TaskList
  <2> QED BY <1>1, <1>7, <2>1, AnswerKeeps DEF TaskList
<1> QED BY <1>2, <1>3, <1>4, <1>5, <1>6, <1>7

\* The record of one row changes, and not from idle to busy.
LEMMA RowChangeKeeps ==
    ASSUME TaskInv, NEW n \in 1..Len(record), RowsStay(n), UNCHANGED <<listed, entry>>,
           record'[n].edits = 0 =>
               record[n].edits = 0 /\ record'[n].rec.status \notin {"queued", "running"}
    PROVE  ListedIsOwn' /\ EntryIsOwn' /\ BusyHasEntry'
<1>1. /\ record \in Seq(Row) /\ Len(record) \in Nat /\ listed \in [TaskIds -> 0..Len(record)]
      /\ entry \in [TaskIds -> [rec: 0..Len(record), at: EntryAt]]
  BY DEF TaskInv, TaskTypes
<1>2. ListedIsOwn'
  BY <1>1 DEF TaskInv, ListedIsOwn, RowsStay
<1>3. EntryIsOwn'
  <2> SUFFICES ASSUME NEW i \in TaskIds
               PROVE  /\ entry[i].at = "none" => entry[i].rec = 0
                      /\ entry[i].at # "none" =>
                            entry[i].rec # 0 /\ record'[entry[i].rec].id = i /\ listed[i] # 0
    BY DEF EntryIsOwn
  <2>1. entry[i].rec \in 0..Len(record)
    BY <1>1
  <2> QED BY <1>1, <2>1 DEF TaskInv, EntryIsOwn, RowsStay
<1>4. BusyHasEntry'
  <2> SUFFICES ASSUME NEW m \in 1..Len(record), record'[m].edits = 0,
                      record'[m].rec.status \in {"queued", "running"}
               PROVE  entry[record'[m].id].rec = m
    BY DEF BusyHasEntry, RowsStay
  <2>1. m # n /\ record'[m] = record[m]
    BY DEF RowsStay
  <2> QED BY <2>1 DEF TaskInv, BusyHasEntry
<1> QED BY <1>2, <1>3, <1>4

LEMMA MarkStoppedRow ==
    ASSUME TaskInv, NEW id \in TaskIds, listed[id] # 0, MarkStopped(id)
    PROVE  /\ listed[id] \in 1..Len(record) /\ RowsStay(listed[id])
           /\ record'[listed[id]].edits = record[listed[id]].edits
           /\ IsTerminal(record'[listed[id]].rec)
           /\ record'[listed[id]].rec.status \notin {"queued", "running"}
           /\ \A m \in 1..Len(record): IsTerminal(record[m].rec) => IsTerminal(record'[m].rec)
<1> DEFINE n == listed[id]
<1>1. record \in Seq(Row) /\ n \in 1..Len(record)
  BY DEF TaskInv, TaskTypes
<1>2. record[n] \in Row /\ record[n].rec \in Record
  <2>1. record[n] \in Row
    BY <1>1
  <2> QED BY <2>1 DEF Row
<1>3. CASE IsTerminal(record[n].rec)
  <2>1. record' = record
    BY <1>3 DEF MarkStopped
  <2> QED BY <1>1, <1>2, <1>3, <2>1, MarksAreRecords DEF RowsStay
<1>4. CASE ~IsTerminal(record[n].rec)
  <2>1. Write(n, MarkCancelled(record[n].rec))
    BY <1>4 DEF MarkStopped
  <2>2. MarkCancelled(record[n].rec) \in Record /\ IsTerminal(MarkCancelled(record[n].rec))
    BY <1>2, MarksAreRecords
  <2>3. /\ RowsStay(n) /\ record'[n].rec = MarkCancelled(record[n].rec)
        /\ record'[n].edits = record[n].edits
    BY <1>1, <2>1, <2>2, RecordWritten
  <2>4. record'[n].rec.status \notin {"queued", "running"}
    BY <2>2, <2>3, MarksAreRecords
  <2> QED BY <1>1, <2>2, <2>3, <2>4 DEF RowsStay
<1> QED BY <1>3, <1>4

LEMMA UserStopKeeps == ASSUME TaskInv, NEW id \in TaskIds, UserStop(id) PROVE TaskInv'
<1>1. CASE IsRunning(id)
  BY <1>1, SignalKeeps DEF UserStop
<1>2. CASE ~IsRunning(id)
  <2>1. /\ listed[id] # 0 /\ MarkStopped(id)
        /\ UNCHANGED <<entry, listed, runners, shared, call, said>>
    BY <1>2 DEF UserStop
  <2>2. /\ listed[id] \in 1..Len(record) /\ RowsStay(listed[id])
        /\ record'[listed[id]].edits = record[listed[id]].edits
        /\ record'[listed[id]].rec.status \notin {"queued", "running"}
        /\ \A m \in 1..Len(record): IsTerminal(record[m].rec) => IsTerminal(record'[m].rec)
    BY <2>1, MarkStoppedRow
  <2>3. ListedIsOwn' /\ EntryIsOwn' /\ BusyHasEntry'
    BY <2>1, <2>2, RowChangeKeeps
  <2>4. TaskTypes'
    BY <2>1, <2>2 DEF TaskInv, TaskTypes, RowsStay
  <2>5. CallIsOwn' /\ StopTracks'
    BY <2>1, <2>2 DEF TaskInv, CallIsOwn, StopTracks, RowsStay
  <2>6. StopWasTold'
    <3>1. said.what = "stopped" => listed[said.id] \in 1..Len(record)
      BY DEF TaskInv, StopWasTold, TaskTypes
    <3> QED BY <2>1, <2>2, <3>1 DEF TaskInv, StopWasTold, IsRunning
  <2> QED BY <2>3, <2>4, <2>5, <2>6 DEF TaskInv
<1> QED BY <1>1, <1>2

LEMMA StopIdleKeeps == ASSUME TaskInv, NEW id \in TaskIds, StopIdle(id) PROVE TaskInv'
<1>1. /\ listed[id] # 0 /\ MarkStopped(id) /\ ~IsRunning(id)
      /\ UNCHANGED <<entry, listed, runners>>
      /\ call' = NoTaskCall /\ said' = [id |-> id, what |-> "stopped"]
  BY DEF StopIdle, Answer
<1>2. shared' \in [TaskIds -> Shareds]
  BY CancelSharedKept DEF StopIdle
<1>3. /\ listed[id] \in 1..Len(record) /\ RowsStay(listed[id])
      /\ record'[listed[id]].edits = record[listed[id]].edits
      /\ IsTerminal(record'[listed[id]].rec)
      /\ record'[listed[id]].rec.status \notin {"queued", "running"}
  BY <1>1, MarkStoppedRow
<1>4. ListedIsOwn' /\ EntryIsOwn' /\ BusyHasEntry'
  BY <1>1, <1>3, RowChangeKeeps
<1>5. call' \in CallSet /\ call'.at = "idle"
  BY <1>1 DEF NoTaskCall, CallSet, CallAt
<1>6. TaskTypes'
  BY <1>1, <1>2, <1>3, <1>5 DEF TaskInv, TaskTypes, RowsStay
<1>7. CallIsOwn' /\ StopTracks'
  BY <1>5 DEF CallIsOwn, StopTracks
<1>8. StopWasTold'
  BY <1>1, <1>3 DEF StopWasTold, IsRunning
<1> QED BY <1>4, <1>6, <1>7, <1>8 DEF TaskInv

LEMMA StopRunningKeeps == ASSUME TaskInv, NEW id \in TaskIds, StopRunning(id) PROVE TaskInv'
<1> DEFINE e == [entry[id] EXCEPT !.at = Cancelled(entry[id].at)]
<1>1. /\ record \in Seq(Row) /\ Len(record) \in Nat
      /\ entry \in [TaskIds -> [rec: 0..Len(record), at: EntryAt]]
  BY DEF TaskInv, TaskTypes
<1>2. /\ entry[id] \in [rec: 0..Len(record), at: EntryAt] /\ entry[id].at \notin {"none", "dead"}
  BY <1>1 DEF StopRunning, IsRunning
<1>3. Cancelled(entry[id].at) \in {"doomed", "cancelling"}
  BY <1>2 DEF Cancelled, EntryAt
<1>4. e \in [rec: 0..Len(record), at: EntryAt] /\ e.at \in {"doomed", "cancelling"} /\ e.rec = entry[id].rec
  BY <1>2, <1>3 DEF EntryAt
<1>5. entry' = [entry EXCEPT ![id] = e] /\ UNCHANGED <<record, listed, runners, shared>>
  BY DEF StopRunning, Signal
<1> HIDE DEF e
<1>6. entry'[id] = e /\ \A i \in TaskIds: i # id => entry'[i] = entry[i]
  BY <1>1, <1>5
<1>7. entry[id].rec \in 1..Len(record) /\ record[entry[id].rec].id = id
  <2>1. entry[id].rec # 0 /\ record[entry[id].rec].id = id
    BY <1>2 DEF TaskInv, EntryIsOwn
  <2>2. entry[id].rec \in 0..Len(record)
    BY <1>2
  <2> QED BY <1>1, <2>1, <2>2
<1>8. PICK target \in {"auto", "task_manager"}:
         call' = [at |-> "stopping", id |-> id, rec |-> entry[id].rec, wait |-> TRUE, target |-> target]
  BY DEF StopRunning
<1>9. /\ call' \in CallSet /\ call'.at = "stopping" /\ call'.id = id /\ call'.rec = entry[id].rec
      /\ said' = Nothing
  <2>1. entry[id].rec \in Nat
    BY <1>1, <1>7
  <2> QED BY <1>8, <2>1 DEF CallSet, CallAt, StopRunning
<1>10. TaskTypes'
  BY <1>1, <1>4, <1>5, <1>9 DEF TaskInv, TaskTypes
<1>11. ListedIsOwn' /\ BusyHasEntry'
  <2>1. \A i \in TaskIds: entry'[i].rec = entry[i].rec
    BY <1>4, <1>6
  <2>2. \A m \in 1..Len(record): record[m].id \in TaskIds
    <3> SUFFICES ASSUME NEW m \in 1..Len(record) PROVE record[m].id \in TaskIds
      OBVIOUS
    <3>1. record[m] \in Row
      BY <1>1
    <3> QED BY <3>1 DEF Row
  <2> QED BY <1>5, <2>1, <2>2 DEF TaskInv, ListedIsOwn, BusyHasEntry
<1>12. EntryIsOwn'
  BY <1>2, <1>4, <1>5, <1>6 DEF TaskInv, EntryIsOwn
<1>13. CallIsOwn' /\ StopTracks' /\ StopWasTold'
  BY <1>4, <1>5, <1>6, <1>7, <1>9 DEF CallIsOwn, StopTracks, StopWasTold, Nothing
<1> QED BY <1>10, <1>11, <1>12, <1>13 DEF TaskInv

LEMMA StopReturnsKeeps == ASSUME TaskInv, StopReturns PROVE TaskInv'
<1>1. /\ call.at = "stopping" /\ entry[call.id].at = "none"
      /\ call.id \in TaskIds /\ call.rec \in 1..Len(record)
      /\ record[call.rec].id = call.id /\ IsTerminal(record[call.rec].rec)
  BY DEF StopReturns, TaskInv, CallIsOwn, StopTracks
<1>2. /\ record \in Seq(Row) /\ Len(record) \in Nat /\ listed \in [TaskIds -> 0..Len(record)]
  BY DEF TaskInv, TaskTypes
<1>3. /\ listed' = [listed EXCEPT ![call.id] = call.rec] /\ UNCHANGED <<record, entry, runners>>
      /\ call' = NoTaskCall /\ said' = [id |-> call.id, what |-> "stopped"]
  BY DEF StopReturns, Answer
<1>4. /\ listed' \in [TaskIds -> 0..Len(record)] /\ listed'[call.id] = call.rec /\ call.rec # 0
      /\ \A i \in TaskIds: i # call.id => listed'[i] = listed[i]
  BY <1>1, <1>2, <1>3
<1>5. shared' \in [TaskIds -> Shareds]
  BY <1>1, CancelSharedKept DEF StopReturns
<1>6. call' \in CallSet /\ call'.at = "idle"
  BY <1>3 DEF NoTaskCall, CallSet, CallAt
<1>7. TaskTypes'
  BY <1>3, <1>4, <1>5, <1>6 DEF TaskInv, TaskTypes
<1>8. ListedIsOwn' /\ EntryIsOwn' /\ BusyHasEntry'
  BY <1>1, <1>3, <1>4 DEF TaskInv, ListedIsOwn, EntryIsOwn, BusyHasEntry
<1>9. CallIsOwn' /\ StopTracks' /\ StopWasTold'
  BY <1>1, <1>3, <1>4, <1>6 DEF CallIsOwn, StopTracks, StopWasTold, IsRunning
<1> QED BY <1>7, <1>8, <1>9 DEF TaskInv

LEMMA MadeRow ==
    ASSUME TaskInv, NEW id \in TaskIds, NEW r \in Record, Made(id, r)
    PROVE  /\ record' \in Seq(Row) /\ Len(record') = Len(record) + 1
           /\ \A m \in 1..Len(record): record'[m] = record[m]
           /\ record'[Len(record) + 1] = [id |-> id, rec |-> r, edits |-> 0]
           /\ listed' \in [TaskIds -> 0..(Len(record) + 1)] /\ listed'[id] = Len(record) + 1
           /\ \A i \in TaskIds: i # id => listed'[i] = listed[i]
<1> DEFINE row == [id |-> id, rec |-> r, edits |-> 0]
<1>1. record \in Seq(Row) /\ Len(record) \in Nat /\ listed \in [TaskIds -> 0..Len(record)]
  BY DEF TaskInv, TaskTypes
<1>2. row \in Row
  BY TaskToolBounds DEF Row
<1>3. record' = Append(record, row) /\ listed' = [listed EXCEPT ![id] = Len(record) + 1]
  BY DEF Made
<1> HIDE DEF row
<1>4. /\ record' \in Seq(Row) /\ Len(record') = Len(record) + 1
      /\ \A m \in 1..Len(record): record'[m] = record[m]
      /\ record'[Len(record) + 1] = row
  BY <1>1, <1>2, <1>3
<1>5. /\ listed' \in [TaskIds -> 0..(Len(record) + 1)] /\ listed'[id] = Len(record) + 1
      /\ \A i \in TaskIds: i # id => listed'[i] = listed[i]
  BY <1>1, <1>3
<1> QED BY <1>4, <1>5 DEF row

\* A new record, and perhaps an execution of it, where there was none of this id.
LEMMA MadeKeeps ==
    ASSUME TaskInv, NEW id \in TaskIds, NEW r \in Record, Made(id, r),
           runners' \subseteq TaskIds, shared' = shared, call' \in CallSet, said'.what # "stopped",
           \/ entry' = entry /\ r.status = "pending" /\ call'.at = "idle"
           \/ /\ entry[id].at = "none"
              /\ entry' = [entry EXCEPT ![id] = [rec |-> Len(record) + 1, at |-> "ready"]]
              /\ call'.at = "starting" /\ call'.id = id /\ call'.rec = Len(record) + 1
    PROVE  TaskInv'
<1> DEFINE n == Len(record) + 1
<1>1. /\ record \in Seq(Row) /\ Len(record) \in Nat /\ listed \in [TaskIds -> 0..Len(record)]
      /\ entry \in [TaskIds -> [rec: 0..Len(record), at: EntryAt]]
  BY DEF TaskInv, TaskTypes
<1>2. /\ record' \in Seq(Row) /\ Len(record') = n
      /\ \A m \in 1..Len(record): record'[m] = record[m]
      /\ record'[n] = [id |-> id, rec |-> r, edits |-> 0]
      /\ listed' \in [TaskIds -> 0..n] /\ listed'[id] = n
      /\ \A i \in TaskIds: i # id => listed'[i] = listed[i]
  BY MadeRow
<1>3. n \in Nat /\ n # 0 /\ n \in 1..n /\ n \in 0..n /\ \A m \in 1..n: m = n \/ m \in 1..Len(record)
  <2>1. n \in Nat /\ n # 0
    BY <1>1
  <2>2. n \in 1..n /\ n \in 0..n
    BY <2>1
  <2>3. \A m \in 1..n: m = n \/ m \in 1..Len(record)
    BY <1>1
  <2> QED BY <2>1, <2>2, <2>3
<1>4. \A m \in 0..Len(record): m \in 0..n /\ m # n
  BY <1>1
<1>5. \A i \in TaskIds: entry[i].rec \in 0..Len(record) /\ listed[i] \in 0..Len(record)
  BY <1>1
<1>6. \A m \in 0..Len(record): m # 0 => m \in 1..Len(record)
  BY <1>1
<1>7. \/ entry' = entry /\ r.status = "pending" /\ call'.at = "idle"
      \/ /\ entry[id].at = "none" /\ entry[id].rec = 0
         /\ entry'[id] = [rec |-> n, at |-> "ready"] /\ \A i \in TaskIds: i # id => entry'[i] = entry[i]
         /\ call'.at = "starting" /\ call'.id = id /\ call'.rec = n
  BY <1>1 DEF TaskInv, EntryIsOwn
<1>8. entry' \in [TaskIds -> [rec: 0..n, at: EntryAt]]
  <2>1. entry \in [TaskIds -> [rec: 0..n, at: EntryAt]]
    BY <1>1, <1>4
  <2>2. [rec |-> n, at |-> "ready"] \in [rec: 0..n, at: EntryAt]
    BY <1>3 DEF EntryAt
  <2> QED BY <2>1, <2>2
<1> HIDE DEF n
<1>9. TaskTypes'
  BY <1>2, <1>8 DEF TaskInv, TaskTypes
<1>10. ListedIsOwn'
  <2> SUFFICES ASSUME NEW i \in TaskIds, listed'[i] # 0 PROVE record'[listed'[i]].id = i
    BY DEF ListedIsOwn
  <2>1. CASE i = id
    BY <1>2, <2>1
  <2>2. CASE i # id
    <3>1. listed'[i] = listed[i] /\ listed[i] \in 1..Len(record)
      BY <1>2, <1>5, <1>6, <2>2
    <3> QED BY <1>2, <3>1 DEF TaskInv, ListedIsOwn
  <2> QED BY <2>1, <2>2
<1>11. EntryIsOwn'
  <2> SUFFICES ASSUME NEW i \in TaskIds
               PROVE  /\ entry'[i].at = "none" => entry'[i].rec = 0
                      /\ entry'[i].at # "none" =>
                            entry'[i].rec # 0 /\ record'[entry'[i].rec].id = i /\ listed'[i] # 0
    BY DEF EntryIsOwn
  <2>1. CASE entry'[i] = entry[i]
    <3>1. entry[i].at # "none" => /\ entry[i].rec \in 1..Len(record) /\ record[entry[i].rec].id = i
                                  /\ listed[i] # 0
      BY <1>5, <1>6 DEF TaskInv, EntryIsOwn
    <3>2. listed[i] # 0 => listed'[i] # 0
      BY <1>2, <1>3
    <3> QED BY <1>2, <2>1, <3>1, <3>2 DEF TaskInv, EntryIsOwn
  <2>2. CASE entry'[i] # entry[i]
    <3>1. i = id /\ entry'[id] = [rec |-> n, at |-> "ready"]
      BY <1>7, <2>2
    <3> QED BY <1>2, <1>3, <3>1
  <2> QED BY <2>1, <2>2
<1>12. BusyHasEntry'
  <2> SUFFICES ASSUME NEW m \in 1..n, record'[m].edits = 0,
                      record'[m].rec.status \in {"queued", "running"}
               PROVE  entry'[record'[m].id].rec = m
    BY <1>2 DEF BusyHasEntry
  <2>1. CASE m = n
    <3>1. record'[m].rec = r /\ record'[m].id = id
      BY <1>2, <2>1
    <3> QED BY <1>7, <2>1, <3>1
  <2>2. CASE m # n
    <3>1. m \in 1..Len(record) /\ record'[m] = record[m]
      BY <1>2, <1>3, <2>2
    <3>2. record[m].id \in TaskIds
      <4>1. record[m] \in Row
        BY <1>1, <3>1
      <4> QED BY <4>1 DEF Row
    <3>3. entry[record[m].id].rec = m /\ m # 0
      BY <1>1, <3>1 DEF TaskInv, BusyHasEntry
    <3> QED BY <1>7, <3>1, <3>2, <3>3
  <2> QED BY <2>1, <2>2
<1>13. CallIsOwn' /\ StopTracks' /\ StopWasTold'
  BY <1>2, <1>3, <1>7 DEF CallIsOwn, StopTracks, StopWasTold
<1> QED BY <1>9, <1>10, <1>11, <1>12, <1>13 DEF TaskInv

LEMMA StartedKeeps ==
    ASSUME TaskInv, NEW id \in TaskIds, NEW wait \in BOOLEAN, entry[id].at = "none",
           Started(id, wait), runners' \subseteq TaskIds, shared' = shared
    PROVE  TaskInv'
<1>1. Len(record) + 1 \in Nat
  BY DEF TaskInv, TaskTypes
<1>2. /\ Made(id, MarkQueued(NewRecord)) /\ said' = Nothing
      /\ entry' = [entry EXCEPT ![id] = [rec |-> Len(record) + 1, at |-> "ready"]]
      /\ call' = [at |-> "starting", id |-> id, rec |-> Len(record) + 1, wait |-> wait,
                  target |-> "none"]
  BY DEF Started
<1>3. /\ call' \in CallSet /\ call'.at = "starting" /\ call'.id = id
      /\ call'.rec = Len(record) + 1 /\ said'.what # "stopped"
  BY <1>1, <1>2 DEF CallSet, CallAt, Nothing
<1>4. MarkQueued(NewRecord) \in Record
  BY NewIsRecord
<1> QED BY <1>2, <1>3, <1>4, MadeKeeps

LEMMA CreateKeeps ==
    ASSUME TaskInv, NEW id \in TaskIds, CreateRecord(id) \/ Delegate(id) PROVE TaskInv'
<1>1. runners \subseteq TaskIds /\ runners \union {id} \subseteq TaskIds
  BY DEF TaskInv, TaskTypes
<1>2. ASSUME Made(id, NewRecord), NEW what, what # "stopped", Answer(id, what),
             UNCHANGED <<entry, runners, shared>>
      PROVE  TaskInv'
  <2>1. call' \in CallSet /\ call'.at = "idle" /\ said'.what # "stopped"
    BY <1>2 DEF Answer, NoTaskCall, CallSet, CallAt
  <2> QED BY <1>1, <1>2, <2>1, NewIsRecord, MadeKeeps
<1>3. CASE CreateRecord(id)
  <2>1. \/ \E what \in {"created", "failed"}:
              Made(id, NewRecord) /\ Answer(id, what) /\ UNCHANGED <<entry, runners, shared>>
        \/ entry[id].at = "none" /\ Started(id, FALSE) /\ UNCHANGED <<runners, shared>>
    BY <1>3 DEF CreateRecord
  <2> QED BY <1>1, <1>2, <2>1, StartedKeeps
<1>4. CASE Delegate(id)
  <2>1. PICK wait \in BOOLEAN: Started(id, wait)
    BY <1>4 DEF Delegate
  <2>2. entry[id].at = "none"
    BY <1>4 DEF Delegate, TaskInv, EntryIsOwn
  <2> QED BY <1>1, <1>4, <2>1, <2>2, StartedKeeps DEF Delegate
<1> QED BY <1>3, <1>4

LEMMA UpdatedIs ==
    ASSUME NEW r \in Record, NEW status \in TaskStatus, status = "retrying" => CanRetry(r)
    PROVE  Updated(r, status) \in Record
<1>1. CASE status = "pending"
  BY <1>1 DEF Updated, Record, TaskStatus
<1> QED BY <1>1, MarksAreRecords DEF Updated, TaskStatus

LEMMA TaskUpdateKeeps == ASSUME TaskInv, NEW id \in TaskIds, TaskUpdate(id) PROVE TaskInv'
<1>1. shared \in [TaskIds -> Shareds] /\ runners \subseteq TaskIds /\ record \in Seq(Row)
  BY DEF TaskInv, TaskTypes
<1>2. ASSUME NEW status \in TaskStatus, NEW target, UpdateRecord(id, status, target),
             UNCHANGED <<listed, entry, runners>>
      PROVE  TaskInv'
  <2> DEFINE n == listed[id]
  <2>1. n \in 1..Len(record)
    BY <1>2 DEF UpdateRecord, TaskInv, TaskTypes
  <2>2. record[n] \in Row
    BY <1>1, <2>1
  <2>3. record[n].rec \in Record /\ record[n].edits + 1 \in 0..MaxEdits /\ record[n].edits + 1 # 0
    BY <1>2, <2>2, TaskToolBounds DEF Row, UpdateRecord
  <2>4. Updated(record[n].rec, status) \in Record
    BY <1>2, <2>3, UpdatedIs DEF UpdateRecord
  <2>5. record' = [record EXCEPT ![n].rec = Updated(record[n].rec, status),
                                 ![n].edits = record[n].edits + 1]
    <3>1. record' = [record EXCEPT ![n].rec = Updated(@, status), ![n].edits = @ + 1]
      BY <1>2 DEF UpdateRecord
    <3> QED BY <1>1, <2>1, <2>2, <3>1 DEF Row
  <2>6. RowsStay(n) /\ record'[n].edits # 0
    <3> DEFINE e == record[n].edits + 1
               r == Updated(record[n].rec, status)
    <3>1. e \in 0..MaxEdits /\ e # 0 /\ r \in Record /\ record' = [record EXCEPT ![n].rec = r, ![n].edits = e]
      BY <2>3, <2>4, <2>5
    <3> HIDE DEF e, r, n
    <3> QED BY <1>1, <2>1, <3>1, RowWritten
  <2>7. ListedIsOwn' /\ EntryIsOwn' /\ BusyHasEntry'
    BY <1>2, <2>1, <2>6, RowChangeKeeps
  <2>8. shared' \in [TaskIds -> Shareds]
    BY <1>2, UpdateSharedKept DEF UpdateRecord
  <2>9. call' \in CallSet /\ call'.at = "idle" /\ said'.what # "stopped"
    BY <1>2 DEF UpdateRecord, Answer, NoTaskCall, CallSet, CallAt
  <2>10. TaskTypes'
    BY <1>2, <2>6, <2>8, <2>9 DEF TaskInv, TaskTypes, RowsStay
  <2>11. CallIsOwn' /\ StopTracks' /\ StopWasTold'
    BY <2>9 DEF CallIsOwn, StopTracks, StopWasTold
  <2> QED BY <2>7, <2>10, <2>11 DEF TaskInv
<1>3. ASSUME NEW status \in TaskStatus, NEW target, UpdateRaises(id, status, target),
             UNCHANGED <<listed, entry, runners>>
      PROVE  TaskInv'
  <2>1. PICK what \in {"found nowhere", "not found", "failed"}: Answer(id, what)
    BY <1>3 DEF UpdateRaises, Missing
  <2> QED BY <1>1, <1>3, <2>1, AnswerKeeps DEF UpdateRaises
<1>4. ASSUME NEW status \in TaskStatus, UpdateShared(id, status, "team"),
             Answer(id, IF shared[id] = "none" THEN "not found" ELSE "updated"),
             UNCHANGED <<record, listed, entry, runners>>
      PROVE  TaskInv'
  <2>1. PICK what \in {"not found", "updated"}: Answer(id, what)
    BY <1>4
  <2>2. shared' \in [TaskIds -> Shareds]
    BY <1>4, UpdateSharedKept
  <2> QED BY <1>1, <1>4, <2>1, <2>2, AnswerKeeps
<1> QED BY <1>2, <1>3, <1>4 DEF TaskUpdate

LEMMA TaskInvNext == ASSUME TaskInv, [TaskNext]_taskVars PROVE TaskInv'
<1>1. CASE UNCHANGED taskVars
  BY <1>1 DEF taskVars, TaskInv, TaskTypes, ListedIsOwn, EntryIsOwn, BusyHasEntry, CallIsOwn,
              StopTracks, StopWasTold, IsRunning
<1>2. ASSUME NEW id \in TaskIds, ExecutionStep(id) \/ ToolStep(id) PROVE TaskInv'
  BY <1>2, ExecutionStepKeeps, SharedToolsKeep, UserStopKeeps, StopIdleKeeps, StopRunningKeeps,
     CreateKeeps, TaskUpdateKeeps DEF ToolStep
<1>3. CASE TaskList \/ StartReturns \/ CreateReturns \/ StopReturns \/ AbortStarting \/ AbortAwaiting
  BY <1>3, WaitsKeep, StopReturnsKeeps
<1> QED BY <1>1, <1>2, <1>3 DEF TaskNext

LEMMA TaskAnswers == TaskInv => TaskTypeOK /\ StopIsReal /\ BusyIsTrue
<1> SUFFICES ASSUME TaskInv PROVE TaskTypeOK /\ StopIsReal /\ BusyIsTrue
  OBVIOUS
<1>1. /\ record \in Seq(Row) /\ Len(record) \in Nat /\ listed \in [TaskIds -> 0..Len(record)]
      /\ entry \in [TaskIds -> [rec: 0..Len(record), at: EntryAt]]
  BY DEF TaskInv, TaskTypes
<1>2. \A n \in DOMAIN record:
         record[n].id \in TaskIds /\ record[n].rec \in Record /\ record[n].edits \in 0..MaxEdits
  <2> SUFFICES ASSUME NEW n \in DOMAIN record PROVE record[n] \in Row
    BY DEF Row
  <2> QED BY <1>1
<1>3. TaskTypeOK
  <2>1. call.at \in CallAt
    BY DEF TaskInv, TaskTypes, CallSet
  <2> QED BY <1>1, <1>2, <2>1 DEF TaskTypeOK, TaskInv, TaskTypes, EntryAt, CallAt, Shareds
<1>4. StopIsReal
  BY DEF TaskInv, StopWasTold, StopIsReal
<1>5. BusyIsTrue
  <2> SUFFICES ASSUME NEW id \in TaskIds, listed[id] # 0, record[listed[id]].edits = 0,
                      record[listed[id]].rec.status \in {"queued", "running"}
               PROVE  entry[id].rec = listed[id]
    BY DEF BusyIsTrue, ListRecords
  <2>1. listed[id] \in 1..Len(record)
    BY <1>1
  <2> QED BY <2>1 DEF TaskInv, ListedIsOwn, BusyHasEntry
<1> QED BY <1>3, <1>4, <1>5

-----------------------------------------------------------------------------
(***************************************************************************)
(* The mailbox: a message that was taken is marked, and never new again.   *)
(***************************************************************************)
MailStatus == {"delivered", "read", "acked", "archived", "deleted", "gone"}
Letter == [to: Agents, status: MailStatus]

MailTypes ==
    /\ message \in Seq(Letter) /\ taken \in Seq(Nat)
    /\ Len(taken) = Len(message)

\* A message that was taken is marked, and no mark makes it new again.
TakenIsMarked ==
    \A m \in 1..Len(message): taken[m] = 0 \/ (taken[m] = 1 /\ message[m].status # "delivered")

PollSet == [at: {"idle", "waiting", "woken"}, agent: Agents \union {"none"},
            read: BOOLEAN, mark: BOOLEAN]

PollsAreOurs == poll \in [Pollers -> PollSet]

LettersInv == MailTypes /\ TakenIsMarked
MailInv == LettersInv /\ PollsAreOurs

LEMMA SeqOfSameLength ==
    ASSUME NEW S, NEW T, NEW q \in Seq(S), NEW f \in [1..Len(q) -> T]
    PROVE  f \in Seq(T) /\ Len(f) = Len(q)
  OBVIOUS

LEMMA ConcatIndex ==
    ASSUME NEW S, NEW q \in Seq(S), NEW r \in Seq(S)
    PROVE  /\ q \o r \in Seq(S) /\ Len(q \o r) = Len(q) + Len(r)
           /\ \A i \in 1..Len(q): (q \o r)[i] = q[i]
           /\ \A i \in 1..Len(q \o r): i \notin 1..Len(q) => \E j \in 1..Len(r): (q \o r)[i] = r[j]
  OBVIOUS

LEMMA LettersInvInit == MailInit => LettersInv
  BY DEF MailInit, LettersInv, MailTypes, TakenIsMarked

\* The recipients of a broadcast, one after the other.
LEMMA RecipientsInARow ==
    ASSUME NEW S \in SUBSET Agents
    PROVE  SetToSeq(S) \in Seq(S)
<1>1. IsFiniteSet(S)
  BY MailAssumption, FS_Subset DEF MailAssumption
<1>2. Cardinality(S) \in Nat /\ ExistsBijection(1..Cardinality(S), S)
  BY <1>1, FS_CardinalityType
<1>3. PICK f \in Bijection(1..Cardinality(S), S): TRUE
  BY <1>2 DEF ExistsBijection
<1>4. f \in [1..Cardinality(S) -> S] /\ IsInjective(f)
  BY <1>3 DEF Bijection, Injection, Surjection, IsInjective, IsInjective
<1>5. SetToSeq(S) \in [1..Cardinality(S) -> S]
  BY <1>4 DEF SetToSeq
<1> QED BY <1>2, <1>5

LEMMA DeliverKeeps == ASSUME LettersInv, NEW S \in SUBSET Agents, Deliver(S) PROVE LettersInv'
<1> DEFINE tos == SetToSeq(S)
           new == [i \in DOMAIN tos |-> New(tos[i])]
           zeros == [i \in DOMAIN tos |-> 0]
<1>1. tos \in Seq(Agents)
  BY RecipientsInARow
<1> HIDE DEF tos
<1>2. \A i \in DOMAIN tos: New(tos[i]) \in Letter /\ New(tos[i]).status = "delivered"
  BY <1>1 DEF New, Letter, MailStatus
<1>3. new \in Seq(Letter) /\ zeros \in Seq(Nat) /\ Len(new) = Len(tos) /\ Len(zeros) = Len(tos)
  BY <1>1, <1>2
<1>4. message' = message \o new /\ taken' = taken \o zeros
  BY DEF Deliver, tos
<1> HIDE DEF new
<1>5. \A i \in 1..Len(zeros): zeros[i] = 0
  BY <1>1, <1>3
<1> HIDE DEF zeros
<1>6. message \in Seq(Letter) /\ taken \in Seq(Nat) /\ Len(taken) = Len(message)
  BY DEF LettersInv, MailTypes
<1>7. MailTypes'
  <2>1. message' \in Seq(Letter) /\ Len(message') = Len(message) + Len(new)
    BY <1>3, <1>4, <1>6, ConcatIndex
  <2>2. taken' \in Seq(Nat) /\ Len(taken') = Len(taken) + Len(zeros)
    BY <1>3, <1>4, <1>6, ConcatIndex
  <2> QED BY <1>3, <1>6, <2>1, <2>2 DEF MailTypes
<1>8. \A m \in 1..Len(message): message'[m] = message[m] /\ taken'[m] = taken[m]
  BY <1>3, <1>4, <1>6, ConcatIndex
<1>9. \A m \in 1..Len(message'): m \notin 1..Len(message) => taken'[m] = 0
  <2>1. \A m \in 1..Len(taken'): m \notin 1..Len(taken) => \E i \in 1..Len(zeros): taken'[m] = zeros[i]
    BY <1>3, <1>4, <1>6, ConcatIndex
  <2> QED BY <1>5, <1>6, <1>7, <2>1 DEF MailTypes
<1>10. TakenIsMarked'
  BY <1>8, <1>9 DEF LettersInv, TakenIsMarked
<1> QED BY <1>7, <1>10 DEF LettersInv

\* What changes no message back to new, and is handed over at most once if it is new.
LEMMA MarksKeep ==
    ASSUME LettersInv, message' \in Seq(Letter), taken' \in Seq(Nat),
           Len(message') = Len(message), Len(taken') = Len(taken),
           \A m \in 1..Len(message):
              /\ message[m].status # "delivered" => message'[m].status # "delivered"
              /\ \/ taken'[m] = taken[m]
                 \/ /\ taken'[m] = taken[m] + 1
                    /\ message[m].status = "delivered" /\ message'[m].status # "delivered"
    PROVE  LettersInv'
<1>1. MailTypes'
  BY DEF LettersInv, MailTypes
<1>2. TakenIsMarked'
  <2> SUFFICES ASSUME NEW m \in 1..Len(message)
               PROVE  taken'[m] = 0 \/ (taken'[m] = 1 /\ message'[m].status # "delivered")
    BY DEF TakenIsMarked
  <2>1. taken[m] = 0 \/ (taken[m] = 1 /\ message[m].status # "delivered")
    BY DEF LettersInv, TakenIsMarked
  <2> QED BY <2>1
<1> QED BY <1>1, <1>2 DEF LettersInv

LEMMA MarkKeeps ==
    ASSUME LettersInv, NEW j \in DOMAIN message, Mark(j, "gone") \/ \E s \in MailStatus \ {"delivered"}: Mark(j, s)
    PROVE  LettersInv'
<1>1. message \in Seq(Letter) /\ taken \in Seq(Nat) /\ taken' = taken
  BY DEF LettersInv, MailTypes, Mark
<1>2. PICK s \in MailStatus \ {"delivered"}:
         message' = message \/ message' = [message EXCEPT ![j].status = s]
  BY DEF Mark, Marked, MailStatus
<1>3. CASE message' = message
  BY <1>1, <1>3, MarksKeep
<1>4. CASE message' = [message EXCEPT ![j].status = s]
  <2>1. message[j] \in Letter
    BY <1>1
  <2>2. [message[j] EXCEPT !.status = s] \in Letter /\ [message[j] EXCEPT !.status = s].status = s
    BY <2>1 DEF Letter
  <2>3. /\ message' \in Seq(Letter) /\ Len(message') = Len(message)
        /\ message'[j].status = s
        /\ \A m \in 1..Len(message): m # j => message'[m] = message[m]
    <3>1. \A m \in 1..Len(message): message'[m] = IF m = j THEN [message[j] EXCEPT !.status = s] ELSE message[m]
      BY <1>1, <1>4
    <3>2. message' \in [1..Len(message) -> Letter]
      BY <1>1, <1>4, <2>2
    <3>3. j \in 1..Len(message)
      BY <1>1
    <3>4. message' \in Seq(Letter) /\ Len(message') = Len(message)
      BY <1>1, <3>2, SeqOfSameLength
    <3>5. message'[j].status = s
      BY <2>2, <3>1, <3>3
    <3> QED BY <3>1, <3>4, <3>5
  <2> QED BY <1>1, <2>3, MarksKeep
<1> QED BY <1>2, <1>3, <1>4

\* A poll for new mail sees what is still new.
LEMMA NewIsDelivered ==
    ASSUME LettersInv, NEW q, NEW m \in Visible(q), ~q.read
    PROVE  message[m].status = "delivered"
<1>1. message[m] \in Letter
  BY DEF Visible, LettersInv, MailTypes
<1> QED BY <1>1 DEF Visible, Hidden, Letter, MailStatus

LEMMA TakenKeeps ==
    ASSUME LettersInv, NEW p, NEW q, NEW chosen \in SUBSET Visible(q), Taken(p, q, chosen)
    PROVE  LettersInv'
<1> DEFINE marks == q.mark /\ chosen # {}
<1>1. message \in Seq(Letter) /\ taken \in Seq(Nat) /\ Len(taken) = Len(message)
  BY DEF LettersInv, MailTypes
<1>2. message' = [m \in DOMAIN message |->
                    IF marks /\ m \in chosen /\ message[m].status # "deleted"
                    THEN [message[m] EXCEPT !.status = "read"] ELSE message[m]]
  BY DEF Taken
<1>3. taken' = [m \in DOMAIN taken |-> IF marks /\ ~q.read /\ m \in chosen
                                       THEN taken[m] + 1 ELSE taken[m]]
  BY DEF Taken
<1>4. \A m \in chosen: message[m].status # "deleted"
  BY DEF Visible, Hidden
<1> HIDE DEF marks
<1>5. ASSUME NEW m \in 1..Len(message)
      PROVE  /\ message'[m] \in Letter
             /\ ~(marks /\ m \in chosen) => message'[m] = message[m]
             /\ marks /\ m \in chosen => message'[m].status = "read"
  <2>1. message[m] \in Letter
    BY <1>1
  <2>2. [message[m] EXCEPT !.status = "read"] \in Letter /\ [message[m] EXCEPT !.status = "read"].status = "read"
    BY <2>1 DEF Letter, MailStatus
  <2>3. CASE marks /\ m \in chosen
    <3>1. message'[m] = [message[m] EXCEPT !.status = "read"]
      BY <1>1, <1>2, <1>4, <2>3
    <3> QED BY <2>2, <2>3, <3>1
  <2>4. CASE ~(marks /\ m \in chosen)
    BY <1>1, <1>2, <2>1, <2>4
  <2> QED BY <2>3, <2>4
<1>6. message' \in Seq(Letter) /\ Len(message') = Len(message)
  <2>1. DOMAIN message = 1..Len(message)
    BY <1>1
  <2>2. message' = [m \in 1..Len(message) |-> message'[m]]
    BY <1>2, <2>1
  <2>3. \A m \in 1..Len(message): message'[m] \in Letter
    BY <1>5
  <2>4. message' \in [1..Len(message) -> Letter]
    BY <2>2, <2>3
  <2> QED BY <1>1, <2>4, SeqOfSameLength
<1>7. taken' \in Seq(Nat) /\ Len(taken') = Len(taken)
  <2>1. taken' \in [1..Len(taken) -> Nat]
    BY <1>1, <1>3
  <2> QED BY <1>1, <2>1, SeqOfSameLength
<1>8. \A m \in 1..Len(message): message[m].status # "delivered" => message'[m].status # "delivered"
  BY <1>5
<1>9. ASSUME NEW m \in 1..Len(message), taken'[m] # taken[m]
      PROVE  /\ taken'[m] = taken[m] + 1
             /\ message[m].status = "delivered" /\ message'[m].status # "delivered"
  <2>1. marks /\ ~q.read /\ m \in chosen /\ taken'[m] = taken[m] + 1
    BY <1>1, <1>3, <1>9
  <2> QED BY <1>5, <2>1, NewIsDelivered
<1> QED BY <1>6, <1>7, <1>8, <1>9, MarksKeep

LEMMA PollKeeps ==
    ASSUME LettersInv, NEW p \in Pollers, Poll(p) \/ PollWakes(p) \/ PollGivesUp(p) PROVE LettersInv'
<1>1. CASE UNCHANGED <<message, taken>>
  BY <1>1 DEF LettersInv, MailTypes, TakenIsMarked
<1>2. CASE \E q, limit: Taken(p, q, Selected(q, limit))
  <2>1. PICK q, limit: Taken(p, q, Selected(q, limit))
    BY <1>2
  <2>2. Selected(q, limit) \in SUBSET Visible(q)
    BY DEF Selected
  <2> QED BY <2>1, <2>2, TakenKeeps
<1> QED BY <1>1, <1>2 DEF Poll, PollWakes, PollGivesUp

\* A poll that waits keeps what it asked for.
LEMMA NoPollIs == NoPoll \in PollSet
  BY DEF NoPoll, PollSet

LEMMA PollChanges ==
    ASSUME PollsAreOurs, NEW q \in PollSet, NEW at \in {"idle", "waiting", "woken"}
    PROVE  [q EXCEPT !.at = at] \in PollSet
  BY DEF PollSet

LEMMA WakeAllKeeps == ASSUME PollsAreOurs, WakeAll PROVE PollsAreOurs'
<1>1. \A p \in Pollers: [poll[p] EXCEPT !.at = "woken"] \in PollSet /\ poll[p] \in PollSet
  BY PollChanges DEF PollsAreOurs
<1> QED BY <1>1 DEF WakeAll, PollsAreOurs

LEMMA TakenPolls ==
    ASSUME PollsAreOurs, NEW p \in Pollers, NEW q, NEW chosen, Taken(p, q, chosen)
    PROVE  PollsAreOurs'
<1> DEFINE marks == q.mark /\ chosen # {}
<1>1. poll' = [o \in Pollers |->
                 IF o = p THEN NoPoll
                 ELSE IF marks /\ poll[o].at = "waiting" THEN [poll[o] EXCEPT !.at = "woken"]
                 ELSE poll[o]]
  BY DEF Taken
<1> HIDE DEF marks
<1>2. \A o \in Pollers: [poll[o] EXCEPT !.at = "woken"] \in PollSet /\ poll[o] \in PollSet
  BY PollChanges DEF PollsAreOurs
<1> QED BY <1>1, <1>2, NoPollIs DEF PollsAreOurs

LEMMA PollerKeeps ==
    ASSUME PollsAreOurs, NEW p \in Pollers, Poll(p) \/ PollWakes(p) \/ PollGivesUp(p)
    PROVE  PollsAreOurs'
<1>1. CASE \E q, limit: Taken(p, q, Selected(q, limit))
  BY <1>1, TakenPolls
<1>2. CASE \E q \in PollSet: poll' = [poll EXCEPT ![p] = q]
  BY <1>2 DEF PollsAreOurs
<1>3. CASE Poll(p)
  <2>1. PICK agent \in Agents, read \in BOOLEAN, mark \in BOOLEAN, waits \in BOOLEAN:
           LET q == [at |-> "waiting", agent |-> agent, read |-> read, mark |-> mark]
           IN IF Visible(q) = {} /\ waits
              THEN poll' = [poll EXCEPT ![p] = q] /\ UNCHANGED <<message, taken>>
              ELSE \E limit \in {1, MaxMessages} : Taken(p, q, Selected(q, limit))
    BY <1>3 DEF Poll
  <2>2. [at |-> "waiting", agent |-> agent, read |-> read, mark |-> mark] \in PollSet
    BY DEF PollSet
  <2> QED BY <1>1, <1>2, <2>1, <2>2
<1>4. CASE PollWakes(p)
  <2>1. [poll[p] EXCEPT !.at = "waiting"] \in PollSet
    BY PollChanges DEF PollsAreOurs
  <2>2. \/ poll' = [poll EXCEPT ![p] = [poll[p] EXCEPT !.at = "waiting"]]
        \/ \E limit: Taken(p, poll[p], Selected(poll[p], limit))
    BY <1>4 DEF PollWakes
  <2> QED BY <1>1, <1>2, <2>1, <2>2
<1>5. CASE PollGivesUp(p)
  BY <1>2, <1>5, NoPollIs DEF PollGivesUp
<1> QED BY <1>3, <1>4, <1>5

LEMMA MailInvInit == MailInit => MailInv
  BY LettersInvInit, NoPollIs DEF MailInit, MailInv, PollsAreOurs

LEMMA MailInvNext == ASSUME MailInv, [MailNext]_mailVars PROVE MailInv'
<1>1. CASE UNCHANGED mailVars
  BY <1>1 DEF mailVars, MailInv, LettersInv, MailTypes, TakenIsMarked, PollsAreOurs
<1>2. CASE Send \/ Broadcast
  BY <1>2, DeliverKeeps, WakeAllKeeps DEF Send, Broadcast, Deliver, MailInv
<1>3. ASSUME NEW m \in DOMAIN message, NEW s \in {"read", "acked", "archived", "deleted", "gone"}, Mark(m, s)
      PROVE  MailInv'
  BY <1>3, MarkKeeps, WakeAllKeeps DEF MailStatus, Mark, MailInv
<1>4. ASSUME NEW p \in Pollers, Poll(p) \/ PollWakes(p) \/ PollGivesUp(p) PROVE MailInv'
  BY <1>4, PollKeeps, PollerKeeps DEF MailInv
<1> QED BY <1>1, <1>2, <1>3, <1>4 DEF MailNext

LEMMA MailIsNewOnce == MailInv => TakenOnce
<1> SUFFICES ASSUME MailInv, NEW m \in DOMAIN taken PROVE taken[m] <= 1
  BY DEF TakenOnce
<1>1. m \in 1..Len(message)
  BY DEF MailInv, LettersInv, MailTypes
<1> QED BY <1>1 DEF MailInv, LettersInv, TakenIsMarked

LEMMA MailIsTyped == MailInv => MailTypeOK
<1> SUFFICES ASSUME MailInv PROVE MailTypeOK
  OBVIOUS
<1>1. ASSUME NEW m \in DOMAIN message PROVE message[m] \in Letter
  BY <1>1 DEF MailInv, LettersInv, MailTypes
<1>2. DOMAIN taken = DOMAIN message
  BY DEF MailInv, LettersInv, MailTypes
<1>3. ASSUME NEW p \in Pollers PROVE poll[p].at \in {"idle", "waiting", "woken"}
  <2>1. poll[p] \in PollSet
    BY DEF MailInv, PollsAreOurs
  <2> QED BY <2>1 DEF PollSet
<1> QED BY <1>1, <1>2, <1>3 DEF MailTypeOK, Letter, MailStatus

-----------------------------------------------------------------------------
(***************************************************************************)
(* The panel: what is told is older than all the news.                     *)
(***************************************************************************)
TaskRow == [home: Nat, retries: Nat,
            status: {"running", "stopping", "succeeded", "failed", "cancelled"}]

PanelTypes ==
    /\ tasks \in Seq(TaskRow) /\ home \in Nat /\ making \in Nat
    /\ news \in Seq(Nat) /\ told \in Seq(Nat)

\* The news are in the order of creation, none older than what was told.
NewsAreMade == \A j \in 1..Len(news): news[j] <= Len(tasks)
NewsRise == \A i, j \in 1..Len(news): i <= j => news[i] <= news[j]
ToldAreMade == \A k \in 1..Len(told): told[k] <= Len(tasks)
ToldIsPast == \A k \in 1..Len(told), j \in 1..Len(news): told[k] <= news[j]
ToldRises == \A j, k \in 1..Len(told): j < k => told[j] < told[k]

NewsInOrder ==
    /\ making # 0 => making = Len(tasks)
    /\ NewsAreMade /\ NewsRise /\ ToldAreMade /\ ToldIsPast /\ ToldRises

PanelInv == PanelTypes /\ NewsInOrder

LEMMA PanelInvInit == PanelInit => PanelInv
  BY DEF PanelInit, PanelInv, PanelTypes, NewsInOrder, NewsAreMade, NewsRise, ToldAreMade, ToldIsPast, ToldRises

LEMMA Appended ==
    ASSUME NEW S, NEW q \in Seq(S), NEW e \in S
    PROVE  /\ Append(q, e) \in Seq(S) /\ Len(Append(q, e)) = Len(q) + 1
           /\ \A i \in 1..Len(q): Append(q, e)[i] = q[i]
           /\ Append(q, e)[Len(q) + 1] = e
  OBVIOUS

LEMMA RowIsReplaced ==
    ASSUME NEW S, NEW q \in Seq(S), NEW i \in DOMAIN q, NEW e \in S
    PROVE  [q EXCEPT ![i] = e] \in Seq(S) /\ Len([q EXCEPT ![i] = e]) = Len(q)
  OBVIOUS

LEMMA OldOrder ==
    ASSUME PanelInv
    PROVE  /\ Len(tasks) \in Nat /\ Len(news) \in Nat /\ Len(told) \in Nat
           /\ \A j \in 1..Len(news): news[j] \in Nat /\ news[j] <= Len(tasks)
           /\ \A k \in 1..Len(told): told[k] \in Nat /\ told[k] <= Len(tasks)
           /\ \A i, j \in 1..Len(news): i <= j => news[i] <= news[j]
           /\ \A k \in 1..Len(told), j \in 1..Len(news): told[k] <= news[j]
           /\ \A j, k \in 1..Len(told): j < k => told[j] < told[k]
  BY DEF PanelInv, PanelTypes, NewsInOrder, NewsAreMade, NewsRise, ToldAreMade, ToldIsPast, ToldRises

\* What leaves the news and the notices alone, and makes no task.
LEMMA PanelStays ==
    ASSUME PanelInv, tasks' \in Seq(TaskRow), Len(tasks') = Len(tasks), home' \in Nat,
           UNCHANGED <<making, news, told>>
    PROVE  PanelInv'
  BY DEF PanelInv, PanelTypes, NewsInOrder, NewsAreMade, NewsRise, ToldAreMade, ToldIsPast, ToldRises

LEMMA RowsChange ==
    ASSUME PanelInv, NEW i \in Ids, TaskEnds(i) \/ Stop(i) \/ Retry(i) \/ RetryReturns(i)
    PROVE  PanelInv'
<1>1. tasks \in Seq(TaskRow) /\ home \in Nat /\ i \in DOMAIN tasks /\ tasks[i] \in TaskRow
  BY DEF PanelInv, PanelTypes, Ids
<1>2. home' \in Nat /\ UNCHANGED <<making, news, told>>
  BY <1>1 DEF TaskEnds, Stop, Retry, RetryReturns
<1>3. tasks' \in Seq(TaskRow) /\ Len(tasks') = Len(tasks)
  <2>1. ASSUME TaskEnds(i) PROVE tasks' \in Seq(TaskRow) /\ Len(tasks') = Len(tasks)
    <3>1. PICK status \in {"succeeded", "failed", "cancelled"}:
             tasks' = [tasks EXCEPT ![i] = [tasks[i] EXCEPT !.status = status]]
      BY <2>1 DEF TaskEnds
    <3>2. [tasks[i] EXCEPT !.status = status] \in TaskRow
      BY <1>1 DEF TaskRow
    <3> QED BY <1>1, <3>1, <3>2, RowIsReplaced
  <2>2. ASSUME tasks' = [tasks EXCEPT ![i].status = IF @ = "running" THEN "stopping" ELSE @]
        PROVE  tasks' \in Seq(TaskRow) /\ Len(tasks') = Len(tasks)
    <3> DEFINE row == [tasks[i] EXCEPT !.status = IF @ = "running" THEN "stopping" ELSE @]
    <3>1. tasks' = [tasks EXCEPT ![i] = row]
      BY <2>2
    <3>2. row \in TaskRow
      BY <1>1 DEF TaskRow
    <3> HIDE DEF row
    <3> QED BY <1>1, <3>1, <3>2, RowIsReplaced
  <2>3. ASSUME Retry(i) PROVE tasks' \in Seq(TaskRow) /\ Len(tasks') = Len(tasks)
    <3>1. tasks' = tasks \/ tasks' = [tasks EXCEPT ![i] = Again(tasks[i])]
      BY <2>3 DEF Retry
    <3>2. Again(tasks[i]) \in TaskRow
      <4>1. tasks[i].retries + 1 \in Nat
        BY <1>1 DEF TaskRow
      <4> QED BY <1>1, <4>1 DEF TaskRow, Again
    <3> QED BY <1>1, <3>1, <3>2, RowIsReplaced
  <2>4. ASSUME tasks' = tasks PROVE tasks' \in Seq(TaskRow) /\ Len(tasks') = Len(tasks)
    BY <1>1, <2>4
  <2> QED BY <2>1, <2>2, <2>3, <2>4 DEF Stop, RetryReturns
<1> QED BY <1>2, <1>3, PanelStays

\* A task that is as new as any is one more item of news.
LEMMA NewsGrow ==
    ASSUME PanelInv, NEW t \in Nat, Len(tasks) <= t, Len(tasks') = t,
           making' # 0 => making' = t, told' = told,
           Len(news') = Len(news) + 1, news'[Len(news) + 1] = t,
           \A i \in 1..Len(news): news'[i] = news[i]
    PROVE  NewsInOrder'
<1>1. Len(tasks) \in Nat /\ Len(news) \in Nat /\ Len(told) \in Nat
  BY OldOrder
<1>2. ASSUME NEW j \in 1..Len(news')
      PROVE  /\ j = Len(news) + 1 => news'[j] = t
             /\ j # Len(news) + 1 =>
                   j \in 1..Len(news) /\ news'[j] = news[j] /\ news[j] \in Nat /\ news[j] <= Len(tasks)
  <2>1. j \in 1..Len(news) \/ j = Len(news) + 1
    BY <1>1
  <2>2. j \in 1..Len(news) => news[j] \in Nat /\ news[j] <= Len(tasks)
    BY OldOrder
  <2> QED BY <1>1, <2>1, <2>2
<1>3. NewsAreMade'
  <2> SUFFICES ASSUME NEW j \in 1..Len(news') PROVE news'[j] <= Len(tasks')
    BY DEF NewsAreMade
  <2> QED BY <1>1, <1>2
<1>4. NewsRise'
  <2> SUFFICES ASSUME NEW i \in 1..Len(news'), NEW j \in 1..Len(news'), i <= j
               PROVE  news'[i] <= news'[j]
    BY DEF NewsRise
  <2>1. CASE j = Len(news) + 1
    BY <1>1, <1>2, <2>1
  <2>2. CASE j # Len(news) + 1
    <3>1. i # Len(news) + 1
      BY <1>1, <1>2, <2>2
    <3>2. i \in 1..Len(news) /\ j \in 1..Len(news) /\ news'[i] = news[i] /\ news'[j] = news[j]
      BY <1>2, <2>2, <3>1
    <3>3. news[i] <= news[j]
      BY <3>2, OldOrder
    <3> QED BY <3>2, <3>3
  <2> QED BY <2>1, <2>2
<1>5. ToldAreMade'
  <2> SUFFICES ASSUME NEW k \in 1..Len(told) PROVE told[k] <= t
    BY DEF ToldAreMade
  <2>1. told[k] \in Nat /\ told[k] <= Len(tasks)
    BY OldOrder
  <2> QED BY <1>1, <2>1
<1>6. ToldIsPast'
  <2> SUFFICES ASSUME NEW k \in 1..Len(told), NEW j \in 1..Len(news') PROVE told[k] <= news'[j]
    BY DEF ToldIsPast
  <2>1. told[k] \in Nat /\ told[k] <= Len(tasks) /\ \A i \in 1..Len(news): told[k] <= news[i]
    BY OldOrder
  <2> QED BY <1>1, <1>2, <2>1
<1>7. ToldRises'
  BY DEF ToldRises, PanelInv, NewsInOrder
<1> QED BY <1>3, <1>4, <1>5, <1>6, <1>7 DEF NewsInOrder

LEMMA MakeKeeps == ASSUME PanelInv, Create PROVE PanelInv'
<1>1. tasks \in Seq(TaskRow) /\ home \in Nat /\ news \in Seq(Nat) /\ told \in Seq(Nat)
  BY DEF PanelInv, PanelTypes
<1>2. [home |-> home, status |-> "running", retries |-> 0] \in TaskRow
  BY <1>1 DEF TaskRow
<1>3. tasks' \in Seq(TaskRow) /\ Len(tasks') = Len(tasks) + 1 /\ Len(tasks) \in Nat
  BY <1>1, <1>2, Appended DEF Create
<1>4. /\ news' \in Seq(Nat) /\ Len(news') = Len(news) + 1
      /\ \A i \in 1..Len(news): news'[i] = news[i]
      /\ news'[Len(news) + 1] = Len(tasks')
  BY <1>1, <1>3, Appended DEF Create
<1>5. making' = Len(tasks') /\ UNCHANGED <<told, home>>
  BY DEF Create
<1>6. PanelTypes'
  BY <1>1, <1>3, <1>4, <1>5 DEF PanelTypes
<1>7. NewsInOrder'
  <2>1. Len(tasks) <= Len(tasks') /\ Len(tasks') \in Nat
    BY <1>3
  <2> QED BY <1>4, <1>5, <2>1, NewsGrow
<1> QED BY <1>6, <1>7 DEF PanelInv

LEMMA NoticeKeeps == ASSUME PanelInv, NoticeFollows PROVE PanelInv'
<1>1. tasks \in Seq(TaskRow) /\ making \in Nat /\ news \in Seq(Nat) /\ told \in Seq(Nat)
  BY DEF PanelInv, PanelTypes
<1>2. /\ news' \in Seq(Nat) /\ Len(news') = Len(news) + 1
      /\ \A i \in 1..Len(news): news'[i] = news[i]
      /\ news'[Len(news) + 1] = making
  BY <1>1, Appended DEF NoticeFollows
<1>3. making = Len(tasks) /\ making' = 0 /\ UNCHANGED <<told, home, tasks>>
  BY DEF NoticeFollows, PanelInv, NewsInOrder
<1>4. PanelTypes'
  BY <1>1, <1>2, <1>3 DEF PanelInv, PanelTypes
<1>5. NewsInOrder'
  <2>1. Len(tasks) <= making /\ Len(tasks') = making
    BY <1>1, <1>3
  <2> QED BY <1>1, <1>2, <1>3, <2>1, NewsGrow
<1> QED BY <1>4, <1>5 DEF PanelInv

LEMMA AnnounceKeeps == ASSUME PanelInv, Announce PROVE PanelInv'
<1>1. tasks \in Seq(TaskRow) /\ making \in Nat /\ news \in Seq(Nat) /\ told \in Seq(Nat)
      /\ news # <<>> /\ 1 \in 1..Len(news)
  BY DEF PanelInv, PanelTypes, Announce
<1>2. /\ news' \in Seq(Nat) /\ Len(news') = Len(news) - 1
      /\ \A i \in 1..Len(news'): news'[i] = news[i + 1] /\ i + 1 \in 1..Len(news)
      /\ Head(news) = news[1] /\ news[1] \in Nat
  BY <1>1 DEF Announce
<1>3. UNCHANGED <<tasks, home, making>>
  BY DEF Announce
<1>4. Len(tasks) \in Nat /\ Len(news) \in Nat /\ Len(told) \in Nat
  BY OldOrder
<1>5. ASSUME NEW j \in 1..Len(news')
      PROVE  /\ news'[j] = news[j + 1] /\ news[j + 1] \in Nat /\ j + 1 \in 1..Len(news)
             /\ news[1] <= news[j + 1] /\ news[j + 1] <= Len(tasks)
             /\ \A k \in 1..Len(told): told[k] <= news[j + 1]
  <2>1. j + 1 \in 1..Len(news) /\ news'[j] = news[j + 1] /\ 1 <= j + 1
    BY <1>2, <1>4
  <2> QED BY <1>1, <2>1, OldOrder
<1>6. NewsAreMade'
  <2> SUFFICES ASSUME NEW j \in 1..Len(news') PROVE news'[j] <= Len(tasks')
    BY DEF NewsAreMade
  <2> QED BY <1>3, <1>5
<1>7. NewsRise'
  <2> SUFFICES ASSUME NEW i \in 1..Len(news'), NEW j \in 1..Len(news'), i <= j
               PROVE  news'[i] <= news'[j]
    BY DEF NewsRise
  <2>1. i + 1 \in 1..Len(news) /\ j + 1 \in 1..Len(news) /\ i + 1 <= j + 1
    BY <1>2, <1>4
  <2>2. news[i + 1] <= news[j + 1]
    BY <2>1, OldOrder
  <2> QED BY <1>5, <2>2
<1>8. news[1] \in Nat /\ news[1] <= Len(tasks) /\ \A k \in 1..Len(told): told[k] <= news[1]
  BY <1>1, OldOrder
<1>9. CASE told' = told
  <2>1. PanelTypes'
    BY <1>2, <1>3, <1>9 DEF PanelInv, PanelTypes
  <2>2. ToldAreMade' /\ ToldRises'
    BY <1>3, <1>9 DEF PanelInv, NewsInOrder, ToldAreMade, ToldRises
  <2>3. ToldIsPast'
    BY <1>5, <1>9 DEF ToldIsPast
  <2>4. (making # 0 => making = Len(tasks))'
    BY <1>3 DEF PanelInv, NewsInOrder
  <2> QED BY <1>6, <1>7, <2>1, <2>2, <2>3, <2>4 DEF PanelInv, NewsInOrder
<1>10. CASE told' # told
  <2>1. told' = Append(told, news[1]) /\ \A k \in 1..Len(told): told[k] # news[1]
    <3>1. ~(\E k \in DOMAIN told: told[k] = Head(news)) /\ Tells(Head(news))
      BY <1>10 DEF Announce
    <3>2. Head(news) = news[1] /\ DOMAIN told = 1..Len(told)
      BY <1>1, <1>2
    <3>3. told' = Append(told, Head(news))
      BY <3>1 DEF Tells
    <3> QED BY <3>1, <3>2, <3>3
  <2>2. /\ told' \in Seq(Nat) /\ Len(told') = Len(told) + 1
        /\ \A i \in 1..Len(told): told'[i] = told[i]
        /\ told'[Len(told) + 1] = news[1]
    BY <1>1, <1>2, <2>1, Appended
  <2>3. ASSUME NEW k \in 1..Len(told')
        PROVE  /\ k = Len(told) + 1 => told'[k] = news[1]
               /\ k # Len(told) + 1 => /\ k \in 1..Len(told) /\ told'[k] = told[k] /\ told[k] \in Nat
                                       /\ told[k] < news[1] /\ told[k] <= Len(tasks)
    <3>1. k \in 1..Len(told) \/ k = Len(told) + 1
      BY <1>4, <2>2
    <3>2. k \in 1..Len(told) => told[k] \in Nat /\ told[k] <= Len(tasks)
      BY OldOrder
    <3>3. k \in 1..Len(told) => told[k] <= news[1] /\ told[k] # news[1]
      BY <1>8, <2>1
    <3> QED BY <1>4, <1>8, <2>2, <3>1, <3>2, <3>3
  <2>4. PanelTypes'
    BY <1>2, <1>3, <2>2 DEF PanelInv, PanelTypes
  <2>5. ToldAreMade'
    <3> SUFFICES ASSUME NEW k \in 1..Len(told') PROVE told'[k] <= Len(tasks')
      BY DEF ToldAreMade
    <3> QED BY <1>3, <1>8, <2>3
  <2>6. ToldIsPast'
    <3> SUFFICES ASSUME NEW k \in 1..Len(told'), NEW j \in 1..Len(news') PROVE told'[k] <= news'[j]
      BY DEF ToldIsPast
    <3>1. told'[k] = news[1] \/ (told'[k] \in Nat /\ told'[k] < news[1])
      BY <2>3
    <3>2. news'[j] \in Nat /\ news[1] <= news'[j]
      BY <1>5
    <3> QED BY <1>8, <3>1, <3>2
  <2>7. ToldRises'
    <3> SUFFICES ASSUME NEW j \in 1..Len(told'), NEW k \in 1..Len(told'), j < k
                 PROVE  told'[j] < told'[k]
      BY DEF ToldRises
    <3>1. j # Len(told) + 1 /\ j \in 1..Len(told) /\ told'[j] = told[j] /\ told[j] < news[1]
      <4>1. j # Len(told) + 1
        BY <1>4, <2>2
      <4> QED BY <2>3, <4>1
    <3>2. CASE k = Len(told) + 1
      BY <2>3, <3>1, <3>2
    <3>3. CASE k # Len(told) + 1
      <4>1. k \in 1..Len(told) /\ told'[k] = told[k]
        BY <2>3, <3>3
      <4> QED BY <3>1, <4>1, OldOrder
    <3> QED BY <3>2, <3>3
  <2>8. (making # 0 => making = Len(tasks))'
    BY <1>3 DEF PanelInv, NewsInOrder
  <2> QED BY <1>6, <1>7, <2>4, <2>5, <2>6, <2>7, <2>8 DEF PanelInv, NewsInOrder
<1> QED BY <1>9, <1>10

LEMMA PanelInvNext == ASSUME PanelInv, [PanelNext]_panelVars PROVE PanelInv'
<1> USE DEF PanelInv, PanelTypes
<1>1. CASE BeginTurn \/ Timer \/ Refresh \/ NewMode \/ UNCHANGED panelVars
  <2>1. UNCHANGED <<tasks, making, news, told>> /\ home' \in Nat
    BY <1>1 DEF BeginTurn, Timer, Refresh, NewMode, panelVars
  <2> QED BY <2>1, PanelStays
<1>2. CASE EndTurn
  BY <1>2 DEF EndTurn, NewsInOrder, NewsAreMade, NewsRise, ToldAreMade, ToldIsPast, ToldRises
<1> HIDE DEF PanelInv, PanelTypes
<1> QED BY <1>1, <1>2, MakeKeeps, NoticeKeeps, AnnounceKeeps, RowsChange DEF PanelNext

LEMMA NoticesHold == PanelInv => ToldOnce
<1> SUFFICES ASSUME PanelInv, NEW j \in DOMAIN told, NEW k \in DOMAIN told, j < k
             PROVE  told[j] < told[k]
  BY DEF ToldOnce
<1>1. j \in 1..Len(told) /\ k \in 1..Len(told)
  BY DEF PanelInv, PanelTypes
<1> QED BY <1>1 DEF PanelInv, NewsInOrder, ToldRises

-----------------------------------------------------------------------------
(***************************************************************************)
(* The models: the order of the providers, the payload, and what the graph *)
(* has said since the question.                                            *)
(***************************************************************************)
\* How many of the places come before this one.
Rank(places, i) == Cardinality({j \in places: j < i})

LEMMA RankBounds ==
    ASSUME NEW n \in Nat, NEW places \in SUBSET (1..n)
    PROVE  /\ IsFiniteSet(places) /\ Cardinality(places) \in Nat
           /\ \A i \in places: Rank(places, i) \in 0..(Cardinality(places) - 1)
           /\ \A i, j \in places: i < j => Rank(places, i) < Rank(places, j)
<1>1. IsFiniteSet(places)
  <2>1. IsFiniteSet(1..n)
    BY FS_Interval
  <2> QED BY <2>1, FS_Subset
<1>2. Cardinality(places) \in Nat
  BY <1>1, FS_CardinalityType
<1>3. ASSUME NEW S \in SUBSET places PROVE IsFiniteSet(S) /\ Cardinality(S) \in Nat
  BY <1>1, FS_Subset, FS_CardinalityType
<1>4. ASSUME NEW S \in SUBSET places, NEW T \in SUBSET S, NEW x \in S, x \notin T
      PROVE  Cardinality(T) < Cardinality(S)
  <2>1. IsFiniteSet(S) /\ Cardinality(S) \in Nat /\ Cardinality(T) \in Nat
    BY <1>3
  <2>2. Cardinality(T) <= Cardinality(S) /\ (Cardinality(S) = Cardinality(T) => S = T)
    BY <2>1, FS_Subset
  <2> QED BY <1>4, <2>1, <2>2
<1>5. ASSUME NEW i \in places PROVE Rank(places, i) \in 0..(Cardinality(places) - 1)
  <2> DEFINE T == {j \in places: j < i}
  <2>1. i \notin T
    OBVIOUS
  <2>2. Cardinality(T) < Cardinality(places) /\ Cardinality(T) \in Nat
    BY <1>3, <1>4, <2>1
  <2> QED BY <1>2, <2>2 DEF Rank
<1>6. ASSUME NEW i \in places, NEW j \in places, i < j PROVE Rank(places, i) < Rank(places, j)
  <2> DEFINE T == {k \in places: k < i}
             S == {k \in places: k < j}
  <2>1. T \in SUBSET S /\ i \in S /\ i \notin T /\ S \in SUBSET places
    <3>1. \A k \in places: k \in Nat
      OBVIOUS
    <3>2. \A k \in places: k < i => k < j
      BY <1>6, <3>1
    <3>3. T \in SUBSET S
      BY <3>2
    <3>4. i \in S /\ i \notin T
      BY <1>6, <3>1
    <3>5. S \in SUBSET places
      OBVIOUS
    <3> QED BY <3>3, <3>4, <3>5
  <2> HIDE DEF S, T
  <2>2. Cardinality(T) < Cardinality(S)
    BY <1>4, <2>1
  <2> QED BY <2>2 DEF Rank, S, T
<1> QED BY <1>1, <1>2, <1>5, <1>6

LEMMA AtPlaces ==
    ASSUME NEW n \in Nat, NEW s, NEW places \in SUBSET (1..n)
    PROVE  /\ Cardinality(places) \in Nat
           /\ At(s, places) = [k \in 1..Cardinality(places) |-> At(s, places)[k]]
           /\ \A i \in places: /\ Rank(places, i) + 1 \in 1..Cardinality(places)
                               /\ At(s, places)[Rank(places, i) + 1] = s[i]
           /\ \A k \in 1..Cardinality(places):
                 \E i \in places: Rank(places, i) + 1 = k /\ At(s, places)[k] = s[i]
<1> DEFINE h == Cardinality(places)
           f == [i \in places |-> Rank(places, i) + 1]
<1>1. /\ IsFiniteSet(places) /\ h \in Nat
      /\ \A i \in places: Rank(places, i) \in 0..(h - 1)
      /\ \A i, j \in places: i < j => Rank(places, i) < Rank(places, j)
  BY RankBounds
<1>2. ASSUME NEW i \in places, NEW j \in places, Rank(places, i) = Rank(places, j) PROVE i = j
  <2>1. i \in Int /\ j \in Int
    OBVIOUS
  <2>2. ~(i < j) /\ ~(j < i)
    BY <1>1, <1>2
  <2> QED BY <2>1, <2>2
<1>3. f \in Injection(places, 1..h)
  <2>1. f \in [places -> 1..h]
    BY <1>1
  <2>2. \A i, j \in places: f[i] = f[j] => i = j
    BY <1>1, <1>2
  <2> QED BY <2>1, <2>2 DEF Injection, IsInjective
<1>4. f \in Surjection(places, 1..h)
  <2>1. IsFiniteSet(1..h) /\ Cardinality(1..h) = h
    BY <1>1, FS_Interval
  <2> HIDE DEF f
  <2> QED BY <1>3, <2>1, FS_Injection
<1>5. \A k \in 1..h: \E i \in places: Rank(places, i) + 1 = k
  <2>1. \A k \in 1..h: \E i \in places: f[i] = k
    BY <1>4 DEF Surjection
  <2> QED BY <2>1
<1>6. ASSUME NEW k \in 1..h, NEW i \in places, Rank(places, i) + 1 = k
      PROVE  At(s, places)[k] = s[i]
  <2>1. At(s, places)[k] = s[CHOOSE j \in places: Rank(places, j) = k - 1]
    BY DEF At, Rank
  <2>2. Rank(places, i) = k - 1
    BY <1>1, <1>6
  <2>3. (CHOOSE j \in places: Rank(places, j) = k - 1) = i
    <3>1. \A j \in places: Rank(places, j) = k - 1 => j = i
      BY <1>2, <2>2
    <3> QED BY <2>2, <3>1
  <2> QED BY <2>1, <2>3
<1>7. At(s, places) = [k \in 1..h |-> At(s, places)[k]]
  BY DEF At
<1>8. \A i \in places: Rank(places, i) + 1 \in 1..h
  BY <1>1
<1> HIDE DEF h, f
<1>9. \A i \in places: At(s, places)[Rank(places, i) + 1] = s[i]
  BY <1>6, <1>8
<1> QED BY <1>1, <1>5, <1>6, <1>7, <1>8, <1>9 DEF h

\* The first of the places is the first of the list.
LEMMA FirstPlace ==
    ASSUME NEW n \in Nat, NEW s, NEW places \in SUBSET (1..n), 1 \in places
    PROVE  Rank(places, 1) = 0 /\ At(s, places)[1] = s[1] /\ Cardinality(places) > 0
<1>1. {j \in places: j < 1} = {}
  <2>1. \A j \in places: j \in 1..n
    OBVIOUS
  <2>2. \A j \in places: ~(j < 1)
    BY <2>1
  <2> QED BY <2>2
<1>2. Rank(places, 1) = 0
  BY <1>1, FS_EmptySet DEF Rank
<1>3. 0 + 1 \in 1..Cardinality(places) /\ At(s, places)[0 + 1] = s[1] /\ Cardinality(places) \in Nat
  BY <1>2, AtPlaces
<1> QED BY <1>2, <1>3

\* The items at the places are a sequence, and all of these items.
LEMMA AtIs ==
    ASSUME NEW S, NEW s \in Seq(S), NEW places \in SUBSET (1..Len(s))
    PROVE  /\ At(s, places) \in Seq(S) /\ Len(At(s, places)) \in Nat
           /\ \A i \in places: \E k \in 1..Len(At(s, places)): At(s, places)[k] = s[i]
           /\ \A k \in 1..Len(At(s, places)): \E i \in places: At(s, places)[k] = s[i]
           /\ 1 \in places => At(s, places)[1] = s[1]
<1> DEFINE at == At(s, places)
           n == Len(s)
           h == Cardinality(places)
<1>1. n \in Nat /\ \A i \in 1..n: s[i] \in S
  OBVIOUS
<1>2. /\ h \in Nat /\ at = [k \in 1..h |-> at[k]]
      /\ \A i \in places: Rank(places, i) + 1 \in 1..h /\ at[Rank(places, i) + 1] = s[i]
      /\ \A k \in 1..h: \E i \in places: Rank(places, i) + 1 = k /\ at[k] = s[i]
  BY <1>1, AtPlaces
<1> HIDE DEF at, n, h
<1>3. places \in SUBSET (1..n)
  BY DEF n
<1>4. \A k \in 1..h: at[k] \in S
  BY <1>1, <1>2, <1>3
<1>5. at \in [1..h -> S]
  BY <1>2, <1>4
<1>6. at \in Seq(S) /\ Len(at) = h
  BY <1>2, <1>5
<1>7. \A i \in places: \E k \in 1..Len(at): at[k] = s[i]
  BY <1>2, <1>6
<1>8. \A k \in 1..Len(at): \E i \in places: at[k] = s[i]
  BY <1>2, <1>6
<1>9. ASSUME 1 \in places PROVE at[1] = s[1]
  <2>1. Rank(places, 1) = 0
    BY ONLY <1>1, <1>3, <1>9, FirstPlace
  <2>2. Rank(places, 1) + 1 = 1
    BY ONLY <2>1
  <2>3. at[Rank(places, 1) + 1] = s[1]
    BY ONLY <1>2, <1>9
  <2> QED BY ONLY <2>2, <2>3
<1> QED BY <1>2, <1>6, <1>7, <1>8, <1>9 DEF at

LEMMA DefaultIsName ==
    ASSUME NEW c \in Configs PROVE Default(c) \in Names /\ c.fallbacks \in Seq(Names)
<1>1. c \in Config /\ None \notin Names
  BY RouterAssumption
<1>2. c.listed # <<>> => Head(c.listed) \in Names
  BY <1>1 DEF Config
<1> QED BY <1>1, <1>2 DEF Config, Default, Wanted, FlatName

LEMMA OrderIsSound ==
    ASSUME NEW c \in Configs
    PROVE  /\ ProviderOrder(c) \in Seq(Names) /\ Len(ProviderOrder(c)) > 0
           /\ ProviderOrder(c)[1] = Default(c)
           /\ \A k, l \in 1..Len(ProviderOrder(c)): ProviderOrder(c)[k] = ProviderOrder(c)[l] => k = l
<1> DEFINE names == <<Default(c)>> \o c.fallbacks
           places == {i \in DOMAIN names: \A j \in 1..(i - 1): names[j] # names[i]}
           order == At(names, places)
           h == Cardinality(places)
<1>1. names \in Seq(Names) /\ Len(names) \in Nat /\ Len(names) > 0 /\ names[1] = Default(c)
  <2>1. <<Default(c)>> \in Seq(Names) /\ Len(<<Default(c)>>) = 1 /\ <<Default(c)>>[1] = Default(c)
    BY DefaultIsName
  <2>2. c.fallbacks \in Seq(Names)
    BY DefaultIsName
  <2> QED BY <2>1, <2>2, ConcatProperties
<1> HIDE DEF names
<1>2. places \in SUBSET (1..Len(names)) /\ 1 \in places
  BY <1>1
<1>3. \A i, j \in places: names[i] = names[j] => i = j
  <2> SUFFICES ASSUME NEW i \in places, NEW j \in places, names[i] = names[j], i < j PROVE FALSE
    BY <1>2
  <2>1. i \in 1..(j - 1)
    BY <1>2
  <2> QED BY <2>1
<1>4. ProviderOrder(c) = order
  BY DEF ProviderOrder, names
<1> HIDE DEF places
<1>5. /\ h \in Nat /\ order = [k \in 1..h |-> order[k]]
      /\ \A k \in 1..h: \E i \in places: Rank(places, i) + 1 = k /\ order[k] = names[i]
  <2> DEFINE n == Len(names)
  <2>1. n \in Nat /\ places \in SUBSET (1..n)
    BY <1>1, <1>2
  <2> HIDE DEF n
  <2> QED BY ONLY <2>1, AtPlaces
<1>6. order[1] = Default(c) /\ h > 0
  BY <1>1, <1>2, FirstPlace
<1> HIDE DEF order, h
<1>7. \A k \in 1..h: order[k] \in Names
  BY <1>1, <1>2, <1>5
<1>8. order \in Seq(Names) /\ Len(order) = h
  BY <1>5, <1>7
<1>9. \A k, l \in 1..h: order[k] = order[l] => k = l
  <2> SUFFICES ASSUME NEW k \in 1..h, NEW l \in 1..h, order[k] = order[l] PROVE k = l
    OBVIOUS
  <2>1. PICK i \in places: Rank(places, i) + 1 = k /\ order[k] = names[i]
    BY <1>5
  <2>2. PICK j \in places: Rank(places, j) + 1 = l /\ order[l] = names[j]
    BY <1>5
  <2>3. i = j
    BY <1>3, <2>1, <2>2
  <2> QED BY <2>1, <2>2, <2>3
<1> QED BY <1>4, <1>6, <1>8, <1>9

ChatSet == [state: {"none", "asking", "waiting", "answered", "failed"},
            by: Names \cup {None}, calls: Nat]

\* The names asked and the names left are the order of this chat; who heard was asked last.
RouterBook ==
    /\ llm \in Configs /\ left \in Seq(Names) /\ tried \in Seq(Names) /\ chat \in ChatSet
    /\ tried \o left = ProviderOrder(llm) \/ (tried = <<>> /\ left = <<>>)
    /\ chat.state \in {"waiting", "answered"} => tried # <<>>
    /\ chat.state = "answered" => chat.by = tried[Len(tried)]

SentBook ==
    chat.state = "waiting" => \E format \in {"openai", "anthropic"}: sent = Payload(format, request)

LEMMA ChatChanges ==
    ASSUME NEW c \in ChatSet, NEW st \in {"none", "asking", "waiting", "answered", "failed"}
    PROVE  /\ [c EXCEPT !.state = st] \in ChatSet /\ [c EXCEPT !.state = st].state = st
           /\ [c EXCEPT !.state = st].by = c.by
  BY DEF ChatSet

LEMMA RouterBookInit == RouterInit => RouterBook /\ SentBook
  BY DEF RouterInit, RouterBook, SentBook, NoChat, ChatSet

LEMMA OpensKeeps == ASSUME RouterBook, NEW msgs, Opens(msgs) PROVE RouterBook' /\ SentBook' /\ request' = msgs
<1>1. llm \in Configs /\ llm' = llm /\ tried' = <<>> /\ request' = msgs
  BY DEF RouterBook, Opens
<1>2. ProviderOrder(llm) \in Seq(Names)
  BY <1>1, OrderIsSound
<1>3. NoChat \in ChatSet
  BY DEF NoChat, ChatSet
<1>4. [NoChat EXCEPT !.state = "asking"] \in ChatSet /\ [NoChat EXCEPT !.state = "asking"].state = "asking"
  BY <1>3, ChatChanges
<1>5. [NoChat EXCEPT !.state = "failed"] \in ChatSet /\ [NoChat EXCEPT !.state = "failed"].state = "failed"
  BY <1>3, ChatChanges
<1>6. CASE Creatable(llm)
  <2>1. left' = ProviderOrder(llm) /\ chat' = [NoChat EXCEPT !.state = "asking"]
    BY <1>6 DEF Opens
  <2>2. <<>> \o left' = ProviderOrder(llm)'
    BY <1>1, <1>2, <2>1 DEF ProviderOrder, Default, Wanted, Registered, Entries, FlatName
  <2> QED BY <1>1, <1>2, <1>4, <2>1, <2>2 DEF RouterBook, SentBook
<1>7. CASE ~Creatable(llm)
  <2>1. left' = <<>> /\ chat' = [NoChat EXCEPT !.state = "failed"]
    BY <1>7 DEF Opens
  <2> QED BY <1>1, <1>5, <2>1 DEF RouterBook, SentBook
<1> QED BY <1>6, <1>7

LEMMA ProviderKeeps == ASSUME RouterBook, SentBook, Provider PROVE RouterBook' /\ SentBook' /\ request' = request
<1>1. /\ llm \in Configs /\ left \in Seq(Names) /\ tried \in Seq(Names) /\ chat \in ChatSet
      /\ llm' = llm /\ ProviderOrder(llm') = ProviderOrder(llm) /\ request' = request
  BY DEF RouterBook, Provider, Unknown, Sends, Fails, Answers
<1>2. CASE Unknown
  BY <1>1, <1>2, ChatChanges DEF Unknown, RouterBook, SentBook
<1>3. CASE Sends
  <2>1. left # <<>> /\ Head(left) \in Names /\ Tail(left) \in Seq(Names)
    BY <1>1, <1>3 DEF Sends
  <2>2. tried' = Append(tried, Head(left)) /\ left' = Tail(left) /\ tried' \in Seq(Names) /\ tried' # <<>>
    BY <1>1, <1>3, <2>1 DEF Sends
  <2>3. tried' \o left' = tried \o left
    <3>1. left = <<Head(left)>> \o Tail(left) /\ tried' = tried \o <<Head(left)>>
      BY <1>1, <2>1, <2>2, HeadTailProperties, AppendIsConcat
    <3>2. <<Head(left)>> \in Seq(Names)
      BY <2>1
    <3> QED BY <1>1, <2>1, <2>2, <3>1, <3>2, ConcatAssociative
  <2>4. tried \o left = ProviderOrder(llm)
    BY <2>1 DEF RouterBook
  <2>5. Format[Head(left)] \in {"openai", "anthropic"} /\ sent' = Payload(Format[Head(left)], request)
    BY <1>3, <2>1, RouterAssumption DEF Sends
  <2>6. chat' \in ChatSet /\ chat'.state = "waiting"
    BY <1>1, <1>3, ChatChanges DEF Sends
  <2>7. SentBook'
    BY <1>1, <2>5 DEF SentBook
  <2>8. RouterBook'
    BY <1>1, <2>1, <2>2, <2>3, <2>4, <2>6 DEF RouterBook
  <2> QED BY <1>1, <2>7, <2>8
<1>4. CASE Fails
  <2>1. chat' \in ChatSet /\ chat'.state \in {"failed", "asking"}
    <3>1. \E st \in {"failed", "asking"} : chat' = [chat EXCEPT !.state = st]
      BY ONLY <1>4 DEF Fails
    <3>2. PICK st \in {"failed", "asking"} : chat' = [chat EXCEPT !.state = st]
      BY ONLY <3>1
    <3> QED BY ONLY <1>1, <3>2 DEF ChatSet
  <2>2. UNCHANGED <<llm, left, tried, request, sent>>
    BY <1>4 DEF Fails
  <2>3. RouterBook' /\ SentBook'
    BY <1>1, <2>1, <2>2 DEF RouterBook, SentBook
  <2> QED BY <1>1, <2>3
<1>5. ASSUME NEW reply \in Replies, Answers(reply) PROVE RouterBook' /\ SentBook'
  <2>1. Len(reply.calls) \in Nat
    BY RouterAssumption DEF Reply
  <2>2. tried # <<>> /\ tried[Len(tried)] \in Names
    BY <1>1, <1>5 DEF Answers, RouterBook
  <2>3. chat' = [state |-> "answered", by |-> tried[Len(tried)], calls |-> Len(reply.calls)]
    BY <1>5 DEF Answers
  <2>4. chat' \in ChatSet /\ chat'.state = "answered" /\ chat'.by = tried[Len(tried)]
    BY <2>1, <2>2, <2>3 DEF ChatSet
  <2> QED BY <1>1, <1>5, <2>2, <2>4 DEF Answers, RouterBook, SentBook
<1> QED BY <1>1, <1>2, <1>3, <1>4, <1>5 DEF Provider

LEMMA BookedRight == RouterBook => AnswerIsBooked
<1> SUFFICES ASSUME RouterBook PROVE AnswerIsBooked
  OBVIOUS
<1> DEFINE order == ProviderOrder(llm)
<1>1. /\ order \in Seq(Names) /\ Len(order) > 0 /\ order[1] = Default(llm)
      /\ \A k, l \in 1..Len(order): order[k] = order[l] => k = l
  BY OrderIsSound DEF RouterBook
<1>2. tried \in Seq(Names) /\ left \in Seq(Names)
  BY DEF RouterBook
<1> HIDE DEF order
<1>3. CASE tried = <<>>
  BY <1>3 DEF AnswerIsBooked, RouterBook
<1>4. CASE tried # <<>>
  <2>1. tried \o left = order
    BY <1>4 DEF RouterBook, order
  <2>2. Len(tried) \in Nat /\ Len(tried) > 0 /\ Len(order) = Len(tried) + Len(left) /\ Len(left) \in Nat
        /\ \A i \in 1..Len(tried): tried[i] = order[i]
    BY <1>2, <1>4, <2>1, ConcatProperties
  <2>3. \A i, j \in DOMAIN tried: tried[i] = tried[j] => i = j
    <3> SUFFICES ASSUME NEW i \in 1..Len(tried), NEW j \in 1..Len(tried), tried[i] = tried[j] PROVE i = j
      BY <1>2
    <3>1. i \in 1..Len(order) /\ j \in 1..Len(order) /\ order[i] = order[j]
      BY <2>2
    <3> QED BY <1>1, <3>1
  <2>4. tried[1] = Default(llm) /\ 1 \in DOMAIN tried /\ Len(tried) \in DOMAIN tried
    BY <1>1, <1>2, <2>2
  <2>5. tried[Len(tried)] # Default(llm) <=> Len(tried) > 1
    BY <2>2, <2>3, <2>4
  <2> QED BY <2>3, <2>5 DEF AnswerIsBooked, FallbackUsed, RouterBook
<1> QED BY <1>3, <1>4

Pcs == {"idle", "call_llm", "chat", "parse_tool_call", "execute_tool", "compact", "continue_or_stop"}
Kinds == {"user", "assistant", "tool", "observation"}
Outputs == [calls: Nat, from: {"none", "llm", "mock", "route"}]

TalkTypes ==
    /\ messages \in Seq(Message)
    /\ spoken \in Nat /\ question \in Nat /\ pending \in Nat /\ rounds \in Nat /\ turns \in Nat
    /\ awaiting \in BOOLEAN /\ requested \in BOOLEAN /\ batch \in BOOLEAN
    /\ output \in Outputs /\ pc \in Pcs

\* What the messages begin with has not been cut off, as long as the turn goes on.
GoesOn == \/ pc \in {"call_llm", "chat", "parse_tool_call", "execute_tool", "compact"}
          \/ pc = "continue_or_stop" /\ (awaiting \/ pending > 0)

\* The question is there, and what the rounds so far can have brought since.
TurnBook ==
    /\ Len(messages) <= spoken
    /\ pc # "idle" => question \in 1..spoken /\ rounds \in 1..MaxRounds
    /\ GoesOn => question > spoken - Len(messages)
    /\ pc \in {"call_llm", "chat", "parse_tool_call"} => spoken - question <= 3 * (rounds - 1)
    /\ pc = "execute_tool" => spoken - question <= 3 * (rounds - 1) + 1
    /\ pc \in {"compact", "continue_or_stop"} => spoken - question <= 3 * rounds

AsTold == <<SystemPrompt>> \o [i \in DOMAIN Window(messages) |-> ToLlm(Window(messages)[i])]

ConvInv ==
    /\ TalkTypes /\ TellsItStraight /\ TurnBook /\ RouterBook /\ SentBook
    /\ pc = "chat" => request = AsTold

LEMMA ConvInvInit == ConvInit => ConvInv
<1> SUFFICES ASSUME ConvInit PROVE ConvInv
  OBVIOUS
<1>1. RouterBook /\ SentBook
  BY RouterBookInit DEF ConvInit
<1>2. TalkTypes /\ TellsItStraight /\ TurnBook /\ pc = "idle"
  <2>1. TalkTypes /\ pc = "idle"
    <3>1. NoOutput \in Outputs /\ <<>> \in Seq(Message)
      BY DEF NoOutput, Outputs
    <3> QED BY <3>1 DEF ConvInit, TalkTypes, Pcs
  <2>2. TellsItStraight
    BY DEF ConvInit, TellsItStraight
  <2>3. TurnBook
    BY DEF ConvInit, TurnBook, GoesOn
  <2> QED BY <2>1, <2>2, <2>3
<1> QED BY <1>1, <1>2 DEF ConvInv

\* What a node says comes behind what was said.
LEMMA SayKeeps ==
    ASSUME messages \in Seq(Message), spoken \in Nat, TellsItStraight, Len(messages) <= spoken,
           NEW kinds \in Seq(Kinds), Say(kinds)
    PROVE  /\ messages' \in Seq(Message) /\ Len(messages') = Len(messages) + Len(kinds)
           /\ spoken' = spoken + Len(kinds) /\ spoken' \in Nat
           /\ TellsItStraight' /\ Len(messages') <= spoken'
<1> DEFINE new == [i \in 1..Len(kinds) |-> [kind |-> kinds[i], number |-> spoken + i]]
<1>1. Len(kinds) \in Nat /\ \A i \in 1..Len(kinds): kinds[i] \in Kinds
  OBVIOUS
<1>2. \A i \in 1..Len(kinds): [kind |-> kinds[i], number |-> spoken + i] \in Message
  BY <1>1 DEF Message, Kinds
<1>3. new \in Seq(Message) /\ Len(new) = Len(kinds) /\ \A i \in 1..Len(kinds): new[i].number = spoken + i
  BY <1>1, <1>2
<1>4. messages' = messages \o new /\ spoken' = spoken + Len(kinds)
  BY DEF Say
<1> HIDE DEF new
<1>5. /\ messages' \in Seq(Message) /\ Len(messages') = Len(messages) + Len(new)
      /\ \A i \in 1..(Len(messages) + Len(new)):
            messages'[i] = IF i <= Len(messages) THEN messages[i] ELSE new[i - Len(messages)]
  <2>1. messages \in Seq(Message) /\ new \in Seq(Message) /\ messages' = messages \o new
    BY <1>3, <1>4
  <2> QED BY ONLY <2>1, ConcatProperties
<1>6. TellsItStraight'
  <2> SUFFICES ASSUME NEW i \in 1..Len(messages')
               PROVE  messages'[i].number = spoken' - Len(messages') + i
    BY <1>5 DEF TellsItStraight
  <2>1. CASE i <= Len(messages)
    <3>1. messages'[i] = messages[i] /\ i \in DOMAIN messages
      BY <1>5, <2>1
    <3>2. messages[i].number = spoken - Len(messages) + i
      BY <3>1 DEF TellsItStraight
    <3> QED BY <1>1, <1>3, <1>4, <1>5, <3>1, <3>2
  <2>2. CASE i > Len(messages)
    <3>1. i - Len(messages) \in 1..Len(kinds) /\ messages'[i] = new[i - Len(messages)]
      BY <1>1, <1>3, <1>5, <2>2
    <3>2. messages'[i].number = spoken + (i - Len(messages))
      BY <1>3, <3>1
    <3> QED BY <1>1, <1>3, <1>4, <1>5, <3>2
  <2> QED BY <2>1, <2>2
<1> QED BY <1>1, <1>3, <1>4, <1>5, <1>6

LEMMA LastOfIs ==
    ASSUME NEW S, NEW s \in Seq(S), NEW n \in Nat
    PROVE  /\ LastOf(s, n) \in Seq(S) /\ Len(LastOf(s, n)) = IF Len(s) > n THEN n ELSE Len(s)
           /\ \A i \in 1..Len(LastOf(s, n)): LastOf(s, n)[i] = s[Len(s) - Len(LastOf(s, n)) + i]
<1> DEFINE m == IF Len(s) > n THEN Len(s) - n + 1 ELSE 1
<1>1. Len(s) \in Nat /\ m \in 1..(Len(s) + 1)
  OBVIOUS
<1>2. LastOf(s, n) = SubSeq(s, m, Len(s))
  BY DEF LastOf
<1>3. Len(s) - m + 1 = IF Len(s) > n THEN n ELSE Len(s)
  BY <1>1
<1> HIDE DEF m
<1>4. /\ SubSeq(s, m, Len(s)) \in Seq(S) /\ Len(SubSeq(s, m, Len(s))) = Len(s) - m + 1
      /\ \A i \in 1..(Len(s) - m + 1): SubSeq(s, m, Len(s))[i] = s[m + i - 1]
  BY <1>1
<1>5. ASSUME NEW i \in 1..Len(LastOf(s, n))
      PROVE  LastOf(s, n)[i] = s[Len(s) - Len(LastOf(s, n)) + i]
  <2>1. Len(s) - Len(LastOf(s, n)) + i = m + i - 1
    BY <1>1, <1>2, <1>4
  <2> QED BY <1>2, <1>4, <2>1
<1> QED BY <1>2, <1>3, <1>4, <1>5

\* The four kinds of speech of the nodes.
LEMMA SpeechIsKinds ==
    /\ <<"user">> \in Seq(Kinds) /\ <<"assistant">> \in Seq(Kinds) /\ <<"tool">> \in Seq(Kinds)
    /\ <<"tool", "observation">> \in Seq(Kinds) /\ <<"tool", "assistant">> \in Seq(Kinds)
    /\ <<"tool", "tool">> \in Seq(Kinds)
    /\ Len(<<"user">>) = 1 /\ Len(<<"assistant">>) = 1 /\ Len(<<"tool">>) = 1
    /\ Len(<<"tool", "observation">>) = 2 /\ Len(<<"tool", "assistant">>) = 2
    /\ Len(<<"tool", "tool">>) = 2
<1>1. "user" \in Kinds /\ "assistant" \in Kinds /\ "tool" \in Kinds /\ "observation" \in Kinds
  BY DEF Kinds
<1>2. \A k \in Kinds: <<k>> \in Seq(Kinds) /\ Len(<<k>>) = 1
  OBVIOUS
<1>3. \A k, l \in Kinds: <<k, l>> \in Seq(Kinds) /\ Len(<<k, l>>) = 2
  OBVIOUS
<1> HIDE DEF Kinds
<1> QED BY <1>1, <1>2, <1>3

LEMMA RouterStays ==
    ASSUME RouterBook, SentBook, UNCHANGED routerVars PROVE RouterBook' /\ SentBook'
<1>1. UNCHANGED <<llm, left, tried, chat, request, sent>>
  BY ONLY UNCHANGED routerVars DEF routerVars
<1>2. RouterBook'
  BY ONLY RouterBook, <1>1 DEF RouterBook
<1>3. SentBook'
  BY ONLY SentBook, <1>1 DEF SentBook
<1> QED BY <1>2, <1>3

LEMMA InputKeeps ==
    ASSUME ConvInv, NEW r \in {"none", "file", "always"}, UserInput(r) PROVE ConvInv'
<1>1. RouterBook' /\ SentBook'
  BY RouterStays DEF ConvInv, UserInput
<1>2. /\ messages' \in Seq(Message) /\ Len(messages') = Len(messages) + 1
      /\ spoken' = spoken + 1 /\ TellsItStraight' /\ Len(messages') <= spoken'
  BY SayKeeps, SpeechIsKinds DEF UserInput, ConvInv, TalkTypes, TurnBook
<1>3. TalkTypes' /\ pc' = "call_llm"
  <2>1. NoOutput \in Outputs
    BY DEF NoOutput, Outputs
  <2>2. spoken \in Nat /\ turns \in Nat
    BY DEF ConvInv, TalkTypes
  <2>a. /\ turns' = turns + 1 /\ rounds' = 1 /\ question' = spoken + 1 /\ pending' = 0
        /\ awaiting' = FALSE /\ requested' = FALSE /\ batch' = FALSE
    BY DEF UserInput
  <2>b. spoken' \in Nat /\ question' \in Nat /\ pending' \in Nat /\ rounds' \in Nat /\ turns' \in Nat
    BY <1>2, <2>2, <2>a
  <2>3. /\ spoken' \in Nat /\ question' \in Nat /\ pending' \in Nat /\ rounds' \in Nat /\ turns' \in Nat
        /\ awaiting' \in BOOLEAN /\ requested' \in BOOLEAN /\ batch' \in BOOLEAN
    BY <2>a, <2>b
  <2>4. output' \in Outputs /\ pc' = "call_llm"
    BY <2>1 DEF UserInput
  <2> QED BY <1>2, <2>3, <2>4 DEF TalkTypes, Pcs
<1>4. TurnBook'
  <2>1. question' = spoken + 1 /\ rounds' = 1 /\ spoken \in Nat /\ Len(messages) \in Nat
    BY DEF UserInput, ConvInv, TalkTypes
  <2> QED BY <1>2, <1>3, <2>1, ConversationBounds DEF TurnBook, GoesOn
<1> QED BY <1>1, <1>2, <1>3, <1>4 DEF ConvInv

LEMMA CallRoutedKeeps == ASSUME ConvInv, CallRouted PROVE ConvInv'
<1>1. RouterBook' /\ SentBook'
  BY RouterStays DEF ConvInv, CallRouted
<1>2. /\ UNCHANGED <<messages, spoken, question, rounds, turns, awaiting, requested>>
      /\ pc = "call_llm" /\ pc' = "parse_tool_call"
  BY DEF CallRouted, talkVars
<1>3. TellsItStraight' /\ TurnBook'
  BY <1>2 DEF ConvInv, TellsItStraight, TurnBook, GoesOn
<1>4. TalkTypes'
  <2>1. pending' \in Nat /\ batch' \in BOOLEAN
    BY DEF CallRouted, FromBatch, ConvInv, TalkTypes
  <2>2. output' \in Outputs
    BY DEF CallRouted, Outputs
  <2> QED BY <1>2, <2>1, <2>2 DEF ConvInv, TalkTypes, Pcs
<1> QED BY <1>1, <1>2, <1>3, <1>4 DEF ConvInv

LEMMA ChatKeeps == ASSUME ConvInv, CallRealLlm \/ ChatStep PROVE ConvInv'
<1>1. /\ UNCHANGED <<messages, spoken, question, rounds, turns, output, awaiting, requested, pending, batch>>
      /\ pc \in {"call_llm", "chat"} /\ pc' = "chat"
  BY DEF CallRealLlm, ChatStep, talkVars, flagVars
<1>2. TellsItStraight' /\ TurnBook'
  BY <1>1 DEF ConvInv, TellsItStraight, TurnBook, GoesOn
<1>3. TalkTypes'
  BY <1>1 DEF ConvInv, TalkTypes, Pcs
<1>4. AsTold' = AsTold
  BY <1>1 DEF AsTold, Window
<1>5. RouterBook' /\ SentBook' /\ request' = AsTold
  <2>1. CASE CallRealLlm
    <3>1. Opens(AsTold)
      BY <2>1 DEF CallRealLlm, AsTold
    <3> QED BY <3>1, OpensKeeps DEF ConvInv
  <2>2. CASE ChatStep
    BY <2>2, ProviderKeeps DEF ChatStep, ConvInv
  <2> QED BY <2>1, <2>2
<1> QED BY <1>1, <1>2, <1>3, <1>4, <1>5 DEF ConvInv

LEMMA LlmReturnsKeeps == ASSUME ConvInv, LlmReturns PROVE ConvInv'
<1>1. RouterBook' /\ SentBook'
  BY RouterStays DEF ConvInv, LlmReturns
<1>2. /\ UNCHANGED <<messages, spoken, question, rounds, turns, awaiting, requested, pending, batch>>
      /\ pc = "chat" /\ pc' = "parse_tool_call"
  BY DEF LlmReturns, talkVars, flagVars
<1>3. TellsItStraight' /\ TurnBook'
  BY <1>2 DEF ConvInv, TellsItStraight, TurnBook, GoesOn
<1>4. output' \in Outputs
  <2>1. chat.calls \in Nat
    BY DEF ConvInv, RouterBook, ChatSet
  <2> QED BY <2>1 DEF LlmReturns, Outputs, NoOutput
<1>5. TalkTypes'
  BY <1>2, <1>4 DEF ConvInv, TalkTypes, Pcs
<1> QED BY <1>1, <1>2, <1>3, <1>5 DEF ConvInv

\* A round brings at most an answer, and then a result and what is made of it.
LEMMA RoundBrings ==
    ASSUME NEW s \in Int, NEW q \in Int, NEW r \in Int, NEW t \in Int
    PROVE  /\ s - q <= 3 * (r - 1) /\ t <= s + 1 => t - q <= 3 * (r - 1) + 1
           /\ s - q <= 3 * (r - 1) /\ t <= s + 1 => t - q <= 3 * r
           /\ s - q <= 3 * (r - 1) + 1 /\ t <= s + 2 => t - q <= 3 * r
<1> DEFINE a == 3 * (r - 1)
<1>1. a \in Int /\ 3 * r = a + 3
  OBVIOUS
<1> HIDE DEF a
<1>2. s - q <= a /\ t <= s + 1 => t - q <= a + 1
  BY <1>1
<1>3. s - q <= a /\ t <= s + 1 => t - q <= a + 3
  BY <1>1
<1>4. s - q <= a + 1 /\ t <= s + 2 => t - q <= a + 3
  BY <1>1
<1> QED BY <1>1, <1>2, <1>3, <1>4 DEF a

LEMMA ParseKeeps == ASSUME ConvInv, ParseToolCall PROVE ConvInv'
<1>1. RouterBook' /\ SentBook'
  BY RouterStays DEF ConvInv, ParseToolCall
<1>2. /\ UNCHANGED <<question, rounds, turns, output, requested, pending, batch>>
      /\ pc = "parse_tool_call" /\ pc' \in {"execute_tool", "compact"} /\ awaiting' \in BOOLEAN
  BY DEF ParseToolCall
<1>3. /\ messages' \in Seq(Message) /\ spoken' \in Nat /\ TellsItStraight' /\ Len(messages') <= spoken'
      /\ spoken' - Len(messages') = spoken - Len(messages)
      /\ spoken' \in {spoken, spoken + 1}
  <2>1. CASE Kept
    <3>1. Say(<<"assistant">>)
      BY <2>1 DEF ParseToolCall
    <3>2. /\ messages' \in Seq(Message) /\ Len(messages') = Len(messages) + 1
          /\ spoken' = spoken + 1 /\ TellsItStraight' /\ Len(messages') <= spoken' /\ spoken' \in Nat
      BY <3>1, SayKeeps, SpeechIsKinds DEF ConvInv, TalkTypes, TurnBook
    <3>3. Len(messages) \in Nat /\ spoken \in Nat
      BY DEF ConvInv, TalkTypes
    <3> QED BY <3>2, <3>3
  <2>2. CASE ~Kept
    BY <2>2 DEF ParseToolCall, Quiet, ConvInv, TalkTypes, TurnBook, TellsItStraight
  <2> QED BY <2>1, <2>2
<1>4. TalkTypes'
  BY <1>2, <1>3 DEF ConvInv, TalkTypes, Pcs
<1>5. TurnBook'
  <2>1. /\ question \in 1..spoken /\ rounds \in 1..MaxRounds /\ spoken - question <= 3 * (rounds - 1)
        /\ question > spoken - Len(messages)
    BY <1>2 DEF ConvInv, TurnBook, GoesOn
  <2>2. spoken \in Nat /\ question \in Nat /\ rounds \in Nat /\ Len(messages) \in Nat /\ MaxRounds \in Nat
    BY ConversationBounds DEF ConvInv, TalkTypes
  <2>3. question' \in 1..spoken' /\ rounds' \in 1..MaxRounds
    BY <1>2, <1>3, <2>1, <2>2
  <2>4. question' > spoken' - Len(messages')
    BY <1>2, <1>3, <2>1, <2>2
  <2>5. spoken' - question' <= 3 * (rounds' - 1) + 1 /\ spoken' - question' <= 3 * rounds'
    <3>1. rounds' = rounds /\ question' = question
      BY <1>2
    <3>2. spoken' <= spoken + 1 /\ spoken' \in Nat
      BY <1>3, <2>2
    <3>3. spoken - question <= 3 * (rounds - 1)
      BY <2>1
    <3>4. spoken \in Int /\ question \in Int /\ rounds \in Int /\ spoken' \in Int
      BY <2>2, <3>2
    <3>5. spoken' - question <= 3 * (rounds - 1) + 1 /\ spoken' - question <= 3 * rounds
      BY <3>2, <3>3, <3>4, RoundBrings
    <3> QED BY <3>1, <3>5
  <2> QED BY <1>2, <1>3, <2>3, <2>4, <2>5 DEF TurnBook
<1> QED BY <1>1, <1>2, <1>3, <1>4, <1>5 DEF ConvInv

LEMMA ObservationKeeps == ASSUME ConvInv, AppendObservation PROVE ConvInv'
<1>1. RouterBook' /\ SentBook'
  BY RouterStays DEF ConvInv, AppendObservation
<1>2. /\ UNCHANGED <<question, rounds, turns, requested>> /\ output' = NoOutput
      /\ pc = "execute_tool" /\ pc' = "compact" /\ awaiting' \in BOOLEAN /\ batch' \in BOOLEAN
      /\ pending' \in Nat
  BY ConversationBounds DEF AppendObservation, ToolSucceeds, GlobSucceeds, FinishesDirectly, ToolFails, ConvInv, TalkTypes
<1>3. PICK kinds \in Seq(Kinds): Say(kinds) /\ Len(kinds) \in {1, 2}
  BY SpeechIsKinds DEF AppendObservation, ToolSucceeds, GlobSucceeds, FinishesDirectly, ToolFails
<1>4. /\ messages' \in Seq(Message) /\ spoken' \in Nat /\ TellsItStraight' /\ Len(messages') <= spoken'
      /\ spoken' = spoken + Len(kinds) /\ Len(messages') = Len(messages) + Len(kinds)
  BY <1>3, SayKeeps DEF ConvInv, TalkTypes, TurnBook
<1>5. TalkTypes'
  BY <1>2, <1>4 DEF ConvInv, TalkTypes, Pcs, NoOutput, Outputs
<1>6. TurnBook'
  <2>1. /\ question \in 1..spoken /\ rounds \in 1..MaxRounds /\ spoken - question <= 3 * (rounds - 1) + 1
        /\ question > spoken - Len(messages)
    BY <1>2 DEF ConvInv, TurnBook, GoesOn
  <2>2. spoken \in Nat /\ question \in Nat /\ rounds \in Nat /\ Len(messages) \in Nat /\ MaxRounds \in Nat
    BY ConversationBounds DEF ConvInv, TalkTypes
  <2>3. question' \in 1..spoken' /\ rounds' \in 1..MaxRounds
    BY <1>2, <1>3, <1>4, <2>1, <2>2
  <2>4. question' > spoken' - Len(messages')
    BY <1>2, <1>3, <1>4, <2>1, <2>2
  <2>5. spoken' - question' <= 3 * rounds'
    <3>1. rounds' = rounds /\ question' = question
      BY <1>2
    <3>2. spoken' <= spoken + 2 /\ spoken' \in Nat
      <4>1. CASE Len(kinds) = 1
        BY <1>4, <2>2, <4>1
      <4>2. CASE Len(kinds) = 2
        BY <1>4, <2>2, <4>2
      <4> QED BY <1>3, <4>1, <4>2
    <3>3. spoken - question <= 3 * (rounds - 1) + 1
      BY <2>1
    <3>4. spoken \in Int /\ question \in Int /\ rounds \in Int /\ spoken' \in Int
      BY <2>2, <3>2
    <3>5. spoken' - question <= 3 * rounds
      BY <3>2, <3>3, <3>4, RoundBrings
    <3> QED BY <3>1, <3>5
  <2> QED BY <1>2, <1>4, <2>3, <2>4, <2>5 DEF TurnBook
<1> QED BY <1>1, <1>2, <1>4, <1>5, <1>6 DEF ConvInv

LEMMA CompactKeeps == ASSUME ConvInv, CompactIfNeeded PROVE ConvInv'
<1>1. RouterBook' /\ SentBook'
  BY RouterStays DEF ConvInv, CompactIfNeeded
<1>2. /\ UNCHANGED <<spoken, question, rounds, turns, output, awaiting, requested, pending, batch>>
      /\ pc = "compact" /\ pc' = "continue_or_stop"
      /\ messages' = IF batch \/ pending > 0 \/ awaiting THEN messages ELSE Compacted(messages)
  BY DEF CompactIfNeeded, flagVars
<1>3. messages \in Seq(Message) /\ Len(messages) \in Nat /\ spoken \in Nat /\ Len(messages) <= spoken
  BY DEF ConvInv, TalkTypes, TurnBook
<1>4. CASE messages' = messages
  <2>1. TellsItStraight' /\ TurnBook'
    BY <1>2, <1>4 DEF ConvInv, TellsItStraight, TurnBook, GoesOn
  <2>2. TalkTypes'
    BY <1>2, <1>4 DEF ConvInv, TalkTypes, Pcs
  <2> QED BY <1>1, <1>2, <2>1, <2>2 DEF ConvInv
<1>5. CASE messages' # messages
  <2>1. PICK n \in Nat: messages' = LastOf(messages, n)
    BY <1>2, <1>5, ContextAssumption DEF Compacted
  <2>2. /\ messages' \in Seq(Message) /\ Len(messages') <= Len(messages) /\ Len(messages') \in Nat
        /\ \A i \in 1..Len(messages'): messages'[i] = messages[Len(messages) - Len(messages') + i]
    BY <1>3, <2>1, LastOfIs
  <2>3. TellsItStraight'
    <3> SUFFICES ASSUME NEW i \in 1..Len(messages')
                 PROVE  messages'[i].number = spoken - Len(messages') + i
      BY <1>2, <2>2 DEF TellsItStraight
    <3>1. Len(messages) - Len(messages') + i \in DOMAIN messages
      BY <1>3, <2>2
    <3>2. messages'[i].number = spoken - Len(messages) + (Len(messages) - Len(messages') + i)
      BY <2>2, <3>1 DEF ConvInv, TellsItStraight
    <3> QED BY <1>3, <2>2, <3>2
  <2>4. ~awaiting /\ ~(pending > 0)
    BY <1>2, <1>5
  <2>5. TurnBook'
    BY <1>2, <1>3, <2>2, <2>4 DEF ConvInv, TurnBook, GoesOn
  <2>6. TalkTypes'
    BY <1>2, <2>2 DEF ConvInv, TalkTypes, Pcs
  <2> QED BY <1>1, <1>2, <2>3, <2>5, <2>6 DEF ConvInv
<1> QED BY <1>4, <1>5

LEMMA ContinueKeeps == ASSUME ConvInv, ContinueOrStop \/ Cancel PROVE ConvInv'
<1>1. RouterBook' /\ SentBook'
  BY RouterStays DEF ConvInv, ContinueOrStop, Cancel
<1>2. UNCHANGED <<messages, spoken, question, turns, output, awaiting, pending, batch>>
  BY DEF ContinueOrStop, Cancel, talkVars, flagVars
<1>3. \/ pc' = "idle" /\ rounds' = rounds
      \/ /\ pc = "continue_or_stop" /\ pc' = "call_llm" /\ rounds < MaxRounds /\ rounds' = rounds + 1
         /\ awaiting \/ pending > 0
  BY DEF ContinueOrStop, Cancel, Loop
<1>4. requested' \in BOOLEAN
  BY DEF ContinueOrStop, Cancel, flagVars, ConvInv, TalkTypes
<1>5. spoken \in Nat /\ question \in Nat /\ rounds \in Nat /\ Len(messages) \in Nat /\ MaxRounds \in Nat
  BY ConversationBounds DEF ConvInv, TalkTypes
<1>6. TalkTypes'
  BY <1>2, <1>3, <1>4, <1>5 DEF ConvInv, TalkTypes, Pcs
<1>7. TellsItStraight'
  BY <1>2 DEF ConvInv, TellsItStraight
<1>8. TurnBook'
  <2>1. CASE pc' = "idle"
    BY <1>2, <2>1 DEF ConvInv, TurnBook, GoesOn
  <2>2. CASE pc' # "idle"
    <3>1. /\ question \in 1..spoken /\ rounds \in 1..MaxRounds /\ spoken - question <= 3 * rounds
          /\ question > spoken - Len(messages)
      BY <1>3, <2>2 DEF ConvInv, TurnBook, GoesOn
    <3> QED BY <1>2, <1>3, <1>5, <2>2, <3>1 DEF ConvInv, TurnBook, GoesOn
  <2> QED BY <2>1, <2>2
<1> QED BY <1>1, <1>3, <1>6, <1>7, <1>8 DEF ConvInv

LEMMA ConvInvNext == ASSUME ConvInv, [ConvNext]_convVars PROVE ConvInv'
<1>1. CASE UNCHANGED convVars
  <2>1. RouterBook' /\ SentBook' /\ request' = request /\ AsTold' = AsTold
    BY <1>1, RouterStays DEF ConvInv, convVars, routerVars, talkVars, AsTold, Window
  <2>2. TalkTypes' /\ TellsItStraight' /\ TurnBook' /\ pc' = pc
    BY <1>1 DEF ConvInv, convVars, talkVars, flagVars, TalkTypes, TellsItStraight, TurnBook, GoesOn
  <2> QED BY <2>1, <2>2 DEF ConvInv
<1> QED BY <1>1, InputKeeps, CallRoutedKeeps, ChatKeeps, LlmReturnsKeeps, ParseKeeps, ObservationKeeps,
           CompactKeeps, ContinueKeeps DEF ConvNext, Node

\* What is put to a provider, of a list of messages, is all of them in their order, but
\* for the system messages of the list, which may come before.
LEMMA RequestIs ==
    ASSUME messages \in Seq(Message)
    PROVE  /\ AsTold \in Seq([role: {"system", "assistant", "user"}, number: Nat])
           /\ AsTold[1] = SystemPrompt
           /\ Len(AsTold) = Len(Window(messages)) + 1
           /\ \A i \in 1..Len(Window(messages)):
                 AsTold[i + 1].number = Window(messages)[i].number /\ AsTold[i + 1].role # "system"
           /\ Len(Window(messages)) = IF MaxContext > 0 /\ Len(messages) > MaxContext
                                      THEN MaxContext ELSE Len(messages)
           /\ \A i \in 1..Len(Window(messages)):
                 Window(messages)[i] = messages[Len(messages) - Len(Window(messages)) + i]
<1> DEFINE R == [role: {"system", "assistant", "user"}, number: Nat]
           w == Window(messages)
           heard == [i \in DOMAIN w |-> ToLlm(w[i])]
<1>1. /\ w \in Seq(Message)
      /\ Len(w) = IF MaxContext > 0 /\ Len(messages) > MaxContext THEN MaxContext ELSE Len(messages)
      /\ \A i \in 1..Len(w): w[i] = messages[Len(messages) - Len(w) + i]
  <2>1. CASE MaxContext > 0
    BY <2>1, LastOfIs, ContextAssumption DEF Window
  <2>2. CASE ~(MaxContext > 0)
    BY <2>2 DEF Window
  <2> QED BY <2>1, <2>2
<1> HIDE DEF w
<1>2. ASSUME NEW i \in 1..Len(w)
      PROVE  ToLlm(w[i]) \in R /\ ToLlm(w[i]).number = w[i].number /\ ToLlm(w[i]).role # "system"
  <2>1. w[i] \in Message
    BY <1>1
  <2>2. w[i].number \in Nat
    BY <2>1 DEF Message
  <2> QED BY <2>2 DEF ToLlm
<1>3. /\ heard \in Seq(R) /\ Len(heard) = Len(w)
      /\ \A i \in 1..Len(w): heard[i] = ToLlm(w[i])
  <2>1. Len(w) \in Nat /\ DOMAIN w = 1..Len(w)
    BY <1>1
  <2> HIDE DEF R
  <2>2. heard = [i \in 1..Len(w) |-> ToLlm(w[i])]
    BY <2>1
  <2>3. heard \in [1..Len(w) -> R]
    BY <1>2, <2>2
  <2>4. \A i \in 1..Len(w): heard[i] = ToLlm(w[i])
    BY <2>2
  <2> HIDE DEF heard
  <2>5. heard \in Seq(R) /\ Len(heard) = Len(w)
    BY <2>1, <2>3
  <2> QED BY <2>4, <2>5
<1> HIDE DEF heard
<1>4. <<SystemPrompt>> \in Seq(R) /\ Len(<<SystemPrompt>>) = 1 /\ <<SystemPrompt>>[1] = SystemPrompt
  BY DEF SystemPrompt
<1>5. AsTold = <<SystemPrompt>> \o heard
  BY DEF AsTold, heard, w
<1>6. Len(w) \in Nat
  BY <1>1
<1> HIDE DEF R
<1>7. /\ AsTold \in Seq(R) /\ Len(AsTold) = Len(w) + 1 /\ AsTold[1] = SystemPrompt
      /\ \A i \in 1..Len(w): AsTold[i + 1] = heard[i]
  <2>1. /\ AsTold \in Seq(R) /\ Len(AsTold) = 1 + Len(w)
        /\ \A i \in 1..(1 + Len(w)): AsTold[i] = IF i <= 1 THEN <<SystemPrompt>>[i] ELSE heard[i - 1]
    BY <1>3, <1>4, <1>5, ConcatProperties
  <2> QED BY <1>4, <1>6, <2>1
<1>8. \A i \in 1..Len(w): AsTold[i + 1].number = w[i].number /\ AsTold[i + 1].role # "system"
  BY <1>2, <1>3, <1>7
<1>9. AsTold \in Seq(R) /\ AsTold[1] = SystemPrompt /\ Len(AsTold) = Len(w) + 1
  BY <1>7
<1> QED BY <1>1, <1>8, <1>9 DEF w, R

LlmMessage == [role: {"system", "assistant", "user"}, number: Nat]

LEMMA OpenAIHasAll ==
    ASSUME NEW msgs \in Seq(LlmMessage)
    PROVE  LET p == Payload("openai", msgs) IN p.system \o p.messages = msgs
<1> DEFINE n == Len(msgs)
           as == [i \in DOMAIN msgs |-> [msgs[i] EXCEPT !.role = OpenAIRole(msgs[i].role)]]
<1>1. n \in Nat /\ DOMAIN msgs = 1..n /\ \A i \in 1..n: msgs[i] \in LlmMessage
  OBVIOUS
<1>2. \A m \in LlmMessage: [m EXCEPT !.role = OpenAIRole(m.role)] = m
  BY DEF LlmMessage, OpenAIRole
<1>3. msgs = [i \in 1..n |-> msgs[i]]
  OBVIOUS
<1>4. as = msgs
  BY <1>1, <1>2, <1>3
<1>5. Payload("openai", msgs) = [system |-> <<>>, messages |-> as]
  BY DEF Payload
<1> HIDE DEF as
<1>6. <<>> \o msgs = msgs
  BY ConcatEmptySeq
<1>7. Payload("openai", msgs).system = <<>> /\ Payload("openai", msgs).messages = msgs
  BY <1>4, <1>5
<1> QED BY <1>6, <1>7

LEMMA AnthropicHasAll ==
    ASSUME NEW msgs \in Seq(LlmMessage), Len(msgs) > 0, msgs[1] = SystemPrompt
    PROVE  LET p == Payload("anthropic", msgs)
               heard == p.system \o p.messages
           IN /\ heard[1] = SystemPrompt
              /\ \A i \in 1..Len(msgs): \E k \in DOMAIN heard: heard[k].number = msgs[i].number
<1> DEFINE p == Payload("anthropic", msgs)
           heard == p.system \o p.messages
           sys == {i \in DOMAIN msgs: msgs[i].role \in {"system"}}
           say == {i \in DOMAIN msgs: msgs[i].role \in {"user", "assistant", "tool", "error"}}
           first == At(msgs, sys)
           talk == At(msgs, say)
           answer == [i \in DOMAIN talk |-> [talk[i] EXCEPT !.role = AnthropicRole(talk[i].role)]]
<1>1. p.system = first /\ p.messages = answer
  BY DEF Payload, Of
<1>2. /\ sys \in SUBSET (1..Len(msgs)) /\ say \in SUBSET (1..Len(msgs)) /\ 1 \in sys
      /\ \A i \in 1..Len(msgs): i \in sys \/ i \in say
  <2>1. Len(msgs) \in Nat /\ DOMAIN msgs = 1..Len(msgs) /\ \A i \in 1..Len(msgs): msgs[i] \in LlmMessage
    OBVIOUS
  <2>2. 1 \in DOMAIN msgs /\ msgs[1].role = "system"
    BY <2>1 DEF SystemPrompt
  <2>3. \A i \in DOMAIN msgs: msgs[i].role \in {"system", "assistant", "user"}
    BY <2>1 DEF LlmMessage
  <2> QED BY <2>1, <2>2, <2>3
<1> HIDE DEF sys, say
<1>3. /\ first \in Seq(LlmMessage) /\ Len(first) \in Nat
      /\ \A i \in sys: \E k \in 1..Len(first): first[k] = msgs[i]
  BY <1>2, AtIs
<1>4. /\ talk \in Seq(LlmMessage) /\ Len(talk) \in Nat
      /\ \A i \in say: \E k \in 1..Len(talk): talk[k] = msgs[i]
  BY <1>2, AtIs
<1>5. first[1] = SystemPrompt
  BY <1>2, AtIs
<1> HIDE DEF first, talk
<1>6. \A m \in LlmMessage: /\ [m EXCEPT !.role = AnthropicRole(m.role)] \in LlmMessage
                           /\ [m EXCEPT !.role = AnthropicRole(m.role)].number = m.number
  BY DEF LlmMessage, AnthropicRole
<1>7. /\ answer \in Seq(LlmMessage) /\ Len(answer) = Len(talk)
      /\ \A k \in 1..Len(talk): answer[k].number = talk[k].number
  <2>1. DOMAIN talk = 1..Len(talk) /\ \A k \in 1..Len(talk): talk[k] \in LlmMessage
    BY <1>4
  <2>2. answer \in [1..Len(talk) -> LlmMessage] /\ \A k \in 1..Len(talk): answer[k].number = talk[k].number
    BY <1>6, <2>1
  <2> HIDE DEF answer
  <2> QED BY <1>4, <2>2
<1> HIDE DEF answer
<1>t. heard = first \o answer
  BY <1>1
<1> HIDE DEF heard, p
<1>8. /\ heard \in Seq(LlmMessage) /\ Len(heard) = Len(first) + Len(talk)
      /\ \A k \in 1..(Len(first) + Len(talk)):
            heard[k] = IF k <= Len(first) THEN first[k] ELSE answer[k - Len(first)]
  BY <1>3, <1>7, <1>t, ConcatProperties
<1>9. DOMAIN heard = 1..(Len(first) + Len(talk))
  BY <1>8
<1>10. \A k \in 1..Len(first): k \in DOMAIN heard /\ heard[k] = first[k]
  BY <1>3, <1>4, <1>8, <1>9
<1>11. ASSUME NEW k \in 1..Len(talk)
       PROVE  Len(first) + k \in DOMAIN heard /\ heard[Len(first) + k].number = talk[k].number
  <2>1. /\ Len(first) + k \in 1..(Len(first) + Len(talk)) /\ ~(Len(first) + k <= Len(first))
        /\ (Len(first) + k) - Len(first) = k
    BY <1>3, <1>4
  <2>2. heard[Len(first) + k] = answer[k]
    BY <1>8, <2>1
  <2> QED BY <1>7, <1>9, <2>1, <2>2
<1>12. heard[1] = SystemPrompt
  <2>1. \E k \in 1..Len(first): first[k] = msgs[1]
    BY <1>2, <1>3
  <2>2. 1 \in 1..Len(first)
    BY <1>3, <2>1
  <2> QED BY <1>5, <1>10, <2>2
<1>13. ASSUME NEW i \in 1..Len(msgs) PROVE \E k \in DOMAIN heard: heard[k].number = msgs[i].number
  <2>1. CASE i \in sys
    BY <1>3, <1>10, <2>1
  <2>2. CASE i \in say
    BY <1>4, <1>11, <2>2
  <2> QED BY <1>2, <2>1, <2>2
<1> QED BY <1>12, <1>13 DEF heard, p

LEMMA PayloadHasAll ==
    ASSUME NEW msgs \in Seq(LlmMessage), Len(msgs) > 0, msgs[1] = SystemPrompt,
           NEW format \in {"openai", "anthropic"}
    PROVE  LET p == Payload(format, msgs)
               heard == p.system \o p.messages
           IN /\ heard[1] = SystemPrompt
              /\ \A i \in 1..Len(msgs): \E k \in DOMAIN heard: heard[k].number = msgs[i].number
<1>1. CASE format = "openai"
  <2>1. DOMAIN msgs = 1..Len(msgs)
    OBVIOUS
  <2> QED BY <1>1, <2>1, OpenAIHasAll
<1>2. CASE format = "anthropic"
  BY <1>2, AnthropicHasAll
<1> QED BY <1>1, <1>2

LEMMA QuestionHeld == ConvInv => QuestionIsPut
<1> SUFFICES ASSUME ConvInv, chat.state = "waiting", pc = "chat"
             PROVE  LET heard == sent.system \o sent.messages
                    IN /\ heard[1] = SystemPrompt
                       /\ ContextIsEnough =>
                             \A n \in question..spoken: \E i \in DOMAIN heard: heard[i].number = n
  BY DEF QuestionIsPut
<1> DEFINE heard == sent.system \o sent.messages
           w == Window(messages)
<1>1. PICK format \in {"openai", "anthropic"}: sent = Payload(format, AsTold)
  BY DEF ConvInv, SentBook
<1>2. messages \in Seq(Message) /\ spoken \in Nat /\ question \in Nat /\ rounds \in Nat
      /\ MaxRounds \in Nat /\ MaxContext \in Nat /\ Len(messages) \in Nat
  BY ConversationBounds, ContextAssumption DEF ConvInv, TalkTypes
<1>3. /\ AsTold \in Seq(LlmMessage)
      /\ AsTold[1] = SystemPrompt /\ Len(AsTold) = Len(w) + 1
      /\ \A i \in 1..Len(w): AsTold[i + 1].number = w[i].number
      /\ Len(w) = IF MaxContext > 0 /\ Len(messages) > MaxContext THEN MaxContext ELSE Len(messages)
      /\ \A i \in 1..Len(w): w[i] = messages[Len(messages) - Len(w) + i]
  BY <1>2, RequestIs DEF LlmMessage
<1> HIDE DEF w
<1>4. Len(w) \in Nat
  BY <1>2, <1>3
<1>5. Len(AsTold) > 0
  BY <1>3, <1>4
<1>6. /\ heard[1] = SystemPrompt
      /\ \A i \in 1..Len(AsTold): \E k \in DOMAIN heard: heard[k].number = AsTold[i].number
  BY <1>1, <1>3, <1>5, PayloadHasAll
<1> HIDE DEF heard
<1>7. ASSUME ContextIsEnough, NEW n \in question..spoken PROVE \E k \in DOMAIN heard: heard[k].number = n
  <2>1. /\ question > spoken - Len(messages) /\ spoken - question <= 3 * (rounds - 1)
        /\ rounds \in 1..MaxRounds /\ Len(messages) <= spoken /\ question \in 1..spoken
    BY DEF ConvInv, TurnBook, GoesOn
  <2>2. spoken - question <= 3 * (MaxRounds - 1)
    BY <1>2, <2>1
  <2>3. question > spoken - Len(w)
    BY <1>2, <1>3, <1>4, <1>7, <2>1, <2>2 DEF ContextIsEnough
  <2> DEFINE i == n - (spoken - Len(w))
  <2>4. i \in 1..Len(w) /\ n \in Nat
    <3>1. n \in Int /\ question <= n /\ n <= spoken
      BY <1>2, <1>7
    <3> QED BY <1>2, <1>4, <2>3, <3>1
  <2>5. Len(messages) - Len(w) + i \in DOMAIN messages /\ spoken - Len(messages) + (Len(messages) - Len(w) + i) = n
    <3>1. DOMAIN messages = 1..Len(messages) /\ Len(w) <= Len(messages)
      BY <1>2, <1>3
    <3> QED BY <1>2, <1>4, <2>4, <3>1
  <2> HIDE DEF i
  <2>6. w[i].number = n
    BY <1>3, <2>4, <2>5 DEF ConvInv, TellsItStraight
  <2>7. i + 1 \in 1..Len(AsTold)
    BY <1>3, <1>4, <2>4
  <2>8. AsTold[i + 1].number = n
    BY <1>3, <2>4, <2>6
  <2> QED BY <1>6, <2>7, <2>8
<1> QED BY <1>6, <1>7 DEF heard

-----------------------------------------------------------------------------
ToolsInv == ShellInv /\ TaskInv /\ MailInv /\ PanelInv /\ ConvInv

LEMMA ToolsInvInit == Init => ToolsInv
  BY ShellInvInit, TaskInvInit, MailInvInit, PanelInvInit, ConvInvInit DEF Init, ToolsInv

LEMMA ToolsInvNext == ASSUME ToolsInv, [Next]_vars PROVE ToolsInv'
<1>1. /\ [ShellNext]_shellVars /\ [TaskNext]_taskVars /\ [MailNext]_mailVars
      /\ [PanelNext]_panelVars /\ [ConvNext]_convVars
  BY DEF Next, vars, AtShell, AtTasks, AtMail, AtPanel, Talking,
         AllButShell, AllButTasks, AllButMail, AllButPanel, AllButTalk
<1>2. ShellInv'
  BY <1>1, ShellInvNext DEF ToolsInv
<1>3. TaskInv'
  BY <1>1, TaskInvNext DEF ToolsInv
<1>4. MailInv'
  BY <1>1, MailInvNext DEF ToolsInv
<1>5. PanelInv'
  BY <1>1, PanelInvNext DEF ToolsInv
<1>6. ConvInv'
  BY <1>1, ConvInvNext DEF ToolsInv
<1> QED BY <1>2, <1>3, <1>4, <1>5, <1>6 DEF ToolsInv

\* The parts of the invariant, and nothing of what they are made of.
LEMMA ToolsInvHolds == Spec => []ToolsInv
<1> QED BY ToolsInvInit, ToolsInvNext, PTL DEF Spec

(***************************************************************************)
(* The values of the commands, the tools, the mailbox and the conversation *)
(* are what the code means them to be.                                     *)
(***************************************************************************)
THEOREM ToolsAreTyped == Spec => []TypeOK
<1>1. ShellInv => ShellTypeOK
  BY DEF ShellInv
<1>2. TaskInv => TaskTypeOK
  BY TaskAnswers
<1>3. MailInv => MailTypeOK
  BY MailIsTyped
<1>4. ConvInv => ConvTypeOK
  BY DEF ConvInv, TalkTypes, RouterBook, ConvTypeOK, Outputs
<1>5. ToolsInv => TypeOK
  BY <1>1, <1>2, <1>3, <1>4 DEF ToolsInv, TypeOK
<1> QED BY ToolsInvHolds, <1>5, PTL

(***************************************************************************)
(* What a tool answers is so and stays so.  A command with a result has    *)
(* nobody left who writes to its pipes; a task that is answered to be      *)
(* stopped has no execution in flight and a terminal record, whoever wrote *)
(* or cancelled it; and what looks busy by its execution's word can be     *)
(* stopped.                                                                *)
(***************************************************************************)
THEOREM AnswersHold == Spec => []AnswersAreTrue
<1>1. ToolsInv => AnswersAreTrue
  BY ShellAnswers, TaskAnswers DEF ToolsInv, AnswersAreTrue
<1> QED BY ToolsInvHolds, <1>1, PTL

(***************************************************************************)
(* However many agents poll, wait, time out, mark, archive and delete: of  *)
(* the polls for unread messages that mark what they return, at most one   *)
(* ever gets a given message; and the chat has one notice of a created     *)
(* task, in the order of creation, whoever else tells of it.               *)
(***************************************************************************)
THEOREM OnlyOnceHolds == Spec => []OnlyOnce
<1>1. ToolsInv => OnlyOnce
  BY MailIsNewOnce, NoticesHold DEF ToolsInv, OnlyOnce
<1> QED BY ToolsInvHolds, <1>1, PTL

(***************************************************************************)
(* A provider that is asked has the system prompt first and this turn's    *)
(* question with all that came of it, whatever was compacted, cancelled or *)
(* repeated, and whichever payload it takes; and an answer is booked on    *)
(* the provider that gave it, no provider being asked twice.               *)
(***************************************************************************)
THEOREM ModelsHold == Spec => []ModelsAreTold
<1>1. ConvInv => TellsItStraight
  BY DEF ConvInv
<1>2. ConvInv => AnswerIsBooked
  BY BookedRight DEF ConvInv
<1>3. ToolsInv => ModelsAreTold
  BY <1>1, <1>2, QuestionHeld DEF ToolsInv, ModelsAreTold
<1> QED BY ToolsInvHolds, <1>3, PTL
=============================================================================
