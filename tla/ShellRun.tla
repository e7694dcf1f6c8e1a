------------------------------ MODULE ShellRun ------------------------------
(***************************************************************************)
(* The subprocesses of the tools bash, powershell and grep: run_shell_     *)
(* command of pywork/utils/shell.py and GrepTool._run_rg of pywork/tools/  *)
(* grep.py, called by one agent turn after another through BaseTool.run    *)
(* (pywork/tools/tool.py).  A command is a process that may leave one more *)
(* process behind, in its group or outside, with its pipes or without.  A  *)
(* turn may be aborted at every await.                                     *)
(***************************************************************************)
CONSTANT Commands      \* tool calls that run a command, over all turns

VARIABLES
    running,     \* the call the turn is in: its command and where it awaits
    outcome,     \* how each call ended
    process,     \* the process of each command, by its tool
    child,       \* the process it left behind, if any
    noticed      \* commands whose returncode the event loop has set

shellVars == <<running, outcome, process, child, noticed>>

NoCommand == "none"

ASSUME ShellAssumption == NoCommand \notin Commands

NoCall == [cmd |-> NoCommand, at |-> "none", tool |-> "bash", killed |-> "none"]
NoChild == [alive |-> FALSE, group |-> FALSE, pipe |-> FALSE]

ShellInit ==
    /\ running = NoCall
    /\ outcome = [c \in Commands |-> "none"]
    /\ process = [c \in Commands |-> "none"]
    /\ child = [c \in Commands |-> NoChild]
    /\ noticed = {}

-----------------------------------------------------------------------------
Alive(c) == process[c] \in {"bash", "powershell", "rg"}

(***************************************************************************)
(* The processes.  rg starts none of its own.                              *)
(***************************************************************************)
Forks(c) ==
    /\ process[c] \in {"bash", "powershell"} /\ child[c] = NoChild
    /\ \E group, pipe \in BOOLEAN :
           child' = [child EXCEPT ![c] = [alive |-> TRUE, group |-> group, pipe |-> pipe]]
    /\ UNCHANGED <<running, outcome, process, noticed>>

Exits(c) ==
    /\ Alive(c)
    /\ process' = [process EXCEPT ![c] = "dead"]
    /\ UNCHANGED <<running, outcome, child, noticed>>

ChildExits(c) ==
    /\ child[c].alive
    /\ child' = [child EXCEPT ![c].alive = FALSE]
    /\ UNCHANGED <<running, outcome, process, noticed>>

\* The child watcher tells the loop that the process is gone.
Notices(c) ==
    /\ process[c] = "dead" /\ c \notin noticed
    /\ noticed' = noticed \union {c}
    /\ UNCHANGED <<running, outcome, process, child>>

-----------------------------------------------------------------------------
(***************************************************************************)
(* The call.                                                               *)
(***************************************************************************)
\* communicate ends at the end of both pipes, when the process is known to be gone.
AtEnd(c) == c \in noticed /\ ~(child[c].alive /\ child[c].pipe)

\* A bad argument, a directory outside the workspace, no such executable.
Refused(c) ==
    /\ running = NoCall /\ outcome[c] = "none"
    /\ outcome' = [outcome EXCEPT ![c] = "raised"]
    /\ UNCHANGED <<running, process, child, noticed>>

Calls(c, tool) ==
    /\ running = NoCall /\ outcome[c] = "none"
    /\ running' = [cmd |-> c, at |-> "start", tool |-> tool, killed |-> "none"]
    /\ UNCHANGED <<outcome, process, child, noticed>>

Bash(c) == Calls(c, "bash")
PowerShell(c) == Calls(c, "powershell")
Rg(c) == Calls(c, "rg")

Starts(c) ==
    /\ running.cmd = c /\ running.at = "start"
    /\ process' = [process EXCEPT ![c] = running.tool]
    /\ running' = [running EXCEPT !.at = "read"]
    /\ UNCHANGED <<outcome, child, noticed>>

Ends(c, how) ==
    /\ running' = NoCall
    /\ outcome' = [outcome EXCEPT ![c] = how]
    /\ UNCHANGED <<process, child, noticed>>

StartFails(c) ==
    /\ running.cmd = c /\ running.at = "start"
    /\ Ends(c, "raised")

ReturnsAtExit(c) ==                       \* mutant: does not wait for the pipes
    /\ running.cmd = c /\ running.at = "read" /\ c \in noticed
    /\ Ends(c, "result")
Returns(c) ==
    /\ running.cmd = c /\ running.at = "read" /\ AtEnd(c)
    /\ Ends(c, "result")

Kill(c, group) ==
    /\ process' = [process EXCEPT ![c] = "dead"]
    /\ child' = [child EXCEPT ![c].alive = @ /\ ~(group /\ child[c].group)]

TerminateNothing(c, reached) ==                              \* mutant
    reached = "none" /\ UNCHANGED <<process, child>>
\* terminate_process: nothing once returncode is set, whoever of the group is left.
\* Only the process is reached on Windows and where the group refuses the signal;
\* GrepTool never asks for more.
Terminate(c, reached) ==
    IF c \in noticed THEN reached = "none" /\ UNCHANGED <<process, child>>
    ELSE /\ reached = "process" \/ (reached = "group" /\ running.tool # "rg")
         /\ Kill(c, reached = "group")

\* The output read so far is lost with the first communicate.
TimesOut(c) ==
    /\ running.cmd = c /\ running.at = "read"
    /\ \E reached \in {"none", "process", "group"} :
           /\ Terminate(c, reached)
           /\ running' = [running EXCEPT !.at = "drain", !.killed = reached]
    /\ UNCHANGED <<outcome, noticed>>

\* The result is a timeout whatever was reached: the model keeps apart what it is worth.
TimedOut(reached) ==
    CASE reached = "none" -> "late" [] reached = "process" -> "half killed" [] reached = "group" -> "killed"

\* The second communicate has no timeout.
Drains(c) ==
    /\ running.cmd = c /\ running.at = "drain" /\ AtEnd(c)
    /\ Ends(c, IF running.tool = "rg" THEN "raised" ELSE TimedOut(running.killed))

\* Nobody catches a CancelledError: the process is left alone, unless it is just being made.
Abort(c) ==
    /\ running.cmd = c
    /\ Ends(c, "aborted")

ProgramStep(c) == Starts(c) \/ Returns(c) \/ TimesOut(c) \/ Drains(c) \/ Notices(c)
ShellStep(c) ==
    \/ ProgramStep(c) \/ Refused(c) \/ Bash(c) \/ PowerShell(c) \/ Rg(c) \/ StartFails(c) \/ Abort(c)
    \/ Forks(c) \/ Exits(c) \/ ChildExits(c)

ShellNext == \E c \in Commands : ShellStep(c)

\* The event loop and the timer go on, and what a command left behind ends some day;
\* a command itself may run for ever.
ShellFairness == \A c \in Commands :
    WF_shellVars(Starts(c) \/ Returns(c) \/ Drains(c)) /\ WF_shellVars(Notices(c))
    /\ WF_shellVars(TimesOut(c)) /\ WF_shellVars(ChildExits(c))

-----------------------------------------------------------------------------
ShellTypeOK ==
    /\ running \in [cmd: Commands \union {NoCommand}, at: {"none", "start", "read", "drain"},
                    tool: {"bash", "powershell", "rg"}, killed: {"none", "process", "group"}]
    /\ outcome \in [Commands -> {"none", "result", "late", "half killed", "killed",
                                "raised", "aborted"}]
    /\ process \in [Commands -> {"none", "bash", "powershell", "rg", "dead"}]
    /\ child \in [Commands -> [alive: BOOLEAN, group: BOOLEAN, pipe: BOOLEAN]]
    /\ noticed \subseteq Commands

(***************************************************************************)
(* A result is about a command that is over: nobody can write to its pipes *)
(* any more.  Of one whose group was killed at its timeout no process of   *)
(* the group is left; where only the process could be killed, a child that *)
(* holds no pipe may outlive the result.  Two commands run side by side    *)
(* only when the call of one of them was aborted.                          *)
(***************************************************************************)
ResultIsFinal ==
    /\ \A c \in Commands :
           outcome[c] \in {"result", "late", "half killed", "killed"} =>
               /\ process[c] = "dead" /\ ~(child[c].alive /\ child[c].pipe)
               /\ outcome[c] = "killed" => ~(child[c].alive /\ child[c].group)
    /\ \A c, d \in Commands :
           (c # d /\ Alive(c) /\ Alive(d))
               => "aborted" \in {outcome[c], outcome[d]}

(***************************************************************************)
(* A call of a tool that runs a command returns, however long the command  *)
(* would run: the timeout kills it, and its pipes are read until whoever   *)
(* still holds them has ended.                                             *)
(***************************************************************************)
CallsReturn == \A c \in Commands : []<>(running.cmd # c)
=============================================================================
