----------------------------- MODULE MCGraphSwarm -----------------------------
(***************************************************************************)
(* Turns of an agent, and runs of a Swarm, in two parts that share no      *)
(* state, so that a behaviour is about one of them:                        *)
(*   - "turn": the graph of nodes with its permission gate (AgentGraph),   *)
(*   - else: a Swarm and its teammates (SwarmTeam), by the kind of plans   *)
(*     that its runs follow.                                               *)
(***************************************************************************)
EXTENDS AgentGraph, SwarmTeam

VARIABLE desk

\* Steps side by side, steps in a row that stop at the first failure, and steps in a
\* row of which each depends on the one before.
Kinds == {"parallel", "failFast", "depends"}
PlanOf(kind) == [NoPlan EXCEPT ![kind] = TRUE]
ThreePlans == {PlanOf(kind): kind \in Kinds}

allVars == <<desk, vars, swarmVars>>

BothInit ==
    /\ desk \in {"turn"} \cup Kinds /\ Init /\ SwarmInit
    /\ desk # "turn" => mode = "readonly"

AtTurn == desk = "turn" /\ Next /\ UNCHANGED <<desk, swarmVars>>
AtSwarm ==
    /\ desk \in Kinds /\ SwarmNext /\ UNCHANGED <<desk, vars>>
    /\ \A r \in Runs: run'[r].pc = "created" => run'[r].plan = PlanOf(desk)

Both == BothInit /\ [][AtTurn \/ AtSwarm]_allVars

FairBoth == Both /\ Fairness /\ SwarmFairness

-----------------------------------------------------------------------------
\* One tool call of each kind the gate tells apart.
Glob == [tool |-> "glob", rule |-> "allow", risk |-> "low"]
ReadFile == [tool |-> "file_read", rule |-> "allow", risk |-> "low"]
ReadSecret == [tool |-> "file_read", rule |-> "ask_elevated", risk |-> "critical"]
WriteFile == [tool |-> "file_write", rule |-> "ask", risk |-> "high"]
WriteGit == [tool |-> "file_write", rule |-> "deny", risk |-> "critical"]
Shell == [tool |-> "bash", rule |-> "ask", risk |-> "medium"]
NoCommand == [tool |-> "bash", rule |-> "raises", risk |-> "critical"]
Coordinator == [tool |-> "coordinator", rule |-> "none", risk |-> "low"]

AllOps == {Glob, ReadFile, ReadSecret, WriteFile, WriteGit, Shell, NoCommand, Coordinator}

Plain == [read |-> FALSE, route |-> NoCall, first |-> NoCall]
InParallel == [Plain EXCEPT !.route = Coordinator]
ReadRequest == [Plain EXCEPT !.read = TRUE]
ReadOne == [ReadRequest EXCEPT !.first = ReadFile]
ReadFolder == [ReadRequest EXCEPT !.first = Glob]
ReadInParallel == [ReadRequest EXCEPT !.route = Coordinator]

AllIntents == {Plain, InParallel, ReadRequest, ReadOne, ReadFolder, ReadInParallel}

FoundFiles == {<<ReadFile, ReadSecret>>}

-----------------------------------------------------------------------------
(***************************************************************************)
(* "bypass: skips the permission mode. All operations are allowed by       *)
(* default", and the policy's first rule: "bypass mode: allow". So in a    *)
(* session in bypass mode the gate asks only where a rule binds whatever   *)
(* the mode: for a shell command, or a path that is denied or sensitive.   *)
(***************************************************************************)
BypassAllows ==
    mode = "bypass" /\ pc \in {"execute_tool", "approval", "running"} /\ gate # "none"
        => HardDecision(call) \/ gate = "allow"
=============================================================================
