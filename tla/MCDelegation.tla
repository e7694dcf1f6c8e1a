---------------------------- MODULE MCDelegation ----------------------------
(***************************************************************************)
(* Work that is handed on, in two parts that share no state, so that a     *)
(* behaviour is about one of them:                                         *)
(*   - "team": teammates, their shared tasks and the end of a team         *)
(*     (TeamLife),                                                         *)
(*   - "plan": the coordinator and the workers of its plans (Coordinator). *)
(***************************************************************************)
EXTENDS TeamLife, Coordinator

VARIABLE desk

vars == <<desk, teamVars, coordVars>>

Init == desk \in {"team", "plan"} /\ TeamInit /\ CoordInit

AtTeam == desk = "team" /\ TeamNext /\ UNCHANGED <<desk, coordVars>>
AtPlan == desk = "plan" /\ CoordNext /\ UNCHANGED <<desk, teamVars>>

Next == AtTeam \/ AtPlan

Spec == Init /\ [][Next]_vars

FairSpec == Spec /\ TeamFairness /\ CoordFairness

-----------------------------------------------------------------------------
\* A coder and a planner.
Two == <<"m1", "m2">>
TheirRoles == [m \in {"m1", "m2"} |-> IF m = "m1" THEN "coder" ELSE "planner"]

\* The first run: direct steps side by side, the second for an agent nobody knows; direct
\* steps side by side with one step id; tasks side by side; tasks in a row that depend on
\* each other and stop at the first failure; no steps. The run beside or after it: direct
\* steps in a row, with one step id, the second for an unknown agent too.
ThreePlans ==
    LET Short == [FallbackPlan EXCEPT !.n = 2]
        Side == [Short EXCEPT !.parallel = TRUE]
        One == [s \in Steps |-> 1]
    IN  [r \in Runs |-> IF r > 1 THEN {[Short EXCEPT !.unknown = {2}, !.id = One]}
                        ELSE { [Side EXCEPT !.n = NSteps, !.unknown = {2}],
                               [Side EXCEPT !.id = One],
                               [FallbackPlan EXCEPT !.n = 0],
                               [Side EXCEPT !.task = TRUE],
                               [Side EXCEPT !.task = TRUE, !.depends = TRUE, !.failFast = TRUE] }]

-----------------------------------------------------------------------------
(***************************************************************************)
(* The values; and only steps that are in the plan of their run have a     *)
(* worker.                                                                 *)
(***************************************************************************)
TypeOK == TeamTypeOK /\ CoordTypeOK

(***************************************************************************)
(* The coordinator knows its workers, is busy when a run is going, and     *)
(* reports of a run what came of its steps.                                *)
(***************************************************************************)
PlanIsTrue == WorkersTracked /\ BusyIsTrue /\ OutcomeIsTrue

(***************************************************************************)
(* A shared task that was cancelled stays cancelled; a team that was       *)
(* deleted has no member at work that was not told to abort, but for a     *)
(* task whose start was still awaited; and a cancel of the coordinator has *)
(* reached every worker that no other hides, when it returns.              *)
(***************************************************************************)
CancelHolds == CancelledStays /\ [](CancelReachesAll /\ DeletedIsQuiet)

(***************************************************************************)
(* A team_delete, an execution, a run, its workers and a cancel come to an *)
(* end, however they wait for each other.                                  *)
(***************************************************************************)
WorkEnds == TeamSettles /\ RunsEnd
=============================================================================
