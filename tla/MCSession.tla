------------------------------ MODULE MCSession ------------------------------
(***************************************************************************)
(* The turns of the terminal application and the engine that runs them, in *)
(* parts that share no state: a behaviour is about one of them.            *)
(*   - "turns": the inputs and their streams (RuntimeSession),             *)
(*   - "controls": one caller of the engine under every control call,      *)
(*   - "aborts": two callers of the engine, and aborts only.               *)
(***************************************************************************)
EXTENDS RuntimeSession, RuntimeEngine

CONSTANT Other      \* the caller that calls among aborts only

\* The RuntimeController is the one caller besides; the aborts fit the bound on controls.
ASSUME DesksAssumption == (\E c \in Callers: Callers = {c, Other}) /\ MaxControls >= 2

VARIABLE desk

Aborts == INSTANCE RuntimeEngine WITH Controls <- {"abort"}, MaxControls <- 2

vars == <<desk, sessionVars, engineVars>>

Init == desk \in {"turns", "controls", "aborts"} /\ SessionInit /\ EngineInit

AtTurns == desk = "turns" /\ SessionNext /\ UNCHANGED <<desk, engineVars>>
Controlled ==
    desk = "controls" /\ EngineNext /\ call'[Other] = Idle /\ UNCHANGED <<desk, sessionVars>>
Aborted == desk = "aborts" /\ Aborts!EngineNext /\ UNCHANGED <<desk, sessionVars>>

Next == AtTurns \/ Controlled \/ Aborted

Spec == Init /\ [][Next]_vars

\* The event loop goes on.
FairSpec == Spec /\ SessionFairness /\ EngineFairness

-----------------------------------------------------------------------------
(***************************************************************************)
(* The values, at each desk; and for the engine, that the run which an     *)
(* abort would cancel is watched by a caller.                              *)
(***************************************************************************)
TypeOK == SessionTypeOK /\ EngineTypeOK

(***************************************************************************)
(* RuntimeAlreadyRunningError: a run is never started beside another, on   *)
(* the controller in use, and among aborts on the shared AgentState.       *)
(***************************************************************************)
OneRunAtATime == OneRun /\ (desk = "aborts" => OneGraphRun)

(***************************************************************************)
(* What the chat and the controller say of a turn is how it ended, and an  *)
(* engine that was told to abort never reports a finished run.             *)
(***************************************************************************)
OutcomesAreTold == StoryIsTrue /\ AbortIsReported

(***************************************************************************)
(* A turn that was taken comes to its end; an arun held by a pause goes on *)
(* after it, every other one returns, and among aborts the engine does not *)
(* stay aborting.                                                          *)
(***************************************************************************)
AllGoesOn ==
    /\ TurnsEnd /\ HeldProceeds /\ RunsReturn
    /\ []<>(desk = "aborts" => status # "aborting" \/ current = 0)
=============================================================================
