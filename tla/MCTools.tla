------------------------------- MODULE MCTools -------------------------------
(***************************************************************************)
(* What the program does beside the conversation and for it, in parts that *)
(* share no state, so that a behaviour is about one of them:               *)
(*   - "shell": the commands (ShellRun),                                   *)
(*   - "tasks": the tools for background tasks (TaskTools),                *)
(*   - "mail": the mailbox and its pollers (Mailbox),                      *)
(*   - "panel": the background tasks on the screen (TaskPanel),            *)
(*   - "talk": what the models are told (Conversation, LlmRouter).         *)
(***************************************************************************)
EXTENDS ShellRun, TaskTools, Mailbox, TaskPanel, Conversation

CONSTANTS alpha, beta, gamma         \* three providers

VARIABLE desk

AllButShell == <<taskVars, mailVars, panelVars, convVars>>
AllButTasks == <<shellVars, mailVars, panelVars, convVars>>
AllButMail == <<shellVars, taskVars, panelVars, convVars>>
AllButPanel == <<shellVars, taskVars, mailVars, convVars>>
AllButTalk == <<shellVars, taskVars, mailVars, panelVars>>
vars == <<desk, shellVars, AllButShell>>

Init ==
    /\ desk \in {"shell", "tasks", "mail", "panel", "talk"}
    /\ ShellInit /\ TaskInit /\ MailInit /\ PanelInit /\ ConvInit
    /\ desk # "talk" => llm = CHOOSE config \in Configs: TRUE

AtShell == desk = "shell" /\ ShellNext /\ UNCHANGED <<desk, AllButShell>>
AtTasks == desk = "tasks" /\ TaskNext /\ UNCHANGED <<desk, AllButTasks>>
AtMail == desk = "mail" /\ MailNext /\ UNCHANGED <<desk, AllButMail>>
AtPanel == desk = "panel" /\ PanelNext /\ UNCHANGED <<desk, AllButPanel>>
Talking == desk = "talk" /\ ConvNext /\ UNCHANGED <<desk, AllButTalk>>

Next == AtShell \/ AtTasks \/ AtMail \/ AtPanel \/ Talking

Spec == Init /\ [][Next]_vars

\* The event loop and the timers go on.
FairSpec ==
    /\ Spec /\ ShellFairness /\ TaskFairness /\ MailFairness /\ ConvFairness
    /\ WF_panelVars(desk = "panel" /\ Timer) /\ WF_panelVars(desk = "panel" /\ Refresh)

-----------------------------------------------------------------------------
(***************************************************************************)
(* The configurations of the models: a fallback named twice; a default     *)
(* that is no entry; one flat provider; an entry without its key.          *)
(***************************************************************************)
SomeConfigs ==
    {[listed |-> <<alpha, beta>>, sound |-> {alpha, beta, gamma}, first |-> None,
      fallbacks |-> <<beta, alpha>>, standard |-> gamma, mock |-> TRUE],
     [listed |-> <<alpha, beta>>, sound |-> {alpha, beta, gamma}, first |-> gamma,
      fallbacks |-> <<gamma, alpha>>, standard |-> beta, mock |-> FALSE],
     [listed |-> <<>>, sound |-> {alpha}, first |-> alpha,
      fallbacks |-> <<>>, standard |-> gamma, mock |-> FALSE],
     [listed |-> <<alpha, beta>>, sound |-> {alpha}, first |-> alpha,
      fallbacks |-> <<>>, standard |-> gamma, mock |-> TRUE]}

SomeFormats == [n \in Names |-> IF n = alpha THEN "openai" ELSE "anthropic"]

SomeReplies ==
    {[empty |-> TRUE, calls |-> <<>>],
     [empty |-> FALSE, calls |-> <<"named", "named">>],
     [empty |-> FALSE, calls |-> <<"named", "nameless">>]}

-----------------------------------------------------------------------------
(***************************************************************************)
(* The values of all of them.                                              *)
(***************************************************************************)
TypeOK == ShellTypeOK /\ TaskTypeOK /\ MailTypeOK /\ ConvTypeOK

(***************************************************************************)
(* What a tool answers is so and stays so: a command with a result is      *)
(* over, a stop that succeeded left nothing running, and what is listed as *)
(* busy is.                                                                *)
(***************************************************************************)
AnswersAreTrue == ResultIsFinal /\ StopIsReal /\ BusyIsTrue

(***************************************************************************)
(* Nothing is told twice: of all the polls one gets a message, and the     *)
(* chat has one notice of a created task.                                  *)
(***************************************************************************)
OnlyOnce == TakenOnce /\ ToldOnce

(***************************************************************************)
(* A model is told this turn's question and all that came of it, and the   *)
(* answer is booked on the one that gave it.                               *)
(***************************************************************************)
ModelsAreTold == TellsItStraight /\ QuestionIsPut /\ AnswerIsBooked

(***************************************************************************)
(* Every tool that waits comes back: a command at its timeout, task_stop   *)
(* when the execution has ended, a poll when there is mail; a turn comes   *)
(* to its end, whichever providers fail; and the panel of tasks comes to   *)
(* show what there is to show.                                             *)
(***************************************************************************)
AllSettles == CallsReturn /\ StopsReturn /\ PollersWake /\ TurnsEnd /\ PanelCatchesUp
=============================================================================
