-------------------------------- MODULE Prompt --------------------------------
(***************************************************************************)
(* The prompt of the terminal application: a text is typed, suggestions of *)
(* slash commands appear under it, up and down move through them, and      *)
(* Enter hands the text in; a dialog offers the same commands.             *)
(*                                                                         *)
(* The application takes messages from its queue one at a time, so that a  *)
(* change of the text is drawn some time after it was typed, and a text is *)
(* handled when the box has been cleared already.                          *)
(***************************************************************************)
EXTENDS Naturals, Sequences, FiniteSets

CONSTANTS
    Commands,     \* the built-in commands, in the order of their table: a sequence
    BusyAllowed,  \* the commands a running turn allows
    Texts,        \* what can be typed: [kind, word, runs, hits], see TextAssumption
    Template,     \* the text that the team panel puts into the box for a member
    MaxRows,      \* bound of the code: suggestions drawn, 9
    MaxQueue      \* bound: messages that wait for the application

CommandSet == {Commands[i]: i \in DOMAIN Commands}
NoCommand == "none"

\* word: the command that the first word of a slash text names; runs: the one that
\* handle_slash_command runs for the whole text; hits: those its query is found in.
ASSUME TextAssumption ==
    /\ Commands \in Seq(CommandSet) /\ NoCommand \notin CommandSet
    /\ MaxRows \in Nat \ {0} /\ MaxQueue \in Nat \ {0}
    /\ BusyAllowed \subseteq CommandSet /\ Template \in Texts
    /\ Texts \subseteq [kind: {"message", "tool", "command"}, word: CommandSet \cup {NoCommand},
                        runs: CommandSet \cup {NoCommand}, hits: SUBSET CommandSet]

VARIABLES
    typed,      \* the text in the box
    mail,       \* messages of the application: [about, text]
    drawn,      \* the suggestions on the screen: [rows, at]
    selected,   \* slash_suggestion_index, from 0
    worker,     \* the runtime worker: "idle", "starting" or "running" (runtime_busy)
    dialog,     \* CommandsDialog: [open, found, index]
    did         \* what the last step did: [by, text, what, offered, alone]

promptVars == <<typed, mail, drawn, selected, worker, dialog, did>>

Empty == [kind |-> "empty", word |-> NoCommand, runs |-> NoCommand, hits |-> {}]
Message(about) == [about |-> about, text |-> Empty]   \* "changed", "up" or "down"
Submission(text) == [about |-> "submitted", text |-> text]
Hidden == [rows |-> <<>>, at |-> 0]
Closed == [open |-> FALSE, found |-> <<>>, index |-> 0]

Nothing == [by |-> "nobody", text |-> Empty, what |-> NoCommand, offered |-> NoCommand,
            alone |-> FALSE]

PromptInit ==
    /\ typed = Empty /\ mail = <<>> /\ drawn = Hidden /\ selected = 0
    /\ worker = "idle" /\ dialog = Closed
    /\ did = Nothing

IsSlash(text) == text.kind \in {"tool", "command"}
IsKnown(text) == text.word # NoCommand
Least(m, n) == IF m < n THEN m ELSE n

\* Where in the table the query is found; and what is at these places, in its order.
Hits(text) == {i \in DOMAIN Commands: Commands[i] \in text.hits}
InOrder(places) ==
    [k \in 1..Cardinality(places) |->
        Commands[CHOOSE i \in places: Cardinality({j \in places: j < i}) = k - 1]]

\* get_matching_slash_commands: the first ones of the table that the query is found in.
Matches(text) ==
    IF IsSlash(text) THEN SubSeq(InOrder(Hits(text)), 1, Least(Cardinality(Hits(text)), MaxRows))
    ELSE <<>>

\* The row that is drawn as selected.
Highlighted == IF drawn.at < Len(drawn.rows) THEN drawn.rows[drawn.at + 1] ELSE NoCommand

-----------------------------------------------------------------------------
\* The box

Typed(text, messages) ==
    /\ ~dialog.open /\ typed' = text
    /\ Len(mail) + Len(messages) <= MaxQueue /\ mail' = mail \o messages

Type(text) ==
    /\ text # typed /\ Typed(text, <<Message("changed")>>)
    /\ UNCHANGED <<drawn, selected, worker, dialog>>

\* on_team_message_member_requested
MessageMember ==
    /\ Typed(Template, <<Message("changed")>>)
    /\ UNCHANGED <<drawn, selected, worker, dialog>>

\* InputBox.submit posts the text and clears the box; nothing is posted of an empty one.
Enter ==
    /\ typed # Empty /\ Typed(Empty, <<Submission(typed), Message("changed")>>)
    /\ UNCHANGED <<drawn, selected, worker, dialog>>

Arrow(key) ==
    /\ Typed(typed, <<Message(key)>>)
    /\ UNCHANGED <<drawn, selected, worker, dialog>>

-----------------------------------------------------------------------------
\* The application handles its messages

Handles(message) == mail # <<>> /\ Head(mail) = message /\ mail' = Tail(mail)

Hide == drawn' = Hidden /\ selected' = 0

\* update_slash_suggestions, of the text that is in the box by now.
Redraw ==
    LET rows == Matches(typed)
        at == Least(selected, Len(rows) - 1)
    IN
    /\ Handles(Message("changed"))
    /\ IF rows = <<>> THEN Hide ELSE selected' = at /\ drawn' = [rows |-> rows, at |-> at]
    /\ UNCHANGED <<typed, worker, dialog>>

Moved(key, n) == IF key = "down" THEN (selected + 1) % n ELSE (selected + n - 1) % n

MovesBlindly(key) ==                               \* mutant: the rows are not drawn again
    /\ Handles(Message(key))
    /\ selected' = IF Matches(typed) = <<>> THEN selected ELSE Moved(key, Len(Matches(typed)))
    /\ UNCHANGED <<typed, drawn, worker, dialog>>

\* on_key: without suggestions for the text, the arrow moves the cursor of the box only.
Moves(key) ==
    LET rows == Matches(typed) IN
    /\ Handles(Message(key))
    /\ IF rows = <<>> THEN UNCHANGED <<selected, drawn>>
       ELSE selected' = Moved(key, Len(rows)) /\ drawn' = [rows |-> rows, at |-> selected']
    /\ UNCHANGED <<typed, worker, dialog>>

\* alone: no key was pressed since the Enter that handed the text in.
Did(by, text, what) ==
    did' = [by |-> by, text |-> text, what |-> what, offered |-> Highlighted,
            alone |-> mail = <<Submission(text), Message("changed")>>]

\* on_input_submitted
Refused(text) ==
    /\ IsSlash(text) /\ worker = "running" /\ text.word \notin BusyAllowed
    /\ Did("enter", text, "refused") /\ UNCHANGED <<drawn, selected, worker>>

\* execute_selected_slash_suggestion
Suggestion(text) ==
    LET rows == Matches(text) IN
    /\ IsSlash(text) /\ worker # "running" /\ ~IsKnown(text) /\ rows # <<>>
    /\ Did("enter", text, rows[Least(selected, Len(rows) - 1) + 1])
    /\ Hide /\ UNCHANGED worker

\* handle_slash_command
RunsCommand(text) ==
    /\ text.kind = "command" /\ (IsKnown(text) \/ Matches(text) = <<>>)
    /\ worker = "running" => text.word \in BusyAllowed
    /\ Did("enter", text, IF text.runs = NoCommand THEN "unknown" ELSE text.runs)
    /\ Hide /\ UNCHANGED worker

\* A message, or a /tool text that no suggestion was found for.
RunsTurn(text) ==
    /\ text.kind = "message" \/ (text.kind = "tool" /\ worker # "running" /\ Matches(text) = <<>>)
    /\ Hide
    /\ Did("enter", text, IF worker = "running" THEN "refused" ELSE "turn")
    /\ worker' = IF worker = "running" THEN worker ELSE "starting"

Submitted ==
    \E text \in Texts:
        /\ Handles(Submission(text))
        /\ Refused(text) \/ Suggestion(text) \/ RunsCommand(text) \/ RunsTurn(text)
        /\ UNCHANGED <<typed, dialog>>

TurnGoesOn ==
    /\ \/ worker = "starting" /\ worker' = "running"
       \/ worker = "running" /\ worker' = "idle"
    /\ UNCHANGED <<typed, mail, drawn, selected, dialog>>

-----------------------------------------------------------------------------
\* CommandsDialog

OpenDialog ==
    /\ ~dialog.open /\ dialog' = [open |-> TRUE, found |-> Commands, index |-> 0]
    /\ UNCHANGED <<typed, mail, drawn, selected, worker>>

Search(text) ==
    LET found == InOrder(Hits(text)) IN
    /\ dialog.open /\ found # dialog.found
    /\ dialog' = [open |-> TRUE, found |-> found, index |-> 0]
    /\ UNCHANGED <<typed, mail, drawn, selected, worker>>

\* No further than MaxRows rows down.
MoveDown ==
    /\ dialog.open /\ dialog.found # <<>>
    /\ dialog' = [dialog EXCEPT !.index = (@ + 1) % Least(MaxRows, Len(dialog.found))]
    /\ UNCHANGED <<typed, mail, drawn, selected, worker>>

\* The usage of the selected one is handled, whether a turn runs or not.
Choose ==
    /\ dialog.open /\ dialog.found # <<>>
    /\ dialog' = Closed
    /\ Did("dialog", Empty, dialog.found[dialog.index + 1])
    /\ UNCHANGED <<typed, mail, drawn, selected, worker>>

CloseDialog ==
    /\ dialog.open /\ dialog' = Closed
    /\ UNCHANGED <<typed, mail, drawn, selected, worker>>

\* The steps that carry out nothing of what the user asked for.
Quiet ==
    \/ MessageMember \/ Enter \/ Redraw \/ TurnGoesOn
    \/ \E text \in Texts: Type(text) \/ Search(text)
    \/ \E key \in {"up", "down"}: Arrow(key) \/ Moves(key)
    \/ OpenDialog \/ MoveDown \/ CloseDialog

PromptNext == (Quiet /\ did' = Nothing) \/ Submitted \/ Choose

-----------------------------------------------------------------------------
(***************************************************************************)
(* What is drawn is what counts: with no message waiting, the suggestions  *)
(* on the screen are those of the text in the box; and if a text that is   *)
(* no command runs a suggestion, it runs the one that was highlighted, or  *)
(* none was drawn.  Not so when the user types on before the Enter is      *)
(* handled: what he typed last may be drawn by then.                       *)
(***************************************************************************)
SuggestionsAreTrue ==
    /\ mail = <<>> => drawn.rows = Matches(typed) /\ drawn.at = selected
    /\ did.by = "enter" /\ did.alone /\ IsSlash(did.text) /\ ~IsKnown(did.text)
          /\ did.what \notin {"refused", "unknown", "turn"} /\ did.offered # NoCommand
       => did.what = did.offered

(***************************************************************************)
(* A /tool shortcut that is typed, or put into the box by the team panel,  *)
(* reaches the runtime, which answers it with the tool.                    *)
(***************************************************************************)
ShortcutReachesTurn ==
    did.by = "enter" /\ did.text.kind = "tool" => did.what \in {"turn", "refused"}
=============================================================================
