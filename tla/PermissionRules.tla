---------------------------- MODULE PermissionRules ----------------------------
(***************************************************************************)
(* pywork/permission: what the rules say of a tool call, the overrides     *)
(* that the user leaves behind, and the audit log of it all.               *)
(*                                                                         *)
(* PermissionGate combines the rule of a call with the policy of the mode; *)
(* here the rule is found out.  A call is what the rules can tell of it:   *)
(* the tool, what kind of command or operation it is (head), and the marks *)
(* that the patterns find in its text or path.                             *)
(***************************************************************************)
EXTENDS PermissionGate, Sequences, FiniteSets

CONSTANTS
    Requests,   \* the calls the model may make
    MaxKept     \* bound: the answers Always Allow of one session

\* What stands for the text of a shell command.  A head is the executable in the
\* tables: safe, trusted (a known form of git, python or uv), write, elevated,
\* denied, or in none of them; PowerShell has its own tables of the same kinds.
BashHeads == {"safe", "trusted", "write", "elevated", "denied", "unknown"}
PowerShellHeads == {"safe", "trusted", "write", "elevated", "denied", "unknown"}

RmMarks == {"deletes_tree", "deletes_root"}
RemoveItemMarks == {"deletes_tree", "deletes_root"}

BashMarks == RmMarks \cup
    {"unparsed", "fork_bomb", "piped_download", "deletes_root_within", "evaluates",
     "git_rewrites", "find_acts", "redirect", "chain"}

PowerShellMarks == RemoveItemMarks \cup
    {"unparsed", "encoded", "piped_download", "evaluates", "git_rewrites",
     "redirect", "chain", "pipe"}

\* What stands for the path, and the target path, of a file operation.
Readers == {"file_read", "glob", "grep"}
Writers == {"file_write", "file_edit"}
TargetMarks == {"target_outside", "target_protected"}
NamedMarks == {"critical_name", "sensitive", "important"}
PathMarks == TargetMarks \cup NamedMarks \cup {"outside", "protected"}

Request ==
    [tool: {"bash"}, head: BashHeads, marks: SUBSET BashMarks]
    \cup [tool: {"powershell"}, head: PowerShellHeads, marks: SUBSET PowerShellMarks]
    \cup [tool: Readers \cup Writers, head: {"path"}, marks: SUBSET PathMarks]
    \cup [tool: {"other"}, head: Risks, marks: {{}}]

ASSUME RulesAssumption == Requests \subseteq Request /\ MaxKept \in Nat

VARIABLES
    mode,       \* the permission mode of this session
    kept,       \* the keys of the overrides, all of them Always Allow
    proposed,   \* the call at hand
    rule,       \* [decision, risk]: what the rules say of it
    step,       \* "idle", "asked", "refused", "running", "failed", "done", "raised"
    gate,       \* what the gate decided, "none" when the gate raised
    answer,     \* what the user answered to this call, "none" unasked
    ran,        \* whether this call was executed
    rows,       \* what the audit log can be read to say of this call
    torn,       \* whether the log ends in the middle of a line
    faults      \* whether a write of this call's audit failed

requestVars == <<proposed, rule, gate, answer, ran>>
logVars == <<rows, torn, faults>>
ruleVars == <<mode, kept, step, requestVars, logVars>>

-----------------------------------------------------------------------------
(***************************************************************************)
(* The ladders: the first mark found decides, at critical risk.            *)
(***************************************************************************)
Rung(mark, decision) == [mark |-> mark, decision |-> decision]

BashLadder ==
    <<Rung("unparsed", "ask_elevated"), Rung("deletes_root", "deny"),
      Rung("deletes_tree", "ask_elevated"), Rung("fork_bomb", "deny"),
      Rung("piped_download", "deny"), Rung("deletes_root_within", "deny"),
      Rung("evaluates", "deny"), Rung("denied", "deny"),
      Rung("git_rewrites", "ask_elevated"), Rung("find_acts", "ask_elevated")>>

PowerShellLadder ==
    <<Rung("unparsed", "ask_elevated"), Rung("deletes_root", "deny"),
      Rung("deletes_tree", "ask_elevated"), Rung("encoded", "deny"),
      Rung("piped_download", "deny"), Rung("evaluates", "deny"),
      Rung("denied", "deny"), Rung("git_rewrites", "ask_elevated")>>

WriteLadder ==
    <<Rung("outside", "deny"), Rung("target_outside", "deny"),
      Rung("protected", "deny"), Rung("target_protected", "deny"),
      Rung("critical_name", "deny"), Rung("sensitive", "ask_elevated"),
      Rung("important", "ask_elevated")>>

ReadLadder ==
    <<Rung("outside", "deny"), Rung("target_outside", "deny"),
      Rung("protected", "ask_elevated"), Rung("target_protected", "deny"),
      Rung("critical_name", "deny"), Rung("sensitive", "ask_elevated")>>

Ladder(c) ==
    CASE c.tool = "bash" -> BashLadder
      [] c.tool = "powershell" -> PowerShellLadder
      [] c.tool \in Writers -> WriteLadder
      [] c.tool \in Readers -> ReadLadder
      [] c.tool = "other" -> <<>>

\* A denied executable counts as a mark of its command.
Found(c) == {i \in DOMAIN Ladder(c):
                Ladder(c)[i].mark \in c.marks \cup IF c.head = "denied" THEN {"denied"} ELSE {}}

(***************************************************************************)
(* Without a mark of the ladder, the strongest of the grounds decides.     *)
(***************************************************************************)
Ground(decision, risk) == [decision |-> decision, risk |-> risk]

OnlyIf(condition, ground) == IF condition THEN {ground} ELSE {}

Known(c) == c.head \in {"safe", "trusted"}

BashGrounds(c) ==
    {Ground("allow", "low")}
    \cup OnlyIf(~Known(c), Ground("ask", "medium"))
    \cup OnlyIf(c.head = "write", Ground("ask", "high"))
    \cup OnlyIf(c.head = "elevated", Ground("ask_elevated", "critical"))
    \cup OnlyIf("redirect" \in c.marks, Ground("ask", "high"))
    \cup OnlyIf("chain" \in c.marks, Ground("ask", "medium"))

PowerShellGrounds(c) ==
    BashGrounds(c) \cup OnlyIf("pipe" \in c.marks /\ ~Known(c), Ground("ask", "medium"))

PathGrounds(c) == {IF c.tool \in Writers THEN Ground("ask", "high") ELSE Ground("allow", "low")}

Grounds(c) == CASE c.tool \in Readers \cup Writers -> PathGrounds(c)
                [] c.tool = "bash" -> BashGrounds(c)
                [] c.tool = "powershell" -> PowerShellGrounds(c)

Strongest(grounds) ==
    Ground(CHOOSE d \in {g.decision: g \in grounds}:
              \A g \in grounds: Strictness[g.decision] <= Strictness[d],
           CHOOSE r \in {g.risk: g \in grounds}: \A g \in grounds: AtMost(g.risk, r))

\* The evaluate method of the call's rules.
FirstRung(c) == Ladder(c)[CHOOSE i \in Found(c): \A j \in Found(c): i <= j]

RuleOfStrongest(c) ==                        \* mutant: the marks only add their grounds
    IF c.tool = "other" THEN Ground("none", c.head)
    ELSE Strongest(Grounds(c))

RuleOf(c) ==
    IF c.tool = "other" THEN Ground("none", c.head)
    ELSE IF Found(c) # {} THEN Ground(FirstRung(c).decision, "critical")
    ELSE Strongest(Grounds(c))

Op(c, r) == [tool |-> c.tool, rule |-> r.decision, risk |-> r.risk]

\* create_session_override_key: the path or the command, not the other arguments.
Target(c) == <<c.head, c.marks \ TargetMarks>>

Key(c, r) == [tool |-> c.tool, target |-> Target(c), risk |-> r.risk]

Decision(c, r) ==
    IF Key(c, r) \in kept /\ Combine(GateMode(mode), Op(c, r)) # "deny" THEN "allow"
    ELSE Combine(GateMode(mode), Op(c, r))

-----------------------------------------------------------------------------
(***************************************************************************)
(* The audit log: a line of JSON for each row.  A write may fail at once,  *)
(* or after a part of the line; what is written next is then on that line, *)
(* and the reader skips it.                                                *)
(***************************************************************************)
Rows == {"policy", "user", "executed", "refused"}

Writes(row) ==
    /\ rows' = IF torn THEN rows ELSE Append(rows, row)
    /\ torn' = FALSE
    /\ UNCHANGED faults

WriteFails ==
    /\ UNCHANGED rows
    /\ torn' \in {torn, TRUE}
    /\ faults' = TRUE

NoRequest == [tool |-> "none", head |-> "none", marks |-> {}]
NoRule == Ground("none", "safe")

RulesInit ==
    /\ mode \in Modes /\ kept = {} /\ step = "idle"
    /\ proposed = NoRequest /\ rule = NoRule /\ gate = "none" /\ answer = "none" /\ ran = FALSE
    /\ rows = <<>> /\ torn = FALSE /\ faults = FALSE

\* A call reaches permission_check: the audit may raise, and the call then goes on
\* without the gate.
Put(c) ==
    /\ step = "idle" /\ proposed' = c /\ rule' = RuleOf(c)
    /\ \/ gate' = Decision(c, rule') /\ Writes("policy")
       \/ gate' = "none" /\ WriteFails
    /\ step' = CASE gate' \in Asking -> "asked"
                 [] gate' = "deny" -> "refused"
                 [] gate' \in {"allow", "none"} -> "running"
    /\ UNCHANGED <<mode, kept, answer, ran>>

\* The nodes forget the call before the next one.
Forget ==
    /\ step \in {"done", "raised"} /\ step' = "idle"
    /\ proposed' = NoRequest /\ rule' = NoRule /\ gate' = "none" /\ answer' = "none"
    /\ ran' = FALSE /\ rows' = <<>> /\ faults' = FALSE
    /\ UNCHANGED <<mode, kept, torn>>

\* The call is refused, by the gate or by the user, and the refusal audited.
Refuse ==
    /\ step = "refused"
    /\ \/ Writes("refused") /\ step' = "done"
       \/ WriteFails /\ step' = "raised"
    /\ UNCHANGED <<mode, kept, requestVars>>

\* The user answers, and only an audited answer is acted upon.
UserAnswers(a) ==
    /\ step = "asked" /\ answer' = a
    /\ \/ /\ Writes("user")
          /\ step' = IF a = "deny" THEN "refused" ELSE "running"
          /\ kept' = kept \cup IF a = "always_allow" THEN {Key(proposed, rule)} ELSE {}
       \/ WriteFails /\ step' = "raised" /\ UNCHANGED kept
    /\ Cardinality(kept') <= MaxKept
    /\ UNCHANGED <<mode, proposed, rule, gate, ran>>

\* The tool runs.  A failed audit counts as a failure of the tool, and is tried once
\* more; without a gate result there is nothing to audit.
Run ==
    /\ step = "running" /\ ran' = TRUE
    /\ \/ gate = "none" /\ step' = "done" /\ UNCHANGED logVars
       \/ gate # "none" /\ Writes("executed") /\ step' = "done"
       \/ gate # "none" /\ WriteFails /\ step' = "failed"
    /\ UNCHANGED <<mode, kept, proposed, rule, gate, answer>>

AuditFailure ==
    /\ step = "failed"
    /\ \/ Writes("executed") /\ step' = "done"
       \/ WriteFails /\ step' = "raised"
    /\ UNCHANGED <<mode, kept, requestVars>>

UserChoices == {"deny", "allow", "always_allow"}

RulesNext == (\E c \in Requests: Put(c)) \/ Refuse \/ (\E a \in UserChoices: UserAnswers(a))
             \/ Run \/ AuditFailure \/ Forget

RulesSpec == RulesInit /\ [][RulesNext]_ruleVars

-----------------------------------------------------------------------------
(***************************************************************************)
(* The values.                                                             *)
(***************************************************************************)
RulesTypeOK ==
    /\ mode \in Modes /\ rule.risk \in Risks /\ Cardinality(kept) <= MaxKept
    /\ step \in {"idle", "asked", "refused", "running", "failed", "done", "raised"}
    /\ gate \in Decisions \cup {"none"} /\ answer \in UserChoices \cup {"none"}
    /\ {ran, torn, faults} \subseteq BOOLEAN /\ rows \in Seq(Rows)

(***************************************************************************)
(* In whatever mode, bypass included: a command with a mark that denies,   *)
(* and none before it that asks, never runs; a command that is not known   *)
(* to be safe, or has a mark on it, runs only when the user allowed it, or *)
(* Always allowed that very command; and so for the marked paths.          *)
(***************************************************************************)
Denying(c) == {i \in Found(c): Ladder(c)[i].decision = "deny"}

Forbidden(c) == \E i \in Denying(c): \A j \in Found(c): i <= j \/ j \in Denying(c)

Doubtful(c) ==
    \/ c.tool = "bash" /\ ~(Known(c) /\ c.marks = {})
    \/ c.tool = "powershell" /\ ~(Known(c) /\ c.marks \subseteq {"pipe"})
    \/ c.tool \in Readers /\ c.marks \ {"important"} # {}
    \/ c.tool \in Writers /\ c.marks # {}

ConsentComesFirst ==
    ran /\ gate # "none" =>
        /\ ~Forbidden(proposed)
        /\ Doubtful(proposed) => answer \in {"allow", "always_allow"}
                             \/ \E k \in kept: k.tool = proposed.tool /\ k.target = Target(proposed)

(***************************************************************************)
(* What the log can be read to say of a call is what happened: its rows    *)
(* are in order, none is missing unless a write has failed, and a row of   *)
(* an execution is there only for a call that was executed.                *)
(***************************************************************************)
Story == (<<"policy">> \o IF gate \in Asking THEN <<"user">> ELSE <<>>)
         \o IF ran THEN <<"executed">> ELSE <<"refused">>

AuditIsTrue ==
    /\ step = "done" /\ ~faults => rows \in {Story, Tail(Story)}
    /\ \A i \in DOMAIN rows:
          /\ rows[i] = "executed" => ran
          /\ rows[i] = "refused" => ~ran
          /\ rows[i] = "user" => answer # "none" /\ i <= 2
          /\ rows[i] = "policy" => i = 1

(***************************************************************************)
(* A session in a stricter mode never lets a call through that one in a    *)
(* laxer mode stops; but for bypass, which reaches the gate as default.    *)
(***************************************************************************)
StricterIsStricter ==
    proposed # NoRequest =>
        LET strictness(m) == Strictness[Combine(GateMode(m), Op(proposed, rule))]
        IN /\ strictness("readonly") >= strictness("default")
           /\ strictness("plan") >= strictness("default")
           /\ strictness("default") >= strictness("accept_edits")
           /\ strictness("bypass") = strictness("default")

(***************************************************************************)
(* What may not run does not, what is doubtful runs with the user's word   *)
(* only, in a stricter mode no less than in a laxer one save bypass, and   *)
(* what the log can be read to say is what happened; all values are in     *)
(* their sets.                                                             *)
(***************************************************************************)
ConsentIsAsked == RulesTypeOK /\ ConsentComesFirst /\ StricterIsStricter /\ AuditIsTrue
=============================================================================
