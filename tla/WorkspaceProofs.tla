--------------------------- MODULE WorkspaceProofs ---------------------------
(***************************************************************************)
(* What the user asks for, allows and keeps, for the specification of      *)
(* MCWorkspace: what the rules of the permissions, the user's answers and  *)
(* the audit log keep for any set of calls, in every mode; that the prompt *)
(* does what it shows; that no change of a file is lost.                   *)
(***************************************************************************)
EXTENDS MCWorkspace, SequenceTheorems, FiniteSetTheorems, TLAPS

-----------------------------------------------------------------------------
(***************************************************************************)
(* The rule of a call.                                                     *)
(***************************************************************************)
\* A ladder has at most ten rungs, so of the marks found there is a first one.
LEMMA FirstExists ==
    ASSUME NEW F, F \subseteq 1..10, F # {}
    PROVE  \E i \in F: \A j \in F: i <= j
<1>1. PICK e \in F: TRUE
  OBVIOUS
<1>2. CASE 1 \in F \/ 2 \in F \/ 3 \in F \/ 4 \in F \/ 5 \in F
  <2>1. CASE 1 \in F BY <2>1
  <2>2. CASE 1 \notin F /\ 2 \in F BY <2>2
  <2>3. CASE 1 \notin F /\ 2 \notin F /\ 3 \in F BY <2>3
  <2>4. CASE 1 \notin F /\ 2 \notin F /\ 3 \notin F /\ 4 \in F BY <2>4
  <2>5. CASE 1 \notin F /\ 2 \notin F /\ 3 \notin F /\ 4 \notin F /\ 5 \in F BY <2>5
  <2> QED BY <1>2, <2>1, <2>2, <2>3, <2>4, <2>5
<1>3. CASE 1 \notin F /\ 2 \notin F /\ 3 \notin F /\ 4 \notin F /\ 5 \notin F
  <2>1. \A j \in F: j \in 6..10
    BY <1>3
  <2>2. CASE 6 \in F BY <2>1, <2>2
  <2>3. CASE 6 \notin F /\ 7 \in F BY <2>1, <2>3
  <2>4. CASE 6 \notin F /\ 7 \notin F /\ 8 \in F BY <2>1, <2>4
  <2>5. CASE 6 \notin F /\ 7 \notin F /\ 8 \notin F /\ 9 \in F BY <2>1, <2>5
  <2>6. CASE 6 \notin F /\ 7 \notin F /\ 8 \notin F /\ 9 \notin F /\ 10 \in F BY <2>1, <2>6
  <2> QED BY <1>1, <2>1, <2>2, <2>3, <2>4, <2>5, <2>6
<1> QED BY <1>2, <1>3

\* The rungs of the ladders, one by one.
LEMMA BashLadderRungs ==
    /\ DOMAIN BashLadder = 1..10
    /\ BashLadder[1] = Rung("unparsed", "ask_elevated")
    /\ BashLadder[2] = Rung("deletes_root", "deny")
    /\ BashLadder[3] = Rung("deletes_tree", "ask_elevated")
    /\ BashLadder[4] = Rung("fork_bomb", "deny")
    /\ BashLadder[5] = Rung("piped_download", "deny")
    /\ BashLadder[6] = Rung("deletes_root_within", "deny")
    /\ BashLadder[7] = Rung("evaluates", "deny")
    /\ BashLadder[8] = Rung("denied", "deny")
    /\ BashLadder[9] = Rung("git_rewrites", "ask_elevated")
    /\ BashLadder[10] = Rung("find_acts", "ask_elevated")
BY DEF BashLadder

LEMMA PowerShellLadderRungs ==
    /\ DOMAIN PowerShellLadder = 1..8
    /\ PowerShellLadder[1] = Rung("unparsed", "ask_elevated")
    /\ PowerShellLadder[2] = Rung("deletes_root", "deny")
    /\ PowerShellLadder[3] = Rung("deletes_tree", "ask_elevated")
    /\ PowerShellLadder[4] = Rung("encoded", "deny")
    /\ PowerShellLadder[5] = Rung("piped_download", "deny")
    /\ PowerShellLadder[6] = Rung("evaluates", "deny")
    /\ PowerShellLadder[7] = Rung("denied", "deny")
    /\ PowerShellLadder[8] = Rung("git_rewrites", "ask_elevated")
BY DEF PowerShellLadder

LEMMA WriteLadderRungs ==
    /\ DOMAIN WriteLadder = 1..7
    /\ WriteLadder[1] = Rung("outside", "deny")
    /\ WriteLadder[2] = Rung("target_outside", "deny")
    /\ WriteLadder[3] = Rung("protected", "deny")
    /\ WriteLadder[4] = Rung("target_protected", "deny")
    /\ WriteLadder[5] = Rung("critical_name", "deny")
    /\ WriteLadder[6] = Rung("sensitive", "ask_elevated")
    /\ WriteLadder[7] = Rung("important", "ask_elevated")
BY DEF WriteLadder

LEMMA ReadLadderRungs ==
    /\ DOMAIN ReadLadder = 1..6
    /\ ReadLadder[1] = Rung("outside", "deny")
    /\ ReadLadder[2] = Rung("target_outside", "deny")
    /\ ReadLadder[3] = Rung("protected", "ask_elevated")
    /\ ReadLadder[4] = Rung("target_protected", "deny")
    /\ ReadLadder[5] = Rung("critical_name", "deny")
    /\ ReadLadder[6] = Rung("sensitive", "ask_elevated")
BY DEF ReadLadder

\* Each rung denies or asks for an elevated consent.
LEMMA LadderRungs ==
    ASSUME NEW c \in Request
    PROVE  /\ DOMAIN Ladder(c) \subseteq 1..10
           /\ \A i \in DOMAIN Ladder(c): Ladder(c)[i].decision \in {"deny", "ask_elevated"}
<1>1. CASE c.tool = "bash"
  <2>1. Ladder(c) = BashLadder
    BY <1>1 DEF Ladder, Writers, Readers
  <2> QED BY <2>1, BashLadderRungs DEF Rung
<1>2. CASE c.tool = "powershell"
  <2>1. Ladder(c) = PowerShellLadder
    BY <1>2 DEF Ladder, Writers, Readers
  <2> QED BY <2>1, PowerShellLadderRungs DEF Rung
<1>3. CASE c.tool \in Writers
  <2>1. Ladder(c) = WriteLadder
    BY <1>3 DEF Ladder, Writers, Readers
  <2> QED BY <2>1, WriteLadderRungs DEF Rung
<1>4. CASE c.tool \in Readers
  <2>1. Ladder(c) = ReadLadder
    BY <1>4 DEF Ladder, Readers, Writers
  <2> QED BY <2>1, ReadLadderRungs DEF Rung
<1>5. CASE c.tool = "other"
  <2>1. Ladder(c) = <<>>
    BY <1>5 DEF Ladder, Readers, Writers
  <2> QED BY <2>1
<1> QED BY <1>1, <1>2, <1>3, <1>4, <1>5 DEF Request

LEMMA FirstIsFirst ==
    ASSUME NEW c \in Request, Found(c) # {}
    PROVE  \E i \in Found(c): FirstRung(c) = Ladder(c)[i] /\ \A j \in Found(c): i <= j
<1>1. Found(c) \subseteq 1..10
  BY LadderRungs DEF Found
<1>2. \E i \in Found(c): \A j \in Found(c): i <= j
  BY <1>1, FirstExists
<1> QED BY <1>2 DEF FirstRung

\* The strongest of some grounds is one of their decisions, none is stricter, and
\* its risk is one of theirs.
LEMMA StrongestIsGround ==
    ASSUME NEW G, G # {}, \A g \in G: g.decision \in Decisions /\ g.risk \in Risks
    PROVE  /\ Strongest(G).decision \in Decisions /\ Strongest(G).risk \in Risks
           /\ \A g \in G: Strictness[g.decision] <= Strictness[Strongest(G).decision]
<1> DEFINE D == {g.decision: g \in G}
           R == {g.risk: g \in G}
<1>1. D \subseteq Decisions /\ R \subseteq Risks /\ D # {} /\ R # {}
  OBVIOUS
<1> HIDE DEF D, R
<1>2. \E d \in D: \A e \in D: Strictness[e] <= Strictness[d]
  <2>1. CASE "deny" \in D BY <1>1, <2>1 DEF Strictness, Decisions
  <2>2. CASE "deny" \notin D /\ "ask_elevated" \in D BY <1>1, <2>2 DEF Strictness, Decisions
  <2>3. CASE "deny" \notin D /\ "ask_elevated" \notin D /\ "ask" \in D
    BY <1>1, <2>3 DEF Strictness, Decisions
  <2>4. CASE D \subseteq {"allow"}
    <3>1. D = {"allow"} BY <1>1, <2>4
    <3> QED BY <3>1 DEF Strictness
  <2> QED BY <1>1, <2>1, <2>2, <2>3, <2>4 DEF Decisions
<1>3. \E r \in R: \A s \in R: AtMost(s, r)
  <2>1. CASE "critical" \in R BY <1>1, <2>1 DEF AtMost, RiskOrder, Risks
  <2>2. CASE "critical" \notin R /\ "high" \in R BY <1>1, <2>2 DEF AtMost, RiskOrder, Risks
  <2>3. CASE "critical" \notin R /\ "high" \notin R /\ "medium" \in R
    BY <1>1, <2>3 DEF AtMost, RiskOrder, Risks
  <2>4. CASE R \subseteq {"safe", "low"} /\ "low" \in R BY <1>1, <2>4 DEF AtMost, RiskOrder
  <2>5. CASE R \subseteq {"safe"}
    <3>1. R = {"safe"} BY <1>1, <2>5
    <3> QED BY <3>1 DEF AtMost, RiskOrder
  <2> QED BY <1>1, <2>1, <2>2, <2>3, <2>4, <2>5 DEF Risks
<1>4. /\ Strongest(G).decision = CHOOSE d \in D: \A e \in D: Strictness[e] <= Strictness[d]
      /\ Strongest(G).risk = CHOOSE r \in R: \A s \in R: AtMost(s, r)
  BY DEF Strongest, Ground, D, R
<1>5. /\ Strongest(G).decision \in D
      /\ \A e \in D: Strictness[e] <= Strictness[Strongest(G).decision]
  BY <1>2, <1>4
<1>6. Strongest(G).risk \in R
  BY <1>3, <1>4
<1>7. \A g \in G: g.decision \in D
  BY DEF D
<1> QED BY <1>1, <1>5, <1>6, <1>7

\* A call has grounds whatever it is, and the rule of a call is a decision, or none
\* for the tools without rules.
LEMMA GroundsAreGrounds ==
    ASSUME NEW c \in Request, c.tool # "other"
    PROVE  /\ Grounds(c) # {}
           /\ \A g \in Grounds(c): g.decision \in Decisions /\ g.risk \in Risks
<1>1. CASE c.tool \in Readers \cup Writers
  <2>1. Grounds(c) = PathGrounds(c)
    BY <1>1 DEF Grounds, Readers, Writers
  <2> QED BY <2>1 DEF PathGrounds, Ground, Decisions, Risks
<1>2. ASSUME NEW g \in BashGrounds(c) PROVE g.decision \in Decisions /\ g.risk \in Risks
  BY DEF BashGrounds, OnlyIf, Ground, Decisions, Risks
<1>3. BashGrounds(c) # {}
  BY DEF BashGrounds
<1>4. CASE c.tool = "bash"
  BY <1>2, <1>3, <1>4 DEF Grounds, Readers, Writers
<1>5. CASE c.tool = "powershell"
  <2>1. Grounds(c) = PowerShellGrounds(c)
    BY <1>5 DEF Grounds, Readers, Writers
  <2>2. \A g \in PowerShellGrounds(c): g \in BashGrounds(c) \/ g = Ground("ask", "medium")
    BY DEF PowerShellGrounds, OnlyIf
  <2>3. PowerShellGrounds(c) # {}
    BY <1>3 DEF PowerShellGrounds
  <2> QED BY <1>2, <2>1, <2>2, <2>3 DEF Ground, Decisions, Risks
<1> QED BY <1>1, <1>4, <1>5 DEF Request

LEMMA RuleDecides ==
    ASSUME NEW c \in Request
    PROVE  /\ RuleOf(c).decision \in Decisions \cup {"none"} /\ RuleOf(c).risk \in Risks
           /\ c.tool # "other" => RuleOf(c).decision # "none"
<1>1. CASE c.tool = "other"
  <2>1. c.head \in Risks
    BY <1>1 DEF Request, Readers, Writers
  <2> QED BY <1>1, <2>1 DEF RuleOf, Ground
<1>2. CASE c.tool # "other" /\ Found(c) # {}
  <2>1. FirstRung(c).decision \in {"deny", "ask_elevated"}
    BY <1>2, FirstIsFirst, LadderRungs DEF Found
  <2>2. RuleOf(c) = Ground(FirstRung(c).decision, "critical")
    BY <1>2 DEF RuleOf
  <2> QED BY <2>1, <2>2 DEF Ground, Decisions, Risks
<1>3. CASE c.tool # "other" /\ Found(c) = {}
  <2>1. RuleOf(c) = Strongest(Grounds(c))
    BY <1>3 DEF RuleOf
  <2> QED BY <1>3, <2>1, GroundsAreGrounds, StrongestIsGround DEF Decisions
<1> QED BY <1>1, <1>2, <1>3

\* A forbidden call is denied: what is found before the mark that denies denies too.
LEMMA ForbiddenIsDenied ==
    ASSUME NEW c \in Request, Forbidden(c)
    PROVE  RuleOf(c).decision = "deny"
<1>1. PICK i \in Denying(c): \A j \in Found(c): i <= j \/ j \in Denying(c)
  BY DEF Forbidden
<1>2. i \in Found(c) /\ Found(c) \subseteq 1..10
  BY LadderRungs DEF Denying, Found
<1>3. PICK k \in Found(c): FirstRung(c) = Ladder(c)[k] /\ \A j \in Found(c): k <= j
  BY <1>2, FirstIsFirst
<1>4. k \in Denying(c)
  BY <1>1, <1>2, <1>3
<1>5. c.tool # "other"
  <2> SUFFICES ASSUME c.tool = "other" PROVE Ladder(c) = <<>>
    BY <1>2 DEF Found
  <2> QED BY DEF Ladder, Readers, Writers
<1>6. RuleOf(c) = Ground(FirstRung(c).decision, "critical")
  BY <1>2, <1>5 DEF RuleOf
<1> QED BY <1>3, <1>4, <1>6 DEF Denying, Ground

-----------------------------------------------------------------------------
(***************************************************************************)
(* The gate, on the rule of a call.                                        *)
(***************************************************************************)
\* The policy of each mode, by risk.
LEMMA PolicyTable ==
    ASSUME NEW r \in Risks
    PROVE  /\ Policy("bypass", r) = "allow"
           /\ r \in {"safe", "low"} => \A m \in Modes: Policy(m, r) = "allow"
           /\ r \notin {"safe", "low"} => Policy("readonly", r) = "deny" /\ Policy("plan", r) = "deny"
           /\ r \in {"medium", "high"} => Policy("default", r) = "ask" /\ Policy("accept_edits", r) = "allow"
           /\ r = "critical" => /\ Policy("default", r) = "ask_elevated"
                                /\ Policy("accept_edits", r) = "ask_elevated"
BY DEF Policy, DeniesRisk, AtMost, AutoAllowMaxRisk, RiskOrder, Risks, Modes

LEMMA PolicyDecides ==
    ASSUME NEW m \in Modes, NEW r \in Risks
    PROVE  Policy(m, r) \in Decisions
BY DEF Policy, Decisions

\* What the gate makes of a rule and of the policy; a rule that binds is not lifted.
LEMMA HardStops ==
    ASSUME NEW m \in Modes, NEW call, call.risk \in Risks, call.rule \in Decisions,
           call.rule # "allow", HardDecision(call)
    PROVE  Combine(m, call) # "allow"
<1>1. Policy(m, call.risk) \in Decisions
  BY PolicyDecides
<1>2. CASE call.rule = "deny"
  BY <1>2 DEF Combine
<1>3. CASE call.rule \in {"ask", "ask_elevated"}
  BY <1>1, <1>3 DEF Combine, Decisions
<1> QED BY <1>2, <1>3 DEF Decisions

\* The gate decides under a mode of the policy, which is the session's but for bypass.
LEMMA GateModeIsKnown ==
    /\ \A m \in Modes: GateMode(m) \in Modes
    /\ GateMode("readonly") = "readonly" /\ GateMode("plan") = "plan"
    /\ GateMode("default") = "default" /\ GateMode("accept_edits") = "accept_edits"
    /\ GateMode("bypass") = "default"
BY DEF GateMode, ResolveMode, NameInGraph, Modes

LEMMA CombineDecides ==
    ASSUME NEW m \in Modes, NEW call, call.risk \in Risks, call.rule \in Decisions \cup {"none"}
    PROVE  Combine(m, call) \in Decisions
<1>1. Policy(m, call.risk) \in Decisions
  BY PolicyDecides
<1> QED BY <1>1 DEF Combine, Stronger, Decisions

\* A mark that a ladder knows is found.
LEMMA MarkIsFound ==
    ASSUME NEW c, NEW i \in DOMAIN Ladder(c), Ladder(c)[i].mark \in c.marks
    PROVE  Found(c) # {}
<1>1. i \in Found(c)
  BY DEF Found
<1> QED BY <1>1

\* A doubtful command, without a mark of its ladder, has a ground to ask.
LEMMA DoubtfulGround ==
    ASSUME NEW c \in Request, c.tool \in {"bash", "powershell"}, Doubtful(c), Found(c) = {}
    PROVE  \E g \in Grounds(c): g.decision = "ask"
<1>1. ~Known(c) \/ "redirect" \in c.marks \/ "chain" \in c.marks
  <2>1. CASE c.tool = "bash"
    <3>1. Ladder(c) = BashLadder
      BY <2>1 DEF Ladder, Writers, Readers
    <3>2. c.marks \subseteq BashMarks /\ (Known(c) => c.marks # {})
      BY <2>1 DEF Request, Doubtful, Readers, Writers
    <3>3. \A mark \in BashMarks \ {"redirect", "chain"}:
             \E i \in DOMAIN BashLadder: BashLadder[i].mark = mark
      BY BashLadderRungs DEF BashMarks, RmMarks, Rung
    <3> QED BY <3>1, <3>2, <3>3, MarkIsFound
  <2>2. CASE c.tool = "powershell"
    <3>1. Ladder(c) = PowerShellLadder
      BY <2>2 DEF Ladder, Writers, Readers
    <3>2. c.marks \subseteq PowerShellMarks /\ (Known(c) => ~(c.marks \subseteq {"pipe"}))
      BY <2>2 DEF Request, Doubtful, Readers, Writers
    <3>3. \A mark \in PowerShellMarks \ {"redirect", "chain", "pipe"}:
             \E i \in DOMAIN PowerShellLadder: PowerShellLadder[i].mark = mark
      BY PowerShellLadderRungs DEF PowerShellMarks, RemoveItemMarks, Rung
    <3> QED BY <3>1, <3>2, <3>3, MarkIsFound
  <2> QED BY <2>1, <2>2
<1>2. \E g \in BashGrounds(c): g.decision = "ask"
  <2>1. Ground("ask", "medium") \in BashGrounds(c) \/ Ground("ask", "high") \in BashGrounds(c)
    BY <1>1 DEF BashGrounds, OnlyIf
  <2> QED BY <2>1 DEF Ground
<1>3. Grounds(c) = BashGrounds(c) \/ Grounds(c) = PowerShellGrounds(c)
  BY DEF Grounds, Readers, Writers
<1> QED BY <1>2, <1>3 DEF PowerShellGrounds

LEMMA DoubtfulPathIsMarked ==
    ASSUME NEW c \in Request, c.tool \in Readers \cup Writers, Doubtful(c)
    PROVE  Found(c) # {}
<1>1. c.marks \subseteq PathMarks
  BY DEF Request, Readers, Writers
<1>2. CASE c.tool \in Writers
  <2>1. Ladder(c) = WriteLadder
    BY <1>2 DEF Ladder, Writers, Readers
  <2>2. c.marks # {}
    BY <1>2 DEF Doubtful, Writers, Readers
  <2>3. \A mark \in PathMarks: \E i \in DOMAIN WriteLadder: WriteLadder[i].mark = mark
    BY WriteLadderRungs DEF PathMarks, TargetMarks, NamedMarks, Rung
  <2> QED BY <1>1, <2>1, <2>2, <2>3, MarkIsFound
<1>3. CASE c.tool \in Readers
  <2>1. Ladder(c) = ReadLadder
    BY <1>3 DEF Ladder, Writers, Readers
  <2>2. c.marks \ {"important"} # {}
    BY <1>3 DEF Doubtful, Writers, Readers
  <2>3. \A mark \in PathMarks \ {"important"}: \E i \in DOMAIN ReadLadder: ReadLadder[i].mark = mark
    BY ReadLadderRungs DEF PathMarks, TargetMarks, NamedMarks, Rung
  <2> QED BY <1>1, <2>1, <2>2, <2>3, MarkIsFound
<1> QED BY <1>2, <1>3

\* In no mode is a doubtful call allowed without a question.
LEMMA DoubtfulIsAsked ==
    ASSUME NEW c \in Request, NEW m \in Modes, Doubtful(c)
    PROVE  Combine(m, Op(c, RuleOf(c))) # "allow"
<1> DEFINE call == Op(c, RuleOf(c))
<1>1. c.tool # "other" /\ c.tool \in {"bash", "powershell"} \cup Readers \cup Writers
  BY DEF Doubtful, Readers, Writers
<1>2. call.tool = c.tool /\ call.rule = RuleOf(c).decision /\ call.risk = RuleOf(c).risk
  BY DEF Op
<1>3. call.rule \in Decisions /\ call.risk \in Risks
  BY <1>1, <1>2, RuleDecides
<1>4. CASE Found(c) # {}
  <2>1. call.rule \in {"deny", "ask_elevated"}
    <3>1. FirstRung(c).decision \in {"deny", "ask_elevated"}
      BY <1>4, FirstIsFirst, LadderRungs DEF Found
    <3> QED BY <1>1, <1>2, <1>4, <3>1 DEF RuleOf, Ground
  <2>2. HardDecision(call)
    BY <2>1 DEF HardDecision
  <2> QED BY <1>3, <2>1, <2>2, HardStops
<1>5. CASE Found(c) = {}
  <2>1. c.tool \in {"bash", "powershell"}
    BY <1>1, <1>5, DoubtfulPathIsMarked
  <2>2. call.rule = Strongest(Grounds(c)).decision
    BY <1>1, <1>2, <1>5 DEF RuleOf
  <2>3. Strictness["ask"] <= Strictness[call.rule]
    BY <1>1, <1>5, <2>1, <2>2, DoubtfulGround, GroundsAreGrounds, StrongestIsGround
  <2>4. call.rule # "allow"
    BY <2>3 DEF Strictness
  <2>5. HardDecision(call)
    BY <1>2, <2>1, <2>4 DEF HardDecision
  <2> QED BY <1>3, <2>4, <2>5, HardStops
<1> QED BY <1>4, <1>5

\* From bypass to readonly and plan each mode is as strict as the one before, for any
\* rule and risk.
LEMMA ModesAreOrdered ==
    ASSUME NEW call, call.risk \in Risks, call.rule \in Decisions \cup {"none"}
    PROVE  /\ Strictness[Combine("readonly", call)] >= Strictness[Combine("default", call)]
           /\ Strictness[Combine("plan", call)] >= Strictness[Combine("default", call)]
           /\ Strictness[Combine("default", call)] >= Strictness[Combine("accept_edits", call)]
           /\ Strictness[Combine("accept_edits", call)] >= Strictness[Combine("bypass", call)]
<1>1. CASE call.risk \in {"safe", "low"}
  <2>1. \A m \in Modes: Combine(m, call) = Combine("default", call)
    BY <1>1, PolicyTable DEF Combine, Stronger, Modes
  <2>2. Combine("default", call) \in Decisions
    BY CombineDecides DEF Modes
  <2> QED BY <2>1, <2>2 DEF Modes, Strictness, Decisions
<1>2. CASE call.risk \in {"medium", "high"}
  <2>1. /\ Policy("readonly", call.risk) = "deny" /\ Policy("plan", call.risk) = "deny"
        /\ Policy("default", call.risk) = "ask" /\ Policy("accept_edits", call.risk) = "allow"
        /\ Policy("bypass", call.risk) = "allow"
    BY <1>2, PolicyTable
  <2>2. CASE call.rule \in {"none", "deny"}
    BY <2>1, <2>2 DEF Combine, Strictness
  <2>3. CASE call.rule = "ask"
    BY <2>1, <2>3 DEF Combine, HardDecision, Strictness, Stronger
  <2>4. CASE call.rule = "allow"
    BY <2>1, <2>4 DEF Combine, HardDecision, Strictness, Stronger
  <2>5. CASE call.rule = "ask_elevated"
    BY <2>1, <2>5 DEF Combine, Strictness
  <2> QED BY <2>2, <2>3, <2>4, <2>5 DEF Decisions
<1>3. CASE call.risk = "critical"
  <2>1. /\ Policy("readonly", call.risk) = "deny" /\ Policy("plan", call.risk) = "deny"
        /\ Policy("default", call.risk) = "ask_elevated"
        /\ Policy("accept_edits", call.risk) = "ask_elevated"
        /\ Policy("bypass", call.risk) = "allow"
    BY <1>3, PolicyTable
  <2>2. CASE call.rule \in {"none", "deny"}
    BY <2>1, <2>2 DEF Combine, Strictness
  <2>3. CASE call.rule = "ask"
    BY <2>1, <2>3 DEF Combine, HardDecision, Strictness, Stronger
  <2>4. CASE call.rule = "allow"
    BY <2>1, <2>4 DEF Combine, HardDecision, Strictness, Stronger
  <2>5. CASE call.rule = "ask_elevated"
    BY <2>1, <2>5 DEF Combine, Strictness
  <2> QED BY <2>2, <2>3, <2>4, <2>5 DEF Decisions
<1> QED BY <1>1, <1>2, <1>3 DEF Risks

-----------------------------------------------------------------------------
(***************************************************************************)
(* The inductive invariant.                                                *)
(***************************************************************************)
\* The call at hand, and its rule.
CallInv ==
    /\ step = "idle" => /\ proposed = NoRequest /\ gate = "none" /\ answer = "none"
                        /\ ~ran /\ ~faults /\ rows = <<>>
    /\ step # "idle" => proposed \in Requests /\ rule = RuleOf(proposed)

Permitted == gate = "allow" \/ (gate \in Asking /\ answer \in {"allow", "always_allow"})

\* The gate's result is about this very call; what runs has it, or the gate raised.
GateInv ==
    /\ gate \in Asking \cup {"allow"} => Combine(GateMode(mode), Op(proposed, rule)) # "deny"
    /\ gate = "allow" => \/ Combine(GateMode(mode), Op(proposed, rule)) = "allow"
                         \/ Key(proposed, rule) \in kept
    /\ gate = "none" /\ step # "idle" => faults
    /\ step = "asked" => gate \in Asking /\ answer = "none"
    /\ step # "asked" /\ gate \in Asking => answer # "none"
    /\ answer # "none" => gate \in Asking
    /\ step \in {"running", "failed"} \/ ran => gate = "none" \/ Permitted
    /\ step \in {"asked", "refused", "running"} => ~ran
    /\ step = "failed" => ran

\* The rows that are due before the call runs or is refused; a line that was torn
\* before this call may have taken the first.
RowsDue == IF answer = "none" THEN {<<>>, <<"policy">>} ELSE {<<"user">>, <<"policy", "user">>}
LastRow == IF ran THEN "executed" ELSE "refused"
Underway == step \in {"asked", "refused", "running", "failed"}

LogInv ==
    /\ Underway /\ ~faults => rows \in RowsDue /\ ~torn
    /\ step = "done" /\ ~faults => \E r \in RowsDue: rows = Append(r, LastRow)
    /\ step = "asked" => Len(rows) <= 1
    /\ \A i \in DOMAIN rows:
          /\ rows[i] = "executed" => ran
          /\ rows[i] = "refused" => ~ran /\ step \notin {"asked", "refused", "running"}
          /\ rows[i] = "user" => answer # "none" /\ i <= 2
          /\ rows[i] = "policy" => i = 1

RulesInv == RulesTypeOK /\ CallInv /\ GateInv /\ LogInv

LEMMA NoRequestIsNone == NoRequest \notin Requests
<1>1. \A c \in Request: c.tool # "none"
  BY DEF Request, Readers, Writers
<1> QED BY <1>1, RulesAssumption DEF RulesAssumption, NoRequest

\* Short sequences, put together.
LEMMA ShortRows ==
    ASSUME NEW x \in Rows, NEW y \in Rows, NEW z \in Rows
    PROVE  /\ Append(<<>>, x) = <<x>> /\ <<x>> \o <<>> = <<x>>
           /\ Append(<<x>>, y) = <<x, y>> /\ <<x>> \o <<y>> = <<x, y>>
           /\ Append(<<x, y>>, z) = <<x, y, z>> /\ <<x, y>> \o <<z>> = <<x, y, z>>
<1>1. <<x>> \in Seq(Rows) /\ <<y>> \in Seq(Rows) /\ <<z>> \in Seq(Rows)
  OBVIOUS
<1>2. <<x, y>> \in Seq(Rows) /\ Len(<<x, y>>) = 2
  OBVIOUS
<1>3. <<x, y, z>> \in Seq(Rows) /\ Len(<<x, y, z>>) = 3
  OBVIOUS
<1>4. Append(<<>>, x) = <<x>> /\ <<x>> \o <<>> = <<x>>
  BY <1>1, ConcatEmptySeq
<1>5. Append(<<x>>, y) = <<x, y>>
  <2>1. /\ Append(<<x>>, y) \in Seq(Rows) /\ Len(Append(<<x>>, y)) = 2
        /\ Append(<<x>>, y)[1] = x /\ Append(<<x>>, y)[2] = y
    BY <1>1, AppendProperties
  <2>2. \A i \in 1..2: Append(<<x>>, y)[i] = <<x, y>>[i]
    BY <2>1
  <2> QED BY <1>2, <2>1, <2>2, SeqEqual
<1>6. Append(<<x, y>>, z) = <<x, y, z>>
  <2> DEFINE s == Append(<<x, y>>, z)
  <2>1. s \in Seq(Rows) /\ Len(s) = 3 /\ s[1] = x /\ s[2] = y /\ s[3] = z
    BY <1>2, AppendProperties
  <2>2. \A i \in 1..3: s[i] = <<x, y, z>>[i]
    BY <2>1
  <2> HIDE DEF s
  <2>3. s = <<x, y, z>>
    BY <1>3, <2>1, <2>2, SeqEqual
  <2> QED BY <2>3 DEF s
<1>7. Append(<<x>>, y) = <<x>> \o <<y>> /\ Append(<<x, y>>, z) = <<x, y>> \o <<z>>
  BY <1>1, <1>2, AppendIsConcat
<1> QED BY <1>4, <1>5, <1>6, <1>7

\* What a write to the log, or a failed one, does to the rows.
LEMMA WrittenRows ==
    ASSUME rows \in Seq(Rows), torn \in BOOLEAN, faults \in BOOLEAN,
           NEW row \in Rows, Writes(row) \/ WriteFails
    PROVE  /\ rows' \in Seq(Rows) /\ torn' \in BOOLEAN /\ faults' \in BOOLEAN
           /\ rows' = rows \/ (Writes(row) /\ ~torn /\ rows' = Append(rows, row))
           /\ Len(rows') <= Len(rows) + 1
           /\ \A i \in DOMAIN rows': \/ i \in DOMAIN rows /\ rows'[i] = rows[i]
                                     \/ i = Len(rows) + 1 /\ rows'[i] = row
<1>1. /\ torn' \in BOOLEAN /\ faults' \in BOOLEAN
      /\ rows' = rows \/ (Writes(row) /\ ~torn /\ rows' = Append(rows, row))
  BY DEF Writes, WriteFails
<1>2. CASE rows' = rows
  BY <1>1, <1>2, LenProperties
<1>3. CASE rows' = Append(rows, row)
  <2>1. /\ Append(rows, row) \in Seq(Rows)
        /\ Len(Append(rows, row)) = Len(rows) + 1
        /\ \A i \in 1..Len(rows): Append(rows, row)[i] = rows[i]
        /\ Append(rows, row)[Len(rows) + 1] = row
    BY AppendProperties
  <2>2. DOMAIN Append(rows, row) = 1..(Len(rows) + 1) /\ DOMAIN rows = 1..Len(rows) /\ Len(rows) \in Nat
    BY <2>1, LenProperties
  <2>3. /\ rows' \in Seq(Rows) /\ Len(rows') <= Len(rows) + 1
        /\ DOMAIN rows' = 1..(Len(rows) + 1)
    BY <1>3, <2>1, <2>2
  <2>4. ASSUME NEW i \in 1..(Len(rows) + 1)
        PROVE  \/ i \in DOMAIN rows /\ rows'[i] = rows[i]
               \/ i = Len(rows) + 1 /\ rows'[i] = row
    <3>1. CASE i = Len(rows) + 1
      BY <1>3, <2>1, <3>1
    <3>2. CASE i # Len(rows) + 1
      <4>1. i \in 1..Len(rows)
        BY <2>2, <3>2
      <4> QED BY <1>3, <2>1, <2>2, <4>1
    <3> QED BY <3>1, <3>2
  <2> QED BY <1>1, <2>3, <2>4
<1> QED BY <1>1, <1>2, <1>3

LEMMA RulesInvInit == RulesInit => RulesInv
<1> SUFFICES ASSUME RulesInit PROVE RulesInv
  OBVIOUS
<1>1. RulesTypeOK
  <2>1. Cardinality(kept) = 0 /\ MaxKept \in Nat
    BY FS_EmptySet, RulesAssumption DEF RulesInit, RulesAssumption
  <2>2. rule.risk \in Risks /\ rows \in Seq(Rows)
    BY DEF RulesInit, NoRule, Ground, Risks
  <2>3. {ran, torn, faults} \subseteq BOOLEAN
    BY Zenon DEF RulesInit
  <2> QED BY <2>1, <2>2, <2>3 DEF RulesInit, RulesTypeOK
<1>2. CallInv
  BY DEF RulesInit, CallInv
<1>3. GateInv
  BY DEF RulesInit, GateInv, Asking
<1>4. LogInv
  BY DEF RulesInit, LogInv, Underway
<1> QED BY <1>1, <1>2, <1>3, <1>4 DEF RulesInv

\* The parts of RulesTypeOK, with Booleans one by one.
LogTypes == torn \in BOOLEAN /\ faults \in BOOLEAN /\ ran \in BOOLEAN /\ rows \in Seq(Rows)

LEMMA TypesSplit ==
    /\ RulesTypeOK => LogTypes
    /\ RulesTypeOK' => LogTypes'
    /\ LogTypes' => {ran, torn, faults}' \subseteq BOOLEAN /\ (rows \in Seq(Rows))'
BY Zenon DEF RulesTypeOK, LogTypes

LEMMA PutKeeps == ASSUME RulesInv, NEW c \in Requests, Put(c) PROVE RulesInv'
<1> USE DEF RulesInv
<1>0. c \in Request /\ mode \in Modes
  BY RulesAssumption DEF RulesAssumption, RulesTypeOK
<1>1. /\ step = "idle" /\ rows = <<>> /\ ~faults /\ ~ran /\ answer = "none"
      /\ proposed' = c /\ rule' = RuleOf(c) /\ ran' = ran /\ answer' = answer
      /\ mode' = mode /\ kept' = kept
      /\ Writes("policy") \/ WriteFails
  BY DEF Put, CallInv
<1> DEFINE call == Op(c, RuleOf(c))
<1>2. call.rule \in Decisions \cup {"none"} /\ call.risk \in Risks
  BY <1>0, RuleDecides DEF Op
<1>3. Combine(GateMode(mode), call) \in Decisions
  BY <1>0, <1>2, CombineDecides, GateModeIsKnown
<1>4. /\ gate' = "none" \/ gate' = Decision(c, RuleOf(c))
      /\ Decision(c, RuleOf(c)) \in Decisions
      /\ Decision(c, RuleOf(c)) \in Asking \cup {"allow"} => Combine(GateMode(mode), call) # "deny"
      /\ Decision(c, RuleOf(c)) = "allow" =>
            Combine(GateMode(mode), call) = "allow" \/ Key(c, RuleOf(c)) \in kept
  BY <1>1, <1>3 DEF Put, Decision, Decisions, Asking
<1>5. /\ gate' \in Asking => step' = "asked"
      /\ gate' = "deny" => step' = "refused"
      /\ gate' \in {"allow", "none"} => step' = "running"
      /\ gate' \in Asking \cup {"deny", "allow", "none"}
  BY <1>4 DEF Put, Asking, Decisions
<1>6. LogTypes'
  BY <1>1, TypesSplit, WrittenRows DEF LogTypes, Rows
<1>7. RulesTypeOK'
  <2>1. {ran, torn, faults}' \subseteq BOOLEAN /\ (rows \in Seq(Rows))'
    BY <1>6, TypesSplit
  <2>2. rule'.risk \in Risks
    BY <1>0, <1>1, RuleDecides
  <2>3. step' \in {"asked", "refused", "running"} /\ gate' \in Decisions \cup {"none"}
    BY <1>5 DEF Asking, Decisions
  <2> QED BY <1>1, <2>1, <2>2, <2>3 DEF RulesTypeOK
<1>8. CallInv'
  BY <1>1, <1>5 DEF CallInv
<1>9. GateInv'
  <2>1. gate' = "none" => faults'
    BY <1>4 DEF Put, WriteFails, Decisions
  <2> QED BY <1>1, <1>4, <1>5, <2>1 DEF GateInv, Permitted, Asking
<1>10. LogInv'
  <2>1. rows' \in {<<>>, <<"policy">>}
    <3>1. Append(<<>>, "policy") = <<"policy">>
      BY ShortRows DEF Rows
    <3> QED BY <1>1, <3>1 DEF Writes, WriteFails
  <2>2. ~faults' => ~torn'
    BY <1>1 DEF Writes, WriteFails
  <2>3. step' # "done"
    BY <1>5
  <2>4. RowsDue' = {<<>>, <<"policy">>}
    BY <1>1 DEF RowsDue
  <2>5. /\ Len(rows') <= 1
        /\ \A i \in DOMAIN rows': rows'[i] = "policy" /\ i = 1
    BY <2>1
  <2> QED BY <2>1, <2>2, <2>3, <2>4, <2>5 DEF LogInv
<1> QED BY <1>7, <1>8, <1>9, <1>10

LEMMA RefuseKeeps == ASSUME RulesInv, Refuse PROVE RulesInv'
<1> USE DEF RulesInv
<1>1. /\ step = "refused" /\ step' \in {"done", "raised"} /\ ~ran
      /\ UNCHANGED <<mode, kept, requestVars>>
      /\ Writes("refused") \/ WriteFails
      /\ step' = "done" => Writes("refused")
  <2>1. step = "refused" => ~ran
    BY DEF GateInv
  <2>2. step' = "done" => Writes("refused")
    BY DEF Refuse
  <2> QED BY <2>1, <2>2 DEF Refuse
<1>2. LogTypes'
  BY <1>1, TypesSplit, WrittenRows DEF LogTypes, Rows, requestVars
<1>3. RulesTypeOK'
  <2>1. {ran, torn, faults}' \subseteq BOOLEAN /\ (rows \in Seq(Rows))'
    BY <1>2, TypesSplit
  <2> QED BY <1>1, <2>1 DEF RulesTypeOK, requestVars
<1>4. CallInv'
  BY <1>1 DEF CallInv, requestVars
<1>5. GateInv'
  <2>1. gate = "none" => faults'
    <3>1. gate = "none" => faults
      BY <1>1 DEF GateInv
    <3>2. faults => faults'
      BY <1>1 DEF Writes, WriteFails
    <3> QED BY <3>1, <3>2
  <2> QED BY <1>1, <2>1 DEF GateInv, requestVars, Permitted
<1>6. LogInv'
  <2>1. LogTypes
    BY TypesSplit
  <2>2. step' = "done" /\ ~faults' => rows \in RowsDue /\ ~torn
    BY <1>1 DEF LogInv, Underway, Writes
  <2>3. step' = "done" /\ ~faults' => \E r \in RowsDue': rows' = Append(r, LastRow')
    <3>1. RowsDue' = RowsDue /\ (~ran => LastRow' = "refused")
      BY <1>1 DEF RowsDue, LastRow, requestVars
    <3> QED BY <1>1, <2>2, <3>1 DEF Writes
  <2>4. \A i \in DOMAIN rows': (i \in DOMAIN rows /\ rows'[i] = rows[i]) \/ rows'[i] = "refused"
    BY <1>1, <2>1, WrittenRows DEF LogTypes, Rows
  <2> QED BY <1>1, <2>3, <2>4 DEF LogInv, Underway, requestVars
<1> QED BY <1>3, <1>4, <1>5, <1>6

LEMMA AnswerKeeps == ASSUME RulesInv, NEW a \in UserChoices, UserAnswers(a) PROVE RulesInv'
<1> USE DEF RulesInv
<1>1. /\ step = "asked" /\ answer' = a /\ answer = "none" /\ gate \in Asking /\ ~ran
      /\ UNCHANGED <<mode, proposed, rule, gate, ran>>
      /\ Writes("user") \/ WriteFails
      /\ step' \in {"refused", "running"} => Writes("user")
      /\ step' = "running" => a # "deny"
      /\ step' \in {"refused", "running", "raised"}
      /\ kept \subseteq kept'
      /\ a # "none"
  <2>1. step = "asked" => answer = "none" /\ gate \in Asking /\ ~ran
    BY DEF GateInv
  <2>2. a # "none"
    BY DEF UserChoices
  <2> QED BY <2>1, <2>2 DEF UserAnswers
<1>2. LogTypes'
  BY <1>1, TypesSplit, WrittenRows DEF LogTypes, Rows
<1>3. RulesTypeOK'
  <2>1. {ran, torn, faults}' \subseteq BOOLEAN /\ (rows \in Seq(Rows))'
    BY <1>2, TypesSplit
  <2>2. Cardinality(kept') <= MaxKept
    BY DEF UserAnswers
  <2> QED BY <1>1, <2>1, <2>2 DEF RulesTypeOK
<1>4. CallInv'
  BY <1>1 DEF CallInv
<1>5. GateInv'
  BY <1>1 DEF GateInv, Permitted, UserChoices, Asking, Key
<1>6. LogInv'
  <2>1. LogTypes
    BY TypesSplit
  <2>2. Len(rows) <= 1 /\ (~faults => rows \in {<<>>, <<"policy">>} /\ ~torn)
    BY <1>1 DEF LogInv, Underway, RowsDue
  <2>3. ~faults' /\ step' \in {"refused", "running"} => rows' \in RowsDue' /\ ~torn'
    <3> SUFFICES ASSUME ~faults', step' \in {"refused", "running"} PROVE rows' \in RowsDue' /\ ~torn'
      OBVIOUS
    <3>1. Writes("user") /\ ~faults /\ rows' = Append(rows, "user") /\ ~torn'
      BY <1>1, <2>2 DEF Writes
    <3>2. RowsDue' = {<<"user">>, <<"policy", "user">>}
      BY <1>1 DEF RowsDue
    <3>3. Append(<<>>, "user") = <<"user">> /\ Append(<<"policy">>, "user") = <<"policy", "user">>
      BY ShortRows DEF Rows
    <3> QED BY <2>2, <3>1, <3>2, <3>3
  <2>4. \A i \in DOMAIN rows': \/ i \in DOMAIN rows /\ rows'[i] = rows[i]
                               \/ rows'[i] = "user" /\ i = Len(rows) + 1
    BY <1>1, <2>1, WrittenRows DEF LogTypes, Rows
  <2>5. Len(rows) \in Nat
    BY <2>1, LenProperties DEF LogTypes
  <2>6. \A i \in DOMAIN rows: rows[i] # "refused"
    BY <1>1 DEF LogInv
  <2>7. \A i \in DOMAIN rows': rows'[i] = "user" => i <= 2
    BY <2>2, <2>4, <2>5 DEF LogInv
  <2> QED BY <1>1, <2>3, <2>4, <2>6, <2>7 DEF LogInv, Underway
<1> QED BY <1>3, <1>4, <1>5, <1>6

\* A write of the execution's row, or a failed one, once the call runs.
LEMMA ExecutedIsWritten ==
    ASSUME RulesInv, step \in {"running", "failed"}, ran' = TRUE, answer' = answer,
           step' \in {"done", "failed", "raised"},
           (Writes("executed") /\ step' = "done") \/ (WriteFails /\ step' # "done")
    PROVE  LogTypes' /\ LogInv'
<1> USE DEF RulesInv
<1>1. LogTypes
  BY TypesSplit
<1>2. LogTypes'
  BY <1>1, WrittenRows DEF LogTypes, Rows
<1>3. ~faults' => step' = "done"
  BY DEF WriteFails
<1>4. step' = "done" /\ ~faults' => \E r \in RowsDue': rows' = Append(r, LastRow')
  <2>1. step' = "done" => Writes("executed")
    OBVIOUS
  <2>2. step' = "done" /\ ~faults' => rows \in RowsDue /\ ~torn
    BY <2>1 DEF LogInv, Underway, Writes
  <2>3. RowsDue' = RowsDue /\ LastRow' = "executed"
    BY DEF RowsDue, LastRow
  <2> QED BY <2>1, <2>2, <2>3 DEF Writes
<1>5. \A i \in DOMAIN rows': (i \in DOMAIN rows /\ rows'[i] = rows[i]) \/ rows'[i] = "executed"
  BY <1>1, WrittenRows DEF LogTypes, Rows
<1>6. \A i \in DOMAIN rows: rows[i] = "refused" => step = "failed" /\ ~ran
  BY DEF LogInv
<1>7. step = "failed" => ran
  BY DEF GateInv
<1>8. LogInv'
  BY <1>3, <1>4, <1>5, <1>6, <1>7 DEF LogInv, Underway
<1> QED BY <1>2, <1>8

LEMMA RunKeeps == ASSUME RulesInv, Run PROVE RulesInv'
<1> USE DEF RulesInv
<1>1. /\ step = "running" /\ ran' = TRUE /\ step' \in {"done", "failed"}
      /\ UNCHANGED <<mode, kept, proposed, rule, gate, answer>>
      /\ gate = "none" \/ Permitted
  BY DEF Run, GateInv
<1>2. LogTypes' /\ LogInv'
  <2>1. CASE gate = "none"
    <3>1. step' = "done" /\ UNCHANGED logVars
      BY <2>1 DEF Run
    <3>2. faults' /\ LogTypes'
      <4>1. faults
        BY <1>1, <2>1 DEF GateInv
      <4> QED BY <1>1, <3>1, <4>1, TypesSplit DEF LogTypes, logVars
    <3>3. \A i \in DOMAIN rows: rows[i] # "refused"
      BY <1>1 DEF LogInv
    <3> QED BY <1>1, <3>1, <3>2, <3>3 DEF LogInv, Underway, logVars
  <2>2. CASE gate # "none"
    <3>1. (Writes("executed") /\ step' = "done") \/ (WriteFails /\ step' = "failed")
      BY <2>2 DEF Run
    <3> QED BY <1>1, <3>1, ExecutedIsWritten
  <2> QED BY <2>1, <2>2
<1>3. RulesTypeOK'
  <2>1. {ran, torn, faults}' \subseteq BOOLEAN /\ (rows \in Seq(Rows))'
    BY <1>2, TypesSplit
  <2> QED BY <1>1, <2>1 DEF RulesTypeOK
<1>4. CallInv'
  BY <1>1 DEF CallInv
<1>5. GateInv'
  <2>1. gate = "none" => faults'
    <3>1. gate = "none" => faults /\ UNCHANGED logVars
      BY <1>1 DEF GateInv, Run
    <3> QED BY <3>1 DEF logVars
  <2> QED BY <1>1, <2>1 DEF GateInv, Permitted
<1> QED BY <1>2, <1>3, <1>4, <1>5

LEMMA AuditFailureKeeps == ASSUME RulesInv, AuditFailure PROVE RulesInv'
<1> USE DEF RulesInv
<1>1. /\ step = "failed" /\ ran /\ step' \in {"done", "raised"}
      /\ UNCHANGED <<mode, kept, requestVars>>
      /\ (Writes("executed") /\ step' = "done") \/ (WriteFails /\ step' = "raised")
  BY DEF AuditFailure, GateInv
<1>2. ran' = TRUE /\ answer' = answer
  <2>1. ran \in BOOLEAN
    BY TypesSplit DEF LogTypes
  <2> QED BY <1>1, <2>1 DEF requestVars
<1>3. LogTypes' /\ LogInv'
  BY <1>1, <1>2, ExecutedIsWritten
<1>4. RulesTypeOK'
  <2>1. {ran, torn, faults}' \subseteq BOOLEAN /\ (rows \in Seq(Rows))'
    BY <1>3, TypesSplit
  <2> QED BY <1>1, <2>1 DEF RulesTypeOK, requestVars
<1>5. CallInv'
  BY <1>1 DEF CallInv, requestVars
<1>6. GateInv'
  <2>1. gate = "none" => faults'
    <3>1. gate = "none" => faults
      BY <1>1 DEF GateInv
    <3>2. faults => faults'
      BY <1>1 DEF Writes, WriteFails
    <3> QED BY <3>1, <3>2
  <2> QED BY <1>1, <2>1 DEF GateInv, Permitted, requestVars
<1> QED BY <1>3, <1>4, <1>5, <1>6

LEMMA ForgetKeeps == ASSUME RulesInv, Forget PROVE RulesInv'
<1> USE DEF RulesInv, Forget
<1>1. RulesTypeOK'
  <2>1. LogTypes'
    <3>1. torn' \in BOOLEAN
      BY TypesSplit DEF LogTypes
    <3>2. rows' \in Seq(Rows)
      BY EmptySeq
    <3> QED BY <3>1, <3>2 DEF LogTypes
  <2>2. {ran, torn, faults}' \subseteq BOOLEAN /\ (rows \in Seq(Rows))'
    BY <2>1, TypesSplit
  <2> QED BY <2>2 DEF RulesTypeOK, NoRule, Ground, Risks
<1>2. CallInv'
  BY DEF CallInv
<1>3. GateInv'
  BY DEF GateInv, Asking
<1>4. LogInv'
  BY DEF LogInv, Underway
<1> QED BY <1>1, <1>2, <1>3, <1>4

LEMMA RulesInvNext == RulesInv /\ [RulesNext]_ruleVars => RulesInv'
<1> SUFFICES ASSUME RulesInv, [RulesNext]_ruleVars PROVE RulesInv'
  OBVIOUS
<1>1. CASE RulesNext
  BY <1>1, PutKeeps, RefuseKeeps, AnswerKeeps, RunKeeps, AuditFailureKeeps, ForgetKeeps
  DEF RulesNext
<1>2. CASE UNCHANGED ruleVars
  BY <1>2 DEF RulesInv, RulesTypeOK, CallInv, GateInv, LogInv, Permitted, RowsDue, LastRow,
              Underway, ruleVars, requestVars, logVars
<1> QED BY <1>1, <1>2

-----------------------------------------------------------------------------
(***************************************************************************)
(* What the invariant means.                                               *)
(***************************************************************************)
LEMMA InvConsent == RulesInv => ConsentComesFirst
<1> SUFFICES ASSUME RulesInv, ran, gate # "none"
             PROVE  /\ ~Forbidden(proposed)
                    /\ Doubtful(proposed) => answer \in {"allow", "always_allow"}
                          \/ \E k \in kept: k.tool = proposed.tool /\ k.target = Target(proposed)
  BY DEF ConsentComesFirst
<1> USE DEF RulesInv
<1>1. Permitted /\ Combine(GateMode(mode), Op(proposed, rule)) # "deny"
  BY DEF GateInv, Permitted
<1>2. proposed \in Request /\ rule = RuleOf(proposed) /\ mode \in Modes
  BY RulesAssumption DEF RulesAssumption, CallInv, RulesTypeOK
<1>3. ~Forbidden(proposed)
  BY <1>1, <1>2, ForbiddenIsDenied DEF Combine, Op
<1>4. ASSUME Doubtful(proposed), answer \notin {"allow", "always_allow"}
      PROVE  \E k \in kept: k.tool = proposed.tool /\ k.target = Target(proposed)
  <2>1. Combine(GateMode(mode), Op(proposed, rule)) # "allow"
    BY <1>2, <1>4, DoubtfulIsAsked, GateModeIsKnown
  <2>2. Key(proposed, rule) \in kept
    BY <1>1, <1>4, <2>1 DEF GateInv, Permitted
  <2> QED BY <2>2 DEF Key
<1> QED BY <1>3, <1>4

LEMMA InvStricter == RulesInv => StricterIsStricter
<1> SUFFICES ASSUME RulesInv, proposed # NoRequest PROVE StricterIsStricter
  BY DEF StricterIsStricter
<1>1. proposed \in Request /\ rule = RuleOf(proposed)
  BY RulesAssumption DEF RulesAssumption, RulesInv, CallInv
<1> DEFINE call == Op(proposed, rule)
<1>2. call.rule \in Decisions \cup {"none"} /\ call.risk \in Risks
  BY <1>1, RuleDecides DEF Op
<1> HIDE DEF call
<1>3. /\ Strictness[Combine("readonly", call)] >= Strictness[Combine("default", call)]
      /\ Strictness[Combine("plan", call)] >= Strictness[Combine("default", call)]
      /\ Strictness[Combine("default", call)] >= Strictness[Combine("accept_edits", call)]
      /\ Strictness[Combine("accept_edits", call)] >= Strictness[Combine("bypass", call)]
  BY <1>2, ModesAreOrdered
<1> QED BY <1>3, GateModeIsKnown DEF StricterIsStricter, call

LEMMA InvAudit == RulesInv => AuditIsTrue
<1> SUFFICES ASSUME RulesInv PROVE AuditIsTrue
  OBVIOUS
<1> USE DEF RulesInv
<1>1. ASSUME step = "done", ~faults PROVE rows \in {Story, Tail(Story)}
  <2>1. PICK r \in RowsDue: rows = Append(r, LastRow)
    BY <1>1 DEF LogInv
  <2>2. LastRow \in Rows
    BY DEF LastRow, Rows
  <2>3. CASE gate \in Asking
    <3>1. r \in {<<"user">>, <<"policy", "user">>}
      BY <1>1, <2>3 DEF GateInv, RowsDue
    <3>2. rows \in {<<"user", LastRow>>, <<"policy", "user", LastRow>>}
      BY <2>1, <2>2, <3>1, ShortRows, ZenonT(40) DEF Rows
    <3>3. Story = <<"policy", "user", LastRow>>
      <4>1. Story = (<<"policy">> \o <<"user">>) \o <<LastRow>>
        BY <2>3 DEF Story, LastRow
      <4>2. {"policy", "user", LastRow} \subseteq Rows
        BY DEF Rows, LastRow
      <4>3. /\ <<"policy">> \o <<"user">> = <<"policy", "user">>
            /\ <<"policy", "user">> \o <<LastRow>> = <<"policy", "user", LastRow>>
        BY <4>2, ShortRows
      <4> QED BY <4>1, <4>3
    <3>4. Tail(<<"policy", "user", LastRow>>) = <<"user", LastRow>>
      BY <2>2
    <3> QED BY <3>2, <3>3, <3>4
  <2>4. CASE gate \notin Asking
    <3>1. r \in {<<>>, <<"policy">>}
      BY <2>4 DEF GateInv, RowsDue
    <3>2. rows \in {<<LastRow>>, <<"policy", LastRow>>}
      BY <2>1, <2>2, <3>1, ShortRows, ZenonT(40) DEF Rows
    <3>3. Story = <<"policy", LastRow>>
      <4>1. Story = (<<"policy">> \o <<>>) \o <<LastRow>>
        BY <2>4 DEF Story, LastRow
      <4> QED BY <2>2, <4>1, ShortRows DEF Rows
    <3>4. Tail(<<"policy", LastRow>>) = <<LastRow>>
      BY <2>2
    <3> QED BY <3>2, <3>3, <3>4
  <2> QED BY <2>3, <2>4
<1> QED BY <1>1 DEF AuditIsTrue, LogInv

\* permission_check, execute_tool_node and the audit log, for any calls, mode, answers
\* and failed writes: what a ladder denies never runs, what is doubtful runs only with
\* the user's word for that very target, a stricter mode stops no less, and the rows
\* that can be read are what happened, in order.
THEOREM ConsentHolds == Spec => []ConsentIsAsked
<1>1. RulesInv => ConsentIsAsked
  BY InvConsent, InvStricter, InvAudit DEF ConsentIsAsked, RulesInv
<1>2. Init => RulesInv
  BY RulesInvInit DEF Init
<1>3. [Next]_vars => [RulesNext]_ruleVars
  BY DEF Next, AtPrompt, AtRules, AtFiles, vars
<1>4. RulesInv /\ [Next]_vars => RulesInv'
  BY <1>3, RulesInvNext
<1> QED BY <1>1, <1>2, <1>4, PTL DEF Spec

-----------------------------------------------------------------------------
(***************************************************************************)
(* The prompt.                                                             *)
(***************************************************************************)
Boxes == Texts \cup {Empty}
Messages == [about: {"changed", "up", "down", "submitted"}, text: Boxes]

PromptTypes ==
    /\ typed \in Boxes /\ mail \in Seq(Messages)
    /\ selected \in Nat /\ drawn.at \in Nat

IsChanged(i) == mail[i].about = "changed"
IsSubmitted(i) == mail[i].about = "submitted"

\* With no change of the text waiting, what is drawn is what the text in the box suggests.
DrawnAnew ==
    (\A i \in DOMAIN mail: ~IsChanged(i)) => drawn.rows = Matches(typed) /\ drawn.at = selected

\* The box is cleared as its text is handed in, and nothing comes between.
ClearedAfter ==
    \A i \in DOMAIN mail: IsSubmitted(i) =>
        /\ i + 1 \in DOMAIN mail /\ mail[i + 1] = Message("changed")
        /\ mail[i].text \in Texts

\* As long as no key was pressed since the last text was handed in, the box is empty; and
\* if nothing else is drawn before it is handled, its own suggestions are, or none.
HandedIn ==
    \A i \in DOMAIN mail: IsSubmitted(i) /\ i + 1 = Len(mail) =>
        /\ typed = Empty
        /\ (\A j \in 1..(i - 1): ~IsChanged(j))
              => \/ drawn = Hidden
                 \/ drawn.rows = Matches(mail[i].text) /\ drawn.at = selected

\* A suggestion that ran was the highlighted one.
RanOffered ==
    did.by = "enter" /\ did.alone /\ IsSlash(did.text) /\ ~IsKnown(did.text)
          /\ did.what \notin {"refused", "unknown", "turn"} /\ did.offered # NoCommand
       => did.what = did.offered

PromptInv == PromptTypes /\ DrawnAnew /\ ClearedAfter /\ HandedIn

\* What matches is a list, however many places there are.
LEMMA MatchesAreRows ==
    ASSUME NEW text \in Boxes
    PROVE  Len(Matches(text)) \in Nat /\ (Matches(text) = <<>> \/ Len(Matches(text)) > 0)
<1> DEFINE h == Cardinality(Hits(text))
           f == [k \in 1..h |-> Commands[CHOOSE i \in Hits(text):
                                   Cardinality({j \in Hits(text): j < i}) = k - 1]]
           n == Least(h, MaxRows)
<1>1. Hits(text) \subseteq 1..Len(Commands) /\ Len(Commands) \in Nat
  <2>1. Commands \in Seq(CommandSet)
    BY TextAssumption DEF TextAssumption
  <2> QED BY <2>1 DEF Hits
<1>2. h \in Nat
  <2>1. IsFiniteSet(1..Len(Commands))
    BY <1>1, FS_Interval
  <2>2. IsFiniteSet(Hits(text))
    BY <1>1, <2>1, FS_Subset
  <2> QED BY <2>2, FS_CardinalityType
<1>3. n \in 0..h
  BY <1>2, TextAssumption DEF Least, TextAssumption
<1>4. CASE IsSlash(text)
  <2>1. Matches(text) = SubSeq(f, 1, n)
    BY <1>4 DEF Matches, InOrder
  <2>2. SubSeq(f, 1, n) = [i \in 1..n |-> f[i]]
    BY <1>2, <1>3
  <2> HIDE DEF f, n
  <2>3. /\ Len([i \in 1..n |-> f[i]]) = n
        /\ n = 0 => [i \in 1..n |-> f[i]] = <<>>
    BY <1>3
  <2> QED BY <1>3, <2>1, <2>2, <2>3
<1>5. CASE ~IsSlash(text)
  BY <1>5 DEF Matches
<1> QED BY <1>4, <1>5

LEMMA NothingMatches == Matches(Empty) = <<>> /\ Empty \notin Texts
BY TextAssumption DEF Matches, IsSlash, Empty, TextAssumption

LEMMA PromptInvInit == PromptInit => PromptInv /\ RanOffered
BY NothingMatches DEF PromptInit, PromptInv, PromptTypes, DrawnAnew, ClearedAfter, HandedIn,
                      RanOffered, Boxes, Hidden, Nothing

LEMMA Posted ==
    ASSUME PromptTypes, NEW t, NEW s \in Seq(Messages), Typed(t, s)
    PROVE  /\ mail' \in Seq(Messages) /\ Len(mail') = Len(mail) + Len(s)
           /\ \A i \in 1..Len(mail): mail'[i] = mail[i]
           /\ \A i \in 1..Len(s): mail'[Len(mail) + i] = s[i]
<1>1. mail \in Seq(Messages) /\ mail' = mail \o s
  BY DEF PromptTypes, Typed
<1> QED BY <1>1, ConcatProperties

LEMMA Handled ==
    ASSUME PromptTypes, NEW m, Handles(m)
    PROVE  /\ mail' \in Seq(Messages) /\ Len(mail') = Len(mail) - 1 /\ Len(mail) > 0
           /\ mail[1] = m
           /\ \A i \in 1..Len(mail'): mail'[i] = mail[i + 1]
<1>1. mail \in Seq(Messages) /\ mail # <<>> /\ Head(mail) = m /\ mail' = Tail(mail)
  BY DEF PromptTypes, Handles
<1> QED BY <1>1, HeadTailProperties

LEMMA MessagesAre ==
    ASSUME NEW text \in Boxes
    PROVE  /\ \A about \in {"changed", "up", "down"}: Message(about) \in Messages
           /\ Submission(text) \in Messages
           /\ \A about \in {"changed", "up", "down"}: Message(about).about = about
           /\ Submission(text).about = "submitted" /\ Submission(text).text = text
BY DEF Message, Submission, Messages, Boxes

\* A text typed, or a key pressed: one more message, which no submission is.
LEMMA OneMoreKeeps ==
    ASSUME PromptInv, NEW text \in Boxes, NEW about \in {"changed", "up", "down"},
           Typed(text, <<Message(about)>>), about = "changed" \/ text = typed,
           UNCHANGED <<drawn, selected>>
    PROVE  PromptInv'
<1> DEFINE s == <<Message(about)>>
<1> USE DEF PromptInv
<1>1. s \in Seq(Messages) /\ Len(s) = 1 /\ s[1] = Message(about)
  BY MessagesAre
<1>2. /\ mail \in Seq(Messages) /\ mail' \in Seq(Messages) /\ Len(mail) \in Nat
      /\ Len(mail') = Len(mail) + 1
      /\ DOMAIN mail = 1..Len(mail) /\ DOMAIN mail' = 1..(Len(mail) + 1)
      /\ \A i \in 1..Len(mail): mail'[i] = mail[i]
      /\ mail'[Len(mail) + 1] = Message(about)
  <2>1. /\ mail' \in Seq(Messages) /\ Len(mail') = Len(mail) + 1
        /\ \A i \in 1..Len(mail): mail'[i] = mail[i]
        /\ mail'[Len(mail) + 1] = Message(about)
    <3>1. Typed(text, s)
      OBVIOUS
    <3> HIDE DEF s
    <3>2. /\ mail' \in Seq(Messages) /\ Len(mail') = Len(mail) + Len(s)
          /\ \A i \in 1..Len(mail): mail'[i] = mail[i]
          /\ \A i \in 1..Len(s): mail'[Len(mail) + i] = s[i]
      BY <1>1, <3>1, Posted
    <3>3. 1 \in 1..Len(s)
      BY <1>1
    <3> QED BY <1>1, <3>2, <3>3
  <2> QED BY <2>1 DEF PromptTypes
<1>3. Message(about).about = about
  BY MessagesAre
<1>4. PromptTypes'
  BY <1>2 DEF PromptTypes, Typed
<1>5. DrawnAnew'
  <2>1. CASE about = "changed"
    <3>1. mail'[Len(mail) + 1].about = "changed" /\ Len(mail) + 1 \in DOMAIN mail'
      BY <1>2, <1>3, <2>1
    <3> QED BY <3>1 DEF DrawnAnew, IsChanged
  <2>2. CASE text = typed
    <3>1. \A i \in DOMAIN mail: i \in DOMAIN mail' /\ (IsChanged(i) <=> IsChanged(i)')
      BY <1>2 DEF IsChanged
    <3>2. typed' = typed
      BY <2>2 DEF Typed
    <3> QED BY <3>1, <3>2 DEF DrawnAnew
  <2> QED BY <2>1, <2>2
<1>6. ASSUME NEW i \in DOMAIN mail', IsSubmitted(i)'
      PROVE  i \in DOMAIN mail /\ IsSubmitted(i) /\ i + 1 \in DOMAIN mail
  BY <1>2, <1>3, <1>6 DEF IsSubmitted, ClearedAfter
<1>7. ClearedAfter'
  <2> SUFFICES ASSUME NEW i \in DOMAIN mail', IsSubmitted(i)'
               PROVE  (/\ i + 1 \in DOMAIN mail /\ mail[i + 1] = Message("changed")
                       /\ mail[i].text \in Texts)'
    BY DEF ClearedAfter
  <2> QED BY <1>2, <1>6 DEF ClearedAfter
<1>8. HandedIn'
  <2> SUFFICES ASSUME NEW i \in DOMAIN mail', IsSubmitted(i)', i + 1 = Len(mail')
               PROVE  FALSE
    BY DEF HandedIn
  <2> QED BY <1>2, <1>6
<1> QED BY <1>4, <1>5, <1>7, <1>8

LEMMA EnterKeeps == ASSUME PromptInv, Enter PROVE PromptInv'
<1> DEFINE s == <<Submission(typed), Message("changed")>>
<1> USE DEF PromptInv
<1>1. /\ typed \in Texts /\ Typed(Empty, s) /\ UNCHANGED <<drawn, selected>>
  BY DEF Enter, PromptTypes, Boxes
<1>2. s \in Seq(Messages) /\ Len(s) = 2 /\ s[1] = Submission(typed) /\ s[2] = Message("changed")
  BY <1>1, MessagesAre DEF Boxes
<1>3. /\ mail \in Seq(Messages) /\ mail' \in Seq(Messages) /\ Len(mail) \in Nat
      /\ Len(mail') = Len(mail) + 2
      /\ DOMAIN mail = 1..Len(mail) /\ DOMAIN mail' = 1..(Len(mail) + 2)
      /\ \A i \in 1..Len(mail): mail'[i] = mail[i]
      /\ mail'[Len(mail) + 1] = Submission(typed) /\ mail'[Len(mail) + 2] = Message("changed")
  <2>1. /\ mail' \in Seq(Messages) /\ Len(mail') = Len(mail) + 2
        /\ \A i \in 1..Len(mail): mail'[i] = mail[i]
        /\ mail'[Len(mail) + 1] = Submission(typed) /\ mail'[Len(mail) + 2] = Message("changed")
    <3> HIDE DEF s
    <3>1. /\ mail' \in Seq(Messages) /\ Len(mail') = Len(mail) + Len(s)
          /\ \A i \in 1..Len(mail): mail'[i] = mail[i]
          /\ \A i \in 1..Len(s): mail'[Len(mail) + i] = s[i]
      BY <1>1, <1>2, Posted
    <3>2. 1 \in 1..Len(s) /\ 2 \in 1..Len(s)
      BY <1>2
    <3> QED BY <1>2, <3>1, <3>2
  <2> QED BY <2>1 DEF PromptTypes
<1>4. /\ Submission(typed).about = "submitted" /\ Submission(typed).text = typed
      /\ Message("changed").about = "changed"
  BY <1>1, MessagesAre DEF Boxes
<1>5. PromptTypes'
  BY <1>1, <1>3 DEF PromptTypes, Typed, Boxes
<1>6. DrawnAnew'
  <2>1. mail'[Len(mail) + 2].about = "changed" /\ Len(mail) + 2 \in DOMAIN mail'
    BY <1>3, <1>4
  <2> QED BY <2>1 DEF DrawnAnew, IsChanged
<1>7. ASSUME NEW i \in DOMAIN mail', IsSubmitted(i)'
      PROVE  \/ i \in DOMAIN mail /\ IsSubmitted(i) /\ i + 1 \in DOMAIN mail
             \/ i = Len(mail) + 1
  BY <1>3, <1>4, <1>7 DEF IsSubmitted, ClearedAfter
<1>8. ClearedAfter'
  <2> SUFFICES ASSUME NEW i \in DOMAIN mail', IsSubmitted(i)'
               PROVE  (/\ i + 1 \in DOMAIN mail /\ mail[i + 1] = Message("changed")
                       /\ mail[i].text \in Texts)'
    BY DEF ClearedAfter
  <2>1. CASE i = Len(mail) + 1
    BY <1>1, <1>3, <1>4, <2>1
  <2> QED BY <1>3, <1>7, <2>1 DEF ClearedAfter
<1>9. HandedIn'
  <2> SUFFICES ASSUME NEW i \in DOMAIN mail', IsSubmitted(i)', i + 1 = Len(mail')
               PROVE  (/\ typed = Empty
                       /\ (\A j \in 1..(i - 1): ~IsChanged(j))
                             => \/ drawn = Hidden
                                \/ drawn.rows = Matches(mail[i].text) /\ drawn.at = selected)'
    BY DEF HandedIn
  <2>1. i = Len(mail) + 1 /\ mail'[i].text = typed
    BY <1>3, <1>4
  <2>2. typed' = Empty
    BY <1>1 DEF Typed
  <2>3. ASSUME \A j \in 1..(i - 1): ~IsChanged(j)'
        PROVE  drawn.rows = Matches(typed) /\ drawn.at = selected
    BY <1>3, <2>1, <2>3 DEF DrawnAnew, IsChanged
  <2>4. Matches(mail'[i].text) = Matches(typed)
    BY <2>1
  <2> QED BY <1>1, <2>2, <2>3, <2>4 DEF Matches, Hits, InOrder, IsSlash
<1> QED BY <1>5, <1>6, <1>8, <1>9

\* A message taken off the queue, with what its handler does to the screen.
LEMMA OneLessKeeps ==
    ASSUME PromptInv, NEW m, Handles(m), typed' = typed, selected' \in Nat, drawn'.at \in Nat,
           (\A i \in DOMAIN mail': ~IsChanged(i)') => drawn'.rows = Matches(typed) /\ drawn'.at = selected',
           \/ m.about = "submitted"
           \/ typed = Empty => drawn' = Hidden \/ (UNCHANGED <<drawn, selected>> /\ m.about # "changed")
    PROVE  PromptInv'
<1> USE DEF PromptInv
<1>1. /\ mail \in Seq(Messages) /\ mail' \in Seq(Messages) /\ Len(mail) \in Nat
      /\ Len(mail') = Len(mail) - 1 /\ Len(mail) > 0
      /\ DOMAIN mail = 1..Len(mail) /\ DOMAIN mail' = 1..(Len(mail) - 1)
      /\ mail[1] = m
      /\ \A i \in DOMAIN mail': i + 1 \in DOMAIN mail /\ mail'[i] = mail[i + 1]
  <2>1. /\ mail' \in Seq(Messages) /\ Len(mail') = Len(mail) - 1 /\ Len(mail) > 0
        /\ mail[1] = m
        /\ \A i \in 1..Len(mail'): mail'[i] = mail[i + 1]
    BY Handled
  <2> QED BY <2>1 DEF PromptTypes
<1>2. PromptTypes'
  BY <1>1 DEF PromptTypes
<1>3. DrawnAnew'
  BY DEF DrawnAnew, Matches, Hits, InOrder, IsSlash
<1>4. ASSUME NEW i \in DOMAIN mail', IsSubmitted(i)'
      PROVE  /\ i + 1 \in DOMAIN mail /\ mail[i + 1].about = "submitted" /\ mail'[i] = mail[i + 1]
             /\ i + 2 \in DOMAIN mail /\ mail[i + 2] = Message("changed") /\ mail[i + 1].text \in Texts
             /\ i + 1 \in DOMAIN mail' /\ mail'[i + 1] = mail[i + 2]
  <2>1. i + 1 \in DOMAIN mail /\ mail'[i] = mail[i + 1]
    BY <1>1
  <2>2. mail[i + 1].about = "submitted"
    BY <1>4, <2>1 DEF IsSubmitted
  <2>3. (i + 1) + 1 \in DOMAIN mail /\ mail[(i + 1) + 1] = Message("changed") /\ mail[i + 1].text \in Texts
    BY <2>1, <2>2 DEF ClearedAfter, IsSubmitted
  <2> QED BY <1>1, <2>1, <2>2, <2>3
<1>5. ClearedAfter'
  BY <1>4 DEF ClearedAfter, IsSubmitted
<1>6. HandedIn'
  <2> SUFFICES ASSUME NEW i \in DOMAIN mail', IsSubmitted(i)', i + 1 = Len(mail')
               PROVE  /\ typed' = Empty
                      /\ (\A j \in 1..(i - 1): ~IsChanged(j)')
                            => \/ drawn' = Hidden
                               \/ drawn'.rows = Matches(mail'[i].text) /\ drawn'.at = selected'
    BY DEF HandedIn, Matches, Hits, InOrder, IsSlash
  <2>1. /\ i + 1 \in DOMAIN mail /\ mail[i + 1].about = "submitted" /\ mail'[i] = mail[i + 1]
        /\ (i + 1) + 1 = Len(mail)
    BY <1>1, <1>4
  <2>2. /\ typed = Empty
        /\ (\A j \in 1..i: ~IsChanged(j))
              => \/ drawn = Hidden
                 \/ drawn.rows = Matches(mail[i + 1].text) /\ drawn.at = selected
    <3>1. (i + 1) - 1 = i
      BY <1>1
    <3> QED BY <2>1, <3>1 DEF HandedIn, IsSubmitted
  <2>3. CASE m.about = "submitted"
    <3>1. mail[1 + 1] = Message("changed")
      BY <1>1, <2>3 DEF ClearedAfter, IsSubmitted
    <3>2. 1 \in DOMAIN mail' /\ mail'[1].about = "changed" /\ i # 1
      BY <1>1, <2>1, <3>1 DEF Message
    <3>3. 1 \in 1..(i - 1)
      BY <1>1, <3>2
    <3> QED BY <2>2, <3>2, <3>3 DEF IsChanged
  <2>4. CASE m.about # "submitted" /\ UNCHANGED <<drawn, selected>> /\ m.about # "changed"
    <3>1. ASSUME \A j \in 1..(i - 1): ~IsChanged(j)', NEW j \in 1..i
          PROVE  ~IsChanged(j)
      <4>1. CASE j = 1
        BY <1>1, <2>4, <4>1 DEF IsChanged
      <4>2. CASE j # 1
        <5>1. j - 1 \in 1..(i - 1) /\ j - 1 \in DOMAIN mail' /\ mail'[j - 1] = mail[j]
          <6>1. i \in 1..(Len(mail) - 1) /\ Len(mail) \in Nat
            BY <1>1
          <6>2. j - 1 \in 1..(i - 1) /\ j - 1 \in 1..(Len(mail) - 1) /\ (j - 1) + 1 = j
            BY <4>2, <6>1
          <6>3. mail'[j - 1] = mail[(j - 1) + 1]
            BY <1>1, <6>2
          <6> QED BY <1>1, <6>2, <6>3
        <5>2. mail'[j - 1].about # "changed"
          BY <3>1, <5>1 DEF IsChanged
        <5> QED BY <5>1, <5>2 DEF IsChanged
      <4> QED BY <4>1, <4>2
    <3> QED BY <2>1, <2>2, <2>4, <3>1
  <2>5. CASE m.about # "submitted" /\ drawn' = Hidden
    BY <2>2, <2>5
  <2> QED BY <2>2, <2>3, <2>4, <2>5
<1> QED BY <1>2, <1>3, <1>5, <1>6

LEMMA SameKeeps ==
    ASSUME PromptInv, UNCHANGED <<typed, mail, drawn, selected>>
    PROVE  PromptInv'
BY DEF PromptInv, PromptTypes, DrawnAnew, ClearedAfter, HandedIn, IsChanged, IsSubmitted

LEMMA RedrawKeeps == ASSUME PromptInv, Redraw PROVE PromptInv'
<1> DEFINE at == Least(selected, Len(Matches(typed)) - 1)
<1>1. /\ Handles(Message("changed")) /\ typed' = typed
      /\ \/ Matches(typed) = <<>> /\ drawn' = Hidden /\ selected' = 0
         \/ Matches(typed) # <<>> /\ selected' = at /\ drawn' = [rows |-> Matches(typed), at |-> at]
  BY DEF Redraw, Hide
<1>2. typed \in Boxes /\ selected \in Nat
  BY DEF PromptInv, PromptTypes
<1>3. Matches(typed) # <<>> => at \in Nat
  BY <1>2, MatchesAreRows DEF Least
<1> HIDE DEF at
<1>4. /\ selected' \in Nat /\ drawn'.at \in Nat
      /\ drawn'.rows = Matches(typed) /\ drawn'.at = selected'
  BY <1>1, <1>3 DEF Hidden
<1>5. typed = Empty => drawn' = Hidden
  BY <1>1, NothingMatches
<1> QED BY <1>1, <1>4, <1>5, OneLessKeeps

LEMMA MovesKeep == ASSUME PromptInv, NEW key \in {"up", "down"}, Moves(key) PROVE PromptInv'
<1> DEFINE n == Len(Matches(typed))
<1>1. /\ Handles(Message(key)) /\ typed' = typed
      /\ \/ Matches(typed) = <<>> /\ UNCHANGED <<selected, drawn>>
         \/ /\ Matches(typed) # <<>>
            /\ selected' = Moved(key, n) /\ drawn' = [rows |-> Matches(typed), at |-> selected']
  BY DEF Moves
<1>2. typed \in Boxes /\ selected \in Nat /\ drawn.at \in Nat
  BY DEF PromptInv, PromptTypes
<1>3. Matches(typed) # <<>> => Moved(key, n) \in Nat
  <2> HAVE Matches(typed) # <<>>
  <2>1. n \in Nat /\ n > 0
    BY <1>2, MatchesAreRows
  <2> HIDE DEF n
  <2>2. (selected + 1) % n \in Nat /\ (selected + n - 1) % n \in Nat
    BY <1>2, <2>1
  <2> QED BY <2>2 DEF Moved
<1> HIDE DEF n
<1>4. selected' \in Nat /\ drawn'.at \in Nat
  BY <1>1, <1>2, <1>3
<1>5. Message(key).about = key
  BY DEF Message
<1>6. ASSUME \A i \in DOMAIN mail': ~IsChanged(i)'
      PROVE  drawn'.rows = Matches(typed) /\ drawn'.at = selected'
  <2>1. CASE UNCHANGED <<selected, drawn>>
    <3>1. \A i \in DOMAIN mail: ~IsChanged(i)
      <4> SUFFICES ASSUME NEW i \in DOMAIN mail PROVE mail[i].about # "changed"
        BY DEF IsChanged
      <4>1. /\ mail \in Seq(Messages) /\ Len(mail') = Len(mail) - 1 /\ mail' \in Seq(Messages)
            /\ mail[1] = Message(key) /\ \A j \in 1..Len(mail'): mail'[j] = mail[j + 1]
        BY <1>1, Handled DEF PromptInv, PromptTypes
      <4>2. CASE i = 1
        BY <1>5, <4>1, <4>2
      <4>3. CASE i # 1
        <5>1. i - 1 \in 1..Len(mail') /\ (i - 1) + 1 = i
          BY <4>1, <4>3
        <5>2. mail'[i - 1] = mail[i] /\ i - 1 \in DOMAIN mail'
          BY <4>1, <5>1
        <5> QED BY <1>6, <5>2 DEF IsChanged
      <4> QED BY <4>2, <4>3
    <3> QED BY <2>1, <3>1 DEF PromptInv, DrawnAnew
  <2> QED BY <1>1, <2>1
<1>7. typed = Empty => UNCHANGED <<drawn, selected>>
  BY <1>1, NothingMatches
<1> QED BY <1>1, <1>4, <1>5, <1>6, <1>7, OneLessKeeps

LEMMA SubmittedKeeps == ASSUME PromptInv, Submitted PROVE PromptInv' /\ RanOffered'
<1>1. PICK text \in Texts:
        /\ Handles(Submission(text))
        /\ Refused(text) \/ Suggestion(text) \/ RunsCommand(text) \/ RunsTurn(text)
        /\ UNCHANGED <<typed, dialog>>
  BY DEF Submitted
<1>2. text \in Boxes /\ Submission(text).about = "submitted" /\ Submission(text).text = text
  BY MessagesAre DEF Boxes
<1>3. \/ drawn' = Hidden /\ selected' = 0
      \/ UNCHANGED <<drawn, selected>>
  BY <1>1 DEF Refused, Suggestion, RunsCommand, RunsTurn, Hide
<1>4. selected' \in Nat /\ drawn'.at \in Nat /\ selected \in Nat
  BY <1>3 DEF PromptInv, PromptTypes, Hidden
<1>5. /\ mail \in Seq(Messages) /\ Len(mail) > 0 /\ mail[1] = Submission(text)
      /\ Len(mail') = Len(mail) - 1 /\ mail' \in Seq(Messages)
      /\ \A i \in 1..Len(mail'): mail'[i] = mail[i + 1]
  BY <1>1, Handled DEF PromptInv, PromptTypes
<1>6. 1 \in DOMAIN mail' /\ mail'[1].about = "changed"
  <2>1. 1 + 1 \in DOMAIN mail /\ mail[1 + 1] = Message("changed")
    BY <1>2, <1>5 DEF PromptInv, ClearedAfter, IsSubmitted
  <2>2. 1 \in 1..Len(mail')
    BY <1>5, <2>1
  <2>3. Message("changed").about = "changed"
    BY DEF Message
  <2> QED BY <1>5, <2>1, <2>2, <2>3
<1>7. PromptInv'
  <2>1. ~\A i \in DOMAIN mail': ~IsChanged(i)'
    BY <1>6 DEF IsChanged
  <2> QED BY <1>1, <1>2, <1>4, <2>1, OneLessKeeps
<1>8. RanOffered'
  <2> SUFFICES ASSUME did'.by = "enter", did'.alone, IsSlash(did'.text), ~IsKnown(did'.text),
                      did'.what \notin {"refused", "unknown", "turn"}, did'.offered # NoCommand
               PROVE  did'.what = did'.offered
    BY DEF RanOffered, IsSlash, IsKnown
  <2>1. PICK what: Did("enter", text, what)
    BY <1>1 DEF Refused, Suggestion, RunsCommand, RunsTurn
  <2>2. /\ did'.text = text /\ did'.what = what /\ did'.offered = Highlighted
        /\ did'.alone = (mail = <<Submission(text), Message("changed")>>)
    BY <2>1 DEF Did
  <2>3. Len(mail) = 2
    <3>1. mail = <<Submission(text), Message("changed")>>
      BY <2>2, Zenon
    <3> QED BY <3>1
  <2>4. \/ drawn = Hidden
        \/ drawn.rows = Matches(text) /\ drawn.at = selected
    <3>1. 1 \in DOMAIN mail /\ 1 + 1 = Len(mail) /\ 1..(1 - 1) = {}
      BY <1>5, <2>3
    <3>2. IsSubmitted(1)
      BY <1>2, <1>5 DEF IsSubmitted
    <3>3. drawn = Hidden \/ (drawn.rows = Matches(mail[1].text) /\ drawn.at = selected)
      BY <3>1, <3>2 DEF PromptInv, HandedIn
    <3> QED BY <1>2, <1>5, <3>3
  <2>5. drawn.rows = Matches(text) /\ selected < Len(Matches(text))
        /\ Highlighted = Matches(text)[selected + 1]
    BY <2>2, <2>4 DEF Highlighted, Hidden
  <2>6. Len(Matches(text)) \in Nat /\ Matches(text) # <<>>
    BY <1>2, <1>4, <2>5, MatchesAreRows
  <2>7. CASE Suggestion(text)
    <3>1. did'.what = Matches(text)[Least(selected, Len(Matches(text)) - 1) + 1]
      BY <2>7 DEF Suggestion, Did
    <3>2. Least(selected, Len(Matches(text)) - 1) = selected
      BY <1>4, <2>5, <2>6 DEF Least
    <3> QED BY <2>2, <2>5, <3>1, <3>2
  <2>8. CASE RunsCommand(text)
    BY <2>2, <2>6, <2>8 DEF RunsCommand
  <2>9. CASE Refused(text) \/ RunsTurn(text)
    BY <2>9 DEF Refused, RunsTurn, Did
  <2> QED BY <1>1, <2>7, <2>8, <2>9
<1> QED BY <1>7, <1>8

LEMMA PromptInvNext == PromptInv /\ RanOffered /\ [PromptNext]_promptVars => PromptInv' /\ RanOffered'
<1> SUFFICES ASSUME PromptInv, RanOffered, [PromptNext]_promptVars PROVE PromptInv' /\ RanOffered'
  OBVIOUS
<1>1. CASE Quiet /\ did' = Nothing
  <2>1. RanOffered'
    BY <1>1 DEF RanOffered, Nothing
  <2>2. ASSUME NEW text \in Texts, Type(text) PROVE PromptInv'
    <3>1. text \in Boxes /\ Typed(text, <<Message("changed")>>) /\ UNCHANGED <<drawn, selected>>
      BY <2>2 DEF Type, Boxes
    <3> QED BY <3>1, OneMoreKeeps
  <2>3. ASSUME MessageMember PROVE PromptInv'
    <3>1. /\ Template \in Boxes /\ Typed(Template, <<Message("changed")>>)
          /\ UNCHANGED <<drawn, selected>>
      BY <2>3, TextAssumption DEF MessageMember, Boxes, TextAssumption
    <3> QED BY <3>1, OneMoreKeeps
  <2>4. ASSUME NEW key \in {"up", "down"}, Arrow(key) PROVE PromptInv'
    <3>1. typed \in Boxes /\ Typed(typed, <<Message(key)>>) /\ UNCHANGED <<drawn, selected>>
      BY <2>4 DEF Arrow, PromptInv, PromptTypes
    <3> QED BY <3>1, OneMoreKeeps
  <2>6. \/ MessageMember \/ Enter \/ Redraw
        \/ \E text \in Texts: Type(text)
        \/ \E key \in {"up", "down"}: Arrow(key) \/ Moves(key)
        \/ UNCHANGED <<typed, mail, drawn, selected>>
    BY <1>1 DEF Quiet, TurnGoesOn, Search, OpenDialog, MoveDown, CloseDialog
  <2>7. PromptInv'
    BY <2>2, <2>3, <2>4, <2>6, SameKeeps, EnterKeeps, RedrawKeeps, MovesKeep
  <2> QED BY <2>1, <2>7
<1>2. CASE Submitted
  BY <1>2, SubmittedKeeps
<1>3. CASE Choose \/ UNCHANGED promptVars
  <2>1. UNCHANGED <<typed, mail, drawn, selected>>
    BY <1>3 DEF Choose, promptVars
  <2>2. PromptInv'
    BY <2>1, SameKeeps
  <2>3. RanOffered'
    BY <1>3 DEF RanOffered, Choose, Did, promptVars, IsSlash, IsKnown
  <2> QED BY <2>2, <2>3
<1> QED BY <1>1, <1>2, <1>3 DEF PromptNext

\* update_slash_suggestions, on_key and on_input_submitted, for any table, texts and length
\* of the queue: with no message waiting what is drawn is what the text suggests, and the
\* suggestion that a text runs is the highlighted one, unless the user typed on meanwhile.
THEOREM SuggestionsHold == Spec => []SuggestionsAreTrue
<1>1. Init => PromptInv /\ RanOffered
  BY PromptInvInit DEF Init
<1>2. [Next]_vars => [PromptNext]_promptVars
  BY DEF Next, AtPrompt, AtRules, AtFiles, vars
<1>3. PromptInv /\ RanOffered /\ [Next]_vars => PromptInv' /\ RanOffered'
  BY <1>2, PromptInvNext
<1>4. PromptInv /\ RanOffered => SuggestionsAreTrue
  BY DEF PromptInv, DrawnAnew, RanOffered, SuggestionsAreTrue
<1> QED BY <1>1, <1>3, <1>4, PTL DEF Spec
-----------------------------------------------------------------------------
(***************************************************************************)
(* The files: the tools that change one.                                   *)
(***************************************************************************)
\* Everything that can be in the file, or was.
Contents == 0..(Len(versions) + 1)

DiskInv ==
    /\ versions \in Seq(FileCalls \cup {"user"}) /\ file \in Contents
    /\ changes \in Nat /\ replaced \in 0..changes

CallPcs == {"asked", "preview", "apply", "open", "over"}
Tellings == {"none", "ok", "failed", "denied", "aborted", "lost"}
FileCallSet == [kind: Kinds, pc: CallPcs, seen: Nat, began: Nat, opened: Nat, told: Tellings,
                late: BOOLEAN]

\* What is told of a call that is carried out, if anything, is an abort that came too late.
Going(x) == x.told = "none" \/ (x.told = "aborted" /\ x.late)

\* What is told of a call that has written.
Written(x) == x.pc = "over" /\ (x.told = "ok" \/ (x.told = "aborted" /\ x.late))

\* A call that began when there were that many changes of the file, or fewer.
CallOK(x, n) ==
    /\ x \in FileCallSet /\ x.began <= n
    /\ x.pc \in {"asked", "preview"} => x.told = "none"
    /\ x.pc \in {"apply", "open"} => x.seen >= x.began /\ Going(x)
    /\ x.pc = "over" => x.told # "none"

CallsBook ==
    /\ fileCall \in [FileCalls -> FileCallSet]
    /\ \A c \in FileCalls: CallOK(fileCall[c], changes)
    /\ \A i \in DOMAIN versions: versions[i] # "user" => Written(fileCall[versions[i]])

-----------------------------------------------------------------------------
(***************************************************************************)
(* The files: the history.                                                 *)
(***************************************************************************)
Lines == [id: Nat, before: Nat, after: Nat]
Sources == [line: Lines, side: Sides]
OpPcs == {"idle", "noted", "before", "after", "append", "restore", "clear"}
Ops == [pc: OpPcs, id: Nat, before: Nat, after: Nat, from: Sources]
Recording == op.pc \in {"before", "after", "append"}
Claims == IF op.pc = "restore" THEN 1 ELSE 0

HistoryTypes ==
    /\ op \in Ops /\ index \in Seq(Lines) /\ snapshots \subseteq Nat \X Sides \X Nat
    /\ source \in [0..MaxActs -> Sources] /\ cleared \in BOOLEAN
    /\ issued \in Nat /\ acts \in 0..MaxActs /\ issued + Claims <= acts
    /\ op.before \in Contents /\ op.after \in Contents

\* What is kept was there once, and belongs to an entry.
KeptIsKnown ==
    /\ \A i \in DOMAIN index:
         index[i].id <= issued /\ index[i].before \in Contents /\ index[i].after \in Contents
    /\ \A s \in snapshots: s[1] > 0 /\ s[1] <= issued /\ s[3] \in Contents

\* The entry that is being made is the newest one, and has no line yet.
NewEntry ==
    Recording => op.id = issued /\ issued > 0 /\ \A i \in DOMAIN index: index[i].id < issued

\* A snapshot holds what its entry holds on that side.
SnapshotsMatch ==
    /\ \A s, t \in snapshots: s[1] = t[1] /\ s[2] = t[2] => s[3] = t[3]
    /\ \A s \in snapshots, i \in DOMAIN index: s[1] = index[i].id => s[3] = Held(index[i], s[2])
    /\ Recording => \A s \in snapshots: s[1] = op.id => s[3] = SavedOn(s[2])

\* A side is done: there was nothing to keep, or it was kept.
Done(id, side, content) == content = NoFile \/ <<id, side, content>> \in snapshots

SidesDone ==
    /\ op.pc \in {"after", "append"} => Done(op.id, "before", op.before)
    /\ op.pc = "append" => Done(op.id, "after", op.after)
    /\ op.pc = "clear" => cleared
    /\ ~cleared => \A i \in DOMAIN index: index[i] = Torn \/
         \A side \in Sides: Done(index[i].id, side, Held(index[i], side))

\* An entry made by a rollback holds what it restored.
RestoredRight ==
    /\ op.pc = "restore" => op.after = Held(op.from.line, op.from.side)
    /\ Recording /\ source[op.id] # NoSource =>
         op.after = Held(source[op.id].line, source[op.id].side)
    /\ RollbackIsTrue
    /\ \A e \in 0..MaxActs: e > issued => source[e] = NoSource

HistoryBook == HistoryTypes /\ KeptIsKnown /\ NewEntry /\ SnapshotsMatch /\ SidesDone /\ RestoredRight

FilesInv == DiskInv /\ CallsBook /\ HistoryBook

Grows == versions' = versions \/ \E w \in FileCalls \cup {"user"}: versions' = Append(versions, w)

LEMMA VersionsGrow ==
    ASSUME DiskInv, Grows
    PROVE  /\ versions' \in Seq(FileCalls \cup {"user"}) /\ Len(versions) \in Nat
           /\ Len(versions') \in {Len(versions), Len(versions) + 1} /\ Contents \subseteq Contents'
<1>1. versions \in Seq(FileCalls \cup {"user"}) /\ Len(versions) \in Nat
  BY DEF DiskInv
<1>2. CASE versions' = versions
  BY <1>1, <1>2 DEF Contents
<1>3. ASSUME NEW w \in FileCalls \cup {"user"}, versions' = Append(versions, w)
      PROVE  versions' \in Seq(FileCalls \cup {"user"}) /\ Len(versions') = Len(versions) + 1
  BY <1>1, <1>3, AppendProperties
<1>4. CASE \E w \in FileCalls \cup {"user"}: versions' = Append(versions, w)
  BY <1>1, <1>3, <1>4 DEF Contents
<1> QED BY <1>2, <1>4 DEF Grows

\* Whoever makes or tears a version: the disk stays what it can be, and changes are counted.
LEMMA DiskMoves ==
    ASSUME DiskInv, NEW who \in FileCalls \cup {"user"},
           \/ Makes(who) \/ Tears \/ UNCHANGED disk
           \/ /\ file' \in Contents /\ changes' = changes + 1
              /\ replaced' = changes' /\ UNCHANGED versions
    PROVE  /\ DiskInv' /\ Grows /\ changes' >= changes /\ changes' \in Nat
           /\ versions' = versions \/ (versions' = Append(versions, who) /\ Makes(who))
<1>1. /\ changes' \in {changes, changes + 1} /\ changes \in Nat /\ replaced' \in {replaced, changes'}
      /\ replaced \in 0..changes
  BY DEF Makes, Tears, disk, DiskInv
<1>2. versions' = versions \/ (versions' = Append(versions, who) /\ Makes(who))
  BY DEF Makes, Tears, disk
<1>3. Grows
  BY <1>2 DEF Grows
<1>4. /\ versions' \in Seq(FileCalls \cup {"user"}) /\ Len(versions) \in Nat
      /\ Len(versions') \in {Len(versions), Len(versions) + 1} /\ Contents \subseteq Contents'
  BY <1>3, VersionsGrow
<1>5. file' \in Contents'
  <2>1. CASE Makes(who)
    <3>1. Len(versions') = Len(versions) + 1 /\ file' = Len(versions) + 2
      BY <2>1, AppendProperties DEF Makes, DiskInv
    <3> QED BY <1>4, <3>1 DEF Contents
  <2>2. CASE Tears
    BY <1>4, <2>2 DEF Tears, Partial, Contents
  <2>3. CASE file' \in Contents
    BY <1>4, <2>3
  <2> QED BY <2>1, <2>2, <2>3 DEF disk, DiskInv
<1>6. changes' \in Nat /\ replaced' \in 0..changes' /\ changes' >= changes
  BY <1>1
<1> QED BY <1>2, <1>3, <1>4, <1>5, <1>6 DEF DiskInv

\* A step of one call that is not over.
LEMMA OneCallKeeps ==
    ASSUME DiskInv, CallsBook, DiskInv', NEW c \in FileCalls, NEW x,
           fileCall' = [fileCall EXCEPT ![c] = x], CallOK(x, changes'), fileCall[c].pc # "over",
           changes' >= changes,
           versions' = versions \/ (versions' = Append(versions, c) /\ Written(x))
    PROVE  CallsBook'
<1>1. x \in FileCallSet /\ changes \in Nat /\ changes' \in Nat
  BY DEF CallOK, DiskInv
<1>2. fileCall' \in [FileCalls -> FileCallSet] /\ fileCall'[c] = x
      /\ \A d \in FileCalls: d # c => fileCall'[d] = fileCall[d]
  BY <1>1 DEF CallsBook
<1>3. ASSUME NEW d \in FileCalls PROVE CallOK(fileCall'[d], changes')
  <2>1. CASE d = c
    BY <1>2, <2>1
  <2>2. CASE d # c
    <3>1. CallOK(fileCall[d], changes) /\ fileCall'[d] = fileCall[d] /\ fileCall[d].began \in Nat
      BY <1>2, <2>2 DEF CallsBook, FileCallSet
    <3> QED BY <1>1, <3>1 DEF CallOK
  <2> QED BY <2>1, <2>2
<1>4. ASSUME NEW i \in DOMAIN versions', versions'[i] # "user"
      PROVE  Written(fileCall'[versions'[i]])
  <2>1. versions \in Seq(FileCalls \cup {"user"}) /\ versions' \in Seq(FileCalls \cup {"user"})
    BY DEF DiskInv
  <2>2. CASE i \in DOMAIN versions /\ versions'[i] = versions[i]
    <3>1. Written(fileCall[versions[i]]) /\ versions[i] \in FileCalls
      BY <1>4, <2>1, <2>2 DEF CallsBook
    <3>2. versions[i] # c
      BY <3>1 DEF Written
    <3> QED BY <1>2, <2>2, <3>1, <3>2
  <2>3. CASE versions'[i] = c /\ Written(x)
    BY <1>2, <2>3
  <2>4. \/ i \in DOMAIN versions /\ versions'[i] = versions[i]
        \/ versions'[i] = c /\ Written(x)
    <3>1. CASE versions' = Append(versions, c) /\ Written(x)
      <4>1. /\ DOMAIN versions' = 1..(Len(versions) + 1) /\ DOMAIN versions = 1..Len(versions)
            /\ Len(versions) \in Nat
            /\ \A j \in 1..Len(versions): versions'[j] = versions[j]
            /\ versions'[Len(versions) + 1] = c
        BY <2>1, <3>1, AppendProperties
      <4> QED BY <3>1, <4>1
    <3> QED BY <3>1
  <2> QED BY <2>2, <2>3, <2>4
<1> QED BY <1>2, <1>3, <1>4 DEF CallsBook

\* The user saves or deletes, a rollback restores: the calls are where they were.
LEMMA CallsStay ==
    ASSUME DiskInv, CallsBook, DiskInv', UNCHANGED fileCall, changes' >= changes,
           versions' = versions \/ versions' = Append(versions, "user")
    PROVE  CallsBook'
<1>1. changes \in Nat /\ changes' \in Nat /\ fileCall' = fileCall
  BY DEF DiskInv
<1>2. ASSUME NEW d \in FileCalls PROVE CallOK(fileCall[d], changes')
  <2>1. CallOK(fileCall[d], changes) /\ fileCall[d].began \in Nat
    BY DEF CallsBook, FileCallSet
  <2> QED BY <1>1, <2>1 DEF CallOK
<1>3. ASSUME NEW i \in DOMAIN versions', versions'[i] # "user"
      PROVE  i \in DOMAIN versions /\ versions'[i] = versions[i]
  <2>1. versions \in Seq(FileCalls \cup {"user"})
    BY DEF DiskInv
  <2>2. CASE versions' = Append(versions, "user")
    <3>1. /\ DOMAIN versions' = 1..(Len(versions) + 1) /\ DOMAIN versions = 1..Len(versions)
          /\ Len(versions) \in Nat
          /\ \A j \in 1..Len(versions): versions'[j] = versions[j]
          /\ versions'[Len(versions) + 1] = "user"
      BY <2>1, <2>2, AppendProperties
    <3> QED BY <1>3, <3>1
  <2> QED BY <2>2
<1> QED BY <1>1, <1>2, <1>3 DEF CallsBook

LEMMA ToldIs ==
    ASSUME NEW x \in FileCallSet, NEW what \in Tellings
    PROVE  /\ Told(x, what) \in FileCallSet /\ Told(x, what).pc = "over"
           /\ Told(x, what).told = (IF x.told = "none" THEN what ELSE x.told)
           /\ Told(x, what).began = x.began /\ Told(x, what).late = x.late
BY DEF Told, FileCallSet, CallPcs, Tellings

\* The steps of a call that leave the disk alone; and that keeps the disk what it can be.
LEMMA SameDisk ==
    ASSUME DiskInv, UNCHANGED disk
    PROVE  /\ DiskInv' /\ Grows /\ changes' = changes /\ changes' >= changes
           /\ versions' = versions
BY DEF DiskInv, disk, Grows, Contents

LEMMA CallStepKeeps ==
    ASSUME DiskInv, CallsBook, NEW c \in FileCalls,
           Approve(c) \/ Shows(c) \/ Deny(c) \/ AbortCall(c) \/ CallStep(c)
    PROVE  DiskInv' /\ Grows /\ CallsBook'
<1> DEFINE y == fileCall[c]
<1>1. /\ y \in FileCallSet /\ CallOK(y, changes) /\ changes \in Nat
      /\ fileCall \in [FileCalls -> FileCallSet]
  BY DEF CallsBook, DiskInv
<1>2. ASSUME UNCHANGED disk, NEW x, fileCall' = [fileCall EXCEPT ![c] = x], y.pc # "over", CallOK(x, changes)
      PROVE  DiskInv' /\ Grows /\ CallsBook'
  BY <1>2, SameDisk, OneCallKeeps
<1>3. ASSUME NEW what \in Tellings \ {"none"}, UNCHANGED disk, y.pc # "over",
             fileCall' = [fileCall EXCEPT ![c] = Told(y, what)]
      PROVE  DiskInv' /\ Grows /\ CallsBook'
  <2>1. CallOK(Told(y, what), changes)
    BY <1>1, ToldIs DEF CallOK
  <2> QED BY <1>2, <1>3, <2>1
<1>4. ASSUME Approve(c) PROVE DiskInv' /\ Grows /\ CallsBook'
  <2> DEFINE x == [y EXCEPT !.pc = "preview", !.began = changes]
  <2>1. y.pc = "asked" /\ fileCall' = [fileCall EXCEPT ![c] = x] /\ UNCHANGED disk
    BY <1>1, <1>4 DEF Approve
  <2>2. CallOK(x, changes)
    <3>1. x \in FileCallSet
      BY <1>1 DEF FileCallSet, CallPcs
    <3>2. x.pc = "preview" /\ x.began = changes /\ x.told = y.told
      BY <1>1 DEF FileCallSet
    <3> HIDE DEF x, y
    <3> QED BY <1>1, <2>1, <3>1, <3>2 DEF CallOK
  <2> HIDE DEF x
  <2> QED BY <1>2, <2>1, <2>2
<1>5. ASSUME Shows(c) PROVE DiskInv' /\ Grows /\ CallsBook'
  <2> DEFINE x == [y EXCEPT !.seen = changes]
  <2>1. y.pc = "asked" /\ fileCall' = [fileCall EXCEPT ![c] = x] /\ UNCHANGED disk
    BY <1>1, <1>5 DEF Shows
  <2>2. CallOK(x, changes)
    BY <1>1, <2>1 DEF CallOK, FileCallSet
  <2> HIDE DEF x
  <2> QED BY <1>2, <2>1, <2>2
<1>6. ASSUME Deny(c) PROVE DiskInv' /\ Grows /\ CallsBook'
  BY <1>3, <1>6 DEF Deny, Tellings
<1>7. ASSUME AbortCall(c) PROVE DiskInv' /\ Grows /\ CallsBook'
  <2>1. y.pc \notin {"asked", "over"} /\ y.told = "none" /\ UNCHANGED disk
    BY <1>7 DEF AbortCall
  <2>2. \/ fileCall' = [fileCall EXCEPT ![c] = Aborted(y)]
        \/ fileCall' = [fileCall EXCEPT ![c] = Told(y, "aborted")]
    BY <1>7 DEF AbortCall
  <2>3. CASE y.pc = "preview" \/ fileCall' = [fileCall EXCEPT ![c] = Told(y, "aborted")]
    <3>1. fileCall' = [fileCall EXCEPT ![c] = Told(y, "aborted")] /\ y.pc # "over"
      BY <2>1, <2>2, <2>3 DEF Aborted
    <3> HIDE DEF y
    <3> QED BY <1>3, <2>1, <3>1 DEF Tellings
  <2>4. CASE y.pc # "preview" /\ fileCall' = [fileCall EXCEPT ![c] = Aborted(y)]
    <3> DEFINE x == [y EXCEPT !.told = "aborted", !.late = TRUE]
    <3>1. fileCall' = [fileCall EXCEPT ![c] = x] /\ y.pc # "over"
      BY <2>1, <2>4 DEF Aborted
    <3>2. CallOK(x, changes)
      BY <1>1, <2>1, <2>4 DEF CallOK, FileCallSet, CallPcs, Tellings, Going
    <3> HIDE DEF x
    <3> QED BY <1>2, <2>1, <3>1, <3>2
  <2> QED BY <2>2, <2>3, <2>4
<1>8. ASSUME Previews(c) PROVE DiskInv' /\ Grows /\ CallsBook'
  <2> DEFINE x == Planned(y)
  <2>1. y.pc = "preview" /\ UNCHANGED disk
        /\ \/ fileCall' = [fileCall EXCEPT ![c] = x]
           \/ fileCall' = [fileCall EXCEPT ![c] = Told(y, "failed")]
    BY <1>8 DEF Previews
  <2>2. CallOK(x, changes)
    BY <1>1, <2>1 DEF CallOK, FileCallSet, CallPcs, Planned, Going
  <2> HIDE DEF x
  <2> QED BY <1>2, <1>3, <2>1, <2>2 DEF Tellings
<1>9. ASSUME OpensFile(c) PROVE DiskInv' /\ Grows /\ CallsBook'
  <2> DEFINE x == [y EXCEPT !.pc = "open", !.opened = changes + 1]
  <2>1. y.pc = "apply" /\ Tears /\ fileCall' = [fileCall EXCEPT ![c] = x]
    BY <1>1, <1>9 DEF OpensFile
  <2>2. DiskInv' /\ Grows /\ changes' >= changes /\ changes' \in Nat /\ versions' = versions
    BY <2>1, DiskMoves DEF Tears
  <2>3. CallOK(x, changes')
    <3>1. x \in FileCallSet
      <4>1. changes + 1 \in Nat /\ "open" \in CallPcs
        BY <1>1 DEF CallPcs
      <4> QED BY <1>1, <4>1 DEF FileCallSet
    <3>2. /\ x.pc = "open" /\ x.began = y.began /\ x.seen = y.seen /\ x.told = y.told
          /\ x.late = y.late /\ y.began \in Nat
      BY <1>1 DEF FileCallSet
    <3> HIDE DEF x, y
    <3> QED BY <1>1, <2>1, <2>2, <3>1, <3>2 DEF CallOK, Going
  <2> HIDE DEF x
  <2> QED BY <2>1, <2>2, <2>3, OneCallKeeps
<1>10. ASSUME WritesFile(c) PROVE DiskInv' /\ Grows /\ CallsBook'
  <2> DEFINE x == Told(y, "ok")
  <2>1. /\ y.pc = "open" /\ fileCall' = [fileCall EXCEPT ![c] = x]
        /\ Makes(c) \/ Tears \/ UNCHANGED disk
    BY <1>10 DEF WritesFile
  <2>2. /\ DiskInv' /\ Grows /\ changes' >= changes /\ changes' \in Nat
        /\ versions' = versions \/ versions' = Append(versions, c)
    BY <2>1, DiskMoves
  <2>3. CallOK(x, changes') /\ Written(x)
    <3>1. /\ x \in FileCallSet /\ x.pc = "over" /\ x.told = (IF y.told = "none" THEN "ok" ELSE y.told)
          /\ x.began = y.began /\ x.late = y.late
      BY <1>1, ToldIs DEF Tellings
    <3>2. Going(y) /\ y.began <= changes /\ y.began \in Nat
      BY <1>1, <2>1 DEF CallOK, FileCallSet
    <3> HIDE DEF x, y
    <3> QED BY <1>1, <2>2, <3>1, <3>2 DEF CallOK, Written, Going
  <2> HIDE DEF x
  <2> QED BY <2>1, <2>2, <2>3, OneCallKeeps
<1>11. ASSUME FileWriteFails(c) PROVE DiskInv' /\ Grows /\ CallsBook'
  BY <1>3, <1>11 DEF FileWriteFails, Tellings
<1> QED BY <1>4, <1>5, <1>6, <1>7, <1>8, <1>9, <1>10, <1>11 DEF CallStep

LEMMA DiskAndCallsKeep ==
    ASSUME DiskInv, CallsBook, HistoryTypes, FilesNext
    PROVE  DiskInv' /\ Grows /\ CallsBook'
<1>1. ASSUME NEW c \in FileCalls,
             Approve(c) \/ Shows(c) \/ Deny(c) \/ AbortCall(c) \/ CallStep(c)
      PROVE  DiskInv' /\ Grows /\ CallsBook'
  BY <1>1, CallStepKeeps
<1>2. ASSUME UserSaves \/ UserDeletes \/ Restores PROVE DiskInv' /\ Grows /\ CallsBook'
  <2>1. /\ UNCHANGED fileCall
        /\ \/ Makes("user")
           \/ /\ file' \in Contents /\ changes' = changes + 1
              /\ replaced' = changes' /\ UNCHANGED versions
    BY <1>2 DEF UserSaves, UserDeletes, Restores, HistoryTypes, NoFile, Contents, DiskInv
  <2> QED BY <2>1, DiskMoves, CallsStay
<1>3. ASSUME Notes \/ Records \/ RollsBack \/ Clears \/ Appends \/ Unlinks \/ ClearEnds
             \/ \E side \in Sides: Snapshots(side)
      PROVE  DiskInv' /\ Grows /\ CallsBook'
  <2>1. UNCHANGED disk /\ UNCHANGED fileCall
    BY <1>3 DEF Notes, Records, RollsBack, Clears, Appends, Unlinks, ClearEnds, Snapshots
  <2> QED BY <2>1, SameDisk, CallsStay
<1>4. ASSUME Crash PROVE DiskInv' /\ Grows /\ CallsBook'
  <2>1. /\ UNCHANGED disk
        /\ fileCall' = [c \in FileCalls |->
              IF fileCall[c].pc = "over" THEN fileCall[c] ELSE Told(fileCall[c], "lost")]
    BY <1>4 DEF Crash
  <2>2. DiskInv' /\ Grows /\ changes' = changes /\ versions' = versions
    BY <2>1, SameDisk
  <2>3. ASSUME NEW c \in FileCalls PROVE CallOK(fileCall'[c], changes)
    <3>1. fileCall[c] \in FileCallSet /\ CallOK(fileCall[c], changes)
      BY DEF CallsBook
    <3>2. CallOK(Told(fileCall[c], "lost"), changes)
      BY <3>1, ToldIs DEF CallOK, Tellings
    <3> QED BY <2>1, <3>1, <3>2
  <2>4. fileCall' \in [FileCalls -> FileCallSet]
    <3>1. \A c \in FileCalls: fileCall'[c] \in FileCallSet
      BY <2>3 DEF CallOK
    <3> QED BY <2>1, <3>1
  <2>5. \A i \in DOMAIN versions: versions[i] # "user" => Written(fileCall'[versions[i]])
    <3> SUFFICES ASSUME NEW i \in DOMAIN versions, versions[i] # "user"
                 PROVE  Written(fileCall'[versions[i]])
      OBVIOUS
    <3>1. versions[i] \in FileCalls /\ Written(fileCall[versions[i]])
      BY DEF CallsBook, DiskInv
    <3> QED BY <2>1, <3>1 DEF Written
  <2> QED BY <2>2, <2>3, <2>4, <2>5 DEF CallsBook
<1> QED BY <1>1, <1>2, <1>3, <1>4 DEF FilesNext, OpStep

LEMMA NoOpIs ==
    /\ NoOp \in Ops /\ NoOp.pc = "idle" /\ NoOp.before = 0 /\ NoOp.after = 0 /\ NoOp.id = 0
    /\ NoSource \in Sources /\ Torn \in Lines /\ Torn.id = 0 /\ Torn.before = 0 /\ Torn.after = 0
<1>1. Torn \in Lines /\ Torn.id = 0 /\ Torn.before = 0 /\ Torn.after = 0
  BY DEF Torn, Lines, NoFile
<1>2. NoSource \in Sources
  BY <1>1 DEF NoSource, Sources, Sides
<1> QED BY <1>1, <1>2 DEF NoOp, Ops, OpPcs, NoFile

LEMMA HeldIs ==
    ASSUME NEW line \in Lines, NEW side
    PROVE  Held(line, side) \in {line.before, line.after} /\ Held(line, side) \in Nat
BY DEF Held, Lines

\* Nothing happens to the history.
LEMMA HistoryStays ==
    ASSUME DiskInv, HistoryBook, Grows, UNCHANGED <<op, history>>, acts' \in acts..MaxActs
    PROVE  HistoryBook'
<1>1. Contents \subseteq Contents'
  BY VersionsGrow
<1>2. UNCHANGED <<op, issued, snapshots, index, source, cleared>>
  BY DEF history
<1> USE DEF HistoryBook
<1>3. HistoryTypes'
  BY <1>1, <1>2 DEF HistoryTypes, Claims
<1>4. KeptIsKnown'
  BY <1>1, <1>2 DEF KeptIsKnown
<1>5. NewEntry'
  BY <1>2 DEF NewEntry, Recording
<1>6. SnapshotsMatch'
  BY <1>2 DEF SnapshotsMatch, Recording, Held, SavedOn
<1>7. SidesDone'
  BY <1>2 DEF SidesDone, Done, Held
<1>8. RestoredRight'
  BY <1>2 DEF RestoredRight, RollbackIsTrue, Held, Recording
<1> QED BY <1>3, <1>4, <1>5, <1>6, <1>7, <1>8

\* No entry is made, nor restored: lines and snapshots may go, and a torn line may come.
LEMMA IdleKeeps ==
    ASSUME DiskInv, HistoryBook, Grows, op' \in Ops, op'.pc \in {"idle", "noted", "clear"},
           op'.before \in Contents, op'.after \in Contents, UNCHANGED <<issued, source>>,
           acts' \in acts..MaxActs, snapshots' \subseteq snapshots, index' \in Seq(Lines),
           \A i \in DOMAIN index': index'[i] = Torn \/ \E j \in DOMAIN index: index'[i] = index[j],
           cleared' \in BOOLEAN, op'.pc = "clear" => cleared',
           cleared' \/ index' = <<>> \/ (~cleared /\ snapshots' = snapshots)
    PROVE  HistoryBook'
<1>1. Contents \subseteq Contents' /\ 0 \in Contents'
  BY VersionsGrow DEF Contents
<1> USE DEF HistoryBook
<1>2. issued \in Nat /\ acts \in 0..MaxActs /\ issued <= acts /\ MaxActs \in Nat
  BY FilesAssumption DEF HistoryTypes, Claims, FilesAssumption
<1>3. HistoryTypes'
  BY <1>1, <1>2 DEF HistoryTypes, Claims
<1>4. KeptIsKnown'
  <2>1. ASSUME NEW i \in DOMAIN index'
        PROVE  /\ index'[i].id <= issued
               /\ index'[i].before \in Contents' /\ index'[i].after \in Contents'
    <3>1. CASE index'[i] = Torn
      BY <1>1, <1>2, <3>1, NoOpIs
    <3>2. ASSUME NEW j \in DOMAIN index, index'[i] = index[j]
          PROVE  /\ index'[i].id <= issued
                 /\ index'[i].before \in Contents' /\ index'[i].after \in Contents'
      BY <1>1, <3>2 DEF KeptIsKnown
    <3> QED BY <3>1, <3>2
  <2> QED BY <1>1, <2>1 DEF KeptIsKnown
<1>5. ~Recording'
  BY DEF Recording
<1>6. SnapshotsMatch'
  <2>1. \A s, t \in snapshots': s[1] = t[1] /\ s[2] = t[2] => s[3] = t[3]
    BY DEF SnapshotsMatch
  <2>2. ASSUME NEW s \in snapshots', NEW i \in DOMAIN index', s[1] = index'[i].id
        PROVE  s[3] = Held(index'[i], s[2])
    <3>1. s \in snapshots /\ s[1] > 0 /\ s[1] \in Nat
      BY DEF KeptIsKnown, HistoryTypes
    <3>2. index'[i] # Torn
      BY <2>2, <3>1, NoOpIs
    <3> QED BY <2>2, <3>1, <3>2 DEF SnapshotsMatch
  <2> QED BY <1>5, <2>1, <2>2 DEF SnapshotsMatch, Held
<1>7. SidesDone'
  <2>1. ASSUME ~cleared', NEW i \in DOMAIN index', index'[i] # Torn, NEW side \in Sides
        PROVE  Done(index[i].id, side, Held(index[i], side))'
    <3>1. ~cleared /\ snapshots' = snapshots
      BY <2>1
    <3>2. PICK j \in DOMAIN index: index'[i] = index[j]
      BY <2>1
    <3>3. Done(index[j].id, side, Held(index[j], side))
      BY <2>1, <3>1, <3>2 DEF SidesDone
    <3> QED BY <3>1, <3>2, <3>3 DEF Done, Held
  <2> QED BY <2>1 DEF SidesDone
<1>8. RestoredRight'
  <2>1. RollbackIsTrue'
    <3> SUFFICES ASSUME NEW i \in DOMAIN index', index'[i] # Torn, source[index'[i].id] # NoSource
                 PROVE  index'[i].after = Held(source[index'[i].id].line, source[index'[i].id].side)
      BY DEF RollbackIsTrue, Held
    <3>1. PICK j \in DOMAIN index: index'[i] = index[j]
      OBVIOUS
    <3> QED BY <3>1 DEF RestoredRight, RollbackIsTrue
  <2> QED BY <1>5, <2>1 DEF RestoredRight, Held
<1>9. NewEntry'
  BY <1>5 DEF NewEntry
<1> QED BY <1>3, <1>4, <1>6, <1>7, <1>8, <1>9

\* An entry is begun, of a change or of a rollback.
LEMMA EntryBegins ==
    ASSUME DiskInv, HistoryBook, Grows, issued' = issued + 1, acts' \in acts..MaxActs,
           issued + 1 <= acts', op' \in Ops, op'.pc = "before", op'.id = issued + 1,
           op'.before \in Contents, op'.after \in Contents, UNCHANGED <<snapshots, index, cleared>>,
           source' \in [0..MaxActs -> Sources],
           \A e \in 0..MaxActs: e # issued + 1 => source'[e] = source[e],
           source'[issued + 1] # NoSource =>
               op'.after = Held(source'[issued + 1].line, source'[issued + 1].side)
    PROVE  HistoryBook'
<1>1. Contents \subseteq Contents'
  BY VersionsGrow
<1> USE DEF HistoryBook
<1>2. issued \in Nat /\ acts \in 0..MaxActs /\ MaxActs \in Nat
  BY FilesAssumption DEF HistoryTypes, FilesAssumption
<1>3. HistoryTypes'
  BY <1>1, <1>2 DEF HistoryTypes, Claims
<1>4. ASSUME NEW i \in DOMAIN index PROVE index[i] \in Lines /\ index[i].id \in 0..issued
  <2>1. index[i] \in Lines /\ index[i].id <= issued
    BY DEF KeptIsKnown, HistoryTypes
  <2>2. index[i].id \in Nat
    BY <2>1 DEF Lines
  <2> QED BY <1>2, <2>1, <2>2
<1>5. ASSUME NEW s \in snapshots PROVE s[1] \in 1..issued
  BY <1>2 DEF KeptIsKnown, HistoryTypes
<1>6. KeptIsKnown'
  BY <1>1, <1>2, <1>4, <1>5 DEF KeptIsKnown
<1>7. NewEntry'
  BY <1>2, <1>4 DEF NewEntry
<1>8. SnapshotsMatch'
  <2>1. \A s \in snapshots: s[1] # op'.id
    BY <1>2, <1>5
  <2> QED BY <2>1 DEF SnapshotsMatch, Held
<1>9. SidesDone'
  BY DEF SidesDone, Done, Held
<1>10. RestoredRight'
  <2>1. RollbackIsTrue'
    <3>1. ASSUME NEW i \in DOMAIN index PROVE source'[index[i].id] = source[index[i].id]
      BY <1>2, <1>3, <1>4 DEF HistoryTypes, Claims
    <3> QED BY <3>1 DEF RestoredRight, RollbackIsTrue, Held
  <2>2. \A e \in 0..MaxActs: e > issued' => source'[e] = NoSource
    BY <1>2 DEF RestoredRight
  <2> QED BY <2>1, <2>2 DEF RestoredRight, Held
<1> QED BY <1>3, <1>6, <1>7, <1>8, <1>9, <1>10

\* A side of the entry is kept.
LEMMA SnapshotsKeep ==
    ASSUME DiskInv, HistoryBook, Grows, NEW side \in Sides, Snapshots(side)
    PROVE  HistoryBook'
<1>1. Contents \subseteq Contents'
  BY VersionsGrow
<1> USE DEF HistoryBook
<1> DEFINE k == <<op.id, side, SavedOn(side)>>
<1>2. op \in Ops /\ op.pc = side /\ Recording
  BY DEF HistoryTypes, Snapshots, Recording, Sides
<1>3. /\ op' \in Ops /\ op'.pc = NextPc(side) /\ op'.id = op.id /\ op'.before = op.before
      /\ op'.after = op.after
  BY <1>2 DEF Snapshots, Ops, OpPcs, NextPc
<1>4. op'.pc \in {"after", "append"} /\ Recording' /\ op'.pc # "restore" /\ op'.pc # "clear"
  BY <1>3 DEF NextPc, Recording
<1>5. /\ SavedOn(side) \in Contents /\ SavedOn(side) \in Nat /\ op.id \in Nat
      /\ op.id = issued /\ issued > 0 /\ issued \in Nat
  BY <1>2 DEF HistoryTypes, NewEntry, SavedOn, Ops
<1>6. /\ snapshots' = snapshots \cup (IF SavedOn(side) = NoFile THEN {} ELSE {k})
      /\ UNCHANGED <<issued, index, source, cleared, acts>>
  <2>1. snapshots' = snapshots \cup {<<op.id, side, content>>: content \in KeptContent(side)}
    BY DEF Snapshots
  <2>2. KeptContent(side) = IF SavedOn(side) = NoFile THEN {} ELSE {SavedOn(side)}
    BY DEF KeptContent
  <2> QED BY <2>1, <2>2 DEF Snapshots
<1>7. /\ \A s \in snapshots': s \in snapshots \/ s = k
      /\ snapshots \subseteq snapshots' /\ (SavedOn(side) # NoFile => k \in snapshots')
  BY <1>6
<1>8. k[1] = op.id /\ k[2] = side /\ k[3] = SavedOn(side)
  OBVIOUS
<1>9. snapshots' \subseteq Nat \X Sides \X Nat
  <2>1. k \in Nat \X Sides \X Nat
    BY <1>5
  <2> HIDE DEF k
  <2> QED BY <1>7, <2>1 DEF HistoryTypes
<1> HIDE DEF k
<1>10. HistoryTypes'
  BY <1>1, <1>3, <1>4, <1>6, <1>9 DEF HistoryTypes, Claims, Recording
<1>11. KeptIsKnown'
  <2>1. ASSUME NEW s \in snapshots' PROVE s[1] > 0 /\ s[1] <= issued /\ s[3] \in Contents'
    BY <1>1, <1>5, <1>7, <1>8, <2>1 DEF KeptIsKnown
  <2> QED BY <1>1, <1>6, <2>1 DEF KeptIsKnown
<1>12. NewEntry'
  BY <1>2, <1>3, <1>6 DEF NewEntry
<1>13. SnapshotsMatch'
  <2>1. ASSUME NEW s \in snapshots, s[1] = op.id PROVE s[3] = SavedOn(s[2])
    BY <1>2, <2>1 DEF SnapshotsMatch
  <2>2. ASSUME NEW s \in snapshots', NEW t \in snapshots', s[1] = t[1], s[2] = t[2]
        PROVE  s[3] = t[3]
    <3>1. CASE s \in snapshots /\ t \in snapshots
      BY <2>2, <3>1 DEF SnapshotsMatch
    <3>2. CASE s = k \/ t = k
      BY <1>7, <1>8, <2>1, <2>2, <3>2
    <3> QED BY <1>7, <3>1, <3>2
  <2>3. ASSUME NEW s \in snapshots', NEW i \in DOMAIN index, s[1] = index[i].id
        PROVE  s[3] = Held(index[i], s[2])
    <3>1. index[i].id < issued /\ index[i].id \in Nat
      <4>1. index[i] \in Lines
        BY DEF HistoryTypes
      <4>2. index[i].id < issued
        BY <1>2 DEF NewEntry
      <4> QED BY <4>1, <4>2 DEF Lines
    <3>2. s # k
      BY <1>5, <1>8, <2>3, <3>1
    <3> QED BY <1>7, <2>3, <3>2 DEF SnapshotsMatch
  <2>4. ASSUME NEW s \in snapshots', s[1] = op.id PROVE s[3] = SavedOn(s[2])
    BY <1>7, <1>8, <2>1, <2>4
  <2> QED BY <1>3, <1>6, <2>2, <2>3, <2>4 DEF SnapshotsMatch, Held, SavedOn
<1>14. SidesDone'
  <2>1. \A id, s, content: Done(id, s, content) => content = NoFile \/ <<id, s, content>> \in snapshots'
    BY <1>7 DEF Done
  <2>2. SavedOn(side) = NoFile \/ <<op.id, side, SavedOn(side)>> \in snapshots'
    BY <1>7 DEF k
  <2>3. op'.pc \in {"after", "append"} => op.before = NoFile \/ <<op.id, "before", op.before>> \in snapshots'
    <3>1. CASE side = "before"
      BY <2>2, <3>1 DEF SavedOn
    <3>2. CASE side = "after"
      <4>1. Done(op.id, "before", op.before)
        BY <1>2, <3>2 DEF SidesDone
      <4> QED BY <2>1, <4>1
    <3> QED BY <3>1, <3>2 DEF Sides
  <2>4. op'.pc = "append" => op.after = NoFile \/ <<op.id, "after", op.after>> \in snapshots'
    BY <1>3, <2>2 DEF NextPc, SavedOn, Sides
  <2>5. ASSUME ~cleared, NEW i \in DOMAIN index, index[i] # Torn, NEW s \in Sides
        PROVE  Held(index[i], s) = NoFile \/ <<index[i].id, s, Held(index[i], s)>> \in snapshots'
    BY <2>1, <2>5 DEF SidesDone
  <2> QED BY <1>3, <1>4, <1>6, <2>3, <2>4, <2>5 DEF SidesDone, Done, Held
<1>15. RestoredRight'
  BY <1>2, <1>3, <1>4, <1>6 DEF RestoredRight, RollbackIsTrue, Held
<1> QED BY <1>10, <1>11, <1>12, <1>13, <1>14, <1>15

\* The line of the entry: it becomes part of a torn one, or says what was kept.
LEMMA AppendsKeeps == ASSUME DiskInv, HistoryBook, Grows, Appends PROVE HistoryBook'
<1>1. Contents \subseteq Contents' /\ 0 \in Contents'
  BY VersionsGrow DEF Contents
<1> USE DEF HistoryBook
<1>2. op \in Ops /\ op.pc = "append" /\ Recording /\ index \in Seq(Lines)
      /\ issued \in Nat /\ acts \in 0..MaxActs /\ issued <= acts
  BY DEF HistoryTypes, Appends, Recording, Claims
<1>3. /\ op' = NoOp /\ UNCHANGED <<issued, snapshots, source, cleared, acts>>
      /\ index' = index \/ index' = Append(index, Line)
  BY DEF Appends, Appended
<1>4. MaxActs \in Nat
  BY FilesAssumption DEF FilesAssumption
<1>5. CASE index' = index
  <2>1. acts' \in acts..MaxActs /\ cleared \in BOOLEAN
    BY <1>2, <1>3, <1>4 DEF HistoryTypes
  <2>2. \A i \in DOMAIN index': index'[i] = Torn \/ \E j \in DOMAIN index: index'[i] = index[j]
    BY <1>5
  <2>3. op'.before \in Contents /\ op'.after \in Contents
    BY <1>3, NoOpIs DEF DiskInv, Contents
  <2> QED BY <1>2, <1>3, <1>5, <2>1, <2>2, <2>3, NoOpIs, IdleKeeps
<1>6. CASE index' = Append(index, Line)
  <2>1. /\ Line \in Lines /\ Line.id = op.id /\ Line.before = op.before /\ Line.after = op.after
        /\ op.id = issued /\ issued > 0 /\ \A s: Held(Line, s) = SavedOn(s)
    BY <1>2 DEF Line, Lines, Ops, NewEntry, Held, SavedOn
  <2>2. /\ index' \in Seq(Lines)
        /\ \A i \in DOMAIN index': (i \in DOMAIN index /\ index'[i] = index[i]) \/ index'[i] = Line
    <3>1. /\ DOMAIN Append(index, Line) = 1..(Len(index) + 1) /\ DOMAIN index = 1..Len(index)
          /\ Len(index) \in Nat /\ Append(index, Line) \in Seq(Lines)
          /\ \A j \in 1..Len(index): Append(index, Line)[j] = index[j]
          /\ Append(index, Line)[Len(index) + 1] = Line
      BY <1>2, <2>1, AppendProperties
    <3> QED BY <1>6, <3>1
  <2>3. ~Recording' /\ op'.pc = "idle"
    BY <1>3, NoOpIs DEF Recording
  <2>4. HistoryTypes'
    BY <1>1, <1>2, <1>3, <2>2, NoOpIs DEF HistoryTypes, Claims
  <2>5. KeptIsKnown'
    <3>1. op.before \in Contents /\ op.after \in Contents
      BY DEF HistoryTypes
    <3>2. ASSUME NEW i \in DOMAIN index'
          PROVE  /\ index'[i].id <= issued
                 /\ index'[i].before \in Contents' /\ index'[i].after \in Contents'
      BY <1>1, <1>2, <2>1, <2>2, <3>1 DEF KeptIsKnown
    <3> QED BY <1>1, <1>3, <3>2 DEF KeptIsKnown
  <2>6. SnapshotsMatch'
    <3>1. ASSUME NEW s \in snapshots, NEW i \in DOMAIN index', s[1] = index'[i].id
          PROVE  s[3] = Held(index'[i], s[2])
      <4>1. CASE i \in DOMAIN index /\ index'[i] = index[i]
        BY <3>1, <4>1 DEF SnapshotsMatch
      <4>2. CASE index'[i] = Line
        BY <1>2, <2>1, <3>1, <4>2 DEF SnapshotsMatch
      <4> QED BY <2>2, <4>1, <4>2
    <3> QED BY <1>3, <2>3, <3>1 DEF SnapshotsMatch, Held
  <2>7. SidesDone'
    <3>1. ASSUME ~cleared, NEW i \in DOMAIN index', index'[i] # Torn, NEW side \in Sides
          PROVE  Done(index[i].id, side, Held(index[i], side))'
      <4>1. CASE i \in DOMAIN index /\ index'[i] = index[i]
        BY <1>3, <3>1, <4>1 DEF SidesDone, Done, Held
      <4>2. CASE index'[i] = Line
        <5>1. Done(op.id, side, SavedOn(side))
          BY <1>2 DEF SidesDone, SavedOn, Sides
        <5>2. index'[i].id = op.id /\ Held(index'[i], side) = SavedOn(side)
          BY <2>1, <4>2
        <5> QED BY <1>3, <5>1, <5>2 DEF Done, Held
      <4> QED BY <2>2, <4>1, <4>2
    <3> QED BY <1>3, <2>3, <3>1 DEF SidesDone
  <2>8. RestoredRight'
    <3>1. ASSUME NEW i \in DOMAIN index', index'[i] # Torn, source[index'[i].id] # NoSource
          PROVE  index'[i].after = Held(source[index'[i].id].line, source[index'[i].id].side)
      <4>1. CASE i \in DOMAIN index /\ index'[i] = index[i]
        BY <3>1, <4>1 DEF RestoredRight, RollbackIsTrue
      <4>2. CASE index'[i] = Line
        BY <1>2, <2>1, <3>1, <4>2 DEF RestoredRight
      <4> QED BY <2>2, <4>1, <4>2
    <3>2. RollbackIsTrue'
      BY <1>3, <3>1 DEF RollbackIsTrue, Held
    <3> QED BY <1>3, <2>3, <3>2 DEF RestoredRight
  <2>9. NewEntry'
    BY <2>3 DEF NewEntry
  <2> QED BY <2>4, <2>5, <2>6, <2>7, <2>8, <2>9
<1> QED BY <1>3, <1>5, <1>6

\* A rollback reads what the entry held on that side.
LEMMA RollsBackKeeps == ASSUME DiskInv, HistoryBook, Grows, RollsBack PROVE HistoryBook'
<1>1. Contents \subseteq Contents' /\ 0 \in Contents
  BY VersionsGrow DEF Contents, DiskInv
<1> USE DEF HistoryBook
<1>2. PICK i \in DOMAIN index, side \in Sides: \E content \in Read(index[i], side):
        op' = [NoOp EXCEPT !.pc = "restore", !.before = file, !.after = content,
                           !.from = [line |-> index[i], side |-> side]]
  BY DEF RollsBack
<1>3. PICK content \in Read(index[i], side):
        op' = [NoOp EXCEPT !.pc = "restore", !.before = file, !.after = content,
                           !.from = [line |-> index[i], side |-> side]]
  BY <1>2
<1>4. UNCHANGED <<issued, snapshots, index, source, cleared>> /\ op = NoOp
      /\ acts' = acts + 1 /\ acts < MaxActs
  BY DEF RollsBack, Act, history
<1>5. index[i] \in Lines
  BY DEF HistoryTypes
<1>6. content = Held(index[i], side)
  <2>1. CASE Held(index[i], side) = NoFile
    BY <2>1 DEF Read
  <2>2. CASE Held(index[i], side) # NoFile
    <3>1. content \in {s[3]: s \in {t \in snapshots: t[1] = index[i].id /\ t[2] = side}}
      BY <2>2 DEF Read, Snapshot
    <3>2. PICK s \in snapshots: s[1] = index[i].id /\ s[2] = side /\ content = s[3]
      BY <3>1
    <3> QED BY <3>2 DEF SnapshotsMatch
  <2> QED BY <2>1, <2>2
<1>7. content \in Contents /\ content \in Nat
  BY <1>5, <1>6, HeldIs DEF KeptIsKnown
<1>8. file \in Contents /\ file \in Nat
  BY DEF DiskInv, Contents
<1>9. /\ op' \in Ops /\ op'.pc = "restore" /\ op'.before = file /\ op'.after = content
      /\ op'.from.line = index[i] /\ op'.from.side = side
  <2>1. [line |-> index[i], side |-> side] \in Sources
    BY <1>5 DEF Sources
  <2> QED BY <1>3, <1>7, <1>8, <2>1, NoOpIs DEF Ops, OpPcs
<1>10. issued \in Nat /\ acts \in 0..MaxActs /\ issued <= acts /\ MaxActs \in Nat
  BY <1>4, NoOpIs, FilesAssumption DEF HistoryTypes, Claims, FilesAssumption
<1>11. ~Recording' /\ Claims' = 1 /\ issued + 1 <= acts' /\ acts' \in 0..MaxActs
  BY <1>4, <1>9, <1>10 DEF Recording, Claims
<1>12. HistoryTypes'
  BY <1>1, <1>4, <1>7, <1>8, <1>9, <1>11 DEF HistoryTypes
<1>13. KeptIsKnown' /\ NewEntry' /\ SnapshotsMatch'
  BY <1>1, <1>4, <1>11 DEF KeptIsKnown, NewEntry, SnapshotsMatch, Held
<1>14. SidesDone'
  BY <1>4, <1>9 DEF SidesDone, Done, Held
<1>15. RestoredRight'
  BY <1>4, <1>6, <1>9, <1>11 DEF RestoredRight, RollbackIsTrue, Held
<1> QED BY <1>12, <1>13, <1>14, <1>15

LEMMA FilesInvInit == FilesInit => FilesInv
<1> SUFFICES ASSUME FilesInit PROVE FilesInv
  OBVIOUS
<1>1. DiskInv
  <2>1. versions \in Seq(FileCalls \cup {"user"}) /\ file \in Contents
    <3>1. CASE file = NoFile /\ versions = <<>>
      BY <3>1 DEF Contents, NoFile
    <3>2. CASE file = 2 /\ versions = <<"user">>
      <4>1. "user" \in FileCalls \cup {"user"}
        OBVIOUS
      <4>2. <<"user">> \in Seq(FileCalls \cup {"user"}) /\ Len(<<"user">>) = 1
        BY <4>1
      <4> QED BY <3>2, <4>2 DEF Contents
    <3> QED BY <3>1, <3>2 DEF FilesInit
  <2> QED BY <2>1 DEF DiskInv, FilesInit
<1>2. CallsBook
  <2>1. \A kind \in Kinds: NoFileCall(kind) \in FileCallSet /\ CallOK(NoFileCall(kind), 1)
    BY DEF NoFileCall, FileCallSet, CallOK, CallPcs, Tellings
  <2>2. ASSUME NEW c \in FileCalls
        PROVE  fileCall[c] \in FileCallSet /\ CallOK(fileCall[c], changes)
    <3>1. \E kind \in Kinds: fileCall[c] = NoFileCall(kind)
      BY DEF FilesInit
    <3> QED BY <2>1, <3>1 DEF FilesInit
  <2>3. fileCall \in [FileCalls -> FileCallSet]
    BY <2>2 DEF FilesInit
  <2>4. \A i \in DOMAIN versions: versions[i] = "user"
    BY DEF FilesInit
  <2> QED BY <2>2, <2>3, <2>4 DEF CallsBook
<1>3. HistoryBook
  <2>1. /\ op = NoOp /\ index = <<>> /\ snapshots = {} /\ issued = 0 /\ acts = 0 /\ cleared = FALSE
        /\ source = [e \in 0..MaxActs |-> NoSource] /\ 0 \in Contents /\ MaxActs \in Nat
    BY <1>1, FilesAssumption DEF FilesInit, DiskInv, Contents, FilesAssumption
  <2>2. ~Recording /\ op.pc = "idle"
    BY <2>1, NoOpIs DEF Recording
  <2>3. HistoryTypes
    BY <2>1, <2>2, NoOpIs DEF HistoryTypes, Claims
  <2>4. KeptIsKnown /\ NewEntry /\ SnapshotsMatch /\ SidesDone
    BY <2>1, <2>2 DEF KeptIsKnown, NewEntry, SnapshotsMatch, SidesDone
  <2>5. RestoredRight
    BY <2>1, <2>2 DEF RestoredRight, RollbackIsTrue
  <2> QED BY <2>3, <2>4, <2>5 DEF HistoryBook
<1> QED BY <1>1, <1>2, <1>3 DEF FilesInv

LEMMA HistoryKeeps == ASSUME DiskInv, HistoryBook, Grows, FilesNext PROVE HistoryBook'
<1>1. /\ acts \in 0..MaxActs /\ MaxActs \in Nat /\ issued \in Nat /\ op \in Ops /\ index \in Seq(Lines)
      /\ issued + Claims <= acts /\ op.before \in Contents /\ op.after \in Contents
      /\ file \in Contents /\ file \in Nat /\ 0 \in Contents /\ cleared \in BOOLEAN
      /\ source \in [0..MaxActs -> Sources]
  BY FilesAssumption DEF HistoryBook, HistoryTypes, DiskInv, Contents, FilesAssumption
<1>2. Act => acts' \in acts..MaxActs /\ acts' = acts + 1
  BY <1>1 DEF Act
<1>3. UNCHANGED acts => acts' \in acts..MaxActs
  BY <1>1
<1>4. ASSUME \/ UserSaves \/ UserDeletes
             \/ \E c \in FileCalls: Approve(c) \/ Shows(c) \/ Deny(c) \/ AbortCall(c) \/ CallStep(c)
      PROVE  HistoryBook'
  <2>1. UNCHANGED <<op, history>> /\ (Act \/ UNCHANGED acts)
    BY <1>4 DEF UserSaves, UserDeletes, Approve, Shows, Deny, AbortCall, CallStep, Previews, OpensFile,
                WritesFile, FileWriteFails, OthersStay
  <2> QED BY <1>2, <1>3, <2>1, HistoryStays
<1>5. ASSUME Notes PROVE HistoryBook'
  <2>1. /\ Act /\ UNCHANGED history /\ op = NoOp
        /\ op' = [NoOp EXCEPT !.pc = "noted", !.before = file]
    BY <1>5 DEF Notes
  <2>2. op' \in Ops /\ op'.pc = "noted" /\ op'.before = file /\ op'.after = 0
    BY <1>1, <2>1, NoOpIs DEF Ops, OpPcs
  <2>3. /\ UNCHANGED <<issued, source, snapshots, index, cleared>> /\ (~cleared \/ cleared)
        /\ \A i \in DOMAIN index': index'[i] = Torn \/ \E j \in DOMAIN index: index'[i] = index[j]
    BY <2>1 DEF history
  <2> QED BY <1>1, <1>2, <2>1, <2>2, <2>3, IdleKeeps
<1>6. ASSUME Records PROVE HistoryBook'
  <2>1. /\ Act /\ issued' = issued + 1 /\ UNCHANGED <<snapshots, index, source, cleared>>
        /\ op.pc # "restore"
        /\ op' = [op EXCEPT !.pc = "before", !.id = issued + 1, !.after = file]
    BY <1>6 DEF Records
  <2>2. op' \in Ops /\ op'.pc = "before" /\ op'.id = issued + 1 /\ op'.before = op.before /\ op'.after = file
    BY <1>1, <2>1 DEF Ops, OpPcs
  <2>3. issued + 1 <= acts' /\ acts' \in acts..MaxActs
    BY <1>1, <1>2, <2>1 DEF Claims
  <2>4. source[issued + 1] = NoSource
    <3>1. issued + 1 \in 0..MaxActs /\ issued + 1 > issued
      BY <1>1, <2>3
    <3> QED BY <3>1 DEF HistoryBook, RestoredRight
  <2> QED BY <1>1, <2>1, <2>2, <2>3, <2>4, EntryBegins
<1>7. ASSUME Restores PROVE HistoryBook'
  <2>1. /\ issued' = issued + 1 /\ UNCHANGED <<snapshots, index, cleared, acts>> /\ op.pc = "restore"
        /\ source' = [source EXCEPT ![issued + 1] = op.from]
        /\ op' = [op EXCEPT !.pc = "before", !.id = issued + 1]
    BY <1>7 DEF Restores
  <2>2. /\ op' \in Ops /\ op'.pc = "before" /\ op'.id = issued + 1 /\ op'.before = op.before
        /\ op'.after = op.after /\ op.from \in Sources
    <3>1. op.from \in Sources
      BY <1>1 DEF Ops
    <3>2. issued + 1 \in Nat /\ "before" \in OpPcs
      BY <1>1 DEF OpPcs
    <3> QED BY <1>1, <2>1, <3>1, <3>2 DEF Ops
  <2>3. issued + 1 <= acts' /\ acts' \in acts..MaxActs /\ issued + 1 \in 0..MaxActs
    BY <1>1, <1>3, <2>1 DEF Claims
  <2>4. /\ source' \in [0..MaxActs -> Sources] /\ source'[issued + 1] = op.from
        /\ \A e \in 0..MaxActs: e # issued + 1 => source'[e] = source[e]
    BY <1>1, <2>1, <2>2, <2>3
  <2>5. op.after = Held(op.from.line, op.from.side)
    BY <2>1 DEF HistoryBook, RestoredRight
  <2> QED BY <1>1, <2>1, <2>2, <2>3, <2>4, <2>5, EntryBegins
<1>8. ASSUME Clears PROVE HistoryBook'
  <2>1. /\ Act /\ UNCHANGED <<issued, snapshots, index, source>> /\ cleared' = TRUE
        /\ op' = [NoOp EXCEPT !.pc = "clear"]
    BY <1>8 DEF Clears
  <2>2. op' \in Ops /\ op'.pc = "clear" /\ op'.before = 0 /\ op'.after = 0
    BY <2>1, NoOpIs DEF Ops, OpPcs
  <2>3. \A i \in DOMAIN index': index'[i] = Torn \/ \E j \in DOMAIN index: index'[i] = index[j]
    BY <2>1
  <2> QED BY <1>1, <1>2, <2>1, <2>2, <2>3, IdleKeeps
<1>9. ASSUME Unlinks PROVE HistoryBook'
  <2>1. /\ op.pc = "clear" /\ UNCHANGED <<op, issued, source, cleared, acts>>
        /\ (index' = <<>> \/ index' = index) /\ snapshots' \subseteq snapshots
    BY <1>9 DEF Unlinks
  <2>2. cleared
    BY <2>1 DEF HistoryBook, SidesDone
  <2>3. /\ index' \in Seq(Lines)
        /\ \A i \in DOMAIN index': index'[i] = Torn \/ \E j \in DOMAIN index: index'[i] = index[j]
    <3>1. CASE index' = <<>>
      BY <3>1
    <3>2. CASE index' = index
      BY <1>1, <3>2
    <3> QED BY <2>1, <3>1, <3>2
  <2> QED BY <1>1, <1>3, <2>1, <2>2, <2>3, IdleKeeps
<1>10. ASSUME ClearEnds PROVE HistoryBook'
  <2>1. /\ op' = NoOp /\ cleared' = FALSE /\ index = <<>>
        /\ UNCHANGED <<issued, snapshots, index, source, acts>>
    BY <1>10 DEF ClearEnds
  <2>2. \A i \in DOMAIN index': index'[i] = Torn \/ \E j \in DOMAIN index: index'[i] = index[j]
    BY <2>1
  <2> QED BY <1>1, <1>3, <2>1, <2>2, NoOpIs, IdleKeeps
<1>11. ASSUME Crash PROVE HistoryBook'
  <2>1. /\ Act /\ op' = NoOp /\ UNCHANGED <<issued, snapshots, source, cleared>>
        /\ index' = index \/ index' = Append(index, Torn)
    BY <1>11 DEF Crash, Appended
  <2>2. /\ index' \in Seq(Lines)
        /\ \A i \in DOMAIN index': index'[i] = Torn \/ \E j \in DOMAIN index: index'[i] = index[j]
    <3>1. CASE index' = Append(index, Torn)
      <4>1. /\ DOMAIN Append(index, Torn) = 1..(Len(index) + 1) /\ DOMAIN index = 1..Len(index)
            /\ Len(index) \in Nat /\ Append(index, Torn) \in Seq(Lines)
            /\ \A j \in 1..Len(index): Append(index, Torn)[j] = index[j]
            /\ Append(index, Torn)[Len(index) + 1] = Torn
        BY <1>1, NoOpIs, AppendProperties
      <4> QED BY <3>1, <4>1
    <3> QED BY <1>1, <2>1, <3>1
  <2> QED BY <1>1, <1>2, <2>1, <2>2, NoOpIs, IdleKeeps
<1> QED BY <1>4, <1>5, <1>6, <1>7, <1>8, <1>9, <1>10, <1>11, SnapshotsKeep, AppendsKeeps, RollsBackKeeps
        DEF FilesNext, OpStep

LEMMA FilesInvNext == FilesInv /\ [FilesNext]_fileVars => FilesInv'
<1>1. ASSUME FilesInv, FilesNext PROVE FilesInv'
  <2>1. DiskInv' /\ Grows /\ CallsBook'
    BY <1>1, DiskAndCallsKeep DEF FilesInv, HistoryBook
  <2>2. HistoryBook'
    BY <1>1, <2>1, HistoryKeeps DEF FilesInv
  <2> QED BY <2>1, <2>2 DEF FilesInv
<1>2. ASSUME FilesInv, UNCHANGED fileVars PROVE FilesInv'
  <2>1. /\ UNCHANGED <<disk, fileCall, op, history>> /\ UNCHANGED acts /\ acts' \in acts..MaxActs
    BY <1>2 DEF fileVars, FilesInv, HistoryBook, HistoryTypes
  <2>2. DiskInv' /\ Grows /\ CallsBook'
    BY <1>2, <2>1, SameDisk, CallsStay DEF FilesInv
  <2>3. HistoryBook'
    BY <1>2, <2>1, <2>2, HistoryStays DEF FilesInv
  <2> QED BY <2>2, <2>3 DEF FilesInv
<1> QED BY <1>1, <1>2

\* Of an entry there is one snapshot of a side at most.
LEMMA TwoSnapshotsAtMost == FilesInv => Cardinality(snapshots) <= 2 * issued
<1> SUFFICES ASSUME FilesInv PROVE Cardinality(snapshots) <= 2 * issued
  OBVIOUS
<1> DEFINE T == (1..issued) \X Sides
           f == [s \in snapshots |-> <<s[1], s[2]>>]
<1>1. /\ issued \in Nat /\ snapshots \subseteq Nat \X Sides \X Nat
      /\ \A s \in snapshots: s[1] > 0 /\ s[1] <= issued
      /\ \A s, t \in snapshots: s[1] = t[1] /\ s[2] = t[2] => s[3] = t[3]
  BY DEF FilesInv, HistoryBook, HistoryTypes, KeptIsKnown, SnapshotsMatch
<1>2. ASSUME NEW s \in snapshots
      PROVE  s[1] \in 1..issued /\ s[2] \in Sides /\ s = <<s[1], s[2], s[3]>>
  BY <1>1
<1>3. f \in Injection(snapshots, T)
  <2>1. f \in [snapshots -> T]
    BY <1>2
  <2>2. ASSUME NEW s \in snapshots, NEW t \in snapshots, f[s] = f[t] PROVE s = t
    <3>1. s[1] = t[1] /\ s[2] = t[2]
      BY <2>2
    <3> QED BY <1>1, <1>2, <3>1
  <2> QED BY <2>1, <2>2 DEF Injection, IsInjective
<1>4. IsFiniteSet(T) /\ Cardinality(T) = 2 * issued
  <2>1. IsFiniteSet(1..issued) /\ Cardinality(1..issued) = issued
    BY <1>1, FS_Interval
  <2>2. IsFiniteSet(Sides) /\ Cardinality(Sides) = 2
    <3>1. IsFiniteSet({}) /\ Cardinality({}) = 0
      BY FS_EmptySet
    <3>2. IsFiniteSet({"before"}) /\ Cardinality({"before"}) = 1
      BY FS_Singleton
    <3>3. IsFiniteSet({"before"} \cup {"after"}) /\ Cardinality({"before"} \cup {"after"}) = 1 + 1
      BY <3>2, FS_AddElement
    <3>4. Sides = {"before"} \cup {"after"}
      BY DEF Sides
    <3> QED BY <3>3, <3>4
  <2>3. IsFiniteSet(T) /\ Cardinality(T) = Cardinality(1..issued) * Cardinality(Sides)
    BY <2>1, <2>2, FS_Product
  <2> HIDE DEF T
  <2> QED BY <1>1, <2>1, <2>2, <2>3
<1> HIDE DEF f, T
<1> QED BY <1>3, <1>4, FS_Injection

LEMMA InvFiles == FilesInv => FilesAreTrue
<1> SUFFICES ASSUME FilesInv PROVE FilesAreTrue
  OBVIOUS
<1> USE DEF FilesInv, HistoryBook
<1>1. FilesTypeOK
  <2>1. file \in 0..(Len(versions) + 1) /\ replaced \in 0..changes
    BY DEF DiskInv, Contents
  <2>2. \A c \in FileCalls:
          /\ fileCall[c].kind \in Kinds /\ fileCall[c].pc \in {"asked", "preview", "apply", "open", "over"}
          /\ fileCall[c].told \in {"none", "ok", "failed", "denied", "aborted", "lost"}
          /\ fileCall[c].pc = "over" => fileCall[c].told # "none"
    BY DEF CallsBook, CallOK, FileCallSet, CallPcs, Tellings
  <2>3. issued \in 0..MaxActs /\ issued \in Nat
    BY FilesAssumption DEF HistoryTypes, Claims, FilesAssumption
  <2>4. ASSUME NEW i \in DOMAIN index PROVE index[i].id \in 0..issued
    <3>1. index[i] \in Lines /\ index[i].id <= issued
      BY DEF HistoryTypes, KeptIsKnown
    <3> QED BY <2>3, <3>1 DEF Lines
  <2> QED BY <2>1, <2>2, <2>3, <2>4, TwoSnapshotsAtMost DEF FilesTypeOK
<1>2. PlanIsFresh
  BY DEF PlanIsFresh, CallsBook, CallOK
<1>3. AbortIsHeeded
  BY DEF AbortIsHeeded, CallsBook, Written
<1>4. EntriesComplete
  <2> SUFFICES ASSUME ~cleared, NEW i \in DOMAIN index, index[i] # Torn, NEW side \in Sides
               PROVE  Read(index[i], side) = {Held(index[i], side)}
    BY DEF EntriesComplete
  <2>1. Done(index[i].id, side, Held(index[i], side))
    BY DEF SidesDone
  <2>2. CASE Held(index[i], side) = NoFile
    BY <2>2 DEF Read
  <2>3. CASE Held(index[i], side) # NoFile
    <3> DEFINE k == <<index[i].id, side, Held(index[i], side)>>
               K == {t \in snapshots: t[1] = index[i].id /\ t[2] = side}
    <3>1. k \in K /\ k[3] = Held(index[i], side)
      BY <2>1, <2>3 DEF Done
    <3>2. \A s \in K: s[3] = Held(index[i], side)
      BY DEF SnapshotsMatch
    <3>3. Read(index[i], side) = {s[3]: s \in K}
      BY <2>3 DEF Read, Snapshot
    <3> HIDE DEF k, K
    <3> QED BY <3>1, <3>2, <3>3
  <2> QED BY <2>2, <2>3
<1>5. RollbackIsTrue
  BY DEF RestoredRight
<1> QED BY <1>1, <1>2, <1>3, <1>4, <1>5 DEF FilesAreTrue

\* file_write, file_edit and FileHistoryStore, for any number of tool calls and of saves,
\* aborts, failed writes, rollbacks, clears and crashes: what is written was worked out from
\* the file as it was when the call was carried out, nothing is written for a call that was
\* refused or aborted before, and what the index lists can be read back as it was.
THEOREM FilesHold == Spec => []FilesAreTrue
<1>1. Init => FilesInv
  BY FilesInvInit DEF Init
<1>2. [Next]_vars => [FilesNext]_fileVars
  BY DEF Next, AtPrompt, AtRules, AtFiles, vars
<1>3. FilesInv /\ [Next]_vars => FilesInv'
  BY <1>2, FilesInvNext
<1> QED BY <1>1, <1>3, InvFiles, PTL DEF Spec
=============================================================================
