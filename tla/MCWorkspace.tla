----------------------------- MODULE MCWorkspace -----------------------------
(***************************************************************************)
(* What the user asks for and allows, and what comes of it in his files,   *)
(* in parts that share no state, so that a behaviour is about one of them: *)
(*   - "prompt": the box, its suggestions and its commands (Prompt),       *)
(*   - "rules": what the permissions say of a call (PermissionRules),      *)
(*   - "files": a file, its tools and its history (WorkspaceFiles).        *)
(***************************************************************************)
EXTENDS Prompt, PermissionRules, WorkspaceFiles, TLC

VARIABLE desk

vars == <<desk, promptVars, ruleVars, fileVars>>

Init ==
    /\ desk \in {"prompt", "rules", "files"}
    /\ PromptInit /\ RulesInit /\ FilesInit
    /\ desk # "rules" => mode = "default"
    /\ desk # "files" => file = NoFile /\ \A c \in FileCalls: fileCall[c].kind = "edit"

AtPrompt == desk = "prompt" /\ PromptNext /\ UNCHANGED <<desk, ruleVars, fileVars>>
AtRules == desk = "rules" /\ RulesNext /\ UNCHANGED <<desk, promptVars, fileVars>>
AtFiles == desk = "files" /\ FilesNext /\ UNCHANGED <<desk, promptVars, ruleVars>>

Next == AtPrompt \/ AtRules \/ AtFiles

Spec == Init /\ [][Next]_vars

Symmetric == Permutations(FileCalls)

-----------------------------------------------------------------------------
\* The commands of the table that the texts below are about, in its order.
Table == <<"clear", "tool-log", "copy-log", "tasks", "task", "exit">>
WhileBusy == {"tasks", "task", "tool-log", "copy-log"}

Text(kind, word, runs, hits) == [kind |-> kind, word |-> word, runs |-> runs, hits |-> hits]
ToolText == Text("tool", "none", "none", {"clear", "tool-log", "copy-log"})

\* A message; /tool with a name; /cl; /task with an id; a word nobody knows; /exit.
SomeTexts ==
    {Text("message", "none", "none", {}), ToolText,
     Text("command", "none", "none", {"clear", "copy-log"}),
     Text("command", "task", "task", {"tasks", "task"}),
     Text("command", "none", "none", {}), Text("command", "exit", "exit", {"exit"})}

(***************************************************************************)
(* The calls: of each tool every kind of command, and the marks alone and  *)
(* in the pairs that two rungs of a ladder are about.                      *)
(***************************************************************************)
SomeOf(tool, heads, marks) == [tool: tool, head: heads, marks: marks]

SomeCalls ==
    SomeOf({"bash"}, BashHeads, {{}, {"redirect"}, {"redirect", "chain"}})
    \cup SomeOf({"bash"}, {"safe"},
               {{"fork_bomb"}, {"piped_download"}, {"deletes_root_within"}, {"find_acts"}})
    \cup SomeOf({"bash", "powershell"}, {"trusted"},
               {{"git_rewrites"}, {"git_rewrites", "evaluates"}})
    \cup SomeOf({"bash"}, {"elevated"},
               {{"deletes_tree"}, {"deletes_tree", "deletes_root"}, {"deletes_tree", "evaluates"}})
    \cup SomeOf({"bash"}, {"unknown"}, {{"unparsed"}, {"unparsed", "fork_bomb"}})
    \cup SomeOf({"powershell"}, PowerShellHeads,
               {{}, {"redirect"}, {"chain", "pipe"}, {"pipe"}})
    \cup SomeOf({"powershell"}, {"safe"}, {{"encoded"}, {"piped_download"}})
    \cup SomeOf({"powershell"}, {"elevated"},
               {{"deletes_tree"}, {"deletes_tree", "deletes_root"}, {"deletes_tree", "encoded"}})
    \cup SomeOf({"file_read", "file_write"}, {"path"},
               {{}, {"protected", "critical_name"}, {"important", "target_outside"}}
               \cup {{mark}: mark \in PathMarks})
    \cup SomeOf({"other"}, Risks, {{}})

-----------------------------------------------------------------------------
(***************************************************************************)
(* No change of a file is lost, none is made for a call that was refused   *)
(* or aborted before, and the history gives back what it was given; all    *)
(* values are in their sets.                                               *)
(***************************************************************************)
FilesAreTrue ==
    FilesTypeOK /\ PlanIsFresh /\ AbortIsHeeded /\ EntriesComplete /\ RollbackIsTrue
=============================================================================
