--------------------------- MODULE WorkspaceFiles ---------------------------
(***************************************************************************)
(* One file of the workspace and those who change it:                      *)
(*   - the tools file_write and file_edit (pywork/tools/file_write.py,     *)
(*     file_edit.py, file_change.py): a preview and an apply, each in a    *)
(*     thread, after an approval that may show a preview of its own        *)
(*     (runtime/file_change_preview.py),                                   *)
(*   - FileHistoryStore (pywork/storage/file_history.py): snapshots, an    *)
(*     index of entries, rollback and clear,                               *)
(*   - the user, who saves the file in an editor,                          *)
(* with an abort of a tool call at any time, a write that fails and a      *)
(* crash of the process between any two steps.  A content is the number of *)
(* the version it is; a step is one access to the disk.                    *)
(***************************************************************************)
EXTENDS Naturals, Sequences, FiniteSets

CONSTANTS
    FileCalls,       \* tool calls
    MaxActs      \* bound: what the users, the history's clients and a crash do, together

ASSUME FilesAssumption == MaxActs \in Nat

VARIABLES
    file,        \* the content on disk
    changes,     \* changes of the file on disk so far
    replaced,    \* the last of them that put another file in its place
    versions,    \* who made each version
    fileCall,        \* the tool calls
    op,          \* the operation of the history's client
    snapshots,   \* the snapshot files: <<entry, side, content>>
    index,       \* the lines of index.jsonl
    issued,      \* entry ids made so far
    source,      \* the line and the side an entry rolled back to, NoSource if none
    cleared,     \* a clear has removed files and has not ended
    acts          \* what counts towards the bound, so far

disk == <<file, changes, replaced, versions>>
history == <<issued, snapshots, index, source, cleared>>
fileVars == <<disk, fileCall, op, history, acts>>

NoFile == 0
\* What an open for writing leaves, and what two writes at once or a failed one may leave.
Partial == 1

Kinds == {"edit", "create", "overwrite"}      \* file_edit, file_write without and with overwrite

\* seen is the change the plan's old content was read at, began the one its execution began at.
\* late: the abort came when the write was under way.
NoFileCall(kind) == [kind |-> kind, pc |-> "asked", seen |-> 0, began |-> 0, opened |-> 0,
                 told |-> "none", late |-> FALSE]

Sides == {"before", "after"}
\* A line of the index that a crash cut short, with whatever was appended to it since.
Torn == [id |-> 0, before |-> NoFile, after |-> NoFile]
NoSource == [line |-> Torn, side |-> "after"]
NoOp == [pc |-> "idle", id |-> 0, before |-> NoFile, after |-> NoFile, from |-> NoSource]

FilesInit ==
    /\ \/ file = NoFile /\ versions = <<>>
       \/ file = 2 /\ versions = <<"user">>
    /\ changes = 1 /\ replaced = 1
    /\ fileCall \in [FileCalls -> {NoFileCall(kind): kind \in Kinds}]
    /\ op = NoOp
    /\ snapshots = {} /\ index = <<>> /\ cleared = FALSE
    /\ issued = 0 /\ source = [e \in 0..MaxActs |-> NoSource]
    /\ acts = 0

-----------------------------------------------------------------------------
(***************************************************************************)
(* The disk.                                                               *)
(***************************************************************************)
Act == acts < MaxActs /\ acts' = acts + 1

\* A new version in the file that is there, or part of one.
Makes(who) ==
    /\ versions' = Append(versions, who)
    /\ file' = Len(versions) + 2
    /\ changes' = changes + 1
    /\ UNCHANGED replaced
Tears == file' = Partial /\ changes' = changes + 1 /\ UNCHANGED <<replaced, versions>>

UserSaves ==
    /\ Act
    /\ Makes("user")
    /\ UNCHANGED <<fileCall, op, history>>

UserDeletes ==
    /\ Act /\ file # NoFile
    /\ file' = NoFile /\ changes' = changes + 1 /\ replaced' = changes' /\ UNCHANGED versions
    /\ UNCHANGED <<fileCall, op, history>>

-----------------------------------------------------------------------------
(***************************************************************************)
(* file_write and file_edit.                                               *)
(***************************************************************************)
OthersStay == UNCHANGED <<op, history, acts>>
Told(x, what) == [x EXCEPT !.pc = "over", !.told = IF x.told = "none" THEN what ELSE x.told]

\* The user approves, at once or after a look at a preview, which is thrown away.
Approve(c) ==
    /\ Act
    /\ fileCall[c].pc = "asked"
    /\ fileCall' = [fileCall EXCEPT ![c] = [@ EXCEPT !.pc = "preview", !.began = changes]]
    /\ UNCHANGED <<disk, op, history>>

\* build_file_change_preview_for_decision: the preview an approval shows.
Shows(c) ==
    /\ Act
    /\ fileCall[c].pc = "asked" /\ fileCall[c].seen < changes
    /\ fileCall' = [fileCall EXCEPT ![c].seen = changes]
    /\ UNCHANGED <<disk, op, history>>

\* Denied, or aborted while the dialog is open.
Deny(c) ==
    /\ Act
    /\ fileCall[c].pc = "asked"
    /\ fileCall' = [fileCall EXCEPT ![c] = Told(@, "denied")]
    /\ UNCHANGED <<disk, op, history>>

\* The preview raises: an edit needs the file, and its old_string in it, and a create no file.
Refuses(x) == \/ x.kind = "edit" /\ file = NoFile
              \/ x.kind = "create" /\ file # NoFile

PlannedOnce(x) ==                             \* mutant: keeps the plan that was approved
    IF x.seen > 0 THEN [x EXCEPT !.pc = "apply"] ELSE [x EXCEPT !.pc = "apply", !.seen = changes]
Planned(x) == [x EXCEPT !.pc = "apply", !.seen = changes]

\* preview() in its thread.  An abort was told at once, and ends the call here.
Previews(c) ==
    /\ fileCall[c].pc = "preview"
    /\ \/ /\ ~Refuses(fileCall[c])
          /\ fileCall' = [fileCall EXCEPT ![c] = Planned(@)]
       \/ /\ Refuses(fileCall[c]) \/ fileCall[c].kind = "edit"
          /\ fileCall' = [fileCall EXCEPT ![c] = Told(@, "failed")]
    /\ UNCHANGED disk /\ OthersStay

\* apply() in its thread: write_text opens the file, which empties it, and then writes.
OpensFile(c) ==
    /\ fileCall[c].pc = "apply"
    /\ Tears
    /\ fileCall' = [fileCall EXCEPT ![c] = [@ EXCEPT !.pc = "open", !.opened = changes + 1]]
    /\ OthersStay

\* What was written since it was opened may show behind the new content, and if another file is
\* in its place by now nothing shows.
WritesFile(c) ==
    /\ fileCall[c].pc = "open"
    /\ \/ replaced <= fileCall[c].opened /\ Makes(c)
       \/ replaced <= fileCall[c].opened /\ changes > fileCall[c].opened /\ Tears
       \/ replaced > fileCall[c].opened /\ UNCHANGED disk
    /\ fileCall' = [fileCall EXCEPT ![c] = Told(@, "ok")]
    /\ OthersStay

\* apply() raises: no directory for the file, or an OSError before or after the open.
FileWriteFails(c) ==
    /\ fileCall[c].pc \in {"apply", "open"}
    /\ fileCall' = [fileCall EXCEPT ![c] = Told(@, "failed")]
    /\ UNCHANGED disk /\ OthersStay

\* The coroutine is cancelled; a thread that runs goes on, but nothing is done with its preview.
Aborted(x) == IF x.pc = "preview" THEN Told(x, "aborted")
              ELSE [x EXCEPT !.told = "aborted", !.late = TRUE]

\* An apply that still waits for a thread never gets one.
AbortCall(c) ==
    /\ Act
    /\ fileCall[c].pc \notin {"asked", "over"} /\ fileCall[c].told = "none"
    /\ \/ fileCall' = [fileCall EXCEPT ![c] = Aborted(@)]
       \/ fileCall[c].pc = "apply" /\ fileCall' = [fileCall EXCEPT ![c] = Told(@, "aborted")]
    /\ UNCHANGED <<disk, op, history>>

-----------------------------------------------------------------------------
(***************************************************************************)
(* FileHistoryStore.  Its methods never await: one operation at a time,    *)
(* but the threads of the tools and the user go on beside it.              *)
(***************************************************************************)
IndexReadable == \A i \in DOMAIN index: index[i] # Torn

\* The caller of record_change_from_disk keeps the content before a change of its own.
Notes ==
    /\ Act
    /\ op = NoOp
    /\ op' = [NoOp EXCEPT !.pc = "noted", !.before = file]
    /\ UNCHANGED <<disk, history, fileCall>>

\* record_change_from_disk; record_current_file keeps what there is and takes no content before.
Records ==
    /\ Act
    /\ op.pc \in {"idle", "noted"}
    /\ op.pc = "idle" \/ op.before # file        \* skip_unchanged
    /\ issued' = issued + 1
    /\ op' = [op EXCEPT !.pc = "before", !.id = issued + 1, !.after = file]
    /\ UNCHANGED <<disk, snapshots, index, source, cleared, fileCall>>

SavedOn(side) == IF side = "before" THEN op.before ELSE op.after
NextPc(side) == IF side = "before" THEN "after" ELSE "append"

KeptContent(side) == {SavedOn(side)} \ {NoFile}

\* _write_snapshot, atomic by a rename; there is nothing to keep of a file that did not exist.
Snapshots(side) ==
    /\ op.pc = side
    /\ snapshots' = snapshots \cup {<<op.id, side, content>>: content \in KeptContent(side)}
    /\ op' = [op EXCEPT !.pc = NextPc(side)]
    /\ UNCHANGED <<disk, issued, index, source, cleared, fileCall, acts>>

Line == [id |-> op.id, before |-> op.before, after |-> op.after]

\* A line behind one that was cut short becomes part of it.
Appended(line) == IF ~IndexReadable /\ index[Len(index)] = Torn THEN index ELSE Append(index, line)

\* _append_entry.
Appends ==
    /\ op.pc = "append"
    /\ index' = Appended(Line)
    /\ op' = NoOp
    /\ UNCHANGED <<disk, issued, snapshots, source, cleared, fileCall, acts>>

Snapshot(line, side) == {s[3]: s \in {t \in snapshots: t[1] = line.id /\ t[2] = side}}
Held(line, side) == IF side = "before" THEN line.before ELSE line.after

\* read_snapshot: no file, a content, or an error when the snapshot is gone.
Read(line, side) == IF Held(line, side) = NoFile THEN {NoFile} ELSE Snapshot(line, side)

\* rollback_to up to the restore: the entry, the content that is there, the content to restore.
\* A line that cannot be read makes it raise.
RollsBack ==
    /\ Act
    /\ op = NoOp /\ IndexReadable
    /\ \E i \in DOMAIN index, side \in Sides: \E content \in Read(index[i], side):
         op' = [NoOp EXCEPT !.pc = "restore", !.before = file, !.after = content,
                            !.from = [line |-> index[i], side |-> side]]
    /\ UNCHANGED <<disk, history, fileCall>>

\* atomic_write_bytes or unlink, and record_change begins.
Restores ==
    /\ op.pc = "restore"
    /\ file' = op.after /\ changes' = changes + 1 /\ replaced' = changes' /\ UNCHANGED versions
    /\ issued' = issued + 1
    /\ source' = [source EXCEPT ![issued + 1] = op.from]
    /\ op' = [op EXCEPT !.pc = "before", !.id = issued + 1]
    /\ UNCHANGED <<snapshots, index, cleared, fileCall, acts>>

\* clear removes the files one by one, in any order.
Clears ==
    /\ Act
    /\ op = NoOp
    /\ op' = [NoOp EXCEPT !.pc = "clear"]
    /\ cleared' = TRUE
    /\ UNCHANGED <<disk, issued, snapshots, index, source, fileCall>>

Unlinks ==
    /\ op.pc = "clear"
    /\ \/ index # <<>> /\ index' = <<>> /\ UNCHANGED snapshots
       \/ \E s \in snapshots: snapshots' = snapshots \ {s} /\ UNCHANGED index
    /\ UNCHANGED <<disk, op, issued, source, cleared, fileCall, acts>>

ClearEnds ==
    /\ op.pc = "clear" /\ index = <<>> /\ snapshots = {}
    /\ op' = NoOp
    /\ cleared' = FALSE
    /\ UNCHANGED <<disk, issued, snapshots, index, source, fileCall, acts>>

-----------------------------------------------------------------------------
\* The process dies; the next one takes the store as it finds it.
Crash ==
    /\ Act
    /\ fileCall' = [c \in FileCalls |-> IF fileCall[c].pc = "over" THEN fileCall[c] ELSE Told(fileCall[c], "lost")]
    /\ op' = NoOp
    /\ \/ UNCHANGED index
       \/ op.pc = "append" /\ index' = Appended(Torn)
    /\ UNCHANGED <<disk, issued, snapshots, source, cleared>>

CallStep(c) == Previews(c) \/ OpensFile(c) \/ WritesFile(c) \/ FileWriteFails(c)
OpStep == Appends \/ Restores \/ Unlinks \/ ClearEnds \/ \E side \in Sides: Snapshots(side)

FilesNext ==
    \/ UserSaves \/ UserDeletes
    \/ \E c \in FileCalls: Approve(c) \/ Shows(c) \/ Deny(c) \/ AbortCall(c) \/ CallStep(c)
    \/ Notes \/ Records \/ RollsBack \/ Clears \/ OpStep
    \/ Crash

-----------------------------------------------------------------------------
(***************************************************************************)
(* Properties.                                                             *)
(***************************************************************************)
FilesTypeOK ==
    /\ file \in 0..(Len(versions) + 1)
    /\ replaced \in 0..changes
    /\ \A c \in FileCalls:
         /\ fileCall[c].kind \in Kinds /\ fileCall[c].pc \in {"asked", "preview", "apply", "open", "over"}
         /\ fileCall[c].told \in {"none", "ok", "failed", "denied", "aborted", "lost"}
         /\ fileCall[c].pc = "over" => fileCall[c].told # "none"
    /\ issued \in 0..MaxActs /\ Cardinality(snapshots) <= 2 * issued
    /\ \A i \in DOMAIN index: index[i].id \in 0..issued

\* What a tool writes was worked out from the file as it was when the call was carried out, not
\* when it was shown for approval: no change made while the user was deciding is lost.
PlanIsFresh ==
    \A c \in FileCalls: fileCall[c].pc \in {"apply", "open"} => fileCall[c].seen >= fileCall[c].began

\* Nothing is written for a call that was denied, or aborted before its apply; what an aborted
\* call writes later was under way when the abort came.
AbortIsHeeded ==
    \A i \in DOMAIN versions: versions[i] # "user" =>
        LET x == fileCall[versions[i]]
        IN  x.told = "ok" \/ (x.told = "aborted" /\ x.late)

\* Whatever crash there was, each entry the index lists has its two snapshots with the contents
\* it was made for, except while or after a clear was cut short.
EntriesComplete ==
    ~cleared => \A i \in DOMAIN index: index[i] = Torn \/
        \A side \in Sides: Read(index[i], side) = {Held(index[i], side)}

\* A rollback puts back the content the entry held on the side asked for, and its own entry says
\* so: rolling back to it once more gives the same content.
RollbackIsTrue ==
    \A i \in DOMAIN index:
        LET from == source[index[i].id]
        IN  index[i] # Torn /\ from # NoSource => index[i].after = Held(from.line, from.side)
=============================================================================
