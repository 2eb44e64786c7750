--------------------------- MODULE RepositoryTools ---------------------------
(***************************************************************************)
(* A repository task of the assistant: the bounded loop in which a model    *)
(* calls tools (agents/tool_calling_agent), the handlers that prepare diffs *)
(* without writing (harness_kernel/tool_handlers), the review that applies  *)
(* them and the checkpoints that undo them (tui_bridge, checkpoints). A     *)
(* person edits the same files at any time: between a diff's checkpoint, its *)
(* comparison and its write, and between the copies of a rewind, too.       *)
(*                                                                          *)
(* A call names paths relative to a root, an argument of its own; the path   *)
(* meant is Resolved[<<root, name>>], no path when it leaves the repository. *)
(***************************************************************************)
EXTENDS Naturals, Sequences, SequencesExt, FiniteSets

CONSTANTS
    Paths,          \* repository paths
    Folders,        \* those that are directories
    Resolved,       \* <<root, name>> -> the path that a call means
    Original,       \* what each path holds at the beginning
    Calls,          \* the tool calls the model may make
    Allowed,        \* allowed_tools of this task
    Requests,       \* the names a task may give, or Anywhere
    Anywhere,
    Edits,          \* what a person may save into a path
    MaxTurns, MaxProposals,             \* the agent's own limits
    MaxTasks, MaxEdits, MaxCheckpoints  \* bounds of the model

ASSUME LimitsAssumption == MaxTurns \in 1..20 /\ MaxProposals \in 1..8
ASSUME FoldersAssumption == Folders \subseteq Paths

\* TOOL_NAMES: a task may be allowed fewer, __init__ drops any other.
ToolNames ==
    {"execute_script", "search_directory", "read_file", "apply_search_replace", "create_file", "move_file"}
ASSUME ToolsAssumption == Allowed \subseteq ToolNames

VARIABLES
    files,        \* path -> its content
    run,          \* the agent's loop: phase, calls made, signatures seen, proposals
    pending,      \* diffs waiting for review, in order
    checkpoints,  \* contents saved before each write
    approval,     \* "none", or an approved diff is "saved" or "checked"
    restoring,    \* a rewind that is copying files back, or Nothing
    outcome,      \* what the last review or rewind came to
    overwritten,  \* history: what the harness has replaced, and where
    late,         \* history: what a person saved since an approval's or rewind's checkpoint
    slipped,      \* history: and since an approval's comparison
    tasks, edits  \* counters of the bounds

history == <<overwritten, late, slipped>>
vars == <<files, run, pending, checkpoints, approval, restoring, outcome, history, tasks, edits>>

Absent == [kind |-> "absent"]
Folder == [kind |-> "folder"]
\* A file's words, and whether its lines end in CR LF.
File(text, crlf) == [kind |-> "file", text |-> text, crlf |-> crlf]
Nothing == [left |-> <<>>]
Resting == [phase |-> "idle", requested |-> Anywhere, calls |-> <<>>, seen |-> {}, proposals |-> <<>>]

Init ==
    /\ files = [p \in Paths |-> IF p \in Folders THEN Folder ELSE Original[p]]
    /\ run = Resting /\ pending = <<>> /\ checkpoints = <<>>
    /\ approval = "none" /\ restoring = Nothing /\ outcome = "none"
    /\ overwritten = {} /\ late = {} /\ slipped = {}
    /\ tasks = 0 /\ edits = 0

IsFile(p) == files[p].kind = "file"
Exists(p) == files[p] # Absent
\* read_text drops the carriage returns, write_text does not bring them back.
ReadText(p) == files[p].text
-----------------------------------------------------------------------------
(* The handlers: a failure's kind, or a value *)

Failure(kind) == [ok |-> FALSE, kind |-> kind]
Value == [ok |-> TRUE, kind |-> "value"]
Prepared(proposal) == [ok |-> TRUE, kind |-> "diff", proposal |-> proposal]

Diff(op, p, text, exists) ==
    [op |-> op, path |-> p, to |-> p, text |-> text, exists |-> exists,
     base |-> IF exists THEN ReadText(p) ELSE <<>>, bytes |-> files[p]]

\* resolve_within_root of the root and the name.
Source(c) == Resolved[<<c.root, c.path>>]
Destination(c) == Resolved[<<c.root, c.to>>]

SearchDirectory(c) == IF c.path = "outside" THEN Failure("invalid_pattern") ELSE Value

ReadFile(c) == IF IsFile(Source(c)) THEN Value ELSE Failure("not_file")

CreateFile(c) ==
    IF Exists(Source(c)) THEN Failure("already_exists") ELSE Prepared(Diff("create", Source(c), c.with, FALSE))

\* Every occurrence of the searched word.
Replaced(text, search, with) ==
    FlattenSeq([i \in DOMAIN text |-> IF text[i] = search THEN with ELSE <<text[i]>>])

ApplySearchReplace(c) ==
    LET p == Source(c)
    IN IF files[p] = Folder THEN Failure("not_file")
       ELSE IF c.op = "create" THEN CreateFile(c)
       ELSE IF ~Exists(p) THEN Failure("not_file")
       ELSE IF c.op = "delete" THEN Prepared(Diff("delete", p, <<>>, TRUE))
       ELSE IF c.search \notin ToSet(ReadText(p)) THEN Failure("search_not_found")
       ELSE Prepared(Diff("replace", p, Replaced(ReadText(p), c.search, c.with), TRUE))

MoveFile(c) ==
    IF ~IsFile(Source(c)) THEN Failure("not_file")
    ELSE IF Exists(Destination(c)) THEN Failure("destination_exists")
    ELSE Prepared([Diff("move", Source(c), ReadText(Source(c)), TRUE) EXCEPT !.to = Destination(c)])

\* _validate_tool_script refuses before anything is run.
ExecuteScript(c) ==
    IF c.source \in {"empty", "too large", "unsafe"} THEN {Failure("refused")}
    ELSE {Value, Failure("handler_exception")}

\* The handlers that prepare or read nothing outside the paths they are given.
Handle(c) ==
    CASE c.tool = "read_file" -> ReadFile(c)
      [] c.tool = "create_file" -> CreateFile(c)
      [] c.tool = "apply_search_replace" -> ApplySearchReplace(c)
      [] c.tool = "move_file" -> MoveFile(c)

\* ToolRegistry.dispatch; a path that leaves the repository is refused by all.
Dispatch(c) ==
    IF c.tool = "execute_script" THEN ExecuteScript(c)
    ELSE IF c.tool = "search_directory" THEN {SearchDirectory(c)}
    ELSE IF {Source(c), Destination(c)} \subseteq Paths THEN {Handle(c)}
    ELSE {Failure("path_escape")}
-----------------------------------------------------------------------------
(* The loop of ToolCallingAgent.run *)

Mutations == {"apply_search_replace", "create_file", "move_file"}
Running == run.phase = "asking"

StartToolTask ==
    /\ run = Resting /\ approval = "none" /\ restoring = Nothing /\ tasks < MaxTasks
    /\ \E path \in Requests : run' = [Resting EXCEPT !.phase = "asking", !.requested = path]
    /\ pending' = <<>>
    /\ tasks' = tasks + 1
    /\ UNCHANGED <<files, checkpoints, approval, restoring, outcome, history, edits>>

IsCall(c) == c.args # "none" /\ c.tool \in Allowed

ProposalPath(c) == IF c.tool = "move_file" THEN c.to ELSE c.path

\* What the user named is compared with what the call names; its root is not.
Unexpected(c) ==
    run.requested # Anywhere /\ c.tool \in Mutations /\ ProposalPath(c) # run.requested

\* What one call of the model comes to: the checks are made in this order.
Results(c) ==
    IF c \in run.seen THEN {Failure("repeated_tool_call")}
    ELSE IF ~IsCall(c) THEN {Failure("invalid_tool_call")}
    ELSE IF Unexpected(c) THEN {Failure("unexpected_target_path")}
    ELSE IF c.args = "bad number" THEN {Failure("invalid_arguments")}
    ELSE Dispatch(c)

\* Reading a file again after a diff for it was prepared ends the task; a move
\* is not counted.
DocEditIsComplete(c) ==
    LET edited == SelectSeq(run.calls, LAMBDA r : r.ok /\ r.call.tool \in Mutations \ {"move_file"})
    IN /\ c.tool \in {"read_file", "search_directory"} /\ c.args # "none"
       /\ edited # <<>>
       /\ c.path = Last(edited).call.path

EndRun(run_proposals) ==
    /\ run' = [run EXCEPT !.phase = "idle"]
    /\ pending' = run_proposals

Seen_Mutant(c) == IF IsCall(c) /\ c.tool \in Mutations THEN run.seen \cup {c} ELSE run.seen

\* The signature of a call that was well formed is remembered.
Seen(c) == IF IsCall(c) THEN run.seen \cup {c} ELSE run.seen

\* The budget of proposals, or of turns, is spent.
Exhausted(calls, proposals, result) ==
    \/ result.ok /\ "proposal" \in DOMAIN result /\ Len(proposals) >= MaxProposals
    \/ Len(calls) >= MaxTurns

CallTool(c) ==
    /\ Running
    /\ ~DocEditIsComplete(c)
    /\ \E result \in Results(c) :
          LET calls == Append(run.calls, [call |-> c, ok |-> result.ok, kind |-> result.kind])
              proposals == IF result.kind = "diff" THEN Append(run.proposals, result.proposal)
                           ELSE run.proposals
              next == [run EXCEPT !.calls = calls, !.proposals = proposals, !.seen = Seen(c)]
          IN IF Exhausted(calls, proposals, result)
             THEN run' = [next EXCEPT !.phase = "idle"] /\ pending' = proposals
             ELSE run' = next /\ UNCHANGED pending
    /\ UNCHANGED <<files, checkpoints, approval, restoring, outcome, history, tasks, edits>>

\* The model answers, or asks to read what it has just edited.
Answer ==
    /\ Running
    /\ \/ TRUE
       \/ \E c \in Calls : DocEditIsComplete(c)
    /\ EndRun(run.proposals)
    /\ UNCHANGED <<files, checkpoints, approval, restoring, outcome, history, tasks, edits>>

\* The model cannot be reached: what was prepared is not queued.
GenerateFails ==
    /\ Running
    /\ EndRun(<<>>)
    /\ UNCHANGED <<files, checkpoints, approval, restoring, outcome, history, tasks, edits>>

\* _run_tool_task returns; what the loop did is forgotten, its diffs are not.
EndTask ==
    /\ ~Running /\ run # Resting
    /\ run' = Resting
    /\ UNCHANGED <<files, pending, checkpoints, approval, restoring, outcome, history, tasks, edits>>
-----------------------------------------------------------------------------
(* The review of the first pending diff *)

CanReview == run = Resting /\ approval = "none" /\ restoring = Nothing
Touched(d) == {d.path, d.to}

Stale_Mutant(d) == ~d.exists /\ Exists(d.path)

\* apply_reviewed_move_file compares the file's bytes with the hash of the text
\* that was read, apply_reviewed_search_replace text with text.
Stale(d) ==
    IF d.op = "move"
    THEN ~IsFile(d.path) \/ Exists(d.to) \/ files[d.path] # File(d.base, FALSE)
    ELSE IF d.exists THEN ~IsFile(d.path) \/ ReadText(d.path) # d.base
         ELSE Exists(d.path)

\* A rename replaces what has appeared at its destination.
Written(d) ==
    CASE d.op = "move" -> [files EXCEPT ![d.path] = Absent, ![d.to] = files[d.path]]
      [] d.op = "delete" -> [files EXCEPT ![d.path] = Absent]
      [] OTHER -> [files EXCEPT ![d.path] = File(d.text, FALSE)]

\* _create_edit_checkpoint
CheckpointPaths(ps) ==
    /\ checkpoints' = Append(checkpoints, [p \in ps |-> files[p]])
    /\ late' = {} /\ slipped' = {}

Replaces(new) ==
    /\ files' = new
    /\ overwritten' = overwritten \cup
         {[path |-> p, content |-> files[p], late |-> p \in late] : p \in {q \in Paths : new[q] # files[q]}}

\* An approval saves a checkpoint first, also when the diff turns out stale and
\* stays pending.
Approve ==
    /\ CanReview /\ pending # <<>> /\ Len(checkpoints) < MaxCheckpoints
    /\ CheckpointPaths(Touched(Head(pending)))
    /\ approval' = "saved"
    /\ outcome' = "approving"
    /\ UNCHANGED <<files, run, pending, restoring, overwritten, tasks, edits>>

\* What was reviewed is compared with what is there.
Compare ==
    /\ approval = "saved"
    /\ IF Stale(Head(pending))
       THEN approval' = "none" /\ outcome' = "stale"
       ELSE approval' = "checked" /\ UNCHANGED outcome
    /\ slipped' = {}
    /\ UNCHANGED <<files, run, pending, checkpoints, restoring, overwritten, late, tasks, edits>>

EndWrite(result) ==
    /\ approval' = "none"
    /\ outcome' = result
    /\ UNCHANGED <<run, checkpoints, restoring, late, slipped, tasks, edits>>

\* What is to be moved or deleted may be gone by now.
WriteDiff ==
    /\ approval = "checked"
    /\ LET d == Head(pending)
       IN (d.op \in {"move", "delete"} => Exists(d.path)) /\ Replaces(Written(d))
    /\ pending' = Tail(pending)
    /\ EndWrite("applied")

\* Nothing is written, or the write is cut short and the file is emptied; the
\* diff stays pending.
WriteFails ==
    /\ approval = "checked"
    /\ LET d == Head(pending)
       IN \/ Replaces(files)
          \/ d.op \in {"create", "replace"} /\ Replaces([files EXCEPT ![d.path] = File(<<>>, FALSE)])
    /\ EndWrite("failed")
    /\ UNCHANGED pending

Discard ==
    /\ CanReview /\ pending # <<>>
    /\ pending' = Tail(pending)
    /\ outcome' = "discarded"
    /\ UNCHANGED <<files, run, checkpoints, approval, restoring, history, tasks, edits>>
-----------------------------------------------------------------------------
(* Rewinding the code to a checkpoint *)

RewindSavesNothing_Mutant(k) ==
    /\ CanReview /\ k \in DOMAIN checkpoints /\ Len(checkpoints) < MaxCheckpoints
    /\ restoring' = [left |-> SetToSeq(DOMAIN checkpoints[k]), target |-> checkpoints[k],
                     backup |-> [p \in DOMAIN checkpoints[k] |-> files[p]]]
    /\ outcome' = "rewinding"
    /\ UNCHANGED <<files, run, pending, checkpoints, approval, history, tasks, edits>>

\* The paths are saved as a checkpoint of their own, and for a roll-back, before
\* any is replaced.
Rewind(k) ==
    /\ CanReview /\ k \in DOMAIN checkpoints /\ Len(checkpoints) < MaxCheckpoints
    /\ CheckpointPaths(DOMAIN checkpoints[k])
    /\ restoring' = [left |-> SetToSeq(DOMAIN checkpoints[k]), target |-> checkpoints[k],
                     backup |-> [p \in DOMAIN checkpoints[k] |-> files[p]]]
    /\ outcome' = "rewinding"
    /\ UNCHANGED <<files, run, pending, approval, overwritten, tasks, edits>>

RestoreNext ==
    /\ restoring # Nothing
    /\ LET p == Head(restoring.left)
           rest == Tail(restoring.left)
       IN /\ Replaces([files EXCEPT ![p] = restoring.target[p]])
          /\ restoring' = IF rest = <<>> THEN Nothing ELSE [restoring EXCEPT !.left = rest]
          /\ outcome' = IF rest = <<>> THEN "rewound" ELSE outcome
    /\ UNCHANGED <<run, pending, checkpoints, approval, late, slipped, tasks, edits>>

\* A copy raises OSError: every path gets back what it held, or is removed.
RolledBack_Mutant ==
    [p \in Paths |-> IF p \in DOMAIN restoring.backup /\ restoring.backup[p] # Absent
                     THEN restoring.backup[p] ELSE files[p]]
RolledBack ==
    [p \in Paths |-> IF p \in DOMAIN restoring.backup THEN restoring.backup[p] ELSE files[p]]

RestoreFails ==
    /\ restoring # Nothing
    /\ Replaces(RolledBack)
    /\ restoring' = Nothing
    /\ outcome' = "rolled back"
    /\ UNCHANGED <<run, pending, checkpoints, approval, late, slipped, tasks, edits>>

\* The bridge dies: the loop, the queue and the rollback directory are gone.
Crash ==
    /\ restoring # Nothing \/ pending # <<>>
    /\ run' = Resting /\ pending' = <<>> /\ approval' = "none" /\ restoring' = Nothing
    /\ outcome' = "crashed"
    /\ UNCHANGED <<files, checkpoints, history, tasks, edits>>

Edit(p) ==
    /\ edits < MaxEdits /\ p \notin Folders
    /\ \E c \in Edits \ {files[p]} : files' = [files EXCEPT ![p] = c]
    /\ late' = IF approval = "none" /\ restoring = Nothing THEN late ELSE late \cup {p}
    /\ slipped' = IF approval = "checked" THEN slipped \cup {p} ELSE slipped
    /\ edits' = edits + 1
    /\ outcome' = "edited"
    /\ UNCHANGED <<run, pending, checkpoints, approval, restoring, overwritten, tasks>>

AgentStep == Answer \/ GenerateFails \/ EndTask \/ \E c \in Calls : CallTool(c)
ReviewStep == Approve \/ Compare \/ WriteDiff \/ WriteFails \/ Discard

Next ==
    \/ StartToolTask \/ AgentStep \/ ReviewStep
    \/ \E k \in 1..MaxCheckpoints : Rewind(k)
    \/ RestoreNext \/ RestoreFails \/ Crash
    \/ \E p \in Paths : Edit(p)

Spec == Init /\ [][Next]_vars
-----------------------------------------------------------------------------
(* Properties *)

\* A task dispatches no call twice, keeps to its budgets and, when the user named
\* a path, prepares diffs only for that path below the root a call may choose
\* (run, tool_calling_agent.py:78, :204).
AgentKeepsToItsTask ==
    /\ Len(run.calls) <= MaxTurns /\ Len(run.proposals) <= MaxProposals
    /\ \A i, j \in DOMAIN run.calls :
          i < j /\ run.calls[i].call = run.calls[j].call =>
              run.calls[j].kind \in {"repeated_tool_call", "invalid_tool_call"}
    /\ run.requested # Anywhere =>
          \A d \in ToSet(run.proposals) : \E c \in Calls : d.to = Resolved[<<c.root, run.requested>>]

\* An approved diff is applied to the text it was made from, whatever a person
\* saved and whatever earlier diff of the same task was applied in between; only
\* what is saved between the comparison and the write slips through.
AppliedAsReviewed ==
    [][approval = "checked" /\ approval' = "none" /\ outcome' = "applied" =>
          LET d == Head(pending)
          IN /\ d.path \notin slipped =>
                  /\ d.base = IF IsFile(d.path) THEN ReadText(d.path) ELSE <<>>
                  /\ IsFile(d.path) <=> d.exists
             /\ \A p \in Paths \ Touched(d) : files'[p] = files[p]]_vars

\* Whatever an approval, a torn write or a rewind replaced is in a checkpoint,
\* except what a person saved after the checkpoint was made.
OverwrittenIsRecoverable ==
    \A o \in overwritten :
        \/ o.late
        \/ o.content \in {Absent, File(<<>>, FALSE)}
        \/ \E k \in DOMAIN checkpoints : o.path \in DOMAIN checkpoints[k] /\ checkpoints[k][o.path] = o.content

\* A rewind that ends, with an error or without, leaves all the paths of the
\* checkpoint that nobody saved meanwhile as the checkpoint has them or all as
\* they were.
RewindIsWhole ==
    [][restoring # Nothing /\ restoring' = Nothing /\ outcome' # "crashed" =>
          \E whole \in {restoring.target, restoring.backup} :
              \A p \in DOMAIN restoring.target \ late : files'[p] = whole[p]]_vars
=============================================================================
