------------------------------ MODULE MCChanges ------------------------------
(***************************************************************************)
(* The three ways in which a change that somebody approved reaches the       *)
(* checkout, one at a time: the diffs of the assistant's tools, the          *)
(* proposals of an orchestration's merge queue and those of subagents.       *)
(*                                                                          *)
(* tools: two files, one of them created or moved to, a folder, and a model  *)
(* that may make every kind of call; a person's edit may bring CR LF lines.  *)
(* reviews: three proposals over three files, of nodes that depend on each   *)
(* other in a chain; 2 overlaps 1 in one file and 3 in another.              *)
(* subagents: two of them over three files, of which one is not copied.      *)
(***************************************************************************)
EXTENDS RepositoryTools, SubagentWorkspaces

Call(tool, path, op, search, with, to) ==
    [tool |-> tool, root |-> ".", path |-> path, op |-> op, search |-> search, with |-> with, to |-> to,
     source |-> "plain", args |-> "object"]
Replace(p) == Call("apply_search_replace", p, "replace", "x", <<"y", "x">>, p)

MCPaths == {"a", "b", "dir", "dir/b"}
MCOriginal == [p \in MCPaths |-> CASE p = "a" -> File(<<"x">>, FALSE) [] p \in {"b", "dir/b"} -> Absent [] OTHER -> Folder]
MCResolved == [r \in {".", "dir"} \X {"a", "b", "dir", "outside"} |->
                 IF r = <<"dir", "b">> THEN "dir/b" ELSE IF r[1] = "." THEN r[2] ELSE "elsewhere"]
MCCalls == {
    Call("read_file", "a", "", "", <<>>, "a"),
    Call("search_directory", "a", "", "", <<>>, "a"),
    Replace("a"), Replace("dir"),
    Call("apply_search_replace", "a", "replace", "z", <<>>, "a"),
    Call("apply_search_replace", "a", "delete", "", <<>>, "a"),
    Call("create_file", "b", "", "", <<"x">>, "b"),
    [Call("create_file", "b", "", "", <<"x">>, "b") EXCEPT !.root = "dir"],
    Call("move_file", "a", "", "", <<>>, "b"),
    Call("move_file", "a", "", "", <<>>, "outside"),
    [Call("execute_script", "a", "", "", <<>>, "a") EXCEPT !.source = "unsafe"],
    [Call("read_file", "a", "", "", <<>>, "a") EXCEPT !.args = "none"],
    [Call("read_file", "b", "", "", <<>>, "b") EXCEPT !.args = "bad number"] }
MCEdits == {File(<<"p">>, FALSE), File(<<"x">>, TRUE), Absent}
MCAllowed == {"search_directory", "read_file", "apply_search_replace", "create_file", "move_file", "execute_script"}
-----------------------------------------------------------------------------
VARIABLES subject, repository, document, saved, review, edited, replaced

reviewVars == <<repository, document, saved, review, edited, replaced>>

ReviewPaths == {"a", "b", "c"}
ReviewNodes == {1, 2, 3}
ReviewClaims == << <<"a", "b">>, <<"c", "b">>, <<"c">> >>
Reviewers == {"t1"}

Reviews == INSTANCE MergeReview WITH
    Paths <- ReviewPaths, Nodes <- ReviewNodes, InitialQueue <- <<1, 2, 3>>, Claims <- ReviewClaims,
    Original <- [p \in ReviewPaths |-> IF p = "c" THEN "missing" ELSE "old"],
    Proposed <- [n \in ReviewNodes |-> [p \in ReviewPaths |-> <<"new1", "new2", "new3">>[n]]],
    Edits <- {"edited", "missing"}, Reviewers <- Reviewers, MayCrash <- TRUE, MaxEdits <- 2,
    checkpoints <- saved, edits <- edited, overwritten <- replaced

ASSUME QueueAssumption == Reviews!ProposalsAssumption

ChangesInit == subject \in {"tools", "reviews", "subagents"} /\ Init /\ Reviews!Init /\ SubagentsInit
InTools == subject = "tools" /\ Next /\ UNCHANGED <<subject, reviewVars, subagentVars>>
InReviews == subject = "reviews" /\ Reviews!Next /\ UNCHANGED <<subject, vars, subagentVars>>
InSubagents == subject = "subagents" /\ SubagentsNext /\ UNCHANGED <<subject, vars, reviewVars>>

\* The fairness of Reviews!ReviewSpec.
ChangesSpec ==
    /\ ChangesInit
    /\ [][InTools \/ InReviews \/ InSubagents]_<<subject, vars, reviewVars, subagentVars>>
    /\ \A t \in Reviewers :
          /\ WF_reviewVars(subject = "reviews" /\ Reviews!ReviewStep(t))
          /\ SF_reviewVars(subject = "reviews" /\ Reviews!Begin(t, FALSE))
          /\ SF_reviewVars(subject = "reviews" /\ Reviews!Record(t))
-----------------------------------------------------------------------------
\* The assistant makes no call twice, keeps to its budgets and proposes changes only
\* of the path it was given, below the root it chose (tool_calling_agent.py:78, :204);
\* a subagent's merge touches nothing it had not seen, and a refused one nothing at
\* all unless it is the retry of one that broke (subagents.py:56).
AgentsKeepToTheirTask == AgentKeepsToItsTask /\ MergesAreGuarded

\* Whatever an approved diff, a rewind or, with one review at a time, a merge of the
\* queue replaced in the checkout is in a checkpoint, so that it can be brought back,
\* except what a person saved after that checkpoint was made; and a merge of the
\* queue never replaces what another proposal of the run put there: of the proposals
\* that touch a path at most one is applied, as all of them were made from the same
\* snapshot (checkpoints.py:33, merge_queue.py:58, :64).  Merges of subagents make
\* no checkpoint.
ReplacedIsRecoverable ==
    /\ OverwrittenIsRecoverable
    /\ Reviews!OverwrittenIsCheckpointed /\ Reviews!ProposalsDoNotOverwriteEachOther

\* A diff is applied to what it was made from, and a rewind is done whole or not
\* at all, but for what a person saves after the comparison or during the rewind
\* (tool_handlers.py:707, checkpoints.py:114).
FilesChangeAsAgreed == AppliedAsReviewed /\ RewindIsWhole

\* A stale proposal, or one whose tests fail, never blocks the queue for good
\* (merge_queue.py:48).
QueueDrains == subject = "reviews" => Reviews!QueueDrains
=============================================================================
