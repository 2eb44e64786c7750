------------------------- MODULE SubagentWorkspaces -------------------------
(***************************************************************************)
(* subagents.py: each subagent edits a copy of the repository and proposes   *)
(* what it changed; a reviewed proposal is merged if the repository still     *)
(* holds what was copied.  No lock is taken: a person, or the merge of        *)
(* another proposal, may change a file between its check and its write.       *)
(*                                                                          *)
(* Contents stand for their hashes and "missing" for a file that is not      *)
(* there.  Paths are numbers in the order in which they are sorted.           *)
(***************************************************************************)
EXTENDS Naturals

CONSTANTS
    SharedPaths,
    Ignored,        \* paths under .git, artifacts, target and the like
    Agents,
    MaxSharedEdits  \* bound on the person's edits

ASSUME WorkspacesAssumption ==
    /\ SharedPaths \subseteq Nat /\ Ignored \subseteq SharedPaths /\ SharedPaths # {}
    /\ "person" \notin Agents

VARIABLES
    shared,         \* the repository
    agent,          \* agent[a]: its workspace, its proposal and the merge of it
    sharedEdits,
    swapped,        \* history: what merges replaced
    overtaken       \* history: <<a, p>>, p was changed between its check and its write

subagentVars == <<shared, agent, sharedEdits, swapped, overtaken>>

First(S) == CHOOSE p \in S : \A q \in S : p <= q

SubagentsInit ==
    /\ shared = [p \in SharedPaths |-> IF p = First(SharedPaths) THEN "missing" ELSE "old"]
    /\ agent = [a \in Agents |-> [pc |-> "outside"]]
    /\ sharedEdits = 0 /\ swapped = {} /\ overtaken = {}

\* By an agent, or by the person.
Change(who, p, content) ==
    /\ shared' = [shared EXCEPT ![p] = content]
    /\ overtaken' = overtaken \cup
         {<<b, p>> : b \in {x \in Agents \ {who} :
             \/ agent[x].pc = "checking" /\ p \in agent[x].changed \ agent[x].left
             \/ agent[x].pc = "writing" /\ p \in agent[x].left}}

\* __enter__; the copy and its hashes are taken in one step.
Enter(a) ==
    /\ agent[a].pc = "outside"
    /\ LET copy == [p \in SharedPaths |-> IF p \in Ignored THEN "missing" ELSE shared[p]]
       IN agent' = [agent EXCEPT ![a] = [pc |-> "working", files |-> copy, baseline |-> copy]]
    /\ UNCHANGED <<shared, sharedEdits, swapped, overtaken>>

Write(a, p) ==
    /\ agent[a].pc = "working"
    /\ \E content \in {a, "missing"} \ {agent[a].files[p]} : agent' = [agent EXCEPT ![a].files[p] = content]
    /\ UNCHANGED <<shared, sharedEdits, swapped, overtaken>>

\* diff(), whose proposal outlives the workspace.
WorkspaceDiff(a) ==
    /\ agent[a].pc = "working"
    /\ LET changed == {p \in SharedPaths : agent[a].files[p] # agent[a].baseline[p]}
       IN agent' = [agent EXCEPT ![a] =
            [pc |-> "proposed", files |-> @.files, baseline |-> @.baseline, changed |-> changed,
             left |-> changed, broken |-> FALSE]]
    /\ UNCHANGED <<shared, sharedEdits, swapped, overtaken>>

Goto(a, pc, left) ==
    /\ agent' = [agent EXCEPT ![a].pc = pc, ![a].left = left]
    /\ UNCHANGED sharedEdits

\* A proposal that was refused, or whose merge failed half-way, may be tried again.
MergeReviewed(a) ==
    /\ agent[a].pc \in {"proposed", "refused", "failed"}
    /\ Goto(a, "checking", agent[a].changed)
    /\ UNCHANGED <<shared, swapped, overtaken>>

Swap(a, p, content) ==
    /\ Change(a, p, content)
    /\ swapped' = swapped \cup {[by |-> a, path |-> p, content |-> shared[p]]}

CheckNext_Mutant(a) ==
    /\ agent[a].pc = "checking"
    /\ LET p == First(agent[a].left)
       IN CASE agent[a].left = {} -> Goto(a, "writing", {}) /\ UNCHANGED <<shared, swapped, overtaken>>
            [] agent[a].left # {} /\ shared[p] = agent[a].baseline[p] ->
                  Goto(a, "checking", agent[a].left \ {p}) /\ Swap(a, p, agent[a].files[p])
            [] OTHER -> Goto(a, "refused", {}) /\ UNCHANGED <<shared, swapped, overtaken>>

CheckNext(a) ==
    /\ agent[a].pc = "checking"
    /\ UNCHANGED <<shared, swapped, overtaken>>
    /\ LET p == First(agent[a].left)
       IN CASE agent[a].left = {} -> Goto(a, "writing", agent[a].changed)
            [] agent[a].left # {} /\ shared[p] = agent[a].baseline[p] -> Goto(a, "checking", agent[a].left \ {p})
            [] OTHER -> Goto(a, "refused", {})

WriteNext(a) ==
    /\ agent[a].pc = "writing"
    /\ \/ agent[a].left = {} /\ Goto(a, "merged", {}) /\ UNCHANGED <<shared, swapped, overtaken>>
       \/ /\ agent[a].left # {}
          /\ LET p == First(agent[a].left) IN Swap(a, p, agent[a].files[p]) /\ Goto(a, "writing", agent[a].left \ {p})

\* A write raises, before it has touched the file or after emptying it; nothing
\* that was written is taken back.
WriteRaises(a) ==
    /\ agent[a].pc = "writing" /\ agent[a].left # {}
    /\ agent' = [agent EXCEPT ![a].pc = "failed", ![a].broken = TRUE]
    /\ \/ UNCHANGED <<shared, swapped, overtaken>>
       \/ LET p == First(agent[a].left)
          IN agent[a].files[p] # "missing" /\ Swap(a, p, "torn")
    /\ UNCHANGED sharedEdits

SharedEdit(p) ==
    /\ sharedEdits < MaxSharedEdits
    /\ \E content \in {"edited", "missing"} \ {shared[p]} : Change("person", p, content)
    /\ sharedEdits' = sharedEdits + 1
    /\ UNCHANGED <<agent, swapped>>

SubagentsNext ==
    \/ \E a \in Agents :
          \/ Enter(a) \/ WorkspaceDiff(a) \/ MergeReviewed(a) \/ CheckNext(a) \/ WriteNext(a) \/ WriteRaises(a)
          \/ \E p \in SharedPaths : Write(a, p)
    \/ \E p \in SharedPaths : SharedEdit(p)
-----------------------------------------------------------------------------
\* A merge replaces only what its workspace was copied from, whoever merged or
\* edited since, except in the moment between the check and the write of a file;
\* and a proposal that is refused has written nothing, unless an earlier merge of
\* it failed half-way: what that one wrote is never taken back.
MergesAreGuarded ==
    /\ \A s \in swapped : s.content = agent[s.by].baseline[s.path] \/ <<s.by, s.path>> \in overtaken
    /\ \A a \in Agents : agent[a].pc = "refused" /\ ~agent[a].broken => \A s \in swapped : s.by # a
=============================================================================
