----------------------------- MODULE MCScheduler -----------------------------
(***************************************************************************)
(* Small graphs for Scheduler.  MixedGraph has three roots (more than the   *)
(* concurrency limit), a join (4 needs 1 and 2), and an indirect dependency *)
(* that orders two overlapping writers (5 after 1); SmallGraph is a join.   *)
(***************************************************************************)
EXTENDS SchedulerOperators

G == INSTANCE TaskGraphs

MixedGraph == <<{}, {}, {}, {1, 2}, {4}>>

Writes == [n \in 1..5 |-> CASE n = 1 -> {<<"src">>} [] n = 5 -> {<<"src", "a">>}
                            [] n = 3 -> {<<"doc">>} [] OTHER -> {}]

MCEditing == {1, 3, 5}
MCOverlaps == {<<1, 5>>, <<5, 1>>}
MixedAncestors == <<{}, {}, {}, {1, 2}, {1, 2, 4}>>
MixedOrder == <<1, 2, 3, 4, 5>>

\* ProviderPolicy(("qwen", "api"), (1, 1)) on every node.
AlternatingRotation == [n \in Nodes |-> <<"qwen", "api">>]

\* What is written out above is what the code computes from the graph.
ASSUME MixedGraphAssumption ==
    /\ MCEditing = {n \in Nodes : Writes[n] # {}}
    /\ MCOverlaps = {p \in Nodes \X Nodes : p[1] # p[2] /\ G!ClaimsOverlap(Writes[p[1]], Writes[p[2]])}
    /\ MixedAncestors = [n \in Nodes |-> G!AncestorsOf(MixedGraph, n)]
    /\ MixedOrder = G!TopologicalOrder(MixedGraph)
    /\ AlternatingRotation = [n \in Nodes |-> G!RotationOf(<<"qwen", "api">>, <<1, 1>>)]

Fresh == {[n \in Nodes |-> "pending"]}

\* Fresh sessions and sessions restored after an earlier run: one with a node
\* retried after a failure, one whose failed node was left alone.
MixedRestored ==
    Fresh \cup {<<"succeeded", "pending", "pending", "pending", "pending">>,
                <<"succeeded", "failed", "pending", "blocked", "blocked">>}
=============================================================================
