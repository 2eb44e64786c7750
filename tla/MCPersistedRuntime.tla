------------------------ MODULE MCPersistedRuntime ------------------------
(***************************************************************************)
(* Small graphs for PersistedRuntime: a join of two roots, and the chain    *)
(* without one of the roots, so that a revision keeps and removes nodes.    *)
(***************************************************************************)
EXTENDS PersistedRuntime

TG == INSTANCE TaskGraphs

MCDeclared == [g \in Graphs |-> IF g = "join" THEN <<1, 2, 3>> ELSE <<1, 3>>]
MCDeps == [g \in Graphs |->
    IF g = "join" THEN <<{}, {}, {1, 2}>> ELSE [n \in {1, 3} |-> IF n = 3 THEN {1} ELSE {}]]
MCAncestors == [g \in Graphs |-> [n \in DOMAIN MCDeps[g] |-> TG!AncestorsOf(MCDeps[g], n)]]
MCEditing == [g \in Graphs |-> {1, 3}]
MCRotation == [n \in 1..3 |-> <<"qwen">>]
=============================================================================
