------------------------ MODULE DependencyExecution ------------------------
(***************************************************************************)
(* What OrchestrationSession promises about the nodes of an approved graph, *)
(* with no control flow: a node starts only once everything it depends on   *)
(* has succeeded, at most Concurrency nodes run, a node downstream of a     *)
(* failure is blocked rather than run, cancelling settles every open node   *)
(* at once, and each successful editing node enters the merge queue         *)
(* exactly when it succeeds.  Scheduler implements this specification.      *)
(***************************************************************************)
EXTENDS Naturals, Sequences, FiniteSets

CONSTANTS
    Nodes,          \* node identifiers of the graph
    Deps,           \* Deps[n]: the nodes n depends on
    Editing,        \* nodes with write claims
    Concurrency,    \* how many nodes may run at once
    InitialStates   \* the node states a session may start from

VARIABLES
    states,         \* states[n]: the NodeState of n
    mergeQueue      \* editing nodes that succeeded, oldest first

vars == <<states, mergeQueue>>

Open == {"pending", "running"}
Bad == {"failed", "blocked", "cancelled"}

Init ==
    /\ states \in InitialStates
    /\ mergeQueue = <<>>

Start(n) ==
    /\ states[n] = "pending"
    /\ \A d \in Deps[n] : states[d] = "succeeded"
    /\ Cardinality({m \in Nodes : states[m] = "running"}) < Concurrency
    /\ states' = [states EXCEPT ![n] = "running"]
    /\ UNCHANGED mergeQueue

Block(n) ==
    /\ states[n] = "pending"
    /\ \E d \in Deps[n] : states[d] \in Bad
    /\ states' = [states EXCEPT ![n] = "blocked"]
    /\ UNCHANGED mergeQueue

Succeed(n) ==
    /\ states[n] = "running"
    /\ states' = [states EXCEPT ![n] = "succeeded"]
    /\ mergeQueue' = IF n \in Editing THEN Append(mergeQueue, n) ELSE mergeQueue

Fail(n) ==
    /\ states[n] = "running"
    /\ states' = [states EXCEPT ![n] = "failed"]
    /\ UNCHANGED mergeQueue

Cancel ==
    /\ states' = [n \in Nodes |-> IF states[n] \in Open THEN "cancelled" ELSE states[n]]
    /\ UNCHANGED mergeQueue

Next ==
    \/ \E n \in Nodes : Start(n) \/ Block(n) \/ Succeed(n) \/ Fail(n)
    \/ Cancel

Spec == Init /\ [][Next]_vars
=============================================================================
