----------------------------- MODULE TaskGraphs -----------------------------
(***************************************************************************)
(* The pure part of harness_kernel/task_graph.py: the checks a TaskGraph    *)
(* makes when it is constructed, its topological order, its dependency      *)
(* test and the rotation of a ProviderPolicy.                               *)
(*                                                                          *)
(* A graph is a function deps from its node identifiers to the identifiers  *)
(* they depend on.  Identifiers are naturals: only their order matters.  A  *)
(* canonical repository path is the sequence of its components.             *)
(* Definitions ending in _Mutant are bugs the checks are shown to catch.    *)
(***************************************************************************)
EXTENDS Naturals, Sequences, FiniteSets, SequencesExt

\* Pending(deps)[k]: what is left after k rounds of the loop that takes the
\* nodes whose remaining dependencies are all gone.
Pending(deps) ==
    LET left[k \in Nat] ==
        IF k = 0 THEN DOMAIN deps
        ELSE {n \in left[k - 1] : deps[n] \cap left[k - 1] # {}}
    IN left

IsCyclic_Mutant(deps) == Pending(deps)[Cardinality(DOMAIN deps) - 1] # {}

IsCyclic(deps) == Pending(deps)[Cardinality(DOMAIN deps)] # {}

\* sorted().
Sorted(S) == CHOOSE s \in [1..Cardinality(S) -> S] : \A i, j \in DOMAIN s : i < j => s[i] < s[j]

\* Each round appends, sorted, the nodes it takes.
TopologicalOrder(deps) ==
    LET left == Pending(deps)
        ordered[k \in Nat] ==
            IF k = 0 THEN <<>>
            ELSE ordered[k - 1] \o Sorted(left[k - 1] \ left[k])
    IN ordered[Cardinality(DOMAIN deps)]

AncestorsOf_Mutant(deps, n) == deps[n]

\* The nodes reached from n along one or more dependencies.
AncestorsOf(deps, n) ==
    LET seen[k \in Nat] ==
        IF k = 0 THEN deps[n]
        ELSE seen[k - 1] \cup UNION {deps[m] : m \in seen[k - 1]}
    IN seen[Cardinality(DOMAIN deps)]

DependsOn(deps, n, ancestor) == ancestor \in AncestorsOf(deps, n)

PathsOverlap_Mutant(a, b) == a = b

\* A directory claim covers every path below it.
PathsOverlap(a, b) == IsPrefix(a, b) \/ IsPrefix(b, a)

ClaimsOverlap(left, right) == \E a \in left, b \in right : PathsOverlap(a, b)

UnorderedConflict(deps, writes) ==
    \E m, n \in {x \in DOMAIN deps : writes[x] # {}} :
        /\ m # n
        /\ ClaimsOverlap(writes[m], writes[n])
        /\ ~DependsOn(deps, m, n)
        /\ ~DependsOn(deps, n, m)

\* The outcome of constructing a graph: its checks in the order they are made.
Validate(deps, writes) ==
    IF \E n \in DOMAIN deps : ~(deps[n] \subseteq DOMAIN deps \ {n}) THEN "bad dependency"
    ELSE IF IsCyclic(deps) THEN "cycle"
    ELSE IF UnorderedConflict(deps, writes) THEN "write conflict"
    ELSE "valid"

ProviderAt_Mutant(providers, weights, dispatchIndex) ==
    providers[(dispatchIndex % Len(weights)) + 1]

\* weights[k]: the weight of providers[k]; walk the weights up to the position.
ProviderAt(providers, weights, dispatchIndex) ==
    LET upTo[k \in 0..Len(weights)] == IF k = 0 THEN 0 ELSE upTo[k - 1] + weights[k]
        position == dispatchIndex % upTo[Len(weights)]
    IN providers[CHOOSE k \in DOMAIN weights : upTo[k - 1] <= position /\ position < upTo[k]]

\* One turn of the policy, provider by provider.
RotationOf(providers, weights) ==
    FlattenSeq([k \in DOMAIN weights |-> [i \in 1..weights[k] |-> providers[k]]])
-----------------------------------------------------------------------------
(* What is promised *)

\* m is among the nodes that every set closed under dependencies holds which
\* holds those of n.
Reaches(deps, n, m) ==
    \A S \in SUBSET DOMAIN deps :
        deps[n] \subseteq S /\ (\A x \in S : deps[x] \subseteq S) => m \in S

Before(order, m, n) == \E i, j \in DOMAIN order : i < j /\ order[i] = m /\ order[j] = n

\* A graph whose nodes depend on others of it is rejected as cyclic exactly when
\* a node reaches itself.
CyclesAreRejected(deps, writes) ==
    (\A n \in DOMAIN deps : deps[n] \subseteq DOMAIN deps \ {n}) =>
        (Validate(deps, writes) = "cycle" <=> \E n \in DOMAIN deps : Reaches(deps, n, n))

\* The order holds every node once, after all its dependencies, and a node is
\* placed after a larger identifier only when a chain of dependencies of the
\* same length or more forces it.
OrderIsTopological(deps) ==
    LET order == TopologicalOrder(deps)
        depth[n \in DOMAIN deps] ==
            IF deps[n] = {} THEN 0 ELSE 1 + Max({depth[d] : d \in deps[n]})
    IN /\ ToSet(order) = DOMAIN deps
       /\ Len(order) = Cardinality(DOMAIN deps)
       /\ \A n \in DOMAIN deps : \A d \in deps[n] : Before(order, d, n)
       /\ \A m, n \in DOMAIN deps :
             depth[m] < depth[n] \/ (depth[m] = depth[n] /\ m < n) => Before(order, m, n)

\* Path a names b or a directory that holds b.
Covers(a, b) == Len(a) <= Len(b) /\ \A i \in DOMAIN a : a[i] = b[i]

\* Two nodes whose claims overlap are ordered by a dependency path.
ConflictingWritersAreOrdered(deps, writes) ==
    \A m, n \in DOMAIN deps : \A a \in writes[m], b \in writes[n] :
        m # n /\ Covers(a, b) => Reaches(deps, m, n) \/ Reaches(deps, n, m)

\* The worklist of depends_on finds exactly the nodes on a dependency path.
DependsOnIsReachability(deps) ==
    \A n \in DOMAIN deps :
        /\ \A m \in DOMAIN deps : DependsOn(deps, n, m) <=> Reaches(deps, n, m)
        /\ AncestorsOf(deps, n) = deps[n] \cup UNION {AncestorsOf(deps, d) : d \in deps[n]}

\* What construction accepts is what an execution may rely on: no node reaches
\* itself, the order respects every dependency, writers of one place are ordered
\* by a path, and reachability is exact (task_graph.py:104, :126, :140).
GraphIsSound(deps, writes) ==
    /\ CyclesAreRejected(deps, writes)
    /\ Validate(deps, writes) = "valid" =>
          OrderIsTopological(deps) /\ ConflictingWritersAreOrdered(deps, writes) /\ DependsOnIsReachability(deps)

\* Over any window of one full turn a provider is chosen as often as its weight
\* says, and the code's walk along the weights is the lookup in the expanded
\* rotation that the scheduler's model uses (task_graph.py:52).
RotationIsFair(providers, weights, index) ==
    LET turn == RotationOf(providers, weights)
        at(i) == ProviderAt(providers, weights, i)
    IN /\ at(index) = turn[(index % Len(turn)) + 1]
       /\ \A k \in DOMAIN weights :
            Cardinality({i \in index..index + Len(turn) - 1 : at(i) = providers[k]}) = weights[k]
=============================================================================
