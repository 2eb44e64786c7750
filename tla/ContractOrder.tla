---------------------------- MODULE ContractOrder ----------------------------
(***************************************************************************)
(* The order in which contracts are sent: what scripts/run_structured_spec  *)
(* makes of the components and cases of a plan, of its dependency graph, of *)
(* the architect's remarks and of the names a contract's text mentions.     *)
(***************************************************************************)
EXTENDS Naturals, Sequences, FiniteSets, SequencesExt, Functions

\* _ordered_unique, and the growth of a list of dependencies.
AddNew(s, x) == IF x \in ToSet(s) THEN s ELSE Append(s, x)
OrderedUnique(s) == FoldLeft(AddNew, <<>>, s)

\* _topological_contract_names: depth first, dependencies before the contract;
\* a contract that is reached again while it is visited is left out there.
VisitFrom(Contracts, listed) ==
    LET visit[x \in Contracts \X (SUBSET Contracts) \X Seq(Contracts)] ==
            LET name == x[1]
                temporary == x[2]
                ordered == x[3]
            IN IF name \in ToSet(ordered) \cup temporary THEN ordered
               ELSE Append(
                      FoldLeft(LAMBDA o, d : visit[<<d, temporary \cup {name}, o>>], ordered, listed[name]),
                      name)
    IN visit

TopologicalContractNames(names, listed) ==
    FoldLeft(LAMBDA o, n : VisitFrom(ToSet(names), listed)[<<n, {}, o>>], <<>>, names)

\* _dependencies_from_graph: in a line of names each depends on the one before.
DependenciesFromGraph(lines, known) ==
    LET pairs == FlattenSeq([l \in DOMAIN lines |->
                     LET s == SelectSeq(lines[l], LAMBDA n : n \in known)
                     IN [k \in 1..(Len(s) - 1) |-> <<s[k], s[k+1]>>]])
    IN [n \in known |-> FoldLeft(LAMBDA ds, p : IF p[2] = n /\ p[1] # n THEN AddNew(ds, p[1]) ELSE ds, <<>>, pairs)]

\* _fallback_contract_queue: components, entry points and helpers, then what
\* only a behaviour case calls.
FallbackNames(items, cases) == OrderedUnique(items \o cases)

\* _apply_contract_plan: the architect's dependencies are added to the plan's,
\* and its order goes first.
ListedDependencies(planned, added) ==
    [c \in DOMAIN planned |-> planned[c] \o SelectSeq(added[c], LAMBDA d :
        d # c /\ d \in DOMAIN planned /\ d \notin ToSet(planned[c]))]

RequestedOrder(requested, base) ==
    SelectSeq(requested, LAMBDA c : c \in ToSet(base)) \o
    SelectSeq(base, LAMBDA c : c \notin ToSet(requested))

\* _contract_dependencies: also every contract that the text names.
RequiredBy(listed, mentioned) ==
    [c \in DOMAIN listed |-> (ToSet(listed[c]) \cup mentioned[c]) \ {c}]

\* _assign_contract_files: the plan's files in turn.
FileOf(queue, files, c) ==
    IF files = 0 THEN 0 ELSE (((CHOOSE i \in DOMAIN queue : queue[i] = c) - 1) % files) + 1

\* The queue of a plan with these dependencies, listed after the architect's
\* remarks.
PlannedQueue(names, planned, listed, requested, mentioned, files) ==
    [queue |-> TopologicalContractNames(
                   RequestedOrder(requested, TopologicalContractNames(names, planned)), listed),
     requires |-> RequiredBy(listed, mentioned), files |-> files]
=============================================================================
