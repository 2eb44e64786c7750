----------------------------- MODULE MCOperators -----------------------------
(***************************************************************************)
(* The pure parts of the system on small inputs: the validation of drafts   *)
(* (MCValidation), and, as further topics,                                   *)
(*   graph   every task graph over NodeIds, with dependencies on identifiers *)
(*           that may not exist and with every choice of write claims        *)
(*   turn    every provider policy up to MaxWeight, for two of its turns     *)
(*   mounts  every container with up to two mounts besides its own           *)
(* They are compared with definitions that do not follow the code's loops.   *)
(***************************************************************************)
EXTENDS MCValidation, TaskGraphs, MountPolicy

CONSTANTS NodeIds, UnknownId, MaxWeight

\* Node identifiers are texts, of which only the order matters.
ASSUME GraphAssumption == IsFiniteSet(NodeIds) /\ NodeIds \subseteq Nat
ASSUME PolicyAssumption == MaxWeight \in Nat

ClaimSets == {{}, {<<"src">>}, {<<"src", "a">>, <<"doc">>}}
ProviderNames == <<"qwen", "api", "local">>

GraphGate ==
    {[topic |-> "graph", deps |-> d, writes |-> w] :
        d \in [NodeIds -> SUBSET (NodeIds \cup {UnknownId})], w \in [NodeIds -> ClaimSets]}

\* Dispatch after dispatch asks the same policy.
TurnGate ==
    {[topic |-> "turn", weights |-> w, index |-> i] :
        w \in UNION {[1..k -> 1..MaxWeight] : k \in 1..Len(ProviderNames)},
        i \in 0..(2 * MaxWeight * Len(ProviderNames))}

SomePlaces ==
    {WorkDir, TmpDir, TrustedTests, <<>>, <<"workspace", "t">>, <<".", "workspace">>, <<"workspace", "..", "etc">>}
Project == <<"project">>
SomeBundles == {<<"tests">>, <<"project", "tests">>, <<"etc">>, <<"run", Socket>>}
ExtraMounts ==
    {Mount(s, d, t, r) : s \in SomeBundles, d \in SomePlaces,
                                t \in {"bind", "tmpfs"}, r \in BOOLEAN}
SomeExtras ==
    (UNION {[1..k -> ExtraMounts] : k \in 0..1}) \cup {<<Mount(<<"tests">>, TrustedTests, "bind", TRUE), m>> : m \in ExtraMounts}
SomeAllowed == {{WorkDir, TmpDir}, {WorkDir, TmpDir, TrustedTests}}
MountGate ==
    {[topic |-> "mounts", policy |-> Policy(a, e, r, TRUE), scratch |-> s, extra |-> x, network |-> n] :
        a \in SomeAllowed, e \in BOOLEAN, r \in BOOLEAN, s \in {Project, <<>>}, x \in SomeExtras, n \in BOOLEAN}

OperatorsInit ==
    \/ ValidationInit
    \/ gate \in GraphGate \cup TurnGate \cup MountGate /\ Unwalked

OperatorsSpec == OperatorsInit /\ [][gate = NoGate /\ WalkNext /\ UNCHANGED gate]_validationVars
-----------------------------------------------------------------------------
(* Properties *)

\* What construction accepts is what an execution may rely on: no node reaches
\* itself, the order respects every dependency, writers of one place are ordered
\* by a path, reachability is exact, and no order of dispatches starves a
\* provider (task_graph.py:104, :126, :140, :52).
TaskGraphsAreSound ==
    /\ gate.topic = "graph" => GraphIsSound(gate.deps, gate.writes)
    /\ gate.topic = "turn" => RotationIsFair(ProviderNames, gate.weights, gate.index)

\* Whatever mounts are asked for, a container gets its scratch directory at its
\* working place, none of the blocked paths, no place twice, no network that was
\* not asked for and, but for destinations with ".." in them, no place outside the
\* policy's; a project is run exactly when its paths may be mounted, and writes to
\* itself alone (container_sandbox.py:104, project_validation.py:132).
MountsAreConfined ==
    gate.topic = "mounts" =>
        /\ ContainerIsConfined(gate.policy, gate.scratch, gate.extra, gate.network)
        /\ \A b \in SomeBundles : ProjectIsConfined(gate.scratch, <<b>>, gate.network)
        /\ ProjectIsConfined(gate.scratch, <<>>, gate.network)
=============================================================================
