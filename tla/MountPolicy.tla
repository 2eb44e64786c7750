---------------------------- MODULE MountPolicy ----------------------------
(***************************************************************************)
(* Which mounts a container may be given (harness_kernel/container_sandbox  *)
(* and project_validation). A destination is the sequence of its path       *)
(* components, which is what normalize_destination makes of a text: a ".."  *)
(* stays in it; a relative one starts with ".". A source is a resolved path, *)
(* the sequence of its components without "..".                              *)
(***************************************************************************)
EXTENDS Naturals, Sequences, SequencesExt, FiniteSets, Functions

Refused == [ok |-> FALSE]
WorkDir == <<"workspace">>
TmpDir == <<"tmp">>
TrustedTests == <<"trusted-tests">>

\* ContainerFilesystemPolicy, its flags for the root file system included.
Policy(allowed, extras, readOnlyRoot, noNewPrivileges) ==
    [allowed |-> allowed, extras |-> extras, readOnlyRoot |-> readOnlyRoot, noNewPrivileges |-> noNewPrivileges]
DefaultContainerFsPolicy == Policy({WorkDir, TmpDir}, FALSE, TRUE, TRUE)

Mount(source, destination, type, readOnly) ==
    [source |-> source, destination |-> destination, type |-> type, readOnly |-> readOnly]

IsAbsolute(destination) == destination = <<>> \/ Head(destination) # "."

IsAllowedDestination_Mutant(policy, destination) == \E a \in policy.allowed : IsPrefix(destination, a)

IsAllowedDestination(policy, destination) == \E a \in policy.allowed : IsPrefix(a, destination)

Socket == "docker.sock"
BlockedRoots == {<<>>, <<"etc">>, <<"home">>, <<"Users">>, <<"private">>}

\* validate_host_source refuses these paths and no path below them.
IsBlockedSource(source) ==
    source \in BlockedRoots \/ (source # <<>> /\ Last(source) = Socket)

DefaultMounts(scratch) ==
    << Mount(scratch, WorkDir, "bind", FALSE), Mount(<<".">>, TmpDir, "tmpfs", FALSE) >>

Destinations(mounts) == {mounts[i].destination : i \in DOMAIN mounts}

\* validate_mounts: every refusal raises the same kind of error.
ValidMount(policy, m) ==
    /\ IsAbsolute(m.destination) /\ IsAllowedDestination(policy, m.destination)
    /\ \/ m.type = "bind" /\ ~IsBlockedSource(m.source)
       \/ m.type = "tmpfs" /\ (m.destination = TmpDir \/ policy.extras)

ValidMounts(policy, mounts) ==
    /\ \A i \in DOMAIN mounts : ValidMount(policy, mounts[i])
    /\ IsInjective([i \in DOMAIN mounts |-> mounts[i].destination])
    /\ {WorkDir, TmpDir} \subseteq Destinations(mounts)
    /\ policy.extras \/ Destinations(mounts) = {WorkDir, TmpDir}

\* The argument vector, as far as the last scan reads it.
Argv(policy, mounts, network) ==
    [ok |-> TRUE, readOnly |-> policy.readOnlyRoot, noNewPrivileges |-> policy.noNewPrivileges,
     network |-> network, mounts |-> ToSet(mounts)]

\* The scan of the finished command, which reads only the command's words: a
\* tmpfs names no source in it.
WordsOf(m) == ToSet(m.destination) \cup (IF m.type = "bind" THEN ToSet(m.source) ELSE {})
CommandObeysPolicy(argv, policy) ==
    /\ policy.readOnlyRoot => argv.readOnly
    /\ policy.noNewPrivileges => argv.noNewPrivileges
    /\ \A m \in argv.mounts : Socket \notin WordsOf(m) /\ IsAllowedDestination(policy, m.destination)

ContainerCommand(policy, scratch, extra, network) ==
    LET mounts == DefaultMounts(scratch) \o extra
        argv == Argv(policy, mounts, IF network THEN "bridge" ELSE "none")
    IN IF /\ extra = <<>> \/ policy.extras
          /\ ~IsBlockedSource(scratch) /\ ValidMounts(policy, mounts)
          /\ CommandObeysPolicy(argv, policy)
       THEN argv ELSE Refused

\* A project may also be given a bundle of trusted tests, read-only; there is no
\* bundle or one.
ProjectContainerCommand(root, bundles, network) ==
    LET policy == Policy({WorkDir, TmpDir} \cup (IF bundles = <<>> THEN {} ELSE {TrustedTests}),
                         bundles # <<>>, TRUE, TRUE)
        tests == [i \in DOMAIN bundles |-> Mount(bundles[i], TrustedTests, "bind", TRUE)]
    IN ContainerCommand(policy, root, tests, network)

\* enforce_container_only_tool_policy: a fallback is a local run, too.
EnforceContainerOnly(mode, allowLocal, allowFallback) ==
    allowLocal \/ (mode = "container" /\ ~allowFallback)
-----------------------------------------------------------------------------
(* What is promised *)

\* A path leads below a place if it begins there and goes up no more often than
\* it has gone down since.
LeadsBelow(place, path) ==
    /\ IsPrefix(place, path)
    /\ \A k \in Len(place)..Len(path) :
         2 * Cardinality({i \in Len(place) + 1..k : path[i] = ".."}) <= k - Len(place)

GoesUp(m) == ".." \in ToSet(m.destination)

\* A container that is started has, whatever mounts were asked for, its own
\* scratch directory at its working place, none of the blocked paths, no two
\* things under one path, and a network only if it was asked for. A mount leads
\* below a place of the policy unless its destination has a ".." in it, of which
\* the policy compares the text alone (container_sandbox.py:60, :68, :90, :104).
ContainerIsConfined(policy, scratch, extra, network) ==
    LET argv == ContainerCommand(policy, scratch, extra, network) IN
    argv.ok =>
        /\ \A m \in argv.mounts :
             /\ ~GoesUp(m) => \E a \in policy.allowed : LeadsBelow(a, m.destination)
             /\ m.type = "bind" => ~IsBlockedSource(m.source)
             /\ m.destination = WorkDir => m.source = scratch /\ m.type = "bind"
        /\ \A m, o \in argv.mounts : m.destination = o.destination => m = o
        /\ Cardinality(argv.mounts) = 2 + Len(extra)
        /\ extra # <<>> => policy.extras
        /\ argv.network # "none" => network

\* A project is run unless its path or that of its trusted tests is a blocked one
\* or goes through something named as the socket is. It can write to itself alone,
\* so to the tests only where they lie in it, which nothing rules out (:90); and no
\* mount hides another (project_validation.py:132).
ProjectIsConfined(root, bundles, network) ==
    LET project == ProjectContainerCommand(root, bundles, network)
        given == {root} \cup ToSet(bundles)
    IN /\ project.ok <=> \A path \in given : ~IsBlockedSource(path) /\ Socket \notin ToSet(path)
       /\ project.ok =>
            /\ {m.source : m \in {m \in project.mounts : m.type = "bind" /\ ~m.readOnly}} = {root}
            /\ \A m, o \in project.mounts : m # o => ~IsPrefix(m.destination, o.destination)
=============================================================================
