--------------------------- MODULE SchedulerProofs ---------------------------
(***************************************************************************)
(* Theorems of Scheduler for every graph, order, policy and concurrency     *)
(* limit that the assumptions of that module allow, and of its operators;   *)
(* then of the pure definitions of TaskGraphs and MountPolicy, for every    *)
(* graph, policy and container, and of the runs that enumerate them; last   *)
(* of the walk over drafts in StructuralWalk, of any vocabulary and length. *)
(***************************************************************************)
EXTENDS SchedulerOperators, MCOperators, FiniteSetTheorems, SequenceTheorems, WellFoundedInduction, TLAPS

\* Division with a variable divisor, as provider_at uses it.
LEMMA RemainderBound ==
    ASSUME NEW a \in Nat, NEW b \in Nat, b > 0
    PROVE a % b \in Nat /\ a % b < b
BY SMT

\* A provider policy answers every dispatch index with one of its providers
\* (ProviderPolicy.provider_at never reaches its AssertionError).
LEMMA ProviderForType ==
    ASSUME NEW n \in Nodes, NEW index \in Nat
    PROVE ProviderFor(n, index) \in Providers
<1> DEFINE length == Len(Rotation[n])
<1>1. Rotation[n] \in Seq(Providers) /\ length \in Nat /\ length > 0
  BY RoutingAssumption
<1>2. index % length \in Nat /\ index % length < length
  <2> HIDE DEF length
  <2> QED BY <1>1, RemainderBound
<1>3. (index % length) + 1 \in 1..length
  <2> HIDE DEF length
  <2> QED BY <1>1, <1>2
<1> QED BY <1>1, <1>3 DEF ProviderFor

\* Every position of the dispatch pass is a node of the graph.
LEMMA OrderType == \A i \in DOMAIN Order : Order[i] \in Nodes
BY OrderAssumption

\* The state a session is created or restored in is well typed.
LEMMA TypeCorrectInit ==
    ASSUME Init
    PROVE TypeOK
<1>1. states \in [Nodes -> NodeState]
  BY RestoredAssumption DEF Init
<1>2. Len(Order) \in Nat
  BY OrderAssumption
<1>3. mergeQueue \in Seq(Editing)
  BY EmptySeq DEF Init
<1>4. cursor \in 1..(Len(Order) + 1) /\ dispatchIndex \in Nat /\ budget \in {Unlimited, 0, 1}
  BY <1>2 DEF Init, Unlimited
<1>5. /\ providers \in [Nodes -> Providers \cup {NoProvider}]
      /\ tasks \in [Nodes -> {"none", "active", "ok", "failed"}]
  BY DEF Init
<1> QED BY <1>1, <1>3, <1>4, <1>5 DEF Init, TypeOK

\* Every step keeps the types.
LEMMA TypeStep ==
    ASSUME TypeOK, [Next]_vars
    PROVE TypeOK'
<1> USE DEF TypeOK, sessionVars, resultVars, runVars
<1>1. CASE Control
  BY <1>1, NodesAssumption
     DEF Control, Approve, Pause, Resume, Cancel, Step, AddBreakpoint, RemoveBreakpoint,
         SetEvent, MayControl, Executing, Ended, Unlimited
<1>2. CASE Run \/ PassGate \/ EndYield \/ EndProcess \/ CollectDone
  BY <1>2, OrderAssumption DEF Run, PassGate, EndYield, EndProcess, CollectDone, AtGate,
                               Finished, Executing, Ended
<1>3. CASE HonourCancel BY <1>3 DEF HonourCancel, NodeState, Ended
<1>4. CASE SkipSettled \/ AwaitDependencies
  BY <1>4, OrderAssumption DEF SkipSettled, AwaitDependencies, Considering
<1>5. CASE StopPass \/ EndPass BY <1>5 DEF StopPass, EndPass, AfterPass, Ended
<1>6. CASE Block BY <1>6, OrderType, OrderAssumption DEF Block, Considering, NodeState
<1>7. CASE Dispatch
  <2>1. Order[cursor] \in Nodes /\ cursor + 1 \in 1..(Len(Order) + 1)
    BY <1>7, OrderType, OrderAssumption DEF Dispatch, StartNode, Ready, Considering
  <2>2. ProviderFor(Order[cursor], dispatchIndex) \in Providers
    BY <2>1, ProviderForType
  <2>3. budget' \in {Unlimited, 0, 1}
    BY <1>7 DEF Dispatch, StartNode, Ready, Stopped, Unlimited
  <2> QED BY <1>7, <2>1, <2>2, <2>3 DEF Dispatch, StartNode, NodeState
<1>8. CASE DispatchRaises BY <1>8 DEF DispatchRaises, Ended
<1>9. ASSUME NEW n \in Nodes, ProcessSuccess(n) \/ ProcessFailure(n) \/ ProcessRaises(n)
      PROVE TypeOK'
  <2>1. mergeQueue' \in Seq(Editing)
    <3>1. n \in Editing => Append(mergeQueue, n) \in Seq(Editing)
      BY AppendProperties
    <3> QED BY <1>9, <3>1 DEF ProcessSuccess, ProcessFailure, ProcessRaises
  <2>2. proposals' \subseteq Editing /\ doneTasks' \subseteq Nodes
    BY <1>9 DEF ProcessSuccess, ProcessFailure, ProcessRaises, Retire
  <2>3. /\ states' \in [Nodes -> NodeState]
        /\ tasks' \in [Nodes -> {"none", "active", "ok", "failed"}]
    BY <1>9 DEF ProcessSuccess, ProcessFailure, ProcessRaises, Retire, NodeState
  <2> QED BY <1>9, <2>1, <2>2, <2>3 DEF ProcessSuccess, ProcessFailure, ProcessRaises, Ended
<1>10. ASSUME NEW n \in Nodes, Complete(n) PROVE TypeOK'
  BY <1>10 DEF Complete
<1>11. CASE UNCHANGED vars BY <1>11 DEF vars
<1> QED BY <1>1, <1>2, <1>3, <1>4, <1>5, <1>6, <1>7, <1>8, <1>9, <1>10, <1>11
  DEF Next, RunStep, Fault

\* Type correctness of the session, its run() coroutine and its agents.
THEOREM TypeCorrect == Spec => []TypeOK
  BY TypeCorrectInit, TypeStep, PTL DEF Spec

-----------------------------------------------------------------------------
(***************************************************************************)
(* The inductive invariant.  Consistent ties the reported states to the     *)
(* agents' tasks; Downstream says that whatever was started had all its     *)
(* ancestors succeed; QueueInv describes the merge queue; PassInv is the    *)
(* loop invariant of the dispatch pass.                                     *)
(***************************************************************************)

Consistent ==
    /\ \A n \in Nodes : tasks[n] # "none" =>
          providers[n] # NoProvider /\ states[n] \in {"running", "cancelled"}
    /\ pc # "done" => \A n \in Nodes : states[n] = "running" => tasks[n] # "none"
    /\ \A n \in Nodes : providers[n] # NoProvider =>
          states[n] \in {"running", "succeeded", "failed", "cancelled"}
    /\ pc # "done" => \A n \in Nodes : states[n] = "cancelled" => tasks[n] = "none"
    /\ doneTasks \subseteq Finished

Downstream ==
    \A n \in Nodes :
        states[n] \in {"running", "succeeded", "failed"} \/ providers[n] # NoProvider =>
            \A a \in Ancestors[n] : states[a] = "succeeded"

QueueInv ==
    /\ \A i, j \in DOMAIN mergeQueue : mergeQueue[i] = mergeQueue[j] => i = j
    /\ Queued = {n \in Dispatched \cap Editing : states[n] = "succeeded"}
    /\ pc # "raised" => proposals = Queued
    /\ \A i, j \in DOMAIN mergeQueue : i < j => mergeQueue[j] \notin Ancestors[mergeQueue[i]]

PassInv ==
    /\ pc = "dispatch" => ~cancelled
    /\ pc = "dispatch" => \A i \in 1..(cursor - 1) :
          states[Order[i]] = "pending" => Running # {}

InductiveInv == TypeOK /\ Consistent /\ Downstream /\ QueueInv /\ PassInv

\* States, tasks and providers agree: a node is running exactly while its
\* task exists, and a finished task waits in doneTasks with its result.
LEMMA ConsistentStep ==
    ASSUME TypeOK, Consistent, [Next]_vars
    PROVE Consistent'
<1> USE DEF TypeOK, Consistent, sessionVars, resultVars, runVars, Finished
<1>1. CASE Control
  BY <1>1 DEF Control, Approve, Pause, Resume, Cancel, Step, AddBreakpoint, RemoveBreakpoint,
              SetEvent, MayControl, Executing
<1>2. CASE Run \/ PassGate \/ EndYield \/ EndProcess \/ CollectDone
  BY <1>2 DEF Run, PassGate, EndYield, EndProcess, CollectDone, AtGate
<1>3. CASE HonourCancel BY <1>3 DEF HonourCancel, Open
<1>4. CASE SkipSettled \/ AwaitDependencies \/ StopPass \/ EndPass \/ DispatchRaises
  BY <1>4 DEF SkipSettled, AwaitDependencies, StopPass, EndPass, DispatchRaises, AfterPass,
              Considering, Ready
<1>5. CASE Block BY <1>5, OrderType DEF Block, Considering
<1>6. CASE Dispatch
  <2>1. Order[cursor] \in Nodes
    BY <1>6, OrderType DEF Dispatch, StartNode, Ready, Considering
  <2>2. ProviderFor(Order[cursor], dispatchIndex) # NoProvider
    BY <2>1, ProviderForType, RoutingAssumption
  <2> QED BY <1>6, <2>1, <2>2 DEF Dispatch, StartNode, Ready, Considering
<1>7. ASSUME NEW n \in Nodes, ProcessSuccess(n) \/ ProcessFailure(n) \/ ProcessRaises(n)
      PROVE Consistent'
  <2>1. /\ states'[n] \in {"succeeded", "failed"} /\ tasks'[n] = "none"
        /\ doneTasks' = doneTasks \ {n} /\ providers' = providers
        /\ pc = "process" /\ providers[n] # NoProvider
    BY <1>7 DEF ProcessSuccess, ProcessFailure, ProcessRaises, Retire, NextDone
  <2>2. \A m \in Nodes : m # n => states'[m] = states[m] /\ tasks'[m] = tasks[m]
    BY <1>7 DEF ProcessSuccess, ProcessFailure, ProcessRaises, Retire
  <2>3. \A m \in Nodes : tasks'[m] # "none" => m # n
    BY <2>1
  <2>4. \A m \in Nodes : states'[m] \in {"running", "cancelled"} => m # n
    BY <2>1
  <2> QED BY <2>1, <2>2, <2>3, <2>4
<1>8. ASSUME NEW n \in Nodes, Complete(n) PROVE Consistent'
  BY <1>8 DEF Complete
<1>9. CASE UNCHANGED vars BY <1>9 DEF vars
<1> QED BY <1>1, <1>2, <1>3, <1>4, <1>5, <1>6, <1>7, <1>8, <1>9 DEF Next, RunStep, Fault

\* No step makes an ancestor of a started node anything but succeeded, and a
\* node is only started when its direct dependencies, hence all its
\* ancestors, have succeeded.
LEMMA DownstreamStep ==
    ASSUME TypeOK, Consistent, Downstream, [Next]_vars
    PROVE Downstream'
<1> USE DEF TypeOK, Consistent, Downstream, sessionVars, resultVars, runVars
<1>0. \A n \in Nodes : Ancestors[n] \subseteq Nodes
  BY ClaimsAssumption
<1>1. CASE UNCHANGED <<states, providers>> BY <1>1
<1>2. CASE HonourCancel BY <1>2, <1>0 DEF HonourCancel, Open
<1>3. CASE Block BY <1>3, <1>0, OrderType DEF Block, Considering
<1>4. CASE Dispatch
  <2> DEFINE n == Order[cursor]
  <2>1. n \in Nodes /\ states[n] = "pending" /\ \A d \in Deps[n] : states[d] = "succeeded"
    BY <1>4, OrderType DEF Dispatch, StartNode, Ready, Considering
  <2>2. \A a \in Ancestors[n] : states[a] = "succeeded"
    <3>1. Deps[n] \subseteq Nodes
      BY <2>1, NodesAssumption
    <3> QED BY <2>1, <3>1, ClaimsAssumption
  <2>3. /\ \A m \in Nodes : states'[m] = IF m = n THEN "running" ELSE states[m]
        /\ \A m \in Nodes : m # n => providers'[m] = providers[m]
    BY <1>4, <2>1 DEF Dispatch, StartNode
  <2> HIDE DEF n
  <2> QED BY <1>0, <2>1, <2>2, <2>3
<1>5. ASSUME NEW n \in Nodes, ProcessSuccess(n) \/ ProcessFailure(n) \/ ProcessRaises(n)
      PROVE Downstream'
  <2>1. n \in Finished /\ tasks[n] # "none" /\ providers[n] # NoProvider /\ providers' = providers
    BY <1>5 DEF ProcessSuccess, ProcessFailure, ProcessRaises, NextDone, Finished
  <2>2. \A m \in Nodes : m # n => states'[m] = states[m]
    BY <1>5 DEF ProcessSuccess, ProcessFailure, ProcessRaises
  <2>3. states[n] # "succeeded"
    BY <2>1
  <2> QED BY <1>0, <2>1, <2>2, <2>3
<1>6. Control \/ Run \/ PassGate \/ SkipSettled \/ StopPass \/ AwaitDependencies \/ EndPass
        \/ EndYield \/ CollectDone \/ EndProcess \/ DispatchRaises \/ (\E n \in Nodes : Complete(n))
        \/ UNCHANGED vars
      => UNCHANGED <<states, providers>>
  BY DEF Control, Approve, Pause, Resume, Cancel, Step, AddBreakpoint, RemoveBreakpoint,
         Run, PassGate, SkipSettled, StopPass, AwaitDependencies, EndPass, EndYield,
         CollectDone, EndProcess, DispatchRaises, Complete, vars
<1> QED BY <1>1, <1>2, <1>3, <1>4, <1>5, <1>6 DEF Next, RunStep, Fault
\* Successful editing nodes enter the queue once, in an order that respects
\* the dependencies, and leave their proposal behind.
LEMMA QueueStep ==
    ASSUME TypeOK, Consistent, Downstream, QueueInv, [Next]_vars
    PROVE QueueInv'
<1> USE DEF TypeOK, QueueInv, Queued, Dispatched, sessionVars, resultVars, runVars
<1>1. CASE Control
  BY <1>1 DEF Control, Approve, Pause, Resume, Cancel, Step, AddBreakpoint, RemoveBreakpoint,
              SetEvent, MayControl
<1>2. CASE Run \/ PassGate \/ EndYield \/ EndProcess \/ CollectDone
  BY <1>2 DEF Run, PassGate, EndYield, EndProcess, CollectDone, AtGate
<1>3. CASE HonourCancel BY <1>3 DEF HonourCancel, Open
<1>4. CASE SkipSettled \/ AwaitDependencies \/ StopPass \/ EndPass \/ DispatchRaises
  BY <1>4 DEF SkipSettled, AwaitDependencies, StopPass, EndPass, DispatchRaises, AfterPass,
              Considering, Ready
<1>5. CASE Block BY <1>5, OrderType DEF Block, Considering
<1>6. CASE Dispatch
  <2>1. Order[cursor] \in Nodes /\ states[Order[cursor]] = "pending"
    BY <1>6, OrderType DEF Dispatch, StartNode, Ready, Considering
  <2>2. providers[Order[cursor]] = NoProvider
    BY <2>1 DEF Consistent
  <2> QED BY <1>6, <2>1, <2>2 DEF Dispatch, StartNode, Ready, Considering
<1>7. ASSUME NEW n \in Nodes, ProcessSuccess(n) \/ ProcessFailure(n) \/ ProcessRaises(n)
      PROVE QueueInv'
  <2>1. /\ n \in Finished /\ providers[n] # NoProvider /\ providers' = providers
        /\ pc = "process" /\ states[n] \in {"running", "cancelled"}
        /\ \A m \in Nodes : m # n => states'[m] = states[m]
    BY <1>7 DEF ProcessSuccess, ProcessFailure, ProcessRaises, NextDone, Consistent, Finished
  <2>2. n \notin Queued
    BY <2>1
  <2>3. CASE states'[n] = "succeeded" /\ n \in Editing
    <3>1. mergeQueue' = Append(mergeQueue, n)
      BY <1>7, <2>3 DEF ProcessSuccess, ProcessFailure, ProcessRaises
    <3>2. pc' # "raised" => proposals' = proposals \cup {n}
      BY <1>7, <2>1, <2>3 DEF ProcessSuccess, ProcessFailure, ProcessRaises
    <3>3. /\ Len(mergeQueue) \in Nat
          /\ DOMAIN mergeQueue = 1..Len(mergeQueue)
          /\ DOMAIN mergeQueue' = 1..(Len(mergeQueue) + 1)
          /\ mergeQueue'[Len(mergeQueue) + 1] = n
          /\ \A i \in DOMAIN mergeQueue : mergeQueue'[i] = mergeQueue[i]
      BY <3>1
    <3>4. Queued' = Queued \cup {n}
      BY <3>3
    <3>5. \A i \in DOMAIN mergeQueue : n \notin Ancestors[mergeQueue[i]]
      <4>1. \A i \in DOMAIN mergeQueue :
               mergeQueue[i] \in Nodes /\ states[mergeQueue[i]] = "succeeded"
        OBVIOUS
      <4> QED BY <2>1, <4>1 DEF Downstream
    <3>6. \A i, j \in DOMAIN mergeQueue' : mergeQueue'[i] = mergeQueue'[j] => i = j
      BY <2>2, <3>3
    <3>7. \A i, j \in DOMAIN mergeQueue' :
             i < j => mergeQueue'[j] \notin Ancestors[mergeQueue'[i]]
      BY <3>3, <3>5
    <3>8. Queued' = {m \in Dispatched' \cap Editing : states'[m] = "succeeded"}
      BY <2>1, <2>3, <3>4
    <3> QED BY <2>1, <3>2, <3>4, <3>6, <3>7, <3>8
  <2>4. CASE ~(states'[n] = "succeeded" /\ n \in Editing)
    <3>1. mergeQueue' = mergeQueue /\ proposals' = proposals /\ pc' = pc
      BY <1>7, <2>4 DEF ProcessSuccess, ProcessFailure, ProcessRaises
    <3>2. Queued' = {m \in Dispatched' \cap Editing : states'[m] = "succeeded"}
      BY <2>1, <2>2, <2>4, <3>1
    <3> QED BY <3>1, <3>2
  <2> QED BY <2>3, <2>4
<1>8. ASSUME NEW n \in Nodes, Complete(n) PROVE QueueInv'
  BY <1>8 DEF Complete
<1>9. CASE UNCHANGED vars BY <1>9 DEF vars
<1> QED BY <1>1, <1>2, <1>3, <1>4, <1>5, <1>6, <1>7, <1>8, <1>9 DEF Next, RunStep, Fault

\* While nothing runs, the pass leaves no pending node behind the cursor: a
\* pending dependency would be behind it too, and a running one is a task.
LEMMA PassStep ==
    ASSUME TypeOK, Consistent, PassInv, [Next]_vars
    PROVE PassInv'
<1> USE DEF TypeOK, PassInv, Running, sessionVars, resultVars, runVars
<1>0. Len(Order) \in Nat /\ DOMAIN Order = 1..Len(Order)
  BY OrderAssumption
<1>1. CASE Control
  BY <1>1 DEF Control, Approve, Pause, Resume, Cancel, Step, AddBreakpoint, RemoveBreakpoint,
              SetEvent, MayControl, Executing
<1>2. CASE Run \/ PassGate \/ EndYield \/ EndProcess \/ CollectDone
  BY <1>2 DEF Run, PassGate, EndYield, EndProcess, CollectDone, AtGate
<1>3. CASE HonourCancel \/ StopPass \/ EndPass \/ DispatchRaises
  BY <1>3 DEF HonourCancel, StopPass, EndPass, DispatchRaises, AfterPass
<1>4. CASE SkipSettled BY <1>4, <1>0 DEF SkipSettled
<1>5. CASE Block
  <2>1. \A m \in Nodes : states'[m] = "pending" => states[m] = "pending" /\ m # Order[cursor]
    BY <1>5, OrderType DEF Block, Considering
  <2> QED BY <1>5, <1>0, <2>1, OrderType DEF Block, Considering
<1>6. CASE AwaitDependencies
  <2>1. Running # {}
    <3>1. PICK d \in Deps[Order[cursor]] : states[d] # "succeeded" /\ states[d] \notin Bad
      BY <1>6 DEF AwaitDependencies
    <3>2. PICK j \in DOMAIN Order : j < cursor /\ Order[j] = d
      BY <1>6, OrderAssumption DEF AwaitDependencies, Considering
    <3>3. d \in Nodes /\ states[d] \in {"pending", "running"}
      BY <3>1, <3>2, OrderType DEF Bad, NodeState
    <3>4. CASE states[d] = "running"
      BY <1>6, <3>3, <3>4 DEF AwaitDependencies, Considering, Consistent
    <3>5. CASE states[d] = "pending"
      BY <1>6, <1>0, <3>2, <3>5 DEF AwaitDependencies, Considering
    <3> QED BY <3>3, <3>4, <3>5
  <2> QED BY <1>6, <2>1 DEF AwaitDependencies
<1>7. CASE Dispatch
  <2>1. Order[cursor] \in Running'
    BY <1>7, OrderType DEF Dispatch, StartNode, Ready, Considering
  <2> QED BY <1>7, <2>1 DEF Dispatch, StartNode, Ready, Considering
<1>8. ASSUME NEW n \in Nodes, ProcessSuccess(n) \/ ProcessFailure(n) \/ ProcessRaises(n)
      PROVE PassInv'
  BY <1>8 DEF ProcessSuccess, ProcessFailure, ProcessRaises, NextDone
<1>9. ASSUME NEW n \in Nodes, Complete(n) PROVE PassInv'
  BY <1>9 DEF Complete, Executing
<1>10. CASE UNCHANGED vars BY <1>10 DEF vars
<1> QED
  BY <1>1, <1>2, <1>3, <1>4, <1>5, <1>6, <1>7, <1>8, <1>9, <1>10 DEF Next, RunStep, Fault-----------------------------------------------------------------------------
(* The theorems *)

\* The inductive invariant holds of every session restored from states in
\* which whatever started had its dependencies succeed.
THEOREM InductiveInvariant ==
    ASSUME \A s \in InitialStates : Closed(s)
    PROVE Spec => []InductiveInv
<1>1. Init => InductiveInv
  <2> SUFFICES ASSUME Init PROVE Consistent /\ Downstream /\ QueueInv /\ PassInv
    BY TypeCorrectInit DEF InductiveInv
  <2>1. states \in [Nodes -> NodeState \ {"running"}]
    BY RestoredAssumption DEF Init
  <2>2. Consistent
    BY <2>1 DEF Init, Consistent
  <2>3. Downstream
    BY DEF Init, Downstream, Closed
  <2>4. QueueInv
    BY DEF Init, QueueInv, Queued, Dispatched
  <2>5. PassInv
    BY DEF Init, PassInv
  <2> QED BY <2>2, <2>3, <2>4, <2>5
<1>2. InductiveInv /\ [Next]_vars => InductiveInv'
  BY TypeStep, ConsistentStep, DownstreamStep, QueueStep, PassStep DEF InductiveInv
<1> QED BY <1>1, <1>2, PTL DEF Spec

\* No agent runs before everything upstream of it has succeeded, and the
\* succeeded nodes upstream never change again.
THEOREM DependencySafety ==
    ASSUME \A s \in InitialStates : Closed(s)
    PROVE Spec => []AncestorsSucceeded
<1>1. InductiveInv => AncestorsSucceeded
  BY DEF InductiveInv, Downstream, AncestorsSucceeded, Dispatched
<1> QED BY <1>1, InductiveInvariant, PTL

\* Overlapping writers never run together: the earlier one has been retired
\* by the time the later one can start.
THEOREM WriteSerialisation ==
    ASSUME \A s \in InitialStates : Closed(s)
    PROVE Spec => []OverlappingWritersAreSerialised
<1>1. InductiveInv => OverlappingWritersAreSerialised
  <2> SUFFICES ASSUME InductiveInv, NEW m \in Running, NEW n \in Running, m # n,
                      <<m, n>> \in Overlaps
               PROVE FALSE
    BY DEF OverlappingWritersAreSerialised
  <2>1. m \in Ancestors[n] \/ n \in Ancestors[m]
    BY ClaimsAssumption
  <2>2. \A k \in Running : k \in Nodes /\ states[k] # "succeeded" /\ providers[k] # NoProvider
    BY DEF InductiveInv, Consistent, Running
  <2> QED BY <2>1, <2>2 DEF InductiveInv, Downstream
<1> QED BY <1>1, InductiveInvariant, PTL

\* The merge queue is exactly the successful editing nodes, in dependency order.
THEOREM MergeQueueCorrect ==
    ASSUME \A s \in InitialStates : Closed(s)
    PROVE Spec => []MergeQueueIsSound
<1>1. InductiveInv => MergeQueueIsSound
  BY DEF InductiveInv, QueueInv, MergeQueueIsSound, MergeQueueIsExact, MergeQueueFollowsDependencies
<1> QED BY <1>1, InductiveInvariant, PTL

\* The number of agents never exceeds the limit, for any restored states.
THEOREM BoundedConcurrency == Spec => []ConcurrencyBound
<1> USE DEF ConcurrencyBound
<1>0. \A S \in SUBSET Nodes : IsFiniteSet(S) /\ Cardinality(S) \in Nat
  BY NodesAssumption, FS_Subset, FS_CardinalityType
<1>1. Init => ConcurrencyBound
  <2>1. Init => Running = {}
    BY DEF Init, Running
  <2> QED BY <2>1, FS_EmptySet, NodesAssumption
<1>2. TypeOK /\ ConcurrencyBound /\ [Next]_vars => ConcurrencyBound'
  <2> SUFFICES ASSUME TypeOK, ConcurrencyBound, [Next]_vars PROVE ConcurrencyBound'
    OBVIOUS
  <2>0. Running \subseteq Nodes /\ IsFiniteSet(Running) /\ Cardinality(Running) \in Nat
    BY <1>0 DEF Running
  <2>1. CASE Dispatch
    <3>1. Order[cursor] \in Nodes /\ Cardinality(Running) < Concurrency
      BY <2>1, OrderType DEF Dispatch, StartNode, Ready, Considering
    <3>2. Running' = Running \cup {Order[cursor]}
      BY <2>1, <3>1 DEF Dispatch, StartNode, Running, TypeOK
    <3>3. Cardinality(Running \cup {Order[cursor]}) <= Cardinality(Running) + 1
      BY <2>0, FS_AddElement
    <3>4. Cardinality(Running \cup {Order[cursor]}) \in Nat
      BY <2>0, FS_AddElement, FS_CardinalityType
    <3> QED BY <2>0, <3>1, <3>2, <3>3, <3>4, NodesAssumption
  <2>2. ASSUME NEW n \in Nodes, ProcessSuccess(n) \/ ProcessFailure(n) \/ ProcessRaises(n)
        PROVE ConcurrencyBound'
    <3>1. Running' = Running \ {n}
      BY <2>2 DEF ProcessSuccess, ProcessFailure, ProcessRaises, Retire, Running, TypeOK
    <3>2. Running \ {n} \subseteq Running OBVIOUS
    <3>3. Cardinality(Running \ {n}) \in Nat /\ Cardinality(Running \ {n}) <= Cardinality(Running)
      BY <2>0, <3>2, FS_Subset, FS_CardinalityType
    <3> QED BY <2>0, <3>1, <3>3, NodesAssumption
  <2>3. ASSUME NEW n \in Nodes, Complete(n) PROVE ConcurrencyBound'
    <3>1. Running' = Running
      BY <2>3 DEF Complete, Running, TypeOK
    <3> QED BY <3>1
  <2>4. CASE UNCHANGED tasks BY <2>4 DEF Running
  <2>5. Control \/ Run \/ PassGate \/ HonourCancel \/ SkipSettled \/ StopPass \/ Block
          \/ AwaitDependencies \/ EndPass \/ EndYield \/ CollectDone \/ EndProcess
          \/ DispatchRaises \/ UNCHANGED vars
        => UNCHANGED tasks
    BY DEF Control, Approve, Pause, Resume, Cancel, Step, AddBreakpoint, RemoveBreakpoint,
           Run, PassGate, HonourCancel, SkipSettled, StopPass, Block, AwaitDependencies,
           EndPass, EndYield, CollectDone, EndProcess, DispatchRaises, runVars, vars
  <2> QED BY <2>1, <2>2, <2>3, <2>4, <2>5 DEF Next, RunStep, Fault
<1> QED BY <1>1, <1>2, TypeCorrect, PTL DEF Spec

\* Agents at work respect the limit and each other's write claims.
THEOREM SafeWorkers ==
    ASSUME \A s \in InitialStates : Closed(s)
    PROVE Spec => []WorkersAreSafe
  BY WriteSerialisation, BoundedConcurrency, PTL DEF WorkersAreSafe

\* run() only spins the event loop when the session is paused.
THEOREM IdleOnlyWhenPaused ==
    ASSUME \A s \in InitialStates : Closed(s)
    PROVE Spec => NeverSpins
<1>1. InductiveInv /\ [Next]_vars => [pc # "yield" /\ pc' = "yield" => paused']_vars
  <2> SUFFICES ASSUME InductiveInv, Next, pc # "yield", pc' = "yield" PROVE paused'
    BY DEF vars
  <2>1. CASE StopPass BY <2>1 DEF StopPass
  <2>2. CASE EndPass
    <3>1. Running = {} /\ pc = "dispatch"
      BY <2>2 DEF EndPass, AfterPass
    <3>2. cursor \notin DOMAIN Order
      BY <2>2, <3>1, FS_EmptySet, NodesAssumption DEF EndPass
    <3>3. \A i \in DOMAIN Order : i \in 1..(cursor - 1)
      BY <3>2, OrderAssumption DEF InductiveInv, TypeOK
    <3>4. \A n \in Nodes : states[n] # "pending"
      BY <3>1, <3>3, OrderAssumption DEF InductiveInv, PassInv
    <3>5. \A n \in Nodes : states[n] # "running"
      BY <3>1 DEF InductiveInv, Consistent, Running
    <3>6. AfterPass(Running) = "done"
      BY <3>1, <3>4, <3>5 DEF AfterPass, Open
    <3> QED BY <2>2, <3>6 DEF EndPass
  <2>3. CASE ~StopPass /\ ~EndPass
    BY <2>3 DEF Next, Control, RunStep, Fault, Approve, Pause, Resume, Cancel, Step, AddBreakpoint,
       RemoveBreakpoint, SetEvent, Run, PassGate, HonourCancel, SkipSettled, Block,
       AwaitDependencies, Dispatch, StartNode, DispatchRaises, EndYield, CollectDone, ProcessSuccess,
       ProcessFailure, ProcessRaises, EndProcess, Complete, AtGate, runVars
  <2> QED BY <2>1, <2>2, <2>3
<1> QED BY <1>1, InductiveInvariant, PTL DEF Spec, NeverSpins

\* What run() returns is final: no node is left pending or running.
THEOREM SettledReturn == Spec => []ReturnsSettled
<1>1. Init => ReturnsSettled
  BY DEF Init, ReturnsSettled
<1>2. TypeOK /\ ReturnsSettled /\ [Next]_vars => ReturnsSettled'
  <2> SUFFICES ASSUME TypeOK, ReturnsSettled, [Next]_vars, pc' = "done",
                      NEW n \in Nodes
               PROVE states'[n] \notin Open
    BY DEF ReturnsSettled
  <2>1. CASE HonourCancel BY <2>1 DEF HonourCancel, Open
  <2>2. CASE StopPass \/ EndPass BY <2>2 DEF StopPass, EndPass, AfterPass, resultVars
  <2>3. CASE pc = "done" /\ UNCHANGED states BY <2>3 DEF ReturnsSettled
  <2>4. CASE ~HonourCancel /\ ~StopPass /\ ~EndPass
    <3>1. pc = "done" /\ UNCHANGED states
      BY <2>4 DEF Next, Control, RunStep, Fault, Approve, Pause, Resume, Cancel, Step,
         AddBreakpoint, RemoveBreakpoint, SetEvent, Run, PassGate, SkipSettled, Block,
         AwaitDependencies, Considering, Ready, Dispatch, StartNode, DispatchRaises, EndYield, CollectDone,
         ProcessSuccess, ProcessFailure, ProcessRaises, NextDone, EndProcess, Complete, AtGate,
         resultVars, runVars, vars
    <3> QED BY <3>1, <2>3
  <2> QED BY <2>1, <2>2, <2>4
<1> QED BY <1>1, <1>2, TypeCorrect, PTL DEF Spec

\* After cancel() no agent is started.
THEOREM CancelIsObeyed ==
    ASSUME \A s \in InitialStates : Closed(s)
    PROVE Spec => CancelStopsDispatch
<1>1. InductiveInv /\ [Next]_vars => [cancelled => providers' = providers]_vars
  <2>1. Dispatch /\ InductiveInv => ~cancelled
    BY DEF Dispatch, StartNode, Ready, Considering, InductiveInv, PassInv
  <2>2. Next /\ ~Dispatch => providers' = providers
    BY DEF Next, Control, RunStep, Fault, Approve, Pause, Resume, Cancel, Step, AddBreakpoint,
       RemoveBreakpoint, Run, PassGate, HonourCancel, SkipSettled, StopPass, Block,
       AwaitDependencies, DispatchRaises, EndPass, EndYield, CollectDone, ProcessSuccess,
       ProcessFailure, ProcessRaises, EndProcess, Complete, resultVars
  <2> QED BY <2>1, <2>2
<1> QED BY <1>1, InductiveInvariant, PTL DEF Spec, CancelStopsDispatch

\* Every behaviour of the scheduler is a behaviour of DependencyExecution.
THEOREM Implementation ==
    ASSUME \A s \in InitialStates : Closed(s)
    PROVE Spec => ImplementsDependencyExecution
<1> USE DEF Abstract!Open, Abstract!Bad
<1>1. Init => Abstract!Init
  BY DEF Init, Abstract!Init
<1>2. InductiveInv /\ [Next]_vars => [Abstract!Next]_(Abstract!vars)
  <2> SUFFICES ASSUME InductiveInv, [Next]_vars PROVE [Abstract!Next]_(Abstract!vars)
    OBVIOUS
  <2>1. CASE Dispatch
    <3>1. Order[cursor] \in Nodes /\ pc = "dispatch"
      BY <2>1, OrderType DEF Dispatch, StartNode, Ready, Considering
    <3>2. {m \in Nodes : states[m] = "running"} = Running
      BY <3>1 DEF InductiveInv, Consistent, Running
    <3>3. Cardinality({m \in Nodes : states[m] = "running"}) < Concurrency
      BY <2>1, <3>2 DEF Dispatch, StartNode, Ready, Considering
    <3>4. /\ states[Order[cursor]] = "pending"
          /\ \A d \in Deps[Order[cursor]] : states[d] = "succeeded"
          /\ states' = [states EXCEPT ![Order[cursor]] = "running"]
          /\ mergeQueue' = mergeQueue
      BY <2>1 DEF Dispatch, StartNode, Ready, Considering
    <3>5. \A S : Abstract!Cardinality(S) = Cardinality(S)
      BY DEF Cardinality, Abstract!Cardinality
    <3>6. Abstract!Start(Order[cursor])
      BY <3>3, <3>4, <3>5, Zenon DEF Abstract!Start
    <3> QED BY <3>1, <3>6 DEF Abstract!Next
  <2>2. CASE Block
    <3>1. Order[cursor] \in Nodes
      BY <2>2, OrderType DEF Block, Considering
    <3>2. Abstract!Block(Order[cursor])
      BY <2>2 DEF Block, Considering, Bad, Abstract!Block
    <3> QED BY <3>1, <3>2 DEF Abstract!Next
  <2>3. CASE HonourCancel
    <3>1. Abstract!Cancel
      BY <2>3 DEF HonourCancel, Open, Abstract!Cancel
    <3> QED BY <3>1 DEF Abstract!Next
  <2>4. ASSUME NEW n \in Nodes, ProcessSuccess(n) \/ ProcessFailure(n) \/ ProcessRaises(n)
        PROVE Abstract!Next
    <3>1. states[n] = "running"
      BY <2>4 DEF ProcessSuccess, ProcessFailure, ProcessRaises, NextDone, InductiveInv, Consistent
    <3>2. Abstract!Succeed(n) \/ Abstract!Fail(n)
      BY <2>4, <3>1 DEF ProcessSuccess, ProcessFailure, ProcessRaises,
                        Abstract!Succeed, Abstract!Fail
    <3> QED BY <3>2 DEF Abstract!Next
  <2>5. CASE UNCHANGED <<states, mergeQueue>> BY <2>5 DEF Abstract!vars
  <2>6. Control \/ Run \/ PassGate \/ SkipSettled \/ StopPass \/ AwaitDependencies \/ EndPass
          \/ EndYield \/ CollectDone \/ EndProcess \/ DispatchRaises
          \/ (\E n \in Nodes : Complete(n)) \/ UNCHANGED vars
        => UNCHANGED <<states, mergeQueue>>
    BY DEF Control, Approve, Pause, Resume, Cancel, Step, AddBreakpoint, RemoveBreakpoint,
           Run, PassGate, SkipSettled, StopPass, AwaitDependencies, EndPass, EndYield,
           CollectDone, EndProcess, DispatchRaises, Complete, resultVars, vars
  <2> QED BY <2>1, <2>2, <2>3, <2>4, <2>5, <2>6 DEF Next, RunStep, Fault
<1> QED BY <1>1, <1>2, InductiveInvariant, PTL DEF Spec, ImplementsDependencyExecution, Abstract!Spec
-----------------------------------------------------------------------------
(* Operators *)

LEMMA OperatorsUseTheSession == OperatorSpec => Spec
<1>1. OperatorInit => Init
  BY DEF OperatorInit
<1>2. [OperatorNext]_<<vars, operator, granted>> => [Next]_vars
  BY DEF OperatorNext, GrantStep, UseGrant, OtherStep, Next, Control, RunStep
<1> QED BY <1>1, <1>2, PTL DEF OperatorSpec, Spec

\* A budget that is left was granted since the last dispatch.
GrantInv == budget = 1 => granted

LEMMA GrantIsKept ==
    ASSUME TypeOK, GrantInv, [OperatorNext]_<<vars, operator, granted>>
    PROVE  /\ GrantInv'
           /\ budget # Unlimited /\ dispatchIndex' > dispatchIndex => granted
<1>1. budget \in {-1, 0, 1} /\ dispatchIndex \in Nat
  BY DEF TypeOK, Unlimited
<1>2. CASE GrantStep BY <1>1, <1>2 DEF GrantStep, Step, GrantInv
<1>3. CASE UseGrant
  <2>1. budget # 0 /\ budget' = IF budget = -1 THEN -1 ELSE budget - 1
    BY <1>3 DEF UseGrant, Dispatch, Ready, Stopped, Unlimited
  <2>2. budget = -1 \/ granted
    BY <1>1, <2>1 DEF GrantInv
  <2>3. budget' # 1
    BY <1>1, <2>1
  <2> QED BY <2>2, <2>3 DEF GrantInv, Unlimited
<1>4. CASE OtherStep
  <2>1. budget' = budget /\ granted' = granted
    <3>1. granted' = granted
      BY <1>4 DEF OtherStep
    <3>2. CASE Fault BY <3>1, <3>2 DEF Fault, DispatchRaises, ProcessRaises, sessionVars
    <3>3. CASE RunStep /\ dispatchIndex' = dispatchIndex
      <4>1. ~Dispatch
        BY <1>1, <3>3 DEF Dispatch, StartNode
      <4> QED BY <3>1, <3>3, <4>1 DEF RunStep, Run, PassGate, HonourCancel, SkipSettled, StopPass, Block,
           AwaitDependencies, EndPass, EndYield, CollectDone, EndProcess, ProcessSuccess, ProcessFailure, sessionVars
    <3>4. CASE ~Fault /\ ~(RunStep /\ dispatchIndex' = dispatchIndex)
      BY <1>4, <3>1, <3>4 DEF OtherStep, Approve, Pause, Resume, Cancel, AddBreakpoint, RemoveBreakpoint, Complete,
         sessionVars
    <3> QED BY <1>4, <3>2, <3>3, <3>4 DEF OtherStep
  <2>2. budget = 0 => ~DispatchRaises
    BY DEF DispatchRaises, Ready, Stopped
  <2>3. dispatchIndex' # dispatchIndex => DispatchRaises
    BY <1>4 DEF OtherStep, Fault, ProcessRaises, Approve, Pause, Resume, Cancel, AddBreakpoint, RemoveBreakpoint,
       Complete, runVars
  <2> QED BY <1>1, <2>1, <2>2, <2>3 DEF GrantInv, Unlimited
<1>5. CASE UNCHANGED <<vars, operator, granted>> BY <1>1, <1>5 DEF vars, GrantInv
<1> QED BY <1>2, <1>3, <1>4, <1>5 DEF OperatorNext

\* Whatever controls are used and whenever they come, each dispatch under a
\* budget has a step() of its own, and none follows a cancel() (orchestration.py:87, :65).
THEOREM DispatchesControlled ==
    ASSUME \A s \in InitialStates : Closed(s)
    PROVE OperatorSpec => DispatchesAreControlled
<1>1. OperatorInit => GrantInv
  BY DEF OperatorInit, Init, GrantInv, Unlimited
<1>2. TypeOK /\ GrantInv /\ [OperatorNext]_<<vars, operator, granted>> =>
          /\ GrantInv'
          /\ [budget # Unlimited /\ dispatchIndex' > dispatchIndex => granted]_<<vars, operator, granted>>
  BY GrantIsKept
<1>3. OperatorSpec => CancelStopsDispatch
  BY OperatorsUseTheSession, CancelIsObeyed
<1> QED BY <1>1, <1>2, <1>3, OperatorsUseTheSession, TypeCorrect, PTL
     DEF OperatorSpec, DispatchesAreControlled, EachDispatchWasStepped
-----------------------------------------------------------------------------
(* Functions of numbers *)

\* A set of numbers that is not empty has a least one.
LEMMA LeastNumber ==
    ASSUME NEW T \in SUBSET Nat, T # {}
    PROVE  \E n \in T : \A m \in T : n <= m
<1> DEFINE R == OpToRel(<, Nat)
<1>1. IsWellFoundedOn(R, Nat)
  BY NatLessThanWellFounded
<1>2. \A m, n \in Nat : m < n => <<m, n>> \in R
  BY DEF OpToRel
<1>3. \E n \in T : \A m \in T : ~(<<m, n>> \in R)
  <2> HIDE DEF R
  <2> QED BY <1>1, WFMin, Zenon
<1>4. PICK n \in T : \A m \in T : ~(<<m, n>> \in R)
  BY <1>3
<1>5. ASSUME NEW m \in T, ~(n <= m) PROVE FALSE
  <2> HIDE DEF R
  <2>1. m \in Nat /\ n \in Nat /\ m < n
    BY <1>5
  <2> QED BY <1>2, <1>4, <2>1, Zenon
<1> QED BY <1>5

\* Induction, for a set of numbers.
LEMMA NumbersInduction ==
    ASSUME NEW T \in SUBSET Nat, 0 \in T, \A n \in T : n + 1 \in T
    PROVE  T = Nat
<1>1. SUFFICES ASSUME Nat \ T # {} PROVE FALSE
  OBVIOUS
<1>2. PICK n \in Nat \ T : \A m \in Nat \ T : n <= m
  BY <1>1, LeastNumber
<1>3. n - 1 \in Nat /\ n - 1 \in T
  BY <1>2
<1> QED BY <1>2, <1>3

\* f begins with zero and each of its values follows from the one before.
Follows(f, S, zero, next) == f \in [Nat -> S] /\ f[0] = zero /\ \A k \in Nat : f[k + 1] = next[k][f[k]]

\* A function whose values follow from one another exists.
LEMMA Recursion ==
    ASSUME NEW S, NEW zero \in S, NEW next \in [Nat -> [S -> S]]
    PROVE  \E f : Follows(f, S, zero, next)
<1> DEFINE Solves(g, n) == g \in [0..n -> S] /\ g[0] = zero /\ \A k \in 0..n - 1 : g[k + 1] = next[k][g[k]]
           Solvable == {n \in Nat : \E g \in [0..n -> S] : Solves(g, n)}
<1>1. 0 \in Solvable
  <2>1. Solves([k \in 0..0 |-> zero], 0) OBVIOUS
  <2> QED BY <2>1
<1>2. ASSUME NEW n \in Solvable PROVE n + 1 \in Solvable
  <2>1. PICK g \in [0..n -> S] : Solves(g, n)
    OBVIOUS
  <2>0. n \in Nat /\ g \in [0..n -> S] /\ g[0] = zero /\ \A k \in 0..n - 1 : g[k + 1] = next[k][g[k]]
    BY <2>1
  <2> DEFINE h == [k \in 0..n + 1 |-> IF k <= n THEN g[k] ELSE next[n][g[n]]]
  <2>2. h \in [0..n + 1 -> S]
    BY <2>0
  <2>3. ASSUME NEW k \in 0..n PROVE h[k + 1] = next[k][h[k]]
    <3>1. CASE k = n BY <2>0, <3>1
    <3>2. CASE k < n
      <4>1. k \in 0..n - 1 /\ k + 1 <= n /\ k + 1 \in 0..n + 1 /\ k \in 0..n + 1
        BY <2>0, <3>2
      <4> QED BY <2>0, <4>1
    <3> QED BY <2>0, <3>1, <3>2
  <2>4. h[0] = zero /\ (n + 1) - 1 = n
    BY <2>0
  <2>5. Solves(h, n + 1)
    <3> HIDE DEF h
    <3> QED BY <2>2, <2>3, <2>4
  <2> HIDE DEF Solves
  <2> QED BY <2>0, <2>2, <2>5
<1>3. Solvable = Nat
  <2> HIDE DEF Solvable
  <2> QED BY <1>1, <1>2, NumbersInduction, Solvable \subseteq Nat DEF Solvable
<1>4. ASSUME NEW m \in Nat, NEW n \in Nat, m <= n, NEW g, NEW h, Solves(g, m), Solves(h, n)
      PROVE  \A k \in 0..m : g[k] = h[k]
  <2> DEFINE Same == {k \in Nat : k <= m => g[k] = h[k]}
  <2>1. 0 \in Same
    BY <1>4
  <2>2. ASSUME NEW k \in Same PROVE k + 1 \in Same
    <3>1. k \in Nat /\ (k <= m => g[k] = h[k]) OBVIOUS
    <3>2. CASE k + 1 <= m
      <4>1. k \in 0..m - 1 /\ k \in 0..n - 1
        BY <1>4, <3>1, <3>2
      <4>2. g[k + 1] = next[k][g[k]] /\ h[k + 1] = next[k][h[k]]
        BY <1>4, <4>1
      <4> QED BY <3>1, <3>2, <4>2
    <3> QED BY <3>1, <3>2
  <2>3. Same = Nat
    <3> HIDE DEF Same
    <3> QED BY <2>1, <2>2, NumbersInduction, Same \subseteq Nat DEF Same
  <2> QED BY <2>3
<1> DEFINE the == [n \in Nat |-> CHOOSE g \in [0..n -> S] : Solves(g, n)]
           f == [n \in Nat |-> the[n][n]]
<1>5. \A n \in Nat : Solves(the[n], n)
  <2> HIDE DEF Solves
  <2> QED BY <1>3
<1>6. f \in [Nat -> S] /\ f[0] = zero
  <2>1. \A n \in Nat : the[n] \in [0..n -> S] /\ the[n][0] = zero
    <3> HIDE DEF the
    <3> QED BY <1>5
  <2> HIDE DEF the
  <2> QED BY <2>1
<1>7. ASSUME NEW k \in Nat PROVE f[k + 1] = next[k][f[k]]
  <2>1. the[k][k] = the[k + 1][k]
    <3> HIDE DEF the, Solves
    <3>1. k \in Nat /\ k + 1 \in Nat /\ k <= k + 1 /\ k \in 0..k OBVIOUS
    <3>2. Solves(the[k], k) /\ Solves(the[k + 1], k + 1)
      BY <1>5, <3>1
    <3> QED BY <1>4, <3>1, <3>2
  <2>2. Solves(the[k + 1], k + 1)
    <3> HIDE DEF the, Solves
    <3> QED BY <1>5
  <2>3. the[k + 1][k + 1] = next[k][the[k + 1][k]]
    <3> HIDE DEF the
    <3> QED BY <2>2
  <2> HIDE DEF the
  <2> QED BY <2>1, <2>3
<1>8. Follows(f, S, zero, next)
  BY <1>6, <1>7 DEF Follows
<1> QED BY <1>8
-----------------------------------------------------------------------------
(* Task graphs *)

\* The rounds of the construction of a graph, one from another.
LEMMA PendingRounds ==
    ASSUME NEW deps
    PROVE  /\ Pending(deps) \in [Nat -> SUBSET DOMAIN deps]
           /\ Pending(deps)[0] = DOMAIN deps
           /\ \A k \in Nat : Pending(deps)[k + 1] = {n \in Pending(deps)[k] : deps[n] \cap Pending(deps)[k] # {}}
<1> DEFINE S == SUBSET DOMAIN deps
           Round(F) == [k \in Nat |-> IF k = 0 THEN DOMAIN deps ELSE {n \in F[k - 1] : deps[n] \cap F[k - 1] # {}}]
           next == [k \in Nat |-> [left \in S |-> {n \in left : deps[n] \cap left # {}}]]
<1>0. PICK f : Follows(f, S, DOMAIN deps, next)
  <2>1. next \in [Nat -> [S -> S]] /\ DOMAIN deps \in S OBVIOUS
  <2> HIDE DEF next, S
  <2> QED BY <2>1, Recursion
<1>1. f \in [Nat -> S] /\ f[0] = DOMAIN deps /\ \A k \in Nat : f[k + 1] = next[k][f[k]]
  BY <1>0 DEF Follows
<1>2. \A k \in Nat : f[k + 1] = {n \in f[k] : deps[n] \cap f[k] # {}}
  <2>1. \A k \in Nat : f[k] \in S
    <3> HIDE DEF next
    <3> QED BY <1>1
  <2> HIDE DEF S
  <2> QED BY <1>1, <2>1
<1>3. f = Round(f)
  <2>1. \A k \in Nat : f[k] = Round(f)[k]
    <3> TAKE k \in Nat
    <3>1. CASE k = 0 BY <1>1, <3>1
    <3>2. CASE k # 0
      <4>1. k - 1 \in Nat /\ (k - 1) + 1 = k
        BY <3>2
      <4> QED BY <1>2, <3>2, <4>1
    <3> QED BY <3>1, <3>2
  <2> QED BY <1>1, <2>1
<1>4. Pending(deps) = Round(Pending(deps))
  BY <1>3 DEF Pending
<1>5. Pending(deps)[0] = DOMAIN deps
  BY <1>4
<1>6. ASSUME NEW k \in Nat
      PROVE  Pending(deps)[k + 1] = {n \in Pending(deps)[k] : deps[n] \cap Pending(deps)[k] # {}}
  <2>1. k + 1 \in Nat /\ k + 1 # 0 /\ (k + 1) - 1 = k OBVIOUS
  <2> QED BY <1>4, <2>1
<1>7. Pending(deps) \in [Nat -> SUBSET DOMAIN deps]
  <2> DEFINE T == {k \in Nat : Pending(deps)[k] \subseteq DOMAIN deps}
  <2>1. 0 \in T /\ \A k \in T : k + 1 \in T
    BY <1>5, <1>6
  <2>2. T = Nat
    <3> HIDE DEF T
    <3> QED BY <2>1, NumbersInduction, T \subseteq Nat DEF T
  <2>3. DOMAIN Pending(deps) = Nat /\ Pending(deps) = [k \in Nat |-> Pending(deps)[k]]
    BY <1>4
  <2> QED BY <2>2, <2>3
<1> QED BY <1>5, <1>6, <1>7

\* Sets that only shrink stop shrinking after as many rounds as the first has
\* elements.
LEMMA ShrinkingSetsStop ==
    ASSUME NEW D, IsFiniteSet(D), NEW f \in [Nat -> SUBSET D],
           \A k \in Nat : f[k + 1] \subseteq f[k],
           \A k \in Nat : f[k + 1] = f[k] => f[k + 2] = f[k + 1]
    PROVE  f[Cardinality(D) + 1] = f[Cardinality(D)]
<1> DEFINE T == {k \in Nat : f[k + 1] = f[k] \/ Cardinality(f[k]) + k <= Cardinality(D)}
<1>1. /\ Cardinality(D) \in Nat
      /\ \A k \in Nat : f[k] \in SUBSET D /\ IsFiniteSet(f[k]) /\ Cardinality(f[k]) \in Nat
                         /\ Cardinality(f[k]) <= Cardinality(D)
  <2>1. Cardinality(D) \in Nat
    BY FS_CardinalityType
  <2>2. ASSUME NEW k \in Nat
        PROVE  f[k] \in SUBSET D /\ IsFiniteSet(f[k]) /\ Cardinality(f[k]) \in Nat /\ Cardinality(f[k]) <= Cardinality(D)
    BY FS_Subset, FS_CardinalityType
  <2> QED BY <2>1, <2>2
<1>2. 0 \in T
  BY <1>1
<1>3. ASSUME NEW k \in T PROVE k + 1 \in T
  <2>1. k \in Nat /\ k + 1 \in Nat /\ (k + 1) + 1 = k + 2 OBVIOUS
  <2>2. CASE f[k + 1] = f[k] BY <2>1, <2>2
  <2>3. CASE f[k + 1] # f[k] /\ Cardinality(f[k]) + k <= Cardinality(D)
    <3>1. Cardinality(f[k + 1]) <= Cardinality(f[k]) /\ Cardinality(f[k + 1]) # Cardinality(f[k])
      BY <1>1, <2>1, <2>3, FS_Subset
    <3>3. Cardinality(f[k]) \in Nat /\ Cardinality(f[k + 1]) \in Nat /\ Cardinality(D) \in Nat
      BY <1>1, <2>1
    <3>2. Cardinality(f[k + 1]) + (k + 1) <= Cardinality(D)
      BY <2>1, <2>3, <3>1, <3>3
    <3> QED BY <2>1, <3>2
  <2> QED BY <2>2, <2>3
<1>4. T = Nat
  <2> HIDE DEF T
  <2> QED BY <1>2, <1>3, NumbersInduction, T \subseteq Nat DEF T
<1>5. CASE f[Cardinality(D) + 1] # f[Cardinality(D)]
  <2>1. Cardinality(f[Cardinality(D)]) = 0
    BY <1>1, <1>4, <1>5
  <2>2. f[Cardinality(D)] = {} /\ f[Cardinality(D) + 1] \subseteq f[Cardinality(D)]
    BY <1>1, <2>1, FS_EmptySet
  <2> QED BY <2>2
<1> QED BY <1>5

IsGraph(deps) == IsFiniteSet(DOMAIN deps) /\ \A n \in DOMAIN deps : deps[n] \subseteq DOMAIN deps
IsClosed(deps, S) == S \subseteq DOMAIN deps /\ \A x \in S : deps[x] \subseteq S

\* The rounds of the worklist of depends_on, one from another.
LEMMA AncestorRounds ==
    ASSUME NEW deps, IsGraph(deps), NEW n \in DOMAIN deps
    PROVE  \E seen \in [Nat -> SUBSET DOMAIN deps] :
               /\ seen[0] = deps[n]
               /\ \A k \in Nat : seen[k + 1] = seen[k] \cup UNION {deps[m] : m \in seen[k]}
               /\ AncestorsOf(deps, n) = seen[Cardinality(DOMAIN deps)]
<1> DEFINE S == SUBSET DOMAIN deps
           More(left) == left \cup UNION {deps[m] : m \in left}
           Round(F) == [k \in Nat |-> IF k = 0 THEN deps[n] ELSE More(F[k - 1])]
           next == [k \in Nat |-> [left \in S |-> More(left)]]
           seen == CHOOSE seen : seen = Round(seen)
<1>0. PICK f : Follows(f, S, deps[n], next)
  <2>1. next \in [Nat -> [S -> S]] /\ deps[n] \in S
    BY DEF IsGraph
  <2> HIDE DEF next, S
  <2> QED BY <2>1, Recursion
<1>1. f \in [Nat -> S] /\ f[0] = deps[n] /\ \A k \in Nat : f[k + 1] = next[k][f[k]]
  <2> HIDE DEF next
  <2> QED BY <1>0 DEF Follows
<1>2. \A k \in Nat : f[k + 1] = More(f[k])
  <2>1. \A k \in Nat : f[k] \in S
    <3> HIDE DEF next
    <3> QED BY <1>1
  <2> HIDE DEF S, More
  <2> QED BY <1>1, <2>1
<1>3. f = Round(f)
  <2> HIDE DEF More
  <2>1. \A k \in Nat : f[k] = Round(f)[k]
    <3> TAKE k \in Nat
    <3>1. CASE k = 0 BY <1>1, <3>1
    <3>2. CASE k # 0
      <4>1. k - 1 \in Nat /\ (k - 1) + 1 = k
        BY <3>2
      <4> QED BY <1>2, <3>2, <4>1
    <3> QED BY <3>1, <3>2
  <2> QED BY <1>1, <2>1
<1>4. seen = Round(seen)
  <2> HIDE DEF Round
  <2> QED BY <1>3
<1> HIDE DEF seen
<1>5. seen[0] = deps[n]
  BY <1>4
<1>6. ASSUME NEW k \in Nat PROVE seen[k + 1] = More(seen[k])
  <2> HIDE DEF More
  <2>1. k + 1 \in Nat /\ k + 1 # 0 /\ (k + 1) - 1 = k OBVIOUS
  <2> QED BY <1>4, <2>1
<1>7. seen \in [Nat -> SUBSET DOMAIN deps]
  <2> DEFINE T == {k \in Nat : seen[k] \subseteq DOMAIN deps}
  <2>1. 0 \in T
    BY <1>5 DEF IsGraph
  <2>2. ASSUME NEW k \in T PROVE k + 1 \in T
    <3>1. seen[k + 1] = More(seen[k])
      BY <1>6
    <3> QED BY <3>1 DEF IsGraph
  <2>3. T = Nat
    <3> HIDE DEF T
    <3> QED BY <2>1, <2>2, NumbersInduction, T \subseteq Nat DEF T
  <2>4. DOMAIN seen = Nat /\ seen = [k \in Nat |-> seen[k]]
    BY <1>4
  <2> QED BY <2>3, <2>4
<1>8. AncestorsOf(deps, n) = seen[Cardinality(DOMAIN deps)]
  BY DEF AncestorsOf, seen
<1> QED BY <1>5, <1>6, <1>7, <1>8

\* The worklist of depends_on ends with the least closed set.
LEMMA AncestorsAreLeast ==
    ASSUME NEW deps, IsGraph(deps), NEW n \in DOMAIN deps
    PROVE  /\ deps[n] \subseteq AncestorsOf(deps, n)
           /\ IsClosed(deps, AncestorsOf(deps, n))
           /\ \A S : IsClosed(deps, S) /\ deps[n] \subseteq S => AncestorsOf(deps, n) \subseteq S
           /\ \A m : m \in AncestorsOf(deps, n) <=> Reaches(deps, n, m)
<1> DEFINE D == DOMAIN deps
           size == Cardinality(D)
<1>1. PICK seen \in [Nat -> SUBSET D] :
               /\ seen[0] = deps[n]
               /\ \A k \in Nat : seen[k + 1] = seen[k] \cup UNION {deps[m] : m \in seen[k]}
               /\ AncestorsOf(deps, n) = seen[size]
  BY AncestorRounds
<1>2. size \in Nat /\ IsFiniteSet(D)
  BY FS_CardinalityType DEF IsGraph
<1>3. \A k \in Nat : deps[n] \subseteq seen[k]
  <2> DEFINE T == {k \in Nat : deps[n] \subseteq seen[k]}
  <2>1. 0 \in T /\ \A k \in T : k + 1 \in T
    BY <1>1
  <2>2. T = Nat
    <3> HIDE DEF T
    <3> QED BY <2>1, NumbersInduction, T \subseteq Nat DEF T
  <2> QED BY <2>2
<1>4. ASSUME NEW S, IsClosed(deps, S), deps[n] \subseteq S PROVE \A k \in Nat : seen[k] \subseteq S
  <2> DEFINE T == {k \in Nat : seen[k] \subseteq S}
  <2>1. 0 \in T
    BY <1>1, <1>4
  <2>2. ASSUME NEW k \in T PROVE k + 1 \in T
    <3>1. seen[k + 1] = seen[k] \cup UNION {deps[m] : m \in seen[k]}
      BY <1>1
    <3> QED BY <1>4, <3>1 DEF IsClosed
  <2>3. T = Nat
    <3> HIDE DEF T
    <3> QED BY <2>1, <2>2, NumbersInduction, T \subseteq Nat DEF T
  <2> QED BY <2>3
<1>5. seen[size + 1] = seen[size]
  <2> DEFINE rest == [k \in Nat |-> D \ seen[k]]
  <2>1. rest \in [Nat -> SUBSET D] OBVIOUS
  <2>2. ASSUME NEW k \in Nat PROVE rest[k + 1] \subseteq rest[k]
    BY <1>1
  <2>3. ASSUME NEW k \in Nat, rest[k + 1] = rest[k] PROVE rest[k + 2] = rest[k + 1]
    <3>1. seen[k] \subseteq D /\ seen[k + 1] \subseteq D /\ k + 1 \in Nat /\ k + 2 = (k + 1) + 1
      OBVIOUS
    <3>2. seen[k + 1] = seen[k]
      BY <2>3, <3>1
    <3>3. seen[k + 2] = seen[k + 1]
      BY <1>1, <3>1, <3>2
    <3> QED BY <3>1, <3>3
  <2>4. rest[size + 1] = rest[size]
    <3> HIDE DEF rest, D
    <3> QED BY <1>2, <2>1, <2>2, <2>3, ShrinkingSetsStop
  <2>5. seen[size] \subseteq D /\ seen[size + 1] \subseteq D
    BY <1>2
  <2>6. D \ seen[size + 1] = D \ seen[size]
    <3> HIDE DEF D, size
    <3>1. size \in Nat /\ size + 1 \in Nat
      BY <1>2
    <3>2. rest[size] = D \ seen[size] /\ rest[size + 1] = D \ seen[size + 1]
      BY <3>1
    <3> QED BY <2>4, <3>2
  <2> QED BY <2>5, <2>6
<1>6. IsClosed(deps, AncestorsOf(deps, n))
  <2>1. seen[size] = seen[size] \cup UNION {deps[m] : m \in seen[size]}
    BY <1>1, <1>2, <1>5
  <2>2. seen[size] \subseteq D
    BY <1>2
  <2> QED BY <1>1, <2>1, <2>2 DEF IsClosed
<1>7. \A S : IsClosed(deps, S) /\ deps[n] \subseteq S => AncestorsOf(deps, n) \subseteq S
  BY <1>1, <1>2, <1>4
<1>8. deps[n] \subseteq AncestorsOf(deps, n)
  BY <1>1, <1>2, <1>3
<1>9. ASSUME NEW m PROVE m \in AncestorsOf(deps, n) <=> Reaches(deps, n, m)
  BY <1>6, <1>7, <1>8 DEF Reaches, IsClosed
<1> QED BY <1>6, <1>7, <1>8, <1>9

\* The rounds only take nodes away, and what a round has taken depends on
\* nothing that is left.
LEMMA PendingShrinks ==
    ASSUME NEW deps, IsGraph(deps)
    PROVE  /\ \A k \in Nat : Pending(deps)[k + 1] \subseteq Pending(deps)[k]
           /\ \A k \in Nat : IsClosed(deps, DOMAIN deps \ Pending(deps)[k])
           /\ Pending(deps)[Cardinality(DOMAIN deps) + 1] = Pending(deps)[Cardinality(DOMAIN deps)]
<1> DEFINE D == DOMAIN deps
           left == Pending(deps)
           size == Cardinality(D)
<1>1. /\ left \in [Nat -> SUBSET D]
      /\ left[0] = D
      /\ \A k \in Nat : left[k + 1] = {n \in left[k] : deps[n] \cap left[k] # {}}
  BY PendingRounds
<1> HIDE DEF left
<1>2. ASSUME NEW k \in Nat PROVE left[k + 1] \subseteq left[k]
  BY <1>1
<1>3. \A k \in Nat : IsClosed(deps, D \ left[k])
  <2> DEFINE T == {k \in Nat : IsClosed(deps, D \ left[k])}
  <2>1. 0 \in T
    BY <1>1 DEF IsClosed
  <2>2. ASSUME NEW k \in T PROVE k + 1 \in T
    <3>1. k \in Nat /\ IsClosed(deps, D \ left[k]) /\ left[k] \subseteq D
      BY <1>1
    <3>2. left[k + 1] = {n \in left[k] : deps[n] \cap left[k] # {}}
      BY <1>1
    <3>3. ASSUME NEW x \in D \ left[k + 1] PROVE deps[x] \subseteq D \ left[k + 1]
      <4>1. deps[x] \subseteq D
        BY DEF IsGraph
      <4>2. deps[x] \cap left[k] = {}
        <5>1. CASE x \in left[k] BY <3>2, <3>3, <5>1
        <5>2. CASE x \notin left[k] BY <3>1, <3>3, <5>2 DEF IsClosed
        <5> QED BY <5>1, <5>2
      <4> QED BY <3>2, <4>1, <4>2
    <3> QED BY <3>1, <3>3 DEF IsClosed
  <2>3. T = Nat
    <3> HIDE DEF T
    <3> QED BY <2>1, <2>2, NumbersInduction, T \subseteq Nat DEF T
  <2> QED BY <2>3
<1>4. left[size + 1] = left[size]
  <2>1. ASSUME NEW k \in Nat, left[k + 1] = left[k] PROVE left[k + 2] = left[k + 1]
    <3>1. k + 1 \in Nat /\ k + 2 = (k + 1) + 1 OBVIOUS
    <3>2. left[k + 2] = {n \in left[k + 1] : deps[n] \cap left[k + 1] # {}}
      BY <1>1, <3>1
    <3> QED BY <1>1, <2>1, <3>2
  <2>2. IsFiniteSet(D)
    BY DEF IsGraph
  <2> HIDE DEF D
  <2> QED BY <1>1, <1>2, <2>1, <2>2, ShrinkingSetsStop
<1> QED BY <1>2, <1>3, <1>4 DEF left

\* What a node's dependency reaches, the node reaches.
LEMMA AncestorsGrow ==
    ASSUME NEW deps, IsGraph(deps), NEW n \in DOMAIN deps, NEW d \in deps[n]
    PROVE  d \in DOMAIN deps /\ d \in AncestorsOf(deps, n) /\ AncestorsOf(deps, d) \subseteq AncestorsOf(deps, n)
<1>1. d \in DOMAIN deps
  BY DEF IsGraph
<1>2. d \in AncestorsOf(deps, n) /\ IsClosed(deps, AncestorsOf(deps, n))
  BY AncestorsAreLeast
<1>3. deps[d] \subseteq AncestorsOf(deps, n)
  BY <1>2 DEF IsClosed
<1> QED BY <1>1, <1>2, <1>3, AncestorsAreLeast

\* A node that some round takes does not reach itself.
LEMMA TakenNodesAreAcyclic ==
    ASSUME NEW deps, IsGraph(deps), NEW k \in Nat, NEW n \in DOMAIN deps \ Pending(deps)[k]
    PROVE  n \notin AncestorsOf(deps, n)
<1> DEFINE left == Pending(deps)
           Gone == {j \in Nat : n \notin left[j]}
<1>1. /\ left \in [Nat -> SUBSET DOMAIN deps]
      /\ left[0] = DOMAIN deps
      /\ \A j \in Nat : left[j + 1] = {x \in left[j] : deps[x] \cap left[j] # {}}
  BY PendingRounds
<1> HIDE DEF left
<1>2. PICK j \in Gone : \A i \in Gone : j <= i
  <2>1. Gone \subseteq Nat /\ k \in Gone
    BY DEF left
  <2> HIDE DEF Gone
  <2> QED BY <2>1, LeastNumber
<1>3. j \in Nat /\ j # 0 /\ n \notin left[j] /\ j - 1 \in Nat /\ n \in left[j - 1] /\ (j - 1) + 1 = j
  BY <1>1, <1>2
<1>4. deps[n] \cap left[j - 1] = {}
  BY <1>1, <1>3
<1>5. IsClosed(deps, DOMAIN deps \ left[j - 1])
  BY <1>3, PendingShrinks DEF left
<1>6. deps[n] \subseteq DOMAIN deps \ left[j - 1]
  BY <1>4 DEF IsGraph
<1>7. AncestorsOf(deps, n) \subseteq DOMAIN deps \ left[j - 1]
  BY <1>5, <1>6, AncestorsAreLeast
<1> QED BY <1>3, <1>7

\* The construction finds a cycle exactly when a node reaches itself.
LEMMA CyclesAreFound ==
    ASSUME NEW deps, IsGraph(deps)
    PROVE  IsCyclic(deps) <=> \E n \in DOMAIN deps : Reaches(deps, n, n)
<1> DEFINE D == DOMAIN deps
           size == Cardinality(D)
           L == Pending(deps)[size]
           A(n) == AncestorsOf(deps, n) \cap L
           T == {Cardinality(A(n)) : n \in L}
<1>1. size \in Nat /\ IsFiniteSet(D)
  BY FS_CardinalityType DEF IsGraph
<1>2. \A n \in D : n \in AncestorsOf(deps, n) <=> Reaches(deps, n, n)
  BY AncestorsAreLeast
<1>3. L \subseteq D /\ \A n \in L : deps[n] \cap L # {}
  <2>1. L \subseteq D /\ Pending(deps)[size + 1] = {n \in L : deps[n] \cap L # {}}
    BY <1>1, PendingRounds
  <2>2. Pending(deps)[size + 1] = L
    BY PendingShrinks
  <2> QED BY <2>1, <2>2
<1>4. IsCyclic(deps) <=> L # {}
  BY DEF IsCyclic
<1>5. ASSUME L = {}, NEW n \in D PROVE n \notin AncestorsOf(deps, n)
  BY <1>1, <1>5, TakenNodesAreAcyclic
<1>6. ASSUME L # {}, \A n \in L : n \notin AncestorsOf(deps, n) PROVE FALSE
  <2> HIDE DEF L
  <2>1. \A n \in L : IsFiniteSet(A(n)) /\ Cardinality(A(n)) \in Nat
    <3>1. IsFiniteSet(L)
      BY <1>1, <1>3, FS_Subset
    <3>2. \A n \in L : A(n) \subseteq L OBVIOUS
    <3> HIDE DEF A
    <3> QED BY <3>1, <3>2, FS_Subset, FS_CardinalityType
  <2>2. T \in SUBSET Nat /\ T # {}
    <3> HIDE DEF A
    <3> QED BY <1>6, <2>1
  <2>3. PICK t \in T : \A s \in T : t <= s
    <3> HIDE DEF T
    <3> QED BY <2>2, LeastNumber
  <2>4. PICK n \in L : t = Cardinality(A(n))
    BY <2>3
  <2>5. PICK d \in deps[n] : d \in L
    BY <1>3
  <2>6. A(d) \subseteq A(n) /\ d \in A(n) /\ d \notin A(d)
    BY <1>3, <1>6, <2>5, AncestorsGrow
  <2>7. Cardinality(A(d)) < Cardinality(A(n))
    <3>1. Cardinality(A(d)) <= Cardinality(A(n)) /\ Cardinality(A(d)) # Cardinality(A(n))
      BY <2>1, <2>6, FS_Subset
    <3>2. Cardinality(A(d)) \in Nat /\ Cardinality(A(n)) \in Nat
      BY <2>1, <2>5
    <3> HIDE DEF A
    <3> QED BY <3>1, <3>2
  <2>8. Cardinality(A(d)) \in T
    BY <2>5
  <2> HIDE DEF A
  <2> QED BY <2>1, <2>3, <2>4, <2>5, <2>7, <2>8
<1> QED BY <1>2, <1>3, <1>4, <1>5, <1>6

\* A graph is rejected as cyclic exactly when a node reaches itself.
LEMMA RejectedCycles ==
    ASSUME NEW deps, NEW writes, IsFiniteSet(DOMAIN deps)
    PROVE  CyclesAreRejected(deps, writes)
<1> SUFFICES ASSUME \A n \in DOMAIN deps : deps[n] \subseteq DOMAIN deps \ {n}
             PROVE  Validate(deps, writes) = "cycle" <=> \E n \in DOMAIN deps : Reaches(deps, n, n)
  BY DEF CyclesAreRejected
<1>1. IsGraph(deps)
  BY DEF IsGraph
<1>2. Validate(deps, writes) = "cycle" <=> IsCyclic(deps)
  BY DEF Validate
<1> QED BY <1>1, <1>2, CyclesAreFound

\* What the checks of a graph leave.
LEMMA ValidGraphs ==
    ASSUME NEW deps, NEW writes, Validate(deps, writes) = "valid"
    PROVE  /\ \A n \in DOMAIN deps : deps[n] \subseteq DOMAIN deps \ {n}
           /\ ~IsCyclic(deps)
           /\ ~UnorderedConflict(deps, writes)
  BY DEF Validate

\* What a node reaches is its dependencies and what they reach.
LEMMA AncestorsAreThoseOfDependencies ==
    ASSUME NEW deps, IsGraph(deps), NEW n \in DOMAIN deps
    PROVE  AncestorsOf(deps, n) = deps[n] \cup UNION {AncestorsOf(deps, d) : d \in deps[n]}
<1> DEFINE all == deps[n] \cup UNION {AncestorsOf(deps, d) : d \in deps[n]}
<1>1. all \subseteq AncestorsOf(deps, n)
  BY AncestorsGrow
<1>2. IsClosed(deps, all)
  <2>1. \A d \in deps[n] : IsClosed(deps, AncestorsOf(deps, d)) /\ deps[d] \subseteq AncestorsOf(deps, d) /\ d \in DOMAIN deps
    BY AncestorsAreLeast DEF IsGraph
  <2> QED BY <2>1 DEF IsClosed
<1>3. AncestorsOf(deps, n) \subseteq all
  <2> HIDE DEF all
  <2>1. deps[n] \subseteq all
    BY DEF all
  <2> QED BY <1>2, <2>1, AncestorsAreLeast
<1> QED BY <1>1, <1>3

\* depends_on finds exactly the nodes on a dependency path (task_graph.py:140).
LEMMA DependenciesAreExact ==
    ASSUME NEW deps, IsGraph(deps)
    PROVE  DependsOnIsReachability(deps)
<1>1. \A n \in DOMAIN deps : \A m \in DOMAIN deps : DependsOn(deps, n, m) <=> Reaches(deps, n, m)
  BY AncestorsAreLeast DEF DependsOn
<1> QED BY <1>1, AncestorsAreThoseOfDependencies DEF DependsOnIsReachability

\* Two nodes of an accepted graph whose claims overlap are ordered by a path
\* (task_graph.py:126).
LEMMA WritersAreOrdered ==
    ASSUME NEW deps, NEW Parts, NEW writes \in [DOMAIN deps -> SUBSET Seq(Parts)],
           IsFiniteSet(DOMAIN deps), Validate(deps, writes) = "valid"
    PROVE  ConflictingWritersAreOrdered(deps, writes)
<1>1. IsGraph(deps) /\ ~UnorderedConflict(deps, writes)
  BY ValidGraphs DEF IsGraph
<1> SUFFICES ASSUME NEW m \in DOMAIN deps, NEW n \in DOMAIN deps, NEW a \in writes[m], NEW b \in writes[n],
                    m # n, Covers(a, b)
             PROVE  Reaches(deps, m, n) \/ Reaches(deps, n, m)
  BY DEF ConflictingWritersAreOrdered
<1>2. IsPrefix(a, b)
  <2>1. a \in Seq(Parts) /\ b \in Seq(Parts) /\ Len(a) <= Len(b) /\ \A i \in 1..Len(a) : a[i] = b[i]
    BY DEF Covers
  <2> QED BY <2>1 DEF IsPrefix
<1>3. ClaimsOverlap(writes[m], writes[n])
  BY <1>2 DEF ClaimsOverlap, PathsOverlap
<1>4. DependsOn(deps, m, n) \/ DependsOn(deps, n, m)
  BY <1>1, <1>3 DEF UnorderedConflict
<1> QED BY <1>1, <1>4, AncestorsAreLeast DEF DependsOn

Ascends(s) == \A i, j \in DOMAIN s : i < j => s[i] < s[j]

\* Every finite set of numbers can be listed in ascending order.
LEMMA AscendingSequencesExist ==
    ASSUME NEW S \in SUBSET Nat, IsFiniteSet(S)
    PROVE  \E s \in [1..Cardinality(S) -> S] : Ascends(s)
<1> DEFINE Good(k) == \A R \in SUBSET Nat : IsFiniteSet(R) /\ Cardinality(R) = k => \E s \in [1..k -> R] : Ascends(s)
           T == {k \in Nat : Good(k)}
<1>1. 0 \in T
  <2>1. ASSUME NEW R \in SUBSET Nat PROVE \E s \in [1..0 -> R] : Ascends(s)
    <3>1. 1..0 = {} OBVIOUS
    <3>2. [i \in {} |-> 0] \in [{} -> R] /\ Ascends([i \in {} |-> 0])
      BY DEF Ascends
    <3> QED BY <3>1, <3>2
  <2> QED BY <2>1
<1>2. ASSUME NEW k \in T PROVE k + 1 \in T
  <2>1. k \in Nat /\ Good(k) OBVIOUS
  <2>2. ASSUME NEW R \in SUBSET Nat, IsFiniteSet(R), Cardinality(R) = k + 1
        PROVE  \E s \in [1..k + 1 -> R] : Ascends(s)
    <3>1. R # {}
      BY <2>1, <2>2, FS_EmptySet
    <3>2. PICK least \in R : \A m \in R : least <= m
      BY <3>1, LeastNumber
    <3>3. IsFiniteSet(R \ {least}) /\ Cardinality(R \ {least}) = k
      BY <2>1, <2>2, FS_RemoveElement
    <3>4. PICK s \in [1..k -> R \ {least}] : Ascends(s)
      BY <2>1, <3>3
    <3> DEFINE t == [i \in 1..k + 1 |-> IF i = 1 THEN least ELSE s[i - 1]]
    <3>5. \A i \in 2..k + 1 : i - 1 \in 1..k /\ t[i] = s[i - 1] /\ t[i] \in R \ {least}
      BY <2>1
    <3>6. t[1] = least
      BY <2>1
    <3>7. t \in [1..k + 1 -> R]
      BY <2>1
    <3>8. ASSUME NEW i \in 1..k + 1, NEW j \in 1..k + 1, i < j PROVE t[i] < t[j]
      <4> HIDE DEF t
      <4>1. j \in 2..k + 1 /\ (i = 1 \/ i \in 2..k + 1)
        BY <3>8
      <4>2. CASE i = 1
        <5>1. t[j] \in R /\ t[j] # least /\ least \in Nat /\ t[j] \in Nat /\ least <= t[j]
          BY <3>2, <3>5, <4>1
        <5> QED BY <3>6, <4>2, <5>1
      <4>3. CASE i \in 2..k + 1
        <5>1. i - 1 < j - 1 /\ i - 1 \in DOMAIN s /\ j - 1 \in DOMAIN s
          BY <3>5, <3>8, <4>1, <4>3
        <5> QED BY <3>4, <3>5, <4>1, <4>3, <5>1 DEF Ascends
      <4> QED BY <4>1, <4>2, <4>3
    <3>9. Ascends(t)
      BY <3>8 DEF Ascends
    <3> QED BY <3>7, <3>9
  <2> QED BY <2>1, <2>2
<1>3. T = Nat
  <2> HIDE DEF T
  <2> QED BY <1>1, <1>2, NumbersInduction, T \subseteq Nat DEF T
<1>4. Cardinality(S) \in Nat
  BY FS_CardinalityType
<1> QED BY <1>3, <1>4

\* A sorted set lists its elements, each once.
LEMMA SortedSets ==
    ASSUME NEW S \in SUBSET Nat, IsFiniteSet(S)
    PROVE  /\ Sorted(S) \in Seq(S)
           /\ Len(Sorted(S)) = Cardinality(S)
           /\ Ascends(Sorted(S))
           /\ \A x \in S : \E i \in 1..Len(Sorted(S)) : Sorted(S)[i] = x
<1> DEFINE size == Cardinality(S)
           s == Sorted(S)
<1>1. size \in Nat
  BY FS_CardinalityType
<1>2. s \in [1..size -> S] /\ Ascends(s)
  BY AscendingSequencesExist DEF Sorted, Ascends
<1> HIDE DEF s
<1>3. ASSUME NEW i \in 1..size, NEW j \in 1..size, s[i] = s[j] PROVE i = j
  <2>1. s[i] \in Nat /\ s[j] \in Nat /\ DOMAIN s = 1..size
    BY <1>2
  <2>2. ~(i < j) /\ ~(j < i)
    BY <1>2, <1>3, <2>1 DEF Ascends
  <2> QED BY <1>1, <2>2
<1>4. s \in Injection(1..size, S)
  BY <1>2, <1>3 DEF Injection, IsInjective
<1>5. Cardinality(1..size) = size
  BY <1>1, FS_Interval
<1>6. s \in Surjection(1..size, S)
  BY <1>4, <1>5, FS_Injection
<1>7. \A x \in S : \E i \in 1..size : s[i] = x
  BY <1>6 DEF Surjection
<1>8. s \in Seq(S) /\ Len(s) = size
  BY <1>1, <1>2
<1> QED BY <1>2, <1>7, <1>8 DEF s

\* Concatenation, for sequences over different sets.
LEMMA Concatenation ==
    ASSUME NEW R, NEW N, NEW W, R \subseteq W, N \subseteq W, NEW s \in Seq(R), NEW t \in Seq(N)
    PROVE  /\ s \o t \in Seq(W)
           /\ Len(s) \in Nat /\ Len(t) \in Nat /\ Len(s \o t) = Len(s) + Len(t)
           /\ DOMAIN (s \o t) = 1..Len(s) + Len(t)
           /\ \A i \in 1..Len(s) : (s \o t)[i] = s[i]
           /\ \A i \in 1..Len(t) : (s \o t)[Len(s) + i] = t[i]
<1>1. s \in Seq(W) /\ t \in Seq(W) OBVIOUS
<1>2. Len(s) \in Nat /\ Len(t) \in Nat
  BY <1>1
<1>3. /\ s \o t \in Seq(W)
      /\ Len(s \o t) = Len(s) + Len(t)
      /\ \A i \in 1..Len(s) + Len(t) : (s \o t)[i] = IF i <= Len(s) THEN s[i] ELSE t[i - Len(s)]
  BY <1>1, ConcatProperties
<1>4. DOMAIN (s \o t) = 1..Len(s) + Len(t)
  BY <1>2, <1>3
<1>5. \A i \in 1..Len(t) : Len(s) + i \in 1..Len(s) + Len(t) /\ ~(Len(s) + i <= Len(s)) /\ (Len(s) + i) - Len(s) = i
  BY <1>2
<1>6. \A i \in 1..Len(s) : i \in 1..Len(s) + Len(t)
  BY <1>2
<1> QED BY <1>2, <1>3, <1>4, <1>5, <1>6

\* n is still left in a round that begins without m.
Earlier(deps, m, n) == \E k \in Nat : m \notin Pending(deps)[k] /\ n \in Pending(deps)[k]

\* The two are taken in the same round.
Together(deps, m, n) == \A k \in Nat : m \in Pending(deps)[k] <=> n \in Pending(deps)[k]

\* What the rounds up to the k-th have appended.
LEMMA OrderedRounds ==
    ASSUME NEW deps, IsGraph(deps), DOMAIN deps \subseteq Nat
    PROVE  \E ordered \in [Nat -> Seq(DOMAIN deps)] :
               /\ ordered[0] = <<>>
               /\ \A k \in Nat : ordered[k + 1] = ordered[k] \o Sorted(Pending(deps)[k] \ Pending(deps)[k + 1])
               /\ TopologicalOrder(deps) = ordered[Cardinality(DOMAIN deps)]
<1> DEFINE D == DOMAIN deps
           left == Pending(deps)
           taken == [k \in Nat |-> Sorted(left[k] \ left[k + 1])]
           Round(F) == [k \in Nat |-> IF k = 0 THEN <<>> ELSE F[k - 1] \o Sorted(left[k - 1] \ left[k])]
           next == [k \in Nat |-> [s \in Seq(D) |-> s \o taken[k]]]
           ordered == CHOOSE ordered : ordered = Round(ordered)
<1>1. taken \in [Nat -> Seq(D)]
  <2>1. ASSUME NEW k \in Nat PROVE Sorted(left[k] \ left[k + 1]) \in Seq(D)
    <3> DEFINE R == left[k] \ left[k + 1]
    <3>1. R \subseteq D
      BY PendingRounds
    <3>2. IsFiniteSet(R) /\ R \in SUBSET Nat
      BY <3>1, FS_Subset DEF IsGraph
    <3>3. Sorted(R) \in Seq(R)
      BY <3>2, SortedSets
    <3> HIDE DEF R
    <3>4. Sorted(R) \in Seq(D)
      BY <3>1, <3>3
    <3> QED BY <3>4 DEF R
  <2> QED BY <2>1
<1>0. PICK f : Follows(f, Seq(D), <<>>, next)
  <2> HIDE DEF taken
  <2>1. next \in [Nat -> [Seq(D) -> Seq(D)]]
    BY <1>1
  <2>2. <<>> \in Seq(D) OBVIOUS
  <2> HIDE DEF next
  <2> QED BY <2>1, <2>2, Recursion
<1>2. f \in [Nat -> Seq(D)] /\ f[0] = <<>> /\ \A k \in Nat : f[k + 1] = next[k][f[k]]
  <2> HIDE DEF next
  <2> QED BY <1>0 DEF Follows
<1>3. \A k \in Nat : f[k + 1] = f[k] \o Sorted(left[k] \ left[k + 1])
  <2>1. \A k \in Nat : f[k] \in Seq(D) /\ taken[k] = Sorted(left[k] \ left[k + 1])
    <3> HIDE DEF next
    <3> QED BY <1>2
  <2> HIDE DEF taken
  <2> QED BY <1>2, <2>1
<1>4. f = Round(f)
  <2>1. \A k \in Nat : f[k] = Round(f)[k]
    <3> TAKE k \in Nat
    <3>1. CASE k = 0 BY <1>2, <3>1
    <3>2. CASE k # 0
      <4>1. k - 1 \in Nat /\ (k - 1) + 1 = k
        BY <3>2
      <4> QED BY <1>3, <3>2, <4>1
    <3> QED BY <3>1, <3>2
  <2> QED BY <1>2, <2>1
<1>5. ordered = Round(ordered)
  <2> HIDE DEF Round
  <2> QED BY <1>4
<1> HIDE DEF ordered
<1>6. ordered[0] = <<>>
  BY <1>5
<1>7. ASSUME NEW k \in Nat PROVE ordered[k + 1] = ordered[k] \o Sorted(left[k] \ left[k + 1])
  <2>1. k + 1 \in Nat /\ k + 1 # 0 /\ (k + 1) - 1 = k OBVIOUS
  <2> QED BY <1>5, <2>1
<1>8. ordered \in [Nat -> Seq(D)]
  <2> DEFINE S == Seq(D)
             T == {k \in Nat : ordered[k] \in S}
  <2>1. 0 \in T
    <3>1. ordered[0] \in S
      BY <1>6
    <3> HIDE DEF S
    <3> QED BY <3>1
  <2>2. ASSUME NEW k \in T PROVE k + 1 \in T
    <3>1. ordered[k + 1] = ordered[k] \o taken[k] /\ taken[k] \in Seq(D) /\ ordered[k] \in Seq(D)
      BY <1>1, <1>7
    <3> HIDE DEF taken, D
    <3>2. ordered[k] \o taken[k] \in Seq(D)
      BY <3>1, Concatenation
    <3>3. ordered[k + 1] \in S
      BY <3>1, <3>2
    <3> HIDE DEF S
    <3> QED BY <3>3
  <2>3. T = Nat
    <3> HIDE DEF T
    <3> QED BY <2>1, <2>2, NumbersInduction, T \subseteq Nat DEF T
  <2>4. DOMAIN ordered = Nat /\ ordered = [k \in Nat |-> ordered[k]]
    BY <1>5
  <2> QED BY <2>3, <2>4
<1>9. TopologicalOrder(deps) = ordered[Cardinality(DOMAIN deps)]
  BY DEF TopologicalOrder, ordered
<1> QED BY <1>6, <1>7, <1>8, <1>9

\* Whatever is taken first is placed first, and what is taken together is
\* placed in the order of the identifiers.
LEMMA OrderFollowsRounds ==
    ASSUME NEW deps, IsGraph(deps), DOMAIN deps \subseteq Nat, ~IsCyclic(deps)
    PROVE  /\ TopologicalOrder(deps) \in Seq(DOMAIN deps)
           /\ ToSet(TopologicalOrder(deps)) = DOMAIN deps
           /\ Len(TopologicalOrder(deps)) = Cardinality(DOMAIN deps)
           /\ \A m, n \in DOMAIN deps :
                 Earlier(deps, m, n) \/ (Together(deps, m, n) /\ m < n) => Before(TopologicalOrder(deps), m, n)
<1> DEFINE D == DOMAIN deps
           size == Cardinality(D)
           left == Pending(deps)
<1>0. IsFiniteSet(D) /\ size \in Nat
  BY FS_CardinalityType DEF IsGraph
<1>1. PICK ordered \in [Nat -> Seq(D)] :
               /\ ordered[0] = <<>>
               /\ \A k \in Nat : ordered[k + 1] = ordered[k] \o Sorted(left[k] \ left[k + 1])
               /\ TopologicalOrder(deps) = ordered[size]
  BY OrderedRounds
<1>2. /\ left \in [Nat -> SUBSET D]
      /\ left[0] = D
      /\ \A k \in Nat : left[k + 1] \subseteq left[k]
  BY PendingRounds, PendingShrinks
<1>3. left[size] = {}
  BY DEF IsCyclic
<1>4. \A m, n \in D : Earlier(deps, m, n) <=> \E k \in Nat : m \notin left[k] /\ n \in left[k]
  BY DEF Earlier
<1>5. \A m, n \in D : Together(deps, m, n) <=> \A k \in Nat : m \in left[k] <=> n \in left[k]
  BY DEF Together
<1> HIDE DEF left
<1>6. ASSUME NEW j \in Nat, NEW k \in Nat, j <= k PROVE left[k] \subseteq left[j]
  <2> DEFINE T == {i \in Nat : i >= j => left[i] \subseteq left[j]}
  <2>1. 0 \in T
    BY <1>2
  <2>2. ASSUME NEW i \in T PROVE i + 1 \in T
    <3>1. CASE i + 1 = j BY <3>1
    <3>2. CASE i + 1 # j /\ i + 1 >= j
      <4>1. i \in Nat /\ i >= j
        BY <3>2
      <4> QED BY <1>2, <4>1
    <3> QED BY <3>1, <3>2
  <2>3. T = Nat
    <3> HIDE DEF T
    <3> QED BY <2>1, <2>2, NumbersInduction, T \subseteq Nat DEF T
  <2> QED BY <1>6, <2>3
<1> DEFINE Lists(s, R) == /\ s \in Seq(R)
                          /\ Len(s) = Cardinality(R)
                          /\ \A x \in R : \E i \in 1..Len(s) : s[i] = x
           Keeps(s, R) == \A m, n \in R : Earlier(deps, m, n) \/ (Together(deps, m, n) /\ m < n) => Before(s, m, n)
           Good(k) == Lists(ordered[k], D \ left[k]) /\ Keeps(ordered[k], D \ left[k])
           T == {k \in Nat : Good(k)}
<1>7. 0 \in T
  <2>1. D \ left[0] = {} /\ Cardinality({}) = 0
    BY <1>2, FS_EmptySet
  <2>2. Lists(<<>>, {}) /\ Keeps(<<>>, {})
    BY <2>1
  <2> HIDE DEF Lists, Keeps
  <2> QED BY <1>1, <2>1, <2>2
<1>8. ASSUME NEW k \in T PROVE k + 1 \in T
  <2> DEFINE R == D \ left[k]
             N == left[k] \ left[k + 1]
             s == ordered[k]
             t == Sorted(N)
  <2>1. k \in Nat /\ k + 1 \in Nat /\ Lists(s, R) /\ Keeps(s, R)
    <3> HIDE DEF Lists, Keeps
    <3> QED OBVIOUS
  <2> HIDE DEF T
  <2>2. D \ left[k + 1] = R \cup N /\ R \cap N = {} /\ R \subseteq D /\ N \subseteq D
    BY <1>2, <2>1
  <2>3. IsFiniteSet(R) /\ IsFiniteSet(N) /\ Cardinality(R) \in Nat /\ Cardinality(N) \in Nat
        /\ Cardinality(R \cup N) = Cardinality(R) + Cardinality(N)
    <3> HIDE DEF R, N
    <3>1. IsFiniteSet(R) /\ IsFiniteSet(N)
      BY <1>0, <2>2, FS_Subset
    <3>2. Cardinality(R) \in Nat /\ Cardinality(N) \in Nat /\ Cardinality(R \cap N) = 0
      BY <2>2, <3>1, FS_CardinalityType, FS_EmptySet
    <3>3. Cardinality(R \cup N) = Cardinality(R) + Cardinality(N) - Cardinality(R \cap N)
      BY <3>1, FS_Union
    <3> QED BY <3>1, <3>2, <3>3
  <2>4. t \in Seq(N) /\ Len(t) = Cardinality(N) /\ Ascends(t) /\ \A x \in N : \E i \in 1..Len(t) : t[i] = x
    <3>1. N \in SUBSET Nat
      BY <2>2
    <3> HIDE DEF N
    <3> QED BY <2>3, <3>1, SortedSets
  <2>5. s \in Seq(R) /\ Len(s) = Cardinality(R) /\ \A x \in R : \E i \in 1..Len(s) : s[i] = x
    BY <2>1
  <2>6. ordered[k + 1] = s \o t
    BY <1>1, <2>1
  <2>7. /\ s \o t \in Seq(R \cup N)
        /\ Len(s) \in Nat /\ Len(t) \in Nat /\ Len(s \o t) = Len(s) + Len(t)
        /\ DOMAIN (s \o t) = 1..Len(s) + Len(t)
        /\ \A i \in 1..Len(s) : (s \o t)[i] = s[i]
        /\ \A i \in 1..Len(t) : (s \o t)[Len(s) + i] = t[i]
    <3> DEFINE W == R \cup N
    <3>1. R \subseteq W /\ N \subseteq W OBVIOUS
    <3> HIDE DEF R, N, W, s, t
    <3>0. s \in Seq(R) /\ t \in Seq(N)
      BY <2>4, <2>5
    <3>2. s \o t \in Seq(W)
      BY <3>0, <3>1, Concatenation
    <3>3. Len(s) \in Nat /\ Len(t) \in Nat /\ Len(s \o t) = Len(s) + Len(t)
      BY <3>0, <3>1, Concatenation
    <3>4. DOMAIN (s \o t) = 1..Len(s) + Len(t)
      BY <3>0, <3>1, Concatenation
    <3>5. \A i \in 1..Len(s) : (s \o t)[i] = s[i]
      BY <3>0, <3>1, Concatenation
    <3>6. \A i \in 1..Len(t) : (s \o t)[Len(s) + i] = t[i]
      BY <3>0, <3>1, Concatenation
    <3> QED BY <3>2, <3>3, <3>4, <3>5, <3>6 DEF W
  <2> DEFINE u == s \o t
  <2> HIDE DEF R, N, s, t, u
  <2>0. PICK a \in Nat, b \in Nat : a = Len(s) /\ b = Len(t)
    BY <2>7
  <2>21. /\ DOMAIN s = 1..a /\ DOMAIN t = 1..b /\ DOMAIN u = 1..a + b
         /\ \A i \in 1..a : u[i] = s[i]
         /\ \A i \in 1..b : u[a + i] = t[i]
    <3>1. DOMAIN s = 1..Len(s) /\ DOMAIN t = 1..Len(t)
      BY <2>4, <2>5
    <3> QED BY <2>0, <2>7, <3>1 DEF u
  <2>22. /\ u \in Seq(R \cup N) /\ Len(u) = a + b
         /\ a = Cardinality(R) /\ b = Cardinality(N)
    BY <2>0, <2>4, <2>5, <2>7 DEF u
  <2>23. /\ \A x \in R : \E i \in 1..a : s[i] = x
         /\ \A x \in N : \E i \in 1..b : t[i] = x
         /\ \A i, j \in 1..b : i < j => t[i] < t[j]
    BY <2>0, <2>4, <2>5, <2>21 DEF Ascends
  <2>24. DOMAIN u = 1..a + b
    BY <2>21
  <2>8. ASSUME NEW x \in R \cup N PROVE \E i \in 1..a + b : u[i] = x
    <3>1. CASE x \in R
      <4>1. PICK i \in 1..a : s[i] = x
        BY <2>23, <3>1
      <4>2. i \in 1..a + b /\ u[i] = x
        BY <2>21, <4>1
      <4> QED BY <4>2
    <3>2. CASE x \in N
      <4>1. PICK i \in 1..b : t[i] = x
        BY <2>23, <3>2
      <4>2. a + i \in 1..a + b /\ u[a + i] = x
        BY <2>21, <4>1
      <4> QED BY <4>2
    <3> QED BY <3>1, <3>2
  <2>9. ASSUME NEW m \in R \cup N, NEW n \in R \cup N,
               Earlier(deps, m, n) \/ (Together(deps, m, n) /\ m < n)
        PROVE  Before(u, m, n)
    <3>1. CASE m \in R /\ n \in R
      <4>0. Before(s, m, n)
        BY <2>1, <2>9, <3>1
      <4>1. PICK i \in 1..a, j \in 1..a : i < j /\ s[i] = m /\ s[j] = n
        BY <2>21, <4>0 DEF Before
      <4>2. i \in DOMAIN u /\ j \in DOMAIN u
        BY <2>24
      <4> QED BY <2>21, <4>1, <4>2 DEF Before
    <3>2. CASE m \in R /\ n \in N
      <4>1. PICK i \in 1..a, j \in 1..b : s[i] = m /\ t[j] = n
        BY <2>23, <3>2
      <4>2. i \in DOMAIN u /\ a + j \in DOMAIN u /\ i < a + j
        BY <2>24
      <4> QED BY <2>21, <4>1, <4>2 DEF Before
    <3>3. CASE m \in N /\ n \in R
      <4>1. m \in left[k] /\ n \notin left[k] /\ m \in D /\ n \in D
        BY <2>2, <3>3 DEF R, N
      <4>2. ~Together(deps, m, n)
        BY <1>5, <2>1, <4>1
      <4>3. PICK j \in Nat : m \notin left[j] /\ n \in left[j]
        BY <1>4, <2>9, <4>1, <4>2
      <4>4. j <= k \/ k <= j
        BY <2>1
      <4> QED BY <1>6, <2>1, <4>1, <4>3, <4>4
    <3>4. CASE m \in N /\ n \in N
      <4>1. m \in left[k] /\ n \notin left[k + 1] /\ m \in D /\ n \in D
        BY <2>2, <3>4 DEF R, N
      <4>2. ~Earlier(deps, m, n)
        <5>1. SUFFICES ASSUME NEW j \in Nat, m \notin left[j], n \in left[j] PROVE FALSE
          BY <1>4, <4>1
        <5>2. j <= k \/ k + 1 <= j
          BY <2>1
        <5> QED BY <1>6, <2>1, <4>1, <5>1, <5>2
      <4>3. m < n
        BY <2>9, <4>2
      <4>4. PICK i \in 1..b, j \in 1..b : t[i] = m /\ t[j] = n
        BY <2>23, <3>4
      <4>5. i < j
        <5>1. m \in Nat /\ n \in Nat
          BY <4>1
        <5>2. j < i => t[j] < t[i]
          BY <2>23
        <5> QED BY <4>3, <4>4, <5>1, <5>2
      <4>6. a + i \in DOMAIN u /\ a + j \in DOMAIN u /\ a + i < a + j
        BY <2>24, <4>4, <4>5
      <4> QED BY <2>21, <4>4, <4>6 DEF Before
    <3> QED BY <3>1, <3>2, <3>3, <3>4
  <2>10. Lists(u, R \cup N) /\ Keeps(u, R \cup N)
    <3>1. Cardinality(R \cup N) = a + b
      BY <2>3, <2>22
    <3> QED BY <2>8, <2>9, <2>22, <3>1
  <2>11. Good(k + 1)
    <3> HIDE DEF Lists, Keeps
    <3> QED BY <2>2, <2>6, <2>10 DEF u, s, t, R, N
  <2> HIDE DEF Good
  <2> QED BY <2>1, <2>11 DEF T
<1>9. T = Nat
  <2> HIDE DEF T
  <2> QED BY <1>7, <1>8, NumbersInduction, T \subseteq Nat DEF T
<1>10. Lists(ordered[size], D) /\ Keeps(ordered[size], D)
  <2>1. D \ left[size] = D
    BY <1>3 DEF left
  <2>2. Good(size)
    <3> HIDE DEF Good
    <3> QED BY <1>0, <1>9
  <2> HIDE DEF Lists, Keeps
  <2> QED BY <2>1, <2>2
<1>11. ToSet(ordered[size]) = D
  <2> HIDE DEF D
  <2>1. ordered[size] \in Seq(D) /\ \A x \in D : \E i \in 1..Len(ordered[size]) : ordered[size][i] = x
    BY <1>10
  <2>2. DOMAIN ordered[size] = 1..Len(ordered[size])
    BY <2>1
  <2>3. \A i \in 1..Len(ordered[size]) : ordered[size][i] \in D
    BY <2>1
  <2> QED BY <2>1, <2>2, <2>3 DEF ToSet
<1> QED BY <1>1, <1>10, <1>11

\* Node n is taken in round k.
TakenIn(deps, n, k) == k \in Nat /\ n \in Pending(deps)[k] /\ n \notin Pending(deps)[k + 1]

\* A later round has less left than an earlier one.
LEMMA PendingIsMonotone ==
    ASSUME NEW deps, IsGraph(deps), NEW j \in Nat, NEW k \in Nat, j <= k
    PROVE  Pending(deps)[k] \subseteq Pending(deps)[j]
<1> DEFINE left == Pending(deps)
           T == {i \in Nat : i >= j => left[i] \subseteq left[j]}
<1>1. \A i \in Nat : left[i + 1] \subseteq left[i]
  BY PendingShrinks
<1> HIDE DEF left
<1>2. 0 \in T OBVIOUS
<1>3. ASSUME NEW i \in T PROVE i + 1 \in T
  <2>1. CASE i + 1 = j BY <2>1
  <2>2. CASE i + 1 # j /\ i + 1 >= j
    <3>1. i \in Nat /\ i >= j
      BY <2>2
    <3> QED BY <1>1, <3>1
  <2> QED BY <2>1, <2>2
<1>4. T = Nat
  <2> HIDE DEF T
  <2> QED BY <1>2, <1>3, NumbersInduction, T \subseteq Nat DEF T
<1>5. left[k] \subseteq left[j]
  BY <1>4
<1> QED BY <1>5 DEF left

\* Every node of an acyclic graph is taken in one round.
LEMMA NodesAreTakenOnce ==
    ASSUME NEW deps, IsGraph(deps), ~IsCyclic(deps), NEW n \in DOMAIN deps
    PROVE  /\ \E k \in Nat : TakenIn(deps, n, k)
           /\ \A k : TakenIn(deps, n, k) => \A j \in Nat : n \in Pending(deps)[j] <=> j <= k
<1> DEFINE left == Pending(deps)
           Gone == {j \in Nat : n \notin left[j]}
<1>1. left[0] = DOMAIN deps
  BY PendingRounds
<1>2. Cardinality(DOMAIN deps) \in Nat /\ left[Cardinality(DOMAIN deps)] = {}
  BY FS_CardinalityType DEF IsGraph, IsCyclic
<1>3. PICK j \in Gone : \A i \in Gone : j <= i
  <2>1. Gone \in SUBSET Nat /\ Gone # {}
    BY <1>2
  <2> HIDE DEF Gone
  <2> QED BY <2>1, LeastNumber
<1>4. j - 1 \in Nat /\ TakenIn(deps, n, j - 1)
  <2> HIDE DEF left
  <2>1. j \in Nat /\ j # 0 /\ n \notin left[j] /\ j - 1 \in Nat /\ n \in left[j - 1] /\ (j - 1) + 1 = j
    BY <1>1, <1>3
  <2> QED BY <2>1 DEF TakenIn, left
<1>5. ASSUME NEW k, TakenIn(deps, n, k), NEW i \in Nat PROVE n \in left[i] <=> i <= k
  <2>1. k \in Nat /\ k + 1 \in Nat /\ n \in left[k] /\ n \notin left[k + 1]
    BY <1>5 DEF TakenIn
  <2>2. i <= k => left[k] \subseteq left[i]
    BY <2>1, PendingIsMonotone
  <2>3. k + 1 <= i => left[i] \subseteq left[k + 1]
    BY <2>1, PendingIsMonotone
  <2>4. i <= k \/ k + 1 <= i
    BY <2>1
  <2> HIDE DEF left
  <2> QED BY <2>1, <2>2, <2>3, <2>4
<1> QED BY <1>4, <1>5

\* A node is taken one round after the last of its dependencies.
LEMMA RoundsAreDepths ==
    ASSUME NEW deps, IsGraph(deps), ~IsCyclic(deps), NEW n \in DOMAIN deps, NEW j, TakenIn(deps, n, j),
           NEW h, \A d \in deps[n] : TakenIn(deps, d, h[d])
    PROVE  /\ deps[n] \subseteq DOMAIN deps \ Pending(deps)[j]
           /\ j = IF deps[n] = {} THEN 0 ELSE 1 + Max({h[d] : d \in deps[n]})
<1> DEFINE left == Pending(deps)
           S == {h[d] : d \in deps[n]}
<1>1. j \in Nat /\ n \in left[j] /\ n \notin left[j + 1] /\ deps[n] \subseteq DOMAIN deps
  BY DEF TakenIn, IsGraph
<1>2. /\ left[0] = DOMAIN deps
      /\ \A k \in Nat : left[k + 1] = {x \in left[k] : deps[x] \cap left[k] # {}}
  BY PendingRounds
<1>3. \A d \in deps[n] : h[d] \in Nat /\ \A k \in Nat : d \in left[k] <=> k <= h[d]
  BY <1>1, NodesAreTakenOnce DEF TakenIn
<1> HIDE DEF left
<1>4. deps[n] \cap left[j] = {}
  BY <1>1, <1>2
<1>5. CASE deps[n] = {}
  <2>1. j # 0 => j - 1 \in Nat /\ (j - 1) + 1 = j
    BY <1>1
  <2>2. j # 0 => n \notin left[j]
    BY <1>2, <1>5, <2>1
  <2> QED BY <1>1, <1>4, <1>5, <2>2 DEF left
<1>6. CASE deps[n] # {}
  <2>1. j # 0
    BY <1>1, <1>2, <1>4, <1>6
  <2>2. j - 1 \in Nat /\ (j - 1) + 1 = j
    BY <1>1, <2>1
  <2>3. PICK d \in deps[n] : d \in left[j - 1]
    BY <1>1, <1>2, <2>2
  <2>4. \A e \in deps[n] : h[e] \in Nat /\ h[e] <= j - 1
    <3>1. \A e \in deps[n] : h[e] \in Nat /\ ~(j <= h[e])
      BY <1>1, <1>3, <1>4
    <3> QED BY <1>1, <3>1
  <2>5. h[d] = j - 1
    BY <1>3, <2>2, <2>3, <2>4
  <2>6. \A y \in S : y \in Nat /\ j - 1 >= y
    BY <2>2, <2>4
  <2>7. j - 1 \in S
    BY <2>5
  <2>8. Max(S) = j - 1
    <3> HIDE DEF S
    <3>1. \A x \in S : (\A y \in S : x >= y) => x = j - 1
      BY <2>2, <2>6, <2>7
    <3> QED BY <2>6, <2>7, <3>1 DEF Max
  <2>9. j = 1 + Max(S)
    BY <1>1, <2>8
  <2> QED BY <1>1, <1>4, <1>6, <2>9 DEF left
<1> QED BY <1>5, <1>6

\* The construction's checks give an order that is topological.
LEMMA OrdersAreTopological ==
    ASSUME NEW deps, IsFiniteSet(DOMAIN deps), DOMAIN deps \subseteq Nat, NEW writes, Validate(deps, writes) = "valid"
    PROVE  OrderIsTopological(deps)
<1> DEFINE D == DOMAIN deps
           order == TopologicalOrder(deps)
           Depth(h) == [n \in D |-> IF deps[n] = {} THEN 0 ELSE 1 + Max({h[d] : d \in deps[n]})]
           depth == CHOOSE depth : depth = Depth(depth)
<1>1. IsGraph(deps) /\ ~IsCyclic(deps)
  BY ValidGraphs DEF IsGraph
<1>2. /\ ToSet(order) = D
      /\ Len(order) = Cardinality(D)
      /\ \A m, n \in D : Earlier(deps, m, n) \/ (Together(deps, m, n) /\ m < n) => Before(order, m, n)
  BY <1>1, OrderFollowsRounds
<1> DEFINE g == [n \in D |-> CHOOSE k \in Nat : TakenIn(deps, n, k)]
<1>3. \A n \in D : TakenIn(deps, n, g[n])
  BY <1>1, NodesAreTakenOnce
<1>4. g = Depth(g)
  <2> HIDE DEF g
  <2>1. ASSUME NEW n \in D PROVE g[n] = IF deps[n] = {} THEN 0 ELSE 1 + Max({g[d] : d \in deps[n]})
    <3>1. \A d \in deps[n] : TakenIn(deps, d, g[d])
      BY <1>1, <1>3 DEF IsGraph
    <3>2. PICK j : j = g[n]
      OBVIOUS
    <3>3. TakenIn(deps, n, j)
      BY <1>3, <3>2
    <3>4. j = IF deps[n] = {} THEN 0 ELSE 1 + Max({g[d] : d \in deps[n]})
      BY <1>1, <3>1, <3>3, RoundsAreDepths
    <3> QED BY <3>2, <3>4
  <2>2. g = [n \in D |-> g[n]]
    BY DEF g
  <2> QED BY <2>1, <2>2, Zenon
<1>5. depth = Depth(depth)
  <2> HIDE DEF Depth, g
  <2> QED BY <1>4
<1> HIDE DEF depth, g
<1>6. \A n \in D : TakenIn(deps, n, depth[n])
  <2> DEFINE T == {k \in Nat : \A n \in D \ Pending(deps)[k] : TakenIn(deps, n, depth[n])}
  <2>1. 0 \in T
    BY PendingRounds
  <2>2. ASSUME NEW k \in T PROVE k + 1 \in T
    <3>1. k \in Nat /\ \A n \in D \ Pending(deps)[k] : TakenIn(deps, n, depth[n])
      OBVIOUS
    <3>2. ASSUME NEW n \in D \ Pending(deps)[k + 1] PROVE TakenIn(deps, n, depth[n])
      <4>1. CASE n \notin Pending(deps)[k] BY <3>1, <4>1
      <4>2. CASE n \in Pending(deps)[k]
        <5>1. TakenIn(deps, n, k)
          BY <3>1, <4>2 DEF TakenIn
        <5>2. deps[n] \subseteq D \ Pending(deps)[k]
          <6>1. deps[n] \cap Pending(deps)[k] = {}
            <7>1. Pending(deps)[k + 1] = {x \in Pending(deps)[k] : deps[x] \cap Pending(deps)[k] # {}}
              BY <3>1, PendingRounds
            <7> QED BY <3>2, <4>2, <7>1
          <6> QED BY <1>1, <6>1 DEF IsGraph
        <5>3. \A d \in deps[n] : TakenIn(deps, d, depth[d])
          BY <3>1, <5>2
        <5>4. k = IF deps[n] = {} THEN 0 ELSE 1 + Max({depth[d] : d \in deps[n]})
          BY <1>1, <5>1, <5>3, RoundsAreDepths
        <5>5. depth[n] = IF deps[n] = {} THEN 0 ELSE 1 + Max({depth[d] : d \in deps[n]})
          BY <1>5, Zenon
        <5> QED BY <5>1, <5>4, <5>5, Zenon
      <4> QED BY <4>1, <4>2
    <3> QED BY <3>1, <3>2
  <2>3. T = Nat
    <3> HIDE DEF T
    <3> QED BY <2>1, <2>2, NumbersInduction, T \subseteq Nat DEF T
  <2>4. Cardinality(D) \in Nat /\ Pending(deps)[Cardinality(D)] = {}
    BY <1>1, FS_CardinalityType DEF IsGraph, IsCyclic
  <2> QED BY <2>3, <2>4
<1>7. ASSUME NEW m \in D, NEW n \in D PROVE
          /\ depth[m] < depth[n] => Earlier(deps, m, n)
          /\ depth[m] = depth[n] => Together(deps, m, n)
  <2>1. depth[m] \in Nat /\ depth[n] \in Nat
    BY <1>6 DEF TakenIn
  <2>2. \A k \in Nat : (m \in Pending(deps)[k] <=> k <= depth[m]) /\ (n \in Pending(deps)[k] <=> k <= depth[n])
    BY <1>1, <1>6, NodesAreTakenOnce
  <2>3. depth[m] < depth[n] => Earlier(deps, m, n)
    <3>1. ASSUME depth[m] < depth[n] PROVE ~(depth[n] <= depth[m]) /\ depth[n] <= depth[n]
      BY <2>1, <3>1
    <3>2. ASSUME depth[m] < depth[n]
          PROVE  m \notin Pending(deps)[depth[n]] /\ n \in Pending(deps)[depth[n]]
      BY <2>1, <2>2, <3>1, <3>2
    <3> QED BY <2>1, <3>2 DEF Earlier
  <2>4. depth[m] = depth[n] => Together(deps, m, n)
    BY <2>2 DEF Together
  <2> QED BY <2>3, <2>4
<1>8. ASSUME NEW n \in D, NEW d \in deps[n] PROVE Before(order, d, n)
  <2>1. d \in D
    BY <1>1 DEF IsGraph
  <2>2. PICK k \in Nat : TakenIn(deps, n, k)
    BY <1>3 DEF TakenIn
  <2>3. d \notin Pending(deps)[k] /\ n \in Pending(deps)[k]
    <3>1. Pending(deps)[k + 1] = {x \in Pending(deps)[k] : deps[x] \cap Pending(deps)[k] # {}}
      BY PendingRounds
    <3> QED BY <2>2, <3>1 DEF TakenIn
  <2>4. Earlier(deps, d, n)
    BY <2>3 DEF Earlier
  <2> QED BY <1>2, <2>1, <2>4
<1>9. \A m, n \in D : depth[m] < depth[n] \/ (depth[m] = depth[n] /\ m < n) => Before(order, m, n)
  BY <1>2, <1>7
<1> HIDE DEF order
<1>10. /\ ToSet(order) = D
       /\ Len(order) = Cardinality(D)
       /\ \A n \in D : \A d \in deps[n] : Before(order, d, n)
       /\ \A m, n \in D : depth[m] < depth[n] \/ (depth[m] = depth[n] /\ m < n) => Before(order, m, n)
  BY <1>2, <1>8, <1>9
<1> QED BY <1>10, Zenon DEF OrderIsTopological, depth, order

-----------------------------------------------------------------------------
(* Provider policies *)

\* The remainder repeats after one modulus.
LEMMA RemaindersRepeat ==
    ASSUME NEW t \in Nat, t > 0, NEW i \in Nat
    PROVE  (i + t) % t = i % t
<1>1. PICK q \in Nat : i = q * t + (i % t)
  OBVIOUS
<1>2. PICK p \in Nat : i + t = p * t + ((i + t) % t)
  OBVIOUS
<1>3. i % t \in 0..t - 1 /\ (i + t) % t \in 0..t - 1 OBVIOUS
<1>4. PICK r \in 0..t - 1, s \in 0..t - 1 : r = i % t /\ s = (i + t) % t
  BY <1>3
<1>5. (q + 1 - p) * t = s - r
  <2>1. (q + 1 - p) * t = q * t + t - p * t OBVIOUS
  <2>2. q * t \in Nat /\ p * t \in Nat OBVIOUS
  <2> QED BY <1>1, <1>2, <1>4, <2>1, <2>2
<1>6. q + 1 - p = 0
  <2>1. q + 1 - p \in Int /\ s - r < t /\ -t < s - r OBVIOUS
  <2>2. \A d \in Int : d * t < t /\ -t < d * t => d = 0 OBVIOUS
  <2> QED BY <1>5, <2>1, <2>2
<1> QED BY <1>4, <1>5, <1>6

\* The partial sums of any numbers are a function.
LEMMA SumsExist ==
    ASSUME NEW w \in [Nat -> Nat]
    PROVE  \E f \in [Nat -> Nat] : f[0] = 0 /\ \A k \in Nat : f[k + 1] = f[k] + w[k]
<1> DEFINE next == [k \in Nat |-> [n \in Nat |-> n + w[k]]]
<1>1. next \in [Nat -> [Nat -> Nat]] OBVIOUS
<1>2. PICK f : Follows(f, Nat, 0, next)
  <2> HIDE DEF next
  <2> QED BY <1>1, Recursion
<1>3. f \in [Nat -> Nat] /\ f[0] = 0 /\ \A k \in Nat : f[k + 1] = next[k][f[k]]
  <2> HIDE DEF next
  <2> QED BY <1>2 DEF Follows
<1> QED BY <1>3

\* The walk along the weights compares the position with their partial sums.
LEMMA PartialSums ==
    ASSUME NEW weights \in Seq(Nat \ {0}), weights # <<>>
    PROVE  \E upTo \in [0..Len(weights) -> Nat] :
               /\ upTo[0] = 0
               /\ \A k \in 1..Len(weights) : upTo[k] = upTo[k - 1] + weights[k]
               /\ \A members, i :
                     ProviderAt(members, weights, i)
                     = members[CHOOSE k \in DOMAIN weights : upTo[k - 1] <= i % upTo[Len(weights)] /\ i % upTo[Len(weights)] < upTo[k]]
<1> DEFINE L == Len(weights)
           w == [k \in Nat |-> IF k + 1 \in 1..L THEN weights[k + 1] ELSE 0]
           Sums(F) == [k \in 0..L |-> IF k = 0 THEN 0 ELSE F[k - 1] + weights[k]]
           upTo == CHOOSE upTo : upTo = Sums(upTo)
<1>1. L \in Nat /\ \A k \in 1..L : weights[k] \in Nat OBVIOUS
<1>2. w \in [Nat -> Nat]
  BY <1>1
<1>3. PICK f \in [Nat -> Nat] : f[0] = 0 /\ \A k \in Nat : f[k + 1] = f[k] + w[k]
  <2> HIDE DEF w
  <2> QED BY <1>2, SumsExist
<1> DEFINE g == [k \in 0..L |-> f[k]]
<1>5. g = Sums(g)
  <2>1. ASSUME NEW k \in 0..L PROVE g[k] = IF k = 0 THEN 0 ELSE g[k - 1] + weights[k]
    <3>1. CASE k = 0 BY <1>3, <3>1
    <3>2. CASE k # 0
      <4>1. k - 1 \in Nat /\ (k - 1) + 1 = k /\ k \in 1..L /\ k - 1 \in 0..L
        BY <1>1, <3>2
      <4>2. w[k - 1] = weights[k]
        BY <4>1
      <4>3. f[k] = f[k - 1] + weights[k]
        BY <1>3, <4>1, <4>2
      <4> QED BY <3>2, <4>1, <4>3
    <3> QED BY <3>1, <3>2
  <2>2. g = [k \in 0..L |-> g[k]] OBVIOUS
  <2> HIDE DEF g
  <2> QED BY <2>1, <2>2, Zenon
<1>6. upTo = Sums(upTo)
  <2> HIDE DEF Sums, g
  <2> QED BY <1>5
<1> HIDE DEF upTo, L
<1>7. upTo[0] = 0
  BY <1>1, <1>6
<1>8. \A k \in 1..L : upTo[k] = upTo[k - 1] + weights[k]
  <2> TAKE k \in 1..L
  <2>1. k \in 0..L /\ k # 0
    BY <1>1
  <2> HIDE DEF Sums
  <2>2. upTo[k] = Sums(upTo)[k]
    BY <1>6
  <2> QED BY <2>1, <2>2 DEF Sums
<1>9. upTo \in [0..L -> Nat]
  <2> DEFINE T == {k \in Nat : k <= L => upTo[k] \in Nat}
  <2>1. 0 \in T
    BY <1>7
  <2>2. ASSUME NEW k \in Nat, k <= L => upTo[k] \in Nat PROVE k + 1 <= L => upTo[k + 1] \in Nat
    <3> HIDE DEF T
    <3>1. CASE k + 1 <= L
      <4>1. k + 1 \in 1..L /\ (k + 1) - 1 = k /\ k <= L
        BY <1>1, <3>1
      <4>2. upTo[k + 1] = upTo[k] + weights[k + 1]
        BY <1>8, <4>1
      <4>3. upTo[k] \in Nat /\ weights[k + 1] \in Nat
        BY <1>1, <2>2, <4>1
      <4>4. upTo[k + 1] \in Nat
        <5> HIDE DEF Sums
        <5>1. PICK a \in Nat, b \in Nat : a = upTo[k] /\ b = weights[k + 1]
          BY <4>3
        <5>2. upTo[k + 1] = a + b
          BY <4>2, <5>1
        <5> QED BY <5>2
      <4> QED BY <4>4
    <3> QED BY <3>1
  <2>9. ASSUME NEW k \in T PROVE k + 1 \in T
    <3>0. k \in Nat OBVIOUS
    <3>2. k + 1 \in Nat
      BY <3>0
    <3>3. k <= L => upTo[k] \in Nat
      BY Zenon
    <3>4. k + 1 <= L => upTo[k + 1] \in Nat
      BY <2>2, <3>0, <3>3
    <3> QED BY <3>2, <3>4, Zenon
  <2>3. T = Nat
    <3> HIDE DEF T
    <3> QED BY <2>1, <2>9, NumbersInduction, T \subseteq Nat DEF T
  <2>4. DOMAIN upTo = 0..L /\ upTo = [k \in 0..L |-> upTo[k]]
    BY <1>6
  <2>5. \A k \in 0..L : upTo[k] \in Nat
    <3> TAKE k \in 0..L
    <3>1. k \in Nat /\ k <= L
      BY <1>1
    <3> QED BY <2>3, <3>1
  <2> QED BY <2>4, <2>5
<1>10. ASSUME NEW members, NEW i
       PROVE  ProviderAt(members, weights, i)
              = members[CHOOSE k \in DOMAIN weights : upTo[k - 1] <= i % upTo[L] /\ i % upTo[L] < upTo[k]]
  BY Zenon DEF ProviderAt, upTo, L
<1> QED BY <1>7, <1>8, <1>9, <1>10 DEF L

\* upTo holds the partial sums of the lengths of L sequences over P.
SumsLengths(upTo, seqs, L, P) ==
    /\ L \in Nat /\ L > 0
    /\ seqs \in [1..L -> Seq(P)]
    /\ upTo \in [0..L -> Nat] /\ upTo[0] = 0
    /\ \A k \in 1..L : upTo[k] = upTo[k - 1] + Len(seqs[k])

\* joined has each of the sequences behind the partial sum of the lengths before it.
JoinsAt(joined, upTo, seqs, L) ==
    /\ Len(joined) = upTo[L]
    /\ \A k \in 1..L : upTo[k] <= upTo[L] /\ \A p \in 1..Len(seqs[k]) : joined[upTo[k - 1] + p] = seqs[k][p]

\* Joining sequences puts each behind the partial sum of the lengths before it.
LEMMA Flattened ==
    ASSUME NEW P, NEW L, NEW seqs, NEW upTo, SumsLengths(upTo, seqs, L, P)
    PROVE  FlattenSeq(seqs) \in Seq(P) /\ JoinsAt(FlattenSeq(seqs), upTo, seqs, L)
<1>0. /\ L \in Nat /\ L > 0
      /\ seqs \in [1..L -> Seq(P)]
      /\ upTo \in [0..L -> Nat] /\ upTo[0] = 0
      /\ \A k \in 1..L : upTo[k] = upTo[k - 1] + Len(seqs[k])
  BY DEF SumsLengths
<1> USE <1>0
<1> DEFINE S == Seq(P)
           Joined(F) == [i \in 1..L |-> IF i = 1 THEN seqs[i] ELSE F[i - 1] \o seqs[i]]
           more == [k \in Nat |-> IF k + 2 \in 1..L THEN seqs[k + 2] ELSE <<>>]
           next == [k \in Nat |-> [s \in S |-> s \o more[k]]]
           flatten == CHOOSE flatten : flatten = Joined(flatten)
<1>1. more \in [Nat -> S]
  <2>1. <<>> \in S /\ \A k \in 1..L : seqs[k] \in S OBVIOUS
  <2> HIDE DEF S
  <2> QED BY <2>1
<1>2. \A s, t \in S : s \o t \in S OBVIOUS
<1>3. PICK f : Follows(f, S, seqs[1], next)
  <2>1. next \in [Nat -> [S -> S]]
    <3> HIDE DEF S, more
    <3> QED BY <1>1, <1>2
  <2>2. seqs[1] \in S OBVIOUS
  <2> HIDE DEF S, next
  <2> QED BY <2>1, <2>2, Recursion
<1>4. f \in [Nat -> S] /\ f[0] = seqs[1] /\ \A k \in Nat : f[k + 1] = next[k][f[k]]
  <2> HIDE DEF S, next
  <2> QED BY <1>3 DEF Follows
<1>5. \A k \in Nat : f[k + 1] = f[k] \o more[k]
  <2>1. \A k \in Nat : f[k] \in S
    <3> HIDE DEF S, next
    <3> QED BY <1>4
  <2> HIDE DEF S, more
  <2> QED BY <1>4, <2>1
<1> DEFINE g == [i \in 1..L |-> f[i - 1]]
<1>6. g = Joined(g)
  <2> HIDE DEF S
  <2>1. ASSUME NEW i \in 1..L PROVE g[i] = IF i = 1 THEN seqs[i] ELSE g[i - 1] \o seqs[i]
    <3>1. CASE i = 1 BY <1>4, <3>1
    <3>2. CASE i # 1
      <4>1. i - 2 \in Nat /\ (i - 2) + 1 = i - 1 /\ (i - 2) + 2 = i /\ i - 1 \in 1..L /\ (i - 1) - 1 = i - 2
        BY <3>2
      <4>2. more[i - 2] = seqs[i]
        BY <4>1
      <4>3. f[i - 1] = f[i - 2] \o seqs[i]
        <5> HIDE DEF more
        <5> QED BY <1>5, <4>1, <4>2
      <4> QED BY <3>2, <4>1, <4>3
    <3> QED BY <3>1, <3>2
  <2>2. g = [i \in 1..L |-> g[i]] OBVIOUS
  <2> HIDE DEF g
  <2> QED BY <2>1, <2>2, Zenon
<1>7. flatten = Joined(flatten)
  <2> HIDE DEF Joined, g
  <2> QED BY <1>6
<1> HIDE DEF flatten, next, more, S
<1>8. flatten[1] = seqs[1] /\ \A i \in 2..L : flatten[i] = flatten[i - 1] \o seqs[i]
  <2>1. 1 \in 1..L /\ \A i \in 2..L : i \in 1..L /\ i # 1 OBVIOUS
  <2> QED BY <1>7, <2>1
<1> DEFINE Good(i) ==
             /\ flatten[i] \in Seq(P)
             /\ Len(flatten[i]) = upTo[i]
             /\ \A k \in 1..i : upTo[k] <= upTo[i] /\ \A p \in 1..Len(seqs[k]) : flatten[i][upTo[k - 1] + p] = seqs[k][p]
           T == {i \in Nat : i \in 1..L => Good(i)}
<1>9. Good(1)
  <2>1. 1 \in 1..L /\ seqs[1] \in Seq(P) /\ 1 - 1 = 0 /\ 1..1 = {1} /\ Len(seqs[1]) \in Nat
    OBVIOUS
  <2>2. upTo[1] = Len(seqs[1])
    BY <2>1
  <2>3. \A p \in 1..Len(seqs[1]) : upTo[0] + p = p OBVIOUS
  <2>4. upTo[1] <= upTo[1]
    BY <2>1, <2>2
  <2> QED BY <1>8, <2>1, <2>2, <2>3, <2>4
<1>10. ASSUME NEW i \in 1..L, i + 1 \in 1..L, Good(i) PROVE Good(i + 1)
  <2> DEFINE s == flatten[i]
             t == seqs[i + 1]
             u == flatten[i + 1]
  <2>1. u = s \o t
    <3>1. i + 1 \in 2..L /\ (i + 1) - 1 = i
      BY <1>10
    <3> QED BY <1>8, <3>1
  <2>2. s \in Seq(P) /\ t \in Seq(P)
    BY <1>10
  <2>3. /\ u \in Seq(P)
        /\ Len(s) \in Nat /\ Len(t) \in Nat /\ Len(u) = Len(s) + Len(t)
        /\ \A j \in 1..Len(s) : u[j] = s[j]
        /\ \A j \in 1..Len(t) : u[Len(s) + j] = t[j]
    <3> HIDE DEF s, t, u
    <3>1. P \subseteq P OBVIOUS
    <3>2. s \o t \in Seq(P)
      BY <2>2, <3>1, Concatenation
    <3>3. Len(s) \in Nat /\ Len(t) \in Nat /\ Len(s \o t) = Len(s) + Len(t)
      BY <2>2, <3>1, Concatenation
    <3>4. \A j \in 1..Len(s) : (s \o t)[j] = s[j]
      BY <2>2, <3>1, Concatenation
    <3>5. \A j \in 1..Len(t) : (s \o t)[Len(s) + j] = t[j]
      BY <2>2, <3>1, Concatenation
    <3> QED BY <2>1, <3>2, <3>3, <3>4, <3>5
  <2>4. /\ Len(s) = upTo[i]
        /\ \A k \in 1..i : upTo[k] <= upTo[i] /\ \A p \in 1..Len(seqs[k]) : s[upTo[k - 1] + p] = seqs[k][p]
    BY <1>10
  <2>5. upTo[i + 1] = upTo[i] + Len(t)
    <3>1. (i + 1) - 1 = i OBVIOUS
    <3> QED BY <1>10, <3>1
  <2> HIDE DEF Good, s, t, u
  <2>6. \A k \in 1..i + 1 : upTo[k] \in Nat /\ upTo[k - 1] \in Nat /\ upTo[k] = upTo[k - 1] + Len(seqs[k]) /\ Len(seqs[k]) \in Nat
    <3> TAKE k \in 1..i + 1
    <3>0. i + 1 \in Nat /\ i + 1 <= L
      BY <1>10
    <3>1. k \in 1..L /\ k \in 0..L /\ k - 1 \in 0..L
      BY <3>0
    <3>2. upTo[k] = upTo[k - 1] + Len(seqs[k])
      BY <3>1
    <3>3. upTo[k] \in Nat /\ upTo[k - 1] \in Nat
      BY <3>1
    <3>4. Len(seqs[k]) \in Nat
      BY <3>1
    <3> QED BY <3>2, <3>3, <3>4
  <2>7. ASSUME NEW k \in 1..i + 1
        PROVE  upTo[k] <= upTo[i + 1] /\ \A p \in 1..Len(seqs[k]) : u[upTo[k - 1] + p] = seqs[k][p]
    <3>1. CASE k = i + 1
      <4>1. seqs[k] = t /\ upTo[k - 1] = upTo[i] /\ upTo[k] = upTo[i + 1]
        <5>1. k - 1 = i
          BY <3>1
        <5> QED BY <3>1, <5>1 DEF t
      <4>2. upTo[i + 1] \in Nat
        BY <2>6, <3>1
      <4>3. upTo[i] = Len(s)
        BY <2>4
      <4> HIDE DEF T
      <4>4. \A p \in 1..Len(t) : u[upTo[i] + p] = t[p]
        BY <2>3, <4>3
      <4>5. upTo[k] <= upTo[i + 1]
        <5>1. \A x \in Nat : x <= x OBVIOUS
        <5> QED BY <4>1, <4>2, <5>1, Zenon
      <4>6. \A p \in 1..Len(seqs[k]) : u[upTo[k - 1] + p] = seqs[k][p]
        BY <4>1, <4>4
      <4> QED BY <4>5, <4>6
    <3>2. CASE k # i + 1
      <4>1. k \in 1..i
        BY <3>2
      <4>2. PICK a \in Nat, b \in Nat, c \in Nat, l \in Nat, m \in Nat :
                a = upTo[k - 1] /\ b = upTo[k] /\ c = upTo[i] /\ l = Len(seqs[k]) /\ m = Len(t)
        <5>1. upTo[i] \in Nat OBVIOUS
        <5> QED BY <2>3, <2>6, <5>1
      <4>3. b <= c /\ b = a + l /\ upTo[i + 1] = c + m
        BY <2>4, <2>5, <2>6, <4>1, <4>2
      <4>4. upTo[k] <= upTo[i + 1]
        BY <4>2, <4>3
      <4>5. ASSUME NEW p \in 1..l PROVE u[a + p] = seqs[k][p]
        <5>1. a + p \in 1..c
          BY <4>3
        <5>2. s[a + p] = seqs[k][p]
          BY <2>4, <4>1, <4>2
        <5>3. u[a + p] = s[a + p]
          BY <2>3, <2>4, <4>2, <5>1
        <5> QED BY <5>2, <5>3
      <4> QED BY <4>2, <4>4, <4>5
    <3> QED BY <3>1, <3>2
  <2> QED BY <2>3, <2>4, <2>5, <2>7 DEF Good, u
<1>11. T = Nat
  <2> HIDE DEF Good
  <2>0. 0 \notin 1..L OBVIOUS
  <2>1. 0 \in T
    BY <2>0, Zenon
  <2>2. ASSUME NEW i \in T PROVE i + 1 \in T
    <3>1. i \in Nat /\ (i \in 1..L => Good(i))
      BY Zenon
    <3>2. i + 1 \in Nat
      BY <3>1
    <3>3. i + 1 \in 1..L => i + 1 = 1 \/ i \in 1..L
      BY <3>1
    <3>4. i + 1 \in 1..L => Good(i + 1)
      BY <1>9, <1>10, <3>1, <3>3
    <3> QED BY <3>2, <3>4, Zenon
  <2>3. T \subseteq Nat OBVIOUS
  <2> HIDE DEF T
  <2> QED BY <2>1, <2>2, <2>3, NumbersInduction
<1>12. Good(L)
  <2> HIDE DEF Good
  <2>1. L \in Nat /\ L \in 1..L OBVIOUS
  <2> QED BY <1>11, <2>1, Zenon
<1>13. Len(seqs) = L OBVIOUS
<1>14. FlattenSeq(seqs) = flatten[L]
  <2>1. Len(seqs) # 0
    BY <1>13
  <2> QED BY <1>13, <2>1, Zenon DEF FlattenSeq, flatten
<1> QED BY <1>12, <1>14 DEF JoinsAt

\* In any window of t numbers each remainder occurs once.
LEMMA WindowsCount ==
    ASSUME NEW t \in Nat, t > 0, NEW B \in SUBSET (0..t - 1), NEW n \in Nat
    PROVE  Cardinality({i \in n..n + t - 1 : i % t \in B}) = Cardinality(B)
<1> DEFINE W(k) == {i \in k..k + t - 1 : i % t \in B}
           T == {k \in Nat : Cardinality(W(k)) = Cardinality(B)}
<1>1. 0 \in T
  <2>1. \A i \in 0..t - 1 : i % t = i OBVIOUS
  <2>2. 0..0 + t - 1 = 0..t - 1 OBVIOUS
  <2>3. W(0) = B
    BY <2>1, <2>2
  <2> QED BY <2>3
<1>2. ASSUME NEW k \in Nat, Cardinality(W(k)) = Cardinality(B) PROVE Cardinality(W(k + 1)) = Cardinality(B)
  <2>1. (k + t) % t = k % t
    BY RemaindersRepeat
  <2>2. IsFiniteSet(W(k)) /\ Cardinality(W(k)) \in Nat
    <3>1. IsFiniteSet(k..k + t - 1)
      BY FS_Interval
    <3>2. W(k) \subseteq k..k + t - 1 OBVIOUS
    <3> HIDE DEF W
    <3> QED BY <3>1, <3>2, FS_Subset, FS_CardinalityType
  <2>3. (k + 1)..(k + 1) + t - 1 = ((k..k + t - 1) \ {k}) \cup {k + t} OBVIOUS
  <2>4. k + t \notin k..k + t - 1 /\ k \in k..k + t - 1 /\ k + t # k OBVIOUS
  <2>5. CASE k % t \in B
    <3>1. W(k + 1) = (W(k) \ {k}) \cup {k + t} /\ k \in W(k) /\ k + t \notin W(k) \ {k}
      BY <2>1, <2>3, <2>4, <2>5
    <3> HIDE DEF W
    <3>2. IsFiniteSet(W(k) \ {k}) /\ Cardinality(W(k) \ {k}) = Cardinality(W(k)) - 1
      BY <2>2, <3>1, FS_RemoveElement
    <3>3. Cardinality((W(k) \ {k}) \cup {k + t}) = Cardinality(W(k) \ {k}) + 1
      BY <3>1, <3>2, FS_AddElement
    <3>4. PICK c \in Nat : c = Cardinality(W(k))
      BY <2>2
    <3>5. Cardinality(W(k + 1)) = (c - 1) + 1
      BY <3>1, <3>2, <3>3, <3>4
    <3>6. (c - 1) + 1 = c OBVIOUS
    <3> QED BY <1>2, <3>4, <3>5, <3>6
  <2>6. CASE k % t \notin B
    <3>1. W(k + 1) = W(k)
      BY <2>1, <2>3, <2>4, <2>6
    <3> HIDE DEF W
    <3> QED BY <1>2, <3>1
  <2> QED BY <2>5, <2>6
<1>3. T = Nat
  <2> HIDE DEF W
  <2>1. \A k \in T : k + 1 \in T
    BY <1>2
  <2>2. T \subseteq Nat OBVIOUS
  <2> HIDE DEF T
  <2> QED BY <1>1, <2>1, <2>2, NumbersInduction
<1>4. Cardinality(W(n)) = Cardinality(B)
  <2> HIDE DEF W
  <2> QED BY <1>3
<1> QED BY <1>4

\* Increasing sums divide the numbers below the last one.
LEMMA SumsDivide ==
    ASSUME NEW L \in Nat, NEW upTo \in [0..L -> Nat], upTo[0] = 0, \A k \in 1..L : upTo[k - 1] < upTo[k],
           NEW p \in Nat, p < upTo[L]
    PROVE  \E k \in 1..L : /\ upTo[k - 1] <= p /\ p < upTo[k]
                           /\ \A j \in 1..L : upTo[j - 1] <= p /\ p < upTo[j] => j = k
<1> DEFINE T == {k \in Nat : k <= L => p < upTo[k]}
<1>1. L \in T OBVIOUS
<1>2. PICK k \in T : \A j \in T : k <= j
  <2>1. T \in SUBSET Nat /\ T # {}
    BY <1>1
  <2> HIDE DEF T
  <2> QED BY <2>1, LeastNumber
<1>3. k \in Nat /\ k <= L /\ p < upTo[k] /\ \A j \in Nat : j < k => upTo[j] <= p
  <2>1. k \in Nat /\ k <= L
    <3> HIDE DEF T
    <3> QED BY <1>1, <1>2, T \subseteq Nat DEF T
  <2>2. p < upTo[k]
    BY <2>1, <1>2
  <2>3. ASSUME NEW j \in Nat, j < k PROVE upTo[j] <= p
    <3>1. j \notin T
      <4> HIDE DEF T
      <4> QED BY <1>2, <2>1, <2>3
    <3>2. j <= L /\ ~(p < upTo[j]) /\ j \in 0..L
      BY <2>1, <2>3, <3>1
    <3>3. upTo[j] \in Nat
      BY <3>2
    <3> QED BY <3>2, <3>3
  <2> QED BY <2>1, <2>2, <2>3
<1> HIDE DEF T
<1>4. k # 0
  BY <1>3
<1>5. k \in 1..L /\ k - 1 \in Nat /\ k - 1 < k
  BY <1>3, <1>4
<1>6. ASSUME NEW j \in 1..L, upTo[j - 1] <= p, p < upTo[j] PROVE j = k
  <2>1. ~(j < k)
    <3>1. j < k => upTo[j] <= p
      BY <1>3
    <3>2. upTo[j] \in Nat OBVIOUS
    <3> QED BY <1>6, <3>1, <3>2
  <2>2. ~(k < j)
    <3> DEFINE U == {i \in Nat : i >= k /\ i <= L => upTo[k] <= upTo[i]}
    <3>1. 0 \in U
      BY <1>5
    <3>2. ASSUME NEW i \in Nat, i >= k /\ i <= L => upTo[k] <= upTo[i]
          PROVE  i + 1 >= k /\ i + 1 <= L => upTo[k] <= upTo[i + 1]
      <4>1. SUFFICES ASSUME i + 1 >= k, i + 1 <= L PROVE upTo[k] <= upTo[i + 1]
        OBVIOUS
      <4>2. upTo[k] \in Nat
        BY <1>5
      <4>3. CASE i + 1 = k BY <4>2, <4>3
      <4>4. CASE i + 1 # k
        <5>1. i >= k /\ i <= L /\ i + 1 \in 1..L /\ (i + 1) - 1 = i /\ i \in 0..L /\ i + 1 \in 0..L
          BY <1>5, <4>1, <4>4
        <5>2. upTo[k] <= upTo[i] /\ upTo[i] < upTo[i + 1]
          BY <3>2, <5>1
        <5>3. upTo[i] \in Nat /\ upTo[i + 1] \in Nat
          BY <5>1
        <5> QED BY <4>2, <5>2, <5>3
      <4> QED BY <4>3, <4>4
    <3>3. \A i \in U : i + 1 \in U
      BY <3>2
    <3>4. U = Nat
      <4>1. U \subseteq Nat OBVIOUS
      <4> HIDE DEF U
      <4> QED BY <3>1, <3>3, <4>1, NumbersInduction
    <3>5. k < j => j - 1 \in Nat /\ j - 1 >= k /\ j - 1 <= L
      BY <1>5
    <3>6. k < j => upTo[k] <= upTo[j - 1]
      BY <3>4, <3>5
    <3>7. upTo[k] \in Nat /\ upTo[j - 1] \in Nat
      <4>1. k \in 0..L /\ j - 1 \in 0..L
        BY <1>5
      <4> QED BY <4>1
    <3> QED BY <1>3, <1>6, <3>6, <3>7
  <2> QED BY <1>5, <2>1, <2>2
<1> QED BY <1>3, <1>5, <1>6

\* The share of one provider in a turn.
LEMMA Repetitions ==
    ASSUME NEW P, NEW v \in P, NEW n \in Nat
    PROVE  /\ [i \in 1..n |-> v] \in Seq(P)
           /\ Len([i \in 1..n |-> v]) = n
           /\ \A p \in 1..n : [i \in 1..n |-> v][p] = v
  OBVIOUS

\* Over a turn each provider is asked as often as its weight says, from every
\* dispatch on and for all weights, and the walk along the weights is the lookup
\* in the expanded rotation that Scheduler uses (task_graph.py:52).
THEOREM RotationsAreFair ==
    ASSUME NEW members, NEW weights \in Seq(Nat \ {0}), weights # <<>>,
           \A j, k \in DOMAIN weights : members[j] = members[k] => j = k, NEW index \in Nat
    PROVE  RotationIsFair(members, weights, index)
<1> DEFINE L == Len(weights)
           P == {members[k] : k \in 1..L}
           block(k) == [i \in 1..weights[k] |-> members[k]]
           seqs == [k \in DOMAIN weights |-> block(k)]
           turn == RotationOf(members, weights)
<1>1. L \in Nat /\ L > 0 /\ DOMAIN weights = 1..L /\ \A k \in 1..L : weights[k] \in Nat /\ weights[k] > 0
  OBVIOUS
<1>2. PICK upTo \in [0..L -> Nat] :
               /\ upTo[0] = 0
               /\ \A k \in 1..L : upTo[k] = upTo[k - 1] + weights[k]
               /\ \A names, i :
                     ProviderAt(names, weights, i)
                     = names[CHOOSE k \in DOMAIN weights : upTo[k - 1] <= i % upTo[L] /\ i % upTo[L] < upTo[k]]
  BY PartialSums
<1> HIDE DEF L
<1>3. ASSUME NEW k \in 1..L PROVE block(k) \in Seq(P) /\ Len(block(k)) = weights[k] /\ \A p \in 1..weights[k] : block(k)[p] = members[k]
  <2>1. weights[k] \in Nat /\ members[k] \in P
    BY <1>1
  <2>2. PICK n \in Nat, v \in P : n = weights[k] /\ v = members[k]
    BY <2>1
  <2> HIDE DEF P
  <2>3. block(k) = [i \in 1..n |-> v]
    BY <2>2
  <2> HIDE DEF block
  <2>4. block(k) \in Seq(P) /\ Len(block(k)) = n /\ \A p \in 1..n : block(k)[p] = v
    BY <2>3, Repetitions
  <2> QED BY <2>2, <2>4
<1>4. seqs \in [1..L -> Seq(P)] /\ \A k \in 1..L : seqs[k] = block(k)
  <2> HIDE DEF block, P
  <2> QED BY <1>1, <1>3
<1>5. turn = FlattenSeq(seqs)
  BY Zenon DEF RotationOf
<1> HIDE DEF seqs, block, P, turn
<1>6. /\ Len(turn) = upTo[L]
      /\ \A k \in 1..L : \A p \in 1..weights[k] : turn[upTo[k - 1] + p] = members[k]
  <2>1. \A k \in 1..L : upTo[k] = upTo[k - 1] + Len(seqs[k])
    <3> TAKE k \in 1..L
    <3>1. Len(seqs[k]) = weights[k]
      BY <1>3, <1>4
    <3> QED BY <1>2, <3>1
  <2>2. /\ Len(FlattenSeq(seqs)) = upTo[L]
        /\ \A k \in 1..L : \A p \in 1..Len(seqs[k]) : FlattenSeq(seqs)[upTo[k - 1] + p] = seqs[k][p]
    <3>1. SumsLengths(upTo, seqs, L, P)
      BY <1>1, <1>2, <1>4, <2>1 DEF SumsLengths
    <3>2. JoinsAt(FlattenSeq(seqs), upTo, seqs, L)
      BY <3>1, Flattened
    <3> QED BY <3>2 DEF JoinsAt
  <2>3. ASSUME NEW k \in 1..L, NEW p \in 1..weights[k] PROVE turn[upTo[k - 1] + p] = members[k]
    <3>1. seqs[k] = block(k) /\ Len(block(k)) = weights[k] /\ block(k)[p] = members[k]
      BY <1>3, <1>4
    <3>2. FlattenSeq(seqs)[upTo[k - 1] + p] = seqs[k][p]
      BY <2>2, <3>1
    <3> QED BY <1>5, <3>1, <3>2
  <2> QED BY <1>5, <2>2, <2>3
<1>7. PICK t \in Nat : t = upTo[L]
  BY <1>1
<1>8. \A k \in 1..L : upTo[k - 1] \in Nat /\ upTo[k] \in Nat /\ upTo[k - 1] < upTo[k] /\ upTo[k] = upTo[k - 1] + weights[k]
  <2> TAKE k \in 1..L
  <2>1. k - 1 \in 0..L /\ k \in 0..L
    BY <1>1
  <2>2. upTo[k - 1] \in Nat /\ upTo[k] \in Nat
    BY <2>1
  <2> QED BY <1>1, <1>2, <2>2
<1>9. t > 0
  <2>1. L \in 1..L
    BY <1>1
  <2> QED BY <1>7, <1>8, <2>1
<1>10. ASSUME NEW i \in Nat
       PROVE  /\ i % t \in Nat
              /\ \A k \in 1..L : upTo[k - 1] <= i % t /\ i % t < upTo[k] => ProviderAt(members, weights, i) = members[k]
              /\ \E k \in 1..L : upTo[k - 1] <= i % t /\ i % t < upTo[k]
  <2>1. i % t \in 0..t - 1 /\ i % t \in Nat
    BY <1>9
  <2>2. PICK p \in Nat : p = i % t
    BY <2>1
  <2>3. p < upTo[L]
    BY <1>7, <2>1, <2>2
  <2>4. \A j \in 1..L : upTo[j - 1] < upTo[j]
    BY <1>8
  <2>5. PICK k \in 1..L : /\ upTo[k - 1] <= p /\ p < upTo[k]
                          /\ \A j \in 1..L : upTo[j - 1] <= p /\ p < upTo[j] => j = k
    BY <1>1, <1>2, <2>3, <2>4, SumsDivide
  <2>6. (CHOOSE j \in 1..L : upTo[j - 1] <= p /\ p < upTo[j]) = k
    BY <2>5
  <2>7. ProviderAt(members, weights, i) = members[CHOOSE j \in 1..L : upTo[j - 1] <= p /\ p < upTo[j]]
    BY <1>1, <1>2, <1>7, <2>2, Zenon
  <2> QED BY <2>1, <2>2, <2>5, <2>6, <2>7
<1>11. ProviderAt(members, weights, index) = turn[(index % Len(turn)) + 1]
  <2>1. PICK k \in 1..L : upTo[k - 1] <= index % t /\ index % t < upTo[k]
    BY <1>10
  <2>2. ProviderAt(members, weights, index) = members[k]
    BY <1>10, <2>1
  <2>3. PICK r \in Nat : r = index % t
    BY <1>10
  <2>4. PICK a \in Nat : a = upTo[k - 1]
    BY <1>8
  <2>5. (r + 1) - a \in 1..weights[k] /\ a + ((r + 1) - a) = r + 1
    <3>1. a <= r /\ r < a + weights[k] /\ weights[k] \in Nat
      BY <1>1, <1>8, <2>1, <2>3, <2>4
    <3> QED BY <3>1
  <2>6. turn[a + ((r + 1) - a)] = members[k]
    BY <1>6, <2>4, <2>5
  <2>7. Len(turn) = t
    BY <1>6, <1>7
  <2> QED BY <2>2, <2>3, <2>5, <2>6, <2>7
<1>12. ASSUME NEW k \in 1..L
       PROVE  Cardinality({i \in index..index + Len(turn) - 1 : ProviderAt(members, weights, i) = members[k]}) = weights[k]
  <2> DEFINE B == upTo[k - 1]..upTo[k] - 1
  <2>1. Len(turn) = t
    BY <1>6, <1>7
  <2>2. ASSUME NEW i \in Nat PROVE ProviderAt(members, weights, i) = members[k] <=> i % t \in B
    <3>1. PICK r \in Nat : r = i % t
      BY <1>10
    <3>2. upTo[k - 1] <= r /\ r < upTo[k] <=> r \in B
      BY <1>8
    <3>3. PICK j \in 1..L : upTo[j - 1] <= r /\ r < upTo[j]
      BY <1>10, <3>1
    <3>4. ProviderAt(members, weights, i) = members[j]
      BY <1>10, <3>1, <3>3
    <3>5. r \in B => ProviderAt(members, weights, i) = members[k]
      BY <1>10, <3>1, <3>2
    <3>6. members[j] = members[k] => j = k
      BY <1>1
    <3> HIDE DEF B
    <3> QED BY <3>1, <3>2, <3>3, <3>4, <3>5, <3>6
  <2>3. {i \in index..index + t - 1 : ProviderAt(members, weights, i) = members[k]} = {i \in index..index + t - 1 : i % t \in B}
    <3> HIDE DEF B
    <3>1. \A i \in index..index + t - 1 : i \in Nat OBVIOUS
    <3> QED BY <2>2, <3>1
  <2>4. PICK a \in Nat, b \in Nat : a = upTo[k - 1] /\ b = upTo[k]
    BY <1>8
  <2>5. weights[k] \in Nat /\ b = a + weights[k] /\ a < b
    BY <1>1, <1>8, <2>4
  <2>6. Cardinality(a..b - 1) = weights[k]
    <3>1. a \in Int /\ b - 1 \in Int /\ ~(a > b - 1) /\ (b - 1) - a + 1 = weights[k]
      BY <2>5
    <3> QED BY <3>1, FS_Interval
  <2>7. b <= t
    <3> DEFINE U == {i \in Nat : i >= k /\ i <= L => b <= upTo[i]}
    <3>1. 0 \in U OBVIOUS
    <3>2. ASSUME NEW i \in Nat, i >= k /\ i <= L => b <= upTo[i]
          PROVE  i + 1 >= k /\ i + 1 <= L => b <= upTo[i + 1]
      <4>1. SUFFICES ASSUME i + 1 >= k, i + 1 <= L PROVE b <= upTo[i + 1]
        OBVIOUS
      <4>2. CASE i + 1 = k BY <2>4, <4>2
      <4>3. CASE i + 1 # k
        <5>1. i >= k /\ i <= L /\ i + 1 \in 1..L /\ (i + 1) - 1 = i
          BY <1>1, <4>1, <4>3
        <5>2. upTo[i] \in Nat /\ upTo[i + 1] \in Nat /\ upTo[i] < upTo[i + 1]
          BY <1>8, <5>1
        <5> QED BY <3>2, <5>1, <5>2
      <4> QED BY <4>2, <4>3
    <3>3. \A i \in U : i + 1 \in U
      <4> TAKE i \in U
      <4>1. i \in Nat /\ (i >= k /\ i <= L => b <= upTo[i])
        BY Zenon
      <4>2. i + 1 \in Nat
        BY <4>1
      <4>3. i + 1 >= k /\ i + 1 <= L => b <= upTo[i + 1]
        BY <3>2, <4>1
      <4> QED BY <4>2, <4>3, Zenon
    <3>4. U = Nat
      <4>1. U \subseteq Nat OBVIOUS
      <4> HIDE DEF U
      <4> QED BY <3>1, <3>3, <4>1, NumbersInduction
    <3>5. L \in Nat /\ L >= k /\ L <= L
      BY <1>1
    <3> QED BY <1>7, <3>4, <3>5
  <2>8. a..b - 1 \in SUBSET (0..t - 1)
    BY <2>7
  <2>9. Cardinality({i \in index..index + t - 1 : i % t \in a..b - 1}) = weights[k]
    BY <1>9, <2>6, <2>8, WindowsCount
  <2> QED BY <2>1, <2>3, <2>4, <2>9
<1> QED BY <1>1, <1>11, <1>12, Zenon DEF RotationIsFair, turn

\* What construction accepts is what an execution may rely on, for every graph,
\* whatever identifiers it names and whatever it claims to write
\* (task_graph.py:104, :126, :140).
THEOREM GraphsAreSound ==
    ASSUME NEW deps, IsFiniteSet(DOMAIN deps), DOMAIN deps \subseteq Nat,
           NEW Parts, NEW writes \in [DOMAIN deps -> SUBSET Seq(Parts)]
    PROVE  GraphIsSound(deps, writes)
<1>1. Validate(deps, writes) = "valid" => IsGraph(deps)
  BY ValidGraphs DEF IsGraph
<1> QED
  BY <1>1, RejectedCycles, OrdersAreTopological, WritersAreOrdered, DependenciesAreExact DEF GraphIsSound

\* What Scheduler and SessionDocuments assume of a graph is what its
\* construction establishes (task_graph.py:104, :118, :126, :140).
THEOREM AcceptedGraphsMeetTheAssumptions ==
    ASSUME NEW deps, IsFiniteSet(DOMAIN deps), DOMAIN deps \subseteq Nat,
           NEW Parts, NEW writes \in [DOMAIN deps -> SUBSET Seq(Parts)],
           Validate(deps, writes) = "valid"
    PROVE  LET nodes == DOMAIN deps
               order == TopologicalOrder(deps)
               ancestors == [n \in nodes |-> AncestorsOf(deps, n)]
               writers == {n \in nodes : writes[n] # {}}
           IN /\ \A n \in nodes : deps[n] \subseteq nodes
              /\ order \in Seq(nodes)
              /\ \A n \in nodes : \E i \in DOMAIN order : order[i] = n
              /\ \A i, j \in DOMAIN order : order[i] = order[j] => i = j
              /\ \A i \in DOMAIN order : \A d \in deps[order[i]] : \E j \in DOMAIN order : j < i /\ order[j] = d
              /\ ancestors \in [nodes -> SUBSET nodes]
              /\ \A n \in nodes : /\ ancestors[n] = deps[n] \cup UNION {ancestors[d] : d \in deps[n]}
                                  /\ n \notin ancestors[n]
              /\ \A m, n \in writers : m # n /\ ClaimsOverlap(writes[m], writes[n]) =>
                    m \in ancestors[n] \/ n \in ancestors[m]
<1> DEFINE nodes == DOMAIN deps
           order == TopologicalOrder(deps)
           ancestors == [n \in nodes |-> AncestorsOf(deps, n)]
<1>1. /\ \A n \in nodes : deps[n] \subseteq nodes \ {n}
      /\ ~IsCyclic(deps) /\ ~UnorderedConflict(deps, writes) /\ IsGraph(deps)
  BY ValidGraphs DEF IsGraph
<1>2. order \in Seq(nodes) /\ ToSet(order) = nodes /\ Len(order) = Cardinality(nodes)
  BY <1>1, OrderFollowsRounds
<1>3. \A n \in nodes : \A d \in deps[n] : Before(order, d, n)
  BY OrdersAreTopological, Zenon DEF OrderIsTopological
<1>4. \A n \in nodes : /\ AncestorsOf(deps, n) \subseteq nodes
                       /\ AncestorsOf(deps, n) = deps[n] \cup UNION {AncestorsOf(deps, d) : d \in deps[n]}
                       /\ \A m : m \in AncestorsOf(deps, n) <=> Reaches(deps, n, m)
  BY <1>1, AncestorsAreLeast, AncestorsAreThoseOfDependencies DEF IsClosed
<1>5. \A n \in nodes : ~Reaches(deps, n, n)
  BY <1>1, CyclesAreFound
<1>6. \A i \in DOMAIN order : order[i] \in nodes
  <2> HIDE DEF order
  <2> QED BY <1>2
<1>7. \A n \in nodes : \E i \in DOMAIN order : order[i] = n
  <2> HIDE DEF order
  <2> QED BY <1>2 DEF ToSet
<1>8. \A i, j \in DOMAIN order : order[i] = order[j] => i = j
  <2> HIDE DEF order, nodes
  <2>1. Len(order) \in Nat /\ DOMAIN order = 1..Len(order)
    BY <1>2
  <2>2. order \in Surjection(1..Len(order), nodes)
    BY <1>2, <1>6, <1>7, <2>1 DEF Surjection
  <2>3. IsFiniteSet(1..Len(order)) /\ Cardinality(1..Len(order)) = Len(order)
    <3>1. \A size \in Nat : IsFiniteSet(1..size) /\ Cardinality(1..size) = size
      BY FS_Interval
    <3> QED BY <2>1, <3>1
  <2>4. order \in Injection(1..Len(order), nodes)
    BY <1>2, <2>2, <2>3, FS_SurjSameCardinalityImpliesInj
  <2> QED BY <2>1, <2>4 DEF Injection, IsInjective
<1>9. \A i \in DOMAIN order : \A d \in deps[order[i]] : \E j \in DOMAIN order : j < i /\ order[j] = d
  <2> HIDE DEF order, nodes
  <2>1. SUFFICES ASSUME NEW i \in DOMAIN order, NEW d \in deps[order[i]]
                 PROVE  \E j \in DOMAIN order : j < i /\ order[j] = d
    OBVIOUS
  <2>2. PICK j, k \in DOMAIN order : j < k /\ order[j] = d /\ order[k] = order[i]
    BY <1>3, <1>6 DEF Before
  <2> QED BY <1>8, <2>2
<1>10. \A m, n \in nodes : writes[m] # {} /\ writes[n] # {} /\ m # n /\ ClaimsOverlap(writes[m], writes[n]) =>
           m \in AncestorsOf(deps, n) \/ n \in AncestorsOf(deps, m)
  BY <1>1 DEF UnorderedConflict, DependsOn
<1>11. \A n \in nodes : ancestors[n] = AncestorsOf(deps, n) OBVIOUS
<1>12. \A n \in nodes : {ancestors[d] : d \in deps[n]} = {AncestorsOf(deps, d) : d \in deps[n]}
  BY <1>1, <1>11
<1>13. ancestors \in [nodes -> SUBSET nodes]
  BY <1>4
<1> HIDE DEF nodes, order, ancestors
<1>14. \A n \in nodes : /\ ancestors[n] = deps[n] \cup UNION {ancestors[d] : d \in deps[n]}
                        /\ n \notin ancestors[n]
  BY <1>4, <1>5, <1>11, <1>12
<1> QED BY <1>1, <1>2, <1>7, <1>8, <1>9, <1>10, <1>11, <1>13, <1>14 DEF nodes, order, ancestors
-----------------------------------------------------------------------------
(* The mounts of a container *)

\* Any mounts whose paths consist of these texts.
AnyMounts(Texts) == [source : Seq(Texts), destination : Seq(Texts), type : {"bind", "tmpfs"}, readOnly : BOOLEAN]
OwnNames == {".", "workspace", "tmp", "trusted-tests"}

\* What short sequences are, and their concatenations.
LEMMA ShortSequences ==
    ASSUME NEW S, NEW a \in S, NEW b \in S, NEW c \in S
    PROVE  /\ <<a>> \in Seq(S) /\ <<a, b>> \in Seq(S) /\ <<a, b, c>> \in Seq(S) /\ Len(<<a, b>>) = 2
           /\ << a, b >> \o <<>> = << a, b >> /\ << a, b >> \o << c >> = << a, b, c >>
<1>1. << a, b >> \in Seq(S) /\ Len(<<a, b>>) = 2 /\ << c >> \in Seq(S) /\ Len(<<c>>) = 1
  OBVIOUS
<1>2. << a, b >> \o <<>> = << a, b >>
  BY <1>1
<1>3. << a, b >> \o << c >> = << a, b, c >>
  <2>1. << a, b >> \o << c >> \in Seq(S) /\ Len(<< a, b >> \o << c >>) = 3
    BY <1>1
  <2>2. \A i \in 1..3 : (<< a, b >> \o << c >>)[i] = << a, b, c >>[i]
    BY <1>1
  <2>3. << a, b, c >> \in Seq(S) /\ Len(<< a, b, c >>) = 3 OBVIOUS
  <2> QED BY <2>1, <2>2, <2>3, SeqEqual
<1> QED BY <1>1, <1>2, <1>3

\* A path without ".." leads below whatever it begins with.
LEMMA LeadsBelowPrefix ==
    ASSUME NEW S, NEW a \in Seq(S), NEW b \in Seq(S), IsPrefix(a, b), ".." \notin ToSet(b)
    PROVE  LeadsBelow(a, b)
<1>1. ASSUME NEW k \in Len(a)..Len(b)
      PROVE  2 * Cardinality({i \in Len(a) + 1..k : b[i] = ".."}) <= k - Len(a)
  <2> DEFINE ups == {i \in Len(a) + 1..k : b[i] = ".."}
  <2>1. ups = {}
    BY DEF ToSet
  <2>2. Cardinality({}) = 0
    BY FS_EmptySet
  <2>3. k \in Nat /\ Len(a) \in Nat /\ k >= Len(a) OBVIOUS
  <2> HIDE DEF ups
  <2>4. 2 * Cardinality(ups) <= k - Len(a)
    BY <2>1, <2>2, <2>3
  <2> QED BY <2>4 DEF ups
<1> QED BY <1>1 DEF LeadsBelow

\* A sequence without repetitions has as many elements as places.
LEMMA DistinctElements ==
    ASSUME NEW S, NEW s \in Seq(S), \A i, k \in DOMAIN s : s[i] = s[k] => i = k
    PROVE  Cardinality(ToSet(s)) = Len(s)
<1>1. Len(s) \in Nat /\ s \in [1..Len(s) -> ToSet(s)]
  BY DEF ToSet
<1>2. s \in Bijection(1..Len(s), ToSet(s))
  BY <1>1 DEF Bijection, Injection, Surjection, IsInjective, ToSet
<1>3. ExistsBijection(1..Len(s), ToSet(s))
  BY <1>2 DEF ExistsBijection
<1> QED BY <1>1, <1>3, FS_CountingElements

\* Whatever mounts are asked for, under whatever policy, a container that is
\* started has its scratch directory at its working place, none of the blocked
\* paths, one thing under each path, no network that was not asked for and, where
\* a destination has no "..", nothing outside the policy's places
\* (container_sandbox.py:104).
THEOREM ContainersAreConfined ==
    ASSUME NEW Texts, OwnNames \subseteq Texts,
           NEW allowed \in SUBSET Seq(Texts), NEW extras \in BOOLEAN, NEW readOnlyRoot \in BOOLEAN,
           NEW noNewPrivileges \in BOOLEAN,
           NEW scratch \in Seq(Texts), NEW extra \in Seq(AnyMounts(Texts)), NEW network \in BOOLEAN
    PROVE  ContainerIsConfined(Policy(allowed, extras, readOnlyRoot, noNewPrivileges), scratch, extra, network)
<1> DEFINE policy == Policy(allowed, extras, readOnlyRoot, noNewPrivileges)
           mounts == DefaultMounts(scratch) \o extra
           argv == Argv(policy, mounts, IF network THEN "bridge" ELSE "none")
<1>1. mounts \in Seq(AnyMounts(Texts)) /\ Len(mounts) = 2 + Len(extra)
  <2>1. \A n \in Seq(Texts), d \in Seq(Texts), t \in {"bind", "tmpfs"}, b \in BOOLEAN : Mount(n, d, t, b) \in AnyMounts(Texts)
    BY DEF Mount, AnyMounts
  <2>2. WorkDir \in Seq(Texts) /\ TmpDir \in Seq(Texts) /\ <<".">> \in Seq(Texts)
    <3>1. "." \in Texts /\ "workspace" \in Texts /\ "tmp" \in Texts
      BY DEF OwnNames
    <3> QED BY <3>1, ShortSequences DEF WorkDir, TmpDir
  <2>3. Mount(scratch, WorkDir, "bind", FALSE) \in AnyMounts(Texts) /\ Mount(<<".">>, TmpDir, "tmpfs", FALSE) \in AnyMounts(Texts)
    BY <2>1, <2>2
  <2>4. DefaultMounts(scratch) \in Seq(AnyMounts(Texts)) /\ Len(DefaultMounts(scratch)) = 2
    BY <2>3, ShortSequences DEF DefaultMounts
  <2>5. Len(mounts) = Len(DefaultMounts(scratch)) + Len(extra) /\ mounts \in Seq(AnyMounts(Texts))
    BY <2>4, ConcatProperties
  <2> QED BY <2>4, <2>5
<1>2. /\ mounts[1] = Mount(scratch, WorkDir, "bind", FALSE)
      /\ 1 \in DOMAIN mounts
  BY DEF DefaultMounts
<1>3. /\ argv.mounts = ToSet(mounts) /\ argv.network = IF network THEN "bridge" ELSE "none"
      /\ argv.ok = TRUE /\ ~Refused.ok
  BY DEF Argv, Refused
<1>4. policy.allowed = allowed /\ policy.extras = extras
  BY DEF Policy
<1> HIDE DEF policy, mounts, argv
<1>5. SUFFICES ASSUME ContainerCommand(policy, scratch, extra, network).ok
               PROVE  /\ \A m \in argv.mounts :
                           /\ ~GoesUp(m) => \E a \in policy.allowed : LeadsBelow(a, m.destination)
                           /\ m.type = "bind" => ~IsBlockedSource(m.source)
                           /\ m.destination = WorkDir => m.source = scratch /\ m.type = "bind"
                      /\ \A m, o \in argv.mounts : m.destination = o.destination => m = o
                      /\ Cardinality(argv.mounts) = 2 + Len(extra)
                      /\ extra # <<>> => policy.extras
                      /\ argv.network # "none" => network
  BY <1>3 DEF ContainerIsConfined, ContainerCommand, policy, mounts, argv
<1>6. /\ extra = <<>> \/ policy.extras
      /\ ~IsBlockedSource(scratch) /\ ValidMounts(policy, mounts)
  BY <1>3, <1>5 DEF ContainerCommand, policy, mounts, argv
<1>7. \A i, k \in DOMAIN mounts : mounts[i].destination = mounts[k].destination => i = k
  BY <1>6 DEF ValidMounts, IsInjective
<1>8. ASSUME NEW m \in argv.mounts
      PROVE  /\ ~GoesUp(m) => \E a \in policy.allowed : LeadsBelow(a, m.destination)
             /\ m.type = "bind" => ~IsBlockedSource(m.source)
             /\ m.destination = WorkDir => m.source = scratch /\ m.type = "bind"
  <2>1. PICK i \in DOMAIN mounts : m = mounts[i]
    BY <1>3 DEF ToSet
  <2>2. ValidMount(policy, m) /\ m \in AnyMounts(Texts)
    BY <1>1, <1>6, <2>1 DEF ValidMounts
  <2>3. m.type = "bind" => ~IsBlockedSource(m.source)
    BY <2>2 DEF ValidMount
  <2>4. m.destination = WorkDir => m.source = scratch /\ m.type = "bind"
    BY <1>2, <1>7, <2>1 DEF Mount
  <2>5. PICK a \in policy.allowed : IsPrefix(a, m.destination)
    BY <2>2 DEF ValidMount, IsAllowedDestination
  <2>6. ~GoesUp(m) => LeadsBelow(a, m.destination)
    BY <1>4, <2>2, <2>5, LeadsBelowPrefix DEF AnyMounts, GoesUp
  <2> QED BY <2>3, <2>4, <2>5, <2>6
<1>9. \A m, o \in argv.mounts : m.destination = o.destination => m = o
  BY <1>3, <1>7 DEF ToSet
<1>10. Cardinality(argv.mounts) = 2 + Len(extra)
  BY <1>1, <1>3, <1>7, DistinctElements
<1> QED BY <1>3, <1>6, <1>8, <1>9, <1>10

\* A project is given a container unless its path or that of its trusted tests is
\* a blocked one; it writes to itself alone and no mount hides another
\* (project_validation.py:132).
THEOREM ProjectsAreConfined ==
    ASSUME NEW Texts, NEW root \in Seq(Texts), NEW bundle \in Seq(Texts),
           NEW bundles \in {<<>>, <<bundle>>}, NEW network \in BOOLEAN
    PROVE  ProjectIsConfined(root, bundles, network)
<1> DEFINE policy == Policy({WorkDir, TmpDir} \cup (IF bundles = <<>> THEN {} ELSE {TrustedTests}),
                            bundles # <<>>, TRUE, TRUE)
           own == Mount(root, WorkDir, "bind", FALSE)
           tmp == Mount(<<".">>, TmpDir, "tmpfs", FALSE)
           tests == Mount(bundle, TrustedTests, "bind", TRUE)
           extra == [i \in DOMAIN bundles |-> Mount(bundles[i], TrustedTests, "bind", TRUE)]
           mounts == IF bundles = <<>> THEN << own, tmp >> ELSE << own, tmp, tests >>
           argv == Argv(policy, mounts, IF network THEN "bridge" ELSE "none")
           given == {root} \cup ToSet(bundles)
           usable(path) == ~IsBlockedSource(path) /\ Socket \notin ToSet(path)
<1>0. (bundles = <<>> /\ DOMAIN bundles = {}) \/ (bundles # <<>> /\ bundles = <<bundle>> /\ DOMAIN bundles = {1})
  OBVIOUS
<1>22. extra = IF bundles = <<>> THEN <<>> ELSE << tests >>
  <2>1. CASE bundles = <<>>
    <3>1. extra = [i \in {} |-> tests] /\ <<>> = [i \in {} |-> tests]
      BY <1>0, <2>1
    <3> QED BY <2>1, <3>1
  <2>2. CASE bundles # <<>>
    <3>1. bundles[1] = bundle
      BY <1>0, <2>2
    <3>2. extra = [i \in {1} |-> tests]
      BY <1>0, <2>2, <3>1
    <3> HIDE DEF tests, extra
    <3>3. << tests >> = [i \in {1} |-> tests]
      BY 1..1 = {1}
    <3> QED BY <2>2, <3>2, <3>3
  <2> QED BY <2>1, <2>2
<1>1. mounts = DefaultMounts(root) \o extra
  <2> HIDE DEF own, tmp, tests, extra
  <2>1. DefaultMounts(root) = << own, tmp >>
    BY DEF DefaultMounts, own, tmp
  <2>2. << own, tmp >> \o <<>> = << own, tmp >> /\ << own, tmp >> \o << tests >> = << own, tmp, tests >>
    BY ShortSequences, own \in {own, tmp, tests}, tmp \in {own, tmp, tests}, tests \in {own, tmp, tests}
  <2> QED BY <1>22, <2>1, <2>2
<1>2. ToSet(mounts) = IF bundles = <<>> THEN {own, tmp} ELSE {own, tmp, tests}
  <2> HIDE DEF own, tmp, tests
  <2>1. DOMAIN << own, tmp >> = 1..2 /\ DOMAIN << own, tmp, tests >> = 1..3
    OBVIOUS
  <2>2. {<< own, tmp >>[i] : i \in 1..2} = {own, tmp} OBVIOUS
  <2>3. {<< own, tmp, tests >>[i] : i \in 1..3} = {own, tmp, tests} OBVIOUS
  <2> QED BY <2>1, <2>2, <2>3 DEF ToSet
<1>3. /\ policy.allowed = IF bundles = <<>> THEN {WorkDir, TmpDir} ELSE {WorkDir, TmpDir, TrustedTests}
      /\ policy.extras = (bundles # <<>>) /\ policy.readOnlyRoot = TRUE /\ policy.noNewPrivileges = TRUE
  BY DEF Policy
<1>4. /\ own.source = root /\ own.destination = WorkDir /\ own.type = "bind" /\ own.readOnly = FALSE
      /\ tmp.source = <<".">> /\ tmp.destination = TmpDir /\ tmp.type = "tmpfs" /\ tmp.readOnly = FALSE
      /\ tests.source = bundle /\ tests.destination = TrustedTests /\ tests.type = "bind" /\ tests.readOnly = TRUE
  BY DEF Mount
<1>5. \A a, b \in {WorkDir, TmpDir, TrustedTests} : IsPrefix(a, b) <=> a = b
  <2>1. \A a, b \in {WorkDir, TmpDir, TrustedTests} : Len(a) = 1 /\ SubSeq(a, 1, Len(a)) = a /\ SubSeq(b, 1, Len(a)) = b
    BY DEF WorkDir, TmpDir, TrustedTests
  <2> QED BY <2>1 DEF IsPrefix
<1>6. WorkDir # TmpDir /\ WorkDir # TrustedTests /\ TmpDir # TrustedTests
  BY DEF WorkDir, TmpDir, TrustedTests
<1>7. \A d \in {WorkDir, TmpDir, TrustedTests} : IsAbsolute(d)
  BY DEF WorkDir, TmpDir, TrustedTests, IsAbsolute
<1>8. \A d \in {WorkDir, TmpDir, TrustedTests} : Socket \notin ToSet(d)
  BY DEF WorkDir, TmpDir, TrustedTests, Socket, ToSet
<1>9. given = IF bundles = <<>> THEN {root} ELSE {root, bundle}
  <2>1. ToSet(<<bundle>>) = {bundle} /\ ToSet(<<>>) = {}
    BY DEF ToSet
  <2> QED BY <1>0, <2>1
<1>10. DOMAIN mounts = IF bundles = <<>> THEN {1, 2} ELSE {1, 2, 3}
  <2>1. 1..2 = {1, 2} /\ 1..3 = {1, 2, 3} OBVIOUS
  <2>2. DOMAIN mounts = IF bundles = <<>> THEN 1..2 ELSE 1..3 OBVIOUS
  <2> QED BY <2>1, <2>2
<1>11. /\ mounts[1] = own /\ mounts[2] = tmp
       /\ bundles # <<>> => mounts[3] = tests
  OBVIOUS
<1> HIDE DEF policy, own, tmp, tests, mounts, given
<1>12. ValidMounts(policy, mounts) <=> \A path \in given : ~IsBlockedSource(path)
  <2>1. /\ ValidMount(policy, own) <=> ~IsBlockedSource(root)
        /\ ValidMount(policy, tmp)
        /\ bundles # <<>> => (ValidMount(policy, tests) <=> ~IsBlockedSource(bundle))
    BY <1>3, <1>4, <1>5, <1>7 DEF ValidMount, IsAllowedDestination
  <2>2. (\A i \in DOMAIN mounts : ValidMount(policy, mounts[i])) <=> \A path \in given : ~IsBlockedSource(path)
    BY <1>9, <1>10, <1>11, <2>1
  <2>3. IsInjective([i \in DOMAIN mounts |-> mounts[i].destination])
    <3>1. mounts[1].destination = WorkDir /\ mounts[2].destination = TmpDir
      BY <1>4, <1>11
    <3>2. bundles # <<>> => mounts[3].destination = TrustedTests
      BY <1>4, <1>11
    <3>3. \A i, k \in DOMAIN mounts : mounts[i].destination = mounts[k].destination => i = k
      <4>1. CASE bundles = <<>> BY <1>6, <1>10, <3>1, <4>1
      <4>2. CASE bundles # <<>> BY <1>6, <1>10, <3>1, <3>2, <4>2
      <4> QED BY <4>1, <4>2
    <3> QED BY <3>3 DEF IsInjective
  <2>4. Destinations(mounts) = IF bundles = <<>> THEN {WorkDir, TmpDir} ELSE {WorkDir, TmpDir, TrustedTests}
    <3>1. mounts[1].destination = WorkDir /\ mounts[2].destination = TmpDir
      BY <1>4, <1>11
    <3>2. CASE bundles = <<>>
      <4>1. DOMAIN mounts = {1, 2}
        BY <1>10, <3>2
      <4>2. {mounts[i].destination : i \in {1, 2}} = {mounts[1].destination, mounts[2].destination}
        OBVIOUS
      <4> QED BY <3>1, <3>2, <4>1, <4>2 DEF Destinations
    <3>3. CASE bundles # <<>>
      <4>1. DOMAIN mounts = {1, 2, 3} /\ mounts[3].destination = TrustedTests
        BY <1>4, <1>10, <1>11, <3>3
      <4>2. {mounts[i].destination : i \in {1, 2, 3}}
              = {mounts[1].destination, mounts[2].destination, mounts[3].destination}
        OBVIOUS
      <4> QED BY <3>1, <3>3, <4>1, <4>2 DEF Destinations
    <3> QED BY <3>2, <3>3
  <2> QED BY <1>3, <2>2, <2>3, <2>4 DEF ValidMounts
<1>13. argv.ok = TRUE /\ argv.mounts = ToSet(mounts) /\ argv.readOnly = TRUE /\ argv.noNewPrivileges = TRUE
  BY <1>3 DEF Argv
<1> HIDE DEF argv
<1>14. CommandObeysPolicy(argv, policy) <=> \A path \in given : Socket \notin ToSet(path)
  <2>1. ToSet(mounts) = {own, tmp} \cup (IF bundles = <<>> THEN {} ELSE {tests})
    BY <1>2
  <2>2. \A m \in ToSet(mounts) : IsAllowedDestination(policy, m.destination)
    BY <1>3, <1>4, <1>5, <2>1 DEF IsAllowedDestination
  <2>3. /\ Socket \notin WordsOf(own) <=> Socket \notin ToSet(root)
        /\ Socket \notin WordsOf(tests) <=> Socket \notin ToSet(bundle)
        /\ Socket \notin WordsOf(tmp)
    BY <1>4, <1>8 DEF WordsOf
  <2> QED BY <1>3, <1>9, <1>13, <2>1, <2>2, <2>3 DEF CommandObeysPolicy
<1>15. ProjectContainerCommand(root, bundles, network)
         = IF \A path \in given : usable(path) THEN argv ELSE Refused
  <2>1. ProjectContainerCommand(root, bundles, network) = ContainerCommand(policy, root, extra, network)
    BY DEF ProjectContainerCommand, policy
  <2>2. ContainerCommand(policy, root, extra, network)
          = IF /\ extra = <<>> \/ policy.extras
               /\ ~IsBlockedSource(root) /\ ValidMounts(policy, mounts) /\ CommandObeysPolicy(argv, policy)
            THEN argv ELSE Refused
    BY <1>1 DEF ContainerCommand, argv
  <2>3. extra = <<>> \/ policy.extras
    BY <1>3, <1>22
  <2>4. root \in given
    BY DEF given
  <2> QED BY <1>12, <1>14, <2>1, <2>2, <2>3, <2>4
<1>16. {m.source : m \in {m \in ToSet(mounts) : m.type = "bind" /\ ~m.readOnly}} = {root}
  <2>1. {m \in ToSet(mounts) : m.type = "bind" /\ ~m.readOnly} = {own}
    BY <1>2, <1>4
  <2> QED BY <1>4, <2>1
<1>17. \A m, o \in ToSet(mounts) : m # o => ~IsPrefix(m.destination, o.destination)
  BY <1>2, <1>4, <1>5, <1>6
<1> QED BY <1>13, <1>15, <1>16, <1>17 DEF ProjectIsConfined, Refused, given
-----------------------------------------------------------------------------
(* What the runs enumerate *)

\* The gate of a behaviour that validates no draft is among those enumerated.
GateInv ==
    /\ gate.topic = "graph" => gate \in GraphGate
    /\ gate.topic = "turn" => gate \in TurnGate
    /\ gate.topic = "mounts" => gate \in MountGate
    /\ gate.topic = "policy" => gate \in PolicyGate

LEMMA GateIsEnumerated == OperatorsSpec => []GateInv
<1>1. OperatorsInit => GateInv
  <2>1. \A g \in GraphGate : g.topic = "graph"
    BY DEF GraphGate
  <2>2. \A g \in TurnGate : g.topic = "turn"
    BY DEF TurnGate
  <2>3. \A g \in MountGate : g.topic = "mounts"
    BY DEF MountGate, Policy
  <2>4. NoGate.topic = "walk" /\ \A g \in PolicyGate : g.topic = "policy"
    BY DEF NoGate, PolicyGate
  <2>5. \A g \in RepairGate : g.topic = "repair"
    BY DEF RepairGate
  <2>6. \A g \in FormalGates : g.topic = "formal"
    BY DEF FormalGates
  <2>7. \A g \in ImportsGate : g.topic = "imports"
    BY DEF ImportsGate
  <2>8. \A g \in ContractsGate : g.topic = "contracts"
    BY DEF ContractsGate
  <2>9. SUFFICES ASSUME OperatorsInit PROVE GateInv
    OBVIOUS
  <2>10. gate = NoGate \/ gate \in PolicyGate \cup RepairGate \cup FormalGates \cup ImportsGate \cup ContractsGate
         \/ gate \in GraphGate \cup TurnGate \cup MountGate
    BY <2>9, Zenon DEF OperatorsInit, ValidationInit
  <2> QED BY <2>1, <2>2, <2>3, <2>4, <2>5, <2>6, <2>7, <2>8, <2>10 DEF GateInv
<1>2. GateInv /\ [gate = NoGate /\ WalkNext /\ UNCHANGED gate]_validationVars => GateInv'
  <2>1. gate' = gate => (GateInv <=> GateInv')
    BY Zenon DEF GateInv
  <2> QED BY <2>1 DEF validationVars
<1> QED BY <1>1, <1>2, PTL DEF OperatorsSpec

\* Every task graph that is enumerated is sound if it is accepted, and every
\* policy is fair, for any identifiers and weights (task_graph.py:104, :126, :140, :52).
THEOREM EnumeratedGraphsAreSound == OperatorsSpec => []TaskGraphsAreSound
<1>1. ASSUME gate \in GraphGate
      PROVE  GraphIsSound(gate.deps, gate.writes)
  <2>1. PICK d \in [NodeIds -> SUBSET (NodeIds \cup {UnknownId})], w \in [NodeIds -> ClaimSets] :
               gate = [topic |-> "graph", deps |-> d, writes |-> w]
    BY <1>1 DEF GraphGate
  <2>2. ClaimSets \subseteq SUBSET Seq({"src", "a", "doc"})
    <3>1. \A S : {"src", "a", "doc"} \subseteq S => <<"src">> \in Seq(S) /\ <<"src", "a">> \in Seq(S) /\ <<"doc">> \in Seq(S)
      OBVIOUS
    <3> QED BY <3>1 DEF ClaimSets
  <2>3. DOMAIN d = NodeIds /\ w \in [DOMAIN d -> SUBSET Seq({"src", "a", "doc"})]
    BY <2>2
  <2>4. GraphIsSound(d, w)
    BY <2>3, GraphAssumption, GraphsAreSound
  <2> QED BY <2>1, <2>4
<1>2. ASSUME gate \in TurnGate
      PROVE  RotationIsFair(ProviderNames, gate.weights, gate.index)
  <2>0. PICK w \in UNION {[1..k -> 1..MaxWeight] : k \in 1..Len(ProviderNames)},
             i \in 0..(2 * MaxWeight * Len(ProviderNames)) : gate = [topic |-> "turn", weights |-> w, index |-> i]
    BY <1>2 DEF TurnGate
  <2>1. PICK k \in 1..Len(ProviderNames) : w \in [1..k -> 1..MaxWeight]
    OBVIOUS
  <2>2. Len(ProviderNames) = 3 /\ \A j, m \in 1..3 : ProviderNames[j] = ProviderNames[m] => j = m
    <3>1. Len(ProviderNames) = 3 /\ ProviderNames[1] = "qwen" /\ ProviderNames[2] = "api" /\ ProviderNames[3] = "local"
      BY DEF ProviderNames
    <3>2. \A j \in 1..3 : j = 1 \/ j = 2 \/ j = 3 OBVIOUS
    <3> QED BY <3>1, <3>2
  <2>3. w \in Seq(Nat \ {0}) /\ w # <<>> /\ DOMAIN w = 1..k /\ k \in 1..3
    <3>1. k \in Nat /\ k > 0 /\ k \in 1..3
      BY <2>2
    <3>2. w \in [1..k -> Nat \ {0}]
      <4>1. 1..MaxWeight \subseteq Nat \ {0}
        BY PolicyAssumption
      <4> QED BY <2>1, <4>1
    <3>3. w \in Seq(Nat \ {0}) /\ Len(w) = k
      BY <3>1, <3>2
    <3> QED BY <3>1, <3>2, <3>3
  <2>4. i \in Nat
    <3>1. 2 * MaxWeight * Len(ProviderNames) = 6 * MaxWeight
      BY <2>2, PolicyAssumption
    <3> QED BY <3>1, PolicyAssumption
  <2>5. \A j, m \in DOMAIN w : ProviderNames[j] = ProviderNames[m] => j = m
    BY <2>2, <2>3
  <2>6. RotationIsFair(ProviderNames, w, i)
    BY <2>3, <2>4, <2>5, RotationsAreFair
  <2> QED BY <2>0, <2>6
<1>3. GateInv => TaskGraphsAreSound
  BY <1>1, <1>2 DEF GateInv, TaskGraphsAreSound
<1> QED BY <1>3, GateIsEnumerated, PTL

SomeTexts == OwnNames \cup {"t", "..", "project", "tests", "etc", "run", Socket}

\* Every container that is enumerated, and every project, is as the policy has it
\* (container_sandbox.py:104, project_validation.py:132).
THEOREM EnumeratedMountsAreConfined == OperatorsSpec => []MountsAreConfined
<1>1. ASSUME gate \in MountGate
      PROVE  /\ ContainerIsConfined(gate.policy, gate.scratch, gate.extra, gate.network)
             /\ \A b \in SomeBundles : ProjectIsConfined(gate.scratch, <<b>>, gate.network)
             /\ ProjectIsConfined(gate.scratch, <<>>, gate.network)
  <2>1. PICK a \in SomeAllowed, e \in BOOLEAN, r \in BOOLEAN, s \in {Project, <<>>}, x \in SomeExtras, n \in BOOLEAN :
               gate = [topic |-> "mounts", policy |-> Policy(a, e, r, TRUE), scratch |-> s, extra |-> x, network |-> n]
    BY <1>1 DEF MountGate, Policy
  <2>2. OwnNames \subseteq SomeTexts /\ TRUE \in BOOLEAN
    BY Zenon DEF SomeTexts
  <2>3. /\ WorkDir \in Seq(SomeTexts) /\ TmpDir \in Seq(SomeTexts) /\ TrustedTests \in Seq(SomeTexts)
        /\ <<>> \in Seq(SomeTexts) /\ <<"workspace", "t">> \in Seq(SomeTexts) /\ <<".", "workspace">> \in Seq(SomeTexts)
        /\ <<"workspace", "..", "etc">> \in Seq(SomeTexts) /\ SomeBundles \subseteq Seq(SomeTexts) /\ s \in Seq(SomeTexts)
    <3>1. "workspace" \in SomeTexts /\ "tmp" \in SomeTexts /\ "trusted-tests" \in SomeTexts
          /\ "t" \in SomeTexts /\ "." \in SomeTexts
      BY Zenon DEF SomeTexts, OwnNames
    <3>2. {"..", "etc", "tests", "project", "run", Socket} \subseteq SomeTexts
      BY DEF SomeTexts
    <3>3. \A u, v, w \in SomeTexts : {<<u>>, <<u, v>>, <<u, v, w>>} \subseteq Seq(SomeTexts)
      BY ShortSequences
    <3>4. SomeBundles \subseteq Seq(SomeTexts)
      BY <3>2, <3>3 DEF SomeBundles
    <3>5. <<"project">> \in Seq(SomeTexts) /\ <<>> \in Seq(SomeTexts)
      BY <3>2, <3>3
    <3>6. s \in Seq(SomeTexts)
      BY <3>5, Zenon DEF Project
    <3> QED BY <3>1, <3>2, <3>3, <3>4, <3>6 DEF WorkDir, TmpDir, TrustedTests
  <2>4. a \in SUBSET Seq(SomeTexts)
    BY <2>3 DEF SomeAllowed
  <2>5. \A y \in Seq(SomeTexts), d \in Seq(SomeTexts), t \in {"bind", "tmpfs"}, b \in BOOLEAN : Mount(y, d, t, b) \in AnyMounts(SomeTexts)
    BY DEF Mount, AnyMounts
  <2>6. ExtraMounts \subseteq AnyMounts(SomeTexts)
    <3>1. SomePlaces \subseteq Seq(SomeTexts)
      BY <2>3 DEF SomePlaces
    <3>2. SUFFICES ASSUME NEW m \in ExtraMounts PROVE m \in AnyMounts(SomeTexts)
      OBVIOUS
    <3>3. PICK y \in SomeBundles, d \in SomePlaces, t \in {"bind", "tmpfs"}, b \in BOOLEAN :
                 m = Mount(y, d, t, b)
      BY DEF ExtraMounts
    <3> QED BY <2>3, <2>5, <3>1, <3>3, Zenon
  <2>7. Mount(<<"tests">>, TrustedTests, "bind", TRUE) \in AnyMounts(SomeTexts)
    BY <2>2, <2>3, <2>5 DEF SomeBundles
  <2>8. x \in Seq(AnyMounts(SomeTexts))
    <3>1. CASE \E k \in 0..1 : x \in [1..k -> ExtraMounts]
      <4>1. PICK k \in Nat : x \in [1..k -> AnyMounts(SomeTexts)]
        BY <2>6, <3>1
      <4> QED BY <4>1
    <3>2. CASE \E m \in ExtraMounts : x = <<Mount(<<"tests">>, TrustedTests, "bind", TRUE), m>>
      <4>1. PICK own \in AnyMounts(SomeTexts), m \in AnyMounts(SomeTexts) : x = <<own, m>>
        BY <2>6, <2>7, <3>2
      <4> QED BY <4>1, ShortSequences
    <3>3. \/ x \in UNION {[1..k -> ExtraMounts] : k \in 0..1}
          \/ x \in {<<Mount(<<"tests">>, TrustedTests, "bind", TRUE), m>> : m \in ExtraMounts}
      BY DEF SomeExtras
    <3>4. x \in UNION {[1..k -> ExtraMounts] : k \in 0..1} => \E k \in 0..1 : x \in [1..k -> ExtraMounts]
      OBVIOUS
    <3> QED BY <3>1, <3>2, <3>3, <3>4, Zenon
  <2>9. \A A \in SUBSET Seq(SomeTexts), E, R, T, N \in BOOLEAN, w \in Seq(SomeTexts), z \in Seq(AnyMounts(SomeTexts)) :
             ContainerIsConfined(Policy(A, E, R, T), w, z, N)
    BY <2>2, ContainersAreConfined
  <2>10. ContainerIsConfined(Policy(a, e, r, TRUE), s, x, n)
    BY <2>2, <2>3, <2>4, <2>8, <2>9
  <2>11. \A b \in SomeBundles : \A c \in {<<>>, <<b>>} : ProjectIsConfined(s, c, n)
    BY <2>3, ProjectsAreConfined
  <2>12. \E b : b \in SomeBundles
    BY DEF SomeBundles
  <2> QED BY <2>1, <2>10, <2>11, <2>12
<1>2. GateInv => MountsAreConfined
  BY <1>1 DEF GateInv, MountsAreConfined
<1> QED BY <1>2, GateIsEnumerated, PTL
-----------------------------------------------------------------------------
(* The walk of a draft: what is open at each of its lines *)

LEMMA Appended ==
    ASSUME NEW S, NEW s \in Seq(S), NEW e \in S
    PROVE  /\ Append(s, e) \in Seq(S) /\ Len(Append(s, e)) = Len(s) + 1
           /\ \A i \in 1..Len(s) : Append(s, e)[i] = s[i]
           /\ Append(s, e)[Len(s) + 1] = e
OBVIOUS

LEMMA Fronts ==
    ASSUME NEW S, NEW s \in Seq(S), s # <<>>
    PROVE  /\ Front(s) \in Seq(S) /\ Len(s) > 0 /\ Len(Front(s)) = Len(s) - 1
           /\ \A i \in 1..Len(s) - 1 : Front(s)[i] = s[i]
<1>1. Len(s) > 0 /\ Len(s) \in Nat OBVIOUS
<1>2. Front(s) \in Seq(S)
  BY <1>1 DEF Front
<1>3. \A n \in Nat : n <= Len(s) => Len(SubSeq(s, 1, n)) = n OBVIOUS
<1>4. Len(s) - 1 \in Nat /\ Len(s) - 1 <= Len(s)
  BY <1>1
<1>5. Len(Front(s)) = Len(s) - 1
  BY <1>3, <1>4 DEF Front
<1>6. ASSUME NEW i \in 1..Len(s) - 1 PROVE Front(s)[i] = s[i]
  BY <1>1 DEF Front
<1> QED BY <1>1, <1>2, <1>5, <1>6

\* d[i] is the number of constructs that are open before line i of the n lines of p.
Levels(p, n, d) ==
    /\ d \in [1..n + 1 -> Nat] /\ d[1] = 0
    /\ \A i \in 1..n : d[i + 1] = d[i] + (IF p[i].op \in Openers THEN 1 ELSE IF p[i].op = "end" THEN -1 ELSE 0)

\* The lines whose constructs are open before line i: it is deeper since then.
OpenAt(p, d, i) == {k \in 1..i - 1 : p[k].op \in Openers /\ \A z \in k + 1..i : d[z] > d[k]}

\* What line i does to the level.
LevelChange(p, d, i) ==
    /\ d[i] \in Nat /\ d[i + 1] \in Nat /\ i \in Nat
    /\ p[i].op \in Openers => d[i + 1] = d[i] + 1
    /\ p[i].op = "end" => d[i + 1] = d[i] - 1
    /\ p[i].op \notin Openers \cup {"end"} => d[i + 1] = d[i]

LEMMA LevelStep ==
    ASSUME NEW p, NEW n \in Nat, NEW d, Levels(p, n, d), NEW i \in 1..n
    PROVE  LevelChange(p, d, i)
<1>1. "end" \notin Openers
  BY DEF Openers
<1>2. d \in [1..n + 1 -> Nat] /\ i \in 1..n + 1 /\ i + 1 \in 1..n + 1 /\ i \in Nat
  BY DEF Levels
<1>3. d[i] \in Nat /\ d[i + 1] \in Nat
  BY <1>2
<1>4. d[i + 1] = d[i] + (IF p[i].op \in Openers THEN 1 ELSE IF p[i].op = "end" THEN -1 ELSE 0)
  BY DEF Levels
<1> QED BY <1>1, <1>2, <1>3, <1>4 DEF LevelChange

LEMMA CountStep ==
    ASSUME NEW Z, NEW a \in Nat, NEW i \in Nat, a <= i + 1
    PROVE  /\ IsFiniteSet((a..i) \cap Z) /\ Cardinality((a..i) \cap Z) \in Nat
           /\ Cardinality((a..i + 1) \cap Z) = Cardinality((a..i) \cap Z) + (IF i + 1 \in Z THEN 1 ELSE 0)
<1>1. IsFiniteSet(a..i)
  BY FS_Interval
<1>2. IsFiniteSet((a..i) \cap Z)
  BY <1>1, FS_Subset, (a..i) \cap Z \in SUBSET (a..i)
<1>3. i + 1 \in Z => (a..i + 1) \cap Z = ((a..i) \cap Z) \cup {i + 1} OBVIOUS
<1>4. i + 1 \notin Z => (a..i + 1) \cap Z = (a..i) \cap Z OBVIOUS
<1>5. i + 1 \notin (a..i) \cap Z OBVIOUS
<1>6. Cardinality((a..i) \cap Z) \in Nat
  BY <1>2, FS_CardinalityType
<1>7. Cardinality(((a..i) \cap Z) \cup {i + 1}) = Cardinality((a..i) \cap Z) + 1
  BY <1>2, <1>5, FS_AddElement
<1> QED BY <1>2, <1>3, <1>4, <1>6, <1>7

LEMMA BalanceStep ==
    ASSUME NEW p, NEW k \in Nat, NEW i \in Nat, k <= i + 1
    PROVE  /\ Balance(p, k, i) \in Int
           /\ Balance(p, k, i + 1) = Balance(p, k, i) + (IF p[i + 1].op \in Openers THEN 1
                                                         ELSE IF p[i + 1].op = "end" THEN -1 ELSE 0)
           /\ k > 0 => Balance(p, k, k - 1) = 0
<1> DEFINE O == {z \in Nat : p[z].op \in Openers}
           C == {z \in Nat : p[z].op = "end"}
           F(Z, z) == Cardinality((k..z) \cap Z)
<1>1. ASSUME NEW z \in Nat PROVE Balance(p, k, z) = F(O, z) - F(C, z)
  <2>1. {y \in k..z : p[y].op \in Openers} = (k..z) \cap O /\ {y \in k..z : p[y].op = "end"} = (k..z) \cap C
    OBVIOUS
  <2> QED BY <2>1 DEF Balance
<1>2. "end" \notin Openers
  BY DEF Openers
<1>3. i + 1 \in Nat /\ k <= i + 1 OBVIOUS
<1>4. i + 1 \in O <=> p[i + 1].op \in Openers
  BY <1>3
<1>5. i + 1 \in C <=> p[i + 1].op = "end"
  BY <1>3
<1>6. /\ F(O, i) \in Nat /\ F(C, i) \in Nat
      /\ F(O, i + 1) = F(O, i) + (IF i + 1 \in O THEN 1 ELSE 0)
      /\ F(C, i + 1) = F(C, i) + (IF i + 1 \in C THEN 1 ELSE 0)
  <2> HIDE DEF O, C
  <2> QED BY <1>3, CountStep
<1>7. k > 0 => F(O, k - 1) = 0 /\ F(C, k - 1) = 0 /\ k - 1 \in Nat
  <2>1. (k..k - 1) \cap O = {} /\ (k..k - 1) \cap C = {} OBVIOUS
  <2>2. F(O, k - 1) = 0 /\ F(C, k - 1) = 0
    BY <2>1, FS_EmptySet, Zenon
  <2> QED BY <2>2
<1> HIDE DEF O, C, F
<1> QED BY <1>1, <1>2, <1>3, <1>4, <1>5, <1>6, <1>7

LEMMA BalanceIsLevel ==
    ASSUME NEW p, NEW n \in Nat, NEW d, Levels(p, n, d), NEW k \in 1..n
    PROVE  \A i \in k..n : Balance(p, k, i) = d[i + 1] - d[k]
<1> DEFINE T == {c \in Nat : k + c <= n + 1 => Balance(p, k, k + c - 1) = d[k + c] - d[k]}
<1>0. k \in Nat /\ k > 0 /\ d[k] \in Nat
  <2>1. LevelChange(p, d, k)
    BY LevelStep, Zenon
  <2> QED BY <2>1 DEF LevelChange
<1>1. 0 \in T
  <2>1. Balance(p, k, k - 1) = 0
    <3>1. k <= k + 1
      BY <1>0
    <3> QED BY <1>0, <3>1, BalanceStep
  <2> QED BY <1>0, <2>1
<1>2. ASSUME NEW c \in T PROVE c + 1 \in T
  <2>1. SUFFICES ASSUME k + (c + 1) <= n + 1 PROVE Balance(p, k, k + (c + 1) - 1) = d[k + (c + 1)] - d[k]
    BY SMT
  <2> DEFINE i == k + c
  <2>2. c \in Nat /\ i \in 1..n /\ k + (c + 1) - 1 = i /\ k + (c + 1) = i + 1 /\ i - 1 \in Nat /\ (i - 1) + 1 = i
    BY <1>0, <2>1
  <2>3. Balance(p, k, i - 1) = d[i] - d[k]
    BY <2>2
  <2> HIDE DEF i
  <2>4. Balance(p, k, i) = Balance(p, k, i - 1) + (IF p[i].op \in Openers THEN 1 ELSE IF p[i].op = "end" THEN -1 ELSE 0)
    <3>1. k <= (i - 1) + 1
      BY <2>2, <1>0 DEF i
    <3>2. \A y \in Nat : k <= y + 1 =>
             Balance(p, k, y + 1) = Balance(p, k, y) + (IF p[y + 1].op \in Openers THEN 1 ELSE IF p[y + 1].op = "end" THEN -1 ELSE 0)
      BY <1>0, BalanceStep
    <3>3. i - 1 \in Nat /\ (i - 1) + 1 = i
      BY <2>2
    <3> HIDE DEF i
    <3> QED BY <3>1, <3>2, <3>3
  <2>5. d[i] \in Nat /\ d[i + 1] = d[i] + (IF p[i].op \in Openers THEN 1 ELSE IF p[i].op = "end" THEN -1 ELSE 0)
    <3>1. LevelChange(p, d, i)
      <4> HIDE DEF i
      <4> QED BY <2>2, LevelStep, Zenon
    <3> QED BY <2>2, <3>1 DEF Levels, LevelChange
  <2>6. Balance(p, k, i) = d[i + 1] - d[k]
    BY <1>0, <2>3, <2>4, <2>5
  <2> QED BY <2>2, <2>6
<1>3. T = Nat
  <2> HIDE DEF T
  <2> QED BY <1>1, <1>2, NumbersInduction, T \subseteq Nat DEF T
<1>4. ASSUME NEW i \in k..n PROVE Balance(p, k, i) = d[i + 1] - d[k]
  <2>1. i + 1 - k \in Nat /\ k + (i + 1 - k) = i + 1 /\ k + (i + 1 - k) - 1 = i /\ i + 1 <= n + 1
    BY <1>0
  <2>2. i + 1 - k \in T
    BY <1>3, <2>1
  <2> QED BY <2>1, <2>2
<1> QED BY <1>4

\* Levels change by one: while the level of an opening line is not reached again, it is exceeded.
LEMMA LevelsExceed ==
    ASSUME NEW p, NEW n \in Nat, NEW d, Levels(p, n, d), NEW k \in 1..n, p[k].op \in Openers,
           NEW i \in k..n + 1, \A z \in k + 1..i : d[z] # d[k]
    PROVE  \A z \in k + 1..i : d[z] > d[k]
<1> DEFINE T == {c \in Nat : k + 1 + c <= i => d[k + 1 + c] > d[k]}
<1>0. k \in Nat /\ d[k] \in Nat /\ d[k + 1] = d[k] + 1 /\ i \in Nat
  <2>1. LevelChange(p, d, k)
    BY LevelStep, Zenon
  <2> QED BY <2>1 DEF LevelChange
<1>1. 0 \in T
  BY <1>0
<1>2. ASSUME NEW c \in T PROVE c + 1 \in T
  <2>1. SUFFICES ASSUME k + 1 + (c + 1) <= i PROVE d[k + 1 + (c + 1)] > d[k]
    BY SMT
  <2> DEFINE z == k + 1 + c
  <2>2. c \in Nat /\ z \in 1..n /\ z + 1 \in k + 1..i /\ z + 1 = k + 1 + (c + 1) /\ d[z] > d[k]
    BY <1>0, <2>1
  <2> HIDE DEF z
  <2>3. d[z] \in Nat /\ d[z + 1] \in Nat /\ d[z + 1] >= d[z] - 1 /\ d[z + 1] # d[k]
    <3>1. /\ d[z] \in Nat /\ d[z + 1] \in Nat
          /\ d[z + 1] = d[z] + (IF p[z].op \in Openers THEN 1 ELSE IF p[z].op = "end" THEN -1 ELSE 0)
      <4>1. LevelChange(p, d, z)
        BY <2>2, LevelStep, Zenon
      <4> QED BY <2>2, <4>1 DEF Levels, LevelChange
    <3> QED BY <2>2, <3>1
  <2> QED BY <1>0, <2>2, <2>3
<1>3. T = Nat
  <2> HIDE DEF T
  <2> QED BY <1>1, <1>2, NumbersInduction, T \subseteq Nat DEF T
<1>4. ASSUME NEW z \in k + 1..i PROVE d[z] > d[k]
  <2>1. z - (k + 1) \in Nat /\ k + 1 + (z - (k + 1)) = z /\ z <= i
    BY <1>0
  <2>2. z - (k + 1) \in T
    BY <1>3, <2>1
  <2> QED BY <2>1, <2>2
<1> QED BY <1>4

\* The block of a construct reaches line i if the construct is open before i.
LEMMA BlocksAreOpen ==
    ASSUME NEW p, NEW n \in Nat, NEW d, Levels(p, n, d), Len(p) = n, NEW i \in 1..n
    PROVE  {k \in 1..i - 1 : p[k].op \in Openers /\ BlockEnd(p, k) >= i} = OpenAt(p, d, i)
<1>1. i \in Nat /\ n \in Nat OBVIOUS
<1>2. ASSUME NEW k \in 1..i - 1, p[k].op \in Openers
      PROVE  BlockEnd(p, k) >= i <=> \A z \in k + 1..i : d[z] > d[k]
  <2> DEFINE closing == {z \in k..n : Balance(p, k, z) = 0}
  <2>1. k \in Nat /\ k <= i - 1 /\ closing \in SUBSET Nat /\ k \in 1..n /\ i \in k..n + 1
    BY <1>1
  <2>2. BlockEnd(p, k) = IF closing = {} THEN n ELSE Min(closing)
    BY DEF BlockEnd
  <2>3. d[k] \in Nat /\ \A z \in k..n : d[z + 1] \in Nat /\ (z \in closing <=> d[z + 1] = d[k])
    <3>1. \A z \in k..n : Balance(p, k, z) = d[z + 1] - d[k]
      BY <2>1, BalanceIsLevel
    <3>2. d[k] \in Nat /\ \A z \in k..n : d[z + 1] \in Nat
      <4>1. \A z \in k..n : z \in 1..n
        BY <1>1, <2>1
      <4>2. LevelChange(p, d, k) /\ \A z \in k..n : LevelChange(p, d, z)
        BY <2>1, <4>1, LevelStep, Zenon
      <4> QED BY <4>2 DEF LevelChange
    <3> QED BY <3>1, <3>2
  <2>4. (\A z \in k + 1..i : d[z] # d[k]) => \A z \in k + 1..i : d[z] > d[k]
    BY <1>2, <2>1, LevelsExceed
  <2>5. (\A z \in k + 1..i : d[z] # d[k]) <=> (\A z \in closing : z >= i)
    <3>1. ASSUME NEW z \in k + 1..i, d[z] = d[k], \A y \in closing : y >= i PROVE FALSE
      <4>1. z - 1 \in k..n /\ (z - 1) + 1 = z /\ z - 1 < i
        BY <1>1, <2>1
      <4>2. z - 1 \in closing
        <5> HIDE DEF closing
        <5> QED BY <2>3, <3>1, <4>1
      <4> QED BY <3>1, <4>1, <4>2
    <3>2. ASSUME NEW z \in closing, z < i, \A y \in k + 1..i : d[y] # d[k] PROVE FALSE
      <4>1. z \in k..n /\ z + 1 \in k + 1..i
        BY <1>1, <2>1, <3>2
      <4> QED BY <2>3, <3>2, <4>1
    <3>3. \A z \in closing : z \in Nat
      BY <2>1
    <3> QED BY <1>1, <3>1, <3>2, <3>3
  <2>6. BlockEnd(p, k) >= i <=> (\A z \in closing : z >= i)
    <3>1. CASE closing = {} BY <2>2, <3>1
    <3>2. CASE closing # {}
      <4>1. Min(closing) \in closing /\ \A z \in closing : Min(closing) <= z
        <5> HIDE DEF closing
        <5> QED BY <2>1, <3>2, LeastNumber DEF Min
      <4> HIDE DEF closing
      <4>2. Min(closing) \in Nat /\ \A z \in closing : z \in Nat
        BY <2>1, <4>1
      <4> QED BY <1>1, <2>2, <3>2, <4>1, <4>2
    <3> QED BY <3>1, <3>2
  <2>7. (\A z \in k + 1..i : d[z] > d[k]) => \A z \in k + 1..i : d[z] # d[k]
    <3>1. ASSUME NEW z \in k + 1..i, d[z] > d[k] PROVE d[z] # d[k]
      BY <2>3, <3>1
    <3> QED BY <3>1
  <2> QED BY <2>4, <2>5, <2>6, <2>7
<1> QED BY <1>2 DEF OpenAt

\* What is open where a construct was opened is what is outside of it.
LEMMA OpenNests ==
    ASSUME NEW p, NEW n \in Nat, NEW d, Levels(p, n, d), NEW i \in 1..n + 1, NEW k \in OpenAt(p, d, i)
    PROVE  /\ k \in 1..n /\ k < i /\ p[k].op \in Openers
           /\ OpenAt(p, d, k) = {z \in OpenAt(p, d, i) : z < k}
           /\ \A z \in OpenAt(p, d, i) : z < k => d[z] < d[k]
<1>1. k \in 1..n /\ k < i /\ p[k].op \in Openers /\ i \in Nat /\ \A y \in k + 1..i : d[y] > d[k]
  BY DEF OpenAt
<1>2. \A y \in 1..n + 1 : d[y] \in Nat
  BY DEF Levels
<1>3. ASSUME NEW z \in OpenAt(p, d, k) PROVE z \in OpenAt(p, d, i) /\ z < k
  <2>1. z \in 1..k - 1 /\ p[z].op \in Openers /\ \A y \in z + 1..k : d[y] > d[z]
    BY DEF OpenAt
  <2>2. d[k] > d[z] /\ z \in 1..n + 1 /\ k \in 1..n + 1 /\ z \in 1..i - 1
    BY <1>1, <2>1
  <2>3. ASSUME NEW y \in z + 1..i PROVE d[y] > d[z]
    <3>1. y \in z + 1..k \/ y \in k + 1..i
      BY <1>1, <2>1
    <3>2. y \in 1..n + 1
      BY <1>1, <2>1
    <3> QED BY <1>1, <1>2, <2>1, <2>2, <3>1, <3>2
  <2> QED BY <1>1, <2>1, <2>2, <2>3 DEF OpenAt
<1>4. ASSUME NEW z \in OpenAt(p, d, i), z < k PROVE z \in OpenAt(p, d, k) /\ d[z] < d[k]
  <2>1. z \in 1..i - 1 /\ p[z].op \in Openers /\ \A y \in z + 1..i : d[y] > d[z]
    BY DEF OpenAt
  <2>2. z \in 1..k - 1 /\ k \in z + 1..i /\ \A y \in z + 1..k : y \in z + 1..i
    BY <1>1, <1>4, <2>1
  <2>3. d[k] \in Nat /\ d[z] \in Nat /\ d[k] > d[z]
    BY <1>1, <1>2, <2>1, <2>2
  <2> QED BY <2>1, <2>2, <2>3 DEF OpenAt
<1> QED BY <1>1, <1>3, <1>4

\* How one line changes what is open.
LEMMA OpenStep ==
    ASSUME NEW p, NEW n \in Nat, NEW d, Levels(p, n, d), NEW i \in 1..n
    PROVE  /\ p[i].op \in Openers => OpenAt(p, d, i + 1) = OpenAt(p, d, i) \cup {i}
           /\ p[i].op = "end" =>
                /\ OpenAt(p, d, i + 1) = {k \in OpenAt(p, d, i) : d[k] < d[i + 1]}
                /\ \A top \in OpenAt(p, d, i) : d[top] = d[i] - 1 => OpenAt(p, d, i + 1) = OpenAt(p, d, i) \ {top}
           /\ p[i].op \notin Openers \cup {"end"} => OpenAt(p, d, i + 1) = OpenAt(p, d, i)
           /\ i \notin OpenAt(p, d, i)
<1>1. /\ i \in Nat /\ d[i] \in Nat /\ d[i + 1] \in Nat
      /\ p[i].op \in Openers => d[i + 1] = d[i] + 1
      /\ p[i].op = "end" => d[i + 1] = d[i] - 1
      /\ p[i].op \notin Openers \cup {"end"} => d[i + 1] = d[i]
  <2>1. LevelChange(p, d, i)
    BY LevelStep, Zenon
  <2> QED BY <2>1, Zenon DEF LevelChange
<1>2. \A y \in 1..n + 1 : d[y] \in Nat
  BY DEF Levels
<1>3. ASSUME NEW k \in 1..i - 1, p[k].op \in Openers
      PROVE  (\A z \in k + 1..i + 1 : d[z] > d[k]) <=> (\A z \in k + 1..i : d[z] > d[k]) /\ d[i + 1] > d[k]
  <2>1. k + 1..i + 1 = (k + 1..i) \cup {i + 1}
    BY <1>1
  <2> QED BY <2>1
<1>4. ASSUME NEW k \in OpenAt(p, d, i)
      PROVE  k \in 1..i - 1 /\ p[k].op \in Openers /\ d[k] \in Nat /\ d[k] < d[i] /\ \A z \in k + 1..i : d[z] > d[k]
  <2>1. k \in 1..i - 1 /\ p[k].op \in Openers /\ \A z \in k + 1..i : d[z] > d[k]
    BY DEF OpenAt
  <2>2. i \in k + 1..i /\ k \in 1..n + 1
    BY <1>1, <2>1
  <2> QED BY <1>1, <1>2, <2>1, <2>2
<1>5. ASSUME NEW k \in 1..i - 1
      PROVE  k \in OpenAt(p, d, i + 1) <=> k \in OpenAt(p, d, i) /\ d[i + 1] > d[k]
  BY <1>1, <1>3 DEF OpenAt
<1>6. i \notin OpenAt(p, d, i) /\ \A k \in OpenAt(p, d, i + 1) : k \in 1..i - 1 \/ (k = i /\ p[i].op \in Openers)
  BY <1>1 DEF OpenAt
<1>7. p[i].op \in Openers => i \in OpenAt(p, d, i + 1)
  <2>1. i + 1..i + 1 = {i + 1} /\ i \in 1..(i + 1) - 1
    BY <1>1
  <2> QED BY <1>1, <2>1 DEF OpenAt
<1>8. CASE p[i].op \in Openers
  <2>1. "end" \notin Openers
    BY DEF Openers
  <2>2. \A k \in OpenAt(p, d, i) : k \in OpenAt(p, d, i + 1)
    BY <1>1, <1>4, <1>5, <1>8
  <2>3. \A k \in OpenAt(p, d, i + 1) : k \in OpenAt(p, d, i) \cup {i}
    BY <1>5, <1>6
  <2> QED BY <1>6, <1>7, <1>8, <2>1, <2>2, <2>3
<1>9. CASE p[i].op = "end"
  <2>1. "end" \notin Openers
    BY DEF Openers
  <2>0. OpenAt(p, d, i + 1) = {k \in OpenAt(p, d, i) : d[k] < d[i + 1]}
    <3>1. \A k \in OpenAt(p, d, i + 1) : k \in OpenAt(p, d, i) /\ d[k] < d[i + 1]
      BY <1>1, <1>4, <1>5, <1>6, <1>9, <2>1
    <3>2. \A k \in OpenAt(p, d, i) : d[k] < d[i + 1] => k \in OpenAt(p, d, i + 1)
      BY <1>1, <1>4, <1>5
    <3> QED BY <3>1, <3>2
  <2>2. SUFFICES ASSUME NEW top \in OpenAt(p, d, i), d[top] = d[i] - 1
                 PROVE  OpenAt(p, d, i + 1) = OpenAt(p, d, i) \ {top}
    BY <1>6, <1>9, <2>0, <2>1
  <2>3. ASSUME NEW k \in OpenAt(p, d, i), k # top PROVE d[k] < d[top]
    <3>1. i \in 1..n + 1
      BY <1>1
    <3>2. k < top => d[k] < d[top]
      BY <3>1, OpenNests
    <3>3. top < k => d[top] < d[k]
      BY <3>1, OpenNests
    <3>4. top \in Nat /\ k \in Nat /\ d[k] \in Nat /\ d[k] < d[i]
      BY <1>1, <1>4
    <3> QED BY <1>1, <2>2, <2>3, <3>2, <3>3, <3>4
  <2>4. \A k \in OpenAt(p, d, i) : d[k] \in Nat /\ k \in 1..i - 1
    BY <1>4
  <2>5. \A k \in OpenAt(p, d, i) : k \in OpenAt(p, d, i + 1) <=> k # top
    BY <1>1, <1>5, <1>9, <2>2, <2>3, <2>4
  <2>6. \A k \in OpenAt(p, d, i + 1) : k \in OpenAt(p, d, i)
    BY <1>5, <1>6, <1>9, <2>1
  <2> QED BY <2>5, <2>6
<1>10. CASE p[i].op \notin Openers \cup {"end"}
  <2>1. \A k \in OpenAt(p, d, i) : k \in OpenAt(p, d, i + 1)
    BY <1>1, <1>4, <1>5, <1>10
  <2>2. \A k \in OpenAt(p, d, i + 1) : k \in OpenAt(p, d, i)
    BY <1>5, <1>6, <1>10
  <2> QED BY <1>6, <1>10, <2>1, <2>2
<1> QED BY <1>8, <1>9, <1>10

OfKind(p, ops) == {k \in Nat : p[k].op \in ops}
NestedComprehensions(p) == {k \in Nat : p[k].op = "comp" /\ p[k].kind = "nested"}

LEMMA OpenIsFinite ==
    ASSUME NEW p, NEW n \in Nat, NEW d, NEW i \in 1..n + 1, NEW Z
    PROVE  /\ OpenAt(p, d, i) \subseteq 1..n /\ OpenAt(p, d, i) \subseteq Nat
           /\ IsFiniteSet(OpenAt(p, d, i) \cap Z) /\ Cardinality(OpenAt(p, d, i) \cap Z) \in Nat
<1>1. OpenAt(p, d, i) \subseteq 1..n /\ OpenAt(p, d, i) \subseteq Nat
  BY DEF OpenAt
<1>2. IsFiniteSet(1..n)
  BY FS_Interval
<1>3. IsFiniteSet(OpenAt(p, d, i) \cap Z)
  <2>1. OpenAt(p, d, i) \cap Z \in SUBSET (1..n)
    BY <1>1
  <2> QED BY <1>2, <2>1, FS_Subset
<1> QED BY <1>1, <1>3, FS_CardinalityType

\* How line i changes the number of constructs that are open, of those in Z.
Gains(p, d, i, Z) ==
    Cardinality(OpenAt(p, d, i + 1) \cap Z) = Cardinality(OpenAt(p, d, i) \cap Z) + (IF i \in Z THEN 1 ELSE 0)
IsTop(p, d, i, top) == top \in OpenAt(p, d, i) /\ d[top] = d[i] - 1
Drops(p, d, i, Z, top) ==
    Cardinality(OpenAt(p, d, i + 1) \cap Z) = Cardinality(OpenAt(p, d, i) \cap Z) - (IF top \in Z THEN 1 ELSE 0)

LEMMA OpenCountStep ==
    ASSUME NEW p, NEW n \in Nat, NEW d, Levels(p, n, d), NEW i \in 1..n
    PROVE  /\ p[i].op \in Openers => \A Z : Gains(p, d, i, Z)
           /\ p[i].op = "end" => \A Z, top : IsTop(p, d, i, top) => Drops(p, d, i, Z, top)
<1> SUFFICES ASSUME NEW Z
             PROVE  /\ p[i].op \in Openers => Gains(p, d, i, Z)
                    /\ \A top : p[i].op = "end" /\ IsTop(p, d, i, top) => Drops(p, d, i, Z, top)
  BY Zenon
<1> DEFINE C == OpenAt(p, d, i) \cap Z
<1>1. /\ p[i].op \in Openers => OpenAt(p, d, i + 1) = OpenAt(p, d, i) \cup {i}
      /\ p[i].op = "end" =>
           \A top \in OpenAt(p, d, i) : d[top] = d[i] - 1 => OpenAt(p, d, i + 1) = OpenAt(p, d, i) \ {top}
      /\ p[i].op \notin Openers \cup {"end"} => OpenAt(p, d, i + 1) = OpenAt(p, d, i)
      /\ i \notin OpenAt(p, d, i)
  BY OpenStep
<1>2. IsFiniteSet(C) /\ Cardinality(C) \in Nat /\ i \notin C
  <2>1. i \in 1..n + 1 OBVIOUS
  <2> QED BY <1>1, <2>1, OpenIsFinite
<1>3. (OpenAt(p, d, i) \cup {i}) \cap Z = IF i \in Z THEN C \cup {i} ELSE C
  OBVIOUS
<1>4. \A top \in OpenAt(p, d, i) : (OpenAt(p, d, i) \ {top}) \cap Z = C \ {top} /\ (top \in C <=> top \in Z)
  OBVIOUS
<1> HIDE DEF C
<1>5. Cardinality(C \cup {i}) = Cardinality(C) + 1
  BY <1>2, FS_AddElement
<1>6. \A top : Cardinality(C \ {top}) = IF top \in C THEN Cardinality(C) - 1 ELSE Cardinality(C)
  BY <1>2, FS_RemoveElement
<1>7. p[i].op \in Openers =>
        Cardinality(OpenAt(p, d, i + 1) \cap Z) = Cardinality(C) + (IF i \in Z THEN 1 ELSE 0)
  <2>1. CASE i \in Z BY <1>1, <1>3, <1>5, <2>1
  <2>2. CASE i \notin Z
    <3>1. p[i].op \in Openers => OpenAt(p, d, i + 1) \cap Z = C
      BY <1>1, <1>3, <2>2
    <3> QED BY <1>2, <2>2, <3>1
  <2> QED BY <2>1, <2>2
<1>8. ASSUME p[i].op = "end", NEW top, IsTop(p, d, i, top)
      PROVE  Cardinality(OpenAt(p, d, i + 1) \cap Z) = Cardinality(C) - (IF top \in Z THEN 1 ELSE 0)
  <2>1. OpenAt(p, d, i + 1) \cap Z = C \ {top} /\ (top \in C <=> top \in Z)
    BY <1>1, <1>4, <1>8 DEF IsTop
  <2> QED BY <1>2, <1>6, <2>1
<1> QED BY <1>7, <1>8 DEF C, Gains, Drops

\* What is open before a line depends on the lines before it.
Continues(p, d, q, e, n) ==
    /\ \A k \in 1..n : q[k] = p[k]
    /\ \A z \in 1..n + 1 : e[z] = d[z]

LEMMA OpenIsStable ==
    ASSUME NEW p, NEW d, NEW q, NEW e, NEW n \in Nat, Continues(p, d, q, e, n), NEW i \in 1..n + 1
    PROVE  /\ OpenAt(q, e, i) = OpenAt(p, d, i)
           /\ \A ops : OpenAt(q, e, i) \cap OfKind(q, ops) = OpenAt(p, d, i) \cap OfKind(p, ops)
           /\ OpenAt(q, e, i) \cap NestedComprehensions(q) = OpenAt(p, d, i) \cap NestedComprehensions(p)
<1>1. \A k \in 1..i - 1 : k \in 1..n /\ q[k] = p[k] /\ e[k] = d[k] /\ k \in Nat /\ \A z \in k + 1..i : e[z] = d[z]
  BY DEF Continues
<1>2. OpenAt(q, e, i) = OpenAt(p, d, i)
  <2>1. ASSUME NEW k \in 1..i - 1
        PROVE  (q[k].op \in Openers /\ \A z \in k + 1..i : e[z] > e[k])
                  <=> (p[k].op \in Openers /\ \A z \in k + 1..i : d[z] > d[k])
    BY <1>1
  <2> QED BY <2>1 DEF OpenAt
<1>3. \A k \in OpenAt(p, d, i) : k \in Nat /\ q[k] = p[k]
  BY <1>1 DEF OpenAt
<1> QED BY <1>2, <1>3 DEF OfKind, NestedComprehensions

\* The level after one more line.
LevelAfter(p, n, d, t) ==
    [z \in 1..n + 2 |-> IF z <= n + 1 THEN d[z]
                        ELSE d[n + 1] + (IF t.op \in Openers THEN 1 ELSE IF t.op = "end" THEN -1 ELSE 0)]

LEMMA LevelsContinue ==
    ASSUME NEW W, NEW p \in Seq(W), NEW t \in W, NEW d, Levels(p, Len(p), d), t.op = "end" => d[Len(p) + 1] > 0
    PROVE  /\ Len(Append(p, t)) = Len(p) + 1 /\ Append(p, t)[Len(p) + 1] = t /\ Append(p, t) \in Seq(W)
           /\ Levels(Append(p, t), Len(p) + 1, LevelAfter(p, Len(p), d, t))
           /\ Continues(p, d, Append(p, t), LevelAfter(p, Len(p), d, t), Len(p))
<1> DEFINE n == Len(p)
           q == Append(p, t)
           e == LevelAfter(p, n, d, t)
           rise == IF t.op \in Openers THEN 1 ELSE IF t.op = "end" THEN -1 ELSE 0
<1>1. n \in Nat /\ q \in Seq(W) /\ Len(q) = n + 1 /\ q[n + 1] = t /\ \A k \in 1..n : q[k] = p[k]
  BY Appended
<1>2. d \in [1..n + 1 -> Nat] /\ d[1] = 0
      /\ \A i \in 1..n : d[i + 1] = d[i] + (IF p[i].op \in Openers THEN 1 ELSE IF p[i].op = "end" THEN -1 ELSE 0)
  BY DEF Levels
<1> HIDE DEF n, q
<1>3. d[n + 1] \in Nat /\ d[n + 1] + rise \in Nat
  <2>1. d[n + 1] \in Nat
    BY <1>1, <1>2
  <2>2. t.op = "end" => d[n + 1] > 0
    BY DEF n
  <2>3. "end" \notin Openers
    BY DEF Openers
  <2> QED BY <2>1, <2>2, <2>3
<1>4. DOMAIN e = 1..n + 2 /\ e[n + 2] = d[n + 1] + rise /\ \A z \in 1..n + 1 : e[z] = d[z]
  BY <1>1 DEF LevelAfter
<1>5. e \in [1..n + 2 -> Nat]
  <2>1. \A z \in 1..n + 2 : z \in 1..n + 1 \/ z = n + 2
    BY <1>1
  <2>2. \A z \in 1..n + 2 : e[z] \in Nat
    BY <1>2, <1>3, <1>4, <2>1
  <2>3. e = [z \in 1..n + 2 |-> e[z]]
    BY <1>1 DEF LevelAfter
  <2> QED BY <2>2, <2>3
<1> HIDE DEF e, rise
<1>6. ASSUME NEW i \in 1..n + 1
      PROVE  e[i + 1] = e[i] + (IF q[i].op \in Openers THEN 1 ELSE IF q[i].op = "end" THEN -1 ELSE 0)
  <2>1. CASE i \in 1..n
    <3>1. i \in 1..n + 1 /\ i + 1 \in 1..n + 1
      BY <1>1, <2>1
    <3>2. e[i] = d[i] /\ e[i + 1] = d[i + 1] /\ q[i] = p[i]
      BY <1>1, <1>4, <2>1, <3>1
    <3> QED BY <1>2, <2>1, <3>2
  <2>2. CASE i = n + 1 BY <1>1, <1>4, <2>2 DEF rise
  <2> QED BY <1>1, <2>1, <2>2
<1>7. Levels(q, n + 1, e)
  <2>1. (n + 1) + 1 = n + 2 /\ e[1] = 0
    BY <1>1, <1>2, <1>4
  <2> QED BY <1>5, <1>6, <2>1 DEF Levels
<1>8. Continues(p, d, q, e, n)
  BY <1>1, <1>4 DEF Continues
<1> QED BY <1>1, <1>7, <1>8 DEF n, q, e

-----------------------------------------------------------------------------
(* What reading a line changes *)

\* The lines of drafts.
Words == UNION {Vocabularies[v] : v \in DOMAIN Vocabularies \cup {1}}

\* The lists the engines read the structure from.
Lists == {"functions", "loops", "symbols", "membership_checks", "imports", "calls", "mutations", "explicit_globals",
          "module_state_names"}

\* What reading line t changes, whichever action reads it.
StackEffect(t) ==
    /\ program' = Append(program, t) /\ vocabulary' = vocabulary
    /\ t.op \in Openers => opened' = Append(opened, [op |-> t.op, name |-> t.name, kind |-> t.kind, line |-> Here])
    /\ t.op = "end" => opened # <<>> /\ opened' = Front(opened)
    /\ t.op \notin Openers \cup {"end"} => opened' = opened

DepthEffect(t) ==
    /\ t.op \in {"for", "while"} =>
         loop_depth' = loop_depth + 1 /\ membership_loop_depth' = membership_loop_depth + 1
    /\ t.op = "comp" =>
         loop_depth' = loop_depth /\ membership_loop_depth' = membership_loop_depth + Generators(t)
    /\ t.op = "end" =>
         /\ Last(opened).op \in {"for", "while"} =>
              loop_depth' = loop_depth - 1 /\ membership_loop_depth' = membership_loop_depth - 1
         /\ Last(opened).op = "comp" =>
              /\ loop_depth' = loop_depth
              /\ membership_loop_depth' = membership_loop_depth - Generators(Last(opened))
         /\ Last(opened).op \notin {"for", "while", "comp"} =>
              loop_depth' = loop_depth /\ membership_loop_depth' = membership_loop_depth
    /\ t.op \notin {"for", "while", "comp", "end"} =>
         loop_depth' = loop_depth /\ membership_loop_depth' = membership_loop_depth

ScopeEffect(t) ==
    /\ t.op \in {"def", "class"} => scope_stack' = Append(scope_stack, t.name)
    /\ t.op = "end" =>
         /\ Last(opened).op \in {"def", "class"} => scope_stack' = Front(scope_stack)
         /\ Last(opened).op \notin {"def", "class"} => scope_stack' = scope_stack
    /\ t.op \notin {"def", "class", "end"} => scope_stack' = scope_stack

RecordEffect(t) ==
    /\ Lists \subseteq DOMAIN ir'
    /\ t.op \in {"for", "while"} => ir'.loops = Append(ir.loops, [depth |-> loop_depth', line |-> Here])
    /\ t.op \notin {"for", "while"} => ir'.loops = ir.loops
    /\ t.op = "def" => ir'.functions = Append(ir.functions, [name |-> t.name, line |-> Here])
    /\ t.op # "def" => ir'.functions = ir.functions

SymbolEffect(t) ==
    /\ t.op = "def" => ir'.symbols = Append(ir.symbols, [name |-> "state", kind |-> t.kind, scope |-> scope_stack', line |-> Here])
    /\ t.op = "bind" => ir'.symbols = Append(ir.symbols, [name |-> t.name, kind |-> t.kind, scope |-> scope_stack, line |-> Here])
    /\ t.op \notin {"def", "bind"} => ir'.symbols = ir.symbols
    /\ t.op = "in" /\ membership_loop_depth # 0 =>
         ir'.membership_checks = Append(ir.membership_checks, [container |-> t.name, scope |-> scope_stack, line |-> Here])
    /\ t.op # "in" \/ membership_loop_depth = 0 => ir'.membership_checks = ir.membership_checks

Effect(t) == StackEffect(t) /\ DepthEffect(t) /\ ScopeEffect(t) /\ RecordEffect(t) /\ SymbolEffect(t)

LEMMA WalkEffects ==
    ASSUME WalkNext, vocabulary \in DOMAIN Vocabularies \cup {1}, Lists \subseteq DOMAIN ir
    PROVE  \E t \in Words : Effect(t)
<1>1. PICK t \in Vocabularies[vocabulary] :
        \/ VisitFunctionDef(t) \/ VisitClassDef(t) \/ VisitWhile(t) \/ VisitFor(t) \/ VisitComprehension(t) \/ VisitIf(t)
        \/ VisitGlobal(t) \/ VisitImport(t) \/ VisitAssign(t) \/ VisitAugAssign(t) \/ VisitCall(t)
        \/ VisitCompare(t) \/ VisitSubscript(t) \/ VisitReturn(t)
        \/ LeaveScope(t) \/ LeaveLoop(t) \/ LeaveIf(t)
  BY Zenon DEF WalkNext
<1>2. t \in Words
  BY DEF Words
<1> SUFFICES Effect(t)
  BY <1>2
<1> USE DEF StackEffect, DepthEffect, ScopeEffect, RecordEffect, SymbolEffect, Openers, Read, Here, Lists
<1>3. CASE VisitFunctionDef(t)
  <2>1. [Symbol("state", t.kind) EXCEPT !.scope = scope_stack']
          = [name |-> "state", kind |-> t.kind, scope |-> scope_stack', line |-> Here]
    BY DEF Symbol
  <2>2. /\ t.op = "def" /\ Read(t) /\ Opens(t) /\ scope_stack' = Append(scope_stack, t.name)
        /\ UNCHANGED <<loop_depth, membership_loop_depth>>
    BY <1>3 DEF VisitFunctionDef
  <2>3. ir' = [ir EXCEPT !.functions = Append(@, [name |-> t.name, line |-> Here]),
                         !.symbols = Append(@, [name |-> "state", kind |-> t.kind, scope |-> scope_stack', line |-> Here])]
    BY <1>3, <2>1, Zenon DEF VisitFunctionDef
  <2> QED BY <2>2, <2>3 DEF Opens, Effect
<1>4. CASE VisitClassDef(t) BY <1>4 DEF VisitClassDef, Opens, Effect
<1>5. CASE VisitWhile(t) \/ VisitFor(t)
  <2>1. PICK r : OpenLoop(t, r)
    BY <1>5 DEF VisitWhile, VisitFor
  <2>2. t.op \in {"for", "while"}
    BY <1>5 DEF VisitWhile, VisitFor
  <2> QED BY <2>1, <2>2 DEF OpenLoop, Opens, Effect
<1>6. CASE VisitComprehension(t) BY <1>6 DEF VisitComprehension, Opens, Effect
<1>7. CASE VisitIf(t) BY <1>7 DEF VisitIf, Opens, Effect
<1>8. CASE VisitGlobal(t) BY <1>8 DEF VisitGlobal, Simple, Effect
<1>9. CASE VisitImport(t)
  <2>1. t.op = "import" /\ Read(t) /\ UNCHANGED <<opened, scope_stack, loop_depth, membership_loop_depth>>
    BY <1>9 DEF VisitImport, Simple
  <2>2. \E x : ir' = [ir EXCEPT !.imports = x]
    BY <1>9 DEF VisitImport
  <2> QED BY <2>1, <2>2 DEF Effect
<1>10. CASE VisitAssign(t)
  <2>1. t.op = "bind" /\ Read(t) /\ UNCHANGED <<opened, scope_stack, loop_depth, membership_loop_depth>>
    BY <1>10 DEF VisitAssign, Simple
  <2>2. \E x, y, z : ir' = [ir EXCEPT !.module_state_names = x, !.mutations = y, !.symbols = Append(@, Symbol(t.name, t.kind)),
                                     !.calls = z]
    BY <1>10 DEF VisitAssign
  <2> QED BY <2>1, <2>2 DEF Effect, Symbol
<1>11. CASE VisitAugAssign(t)
  <2>1. t.op \in {"store", "augment"} /\ Read(t) /\ UNCHANGED <<opened, scope_stack, loop_depth, membership_loop_depth>>
    BY <1>11 DEF VisitAugAssign, Simple
  <2>2. \E x : ir' = [ir EXCEPT !.mutations = x]
    BY <1>11 DEF VisitAugAssign
  <2> QED BY <2>1, <2>2 DEF Effect
<1>12. CASE VisitCall(t)
  <2>1. t.op = "call" /\ Read(t) /\ UNCHANGED <<opened, scope_stack, loop_depth, membership_loop_depth>>
    BY <1>12 DEF VisitCall, Simple
  <2>2. \E x, y : ir' = [ir EXCEPT !.mutations = x, !.calls = y]
    BY <1>12 DEF VisitCall
  <2> QED BY <2>1, <2>2 DEF Effect
<1>13. CASE VisitCompare(t) BY <1>13 DEF VisitCompare, Simple, Effect
<1>14. CASE VisitSubscript(t)
  <2>1. t.op = "index" /\ Read(t) /\ UNCHANGED <<opened, scope_stack, loop_depth, membership_loop_depth>>
    BY <1>14 DEF VisitSubscript, Simple
  <2>2. \E x : ir' = [ir EXCEPT !.bounds_risks = x]
    BY <1>14 DEF VisitSubscript
  <2> QED BY <2>1, <2>2 DEF Effect
<1>15. CASE VisitReturn(t) BY <1>15 DEF VisitReturn, Simple, Effect
<1>16. CASE LeaveScope(t)
  <2>1. /\ t.op = "end" /\ opened # <<>> /\ Last(opened).op \in {"def", "class"} /\ Read(t)
        /\ opened' = Front(opened) /\ scope_stack' = Front(scope_stack)
        /\ UNCHANGED <<loop_depth, membership_loop_depth>>
    BY <1>16 DEF LeaveScope
  <2>2. (\E x : ir' = [ir EXCEPT !.state_flow_risks = x]) \/ ir' = ir
    BY <1>16 DEF LeaveScope
  <2> QED BY <2>1, <2>2 DEF Effect
<1>17. CASE LeaveLoop(t) BY <1>17 DEF LeaveLoop, Effect
<1>18. CASE LeaveIf(t) BY <1>18 DEF LeaveIf, Effect
<1> QED
  BY <1>1, <1>2, <1>3, <1>4, <1>5, <1>6, <1>7, <1>8, <1>9, <1>10, <1>11, <1>12, <1>13, <1>14, <1>15, <1>16, <1>17, <1>18, Zenon

OpenRecords == {[op |-> t.op, name |-> t.name, kind |-> t.kind, line |-> k] : t \in Words, k \in Nat}

\* The stack of the visitor holds, by level, the lines whose constructs are open.
StackInv(p, o, d) ==
    /\ p \in Seq(Words) /\ o \in Seq(OpenRecords)
    /\ Levels(p, Len(p), d) /\ Len(o) = d[Len(p) + 1]
    /\ \A j \in 1..Len(o) :
         /\ o[j].line \in OpenAt(p, d, Len(p) + 1) /\ d[o[j].line] = j - 1
         /\ o[j].op = p[o[j].line].op /\ o[j].kind = p[o[j].line].kind

\* q is p with one more line, and e its levels.
Reads(p, d, q, e, t) ==
    /\ Len(p) \in Nat /\ Len(q) = Len(p) + 1 /\ q[Len(p) + 1] = t
    /\ Levels(p, Len(p), d) /\ Levels(q, Len(p) + 1, e) /\ Continues(p, d, q, e, Len(p))

\* The construct that a closing line closes.
Closes(p, d, top, last) ==
    /\ top \in OpenAt(p, d, Len(p) + 1) /\ d[top] = d[Len(p) + 1] - 1
    /\ last.op = p[top].op /\ last.kind = p[top].kind

LEMMA StackStep ==
    ASSUME NEW d, StackInv(program, opened, d), NEW t \in Words, StackEffect(t)
    PROVE  \E e : /\ StackInv(program', opened', e) /\ Reads(program, d, program', e, t)
                  /\ t.op = "end" => \E top : Closes(program, d, top, Last(opened))
<1> DEFINE p == program
           o == opened
           n == Len(program)
           q == program'
           r == opened'
           e == LevelAfter(program, Len(program), d, t)
<1>1. /\ p \in Seq(Words) /\ o \in Seq(OpenRecords) /\ Levels(p, n, d) /\ Len(o) = d[n + 1]
      /\ \A j \in 1..Len(o) :
           /\ o[j].line \in OpenAt(p, d, n + 1) /\ d[o[j].line] = j - 1
           /\ o[j].op = p[o[j].line].op /\ o[j].kind = p[o[j].line].kind
  BY DEF StackInv
<1>2. /\ q = Append(p, t)
      /\ t.op \in Openers => r = Append(o, [op |-> t.op, name |-> t.name, kind |-> t.kind, line |-> n + 1])
      /\ t.op = "end" => o # <<>> /\ r = Front(o)
      /\ t.op \notin Openers \cup {"end"} => r = o
  BY DEF StackEffect, Here
<1>3. n \in Nat /\ Len(o) \in Nat /\ (o # <<>> => Len(o) > 0)
  BY <1>1
<1>4. t.op = "end" => d[n + 1] > 0
  BY <1>1, <1>2, <1>3
<1>5. /\ Len(q) = n + 1 /\ q[n + 1] = t /\ q \in Seq(Words)
      /\ Levels(q, n + 1, e) /\ Continues(p, d, q, e, n)
  BY <1>1, <1>2, <1>4, LevelsContinue
<1>6. Reads(p, d, q, e, t)
  BY <1>1, <1>3, <1>5 DEF Reads
<1>8. /\ OpenAt(q, e, n + 1) = OpenAt(p, d, n + 1) /\ OpenAt(p, d, n + 1) \subseteq 1..n
      /\ \A k \in 1..n : q[k] = p[k] /\ e[k] = d[k]
      /\ e[n + 1] = d[n + 1] /\ d[n + 1] \in Nat
  <2>1. n + 1 \in 1..n + 1 /\ \A k \in 1..n : k \in 1..n + 1
    BY <1>3
  <2>2. d \in [1..n + 1 -> Nat]
    BY <1>1 DEF Levels
  <2>3. OpenAt(q, e, n + 1) = OpenAt(p, d, n + 1)
    BY <1>3, <1>5, <2>1, OpenIsStable
  <2>4. OpenAt(p, d, n + 1) \subseteq 1..n
    BY <1>3 DEF OpenAt
  <2> QED BY <1>5, <2>1, <2>2, <2>3, <2>4 DEF Continues
<1>9. \A j \in 1..Len(o) :
         /\ o[j].line \in 1..n /\ o[j].line \in OpenAt(q, e, n + 1) /\ e[o[j].line] = j - 1
         /\ o[j].op = q[o[j].line].op /\ o[j].kind = q[o[j].line].kind
  BY <1>1, <1>8
<1> HIDE DEF p, o, n, q, r, e
<1>10. /\ n + 1 \in 1..n + 1 /\ e[(n + 1) + 1] \in Nat
       /\ t.op \in Openers => OpenAt(q, e, n + 2) = OpenAt(q, e, n + 1) \cup {n + 1} /\ e[n + 2] = d[n + 1] + 1
       /\ t.op = "end" =>
            OpenAt(q, e, n + 2) = {k \in OpenAt(q, e, n + 1) : e[k] < e[n + 2]} /\ e[n + 2] = d[n + 1] - 1
       /\ t.op \notin Openers \cup {"end"} => OpenAt(q, e, n + 2) = OpenAt(q, e, n + 1) /\ e[n + 2] = d[n + 1]
  <2>1. n + 1 \in Nat /\ n + 1 \in 1..n + 1 /\ (n + 1) + 1 = n + 2
    BY <1>3
  <2>2. /\ q[n + 1].op \in Openers => OpenAt(q, e, (n + 1) + 1) = OpenAt(q, e, n + 1) \cup {n + 1}
        /\ q[n + 1].op = "end" => OpenAt(q, e, (n + 1) + 1) = {k \in OpenAt(q, e, n + 1) : e[k] < e[(n + 1) + 1]}
        /\ q[n + 1].op \notin Openers \cup {"end"} => OpenAt(q, e, (n + 1) + 1) = OpenAt(q, e, n + 1)
    BY <1>5, <2>1, OpenStep
  <2>3. /\ q[n + 1].op \in Openers => e[(n + 1) + 1] = e[n + 1] + 1
        /\ q[n + 1].op = "end" => e[(n + 1) + 1] = e[n + 1] - 1
        /\ q[n + 1].op \notin Openers \cup {"end"} => e[(n + 1) + 1] = e[n + 1]
        /\ e[(n + 1) + 1] \in Nat
    <3>1. LevelChange(q, e, n + 1)
      BY <1>5, <2>1, LevelStep
    <3> QED BY <3>1, Zenon DEF LevelChange
  <2> QED BY <1>5, <1>8, <2>1, <2>2, <2>3
<1>11. StackInv(q, r, e)
  <2>1. SUFFICES /\ r \in Seq(OpenRecords) /\ Len(r) = e[n + 2]
                 /\ \A j \in 1..Len(r) :
                      /\ r[j].line \in OpenAt(q, e, n + 2) /\ e[r[j].line] = j - 1
                      /\ r[j].op = q[r[j].line].op /\ r[j].kind = q[r[j].line].kind
    <3>1. Len(q) + 1 = n + 2
      BY <1>3, <1>5
    <3> QED BY <1>5, <3>1 DEF StackInv
  <2>2. CASE t.op \in Openers
    <3> DEFINE w == [op |-> t.op, name |-> t.name, kind |-> t.kind, line |-> n + 1]
    <3>1. w \in OpenRecords /\ w.line = n + 1 /\ w.op = t.op /\ w.kind = t.kind
      BY <1>3 DEF OpenRecords
    <3>2. r = Append(o, w)
      BY <1>2, <2>2 DEF p, o, n, q, r
    <3> HIDE DEF w
    <3>3. r \in Seq(OpenRecords) /\ Len(r) = Len(o) + 1 /\ r[Len(o) + 1] = w /\ \A j \in 1..Len(o) : r[j] = o[j]
      BY <1>1, <3>1, <3>2, Appended DEF o
    <3>4. n + 1 \in OpenAt(q, e, n + 2) /\ \A k \in OpenAt(q, e, n + 1) : k \in OpenAt(q, e, n + 2)
      BY <1>10, <2>2
    <3>5. Len(o) = d[n + 1] /\ Len(o) \in Nat
      BY <1>1, <1>3 DEF o, n
    <3>6. ASSUME NEW j \in 1..Len(r)
          PROVE  /\ r[j].line \in OpenAt(q, e, n + 2) /\ e[r[j].line] = j - 1
                 /\ r[j].op = q[r[j].line].op /\ r[j].kind = q[r[j].line].kind
      <4>1. CASE j \in 1..Len(o) BY <1>9, <3>3, <3>4, <4>1
      <4>2. CASE j = Len(o) + 1 BY <1>5, <1>8, <3>1, <3>3, <3>4, <3>5, <4>2
      <4> QED BY <3>3, <3>5, <4>1, <4>2
    <3> QED BY <1>10, <2>2, <3>3, <3>5, <3>6
  <2>3. CASE t.op = "end"
    <3>1. o # <<>> /\ r = Front(o)
      BY <1>2, <2>3 DEF o, r
    <3>2. r \in Seq(OpenRecords) /\ Len(o) > 0 /\ Len(r) = Len(o) - 1 /\ \A j \in 1..Len(o) - 1 : r[j] = o[j]
      BY <1>1, <3>1, Fronts DEF o
    <3>3. Len(o) = d[n + 1] /\ Len(o) \in Nat
      BY <1>1, <1>3 DEF o, n
    <3>4. ASSUME NEW j \in 1..Len(r)
          PROVE  /\ r[j].line \in OpenAt(q, e, n + 2) /\ e[r[j].line] = j - 1
                 /\ r[j].op = q[r[j].line].op /\ r[j].kind = q[r[j].line].kind
      <4>1. j \in 1..Len(o) /\ r[j] = o[j] /\ j - 1 < Len(o) - 1
        BY <3>2, <3>3
      <4>2. e[o[j].line] < e[n + 2]
        BY <1>9, <1>10, <2>3, <3>3, <4>1
      <4>3. o[j].line \in OpenAt(q, e, n + 2)
        BY <1>9, <1>10, <2>3, <4>1, <4>2
      <4> QED BY <1>9, <4>1, <4>3
    <3> QED BY <1>10, <2>3, <3>2, <3>3, <3>4
  <2>4. CASE t.op \notin Openers \cup {"end"}
    <3>1. r = o
      BY <1>2, <2>4 DEF o, r
    <3>2. OpenAt(q, e, n + 2) = OpenAt(q, e, n + 1) /\ e[n + 2] = d[n + 1]
      BY <1>10, <2>4
    <3> QED BY <1>1, <1>9, <3>1, <3>2 DEF o, n
  <2> QED BY <2>2, <2>3, <2>4
<1>12. t.op = "end" => \E top : Closes(p, d, top, Last(o))
  <2>1. SUFFICES ASSUME t.op = "end" PROVE Closes(p, d, o[Len(o)].line, Last(o))
    OBVIOUS
  <2>2. Len(o) \in 1..Len(o)
    BY <1>2, <1>3, <2>1 DEF o
  <2> QED BY <1>1, <2>2 DEF Closes, Last, o, p, n
<1> QED BY <1>6, <1>11, <1>12 DEF p, o, q, r

LEMMA StackSettles ==
    ASSUME program = <<>>, opened = <<>>
    PROVE  StackInv(program, opened, [z \in 1..1 |-> 0])
<1>1. Len(program) = 0 /\ program \in Seq(Words) /\ opened \in Seq(OpenRecords) /\ Len(opened) = 0
  OBVIOUS
<1>2. Levels(program, 0, [z \in 1..1 |-> 0])
  BY DEF Levels
<1> QED BY <1>1, <1>2 DEF StackInv

\* The visitor's counters are the numbers of constructs that are open.
DepthInv(p, d, depth, membership_depth) ==
    /\ depth = Cardinality(OpenAt(p, d, Len(p) + 1) \cap OfKind(p, {"for", "while"}))
    /\ membership_depth = Cardinality(OpenAt(p, d, Len(p) + 1) \cap OfKind(p, {"for", "while", "comp"}))
                          + Cardinality(OpenAt(p, d, Len(p) + 1) \cap NestedComprehensions(p))

\* What is open before the new line is the same in p and q, as far as Y and Z go.
SameOpen(p, d, q, e, Z, Y) == OpenAt(q, e, Len(p) + 1) \cap Z = OpenAt(p, d, Len(p) + 1) \cap Y

\* How the new line changes the number of those.
CountChange(p, d, q, e, t, Z, Y) ==
    /\ Cardinality(OpenAt(p, d, Len(p) + 1) \cap Y) \in Nat
    /\ t.op \in Openers =>
         Cardinality(OpenAt(q, e, Len(q) + 1) \cap Z)
           = Cardinality(OpenAt(p, d, Len(p) + 1) \cap Y) + (IF Len(p) + 1 \in Z THEN 1 ELSE 0)
    /\ \A top, last : t.op = "end" /\ Closes(p, d, top, last) =>
         Cardinality(OpenAt(q, e, Len(q) + 1) \cap Z)
           = Cardinality(OpenAt(p, d, Len(p) + 1) \cap Y) - (IF top \in Z THEN 1 ELSE 0)
    /\ t.op \notin Openers \cup {"end"} =>
         Cardinality(OpenAt(q, e, Len(q) + 1) \cap Z) = Cardinality(OpenAt(p, d, Len(p) + 1) \cap Y)

LEMMA CountStepOf ==
    ASSUME NEW p, NEW d, NEW q, NEW e, NEW t, Reads(p, d, q, e, t), NEW Z, NEW Y, SameOpen(p, d, q, e, Z, Y)
    PROVE  CountChange(p, d, q, e, t, Z, Y)
<1> DEFINE n == Len(p)
           m == n + 1
<1>1. /\ n \in Nat /\ Len(q) = n + 1 /\ q[n + 1] = t /\ Levels(q, n + 1, e) /\ Continues(p, d, q, e, n)
      /\ OpenAt(q, e, n + 1) \cap Z = OpenAt(p, d, n + 1) \cap Y
  BY DEF Reads, SameOpen
<1> HIDE DEF n
<1>2. m \in Nat /\ m \in 1..n + 1 /\ m \in 1..m /\ m = n + 1
  BY <1>1
<1> HIDE DEF m
<1>3. Cardinality(OpenAt(p, d, m) \cap Y) \in Nat
  BY <1>1, <1>2, OpenIsFinite
<1>4. OpenAt(q, e, m) = OpenAt(p, d, m) /\ \A k \in OpenAt(p, d, m) : e[k] = d[k]
  <2>1. OpenAt(q, e, m) = OpenAt(p, d, m)
    BY <1>1, <1>2, OpenIsStable
  <2>2. \A k \in OpenAt(p, d, m) : k \in 1..n + 1
    BY <1>1, <1>2 DEF OpenAt
  <2> QED BY <1>1, <2>1, <2>2 DEF Continues
<1>5. e[m] = d[m]
  BY <1>1, <1>2 DEF Continues
<1>6. Levels(q, m, e)
  BY <1>1, <1>2
<1>7. t.op \in Openers => Gains(q, e, m, Z)
  BY <1>1, <1>2, <1>6, OpenCountStep
<1>8. ASSUME NEW top, NEW last, t.op = "end", Closes(p, d, top, last) PROVE Drops(q, e, m, Z, top)
  <2>1. IsTop(q, e, m, top)
    BY <1>2, <1>4, <1>5, <1>8 DEF Closes, IsTop, n
  <2> QED BY <1>1, <1>2, <1>6, <1>8, <2>1, OpenCountStep
<1>9. t.op \notin Openers \cup {"end"} => OpenAt(q, e, m + 1) = OpenAt(q, e, m)
  BY <1>1, <1>2, <1>6, OpenStep
<1>10. Len(q) + 1 = m + 1 /\ Len(p) + 1 = m /\ OpenAt(q, e, m) \cap Z = OpenAt(p, d, m) \cap Y
  BY <1>1, <1>2 DEF n
<1> QED BY <1>3, <1>7, <1>8, <1>9, <1>10 DEF CountChange, Gains, Drops

LEMMA DepthStep ==
    ASSUME NEW d, NEW e, NEW t, Reads(program, d, program', e, t), DepthEffect(t),
           DepthInv(program, d, loop_depth, membership_loop_depth),
           t.op = "end" => \E top : Closes(program, d, top, Last(opened))
    PROVE  DepthInv(program', e, loop_depth', membership_loop_depth')
<1> DEFINE p == program
           q == program'
           n == Len(program)
           Until(Z) == Cardinality(OpenAt(p, d, Len(p) + 1) \cap Z)
           After(Z) == Cardinality(OpenAt(q, e, Len(q) + 1) \cap Z)
           loops(s) == OfKind(s, {"for", "while"})
           tests(s) == OfKind(s, {"for", "while", "comp"})
           nested(s) == NestedComprehensions(s)
<1>1. n \in Nat /\ n + 1 \in Nat /\ n + 1 \in 1..n + 1 /\ q[n + 1] = t /\ Continues(p, d, q, e, n)
  BY DEF Reads
<1>2. /\ n + 1 \in loops(q) <=> t.op \in {"for", "while"}
      /\ n + 1 \in tests(q) <=> t.op \in {"for", "while", "comp"}
      /\ n + 1 \in nested(q) <=> t.op = "comp" /\ t.kind = "nested"
  BY <1>1 DEF OfKind, NestedComprehensions
<1>3. ASSUME NEW top, Closes(p, d, top, Last(opened))
      PROVE  /\ top \in loops(q) <=> Last(opened).op \in {"for", "while"}
             /\ top \in tests(q) <=> Last(opened).op \in {"for", "while", "comp"}
             /\ top \in nested(q) <=> Last(opened).op = "comp" /\ Last(opened).kind = "nested"
  <2>1. top \in Nat /\ top \in 1..n
    BY <1>1, <1>3 DEF Closes, OpenAt
  <2>2. q[top] = p[top]
    BY <1>1, <2>1 DEF Continues
  <2> QED BY <1>3, <2>1, <2>2 DEF Closes, OfKind, NestedComprehensions
<1>4. ASSUME NEW Z, NEW Y, SameOpen(p, d, q, e, Z, Y)
      PROVE  /\ Until(Y) \in Nat
             /\ t.op \in Openers => After(Z) = Until(Y) + (IF n + 1 \in Z THEN 1 ELSE 0)
             /\ \A top : t.op = "end" /\ Closes(p, d, top, Last(opened)) => After(Z) = Until(Y) - (IF top \in Z THEN 1 ELSE 0)
             /\ t.op \notin Openers \cup {"end"} => After(Z) = Until(Y)
  <2>1. CountChange(p, d, q, e, t, Z, Y)
    BY <1>4, CountStepOf
  <2> QED BY <2>1, Zenon DEF CountChange
<1>5. /\ SameOpen(p, d, q, e, loops(q), loops(p)) /\ SameOpen(p, d, q, e, tests(q), tests(p))
      /\ SameOpen(p, d, q, e, nested(q), nested(p))
  BY <1>1, OpenIsStable DEF SameOpen
<1>6. loop_depth = Until(loops(p)) /\ membership_loop_depth = Until(tests(p)) + Until(nested(p))
  BY DEF DepthInv
<1> HIDE DEF Until, After, loops, tests, nested, p, q, n
<1>7. /\ Until(loops(p)) \in Nat /\ Until(tests(p)) \in Nat /\ Until(nested(p)) \in Nat
      /\ t.op \in Openers =>
           /\ After(loops(q)) = Until(loops(p)) + (IF n + 1 \in loops(q) THEN 1 ELSE 0)
           /\ After(tests(q)) = Until(tests(p)) + (IF n + 1 \in tests(q) THEN 1 ELSE 0)
           /\ After(nested(q)) = Until(nested(p)) + (IF n + 1 \in nested(q) THEN 1 ELSE 0)
      /\ \A top : t.op = "end" /\ Closes(p, d, top, Last(opened)) =>
           /\ After(loops(q)) = Until(loops(p)) - (IF top \in loops(q) THEN 1 ELSE 0)
           /\ After(tests(q)) = Until(tests(p)) - (IF top \in tests(q) THEN 1 ELSE 0)
           /\ After(nested(q)) = Until(nested(p)) - (IF top \in nested(q) THEN 1 ELSE 0)
      /\ t.op \notin Openers \cup {"end"} =>
           After(loops(q)) = Until(loops(p)) /\ After(tests(q)) = Until(tests(p)) /\ After(nested(q)) = Until(nested(p))
  BY <1>4, <1>5
<1>8. loop_depth' = After(loops(q)) /\ membership_loop_depth' = After(tests(q)) + After(nested(q))
  <2>1. CASE t.op \in Openers
    <3>1. t.op \in {"def", "class", "for", "while", "if", "comp"}
      BY <2>1 DEF Openers
    <3> QED BY <1>2, <1>6, <1>7, <2>1, <3>1 DEF DepthEffect, Generators
  <2>2. CASE t.op = "end"
    <3>1. PICK top : Closes(p, d, top, Last(opened))
      BY <2>2 DEF p
    <3> QED BY <1>3, <1>6, <1>7, <2>2, <3>1 DEF DepthEffect, Generators
  <2>3. CASE t.op \notin Openers \cup {"end"}
    <3>1. t.op \notin {"for", "while", "comp", "end"}
      BY <2>3 DEF Openers
    <3> QED BY <1>6, <1>7, <2>3, <3>1 DEF DepthEffect
  <2> QED BY <2>1, <2>2, <2>3
<1> QED BY <1>8 DEF DepthInv, After, loops, tests, nested, q

LEMMA MaxIs ==
    ASSUME NEW S \in SUBSET Nat, NEW x \in S, \A y \in S : y <= x
    PROVE  Max(S) = x
<1>1. \E z \in S : \A y \in S : z >= y
  BY SMT
<1>2. Max(S) \in S /\ \A y \in S : Max(S) >= y
  BY <1>1, Zenon DEF Max
<1>3. Max(S) \in Nat /\ x \in Nat /\ Max(S) >= x /\ Max(S) <= x
  BY <1>2
<1> QED BY <1>3

LEMMA LargestNumber ==
    ASSUME NEW S \in SUBSET Nat, S # {}, NEW b \in Nat, \A y \in S : y <= b
    PROVE  Max(S) \in S /\ \A y \in S : y <= Max(S)
<1> DEFINE T == {c \in Nat : \A y \in S : y <= c}
<1>1. b \in T /\ T \in SUBSET Nat OBVIOUS
<1>2. PICK c \in T : \A z \in T : c <= z
  <2> HIDE DEF T
  <2> QED BY <1>1, LeastNumber
<1>3. c \in S
  <2>1. SUFFICES ASSUME c \notin S PROVE FALSE
    OBVIOUS
  <2>2. c \in Nat /\ \A y \in S : y \in Nat /\ y < c
    BY <1>2, <2>1
  <2>3. PICK y \in S : TRUE
    OBVIOUS
  <2>4. c - 1 \in T
    BY <2>2, <2>3
  <2> QED BY <1>2, <2>2, <2>4
<1>4. \A y \in S : y <= c
  BY <1>2
<1>5. Max(S) = c
  <2> HIDE DEF T
  <2> QED BY <1>3, <1>4, MaxIs
<1> QED BY <1>3, <1>4, <1>5

LoopRecords == [depth : Nat, line : Nat]
LoopLines(p, n) == {k \in 1..n : p[k].op \in {"for", "while"}}
DecisionLines(p, n) == {k \in 1..n : p[k].op \in {"if", "for", "while"}}
DepthOf(p, d, i) == Cardinality(OpenAt(p, d, i) \cap OfKind(p, {"for", "while"})) + 1

\* Every loop is recorded, at the depth of its nesting.
LoopsInv(p, d, loops) ==
    /\ loops \in Seq(LoopRecords)
    /\ \A x \in 1..Len(loops) :
         loops[x].line \in LoopLines(p, Len(p)) /\ loops[x].depth = DepthOf(p, d, loops[x].line)
    /\ \A k \in LoopLines(p, Len(p)) : \E x \in 1..Len(loops) : loops[x].line = k

LEMMA DepthsAreStable ==
    ASSUME NEW p, NEW d, NEW q, NEW e, NEW n \in Nat, Continues(p, d, q, e, n), NEW i \in 1..n + 1
    PROVE  DepthOf(q, e, i) = DepthOf(p, d, i)
<1>1. OpenAt(q, e, i) \cap OfKind(q, {"for", "while"}) = OpenAt(p, d, i) \cap OfKind(p, {"for", "while"})
  BY OpenIsStable
<1> QED BY <1>1 DEF DepthOf

LEMMA LoopsStep ==
    ASSUME NEW d, NEW e, NEW t, Reads(program, d, program', e, t), DepthEffect(t), RecordEffect(t),
           DepthInv(program, d, loop_depth, membership_loop_depth), LoopsInv(program, d, ir.loops)
    PROVE  LoopsInv(program', e, ir'.loops)
<1> DEFINE p == program
           q == program'
           n == Len(program)
           old == ir.loops
           new == ir'.loops
<1>1. n \in Nat /\ n + 1 \in Nat /\ Len(q) = n + 1 /\ q[n + 1] = t /\ Continues(p, d, q, e, n)
      /\ \A k \in 1..n : q[k] = p[k]
  BY DEF Reads, Continues
<1>2. /\ old \in Seq(LoopRecords)
      /\ \A x \in 1..Len(old) : old[x].line \in LoopLines(p, n) /\ old[x].depth = DepthOf(p, d, old[x].line)
      /\ \A k \in LoopLines(p, n) : \E x \in 1..Len(old) : old[x].line = k
  BY DEF LoopsInv
<1>3. LoopLines(q, n + 1) = LoopLines(p, n) \cup (IF t.op \in {"for", "while"} THEN {n + 1} ELSE {})
  <2>1. 1..n + 1 = (1..n) \cup {n + 1}
    BY <1>1
  <2> QED BY <1>1, <2>1 DEF LoopLines
<1>4. \A k \in LoopLines(p, n) : DepthOf(q, e, k) = DepthOf(p, d, k)
  <2>1. \A k \in LoopLines(p, n) : k \in 1..n + 1
    BY <1>1 DEF LoopLines
  <2> QED BY <1>1, <2>1, DepthsAreStable
<1>5. DepthOf(q, e, n + 1) = loop_depth + 1 /\ loop_depth \in Nat
  <2>1. n + 1 \in 1..n + 1
    BY <1>1
  <2>2. DepthOf(q, e, n + 1) = DepthOf(p, d, n + 1)
    BY <1>1, <2>1, DepthsAreStable
  <2>3. Cardinality(OpenAt(p, d, n + 1) \cap OfKind(p, {"for", "while"})) \in Nat
    BY <1>1, <2>1, OpenIsFinite
  <2> QED BY <2>2, <2>3 DEF DepthOf, DepthInv
<1>6. CASE t.op \in {"for", "while"}
  <2> DEFINE w == [depth |-> loop_depth', line |-> Here]
  <2>1. new = Append(old, w) /\ loop_depth' = loop_depth + 1
    BY <1>6 DEF RecordEffect, DepthEffect
  <2>2. w \in LoopRecords /\ w.line = n + 1 /\ w.depth = DepthOf(q, e, n + 1)
    BY <1>1, <1>5, <2>1 DEF LoopRecords, Here
  <2> HIDE DEF w
  <2>3. new \in Seq(LoopRecords) /\ Len(new) = Len(old) + 1 /\ new[Len(old) + 1] = w /\ Len(old) \in Nat
        /\ \A x \in 1..Len(old) : new[x] = old[x]
    BY <1>2, <2>1, <2>2, Appended
  <2>4. LoopLines(q, n + 1) = LoopLines(p, n) \cup {n + 1}
    BY <1>3, <1>6
  <2> HIDE DEF new, old, p, q, n
  <2>5. ASSUME NEW x \in 1..Len(new)
        PROVE  new[x].line \in LoopLines(q, n + 1) /\ new[x].depth = DepthOf(q, e, new[x].line)
    <3>1. CASE x \in 1..Len(old) BY <1>2, <1>4, <2>3, <2>4, <3>1
    <3>2. CASE x = Len(old) + 1 BY <2>2, <2>3, <2>4, <3>2
    <3> QED BY <2>3, <3>1, <3>2
  <2>6. ASSUME NEW k \in LoopLines(q, n + 1) PROVE \E x \in 1..Len(new) : new[x].line = k
    <3>1. CASE k \in LoopLines(p, n)
      <4>1. PICK x \in 1..Len(old) : old[x].line = k
        BY <1>2, <3>1
      <4>2. x \in 1..Len(new) /\ new[x] = old[x]
        BY <2>3
      <4> QED BY <4>1, <4>2
    <3>2. CASE k = n + 1
      <4>1. Len(old) + 1 \in 1..Len(new)
        BY <2>3
      <4> QED BY <2>2, <2>3, <3>2, <4>1
    <3> QED BY <2>4, <3>1, <3>2
  <2> QED BY <1>1, <2>3, <2>5, <2>6 DEF LoopsInv, new, q, n
<1>7. CASE t.op \notin {"for", "while"}
  <2>1. new = old
    BY <1>7 DEF RecordEffect
  <2>2. LoopLines(q, n + 1) = LoopLines(p, n)
    BY <1>3, <1>7
  <2> HIDE DEF new, old, p, q, n
  <2> QED BY <1>1, <1>2, <1>4, <2>1, <2>2 DEF LoopsInv, new, q, n
<1> QED BY <1>6, <1>7

FunctionRecords == {[name |-> t.name, line |-> k] : t \in Words, k \in Nat}

\* Every function recorded is a line of the draft.
FunctionsInv(p, functions) ==
    /\ functions \in Seq(FunctionRecords)
    /\ \A x \in 1..Len(functions) : functions[x].line \in 1..Len(p)

LEMMA FunctionsStep ==
    ASSUME NEW d, NEW e, NEW t \in Words, Reads(program, d, program', e, t), RecordEffect(t),
           FunctionsInv(program, ir.functions)
    PROVE  FunctionsInv(program', ir'.functions)
<1> DEFINE n == Len(program)
           old == ir.functions
           new == ir'.functions
           w == [name |-> t.name, line |-> n + 1]
<1>1. n \in Nat /\ n + 1 \in Nat /\ Len(program') = n + 1
  BY DEF Reads
<1>2. old \in Seq(FunctionRecords) /\ \A x \in 1..Len(old) : old[x].line \in 1..n
  BY DEF FunctionsInv
<1>3. new = Append(old, w) \/ new = old
  BY DEF RecordEffect, Here
<1>4. w \in FunctionRecords /\ w.line = n + 1
  BY <1>1 DEF FunctionRecords
<1> HIDE DEF w, n, new, old
<1>5. CASE new = Append(old, w)
  <2>1. new \in Seq(FunctionRecords) /\ Len(new) = Len(old) + 1 /\ new[Len(old) + 1] = w /\ Len(old) \in Nat
        /\ \A x \in 1..Len(old) : new[x] = old[x]
    BY <1>2, <1>4, <1>5, Appended
  <2>2. ASSUME NEW x \in 1..Len(new) PROVE new[x].line \in 1..n + 1
    <3>1. CASE x \in 1..Len(old) BY <1>1, <1>2, <2>1, <3>1
    <3>2. CASE x = Len(old) + 1 BY <1>1, <1>4, <2>1, <3>2
    <3> QED BY <2>1, <3>1, <3>2
  <2> QED BY <1>1, <2>1, <2>2 DEF FunctionsInv, new
<1>6. CASE new = old BY <1>1, <1>2, <1>6 DEF FunctionsInv, new
<1> QED BY <1>3, <1>5, <1>6

-----------------------------------------------------------------------------
(* What the walk of the other languages has seen *)

\* The walk of the other languages: what it has seen before line i.
LoopFlags(p, d, i) == [j \in 1..d[i] |-> \E z \in OpenAt(p, d, i) : p[z].op \in {"for", "while"} /\ d[z] = j - 1]
DepthsSeen(p, d, k) == {0} \cup {DepthOf(p, d, z) : z \in LoopLines(p, k)}
Seen(p, d, k) ==
    [path |-> LoopFlags(p, d, k + 1), depth |-> Max(DepthsSeen(p, d, k)), decisions |-> Cardinality(DecisionLines(p, k))]

\* flags says which constructs around line i are loops, and so how deep a loop there is.
FlagsAt(p, d, i, flags) ==
    /\ flags \in Seq(BOOLEAN) /\ Len(flags) = d[i] /\ d[i] \in Nat
    /\ Cardinality({j \in DOMAIN flags : flags[j]}) + 1 = DepthOf(p, d, i)

LEMMA FlagsCount ==
    ASSUME NEW p, NEW n \in Nat, NEW d, Levels(p, n, d), NEW i \in 1..n + 1
    PROVE  FlagsAt(p, d, i, LoopFlags(p, d, i))
<1> DEFINE S == OpenAt(p, d, i) \cap OfKind(p, {"for", "while"})
           T == {j \in 1..d[i] : \E z \in OpenAt(p, d, i) : p[z].op \in {"for", "while"} /\ d[z] = j - 1}
           f == [z \in S |-> d[z] + 1]
<1>1. d[i] \in Nat /\ i \in Nat /\ \A z \in 1..n + 1 : d[z] \in Nat
  BY DEF Levels
<1>2. \A z \in OpenAt(p, d, i) : z \in Nat /\ d[z] \in Nat /\ d[z] < d[i]
  <2>1. SUFFICES ASSUME NEW z \in OpenAt(p, d, i) PROVE z \in Nat /\ d[z] \in Nat /\ d[z] < d[i]
    OBVIOUS
  <2>2. z \in 1..i - 1 /\ \A y \in z + 1..i : d[y] > d[z]
    BY DEF OpenAt
  <2>3. i \in z + 1..i /\ z \in 1..n + 1
    BY <1>1, <2>2
  <2> QED BY <1>1, <2>2, <2>3
<1>3. LoopFlags(p, d, i) \in Seq(BOOLEAN) /\ Len(LoopFlags(p, d, i)) = d[i] /\ DOMAIN LoopFlags(p, d, i) = 1..d[i]
  <2>1. \A j \in 1..d[i] :
          (\E z \in OpenAt(p, d, i) : p[z].op \in {"for", "while"} /\ d[z] = j - 1) \in BOOLEAN
    BY Zenon
  <2>2. LoopFlags(p, d, i) \in [1..d[i] -> BOOLEAN]
    BY <2>1, Zenon DEF LoopFlags
  <2> HIDE DEF LoopFlags
  <2> QED BY <1>1, <2>2
<1>4. {j \in DOMAIN LoopFlags(p, d, i) : LoopFlags(p, d, i)[j]} = T
  BY <1>3, Zenon DEF LoopFlags
<1>5. f \in [S -> T]
  <2>1. ASSUME NEW z \in S PROVE d[z] + 1 \in T
    <3>1. z \in OpenAt(p, d, i) /\ p[z].op \in {"for", "while"}
      BY DEF OfKind
    <3>2. d[z] + 1 \in 1..d[i] /\ d[z] = (d[z] + 1) - 1
      BY <1>1, <1>2, <3>1
    <3> QED BY <3>1, <3>2
  <2> QED BY <2>1
<1>6. \A y, z \in S : f[y] = f[z] => y = z
  <2>1. \A y, z \in OpenAt(p, d, i) : z < y => d[z] < d[y]
    BY OpenNests
  <2>2. SUFFICES ASSUME NEW y \in S, NEW z \in S, d[y] + 1 = d[z] + 1 PROVE y = z
    OBVIOUS
  <2>3. y \in OpenAt(p, d, i) /\ z \in OpenAt(p, d, i) OBVIOUS
  <2> QED BY <1>2, <2>1, <2>2, <2>3
<1>7. \A j \in T : \E z \in S : f[z] = j
  <2>1. SUFFICES ASSUME NEW j \in T PROVE \E z \in S : f[z] = j
    OBVIOUS
  <2>2. PICK z \in OpenAt(p, d, i) : p[z].op \in {"for", "while"} /\ d[z] = j - 1
    OBVIOUS
  <2>3. z \in S /\ j \in Nat /\ d[z] + 1 = j
    BY <1>1, <1>2, <2>2 DEF OfKind
  <2> QED BY <2>3
<1>8. IsFiniteSet(S)
  BY OpenIsFinite
<1> HIDE DEF S, T, f
<1>9. f \in Bijection(S, T)
  BY <1>5, <1>6, <1>7 DEF Bijection, Injection, Surjection, IsInjective
<1>10. Cardinality(T) = Cardinality(S)
  <2>1. ExistsBijection(S, T)
    BY <1>9 DEF ExistsBijection
  <2> QED BY <1>8, <2>1, FS_Bijection
<1> QED BY <1>1, <1>3, <1>4, <1>10 DEF DepthOf, S, FlagsAt

LEMMA DepthsHaveMax ==
    ASSUME NEW p, NEW n \in Nat, NEW d, NEW k \in 0..n
    PROVE  /\ DepthsSeen(p, d, k) \in SUBSET Nat
           /\ Max(DepthsSeen(p, d, k)) \in DepthsSeen(p, d, k)
           /\ \A y \in DepthsSeen(p, d, k) : y <= Max(DepthsSeen(p, d, k))
<1>1. ASSUME NEW z \in 1..n PROVE DepthOf(p, d, z) \in Nat /\ DepthOf(p, d, z) <= n + 1
  <2> DEFINE S == OpenAt(p, d, z) \cap OfKind(p, {"for", "while"})
  <2>1. IsFiniteSet(1..n) /\ Cardinality(1..n) = n
    <3>1. 1 > n => n = 0 OBVIOUS
    <3> QED BY <3>1, FS_Interval
  <2>2. z \in 1..n + 1 OBVIOUS
  <2>3. S \in SUBSET (1..n) /\ Cardinality(S) \in Nat
    BY <2>2, OpenIsFinite
  <2>4. Cardinality(S) <= n
    BY <2>1, <2>3, FS_Subset
  <2> QED BY <2>3, <2>4 DEF DepthOf
<1>2. \A y \in DepthsSeen(p, d, k) : y \in Nat /\ y <= n + 1
  BY <1>1 DEF DepthsSeen, LoopLines
<1>3. DepthsSeen(p, d, k) # {} /\ DepthsSeen(p, d, k) \in SUBSET Nat /\ n + 1 \in Nat
  <2>1. 0 \in DepthsSeen(p, d, k)
    BY DEF DepthsSeen
  <2> QED BY <1>2, <2>1
<1> QED BY <1>2, <1>3, LargestNumber

LEMMA DecisionsCount ==
    ASSUME NEW p, NEW k \in Nat
    PROVE  /\ Cardinality(DecisionLines(p, k)) \in Nat /\ Cardinality(DecisionLines(p, 0)) = 0
           /\ Cardinality(DecisionLines(p, k + 1))
                = Cardinality(DecisionLines(p, k)) + (IF p[k + 1].op \in {"if", "for", "while"} THEN 1 ELSE 0)
<1> DEFINE Z == {z \in Nat : p[z].op \in {"if", "for", "while"}}
<1>1. \A j \in Nat : DecisionLines(p, j) = (1..j) \cap Z
  BY DEF DecisionLines
<1>2. k + 1 \in Nat /\ (k + 1 \in Z <=> p[k + 1].op \in {"if", "for", "while"}) /\ 1 <= k + 1
  OBVIOUS
<1>3. Cardinality(DecisionLines(p, 0)) = 0
  <2>1. DecisionLines(p, 0) = {}
    BY DEF DecisionLines
  <2> QED BY <2>1, FS_EmptySet
<1> HIDE DEF Z
<1>4. /\ Cardinality((1..k) \cap Z) \in Nat
      /\ Cardinality((1..k + 1) \cap Z) = Cardinality((1..k) \cap Z) + (IF k + 1 \in Z THEN 1 ELSE 0)
  BY <1>2, CountStep
<1> QED BY <1>1, <1>2, <1>3, <1>4

LEMMA SameSequence ==
    ASSUME NEW S, NEW s \in Seq(S), NEW r \in Seq(S), Len(s) = Len(r), \A j \in 1..Len(s) : s[j] = r[j]
    PROVE  s = r
OBVIOUS

\* One more line.
LEMMA SeenStep ==
    ASSUME NEW p, NEW n \in Nat, NEW d, Levels(p, n, d), NEW i \in 1..n
    PROVE  Visited(Seen(p, d, i - 1), p[i]) = Seen(p, d, i)
<1> DEFINE s == Seen(p, d, i - 1)
           t == p[i]
           before == LoopFlags(p, d, i)
           after == LoopFlags(p, d, i + 1)
<1>1. i \in Nat /\ i - 1 \in Nat /\ (i - 1) + 1 = i /\ i \in 1..n + 1 /\ i + 1 \in 1..n + 1 /\ i - 1 \in 0..n /\ i \in 0..n
  OBVIOUS
<1>2. /\ before \in Seq(BOOLEAN) /\ Len(before) = d[i] /\ d[i] \in Nat
      /\ Cardinality({j \in DOMAIN before : before[j]}) + 1 = DepthOf(p, d, i)
      /\ after \in Seq(BOOLEAN) /\ Len(after) = d[i + 1] /\ d[i + 1] \in Nat
  <2>1. FlagsAt(p, d, i, before)
    BY <1>1, FlagsCount, Zenon
  <2>2. FlagsAt(p, d, i + 1, after)
    BY <1>1, FlagsCount, Zenon
  <2> HIDE DEF before, after
  <2> QED BY <2>1, <2>2 DEF FlagsAt
<1>3. s = [path |-> before, depth |-> Max(DepthsSeen(p, d, i - 1)), decisions |-> Cardinality(DecisionLines(p, i - 1))]
  BY <1>1 DEF Seen
<1>4. /\ t.op \in Openers => d[i + 1] = d[i] + 1 /\ OpenAt(p, d, i + 1) = OpenAt(p, d, i) \cup {i}
      /\ t.op = "end" => d[i + 1] = d[i] - 1 /\ OpenAt(p, d, i + 1) = {k \in OpenAt(p, d, i) : d[k] < d[i + 1]}
      /\ t.op \notin Openers \cup {"end"} => d[i + 1] = d[i] /\ OpenAt(p, d, i + 1) = OpenAt(p, d, i)
  <2>1. LevelChange(p, d, i)
    BY LevelStep, Zenon
  <2> QED BY <2>1, OpenStep DEF LevelChange
<1>5. \A z \in OpenAt(p, d, i) : d[z] \in Nat /\ d[z] < d[i]
  <2>1. SUFFICES ASSUME NEW z \in OpenAt(p, d, i) PROVE d[z] \in Nat /\ d[z] < d[i]
    OBVIOUS
  <2>2. z \in 1..i - 1 /\ \A y \in z + 1..i : d[y] > d[z]
    BY DEF OpenAt
  <2>3. i \in z + 1..i /\ z \in 1..n + 1
    BY <1>1, <2>2
  <2> QED BY <1>2, <2>2, <2>3 DEF Levels
<1>6. Cardinality(DecisionLines(p, i - 1)) \in Nat
      /\ Cardinality(DecisionLines(p, i))
           = Cardinality(DecisionLines(p, i - 1)) + (IF t.op \in {"if", "for", "while"} THEN 1 ELSE 0)
  BY <1>1, DecisionsCount
<1>7. LoopLines(p, i) = LoopLines(p, i - 1) \cup (IF t.op \in {"for", "while"} THEN {i} ELSE {})
  <2>1. 1..i = (1..i - 1) \cup {i}
    BY <1>1
  <2> QED BY <2>1 DEF LoopLines
<1>8. t.op \notin {"for", "while"} => DepthsSeen(p, d, i) = DepthsSeen(p, d, i - 1)
  BY <1>7 DEF DepthsSeen
<1>9. t.op \in {"for", "while"} => Max(DepthsSeen(p, d, i)) = Max({Max(DepthsSeen(p, d, i - 1)), DepthOf(p, d, i)})
  <2>1. SUFFICES ASSUME t.op \in {"for", "while"}
                 PROVE  Max(DepthsSeen(p, d, i)) = Max({Max(DepthsSeen(p, d, i - 1)), DepthOf(p, d, i)})
    OBVIOUS
  <2> DEFINE D == DepthsSeen(p, d, i - 1)
             c == DepthOf(p, d, i)
             b == IF Max(D) >= c THEN Max(D) ELSE c
  <2>2. DepthsSeen(p, d, i) = D \cup {c}
    BY <1>7, <2>1 DEF DepthsSeen
  <2>3. D \in SUBSET Nat /\ Max(D) \in D /\ \A y \in D : y <= Max(D)
    BY <1>1, DepthsHaveMax
  <2>4. DepthsSeen(p, d, i) \in SUBSET Nat
    BY <1>1, DepthsHaveMax
  <2> HIDE DEF D, c
  <2>5. c \in Nat /\ Max(D) \in Nat
    BY <2>2, <2>3, <2>4
  <2>6. Max({Max(D), c}) = b
    <3>1. b \in {Max(D), c} /\ {Max(D), c} \in SUBSET Nat /\ \A y \in {Max(D), c} : y <= b
      BY <2>5
    <3> HIDE DEF b
    <3> QED BY <3>1, MaxIs
  <2>7. Max(D \cup {c}) = b
    <3>1. b \in D \cup {c} /\ D \cup {c} \in SUBSET Nat
      BY <2>3, <2>5
    <3>2. \A y \in D \cup {c} : y <= b
      BY <2>3, <2>5
    <3> HIDE DEF b
    <3> QED BY <3>1, <3>2, MaxIs
  <2> QED BY <2>2, <2>6, <2>7 DEF D, c
<1>10. /\ t.op \in {"for", "while"} => after = Append(before, TRUE)
       /\ t.op \in Openers \ {"for", "while"} => after = Append(before, FALSE)
  <2>1. SUFFICES ASSUME t.op \in Openers, NEW flag \in BOOLEAN, flag <=> t.op \in {"for", "while"}
                 PROVE  after = Append(before, flag)
    BY DEF Openers
  <2>2. Append(before, flag) \in Seq(BOOLEAN) /\ Len(Append(before, flag)) = d[i] + 1
        /\ Append(before, flag)[d[i] + 1] = flag /\ \A j \in 1..d[i] : Append(before, flag)[j] = before[j]
    <3> HIDE DEF before
    <3> QED BY <1>2, Appended
  <2>3. d[i + 1] = d[i] + 1 /\ OpenAt(p, d, i + 1) = OpenAt(p, d, i) \cup {i}
    BY <1>4, <2>1
  <2>4. ASSUME NEW j \in 1..d[i] + 1 PROVE after[j] = Append(before, flag)[j]
    <3>1. after[j] = \E z \in OpenAt(p, d, i + 1) : p[z].op \in {"for", "while"} /\ d[z] = j - 1
      BY <2>3 DEF LoopFlags
    <3>2. CASE j = d[i] + 1
      <4>1. \A z \in OpenAt(p, d, i) : d[z] # j - 1
        BY <1>2, <1>5, <3>2
      <4>2. d[i] = j - 1
        BY <1>2, <3>2
      <4>3. after[j] = flag
        BY <2>1, <2>3, <3>1, <4>1, <4>2
      <4> QED BY <2>2, <3>2, <4>3
    <3>3. CASE j \in 1..d[i]
      <4>1. before[j] = \E z \in OpenAt(p, d, i) : p[z].op \in {"for", "while"} /\ d[z] = j - 1
        BY <3>3 DEF LoopFlags
      <4>2. d[i] # j - 1
        BY <1>2, <3>3
      <4>3. (\E z \in OpenAt(p, d, i + 1) : p[z].op \in {"for", "while"} /\ d[z] = j - 1)
              <=> (\E z \in OpenAt(p, d, i) : p[z].op \in {"for", "while"} /\ d[z] = j - 1)
        BY <2>3, <4>2
      <4> QED BY <2>2, <3>1, <3>3, <4>1, <4>3
    <3> QED BY <1>2, <3>2, <3>3
  <2> HIDE DEF after, before
  <2> QED BY <1>2, <2>2, <2>3, <2>4, SameSequence
<1>11. t.op = "end" => after = Front(before)
  <2>1. SUFFICES ASSUME t.op = "end" PROVE after = Front(before)
    OBVIOUS
  <2>2. d[i + 1] = d[i] - 1 /\ OpenAt(p, d, i + 1) = {k \in OpenAt(p, d, i) : d[k] < d[i + 1]} /\ d[i] > 0
    BY <1>2, <1>4, <2>1
  <2>3. Front(before) \in Seq(BOOLEAN) /\ Len(Front(before)) = d[i] - 1
        /\ \A j \in 1..d[i] - 1 : Front(before)[j] = before[j]
    <3>1. before # <<>>
      BY <1>2, <2>2
    <3> HIDE DEF before
    <3> QED BY <1>2, <3>1, Fronts
  <2>4. ASSUME NEW j \in 1..d[i] - 1 PROVE after[j] = Front(before)[j]
    <3>1. after[j] = \E z \in OpenAt(p, d, i + 1) : p[z].op \in {"for", "while"} /\ d[z] = j - 1
      BY <2>2 DEF LoopFlags
    <3>2. before[j] = \E z \in OpenAt(p, d, i) : p[z].op \in {"for", "while"} /\ d[z] = j - 1
      <4>1. j \in 1..d[i]
        BY <1>2
      <4> QED BY <4>1, Zenon DEF LoopFlags
    <3>3. j - 1 < d[i + 1]
      BY <1>2, <2>2
    <3>4. (\E z \in OpenAt(p, d, i + 1) : p[z].op \in {"for", "while"} /\ d[z] = j - 1)
            <=> (\E z \in OpenAt(p, d, i) : p[z].op \in {"for", "while"} /\ d[z] = j - 1)
      BY <2>2, <3>3
    <3> QED BY <2>3, <3>1, <3>2, <3>4
  <2> HIDE DEF after, before
  <2> QED BY <1>2, <2>2, <2>3, <2>4, SameSequence
<1>12. t.op \notin Openers \cup {"end"} => after = before
  BY <1>4 DEF LoopFlags
<1>13. Seen(p, d, i) = [path |-> after, depth |-> Max(DepthsSeen(p, d, i)), decisions |-> Cardinality(DecisionLines(p, i))]
  BY DEF Seen
<1> HIDE DEF before, after, s, t
<1> DEFINE u == [path |-> before, depth |-> Max(DepthsSeen(p, d, i - 1)), decisions |-> Cardinality(DecisionLines(p, i - 1))]
<1>20. Visited(s, t) = Visited(u, t)
  BY <1>3
<1>14. CASE t.op \in {"for", "while"}
  <2>1. Visited(u, t) = [u EXCEPT !.path = Append(u.path, TRUE), !.decisions = u.decisions + 1,
                                  !.depth = Max({u.depth, Cardinality({j \in DOMAIN u.path : u.path[j]}) + 1})]
    BY <1>14, Zenon DEF Visited
  <2>2. u.path = before /\ u.depth = Max(DepthsSeen(p, d, i - 1)) /\ u.decisions = Cardinality(DecisionLines(p, i - 1))
    OBVIOUS
  <2>3. Visited(u, t) = [u EXCEPT !.path = after, !.decisions = Cardinality(DecisionLines(p, i)), !.depth = Max(DepthsSeen(p, d, i))]
    <3> HIDE DEF u
    <3>1. Append(u.path, TRUE) = after
      BY <1>10, <1>14, <2>2, Zenon
    <3>2. u.decisions + 1 = Cardinality(DecisionLines(p, i))
      BY <1>6, <1>14, <2>2
    <3>3. Max({u.depth, Cardinality({j \in DOMAIN u.path : u.path[j]}) + 1}) = Max(DepthsSeen(p, d, i))
      BY <1>2, <1>9, <1>14, <2>2, Zenon
    <3> QED BY <2>1, <3>1, <3>2, <3>3, Zenon
  <2> QED BY <1>13, <1>20, <2>3 DEF s, t
<1>15. CASE t.op = "if"
  <2>1. Visited(u, t) = [u EXCEPT !.path = Append(u.path, FALSE), !.decisions = u.decisions + 1]
    BY <1>15, Zenon DEF Visited
  <2>2. t.op \in Openers \ {"for", "while"} /\ t.op \notin {"for", "while"} /\ t.op \in {"if", "for", "while"}
    BY <1>15 DEF Openers
  <2>3. u.path = before /\ u.decisions = Cardinality(DecisionLines(p, i - 1))
    OBVIOUS
  <2>4. Append(u.path, FALSE) = after /\ u.decisions + 1 = Cardinality(DecisionLines(p, i))
    <3> HIDE DEF u
    <3> QED BY <1>6, <1>10, <2>2, <2>3
  <2>5. Visited(u, t) = [u EXCEPT !.path = after, !.decisions = Cardinality(DecisionLines(p, i))]
    <3> HIDE DEF u
    <3> QED BY <2>1, <2>4, Zenon
  <2> QED BY <1>8, <1>13, <1>20, <2>2, <2>5 DEF s, t
<1>16. CASE t.op \in {"def", "class", "comp"}
  <2>1. Visited(u, t) = [u EXCEPT !.path = Append(u.path, FALSE)]
    BY <1>16, Zenon DEF Visited
  <2>2. t.op \in Openers \ {"for", "while"} /\ t.op \notin {"for", "while"} /\ t.op \notin {"if", "for", "while"}
    BY <1>16 DEF Openers
  <2>3. u.path = before OBVIOUS
  <2>4. Append(u.path, FALSE) = after /\ Cardinality(DecisionLines(p, i)) = Cardinality(DecisionLines(p, i - 1))
    <3> HIDE DEF u
    <3>1. Append(u.path, FALSE) = after
      BY <1>10, <2>2, <2>3, Zenon
    <3>2. Cardinality(DecisionLines(p, i)) = Cardinality(DecisionLines(p, i - 1))
      BY <1>6, <2>2
    <3> QED BY <3>1, <3>2
  <2>5. Visited(u, t) = [u EXCEPT !.path = after]
    <3> HIDE DEF u
    <3> QED BY <2>1, <2>4, Zenon
  <2> QED BY <1>8, <1>13, <1>20, <2>2, <2>4, <2>5 DEF s, t
<1>17. CASE t.op = "end"
  <2>1. Visited(u, t) = [u EXCEPT !.path = Front(u.path)]
    BY <1>17, Zenon DEF Visited
  <2>2. t.op \notin {"if", "for", "while"} /\ t.op \notin {"for", "while"}
    BY <1>17
  <2>3. u.path = before OBVIOUS
  <2>4. Front(u.path) = after /\ Cardinality(DecisionLines(p, i)) = Cardinality(DecisionLines(p, i - 1))
    <3> HIDE DEF u
    <3> QED BY <1>6, <1>11, <1>17, <2>2, <2>3
  <2>5. Visited(u, t) = [u EXCEPT !.path = after]
    <3> HIDE DEF u
    <3> QED BY <2>1, <2>4, Zenon
  <2> QED BY <1>8, <1>13, <1>20, <2>2, <2>4, <2>5 DEF s, t
<1>18. CASE t.op \notin Openers \cup {"end"}
  <2>1. t.op \notin {"for", "while"} /\ t.op # "if" /\ t.op \notin {"def", "class", "comp"} /\ t.op # "end"
        /\ t.op \notin {"if", "for", "while"}
    BY <1>18 DEF Openers
  <2>2. Visited(u, t) = u
    BY <2>1, Zenon DEF Visited
  <2> QED BY <1>6, <1>8, <1>12, <1>13, <1>18, <1>20, <2>1, <2>2 DEF s, t
<1> QED BY <1>14, <1>15, <1>16, <1>17, <1>18 DEF Openers, s, t

LEMMA TreeSitterSees ==
    ASSUME NEW p, NEW n \in Nat, NEW d, Levels(p, n, d), Len(p) = n
    PROVE  TreeSitterDecompose(p) = Seen(p, d, n)
<1> DEFINE start == [path |-> <<>>, depth |-> 0, decisions |-> 0]
           Solves(f) == f = [k \in 0..Len(p) |-> IF k = 0 THEN start ELSE Visited(f[k - 1], p[k])]
           g == [k \in 0..n |-> Seen(p, d, k)]
<1>1. Seen(p, d, 0) = start
  <2>1. LoopFlags(p, d, 1) = <<>>
    <3>1. LoopFlags(p, d, 1) \in Seq(BOOLEAN) /\ Len(LoopFlags(p, d, 1)) = 0
      <4>1. 1 \in 1..n + 1 /\ d[1] = 0
        BY DEF Levels
      <4> QED
        <5>1. FlagsAt(p, d, 1, LoopFlags(p, d, 1))
          BY <4>1, FlagsCount, Zenon
        <5> QED BY <4>1, <5>1 DEF FlagsAt
    <3> QED BY <3>1
  <2>2. DepthsSeen(p, d, 0) = {0}
    BY DEF DepthsSeen, LoopLines
  <2>3. Max({0}) = 0
    BY MaxIs
  <2>4. Cardinality(DecisionLines(p, 0)) = 0
    BY DecisionsCount
  <2>5. 0 + 1 = 1 OBVIOUS
  <2> QED BY <2>1, <2>2, <2>3, <2>4, <2>5 DEF Seen
<1>2. \A i \in 1..n : Visited(Seen(p, d, i - 1), p[i]) = Seen(p, d, i)
  BY SeenStep
<1> HIDE DEF start
<1>3. Solves(g)
  <2>1. ASSUME NEW k \in 0..n PROVE g[k] = IF k = 0 THEN start ELSE Visited(g[k - 1], p[k])
    <3>1. CASE k = 0 BY <1>1, <3>1
    <3>2. CASE k # 0
      <4>1. k \in 1..n /\ k - 1 \in 0..n
        BY <3>2
      <4> QED BY <1>2, <3>2, <4>1
    <3> QED BY <3>1, <3>2
  <2>2. g = [k \in 0..n |-> g[k]] OBVIOUS
  <2> HIDE DEF g
  <2> QED BY <2>1, <2>2
<1>4. Solves(Visits(p))
  <2> HIDE DEF g
  <2> QED BY <1>3 DEF Visits, start
<1>5. \A k \in 0..n : Visits(p)[k] = IF k = 0 THEN start ELSE Visited(Visits(p)[k - 1], p[k])
  BY <1>4
<1> DEFINE T == {k \in Nat : k <= n => Visits(p)[k] = Seen(p, d, k)}
<1>6. 0 \in T
  BY <1>1, <1>5
<1>7. ASSUME NEW k \in T PROVE k + 1 \in T
  <2>1. SUFFICES ASSUME k + 1 <= n PROVE Visits(p)[k + 1] = Seen(p, d, k + 1)
    BY SMT
  <2>2. k \in Nat /\ k + 1 \in 0..n /\ k + 1 # 0 /\ (k + 1) - 1 = k /\ k + 1 \in 1..n /\ Visits(p)[k] = Seen(p, d, k)
    BY <2>1
  <2>3. Visits(p)[k + 1] = Visited(Visits(p)[(k + 1) - 1], p[k + 1])
    BY <1>5, <2>2
  <2>4. Visited(Seen(p, d, (k + 1) - 1), p[k + 1]) = Seen(p, d, k + 1)
    BY <1>2, <2>2
  <2> QED BY <2>2, <2>3, <2>4
<1>8. T = Nat
  <2> HIDE DEF T
  <2> QED BY <1>6, <1>7, NumbersInduction, T \subseteq Nat DEF T
<1>9. n \in T
  BY <1>8
<1> QED BY <1>9 DEF TreeSitterDecompose

-----------------------------------------------------------------------------
(* Scopes and their paths *)

\* r lists the lines of S in their order.
Ordered(r, S) ==
    /\ r \in Seq(Nat)
    /\ \A j \in 1..Len(r) : r[j] \in S
    /\ \A j, l \in 1..Len(r) : j < l => r[j] < r[l]
    /\ \A y \in S : \E j \in 1..Len(r) : r[j] = y

LEMMA OrderedAppend ==
    ASSUME NEW S, NEW r, Ordered(r, S), NEW m \in Nat, \A y \in S : y < m
    PROVE  Ordered(Append(r, m), S \cup {m})
<1> DEFINE w == Append(r, m)
<1>1. r \in Seq(Nat) /\ Len(r) \in Nat
  BY DEF Ordered
<1>2. w \in Seq(Nat) /\ Len(w) = Len(r) + 1 /\ w[Len(r) + 1] = m /\ \A j \in 1..Len(r) : w[j] = r[j]
  BY <1>1, Appended
<1> HIDE DEF w
<1>3. \A j \in 1..Len(w) : j \in 1..Len(r) \/ j = Len(r) + 1
  BY <1>1, <1>2
<1>4. \A j \in 1..Len(r) : r[j] \in S /\ r[j] < m /\ w[j] = r[j] /\ j \in 1..Len(w)
  BY <1>1, <1>2 DEF Ordered
<1>5. \A j \in 1..Len(w) : w[j] \in S \cup {m}
  BY <1>2, <1>3, <1>4
<1>6. \A j, l \in 1..Len(w) : j < l => w[j] < w[l]
  <2>1. SUFFICES ASSUME NEW j \in 1..Len(w), NEW l \in 1..Len(w), j < l PROVE w[j] < w[l]
    OBVIOUS
  <2>2. j \in 1..Len(r)
    BY <1>1, <1>2, <2>1
  <2>3. CASE l = Len(r) + 1 BY <1>2, <1>4, <2>2, <2>3
  <2>4. CASE l \in 1..Len(r)
    <3>1. r[j] < r[l]
      BY <2>1, <2>2, <2>4 DEF Ordered
    <3> QED BY <1>4, <2>2, <2>4, <3>1
  <2> QED BY <1>3, <2>3, <2>4
<1>7. \A y \in S \cup {m} : \E j \in 1..Len(w) : w[j] = y
  <2>1. ASSUME NEW y \in S PROVE \E j \in 1..Len(w) : w[j] = y
    <3>1. PICK j \in 1..Len(r) : r[j] = y
      BY DEF Ordered
    <3> QED BY <1>4, <3>1
  <2>2. Len(r) + 1 \in 1..Len(w)
    BY <1>1, <1>2
  <2> QED BY <1>2, <2>1, <2>2
<1> QED BY <1>2, <1>5, <1>6, <1>7 DEF Ordered, w

LEMMA OrderedFront ==
    ASSUME NEW S, NEW r, Ordered(r, S), NEW top \in S, \A y \in S : y <= top
    PROVE  r # <<>> /\ Ordered(Front(r), S \ {top})
<1> DEFINE w == Front(r)
<1>1. r \in Seq(Nat) /\ Len(r) \in Nat
  BY DEF Ordered
<1>2. PICK last \in 1..Len(r) : r[last] = top
  BY DEF Ordered
<1>3. r # <<>>
  BY <1>1, <1>2
<1>4. w \in Seq(Nat) /\ Len(r) > 0 /\ Len(w) = Len(r) - 1 /\ \A j \in 1..Len(r) - 1 : w[j] = r[j]
  BY <1>1, <1>3, Fronts
<1>5. \A j \in 1..Len(r) : r[j] \in S /\ r[j] \in Nat /\ r[j] <= top
  BY <1>1 DEF Ordered
<1>6. last = Len(r)
  <2>1. SUFFICES ASSUME last < Len(r) PROVE FALSE
    BY <1>1, <1>2
  <2>2. Len(r) \in 1..Len(r)
    BY <1>1, <1>4
  <2>3. r[last] < r[Len(r)]
    BY <2>1, <2>2 DEF Ordered
  <2> QED BY <1>2, <1>5, <2>2, <2>3
<1> HIDE DEF w
<1>7. \A j \in 1..Len(w) : j \in 1..Len(r) /\ w[j] = r[j] /\ j < Len(r)
  <2>1. SUFFICES ASSUME NEW j \in 1..Len(w) PROVE j \in 1..Len(r) /\ w[j] = r[j] /\ j < Len(r)
    OBVIOUS
  <2>2. j \in 1..Len(r) - 1
    BY <1>4
  <2>3. w[j] = r[j]
    BY <1>4, <2>2
  <2>4. j \in 1..Len(r) /\ j < Len(r)
    <3> DEFINE m == Len(r)
    <3>1. m \in Nat /\ j \in 1..m - 1
      BY <1>1, <2>2
    <3> HIDE DEF m
    <3>2. j \in 1..m /\ j < m
      BY <3>1
    <3> QED BY <3>2 DEF m
  <2> QED BY <2>3, <2>4
<1>8. \A j \in 1..Len(w) : w[j] \in S \ {top}
  <2>1. SUFFICES ASSUME NEW j \in 1..Len(w) PROVE r[j] # r[last] /\ r[j] \in S
    BY <1>2, <1>7
  <2>2. r[j] < r[last]
    BY <1>6, <1>7 DEF Ordered
  <2> QED BY <1>5, <1>7, <2>2
<1>9. \A j, l \in 1..Len(w) : j < l => w[j] < w[l]
  BY <1>7 DEF Ordered
<1>10. \A y \in S \ {top} : \E j \in 1..Len(w) : w[j] = y
  <2>1. SUFFICES ASSUME NEW y \in S \ {top} PROVE \E j \in 1..Len(w) : w[j] = y
    OBVIOUS
  <2>2. PICK j \in 1..Len(r) : r[j] = y
    BY DEF Ordered
  <2>3. j # last
    BY <1>2, <2>2
  <2>4. j \in 1..Len(w)
    BY <1>1, <1>4, <1>6, <2>3
  <2> QED BY <1>7, <2>2, <2>4
<1> QED BY <1>3, <1>4, <1>8, <1>9, <1>10 DEF Ordered, w

\* The orders of the lines up to b and of all of them start alike.
LEMMA OrderedPrefix ==
    ASSUME NEW U, NEW b \in Nat, NEW S, S = {y \in U : y <= b}, NEW r, Ordered(r, S), NEW w, Ordered(w, U)
    PROVE  Len(r) <= Len(w) /\ \A j \in 1..Len(r) : r[j] = w[j]
<1>1. r \in Seq(Nat) /\ w \in Seq(Nat) /\ Len(r) \in Nat /\ Len(w) \in Nat
  BY DEF Ordered
<1>2. (\A j \in 1..Len(r) : r[j] \in Nat /\ r[j] \in U /\ r[j] <= b) /\ \A j \in 1..Len(w) : w[j] \in Nat /\ w[j] \in U
  <2>1. \A j \in 1..Len(r) : r[j] \in Nat /\ r[j] \in S
    BY <1>1 DEF Ordered
  <2>2. \A j \in 1..Len(w) : w[j] \in Nat /\ w[j] \in U
    BY <1>1 DEF Ordered
  <2> QED BY <2>1, <2>2
<1> DEFINE Alike(k) == \A j \in 1..k : j <= Len(w) /\ r[j] = w[j]
           T == {k \in Nat : k <= Len(r) => Alike(k)}
<1>3. 0 \in T OBVIOUS
<1>4. ASSUME NEW k \in T PROVE k + 1 \in T
  <2>1. SUFFICES ASSUME k + 1 <= Len(r) PROVE Alike(k + 1)
    BY SMT
  <2>2. k \in Nat /\ k + 1 \in 1..Len(r) /\ Alike(k)
    BY <1>1, <2>1
  <2>3. PICK m \in 1..Len(w) : w[m] = r[k + 1]
    BY <1>2, <2>2 DEF Ordered
  <2>4. m >= k + 1
    <3>1. SUFFICES ASSUME m \in 1..k PROVE FALSE
      BY <1>1, <2>2
    <3>2. r[m] = w[m] /\ m \in 1..Len(r) /\ m < k + 1
      BY <1>1, <2>1, <2>2, <3>1
    <3>3. r[m] < r[k + 1]
      BY <2>2, <3>2 DEF Ordered
    <3> QED BY <1>2, <2>2, <2>3, <3>2, <3>3
  <2>5. k + 1 \in 1..Len(w) /\ m \in Nat
    BY <1>1, <2>2, <2>4
  <2>6. w[k + 1] <= w[m]
    <3>1. CASE m = k + 1 BY <1>2, <2>5, <3>1
    <3>2. CASE m > k + 1
      <4>1. w[k + 1] < w[m]
        BY <2>5, <3>2 DEF Ordered
      <4> QED BY <1>2, <2>5, <4>1
    <3> QED BY <2>2, <2>4, <2>5, <3>1, <3>2
  <2>7. w[k + 1] \in S
    BY <1>2, <2>2, <2>3, <2>5, <2>6
  <2>8. PICK l \in 1..Len(r) : r[l] = w[k + 1]
    BY <2>7 DEF Ordered
  <2>9. l >= k + 1
    <3>1. SUFFICES ASSUME l \in 1..k PROVE FALSE
      BY <1>1, <2>2
    <3>2. r[l] = w[l] /\ l \in 1..Len(w) /\ l < k + 1
      BY <1>1, <2>2, <2>5, <3>1
    <3>3. w[l] < w[k + 1]
      BY <2>5, <3>2 DEF Ordered
    <3> QED BY <1>2, <2>5, <2>8, <3>2, <3>3
  <2>10. r[k + 1] <= r[l]
    <3> DEFINE x == r[k + 1]
               y == r[l]
    <3>3. x \in Nat /\ y \in Nat /\ k \in Nat /\ l \in Nat
      BY <1>2, <2>2
    <3>1. CASE l = k + 1 BY <3>1, <3>3
    <3>2. CASE l > k + 1
      <4>1. x < y
        BY <2>2, <3>2 DEF Ordered
      <4> HIDE DEF x, y
      <4>2. x <= y
        BY <3>3, <4>1
      <4> QED BY <4>2 DEF x, y
    <3> QED BY <2>2, <2>9, <3>1, <3>2
  <2>11. r[k + 1] = w[k + 1]
    BY <1>2, <2>2, <2>3, <2>5, <2>6, <2>8, <2>10
  <2>12. \A j \in 1..k + 1 : j \in 1..k \/ j = k + 1
    BY <2>2
  <2>13. k + 1 <= Len(w)
    BY <2>5
  <2> QED BY <2>2, <2>11, <2>12, <2>13
<1>5. T = Nat
  <2>1. T \in SUBSET Nat /\ \A k \in T : k + 1 \in T
    BY <1>4
  <2> HIDE DEF T
  <2> QED BY <1>3, <2>1, NumbersInduction
<1>6. Alike(Len(r))
  BY <1>1, <1>5
<1> HIDE DEF Alike, T
<1>7. \A j \in 1..Len(r) : j <= Len(w) /\ r[j] = w[j]
  BY <1>6 DEF Alike
<1>8. Len(r) <= Len(w)
  <2>1. Len(r) = 0 \/ Len(r) \in 1..Len(r)
    BY <1>1
  <2> QED BY <1>1, <1>7, <2>1
<1> QED BY <1>7, <1>8

\* The innermost of the lines: the last in their order, 0 when there is none.
At(w, k) == IF k = 0 THEN 0 ELSE w[k]

LEMMA OrderedMax ==
    ASSUME NEW S, NEW r, Ordered(r, S)
    PROVE  Max({0} \cup S) = At(r, Len(r)) /\ Len(r) \in Nat
<1>1. Len(r) \in Nat /\ \A j \in 1..Len(r) : r[j] \in Nat /\ r[j] \in S
  BY DEF Ordered
<1>2. \A y \in S : \E j \in 1..Len(r) : r[j] = y
  BY DEF Ordered
<1>3. S \in SUBSET Nat
  BY <1>1, <1>2
<1>4. At(r, Len(r)) \in {0} \cup S
  <2>1. Len(r) = 0 \/ Len(r) \in 1..Len(r)
    BY <1>1
  <2> QED BY <1>1, <2>1 DEF At
<1>5. \A y \in {0} \cup S : y <= At(r, Len(r))
  <2>1. SUFFICES ASSUME NEW y \in S PROVE y <= At(r, Len(r))
    <3> DEFINE z == At(r, Len(r))
    <3> HIDE DEF z
    <3>1. z \in Nat
      <4>1. z \in {0} \cup S
        BY <1>4 DEF z
      <4> QED BY <1>3, <4>1
    <3>2. 0 <= z
      BY <3>1
    <3> QED BY <3>2, Zenon DEF z
  <2>2. PICK j \in 1..Len(r) : r[j] = y
    BY <1>2
  <2>3. Len(r) # 0 /\ Len(r) \in 1..Len(r)
    BY <1>1, <2>2
  <2>4. j < Len(r) => r[j] < r[Len(r)]
    BY <2>3 DEF Ordered
  <2> QED BY <1>1, <2>2, <2>3, <2>4 DEF At
<1> HIDE DEF At
<1>6. {0} \cup S \in SUBSET Nat
  BY <1>3
<1> QED BY <1>1, <1>4, <1>5, <1>6, MaxIs

\* The names of scopes, and the scopes open before line i.
Names == {t.name : t \in Words}
ScopeLines(p, d, i) == OpenAt(p, d, i) \cap OfKind(p, {"def", "class"})

\* s is the path of the scopes of S, the outermost first, and r their lines.
SpelledBy(p, S, s, r) == Ordered(r, S) /\ Len(r) = Len(s) /\ \A j \in 1..Len(r) : s[j] = p[r[j]].name
Spells(p, S, s) == s \in Seq(Names) /\ \E r : SpelledBy(p, S, s, r)

LEMMA SpellsIsStable ==
    ASSUME NEW p, NEW q, NEW S, NEW s, Spells(p, S, s), \A y \in S : q[y] = p[y]
    PROVE  Spells(q, S, s)
<1>1. PICK r : SpelledBy(p, S, s, r)
  BY DEF Spells
<1>2. \A j \in 1..Len(r) : r[j] \in S
  BY <1>1 DEF SpelledBy, Ordered
<1>3. SpelledBy(q, S, s, r)
  BY <1>1, <1>2 DEF SpelledBy
<1> QED BY <1>3 DEF Spells

LEMMA SpellsMore ==
    ASSUME NEW p, NEW S, NEW s, Spells(p, S, s), NEW m \in Nat, p[m].name \in Names, \A y \in S : y < m
    PROVE  Spells(p, S \cup {m}, Append(s, p[m].name))
<1>1. PICK r : SpelledBy(p, S, s, r)
  BY DEF Spells
<1> DEFINE w == Append(r, m)
           name == p[m].name
           u == Append(s, name)
<1>2. Ordered(r, S) /\ r \in Seq(Nat) /\ s \in Seq(Names) /\ Len(r) = Len(s) /\ \A j \in 1..Len(r) : s[j] = p[r[j]].name
  BY <1>1 DEF SpelledBy, Ordered, Spells
<1>3. Ordered(w, S \cup {m})
  BY <1>2, OrderedAppend
<1>4. Len(w) = Len(r) + 1 /\ w[Len(r) + 1] = m /\ \A j \in 1..Len(r) : w[j] = r[j]
  BY <1>2, Appended
<1>5. u \in Seq(Names) /\ Len(u) = Len(s) + 1 /\ u[Len(s) + 1] = name /\ \A j \in 1..Len(s) : u[j] = s[j]
  <2> HIDE DEF name
  <2> QED BY <1>2, Appended DEF name
<1>6. Len(r) \in Nat
  BY <1>2
<1> HIDE DEF w, u
<1>7. ASSUME NEW j \in 1..Len(w) PROVE u[j] = p[w[j]].name
  <2>1. j \in 1..Len(r) \/ j = Len(r) + 1
    BY <1>4, <1>6
  <2>2. CASE j \in 1..Len(r) BY <1>2, <1>4, <1>5, <2>2
  <2>3. CASE j = Len(r) + 1 BY <1>2, <1>4, <1>5, <2>3
  <2> QED BY <2>1, <2>2, <2>3
<1>8. SpelledBy(p, S \cup {m}, u, w)
  BY <1>2, <1>3, <1>4, <1>5, <1>7 DEF SpelledBy
<1> QED BY <1>5, <1>8 DEF Spells, u

LEMMA SpellsFewer ==
    ASSUME NEW p, NEW S, NEW s, Spells(p, S, s), NEW top \in S, \A y \in S : y <= top
    PROVE  Spells(p, S \ {top}, Front(s))
<1>1. PICK r : SpelledBy(p, S, s, r)
  BY DEF Spells
<1> DEFINE w == Front(r)
           u == Front(s)
<1>2. Ordered(r, S) /\ r \in Seq(Nat) /\ s \in Seq(Names) /\ Len(r) = Len(s) /\ \A j \in 1..Len(r) : s[j] = p[r[j]].name
  BY <1>1 DEF SpelledBy, Ordered, Spells
<1>3. r # <<>> /\ Ordered(w, S \ {top})
  BY <1>2, OrderedFront
<1>4. Len(r) > 0 /\ Len(w) = Len(r) - 1 /\ \A j \in 1..Len(r) - 1 : w[j] = r[j]
  BY <1>2, <1>3, Fronts
<1>5. s # <<>>
  <2>1. Len(s) > 0
    BY <1>2, <1>4
  <2> QED BY <2>1
<1>6. u \in Seq(Names) /\ Len(u) = Len(s) - 1 /\ \A j \in 1..Len(s) - 1 : u[j] = s[j]
  BY <1>2, <1>5, Fronts
<1> DEFINE m == Len(r)
<1>7. m \in Nat /\ Len(s) = m /\ Len(w) = m - 1 /\ Len(u) = m - 1
      /\ (\A j \in 1..m : s[j] = p[r[j]].name) /\ (\A j \in 1..m - 1 : w[j] = r[j]) /\ \A j \in 1..m - 1 : u[j] = s[j]
  BY <1>2, <1>4, <1>6
<1> HIDE DEF w, u, m
<1>8. ASSUME NEW j \in 1..Len(w) PROVE u[j] = p[w[j]].name
  <2>1. j \in 1..m - 1 /\ j \in 1..m
    BY <1>7
  <2> QED BY <1>7, <2>1
<1>9. SpelledBy(p, S \ {top}, u, w)
  BY <1>3, <1>7, <1>8 DEF SpelledBy
<1> QED BY <1>6, <1>9 DEF Spells, u

ScopesInv(p, d, scopes) == Spells(p, ScopeLines(p, d, Len(p) + 1), scopes)

\* The construct that is closed is the last one opened.
LEMMA LastOpened ==
    ASSUME NEW p, NEW n \in Nat, NEW d, Levels(p, n, d), NEW i \in 1..n + 1, NEW top \in OpenAt(p, d, i), d[top] = d[i] - 1
    PROVE  \A y \in OpenAt(p, d, i) : y \in Nat /\ y <= top
<1>1. SUFFICES ASSUME NEW y \in OpenAt(p, d, i) PROVE y \in Nat /\ y <= top
  OBVIOUS
<1>2. y \in 1..n /\ top \in 1..n /\ y \in 1..i - 1 /\ i \in y + 1..i /\ \A z \in y + 1..i : d[z] > d[y]
  BY OpenNests DEF OpenAt
<1>3. d[y] < d[i] /\ d[y] \in Nat /\ d[top] \in Nat /\ d[i] \in Nat
  <2>1. y \in 1..n + 1 /\ top \in 1..n + 1
    BY <1>2
  <2> QED BY <1>2, <2>1 DEF Levels
<1>4. y > top => d[top] < d[y]
  BY OpenNests
<1> QED BY <1>2, <1>3, <1>4

LEMMA ScopesStep ==
    ASSUME NEW d, NEW e, NEW t \in Words, Reads(program, d, program', e, t), ScopeEffect(t),
           ScopesInv(program, d, scope_stack), t.op = "end" => \E top : Closes(program, d, top, Last(opened))
    PROVE  /\ ScopesInv(program', e, scope_stack')
           /\ Spells(program', ScopeLines(program', e, Len(program) + 1), scope_stack)
<1> DEFINE p == program
           q == program'
           m == Len(program) + 1
           S == ScopeLines(p, d, m)
<1>1. /\ Len(p) \in Nat /\ m \in Nat /\ m = Len(p) + 1 /\ m \in 1..Len(p) + 1 /\ m \in 1..m /\ Len(q) = m /\ q[m] = t
      /\ Levels(p, Len(p), d) /\ Levels(q, m, e) /\ Continues(p, d, q, e, Len(p))
  BY DEF Reads
<1> HIDE DEF m
<1>2. OpenAt(q, e, m) = OpenAt(p, d, m) /\ ScopeLines(q, e, m) = S
  BY <1>1, OpenIsStable DEF ScopeLines
<1>3. \A y \in OpenAt(p, d, m) : y \in Nat /\ y < m /\ q[y] = p[y]
  <2>1. SUFFICES ASSUME NEW y \in OpenAt(p, d, m) PROVE y \in Nat /\ y < m /\ q[y] = p[y]
    OBVIOUS
  <2>2. y \in 1..m - 1 /\ y \in 1..Len(p)
    BY <1>1 DEF OpenAt
  <2> QED BY <1>1, <2>2 DEF Continues
<1>4. Spells(q, S, scope_stack)
  <2>1. \A y \in S : q[y] = p[y]
    BY <1>3 DEF ScopeLines
  <2>2. Spells(p, S, scope_stack)
    BY <1>1 DEF ScopesInv
  <2> QED BY <2>1, <2>2, SpellsIsStable
<1>5. Spells(q, ScopeLines(q, e, m + 1), scope_stack')
  <2>1. CASE t.op \in {"def", "class"}
    <3>1. ScopeLines(q, e, m + 1) = S \cup {m}
      <4>1. OpenAt(q, e, m + 1) = OpenAt(q, e, m) \cup {m}
        BY <1>1, <2>1, OpenStep DEF Openers
      <4> QED BY <1>1, <1>2, <2>1, <4>1 DEF ScopeLines, OfKind
    <3>2. q[m].name \in Names /\ scope_stack' = Append(scope_stack, q[m].name)
      BY <1>1, <2>1 DEF Names, ScopeEffect
    <3>3. \A y \in S : y < m
      BY <1>3 DEF ScopeLines
    <3>4. Spells(q, S \cup {m}, Append(scope_stack, q[m].name))
      <4> HIDE DEF S, q
      <4> QED BY <1>1, <1>4, <3>2, <3>3, SpellsMore
    <3> QED BY <3>1, <3>2, <3>4
  <2>2. CASE t.op \in Openers \ {"def", "class"}
    <3>1. scope_stack' = scope_stack
      BY <2>2 DEF ScopeEffect, Openers
    <3>2. OpenAt(q, e, m + 1) = OpenAt(q, e, m) \cup {m}
      BY <1>1, <2>2, OpenStep
    <3>3. ScopeLines(q, e, m + 1) = S
      BY <1>1, <1>2, <2>2, <3>2 DEF ScopeLines, OfKind
    <3> QED BY <1>4, <3>1, <3>3
  <2>3. CASE t.op = "end"
    <3>1. PICK top : Closes(p, d, top, Last(opened))
      BY <2>3
    <3>2. /\ top \in OpenAt(p, d, m) /\ d[top] = d[m] - 1 /\ Last(opened).op = p[top].op
      BY <3>1 DEF Closes, m
    <3>3. e[top] = e[m] - 1
      <4>1. top \in 1..Len(p) + 1
        BY <1>1, <3>2 DEF OpenAt
      <4> QED BY <1>1, <3>2, <4>1 DEF Continues
    <3>4. OpenAt(q, e, m + 1) = OpenAt(p, d, m) \ {top}
      <4>1. q[m].op = "end" /\ top \in OpenAt(q, e, m)
        BY <1>1, <1>2, <2>3, <3>2
      <4>2. OpenAt(q, e, m + 1) = OpenAt(q, e, m) \ {top}
        <5> HIDE DEF q
        <5> QED BY <1>1, <3>3, <4>1, OpenStep
      <4> QED BY <1>2, <4>2
    <3>5. top \in Nat /\ q[top] = p[top] /\ \A y \in OpenAt(p, d, m) : y <= top
      BY <1>1, <1>3, <3>2, LastOpened
    <3>6. CASE p[top].op \in {"def", "class"}
      <4>1. scope_stack' = Front(scope_stack)
        BY <2>3, <3>2, <3>6 DEF ScopeEffect
      <4>2. ScopeLines(q, e, m + 1) = S \ {top} /\ top \in S
        BY <1>2, <3>2, <3>4, <3>5, <3>6 DEF ScopeLines, OfKind
      <4>3. \A y \in S : y <= top
        BY <3>5 DEF ScopeLines
      <4>4. Spells(q, S \ {top}, Front(scope_stack))
        <5> HIDE DEF S, q
        <5> QED BY <1>4, <4>2, <4>3, SpellsFewer
      <4> QED BY <4>1, <4>2, <4>4
    <3>7. CASE p[top].op \notin {"def", "class"}
      <4>1. scope_stack' = scope_stack
        BY <2>3, <3>2, <3>7 DEF ScopeEffect
      <4>2. ScopeLines(q, e, m + 1) = S
        BY <1>2, <3>2, <3>4, <3>5, <3>7 DEF ScopeLines, OfKind
      <4> QED BY <1>4, <4>1, <4>2
    <3> QED BY <3>6, <3>7
  <2>4. CASE t.op \notin Openers \cup {"end"}
    <3>1. scope_stack' = scope_stack
      BY <2>4 DEF ScopeEffect, Openers
    <3>2. OpenAt(q, e, m + 1) = OpenAt(q, e, m)
      BY <1>1, <2>4, OpenStep
    <3>3. ScopeLines(q, e, m + 1) = S
      BY <1>2, <3>2 DEF ScopeLines
    <3> QED BY <1>4, <3>1, <3>3
  <2> QED BY <2>1, <2>2, <2>3, <2>4
<1> QED BY <1>1, <1>2, <1>4, <1>5 DEF ScopesInv, m

\* A list that has, in their order, one record of R for every line of K.
Tracks(s, R, K) ==
    /\ s \in Seq(R)
    /\ \A x \in 1..Len(s) : s[x].line \in K
    /\ \A x, y \in 1..Len(s) : x < y => s[x].line < s[y].line
    /\ \A k \in K : \E x \in 1..Len(s) : s[x].line = k

LEMMA TracksMore ==
    ASSUME NEW R, NEW Q, R \subseteq Q, NEW n \in Nat, NEW K \in SUBSET (1..n), NEW s, Tracks(s, R, K),
           NEW w \in Q, w.line = n + 1
    PROVE  Tracks(s, Q, K) /\ Tracks(Append(s, w), Q, K \cup {n + 1})
<1> DEFINE u == Append(s, w)
           m == Len(s)
<1>1. s \in Seq(Q) /\ m \in Nat
  <2>1. s \in Seq(R)
    BY DEF Tracks
  <2> QED BY <2>1
<1>2. u \in Seq(Q) /\ Len(u) = m + 1 /\ u[m + 1] = w /\ \A x \in 1..m : u[x] = s[x]
  BY <1>1, Appended
<1>3. /\ \A x \in 1..m : s[x].line \in K
      /\ \A x, y \in 1..m : x < y => s[x].line < s[y].line
      /\ \A k \in K : \E x \in 1..m : s[x].line = k
  BY DEF Tracks
<1>4. Tracks(s, Q, K)
  BY <1>1, <1>3 DEF Tracks
<1> HIDE DEF u, m
<1>5. \A x \in 1..Len(u) : x \in 1..m \/ x = m + 1
  BY <1>1, <1>2
<1>6. \A x \in 1..Len(u) : u[x].line \in K \cup {n + 1}
  BY <1>2, <1>3, <1>5
<1>7. \A x, y \in 1..Len(u) : x < y => u[x].line < u[y].line
  <2>1. SUFFICES ASSUME NEW x \in 1..Len(u), NEW y \in 1..Len(u), x < y PROVE u[x].line < u[y].line
    OBVIOUS
  <2>2. x \in 1..m /\ u[x].line = s[x].line
    BY <1>1, <1>2, <2>1
  <2>3. CASE y = m + 1
    <3>1. s[x].line \in K
      BY <1>3, <2>2
    <3>2. s[x].line < n + 1
      <4>1. \A k \in K : k < n + 1 OBVIOUS
      <4> QED BY <3>1, <4>1
    <3> QED BY <1>2, <2>2, <2>3, <3>2
  <2>4. CASE y \in 1..m
    <3>1. s[x].line < s[y].line
      BY <1>3, <2>1, <2>2, <2>4
    <3> QED BY <1>2, <2>2, <2>4, <3>1
  <2> QED BY <1>5, <2>3, <2>4
<1>8. \A k \in K \cup {n + 1} : \E x \in 1..Len(u) : u[x].line = k
  <2>1. ASSUME NEW k \in K PROVE \E x \in 1..Len(u) : u[x].line = k
    <3>1. PICK x \in 1..m : s[x].line = k
      BY <1>3
    <3>2. x \in 1..Len(u) /\ u[x] = s[x]
      BY <1>1, <1>2
    <3> QED BY <3>1, <3>2
  <2>2. m + 1 \in 1..Len(u) /\ u[m + 1].line = n + 1
    BY <1>1, <1>2
  <2> QED BY <2>1, <2>2
<1>9. Tracks(u, Q, K \cup {n + 1})
  BY <1>2, <1>6, <1>7, <1>8 DEF Tracks
<1> QED BY <1>4, <1>9 DEF u

SymbolRecords == [name : Names \cup {"state"}, kind : {t.kind : t \in Words}, scope : Seq(Names), line : Nat]
CheckRecords == [container : Names, scope : Seq(Names), line : Nat]

\* The scopes in which line k binds its name: a function binds its parameter inside.
Home(p, d, k) == ScopeLines(p, d, IF p[k].op = "def" THEN k + 1 ELSE k)

IsSymbol(p, d, x) ==
    /\ x.line \in 1..Len(p) /\ x.kind = p[x.line].kind
    /\ x.name = IF p[x.line].op = "def" THEN "state" ELSE p[x.line].name
    /\ Spells(p, Home(p, d, x.line), x.scope)

\* A membership test that runs more than once.
Looped(p, d, k) == OpenAt(p, d, k) \cap OfKind(p, {"for", "while", "comp"}) # {}

IsCheck(p, d, x) ==
    /\ x.line \in 1..Len(p) /\ x.container = p[x.line].name
    /\ Spells(p, ScopeLines(p, d, x.line), x.scope)

BindingLines(p) == {k \in 1..Len(p) : p[k].op \in {"def", "bind"}}
CheckLines(p, d) == {k \in 1..Len(p) : p[k].op = "in" /\ Looped(p, d, k)}

SymbolsInv(p, d, symbols) == Tracks(symbols, {x \in SymbolRecords : IsSymbol(p, d, x)}, BindingLines(p))
ChecksInv(p, d, checks) == Tracks(checks, {x \in CheckRecords : IsCheck(p, d, x)}, CheckLines(p, d))

\* One more line leaves the scopes of the lines before it as they are.
LEMMA HomesAreStable ==
    ASSUME NEW p, NEW d, NEW q, NEW e, NEW t, Reads(p, d, q, e, t), NEW k \in 1..Len(p)
    PROVE  /\ k \in 1..Len(q) /\ q[k] = p[k]
           /\ ScopeLines(q, e, k) = ScopeLines(p, d, k) /\ Home(q, e, k) = Home(p, d, k)
           /\ Looped(q, e, k) <=> Looped(p, d, k)
           /\ \A s : Spells(p, ScopeLines(p, d, k), s) => Spells(q, ScopeLines(q, e, k), s)
           /\ \A s : Spells(p, Home(p, d, k), s) => Spells(q, Home(q, e, k), s)
<1> DEFINE n == Len(p)
<1>1. n \in Nat /\ Len(q) = n + 1 /\ Continues(p, d, q, e, n) /\ Levels(p, n, d)
  BY DEF Reads
<1> HIDE DEF n
<1>2. k \in 1..n /\ k \in 1..n + 1 /\ k + 1 \in 1..n + 1 /\ k \in 1..Len(q)
  BY <1>1 DEF n
<1>3. \A y \in 1..n : q[y] = p[y]
  BY <1>1 DEF Continues
<1>4. ScopeLines(q, e, k) = ScopeLines(p, d, k) /\ ScopeLines(q, e, k + 1) = ScopeLines(p, d, k + 1)
  BY <1>1, <1>2, OpenIsStable DEF ScopeLines
<1>5. Looped(q, e, k) <=> Looped(p, d, k)
  BY <1>1, <1>2, OpenIsStable DEF Looped
<1>6. Home(q, e, k) = Home(p, d, k)
  BY <1>2, <1>3, <1>4 DEF Home
<1>7. ScopeLines(p, d, k) \subseteq 1..n /\ ScopeLines(p, d, k + 1) \subseteq 1..n
  BY <1>1, <1>2, OpenIsFinite DEF ScopeLines
<1>8. Home(p, d, k) \subseteq 1..n
  BY <1>7 DEF Home
<1>9. ASSUME NEW S \in SUBSET (1..n), NEW s, Spells(p, S, s) PROVE Spells(q, S, s)
  <2>1. \A y \in S : q[y] = p[y]
    BY <1>3
  <2> QED BY <1>9, <2>1, SpellsIsStable
<1> QED BY <1>2, <1>3, <1>4, <1>5, <1>6, <1>7, <1>8, <1>9

LEMMA SymbolsStep ==
    ASSUME NEW d, NEW e, NEW t \in Words, Reads(program, d, program', e, t), SymbolEffect(t),
           SymbolsInv(program, d, ir.symbols),
           ScopesInv(program', e, scope_stack'), Spells(program', ScopeLines(program', e, Len(program) + 1), scope_stack)
    PROVE  SymbolsInv(program', e, ir'.symbols)
<1> DEFINE p == program
           q == program'
           n == Len(program)
           old == ir.symbols
           R == {x \in SymbolRecords : IsSymbol(p, d, x)}
           Q == {x \in SymbolRecords : IsSymbol(q, e, x)}
           K == BindingLines(p)
           scope == IF t.op = "def" THEN scope_stack' ELSE scope_stack
           w == [name |-> IF t.op = "def" THEN "state" ELSE t.name, kind |-> t.kind, scope |-> scope, line |-> n + 1]
<1>1. n \in Nat /\ n + 1 \in Nat /\ n + 1 \in 1..n + 1 /\ Len(q) = n + 1 /\ q[n + 1] = t /\ \A k \in 1..n : q[k] = p[k]
  BY DEF Reads, Continues
<1>2. R \subseteq Q
  <2>1. SUFFICES ASSUME NEW x \in R PROVE IsSymbol(q, e, x)
    OBVIOUS
  <2>2. IsSymbol(p, d, x) OBVIOUS
  <2>3. x.line \in 1..Len(p)
    BY <2>2 DEF IsSymbol
  <2>4. x.line \in 1..Len(q) /\ q[x.line] = p[x.line]
        /\ \A s : Spells(p, Home(p, d, x.line), s) => Spells(q, Home(q, e, x.line), s)
    BY <2>3, HomesAreStable
  <2> QED BY <2>2, <2>4 DEF IsSymbol
<1>3. K \in SUBSET (1..n) /\ Tracks(old, R, K)
  BY DEF SymbolsInv, BindingLines
<1>4. BindingLines(q) = IF t.op \in {"def", "bind"} THEN K \cup {n + 1} ELSE K
  <2>1. 1..n + 1 = (1..n) \cup {n + 1}
    BY <1>1
  <2> QED BY <1>1, <2>1 DEF BindingLines
<1>5. Spells(q, Home(q, e, n + 1), scope)
  <2>1. (n + 1) + 1 = Len(q) + 1
    BY <1>1
  <2>2. CASE t.op = "def" BY <1>1, <2>1, <2>2 DEF Home, ScopesInv
  <2>3. CASE t.op # "def" BY <1>1, <2>3 DEF Home
  <2> QED BY <2>2, <2>3
<1>6. w \in Q /\ w.line = n + 1
  <2>1. scope \in Seq(Names)
    BY <1>5 DEF Spells
  <2>2. (IF t.op = "def" THEN "state" ELSE t.name) \in Names \cup {"state"} /\ t.kind \in {x.kind : x \in Words}
    BY DEF Names
  <2> HIDE DEF scope
  <2>3. w \in SymbolRecords
    BY <1>1, <2>1, <2>2 DEF SymbolRecords
  <2>4. IsSymbol(q, e, w)
    BY <1>1, <1>5 DEF IsSymbol
  <2> QED BY <2>3, <2>4
<1> HIDE DEF R, Q, K
<1>7. Tracks(old, Q, K) /\ Tracks(Append(old, w), Q, K \cup {n + 1})
  <2> HIDE DEF w, n
  <2> QED BY <1>1, <1>2, <1>3, <1>6, TracksMore
<1>8. IF t.op \in {"def", "bind"} THEN ir'.symbols = Append(old, w) ELSE ir'.symbols = old
  <2>1. CASE t.op = "def" BY <2>1 DEF SymbolEffect, Here
  <2>2. CASE t.op = "bind" BY <2>2 DEF SymbolEffect, Here
  <2>3. CASE t.op \notin {"def", "bind"} BY <2>3 DEF SymbolEffect
  <2> QED BY <2>1, <2>2, <2>3
<1> HIDE DEF w
<1> QED BY <1>4, <1>7, <1>8 DEF SymbolsInv, Q

LEMMA LoopedByDepth ==
    ASSUME NEW p, NEW n \in Nat, Len(p) = n, NEW d, NEW depth, NEW tested, DepthInv(p, d, depth, tested)
    PROVE  tested # 0 <=> Looped(p, d, n + 1)
<1> DEFINE S == OpenAt(p, d, n + 1) \cap OfKind(p, {"for", "while", "comp"})
           C == OpenAt(p, d, n + 1) \cap NestedComprehensions(p)
<1>1. n + 1 \in 1..n + 1 OBVIOUS
<1>2. IsFiniteSet(S) /\ Cardinality(S) \in Nat /\ IsFiniteSet(C) /\ Cardinality(C) \in Nat
  BY <1>1, OpenIsFinite
<1>3. C \subseteq S
  BY DEF NestedComprehensions, OfKind
<1>4. tested = Cardinality(S) + Cardinality(C)
  BY DEF DepthInv
<1>5. Looped(p, d, n + 1) <=> S # {}
  BY DEF Looped
<1> HIDE DEF S, C
<1>6. S = {} => Cardinality(S) = 0 /\ Cardinality(C) = 0
  BY <1>3, FS_EmptySet
<1>7. S # {} => Cardinality(S) # 0
  BY <1>2, FS_EmptySet
<1> QED BY <1>2, <1>4, <1>5, <1>6, <1>7

LEMMA ChecksStep ==
    ASSUME NEW d, NEW e, NEW t \in Words, Reads(program, d, program', e, t), SymbolEffect(t),
           ChecksInv(program, d, ir.membership_checks), DepthInv(program, d, loop_depth, membership_loop_depth),
           Spells(program', ScopeLines(program', e, Len(program) + 1), scope_stack)
    PROVE  ChecksInv(program', e, ir'.membership_checks)
<1> DEFINE p == program
           q == program'
           n == Len(program)
           old == ir.membership_checks
           R == {x \in CheckRecords : IsCheck(p, d, x)}
           Q == {x \in CheckRecords : IsCheck(q, e, x)}
           K == CheckLines(p, d)
           w == [container |-> t.name, scope |-> scope_stack, line |-> n + 1]
<1>1. n \in Nat /\ n + 1 \in Nat /\ n + 1 \in 1..n + 1 /\ Len(q) = n + 1 /\ q[n + 1] = t /\ \A k \in 1..n : q[k] = p[k]
  BY DEF Reads, Continues
<1>2. R \subseteq Q
  <2>1. SUFFICES ASSUME NEW x \in R PROVE IsCheck(q, e, x)
    OBVIOUS
  <2>2. IsCheck(p, d, x) OBVIOUS
  <2>3. x.line \in 1..Len(p)
    BY <2>2 DEF IsCheck
  <2>4. x.line \in 1..Len(q) /\ q[x.line] = p[x.line]
        /\ \A s : Spells(p, ScopeLines(p, d, x.line), s) => Spells(q, ScopeLines(q, e, x.line), s)
    BY <2>3, HomesAreStable
  <2> QED BY <2>2, <2>4 DEF IsCheck
<1>3. K \in SUBSET (1..n) /\ Tracks(old, R, K)
  BY DEF ChecksInv, CheckLines
<1>4. Looped(q, e, n + 1) <=> membership_loop_depth # 0
  <2>1. Continues(p, d, q, e, n)
    BY DEF Reads
  <2>2. Looped(q, e, n + 1) <=> Looped(p, d, n + 1)
    BY <1>1, <2>1, OpenIsStable DEF Looped
  <2> QED BY <1>1, <2>2, LoopedByDepth
<1>5. CheckLines(q, e) = IF t.op = "in" /\ membership_loop_depth # 0 THEN K \cup {n + 1} ELSE K
  <2>1. 1..n + 1 = (1..n) \cup {n + 1}
    BY <1>1
  <2>2. \A k \in 1..n : q[k] = p[k] /\ (Looped(q, e, k) <=> Looped(p, d, k))
    BY HomesAreStable
  <2> QED BY <1>1, <1>4, <2>1, <2>2 DEF CheckLines
<1>6. w \in Q /\ w.line = n + 1
  <2>1. scope_stack \in Seq(Names) /\ t.name \in Names
    BY DEF Spells, Names
  <2>2. w \in CheckRecords
    BY <1>1, <2>1 DEF CheckRecords
  <2>3. IsCheck(q, e, w)
    BY <1>1 DEF IsCheck
  <2> QED BY <2>2, <2>3
<1> HIDE DEF R, Q, K
<1>7. Tracks(old, Q, K) /\ Tracks(Append(old, w), Q, K \cup {n + 1})
  <2> HIDE DEF w, n
  <2> QED BY <1>1, <1>2, <1>3, <1>6, TracksMore
<1>8. IF t.op = "in" /\ membership_loop_depth # 0
      THEN ir'.membership_checks = Append(old, w) ELSE ir'.membership_checks = old
  BY DEF SymbolEffect, Here
<1> HIDE DEF w
<1> QED BY <1>5, <1>7, <1>8 DEF ChecksInv, Q

-----------------------------------------------------------------------------
(* What the hazards are found in: imports, calls, changes of names *)

ImportOf(t, k) ==
    [name |-> CASE t.kind = "module" -> t.chain [] t.kind = "symbol" -> Front(t.chain) [] OTHER -> <<".">> \o Front(t.chain),
     path |-> CASE t.kind = "module" -> <<>> [] t.kind = "symbol" -> Tail(t.chain) [] OTHER -> << Last(t.chain) >>,
     relative |-> t.kind = "relative", bound |-> t.name, line |-> k]
CallOf(t, k) == [chain |-> t.chain, line |-> k]
Calls(t) == t.op = "call" \/ (t.op = "bind" /\ t.chain # <<>>)

\* Whether a line changes a name, which one, and how.
Mutates(t) == t.op \in {"bind", "store", "augment"} \/ (t.op = "call" /\ Len(t.chain) = 2)
Mutated(t) == IF t.op = "call" THEN t.chain[1] ELSE t.name
How(t) ==
    IF t.op = "call" THEN "call" ELSE IF t.op = "store" THEN "subscript"
    ELSE IF t.op = "augment" THEN "augassign" ELSE "assign"
By(t) == IF t.op = "call" THEN t.chain[2] ELSE "none"

ReferenceEffect(t) ==
    /\ t.op = "import" => ir'.imports = Append(ir.imports, ImportOf(t, Here))
    /\ t.op # "import" => ir'.imports = ir.imports
    /\ Calls(t) => ir'.calls = Append(ir.calls, CallOf(t, Here))
    /\ ~Calls(t) => ir'.calls = ir.calls

ChangeEffect(t) ==
    /\ Mutates(t) =>
         ir'.mutations = Append(ir.mutations, [how |-> How(t), method |-> By(t), target |-> Mutated(t), looped |-> loop_depth > 0])
    /\ ~Mutates(t) => ir'.mutations = ir.mutations
    /\ BindsState(t) /\ scope_stack = <<>> => ir'.module_state_names = ir.module_state_names \cup {t.name}
    /\ ~BindsState(t) \/ scope_stack # <<>> => ir'.module_state_names = ir.module_state_names
    /\ t.op = "global" => ir'.explicit_globals = ir.explicit_globals \cup {t.name}
    /\ t.op # "global" => ir'.explicit_globals = ir.explicit_globals

\* What reading a line changes of these records.
LEMMA HazardEffects ==
    ASSUME WalkNext, Lists \subseteq DOMAIN ir, program \in Seq(Words), NEW t \in Words, program' = Append(program, t),
           vocabulary \in DOMAIN Vocabularies \cup {1}
    PROVE  ReferenceEffect(t) /\ ChangeEffect(t)
<1>1. PICK u \in Vocabularies[vocabulary] :
        \/ VisitFunctionDef(u) \/ VisitClassDef(u) \/ VisitWhile(u) \/ VisitFor(u) \/ VisitComprehension(u) \/ VisitIf(u)
        \/ VisitGlobal(u) \/ VisitImport(u) \/ VisitAssign(u) \/ VisitAugAssign(u) \/ VisitCall(u)
        \/ VisitCompare(u) \/ VisitSubscript(u) \/ VisitReturn(u)
        \/ LeaveScope(u) \/ LeaveLoop(u) \/ LeaveIf(u)
  BY Zenon DEF WalkNext
<1>2. u \in Words
  BY DEF Words
<1>3. ASSUME Read(u) PROVE u = t
  <2>1. program' = Append(program, u)
    BY <1>3 DEF Read
  <2>2. Append(program, u)[Len(program) + 1] = u /\ Append(program, t)[Len(program) + 1] = t
    BY <1>2, Appended
  <2> QED BY <2>1, <2>2
<1> DEFINE Same == /\ ir'.imports = ir.imports /\ ir'.calls = ir.calls /\ ir'.mutations = ir.mutations
                   /\ ir'.module_state_names = ir.module_state_names /\ ir'.explicit_globals = ir.explicit_globals
<1>4. ASSUME t.op \notin {"import", "call", "bind", "store", "augment", "global"}, Same
      PROVE  ReferenceEffect(t) /\ ChangeEffect(t)
  BY <1>4 DEF ReferenceEffect, ChangeEffect, Mutates, BindsState, Calls
<1> HIDE DEF Same
<1>5. CASE VisitFunctionDef(u)
  <2>1. u.op = "def" /\ Read(u) /\ \E x, y : ir' = [ir EXCEPT !.functions = x, !.symbols = y]
    BY <1>5 DEF VisitFunctionDef
  <2>2. Same
    BY <2>1 DEF Same, Lists
  <2> QED BY <1>3, <1>4, <2>1, <2>2
<1>6. CASE VisitClassDef(u) \/ VisitComprehension(u) \/ LeaveLoop(u) \/ LeaveIf(u)
  <2>1. u.op \in {"class", "comp", "end"} /\ Read(u) /\ ir' = ir
    BY <1>6 DEF VisitClassDef, VisitComprehension, LeaveLoop, LeaveIf
  <2>2. Same
    BY <2>1 DEF Same
  <2> QED BY <1>3, <1>4, <2>1, <2>2
<1>7. CASE VisitReturn(u)
  <2>1. u.op = "return" /\ Read(u) /\ ir' = ir
    BY <1>7 DEF VisitReturn, Simple
  <2>2. Same
    BY <2>1 DEF Same
  <2> QED BY <1>3, <1>4, <2>1, <2>2
<1>8. CASE VisitWhile(u) \/ VisitFor(u)
  <2>1. u.op \in {"for", "while"} /\ \E r : OpenLoop(u, r)
    BY <1>8 DEF VisitWhile, VisitFor
  <2>2. Read(u) /\ \E x, y : ir' = [ir EXCEPT !.loops = x, !.bounds_risks = y]
    BY <2>1 DEF OpenLoop
  <2>3. Same
    BY <2>2 DEF Same, Lists
  <2> QED BY <1>3, <1>4, <2>1, <2>2, <2>3
<1>9. CASE VisitIf(u)
  <2>1. u.op = "if" /\ Read(u) /\ \E x : ir' = [ir EXCEPT !.branches = x]
    BY <1>9 DEF VisitIf
  <2>2. Same
    BY <2>1 DEF Same, Lists
  <2> QED BY <1>3, <1>4, <2>1, <2>2
<1>10. CASE VisitCompare(u)
  <2>1. u.op = "in" /\ Read(u) /\ \E x : ir' = [ir EXCEPT !.membership_checks = x]
    BY <1>10 DEF VisitCompare, Simple
  <2>2. Same
    BY <2>1 DEF Same, Lists
  <2> QED BY <1>3, <1>4, <2>1, <2>2
<1>11. CASE VisitSubscript(u)
  <2>1. u.op = "index" /\ Read(u) /\ \E x : ir' = [ir EXCEPT !.bounds_risks = x]
    BY <1>11 DEF VisitSubscript, Simple
  <2>2. Same
    BY <2>1 DEF Same, Lists
  <2> QED BY <1>3, <1>4, <2>1, <2>2
<1>12. CASE LeaveScope(u)
  <2>1. u.op = "end" /\ Read(u) /\ ((\E x : ir' = [ir EXCEPT !.state_flow_risks = x]) \/ ir' = ir)
    BY <1>12 DEF LeaveScope
  <2>2. Same
    BY <2>1 DEF Same, Lists
  <2> QED BY <1>3, <1>4, <2>1, <2>2
<1>13. CASE VisitGlobal(u)
  <2>1. u.op = "global" /\ Read(u) /\ ir' = [ir EXCEPT !.explicit_globals = @ \cup {u.name}]
    BY <1>13 DEF VisitGlobal, Simple
  <2>2. u = t
    BY <1>3, <2>1
  <2> QED BY <2>1, <2>2 DEF ReferenceEffect, ChangeEffect, Mutates, BindsState, Calls, Lists
<1>14. CASE VisitImport(u)
  <2>1. u.op = "import" /\ Read(u) /\ ir' = [ir EXCEPT !.imports = Append(@, ImportOf(u, Here))]
    <3>1. u.op = "import" /\ Read(u)
      BY <1>14 DEF VisitImport, Simple
    <3> QED BY <1>14, <3>1, Zenon DEF VisitImport, ImportOf
  <2>2. u = t
    BY <1>3, <2>1
  <2> QED BY <2>1, <2>2 DEF ReferenceEffect, ChangeEffect, Mutates, BindsState, Calls, Lists
<1>15. CASE VisitAssign(u)
  <2>1. u.op = "bind" /\ Read(u)
        /\ \E y : ir' = [ir EXCEPT
                    !.module_state_names = IF scope_stack = <<>> /\ BindsState(u) THEN @ \cup {u.name} ELSE @,
                    !.mutations = Append(@, [how |-> "assign", method |-> "none", target |-> u.name, looped |-> loop_depth > 0]),
                    !.symbols = y,
                    !.calls = IF u.chain = <<>> THEN @ ELSE Append(@, [chain |-> u.chain, line |-> Here])]
    BY <1>15 DEF VisitAssign, Simple, Mutation
  <2>2. u = t
    BY <1>3, <2>1
  <2> QED
    BY <2>1, <2>2 DEF ReferenceEffect, ChangeEffect, Mutates, Mutated, How, By, BindsState, Calls, CallOf, Lists
<1>16. CASE VisitAugAssign(u)
  <2>1. /\ u.op \in {"store", "augment"} /\ Read(u)
        /\ ir' = [ir EXCEPT !.mutations = Append(@, [how |-> IF u.op = "store" THEN "subscript" ELSE "augassign",
                                                     method |-> "none", target |-> u.name, looped |-> loop_depth > 0])]
    BY <1>16 DEF VisitAugAssign, Simple, Mutation
  <2>2. u = t
    BY <1>3, <2>1
  <2> QED
    BY <2>1, <2>2 DEF ReferenceEffect, ChangeEffect, Mutates, Mutated, How, By, BindsState, Calls, CallOf, Lists
<1>17. CASE VisitCall(u)
  <2>1. /\ u.op = "call" /\ Read(u)
        /\ ir' = [ir EXCEPT !.mutations = IF Len(u.chain) = 2
                                          THEN Append(@, [how |-> "call", method |-> u.chain[2], target |-> u.chain[1],
                                                          looped |-> loop_depth > 0]) ELSE @,
                            !.calls = Append(@, [chain |-> u.chain, line |-> Here])]
    BY <1>17 DEF VisitCall, Simple, Mutation
  <2>2. u = t
    BY <1>3, <2>1
  <2> QED
    BY <2>1, <2>2 DEF ReferenceEffect, ChangeEffect, Mutates, Mutated, How, By, BindsState, Calls, CallOf, Lists
<1> QED BY <1>1, <1>5, <1>6, <1>7, <1>8, <1>9, <1>10, <1>11, <1>12, <1>13, <1>14, <1>15, <1>16, <1>17, Zenon

ImportLines(p) == {k \in 1..Len(p) : p[k].op = "import"}
CallLines(p) == {k \in 1..Len(p) : Calls(p[k])}

ImportsInv(p, imports) == Tracks(imports, {ImportOf(p[k], k) : k \in 1..Len(p)}, ImportLines(p))
CallsInv(p, calls) == Tracks(calls, {CallOf(p[k], k) : k \in 1..Len(p)}, CallLines(p))

\* Which names are changed in which way, and which of them the module holds.
Changes(s) == {<<s[i].how, s[i].method, s[i].target>> : i \in DOMAIN s}
MutationRecords ==
    [how : {"call", "subscript", "assign", "augassign"}, method : {By(t) : t \in Words}, target : {Mutated(t) : t \in Words},
     looped : BOOLEAN]
MutationsInv(p, s) ==
    /\ s \in Seq(MutationRecords)
    /\ Changes(s) = {<<How(p[k]), By(p[k]), Mutated(p[k])>> : k \in {k \in 1..Len(p) : Mutates(p[k])}}

StateLines(p, d) == {k \in 1..Len(p) : BindsState(p[k]) /\ ScopeLines(p, d, k) = {}}
StatesInv(p, d, names) == names = {p[k].name : k \in StateLines(p, d)}

LEMMA ReferencesStep ==
    ASSUME NEW d, NEW e, NEW t, Reads(program, d, program', e, t), ReferenceEffect(t),
           ImportsInv(program, ir.imports), CallsInv(program, ir.calls)
    PROVE  ImportsInv(program', ir'.imports) /\ CallsInv(program', ir'.calls)
<1> DEFINE p == program
           q == program'
           n == Len(p)
<1>1. n \in Nat /\ Len(q) = n + 1 /\ q[n + 1] = t /\ \A k \in 1..n : q[k] = p[k]
  BY DEF Reads, Continues
<1>2. 1..n + 1 = (1..n) \cup {n + 1} /\ 1..n \subseteq 1..n + 1 /\ n + 1 \in 1..n + 1
  BY <1>1
<1> HIDE DEF p, q, n
<1>3. ImportsInv(q, ir'.imports)
  <2> DEFINE R == {ImportOf(p[k], k) : k \in 1..n}
             Q == {ImportOf(q[k], k) : k \in 1..n + 1}
             K == ImportLines(p)
             w == ImportOf(t, n + 1)
  <2>1. R \subseteq Q /\ w \in Q /\ w.line = n + 1
    BY <1>1, <1>2 DEF ImportOf
  <2>2. K \in SUBSET (1..n) /\ Tracks(ir.imports, R, K)
    BY DEF ImportsInv, ImportLines, p, n
  <2>3. ImportLines(q) = IF t.op = "import" THEN K \cup {n + 1} ELSE K
    BY <1>1, <1>2 DEF ImportLines, n
  <2> HIDE DEF R, Q, K
  <2>4. Tracks(ir.imports, Q, K) /\ Tracks(Append(ir.imports, w), Q, K \cup {n + 1})
    <3> HIDE DEF w
    <3> QED BY <1>1, <2>1, <2>2, TracksMore
  <2>5. ir'.imports = IF t.op = "import" THEN Append(ir.imports, w) ELSE ir.imports
    BY DEF ReferenceEffect, Here, n, p
  <2>6. Tracks(ir'.imports, Q, ImportLines(q))
    BY <2>3, <2>4, <2>5
  <2> QED BY <1>1, <2>6 DEF ImportsInv, Q
<1>4. CallsInv(q, ir'.calls)
  <2> DEFINE R == {CallOf(p[k], k) : k \in 1..n}
             Q == {CallOf(q[k], k) : k \in 1..n + 1}
             K == CallLines(p)
             w == CallOf(t, n + 1)
  <2>1. R \subseteq Q /\ w \in Q /\ w.line = n + 1
    BY <1>1, <1>2 DEF CallOf
  <2>2. K \in SUBSET (1..n) /\ Tracks(ir.calls, R, K)
    BY DEF CallsInv, CallLines, p, n
  <2>3. CallLines(q) = IF Calls(t) THEN K \cup {n + 1} ELSE K
    BY <1>1, <1>2 DEF CallLines, n
  <2> HIDE DEF R, Q, K
  <2>4. Tracks(ir.calls, Q, K) /\ Tracks(Append(ir.calls, w), Q, K \cup {n + 1})
    <3> HIDE DEF w
    <3> QED BY <1>1, <2>1, <2>2, TracksMore
  <2>5. ir'.calls = IF Calls(t) THEN Append(ir.calls, w) ELSE ir.calls
    BY DEF ReferenceEffect, Here, n, p
  <2>6. Tracks(ir'.calls, Q, CallLines(q))
    BY <2>3, <2>4, <2>5
  <2> QED BY <1>1, <2>6 DEF CallsInv, Q
<1> QED BY <1>3, <1>4 DEF q

\* One more change in the list is one more change known.
LEMMA ChangesMore ==
    ASSUME NEW S, NEW s \in Seq(S), NEW w \in S
    PROVE  Changes(Append(s, w)) = Changes(s) \cup {<<w.how, w.method, w.target>>}
<1>1. /\ Append(s, w) \in Seq(S) /\ Len(Append(s, w)) = Len(s) + 1 /\ Len(s) \in Nat
      /\ \A i \in 1..Len(s) : Append(s, w)[i] = s[i]
      /\ Append(s, w)[Len(s) + 1] = w
  BY Appended
<1>2. DOMAIN Append(s, w) = (DOMAIN s) \cup {Len(s) + 1} /\ DOMAIN s = 1..Len(s)
  BY <1>1
<1> QED BY <1>1, <1>2 DEF Changes

LEMMA ChangesStep ==
    ASSUME NEW d, NEW e, NEW t \in Words, Reads(program, d, program', e, t), ChangeEffect(t),
           ScopesInv(program, d, scope_stack), Spells(program', ScopeLines(program', e, Len(program) + 1), scope_stack),
           MutationsInv(program, ir.mutations), StatesInv(program, d, ir.module_state_names),
           IsFiniteSet(ir.explicit_globals)
    PROVE  /\ MutationsInv(program', ir'.mutations) /\ StatesInv(program', e, ir'.module_state_names)
           /\ IsFiniteSet(ir'.explicit_globals)
<1> DEFINE p == program
           q == program'
           n == Len(p)
<1>1. n \in Nat /\ Len(q) = n + 1 /\ q[n + 1] = t /\ \A k \in 1..n : q[k] = p[k]
  BY DEF Reads, Continues
<1>2. 1..n + 1 = (1..n) \cup {n + 1} /\ n + 1 \in 1..n + 1
  BY <1>1
<1>3. IsFiniteSet(ir'.explicit_globals)
  <2>1. IsFiniteSet(ir.explicit_globals \cup {t.name})
    BY FS_AddElement
  <2>2. \/ ir'.explicit_globals = ir.explicit_globals
        \/ ir'.explicit_globals = ir.explicit_globals \cup {t.name}
    BY DEF ChangeEffect
  <2> QED BY <2>1, <2>2, Zenon
<1>4. \A k \in 1..n : ScopeLines(q, e, k) = ScopeLines(p, d, k)
  BY HomesAreStable
<1>5. scope_stack = <<>> <=> ScopeLines(q, e, n + 1) = {}
  <2>1. PICK r : SpelledBy(q, ScopeLines(q, e, n + 1), scope_stack, r)
    BY DEF Spells
  <2>2. scope_stack \in Seq(Names)
    BY DEF Spells
  <2>3. scope_stack = <<>> <=> Len(r) = 0
    BY <2>1, <2>2 DEF SpelledBy
  <2>4. Len(r) = 0 <=> ScopeLines(q, e, n + 1) = {}
    <3>1. Ordered(r, ScopeLines(q, e, n + 1))
      BY <2>1 DEF SpelledBy
    <3>2. Len(r) \in Nat
      BY <3>1 DEF Ordered
    <3>3. Len(r) # 0 => 1 \in 1..Len(r)
      BY <3>2
    <3> QED BY <3>1, <3>2, <3>3 DEF Ordered
  <2> QED BY <2>3, <2>4
<1> HIDE DEF p, q, n
<1>6. StatesInv(q, e, ir'.module_state_names)
  <2>1. StateLines(q, e) = IF BindsState(t) /\ scope_stack = <<>> THEN StateLines(p, d) \cup {n + 1} ELSE StateLines(p, d)
    BY <1>1, <1>2, <1>4, <1>5 DEF StateLines, n
  <2>2. {q[k].name : k \in StateLines(p, d)} = {p[k].name : k \in StateLines(p, d)}
    BY <1>1 DEF StateLines, n
  <2>3. ir.module_state_names = {p[k].name : k \in StateLines(p, d)}
    BY DEF StatesInv, p
  <2>4. {q[k].name : k \in StateLines(p, d) \cup {n + 1}} = {q[k].name : k \in StateLines(p, d)} \cup {t.name}
    BY <1>1
  <2>5. ir'.module_state_names = IF BindsState(t) /\ scope_stack = <<>> THEN ir.module_state_names \cup {t.name}
                                 ELSE ir.module_state_names
    BY DEF ChangeEffect
  <2> HIDE DEF q
  <2> QED BY <2>1, <2>2, <2>3, <2>4, <2>5 DEF StatesInv
<1>7. MutationsInv(q, ir'.mutations)
  <2> DEFINE w == [how |-> How(t), method |-> By(t), target |-> Mutated(t), looped |-> loop_depth > 0]
             of(x, m) == {<<How(x[k]), By(x[k]), Mutated(x[k])>> : k \in {k \in 1..m : Mutates(x[k])}}
  <2>1. ir.mutations \in Seq(MutationRecords) /\ Changes(ir.mutations) = of(p, n)
    BY DEF MutationsInv, p, n
  <2>2. w \in MutationRecords
    BY DEF MutationRecords, How
  <2>3. of(q, n + 1) = IF Mutates(t) THEN of(p, n) \cup {<<How(t), By(t), Mutated(t)>>} ELSE of(p, n)
    BY <1>1, <1>2
  <2>4. ir'.mutations = IF Mutates(t) THEN Append(ir.mutations, w) ELSE ir.mutations
    BY DEF ChangeEffect
  <2>5. w.how = How(t) /\ w.method = By(t) /\ w.target = Mutated(t) OBVIOUS
  <2> HIDE DEF w, of
  <2>6. Append(ir.mutations, w) \in Seq(MutationRecords)
    BY <2>1, <2>2
  <2>7. Changes(Append(ir.mutations, w)) = of(p, n) \cup {<<How(t), By(t), Mutated(t)>>}
    BY <2>1, <2>2, <2>5, ChangesMore
  <2>8. ir'.mutations \in Seq(MutationRecords) /\ Changes(ir'.mutations) = of(q, n + 1)
    BY <2>1, <2>3, <2>4, <2>6, <2>7
  <2> QED BY <1>1, <2>8 DEF MutationsInv, of
<1> QED BY <1>3, <1>6, <1>7 DEF q

\* What the walk has recorded of what is imported, called and changed.
HazardsFollow(d) ==
    /\ ImportsInv(program, ir.imports) /\ CallsInv(program, ir.calls) /\ MutationsInv(program, ir.mutations)
    /\ StatesInv(program, d, ir.module_state_names) /\ IsFiniteSet(ir.explicit_globals)

-----------------------------------------------------------------------------
(* The invariant of the walk *)

\* What the walk has recorded is what its draft says, d being the levels of its lines.
WalkFollows(d) ==
    /\ StackInv(program, opened, d) /\ DepthInv(program, d, loop_depth, membership_loop_depth)
    /\ LoopsInv(program, d, ir.loops) /\ FunctionsInv(program, ir.functions)
    /\ ScopesInv(program, d, scope_stack)
    /\ SymbolsInv(program, d, ir.symbols) /\ ChecksInv(program, d, ir.membership_checks)
    /\ HazardsFollow(d)

WalkInv ==
    /\ vocabulary \in DOMAIN Vocabularies \cup {1} /\ Lists \subseteq DOMAIN ir
    /\ \E d : WalkFollows(d)

LEMMA WalkStarts ==
    ASSUME OperatorsInit
    PROVE  WalkInv
<1>1. /\ program = <<>> /\ opened = <<>> /\ scope_stack = <<>> /\ loop_depth = 0 /\ membership_loop_depth = 0
      /\ ir = EmptyIR /\ vocabulary \in DOMAIN Vocabularies \cup {1}
  BY Zenon DEF OperatorsInit, ValidationInit, WalkInit, Unwalked
<1> DEFINE d == [z \in 1..1 |-> 0]
<1>2. /\ ir.loops = <<>> /\ ir.functions = <<>> /\ ir.symbols = <<>> /\ ir.membership_checks = <<>>
      /\ ir.imports = <<>> /\ ir.calls = <<>> /\ ir.mutations = <<>>
      /\ ir.module_state_names = {} /\ ir.explicit_globals = {} /\ Lists \subseteq DOMAIN ir
  BY <1>1 DEF EmptyIR, Lists
<1>3. Len(program) = 0 /\ 0 + 1 = 1 /\ 1..0 = {}
  BY <1>1
<1>4. StackInv(program, opened, d)
  BY <1>1, StackSettles
<1>5. OpenAt(program, d, 1) = {}
  BY DEF OpenAt
<1>6. DepthInv(program, d, loop_depth, membership_loop_depth)
  <2>1. \A Z : OpenAt(program, d, 1) \cap Z = {}
    BY <1>5
  <2>2. 0 + 0 = 0 OBVIOUS
  <2> HIDE DEF d
  <2> QED BY <1>1, <1>3, <2>1, <2>2, FS_EmptySet DEF DepthInv
<1>7. LoopsInv(program, d, ir.loops)
  <2>1. LoopLines(program, Len(program)) = {}
    BY <1>3 DEF LoopLines
  <2> HIDE DEF d
  <2> QED BY <1>2, <2>1 DEF LoopsInv
<1>8. FunctionsInv(program, ir.functions)
  BY <1>2 DEF FunctionsInv
<1>9. ScopesInv(program, d, scope_stack)
  <2>1. ScopeLines(program, d, Len(program) + 1) = {}
    BY <1>3, <1>5 DEF ScopeLines
  <2>2. SpelledBy(program, {}, <<>>, <<>>)
    BY DEF SpelledBy, Ordered
  <2>3. Spells(program, {}, <<>>)
    BY <2>2 DEF Spells
  <2> HIDE DEF d
  <2> QED BY <1>1, <2>1, <2>3 DEF ScopesInv
<1>10. \A R : Tracks(<<>>, R, {})
  BY DEF Tracks
<1>11. SymbolsInv(program, d, ir.symbols) /\ ChecksInv(program, d, ir.membership_checks)
  <2>1. BindingLines(program) = {} /\ CheckLines(program, d) = {}
    BY <1>3 DEF BindingLines, CheckLines
  <2> HIDE DEF d
  <2> QED BY <1>2, <1>10, <2>1, Zenon DEF SymbolsInv, ChecksInv
<1>12. HazardsFollow(d)
  <2>1. /\ ImportLines(program) = {} /\ CallLines(program) = {} /\ StateLines(program, d) = {}
        /\ {k \in 1..Len(program) : Mutates(program[k])} = {}
    BY <1>3 DEF ImportLines, CallLines, StateLines
  <2> HIDE DEF d
  <2>2. ImportsInv(program, ir.imports) /\ CallsInv(program, ir.calls)
    BY <1>2, <1>10, <2>1, Zenon DEF ImportsInv, CallsInv
  <2>3. MutationsInv(program, ir.mutations)
    <3>1. <<>> \in Seq(MutationRecords) /\ Changes(<<>>) = {}
      BY DEF Changes
    <3>2. {<<How(program[k]), By(program[k]), Mutated(program[k])>> : k \in {}} = {}
      OBVIOUS
    <3> QED BY <1>2, <2>1, <3>1, <3>2 DEF MutationsInv
  <2>4. StatesInv(program, d, ir.module_state_names)
    <3>1. {program[k].name : k \in {}} = {} OBVIOUS
    <3> QED BY <1>2, <2>1, <3>1 DEF StatesInv
  <2>5. IsFiniteSet(ir.explicit_globals)
    BY <1>2, FS_EmptySet
  <2> QED BY <2>2, <2>3, <2>4, <2>5 DEF HazardsFollow
<1> HIDE DEF d
<1>13. WalkFollows(d)
  BY <1>4, <1>6, <1>7, <1>8, <1>9, <1>11, <1>12 DEF WalkFollows
<1> QED BY <1>1, <1>2, <1>13 DEF WalkInv

LEMMA WalkGoesOn ==
    ASSUME WalkInv, [gate = NoGate /\ WalkNext /\ UNCHANGED gate]_validationVars
    PROVE  WalkInv'
<1>1. PICK d : WalkFollows(d)
  BY DEF WalkInv
<1>2. CASE WalkNext
  <2>1. vocabulary \in DOMAIN Vocabularies \cup {1} /\ Lists \subseteq DOMAIN ir
    BY DEF WalkInv
  <2>2. PICK t \in Words : Effect(t)
    BY <1>2, <2>1, WalkEffects
  <2>3. StackEffect(t) /\ DepthEffect(t) /\ ScopeEffect(t) /\ RecordEffect(t) /\ SymbolEffect(t)
    BY <2>2 DEF Effect
  <2>4. PICK e : /\ StackInv(program', opened', e) /\ Reads(program, d, program', e, t)
                 /\ t.op = "end" => \E top : Closes(program, d, top, Last(opened))
    BY <1>1, <2>3, StackStep DEF WalkFollows
  <2>5. DepthInv(program', e, loop_depth', membership_loop_depth')
    BY <1>1, <2>3, <2>4, DepthStep DEF WalkFollows
  <2>6. LoopsInv(program', e, ir'.loops)
    BY <1>1, <2>3, <2>4, LoopsStep DEF WalkFollows
  <2>7. FunctionsInv(program', ir'.functions)
    BY <1>1, <2>3, <2>4, FunctionsStep DEF WalkFollows
  <2>8. /\ ScopesInv(program', e, scope_stack')
        /\ Spells(program', ScopeLines(program', e, Len(program) + 1), scope_stack)
    BY <1>1, <2>3, <2>4, ScopesStep DEF WalkFollows
  <2>9. SymbolsInv(program', e, ir'.symbols)
    BY <1>1, <2>3, <2>4, <2>8, SymbolsStep DEF WalkFollows
  <2>10. ChecksInv(program', e, ir'.membership_checks)
    BY <1>1, <2>3, <2>4, <2>8, ChecksStep DEF WalkFollows
  <2>11. ReferenceEffect(t) /\ ChangeEffect(t)
    <3>1. program' = Append(program, t) /\ program \in Seq(Words)
      BY <1>1, <2>3 DEF StackEffect, WalkFollows, StackInv
    <3> QED BY <1>2, <2>1, <3>1, HazardEffects
  <2>12. ImportsInv(program', ir'.imports) /\ CallsInv(program', ir'.calls)
    BY <1>1, <2>4, <2>11, ReferencesStep, Zenon DEF WalkFollows, HazardsFollow
  <2>13. /\ MutationsInv(program', ir'.mutations) /\ StatesInv(program', e, ir'.module_state_names)
         /\ IsFiniteSet(ir'.explicit_globals)
    BY <1>1, <2>4, <2>8, <2>11, ChangesStep, Zenon DEF WalkFollows, HazardsFollow
  <2>14. HazardsFollow(e)'
    BY <2>12, <2>13 DEF HazardsFollow
  <2>15. WalkFollows(e)'
    BY <2>4, <2>5, <2>6, <2>7, <2>8, <2>9, <2>10, <2>14 DEF WalkFollows
  <2>16. Lists \subseteq DOMAIN ir' /\ vocabulary' = vocabulary
    BY <2>3 DEF RecordEffect, StackEffect
  <2> QED BY <2>1, <2>15, <2>16 DEF WalkInv
<1>3. CASE UNCHANGED validationVars
  <2>1. UNCHANGED <<vocabulary, program, opened, scope_stack, loop_depth, membership_loop_depth, ir>>
    BY <1>3 DEF validationVars, walk
  <2>2. WalkFollows(d)'
    BY <1>1, <2>1 DEF WalkFollows, HazardsFollow
  <2>3. vocabulary' \in DOMAIN Vocabularies \cup {1} /\ Lists \subseteq DOMAIN ir'
    BY <2>1 DEF WalkInv
  <2> QED BY <2>2, <2>3 DEF WalkInv
<1> QED BY <1>2, <1>3

\* The records of the visitor follow the draft throughout the walk.
THEOREM WalksAreRecorded == OperatorsSpec => []WalkInv
<1>1. OperatorsInit => WalkInv
  BY WalkStarts
<1>2. WalkInv /\ [gate = NoGate /\ WalkNext /\ UNCHANGED gate]_validationVars => WalkInv'
  BY WalkGoesOn
<1> QED BY <1>1, <1>2, PTL DEF OperatorsSpec

\* What encloses a line, as the reference definitions have it, is what is open there.
LEMMA EnclosingIsOpen ==
    ASSUME NEW d, StackInv(program, opened, d), NEW i \in 1..Len(program)
    PROVE  Enclosing(i) = OpenAt(program, d, i) /\ Levels(program, Len(program), d) /\ Len(program) \in Nat
<1>1. Levels(program, Len(program), d) /\ Len(program) \in Nat
  BY DEF StackInv
<1> QED BY <1>1, BlocksAreOpen DEF Enclosing

LEMMA DepthsNest ==
    ASSUME NEW d, WalkFollows(d)
    PROVE  LoopDepthsAreNesting
<1>1. LoopsInv(program, d, ir.loops) /\ StackInv(program, opened, d)
  BY DEF WalkFollows
<1>2. ir.loops \in Seq(LoopRecords)
      /\ \A x \in 1..Len(ir.loops) : ir.loops[x].line \in LoopLines(program, Len(program))
                                     /\ ir.loops[x].depth = DepthOf(program, d, ir.loops[x].line)
  BY <1>1 DEF LoopsInv
<1>3. ASSUME NEW i \in 1..Len(program) PROVE Cardinality(LoopsAround(i)) + 1 = DepthOf(program, d, i)
  <2>1. Enclosing(i) = OpenAt(program, d, i)
    BY <1>1, EnclosingIsOpen
  <2>2. \A k \in OpenAt(program, d, i) : k \in Nat
    BY DEF OpenAt
  <2>3. LoopsAround(i) = OpenAt(program, d, i) \cap OfKind(program, {"for", "while"})
    BY <2>1, <2>2 DEF LoopsAround, OfKind
  <2> QED BY <2>3 DEF DepthOf
<1>4. ASSUME NEW x \in DOMAIN ir.loops PROVE ir.loops[x].depth = Cardinality(LoopsAround(ir.loops[x].line)) + 1
  <2>1. x \in 1..Len(ir.loops)
    BY <1>2
  <2>2. ir.loops[x].line \in 1..Len(program) /\ ir.loops[x].depth = DepthOf(program, d, ir.loops[x].line)
    BY <1>2, <2>1 DEF LoopLines
  <2> QED BY <1>3, <2>2
<1> QED BY <1>4 DEF LoopDepthsAreNesting

-----------------------------------------------------------------------------
(* What the engines find *)

LEMMA BlocksEndInside ==
    ASSUME NEW p, NEW n \in Nat, Len(p) = n, NEW first \in 1..n
    PROVE  BlockEnd(p, first) \in Nat /\ BlockEnd(p, first) <= n
<1> DEFINE closing == {i \in first..n : Balance(p, first, i) = 0}
<1>1. BlockEnd(p, first) = IF closing = {} THEN n ELSE Min(closing)
  BY DEF BlockEnd
<1>2. \A i \in closing : i \in Nat /\ i <= n OBVIOUS
<1> HIDE DEF closing
<1>3. closing # {} => Min(closing) \in closing
  <2>1. SUFFICES ASSUME closing # {} PROVE Min(closing) \in closing
    OBVIOUS
  <2>2. closing \in SUBSET Nat
    BY <1>2
  <2>3. \E x \in closing : \A y \in closing : x =< y
    BY <2>1, <2>2, LeastNumber
  <2> QED BY <2>3, Zenon DEF Min
<1> QED BY <1>1, <1>2, <1>3

\* The decisions in some of the lines are among those of the draft.
LEMMA DecisionsAreBounded ==
    ASSUME NEW n \in Nat, Len(program) = n, NEW lines \in SUBSET (1..n)
    PROVE  Decisions(lines) \in Nat /\ Decisions(lines) <= Cardinality(DecisionLines(program, n))
<1> DEFINE all == DecisionLines(program, n)
           some == {i \in lines : program[i].op \in {"if", "for", "while"}}
<1>1. some \subseteq all /\ all \subseteq 1..n
  BY DEF DecisionLines
<1>2. IsFiniteSet(1..n)
  BY FS_Interval
<1>3. IsFiniteSet(all)
  BY <1>1, <1>2, FS_Subset
<1>4. Cardinality(some) \in Nat /\ Cardinality(some) <= Cardinality(all)
  <2> HIDE DEF some, all
  <2>1. IsFiniteSet(some) /\ Cardinality(some) <= Cardinality(all)
    BY <1>1, <1>3, FS_Subset
  <2> QED BY <2>1, FS_CardinalityType
<1> QED BY <1>4 DEF Decisions

LEMMA EnginesSeeTheSame ==
    ASSUME NEW d, WalkFollows(d)
    PROVE  EnginesAgree
<1> DEFINE n == Len(program)
           other == TreeSitterDecompose(program)
           all == Cardinality(DecisionLines(program, n))
<1>1. /\ StackInv(program, opened, d) /\ LoopsInv(program, d, ir.loops) /\ FunctionsInv(program, ir.functions)
      /\ n \in Nat /\ Levels(program, n, d) /\ program \in Seq(Words)
  BY DEF WalkFollows, StackInv
<1>2. other.depth = Max(DepthsSeen(program, d, n)) /\ other.decisions = all
  <2>1. other = Seen(program, d, n)
    BY <1>1, TreeSitterSees
  <2> QED BY <2>1 DEF Seen
<1>3. other.depth = MaxLoopDepth(ir)
  <2> DEFINE loops == ir.loops
  <2>1. /\ loops \in Seq(LoopRecords) /\ DOMAIN loops = 1..Len(loops)
        /\ \A x \in 1..Len(loops) : loops[x].line \in LoopLines(program, n) /\ loops[x].depth = DepthOf(program, d, loops[x].line)
        /\ \A k \in LoopLines(program, n) : \E x \in 1..Len(loops) : loops[x].line = k
    BY <1>1 DEF LoopsInv
  <2> HIDE DEF loops, n
  <2>2. {DepthOf(program, d, z) : z \in LoopLines(program, n)} = {loops[x].depth : x \in DOMAIN loops}
    BY <2>1
  <2> QED BY <1>2, <2>2 DEF DepthsSeen, MaxLoopDepth, loops
<1>4. all \in Nat
  BY <1>1, DecisionsCount
<1>5. CASE ir.functions = <<>>
  <2>1. DOMAIN program = 1..n
    BY <1>1
  <2>2. Decisions(DOMAIN program) = all
    BY <2>1 DEF Decisions, DecisionLines
  <2>3. BlockingComplexity(ir) = all + 1
    BY <1>5, <2>2 DEF BlockingComplexity
  <2> QED BY <1>2, <1>3, <1>4, <2>3 DEF EnginesAgree
<1>6. CASE ir.functions # <<>>
  <2> DEFINE functions == ir.functions
             within(x) == Decisions(functions[x].line + 1..BlockEnd(program, functions[x].line)) + 1
             B == {within(x) : x \in LatestFunctions(ir)}
  <2>1. functions \in Seq(FunctionRecords) /\ DOMAIN functions = 1..Len(functions) /\ Len(functions) \in Nat
        /\ \A x \in 1..Len(functions) : functions[x].line \in 1..n
    BY <1>1 DEF FunctionsInv
  <2>2. BlockingComplexity(ir) = Max(B)
    BY <1>6, Zenon DEF BlockingComplexity
  <2>3. ASSUME NEW x \in 1..Len(functions) PROVE within(x) \in Nat /\ within(x) <= all + 1
    <3> DEFINE first == functions[x].line
    <3>1. first \in 1..n
      BY <2>1
    <3> HIDE DEF first
    <3>2. BlockEnd(program, first) \in Nat /\ BlockEnd(program, first) <= n
      BY <1>1, <3>1, BlocksEndInside
    <3>3. first + 1..BlockEnd(program, first) \in SUBSET (1..n)
      BY <1>1, <3>1, <3>2
    <3>4. Decisions(first + 1..BlockEnd(program, first)) \in Nat
          /\ Decisions(first + 1..BlockEnd(program, first)) <= all
      BY <1>1, <3>3, DecisionsAreBounded
    <3> QED BY <1>4, <3>4 DEF first
  <2>4. \A x \in LatestFunctions(ir) : x \in 1..Len(functions)
    BY <2>1 DEF LatestFunctions
  <2>5. Len(functions) \in LatestFunctions(ir)
    <3>1. Len(functions) \in DOMAIN functions
      BY <1>6, <2>1
    <3>2. \A j \in DOMAIN functions : j <= Len(functions)
      BY <2>1
    <3> QED BY <3>1, <3>2, Zenon DEF LatestFunctions
  <2> HIDE DEF within, functions
  <2>6. B \in SUBSET Nat /\ B # {} /\ all + 1 \in Nat /\ \A y \in B : y <= all + 1
    BY <1>4, <2>3, <2>4, <2>5
  <2> HIDE DEF B, all
  <2>7. Max(B) \in B
    BY <2>6, LargestNumber
  <2>8. other.decisions + 1 >= BlockingComplexity(ir)
    BY <1>2, <2>2, <2>6, <2>7
  <2> QED BY <1>3, <1>6, <2>8 DEF EnginesAgree
<1> QED BY <1>5, <1>6

LEMMA PrefixesAgree ==
    ASSUME NEW S, NEW s \in Seq(S), NEW u \in Seq(S)
    PROVE  IsPrefix(s, u) <=> Len(s) <= Len(u) /\ \A j \in 1..Len(s) : s[j] = u[j]
<1>1. SUFFICES ASSUME Len(s) <= Len(u)
               PROVE  SubSeq(s, 1, Len(s)) = SubSeq(u, 1, Len(s)) <=> \A j \in 1..Len(s) : s[j] = u[j]
  BY DEF IsPrefix
<1> DEFINE a == SubSeq(s, 1, Len(s))
           b == SubSeq(u, 1, Len(s))
<1>2. Len(s) \in Nat /\ Len(u) \in Nat OBVIOUS
<1>3. a \in Seq(S) /\ Len(a) = Len(s) /\ \A j \in 1..Len(s) : a[j] = s[j]
  BY <1>1, <1>2
<1>4. b \in Seq(S) /\ Len(b) = Len(s) /\ \A j \in 1..Len(s) : b[j] = u[j]
  BY <1>1, <1>2
<1> HIDE DEF a, b
<1>5. (\A j \in 1..Len(s) : s[j] = u[j]) => a = b
  <2>1. SUFFICES ASSUME \A j \in 1..Len(s) : s[j] = u[j] PROVE a = b
    OBVIOUS
  <2>2. \A j \in 1..Len(a) : a[j] = b[j]
    BY <1>3, <1>4, <2>1
  <2> QED BY <1>3, <1>4, <2>2, SameSequence
<1>6. a = b => \A j \in 1..Len(s) : s[j] = u[j]
  BY <1>3, <1>4
<1> QED BY <1>5, <1>6 DEF a, b

\* The reference definitions of scopes, by the levels of the lines.
LEMMA ScopesAreOpen ==
    ASSUME NEW d, StackInv(program, opened, d), NEW i \in 1..Len(program)
    PROVE  /\ Scopes(i) = {0} \cup ScopeLines(program, d, i)
           /\ ScopeAt(i) = Max({0} \cup ScopeLines(program, d, i))
           /\ ScopeLines(program, d, i) \in SUBSET (1..Len(program)) /\ i \notin ScopeLines(program, d, i)
           /\ \A y \in ScopeLines(program, d, i) : y \in Nat /\ y < i /\ program[y].op \in {"def", "class"}
<1>1. Enclosing(i) = OpenAt(program, d, i) /\ Len(program) \in Nat
  BY EnclosingIsOpen
<1>2. \A y \in OpenAt(program, d, i) : y \in Nat /\ y < i /\ y \in 1..Len(program)
  BY <1>1 DEF OpenAt
<1>3. ScopesAround(i) = ScopeLines(program, d, i)
  BY <1>1, <1>2 DEF ScopesAround, ScopeLines, OfKind
<1>4. \A y \in ScopeLines(program, d, i) : y \in Nat /\ y < i /\ y \in 1..Len(program) /\ program[y].op \in {"def", "class"}
  BY <1>2 DEF ScopeLines, OfKind
<1>5. ScopeLines(program, d, i) \in SUBSET (1..Len(program)) /\ i \notin ScopeLines(program, d, i)
  BY <1>4
<1> QED BY <1>3, <1>4, <1>5, Zenon DEF Scopes, ScopeAt

\* The scopes in which line k binds a name are those around k, and k itself for a function.
LEMMA HomeLines ==
    ASSUME NEW d, StackInv(program, opened, d), NEW k \in 1..Len(program)
    PROVE  /\ program[k].op = "def" => /\ Home(program, d, k) = ScopeLines(program, d, k) \cup {k}
                                       /\ Max({0} \cup Home(program, d, k)) = k
           /\ program[k].op # "def" => /\ Home(program, d, k) = ScopeLines(program, d, k)
                                       /\ Max({0} \cup Home(program, d, k)) = ScopeAt(k)
           /\ \A y \in Home(program, d, k) : y \in 1..Len(program) /\ program[y].op \in {"def", "class"}
<1>1. Levels(program, Len(program), d) /\ Len(program) \in Nat
  BY EnclosingIsOpen
<1>2. /\ ScopeAt(k) = Max({0} \cup ScopeLines(program, d, k)) /\ ScopeLines(program, d, k) \in SUBSET (1..Len(program))
      /\ \A y \in ScopeLines(program, d, k) : y \in Nat /\ y < k /\ program[y].op \in {"def", "class"}
  BY ScopesAreOpen
<1>3. CASE program[k].op = "def"
  <2>1. OpenAt(program, d, k + 1) = OpenAt(program, d, k) \cup {k}
    BY <1>1, <1>3, OpenStep DEF Openers
  <2>2. k \in OfKind(program, {"def", "class"})
    BY <1>1, <1>3 DEF OfKind
  <2>3. Home(program, d, k) = ScopeLines(program, d, k) \cup {k}
    BY <1>3, <2>1, <2>2 DEF Home, ScopeLines
  <2>4. Max({0} \cup Home(program, d, k)) = k
    <3>1. k \in {0} \cup Home(program, d, k) /\ {0} \cup Home(program, d, k) \in SUBSET Nat
          /\ \A y \in {0} \cup Home(program, d, k) : y <= k
      BY <1>1, <1>2, <2>3
    <3> QED BY <3>1, MaxIs
  <2> QED BY <1>2, <1>3, <2>3, <2>4
<1>4. CASE program[k].op # "def"
  <2>1. Home(program, d, k) = ScopeLines(program, d, k)
    BY <1>4 DEF Home
  <2> QED BY <1>2, <1>4, <2>1
<1> QED BY <1>3, <1>4

\* The symbols that name can stand for in the scope at line i.
Known(symbols, name, scope, i) ==
    {x \in DOMAIN symbols : symbols[x].name = name /\ symbols[x].line <= i /\ IsPrefix(symbols[x].scope, scope)}

\* Two scopes of one name are the same scope.
ScopesDiffer(p) ==
    \A j, k \in DOMAIN p : p[j].op \in {"def", "class"} /\ p[k].op \in {"def", "class"} /\ p[j].name = p[k].name => j = k

\* A path that is a prefix of another leads to a scope on the other's way.
LEMMA PrefixesNest ==
    ASSUME NEW p, ScopesDiffer(p), NEW S, NEW U, NEW s, NEW u, NEW w, Spells(p, S, s), u \in Seq(Names), SpelledBy(p, U, u, w),
           \A y \in S \cup U : y \in DOMAIN p /\ p[y].op \in {"def", "class"}, IsPrefix(s, u)
    PROVE  /\ Len(s) \in Nat /\ Len(w) \in Nat /\ Len(s) <= Len(w)
           /\ Max({0} \cup S) = At(w, Len(s)) /\ At(w, Len(s)) \in {0} \cup U
<1>1. PICK r : SpelledBy(p, S, s, r)
  BY DEF Spells
<1>2. s \in Seq(Names) /\ Len(s) <= Len(u) /\ \A j \in 1..Len(s) : s[j] = u[j]
  <2>1. s \in Seq(Names)
    BY DEF Spells
  <2> QED BY <2>1, PrefixesAgree
<1>3. /\ Ordered(r, S) /\ Len(r) = Len(s) /\ (\A j \in 1..Len(r) : s[j] = p[r[j]].name)
      /\ Ordered(w, U) /\ Len(w) = Len(u) /\ (\A j \in 1..Len(w) : u[j] = p[w[j]].name)
  BY <1>1 DEF SpelledBy
<1>4. (\A j \in 1..Len(r) : r[j] \in S) /\ \A j \in 1..Len(w) : w[j] \in U
  BY <1>3 DEF Ordered
<1>5. Len(s) \in Nat /\ Len(w) \in Nat /\ Max({0} \cup S) = At(r, Len(s))
  <2>1. Max({0} \cup S) = At(r, Len(r)) /\ Len(r) \in Nat
    BY <1>3, OrderedMax
  <2>2. Len(w) \in Nat
    BY <1>3, OrderedMax
  <2> QED BY <1>3, <2>1, <2>2
<1>6. ASSUME NEW j \in 1..Len(s) PROVE r[j] = w[j] /\ w[j] \in U
  <2>1. j \in 1..Len(r) /\ j \in 1..Len(w)
    BY <1>2, <1>3, <1>5
  <2>2. p[r[j]].name = p[w[j]].name
    BY <1>2, <1>3, <2>1
  <2>3. r[j] \in S \cup U /\ w[j] \in S \cup U
    BY <1>4, <2>1
  <2> QED BY <1>4, <2>1, <2>2, <2>3 DEF ScopesDiffer
<1>7. CASE Len(s) = 0 BY <1>2, <1>3, <1>5, <1>7 DEF At
<1>8. CASE Len(s) # 0
  <2>1. Len(s) \in 1..Len(s)
    BY <1>5, <1>8
  <2> QED BY <1>2, <1>3, <1>5, <1>6, <1>8, <2>1 DEF At
<1> QED BY <1>7, <1>8

\* The path to a scope on the way of another path is a prefix of it.
UpTo(U, b) == {y \in U : y <= b}

LEMMA NestsArePrefixes ==
    ASSUME NEW p, NEW U, NEW s, NEW u, NEW w, NEW b, Spells(p, UpTo(U, b), s), u \in Seq(Names), SpelledBy(p, U, u, w),
           b \in {0} \cup U, U \in SUBSET Nat
    PROVE  IsPrefix(s, u) /\ At(w, Len(s)) = b
<1> DEFINE S == UpTo(U, b)
<1>1. PICK r : SpelledBy(p, S, s, r)
  BY DEF Spells
<1>2. s \in Seq(Names)
  BY DEF Spells
<1>10. S = {y \in U : y <= b}
  BY DEF UpTo
<1> HIDE DEF S
<1>3. /\ Ordered(r, S) /\ Len(r) = Len(s) /\ (\A j \in 1..Len(r) : s[j] = p[r[j]].name)
      /\ Ordered(w, U) /\ Len(w) = Len(u) /\ (\A j \in 1..Len(w) : u[j] = p[w[j]].name)
  BY <1>1 DEF SpelledBy
<1>4. b \in Nat OBVIOUS
<1>5. Len(r) <= Len(w) /\ \A j \in 1..Len(r) : r[j] = w[j]
  BY <1>3, <1>4, <1>10, OrderedPrefix
<1>6. Len(r) \in Nat /\ Len(w) \in Nat /\ Max({0} \cup S) = At(r, Len(r))
  <2>1. Max({0} \cup S) = At(r, Len(r)) /\ Len(r) \in Nat
    BY <1>3, OrderedMax
  <2>2. Len(w) \in Nat
    BY <1>3, OrderedMax
  <2> QED BY <2>1, <2>2
<1>7. IsPrefix(s, u)
  <2>1. ASSUME NEW j \in 1..Len(s) PROVE s[j] = u[j]
    <3>1. j \in 1..Len(r) /\ j \in 1..Len(w)
      BY <1>3, <1>5, <1>6
    <3> QED BY <1>3, <1>5, <3>1
  <2>2. Len(s) <= Len(u)
    BY <1>3, <1>5
  <2> QED BY <1>2, <2>1, <2>2, PrefixesAgree
<1>8. Max({0} \cup S) = b
  <2>1. b \in {0} \cup S /\ {0} \cup S \in SUBSET Nat /\ \A y \in {0} \cup S : y <= b
    <3>1. b \in {0} \cup S
      BY <1>4, <1>10
    <3>2. {0} \cup S \in SUBSET Nat
      <4>1. \A y \in S : y \in Nat
        BY <1>10
      <4> QED BY <4>1
    <3>3. \A y \in {0} \cup S : y <= b
      BY <1>4, <1>10
    <3> QED BY <3>1, <3>2, <3>3
  <2> QED BY <2>1, MaxIs
<1>9. At(w, Len(r)) = At(r, Len(r))
  <2>1. Len(r) # 0 => Len(r) \in 1..Len(r)
    BY <1>6
  <2> QED BY <1>5, <2>1 DEF At
<1> QED BY <1>3, <1>6, <1>7, <1>8, <1>9

\* What the records know of a name is what the draft binds: a symbol whose path is
\* k scopes long is bound in the k-th scope around line i, w listing those scopes.
LEMMA KnownIsBound ==
    ASSUME NEW d, StackInv(program, opened, d), SymbolsInv(program, d, ir.symbols), NEW i \in 1..Len(program),
           NEW name, PlainUse(name, i), NEW scope \in Seq(Names), NEW w,
           SpelledBy(program, ScopeLines(program, d, i), scope, w),
           NEW x \in Known(ir.symbols, name, scope, i)
    PROVE  /\ Len(ir.symbols[x].scope) \in Nat /\ Len(w) \in Nat /\ Len(ir.symbols[x].scope) <= Len(w)
           /\ At(w, Len(ir.symbols[x].scope)) \in Scopes(i)
           /\ ir.symbols[x].line \in Binds(name, At(w, Len(ir.symbols[x].scope)))
           /\ ir.symbols[x].kind = KindBoundAt(ir.symbols[x].line)
<1> DEFINE symbols == ir.symbols
           k == symbols[x].line
           s == symbols[x].scope
           R == {z \in SymbolRecords : IsSymbol(program, d, z)}
<1>1. DOMAIN program = 1..Len(program)
  BY DEF StackInv
<1>2. symbols \in Seq(R) /\ x \in DOMAIN symbols /\ symbols[x].name = name /\ IsPrefix(s, scope)
  BY DEF SymbolsInv, Tracks, Known
<1> HIDE DEF R, symbols
<1>3. symbols[x] \in R /\ symbols[x].line \in BindingLines(program)
  <2>1. x \in 1..Len(symbols)
    BY <1>2
  <2>2. symbols[x].line \in BindingLines(program)
    BY <2>1 DEF SymbolsInv, Tracks, symbols
  <2>3. symbols[x] \in R
    BY <1>2, <2>1
  <2> QED BY <2>2, <2>3
<1>4. /\ k \in 1..Len(program) /\ program[k].op \in {"def", "bind"} /\ symbols[x].kind = program[k].kind
      /\ name = (IF program[k].op = "def" THEN "state" ELSE program[k].name) /\ Spells(program, Home(program, d, k), s)
  BY <1>2, <1>3 DEF R, IsSymbol, BindingLines
<1> HIDE DEF k, s
<1>5. /\ program[k].op = "def" => Max({0} \cup Home(program, d, k)) = k
      /\ program[k].op # "def" => Max({0} \cup Home(program, d, k)) = ScopeAt(k)
      /\ \A y \in Home(program, d, k) : y \in 1..Len(program) /\ program[y].op \in {"def", "class"}
  BY <1>4, HomeLines
<1>6. /\ Scopes(i) = {0} \cup ScopeLines(program, d, i) /\ ScopeLines(program, d, i) \in SUBSET (1..Len(program))
      /\ \A y \in ScopeLines(program, d, i) : y \in 1..Len(program) /\ program[y].op \in {"def", "class"}
  BY ScopesAreOpen
<1>7. ScopesDiffer(program)
  BY DEF PlainUse, ScopesDiffer
<1>8. /\ Len(s) \in Nat /\ Len(w) \in Nat /\ Len(s) <= Len(w)
      /\ Max({0} \cup Home(program, d, k)) = At(w, Len(s)) /\ At(w, Len(s)) \in {0} \cup ScopeLines(program, d, i)
  BY <1>1, <1>2, <1>4, <1>5, <1>6, <1>7, PrefixesNest
<1>9. k \in Binds(name, At(w, Len(s)))
  <2>1. CASE program[k].op = "def" BY <1>1, <1>4, <1>5, <1>8, <2>1 DEF Binds
  <2>2. CASE program[k].op # "def" BY <1>1, <1>4, <1>5, <1>8, <2>2 DEF Binds
  <2> QED BY <2>1, <2>2
<1> QED BY <1>4, <1>6, <1>8, <1>9 DEF KindBoundAt, k, s, symbols

LEMMA BoundIsKnown ==
    ASSUME NEW d, StackInv(program, opened, d), SymbolsInv(program, d, ir.symbols), NEW i \in 1..Len(program),
           NEW name, PlainUse(name, i), NEW scope \in Seq(Names), NEW w,
           SpelledBy(program, ScopeLines(program, d, i), scope, w),
           NEW b \in Scopes(i), NEW k \in Binds(name, b)
    PROVE  \E x \in Known(ir.symbols, name, scope, i) : ir.symbols[x].line = k /\ At(w, Len(ir.symbols[x].scope)) = b
<1> DEFINE symbols == ir.symbols
           R == {z \in SymbolRecords : IsSymbol(program, d, z)}
           U == ScopeLines(program, d, i)
<1>1. DOMAIN program = 1..Len(program) /\ Levels(program, Len(program), d) /\ Len(program) \in Nat
  BY EnclosingIsOpen DEF StackInv
<1>2. /\ Scopes(i) = {0} \cup U /\ U \in SUBSET (1..Len(program))
      /\ \A y \in U : y \in Nat /\ y < i /\ program[y].op \in {"def", "class"}
  BY ScopesAreOpen
<1>3. /\ k \in 1..Len(program)
      /\ \/ k = b /\ program[k].op = "def" /\ name = "state"
         \/ program[k].op = "bind" /\ program[k].name = name /\ ScopeAt(k) = b
  BY <1>1 DEF Binds
<1>4. k < i
  BY DEF PlainUse
<1>5. k \in BindingLines(program)
  BY <1>3 DEF BindingLines
<1>6. PICK x \in 1..Len(symbols) : symbols[x].line = k
  BY <1>5 DEF SymbolsInv, Tracks
<1>7. symbols \in Seq(R) /\ DOMAIN symbols = 1..Len(symbols)
  BY DEF SymbolsInv, Tracks
<1> HIDE DEF R, U, symbols
<1>8. /\ symbols[x].name = (IF program[k].op = "def" THEN "state" ELSE program[k].name)
      /\ Spells(program, Home(program, d, k), symbols[x].scope)
  <2>1. symbols[x] \in R
    BY <1>6, <1>7
  <2> QED BY <1>6, <2>1 DEF R, IsSymbol
<1>9. /\ program[k].op = "def" => Home(program, d, k) = ScopeLines(program, d, k) \cup {k}
      /\ program[k].op # "def" => Home(program, d, k) = ScopeLines(program, d, k)
  BY <1>3, HomeLines
<1>10. /\ ScopeAt(k) = Max({0} \cup ScopeLines(program, d, k)) /\ ScopeLines(program, d, k) \in SUBSET (1..Len(program))
       /\ \A y \in ScopeLines(program, d, k) : y \in Nat /\ y < k
  BY <1>3, ScopesAreOpen
<1>11. \A y \in U : ScopeLines(program, d, y) = {z \in U : z < y}
  <2>1. SUFFICES ASSUME NEW y \in U PROVE ScopeLines(program, d, y) = {z \in U : z < y}
    OBVIOUS
  <2>2. y \in OpenAt(program, d, i) /\ i \in 1..Len(program) + 1
    BY <1>1 DEF U, ScopeLines
  <2>3. OpenAt(program, d, y) = {z \in OpenAt(program, d, i) : z < y}
    BY <1>1, <2>2, OpenNests
  <2> QED BY <2>3 DEF U, ScopeLines
<1>16. b \in U => UpTo(U, b) = {z \in U : z < b} \cup {b}
  <2>1. SUFFICES ASSUME b \in U PROVE UpTo(U, b) = {z \in U : z < b} \cup {b}
    OBVIOUS
  <2>2. \A y \in U : y <= b <=> y < b \/ y = b
    BY <1>2, <2>1
  <2> QED BY <2>1, <2>2 DEF UpTo
<1>12. Home(program, d, k) = UpTo(U, b)
  <2>1. CASE k = b /\ program[k].op = "def" /\ name = "state"
    <3>1. b \in U /\ b \in Nat
      BY <1>2, <1>3, <2>1
    <3>2. Home(program, d, k) = {z \in U : z < b} \cup {b}
      BY <1>9, <1>11, <2>1, <3>1
    <3> QED BY <1>16, <3>1, <3>2
  <2>2. CASE program[k].op = "bind" /\ program[k].name = name /\ ScopeAt(k) = b
    <3> DEFINE H == ScopeLines(program, d, k)
    <3>1. Home(program, d, k) = H
      BY <1>9, <2>2
    <3>2. {0} \cup H \in SUBSET Nat /\ {0} \cup H # {} /\ k \in Nat /\ \A y \in {0} \cup H : y <= k
      BY <1>3, <1>10
    <3>3. b \in {0} \cup H /\ \A y \in {0} \cup H : y <= b
      <4> HIDE DEF H
      <4>1. b = Max({0} \cup H)
        BY <1>10, <2>2 DEF H
      <4> QED BY <3>2, <4>1, LargestNumber
    <3>4. CASE b = 0
      <4>1. H = {}
        BY <1>10, <3>3, <3>4
      <4>2. UpTo(U, b) = {}
        BY <1>2, <3>4 DEF UpTo
      <4> QED BY <3>1, <4>1, <4>2
    <3>5. CASE b # 0
      <4>1. b \in H /\ b \in U /\ b \in Nat
        BY <1>2, <3>2, <3>3, <3>5
      <4>2. ScopeLines(program, d, b) = {z \in U : z < b}
        BY <1>11, <4>1
      <4>3. ScopeLines(program, d, b) = {z \in H : z < b}
        <5>1. b \in OpenAt(program, d, k) /\ k \in 1..Len(program) + 1
          BY <1>1, <1>3, <4>1 DEF ScopeLines
        <5>2. OpenAt(program, d, b) = {z \in OpenAt(program, d, k) : z < b}
          BY <1>1, <5>1, OpenNests
        <5> QED BY <5>2 DEF ScopeLines
      <4>4. H = {z \in H : z < b} \cup {b}
        BY <3>2, <3>3, <4>1
      <4>5. UpTo(U, b) = {z \in U : z < b} \cup {b}
        BY <1>16, <4>1
      <4> QED BY <3>1, <4>2, <4>3, <4>4, <4>5
    <3> QED BY <3>4, <3>5
  <2> QED BY <1>3, <2>1, <2>2
<1>13. IsPrefix(symbols[x].scope, scope) /\ At(w, Len(symbols[x].scope)) = b
  <2>1. U \in SUBSET Nat /\ b \in {0} \cup U /\ SpelledBy(program, U, scope, w)
    BY <1>2 DEF U
  <2>2. Spells(program, UpTo(U, b), symbols[x].scope)
    BY <1>8, <1>12
  <2> QED BY <2>1, <2>2, NestsArePrefixes, Zenon
<1>14. symbols[x].name = name /\ symbols[x].line <= i
  <2>1. k <= i
    BY <1>3, <1>4
  <2> QED BY <1>3, <1>6, <1>8, <2>1
<1>15. x \in Known(symbols, name, scope, i)
  BY <1>6, <1>7, <1>13, <1>14 DEF Known
<1> QED BY <1>6, <1>13, <1>15 DEF symbols

LEMMA KindFollowsScopes ==
    ASSUME NEW d, StackInv(program, opened, d), SymbolsInv(program, d, ir.symbols), NEW i \in 1..Len(program),
           NEW name, PlainUse(name, i), NEW scope, Spells(program, ScopeLines(program, d, i), scope)
    PROVE  KindOf(ir, name, scope, i) = PythonKind(name, i)
<1> DEFINE symbols == ir.symbols
           known == Known(ir.symbols, name, scope, i)
           U == ScopeLines(program, d, i)
           long(x) == Len(ir.symbols[x].scope)
           line(x) == ir.symbols[x].line
           binding == {s \in Scopes(i) : Binds(name, s) # {}}
           deepest == Max({long(x) : x \in known})
           last == Max({x \in known : long(x) = deepest})
<1>1. PICK w : SpelledBy(program, U, scope, w)
  BY DEF Spells
<1>2. scope \in Seq(Names)
  BY DEF Spells
<1>3. ASSUME NEW x \in known
      PROVE  /\ long(x) \in Nat /\ Len(w) \in Nat /\ long(x) <= Len(w)
             /\ At(w, long(x)) \in Scopes(i) /\ line(x) \in Binds(name, At(w, long(x)))
             /\ symbols[x].kind = KindBoundAt(line(x))
  BY <1>1, <1>2, KnownIsBound
<1>4. ASSUME NEW b \in Scopes(i), NEW k \in Binds(name, b)
      PROVE  \E x \in known : line(x) = k /\ At(w, long(x)) = b
  BY <1>1, <1>2, BoundIsKnown
<1>5. KindOf(ir, name, scope, i) = IF known = {} THEN "" ELSE symbols[last].kind
  BY Zenon DEF KindOf, Known
<1>6. PythonKind(name, i) = IF binding = {} THEN "" ELSE KindBoundAt(Max(Binds(name, Max(binding))))
  BY Zenon DEF PythonKind
<1>7. /\ \A x \in known : x \in 1..Len(symbols)
      /\ \A x, y \in 1..Len(symbols) : x < y => line(x) < line(y)
      /\ \A x \in 1..Len(symbols) : line(x) \in Nat
  <2>1. symbols \in Seq({z \in SymbolRecords : IsSymbol(program, d, z)}) /\ DOMAIN symbols = 1..Len(symbols)
    BY DEF SymbolsInv, Tracks
  <2>2. \A x, y \in 1..Len(symbols) : x < y => line(x) < line(y)
    BY DEF SymbolsInv, Tracks
  <2>3. \A x \in 1..Len(symbols) : line(x) \in BindingLines(program)
    BY DEF SymbolsInv, Tracks
  <2>4. \A k \in BindingLines(program) : k \in Nat
    BY DEF BindingLines
  <2>5. \A x \in known : x \in DOMAIN symbols
    BY DEF Known
  <2> QED BY <2>1, <2>2, <2>3, <2>4, <2>5
<1>8. Ordered(w, U) /\ \A j \in 1..Len(w) : w[j] \in Nat /\ w[j] > 0
  <2>1. Ordered(w, U)
    BY <1>1 DEF SpelledBy
  <2>2. \A j \in 1..Len(w) : w[j] \in U
    BY <2>1 DEF Ordered
  <2>3. U \in SUBSET (1..Len(program))
    BY ScopesAreOpen
  <2>4. \A y \in U : y \in Nat /\ y > 0
    BY <2>3
  <2> QED BY <2>1, <2>2, <2>4
<1>9. Scopes(i) \in SUBSET Nat /\ \A s \in Scopes(i) : s <= i
  <2>1. Scopes(i) = {0} \cup U /\ \A y \in U : y \in Nat /\ y < i
    BY ScopesAreOpen
  <2>2. 0 <= i /\ i \in Nat OBVIOUS
  <2> QED BY <2>1, <2>2
<1>10. \A s \in Scopes(i) : \A k \in Binds(name, s) : k \in Nat /\ k <= i
  <2>1. \A s \in Scopes(i) : \A k \in Binds(name, s) : k < i
    BY DEF PlainUse
  <2>2. DOMAIN program = 1..Len(program)
    BY DEF StackInv
  <2>3. \A s : \A k \in Binds(name, s) : k \in 1..Len(program)
    BY <2>2 DEF Binds
  <2> QED BY <2>1, <2>3
<1> HIDE DEF known, long, line, binding, symbols
<1>11. CASE known = {}
  <2>1. binding = {}
    BY <1>4, <1>11 DEF binding
  <2> QED BY <1>5, <1>6, <1>11, <2>1, Zenon
<1>12. CASE known # {}
  <2> DEFINE s == Max(binding)
             k == Max(Binds(name, s))
  <2>1. \A x \in known : At(w, long(x)) \in binding
    BY <1>3 DEF binding
  <2>2. binding \in SUBSET Nat /\ binding # {} /\ i \in Nat /\ \A y \in binding : y <= i
    <3>1. \A y \in binding : y \in Nat /\ y <= i
      BY <1>9 DEF binding
    <3>2. binding # {}
      BY <1>12, <2>1
    <3> QED BY <3>1, <3>2
  <2>3. s \in binding /\ \A y \in binding : y <= s
    BY <2>2, LargestNumber
  <2> HIDE DEF s
  <2>4. s \in Scopes(i) /\ Binds(name, s) # {}
    BY <2>3 DEF binding
  <2>5. k \in Binds(name, s) /\ \A y \in Binds(name, s) : y <= k
    <3>1. Binds(name, s) \in SUBSET Nat /\ i \in Nat /\ \A y \in Binds(name, s) : y <= i
      BY <1>10, <2>4
    <3> QED BY <2>4, <3>1, LargestNumber
  <2> HIDE DEF k
  <2>6. PICK top \in known : line(top) = k /\ At(w, long(top)) = s
    BY <1>4, <2>4, <2>5
  <2>7. \A x \in known : long(x) <= long(top)
    <3>1. SUFFICES ASSUME NEW x \in known, long(x) > long(top) PROVE FALSE
      BY <1>3
    <3> DEFINE a == long(top)
               c == long(x)
    <3>2. a \in Nat /\ c \in Nat /\ c > a /\ c <= Len(w) /\ Len(w) \in Nat /\ At(w, c) <= At(w, a)
      BY <1>3, <2>1, <2>3, <2>6, <3>1
    <3> HIDE DEF a, c
    <3>3. c \in 1..Len(w) /\ (a = 0 \/ a \in 1..Len(w))
      BY <3>2
    <3>4. a # 0 => w[a] < w[c]
      BY <1>8, <3>2, <3>3 DEF Ordered
    <3>5. w[c] \in Nat /\ w[c] > 0 /\ (a # 0 => w[a] \in Nat)
      BY <1>8, <3>3
    <3> QED BY <3>2, <3>3, <3>4, <3>5 DEF At
  <2>8. deepest = long(top)
    <3>1. /\ {long(x) : x \in known} \in SUBSET Nat /\ long(top) \in {long(x) : x \in known}
          /\ \A y \in {long(x) : x \in known} : y <= long(top)
      BY <1>3, <2>7
    <3> QED BY <3>1, MaxIs
  <2> HIDE DEF deepest
  <2>9. \A x \in known : long(x) = deepest => x <= top
    <3>1. SUFFICES ASSUME NEW x \in known, long(x) = deepest, x > top PROVE FALSE
      BY <1>7
    <3>2. line(x) \in Binds(name, s)
      BY <1>3, <2>6, <2>8, <3>1
    <3>3. line(x) <= line(top)
      BY <2>5, <2>6, <3>2
    <3>4. line(top) < line(x) /\ line(x) \in Nat /\ line(top) \in Nat
      BY <1>7, <3>1
    <3> QED BY <3>3, <3>4
  <2>10. last = top
    <3> DEFINE longest == {x \in known : long(x) = deepest}
    <3>1. longest \in SUBSET Nat /\ top \in longest /\ \A x \in longest : x <= top
      BY <1>7, <2>8, <2>9
    <3> HIDE DEF longest
    <3> QED BY <3>1, MaxIs DEF longest
  <2> HIDE DEF last
  <2>11. symbols[top].kind = KindBoundAt(k)
    BY <1>3, <2>6
  <2>12. KindOf(ir, name, scope, i) = symbols[last].kind
    BY <1>5, <1>12, Zenon
  <2>13. PythonKind(name, i) = KindBoundAt(k)
    BY <1>6, <2>2, Zenon DEF s, k
  <2> QED BY <2>10, <2>11, <2>12, <2>13
<1> QED BY <1>11, <1>12

LEMMA HotspotsAreFound ==
    ASSUME NEW d, WalkFollows(d)
    PROVE  HotspotsFollowScopes
<1> DEFINE checks == ir.membership_checks
           R == {z \in CheckRecords : IsCheck(program, d, z)}
<1>1. /\ StackInv(program, opened, d) /\ SymbolsInv(program, d, ir.symbols) /\ ChecksInv(program, d, checks)
      /\ DOMAIN program = 1..Len(program)
  BY DEF WalkFollows, StackInv
<1>2. /\ checks \in Seq(R) /\ DOMAIN checks = 1..Len(checks)
      /\ \A h \in 1..Len(checks) : checks[h].line \in CheckLines(program, d)
      /\ \A k \in CheckLines(program, d) : \E h \in 1..Len(checks) : checks[h].line = k
  BY <1>1 DEF ChecksInv, Tracks
<1> HIDE DEF checks, R
<1>3. SUFFICES ASSUME NEW i \in 1..Len(program), program[i].op = "in", PlainUse(program[i].name, i)
               PROVE  (\E h \in Hotspots(ir) : checks[h].line = i) <=>
                        /\ \E k \in Enclosing(i) : program[k].op \in {"for", "while", "comp"}
                        /\ PythonKind(program[i].name, i) \in {"list", "tuple"}
  BY <1>1, Zenon DEF HotspotsFollowScopes, checks
<1> DEFINE kind == PythonKind(program[i].name, i)
<1>4. i \in CheckLines(program, d) <=> \E k \in Enclosing(i) : program[k].op \in {"for", "while", "comp"}
  <2>1. Enclosing(i) = OpenAt(program, d, i)
    BY <1>1, EnclosingIsOpen
  <2>2. \A k \in OpenAt(program, d, i) : k \in Nat
    BY DEF OpenAt
  <2>3. Looped(program, d, i) <=> \E k \in Enclosing(i) : program[k].op \in {"for", "while", "comp"}
    BY <2>1, <2>2 DEF Looped, OfKind
  <2> QED BY <1>3, <2>3 DEF CheckLines
<1>5. ASSUME NEW h \in 1..Len(checks), checks[h].line = i
      PROVE  KindOf(ir, checks[h].container, checks[h].scope, checks[h].line) = kind
  <2>1. checks[h] \in R
    BY <1>2
  <2>2. checks[h].container = program[i].name /\ Spells(program, ScopeLines(program, d, i), checks[h].scope)
    BY <1>5, <2>1 DEF R, IsCheck
  <2>3. KindOf(ir, program[i].name, checks[h].scope, i) = kind
    BY <1>1, <1>3, <2>2, KindFollowsScopes
  <2> QED BY <1>5, <2>2, <2>3
<1>6. \A h : h \in Hotspots(ir) <=> /\ h \in DOMAIN checks
                                    /\ KindOf(ir, checks[h].container, checks[h].scope, checks[h].line) \in {"list", "tuple"}
  BY Zenon DEF Hotspots, checks
<1> HIDE DEF kind
<1>7. ASSUME NEW h \in Hotspots(ir), checks[h].line = i PROVE i \in CheckLines(program, d) /\ kind \in {"list", "tuple"}
  <2>1. h \in 1..Len(checks)
    BY <1>2, <1>6
  <2> QED BY <1>2, <1>5, <1>6, <1>7, <2>1
<1>8. ASSUME i \in CheckLines(program, d), kind \in {"list", "tuple"} PROVE \E h \in Hotspots(ir) : checks[h].line = i
  <2>1. PICK h \in 1..Len(checks) : checks[h].line = i
    BY <1>2, <1>8
  <2> QED BY <1>2, <1>5, <1>6, <1>8, <2>1
<1> QED BY <1>4, <1>7, <1>8 DEF kind

\* Invariant AnalysisFollowsScopes: throughout the walk the engines find out of a
\* draft what its nesting and its scopes say (decomposition_engine.py,
\* treesitter_engine.py:80).
THEOREM AnalysisIsFaithful == OperatorsSpec => []AnalysisFollowsScopes
<1>1. WalkInv => AnalysisFollowsScopes
  <2>1. SUFFICES ASSUME WalkInv PROVE AnalysisFollowsScopes
    OBVIOUS
  <2>2. PICK d : WalkFollows(d)
    BY <2>1 DEF WalkInv
  <2>3. LoopDepthsAreNesting /\ HotspotsFollowScopes /\ EnginesAgree
    BY <2>2, DepthsNest, HotspotsAreFound, EnginesSeeTheSame
  <2> QED BY <2>3 DEF AnalysisFollowsScopes
<1> QED BY <1>1, WalksAreRecorded, PTL
-----------------------------------------------------------------------------
(* From findings to a verdict *)

\* s is a sequence, whatever of.
IsSeq(s) == s \in Seq(ToSet(s))

LEMMA SequencesOf ==
    ASSUME NEW S, NEW s \in Seq(S)
    PROVE  IsSeq(s) /\ ToSet(s) \subseteq S /\ ToSet(s) = {s[i] : i \in 1..Len(s)}
<1>1. Len(s) \in Nat /\ DOMAIN s = 1..Len(s) /\ s \in [1..Len(s) -> S] OBVIOUS
<1>2. s \in [1..Len(s) -> ToSet(s)]
  BY <1>1 DEF ToSet
<1>3. s \in Seq(ToSet(s))
  BY <1>1, <1>2
<1> QED BY <1>1, <1>3 DEF ToSet, IsSeq

LEMMA SmallSequences ==
    /\ IsSeq(<<>>) /\ ToSet(<<>>) = {}
    /\ \A x : IsSeq(<<x>>) /\ ToSet(<<x>>) = {x}
<1>1. <<>> \in Seq({}) /\ ToSet(<<>>) = {}
  BY DEF ToSet
<1>2. ASSUME NEW x PROVE <<x>> \in Seq({x}) /\ ToSet(<<x>>) = {x}
  BY DEF ToSet
<1> QED BY <1>1, <1>2 DEF IsSeq

LEMMA JoinedTwo ==
    ASSUME NEW a, NEW b, IsSeq(a), IsSeq(b)
    PROVE  /\ IsSeq(a \o b) /\ ToSet(a \o b) = ToSet(a) \cup ToSet(b)
           /\ a \o b = <<>> <=> a = <<>> /\ b = <<>>
<1> DEFINE A == ToSet(a)
           B == ToSet(b)
           W == A \cup B
<1>1. a \in Seq(A) /\ b \in Seq(B) /\ A \subseteq W /\ B \subseteq W
  BY DEF IsSeq
<1>2. DOMAIN a = 1..Len(a) /\ DOMAIN b = 1..Len(b) /\ Len(a) \in Nat /\ Len(b) \in Nat
  BY <1>1
<1>3. A = {a[i] : i \in 1..Len(a)} /\ B = {b[i] : i \in 1..Len(b)}
  BY <1>2 DEF ToSet
<1> HIDE DEF A, B, W
<1>4. /\ a \o b \in Seq(W) /\ DOMAIN (a \o b) = 1..Len(a) + Len(b)
      /\ \A i \in 1..Len(a) : (a \o b)[i] = a[i]
      /\ \A i \in 1..Len(b) : (a \o b)[Len(a) + i] = b[i]
  <2>1. a \o b \in Seq(W)
    BY <1>1, Concatenation
  <2>2. DOMAIN (a \o b) = 1..Len(a) + Len(b)
    BY <1>1, Concatenation
  <2>3. \A i \in 1..Len(a) : (a \o b)[i] = a[i]
    BY <1>1, Concatenation
  <2>4. \A i \in 1..Len(b) : (a \o b)[Len(a) + i] = b[i]
    BY <1>1, Concatenation
  <2> QED BY <2>1, <2>2, <2>3, <2>4
<1>5. ToSet(a \o b) = W
  <2>1. ToSet(a \o b) \subseteq W
    BY <1>4, SequencesOf
  <2>2. ASSUME NEW i \in 1..Len(a) PROVE a[i] \in ToSet(a \o b)
    <3>1. i \in DOMAIN (a \o b)
      BY <1>2, <1>4
    <3> QED BY <1>4, <3>1 DEF ToSet
  <2>3. ASSUME NEW i \in 1..Len(b) PROVE b[i] \in ToSet(a \o b)
    <3>1. Len(a) + i \in DOMAIN (a \o b)
      BY <1>2, <1>4
    <3> QED BY <1>4, <3>1 DEF ToSet
  <2>4. W \subseteq ToSet(a \o b)
    BY <1>3, <2>2, <2>3 DEF W
  <2> QED BY <2>1, <2>4
<1>6. a \o b = <<>> <=> a = <<>> /\ b = <<>>
  BY <1>1
<1> QED BY <1>4, <1>5, <1>6, SequencesOf DEF W, A, B


\* What the parts hold, the whole holds, and nothing else.
LEMMA JoinedParts ==
    ASSUME NEW S, NEW L \in Nat \ {0}, NEW seqs \in [1..L -> Seq(S)]
    PROVE  /\ FlattenSeq(seqs) \in Seq(S)
           /\ ToSet(FlattenSeq(seqs)) = UNION {ToSet(seqs[k]) : k \in 1..L}
<1> DEFINE w == [k \in Nat |-> IF k + 1 \in 1..L THEN Len(seqs[k + 1]) ELSE 0]
<1>1. \A k \in 1..L : Len(seqs[k]) \in Nat /\ seqs[k] \in Seq(S) /\ DOMAIN seqs[k] = 1..Len(seqs[k])
  OBVIOUS
<1>2. w \in [Nat -> Nat]
  BY <1>1
<1>3. \A k \in 1..L : k - 1 \in Nat /\ w[k - 1] = Len(seqs[k])
  <2>1. SUFFICES ASSUME NEW k \in 1..L PROVE k - 1 \in Nat /\ w[k - 1] = Len(seqs[k])
    OBVIOUS
  <2>2. k - 1 \in Nat /\ (k - 1) + 1 = k OBVIOUS
  <2> QED BY <2>2
<1> HIDE DEF w
<1>4. PICK f \in [Nat -> Nat] : f[0] = 0 /\ \A k \in Nat : f[k + 1] = f[k] + w[k]
  BY <1>2, SumsExist
<1> DEFINE upTo == [k \in 0..L |-> f[k]]
<1>5. upTo \in [0..L -> Nat] /\ upTo[0] = 0 /\ \A k \in 0..L : upTo[k] = f[k] /\ upTo[k] \in Nat
  <2>1. L \in Nat /\ 0 \in 0..L /\ \A k \in 0..L : k \in Nat OBVIOUS
  <2>2. \A k \in 0..L : f[k] \in Nat
    BY <2>1
  <2>3. \A k \in 0..L : upTo[k] = f[k] OBVIOUS
  <2>4. f[0] = 0
    BY <1>4
  <2>5. upTo \in [0..L -> Nat]
    BY <2>2
  <2> HIDE DEF upTo
  <2> QED BY <2>1, <2>2, <2>3, <2>4, <2>5
<1> HIDE DEF upTo
<1>6. ASSUME NEW k \in 1..L PROVE upTo[k] = upTo[k - 1] + Len(seqs[k])
  <2>1. k - 1 \in Nat /\ (k - 1) + 1 = k /\ k \in 0..L /\ k - 1 \in 0..L OBVIOUS
  <2>2. f[k] = f[k - 1] + w[k - 1]
    BY <1>4, <2>1
  <2>3. w[k - 1] = Len(seqs[k])
    BY <1>3
  <2>4. upTo[k] = f[k] /\ upTo[k - 1] = f[k - 1]
    BY <1>5, <2>1
  <2> QED BY <2>2, <2>3, <2>4
<1>7. SumsLengths(upTo, seqs, L, S)
  <2>1. L \in Nat /\ L > 0 OBVIOUS
  <2>2. \A k \in 1..L : upTo[k] = upTo[k - 1] + Len(seqs[k])
    BY <1>6
  <2>3. upTo \in [0..L -> Nat] /\ upTo[0] = 0
    BY <1>5
  <2> QED BY <2>1, <2>2, <2>3, Zenon DEF SumsLengths
<1> DEFINE joined == FlattenSeq(seqs)
<1> HIDE DEF joined
<1>8. joined \in Seq(S) /\ JoinsAt(joined, upTo, seqs, L)
  BY <1>7, Flattened DEF joined
<1>9. /\ Len(joined) = upTo[L]
      /\ \A k \in 1..L : upTo[k] <= upTo[L] /\ \A p \in 1..Len(seqs[k]) : joined[upTo[k - 1] + p] = seqs[k][p]
  BY <1>8 DEF JoinsAt
<1>10. DOMAIN joined = 1..Len(joined) /\ Len(joined) \in Nat
  BY <1>8
<1>11. ASSUME NEW k \in 1..L, NEW x \in ToSet(seqs[k]) PROVE x \in ToSet(joined)
  <2>1. PICK p \in 1..Len(seqs[k]) : x = seqs[k][p]
    BY <1>1 DEF ToSet
  <2>2. /\ upTo[k - 1] \in Nat /\ upTo[k] = upTo[k - 1] + Len(seqs[k]) /\ Len(seqs[k]) \in Nat
        /\ upTo[L] \in Nat /\ upTo[k] <= upTo[L]
    <3>1. k - 1 \in 0..L /\ L \in 0..L OBVIOUS
    <3> QED BY <1>1, <1>5, <1>6, <1>9, <3>1
  <2>3. upTo[k - 1] + p \in DOMAIN joined
    <3>1. p \in Nat /\ 1 <= p /\ p <= Len(seqs[k])
      BY <2>2
    <3>2. upTo[k - 1] + p \in 1..upTo[L]
      <4> DEFINE a == upTo[k - 1]
                 b == upTo[k]
                 c == upTo[L]
                 l == Len(seqs[k])
      <4>1. a \in Nat /\ b = a + l /\ l \in Nat /\ c \in Nat /\ b <= c
        BY <2>2
      <4> HIDE DEF a, b, c, l
      <4>2. a + p \in 1..c
        BY <3>1, <4>1 DEF l
      <4> QED BY <4>2 DEF a, c
    <3> QED BY <1>9, <1>10, <3>2
  <2>4. joined[upTo[k - 1] + p] = x
    BY <1>9, <2>1
  <2> QED BY <2>3, <2>4 DEF ToSet
<1>12. ASSUME NEW x \in ToSet(joined) PROVE \E k \in 1..L : x \in ToSet(seqs[k])
  <2>1. PICK y \in 1..Len(joined) : x = joined[y]
    BY <1>10 DEF ToSet
  <2> DEFINE T == {k \in 1..L : y <= upTo[k]}
             k == Min(T)
  <2>2. T \in SUBSET Nat /\ L \in T
    BY <1>5, <1>9, <2>1
  <2>3. k \in T /\ \A z \in T : k <= z
    <3> HIDE DEF T
    <3> QED BY <2>2, LeastNumber DEF Min
  <2>4. k \in 1..L /\ y <= upTo[k] /\ k \in Nat
    BY <2>3
  <2>5. k - 1 \notin T
    <3> HIDE DEF T, k
    <3>1. k - 1 \in T => k <= k - 1
      BY <2>3
    <3> QED BY <2>4, <3>1
  <2> HIDE DEF k
  <2>6. upTo[k - 1] \in Nat /\ upTo[k] = upTo[k - 1] + Len(seqs[k]) /\ Len(seqs[k]) \in Nat
    <3>1. k - 1 \in 0..L
      BY <2>4
    <3> QED BY <1>1, <1>5, <1>6, <2>4, <3>1
  <2>7. y > upTo[k - 1]
    <3>1. k = 1 \/ k - 1 \in 1..L
      BY <2>4
    <3>2. k = 1 => upTo[k - 1] = 0
      BY <1>5
    <3>3. y \in Nat /\ y >= 1
      BY <1>10, <2>1
    <3>4. k - 1 \in 1..L => ~(y <= upTo[k - 1])
      BY <2>5
    <3> DEFINE a == upTo[k - 1]
    <3>5. a \in Nat /\ (a = 0 \/ ~(y <= a))
      BY <2>6, <3>1, <3>2, <3>4
    <3> HIDE DEF a
    <3>6. y > a
      BY <3>3, <3>5
    <3> QED BY <3>6 DEF a
  <2> HIDE DEF T
  <2>8. y - upTo[k - 1] \in 1..Len(seqs[k]) /\ upTo[k - 1] + (y - upTo[k - 1]) = y
    <3>1. y \in Nat
      BY <1>10
    <3> DEFINE a == upTo[k - 1]
               b == upTo[k]
               l == Len(seqs[k])
    <3>2. a \in Nat /\ b = a + l /\ l \in Nat /\ y <= b /\ y > a
      BY <2>4, <2>6, <2>7
    <3> HIDE DEF a, b, l
    <3>3. y - a \in 1..l /\ a + (y - a) = y
      BY <3>1, <3>2
    <3> QED BY <3>3 DEF a, l
  <2>9. x = seqs[k][y - upTo[k - 1]]
    BY <1>9, <2>1, <2>4, <2>8
  <2>10. x \in ToSet(seqs[k])
    BY <1>1, <2>4, <2>8, <2>9 DEF ToSet
  <2> QED BY <2>4, <2>10
<1> QED
  <2>1. ToSet(joined) = UNION {ToSet(seqs[k]) : k \in 1..L}
    BY <1>11, <1>12
  <2> QED BY <1>8, <2>1 DEF joined

LEMMA JoinedElements ==
    ASSUME NEW L \in Nat, NEW seqs, DOMAIN seqs = 1..L, seqs = [k \in 1..L |-> seqs[k]], \A k \in 1..L : IsSeq(seqs[k])
    PROVE  /\ IsSeq(FlattenSeq(seqs))
           /\ ToSet(FlattenSeq(seqs)) = UNION {ToSet(seqs[k]) : k \in 1..L}
<1> DEFINE P == UNION {ToSet(seqs[k]) : k \in 1..L}
<1>1. CASE L = 0
  <2>1. seqs = <<>> /\ P = {}
    BY <1>1
  <2>2. FlattenSeq(seqs) = <<>>
    BY <2>1 DEF FlattenSeq
  <2> HIDE DEF P
  <2> QED BY <2>1, <2>2, SmallSequences DEF P
<1>2. CASE L # 0
  <2>1. ASSUME NEW k \in 1..L PROVE seqs[k] \in Seq(P)
    <3>1. seqs[k] \in Seq(ToSet(seqs[k])) /\ ToSet(seqs[k]) \subseteq P
      BY DEF IsSeq
    <3> HIDE DEF P
    <3> QED BY <3>1
  <2> HIDE DEF P
  <2>2. seqs \in [1..L -> Seq(P)]
    BY <2>1
  <2>3. FlattenSeq(seqs) \in Seq(P) /\ ToSet(FlattenSeq(seqs)) = UNION {ToSet(seqs[k]) : k \in 1..L}
    BY <1>2, <2>2, JoinedParts, L \in Nat \ {0}
  <2> QED BY <2>3, SequencesOf
<1> QED BY <1>1, <1>2

\* SetToSeq lists every element of a finite set.
LEMMA ListedElements ==
    ASSUME NEW S, IsFiniteSet(S)
    PROVE  SetToSeq(S) \in [1..Cardinality(S) -> S] /\ S = {SetToSeq(S)[i] : i \in 1..Cardinality(S)}
<1> DEFINE n == Cardinality(S)
           f == SetToSeq(S)
<1>1. n \in Nat /\ ExistsBijection(1..n, S)
  BY FS_CardinalityType
<1>2. \E g \in [1..n -> S] : IsInjective(g)
  BY <1>1 DEF ExistsBijection, Bijection, Injection
<1>3. f \in [1..n -> S] /\ IsInjective(f)
  BY <1>2 DEF SetToSeq
<1> HIDE DEF f
<1>4. f \in Injection(1..n, S)
  BY <1>3 DEF Injection
<1>5. IsFiniteSet(1..n) /\ Cardinality(1..n) = n
  BY <1>1, FS_Interval
<1>6. f \in Surjection(1..n, S)
  BY <1>4, <1>5, FS_Injection
<1> QED BY <1>3, <1>6 DEF Surjection, f

\* A sequence is empty when it holds nothing.
LEMMA NothingHeld ==
    ASSUME NEW s, IsSeq(s)
    PROVE  s = <<>> <=> ToSet(s) = {}
<1>1. s \in Seq(ToSet(s))
  BY DEF IsSeq
<1>2. ToSet(s) = {} => s = <<>>
  <2>1. SUFFICES ASSUME ToSet(s) = {}, Len(s) # 0 PROVE FALSE
    BY <1>1
  <2>2. 1 \in DOMAIN s
    BY <1>1, <2>1
  <2> QED BY <2>1, <2>2 DEF ToSet
<1> QED BY <1>2, SmallSequences

\* Whether a finding is a violation, and which one.
Refuses(f, policy, verified) ==
    /\ ViolationKind(f, policy) # "" /\ ~Allows(policy, ViolationKind(f, policy))
    /\ ~IsDemoted(ViolationKind(f, policy), policy, verified)
Refusal(f, policy) ==
    Violation(f, ViolationKind(f, policy), IF ViolationKind(f, policy) = "lint_skipped" THEN "High" ELSE f.severity)

\* The violations and advisories of a verdict are those of its findings.
LEMMA VerdictsAreOfFindings ==
    ASSUME NEW findings, IsSeq(findings), NEW policy, NEW verified
    PROVE  LET verdict == ValidateFindings(findings, policy, verified)
               refused == {f \in ToSet(findings) : Refuses(f, policy, verified)}
           IN /\ ToSet(verdict.violations) = {Refusal(f, policy) : f \in refused}
              /\ KindsOf(verdict) = {ViolationKind(f, policy) : f \in refused}
              /\ verdict.is_compliant <=> refused = {}
              /\ verdict.is_compliant = (verdict.violations = <<>>)
<1> DEFINE parts == [i \in DOMAIN findings |-> ViolationsOf(findings[i], policy, verified)]
           refused == {f \in ToSet(findings) : Refuses(f, policy, verified)}
           verdict == ValidateFindings(findings, policy, verified)
           V == FlattenSeq(parts)
           n == Len(findings)
<1>1. n \in Nat /\ DOMAIN findings = 1..n /\ ToSet(findings) = {findings[i] : i \in 1..n}
  <2>1. findings \in Seq(ToSet(findings))
    BY DEF IsSeq
  <2>2. n \in Nat /\ DOMAIN findings = 1..n
    <3> HIDE DEF n
    <3> QED BY <2>1 DEF n
  <2> QED BY <2>2 DEF ToSet
<1>2. verdict.violations = V /\ verdict.is_compliant = (V = <<>>)
  BY DEF ValidateFindings
<1>3. ASSUME NEW f
      PROVE  /\ IsSeq(ViolationsOf(f, policy, verified))
             /\ ToSet(ViolationsOf(f, policy, verified)) = IF Refuses(f, policy, verified) THEN {Refusal(f, policy)} ELSE {}
  <2>1. ViolationsOf(f, policy, verified) = IF Refuses(f, policy, verified) THEN <<Refusal(f, policy)>> ELSE <<>>
    BY Zenon DEF ViolationsOf, Refuses, Refusal
  <2> QED BY <2>1, SmallSequences
<1> HIDE DEF n
<1>4. IsSeq(V) /\ ToSet(V) = UNION {ToSet(parts[k]) : k \in 1..n}
  <2>1. DOMAIN parts = 1..n /\ parts = [k \in 1..n |-> parts[k]] /\ \A k \in 1..n : IsSeq(parts[k])
    BY <1>1, <1>3
  <2> HIDE DEF parts
  <2> QED BY <1>1, <2>1, JoinedElements
<1>5. ToSet(V) = {Refusal(f, policy) : f \in refused}
  <2>1. \A k \in 1..n : ToSet(parts[k]) = IF Refuses(findings[k], policy, verified) THEN {Refusal(findings[k], policy)} ELSE {}
    BY <1>1, <1>3
  <2> HIDE DEF parts, V
  <2>2. ASSUME NEW v \in ToSet(V) PROVE \E f \in refused : v = Refusal(f, policy)
    <3>1. PICK k \in 1..n : v \in ToSet(parts[k])
      BY <1>4
    <3>2. Refuses(findings[k], policy, verified) /\ v = Refusal(findings[k], policy) /\ findings[k] \in ToSet(findings)
      <4>1. ToSet(parts[k]) = IF Refuses(findings[k], policy, verified) THEN {Refusal(findings[k], policy)} ELSE {}
        BY <2>1
      <4>2. findings[k] \in ToSet(findings)
        BY <1>1
      <4>3. CASE Refuses(findings[k], policy, verified) BY <3>1, <4>1, <4>2, <4>3, Zenon
      <4>4. CASE ~Refuses(findings[k], policy, verified) BY <3>1, <4>1, <4>4, Zenon
      <4> QED BY <4>3, <4>4
    <3> QED BY <3>2
  <2>3. ASSUME NEW f \in refused PROVE Refusal(f, policy) \in ToSet(V)
    <3>1. PICK k \in 1..n : f = findings[k]
      BY <1>1
    <3>2. Refusal(f, policy) \in ToSet(parts[k])
      BY <2>1, <3>1
    <3> QED BY <1>4, <3>2
  <2> HIDE DEF refused
  <2> QED BY <2>2, <2>3
<1> HIDE DEF V, verdict, refused
<1>6. KindsOf(verdict) = {v.kind : v \in ToSet(V)}
  BY <1>2 DEF KindsOf, ToSet
<1>7. \A f : Refusal(f, policy).kind = ViolationKind(f, policy)
  BY DEF Refusal, Violation
<1>8. KindsOf(verdict) = {ViolationKind(f, policy) : f \in refused}
  BY <1>5, <1>6, <1>7
<1>9. V = <<>> <=> refused = {}
  BY <1>4, <1>5, NothingHeld
<1> QED BY <1>2, <1>5, <1>8, <1>9 DEF verdict, refused

HazardIfHolds(condition, code) == IF condition THEN {Finding("hazards", code, "High", 0, 0)} ELSE {}
NoHazard == Finding("hazards", "none", "Low", 0, 0)

\* What the hazards of a draft are, besides the report that there are none.
HazardsOf(globals, external, containers, subscripts, unknown, risks, enforcementOf) ==
    {Finding("hazards", "global", "High", i, 0) : i \in 1..Cardinality(globals)}
    \cup HazardIfHolds(external # {}, "external") \cup HazardIfHolds(containers # {}, "container")
    \cup HazardIfHolds(subscripts # {}, "subscript") \cup HazardIfHolds(unknown # {}, "unknown_api")
    \cup {RiskFinding(r, enforcementOf[r]) : r \in risks}

LEMMA ListOf ==
    ASSUME NEW n \in Nat, NEW f, f = [i \in 1..n |-> f[i]]
    PROVE  IsSeq(f) /\ ToSet(f) = {f[i] : i \in 1..n}
<1> DEFINE S == {f[i] : i \in 1..n}
<1>1. DOMAIN f = 1..n OBVIOUS
<1>2. f \in [1..n -> S] OBVIOUS
<1>3. f \in Seq(S)
  BY <1>2
<1> QED BY <1>1, <1>3, SequencesOf DEF ToSet

LEMMA HazardsAreReported ==
    ASSUME NEW globals, NEW external, NEW containers, NEW subscripts, NEW unknown, NEW risks, NEW enforcementOf,
           IsFiniteSet(globals), IsFiniteSet(risks)
    PROVE  LET reported == HazardFindings(globals, external, containers, subscripts, unknown, risks, enforcementOf)
           IN /\ IsSeq(reported)
              /\ ToSet(reported) \cup {NoHazard} =
                   HazardsOf(globals, external, containers, subscripts, unknown, risks, enforcementOf) \cup {NoHazard}
<1> DEFINE g == [i \in 1..Cardinality(globals) |-> Finding("hazards", "global", "High", i, 0)]
           r == [i \in 1..Cardinality(risks) |-> RiskFinding(SetToSeq(risks)[i], enforcementOf[SetToSeq(risks)[i]])]
           a == HazardIf(external # {}, "external")
           b == HazardIf(containers # {}, "container")
           c == HazardIf(subscripts # {}, "subscript")
           u == HazardIf(unknown # {}, "unknown_api")
           found == g \o a \o b \o c \o u \o r
           H == HazardsOf(globals, external, containers, subscripts, unknown, risks, enforcementOf)
           reported == HazardFindings(globals, external, containers, subscripts, unknown, risks, enforcementOf)
<1>1. Cardinality(globals) \in Nat /\ Cardinality(risks) \in Nat
  BY FS_CardinalityType
<1>2. IsSeq(g) /\ ToSet(g) = {Finding("hazards", "global", "High", i, 0) : i \in 1..Cardinality(globals)}
  <2>1. g = [i \in 1..Cardinality(globals) |-> g[i]] /\ \A i \in 1..Cardinality(globals) : g[i] = Finding("hazards", "global", "High", i, 0)
    OBVIOUS
  <2> HIDE DEF g
  <2>2. IsSeq(g) /\ ToSet(g) = {g[i] : i \in 1..Cardinality(globals)}
    BY <1>1, <2>1, ListOf
  <2> QED BY <2>1, <2>2
<1>3. IsSeq(r) /\ ToSet(r) = {RiskFinding(x, enforcementOf[x]) : x \in risks}
  <2>1. r = [i \in 1..Cardinality(risks) |-> r[i]]
        /\ \A i \in 1..Cardinality(risks) : r[i] = RiskFinding(SetToSeq(risks)[i], enforcementOf[SetToSeq(risks)[i]])
    OBVIOUS
  <2> HIDE DEF r
  <2>2. IsSeq(r) /\ ToSet(r) = {r[i] : i \in 1..Cardinality(risks)}
    BY <1>1, <2>1, ListOf
  <2>3. risks = {SetToSeq(risks)[i] : i \in 1..Cardinality(risks)}
    BY ListedElements
  <2> DEFINE l == SetToSeq(risks)
  <2> HIDE DEF l
  <2>4. ToSet(r) = {RiskFinding(l[i], enforcementOf[l[i]]) : i \in 1..Cardinality(risks)}
    BY <2>1, <2>2 DEF l
  <2>5. risks = {l[i] : i \in 1..Cardinality(risks)}
    BY <2>3 DEF l
  <2> DEFINE of(x) == RiskFinding(x, enforcementOf[x])
  <2>6. ToSet(r) = {of(l[i]) : i \in 1..Cardinality(risks)}
    BY <2>4
  <2> HIDE DEF of
  <2>7. ToSet(r) = {of(x) : x \in risks}
    <3>1. \A x \in risks : \E i \in 1..Cardinality(risks) : x = l[i]
      BY <2>5
    <3>2. \A i \in 1..Cardinality(risks) : l[i] \in risks
      BY <2>5
    <3> QED BY <2>6, <3>1, <3>2
  <2> QED BY <2>2, <2>7 DEF of
<1>4. \A x, y : IsSeq(HazardIf(x, y)) /\ ToSet(HazardIf(x, y)) = HazardIfHolds(x, y)
  <2>1. SUFFICES ASSUME NEW x, NEW y PROVE IsSeq(HazardIf(x, y)) /\ ToSet(HazardIf(x, y)) = HazardIfHolds(x, y)
    OBVIOUS
  <2> QED BY SmallSequences DEF HazardIf, HazardIfHolds
<1>5. reported = IF found = <<>> THEN <<NoHazard>> ELSE found
  BY DEF HazardFindings, NoHazard
<1> HIDE DEF g, a, b, c, u, r, found, reported
<1>6. IsSeq(found) /\ ToSet(found) = H
  <2>1. IsSeq(g \o a) /\ ToSet(g \o a) = ToSet(g) \cup ToSet(a)
    BY <1>2, <1>4, JoinedTwo DEF a
  <2>2. IsSeq(g \o a \o b) /\ ToSet(g \o a \o b) = ToSet(g) \cup ToSet(a) \cup ToSet(b)
    BY <2>1, <1>4, JoinedTwo DEF b
  <2>3. IsSeq(g \o a \o b \o c) /\ ToSet(g \o a \o b \o c) = ToSet(g) \cup ToSet(a) \cup ToSet(b) \cup ToSet(c)
    BY <2>2, <1>4, JoinedTwo DEF c
  <2>4. IsSeq(g \o a \o b \o c \o u)
        /\ ToSet(g \o a \o b \o c \o u) = ToSet(g) \cup ToSet(a) \cup ToSet(b) \cup ToSet(c) \cup ToSet(u)
    BY <2>3, <1>4, JoinedTwo DEF u
  <2>5. IsSeq(found) /\ ToSet(found) = ToSet(g) \cup ToSet(a) \cup ToSet(b) \cup ToSet(c) \cup ToSet(u) \cup ToSet(r)
    BY <2>4, <1>3, JoinedTwo DEF found
  <2> QED
    <3>1. /\ ToSet(a) = HazardIfHolds(external # {}, "external") /\ ToSet(b) = HazardIfHolds(containers # {}, "container")
          /\ ToSet(c) = HazardIfHolds(subscripts # {}, "subscript") /\ ToSet(u) = HazardIfHolds(unknown # {}, "unknown_api")
      BY <1>4 DEF a, b, c, u
    <3> QED BY <1>2, <1>3, <2>5, <3>1, Zenon DEF HazardsOf
<1>7. CASE found = <<>>
  <2>1. H = {}
    BY <1>6, <1>7, NothingHeld
  <2>2. reported = <<NoHazard>>
    BY <1>5, <1>7
  <2> HIDE DEF H
  <2> QED BY <2>1, <2>2, SmallSequences DEF reported, H
<1>8. CASE found # <<>>
  <2>1. reported = found
    BY <1>5, <1>8
  <2> QED BY <1>6, <2>1 DEF reported
<1> QED BY <1>7, <1>8

\* The policy of a draft whose examples pass, and what it calls a finding.
Strict == [DefaultPolicy EXCEPT !.demote = TRUE]
OtherEngines == {"math", "branching", "cost", "bounds", "state_flow"}
OtherKinds == {"", "loop_depth", "cyclomatic_complexity", "algorithmic_cost", "bounds_risk", "state_flow_risk"}
HazardKindsOf == {"import_risk_block", "unknown_api", "external_dependency", "module_state_mutation"}

LEMMA StrictRefuses ==
    ASSUME NEW f, ViolationKind(f, Strict) \in HazardKindsOf
    PROVE  Refuses(f, Strict, TRUE)
<1>1. Strict.allowed = {"bounds_risk", "import_risk_advisory"}
  BY DEF Strict, DefaultPolicy
<1>2. HazardKindsOf \cap ({""} \cup Strict.allowed \cup {"unsafe_calls"} \cup StructuralQualityKinds) = {}
  BY <1>1 DEF HazardKindsOf, StructuralQualityKinds
<1>3. "unsafe_calls" \notin Strict.allowed
  BY <1>1
<1> HIDE DEF Strict
<1> QED BY <1>2, <1>3 DEF Refuses, Allows, IsDemoted

LEMMA KindsOfFindings ==
    /\ \A f : f.engine \in OtherEngines => ViolationKind(f, Strict) \in OtherKinds
    /\ ViolationKind(NoHazard, Strict) = ""
    /\ \A i : ViolationKind(Finding("hazards", "global", "High", i, 0), Strict) = "global_mutation"
    /\ ViolationKind(Finding("hazards", "external", "High", 0, 0), Strict) = "external_dependency"
    /\ ViolationKind(Finding("hazards", "container", "High", 0, 0), Strict) = "module_state_mutation"
    /\ ViolationKind(Finding("hazards", "subscript", "High", 0, 0), Strict) = "module_state_mutation"
    /\ ViolationKind(Finding("hazards", "unknown_api", "High", 0, 0), Strict) = "unknown_api"
    /\ \A c, e : /\ ViolationKind(RiskFinding(c, e), Strict) = RiskKind(RiskFinding(c, e))
                 /\ e = "hard_block" => RiskKind(RiskFinding(c, e)) = "import_risk_block"
                 /\ e = "advisory" => RiskKind(RiskFinding(c, e)) = "import_risk_advisory"
<1>1. ASSUME NEW f, f.engine \in OtherEngines PROVE ViolationKind(f, Strict) \in OtherKinds
  <2>1. ~IsRisk(f)
    BY <1>1 DEF OtherEngines, IsRisk
  <2>2. KindOfFinding(f, Strict) \in OtherKinds
    BY <1>1 DEF KindOfFinding, OtherEngines, OtherKinds
  <2> QED BY <2>1, <2>2 DEF ViolationKind
<1>2. ASSUME NEW code, NEW s, NEW v, NEW l
      PROVE  LET kind == ViolationKind(Finding("hazards", code, s, v, l), Strict)
             IN /\ code = "none" => kind = ""
                /\ code = "global" => kind = "global_mutation"
                /\ code = "external" => kind = "external_dependency"
                /\ code \in {"container", "subscript"} => kind = "module_state_mutation"
                /\ code = "unknown_api" => kind = "unknown_api"
  <2> DEFINE f == Finding("hazards", code, s, v, l)
  <2>1. f.engine = "hazards" /\ f.code = code
    BY DEF Finding
  <2> HIDE DEF f
  <2>2. code \in {"none", "global", "external", "container", "subscript", "unknown_api"}
          => ViolationKind(f, Strict) = KindOfFinding(f, Strict)
    BY <2>1 DEF ViolationKind, IsRisk
  <2>3. /\ code = "none" => KindOfFinding(f, Strict) = ""
        /\ code = "global" => KindOfFinding(f, Strict) = "global_mutation"
        /\ code = "external" => KindOfFinding(f, Strict) = "external_dependency"
        /\ code \in {"container", "subscript"} => KindOfFinding(f, Strict) = "module_state_mutation"
        /\ code = "unknown_api" => KindOfFinding(f, Strict) = "unknown_api"
    BY <2>1 DEF KindOfFinding
  <2> QED BY <2>2, <2>3 DEF f
<1>4. ViolationKind(NoHazard, Strict) = ""
  BY <1>2, Zenon DEF NoHazard
<1>5. ASSUME NEW i PROVE ViolationKind(Finding("hazards", "global", "High", i, 0), Strict) = "global_mutation"
  BY <1>2, Zenon
<1>6. ViolationKind(Finding("hazards", "external", "High", 0, 0), Strict) = "external_dependency"
  BY <1>2, Zenon
<1>7. ViolationKind(Finding("hazards", "container", "High", 0, 0), Strict) = "module_state_mutation"
  BY <1>2, "container" \in {"container", "subscript"}, Zenon
<1>8. ViolationKind(Finding("hazards", "subscript", "High", 0, 0), Strict) = "module_state_mutation"
  BY <1>2, "subscript" \in {"container", "subscript"}, Zenon
<1>9. ViolationKind(Finding("hazards", "unknown_api", "High", 0, 0), Strict) = "unknown_api"
  BY <1>2, Zenon
<1>10. ASSUME NEW c, NEW e
       PROVE  /\ ViolationKind(RiskFinding(c, e), Strict) = RiskKind(RiskFinding(c, e))
              /\ e = "hard_block" => RiskKind(RiskFinding(c, e)) = "import_risk_block"
              /\ e = "advisory" => RiskKind(RiskFinding(c, e)) = "import_risk_advisory"
  <2>1. /\ RiskFinding(c, e).engine = "hazards" /\ RiskFinding(c, e).code = "import_risk"
        /\ RiskFinding(c, e).enforcement = e
    BY DEF RiskFinding, Finding
  <2>2. IsRisk(RiskFinding(c, e))
    BY <2>1 DEF IsRisk
  <2>3. e # "" => RiskEnforcement(RiskFinding(c, e)) = e
    BY <2>1 DEF RiskEnforcement
  <2> QED BY <2>2, <2>3 DEF ViolationKind, RiskKind
<1> QED BY <1>1, <1>4, <1>5, <1>6, <1>7, <1>8, <1>9, <1>10, Zenon

\* Findings that are those of these hazards, and of engines that know no hazards.
AreFindings(findings, others, globals, external, containers, subscripts, unknown, risks, enforcementOf) ==
    /\ IsSeq(findings) /\ \A f \in others : f.engine \in OtherEngines
    /\ \A r \in risks : enforcementOf[r] \in {"hard_block", "advisory"}
    /\ ToSet(findings) \cup {NoHazard} =
         HazardsOf(globals, external, containers, subscripts, unknown, risks, enforcementOf) \cup others \cup {NoHazard}

\* Each kind of refusal is for its own kind of hazard.
AreRefused(kinds, external, containers, subscripts, unknown, risks, enforcementOf) ==
    /\ "import_risk_block" \in kinds <=> \E r \in risks : enforcementOf[r] = "hard_block"
    /\ "unknown_api" \in kinds <=> unknown # {}
    /\ "external_dependency" \in kinds <=> external # {}
    /\ "module_state_mutation" \in kinds <=> containers # {} \/ subscripts # {}

LEMMA HazardsAreJudged ==
    ASSUME NEW findings, NEW others, NEW globals, NEW external, NEW containers, NEW subscripts, NEW unknown,
           NEW risks, NEW enforcementOf,
           AreFindings(findings, others, globals, external, containers, subscripts, unknown, risks, enforcementOf),
           NEW kinds, kinds = KindsOf(ValidateFindings(findings, Strict, TRUE))
    PROVE  AreRefused(kinds, external, containers, subscripts, unknown, risks, enforcementOf)
<1> DEFINE H == HazardsOf(globals, external, containers, subscripts, unknown, risks, enforcementOf)
<1>0. /\ IsSeq(findings) /\ \A f \in others : f.engine \in OtherEngines
      /\ \A r \in risks : enforcementOf[r] \in {"hard_block", "advisory"}
      /\ ToSet(findings) \cup {NoHazard} = H \cup others \cup {NoHazard}
  BY Zenon DEF AreFindings
<1>1. \A k \in HazardKindsOf : k \in kinds <=> \E f \in ToSet(findings) : ViolationKind(f, Strict) = k
  <2>1. kinds = {ViolationKind(f, Strict) : f \in {f \in ToSet(findings) : Refuses(f, Strict, TRUE)}}
    BY <1>0, VerdictsAreOfFindings
  <2>2. \A f : ViolationKind(f, Strict) \in HazardKindsOf => Refuses(f, Strict, TRUE)
    BY StrictRefuses
  <2> QED BY <2>1, <2>2
<1>2. \A k \in HazardKindsOf : k \in kinds <=> \E f \in H : ViolationKind(f, Strict) = k
  <2> HIDE DEF H
  <2>1. SUFFICES ASSUME NEW k \in HazardKindsOf
                 PROVE  (\E f \in ToSet(findings) : ViolationKind(f, Strict) = k) <=> (\E f \in H : ViolationKind(f, Strict) = k)
    BY <1>1
  <2>2. k \notin OtherKinds
    BY DEF HazardKindsOf, OtherKinds
  <2>3. ViolationKind(NoHazard, Strict) # k
    BY <2>2, KindsOfFindings DEF OtherKinds
  <2>4. \A f \in others : ViolationKind(f, Strict) # k
    BY <1>0, <2>2, KindsOfFindings
  <2>5. ToSet(findings) \cup {NoHazard} = H \cup others \cup {NoHazard}
    BY <1>0 DEF H
  <2> QED BY <2>3, <2>4, <2>5
<1> DEFINE G == {Finding("hazards", "global", "High", i, 0) : i \in 1..Cardinality(globals)}
           R == {RiskFinding(r, enforcementOf[r]) : r \in risks}
           X == HazardIfHolds(external # {}, "external")
           C == HazardIfHolds(containers # {}, "container")
           S == HazardIfHolds(subscripts # {}, "subscript")
           U == HazardIfHolds(unknown # {}, "unknown_api")
           kind(f) == ViolationKind(f, Strict)
<1>4. H = G \cup X \cup C \cup S \cup U \cup R
  BY Zenon DEF HazardsOf
<1>5. \A f \in G : kind(f) = "global_mutation"
  BY KindsOfFindings
<1>6. ASSUME NEW r \in risks
      PROVE  kind(RiskFinding(r, enforcementOf[r])) =
               IF enforcementOf[r] = "hard_block" THEN "import_risk_block" ELSE "import_risk_advisory"
  <2> DEFINE e == enforcementOf[r]
  <2>1. e \in {"hard_block", "advisory"}
    BY <1>0
  <2>2. /\ kind(RiskFinding(r, e)) = RiskKind(RiskFinding(r, e))
        /\ e = "hard_block" => RiskKind(RiskFinding(r, e)) = "import_risk_block"
        /\ e = "advisory" => RiskKind(RiskFinding(r, e)) = "import_risk_advisory"
    BY KindsOfFindings, Zenon
  <2> HIDE DEF e, kind
  <2>3. kind(RiskFinding(r, e)) = IF e = "hard_block" THEN "import_risk_block" ELSE "import_risk_advisory"
    BY <2>1, <2>2
  <2> QED BY <2>3 DEF e
<1>7. \A f \in R : kind(f) \in {"import_risk_block", "import_risk_advisory"}
  <2>1. \A f \in R : \E r \in risks : f = RiskFinding(r, enforcementOf[r])
    OBVIOUS
  <2> HIDE DEF R, kind
  <2> QED BY <1>6, <2>1
<1>8. (\E f \in R : kind(f) = "import_risk_block") <=> \E r \in risks : enforcementOf[r] = "hard_block"
  <2>1. \A f \in R : \E r \in risks : f = RiskFinding(r, enforcementOf[r])
    OBVIOUS
  <2>2. \A r \in risks : RiskFinding(r, enforcementOf[r]) \in R OBVIOUS
  <2> HIDE DEF R, kind
  <2> QED BY <1>6, <2>1, <2>2
<1>9. /\ \A f \in X : kind(f) = "external_dependency"
      /\ \A f \in C \cup S : kind(f) = "module_state_mutation"
      /\ \A f \in U : kind(f) = "unknown_api"
      /\ X # {} <=> external # {}
      /\ C # {} <=> containers # {}
      /\ S # {} <=> subscripts # {}
      /\ U # {} <=> unknown # {}
  <2>1. /\ X # {} <=> external # {}
        /\ C # {} <=> containers # {}
        /\ S # {} <=> subscripts # {}
        /\ U # {} <=> unknown # {}
    BY DEF HazardIfHolds
  <2>2. /\ \A f \in X : f = Finding("hazards", "external", "High", 0, 0)
        /\ \A f \in C : f = Finding("hazards", "container", "High", 0, 0)
        /\ \A f \in S : f = Finding("hazards", "subscript", "High", 0, 0)
        /\ \A f \in U : f = Finding("hazards", "unknown_api", "High", 0, 0)
    BY DEF HazardIfHolds
  <2> HIDE DEF X, C, S, U
  <2>3. \A f \in X : kind(f) = "external_dependency"
    BY <2>2, KindsOfFindings, Zenon
  <2>4. \A f \in C \cup S : kind(f) = "module_state_mutation"
    BY <2>2, KindsOfFindings, Zenon
  <2>5. \A f \in U : kind(f) = "unknown_api"
    BY <2>2, KindsOfFindings, Zenon
  <2> QED BY <2>1, <2>3, <2>4, <2>5
<1>14. \A k \in HazardKindsOf : k \in kinds <=> \E f \in H : kind(f) = k
  BY <1>2
<1> HIDE DEF H, G, R, X, C, S, U, kind
<1>10. "import_risk_block" \in kinds <=> \E r \in risks : enforcementOf[r] = "hard_block"
  BY <1>14, <1>4, <1>5, <1>8, <1>9 DEF HazardKindsOf
<1>11. "unknown_api" \in kinds <=> unknown # {}
  BY <1>14, <1>4, <1>5, <1>7, <1>9 DEF HazardKindsOf
<1>12. "external_dependency" \in kinds <=> external # {}
  BY <1>14, <1>4, <1>5, <1>7, <1>9 DEF HazardKindsOf
<1>13. "module_state_mutation" \in kinds <=> containers # {} \/ subscripts # {}
  BY <1>14, <1>4, <1>5, <1>7, <1>9 DEF HazardKindsOf
<1> QED BY <1>10, <1>11, <1>12, <1>13 DEF AreRefused

LEMMA FourInSequence ==
    ASSUME NEW a, NEW b, NEW c, NEW e
    PROVE  IsSeq(<<a, b, c, e>>) /\ ToSet(<<a, b, c, e>>) = {a, b, c, e}
<1>1. <<a, b, c, e>> \in Seq({a, b, c, e}) OBVIOUS
<1>3. ToSet(<<a, b, c, e>>) = {a, b, c, e}
  <2> DEFINE s == <<a, b, c, e>>
  <2>1. 1..4 = {1, 2, 3, 4} OBVIOUS
  <2>2. s[1] = a /\ s[2] = b /\ s[3] = c /\ s[4] = e /\ DOMAIN s = 1..4 OBVIOUS
  <2> HIDE DEF s
  <2>3. ToSet(s) = {s[i] : i \in {1, 2, 3, 4}}
    BY <2>1, <2>2 DEF ToSet
  <2>4. {s[i] : i \in {1, 2, 3, 4}} = {s[1], s[2], s[3], s[4]} OBVIOUS
  <2>5. ToSet(s) = {a, b, c, e}
    BY <2>2, <2>3, <2>4
  <2> QED BY <2>5 DEF s
<1> QED BY <1>1, <1>3 DEF IsSeq

LEMMA EnginesAreNamed ==
    /\ \A depth, line : MathFinding(depth, line).engine = "math"
    /\ \A complexity : BranchingFinding(complexity).engine = "branching"
    /\ \A lines : /\ CostFinding(lines).engine = "cost" /\ BoundsFinding(lines).engine = "bounds"
                  /\ StateFlowFinding(lines).engine = "state_flow"
<1>1. ASSUME NEW e, NEW k, NEW v, NEW n, NEW l PROVE Finding(e, k, v, n, l).engine = e
  BY DEF Finding
<1>2. ASSUME NEW e, NEW k, NEW v, NEW l PROVE LinesFinding(e, k, v, l).engine = e
  <2>1. CASE l = {} BY <1>1, <2>1 DEF LinesFinding
  <2>2. CASE l # {} BY <1>1, <2>2 DEF LinesFinding
  <2> QED BY <2>1, <2>2
<1>3. ASSUME NEW depth, NEW line PROVE MathFinding(depth, line).engine = "math"
  BY <1>1 DEF MathFinding
<1>4. ASSUME NEW complexity PROVE BranchingFinding(complexity).engine = "branching"
  BY <1>1 DEF BranchingFinding
<1>5. ASSUME NEW lines
      PROVE  /\ CostFinding(lines).engine = "cost" /\ BoundsFinding(lines).engine = "bounds"
             /\ StateFlowFinding(lines).engine = "state_flow"
  BY <1>2 DEF CostFinding, BoundsFinding, StateFlowFinding
<1> QED BY <1>3, <1>4, <1>5

\* The verdict on a draft as far as its hazards go, whatever the rules are.
LEMMA WalksAreJudged ==
    ASSUME IsFiniteSet(ir.explicit_globals), IsFiniteSet(DOMAIN RiskRules),
           \A c \in DOMAIN RiskRules : RiskRules[c].enforcement \in {"hard_block", "advisory"}
    PROVE  LET judged(findings) == KindsOf(ValidateFindings(findings, Strict, TRUE))
               kinds == judged(WalkFindings)
               blocked == \E c \in Risks : RiskRules[c].enforcement = "hard_block"
           IN /\ "import_risk_block" \in kinds <=> blocked
              /\ "import_risk_block" \in judged(TreeSitterHazardFindings(Risks, Enforcements)) <=> blocked
              /\ "unknown_api" \in kinds <=> UnknownApiCalls(ir.imports, ir.calls) # {}
              /\ "external_dependency" \in kinds <=> ExternalImports(ir.imports) # {}
              /\ "module_state_mutation" \in kinds <=> CalledStates # {} \/ StoredStates # {}
<1> DEFINE kinds == KindsOf(ValidateFindings(WalkFindings, Strict, TRUE))
           others == KindsOf(ValidateFindings(TreeSitterHazardFindings(Risks, Enforcements), Strict, TRUE))
           blocked == \E c \in Risks : RiskRules[c].enforcement = "hard_block"
           g == ir.explicit_globals
           x == ExternalImports(ir.imports)
           c == CalledStates
           s == StoredStates
           u == UnknownApiCalls(ir.imports, ir.calls)
           M == MathFinding(MaxLoopDepth(ir), 0)
           B == BranchingFinding(BlockingComplexity(ir))
           C == CostFinding({ir.membership_checks[h].line : h \in Hotspots(ir)})
           L == BoundsFinding(ir.bounds_risks)
           S == StateFlowFinding(ir.state_flow_risks)
           R == HazardFindings(g, x, c, s, u, Risks, Enforcements)
           W == <<M>> \o R \o <<B, C, L, S>>
<1>1. Risks \subseteq DOMAIN RiskRules
  BY DEF Risks, RiskCategories, ImportHits, CallHits
<1>2. IsFiniteSet(Risks)
  BY <1>1, FS_Subset
<1>3. \A r \in Risks : Enforcements[r] = RiskRules[r].enforcement /\ Enforcements[r] \in {"hard_block", "advisory"}
  BY <1>1 DEF Enforcements
<1>4. blocked <=> \E r \in Risks : Enforcements[r] = "hard_block"
  BY <1>3
<1>5. M.engine = "math" /\ B.engine = "branching" /\ C.engine = "cost" /\ L.engine = "bounds" /\ S.engine = "state_flow"
  BY EnginesAreNamed, Zenon
<1>6. WalkFindings = W \o <<>>
  <2>1. WalkFindings = FindingsFor(TRUE, W, "answers", <<>>)
    BY Zenon DEF WalkFindings
  <2>2. \A w : FindingsFor(TRUE, w, "answers", <<>>) = w \o <<>>
    BY DEF FindingsFor
  <2> HIDE DEF W
  <2> QED BY <2>1, <2>2
<1> HIDE DEF M, B, C, L, S, g, x, c, s, u, blocked, kinds, others
<1>7. /\ IsSeq(R)
      /\ ToSet(R) \cup {NoHazard} = HazardsOf(g, x, c, s, u, Risks, Enforcements) \cup {NoHazard}
  <2>1. IsFiniteSet(g)
    BY DEF g
  <2> QED BY <1>2, <2>1, HazardsAreReported
<1> HIDE DEF R
<1>8. IsSeq(WalkFindings) /\ ToSet(WalkFindings) = {M} \cup ToSet(R) \cup {B, C, L, S}
  <2>1. IsSeq(<<M>> \o R) /\ ToSet(<<M>> \o R) = {M} \cup ToSet(R)
    BY <1>7, SmallSequences, JoinedTwo
  <2>2. IsSeq(W) /\ ToSet(W) = {M} \cup ToSet(R) \cup {B, C, L, S}
    BY <2>1, FourInSequence, JoinedTwo
  <2> HIDE DEF W
  <2>3. IsSeq(W \o <<>>) /\ ToSet(W \o <<>>) = ToSet(W) \cup {}
    BY <2>2, SmallSequences, JoinedTwo
  <2> QED BY <1>6, <2>2, <2>3
<1>9. /\ "import_risk_block" \in kinds <=> \E r \in Risks : Enforcements[r] = "hard_block"
      /\ "unknown_api" \in kinds <=> u # {}
      /\ "external_dependency" \in kinds <=> x # {}
      /\ "module_state_mutation" \in kinds <=> c # {} \/ s # {}
  <2> DEFINE O == {M, B, C, L, S}
  <2>1. \A f \in O : f.engine \in OtherEngines
    BY <1>5 DEF OtherEngines
  <2>2. ToSet(WalkFindings) \cup {NoHazard} = HazardsOf(g, x, c, s, u, Risks, Enforcements) \cup O \cup {NoHazard}
    BY <1>7, <1>8
  <2>3. \A r \in Risks : Enforcements[r] \in {"hard_block", "advisory"}
    BY <1>3
  <2> HIDE DEF O, W
  <2>4. AreFindings(WalkFindings, O, g, x, c, s, u, Risks, Enforcements)
    BY <1>8, <2>1, <2>2, <2>3, Zenon DEF AreFindings
  <2>5. AreRefused(kinds, x, c, s, u, Risks, Enforcements)
    BY <2>4, HazardsAreJudged, Zenon DEF kinds
  <2> QED BY <2>5 DEF AreRefused
<1>10. "import_risk_block" \in others <=> \E r \in Risks : Enforcements[r] = "hard_block"
  <2> DEFINE T == TreeSitterHazardFindings(Risks, Enforcements)
  <2>1. T = HazardFindings({}, {}, {}, {}, {}, Risks, Enforcements)
    BY DEF TreeSitterHazardFindings
  <2>2. IsSeq(T) /\ ToSet(T) \cup {NoHazard} = HazardsOf({}, {}, {}, {}, {}, Risks, Enforcements) \cup {NoHazard}
    BY <1>2, <2>1, FS_EmptySet, HazardsAreReported
  <2>3. \A r \in Risks : Enforcements[r] \in {"hard_block", "advisory"}
    BY <1>3
  <2>4. ToSet(T) \cup {NoHazard} = HazardsOf({}, {}, {}, {}, {}, Risks, Enforcements) \cup {} \cup {NoHazard}
    BY <2>2
  <2>5. \A f \in {} : f.engine \in OtherEngines OBVIOUS
  <2> HIDE DEF T, W
  <2>6. others = KindsOf(ValidateFindings(T, Strict, TRUE))
    BY DEF others, T
  <2>7. AreFindings(T, {}, {}, {}, {}, {}, {}, Risks, Enforcements)
    BY <2>2, <2>3, <2>4, <2>5, Zenon DEF AreFindings
  <2>8. AreRefused(others, {}, {}, {}, {}, Risks, Enforcements)
    BY <2>6, <2>7, HazardsAreJudged, Zenon
  <2> QED BY <2>8 DEF AreRefused
<1> QED BY <1>4, <1>9, <1>10 DEF kinds, others, blocked, x, c, s, u

\* A list of the records F of the lines of K.
AreRecords(s, F, n, K) ==
    /\ n \in Nat /\ (\A k \in 1..n : F[k].line = k) /\ K \in SUBSET (1..n)
    /\ Tracks(s, {F[k] : k \in 1..n}, K)

AreListed(s, F, K) ==
    /\ DOMAIN s = 1..Len(s) /\ Len(s) \in Nat
    /\ \A i \in DOMAIN s : \E k \in K : s[i] = F[k]
    /\ \A k \in K : \E i \in DOMAIN s : s[i] = F[k]

LEMMA TrackedRecords ==
    ASSUME NEW n, NEW F, NEW K, NEW s, AreRecords(s, F, n, K)
    PROVE  AreListed(s, F, K)
<1> DEFINE R == {F[k] : k \in 1..n}
<1>1. s \in Seq(R) /\ (\A i \in 1..Len(s) : s[i].line \in K) /\ \A k \in K : \E i \in 1..Len(s) : s[i].line = k
  BY DEF AreRecords, Tracks
<1>2. \A r \in R : r.line \in 1..n /\ r = F[r.line]
  BY DEF AreRecords
<1> HIDE DEF R
<1>3. DOMAIN s = 1..Len(s) /\ Len(s) \in Nat /\ \A i \in 1..Len(s) : s[i] \in R
  BY <1>1
<1>4. ASSUME NEW i \in 1..Len(s) PROVE \E k \in K : s[i] = F[k]
  BY <1>1, <1>2, <1>3
<1>5. ASSUME NEW k \in K PROVE \E i \in 1..Len(s) : s[i] = F[k]
  BY <1>1, <1>2, <1>3
<1> QED BY <1>3, <1>4, <1>5 DEF AreListed

\* The records of imports and calls are those of the lines that import and call.
LEMMA RecordsAreLines ==
    ASSUME NEW d, HazardsFollow(d), Len(program) \in Nat
    PROVE  /\ \A i \in DOMAIN ir.imports : \E k \in ImportLines(program) : ir.imports[i] = ImportOf(program[k], k)
           /\ \A k \in ImportLines(program) : \E i \in DOMAIN ir.imports : ir.imports[i] = ImportOf(program[k], k)
           /\ \A i \in DOMAIN ir.calls : \E k \in CallLines(program) : ir.calls[i] = CallOf(program[k], k)
           /\ \A k \in CallLines(program) : \E i \in DOMAIN ir.calls : ir.calls[i] = CallOf(program[k], k)
           /\ DOMAIN ir.imports = 1..Len(ir.imports) /\ Len(ir.imports) \in Nat
<1> DEFINE n == Len(program)
           F == [k \in 1..n |-> ImportOf(program[k], k)]
           G == [k \in 1..n |-> CallOf(program[k], k)]
           s == ir.imports
           u == ir.calls
<1>1. (\A k \in 1..n : F[k].line = k) /\ (\A k \in 1..n : G[k].line = k)
  BY DEF ImportOf, CallOf
<1>2. ImportLines(program) \in SUBSET (1..n) /\ CallLines(program) \in SUBSET (1..n)
  BY DEF ImportLines, CallLines
<1>3. Tracks(s, {F[k] : k \in 1..n}, ImportLines(program)) /\ Tracks(u, {G[k] : k \in 1..n}, CallLines(program))
  <2>1. {F[k] : k \in 1..n} = {ImportOf(program[k], k) : k \in 1..n} OBVIOUS
  <2>2. {G[k] : k \in 1..n} = {CallOf(program[k], k) : k \in 1..n} OBVIOUS
  <2> QED BY <2>1, <2>2 DEF HazardsFollow, ImportsInv, CallsInv
<1>4. \A k \in 1..n : F[k] = ImportOf(program[k], k) /\ G[k] = CallOf(program[k], k)
  OBVIOUS
<1>5. AreRecords(s, F, n, ImportLines(program)) /\ AreRecords(u, G, n, CallLines(program))
  <2>1. n \in Nat OBVIOUS
  <2> HIDE DEF F, G, s, u, n
  <2> QED BY <1>1, <1>2, <1>3, <2>1, Zenon DEF AreRecords
<1> HIDE DEF F, G, s, u, n
<1>6. AreListed(s, F, ImportLines(program))
  BY <1>5, TrackedRecords, Zenon
<1>7. AreListed(u, G, CallLines(program))
  BY <1>5, TrackedRecords, Zenon
<1>8. DOMAIN s = 1..Len(s) /\ Len(s) \in Nat
  BY <1>6, Zenon DEF AreListed
<1>9. /\ \A k \in ImportLines(program) : F[k] = ImportOf(program[k], k)
      /\ \A k \in CallLines(program) : G[k] = CallOf(program[k], k)
  BY <1>2, <1>4, Zenon
<1>10. /\ \A i \in DOMAIN s : \E k \in ImportLines(program) : s[i] = ImportOf(program[k], k)
       /\ \A k \in ImportLines(program) : \E i \in DOMAIN s : s[i] = ImportOf(program[k], k)
  BY <1>6, <1>9, Zenon DEF AreListed
<1>11. /\ \A i \in DOMAIN u : \E k \in CallLines(program) : u[i] = CallOf(program[k], k)
       /\ \A k \in CallLines(program) : \E i \in DOMAIN u : u[i] = CallOf(program[k], k)
  BY <1>7, <1>9, Zenon DEF AreListed
<1> QED BY <1>8, <1>10, <1>11, Zenon DEF s, u

LEMMA RisksAreHits ==
    \A c : c \in Risks <=>
      /\ c \in DOMAIN RiskRules
      /\ \/ \E i \in DOMAIN ir.imports : ImportNameMatches(ir.imports[i].name, RiskRules[c].imports)
         \/ \E i \in DOMAIN ir.calls : \E p \in RiskRules[c].calls : IsSuffix(p, ir.calls[i].chain)
<1> DEFINE s == ir.imports
           u == ir.calls
           P == {x \in (DOMAIN RiskRules) \X (DOMAIN s) : ImportNameMatches(s[x[2]].name, RiskRules[x[1]].imports)}
           Q == {x \in (DOMAIN RiskRules) \X (DOMAIN u) : \E p \in RiskRules[x[1]].calls : IsSuffix(p, u[x[2]].chain)}
           hit(x) == <<x[1], s[x[2]].name, s[x[2]].line, "import">>
           called(x) == <<x[1], u[x[2]].chain, u[x[2]].line, "call">>
<1>1. Risks = {h[1] : h \in {hit(x) : x \in P} \cup {called(x) : x \in Q}}
  BY Zenon DEF Risks, RiskCategories, ImportHits, CallHits
<1>2. \A x : hit(x)[1] = x[1] /\ called(x)[1] = x[1] OBVIOUS
<1>3. \A c : (\E x \in P : x[1] = c) <=>
          c \in DOMAIN RiskRules /\ \E i \in DOMAIN s : ImportNameMatches(s[i].name, RiskRules[c].imports)
  <2>1. ASSUME NEW c, NEW x \in P, x[1] = c
        PROVE  c \in DOMAIN RiskRules /\ \E i \in DOMAIN s : ImportNameMatches(s[i].name, RiskRules[c].imports)
    <3>1. x[1] \in DOMAIN RiskRules /\ x[2] \in DOMAIN s OBVIOUS
    <3> QED BY <2>1, <3>1
  <2>2. ASSUME NEW c \in DOMAIN RiskRules, NEW i \in DOMAIN s, ImportNameMatches(s[i].name, RiskRules[c].imports)
        PROVE  \E x \in P : x[1] = c
    <3>1. <<c, i>> \in P /\ <<c, i>>[1] = c
      BY <2>2
    <3> QED BY <3>1
  <2> QED BY <2>1, <2>2
<1>4. \A c : (\E x \in Q : x[1] = c) <=>
          c \in DOMAIN RiskRules /\ \E i \in DOMAIN u : \E p \in RiskRules[c].calls : IsSuffix(p, u[i].chain)
  <2>1. ASSUME NEW c, NEW x \in Q, x[1] = c
        PROVE  c \in DOMAIN RiskRules /\ \E i \in DOMAIN u : \E p \in RiskRules[c].calls : IsSuffix(p, u[i].chain)
    <3>1. x[1] \in DOMAIN RiskRules /\ x[2] \in DOMAIN u OBVIOUS
    <3> QED BY <2>1, <3>1
  <2>2. ASSUME NEW c \in DOMAIN RiskRules, NEW i \in DOMAIN u, \E p \in RiskRules[c].calls : IsSuffix(p, u[i].chain)
        PROVE  \E x \in Q : x[1] = c
    <3>1. <<c, i>> \in Q /\ <<c, i>>[1] = c
      BY <2>2
    <3> QED BY <3>1
  <2> QED BY <2>1, <2>2
<1> HIDE DEF P, Q, hit, called, s, u
<1>5. \A c : c \in Risks <=> (\E x \in P : x[1] = c) \/ (\E x \in Q : x[1] = c)
  BY <1>1, <1>2
<1> QED BY <1>3, <1>4, <1>5 DEF s, u

\* The words and the rules of the run.
RulesOfTheRun ==
    /\ Words \subseteq MCScopeWords \cup MCHazardWords
    /\ RiskRules = MCRiskRules /\ Libraries = MCLibraries /\ StdlibRoots = {"os"}

Shell == Line("import", "shell", "module", <<"shell">>)
Draw == Line("import", "draw", "symbol", <<"game", "draw">>)
Near == Line("import", "run", "relative", <<"shell", "run">>)
Far == Line("import", "far", "module", <<"far", "away">>)
Append_x == Line("call", "x", "", <<"x", "append">>)
Count_x == Line("call", "x", "", <<"x", "count">>)
List_x == Line("bind", "x", "list", <<"list">>)
Rect == Line("call", "draw", "", <<"draw", "rect">>)
Oval == Line("call", "draw", "", <<"draw", "oval">>)
System == Line("call", "os", "", <<"os", "system">>)

ImportWords == {Shell, Draw, Near, Far}
CallWords == {Append_x, Count_x, List_x, Rect, Oval, System}
StoreWord == Line("store", "x", "", <<>>)
BindWords ==
    {Line("bind", "state", "list", <<>>), Line("bind", "state", "set", <<>>), Line("bind", "x", "list", <<>>), List_x,
     Line("bind", "state", "unknown", <<>>)}
PlainWords ==
    {Line("def", "f", "list", <<>>), Line("def", "g", "set", <<>>), Line("class", "f", "", <<>>),
     Line("for", "", "", <<>>), Line("comp", "", "nested", <<>>), Line("in", "state", "", <<>>), Line("end", "", "", <<>>),
     Line("def", "f", "unknown", <<>>), Line("while", "", "", <<>>), Line("if", "", "", <<>>),
     Line("for", "", "past_end", <<>>), Line("index", "x", "past_end", <<>>), Line("global", "x", "", <<>>),
     Line("augment", "state", "", <<>>), Line("augment", "x", "", <<>>), Line("return", "state", "", <<>>)}
PlainOps == {"def", "class", "for", "comp", "in", "end", "while", "if", "index", "global", "augment", "return"}

LEMMA WordsOfTheRun ==
    ASSUME RulesOfTheRun, NEW t \in Words
    PROVE  /\ t.op = "import" => t \in ImportWords
           /\ Calls(t) => t \in CallWords
           /\ t.op = "store" => t.name = "x"
           /\ t.op = "bind" => t.name \in {"x", "state"}
<1>1. t \in ImportWords \cup CallWords \cup {StoreWord} \cup BindWords \cup PlainWords
  <2>1. t \in MCScopeWords \cup MCHazardWords
    BY DEF RulesOfTheRun
  <2>2. t \in MCHazardWords => t \in ImportWords \cup CallWords \cup {StoreWord} \cup BindWords \cup PlainWords
    BY Zenon DEF MCHazardWords, ImportWords, CallWords, StoreWord, BindWords, PlainWords,
                 Shell, Draw, Near, Far, Append_x, Count_x, List_x, Rect, Oval, System
  <2>3. t \in MCScopeWords => t \in BindWords \cup PlainWords
    BY Zenon DEF MCScopeWords, BindWords, PlainWords
  <2> QED BY <2>1, <2>2, <2>3, Zenon
<1>3. ASSUME t \in ImportWords PROVE t.op = "import"
  <2>1. Shell.op = "import" /\ Draw.op = "import" /\ Near.op = "import" /\ Far.op = "import"
    BY DEF Shell, Draw, Near, Far, Line
  <2> QED BY <1>3, <2>1, Zenon DEF ImportWords
<1>4. ASSUME t \in CallWords PROVE t.op = "call" \/ t = List_x
  <2>1. Append_x.op = "call" /\ Count_x.op = "call" /\ Rect.op = "call" /\ Oval.op = "call" /\ System.op = "call"
    BY DEF Append_x, Count_x, Rect, Oval, System, Line
  <2> QED BY <1>4, <2>1, Zenon DEF CallWords
<1>5. StoreWord.op = "store" /\ StoreWord.name = "x"
  BY DEF StoreWord, Line
<1>6. ASSUME t \in BindWords PROVE t.op = "bind" /\ t.name \in {"x", "state"} /\ (t.chain = <<>> \/ t = List_x)
  BY <1>6 DEF BindWords, List_x, Line
<1>9. List_x.op = "bind" /\ List_x.name = "x" /\ List_x \in CallWords
  BY DEF List_x, Line, CallWords
<1>7. ASSUME t \in PlainWords PROVE t.op \in PlainOps
  <2>1. \A a, k, c : \A o \in PlainOps : Line(o, a, k, c).op \in PlainOps
    BY DEF Line
  <2>2. /\ "def" \in PlainOps /\ "class" \in PlainOps /\ "for" \in PlainOps /\ "comp" \in PlainOps
        /\ "in" \in PlainOps /\ "end" \in PlainOps /\ "while" \in PlainOps /\ "if" \in PlainOps
        /\ "index" \in PlainOps /\ "global" \in PlainOps /\ "augment" \in PlainOps /\ "return" \in PlainOps
    BY DEF PlainOps
  <2> HIDE DEF PlainOps, Line
  <2> QED BY <1>7, <2>1, <2>2, ZenonT(60) DEF PlainWords
<1>8. PlainOps \cap {"import", "call", "store", "bind"} = {}
  BY DEF PlainOps
<1> QED BY <1>1, <1>3, <1>4, <1>5, <1>6, <1>7, <1>8, <1>9 DEF Calls

\* The parts of a name of two parts.
LEMMA PairsApart ==
    ASSUME NEW a, NEW b
    PROVE  /\ Front(<<a, b>>) = <<a>> /\ Tail(<<a, b>>) = <<b>> /\ Last(<<a, b>>) = b
           /\ Len(<<a, b>>) = 2 /\ <<a, b>>[1] = a /\ <<a>> \o <<b>> = <<a, b>>
<1>1. <<a, b>> \in Seq({a, b}) /\ Len(<<a, b>>) = 2 /\ <<a, b>>[1] = a /\ <<a, b>>[2] = b
  OBVIOUS
<1>2. Front(<<a, b>>) = <<a>>
  <2>1. SubSeq(<<a, b>>, 1, 1) \in Seq({a, b}) /\ Len(SubSeq(<<a, b>>, 1, 1)) = 1 /\ SubSeq(<<a, b>>, 1, 1)[1] = a
    BY <1>1
  <2>2. <<a>> \in Seq({a, b}) /\ Len(<<a>>) = 1 /\ <<a>>[1] = a OBVIOUS
  <2>3. SubSeq(<<a, b>>, 1, 1) = <<a>>
    <3> DEFINE s == SubSeq(<<a, b>>, 1, 1)
               u == <<a>>
               S == {a, b}
    <3>1. s \in Seq(S) /\ u \in Seq(S) /\ Len(s) = 1 /\ Len(u) = 1 /\ s[1] = u[1]
      BY <2>1, <2>2
    <3> HIDE DEF s, u, S
    <3>2. \A i \in 1..1 : s[i] = u[i]
      BY <3>1
    <3>3. s = u
      BY <3>1, <3>2, SeqEqual
    <3> QED BY <3>3 DEF s, u
  <2>4. Len(<<a, b>>) - 1 = 1
    BY <1>1
  <2> QED BY <2>3, <2>4 DEF Front
<1>3. Last(<<a, b>>) = b
  BY <1>1 DEF Last
<1>4. Tail(<<a, b>>) = <<b>>
  <2> DEFINE s == Tail(<<a, b>>)
             u == <<b>>
             S == {a, b}
  <2>1. s \in Seq(S) /\ u \in Seq(S) /\ Len(s) = 1 /\ Len(u) = 1 /\ s[1] = u[1]
    BY <1>1
  <2> HIDE DEF s, u, S
  <2>2. \A i \in 1..1 : s[i] = u[i]
    BY <2>1
  <2>3. s = u
    BY <2>1, <2>2, SeqEqual
  <2> QED BY <2>3 DEF s, u
<1>5. <<a>> \o <<b>> = <<a, b>>
  <2> DEFINE s == <<a>> \o <<b>>
             u == <<a, b>>
             S == {a, b}
  <2>1. s \in Seq(S) /\ u \in Seq(S) /\ Len(s) = 2 /\ Len(u) = 2 /\ s[1] = u[1] /\ s[2] = u[2]
    BY <1>1
  <2> HIDE DEF s, u, S
  <2>2. \A i \in 1..2 : s[i] = u[i]
    BY <2>1
  <2>3. s = u
    BY <2>1, <2>2, SeqEqual
  <2> QED BY <2>3 DEF s, u
<1> QED BY <1>1, <1>2, <1>3, <1>4, <1>5

\* Names that begin otherwise are not prefixes of one another.
Begins(s, S, h) == s \in Seq(S) /\ Len(s) > 0 /\ s[1] = h

LEMMA OtherPrefix ==
    ASSUME NEW S, NEW s, NEW u, NEW g, NEW h, Begins(s, S, g), Begins(u, S, h), g # h
    PROVE  ~IsPrefix(s, u) /\ ~IsPrefix(u, s)
<1>1. Len(s) \in Nat /\ Len(u) \in Nat /\ Len(s) > 0 /\ Len(u) > 0 /\ s[1] # u[1] /\ s \in Seq(S) /\ u \in Seq(S)
  BY DEF Begins
<1>2. 1 \in 1..Len(s) /\ 1 \in 1..Len(u)
  BY <1>1
<1>3. IsPrefix(s, u) => \A j \in 1..Len(s) : s[j] = u[j]
  BY <1>1, PrefixesAgree
<1>4. IsPrefix(u, s) => \A j \in 1..Len(u) : u[j] = s[j]
  BY <1>1, PrefixesAgree
<1> QED BY <1>1, <1>2, <1>3, <1>4

LEMMA OwnPrefix ==
    ASSUME NEW S, NEW s \in Seq(S)
    PROVE  IsPrefix(s, s)
BY PrefixesAgree

\* A name of two parts ends another when both parts agree.
LEMMA PairSuffix ==
    ASSUME NEW a, NEW b, NEW c, NEW e
    PROVE  (b # e => ~IsSuffix(<<a, b>>, <<c, e>>)) /\ IsSuffix(<<a, b>>, <<a, b>>) /\ ~IsSuffix(<<a, b>>, <<c>>)
<1>1. ASSUME NEW x, NEW y PROVE Reverse(<<x, y>>) = <<y, x>>
  <2>1. Len(<<x, y>>) = 2 /\ 1..2 = {1, 2} /\ (2 - 1) + 1 = 2 /\ (2 - 2) + 1 = 1
    OBVIOUS
  <2>2. Reverse(<<x, y>>) = [i \in 1..2 |-> <<x, y>>[(2 - i) + 1]]
    BY <2>1 DEF Reverse
  <2>3. [i \in 1..2 |-> <<x, y>>[(2 - i) + 1]] \in Seq({x, y})
    <3>1. \A i \in 1..2 : <<x, y>>[(2 - i) + 1] \in {x, y}
      BY <2>1
    <3> QED BY <3>1
  <2>4. Reverse(<<x, y>>)[1] = y /\ Reverse(<<x, y>>)[2] = x /\ Len(Reverse(<<x, y>>)) = 2
    BY <2>1, <2>2, <2>3
  <2>5. <<y, x>> \in Seq({x, y}) /\ Len(<<y, x>>) = 2 /\ <<y, x>>[1] = y /\ <<y, x>>[2] = x
    OBVIOUS
  <2>6. \A i \in 1..2 : Reverse(<<x, y>>)[i] = <<y, x>>[i]
    BY <2>1, <2>4, <2>5
  <2> QED BY <2>2, <2>3, <2>4, <2>5, <2>6, SeqEqual
<1> DEFINE S == {a, b, c, e}
<1>2. Begins(<<b, a>>, S, b) /\ Begins(<<e, c>>, S, e) /\ <<b, a>> \in Seq(S)
  BY DEF Begins
<1> HIDE DEF S
<1>3. b # e => ~IsPrefix(<<b, a>>, <<e, c>>)
  BY <1>2, OtherPrefix, Zenon
<1>4. IsPrefix(<<b, a>>, <<b, a>>)
  BY <1>2, OwnPrefix
<1>5. ~IsSuffix(<<a, b>>, <<c>>)
  <2>1. Len(Reverse(<<a, b>>)) = 2 /\ Len(Reverse(<<c>>)) = 1
    BY DEF Reverse
  <2> QED BY <2>1 DEF IsSuffix, IsPrefix
<1> QED BY <1>1, <1>3, <1>4, <1>5 DEF IsSuffix

\* What the imports of the run say.
LEMMA ImportsOfTheRun ==
    ASSUME NEW k
    PROVE  /\ /\ ImportOf(Shell, k).name = <<"shell">> /\ ImportOf(Shell, k).bound = "shell"
              /\ ImportOf(Shell, k).relative = FALSE
           /\ /\ ImportOf(Draw, k).name = <<"game">> /\ ImportOf(Draw, k).bound = "draw"
              /\ ImportOf(Draw, k).relative = FALSE /\ ImportOf(Draw, k).path = <<"draw">>
           /\ ImportOf(Near, k).name = <<".", "shell">> /\ ImportOf(Near, k).relative = TRUE
           /\ /\ ImportOf(Far, k).name = <<"far", "away">> /\ ImportOf(Far, k).bound = "far"
              /\ ImportOf(Far, k).relative = FALSE
<1>1. /\ ImportOf(Shell, k).name = <<"shell">> /\ ImportOf(Shell, k).bound = "shell"
      /\ ImportOf(Shell, k).relative = FALSE
  BY DEF ImportOf, Shell, Line
<1>2. /\ ImportOf(Draw, k).name = <<"game">> /\ ImportOf(Draw, k).bound = "draw"
      /\ ImportOf(Draw, k).relative = FALSE /\ ImportOf(Draw, k).path = <<"draw">>
  <2> DEFINE chain == <<"game", "draw">>
  <2>1. Front(chain) = <<"game">> /\ Tail(chain) = <<"draw">>
    BY PairsApart
  <2>2. Draw = Line("import", "draw", "symbol", chain)
    BY DEF Draw
  <2> HIDE DEF chain
  <2>3. ImportOf(Draw, k).name = Front(chain) /\ ImportOf(Draw, k).bound = "draw"
        /\ ImportOf(Draw, k).relative = FALSE /\ ImportOf(Draw, k).path = Tail(chain)
    BY <2>2 DEF ImportOf, Line
  <2> QED BY <2>1, <2>3
<1>3. ImportOf(Near, k).name = <<".", "shell">> /\ ImportOf(Near, k).relative = TRUE
  <2> DEFINE chain == <<"shell", "run">>
  <2>1. <<".">> \o Front(chain) = <<".", "shell">>
    <3>1. Front(<<"shell", "run">>) = <<"shell">> /\ <<".">> \o <<"shell">> = <<".", "shell">>
      BY PairsApart, Zenon
    <3> QED BY <3>1
  <2>2. Near = Line("import", "run", "relative", chain)
    BY DEF Near
  <2> HIDE DEF chain
  <2>3. ImportOf(Near, k).name = <<".">> \o Front(chain) /\ ImportOf(Near, k).relative = TRUE
    BY <2>2 DEF ImportOf, Line
  <2> QED BY <2>1, <2>3
<1>4. /\ ImportOf(Far, k).name = <<"far", "away">> /\ ImportOf(Far, k).bound = "far"
      /\ ImportOf(Far, k).relative = FALSE
  BY DEF ImportOf, Far, Line
<1> QED BY <1>1, <1>2, <1>3, <1>4

\* What the rules of the run are.
LEMMA RulesAre ==
    ASSUME RulesOfTheRun
    PROVE  /\ DOMAIN RiskRules = {"process_exec", "network"}
           /\ RiskRules["process_exec"].enforcement = "hard_block" /\ RiskRules["network"].enforcement = "advisory"
           /\ RiskRules["process_exec"].imports = {<<"shell">>} /\ RiskRules["process_exec"].calls = {<<"os", "system">>}
           /\ DOMAIN Libraries = {"game"} /\ Libraries["game"] = {<<"draw", "rect">>} /\ StdlibRoots = {"os"}
<1>1. RiskRules = MCRiskRules /\ Libraries = MCLibraries /\ StdlibRoots = {"os"}
  BY DEF RulesOfTheRun
<1>2. /\ DOMAIN MCRiskRules = {"process_exec", "network"}
      /\ MCRiskRules["process_exec"] = [enforcement |-> "hard_block", imports |-> {<<"shell">>}, calls |-> {<<"os", "system">>}]
      /\ MCRiskRules["network"] = [enforcement |-> "advisory", imports |-> {<<"far", "away", "client">>}, calls |-> {}]
  BY DEF MCRiskRules
<1>3. DOMAIN MCLibraries = {"game"} /\ MCLibraries["game"] = {<<"draw", "rect">>}
  BY DEF MCLibraries
<1> QED BY <1>1, <1>2, <1>3

\* An import of the run is of the blocked module, or not.
LEMMA BlockedNames ==
    /\ ImportNameMatches(<<"shell">>, {<<"shell">>})
    /\ ~ImportNameMatches(<<"game">>, {<<"shell">>}) /\ ~ImportNameMatches(<<".", "shell">>, {<<"shell">>})
    /\ ~ImportNameMatches(<<"far", "away">>, {<<"shell">>})
<1> DEFINE S == {"shell", "game", ".", "far", "away"}
<1>1. /\ Begins(<<"shell">>, S, "shell") /\ Begins(<<"game">>, S, "game") /\ Begins(<<".", "shell">>, S, ".")
      /\ Begins(<<"far", "away">>, S, "far") /\ <<"shell">> \in Seq(S)
  BY DEF Begins
<1> HIDE DEF S
<1>2. IsPrefix(<<"shell">>, <<"shell">>)
  BY <1>1, OwnPrefix
<1>3. ~IsPrefix(<<"shell">>, <<"game">>) /\ ~IsPrefix(<<"game">>, <<"shell">>)
  BY <1>1, OtherPrefix, "shell" # "game", "shell" # ".", "shell" # "far", Zenon
<1>4. ~IsPrefix(<<"shell">>, <<".", "shell">>) /\ ~IsPrefix(<<".", "shell">>, <<"shell">>)
  BY <1>1, OtherPrefix, "shell" # "game", "shell" # ".", "shell" # "far", Zenon
<1>5. ~IsPrefix(<<"shell">>, <<"far", "away">>) /\ ~IsPrefix(<<"far", "away">>, <<"shell">>)
  BY <1>1, OtherPrefix, "shell" # "game", "shell" # ".", "shell" # "far", Zenon
<1> QED BY <1>2, <1>3, <1>4, <1>5, Zenon DEF ImportNameMatches

\* The chains that the calls of the run have.
LEMMA CallsOfTheRun ==
    /\ Append_x.chain = <<"x", "append">> /\ Count_x.chain = <<"x", "count">> /\ List_x.chain = <<"list">> /\ Rect.chain = <<"draw", "rect">> /\ Oval.chain = <<"draw", "oval">>
    /\ System.chain = <<"os", "system">>
    /\ Append_x.name = "x" /\ Count_x.name = "x" /\ List_x.name = "x" /\ Rect.name = "draw" /\ Oval.name = "draw" /\ System.name = "os"
BY DEF Append_x, Count_x, List_x, Rect, Oval, System, Line

\* The lines that import and call are told apart by their names and chains.
LEMMA WordsByName ==
    /\ \A t \in ImportWords : /\ t.name = "shell" <=> t = Shell
                              /\ t.name = "draw" <=> t = Draw
                              /\ t.name = "far" <=> t = Far
    /\ \A t \in CallWords : /\ t.chain = <<"os", "system">> <=> t = System
                            /\ t.chain = <<"draw", "oval">> <=> t = Oval
                            /\ t.chain = <<"x", "append">> <=> t = Append_x
    /\ Shell.name = "shell" /\ Draw.name = "draw" /\ Near.name = "run" /\ Far.name = "far"
<1>1. Shell.name = "shell" /\ Draw.name = "draw" /\ Near.name = "run" /\ Far.name = "far"
  BY DEF Shell, Draw, Near, Far, Line
<1>2. \A t \in ImportWords : t = Shell \/ t = Draw \/ t = Near \/ t = Far
  BY DEF ImportWords
<1>3. \A t \in ImportWords : /\ t.name = "shell" <=> t = Shell
                             /\ t.name = "draw" <=> t = Draw
                             /\ t.name = "far" <=> t = Far
  BY <1>1, <1>2
<1>4. \A t \in CallWords : t \in {System, Oval, Rect, Append_x, Count_x, List_x}
  BY DEF CallWords
<1>5. ASSUME NEW a, NEW b, NEW c, NEW e PROVE (b # e => <<a, b>> # <<c, e>>) /\ <<a>> # <<c, e>>
  OBVIOUS
<1>6. /\ System.chain = <<"os", "system">> /\ Oval.chain # <<"os", "system">> /\ Rect.chain # <<"os", "system">>
      /\ Append_x.chain # <<"os", "system">> /\ Count_x.chain # <<"os", "system">> /\ List_x.chain # <<"os", "system">>
  BY <1>5, CallsOfTheRun
<1>7. /\ Oval.chain = <<"draw", "oval">> /\ System.chain # <<"draw", "oval">> /\ Rect.chain # <<"draw", "oval">>
      /\ Append_x.chain # <<"draw", "oval">> /\ Count_x.chain # <<"draw", "oval">> /\ List_x.chain # <<"draw", "oval">>
  BY <1>5, CallsOfTheRun
<1>8. /\ Append_x.chain = <<"x", "append">> /\ System.chain # <<"x", "append">> /\ Rect.chain # <<"x", "append">>
      /\ Oval.chain # <<"x", "append">> /\ Count_x.chain # <<"x", "append">> /\ List_x.chain # <<"x", "append">>
  BY <1>5, CallsOfTheRun
<1>9. \A t \in CallWords : /\ t.chain = <<"os", "system">> <=> t = System
                           /\ t.chain = <<"draw", "oval">> <=> t = Oval
                           /\ t.chain = <<"x", "append">> <=> t = Append_x
  BY <1>4, <1>6, <1>7, <1>8, Zenon
<1> QED BY <1>1, <1>3, <1>9

\* Whether the draft has this line.
Has(t) == \E k \in 1..Len(program) : program[k] = t

\* The draft is one of the run, and its imports and calls are recorded.
IsDraft(d) == RulesOfTheRun /\ HazardsFollow(d) /\ StackInv(program, opened, d)

LEMMA RecordsOfTheRun ==
    ASSUME NEW d, IsDraft(d)
    PROVE  /\ program \in Seq(Words) /\ Len(program) \in Nat /\ DOMAIN program = 1..Len(program)
           /\ \A i \in DOMAIN ir.imports : \E t \in ImportWords, k \in 1..Len(program) :
                Has(t) /\ ir.imports[i] = ImportOf(t, k)
           /\ \A t \in ImportWords : Has(t) => \E i \in DOMAIN ir.imports, k \in 1..Len(program) :
                ir.imports[i] = ImportOf(t, k)
           /\ \A i \in DOMAIN ir.calls : \E t \in CallWords : Has(t) /\ ir.calls[i].chain = t.chain
           /\ \A t \in CallWords : Has(t) => \E i \in DOMAIN ir.calls : ir.calls[i].chain = t.chain
           /\ DOMAIN ir.imports = 1..Len(ir.imports) /\ Len(ir.imports) \in Nat
<1>1. program \in Seq(Words) /\ Len(program) \in Nat /\ DOMAIN program = 1..Len(program)
      /\ \A k \in 1..Len(program) : program[k] \in Words
  BY DEF IsDraft, StackInv
<1>2. /\ \A i \in DOMAIN ir.imports : \E k \in ImportLines(program) : ir.imports[i] = ImportOf(program[k], k)
      /\ \A k \in ImportLines(program) : \E i \in DOMAIN ir.imports : ir.imports[i] = ImportOf(program[k], k)
      /\ \A i \in DOMAIN ir.calls : \E k \in CallLines(program) : ir.calls[i] = CallOf(program[k], k)
      /\ \A k \in CallLines(program) : \E i \in DOMAIN ir.calls : ir.calls[i] = CallOf(program[k], k)
      /\ DOMAIN ir.imports = 1..Len(ir.imports) /\ Len(ir.imports) \in Nat
  BY <1>1, RecordsAreLines DEF IsDraft
<1>3. \A k \in ImportLines(program) : k \in 1..Len(program) /\ program[k] \in ImportWords /\ Has(program[k])
  BY <1>1, WordsOfTheRun DEF IsDraft, ImportLines, Has
<1>4. \A k \in CallLines(program) : k \in 1..Len(program) /\ program[k] \in CallWords /\ Has(program[k])
  BY <1>1, WordsOfTheRun DEF IsDraft, CallLines, Has
<1>5. /\ \A t \in ImportWords : t.op = "import"
      /\ \A t \in CallWords : Calls(t)
  BY DEF ImportWords, CallWords, Shell, Draw, Near, Far, Append_x, Count_x, List_x, Rect, Oval, System, Line, Calls
<1>6. \A k \in 1..Len(program) : /\ program[k] \in ImportWords => k \in ImportLines(program)
                                 /\ program[k] \in CallWords => k \in CallLines(program)
  BY <1>5 DEF ImportLines, CallLines
<1>7. \A t, k : CallOf(t, k).chain = t.chain
  BY DEF CallOf
<1>8. \A i \in DOMAIN ir.imports : \E t \in ImportWords, k \in 1..Len(program) : Has(t) /\ ir.imports[i] = ImportOf(t, k)
  BY <1>2, <1>3, Zenon
<1>9. \A t \in ImportWords : Has(t) => \E i \in DOMAIN ir.imports, k \in 1..Len(program) : ir.imports[i] = ImportOf(t, k)
  BY <1>2, <1>6, Zenon DEF Has
<1>10. \A i \in DOMAIN ir.calls : \E t \in CallWords : Has(t) /\ ir.calls[i].chain = t.chain
  <2>1. \A i \in DOMAIN ir.calls : \E k \in CallLines(program) : ir.calls[i].chain = program[k].chain
    BY <1>2, <1>7
  <2> QED BY <1>4, <2>1, Zenon
<1>11. \A t \in CallWords : Has(t) => \E i \in DOMAIN ir.calls : ir.calls[i].chain = t.chain
  <2>1. \A k \in CallLines(program) : \E i \in DOMAIN ir.calls : ir.calls[i].chain = program[k].chain
    BY <1>2, <1>7
  <2> QED BY <1>6, <2>1, Zenon DEF Has
<1> QED BY <1>1, <1>2, <1>8, <1>9, <1>10, <1>11

\* Looking for a line by name is looking for the word.
LEMMA LinesByName ==
    ASSUME NEW d, IsDraft(d)
    PROVE  /\ HasLine("import", "shell", <<>>) <=> Has(Shell)
           /\ HasLine("import", "draw", <<>>) <=> Has(Draw)
           /\ HasLine("import", "far", <<>>) <=> Has(Far)
           /\ HasLine("call", "os", <<"os", "system">>) <=> Has(System)
           /\ HasLine("call", "draw", <<"draw", "oval">>) <=> Has(Oval)
<1>1. /\ Len(program) \in Nat /\ DOMAIN program = 1..Len(program)
      /\ \A k \in 1..Len(program) : program[k] \in Words
  BY RecordsOfTheRun
<1>2. \A k \in 1..Len(program) : /\ program[k].op = "import" => program[k] \in ImportWords
                                 /\ program[k].op = "call" => program[k] \in CallWords
  BY <1>1, WordsOfTheRun DEF IsDraft, Calls
<1>3. /\ Shell.op = "import" /\ Draw.op = "import" /\ Far.op = "import" /\ System.op = "call" /\ Oval.op = "call"
      /\ Shell \in ImportWords /\ Draw \in ImportWords /\ Far \in ImportWords /\ System \in CallWords /\ Oval \in CallWords
  BY DEF ImportWords, CallWords, Shell, Draw, Near, Far, Append_x, Count_x, List_x, Rect, Oval, System, Line
<1>4. \A k \in 1..Len(program) :
        /\ program[k].op = "import" /\ program[k].name = "shell" <=> program[k] = Shell
        /\ program[k].op = "import" /\ program[k].name = "draw" <=> program[k] = Draw
        /\ program[k].op = "import" /\ program[k].name = "far" <=> program[k] = Far
  BY <1>2, <1>3, WordsByName, Zenon
<1>5. \A k \in 1..Len(program) :
        /\ program[k].op = "call" /\ program[k].name = "os" /\ program[k].chain = <<"os", "system">> <=> program[k] = System
        /\ program[k].op = "call" /\ program[k].name = "draw" /\ program[k].chain = <<"draw", "oval">> <=> program[k] = Oval
  BY <1>2, <1>3, WordsByName, CallsOfTheRun, Zenon
<1>6. <<"os", "system">> # <<>> /\ <<"draw", "oval">> # <<>> OBVIOUS
<1>7. ASSUME NEW o, NEW n PROVE HasLine(o, n, <<>>) <=> \E k \in 1..Len(program) : program[k].op = o /\ program[k].name = n
  BY <1>1, Zenon DEF HasLine
<1>8. /\ HasLine("import", "shell", <<>>) <=> Has(Shell)
      /\ HasLine("import", "draw", <<>>) <=> Has(Draw)
      /\ HasLine("import", "far", <<>>) <=> Has(Far)
  <2>1. HasLine("import", "shell", <<>>) <=> Has(Shell)
    <3>1. HasLine("import", "shell", <<>>) <=> \E k \in 1..Len(program) : program[k].op = "import" /\ program[k].name = "shell"
      BY <1>7
    <3> QED BY <1>4, <3>1 DEF Has
  <2>2. HasLine("import", "draw", <<>>) <=> Has(Draw)
    <3>1. HasLine("import", "draw", <<>>) <=> \E k \in 1..Len(program) : program[k].op = "import" /\ program[k].name = "draw"
      BY <1>7
    <3> QED BY <1>4, <3>1 DEF Has
  <2>3. HasLine("import", "far", <<>>) <=> Has(Far)
    <3>1. HasLine("import", "far", <<>>) <=> \E k \in 1..Len(program) : program[k].op = "import" /\ program[k].name = "far"
      BY <1>7
    <3> QED BY <1>4, <3>1 DEF Has
  <2> QED BY <2>1, <2>2, <2>3
<1>9. /\ HasLine("call", "os", <<"os", "system">>) <=> Has(System)
      /\ HasLine("call", "draw", <<"draw", "oval">>) <=> Has(Oval)
  BY <1>1, <1>5, <1>6, Zenon DEF HasLine, Has
<1> QED BY <1>8, <1>9

\* What is blocked.
LEMMA BlockedLines ==
    ASSUME NEW d, IsDraft(d)
    PROVE  (\E c \in Risks : RiskRules[c].enforcement = "hard_block") <=> Has(Shell) \/ Has(System)
<1>1. (\E c \in Risks : RiskRules[c].enforcement = "hard_block") <=> "process_exec" \in Risks
  <2>1. Risks \subseteq DOMAIN RiskRules
    BY RisksAreHits
  <2> QED BY <2>1, RulesAre DEF IsDraft
<1>2. "process_exec" \in Risks <=>
        \/ \E i \in DOMAIN ir.imports : ImportNameMatches(ir.imports[i].name, {<<"shell">>})
        \/ \E i \in DOMAIN ir.calls : IsSuffix(<<"os", "system">>, ir.calls[i].chain)
  <2>1. /\ "process_exec" \in DOMAIN RiskRules /\ RiskRules["process_exec"].imports = {<<"shell">>}
        /\ RiskRules["process_exec"].calls = {<<"os", "system">>}
    BY RulesAre DEF IsDraft
  <2>2. \A i : (\E p \in {<<"os", "system">>} : IsSuffix(p, ir.calls[i].chain)) <=> IsSuffix(<<"os", "system">>, ir.calls[i].chain)
    OBVIOUS
  <2>3. "process_exec" \in Risks <=>
          \/ \E i \in DOMAIN ir.imports : ImportNameMatches(ir.imports[i].name, RiskRules["process_exec"].imports)
          \/ \E i \in DOMAIN ir.calls : \E p \in RiskRules["process_exec"].calls : IsSuffix(p, ir.calls[i].chain)
    BY <2>1, RisksAreHits, Zenon
  <2> QED BY <2>1, <2>2, <2>3, Zenon
<1>3. \A t \in ImportWords : \A k : ImportNameMatches(ImportOf(t, k).name, {<<"shell">>}) <=> t = Shell
  <2>1. \A t \in ImportWords : t = Shell \/ t = Draw \/ t = Near \/ t = Far
    BY DEF ImportWords
  <2>2. \A k : /\ ImportOf(Shell, k).name = <<"shell">> /\ ImportOf(Draw, k).name = <<"game">>
               /\ ImportOf(Near, k).name = <<".", "shell">> /\ ImportOf(Far, k).name = <<"far", "away">>
    BY ImportsOfTheRun
  <2>3. Draw # Shell /\ Near # Shell /\ Far # Shell
    BY WordsByName
  <2> QED BY <2>1, <2>2, <2>3, BlockedNames, Zenon
<1>4. \A t \in CallWords : IsSuffix(<<"os", "system">>, t.chain) <=> t = System
  <2>1. \A t \in CallWords : t \in {System, Oval, Rect, Append_x, Count_x, List_x}
    BY DEF CallWords
  <2>2. IsSuffix(<<"os", "system">>, <<"os", "system">>)
    BY PairSuffix, Zenon
  <2>3. ~IsSuffix(<<"os", "system">>, <<"draw", "oval">>)
    BY PairSuffix, "system" # "oval", Zenon
  <2>4. ~IsSuffix(<<"os", "system">>, <<"draw", "rect">>)
    BY PairSuffix, "system" # "rect", Zenon
  <2>5. ~IsSuffix(<<"os", "system">>, <<"x", "append">>)
    BY PairSuffix, "system" # "append", Zenon
  <2>6. ~IsSuffix(<<"os", "system">>, <<"x", "count">>) /\ ~IsSuffix(<<"os", "system">>, <<"list">>)
    BY PairSuffix, "system" # "count", Zenon
  <2> QED BY <2>1, <2>2, <2>3, <2>4, <2>5, <2>6, CallsOfTheRun, Zenon
<1>5. (\E i \in DOMAIN ir.imports : ImportNameMatches(ir.imports[i].name, {<<"shell">>})) <=> Has(Shell)
  <2>1. Shell \in ImportWords
    BY DEF ImportWords
  <2> QED BY <1>3, <2>1, RecordsOfTheRun, Zenon
<1>6. (\E i \in DOMAIN ir.calls : IsSuffix(<<"os", "system">>, ir.calls[i].chain)) <=> Has(System)
  <2>1. System \in CallWords
    BY DEF CallWords
  <2> QED BY <1>4, <2>1, RecordsOfTheRun, Zenon
<1> QED BY <1>1, <1>2, <1>5, <1>6

\* What is outside the registered libraries.
LEMMA ExternalLines ==
    ASSUME NEW d, IsDraft(d)
    PROVE  ExternalImports(ir.imports) # {} <=> Has(Far) \/ Has(Shell)
<1> DEFINE outside(r) == ~r.relative /\ r.name # <<>> /\ Head(r.name) \notin StdlibRoots \cup DOMAIN Libraries
<1>1. ExternalImports(ir.imports) # {} <=> \E i \in DOMAIN ir.imports : outside(ir.imports[i])
  BY DEF ExternalImports
<1>2. StdlibRoots \cup DOMAIN Libraries = {"os", "game"}
  BY RulesAre DEF IsDraft
<1>3. ASSUME NEW k PROVE outside(ImportOf(Shell, k)) /\ outside(ImportOf(Far, k))
  <2>1. <<"shell">> # <<>> /\ Head(<<"shell">>) = "shell" /\ <<"far", "away">> # <<>> /\ Head(<<"far", "away">>) = "far"
    OBVIOUS
  <2>2. "shell" \notin {"os", "game"} /\ "far" \notin {"os", "game"} OBVIOUS
  <2> QED BY <1>2, <2>1, <2>2, ImportsOfTheRun, Zenon
<1>4. ASSUME NEW k PROVE ~outside(ImportOf(Draw, k)) /\ ~outside(ImportOf(Near, k))
  <2>1. Head(<<"game">>) = "game" /\ "game" \in {"os", "game"} OBVIOUS
  <2> QED BY <1>2, <2>1, ImportsOfTheRun, Zenon
<1> HIDE DEF outside
<1>5. \A t \in ImportWords : t = Shell \/ t = Draw \/ t = Near \/ t = Far
  BY DEF ImportWords
<1>6. Shell \in ImportWords /\ Far \in ImportWords
  BY DEF ImportWords
<1>7. ASSUME NEW i \in DOMAIN ir.imports, outside(ir.imports[i]) PROVE Has(Far) \/ Has(Shell)
  <2>1. PICK t \in ImportWords, k \in 1..Len(program) : Has(t) /\ ir.imports[i] = ImportOf(t, k)
    BY RecordsOfTheRun, Zenon
  <2>2. outside(ImportOf(t, k))
    BY <1>7, <2>1
  <2> QED BY <1>4, <1>5, <2>1, <2>2, Zenon
<1>8. ASSUME NEW t \in {Shell, Far}, Has(t) PROVE \E i \in DOMAIN ir.imports : outside(ir.imports[i])
  <2>3. t \in ImportWords
    BY <1>6
  <2>1. PICK i \in DOMAIN ir.imports, k \in 1..Len(program) : ir.imports[i] = ImportOf(t, k)
    BY <1>8, <2>3, RecordsOfTheRun, Zenon
  <2>2. outside(ImportOf(t, k))
    BY <1>3
  <2> QED BY <2>1, <2>2
<1> QED BY <1>1, <1>7, <1>8

\* What is bound to a name of the registered library.
LEMMA LibraryNames ==
    ASSUME NEW d, IsDraft(d), NEW local
    PROVE  LET binding == BindingOf(ir.imports, local)
           IN /\ binding.known <=> local = "draw" /\ Has(Draw)
              /\ binding.known => binding.library = "game" /\ binding.path = <<"draw">>
<1> DEFINE s == ir.imports
           B == {i \in DOMAIN s : s[i].bound = local /\ ~s[i].relative /\ s[i].name # <<>> /\ Head(s[i].name) \in DOMAIN Libraries}
           m == Max(B)
           bind == BindingOf(s, local)
           library(r) == ~r.relative /\ r.name # <<>> /\ Head(r.name) \in DOMAIN Libraries
<1>1. DOMAIN Libraries = {"game"}
  BY RulesAre DEF IsDraft
<1>2. ASSUME NEW k PROVE library(ImportOf(Draw, k))
  <2>1. <<"game">> # <<>> /\ Head(<<"game">>) = "game" OBVIOUS
  <2> QED BY <1>1, <2>1, ImportsOfTheRun, Zenon
<1>3. ASSUME NEW k PROVE ~library(ImportOf(Shell, k)) /\ ~library(ImportOf(Near, k)) /\ ~library(ImportOf(Far, k))
  <2>1. Head(<<"shell">>) = "shell" /\ Head(<<"far", "away">>) = "far" /\ "shell" \notin {"game"} /\ "far" \notin {"game"}
    OBVIOUS
  <2> QED BY <1>1, <2>1, ImportsOfTheRun, Zenon
<1>4. \A i \in B : i \in DOMAIN s /\ s[i].bound = local /\ library(s[i]) OBVIOUS
<1>5. \A i \in DOMAIN s : s[i].bound = local /\ library(s[i]) => i \in B OBVIOUS
<1>6. B \in SUBSET Nat /\ Len(s) \in Nat /\ \A i \in B : i <= Len(s)
  <2>1. DOMAIN s = 1..Len(s) /\ Len(s) \in Nat
    BY RecordsOfTheRun, Zenon
  <2>2. B \subseteq DOMAIN s OBVIOUS
  <2> HIDE DEF B, s
  <2> QED BY <2>1, <2>2
<1>7. bind = IF B = {} THEN [known |-> FALSE] ELSE [known |-> TRUE, library |-> Head(s[m].name), path |-> s[m].path]
  BY DEF BindingOf
<1> HIDE DEF library, B, m, bind, s
<1>8. \A t \in ImportWords : t = Shell \/ t = Draw \/ t = Near \/ t = Far
  BY DEF ImportWords
<1>9. ASSUME NEW i \in B PROVE \E k : s[i] = ImportOf(Draw, k) /\ Has(Draw)
  <2>1. PICK t \in ImportWords, k \in 1..Len(program) : Has(t) /\ s[i] = ImportOf(t, k)
    BY <1>4, RecordsOfTheRun, Zenon DEF s
  <2>2. library(ImportOf(t, k))
    BY <1>4, <2>1
  <2> QED BY <1>3, <1>8, <2>1, <2>2, Zenon
<1>10. ASSUME NEW i \in B
       PROVE  local = "draw" /\ Has(Draw) /\ Head(s[i].name) = "game" /\ s[i].path = <<"draw">>
  <2>1. PICK k : s[i] = ImportOf(Draw, k) /\ Has(Draw)
    BY <1>9
  <2>2. s[i].bound = local
    BY <1>4
  <2>3. Head(<<"game">>) = "game" OBVIOUS
  <2> QED BY <2>1, <2>2, <2>3, ImportsOfTheRun, Zenon
<1>11. ASSUME local = "draw", Has(Draw) PROVE B # {}
  <2>1. Draw \in ImportWords
    BY DEF ImportWords
  <2>2. PICK i \in DOMAIN s, k \in 1..Len(program) : s[i] = ImportOf(Draw, k)
    BY <1>11, <2>1, RecordsOfTheRun, Zenon DEF s
  <2>3. s[i].bound = local /\ library(s[i])
    BY <1>2, <1>11, <2>2, ImportsOfTheRun
  <2> QED BY <1>5, <2>3
<1>12. B # {} => m \in B
  BY <1>6, LargestNumber DEF m
<1> QED BY <1>7, <1>10, <1>11, <1>12 DEF bind, s

\* What is called of a registered library without being reviewed.
LEMMA UnreviewedLines ==
    ASSUME NEW d, IsDraft(d)
    PROVE  UnknownApiCalls(ir.imports, ir.calls) # {} <=> Has(Draw) /\ Has(Oval)
<1> DEFINE binding(local) == BindingOf(ir.imports, local)
           unreviewed(chain) ==
             /\ binding(chain[1]).known
             /\ binding(chain[1]).path \o Tail(chain) # <<>>
             /\ binding(chain[1]).path \o Tail(chain) \notin Libraries[binding(chain[1]).library]
<1>1. UnknownApiCalls(ir.imports, ir.calls) # {} <=> \E i \in DOMAIN ir.calls : unreviewed(ir.calls[i].chain)
  BY Zenon DEF UnknownApiCalls
<1>2. \A local : /\ binding(local).known <=> local = "draw" /\ Has(Draw)
                 /\ binding(local).known => binding(local).library = "game" /\ binding(local).path = <<"draw">>
  BY LibraryNames
<1>3. Libraries["game"] = {<<"draw", "rect">>}
  BY RulesAre DEF IsDraft
<1>4. ASSUME NEW b
      PROVE  <<"draw", b>>[1] = "draw" /\ <<"draw">> \o Tail(<<"draw", b>>) = <<"draw", b>> /\ <<"draw", b>> # <<>>
  BY PairsApart
<1> HIDE DEF binding
<1>5. unreviewed(Oval.chain) <=> Has(Draw)
  <2>1. <<"draw", "oval">> # <<"draw", "rect">> OBVIOUS
  <2>2. Oval.chain = <<"draw", "oval">>
    BY CallsOfTheRun
  <2> QED BY <1>2, <1>3, <1>4, <2>1, <2>2, Zenon
<1>6. ~unreviewed(Rect.chain)
  <2>1. Rect.chain = <<"draw", "rect">>
    BY CallsOfTheRun
  <2> QED BY <1>2, <1>3, <1>4, <2>1, Zenon
<1>7. ~unreviewed(System.chain) /\ ~unreviewed(Append_x.chain) /\ ~unreviewed(Count_x.chain) /\ ~unreviewed(List_x.chain)
  <2>1. System.chain[1] # "draw" /\ Append_x.chain[1] # "draw" /\ Count_x.chain[1] # "draw" /\ List_x.chain[1] # "draw"
    BY CallsOfTheRun
  <2> QED BY <1>2, <2>1, Zenon
<1> HIDE DEF unreviewed
<1>8. \A t \in CallWords : t \in {System, Oval, Rect, Append_x, Count_x, List_x}
  BY DEF CallWords
<1>9. Oval \in CallWords
  BY DEF CallWords
<1>10. ASSUME NEW i \in DOMAIN ir.calls, unreviewed(ir.calls[i].chain) PROVE Has(Draw) /\ Has(Oval)
  <2>1. PICK t \in CallWords : Has(t) /\ ir.calls[i].chain = t.chain
    BY RecordsOfTheRun, Zenon
  <2>2. unreviewed(t.chain)
    BY <1>10, <2>1
  <2> QED BY <1>5, <1>6, <1>7, <1>8, <2>1, <2>2, Zenon
<1>11. ASSUME Has(Draw), Has(Oval) PROVE \E i \in DOMAIN ir.calls : unreviewed(ir.calls[i].chain)
  <2>1. PICK i \in DOMAIN ir.calls : ir.calls[i].chain = Oval.chain
    BY <1>9, <1>11, RecordsOfTheRun, Zenon
  <2> QED BY <1>5, <1>11, <2>1
<1> QED BY <1>1, <1>10, <1>11

\* The lines that bind a container of the module, by the reference definitions.
LEMMA StatesByScope ==
    ASSUME NEW d, IsDraft(d)
    PROVE  \A n : n \in ir.module_state_names <=>
                    \E i \in DOMAIN program : /\ program[i].op = "bind" /\ program[i].kind \in Literals /\ program[i].chain = <<>>
                                              /\ ScopesAround(i) = {} /\ program[i].name = n
<1>1. \A i \in 1..Len(program) : ScopesAround(i) = ScopeLines(program, d, i)
  <2>1. SUFFICES ASSUME NEW i \in 1..Len(program) PROVE ScopesAround(i) = ScopeLines(program, d, i)
    OBVIOUS
  <2>2. Enclosing(i) = OpenAt(program, d, i) /\ Len(program) \in Nat
    BY EnclosingIsOpen DEF IsDraft
  <2>3. \A y \in OpenAt(program, d, i) : y \in 1..Len(program)
    BY <2>2 DEF OpenAt
  <2> QED BY <2>2, <2>3 DEF ScopesAround, ScopeLines, OfKind
<1>2. ir.module_state_names = {program[k].name : k \in StateLines(program, d)}
  BY DEF IsDraft, HazardsFollow, StatesInv
<1>3. DOMAIN program = 1..Len(program)
  BY RecordsOfTheRun
<1> QED BY <1>1, <1>2, <1>3 DEF StateLines, BindsState

\* How the mutations that count are told from the lines.
LEMMA ChangesOfTheRun ==
    ASSUME NEW d, IsDraft(d), NEW n \in {"x", "state"}
    PROVE  /\ <<"subscript", "none", n>> \in Changes(ir.mutations) <=> HasLine("store", n, <<>>)
           /\ (\E b \in MutatingMethods : <<"call", b, n>> \in Changes(ir.mutations)) <=> HasLine("call", n, <<n, "append">>)
<1>1. /\ Len(program) \in Nat /\ DOMAIN program = 1..Len(program)
      /\ \A k \in 1..Len(program) : program[k] \in Words
  BY RecordsOfTheRun
<1>2. Changes(ir.mutations)
        = {<<How(program[k]), By(program[k]), Mutated(program[k])>> : k \in {k \in 1..Len(program) : Mutates(program[k])}}
  BY DEF IsDraft, HazardsFollow, MutationsInv
<1>3. \A h, b, m : <<h, b, m>> \in Changes(ir.mutations) <=>
        \E k \in 1..Len(program) : Mutates(program[k]) /\ How(program[k]) = h /\ By(program[k]) = b /\ Mutated(program[k]) = m
  BY <1>2
<1>4. <<"subscript", "none", n>> \in Changes(ir.mutations) <=> HasLine("store", n, <<>>)
  <2>1. \A t : Mutates(t) /\ How(t) = "subscript" /\ By(t) = "none" /\ Mutated(t) = n <=> t.op = "store" /\ t.name = n
    BY DEF Mutates, How, By, Mutated
  <2>2. HasLine("store", n, <<>>) <=> \E k \in 1..Len(program) : program[k].op = "store" /\ program[k].name = n
    BY <1>1, Zenon DEF HasLine
  <2>3. <<"subscript", "none", n>> \in Changes(ir.mutations) <=>
          \E k \in 1..Len(program) : Mutates(program[k]) /\ How(program[k]) = "subscript" /\ By(program[k]) = "none"
                                     /\ Mutated(program[k]) = n
    BY <1>3
  <2> QED BY <2>1, <2>2, <2>3, Zenon
<1>5. \A t, b : Mutates(t) /\ How(t) = "call" /\ By(t) = b /\ Mutated(t) = n
                  <=> t.op = "call" /\ Len(t.chain) = 2 /\ t.chain[1] = n /\ t.chain[2] = b
  BY DEF Mutates, How, By, Mutated
<1>6. \A k \in 1..Len(program) : program[k].op = "call" => program[k] \in CallWords
  BY <1>1, WordsOfTheRun DEF IsDraft, Calls
<1>7. \A t \in CallWords : t \in {System, Oval, Rect, Append_x, Count_x, List_x}
  BY DEF CallWords
<1>8. \A t \in CallWords : Len(t.chain) = 2 /\ t.chain[1] = n /\ t.chain[2] \in MutatingMethods <=> t = Append_x /\ n = "x"
  <2>1. /\ System.chain[1] = "os" /\ Oval.chain[1] = "draw" /\ Rect.chain[1] = "draw"
        /\ Len(Append_x.chain) = 2 /\ Append_x.chain[1] = "x" /\ Append_x.chain[2] = "append"
        /\ Count_x.chain[2] = "count" /\ Len(List_x.chain) = 1
    BY CallsOfTheRun
  <2>2. n # "os" /\ n # "draw" /\ "append" \in MutatingMethods /\ "count" \notin MutatingMethods
    BY DEF MutatingMethods
  <2> QED BY <1>7, <2>1, <2>2, 1 # 2, Zenon
<1>9. \A t \in CallWords : t.op = "call" /\ t.name = n /\ t.chain = <<n, "append">> <=> t = Append_x /\ n = "x"
  <2>1. n # "os" /\ n # "draw" /\ Append_x.op = "call"
    BY DEF Append_x, Line
  <2> QED BY <1>7, <2>1, CallsOfTheRun, WordsByName, Zenon
<1>10. (\E b \in MutatingMethods : <<"call", b, n>> \in Changes(ir.mutations))
         <=> \E k \in 1..Len(program) : program[k] = Append_x /\ n = "x"
  <2> DEFINE X(k, b) == Mutates(program[k]) /\ How(program[k]) = "call" /\ By(program[k]) = b /\ Mutated(program[k]) = n
             Y(k, b) == /\ program[k].op = "call" /\ Len(program[k].chain) = 2
                        /\ program[k].chain[1] = n /\ program[k].chain[2] = b
             Z(k) == program[k] = Append_x /\ n = "x"
  <2>1. \A b : <<"call", b, n>> \in Changes(ir.mutations) <=> \E k \in 1..Len(program) : X(k, b)
    BY <1>3
  <2>2. \A k, b : X(k, b) <=> Y(k, b)
    BY <1>5, Zenon
  <2>3. Append_x.op = "call" /\ Append_x \in CallWords
    BY DEF Append_x, Line, CallWords
  <2>4. \A k \in 1..Len(program) : (\E b \in MutatingMethods : Y(k, b)) <=> Z(k)
    BY <1>6, <1>8, <2>3, Zenon
  <2> HIDE DEF X, Y, Z
  <2>5. (\E b \in MutatingMethods : <<"call", b, n>> \in Changes(ir.mutations)) <=> \E k \in 1..Len(program) : Z(k)
    BY <2>1, <2>2, <2>4
  <2> QED BY <2>5, Zenon DEF Z
<1>11. HasLine("call", n, <<n, "append">>) <=> \E k \in 1..Len(program) : program[k] = Append_x /\ n = "x"
  <2>1. <<n, "append">> # <<>> OBVIOUS
  <2>2. HasLine("call", n, <<n, "append">>) <=>
          \E k \in 1..Len(program) : program[k].op = "call" /\ program[k].name = n /\ program[k].chain = <<n, "append">>
    BY <1>1, <2>1, Zenon DEF HasLine
  <2>3. Append_x \in CallWords
    BY DEF CallWords
  <2> QED BY <1>6, <1>9, <2>2, <2>3, Zenon
<1> QED BY <1>4, <1>10, <1>11

LEMMA MutatedLines ==
    ASSUME NEW d, IsDraft(d)
    PROVE  CalledStates # {} \/ StoredStates # {} <=>
             \E i \in DOMAIN program : /\ program[i].op = "bind" /\ program[i].kind \in Literals
                                       /\ program[i].chain = <<>> /\ ScopesAround(i) = {}
                                       /\ HasLine("store", program[i].name, <<>>)
                                          \/ HasLine("call", program[i].name, <<program[i].name, "append">>)
<1>1. \A h, b, m : <<h, b, m>> \in Changes(ir.mutations) <=>
        \E i \in DOMAIN ir.mutations : ir.mutations[i].how = h /\ ir.mutations[i].method = b /\ ir.mutations[i].target = m
  BY DEF Changes
<1>2. ASSUME NEW n \in ir.module_state_names
      PROVE  /\ n \in StoredStates <=> <<"subscript", "none", n>> \in Changes(ir.mutations)
             /\ n \in CalledStates <=> \E b \in MutatingMethods : <<"call", b, n>> \in Changes(ir.mutations)
  <2> DEFINE M(h, b) == \E i \in DOMAIN ir.mutations : /\ ir.mutations[i].how = h /\ ir.mutations[i].method = b
                                                       /\ ir.mutations[i].target = n
  <2>1. n \in StoredStates <=> M("subscript", "none")
    BY DEF StoredStates, MutatedStates
  <2>2. n \in CalledStates <=> \E b \in MutatingMethods : M("call", b)
    BY DEF CalledStates, MutatedStates
  <2>3. \A h, b : <<h, b, n>> \in Changes(ir.mutations) <=> M(h, b)
    BY <1>1
  <2> HIDE DEF M
  <2> QED BY <2>1, <2>2, <2>3
<1>3. \A n \in ir.module_state_names : n \in {"x", "state"}
  <2>1. \A k \in 1..Len(program) : program[k] \in Words
    BY RecordsOfTheRun
  <2>2. DOMAIN program = 1..Len(program)
    BY RecordsOfTheRun
  <2>3. \A k \in 1..Len(program) : program[k].op = "bind" => program[k].name \in {"x", "state"}
    BY <2>1, WordsOfTheRun DEF IsDraft
  <2> QED BY <2>2, <2>3, StatesByScope, Zenon
<1>4. ASSUME NEW n \in ir.module_state_names
      PROVE  n \in CalledStates \/ n \in StoredStates <=> HasLine("store", n, <<>>) \/ HasLine("call", n, <<n, "append">>)
  BY <1>2, <1>3, ChangesOfTheRun, Zenon
<1>5. CalledStates # {} \/ StoredStates # {} <=>
        \E n \in ir.module_state_names : HasLine("store", n, <<>>) \/ HasLine("call", n, <<n, "append">>)
  <2>1. CalledStates \subseteq ir.module_state_names /\ StoredStates \subseteq ir.module_state_names
    BY DEF CalledStates, StoredStates, MutatedStates
  <2> QED BY <1>4, <2>1
<1> DEFINE P(n) == HasLine("store", n, <<>>) \/ HasLine("call", n, <<n, "append">>)
           H(i) == /\ program[i].op = "bind" /\ program[i].kind \in Literals /\ program[i].chain = <<>>
                   /\ ScopesAround(i) = {}
<1>6. \A n : n \in ir.module_state_names <=> \E i \in DOMAIN program : H(i) /\ program[i].name = n
  BY StatesByScope, Zenon
<1> HIDE DEF P, H
<1>7. (\E n \in ir.module_state_names : P(n)) <=> \E i \in DOMAIN program : H(i) /\ P(program[i].name)
  BY <1>6
<1> QED BY <1>5, <1>7, Zenon DEF P, H

\* What is refused of a draft is what its lines say.
LEMMA LinesAreJudged ==
    ASSUME NEW d, IsDraft(d)
    PROVE  LinesAreRefused
<1> DEFINE judged(findings) == KindsOf(ValidateFindings(findings, Strict, TRUE))
           kinds == judged(WalkFindings)
           others == judged(TreeSitterHazardFindings(Risks, Enforcements))
           blocked == \E c \in Risks : RiskRules[c].enforcement = "hard_block"
<1>1. IsFiniteSet(ir.explicit_globals)
  BY DEF IsDraft, HazardsFollow
<1>2. IsFiniteSet(DOMAIN RiskRules) /\ \A c \in DOMAIN RiskRules : RiskRules[c].enforcement \in {"hard_block", "advisory"}
  <2>1. IsFiniteSet({"process_exec", "network"})
    <3>1. IsFiniteSet({}) /\ IsFiniteSet({} \cup {"process_exec"})
          /\ IsFiniteSet(({} \cup {"process_exec"}) \cup {"network"})
      BY FS_EmptySet, FS_AddElement
    <3>2. ({} \cup {"process_exec"}) \cup {"network"} = {"process_exec", "network"}
      OBVIOUS
    <3> QED BY <3>1, <3>2
  <2> QED BY <2>1, RulesAre DEF IsDraft
<1>3. /\ "import_risk_block" \in kinds <=> blocked
      /\ "import_risk_block" \in others <=> blocked
      /\ "unknown_api" \in kinds <=> UnknownApiCalls(ir.imports, ir.calls) # {}
      /\ "external_dependency" \in kinds <=> ExternalImports(ir.imports) # {}
      /\ "module_state_mutation" \in kinds <=> CalledStates # {} \/ StoredStates # {}
  BY <1>1, <1>2, WalksAreJudged, Zenon
<1> HIDE DEF kinds, others, blocked
<1>4. HasLine("import", "shell", <<>>) \/ HasLine("call", "os", <<"os", "system">>) <=> "import_risk_block" \in kinds
  BY <1>3, BlockedLines, LinesByName, Zenon DEF blocked
<1>5. "import_risk_block" \in kinds <=> "import_risk_block" \in others
  BY <1>3
<1>6. HasLine("import", "draw", <<>>) /\ HasLine("call", "draw", <<"draw", "oval">>) <=> "unknown_api" \in kinds
  BY <1>3, UnreviewedLines, LinesByName, Zenon
<1>7. HasLine("import", "far", <<>>) \/ HasLine("import", "shell", <<>>) <=> "external_dependency" \in kinds
  BY <1>3, ExternalLines, LinesByName, Zenon
<1>8. (\E i \in DOMAIN program : /\ program[i].op = "bind" /\ program[i].kind \in Literals
                                 /\ program[i].chain = <<>> /\ ScopesAround(i) = {}
                                 /\ HasLine("store", program[i].name, <<>>)
                                    \/ HasLine("call", program[i].name, <<program[i].name, "append">>))
        <=> "module_state_mutation" \in kinds
  BY <1>3, MutatedLines, Zenon
<1> QED BY <1>4, <1>5, <1>6, <1>7, <1>8, Zenon DEF LinesAreRefused, kinds, others, Strict
-----------------------------------------------------------------------------
(* What the policy makes of how bad a finding is *)

\* The findings that the policy refuses by default.
IsBad(f) ==
    \/ f.severity = "High" /\ f.code # "wildcard" /\ f.engine # "compilation"
    \/ f.code = "lost_update"
    \/ f.engine = "lint" /\ f.code = "skipped"
    \/ IsRisk(f) /\ RiskEnforcement(f) = "hard_block"
IsJudged(f) ==
    /\ Refuses(f, DefaultPolicy, FALSE) <=> IsBad(f)
    /\ f.engine = "branching" => f.value \in Nat
Tolerated == {"", "bounds_risk", "import_risk_advisory"}

\* A finding that is no risk is refused by default for its kind.
LEMMA JudgedByKind ==
    ASSUME NEW f, ~IsRisk(f), f.engine = "branching" => f.value \in Nat,
           KindOfFinding(f, DefaultPolicy) \notin Tolerated <=> IsBad(f)
    PROVE  IsJudged(f)
<1>1. ViolationKind(f, DefaultPolicy) = KindOfFinding(f, DefaultPolicy)
  BY DEF ViolationKind
<1>2. \A k : Allows(DefaultPolicy, k) <=> k \in {"bounds_risk", "import_risk_advisory"}
  BY DEF Allows, DefaultPolicy
<1>3. \A k : ~IsDemoted(k, DefaultPolicy, FALSE)
  BY DEF IsDemoted
<1>4. Refuses(f, DefaultPolicy, FALSE) <=> KindOfFinding(f, DefaultPolicy) \notin Tolerated
  BY <1>1, <1>2, <1>3 DEF Refuses, Tolerated
<1> QED BY <1>4, Zenon DEF IsJudged

LEMMA RisksAreWeighed ==
    ASSUME NEW f, IsRisk(f), f.severity = "High" => RiskEnforcement(f) = "hard_block"
    PROVE  IsJudged(f)
<1>1. f.engine = "hazards" /\ f.code # "lost_update"
  BY DEF IsRisk
<1>2. ViolationKind(f, DefaultPolicy) = RiskKind(f)
  BY DEF ViolationKind
<1>3. /\ RiskKind(f) = "import_risk_block" <=> RiskEnforcement(f) = "hard_block"
      /\ RiskKind(f) \in {"import_risk_block", "import_risk_advisory"}
  BY DEF RiskKind
<1>4. ~Allows(DefaultPolicy, "import_risk_block") /\ Allows(DefaultPolicy, "import_risk_advisory")
  BY DEF Allows, DefaultPolicy
<1>5. \A k : ~IsDemoted(k, DefaultPolicy, FALSE)
  BY DEF IsDemoted
<1>6. Refuses(f, DefaultPolicy, FALSE) <=> RiskEnforcement(f) = "hard_block"
  BY <1>2, <1>3, <1>4, <1>5 DEF Refuses
<1>7. IsBad(f) <=> RiskEnforcement(f) = "hard_block"
  BY <1>1 DEF IsBad
<1> QED BY <1>1, <1>6, <1>7 DEF IsJudged

LEMMA DepthsAreJudged ==
    ASSUME NEW n \in Nat, NEW l
    PROVE  IsJudged(MathFinding(n, l)) /\ MathFinding(n, l).engine = "math"
<1> DEFINE f == MathFinding(n, l)
<1>1. f.engine = "math" /\ f.value = n /\ f.code = "loops" /\ (f.severity = "High" <=> n >= 3)
  BY DEF MathFinding, Finding
<1> HIDE DEF f
<1>2. ~IsRisk(f)
  BY <1>1 DEF IsRisk
<1>3. KindOfFinding(f, DefaultPolicy) = IF n > 2 THEN "loop_depth" ELSE ""
  BY <1>1 DEF KindOfFinding, DefaultPolicy
<1>4. KindOfFinding(f, DefaultPolicy) \notin Tolerated <=> n > 2
  BY <1>3 DEF Tolerated
<1>5. IsBad(f) <=> n > 2
  BY <1>1, <1>2 DEF IsBad
<1>6. IsJudged(f)
  BY <1>1, <1>2, <1>4, <1>5, JudgedByKind
<1> QED BY <1>1, <1>6 DEF f

LEMMA ComplexitiesAreJudged ==
    ASSUME NEW n \in Nat
    PROVE  IsJudged(BranchingFinding(n))
<1> DEFINE f == BranchingFinding(n)
<1>1. f.engine = "branching" /\ f.value = n /\ f.code = "complexity" /\ (f.severity = "High" <=> n >= 8)
  BY DEF BranchingFinding, Finding
<1> HIDE DEF f
<1>2. ~IsRisk(f)
  BY <1>1 DEF IsRisk
<1>3. KindOfFinding(f, DefaultPolicy) = IF n > 7 THEN "cyclomatic_complexity" ELSE ""
  BY <1>1 DEF KindOfFinding, DefaultPolicy
<1>4. KindOfFinding(f, DefaultPolicy) \notin Tolerated <=> n > 7
  BY <1>3 DEF Tolerated
<1>5. IsBad(f) <=> n > 7
  BY <1>1, <1>2 DEF IsBad
<1>6. IsJudged(f)
  BY <1>1, <1>2, <1>4, <1>5, JudgedByKind
<1> QED BY <1>6 DEF f

\* The findings that have a code and a severity of their own.
LEMMA JudgedByCode ==
    ASSUME NEW f
    PROVE  /\ f.engine = "lint" /\ f.code = "wildcard" => IsJudged(f)
           /\ f.engine = "lint" /\ f.code = "dynamic_member" /\ f.severity = "Warn" => IsJudged(f)
           /\ f.engine = "lint" /\ f.code = "error" /\ f.severity = "High" => IsJudged(f)
           /\ f.engine = "lint" /\ f.code = "skipped" => IsJudged(f)
           /\ f.engine = "compilation" /\ f.code = "fails" => IsJudged(f)
           /\ f.engine = "parse" /\ f.code = "parse" /\ f.severity = "High" => IsJudged(f)
           /\ f.engine = "lint_dispatch" /\ f.code = "skipped" /\ f.severity = "Low" => IsJudged(f)
           /\ f.engine \in {"cost", "bounds", "state_flow"} /\ f.code = "none" /\ f.severity = "Low" => IsJudged(f)
           /\ f.engine = "cost" /\ f.code = "membership" /\ f.severity = "High" => IsJudged(f)
           /\ f.engine = "bounds" /\ f.code = "bounds" /\ f.severity = "Medium" => IsJudged(f)
           /\ f.engine = "state_flow" /\ f.code = "lost_update" => IsJudged(f)
           /\ f.engine = "hazards" /\ f.code \in {"global", "external", "container", "unknown_api"} /\ f.severity = "High"
                => IsJudged(f)
           /\ f.engine = "hazards" /\ f.code = "unsafe" /\ f.enforcement = "" => IsJudged(f)
<1> DEFINE K == KindOfFinding(f, DefaultPolicy)
<1>1. ASSUME f.engine # "branching", f.engine # "hazards", K \notin Tolerated <=> IsBad(f) PROVE IsJudged(f)
  BY <1>1, JudgedByKind DEF IsRisk
<1>2. ASSUME f.engine = "lint" PROVE (f.code = "wildcard" => IsJudged(f)) /\ (f.code = "dynamic_member" /\ f.severity = "Warn" => IsJudged(f))
  <2>1. f.code \in {"wildcard", "dynamic_member"} => K \in Tolerated
    BY <1>2 DEF KindOfFinding, Tolerated
  <2>2. f.code = "wildcard" \/ (f.code = "dynamic_member" /\ f.severity = "Warn") => ~IsBad(f)
    BY <1>2 DEF IsBad, IsRisk
  <2> HIDE DEF K
  <2> QED BY <1>1, <1>2, <2>1, <2>2
<1>3. ASSUME f.engine = "lint" PROVE (f.code = "error" /\ f.severity = "High" => IsJudged(f)) /\ (f.code = "skipped" => IsJudged(f))
  <2>1. f.code \in {"error", "skipped"} => K \notin Tolerated
    BY <1>3 DEF KindOfFinding, Tolerated
  <2>2. f.code = "skipped" \/ (f.code = "error" /\ f.severity = "High") => IsBad(f)
    BY <1>3 DEF IsBad, IsRisk
  <2> HIDE DEF K
  <2> QED BY <1>1, <1>3, <2>1, <2>2
<1>4. ASSUME f.engine = "compilation", f.code = "fails" PROVE IsJudged(f)
  <2>1. K \in Tolerated
    BY <1>4 DEF KindOfFinding, Tolerated
  <2>2. ~IsBad(f)
    BY <1>4 DEF IsBad, IsRisk
  <2> HIDE DEF K
  <2> QED BY <1>1, <1>4, <2>1, <2>2
<1>5. ASSUME f.engine = "parse", f.code = "parse", f.severity = "High" PROVE IsJudged(f)
  <2>1. K \notin Tolerated
    BY <1>5 DEF KindOfFinding, Tolerated
  <2>2. IsBad(f)
    BY <1>5 DEF IsBad, IsRisk
  <2> HIDE DEF K
  <2> QED BY <1>1, <1>5, <2>1, <2>2
<1>6. ASSUME f.engine = "lint_dispatch", f.code = "skipped", f.severity = "Low" PROVE IsJudged(f)
  <2>1. K \in Tolerated
    BY <1>6 DEF KindOfFinding, Tolerated
  <2>2. ~IsBad(f)
    BY <1>6 DEF IsBad, IsRisk
  <2> HIDE DEF K
  <2> QED BY <1>1, <1>6, <2>1, <2>2
<1>7. ASSUME f.engine \in {"cost", "bounds", "state_flow"}, f.code = "none", f.severity = "Low" PROVE IsJudged(f)
  <2>1. K \in Tolerated
    BY <1>7 DEF KindOfFinding, Tolerated
  <2>2. ~IsBad(f)
    BY <1>7 DEF IsBad, IsRisk
  <2> HIDE DEF K
  <2> QED BY <1>1, <1>7, <2>1, <2>2
<1>8. ASSUME f.engine = "cost", f.code = "membership", f.severity = "High" PROVE IsJudged(f)
  <2>1. K \notin Tolerated
    BY <1>8 DEF KindOfFinding, Tolerated
  <2>2. IsBad(f)
    BY <1>8 DEF IsBad, IsRisk
  <2> HIDE DEF K
  <2> QED BY <1>1, <1>8, <2>1, <2>2
<1>9. ASSUME f.engine = "bounds", f.code = "bounds", f.severity = "Medium" PROVE IsJudged(f)
  <2>1. K \in Tolerated
    BY <1>9 DEF KindOfFinding, Tolerated
  <2>2. ~IsBad(f)
    BY <1>9 DEF IsBad, IsRisk
  <2> HIDE DEF K
  <2> QED BY <1>1, <1>9, <2>1, <2>2
<1>10. ASSUME f.engine = "state_flow", f.code = "lost_update" PROVE IsJudged(f)
  <2>1. K \notin Tolerated
    BY <1>10 DEF KindOfFinding, Tolerated
  <2>2. IsBad(f)
    BY <1>10 DEF IsBad, IsRisk
  <2> HIDE DEF K
  <2> QED BY <1>1, <1>10, <2>1, <2>2
<1>11. ASSUME f.engine = "hazards", f.code \in {"global", "external", "container", "unknown_api"}, f.severity = "High"
       PROVE  IsJudged(f)
  <2>1. K \notin Tolerated
    BY <1>11 DEF KindOfFinding, Tolerated
  <2>2. IsBad(f) /\ ~IsRisk(f) /\ f.engine # "branching"
    BY <1>11 DEF IsBad, IsRisk
  <2> HIDE DEF K
  <2> QED BY <2>1, <2>2, JudgedByKind DEF K
<1>12. ASSUME f.engine = "hazards", f.code = "unsafe", f.enforcement = "" PROVE IsJudged(f)
  <2>1. IsRisk(f) /\ RiskEnforcement(f) = "hard_block"
    BY <1>12 DEF IsRisk, RiskEnforcement
  <2> QED BY <2>1, RisksAreWeighed
<1> HIDE DEF K
<1> QED BY <1>2, <1>3, <1>4, <1>5, <1>6, <1>7, <1>8, <1>9, <1>10, <1>11, <1>12, Zenon

LEMMA LinesAreWeighed ==
    ASSUME NEW S
    PROVE  IsJudged(CostFinding(S)) /\ IsJudged(BoundsFinding(S)) /\ IsJudged(StateFlowFinding(S))
<1>1. ASSUME NEW e, NEW c, NEW v
      PROVE  LET f == LinesFinding(e, c, v, S)
             IN f.engine = e /\ ((f.code = c /\ f.severity = v) \/ (f.code = "none" /\ f.severity = "Low"))
  BY DEF LinesFinding, Finding
<1>2. IsJudged(CostFinding(S))
  <2> DEFINE f == CostFinding(S)
  <2>1. f.engine = "cost" /\ ((f.code = "membership" /\ f.severity = "High") \/ (f.code = "none" /\ f.severity = "Low"))
    BY <1>1 DEF CostFinding
  <2> HIDE DEF f
  <2>2. IsJudged(f)
    BY <2>1, JudgedByCode
  <2> QED BY <2>2 DEF f
<1>3. IsJudged(BoundsFinding(S))
  <2> DEFINE f == BoundsFinding(S)
  <2>1. f.engine = "bounds" /\ ((f.code = "bounds" /\ f.severity = "Medium") \/ (f.code = "none" /\ f.severity = "Low"))
    BY <1>1 DEF BoundsFinding
  <2> HIDE DEF f
  <2>2. IsJudged(f)
    BY <2>1, JudgedByCode
  <2> QED BY <2>2 DEF f
<1>4. IsJudged(StateFlowFinding(S))
  <2> DEFINE f == StateFlowFinding(S)
  <2>1. f.engine = "state_flow" /\ ((f.code = "lost_update" /\ f.severity = "Medium") \/ (f.code = "none" /\ f.severity = "Low"))
    BY <1>1 DEF StateFlowFinding
  <2> HIDE DEF f
  <2>2. IsJudged(f)
    BY <2>1, JudgedByCode
  <2> QED BY <2>2 DEF f
<1> QED BY <1>2, <1>3, <1>4

LEMMA ImportsAreWeighed ==
    ASSUME NEW c, NEW e
    PROVE  IsJudged(RiskFinding(c, e)) /\ RiskFinding(c, e).engine = "hazards"
<1> DEFINE f == RiskFinding(c, e)
<1>1. /\ f.engine = "hazards" /\ f.code = "import_risk" /\ f.enforcement = e
      /\ f.severity = IF e = "hard_block" THEN "High" ELSE "Medium"
  BY DEF RiskFinding, Finding
<1> HIDE DEF f
<1>2. IsRisk(f) /\ (f.severity = "High" => RiskEnforcement(f) = "hard_block")
  BY <1>1 DEF IsRisk, RiskEnforcement
<1>3. IsJudged(f)
  BY <1>2, RisksAreWeighed
<1> QED BY <1>1, <1>3 DEF f

\* A list of findings that are judged by how bad they are.
AllJudged(s) == IsSeq(s) /\ \A f \in ToSet(s) : IsJudged(f)

LEMMA JudgedLists ==
    /\ \A f : IsJudged(f) => AllJudged(<<f>>)
    /\ AllJudged(<<>>)
    /\ \A s, u : AllJudged(s) /\ AllJudged(u) => AllJudged(s \o u)
<1>1. ASSUME NEW f, IsJudged(f) PROVE AllJudged(<<f>>)
  BY <1>1, SmallSequences DEF AllJudged
<1>2. AllJudged(<<>>)
  BY SmallSequences DEF AllJudged
<1>3. ASSUME NEW s, NEW u, AllJudged(s), AllJudged(u) PROVE AllJudged(s \o u)
  <2>1. IsSeq(s \o u) /\ ToSet(s \o u) = ToSet(s) \cup ToSet(u)
    BY <1>3, JoinedTwo DEF AllJudged
  <2> QED BY <1>3, <2>1, Zenon DEF AllJudged
<1> QED BY <1>1, <1>2, <1>3

\* The findings of the engines that measure nothing.
LEMMA FindingsByCode ==
    ASSUME NEW v, NEW l
    PROVE  /\ IsJudged(Finding("lint", "wildcard", "High", v, l))
           /\ IsJudged(Finding("lint", "dynamic_member", "Warn", v, l))
           /\ IsJudged(Finding("lint", "error", "High", v, l))
           /\ IsJudged(Finding("lint", "skipped", "Low", v, l))
           /\ IsJudged(Finding("compilation", "fails", "High", v, l))
           /\ IsJudged(Finding("lint_dispatch", "skipped", "Low", v, l))
           /\ IsJudged(Finding("parse", "parse", "High", v, l))
<1> DEFINE of(e, c, s) == Finding(e, c, s, v, l)
<1>1. \A e, c, s : of(e, c, s).engine = e /\ of(e, c, s).code = c /\ of(e, c, s).severity = s
  BY DEF Finding
<1> HIDE DEF of
<1>2. ASSUME NEW e, NEW c, NEW s,
             \/ e = "lint" /\ c \in {"wildcard", "skipped"}
             \/ e = "lint" /\ c = "dynamic_member" /\ s = "Warn"
             \/ e = "lint" /\ c = "error" /\ s = "High"
             \/ e = "compilation" /\ c = "fails"
             \/ e = "lint_dispatch" /\ c = "skipped" /\ s = "Low"
             \/ e = "parse" /\ c = "parse" /\ s = "High"
      PROVE  IsJudged(of(e, c, s))
  <2>1. PICK f : f = of(e, c, s)
    OBVIOUS
  <2>2. f.engine = e /\ f.code = c /\ f.severity = s
    BY <1>1, <2>1
  <2> QED BY <1>2, <2>1, <2>2, JudgedByCode
<1> QED BY <1>2 DEF of

LEMMA LintsAreJudged ==
    AllJudged(LintFindings("reported", 1, 1, 1)) /\ AllJudged(LintFindings("timeout", 1, 1, 1))
<1> DEFINE a == [i \in 1..1 |-> Finding("lint", "wildcard", "High", 0, i)]
           b == [i \in 1..1 |-> Finding("lint", "dynamic_member", "Warn", 0, i)]
           c == [i \in 1..1 |-> Finding("lint", "error", "High", 0, i)]
           s == <<Finding("lint", "skipped", "Low", 0, 0)>>
<1>2. \A i : IsJudged(Finding("lint", "wildcard", "High", 0, i))
  BY FindingsByCode, Zenon
<1>3. \A i : IsJudged(Finding("lint", "dynamic_member", "Warn", 0, i))
  BY FindingsByCode, Zenon
<1>4. \A i : IsJudged(Finding("lint", "error", "High", 0, i))
  BY FindingsByCode, Zenon
<1>5. AllJudged(s)
  <2>1. IsJudged(Finding("lint", "skipped", "Low", 0, 0))
    BY FindingsByCode, Zenon
  <2> QED BY <2>1, JudgedLists, Zenon
<1>6. ASSUME NEW x, x = [i \in 1..1 |-> x[i]], \A i \in 1..1 : IsJudged(x[i]) PROVE AllJudged(x)
  <2>1. IsSeq(x) /\ ToSet(x) = {x[i] : i \in 1..1}
    BY <1>6, ListOf
  <2> QED BY <1>6, <2>1 DEF AllJudged
<1>7. AllJudged(a) /\ AllJudged(b) /\ AllJudged(c)
  <2>1. a = [i \in 1..1 |-> a[i]] /\ \A i \in 1..1 : IsJudged(a[i])
    BY <1>2
  <2>2. b = [i \in 1..1 |-> b[i]] /\ \A i \in 1..1 : IsJudged(b[i])
    BY <1>3
  <2>3. c = [i \in 1..1 |-> c[i]] /\ \A i \in 1..1 : IsJudged(c[i])
    BY <1>4
  <2> HIDE DEF a, b, c
  <2> QED BY <1>6, <2>1, <2>2, <2>3
<1>8. LintFindings("reported", 1, 1, 1) = a \o b \o c /\ LintFindings("timeout", 1, 1, 1) = s
  BY DEF LintFindings
<1> HIDE DEF a, b, c, s
<1>9. AllJudged(a \o b \o c)
  BY <1>7, JudgedLists, Zenon
<1> QED BY <1>5, <1>8, <1>9

LEMMA OthersAreJudged ==
    /\ AllJudged(CompilationFindings("fails"))
    /\ AllJudged(FindingsFor(TRUE, <<>>, "fails", <<>>)) /\ AllJudged(FindingsFor(FALSE, <<>>, "answers", <<>>))
    /\ \A c \in {"global", "external", "container", "unknown_api", "unsafe"} : IsJudged(Finding("hazards", c, "High", 0, 0))
<1>2. AllJudged(CompilationFindings("fails"))
  <2>1. CompilationFindings("fails") = <<Finding("compilation", "fails", "High", 0, 0)>>
    BY DEF CompilationFindings
  <2>2. IsJudged(Finding("compilation", "fails", "High", 0, 0))
    BY FindingsByCode, Zenon
  <2> QED BY <2>1, <2>2, JudgedLists, Zenon
<1>3. AllJudged(FindingsFor(TRUE, <<>>, "fails", <<>>))
  <2>1. FindingsFor(TRUE, <<>>, "fails", <<>>) = <<>> \o <<Finding("lint_dispatch", "skipped", "Low", 0, 0)>>
    BY DEF FindingsFor
  <2>2. IsJudged(Finding("lint_dispatch", "skipped", "Low", 0, 0))
    BY FindingsByCode, Zenon
  <2> QED BY <2>1, <2>2, JudgedLists, Zenon
<1>4. AllJudged(FindingsFor(FALSE, <<>>, "answers", <<>>))
  <2>1. FindingsFor(FALSE, <<>>, "answers", <<>>) = <<Finding("parse", "parse", "High", 0, 0)>>
    BY DEF FindingsFor, ParseFindings
  <2>2. IsJudged(Finding("parse", "parse", "High", 0, 0))
    BY FindingsByCode, Zenon
  <2> QED BY <2>1, <2>2, JudgedLists, Zenon
<1>5. \A c \in {"global", "external", "container", "unknown_api", "unsafe"} : IsJudged(Finding("hazards", c, "High", 0, 0))
  <2>1. SUFFICES ASSUME NEW c \in {"global", "external", "container", "unknown_api", "unsafe"}
                 PROVE  IsJudged(Finding("hazards", c, "High", 0, 0))
    OBVIOUS
  <2>2. c = "unsafe" \/ c \in {"global", "external", "container", "unknown_api"}
    OBVIOUS
  <2> DEFINE f == Finding("hazards", c, "High", 0, 0)
  <2>3. f.engine = "hazards" /\ f.code = c /\ f.severity = "High" /\ f.enforcement = ""
    BY DEF Finding
  <2> HIDE DEF f
  <2>4. IsJudged(f)
    BY <2>2, <2>3, JudgedByCode
  <2> QED BY <2>4 DEF f
<1> QED BY <1>2, <1>3, <1>4, <1>5

\* The findings that the run enumerates.
LEMMA SomeFindingsAreJudged ==
    ASSUME NEW f \in SomeFindings
    PROVE  IsJudged(f)
<1> DEFINE A == {MathFinding(d, 1) : d \in 0..4}
           B == {BranchingFinding(c) : c \in {1, 4, 5, 7, 8, 10}}
           C == {CostFinding(l) : l \in {{}, {2}}}
           D == {BoundsFinding(l) : l \in {{}, {2}}}
           E == {StateFlowFinding({3})}
           F == {RiskFinding(c, e) : c \in DOMAIN RiskRules, e \in SomeEnforcements}
           G == ToSet(LintFindings("reported", 1, 1, 1))
           H == ToSet(LintFindings("timeout", 1, 1, 1))
           I == ToSet(CompilationFindings("fails"))
           J == ToSet(FindingsFor(TRUE, <<>>, "fails", <<>>))
           K == ToSet(FindingsFor(FALSE, <<>>, "answers", <<>>))
           L == {Finding("hazards", c, "High", 0, 0) : c \in {"global", "external", "container", "unknown_api", "unsafe"}}
<1>1. SomeFindings = A \cup B \cup C \cup D \cup E \cup F \cup G \cup H \cup I \cup J \cup K \cup L
  BY DEF SomeFindings
<1>2. f \in A => IsJudged(f)
  <2>1. \A n \in 0..4 : n \in Nat OBVIOUS
  <2> QED BY <2>1, DepthsAreJudged, Zenon
<1>3. f \in B => IsJudged(f)
  <2>1. \A n \in {1, 4, 5, 7, 8, 10} : n \in Nat OBVIOUS
  <2> QED BY <2>1, ComplexitiesAreJudged, Zenon
<1>4. f \in C \/ f \in D \/ f \in E => IsJudged(f)
  BY LinesAreWeighed, Zenon
<1>5. ASSUME f \in F PROVE IsJudged(f)
  <2>1. PICK c \in DOMAIN RiskRules, e \in SomeEnforcements : f = RiskFinding(c, e)
    BY <1>5
  <2> QED BY <2>1, ImportsAreWeighed
<1>6. f \in G \/ f \in H => IsJudged(f)
  BY LintsAreJudged, Zenon DEF AllJudged
<1>7. f \in I \/ f \in J \/ f \in K \/ f \in L => IsJudged(f)
  BY OthersAreJudged, Zenon DEF AllJudged
<1> HIDE DEF A, B, C, D, E, F, G, H, I, J, K, L
<1> QED BY <1>1, <1>2, <1>3, <1>4, <1>5, <1>6, <1>7

\* What is refused only of an unverified draft is structure.
LEMMA DemotionsAreStructural ==
    ASSUME NEW findings, IsSeq(findings), NEW policy, NEW verified
    PROVE  ToSet(ValidateFindings(findings, policy, FALSE).violations)
             \ ToSet(ValidateFindings(findings, policy, verified).violations)
             \subseteq {v \in ToSet(ValidateFindings(findings, policy, FALSE).violations) : v.kind \in StructuralQualityKinds}
<1> DEFINE S == ToSet(ValidateFindings(findings, policy, FALSE).violations)
           V == ToSet(ValidateFindings(findings, policy, verified).violations)
           of(x) == {f \in ToSet(findings) : Refuses(f, policy, x)}
<1>1. S = {Refusal(f, policy) : f \in of(FALSE)} /\ V = {Refusal(f, policy) : f \in of(verified)}
  BY VerdictsAreOfFindings
<1>2. ASSUME NEW f \in of(FALSE), f \notin of(verified) PROVE ViolationKind(f, policy) \in StructuralQualityKinds
  BY <1>2 DEF Refuses, IsDemoted
<1>3. \A f : Refusal(f, policy).kind = ViolationKind(f, policy)
  BY DEF Refusal, Violation
<1> HIDE DEF S, V, of
<1>4. S \ V \subseteq {v \in S : v.kind \in StructuralQualityKinds}
  BY <1>1, <1>2, <1>3
<1> QED BY <1>4 DEF S, V
-----------------------------------------------------------------------------
(* The policy on two findings *)

\* What PolicyFollowsSeverity says of the findings under a policy.
FollowsSeverity(findings, policy, verified) ==
    LET verdict == ValidateFindings(findings, policy, verified)
        strict == ValidateFindings(findings, policy, FALSE)
        high(f) == f.severity = "High" /\ f.code # "wildcard" /\ f.engine # "compilation"
    IN /\ policy = DefaultPolicy =>
            (strict.is_compliant <=> \A i \in DOMAIN findings :
                LET f == findings[i]
                IN ~high(f) /\ f.code # "lost_update" /\ ~(f.engine = "lint" /\ f.code = "skipped")
                   /\ ~(IsRisk(f) /\ RiskEnforcement(f) = "hard_block"))
       /\ verdict.advisories = strict.advisories
       /\ ToSet(strict.violations) \ ToSet(verdict.violations) \subseteq
            {v \in ToSet(strict.violations) : v.kind \in StructuralQualityKinds}
       /\ verdict.is_compliant = (verdict.violations = <<>>)
       /\ "cyclomatic_complexity" \in KindsOf(strict) => Route(findings) # "one_pass"

LEMMA PairOfFindings ==
    ASSUME NEW f, NEW g
    PROVE  /\ IsSeq(<<f, g>>) /\ ToSet(<<f, g>>) = {f, g} /\ DOMAIN <<f, g>> = {1, 2}
           /\ <<f, g>>[1] = f /\ <<f, g>>[2] = g
<1>1. <<f, g>> \in Seq({f, g}) /\ DOMAIN <<f, g>> = {1, 2} /\ <<f, g>>[1] = f /\ <<f, g>>[2] = g
  OBVIOUS
<1>2. ToSet(<<f, g>>) = {f, g}
  BY <1>1 DEF ToSet
<1> QED BY <1>1, <1>2 DEF IsSeq

\* A function with many branches is refused only if it is the first to be routed.
LEMMA BranchingIsRouted ==
    ASSUME NEW f, NEW g, g.engine # "branching", f.engine = "branching" => f.value \in Nat, NEW policy,
           policy.max_cyclomatic_complexity = 7,
           NEW x \in {f, g}, ViolationKind(x, policy) = "cyclomatic_complexity"
    PROVE  Route(<<f, g>>) # "one_pass"
<1>1. x.engine = "branching" /\ x.value > 7
  BY DEF ViolationKind, RiskKind, KindOfFinding
<1>2. x = f
  BY <1>1
<1>3. f.value \in Nat /\ ~(f.value < 5)
  BY <1>1, <1>2
<1> DEFINE s == <<f, g>>
           B == {i \in DOMAIN s : s[i].engine = "branching"}
<1>4. DOMAIN s = {1, 2} /\ s[1] = f /\ s[2] = g
  BY PairOfFindings
<1> HIDE DEF s
<1>5. B = {1}
  BY <1>1, <1>2, <1>4
<1>6. Min({1}) = 1
  BY DEF Min
<1>7. Route(s) = LET c == IF B = {} THEN 0 ELSE s[Min(B)].value
                 IN IF c < 5 THEN "one_pass" ELSE IF c < 10 THEN "iterative_retry" ELSE "decompose_and_generate"
  BY DEF Route
<1>8. Route(s) = IF f.value < 5 THEN "one_pass" ELSE IF f.value < 10 THEN "iterative_retry" ELSE "decompose_and_generate"
  BY <1>4, <1>5, <1>6, <1>7
<1> QED BY <1>3, <1>8 DEF s

LEMMA TwoFindings ==
    ASSUME NEW f, IsJudged(f), NEW g, IsJudged(g), g.engine # "branching",
           NEW policy, policy.max_cyclomatic_complexity = 7, NEW verified
    PROVE  FollowsSeverity(<<f, g>>, policy, verified)
<1> DEFINE s == <<f, g>>
           verdict == ValidateFindings(s, policy, verified)
           strict == ValidateFindings(s, policy, FALSE)
<1>1. IsSeq(s) /\ ToSet(s) = {f, g} /\ DOMAIN s = {1, 2} /\ s[1] = f /\ s[2] = g
  BY PairOfFindings
<1> HIDE DEF s
<1>2. verdict.advisories = strict.advisories
  BY DEF ValidateFindings
<1>3. ToSet(strict.violations) \ ToSet(verdict.violations) \subseteq
        {v \in ToSet(strict.violations) : v.kind \in StructuralQualityKinds}
  BY <1>1, DemotionsAreStructural
<1>4. /\ KindsOf(strict) = {ViolationKind(x, policy) : x \in {x \in ToSet(s) : Refuses(x, policy, FALSE)}}
      /\ strict.is_compliant <=> {x \in ToSet(s) : Refuses(x, policy, FALSE)} = {}
      /\ verdict.is_compliant = (verdict.violations = <<>>)
  BY <1>1, VerdictsAreOfFindings
<1> HIDE DEF verdict, strict
<1>5. "cyclomatic_complexity" \in KindsOf(strict) => Route(s) # "one_pass"
  <2>1. SUFFICES ASSUME "cyclomatic_complexity" \in KindsOf(strict) PROVE Route(s) # "one_pass"
    OBVIOUS
  <2>2. PICK x \in {f, g} : ViolationKind(x, policy) = "cyclomatic_complexity"
    BY <1>1, <1>4, <2>1
  <2>3. f.engine = "branching" => f.value \in Nat
    BY Zenon DEF IsJudged
  <2> QED BY <2>2, <2>3, BranchingIsRouted DEF s
<1>6. policy = DefaultPolicy => (strict.is_compliant <=> ~IsBad(f) /\ ~IsBad(g))
  <2>1. (Refuses(f, DefaultPolicy, FALSE) <=> IsBad(f)) /\ (Refuses(g, DefaultPolicy, FALSE) <=> IsBad(g))
    BY Zenon DEF IsJudged
  <2> QED BY <1>1, <1>4, <2>1
<1>7. (~IsBad(f) /\ ~IsBad(g)) <=> \A i \in DOMAIN s : ~IsBad(s[i])
  BY <1>1
<1>8. (\A i \in DOMAIN s : ~IsBad(s[i])) <=>
        \A i \in DOMAIN s :
            /\ ~(s[i].severity = "High" /\ s[i].code # "wildcard" /\ s[i].engine # "compilation")
            /\ s[i].code # "lost_update" /\ ~(s[i].engine = "lint" /\ s[i].code = "skipped")
            /\ ~(IsRisk(s[i]) /\ RiskEnforcement(s[i]) = "hard_block")
  BY Zenon DEF IsBad
<1>9. policy = DefaultPolicy =>
        (strict.is_compliant <=> \A i \in DOMAIN s :
            /\ ~(s[i].severity = "High" /\ s[i].code # "wildcard" /\ s[i].engine # "compilation")
            /\ s[i].code # "lost_update" /\ ~(s[i].engine = "lint" /\ s[i].code = "skipped")
            /\ ~(IsRisk(s[i]) /\ RiskEnforcement(s[i]) = "hard_block"))
  BY <1>6, <1>7, <1>8, Zenon
<1>10. FollowsSeverity(s, policy, verified)
  BY <1>2, <1>3, <1>4, <1>5, <1>9, Zenon DEF FollowsSeverity, verdict, strict
<1> QED BY <1>10 DEF s

\* The policy gates that are enumerated.
LEMMA PoliciesFollowSeverity ==
    ASSUME gate \in PolicyGate
    PROVE  PolicyFollowsSeverity
<1> DEFINE Others == {MathFinding(3, 1), MathFinding(1, 1), RiskFinding("process_exec", "hard_block")}
<1>1. \A g \in Others : IsJudged(g) /\ g.engine # "branching"
  <2>1. IsJudged(MathFinding(3, 1)) /\ MathFinding(3, 1).engine = "math"
    BY DepthsAreJudged
  <2>2. IsJudged(MathFinding(1, 1)) /\ MathFinding(1, 1).engine = "math"
    BY DepthsAreJudged
  <2>3. IsJudged(RiskFinding("process_exec", "hard_block")) /\ RiskFinding("process_exec", "hard_block").engine = "hazards"
    BY ImportsAreWeighed
  <2> QED BY <2>1, <2>2, <2>3
<1>2. \A p \in Policies : p.max_cyclomatic_complexity = 7
  <2> DEFINE A == {DefaultPolicy.allowed, {}, {"unsafe_calls", "algorithmic_cost"}}
             of(a, d) == [DefaultPolicy EXCEPT !.allowed = a, !.demote = d]
  <2>1. \A a, d : of(a, d).max_cyclomatic_complexity = 7
    BY DEF DefaultPolicy
  <2>2. Policies = {of(a, d) : a \in A, d \in BOOLEAN}
    BY DEF Policies
  <2> HIDE DEF A, of
  <2> QED BY <2>1, <2>2
<1>3. PolicyGate = {[topic |-> "policy", findings |-> <<f, g>>, policy |-> p, verified |-> v] :
                       f \in SomeFindings, g \in Others, p \in Policies, v \in BOOLEAN}
  BY DEF PolicyGate
<1> HIDE DEF Others
<1>4. PICK f \in SomeFindings, g \in Others, p \in Policies, v \in BOOLEAN :
             gate = [topic |-> "policy", findings |-> <<f, g>>, policy |-> p, verified |-> v]
  BY <1>3
<1>5. IsJudged(f)
  BY SomeFindingsAreJudged
<1>6. FollowsSeverity(<<f, g>>, p, v)
  BY <1>1, <1>2, <1>5, TwoFindings
<1> DEFINE s == <<f, g>>
<1>7. gate.findings = s /\ gate.policy = p /\ gate.verified = v
  BY <1>4
<1>8. FollowsSeverity(s, p, v)
  BY <1>6
<1> HIDE DEF s
<1>9. FollowsSeverity(gate.findings, gate.policy, gate.verified)
  BY <1>7, <1>8
<1> QED BY <1>9, Zenon DEF PolicyFollowsSeverity, FollowsSeverity

\* Invariant HazardsAreRefused: of a draft of any length over the words of the run,
\* what its lines say is refused, and of the findings around the thresholds what
\* their severity says, under each policy (policy.py:143, hazards_engine.py:324).
THEOREM RefusalsAreSound ==
    ASSUME RulesOfTheRun
    PROVE  OperatorsSpec => []HazardsAreRefused
<1>1. WalkInv /\ GateInv => HazardsAreRefused
  <2>1. SUFFICES ASSUME WalkInv, GateInv PROVE HazardsAreRefused
    OBVIOUS
  <2>2. PICK d : WalkFollows(d)
    BY <2>1 DEF WalkInv
  <2>3. IsDraft(d)
    BY <2>2 DEF WalkFollows, IsDraft
  <2>4. LinesAreRefused
    BY <2>3, LinesAreJudged, Zenon
  <2>5. PolicyFollowsSeverity
    <3>1. CASE gate.topic = "policy" BY <2>1, <3>1, PoliciesFollowSeverity, Zenon DEF GateInv
    <3>2. CASE gate.topic # "policy" BY <3>2, Zenon DEF PolicyFollowsSeverity
    <3> QED BY <3>1, <3>2
  <2> QED BY <2>4, <2>5 DEF HazardsAreRefused
<1> QED BY <1>1, WalksAreRecorded, GateIsEnumerated, PTL

\* The second half of RepairIsComplete: a draft gets one verdict from the contract
\* check, registered or not, and no check that was asked for and could not answer
\* lets it pass, for every answer of the two tools (generation_controller.py:625,
\* tool_handlers.py:320).
THEOREM FormalVerdictsAgree == OperatorsSpec => []FormalVerdictIsOne
<1>1. ASSUME NEW deal, NEW enabled, NEW crosshair
      PROVE  /\ FormalGate("registered", deal, enabled, crosshair) = FormalGate("unknown_tool", deal, enabled, crosshair)
             /\ FormalGate("raises", deal, enabled, crosshair) = "fails"
             /\ deal.mentioned /\ deal.installed /\ (deal.outcome # "json" \/ deal.issues > 0)
                  => FormalGate("registered", deal, enabled, crosshair) = "fails"
             /\ FormalGate("registered", deal, enabled, crosshair) = "skips" => ~enabled \/ ~crosshair.installed
  <2>1. DealVerdict(deal) \in {"skips", "fails", "passes"}
    BY DEF DealVerdict
  <2>2. FormalGate("registered", deal, enabled, crosshair) = FormalGate("unknown_tool", deal, enabled, crosshair)
    BY <2>1 DEF FormalGate, FormalHandler
  <2>3. FormalGate("raises", deal, enabled, crosshair) = "fails"
    BY DEF FormalGate
  <2>4. deal.mentioned /\ deal.installed /\ (deal.outcome # "json" \/ deal.issues > 0)
          => FormalGate("registered", deal, enabled, crosshair) = "fails"
    BY DEF FormalGate, FormalHandler, DealVerdict
  <2>5. FormalGate("registered", deal, enabled, crosshair) = "skips" => ~enabled \/ ~crosshair.installed
    BY <2>1 DEF FormalGate, FormalHandler, CrossHairVerdict
  <2> QED BY <2>2, <2>3, <2>4, <2>5
<1>2. FormalVerdictIsOne
  BY <1>1, Zenon DEF FormalVerdictIsOne
<1> QED BY <1>2, PTL
=============================================================================
