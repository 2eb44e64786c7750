----------------------------- MODULE Scheduler -----------------------------
(***************************************************************************)
(* OrchestrationSession (harness_kernel/orchestration.py): the asyncio      *)
(* scheduler that runs the nodes of one approved graph revision.            *)
(*                                                                          *)
(* run() is one coroutine.  It is modelled by its position pc:              *)
(*   idle      run() has not been called                                    *)
(*   blocked   suspended in _pause.wait(), the event is clear               *)
(*   woken     the event was set; the coroutine is scheduled to continue    *)
(*   open      past _pause.wait() without suspending                        *)
(*   dispatch  in the "for node_id in order" pass, at Order[cursor]         *)
(*   yield     suspended in asyncio.sleep(0)                                *)
(*   wait      suspended in asyncio.wait(..., FIRST_COMPLETED)              *)
(*   process   handling the finished tasks collected in doneTasks           *)
(*   done      returned;  raised: left by an exception                      *)
(* Agents and the session's control methods run only while the coroutine    *)
(* is suspended (pc not in Executing): the event loop never preempts it.    *)
(*                                                                          *)
(* A definition whose name ends in _Mutant is no part of the specification: *)
(* it is a plausible bug that a property of the runs is shown to catch.     *)
(***************************************************************************)
EXTENDS Integers, Sequences, FiniteSets

CONSTANTS
    Nodes,          \* node identifiers of the graph
    Deps,           \* Deps[n]: the nodes n depends on
    Ancestors,      \* Ancestors[n]: the nodes m with depends_on(n, m)
    Editing,        \* nodes with write claims
    Overlaps,       \* pairs of nodes whose write claims overlap
    Order,          \* the topological order of the graph
    Providers,      \* provider names
    Rotation,       \* Rotation[n]: n's provider policy, one entry per unit of weight
    NoProvider,     \* value of providers[n] before n is dispatched
    Concurrency,    \* the session's concurrency limit
    Controls,       \* the control methods the operator uses
    Breakable,      \* the nodes the operator puts breakpoints on
    InitialStates   \* node states the session may be restored with

NodeState == {"pending", "running", "succeeded", "failed", "blocked", "cancelled"}
Open == {"pending", "running"}
Bad == {"failed", "blocked", "cancelled"}

ASSUME NodesAssumption ==
    /\ IsFiniteSet(Nodes)
    /\ Deps \in [Nodes -> SUBSET Nodes]
    /\ Editing \subseteq Nodes
    /\ Breakable \subseteq Nodes
    /\ Concurrency \in 1..8

\* What TaskGraph.topological_order returns for an acyclic graph.
ASSUME OrderAssumption ==
    /\ Order \in Seq(Nodes)
    /\ \A n \in Nodes : \E i \in DOMAIN Order : Order[i] = n
    /\ \A i, j \in DOMAIN Order : Order[i] = Order[j] => i = j
    /\ \A i \in DOMAIN Order : \A d \in Deps[Order[i]] :
          \E j \in DOMAIN Order : j < i /\ Order[j] = d

\* What TaskGraph.depends_on and the write-conflict check establish.
ASSUME ClaimsAssumption ==
    /\ Ancestors \in [Nodes -> SUBSET Nodes]
    /\ \A n \in Nodes : Ancestors[n] = Deps[n] \cup UNION {Ancestors[d] : d \in Deps[n]}
    /\ Overlaps \subseteq Editing \X Editing
    /\ \A m, n \in Editing : m # n /\ <<m, n>> \in Overlaps =>
          m \in Ancestors[n] \/ n \in Ancestors[m]

ASSUME RoutingAssumption ==
    /\ NoProvider \notin Providers
    /\ \A n \in Nodes : Rotation[n] \in Seq(Providers) /\ Len(Rotation[n]) > 0

\* A restored session has no running node: the runtime turns those to pending.
ASSUME RestoredAssumption == InitialStates \subseteq [Nodes -> NodeState \ {"running"}]

Unlimited == -1     \* _dispatch_budget is None

VARIABLES
    approved,       \* approved_hash is the revision's hash
    states,         \* the session's states
    providers,      \* provider a node was dispatched to
    mergeQueue,     \* the session's merge_queue
    proposals,      \* nodes whose workspace is retained as a proposal
    breakpoints,    \* the session's breakpoints
    budget,         \* _dispatch_budget
    paused,         \* the _pause event is clear
    cancelled,      \* _cancelled
    pc, cursor,     \* position of run(), and of its dispatch pass
    dispatchIndex,  \* dispatch_index of run()
    tasks,          \* the agent task of each node in run()'s "running"
    doneTasks       \* finished tasks still to be handled by run()

sessionVars == <<approved, breakpoints, budget, paused, cancelled>>
resultVars == <<states, providers, mergeQueue, proposals>>
runVars == <<pc, cursor, dispatchIndex, tasks, doneTasks>>
vars == <<approved, states, providers, mergeQueue, proposals, breakpoints, budget,
          paused, cancelled, pc, cursor, dispatchIndex, tasks, doneTasks>>

Executing == {"open", "dispatch", "process"}
Ended == {"done", "raised"}

Running == {n \in Nodes : tasks[n] # "none"}
Finished == {n \in Nodes : tasks[n] \in {"ok", "failed"}}
ProviderFor(n, index) == Rotation[n][(index % Len(Rotation[n])) + 1]

Init ==
    /\ approved = FALSE
    /\ states \in InitialStates
    /\ providers = [n \in Nodes |-> NoProvider]
    /\ mergeQueue = <<>>
    /\ proposals = {}
    /\ breakpoints = {}
    /\ budget = Unlimited
    /\ paused = FALSE
    /\ cancelled = FALSE
    /\ pc = "idle"
    /\ cursor = 1
    /\ dispatchIndex = 0
    /\ tasks = [n \in Nodes |-> "none"]
    /\ doneTasks = {}
-----------------------------------------------------------------------------
(* The control methods, called from other callbacks of the event loop. *)

MayControl(name) == name \in Controls /\ pc \notin Executing

SetEvent_Mutant ==
    /\ paused' = FALSE
    /\ pc' = pc

\* Setting the event schedules a coroutine that is suspended on it.
SetEvent ==
    /\ paused' = FALSE
    /\ pc' = IF pc = "blocked" THEN "woken" ELSE pc

Approve ==
    /\ pc \notin Executing
    /\ approved' = TRUE
    /\ UNCHANGED <<breakpoints, budget, paused, cancelled, resultVars, runVars>>

Pause ==
    /\ MayControl("pause")
    /\ paused' = TRUE
    /\ UNCHANGED <<approved, breakpoints, budget, cancelled, resultVars, runVars>>

Resume ==
    /\ MayControl("resume")
    /\ SetEvent
    /\ UNCHANGED <<approved, breakpoints, budget, cancelled, resultVars,
                   cursor, dispatchIndex, tasks, doneTasks>>

Cancel_Mutant ==
    /\ MayControl("cancel")
    /\ cancelled' = TRUE
    /\ UNCHANGED <<approved, breakpoints, budget, paused, resultVars, runVars>>

Cancel ==
    /\ MayControl("cancel")
    /\ cancelled' = TRUE
    /\ SetEvent
    /\ UNCHANGED <<approved, breakpoints, budget, resultVars,
                   cursor, dispatchIndex, tasks, doneTasks>>

AddBreakpoint(n) ==
    /\ MayControl("break")
    /\ breakpoints' = breakpoints \cup {n}
    /\ UNCHANGED <<approved, budget, paused, cancelled, resultVars, runVars>>

RemoveBreakpoint(n) ==
    /\ MayControl("clear_break")
    /\ breakpoints' = breakpoints \ {n}
    /\ UNCHANGED <<approved, budget, paused, cancelled, resultVars, runVars>>

Step ==
    /\ MayControl("step")
    /\ budget' = 1
    /\ SetEvent
    /\ UNCHANGED <<approved, breakpoints, cancelled, resultVars,
                   cursor, dispatchIndex, tasks, doneTasks>>
-----------------------------------------------------------------------------
(* run() *)

\* Event.wait() suspends only when the event is clear.
AtGate == IF paused THEN "blocked" ELSE "open"

\* An unapproved revision makes run() raise before it changes anything.
Run ==
    /\ pc = "idle"
    /\ approved
    /\ pc' = AtGate
    /\ UNCHANGED <<sessionVars, resultVars, cursor, dispatchIndex, tasks, doneTasks>>

PassGate_Mutant ==
    /\ pc \in {"open", "woken"}
    /\ pc' = "dispatch"
    /\ cursor' = 1
    /\ UNCHANGED <<sessionVars, resultVars, dispatchIndex, tasks, doneTasks>>

\* Past the gate: a woken coroutine does not look at the event again.
PassGate ==
    /\ pc \in {"open", "woken"}
    /\ ~cancelled
    /\ pc' = "dispatch"
    /\ cursor' = 1
    /\ UNCHANGED <<sessionVars, resultVars, dispatchIndex, tasks, doneTasks>>

HonourCancel_Mutant ==
    /\ pc \in {"open", "woken"}
    /\ cancelled
    /\ states' = [n \in Nodes |-> IF states[n] = "pending" THEN "cancelled" ELSE states[n]]
    /\ pc' = "done"
    /\ UNCHANGED <<sessionVars, providers, mergeQueue, proposals,
                   cursor, dispatchIndex, tasks, doneTasks>>

\* The tasks are only asked to stop: a result that comes later is dropped.
HonourCancel ==
    /\ pc \in {"open", "woken"}
    /\ cancelled
    /\ states' = [n \in Nodes |-> IF states[n] \in Open THEN "cancelled" ELSE states[n]]
    /\ pc' = "done"
    /\ UNCHANGED <<sessionVars, providers, mergeQueue, proposals,
                   cursor, dispatchIndex, tasks, doneTasks>>

\* Where run() goes when the dispatch pass is over.
AfterPass(running) ==
    IF running # {} THEN "wait"
    ELSE IF \A n \in Nodes : states[n] \notin Open THEN "done"
    ELSE "yield"

Considering_Mutant ==
    /\ pc = "dispatch"
    /\ cursor \in DOMAIN Order
    /\ states[Order[cursor]] = "pending"

\* The pass looks at Order[cursor] and finds it pending.
Considering ==
    /\ pc = "dispatch"
    /\ cursor \in DOMAIN Order
    /\ Cardinality(Running) < Concurrency
    /\ states[Order[cursor]] = "pending"

Stopped_Mutant == Order[cursor] \in breakpoints \/ budget = 0

Stopped ==
    \/ Order[cursor] \in breakpoints /\ budget = Unlimited
    \/ budget = 0

SkipSettled ==
    /\ pc = "dispatch"
    /\ cursor \in DOMAIN Order
    /\ Cardinality(Running) < Concurrency
    /\ states[Order[cursor]] # "pending"
    /\ cursor' = cursor + 1
    /\ UNCHANGED <<sessionVars, resultVars, pc, dispatchIndex, tasks, doneTasks>>

StopPass_Mutant ==
    /\ Considering
    /\ Stopped
    /\ pc' = AfterPass(Running)
    /\ UNCHANGED <<sessionVars, resultVars, cursor, dispatchIndex, tasks, doneTasks>>

\* A breakpoint or a spent step budget pauses the session and ends the pass.
StopPass ==
    /\ Considering
    /\ Stopped
    /\ paused' = TRUE
    /\ pc' = AfterPass(Running)
    /\ UNCHANGED <<approved, breakpoints, budget, cancelled, resultVars,
                   cursor, dispatchIndex, tasks, doneTasks>>

Block ==
    /\ Considering
    /\ ~Stopped
    /\ \E d \in Deps[Order[cursor]] : states[d] \in Bad
    /\ states' = [states EXCEPT ![Order[cursor]] = "blocked"]
    /\ cursor' = cursor + 1
    /\ UNCHANGED <<sessionVars, providers, mergeQueue, proposals,
                   pc, dispatchIndex, tasks, doneTasks>>

AwaitDependencies ==
    /\ Considering
    /\ ~Stopped
    /\ \A d \in Deps[Order[cursor]] : states[d] \notin Bad
    /\ \E d \in Deps[Order[cursor]] : states[d] # "succeeded"
    /\ cursor' = cursor + 1
    /\ UNCHANGED <<sessionVars, resultVars, pc, dispatchIndex, tasks, doneTasks>>

Ready_Mutant ==
    /\ Considering
    /\ ~Stopped
    /\ \A d \in Deps[Order[cursor]] : states[d] \in {"running", "succeeded"}

Ready ==
    /\ Considering
    /\ ~Stopped
    /\ \A d \in Deps[Order[cursor]] : states[d] = "succeeded"

\* Everything a dispatch does but spending the step budget.
StartNode(n) ==
    /\ providers' = [providers EXCEPT ![n] = ProviderFor(n, dispatchIndex)]
    /\ states' = [states EXCEPT ![n] = "running"]
    /\ tasks' = [tasks EXCEPT ![n] = "active"]
    /\ dispatchIndex' = dispatchIndex + 1
    /\ cursor' = cursor + 1
    /\ UNCHANGED <<approved, breakpoints, paused, cancelled, mergeQueue, proposals,
                   pc, doneTasks>>

DispatchAlwaysSpends_Mutant ==
    /\ Ready
    /\ StartNode(Order[cursor])
    /\ budget' = budget - 1

DispatchNeverSpends_Mutant ==
    /\ Ready
    /\ StartNode(Order[cursor])
    /\ budget' = budget

Dispatch ==
    /\ Ready
    /\ StartNode(Order[cursor])
    /\ budget' = IF budget = Unlimited THEN Unlimited ELSE budget - 1

\* Making the workspace fails: the exception leaves run(), tasks are orphaned.
DispatchRaises ==
    /\ Ready
    /\ dispatchIndex' = dispatchIndex + 1
    /\ pc' = "raised"
    /\ UNCHANGED <<sessionVars, resultVars, cursor, tasks, doneTasks>>

EndPass ==
    /\ pc = "dispatch"
    /\ \/ cursor \notin DOMAIN Order
       \/ Cardinality(Running) >= Concurrency
    /\ pc' = AfterPass(Running)
    /\ UNCHANGED <<sessionVars, resultVars, cursor, dispatchIndex, tasks, doneTasks>>

EndYield ==
    /\ pc = "yield"
    /\ pc' = AtGate
    /\ UNCHANGED <<sessionVars, resultVars, cursor, dispatchIndex, tasks, doneTasks>>

\* asyncio.wait returns every task that is finished by the time run() resumes.
CollectDone ==
    /\ pc = "wait"
    /\ Finished # {}
    /\ doneTasks' = Finished
    /\ pc' = "process"
    /\ UNCHANGED <<sessionVars, resultVars, cursor, dispatchIndex, tasks>>

\* The finished task to handle next: they are taken in topological order.
NextDone(n) ==
    /\ pc = "process"
    /\ n \in doneTasks
    /\ \E i \in DOMAIN Order :
          /\ Order[i] = n
          /\ \A j \in 1..(i - 1) : Order[j] \notin doneTasks

Retire(n) ==
    /\ tasks' = [tasks EXCEPT ![n] = "none"]
    /\ doneTasks' = doneTasks \ {n}

ProcessSuccess_Mutant(n) ==
    /\ NextDone(n)
    /\ tasks[n] = "ok"
    /\ Retire(n)
    /\ states' = [states EXCEPT ![n] = "succeeded"]
    /\ mergeQueue' = Append(mergeQueue, n)
    /\ proposals' = proposals \cup {n}
    /\ UNCHANGED <<sessionVars, providers, pc, cursor, dispatchIndex>>

ProcessSuccess(n) ==
    /\ NextDone(n)
    /\ tasks[n] = "ok"
    /\ Retire(n)
    /\ states' = [states EXCEPT ![n] = "succeeded"]
    /\ mergeQueue' = IF n \in Editing THEN Append(mergeQueue, n) ELSE mergeQueue
    /\ proposals' = IF n \in Editing THEN proposals \cup {n} ELSE proposals
    /\ UNCHANGED <<sessionVars, providers, pc, cursor, dispatchIndex>>

ProcessFailure_Mutant(n) ==
    /\ NextDone(n)
    /\ tasks[n] = "failed"
    /\ Retire(n)
    /\ states' = [states EXCEPT ![n] = "failed"]
    /\ mergeQueue' = IF n \in Editing THEN Append(mergeQueue, n) ELSE mergeQueue
    /\ UNCHANGED <<sessionVars, providers, proposals, pc, cursor, dispatchIndex>>

\* A runner that raises and one that reports failure are the same here.
ProcessFailure(n) ==
    /\ NextDone(n)
    /\ tasks[n] = "failed"
    /\ Retire(n)
    /\ states' = [states EXCEPT ![n] = "failed"]
    /\ UNCHANGED <<sessionVars, providers, mergeQueue, proposals, pc, cursor, dispatchIndex>>

\* Retaining the proposal fails after the node was queued for merging.
ProcessRaises(n) ==
    /\ NextDone(n)
    /\ tasks[n] = "ok"
    /\ n \in Editing
    /\ Retire(n)
    /\ states' = [states EXCEPT ![n] = "succeeded"]
    /\ mergeQueue' = Append(mergeQueue, n)
    /\ pc' = "raised"
    /\ UNCHANGED <<sessionVars, providers, proposals, cursor, dispatchIndex>>

EndProcess ==
    /\ pc = "process"
    /\ doneTasks = {}
    /\ pc' = AtGate
    /\ UNCHANGED <<sessionVars, resultVars, cursor, dispatchIndex, tasks, doneTasks>>
-----------------------------------------------------------------------------
(* The agents: each task finishes on its own, in any order, even after run() *)
(* has ended.                                                                *)

Complete(n) ==
    /\ pc \notin Executing
    /\ tasks[n] = "active"
    /\ \E result \in {"ok", "failed"} : tasks' = [tasks EXCEPT ![n] = result]
    /\ UNCHANGED <<sessionVars, resultVars, pc, cursor, dispatchIndex, doneTasks>>

Control ==
    \/ Approve \/ Pause \/ Resume \/ Cancel \/ Step
    \/ \E n \in Breakable : AddBreakpoint(n) \/ RemoveBreakpoint(n)

RunStep ==
    \/ Run \/ PassGate \/ HonourCancel
    \/ SkipSettled \/ StopPass \/ Block \/ AwaitDependencies \/ Dispatch \/ EndPass
    \/ EndYield \/ CollectDone \/ EndProcess
    \/ \E n \in Nodes : ProcessSuccess(n) \/ ProcessFailure(n)

Fault == DispatchRaises \/ \E n \in Nodes : ProcessRaises(n)

Next == Control \/ RunStep \/ Fault \/ \E n \in Nodes : Complete(n)

Spec == Init /\ [][Next]_vars

\* The event loop keeps running the coroutine, agents return (every backend
\* call has a timeout), and an approval is given.
RunFairness ==
    /\ WF_vars(Approve)
    /\ WF_vars(RunStep \/ Fault)
    /\ \A n \in Nodes : WF_vars(Complete(n))
-----------------------------------------------------------------------------
(* Properties *)

TypeOK ==
    /\ approved \in BOOLEAN
    /\ states \in [Nodes -> NodeState]
    /\ providers \in [Nodes -> Providers \cup {NoProvider}]
    /\ mergeQueue \in Seq(Editing)
    /\ proposals \subseteq Editing
    /\ breakpoints \subseteq Nodes
    /\ budget \in {Unlimited, 0, 1}
    /\ paused \in BOOLEAN
    /\ cancelled \in BOOLEAN
    /\ pc \in {"idle", "blocked", "woken", "yield", "wait"} \cup Executing \cup Ended
    /\ cursor \in 1..(Len(Order) + 1)
    /\ dispatchIndex \in Nat
    /\ tasks \in [Nodes -> {"none", "active", "ok", "failed"}]
    /\ doneTasks \subseteq Nodes

Dispatched == {n \in Nodes : providers[n] # NoProvider}
Queued == {mergeQueue[i] : i \in DOMAIN mergeQueue}

\* A session restored from a run of this same graph: whatever started had
\* seen everything it depends on succeed.
Closed(s) ==
    \A n \in Nodes : s[n] \in {"running", "succeeded", "failed"} =>
        \A a \in Ancestors[n] : s[a] = "succeeded"

\* An agent only ever works on a graph whose dependencies, direct and
\* indirect, have all succeeded, whatever finished, failed, was paused,
\* stepped or cancelled meanwhile (the guard at orchestration.py:128-134 is
\* evaluated once, the claim is about the whole life of the node's task).
AncestorsSucceeded ==
    \A n \in Dispatched : \A a \in Ancestors[n] : states[a] = "succeeded"

\* The limit on simultaneous agents counts finished agents whose result is
\* still unprocessed, and survives pauses, steps and cancellation.
ConcurrencyBound == Cardinality(Running) <= Concurrency

\* Two agents whose write claims overlap are never at work together: the
\* ordering edge demanded by TaskGraph.validate is enough to serialise them.
OverlappingWritersAreSerialised ==
    \A m, n \in Running : m # n => <<m, n>> \notin Overlaps

\* Agents at work never exceed the limit and never write the same place.
WorkersAreSafe == OverlappingWritersAreSerialised /\ ConcurrencyBound

\* The merge queue holds each editing node this run executed successfully,
\* once, and nothing else; each entry has its retained proposal unless run()
\* was left by an exception.
MergeQueueIsExact ==
    /\ \A i, j \in DOMAIN mergeQueue : mergeQueue[i] = mergeQueue[j] => i = j
    /\ Queued = {n \in Dispatched \cap Editing : states[n] = "succeeded"}
    /\ pc # "raised" => proposals = Queued

\* Review follows the queue, so a proposal must come after the proposals of
\* everything its node depends on, even when results arrive out of order.
MergeQueueFollowsDependencies ==
    \A i, j \in DOMAIN mergeQueue : i < j => mergeQueue[j] \notin Ancestors[mergeQueue[i]]

\* What waits for review is what succeeded, once and in an order that can be applied.
MergeQueueIsSound == MergeQueueIsExact /\ MergeQueueFollowsDependencies

\* The node states run() reports are final: none is pending or running.
ReturnsSettled == pc = "done" => \A n \in Nodes : states[n] \notin Open

\* run() goes idle (sleep(0) and loop) only after pausing itself or while an
\* operator's pause is pending: a graph with work left and nothing running
\* never spins the event loop.
NeverSpins == [][pc # "yield" /\ pc' = "yield" => paused']_vars

\* Once cancel() was called no further agent is started, wherever run() was.
CancelStopsDispatch == [][cancelled => providers' = providers]_vars

Abstract == INSTANCE DependencyExecution

\* The scheduler keeps what DependencyExecution promises.
ImplementsDependencyExecution == Abstract!Spec
=============================================================================
