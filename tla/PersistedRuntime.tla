------------------------- MODULE PersistedRuntime -------------------------
(***************************************************************************)
(* PersistedOrchestrationRuntime (harness_kernel/orchestration_runtime.py)  *)
(* over an OrchestrationStore: clients change the session document, a       *)
(* runtime restores the document's node states, runs the graph, records an  *)
(* attempt for each settled node and finally writes the outcome; proposals  *)
(* in the merge queue are reviewed; the process may die between any two     *)
(* writes and a new runtime be constructed.                                 *)
(*                                                                          *)
(* Store operations are atomic here up to the append to the event journal,  *)
(* which follows the write of the document and may be lost by a crash       *)
(* (SessionStore takes them apart).  A run is one step, with every outcome  *)
(* Scheduler allows; it is followed by the writes of run()'s epilogue.      *)
(***************************************************************************)
EXTENDS SessionDocuments

CONSTANTS
    InitialGraphs,  \* the graphs a session may be created with
    Requests,       \* kinds of requests clients make while no runtime exists
    RequestsInRun,  \* kinds of requests clients make while a runtime exists
    MayCrash,       \* whether the process may die
    MaxRuns,        \* bound on the runtimes constructed
    MaxRequests,    \* bound on the requests of a session
    MaxRevisions    \* bound on the graph revisions of a session

VARIABLES
    document,       \* session.json
    journal,        \* sequence numbers of the lines of events.jsonl
    appending,      \* who has written the document but not yet the journal
    runtime,        \* the runtime object and the position of its run()
    requests, runs, \* requests accepted and runtimes constructed so far
    approvals,      \* history: the revisions ever approved
    reviewed,       \* history: nodes whose proposal was reviewed
    revised         \* history: the graph was revised

vars == <<document, journal, appending, runtime, requests, runs, approvals, reviewed, revised>>

NoRuntime == [phase |-> "none"]
Idle == appending = "nobody"

\* read(verify=True): the lines are numbered 1, 2, 3, ...
Verified == \A i \in DOMAIN journal : journal[i] = i

Init ==
    /\ \E g \in InitialGraphs : document = NewDocument(g)
    /\ journal = <<1>>
    /\ appending = "nobody"
    /\ runtime = NoRuntime
    /\ requests = 0
    /\ runs = 0
    /\ approvals = {}
    /\ reviewed = {}
    /\ revised = FALSE
-----------------------------------------------------------------------------
(* Requests, and the journal line each store operation appends last. *)

Client(r) ==
    /\ Idle
    /\ r.kind \in IF runtime = NoRuntime THEN Requests ELSE RequestsInRun
    /\ requests < MaxRequests
    /\ r.kind = "revise" => Len(document.revision) < MaxRevisions
    /\ Accepts(document, r)
    /\ document' = Result(document, r)
    /\ appending' = "client"
    /\ requests' = requests + 1
    /\ approvals' = IF r.kind = "approve" THEN approvals \cup {r.hash} ELSE approvals
    /\ revised' = (revised \/ r.kind = "revise")
    /\ UNCHANGED <<journal, runtime, runs, reviewed>>

\* EventJournal reads the file when it is opened and numbers its first line
\* after the last one found.
AppendEvent ==
    /\ ~Idle
    /\ Verified
    /\ journal' = Append(journal, Len(journal) + 1)
    /\ appending' = "nobody"
    /\ UNCHANGED <<document, runtime, requests, runs, approvals, reviewed, revised>>

\* Opening raises: the operation fails although the document was written, and
\* so does run() when it was recording an attempt.
AppendRefused ==
    /\ ~Idle
    /\ ~Verified
    /\ runtime' = IF appending = "runtime" THEN NoRuntime ELSE runtime
    /\ appending' = "nobody"
    /\ UNCHANGED <<document, journal, requests, runs, approvals, reviewed, revised>>
-----------------------------------------------------------------------------
(* The runtime. *)

\* Constructing a runtime opens the journal, and replays a persisted step
\* request, which appends a line.
Opened == IF document.stepRequested THEN Append(journal, Len(journal) + 1) ELSE journal

CachedSequence_Mutant == Len(journal)

\* The session's own EventJournal has numbered that line.
CachedSequence == Len(Opened)

Restored(doc) ==
    [n \in NodesOf(Graph(doc)) |->
        IF n \notin DOMAIN doc.states \/ doc.states[n] = "running" THEN "pending" ELSE doc.states[n]]

OpenRuntime ==
    /\ Idle
    /\ runtime = NoRuntime
    /\ runs < MaxRuns
    /\ Verified
    /\ journal' = Opened
    /\ runtime' = [phase |-> "ready",
                   revision |-> document.revision,
                   approved |-> document.approved,
                   states |-> Restored(document),
                   providers |-> [n \in NodesOf(Graph(document)) |-> NoProvider],
                   overrides |-> document.overrides,
                   queue |-> <<>>,
                   unrecorded |-> {},
                   sequence |-> CachedSequence]
    /\ runs' = runs + 1
    /\ UNCHANGED <<document, appending, requests, approvals, reviewed, revised>>

\* The node states with which OrchestrationSession.run may return.
Settles(g, before, after) ==
    \A n \in DOMAIN before :
        IF before[n] # "pending" THEN after[n] = before[n]
        ELSE \/ /\ after[n] \in {"succeeded", "failed"}
                /\ \A d \in Deps[g][n] : after[d] = "succeeded"
             \/ /\ after[n] = "blocked"
                /\ \E d \in Deps[g][n] :
                      after[d] \in {"failed", "blocked"} \/ before[d] = "cancelled"
             \/ after[n] = "cancelled"

Proposed_Mutant(g, executed, after) == {n \in executed : after[n] = "succeeded"}

\* The nodes whose workspace is retained and queued for review.
Proposed(g, executed, after) == {n \in executed \cap Editing[g] : after[n] = "succeeded"}

\* The orders in which a set of nodes may have been dispatched, or succeeded.
OrdersOf(g, S) ==
    {o \in [1 .. Cardinality(S) -> S] :
        \A i, j \in DOMAIN o : i < j => o[j] \notin {o[i]} \cup Ancestors[g][o[i]]}

ProviderAt(n, index) == Rotation[n][(index % Len(Rotation[n])) + 1]

Execute_Mutant ==
    /\ Idle
    /\ runtime.phase = "ready"
    /\ LET g == Graph(runtime) IN
       \E after \in [NodesOf(g) -> {"succeeded", "failed"}] :
          /\ runtime' = [runtime EXCEPT !.phase = "recording", !.states = after,
                                        !.unrecorded = NodesOf(g)]
          /\ journal' = Append(journal, runtime.sequence + 1)
    /\ UNCHANGED <<document, appending, requests, runs, approvals, reviewed, revised>>

\* session.run(): its journal lines, one for all here, are numbered from the
\* count taken when the runtime was constructed.
Execute ==
    /\ Idle
    /\ runtime.phase = "ready"
    /\ runtime.approved = runtime.revision
    /\ LET g == Graph(runtime)
           before == runtime.states
       IN \E after \in [NodesOf(g) -> NodeState \ {"pending", "running"}] :
          /\ Settles(g, before, after)
          /\ LET executed == {n \in NodesOf(g) : before[n] = "pending" /\ after[n] \in {"succeeded", "failed"}}
             IN \E dispatched \in OrdersOf(g, executed),
                   finished \in OrdersOf(g, Proposed(g, executed, after)) :
                runtime' = [runtime EXCEPT
                    !.phase = "recording",
                    !.states = after,
                    !.overrides = document.overrides,
                    !.queue = finished,
                    !.providers = [n \in NodesOf(g) |->
                        IF n \in executed
                        THEN ProviderAt(n, (CHOOSE i \in DOMAIN dispatched : dispatched[i] = n) - 1)
                        ELSE NoProvider],
                    !.unrecorded = {n \in NodesOf(g) : after[n] \in {"succeeded", "failed", "cancelled"}}]
          /\ journal' = IF after = before THEN journal ELSE Append(journal, runtime.sequence + 1)
    /\ UNCHANGED <<document, appending, requests, runs, approvals, reviewed, revised>>

\* providers.get(n, provider_overrides.get(n, "unassigned"))
AttemptProvider(n) ==
    IF runtime.providers[n] # NoProvider THEN runtime.providers[n] ELSE runtime.overrides[n]

DeclaredBefore(g, m, n) ==
    \E i, j \in DOMAIN Declared[g] : i < j /\ Declared[g][i] = m /\ Declared[g][j] = n

\* The epilogue of run() records the settled nodes in the order of declaration.
RecordsNext(n) ==
    /\ Idle
    /\ runtime.phase = "recording"
    /\ n \in runtime.unrecorded
    /\ \A m \in runtime.unrecorded : ~DeclaredBefore(Graph(runtime), m, n)

\* An attempt is a read and a write of the document of its own ...
Record(n) ==
    /\ RecordsNext(n)
    /\ n \in DOMAIN document.states
    /\ document' = RecordAttempt(document, n, runtime.states[n], AttemptProvider(n))
    /\ runtime' = [runtime EXCEPT !.unrecorded = @ \ {n}]
    /\ appending' = "runtime"
    /\ UNCHANGED <<journal, requests, runs, approvals, reviewed, revised>>

\* ... which raises when a revision has removed the node meanwhile ...
RecordRaises(n) ==
    /\ RecordsNext(n)
    /\ n \notin DOMAIN document.states
    /\ runtime' = NoRuntime
    /\ UNCHANGED <<document, journal, appending, requests, runs, approvals, reviewed, revised>>

\* ... and last the states, the status and the merge metadata of this run.
Finish ==
    /\ Idle
    /\ runtime.phase = "recording"
    /\ runtime.unrecorded = {}
    /\ document' = [document EXCEPT
           !.states = runtime.states,
           !.status = IF \A n \in DOMAIN runtime.states : runtime.states[n] = "succeeded"
                      THEN "completed" ELSE "failed",
           !.queue = runtime.queue]
    /\ reviewed' = reviewed \ {runtime.queue[i] : i \in DOMAIN runtime.queue}
    /\ runtime' = NoRuntime
    /\ UNCHANGED <<journal, appending, requests, runs, approvals, revised>>

\* review_merge of the queue's head, approved and applied or rejected.  The
\* API constructs a runtime for it.  (A stale or invalid proposal raises and
\* changes no document.)
ReviewMerge ==
    /\ Idle
    /\ runtime = NoRuntime \/ "review" \in RequestsInRun
    /\ Verified
    /\ document.queue # <<>>
    /\ Head(document.queue) \in NodesOf(Graph(document))
    /\ document' = [document EXCEPT !.queue = Tail(@)]
    /\ reviewed' = reviewed \cup {Head(document.queue)}
    /\ journal' = Opened
    /\ appending' = "client"
    /\ UNCHANGED <<runtime, requests, runs, approvals, revised>>

\* The process dies: what was not written is gone.
Crash ==
    /\ MayCrash
    /\ ~Idle \/ runtime # NoRuntime
    /\ appending' = "nobody"
    /\ runtime' = NoRuntime
    /\ UNCHANGED <<document, journal, requests, runs, approvals, reviewed, revised>>

Next ==
    \/ \E r \in RequestsOn(document) : Client(r)
    \/ AppendEvent \/ AppendRefused
    \/ OpenRuntime \/ Execute \/ Finish
    \/ \E n \in AllNodes : Record(n) \/ RecordRaises(n)
    \/ ReviewMerge
    \/ Crash

Spec == Init /\ [][Next]_vars
-----------------------------------------------------------------------------
(* Properties *)

TypeOK ==
    /\ DocumentOK(document)
    /\ journal \in Seq(Nat)
    /\ appending \in {"nobody", "client", "runtime"}
    /\ runtime.phase \in {"none", "ready", "recording"}
    /\ requests \in 0..MaxRequests
    /\ runs \in 0..MaxRuns
    /\ reviewed \subseteq AllNodes
    /\ revised \in BOOLEAN

\* Between runs the document of a never revised session tells the whole truth.
Settled == runtime = NoRuntime /\ ~revised

\* An approval never outlives the revision it was given for: whatever clients
\* and a finishing run write, approved_hash is empty or the current hash.
ApprovalBindsRevision == document.approved \in {NotApproved, document.revision}

\* A graph is only executed in a revision somebody approved, also when it is
\* revised after the runtime was constructed (ARCHITECTURE.md:17).
ExecutedRevisionWasApproved ==
    runtime.phase = "recording" => runtime.revision \in approvals

\* Every node is written down after what it depends on.
DeclaredInOrder(g) == \A n \in NodesOf(g) : \A a \in Ancestors[g][n] : DeclaredBefore(g, a, n)

\* What was executed depends directly on what succeeded, or on what is written
\* down later and was not recorded before a crash.
Supported(g, states) ==
    \A n \in DOMAIN states : states[n] \in {"running", "succeeded", "failed"} =>
        \A d \in Deps[g][n] : states[d] = "succeeded" \/ DeclaredBefore(g, n, d)

\* The states a runtime restores are those of an execution in dependency order,
\* which is what the scheduler's own theorems assume, retries and a crash between
\* the writes of run()'s epilogue included, if the graph is declared in such an
\* order, which nothing enforces.  Otherwise a node that succeeded may be restored
\* without a dependency, but only without one that is declared after it
\* (orchestration_runtime.py:63, :81).
RestoredStatesAreClosed ==
    Settled =>
        LET g == Graph(document)
        IN /\ DeclaredInOrder(g) => ClosedIn(g, Restored(document))
           /\ Supported(g, Restored(document))

\* A node is blocked only as long as something it depends on is failed or
\* cancelled: retrying every such node leaves nothing stuck.
BlockedHasACause ==
    Settled => \A n \in DOMAIN document.states : document.states[n] = "blocked" =>
        \E a \in Ancestors[Graph(document)][n] : document.states[a] \in {"failed", "cancelled"}

\* The merge queue offers each proposal once, of a successful editing node,
\* after the proposals of what its node depends on.
QueueIsReviewable ==
    LET queue == document.queue IN
    ~revised =>
        /\ \A i \in DOMAIN queue :
              queue[i] \in Editing[Graph(document)] /\ document.states[queue[i]] = "succeeded"
        /\ \A i, j \in DOMAIN queue : i < j =>
              queue[j] \notin {queue[i]} \cup Ancestors[Graph(document)][queue[i]]

\* The history of attempts ends with the state the document shows, however
\* often the node was retried, restored or revised and wherever a run died.
LastAttemptMatchesState ==
    \A n \in DOMAIN document.states :
        document.states[n] \in {"succeeded", "failed", "cancelled"} =>
            /\ document.attempts[n] # <<>>
            /\ document.attempts[n][Len(document.attempts[n])].status = document.states[n]

\* Events carry a monotonic sequence (ARCHITECTURE.md:49), whichever of the
\* EventJournal objects of a session appends.
JournalIsSequential == Verified

\* "successful changes wait in a serialized merge-review queue" (README.md:10).
SuccessfulEditsAwaitReview ==
    Settled => \A n \in Editing[Graph(document)] : document.states[n] = "succeeded" =>
        n \in reviewed \cup {document.queue[i] : i \in DOMAIN document.queue}
=============================================================================
