--------------------------- MODULE RuntimeProofs ---------------------------
(***************************************************************************)
(* Theorems of PersistedRuntime for any graphs, requests, crashes and number *)
(* of runs.  What clients may do while a runtime exists is a parameter: some *)
(* of the theorems need that nobody revises the graph or retries a node      *)
(* then, which they say in their assumptions.                                *)
(***************************************************************************)
EXTENDS PersistedRuntime, SequenceTheorems, FiniteSetTheorems, WellFoundedInduction, TLAPS

DocumentFields ==
    {"status", "approved", "revision", "states", "attempts", "overrides", "breakpoints", "stepRequested", "queue"}
RuntimeFields ==
    {"phase", "revision", "approved", "states", "providers", "overrides", "queue", "unrecorded", "sequence"}

Final == {"succeeded", "failed", "cancelled"}
AtRest == NodeState \ {"running"}

\* A session is created with one of the graphs.
CreatedWithGraph == InitialGraphs \subseteq Graphs

NoRevisionInRun == {"revise", "retry"} \cap RequestsInRun = {}

-----------------------------------------------------------------------------
(* Approval.                                                                *)

\* An approval that is there is of the current revision and was given ...
Approved(r) == r.approved # NotApproved => r.approved = r.revision /\ r.revision \in approvals

\* ... in the document and in the copy a runtime took of it.
ApprovalInv ==
    /\ DOMAIN document = DocumentFields
    /\ document.revision \in Seq(Graphs) /\ document.revision # <<>> /\ Approved(document)
    /\ runtime # NoRuntime =>
          /\ DOMAIN runtime = RuntimeFields /\ runtime.phase \in {"ready", "recording"}
          /\ runtime.revision # <<>> /\ Approved(runtime)
          /\ runtime.phase = "recording" => runtime.revision \in approvals
-----------------------------------------------------------------------------
(* The journal, if nobody writes while a runtime exists.                    *)

JournalInv ==
    /\ journal \in Seq(Nat) /\ Verified
    /\ appending \in {"nobody", "client", "runtime"}
    /\ runtime # NoRuntime => DOMAIN runtime = RuntimeFields /\ runtime.phase \in {"ready", "recording"}
    /\ appending = "client" => runtime = NoRuntime
    /\ appending = "runtime" => runtime.phase = "recording"
    /\ runtime.phase = "ready" => runtime.sequence = Len(journal)
-----------------------------------------------------------------------------
(* The states of the nodes.                                                 *)

IsSequence(s) == s \in Seq({s[i] : i \in DOMAIN s})
EndsWith(s, status) == s # <<>> /\ s[Len(s)].status = status

\* Every blocked node has an ancestor that failed or was cancelled.
Caused(g, s) ==
    \A n \in NodesOf(g) : s[n] = "blocked" => \E a \in Ancestors[g][n] : s[a] \in {"failed", "cancelled"}

Reviewable(g, queue, s) ==
    /\ \A i \in DOMAIN queue : queue[i] \in Editing[g] /\ s[queue[i]] = "succeeded"
    /\ \A i, j \in DOMAIN queue : i < j => queue[j] \notin {queue[i]} \cup Ancestors[g][queue[i]]

GraphNow == Graph(document)

DocumentInv ==
    /\ DOMAIN document = DocumentFields
    /\ document.revision \in Seq(Graphs) /\ document.revision # <<>>
    /\ document.states \in [NodesOf(GraphNow) -> AtRest]
    /\ DOMAIN document.attempts = NodesOf(GraphNow)
    /\ document.queue \in Seq(AllNodes)
    /\ \A n \in NodesOf(GraphNow) :
          /\ IsSequence(document.attempts[n])
          /\ document.states[n] \in Final => EndsWith(document.attempts[n], document.states[n])

\* A runtime goes on from the document, and leaves only nodes unrecorded that the
\* document has as pending or as they are.
RuntimeInv ==
    runtime # NoRuntime =>
        /\ DOMAIN runtime = RuntimeFields /\ runtime.phase \in {"ready", "recording"}
        /\ runtime.revision = document.revision
        /\ runtime.states \in [NodesOf(GraphNow) -> AtRest]
        /\ runtime.phase = "ready" => runtime.states = document.states
        /\ \A n \in NodesOf(GraphNow) :
              document.states[n] # "pending" => runtime.states[n] = document.states[n]
        /\ runtime.phase = "recording" =>
              /\ runtime.queue \in Seq(AllNodes) /\ Reviewable(GraphNow, runtime.queue, runtime.states)
              /\ runtime.unrecorded \subseteq {n \in NodesOf(GraphNow) : runtime.states[n] \in Final}
              /\ \A n \in NodesOf(GraphNow) \ runtime.unrecorded :
                    runtime.states[n] \in Final => document.states[n] = runtime.states[n]

\* While the graph is the one the session was created with.
HistoryInv ==
    /\ revised \in BOOLEAN
    /\ ~revised =>
          /\ Reviewable(GraphNow, document.queue, document.states)
          /\ Caused(GraphNow, document.states)
          /\ runtime # NoRuntime => Caused(GraphNow, runtime.states)

StatesInv == DocumentInv /\ RuntimeInv /\ HistoryInv

\* What succeeded or failed did so after everything it depends on, if the graph is
\* declared in an order of dependency, in which the attempts are recorded; in any
\* graph after what it depends on directly, but for what is declared later.
ClosedInv ==
    ~revised =>
        /\ Supported(GraphNow, document.states)
        /\ runtime # NoRuntime => Supported(GraphNow, runtime.states)
        /\ DeclaredInOrder(GraphNow) =>
              /\ ClosedIn(GraphNow, document.states)
              /\ runtime # NoRuntime => ClosedIn(GraphNow, runtime.states)
-----------------------------------------------------------------------------
(* What a request does to the fields of a document.                         *)

LEMMA ResultFields ==
    ASSUME NEW doc, DOMAIN doc = DocumentFields, NEW r
    PROVE /\ r.kind \in {"approve", "transition", "break", "clear_break", "step"} =>
                /\ DOMAIN Result(doc, r) = DocumentFields /\ Result(doc, r).revision = doc.revision
                /\ Result(doc, r).states = doc.states /\ Result(doc, r).attempts = doc.attempts
                /\ Result(doc, r).queue = doc.queue
                /\ Result(doc, r).approved = IF r.kind = "approve" THEN r.hash ELSE doc.approved
          /\ r.kind = "revise" =>
                /\ DOMAIN Result(doc, r) = DocumentFields
                /\ Result(doc, r).revision = Append(doc.revision, r.graph)
                /\ Result(doc, r).states = Carry(doc.states, r.graph, "pending")
                /\ Result(doc, r).attempts = Carry(doc.attempts, r.graph, <<>>)
                /\ Result(doc, r).queue = doc.queue /\ Result(doc, r).approved = NotApproved
          /\ r.kind = "retry" =>
                /\ DOMAIN Result(doc, r) = DocumentFields /\ Result(doc, r).revision = doc.revision
                /\ Result(doc, r).states = Retry(doc, r.node, r.provider).states
                /\ Result(doc, r).attempts = doc.attempts /\ Result(doc, r).queue = doc.queue
                /\ Result(doc, r).approved = doc.approved
<1>1. CASE r.kind = "approve"
  <2>1. Result(doc, r) = Approve(doc, r.hash)
    BY <1>1 DEF Result
  <2> QED BY <1>1, <2>1 DEF Approve, DocumentFields
<1>2. CASE r.kind = "transition"
  <2>1. Result(doc, r) = Transition(doc, r.status)
    BY <1>2 DEF Result
  <2> QED BY <1>2, <2>1 DEF Transition, DocumentFields
<1>3. CASE r.kind = "break"
  <2>1. Result(doc, r) = Break(doc, r.node)
    BY <1>3 DEF Result
  <2> QED BY <1>3, <2>1 DEF Break, DocumentFields
<1>4. CASE r.kind = "clear_break"
  <2>1. Result(doc, r) = ClearBreak(doc, r.node)
    BY <1>4 DEF Result
  <2> QED BY <1>4, <2>1 DEF ClearBreak, DocumentFields
<1>5. CASE r.kind = "step"
  <2>1. Result(doc, r) = RequestStep(doc)
    BY <1>5 DEF Result
  <2> QED BY <1>5, <2>1 DEF RequestStep, DocumentFields
<1>6. CASE r.kind = "revise"
  <2>1. Result(doc, r) = Revise(doc, r.graph)
    BY <1>6 DEF Result
  <2> QED BY <1>6, <2>1 DEF Revise, DocumentFields
<1>7. CASE r.kind = "retry"
  <2>1. Result(doc, r) = Retry(doc, r.node, r.provider)
    BY <1>7 DEF Result
  <2> QED BY <1>7, <2>1 DEF Retry, DocumentFields
<1> QED BY <1>1, <1>2, <1>3, <1>4, <1>5, <1>6, <1>7

LEMMA KindsOfRequests ==
    ASSUME NEW r \in RequestsOn(document)
    PROVE /\ r.kind \in {"approve", "transition", "break", "clear_break", "step", "revise", "retry"}
          /\ r.kind = "revise" => r.graph \in Graphs
          /\ r.kind = "retry" => r.node \in AllNodes
BY DEF RequestsOn

\* Both are records whose fields tell them apart.
LEMMA NoRuntimePhase ==
    /\ NoRuntime.phase = "none"
    /\ runtime.phase \in {"ready", "recording"} => runtime # NoRuntime
BY DEF NoRuntime

\* The fields of a runtime that is constructed.
LEMMA OpenedFields ==
    ASSUME OpenRuntime
    PROVE /\ runtime = NoRuntime /\ runtime' # NoRuntime /\ DOMAIN runtime' = RuntimeFields
          /\ runtime'.phase = "ready" /\ runtime'.revision = document.revision
          /\ runtime'.approved = document.approved /\ runtime'.states = Restored(document)
          /\ runtime'.sequence = Len(Opened) /\ journal' = Opened
<1>1. /\ runtime = NoRuntime /\ journal' = Opened
      /\ runtime' = [phase |-> "ready",
                   revision |-> document.revision,
                   approved |-> document.approved,
                   states |-> Restored(document),
                   providers |-> [n \in NodesOf(Graph(document)) |-> NoProvider],
                   overrides |-> document.overrides,
                   queue |-> <<>>,
                   unrecorded |-> {},
                   sequence |-> CachedSequence]
  BY Zenon DEF OpenRuntime
<1>2. DOMAIN runtime' = RuntimeFields
  BY <1>1 DEF RuntimeFields
<1> QED BY <1>1, <1>2 DEF NoRuntime, CachedSequence

\* The fields of a runtime that has executed its graph.
LEMMA ExecutedFields ==
    ASSUME Execute, DOMAIN runtime = RuntimeFields
    PROVE /\ runtime.phase = "ready" /\ runtime.approved = runtime.revision
          /\ DOMAIN runtime' = RuntimeFields /\ runtime'.phase = "recording"
          /\ runtime'.revision = runtime.revision /\ runtime'.approved = runtime.approved
          /\ UNCHANGED <<document, appending, approvals, revised>>
          /\ journal' \in {journal, Append(journal, runtime.sequence + 1)}
          /\ Idle
          /\ \E after \in [NodesOf(Graph(runtime)) -> NodeState \ {"pending", "running"}] :
                /\ Settles(Graph(runtime), runtime.states, after)
                /\ runtime'.states = after
                /\ runtime'.unrecorded = {n \in NodesOf(Graph(runtime)) : after[n] \in Final}
                /\ runtime'.queue \in OrdersOf(Graph(runtime), Proposed(Graph(runtime),
                      {n \in NodesOf(Graph(runtime)) :
                          runtime.states[n] = "pending" /\ after[n] \in {"succeeded", "failed"}}, after))
<1> DEFINE g == Graph(runtime)
           before == runtime.states
           executed(after) == {n \in NodesOf(g) : before[n] = "pending" /\ after[n] \in {"succeeded", "failed"}}
<1>1. /\ runtime.phase = "ready" /\ runtime.approved = runtime.revision /\ Idle
      /\ UNCHANGED <<document, appending, approvals, revised>>
  BY DEF Execute
<1>2. PICK after \in [NodesOf(g) -> NodeState \ {"pending", "running"}] :
        /\ Settles(g, before, after)
        /\ \E dispatched \in OrdersOf(g, executed(after)), finished \in OrdersOf(g, Proposed(g, executed(after), after)) :
              runtime' = [runtime EXCEPT
                    !.phase = "recording",
                    !.states = after,
                    !.overrides = document.overrides,
                    !.queue = finished,
                    !.providers = [n \in NodesOf(g) |->
                        IF n \in executed(after)
                        THEN ProviderAt(n, (CHOOSE i \in DOMAIN dispatched : dispatched[i] = n) - 1)
                        ELSE NoProvider],
                    !.unrecorded = {n \in NodesOf(g) : after[n] \in {"succeeded", "failed", "cancelled"}}]
        /\ journal' = IF after = before THEN journal ELSE Append(journal, runtime.sequence + 1)
  BY Zenon DEF Execute
<1>3. PICK dispatched \in OrdersOf(g, executed(after)), finished \in OrdersOf(g, Proposed(g, executed(after), after)) :
           runtime' = [runtime EXCEPT
                    !.phase = "recording",
                    !.states = after,
                    !.overrides = document.overrides,
                    !.queue = finished,
                    !.providers = [n \in NodesOf(g) |->
                        IF n \in executed(after)
                        THEN ProviderAt(n, (CHOOSE i \in DOMAIN dispatched : dispatched[i] = n) - 1)
                        ELSE NoProvider],
                    !.unrecorded = {n \in NodesOf(g) : after[n] \in {"succeeded", "failed", "cancelled"}}]
  BY <1>2, Zenon
<1>4. /\ DOMAIN runtime' = RuntimeFields /\ runtime'.phase = "recording"
      /\ runtime'.revision = runtime.revision /\ runtime'.approved = runtime.approved
      /\ runtime'.states = after /\ runtime'.queue = finished
      /\ runtime'.unrecorded = {n \in NodesOf(g) : after[n] \in Final}
  <2> DEFINE providers == [n \in NodesOf(g) |->
                        IF n \in executed(after)
                        THEN ProviderAt(n, (CHOOSE i \in DOMAIN dispatched : dispatched[i] = n) - 1)
                        ELSE NoProvider]
             unrecorded == {n \in NodesOf(g) : after[n] \in {"succeeded", "failed", "cancelled"}}
  <2>1. runtime' = [runtime EXCEPT !.phase = "recording", !.states = after, !.overrides = document.overrides,
                       !.queue = finished, !.providers = providers, !.unrecorded = unrecorded]
    BY <1>3
  <2>2. unrecorded = {n \in NodesOf(g) : after[n] \in Final}
    BY DEF Final
  <2> HIDE DEF providers, unrecorded
  <2> QED BY <2>1, <2>2 DEF RuntimeFields
<1>5. journal' \in {journal, Append(journal, runtime.sequence + 1)}
  BY <1>2
<1> HIDE DEF g, before, executed
<1>6. /\ runtime'.states = after /\ Settles(g, before, after)
      /\ after \in [NodesOf(g) -> NodeState \ {"pending", "running"}]
      /\ runtime'.unrecorded = {n \in NodesOf(g) : after[n] \in Final}
      /\ runtime'.queue \in OrdersOf(g, Proposed(g, executed(after), after))
  BY <1>2, <1>3, <1>4
<1> QED BY <1>1, <1>4, <1>5, <1>6, Zenon DEF g, before, executed

\* The fields after an attempt is recorded.
LEMMA RecordedFields ==
    ASSUME NEW n, Record(n), DOMAIN document = DocumentFields, DOMAIN runtime = RuntimeFields
    PROVE /\ DOMAIN document' = DocumentFields /\ DOMAIN runtime' = RuntimeFields
          /\ document'.revision = document.revision /\ document'.approved = document.approved
          /\ document'.queue = document.queue
          /\ document'.states = [document.states EXCEPT ![n] = runtime.states[n]]
          /\ document'.attempts = [document.attempts EXCEPT ![n] =
                Append(@, [status |-> runtime.states[n], provider |-> AttemptProvider(n)])]
          /\ runtime'.phase = runtime.phase /\ runtime'.revision = runtime.revision
          /\ runtime'.approved = runtime.approved /\ runtime'.states = runtime.states
          /\ runtime'.queue = runtime.queue /\ runtime'.unrecorded = runtime.unrecorded \ {n}
BY DEF Record, RecordAttempt, DocumentFields, RuntimeFields

\* The fields after the end of a run.
LEMMA FinishedFields ==
    ASSUME Finish, DOMAIN document = DocumentFields
    PROVE /\ DOMAIN document' = DocumentFields /\ runtime' = NoRuntime
          /\ document'.revision = document.revision /\ document'.approved = document.approved
          /\ document'.queue = runtime.queue /\ document'.states = runtime.states
          /\ document'.attempts = document.attempts
BY DEF Finish, DocumentFields

\* The fields after a review.
LEMMA ReviewedFields ==
    ASSUME ReviewMerge, DOMAIN document = DocumentFields
    PROVE /\ DOMAIN document' = DocumentFields
          /\ document'.revision = document.revision /\ document'.approved = document.approved
          /\ document'.queue = Tail(document.queue) /\ document'.states = document.states
          /\ document'.attempts = document.attempts
BY DEF ReviewMerge, DocumentFields
-----------------------------------------------------------------------------
(* Approval.                                                                *)

LEMMA ApprovalInvInit ==
    ASSUME CreatedWithGraph, Init
    PROVE ApprovalInv
<1> PICK g \in InitialGraphs : document = NewDocument(g)
  BY DEF Init
<1>1. DOMAIN document = DocumentFields /\ document.revision = <<g>> /\ document.approved = NotApproved
  BY DEF NewDocument, DocumentFields
<1>2. runtime = NoRuntime
  BY DEF Init
<1>3. <<g>> \in Seq(Graphs) /\ <<g>> # <<>>
  BY DEF CreatedWithGraph
<1> QED BY <1>1, <1>2, <1>3 DEF ApprovalInv, Approved

\* Requests and the steps that leave the document's approval alone.
LEMMA ApprovalInvStep ==
    ASSUME ApprovalInv, [Next]_vars
    PROVE ApprovalInv'
<1> USE NoRuntimePhase
<1>1. ASSUME NEW r \in RequestsOn(document), Client(r)
      PROVE ApprovalInv'
  <2>1. UNCHANGED runtime /\ document' = Result(document, r) /\ Accepts(document, r) /\ approvals \subseteq approvals'
    BY <1>1 DEF Client
  <2>2. CASE r.kind = "approve"
    <3>1. r.hash = document.revision /\ approvals' = approvals \cup {r.hash}
      BY <1>1, <2>2 DEF Client, Accepts
    <3> QED BY <2>1, <2>2, <3>1, ResultFields DEF ApprovalInv, Approved
  <2>3. CASE r.kind = "revise"
    <3>1. /\ document'.revision = Append(document.revision, r.graph) /\ r.graph \in Graphs
          /\ document'.approved = NotApproved /\ DOMAIN document' = DocumentFields
      BY <2>1, <2>3, ResultFields, KindsOfRequests DEF ApprovalInv
    <3>2. document'.revision \in Seq(Graphs) /\ document'.revision # <<>>
      BY <3>1, AppendProperties DEF ApprovalInv
    <3> QED BY <2>1, <3>1, <3>2 DEF ApprovalInv, Approved
  <2>4. CASE r.kind \notin {"approve", "revise"}
    <3>1. /\ document'.revision = document.revision /\ document'.approved = document.approved
          /\ DOMAIN document' = DocumentFields
      BY <2>1, <2>4, ResultFields, KindsOfRequests DEF ApprovalInv
    <3> QED BY <2>1, <3>1 DEF ApprovalInv, Approved
  <2> QED BY <2>2, <2>3, <2>4
<1>2. CASE AppendEvent \/ AppendRefused \/ Crash \/ (\E n \in AllNodes : RecordRaises(n)) \/ UNCHANGED vars
  <2>1. UNCHANGED <<document, approvals>> /\ runtime' \in {runtime, NoRuntime}
    BY <1>2 DEF AppendEvent, AppendRefused, Crash, RecordRaises, vars
  <2> QED BY <2>1 DEF ApprovalInv, Approved
<1>3. CASE OpenRuntime
  <2>1. UNCHANGED <<document, approvals>>
    BY <1>3 DEF OpenRuntime
  <2> QED BY <1>3, <2>1, OpenedFields DEF ApprovalInv, Approved
<1>4. CASE Execute
  <2>1. runtime # NoRuntime /\ DOMAIN runtime = RuntimeFields
    BY <1>4 DEF ApprovalInv, Execute
  <2>2. /\ runtime.approved = runtime.revision /\ UNCHANGED <<document, approvals>>
        /\ DOMAIN runtime' = RuntimeFields /\ runtime'.phase = "recording"
        /\ runtime'.revision = runtime.revision /\ runtime'.approved = runtime.approved
    BY <1>4, <2>1, ExecutedFields
  <2>3. runtime.revision \in approvals
    BY <2>1, <2>2 DEF ApprovalInv, Approved, NotApproved
  <2> QED BY <2>1, <2>2, <2>3 DEF ApprovalInv, Approved
<1>5. ASSUME NEW n \in AllNodes, Record(n)
      PROVE ApprovalInv'
  <2>1. runtime # NoRuntime /\ UNCHANGED approvals
    BY <1>5 DEF Record, RecordsNext
  <2> QED BY <1>5, <2>1, RecordedFields DEF ApprovalInv, Approved
<1>6. CASE Finish
  <2>1. UNCHANGED approvals
    BY <1>6 DEF Finish
  <2> QED BY <1>6, <2>1, FinishedFields DEF ApprovalInv, Approved
<1>7. CASE ReviewMerge
  <2>1. UNCHANGED <<runtime, approvals>>
    BY <1>7 DEF ReviewMerge
  <2> QED BY <1>7, <2>1, ReviewedFields DEF ApprovalInv, Approved
<1> QED BY <1>1, <1>2, <1>3, <1>4, <1>5, <1>6, <1>7 DEF Next

LEMMA ApprovalIsSafe == ApprovalInv => ApprovalBindsRevision /\ ExecutedRevisionWasApproved
BY NoRuntimePhase DEF ApprovalInv, Approved, ApprovalBindsRevision, ExecutedRevisionWasApproved

\* An approval never outlives the revision it was given for, and a graph is only
\* executed in a revision somebody approved, whatever clients do during a run.
THEOREM ExecutedIsApproved ==
    ASSUME CreatedWithGraph
    PROVE Spec => [](ApprovalBindsRevision /\ ExecutedRevisionWasApproved)
BY ApprovalInvInit, ApprovalInvStep, ApprovalIsSafe, PTL DEF Spec
-----------------------------------------------------------------------------
(* The journal.                                                             *)

LEMMA NumberedLine ==
    ASSUME NEW s \in Seq(Nat), \A i \in DOMAIN s : s[i] = i
    PROVE LET longer == Append(s, Len(s) + 1)
          IN longer \in Seq(Nat) /\ \A i \in DOMAIN longer : longer[i] = i
<1> DEFINE longer == Append(s, Len(s) + 1)
<1>1. Len(s) \in Nat /\ DOMAIN s = 1 .. Len(s)
  BY LenProperties
<1>2. /\ longer \in Seq(Nat) /\ Len(longer) = Len(s) + 1
      /\ \A i \in 1 .. Len(s) : longer[i] = s[i]
      /\ longer[Len(s) + 1] = Len(s) + 1
  BY <1>1, AppendProperties
<1>3. DOMAIN longer = 1 .. (Len(s) + 1)
  BY <1>1, <1>2, LenProperties
<1> HIDE DEF longer
<1>4. \A i \in DOMAIN longer : longer[i] = i
  BY <1>1, <1>2, <1>3
<1> QED BY <1>2, <1>4 DEF longer

LEMMA JournalInvStep ==
    ASSUME RequestsInRun = {}, JournalInv, [Next]_vars
    PROVE JournalInv'
<1> USE NoRuntimePhase
<1>1. /\ Append(journal, Len(journal) + 1) \in Seq(Nat)
      /\ \A i \in DOMAIN Append(journal, Len(journal) + 1) : Append(journal, Len(journal) + 1)[i] = i
  BY NumberedLine DEF JournalInv, Verified
<1>2. Opened \in Seq(Nat) /\ \A i \in DOMAIN Opened : Opened[i] = i
  BY <1>1 DEF Opened, JournalInv, Verified
<1>3. ASSUME NEW r \in RequestsOn(document), Client(r)
      PROVE JournalInv'
  <2>1. runtime = NoRuntime
    BY <1>3 DEF Client
  <2> QED BY <1>3, <2>1 DEF Client, JournalInv, Verified
<1>4. CASE AppendEvent
  <2>1. runtime.phase # "ready"
    BY <1>4 DEF AppendEvent, JournalInv, Idle
  <2> QED BY <1>1, <1>4, <2>1 DEF AppendEvent, JournalInv, Verified
<1>5. CASE AppendRefused
  BY <1>5 DEF AppendRefused, JournalInv
<1>6. CASE OpenRuntime
  <2>1. UNCHANGED appending /\ appending = "nobody"
    BY <1>6 DEF OpenRuntime, Idle
  <2> QED BY <1>2, <1>6, <2>1, OpenedFields DEF JournalInv, Verified
<1>7. CASE Execute
  <2>1. runtime.phase = "ready" /\ DOMAIN runtime = RuntimeFields /\ runtime.sequence = Len(journal)
    BY <1>7 DEF Execute, JournalInv
  <2>2. /\ DOMAIN runtime' = RuntimeFields /\ runtime'.phase = "recording" /\ UNCHANGED appending
        /\ journal' \in {journal, Append(journal, Len(journal) + 1)} /\ Idle
    BY <1>7, <2>1, ExecutedFields
  <2> QED BY <1>1, <2>2 DEF JournalInv, Verified, Idle
<1>8. ASSUME NEW n \in AllNodes, Record(n)
      PROVE JournalInv'
  <2>1. /\ runtime.phase = "recording" /\ DOMAIN runtime = RuntimeFields /\ UNCHANGED journal
        /\ appending' = "runtime" /\ runtime' = [runtime EXCEPT !.unrecorded = @ \ {n}]
    BY <1>8 DEF Record, RecordsNext, JournalInv
  <2>2. runtime'.phase = "recording" /\ DOMAIN runtime' = RuntimeFields
    BY <2>1 DEF RuntimeFields
  <2> QED BY <2>1, <2>2 DEF JournalInv, Verified
<1>9. CASE Finish \/ Crash \/ (\E n \in AllNodes : RecordRaises(n))
  <2>1. /\ runtime' = NoRuntime /\ UNCHANGED journal /\ appending' = "nobody"
    BY <1>9 DEF Finish, Crash, RecordRaises, RecordsNext, Idle
  <2> QED BY <2>1 DEF JournalInv, Verified
<1>10. CASE ReviewMerge
  <2>1. runtime = NoRuntime /\ runtime' = NoRuntime /\ journal' = Opened /\ appending' = "client"
    BY <1>10 DEF ReviewMerge
  <2> QED BY <1>2, <2>1 DEF JournalInv, Verified
<1>11. CASE UNCHANGED vars
  BY <1>11 DEF vars, JournalInv, Verified
<1> QED BY <1>3, <1>4, <1>5, <1>6, <1>7, <1>8, <1>9, <1>10, <1>11 DEF Next

LEMMA JournalInvInit == Init => JournalInv
<1>1. <<1>> \in Seq(Nat) /\ DOMAIN <<1>> = {1} /\ <<1>>[1] = 1
  OBVIOUS
<1> QED BY <1>1, NoRuntimePhase DEF Init, JournalInv, Verified

LEMMA JournalInvariant == RequestsInRun = {} => (Spec => []JournalInv)
<1>1. Init => JournalInv
  BY JournalInvInit
<1>2. SUFFICES ASSUME RequestsInRun = {}
               PROVE Spec => []JournalInv
  OBVIOUS
<1>3. JournalInv /\ [Next]_vars => JournalInv'
  BY <1>2, JournalInvStep
<1> QED BY <1>1, <1>3, PTL DEF Spec

LEMMA LinesAreRight == JournalInv => JournalIsSequential
BY DEF JournalInv, JournalIsSequential

\* If nobody writes while a runtime exists, the lines of the journal are numbered
\* without gaps or repetitions, whichever journal object appends and wherever the
\* process dies (event_journal.py:75).
THEOREM LinesAreNumbered ==
    ASSUME RequestsInRun = {}
    PROVE Spec => []JournalIsSequential
BY LinesAreRight, JournalInvariant, PTL
-----------------------------------------------------------------------------
(* Sequences and graphs.                                                    *)

\* An attempt is appended as the last one.
LEMMA AppendedLast ==
    ASSUME NEW s, IsSequence(s), NEW e
    PROVE /\ IsSequence(Append(s, e)) /\ Append(s, e) # <<>>
          /\ Append(s, e)[Len(Append(s, e))] = e
<1> DEFINE S == {s[i] : i \in DOMAIN s} \cup {e}
           longer == Append(s, e)
<1>1. s \in Seq(S) /\ e \in S
  BY SeqMonotonic DEF IsSequence
<1>2. Len(s) \in Nat /\ DOMAIN s = 1 .. Len(s)
  BY <1>1, LenProperties
<1>3. /\ longer \in Seq(S) /\ longer # <<>> /\ Len(longer) = Len(s) + 1
      /\ longer[Len(s) + 1] = e
  <2> HIDE DEF S
  <2> QED BY <1>1, AppendProperties
<1>4. /\ Len(longer) \in Nat /\ DOMAIN longer = 1 .. Len(longer)
  <2> HIDE DEF S, longer
  <2> QED BY <1>3, LenProperties
<1>5. longer \in Seq({longer[i] : i \in DOMAIN longer})
  <2>1. longer = [i \in 1 .. Len(longer) |-> longer[i]]
    <3> HIDE DEF S, longer
    <3> QED BY <1>3, LenProperties
  <2>2. \A i \in 1 .. Len(longer) : longer[i] \in {longer[j] : j \in DOMAIN longer}
    <3> HIDE DEF S, longer
    <3> QED BY <1>4
  <2> HIDE DEF S, longer
  <2>3. [i \in 1 .. Len(longer) |-> longer[i]] \in Seq({longer[j] : j \in DOMAIN longer})
    BY <1>4, <2>2, IsASeq
  <2> QED BY <2>1, <2>3
<1> QED BY <1>3, <1>5 DEF IsSequence

LEMMA EmptySequence == IsSequence(<<>>)
BY EmptySeq DEF IsSequence

LEMMA NodesFinite ==
    ASSUME NEW g \in Graphs
    PROVE IsFiniteSet(NodesOf(g)) /\ NodesOf(g) \subseteq AllNodes
<1>1. Len(Declared[g]) \in Nat /\ DOMAIN Declared[g] = 1 .. Len(Declared[g])
      /\ Declared[g] \in [1 .. Len(Declared[g]) -> NodesOf(g)]
  BY GraphsAssumption, LenProperties
<1>2. Declared[g] \in Surjection(1 .. Len(Declared[g]), NodesOf(g))
  BY <1>1 DEF Surjection, NodesOf
<1>3. IsFiniteSet(1 .. Len(Declared[g]))
  BY <1>1, FS_Interval
<1>4. IsFiniteSet(NodesOf(g))
  BY <1>2, <1>3, FS_Surjection
<1> QED BY <1>4 DEF AllNodes

\* In any set of nodes there is one that depends on no other of them.
LEMMA FirstInDependency ==
    ASSUME NEW g \in Graphs, NEW T \in SUBSET NodesOf(g), T # {}
    PROVE \E n \in T : Deps[g][n] \cap T = {}
<1> DEFINE S == NodesOf(g)
           R == StrictSubsetOrdering(S)
           X == {Ancestors[g][n] : n \in T}
<1>1. /\ Deps[g] \in [S -> SUBSET S] /\ Ancestors[g] \in [S -> SUBSET S]
      /\ \A n \in S : /\ Ancestors[g][n] = Deps[g][n] \cup UNION {Ancestors[g][d] : d \in Deps[g][n]}
                      /\ n \notin Ancestors[g][n]
  BY GraphsAssumption
<1>2. X \subseteq FiniteSubsetsOf(S) /\ X # {}
  <2>1. \A n \in T : Ancestors[g][n] \in SUBSET S
    BY <1>1
  <2>2. \A Y \in SUBSET S : IsFiniteSet(Y)
    BY NodesFinite, FS_Subset
  <2> QED BY <2>1, <2>2 DEF FiniteSubsetsOf
<1>3. IsWellFoundedOn(R, FiniteSubsetsOf(S))
  BY FS_StrictSubsetOrderingWellFounded
<1>4. \E x \in X : \A y \in X : ~(<<y, x>> \in R)
  <2> HIDE DEF X, R
  <2> QED BY <1>2, <1>3, WFMin, Zenon
<1>5. PICK n \in T : \A m \in T : ~(<<Ancestors[g][m], Ancestors[g][n]>> \in R)
  <2> HIDE DEF R
  <2> QED BY <1>4
<1>6. ASSUME NEW d \in Deps[g][n] \cap T
      PROVE FALSE
  <2>1. d \in S /\ n \in S /\ Ancestors[g][d] \in SUBSET S /\ Ancestors[g][n] \in SUBSET S
    BY <1>1
  <2>2. Ancestors[g][d] \subseteq Ancestors[g][n] /\ d \in Ancestors[g][n] /\ d \notin Ancestors[g][d]
    BY <1>1, <2>1
  <2>3. <<Ancestors[g][d], Ancestors[g][n]>> \in R
    BY <2>1, <2>2 DEF StrictSubsetOrdering
  <2> QED BY <1>5, <2>3
<1> QED BY <1>6
-----------------------------------------------------------------------------
(* What a run makes of the states it starts from.                           *)

LEMMA GraphFacts ==
    ASSUME NEW g \in Graphs
    PROVE /\ \A n \in NodesOf(g) : /\ Deps[g][n] \subseteq NodesOf(g)
                                   /\ Ancestors[g][n] \subseteq NodesOf(g)
                                   /\ Deps[g][n] \subseteq Ancestors[g][n]
                                   /\ \A d \in Deps[g][n] : Ancestors[g][d] \subseteq Ancestors[g][n]
                                   /\ \A a \in Ancestors[g][n] :
                                         a \in Deps[g][n] \/ \E d \in Deps[g][n] : a \in Ancestors[g][d]
          /\ Editing[g] \subseteq NodesOf(g)
<1>1. /\ Deps[g] \in [NodesOf(g) -> SUBSET NodesOf(g)]
      /\ Ancestors[g] \in [NodesOf(g) -> SUBSET NodesOf(g)]
      /\ \A n \in NodesOf(g) : Ancestors[g][n] = Deps[g][n] \cup UNION {Ancestors[g][d] : d \in Deps[g][n]}
      /\ Editing[g] \subseteq NodesOf(g)
  BY GraphsAssumption
<1> QED BY <1>1

\* A run only executes what has everything it depends on succeeded.
LEMMA RunIsClosed ==
    ASSUME NEW g \in Graphs, NEW before \in [NodesOf(g) -> AtRest],
           NEW after \in [NodesOf(g) -> NodeState \ {"pending", "running"}],
           Settles(g, before, after), ClosedIn(g, before)
    PROVE ClosedIn(g, after)
<1> DEFINE Bad == {n \in NodesOf(g) : /\ after[n] \in {"succeeded", "failed"}
                                      /\ \E a \in Ancestors[g][n] : after[a] # "succeeded"}
<1>1. CASE Bad = {}
  BY <1>1 DEF ClosedIn
<1>2. CASE Bad # {}
  <2>1. PICK n \in Bad : Deps[g][n] \cap Bad = {}
    <3>1. Bad \in SUBSET NodesOf(g)
      OBVIOUS
    <3> HIDE DEF Bad
    <3> QED BY <1>2, <3>1, FirstInDependency
  <2>2. \A m \in NodesOf(g) : before[m] # "pending" => after[m] = before[m]
    BY DEF Settles
  <2>3. n \in NodesOf(g) /\ after[n] \in {"succeeded", "failed"}
    OBVIOUS
  <2>4. CASE before[n] # "pending"
    <3>1. \A a \in Ancestors[g][n] : a \in NodesOf(g) /\ before[a] = "succeeded"
      BY <2>2, <2>3, <2>4, GraphFacts DEF ClosedIn
    <3> QED BY <2>2, <3>1
  <2>5. CASE before[n] = "pending"
    <3>1. \A d \in Deps[g][n] : after[d] = "succeeded"
      BY <2>3, <2>5 DEF Settles
    <3>2. \A d \in Deps[g][n] : \A a \in Ancestors[g][d] : after[a] = "succeeded"
      BY <2>1, <2>3, <3>1, GraphFacts
    <3> QED BY <2>3, <3>1, <3>2, GraphFacts
  <2> QED BY <2>4, <2>5
<1> QED BY <1>1, <1>2

LEMMA RunIsSupported ==
    ASSUME NEW g \in Graphs, NEW before \in [NodesOf(g) -> AtRest],
           NEW after \in [NodesOf(g) -> NodeState \ {"pending", "running"}],
           Settles(g, before, after), Supported(g, before)
    PROVE Supported(g, after)
<1>1. SUFFICES ASSUME NEW n \in NodesOf(g), after[n] \in {"succeeded", "failed"}, NEW d \in Deps[g][n]
               PROVE after[d] = "succeeded" \/ DeclaredBefore(g, n, d)
  BY DEF Supported
<1>2. \A m \in NodesOf(g) : before[m] # "pending" => after[m] = before[m]
  BY DEF Settles
<1>3. d \in NodesOf(g)
  BY <1>1, GraphFacts, GraphsAssumption
<1>4. CASE before[n] # "pending"
  <2>1. before[d] = "succeeded" \/ DeclaredBefore(g, n, d)
    BY <1>1, <1>2, <1>4 DEF Supported
  <2> QED BY <1>2, <1>3, <2>1
<1>5. CASE before[n] = "pending"
  BY <1>1, <1>5 DEF Settles
<1> QED BY <1>4, <1>5

\* A run blocks a node only below one that failed or was cancelled.
LEMMA RunIsCaused ==
    ASSUME NEW g \in Graphs, NEW before \in [NodesOf(g) -> AtRest],
           NEW after \in [NodesOf(g) -> NodeState \ {"pending", "running"}],
           Settles(g, before, after), Caused(g, before)
    PROVE Caused(g, after)
<1> DEFINE Bad == {n \in NodesOf(g) : /\ after[n] = "blocked"
                                      /\ \A a \in Ancestors[g][n] : after[a] \notin {"failed", "cancelled"}}
<1>1. CASE Bad = {}
  BY <1>1 DEF Caused
<1>2. CASE Bad # {}
  <2>1. PICK n \in Bad : Deps[g][n] \cap Bad = {}
    <3>1. Bad \in SUBSET NodesOf(g)
      OBVIOUS
    <3> HIDE DEF Bad
    <3> QED BY <1>2, <3>1, FirstInDependency
  <2>2. \A m \in NodesOf(g) : before[m] # "pending" => after[m] = before[m]
    BY DEF Settles
  <2>3. /\ n \in NodesOf(g) /\ after[n] = "blocked"
        /\ \A a \in Ancestors[g][n] : after[a] \notin {"failed", "cancelled"}
    OBVIOUS
  <2>4. CASE before[n] # "pending"
    <3>1. PICK a \in Ancestors[g][n] : before[a] \in {"failed", "cancelled"}
      BY <2>2, <2>3, <2>4 DEF Caused
    <3>2. a \in NodesOf(g)
      BY <2>3, GraphFacts
    <3> QED BY <2>2, <2>3, <3>1, <3>2
  <2>5. CASE before[n] = "pending"
    <3>1. PICK d \in Deps[g][n] : after[d] \in {"failed", "blocked"} \/ before[d] = "cancelled"
      BY <2>3, <2>5 DEF Settles
    <3>2. d \in NodesOf(g) /\ d \in Ancestors[g][n] /\ Ancestors[g][d] \subseteq Ancestors[g][n]
      BY <2>3, GraphFacts
    <3>3. CASE after[d] = "blocked"
      <4>1. d \notin Bad
        BY <2>1
      <4> QED BY <2>3, <3>2, <3>3, <4>1
    <3> QED BY <2>2, <2>3, <3>1, <3>2, <3>3
  <2> QED BY <2>4, <2>5
<1> QED BY <1>1, <1>2

\* The proposals of a run, in the order in which their nodes succeeded.
LEMMA RunIsReviewable ==
    ASSUME NEW g \in Graphs, NEW executed \in SUBSET NodesOf(g), NEW after,
           NEW queue \in OrdersOf(g, Proposed(g, executed, after))
    PROVE queue \in Seq(AllNodes) /\ Reviewable(g, queue, after)
<1> DEFINE S == Proposed(g, executed, after)
           D == 1 .. Cardinality(S)
<1>1. S \subseteq NodesOf(g) /\ \A n \in S : n \in Editing[g] /\ after[n] = "succeeded"
  BY DEF Proposed
<1>2. Cardinality(S) \in Nat
  <2> HIDE DEF S
  <2> QED BY <1>1, NodesFinite, FS_Subset, FS_CardinalityType
<1>3. /\ queue \in [D -> S]
      /\ \A i, j \in DOMAIN queue : i < j => queue[j] \notin {queue[i]} \cup Ancestors[g][queue[i]]
  <2> HIDE DEF S
  <2> QED BY DEF OrdersOf, S
<1> HIDE DEF S
<1>4. queue \in Seq(AllNodes)
  <2>1. queue = [i \in 1 .. Cardinality(S) |-> queue[i]] /\ \A i \in 1 .. Cardinality(S) : queue[i] \in AllNodes
    BY <1>1, <1>3, NodesFinite
  <2> QED BY <1>2, <2>1, IsASeq
<1>5. DOMAIN queue = D
  BY <1>3
<1> QED BY <1>1, <1>3, <1>4, <1>5 DEF Reviewable
-----------------------------------------------------------------------------
(* The states of the nodes.                                                 *)

LEMMA LastOne ==
    ASSUME NEW S, NEW s \in Seq(S), s # <<>>
    PROVE s[Len(s)] \in S
<1>1. Len(s) \in Nat /\ Len(s) # 0 /\ s \in [1 .. Len(s) -> S]
  BY LenProperties, EmptySeq
<1> QED BY <1>1

LEMMA GraphIsGraph ==
    ASSUME DocumentInv
    PROVE GraphNow \in Graphs
BY LastOne DEF DocumentInv, GraphNow, Graph

\* What a review leaves of a queue.
LEMMA TailIsReviewable ==
    ASSUME NEW queue \in Seq(AllNodes), queue # <<>>, NEW g, NEW s, Reviewable(g, queue, s)
    PROVE Tail(queue) \in Seq(AllNodes) /\ Reviewable(g, Tail(queue), s)
<1>1. Len(queue) \in Nat /\ Len(queue) # 0 /\ DOMAIN queue = 1 .. Len(queue)
  BY LenProperties, EmptySeq
<1>2. /\ Tail(queue) \in Seq(AllNodes) /\ Len(Tail(queue)) = Len(queue) - 1
      /\ \A i \in 1 .. Len(Tail(queue)) : Tail(queue)[i] = queue[i + 1]
  BY HeadTailProperties
<1>3. DOMAIN Tail(queue) = 1 .. (Len(queue) - 1)
  BY <1>2, LenProperties
<1> QED BY <1>1, <1>2, <1>3 DEF Reviewable

\* Steps that leave alone what the invariant says of the document.
LEMMA StatesKept ==
    ASSUME StatesInv, DOMAIN document' = DocumentFields, document'.revision = document.revision,
           document'.states = document.states, document'.attempts = document.attempts,
           document'.queue = document.queue, runtime' \in {runtime, NoRuntime}, revised' = revised
    PROVE StatesInv'
<1>1. GraphNow' = GraphNow
  BY DEF GraphNow, Graph
<1>2. DocumentInv'
  BY <1>1 DEF StatesInv, DocumentInv
<1>3. RuntimeInv'
  BY <1>1 DEF StatesInv, RuntimeInv
<1>4. HistoryInv'
  BY <1>1 DEF StatesInv, HistoryInv
<1> QED BY <1>2, <1>3, <1>4 DEF StatesInv

LEMMA StatesInvInit ==
    ASSUME CreatedWithGraph, Init
    PROVE StatesInv
<1> PICK g \in InitialGraphs : document = NewDocument(g)
  BY DEF Init
<1>1. /\ DOMAIN document = DocumentFields /\ document.revision = <<g>> /\ document.queue = <<>>
      /\ document.states = [n \in NodesOf(g) |-> "pending"]
      /\ document.attempts = [n \in NodesOf(g) |-> <<>>]
  BY DEF NewDocument, DocumentFields
<1>2. g \in Graphs /\ <<g>> \in Seq(Graphs) /\ <<g>> # <<>> /\ <<g>>[Len(<<g>>)] = g
  BY DEF CreatedWithGraph
<1>3. GraphNow = g
  BY <1>1, <1>2 DEF GraphNow, Graph
<1>4. <<>> \in Seq(AllNodes) /\ DOMAIN <<>> = {}
  OBVIOUS
<1>5. document.states \in [NodesOf(g) -> AtRest] /\ \A n \in NodesOf(g) : document.states[n] \notin Final
  BY <1>1 DEF AtRest, NodeState, Final
<1>6. DocumentInv
  BY <1>1, <1>2, <1>3, <1>4, <1>5, EmptySequence DEF DocumentInv
<1>7. runtime = NoRuntime /\ revised \in BOOLEAN
  BY DEF Init
<1>8. HistoryInv
  BY <1>1, <1>3, <1>4, <1>7 DEF HistoryInv, Reviewable, Caused
<1> QED BY <1>6, <1>7, <1>8 DEF StatesInv, RuntimeInv

\* Nobody revises the graph while a runtime exists.
LEMMA RevisionKeepsStates ==
    ASSUME StatesInv, NoRevisionInRun, NEW r \in RequestsOn(document), Client(r), r.kind = "revise"
    PROVE StatesInv'
<1>1. runtime = NoRuntime /\ runtime' = NoRuntime /\ revised' /\ document' = Result(document, r)
  BY DEF Client, NoRevisionInRun
<1>2. r.graph \in Graphs /\ GraphNow \in Graphs
  BY KindsOfRequests, GraphIsGraph DEF StatesInv
<1>3. /\ DOMAIN document' = DocumentFields
      /\ document'.revision = Append(document.revision, r.graph)
      /\ document'.states = Carry(document.states, r.graph, "pending")
      /\ document'.attempts = Carry(document.attempts, r.graph, <<>>)
      /\ document'.queue = document.queue
  BY <1>1, ResultFields DEF StatesInv, DocumentInv
<1>4. /\ document'.revision \in Seq(Graphs) /\ document'.revision # <<>>
      /\ document'.revision[Len(document'.revision)] = r.graph
  BY <1>2, <1>3, AppendProperties DEF StatesInv, DocumentInv
<1>5. GraphNow' = r.graph
  BY <1>4 DEF GraphNow, Graph
<1>6. DOMAIN document.states = NodesOf(GraphNow) /\ DOMAIN document.attempts = NodesOf(GraphNow)
  BY DEF StatesInv, DocumentInv
<1>7. document'.states \in [NodesOf(r.graph) -> AtRest] /\ DOMAIN document'.attempts = NodesOf(r.graph)
  <2>1. "pending" \in AtRest
    BY DEF AtRest, NodeState
  <2> QED BY <1>3, <1>6, <2>1 DEF Carry, StatesInv, DocumentInv
<1>8. ASSUME NEW n \in NodesOf(r.graph)
      PROVE /\ IsSequence(document'.attempts[n])
            /\ document'.states[n] \in Final => EndsWith(document'.attempts[n], document'.states[n])
  <2>1. CASE n \in NodesOf(GraphNow)
    <3>1. document'.attempts[n] = document.attempts[n] /\ document'.states[n] = document.states[n]
      BY <1>3, <1>6, <2>1 DEF Carry
    <3> QED BY <2>1, <3>1 DEF StatesInv, DocumentInv
  <2>2. CASE n \notin NodesOf(GraphNow)
    <3>1. document'.attempts[n] = <<>> /\ document'.states[n] = "pending"
      BY <1>3, <1>6, <2>2 DEF Carry
    <3> QED BY <3>1, EmptySequence DEF Final
  <2> QED BY <2>1, <2>2
<1>9. document'.queue \in Seq(AllNodes)
  BY <1>3 DEF StatesInv, DocumentInv
<1>10. DocumentInv'
  BY <1>3, <1>4, <1>5, <1>7, <1>8, <1>9 DEF DocumentInv
<1> QED BY <1>1, <1>10 DEF StatesInv, RuntimeInv, HistoryInv

\* A retry takes back everything its node has blocked.
LEMMA RetryKeepsStates ==
    ASSUME StatesInv, NoRevisionInRun, NEW r \in RequestsOn(document), Client(r), r.kind = "retry"
    PROVE StatesInv'
<1> DEFINE n == r.node
           g == GraphNow
           before == document.states
           Taken(m) == m = n \/ (m \in NodesOf(g) /\ before[m] = "blocked" /\ n \in Ancestors[g][m])
<1>1. /\ runtime = NoRuntime /\ runtime' = NoRuntime /\ revised' = revised
      /\ document' = Result(document, r) /\ Accepts(document, r)
  <2>1. runtime = NoRuntime
    BY DEF Client, NoRevisionInRun
  <2>2. revised' = (revised \/ r.kind = "revise") /\ revised \in BOOLEAN /\ r.kind # "revise"
    BY DEF Client, StatesInv, HistoryInv
  <2> QED BY <2>1, <2>2 DEF Client
<1>2. n \in DOMAIN before /\ before[n] \in {"failed", "blocked", "cancelled"}
  BY <1>1 DEF Accepts, MayRetry
<1>3. /\ DOMAIN document' = DocumentFields /\ document'.revision = document.revision
      /\ document'.states = Retry(document, r.node, r.provider).states
      /\ document'.attempts = document.attempts /\ document'.queue = document.queue
  BY <1>1, ResultFields DEF StatesInv, DocumentInv
<1>4. GraphNow' = g
  BY <1>3 DEF GraphNow, Graph
<1>5. document'.states = [m \in DOMAIN before |-> IF Taken(m) THEN "pending" ELSE before[m]]
  BY <1>3 DEF Retry, GraphNow, StatesInv, DocumentInv, DocumentFields
<1>6. before \in [NodesOf(g) -> AtRest] /\ "pending" \in AtRest /\ "pending" \notin Final
  BY DEF StatesInv, DocumentInv, AtRest, NodeState, Final
<1>7. /\ document'.states \in [NodesOf(g) -> AtRest]
      /\ \A m \in NodesOf(g) : document'.states[m] \in {before[m], "pending"}
  BY <1>5, <1>6
<1>8. DocumentInv'
  BY <1>3, <1>4, <1>6, <1>7 DEF StatesInv, DocumentInv
<1>9. ASSUME ~revised
      PROVE Reviewable(g, document.queue, document'.states)
  <2>1. ASSUME NEW m \in NodesOf(g), before[m] = "succeeded"
        PROVE document'.states[m] = "succeeded"
    BY <1>2, <1>5, <1>6, <2>1
  <2>2. /\ \A i \in DOMAIN document.queue : /\ document.queue[i] \in Editing[g]
                                            /\ before[document.queue[i]] = "succeeded"
        /\ \A i, j \in DOMAIN document.queue : i < j =>
              document.queue[j] \notin {document.queue[i]} \cup Ancestors[g][document.queue[i]]
    BY <1>9 DEF StatesInv, HistoryInv, Reviewable
  <2>3. Editing[g] \subseteq NodesOf(g)
    BY GraphIsGraph, GraphFacts DEF StatesInv
  <2> HIDE DEF g, before
  <2> QED BY <2>1, <2>2, <2>3 DEF Reviewable
<1>10. ASSUME ~revised
       PROVE Caused(g, document'.states)
  <2>1. SUFFICES ASSUME NEW m \in NodesOf(g), document'.states[m] = "blocked"
                 PROVE \E a \in Ancestors[g][m] : document'.states[a] \in {"failed", "cancelled"}
    BY DEF Caused
  <2>2. before[m] = "blocked" /\ n \notin Ancestors[g][m]
    BY <1>5, <1>6, <2>1
  <2>3. PICK a \in Ancestors[g][m] : before[a] \in {"failed", "cancelled"}
    BY <1>10, <2>2 DEF StatesInv, HistoryInv, Caused
  <2>4. a \in NodesOf(g)
    BY GraphIsGraph, GraphFacts DEF StatesInv
  <2>5. document'.states[a] = before[a]
    BY <1>5, <1>6, <2>2, <2>3, <2>4
  <2> QED BY <2>3, <2>5
<1>11. HistoryInv'
  <2>1. revised' \in BOOLEAN
    BY <1>1 DEF StatesInv, HistoryInv
  <2> QED BY <1>1, <1>3, <1>4, <1>9, <1>10, <2>1 DEF HistoryInv
<1> QED BY <1>1, <1>8, <1>11 DEF StatesInv, RuntimeInv

\* A runtime goes on from the states of the document as they are.
LEMMA RestoredAsWritten ==
    ASSUME DocumentInv
    PROVE Restored(document) = document.states
<1>1. document.states \in [NodesOf(GraphNow) -> AtRest] /\ "running" \notin AtRest
  BY DEF DocumentInv, AtRest
<1> QED BY <1>1 DEF Restored, GraphNow

LEMMA OpeningKeepsStates ==
    ASSUME StatesInv, OpenRuntime
    PROVE StatesInv'
<1>1. UNCHANGED <<document, revised>>
  BY DEF OpenRuntime
<1>2. /\ DOMAIN runtime' = RuntimeFields /\ runtime'.phase = "ready"
      /\ runtime'.revision = document.revision /\ runtime'.states = document.states
  BY OpenedFields, RestoredAsWritten DEF StatesInv
<1>3. GraphNow' = GraphNow
  BY <1>1 DEF GraphNow
<1>4. document.states \in [NodesOf(GraphNow) -> AtRest]
  BY DEF StatesInv, DocumentInv
<1>5. DocumentInv' /\ RuntimeInv'
  BY <1>1, <1>2, <1>3, <1>4 DEF StatesInv, DocumentInv, RuntimeInv
<1>6. HistoryInv'
  BY <1>1, <1>2, <1>3 DEF StatesInv, HistoryInv
<1> QED BY <1>5, <1>6 DEF StatesInv

LEMMA ExecutionKeepsStates ==
    ASSUME StatesInv, Execute
    PROVE StatesInv'
<1> DEFINE g == GraphNow
           before == document.states
<1>1. /\ DOMAIN runtime = RuntimeFields /\ runtime # NoRuntime
      /\ runtime.revision = document.revision /\ runtime.states = before
  BY NoRuntimePhase DEF Execute, StatesInv, RuntimeInv
<1>2. Graph(runtime) = g /\ g \in Graphs /\ GraphNow' = g
  <2>1. UNCHANGED document
    BY <1>1, ExecutedFields
  <2> QED BY <1>1, <2>1, GraphIsGraph DEF Graph, GraphNow, StatesInv
<1> DEFINE executed(after) == {n \in NodesOf(g) : before[n] = "pending" /\ after[n] \in {"succeeded", "failed"}}
<1>3. /\ DOMAIN runtime' = RuntimeFields /\ runtime'.phase = "recording"
      /\ runtime'.revision = document.revision /\ UNCHANGED <<document, revised>>
  BY <1>1, ExecutedFields
<1>4. PICK after \in [NodesOf(g) -> NodeState \ {"pending", "running"}] :
         /\ Settles(g, before, after)
         /\ runtime'.states = after
         /\ runtime'.unrecorded = {n \in NodesOf(g) : after[n] \in Final}
         /\ runtime'.queue \in OrdersOf(g, Proposed(g, executed(after), after))
  BY <1>1, <1>2, ExecutedFields
<1>5. before \in [NodesOf(g) -> AtRest] /\ after \in [NodesOf(g) -> AtRest]
  BY DEF StatesInv, DocumentInv, AtRest
<1>6. runtime'.queue \in Seq(AllNodes) /\ Reviewable(g, runtime'.queue, after)
  <2>1. executed(after) \in SUBSET NodesOf(g)
    OBVIOUS
  <2> HIDE DEF g, before, executed
  <2> QED BY <1>2, <1>4, <2>1, RunIsReviewable
<1>7. \A n \in NodesOf(g) : before[n] # "pending" => after[n] = before[n]
  BY <1>4, <1>5 DEF Settles
<1>8. RuntimeInv'
  <2> HIDE DEF g
  <2> QED BY <1>2, <1>3, <1>4, <1>5, <1>6, <1>7 DEF RuntimeInv
<1>9. DocumentInv'
  BY <1>2, <1>3 DEF StatesInv, DocumentInv
<1>10. HistoryInv'
  <2>1. ~revised => Reviewable(g, document.queue, before) /\ Caused(g, before)
    BY DEF StatesInv, HistoryInv
  <2>2. ~revised => Caused(g, after)
    <3> HIDE DEF g, before
    <3> QED BY <1>2, <1>4, <1>5, <2>1, RunIsCaused
  <2>3. revised' \in BOOLEAN
    BY <1>3 DEF StatesInv, HistoryInv
  <2> QED BY <1>2, <1>3, <1>4, <2>1, <2>2, <2>3 DEF HistoryInv
<1> QED BY <1>8, <1>9, <1>10 DEF StatesInv

LEMMA RecordingKeepsStates ==
    ASSUME StatesInv, NEW n, Record(n)
    PROVE StatesInv'
<1> DEFINE g == GraphNow
           before == document.states
           final == runtime.states[n]
<1>1. /\ Idle /\ runtime.phase = "recording" /\ n \in runtime.unrecorded /\ UNCHANGED revised
  BY DEF Record, RecordsNext
<1>2. /\ runtime # NoRuntime /\ DOMAIN runtime = RuntimeFields /\ runtime.revision = document.revision
      /\ runtime.states \in [NodesOf(g) -> AtRest]
      /\ \A m \in NodesOf(g) : before[m] # "pending" => runtime.states[m] = before[m]
      /\ runtime.queue \in Seq(AllNodes) /\ Reviewable(g, runtime.queue, runtime.states)
      /\ runtime.unrecorded \subseteq {m \in NodesOf(g) : runtime.states[m] \in Final}
      /\ \A m \in NodesOf(g) \ runtime.unrecorded : runtime.states[m] \in Final => before[m] = runtime.states[m]
  BY <1>1, NoRuntimePhase DEF StatesInv, RuntimeInv
<1>3. n \in NodesOf(g) /\ final \in Final /\ final \in AtRest
  BY <1>1, <1>2
<1>4. /\ DOMAIN document' = DocumentFields /\ DOMAIN runtime' = RuntimeFields
      /\ document'.revision = document.revision /\ document'.queue = document.queue
      /\ document'.states = [before EXCEPT ![n] = final]
      /\ document'.attempts = [document.attempts EXCEPT ![n] =
            Append(@, [status |-> final, provider |-> AttemptProvider(n)])]
      /\ runtime'.phase = "recording" /\ runtime'.revision = runtime.revision
      /\ runtime'.states = runtime.states /\ runtime'.queue = runtime.queue
      /\ runtime'.unrecorded = runtime.unrecorded \ {n}
  BY <1>1, <1>2, RecordedFields DEF StatesInv, DocumentInv
<1>5. GraphNow' = g
  BY <1>4 DEF GraphNow, Graph
<1>6. before \in [NodesOf(g) -> AtRest] /\ DOMAIN document.attempts = NodesOf(g)
  BY DEF StatesInv, DocumentInv
<1>7. /\ document'.states \in [NodesOf(g) -> AtRest] /\ document'.states[n] = final
      /\ \A m \in NodesOf(g) \ {n} : document'.states[m] = before[m]
  BY <1>3, <1>4, <1>6
<1>8. /\ DOMAIN document'.attempts = NodesOf(g)
      /\ document'.attempts[n] = Append(document.attempts[n], [status |-> final, provider |-> AttemptProvider(n)])
      /\ \A m \in NodesOf(g) \ {n} : document'.attempts[m] = document.attempts[m]
  BY <1>3, <1>4, <1>6
<1>9. IsSequence(document'.attempts[n]) /\ EndsWith(document'.attempts[n], final)
  <2>1. IsSequence(document.attempts[n])
    BY <1>3 DEF StatesInv, DocumentInv
  <2>2. [status |-> final, provider |-> AttemptProvider(n)].status = final
    OBVIOUS
  <2> QED BY <1>8, <2>1, <2>2, AppendedLast DEF EndsWith
<1>10. \A m \in NodesOf(g) : /\ IsSequence(document'.attempts[m])
                             /\ document'.states[m] \in Final => EndsWith(document'.attempts[m], document'.states[m])
  <2>1. \A m \in NodesOf(g) : /\ IsSequence(document.attempts[m])
                              /\ before[m] \in Final => EndsWith(document.attempts[m], before[m])
    BY DEF StatesInv, DocumentInv
  <2> QED BY <1>7, <1>8, <1>9, <2>1
<1>11. document'.queue \in Seq(AllNodes) /\ document'.revision \in Seq(Graphs) /\ document'.revision # <<>>
  BY <1>4 DEF StatesInv, DocumentInv
<1> HIDE DEF g, before, final
<1>12. DocumentInv'
  BY <1>4, <1>5, <1>7, <1>8, <1>10, <1>11 DEF DocumentInv
<1>13. RuntimeInv'
  <2>1. \A m \in NodesOf(g) : document'.states[m] # "pending" => runtime'.states[m] = document'.states[m]
    BY <1>2, <1>3, <1>4, <1>7 DEF final
  <2>2. \A m \in NodesOf(g) \ runtime'.unrecorded : runtime'.states[m] \in Final => document'.states[m] = runtime'.states[m]
    BY <1>2, <1>3, <1>4, <1>7 DEF final
  <2>3. runtime'.unrecorded \subseteq {m \in NodesOf(g) : runtime'.states[m] \in Final}
    BY <1>2, <1>4
  <2> QED BY <1>2, <1>4, <1>5, <2>1, <2>2, <2>3 DEF RuntimeInv
<1>14. HistoryInv'
  <2>1. SUFFICES ASSUME ~revised
                 PROVE /\ Reviewable(g, document.queue, document'.states) /\ Caused(g, document'.states)
                       /\ Caused(g, runtime.states)
    <3>1. revised' \in BOOLEAN
      BY <1>1 DEF StatesInv, HistoryInv
    <3> QED BY <1>1, <1>4, <1>5, <3>1 DEF HistoryInv
  <2>2. Reviewable(g, document.queue, before) /\ Caused(g, before) /\ Caused(g, runtime.states)
    BY <1>2, <2>1 DEF StatesInv, HistoryInv, g, before
  <2>3. g \in Graphs
    BY GraphIsGraph DEF StatesInv, g
  <2>4. before[n] # "pending" => final = before[n]
    BY <1>2, <1>3 DEF final
  <2>5. Reviewable(g, document.queue, document'.states)
    <3>1. \A m \in NodesOf(g) : before[m] = "succeeded" => document'.states[m] = "succeeded"
      BY <1>7, <2>4
    <3>2. Editing[g] \subseteq NodesOf(g)
      BY <2>3, GraphFacts
    <3> QED BY <2>2, <3>1, <3>2 DEF Reviewable
  <2>6. Caused(g, document'.states)
    <3>1. SUFFICES ASSUME NEW m \in NodesOf(g), document'.states[m] = "blocked"
                   PROVE \E a \in Ancestors[g][m] : document'.states[a] \in {"failed", "cancelled"}
      BY DEF Caused
    <3>2. before[m] = "blocked"
      BY <1>3, <1>7, <3>1 DEF Final
    <3>3. PICK a \in Ancestors[g][m] : before[a] \in {"failed", "cancelled"}
      BY <2>2, <3>2 DEF Caused
    <3>4. a \in NodesOf(g)
      BY <2>3, GraphFacts
    <3> QED BY <1>7, <2>4, <3>3, <3>4
  <2> QED BY <2>2, <2>5, <2>6
<1> QED BY <1>12, <1>13, <1>14 DEF StatesInv

LEMMA FinishKeepsStates ==
    ASSUME StatesInv, Finish
    PROVE StatesInv'
<1> DEFINE g == GraphNow
<1>1. runtime.phase = "recording" /\ runtime.unrecorded = {} /\ UNCHANGED revised
  BY DEF Finish
<1>2. /\ runtime # NoRuntime /\ runtime.states \in [NodesOf(g) -> AtRest]
      /\ runtime.queue \in Seq(AllNodes) /\ Reviewable(g, runtime.queue, runtime.states)
      /\ \A n \in NodesOf(g) : runtime.states[n] \in Final => document.states[n] = runtime.states[n]
  BY <1>1, NoRuntimePhase DEF StatesInv, RuntimeInv
<1>3. /\ DOMAIN document' = DocumentFields /\ runtime' = NoRuntime
      /\ document'.revision = document.revision /\ document'.queue = runtime.queue
      /\ document'.states = runtime.states /\ document'.attempts = document.attempts
  BY FinishedFields DEF StatesInv, DocumentInv
<1>4. GraphNow' = g
  BY <1>3 DEF GraphNow, Graph
<1>5. DocumentInv'
  BY <1>2, <1>3, <1>4 DEF StatesInv, DocumentInv
<1>6. HistoryInv'
  BY <1>1, <1>2, <1>3, <1>4 DEF StatesInv, HistoryInv
<1> QED BY <1>3, <1>5, <1>6 DEF StatesInv, RuntimeInv

LEMMA ReviewKeepsStates ==
    ASSUME StatesInv, ReviewMerge
    PROVE StatesInv'
<1> DEFINE g == GraphNow
<1>1. document.queue # <<>> /\ UNCHANGED <<runtime, revised>>
  BY DEF ReviewMerge
<1>2. /\ DOMAIN document' = DocumentFields
      /\ document'.revision = document.revision /\ document'.queue = Tail(document.queue)
      /\ document'.states = document.states /\ document'.attempts = document.attempts
  BY ReviewedFields DEF StatesInv, DocumentInv
<1>3. GraphNow' = g
  BY <1>2 DEF GraphNow, Graph
<1>4. /\ Tail(document.queue) \in Seq(AllNodes)
      /\ ~revised => Reviewable(g, Tail(document.queue), document.states)
  <2>1. document.queue \in Seq(AllNodes) /\ (~revised => Reviewable(g, document.queue, document.states))
    BY DEF StatesInv, DocumentInv, HistoryInv
  <2>2. Tail(document.queue) \in Seq(AllNodes)
    BY <1>1, <2>1, HeadTailProperties
  <2> HIDE DEF g
  <2> QED BY <1>1, <2>1, <2>2, TailIsReviewable
<1>5. DocumentInv'
  BY <1>2, <1>3, <1>4 DEF StatesInv, DocumentInv
<1>6. RuntimeInv'
  BY <1>1, <1>2, <1>3 DEF StatesInv, RuntimeInv
<1>7. HistoryInv'
  BY <1>1, <1>2, <1>3, <1>4 DEF StatesInv, HistoryInv
<1> QED BY <1>5, <1>6, <1>7 DEF StatesInv

LEMMA StatesInvStep ==
    ASSUME NoRevisionInRun, StatesInv, [Next]_vars
    PROVE StatesInv'
<1>1. ASSUME NEW r \in RequestsOn(document), Client(r)
      PROVE StatesInv'
  <2>1. CASE r.kind = "revise"
    BY <1>1, <2>1, RevisionKeepsStates
  <2>2. CASE r.kind = "retry"
    BY <1>1, <2>2, RetryKeepsStates
  <2>3. CASE r.kind \notin {"revise", "retry"}
    <3>1. /\ runtime' = runtime /\ document' = Result(document, r) /\ revised' = revised
      BY <1>1, <2>3 DEF Client, StatesInv, HistoryInv
    <3>2. r.kind \in {"approve", "transition", "break", "clear_break", "step"}
      BY <2>3, KindsOfRequests
    <3>3. /\ DOMAIN document' = DocumentFields /\ document'.revision = document.revision
          /\ document'.states = document.states /\ document'.attempts = document.attempts
          /\ document'.queue = document.queue
      BY <3>1, <3>2, ResultFields DEF StatesInv, DocumentInv
    <3> QED BY <3>1, <3>3, StatesKept
  <2> QED BY <2>1, <2>2, <2>3
<1>2. CASE AppendEvent \/ AppendRefused \/ Crash \/ (\E n \in AllNodes : RecordRaises(n)) \/ UNCHANGED vars
  <2>1. UNCHANGED <<document, revised>> /\ runtime' \in {runtime, NoRuntime}
    BY <1>2 DEF AppendEvent, AppendRefused, Crash, RecordRaises, vars
  <2>2. DOMAIN document = DocumentFields
    BY DEF StatesInv, DocumentInv
  <2> QED BY <2>1, <2>2, StatesKept
<1>3. CASE OpenRuntime
  BY <1>3, OpeningKeepsStates
<1>4. CASE Execute
  BY <1>4, ExecutionKeepsStates
<1>5. CASE \E n \in AllNodes : Record(n)
  BY <1>5, RecordingKeepsStates
<1>6. CASE Finish
  BY <1>6, FinishKeepsStates
<1>7. CASE ReviewMerge
  BY <1>7, ReviewKeepsStates
<1> QED BY <1>1, <1>2, <1>3, <1>4, <1>5, <1>6, <1>7 DEF Next

LEMMA StatesInvariant == CreatedWithGraph /\ NoRevisionInRun => (Spec => []StatesInv)
<1>1. SUFFICES ASSUME CreatedWithGraph, NoRevisionInRun
               PROVE Spec => []StatesInv
  OBVIOUS
<1>2. Init => StatesInv
  BY <1>1, StatesInvInit
<1>3. StatesInv /\ [Next]_vars => StatesInv'
  BY <1>1, StatesInvStep
<1> QED BY <1>2, <1>3, PTL DEF Spec

LEMMA StatesAreTold ==
    ASSUME StatesInv
    PROVE LastAttemptMatchesState /\ QueueIsReviewable /\ BlockedHasACause
<1>1. DOMAIN document.states = NodesOf(GraphNow)
  BY DEF StatesInv, DocumentInv
<1>2. LastAttemptMatchesState
  BY <1>1 DEF StatesInv, DocumentInv, Final, EndsWith, LastAttemptMatchesState
<1>3. QueueIsReviewable
  <2> SUFFICES ASSUME ~revised
               PROVE QueueIsReviewable
    BY DEF QueueIsReviewable
  <2>1. Reviewable(GraphNow, document.queue, document.states)
    BY DEF StatesInv, HistoryInv
  <2> QED BY <2>1 DEF QueueIsReviewable, Reviewable, GraphNow
<1>4. BlockedHasACause
  <2> SUFFICES ASSUME Settled
               PROVE BlockedHasACause
    BY DEF BlockedHasACause
  <2>1. Caused(GraphNow, document.states)
    BY DEF StatesInv, HistoryInv, Settled
  <2> QED BY <1>1, <2>1 DEF BlockedHasACause, Caused, GraphNow
<1> QED BY <1>2, <1>3, <1>4

\* If nobody revises the graph or retries a node while a runtime exists, the
\* history of attempts ends with the state the document shows, wherever a run
\* dies and however often it is restored (orchestration_store.py:83).
THEOREM AttemptsTellStates ==
    ASSUME CreatedWithGraph, NoRevisionInRun
    PROVE Spec => []LastAttemptMatchesState
BY StatesAreTold, StatesInvariant, PTL

\* Under the same assumption the merge queue offers each proposal once, of a
\* successful editing node, after those its node depends on, also while clients
\* review during a run and after retries (orchestration_runtime.py:91).
THEOREM ReviewInDependencyOrder ==
    ASSUME CreatedWithGraph, NoRevisionInRun
    PROVE Spec => []QueueIsReviewable
BY StatesAreTold, StatesInvariant, PTL

\* Under the same assumption a blocked node has an ancestor that failed or was
\* cancelled, so that retrying those leaves nothing blocked
\* (orchestration_store.py:94).
THEOREM NothingBlockedForGood ==
    ASSUME CreatedWithGraph, NoRevisionInRun
    PROVE Spec => []BlockedHasACause
BY StatesAreTold, StatesInvariant, PTL
-----------------------------------------------------------------------------
(* The order of dependency.                                                 *)

LEMMA ClosedInvInit ==
    ASSUME Init
    PROVE ClosedInv
<1> PICK g \in InitialGraphs : document = NewDocument(g)
  BY DEF Init
<1>1. document.states = [n \in NodesOf(g) |-> "pending"] /\ runtime = NoRuntime
  BY DEF NewDocument, Init
<1> QED BY <1>1 DEF ClosedInv, ClosedIn, Supported

LEMMA RetryKeepsClosed ==
    ASSUME StatesInv, ClosedInv, NoRevisionInRun,
           NEW r \in RequestsOn(document), Client(r), r.kind = "retry"
    PROVE ClosedInv'
<1> DEFINE n == r.node
           g == GraphNow
           before == document.states
           Taken(m) == m = n \/ (m \in NodesOf(g) /\ before[m] = "blocked" /\ n \in Ancestors[g][m])
<1>1. /\ runtime = NoRuntime /\ runtime' = NoRuntime /\ revised' = revised
      /\ document' = Result(document, r) /\ Accepts(document, r)
  <2>1. runtime = NoRuntime
    BY DEF Client, NoRevisionInRun
  <2>2. revised' = (revised \/ r.kind = "revise") /\ revised \in BOOLEAN /\ r.kind # "revise"
    BY DEF Client, StatesInv, HistoryInv
  <2> QED BY <2>1, <2>2 DEF Client
<1>2. n \in DOMAIN before /\ before[n] \in {"failed", "blocked", "cancelled"}
  BY <1>1 DEF Accepts, MayRetry
<1>3. /\ DOMAIN document' = DocumentFields /\ document'.revision = document.revision
      /\ document'.states = Retry(document, r.node, r.provider).states
  BY <1>1, ResultFields DEF StatesInv, DocumentInv
<1>4. GraphNow' = g
  BY <1>3 DEF GraphNow, Graph
<1>5. document'.states = [m \in DOMAIN before |-> IF Taken(m) THEN "pending" ELSE before[m]]
  BY <1>3 DEF Retry, GraphNow, StatesInv, DocumentInv, DocumentFields
<1>6. before \in [NodesOf(g) -> AtRest]
  BY DEF StatesInv, DocumentInv
<1>7. ~revised /\ DeclaredInOrder(g) => ClosedIn(g, document'.states)
  <2>1. SUFFICES ASSUME ~revised, DeclaredInOrder(g), NEW m \in NodesOf(g),
                        document'.states[m] \in {"running", "succeeded", "failed"}, NEW a \in Ancestors[g][m]
                 PROVE document'.states[a] = "succeeded"
    BY <1>5, <1>6 DEF ClosedIn
  <2>2. before[m] \in {"running", "succeeded", "failed"}
    BY <1>5, <1>6, <2>1
  <2>3. before[a] = "succeeded"
    BY <1>1, <1>6, <2>1, <2>2, NoRuntimePhase DEF ClosedInv, ClosedIn
  <2>4. a \in NodesOf(g)
    BY <2>1, GraphIsGraph, GraphFacts DEF StatesInv
  <2> QED BY <1>2, <1>5, <1>6, <2>3, <2>4
<1>8. ~revised => Supported(g, document'.states)
  <2>1. SUFFICES ASSUME ~revised, NEW m \in NodesOf(g),
                        document'.states[m] \in {"running", "succeeded", "failed"}, NEW d \in Deps[g][m]
                 PROVE document'.states[d] = "succeeded" \/ DeclaredBefore(g, m, d)
    BY <1>5, <1>6 DEF Supported
  <2>2. before[m] \in {"running", "succeeded", "failed"}
    BY <1>5, <1>6, <2>1
  <2>3. before[d] = "succeeded" \/ DeclaredBefore(g, m, d)
    <3>1. Supported(g, before) /\ m \in DOMAIN before
      BY <1>6, <2>1 DEF ClosedInv
    <3> QED BY <2>1, <2>2, <3>1 DEF Supported
  <2>4. d \in NodesOf(g)
    BY <2>1, GraphIsGraph, GraphFacts DEF StatesInv
  <2> QED BY <1>2, <1>5, <1>6, <2>3, <2>4
<1> HIDE DEF g
<1> QED BY <1>1, <1>4, <1>7, <1>8 DEF ClosedInv

LEMMA ExecutionKeepsClosed ==
    ASSUME StatesInv, ClosedInv, Execute
    PROVE ClosedInv'
<1> DEFINE g == GraphNow
<1>1. /\ DOMAIN runtime = RuntimeFields /\ runtime # NoRuntime /\ runtime.phase = "ready"
      /\ runtime.revision = document.revision /\ runtime.states = document.states
  BY NoRuntimePhase DEF Execute, StatesInv, RuntimeInv
<1>2. Graph(runtime) = g /\ g \in Graphs /\ GraphNow' = g /\ UNCHANGED <<document, revised>>
  <2>1. UNCHANGED <<document, revised>>
    BY <1>1, ExecutedFields
  <2> QED BY <1>1, <2>1, GraphIsGraph DEF Graph, GraphNow, StatesInv
<1>3. \E after \in [NodesOf(g) -> NodeState \ {"pending", "running"}] :
         Settles(g, document.states, after) /\ runtime'.states = after
  BY <1>1, <1>2, ExecutedFields
<1>4. PICK after \in [NodesOf(g) -> NodeState \ {"pending", "running"}] :
         Settles(g, document.states, after) /\ runtime'.states = after
  BY <1>3
<1>5. document.states \in [NodesOf(g) -> AtRest]
  BY DEF StatesInv, DocumentInv
<1>6. ~revised => Supported(g, document.states) /\ (DeclaredInOrder(g) => ClosedIn(g, document.states))
  BY DEF ClosedInv
<1>7. /\ ~revised => Supported(g, after)
      /\ ~revised /\ DeclaredInOrder(g) => ClosedIn(g, after)
  <2> HIDE DEF g
  <2> QED BY <1>2, <1>4, <1>5, <1>6, RunIsClosed, RunIsSupported
<1> HIDE DEF g
<1> QED BY <1>2, <1>4, <1>6, <1>7 DEF ClosedInv

LEMMA InSomeOrder ==
    ASSUME NEW g, NEW m \in NodesOf(g), NEW n \in NodesOf(g), m # n,
           Declared[g] \in Seq(NodesOf(g))
    PROVE DeclaredBefore(g, m, n) \/ DeclaredBefore(g, n, m)
<1>1. PICK i, j \in DOMAIN Declared[g] : Declared[g][i] = m /\ Declared[g][j] = n
  BY DEF NodesOf
<1>2. i \in Nat /\ j \in Nat /\ i # j
  BY <1>1
<1>3. i < j \/ j < i
  BY <1>2
<1> QED BY <1>1, <1>3 DEF DeclaredBefore

\* An attempt is recorded after those of everything its node depends on that is
\* declared before it.
LEMMA RecordingKeepsClosed ==
    ASSUME StatesInv, ClosedInv, NEW n, Record(n)
    PROVE ClosedInv'
<1> DEFINE g == GraphNow
           before == document.states
           final == runtime.states[n]
<1>1. /\ runtime.phase = "recording" /\ n \in runtime.unrecorded /\ UNCHANGED revised
      /\ \A m \in runtime.unrecorded : ~DeclaredBefore(Graph(runtime), m, n)
  BY DEF Record, RecordsNext
<1>2. /\ runtime # NoRuntime /\ DOMAIN runtime = RuntimeFields /\ runtime.revision = document.revision
      /\ runtime.states \in [NodesOf(g) -> AtRest]
      /\ \A m \in NodesOf(g) : before[m] # "pending" => runtime.states[m] = before[m]
      /\ runtime.unrecorded \subseteq {m \in NodesOf(g) : runtime.states[m] \in Final}
      /\ \A m \in NodesOf(g) \ runtime.unrecorded : runtime.states[m] \in Final => before[m] = runtime.states[m]
  BY <1>1, NoRuntimePhase DEF StatesInv, RuntimeInv
<1>3. n \in NodesOf(g) /\ final \in Final /\ g \in Graphs
  BY <1>1, <1>2, GraphIsGraph DEF StatesInv
<1>4. /\ document'.revision = document.revision
      /\ document'.states = [before EXCEPT ![n] = final]
      /\ runtime'.phase = "recording" /\ runtime'.states = runtime.states
  BY <1>1, <1>2, RecordedFields DEF StatesInv, DocumentInv
<1>5. GraphNow' = g /\ Graph(runtime) = g
  BY <1>2, <1>4 DEF GraphNow, Graph
<1>6. before \in [NodesOf(g) -> AtRest]
  BY DEF StatesInv, DocumentInv
<1>7. /\ DOMAIN document'.states = NodesOf(g) /\ document'.states[n] = final
      /\ \A m \in NodesOf(g) \ {n} : document'.states[m] = before[m]
  BY <1>3, <1>4, <1>6
<1>8. before[n] # "pending" => final = before[n]
  BY <1>2, <1>3
<1>9. ASSUME ~revised, DeclaredInOrder(g)
      PROVE ClosedIn(g, document'.states)
  <2>1. ClosedIn(g, before) /\ ClosedIn(g, runtime.states)
    BY <1>2, <1>9 DEF ClosedInv
  <2>2. SUFFICES ASSUME NEW m \in NodesOf(g),
                        document'.states[m] \in {"running", "succeeded", "failed"}, NEW a \in Ancestors[g][m]
                 PROVE document'.states[a] = "succeeded"
    BY <1>7 DEF ClosedIn
  <2>3. a \in NodesOf(g) /\ a # m
    BY <1>3, <2>2, GraphFacts, GraphsAssumption
  <2>4. CASE m = n
    <3>1. runtime.states[a] = "succeeded"
      BY <1>2, <1>3, <1>7, <2>1, <2>2, <2>4 DEF ClosedIn
    <3>2. a \notin runtime.unrecorded
      <4>1. DeclaredBefore(g, a, n)
        BY <1>3, <1>9, <2>2, <2>4 DEF DeclaredInOrder
      <4> QED BY <1>1, <1>5, <4>1
    <3>3. before[a] = "succeeded"
      BY <1>2, <2>3, <3>1, <3>2 DEF Final
    <3> QED BY <1>7, <2>3, <2>4, <3>3
  <2>5. CASE m # n
    <3>1. before[m] \in {"running", "succeeded", "failed"}
      BY <1>7, <2>2, <2>5
    <3>2. before[a] = "succeeded"
      BY <1>6, <2>1, <2>2, <3>1 DEF ClosedIn
    <3> QED BY <1>7, <1>8, <2>3, <3>2
  <2> QED BY <2>4, <2>5
<1>10. ASSUME ~revised
       PROVE Supported(g, document'.states)
  <2>1. Supported(g, before) /\ Supported(g, runtime.states)
    BY <1>2, <1>10 DEF ClosedInv
  <2>2. SUFFICES ASSUME NEW m \in NodesOf(g),
                        document'.states[m] \in {"running", "succeeded", "failed"}, NEW d \in Deps[g][m]
                 PROVE document'.states[d] = "succeeded" \/ DeclaredBefore(g, m, d)
    BY <1>7 DEF Supported
  <2>3. d \in NodesOf(g) /\ d # m
    BY <1>3, <2>2, GraphFacts, GraphsAssumption
  <2>4. CASE m = n
    <3>1. runtime.states[d] = "succeeded" \/ DeclaredBefore(g, n, d)
      BY <1>2, <1>3, <1>7, <2>1, <2>2, <2>4 DEF Supported
    <3>2. CASE d \in runtime.unrecorded
      <4>1. ~DeclaredBefore(g, d, n)
        BY <1>1, <1>5, <3>2
      <4> QED BY <1>3, <2>3, <2>4, <4>1, InSomeOrder, GraphsAssumption
    <3>3. CASE d \notin runtime.unrecorded /\ runtime.states[d] = "succeeded"
      <4>1. before[d] = "succeeded"
        BY <1>2, <2>3, <3>3 DEF Final
      <4> QED BY <1>7, <2>3, <2>4, <4>1
    <3> QED BY <2>4, <3>1, <3>2, <3>3
  <2>5. CASE m # n
    <3>1. before[m] \in {"running", "succeeded", "failed"}
      BY <1>7, <2>2, <2>5
    <3>2. before[d] = "succeeded" \/ DeclaredBefore(g, m, d)
      BY <1>6, <2>1, <2>2, <3>1 DEF Supported
    <3>3. before[d] = "succeeded" => document'.states[d] = "succeeded"
      <4>1. CASE d = n
        BY <1>7, <1>8, <4>1
      <4>2. CASE d # n
        BY <1>7, <2>3, <4>2
      <4> QED BY <4>1, <4>2
    <3> QED BY <3>2, <3>3
  <2> QED BY <2>4, <2>5
<1> HIDE DEF g, before, final
<1>11. ~revised => Supported(g, runtime.states) /\ (DeclaredInOrder(g) => ClosedIn(g, runtime.states))
  BY <1>2 DEF ClosedInv, g
<1> QED BY <1>1, <1>4, <1>5, <1>9, <1>10, <1>11, NoRuntimePhase DEF ClosedInv

LEMMA ClosedInvStep ==
    ASSUME NoRevisionInRun, StatesInv, ClosedInv, [Next]_vars
    PROVE ClosedInv'
<1> USE NoRuntimePhase
<1>1. ASSUME NEW r \in RequestsOn(document), Client(r)
      PROVE ClosedInv'
  <2>1. CASE r.kind = "revise"
    BY <1>1, <2>1 DEF Client, ClosedInv
  <2>2. CASE r.kind = "retry"
    BY <1>1, <2>2, RetryKeepsClosed
  <2>3. CASE r.kind \notin {"revise", "retry"}
    <3>1. /\ runtime' = runtime /\ document' = Result(document, r) /\ revised' = revised
      BY <1>1, <2>3 DEF Client, StatesInv, HistoryInv
    <3>2. document'.revision = document.revision /\ document'.states = document.states
      BY <2>3, <3>1, KindsOfRequests, ResultFields DEF StatesInv, DocumentInv
    <3> QED BY <3>1, <3>2 DEF ClosedInv, GraphNow, Graph
  <2> QED BY <2>1, <2>2, <2>3
<1>2. CASE AppendEvent \/ UNCHANGED vars
  BY <1>2 DEF AppendEvent, vars, ClosedInv, GraphNow, Graph
<1>3. CASE AppendRefused \/ Crash
  <2>1. UNCHANGED <<document, revised>> /\ runtime' \in {runtime, NoRuntime}
    BY <1>3 DEF AppendRefused, Crash
  <2> QED BY <2>1 DEF ClosedInv, GraphNow, Graph
<1>4. CASE OpenRuntime
  <2>1. UNCHANGED <<document, revised>> /\ runtime = NoRuntime
    BY <1>4 DEF OpenRuntime
  <2>2. runtime'.phase = "ready" /\ runtime'.states = document.states
    BY <1>4, OpenedFields, RestoredAsWritten DEF StatesInv
  <2> QED BY <2>1, <2>2 DEF ClosedInv, GraphNow, Graph
<1>5. CASE Execute
  BY <1>5, ExecutionKeepsClosed
<1>6. CASE \E n \in AllNodes : Record(n)
  BY <1>6, RecordingKeepsClosed
<1>7. ASSUME NEW n \in AllNodes, RecordRaises(n)
      PROVE FALSE
  <2>1. runtime # NoRuntime /\ runtime.phase = "recording" /\ n \in runtime.unrecorded /\ n \notin DOMAIN document.states
    BY <1>7 DEF RecordRaises, RecordsNext
  <2>2. runtime.unrecorded \subseteq NodesOf(GraphNow) /\ DOMAIN document.states = NodesOf(GraphNow)
    BY <2>1 DEF StatesInv, RuntimeInv, DocumentInv
  <2> QED BY <2>1, <2>2
<1>8. CASE Finish
  <2>1. runtime.phase = "recording" /\ UNCHANGED revised
    BY <1>8 DEF Finish
  <2>2. document'.revision = document.revision /\ document'.states = runtime.states /\ runtime' = NoRuntime
    BY <1>8, FinishedFields DEF StatesInv, DocumentInv
  <2> QED BY <2>1, <2>2 DEF ClosedInv, GraphNow, Graph
<1>9. CASE ReviewMerge
  <2>1. UNCHANGED <<runtime, revised>>
    BY <1>9 DEF ReviewMerge
  <2>2. document'.revision = document.revision /\ document'.states = document.states
    BY <1>9, ReviewedFields DEF StatesInv, DocumentInv
  <2> QED BY <2>1, <2>2 DEF ClosedInv, GraphNow, Graph
<1> QED BY <1>1, <1>2, <1>3, <1>4, <1>5, <1>6, <1>7, <1>8, <1>9 DEF Next

LEMMA ClosedIsRestored ==
    ASSUME StatesInv, ClosedInv
    PROVE RestoredStatesAreClosed
<1> SUFFICES ASSUME Settled
             PROVE RestoredStatesAreClosed
  BY DEF RestoredStatesAreClosed
<1>1. /\ Supported(GraphNow, document.states)
      /\ DeclaredInOrder(GraphNow) => ClosedIn(GraphNow, document.states)
  BY NoRuntimePhase DEF ClosedInv, Settled
<1>2. Restored(document) = document.states
  BY RestoredAsWritten DEF StatesInv
<1> QED BY <1>1, <1>2 DEF RestoredStatesAreClosed, GraphNow

\* If nobody revises the graph or retries a node while a runtime exists, the
\* states a runtime restores of a graph that is declared in an order of dependency
\* are those of an execution in such an order, which is what Scheduler's theorems
\* assume of the states they start from; of any other graph, a node that was
\* executed is restored with every direct dependency succeeded but for those
\* declared after it (orchestration_runtime.py:64, :81).
THEOREM RestoredInDependencyOrder ==
    ASSUME CreatedWithGraph, NoRevisionInRun
    PROVE Spec => []RestoredStatesAreClosed
<1>1. StatesInv /\ ClosedInv => RestoredStatesAreClosed
  BY ClosedIsRestored
<1>2. Init => ClosedInv
  BY ClosedInvInit
<1>3. StatesInv /\ ClosedInv /\ [Next]_vars => ClosedInv'
  BY ClosedInvStep
<1> QED BY <1>1, <1>2, <1>3, StatesInvariant, PTL DEF Spec
-----------------------------------------------------------------------------
(* Types.                                                                   *)

BoundsAssumption == MaxRequests \in Nat /\ MaxRuns \in Nat

\* What StatesInv and JournalInv do not say of the types.
TypesInv ==
    /\ document.status \in Status
    /\ document.approved \in Seq(Graphs)
    /\ document.breakpoints \subseteq AllNodes
    /\ requests \in 0..MaxRequests
    /\ runs \in 0..MaxRuns
    /\ reviewed \subseteq AllNodes

LEMMA ResultTypes ==
    ASSUME NEW doc, DOMAIN doc = DocumentFields, doc.revision \in Seq(Graphs), NEW r \in RequestsOn(doc),
           DOMAIN doc.states \subseteq AllNodes,
           doc.status \in Status, doc.approved \in Seq(Graphs), doc.breakpoints \subseteq AllNodes,
           Accepts(doc, r)
    PROVE /\ Result(doc, r).status \in Status
          /\ Result(doc, r).approved \in Seq(Graphs)
          /\ Result(doc, r).breakpoints \subseteq AllNodes
<1> USE DEF DocumentFields, Status
<1>1. CASE r.kind = "approve"
  <2>1. Result(doc, r) = Approve(doc, r.hash) /\ r.hash = doc.revision
    BY <1>1 DEF Result, Accepts
  <2> QED BY <2>1 DEF Approve
<1>2. CASE r.kind = "transition"
  <2>1. Result(doc, r) = Transition(doc, r.status) /\ r.status \in {"paused", "running", "cancelled"}
    BY <1>2 DEF Result, RequestsOn
  <2> QED BY <2>1 DEF Transition
<1>3. CASE r.kind = "break"
  <2>1. Result(doc, r) = Break(doc, r.node) /\ r.node \in AllNodes
    BY <1>3 DEF Result, RequestsOn
  <2> QED BY <2>1 DEF Break
<1>4. CASE r.kind = "clear_break"
  <2>1. Result(doc, r) = ClearBreak(doc, r.node)
    BY <1>4 DEF Result
  <2> QED BY <2>1 DEF ClearBreak
<1>5. CASE r.kind = "step"
  <2>1. Result(doc, r) = RequestStep(doc)
    BY <1>5 DEF Result
  <2> QED BY <2>1 DEF RequestStep
<1>6. CASE r.kind = "revise"
  <2>1. Result(doc, r) = Revise(doc, r.graph)
    BY <1>6 DEF Result
  <2> QED BY <2>1 DEF Revise, NotApproved
<1>7. CASE r.kind = "retry"
  <2>1. Result(doc, r) = Retry(doc, r.node, r.provider)
    BY <1>7 DEF Result
  <2> QED BY <2>1 DEF Retry
<1> QED BY <1>1, <1>2, <1>3, <1>4, <1>5, <1>6, <1>7 DEF RequestsOn

LEMMA TypesInvInit ==
    ASSUME CreatedWithGraph, BoundsAssumption, Init
    PROVE TypesInv
<1> PICK g \in InitialGraphs : document = NewDocument(g)
  BY DEF Init
<1>1. document.status \in Status /\ document.approved = <<>> /\ document.breakpoints = {}
  BY DEF NewDocument, Status, NotApproved
<1>2. <<>> \in Seq(Graphs)
  OBVIOUS
<1> QED BY <1>1, <1>2 DEF Init, TypesInv, BoundsAssumption

LEMMA TypesInvStep ==
    ASSUME BoundsAssumption, StatesInv, TypesInv, [Next]_vars
    PROVE TypesInv'
<1>1. DOMAIN document = DocumentFields /\ document.queue \in Seq(AllNodes)
  BY DEF StatesInv, DocumentInv
<1>2. ASSUME NEW r \in RequestsOn(document), Client(r)
      PROVE TypesInv'
  <2>1. /\ document' = Result(document, r) /\ Accepts(document, r) /\ UNCHANGED <<runs, reviewed>>
        /\ requests < MaxRequests /\ requests' = requests + 1
    BY <1>2 DEF Client
  <2>2. GraphNow \in Graphs /\ document.revision \in Seq(Graphs)
    BY GraphIsGraph DEF StatesInv, DocumentInv
  <2>3. DOMAIN document.states \subseteq AllNodes
    BY <2>2 DEF StatesInv, DocumentInv, AllNodes
  <2>4. requests' \in 0..MaxRequests
    BY <2>1 DEF TypesInv, BoundsAssumption
  <2> QED BY <1>1, <2>1, <2>2, <2>3, <2>4, ResultTypes DEF TypesInv
<1>3. CASE AppendEvent \/ AppendRefused \/ Execute \/ Crash \/ (\E n \in AllNodes : RecordRaises(n)) \/ UNCHANGED vars
  <2>1. UNCHANGED <<document, requests, runs, reviewed>>
    BY <1>3, Zenon DEF AppendEvent, AppendRefused, Execute, Crash, RecordRaises, vars
  <2> QED BY <2>1 DEF TypesInv
<1>4. CASE OpenRuntime
  <2>1. UNCHANGED <<document, requests, reviewed>> /\ runs < MaxRuns /\ runs' = runs + 1
    BY <1>4 DEF OpenRuntime
  <2>2. runs' \in 0..MaxRuns
    BY <2>1 DEF TypesInv, BoundsAssumption
  <2> QED BY <2>1, <2>2 DEF TypesInv
<1>5. ASSUME NEW n \in AllNodes, Record(n)
      PROVE TypesInv'
  <2>1. /\ UNCHANGED <<requests, runs, reviewed>>
        /\ document' = RecordAttempt(document, n, runtime.states[n], AttemptProvider(n))
    BY <1>5 DEF Record
  <2>2. /\ document'.status = document.status /\ document'.approved = document.approved
        /\ document'.breakpoints = document.breakpoints
    BY <1>1, <2>1 DEF RecordAttempt, DocumentFields
  <2> QED BY <2>1, <2>2 DEF TypesInv
<1>6. CASE Finish
  <2>1. /\ document'.status \in {"completed", "failed"} /\ document'.approved = document.approved
        /\ document'.breakpoints = document.breakpoints
    BY <1>1, <1>6 DEF Finish, DocumentFields
  <2>2. UNCHANGED <<requests, runs>> /\ reviewed' \subseteq reviewed
    BY <1>6 DEF Finish
  <2> QED BY <2>1, <2>2 DEF TypesInv, Status
<1>7. CASE ReviewMerge
  <2>1. /\ document'.status = document.status /\ document'.approved = document.approved
        /\ document'.breakpoints = document.breakpoints
    BY <1>1, <1>7 DEF ReviewMerge, DocumentFields
  <2>2. UNCHANGED <<requests, runs>> /\ reviewed' = reviewed \cup {Head(document.queue)} /\ document.queue # <<>>
    BY <1>7 DEF ReviewMerge
  <2>3. Head(document.queue) \in AllNodes
    BY <1>1, <2>2
  <2> QED BY <2>1, <2>2, <2>3 DEF TypesInv
<1> QED BY <1>2, <1>3, <1>4, <1>5, <1>6, <1>7 DEF Next

LEMMA TypesAreRight == StatesInv /\ JournalInv /\ TypesInv => TypeOK
<1> SUFFICES ASSUME StatesInv, JournalInv, TypesInv
             PROVE TypeOK
  OBVIOUS
<1>1. GraphNow \in Graphs
  BY GraphIsGraph DEF StatesInv
<1>2. DocumentOK(document)
  <2>1. DOMAIN document.states = NodesOf(GraphNow) /\ DOMAIN document.states \subseteq AllNodes
    BY <1>1 DEF StatesInv, DocumentInv, AllNodes
  <2>2. \A n \in DOMAIN document.states : document.states[n] \in NodeState
    BY <2>1 DEF StatesInv, DocumentInv, AtRest
  <2> QED BY <2>1, <2>2 DEF StatesInv, DocumentInv, TypesInv, DocumentOK, GraphNow
<1>3. runtime.phase \in {"none", "ready", "recording"} /\ revised \in BOOLEAN
  BY NoRuntimePhase DEF StatesInv, RuntimeInv, HistoryInv
<1> QED BY <1>2, <1>3 DEF JournalInv, TypesInv, TypeOK

\* If nobody writes while a runtime exists, every document and journal has the
\* form that store and runtime read (orchestration_store.py:20, event_journal.py:62).
THEOREM TypesAreKept ==
    ASSUME CreatedWithGraph, BoundsAssumption, RequestsInRun = {}
    PROVE Spec => []TypeOK
<1>1. NoRevisionInRun
  BY DEF NoRevisionInRun
<1>2. Init => TypesInv
  BY TypesInvInit
<1>3. StatesInv /\ TypesInv /\ [Next]_vars => TypesInv'
  BY TypesInvStep
<1> QED BY <1>1, <1>2, <1>3, TypesAreRight, StatesInvariant, JournalInvariant, PTL DEF Spec
=============================================================================
