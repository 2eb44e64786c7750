------------------------- MODULE SessionDocuments -------------------------
(***************************************************************************)
(* The session document of harness_kernel/orchestration_store.py and what   *)
(* each method of OrchestrationStore makes of it.  A request is accepted    *)
(* (the method raises nothing) when Accepts holds, and turns the loaded     *)
(* document into Result.  How documents are read and written, and how       *)
(* several clients interleave, is in SessionStore; PersistedRuntime         *)
(* composes the documents with the runs of their graphs.                    *)
(*                                                                          *)
(* A revision hash covers the parent revision's hash, so a revision is      *)
(* represented by the sequence of all graphs up to it, oldest first; its    *)
(* hash is that sequence itself.                                            *)
(***************************************************************************)
EXTENDS Integers, Sequences, FiniteSets

CONSTANTS
    Graphs,         \* names of task graphs
    Declared,       \* Declared[g]: g's nodes in the order of their declaration
    Deps,           \* Deps[g][n]: the nodes n depends on in g
    Ancestors,      \* Ancestors[g][n]: the nodes m with depends_on(n, m) in g
    Editing,        \* Editing[g]: the nodes of g with write claims
    Rotation,       \* Rotation[n]: n's provider policy, one entry per unit of weight
    NoProvider      \* no provider

NodesOf(g) == {Declared[g][i] : i \in DOMAIN Declared[g]}
AllNodes == UNION {NodesOf(g) : g \in Graphs}
PolicyOf(n) == {Rotation[n][i] : i \in DOMAIN Rotation[n]}

\* What TaskGraph.validate and TaskGraph.depends_on establish.
ASSUME GraphsAssumption ==
    \A g \in Graphs :
        /\ Declared[g] \in Seq(NodesOf(g))
        /\ \A i, j \in DOMAIN Declared[g] : Declared[g][i] = Declared[g][j] => i = j
        /\ Deps[g] \in [NodesOf(g) -> SUBSET NodesOf(g)]
        /\ Editing[g] \subseteq NodesOf(g)
        /\ Ancestors[g] \in [NodesOf(g) -> SUBSET NodesOf(g)]
        /\ \A n \in NodesOf(g) :
              /\ Ancestors[g][n] = Deps[g][n] \cup UNION {Ancestors[g][d] : d \in Deps[g][n]}
              /\ n \notin Ancestors[g][n]

NodeState == {"pending", "running", "succeeded", "failed", "blocked", "cancelled"}
Status == {"awaiting_approval", "approved", "running", "paused", "cancelled",
           "completed", "failed"}
NotApproved == <<>>     \* approved_hash is None

\* The graph of the document's current revision.
Graph(doc) == doc.revision[Len(doc.revision)]

NewDocument(g) ==
    [status |-> "awaiting_approval",
     approved |-> NotApproved,
     revision |-> <<g>>,
     states |-> [n \in NodesOf(g) |-> "pending"],
     attempts |-> [n \in NodesOf(g) |-> <<>>],
     overrides |-> [n \in AllNodes |-> NoProvider],
     breakpoints |-> {},
     stepRequested |-> FALSE,
     queue |-> <<>>]

Approve(doc, hash) == [doc EXCEPT !.status = "approved", !.approved = hash]

MayTransition(doc, status) ==
    /\ status = "running" => doc.approved = doc.revision
    /\ doc.status # "cancelled"

Transition(doc, status) == [doc EXCEPT !.status = status]

\* previous.get(n, default) for every node of the new graph.
Carry(previous, g, default) ==
    [n \in NodesOf(g) |-> IF n \in DOMAIN previous THEN previous[n] ELSE default]

Revise_Mutant(doc, g) ==
    [doc EXCEPT !.status = "awaiting_approval",
                !.revision = Append(@, g),
                !.states = Carry(@, g, "pending"),
                !.attempts = Carry(@, g, <<>>)]

ReviseForgetsAttempts_Mutant(doc, g) ==
    [doc EXCEPT !.status = "awaiting_approval",
                !.approved = NotApproved,
                !.revision = Append(@, g),
                !.states = Carry(@, g, "pending"),
                !.attempts = [n \in NodesOf(g) |-> <<>>]]

ReviseKeepsAttempts_Mutant(doc, g) ==
    [doc EXCEPT !.status = "awaiting_approval",
                !.approved = NotApproved,
                !.revision = Append(@, g),
                !.states = Carry(@, g, "pending")]

Revise(doc, g) ==
    [doc EXCEPT !.status = "awaiting_approval",
                !.approved = NotApproved,
                !.revision = Append(@, g),
                !.states = Carry(@, g, "pending"),
                !.attempts = Carry(@, g, <<>>)]

RecordAttempt(doc, n, status, provider) ==
    [doc EXCEPT !.states[n] = status,
                !.attempts[n] = Append(@, [status |-> status, provider |-> provider])]

MayRetry_Mutant(doc, n, provider) ==
    /\ n \in DOMAIN doc.states
    /\ provider # NoProvider => provider \in PolicyOf(n)

MayRetry(doc, n, provider) ==
    /\ n \in DOMAIN doc.states
    /\ doc.states[n] \in {"failed", "blocked", "cancelled"}
    /\ provider # NoProvider => n \in NodesOf(Graph(doc)) /\ provider \in PolicyOf(n)

RetryLeavesDescendants_Mutant(doc, n, provider) ==
    [doc EXCEPT !.overrides[n] = IF provider = NoProvider THEN @ ELSE provider,
                !.states[n] = "pending"]

\* The node and its blocked descendants become pending again.
Retry(doc, n, provider) ==
    [doc EXCEPT !.overrides[n] = IF provider = NoProvider THEN @ ELSE provider,
                !.states = [m \in DOMAIN @ |->
                    IF \/ m = n
                       \/ /\ m \in NodesOf(Graph(doc)) /\ doc.states[m] = "blocked"
                          /\ n \in Ancestors[Graph(doc)][m]
                    THEN "pending" ELSE doc.states[m]]]

Break(doc, n) == [doc EXCEPT !.breakpoints = @ \cup {n}]
ClearBreak(doc, n) == [doc EXCEPT !.breakpoints = @ \ {n}]
RequestStep(doc) == [doc EXCEPT !.stepRequested = TRUE, !.status = "running"]
-----------------------------------------------------------------------------
(* Requests of the API and TUI clients: a kind with its arguments.           *)

RequestsOn(doc) ==
         [kind : {"approve"}, hash : {SubSeq(doc.revision, 1, i) : i \in DOMAIN doc.revision}]
    \cup [kind : {"transition"}, status : {"paused", "running", "cancelled"}]
    \cup [kind : {"revise"}, graph : Graphs]
    \cup [kind : {"retry"}, node : AllNodes, provider : {NoProvider} \cup UNION {PolicyOf(n) : n \in AllNodes}]
    \cup [kind : {"break", "clear_break"}, node : AllNodes]
    \cup [kind : {"step"}]

Accepts(doc, r) ==
    \/ r.kind = "approve" /\ r.hash = doc.revision
    \/ r.kind = "transition" /\ MayTransition(doc, r.status)
    \/ r.kind = "retry" /\ MayRetry(doc, r.node, r.provider)
    \/ r.kind = "break" /\ r.node \in DOMAIN doc.states
    \/ r.kind \in {"revise", "clear_break", "step"}

Result(doc, r) ==
    CASE r.kind = "approve" -> Approve(doc, r.hash)
      [] r.kind = "transition" -> Transition(doc, r.status)
      [] r.kind = "revise" -> Revise(doc, r.graph)
      [] r.kind = "retry" -> Retry(doc, r.node, r.provider)
      [] r.kind = "break" -> Break(doc, r.node)
      [] r.kind = "clear_break" -> ClearBreak(doc, r.node)
      [] r.kind = "step" -> RequestStep(doc)
-----------------------------------------------------------------------------
(* What the properties of the modules using documents speak about.           *)

DocumentOK(doc) ==
    /\ doc.status \in Status
    /\ doc.revision \in Seq(Graphs) /\ doc.revision # <<>>
    /\ doc.approved \in Seq(Graphs)
    /\ DOMAIN doc.states \subseteq AllNodes
    /\ DOMAIN doc.attempts = NodesOf(Graph(doc))
    /\ \A n \in DOMAIN doc.states : doc.states[n] \in NodeState
    /\ doc.breakpoints \subseteq AllNodes

\* Whatever was executed had everything it depends on succeed before: the
\* states with which Scheduler's theorems assume a session is restored.
ClosedIn(g, s) ==
    \A n \in DOMAIN s : s[n] \in {"running", "succeeded", "failed"} =>
        \A a \in Ancestors[g][n] : s[a] = "succeeded"
=============================================================================
