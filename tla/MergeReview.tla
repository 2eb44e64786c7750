---------------------------- MODULE MergeReview ----------------------------
(***************************************************************************)
(* Review of the proposals a run left in its merge queue:                   *)
(* PersistedOrchestrationRuntime.review_merge, SerializedMergeQueue and     *)
(* CheckpointStore.create, working on the shared checkout while a person    *)
(* may edit it.  Each Reviewer is a thread of the API's pool.  A review     *)
(* reads the session document, compares the checkout with the hashes taken  *)
(* when the run started, runs the trusted tests on the proposal's own       *)
(* workspace, saves a checkpoint, copies file by file and finally writes    *)
(* back the document it had read.                                           *)
(*                                                                          *)
(* Contents stand for their hashes; a missing file is a content.            *)
(***************************************************************************)
EXTENDS Naturals, Sequences, FiniteSets

CONSTANTS
    Paths,          \* repository paths
    Nodes,          \* editing nodes with a proposal
    InitialQueue,   \* the merge queue the run left
    Claims,         \* Claims[n]: n's write paths, a sequence
    Original,       \* Original[p]: content when the runtime was constructed
    Proposed,       \* Proposed[n][p]: content in n's retained workspace
    Edits,          \* contents a person may put into a file
    Reviewers,      \* threads reviewing
    MayCrash,       \* whether the process may die
    MaxEdits        \* bound on the person's edits

\* What the run that left the queue establishes.
ProposalsAssumption ==
    /\ InitialQueue \in Seq(Nodes) /\ Nodes = {InitialQueue[i] : i \in DOMAIN InitialQueue}
    /\ \A n \in Nodes :
          /\ Claims[n] \in Seq(Paths) /\ Claims[n] # <<>>
          /\ \A i, j \in DOMAIN Claims[n] : Claims[n][i] = Claims[n][j] => i = j

VARIABLES
    repository,     \* repository[p]: content of p in the shared checkout
    document,       \* the merge queue and the merge outcomes in session.json
    checkpoints,    \* saved contents, each a function on a proposal's paths
    review,         \* review[t]: what t is doing
    edits,          \* edits made so far
    overwritten     \* history: what merges replaced, and by whose proposal

vars == <<repository, document, checkpoints, review, edits, overwritten>>

Resting == [phase |-> "idle"]
ClaimedBy(n) == {Claims[n][i] : i \in DOMAIN Claims[n]}

Init ==
    /\ repository = Original
    /\ document = [queue |-> InitialQueue, outcomes |-> [n \in Nodes |-> "none"]]
    /\ checkpoints = {}
    /\ review = [t \in Reviewers |-> Resting]
    /\ edits = 0
    /\ overwritten = {}
-----------------------------------------------------------------------------
Goto(t, phase) == review' = [review EXCEPT ![t].phase = phase]

\* review_merge reads the document and takes the head of its queue.  The
\* default permission mode lets a reviewed write pass.
Begin(t, approved) ==
    /\ review[t] = Resting
    /\ document.queue # <<>>
    /\ review' = [review EXCEPT ![t] =
           [phase |-> IF approved THEN "check" ELSE "record",
            node |-> Head(document.queue),
            approved |-> approved,
            document |-> document,
            left |-> Claims[Head(document.queue)],
            late |-> {}]]     \* history: what a person saved since the checkpoint
    /\ UNCHANGED <<repository, document, checkpoints, edits, overwritten>>

Fresh_Mutant(n) == repository[Claims[n][1]] = Original[Claims[n][1]]

\* Every claimed path still has its original hash.
Fresh(n) == \A p \in ClaimedBy(n) : repository[p] = Original[p]

CheckHashes(t) ==
    /\ review[t].phase = "check"
    /\ Fresh(review[t].node)
    /\ Goto(t, "validate")
    /\ UNCHANGED <<repository, document, checkpoints, edits, overwritten>>

\* "stale merge proposal": the review raises, the proposal stays queued.
Stale(t) ==
    /\ review[t].phase = "check"
    /\ ~Fresh(review[t].node)
    /\ review' = [review EXCEPT ![t] = Resting]
    /\ UNCHANGED <<repository, document, checkpoints, edits, overwritten>>

\* The trusted tests pass or, with the same effect as a stale hash, do not.
Validate(t) ==
    /\ review[t].phase = "validate"
    /\ \E passed \in BOOLEAN :
          review' = [review EXCEPT ![t] = IF passed THEN [@ EXCEPT !.phase = "checkpoint"] ELSE Resting]
    /\ UNCHANGED <<repository, document, checkpoints, edits, overwritten>>

EmptyCheckpoint_Mutant(t) ==
    /\ review[t].phase = "checkpoint"
    /\ checkpoints' = checkpoints \cup {[p \in ClaimedBy(review[t].node) |-> Original[p]]}
    /\ Goto(t, "apply")
    /\ UNCHANGED <<repository, document, edits, overwritten>>

CreateCheckpoint(t) ==
    /\ review[t].phase = "checkpoint"
    /\ checkpoints' = checkpoints \cup {[p \in ClaimedBy(review[t].node) |-> repository[p]]}
    /\ Goto(t, "apply")
    /\ UNCHANGED <<repository, document, edits, overwritten>>

\* The next path is copied from the workspace, or removed.
Apply(t) ==
    /\ review[t].phase = "apply"
    /\ review[t].left # <<>>
    /\ LET p == Head(review[t].left)
           n == review[t].node
       IN /\ repository' = [repository EXCEPT ![p] = Proposed[n][p]]
          /\ overwritten' = overwritten \cup {[path |-> p, content |-> repository[p], by |-> n, late |-> p \in review[t].late]}
    /\ review' = [review EXCEPT ![t].left = Tail(@)]
    /\ UNCHANGED <<document, checkpoints, edits>>

\* A copy raises: the review ends half-way and its proposal stays queued.
ApplyRaises(t) ==
    /\ review[t].phase = "apply"
    /\ review[t].left # <<>>
    /\ review' = [review EXCEPT ![t] = Resting]
    /\ UNCHANGED <<repository, document, checkpoints, edits, overwritten>>

Applied(t) ==
    /\ review[t].phase = "apply"
    /\ review[t].left = <<>>
    /\ Goto(t, "record")
    /\ UNCHANGED <<repository, document, checkpoints, edits, overwritten>>

RecordKeepsHead_Mutant(t) ==
    /\ review[t].phase = "record"
    /\ document' = [document EXCEPT !.outcomes[review[t].node] =
                       IF review[t].approved THEN "applied" ELSE "rejected"]
    /\ review' = [review EXCEPT ![t] = Resting]
    /\ UNCHANGED <<repository, checkpoints, edits, overwritten>>

\* The document read at the beginning is written back without its head.
Record(t) ==
    /\ review[t].phase = "record"
    /\ document' = [queue |-> Tail(review[t].document.queue),
                    outcomes |-> [review[t].document.outcomes EXCEPT ![review[t].node] =
                                     IF review[t].approved THEN "applied" ELSE "rejected"]]
    /\ review' = [review EXCEPT ![t] = Resting]
    /\ UNCHANGED <<repository, checkpoints, edits, overwritten>>
-----------------------------------------------------------------------------
\* A person saves a file of the checkout, also between the checkpoint of a review
\* and its last copy.
Edit(p) ==
    /\ edits < MaxEdits
    /\ \E c \in Edits : c # repository[p] /\ repository' = [repository EXCEPT ![p] = c]
    /\ review' = [t \in Reviewers |-> IF review[t].phase = "apply"
                                      THEN [review[t] EXCEPT !.late = @ \cup {p}] ELSE review[t]]
    /\ edits' = edits + 1
    /\ UNCHANGED <<document, checkpoints, overwritten>>

Crash ==
    /\ MayCrash
    /\ \E t \in Reviewers : review[t] # Resting
    /\ review' = [t \in Reviewers |-> Resting]
    /\ UNCHANGED <<repository, document, checkpoints, edits, overwritten>>

ReviewStep(t) ==
    \/ CheckHashes(t) \/ Stale(t) \/ Validate(t) \/ CreateCheckpoint(t)
    \/ Apply(t) \/ ApplyRaises(t) \/ Applied(t) \/ Record(t)

Next ==
    \/ \E t \in Reviewers : ReviewStep(t) \/ \E approved \in BOOLEAN : Begin(t, approved)
    \/ \E p \in Paths : Edit(p)
    \/ Crash

Spec == Init /\ [][Next]_vars

\* Reviews proceed (the validator returns), whoever keeps reviewing in the end
\* rejects a head that cannot be applied, and the process does not die before
\* each result is recorded.
ReviewSpec ==
    /\ Spec
    /\ \A t \in Reviewers :
          WF_vars(ReviewStep(t)) /\ SF_vars(Begin(t, FALSE)) /\ SF_vars(Record(t))
-----------------------------------------------------------------------------
(* Properties *)

Contents == {Original[p] : p \in Paths} \cup Edits \cup {Proposed[n][p] : n \in Nodes, p \in Paths}

\* Types; and a proposal has an outcome exactly when it has left the queue.
TypeOK ==
    /\ repository \in [Paths -> Contents]
    /\ document.queue \in Seq(Nodes)
    /\ document.outcomes \in [Nodes -> {"none", "applied", "rejected"}]
    /\ {n \in Nodes : document.outcomes[n] = "none"} =
          {document.queue[i] : i \in DOMAIN document.queue}
    /\ \A t \in Reviewers :
          review[t].phase \in {"idle", "check", "validate", "checkpoint", "apply", "record"}
    /\ \A c \in checkpoints : \A p \in DOMAIN c : c[p] \in Contents

\* With one review at a time, whatever a merge replaced, a person's edit made
\* during validation included, is in a checkpoint or was already what the proposal
\* contains, so that a merge cut short by a crash can be rewound; only what a
\* person saved after the checkpoint is lost, because the copies look at nothing
\* (merge_queue.py:64-70).
OverwrittenIsCheckpointed ==
    \A o \in overwritten :
        \/ o.late
        \/ o.content = Proposed[o.by][o.path]
        \/ \E c \in checkpoints : o.path \in DOMAIN c /\ c[o.path] = o.content

\* With one review at a time a merge never replaces what another proposal has put
\* into a file: of the proposals of one run that touch a path at most one can be applied, as all
\* of them were made from the same snapshot.
ProposalsDoNotOverwriteEachOther ==
    \A o \in overwritten : \A n \in Nodes \ {o.by} :
        o.path \in ClaimedBy(n) => o.content # Proposed[n][o.path]

\* A stale head, or one whose tests fail, never blocks the queue for good: it can be rejected.
QueueDrains == <>(document.queue = <<>>)
=============================================================================
