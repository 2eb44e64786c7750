------------------------- MODULE MergeReviewProofs -------------------------
(***************************************************************************)
(* Theorem of MergeReview for any proposals, checkout and edits, with        *)
(* reviews one after the other and a process that may die at any step.      *)
(***************************************************************************)
EXTENDS MergeReview, SequenceTheorems, TLAPS

Phases == {"check", "validate", "checkpoint", "apply", "record"}

\* A review that goes on: the head of the queue it has read, and what is left
\* to be copied.
Going ==
    [phase : Phases, node : Nodes, approved : BOOLEAN,
     document : [queue : Seq(Nodes) \ {<<>>}, outcomes : [Nodes -> {"none", "applied", "rejected"}]],
     left : Seq(Paths), late : SUBSET Paths]

ReviewType ==
    /\ document \in [queue : Seq(Nodes), outcomes : [Nodes -> {"none", "applied", "rejected"}]]
    /\ review \in [Reviewers -> {Resting} \cup Going]
    /\ DOMAIN repository = Paths

\* What is still to be replaced is saved, or is what the proposal contains.
Saved(files, saved, n, p) ==
    \/ files[p] = Proposed[n][p]
    \/ \E c \in saved : p \in DOMAIN c /\ c[p] = files[p]

\* ... unless a person has saved it since the checkpoint.
Covered(files, saved, r, p) == p \in r.late \/ Saved(files, saved, r.node, p)

ReplaceableIsSaved ==
    \A t \in Reviewers : review[t].phase = "apply" =>
        \A i \in DOMAIN review[t].left : Covered(repository, checkpoints, review[t], review[t].left[i])

\* Before the first copy everything the proposal claims is left.
ClaimsAreLeft ==
    \A t \in Reviewers : review[t].phase \in {"check", "validate", "checkpoint"} =>
        \A i \in DOMAIN review[t].left : review[t].left[i] \in ClaimedBy(review[t].node)

ReviewInv == ReviewType /\ ReplaceableIsSaved /\ ClaimsAreLeft /\ OverwrittenIsCheckpointed

\* One review at a time.
SoleReviewer == \A t, u \in Reviewers : t = u

\* The record of a review that is not resting.
LEMMA GoingFields ==
    ASSUME ReviewType, NEW t \in Reviewers, review[t] # Resting
    PROVE review[t] \in Going
BY DEF ReviewType

\* A review that is in one of its phases does not rest.
LEMMA InPhase ==
    ASSUME NEW t \in Reviewers, review[t].phase \in Phases
    PROVE review[t] # Resting
BY DEF Phases, Resting

LEMMA ReviewInvInit ==
    ASSUME Init, ProposalsAssumption, DOMAIN Original = Paths
    PROVE ReviewInv
<1>1. document \in [queue : Seq(Nodes), outcomes : [Nodes -> {"none", "applied", "rejected"}]]
  BY DEF Init, ProposalsAssumption
<1>2. \A t \in Reviewers : review[t] = Resting
  BY DEF Init
<1>3. ReviewType
  BY <1>1 DEF Init, ReviewType
<1>4. ReplaceableIsSaved /\ ClaimsAreLeft
  BY <1>2 DEF ReplaceableIsSaved, ClaimsAreLeft, Resting
<1>5. OverwrittenIsCheckpointed
  BY DEF Init, OverwrittenIsCheckpointed
<1> QED
  BY <1>3, <1>4, <1>5 DEF ReviewInv

\* A step of the only review, to a state whose claims hold, that leaves the
\* checkout and what was overwritten alone.
LEMMA QuietStep ==
    ASSUME ReviewInv, SoleReviewer, NEW t \in Reviewers,
           NEW r \in {Resting} \cup Going, review' = [review EXCEPT ![t] = r],
           document' \in [queue : Seq(Nodes), outcomes : [Nodes -> {"none", "applied", "rejected"}]],
           UNCHANGED <<repository, overwritten>>, checkpoints \subseteq checkpoints',
           r.phase = "apply" => \A i \in DOMAIN r.left : Covered(repository', checkpoints', r, r.left[i]),
           r.phase \in {"check", "validate", "checkpoint"} =>
               \A i \in DOMAIN r.left : r.left[i] \in ClaimedBy(r.node)
    PROVE ReviewInv'
<1>1. review'[t] = r /\ \A u \in Reviewers : u = t
  BY DEF ReviewInv, ReviewType, SoleReviewer
<1>2. ReviewType'
  BY DEF ReviewInv, ReviewType
<1>3. ReplaceableIsSaved'
  BY <1>1 DEF ReplaceableIsSaved, Covered
<1>4. ClaimsAreLeft'
  BY <1>1 DEF ClaimsAreLeft
<1>5. OverwrittenIsCheckpointed'
  BY DEF ReviewInv, OverwrittenIsCheckpointed
<1> QED
  BY <1>2, <1>3, <1>4, <1>5 DEF ReviewInv

\* A review is begun with everything its proposal claims.
LEMMA BeginKeeps ==
    ASSUME ReviewInv, SoleReviewer, ProposalsAssumption,
           NEW t \in Reviewers, NEW approved \in BOOLEAN, Begin(t, approved)
    PROVE ReviewInv'
<1> DEFINE n == Head(document.queue)
           r == [phase |-> IF approved THEN "check" ELSE "record", node |-> n, approved |-> approved,
                 document |-> document, left |-> Claims[n], late |-> {}]
<1>1. review' = [review EXCEPT ![t] = r] /\ UNCHANGED <<repository, document, checkpoints, overwritten>>
  BY DEF Begin
<1>2. document.queue \in Seq(Nodes) /\ document.queue # <<>>
  BY DEF Begin, ReviewInv, ReviewType
<1>3. n \in Nodes
  BY <1>2, HeadTailProperties
<1>4. Claims[n] \in Seq(Paths) /\ \A i \in DOMAIN Claims[n] : Claims[n][i] \in ClaimedBy(n)
  BY <1>3 DEF ProposalsAssumption, ClaimedBy
<1> HIDE DEF n
<1>5. r.phase \in {"check", "record"}
  OBVIOUS
<1>6. r \in Going
  BY <1>2, <1>3, <1>4 DEF Going, Phases, ReviewInv, ReviewType
<1>7. r.phase # "apply" /\ r.left = Claims[n] /\ r.node = n
  OBVIOUS
<1>8. document' \in [queue : Seq(Nodes), outcomes : [Nodes -> {"none", "applied", "rejected"}]]
  BY <1>1 DEF ReviewInv, ReviewType
<1> HIDE DEF r
<1> QED
  BY <1>1, <1>4, <1>6, <1>7, <1>8, QuietStep

\* To another phase before the copying, or from the copying to the record.
LEMMA GotoKeeps ==
    ASSUME ReviewInv, SoleReviewer, NEW t \in Reviewers, review[t] \in Going,
           NEW phase \in Phases \ {"apply"}, Goto(t, phase), UNCHANGED <<repository, document, checkpoints, overwritten>>,
           phase # "record" => review[t].phase \in {"check", "validate", "checkpoint"}
    PROVE ReviewInv'
<1> DEFINE r == [review[t] EXCEPT !.phase = phase]
<1>1. review' = [review EXCEPT ![t] = r]
  BY DEF Goto
<1>2. r \in Going /\ r.phase = phase /\ r.left = review[t].left /\ r.node = review[t].node
  BY DEF Going
<1>3. document' \in [queue : Seq(Nodes), outcomes : [Nodes -> {"none", "applied", "rejected"}]]
  BY DEF ReviewInv, ReviewType
<1>4. phase # "record" => \A i \in DOMAIN review[t].left : review[t].left[i] \in ClaimedBy(review[t].node)
  BY DEF ReviewInv, ClaimsAreLeft
<1> HIDE DEF r
<1> QED
  BY <1>1, <1>2, <1>3, <1>4, QuietStep DEF Phases

\* The review is over or has been given up.
LEMMA RestKeeps ==
    ASSUME ReviewInv, SoleReviewer, NEW t \in Reviewers, review' = [review EXCEPT ![t] = Resting],
           document' \in [queue : Seq(Nodes), outcomes : [Nodes -> {"none", "applied", "rejected"}]],
           UNCHANGED <<repository, checkpoints, overwritten>>
    PROVE ReviewInv'
<1>1. Resting.phase \notin Phases
  BY DEF Resting, Phases
<1> QED
  BY <1>1, QuietStep DEF Phases

\* The checkpoint has what the paths contain.
LEMMA CheckpointKeeps ==
    ASSUME ReviewInv, SoleReviewer, NEW t \in Reviewers, CreateCheckpoint(t)
    PROVE ReviewInv'
<1> DEFINE n == review[t].node
           c == [p \in ClaimedBy(n) |-> repository[p]]
           r == [review[t] EXCEPT !.phase = "apply"]
<1>1. /\ review[t].phase = "checkpoint" /\ checkpoints' = checkpoints \cup {c}
      /\ UNCHANGED <<repository, document, overwritten>>
      /\ review' = [review EXCEPT ![t] = r]
  BY DEF CreateCheckpoint, Goto
<1>2. review[t] \in Going
  BY <1>1, InPhase, GoingFields DEF ReviewInv, Phases
<1>3. r \in Going /\ r.phase = "apply" /\ r.left = review[t].left /\ r.node = n
  BY <1>2 DEF Going, Phases
<1>4. \A i \in DOMAIN review[t].left : review[t].left[i] \in ClaimedBy(n)
  BY <1>1 DEF ReviewInv, ClaimsAreLeft
<1>5. \A p \in ClaimedBy(n) : p \in DOMAIN c /\ c[p] = repository'[p]
  BY <1>1
<1>6. \A p \in ClaimedBy(n) : Saved(repository', checkpoints', n, p)
  <2> HIDE DEF c
  <2> QED BY <1>1, <1>5 DEF Saved
<1>7. document' \in [queue : Seq(Nodes), outcomes : [Nodes -> {"none", "applied", "rejected"}]]
  BY <1>1 DEF ReviewInv, ReviewType
<1>8. \A i \in DOMAIN r.left : Covered(repository', checkpoints', r, r.left[i])
  <2> HIDE DEF r, c
  <2>1. \A i \in DOMAIN review[t].left : Saved(repository', checkpoints', n, review[t].left[i])
    BY <1>4, <1>6
  <2> QED BY <1>3, <2>1 DEF Covered
<1> HIDE DEF r, c
<1> QED
  BY <1>1, <1>3, <1>7, <1>8, QuietStep

\* What is copied over has been saved; what is left keeps its claim.
LEMMA ApplyKeeps ==
    ASSUME ReviewInv, SoleReviewer, NEW t \in Reviewers, Apply(t)
    PROVE ReviewInv'
<1> DEFINE n == review[t].node
           left == review[t].left
           p == Head(left)
           r == [review[t] EXCEPT !.left = Tail(left)]
<1>1. /\ review[t].phase = "apply" /\ left # <<>>
      /\ repository' = [repository EXCEPT ![p] = Proposed[n][p]]
      /\ overwritten' = overwritten \cup {[path |-> p, content |-> repository[p], by |-> n, late |-> p \in review[t].late]}
      /\ review' = [review EXCEPT ![t] = r]
      /\ UNCHANGED <<document, checkpoints>>
  BY DEF Apply
<1>2. review[t] \in Going
  BY <1>1, InPhase, GoingFields DEF ReviewInv, Phases
<1>3. left \in Seq(Paths) /\ p = left[1] /\ p \in Paths /\ 1 \in DOMAIN left
  BY <1>1, <1>2, HeadTailProperties DEF Going
<1>4. Tail(left) \in Seq(Paths) /\ \A i \in DOMAIN Tail(left) : i + 1 \in DOMAIN left /\ Tail(left)[i] = left[i + 1]
  BY <1>1, <1>3, HeadTailProperties
<1>5. \A i \in DOMAIN left : left[i] \in review[t].late \/ Saved(repository, checkpoints, n, left[i])
  BY <1>1 DEF ReviewInv, ReplaceableIsSaved, Covered
<1>6. r \in Going /\ r.phase = "apply" /\ r.left = Tail(left) /\ r.node = n /\ r.late = review[t].late
  BY <1>1, <1>2, <1>4 DEF Going
<1>7. review'[t] = r /\ \A u \in Reviewers : u = t
  BY <1>1 DEF ReviewInv, ReviewType, SoleReviewer
<1>8. ReviewType'
  <2> HIDE DEF r, p
  <2> QED BY <1>1, <1>6 DEF ReviewInv, ReviewType
<1>9. \A q : Saved(repository, checkpoints, n, q) => Saved(repository', checkpoints', n, q)
  <2>1. TAKE q
  <2>2. CASE q = p
    <3>1. repository'[p] = Proposed[n][p]
      BY <1>1, <1>3 DEF ReviewInv, ReviewType
    <3> HIDE DEF p
    <3> QED BY <2>2, <3>1 DEF Saved
  <2>3. CASE q # p
    <3>1. repository'[q] = repository[q]
      BY <1>1, <2>3
    <3> QED BY <1>1, <3>1 DEF Saved
  <2> QED BY <2>2, <2>3
<1>10. ReplaceableIsSaved'
  <2>1. \A i \in DOMAIN Tail(left) :
            Tail(left)[i] \in review[t].late \/ Saved(repository', checkpoints', n, Tail(left)[i])
    BY <1>4, <1>5, <1>9
  <2> HIDE DEF r
  <2> QED BY <1>6, <1>7, <2>1 DEF ReplaceableIsSaved, Covered
<1>11. ClaimsAreLeft'
  <2> HIDE DEF r
  <2> QED BY <1>6, <1>7 DEF ClaimsAreLeft
<1>12. OverwrittenIsCheckpointed'
  <2> DEFINE o == [path |-> p, content |-> repository[p], by |-> n, late |-> p \in review[t].late]
  <2>1. p \in review[t].late \/ Saved(repository, checkpoints, n, p)
    BY <1>3, <1>5
  <2>2. o.path = p /\ o.content = repository[p] /\ o.by = n /\ o.late = (p \in review[t].late)
    OBVIOUS
  <2>3. overwritten' = overwritten \cup {o}
    BY <1>1
  <2>4. o.late \/ o.content = Proposed[o.by][o.path] \/ \E c \in checkpoints : o.path \in DOMAIN c /\ c[o.path] = o.content
    <3> HIDE DEF o, p
    <3> QED BY <2>1, <2>2 DEF Saved
  <2> HIDE DEF o
  <2> QED
    BY <1>1, <2>3, <2>4 DEF ReviewInv, OverwrittenIsCheckpointed
<1> QED
  BY <1>8, <1>10, <1>11, <1>12 DEF ReviewInv

LEMMA ReviewInvStep ==
    ASSUME ReviewInv, SoleReviewer, ProposalsAssumption, [Next]_vars
    PROVE ReviewInv'
<1> DEFINE Documents == [queue : Seq(Nodes), outcomes : [Nodes -> {"none", "applied", "rejected"}]]
<1>1. document \in Documents
  BY DEF ReviewInv, ReviewType
<1>2. ASSUME NEW t \in Reviewers, NEW approved \in BOOLEAN, Begin(t, approved) PROVE ReviewInv'
  BY <1>2, BeginKeeps
<1>3. ASSUME NEW t \in Reviewers, CheckHashes(t) \/ Applied(t) PROVE ReviewInv'
  <2>1. review[t] \in Going
    BY <1>3, InPhase, GoingFields DEF CheckHashes, Applied, ReviewInv, Phases
  <2>2. CASE CheckHashes(t)
    BY <2>1, <2>2, GotoKeeps DEF CheckHashes, Phases
  <2>3. CASE Applied(t)
    BY <2>1, <2>3, GotoKeeps DEF Applied, Phases
  <2> QED BY <1>3, <2>2, <2>3
<1>4. ASSUME NEW t \in Reviewers, Stale(t) \/ ApplyRaises(t) PROVE ReviewInv'
  BY <1>1, <1>4, RestKeeps DEF Stale, ApplyRaises
<1>5. ASSUME NEW t \in Reviewers, Validate(t) PROVE ReviewInv'
  <2>1. review[t] \in Going /\ review[t].phase = "validate"
    BY <1>5, InPhase, GoingFields DEF Validate, ReviewInv, Phases
  <2>2. CASE review' = [review EXCEPT ![t] = [review[t] EXCEPT !.phase = "checkpoint"]]
    <3>1. Goto(t, "checkpoint")
      BY <2>2 DEF Goto
    <3> QED BY <1>5, <2>1, <3>1, GotoKeeps DEF Validate, Phases
  <2>3. CASE review' = [review EXCEPT ![t] = Resting]
    BY <1>1, <1>5, <2>3, RestKeeps DEF Validate
  <2> QED BY <1>5, <2>2, <2>3 DEF Validate
<1>6. ASSUME NEW t \in Reviewers, CreateCheckpoint(t) PROVE ReviewInv'
  BY <1>6, CheckpointKeeps
<1>7. ASSUME NEW t \in Reviewers, Apply(t) PROVE ReviewInv'
  BY <1>7, ApplyKeeps
<1>8. ASSUME NEW t \in Reviewers, Record(t) PROVE ReviewInv'
  <2>1. review[t] \in Going
    BY <1>8, InPhase, GoingFields DEF Record, ReviewInv, Phases
  <2>2. Tail(review[t].document.queue) \in Seq(Nodes)
    BY <2>1, HeadTailProperties DEF Going
  <2>3. document' \in Documents
    BY <1>8, <2>1, <2>2 DEF Record, Going
  <2> QED BY <1>8, <2>3, RestKeeps DEF Record
<1>9. ASSUME NEW p \in Paths, Edit(p) PROVE ReviewInv'
  <2> DEFINE noted(t) == [review[t] EXCEPT !.late = @ \cup {p}]
  <2>1. /\ UNCHANGED <<document, checkpoints, overwritten>> /\ DOMAIN repository' = Paths
        /\ \A q \in Paths \ {p} : repository'[q] = repository[q]
        /\ review' = [t \in Reviewers |-> IF review[t].phase = "apply" THEN noted(t) ELSE review[t]]
    BY <1>9 DEF Edit, ReviewInv, ReviewType
  <2>2. ASSUME NEW t \in Reviewers, review[t].phase = "apply"
        PROVE /\ noted(t) \in Going /\ noted(t).left = review[t].left /\ noted(t).node = review[t].node
              /\ noted(t).phase = "apply" /\ noted(t).late = review[t].late \cup {p}
    <3>1. review[t] \in Going
      BY <2>2, InPhase, GoingFields DEF ReviewInv, Phases
    <3> QED BY <2>2, <3>1 DEF Going
  <2> HIDE DEF noted
  <2>3. ReviewType'
    BY <2>1, <2>2 DEF ReviewInv, ReviewType
  <2>4. ClaimsAreLeft'
    BY <2>1, <2>2 DEF ReviewInv, ClaimsAreLeft, ClaimedBy
  <2>5. ReplaceableIsSaved'
    <3>1. SUFFICES ASSUME NEW t \in Reviewers, review'[t].phase = "apply", NEW i \in DOMAIN review'[t].left
                   PROVE Covered(repository', checkpoints', review'[t], review'[t].left[i])
      BY DEF ReplaceableIsSaved, Covered, Saved
    <3>2. review[t].phase = "apply" /\ review'[t] = noted(t)
      BY <2>1, <3>1
    <3>3. review'[t].left = review[t].left /\ review'[t].node = review[t].node /\ review'[t].late = review[t].late \cup {p}
      BY <2>2, <3>2
    <3>4. Covered(repository, checkpoints, review[t], review[t].left[i])
      BY <3>1, <3>2, <3>3 DEF ReviewInv, ReplaceableIsSaved
    <3>5. review[t].left[i] \in Paths
      <4>1. review[t] \in Going
        BY <3>2, InPhase, GoingFields DEF ReviewInv, Phases
      <4> QED BY <3>1, <3>3, <4>1 DEF Going
    <3> QED BY <2>1, <3>3, <3>4, <3>5 DEF Covered, Saved
  <2>6. OverwrittenIsCheckpointed'
    BY <2>1 DEF ReviewInv, OverwrittenIsCheckpointed
  <2> QED BY <2>3, <2>4, <2>5, <2>6 DEF ReviewInv
<1>10. CASE Crash
  <2>1. review' = [t \in Reviewers |-> Resting] /\ UNCHANGED <<repository, document, checkpoints, overwritten>>
    BY <1>10 DEF Crash
  <2>2. \A t \in Reviewers : review'[t].phase = "idle"
    BY <2>1 DEF Resting
  <2>3. ReplaceableIsSaved' /\ ClaimsAreLeft'
    BY <2>2 DEF ReplaceableIsSaved, ClaimsAreLeft
  <2>4. ReviewType' /\ OverwrittenIsCheckpointed'
    BY <2>1 DEF ReviewInv, ReviewType, OverwrittenIsCheckpointed
  <2> QED BY <2>3, <2>4 DEF ReviewInv
<1>11. CASE UNCHANGED vars
  BY <1>11 DEF vars, ReviewInv, ReviewType, ReplaceableIsSaved, Covered, Saved, ClaimsAreLeft, ClaimedBy,
               OverwrittenIsCheckpointed
<1> QED
  BY <1>2, <1>3, <1>4, <1>5, <1>6, <1>7, <1>8, <1>9, <1>10, <1>11 DEF Next, ReviewStep

\* With reviews one after the other, whatever a merge replaces is in a
\* checkpoint, was already what the proposal contains or was saved by a person
\* after the checkpoint, at any moment the process may die or a copy raise
\* (merge_queue.py:65, checkpoints.py:33).
THEOREM MergesCanBeRewound ==
    ASSUME ProposalsAssumption, DOMAIN Original = Paths, SoleReviewer
    PROVE Spec => []OverwrittenIsCheckpointed
<1>1. Init => ReviewInv
  BY ReviewInvInit
<1>2. ReviewInv /\ [Next]_vars => ReviewInv'
  BY ReviewInvStep
<1>3. ReviewInv => OverwrittenIsCheckpointed
  BY DEF ReviewInv
<1> QED
  BY <1>1, <1>2, <1>3, PTL DEF Spec
-----------------------------------------------------------------------------
(* Proposals that touch the same path.                                      *)

\* No proposal contains what the checkout, a person or another proposal has for
\* its paths, so that a content tells who wrote it.
ContentsAreDistinct ==
    \A n \in Nodes : \A p \in ClaimedBy(n) :
        Proposed[n][p] \notin {Original[p]} \cup Edits \cup {Proposed[m][p] : m \in Nodes \ {n}}

\* What n may replace in p: nothing that another proposal has put there.
Replaceable(n, p) == {Original[p], Proposed[n][p]} \cup Edits

\* A review that has compared the hashes finds only such contents, ...
LeftIsReplaceable ==
    \A t \in Reviewers : review[t].phase \in {"validate", "checkpoint", "apply"} =>
        \A i \in DOMAIN review[t].left : repository[review[t].left[i]] \in Replaceable(review[t].node, review[t].left[i])

\* ... and has replaced no others.
OnlyReplaceable == \A o \in overwritten : o.by \in Nodes /\ o.content \in Replaceable(o.by, o.path)

OverlapInv == LeftIsReplaceable /\ OnlyReplaceable

LEMMA ApplyKeepsOverlap ==
    ASSUME ReviewInv, SoleReviewer, OverlapInv, NEW t \in Reviewers, Apply(t)
    PROVE OverlapInv'
<1> DEFINE n == review[t].node
           left == review[t].left
           p == Head(left)
           r == [review[t] EXCEPT !.left = Tail(left)]
           o == [path |-> p, content |-> repository[p], by |-> n, late |-> p \in review[t].late]
<1>1. /\ review[t].phase = "apply" /\ left # <<>>
      /\ repository' = [repository EXCEPT ![p] = Proposed[n][p]]
      /\ overwritten' = overwritten \cup {o}
      /\ review' = [review EXCEPT ![t] = r]
  BY DEF Apply
<1>2. review[t] \in Going
  BY <1>1, InPhase, GoingFields DEF ReviewInv, Phases
<1>3. left \in Seq(Paths) /\ p = left[1] /\ 1 \in DOMAIN left /\ n \in Nodes
  BY <1>1, <1>2, HeadTailProperties DEF Going
<1>4. \A i \in DOMAIN Tail(left) : i + 1 \in DOMAIN left /\ Tail(left)[i] = left[i + 1]
  BY <1>1, <1>3, HeadTailProperties
<1>5. \A i \in DOMAIN left : repository[left[i]] \in Replaceable(n, left[i])
  BY <1>1 DEF OverlapInv, LeftIsReplaceable
<1>6. r.left = Tail(left) /\ r.node = n
  BY <1>2 DEF Going
<1>7. review'[t] = r /\ \A u \in Reviewers : u = t
  BY <1>1 DEF ReviewInv, ReviewType, SoleReviewer
<1>8. \A q : repository[q] \in Replaceable(n, q) => repository'[q] \in Replaceable(n, q)
  <2>1. p \in DOMAIN repository
    BY <1>3 DEF ReviewInv, ReviewType
  <2> HIDE DEF p
  <2> QED BY <1>1, <2>1 DEF Replaceable
<1>9. LeftIsReplaceable'
  <2>1. \A i \in DOMAIN Tail(left) : repository'[Tail(left)[i]] \in Replaceable(n, Tail(left)[i])
    BY <1>4, <1>5, <1>8
  <2> HIDE DEF r
  <2> QED BY <1>6, <1>7, <2>1 DEF LeftIsReplaceable, Replaceable
<1>10. o.by \in Nodes /\ o.content \in Replaceable(o.by, o.path)
  BY <1>3, <1>5
<1>11. OnlyReplaceable'
  <2> HIDE DEF o
  <2> QED BY <1>1, <1>10 DEF OverlapInv, OnlyReplaceable, Replaceable
<1> QED BY <1>9, <1>11 DEF OverlapInv

LEMMA OverlapInvStep ==
    ASSUME ReviewInv, SoleReviewer, OverlapInv, [Next]_vars
    PROVE OverlapInv'
<1>1. ASSUME NEW t \in Reviewers, NEW r, review' = [review EXCEPT ![t] = r],
             UNCHANGED <<repository, overwritten>>,
             r.phase \in {"validate", "checkpoint", "apply"} =>
                 \A i \in DOMAIN r.left : repository[r.left[i]] \in Replaceable(r.node, r.left[i])
      PROVE OverlapInv'
  <2>1. review'[t] = r /\ \A u \in Reviewers : u = t
    BY <1>1 DEF ReviewInv, ReviewType, SoleReviewer
  <2>2. LeftIsReplaceable'
    BY <1>1, <2>1 DEF LeftIsReplaceable, Replaceable
  <2> QED BY <1>1, <2>2 DEF OverlapInv, OnlyReplaceable, Replaceable
<1>2. ASSUME NEW t \in Reviewers, NEW approved \in BOOLEAN, Begin(t, approved) PROVE OverlapInv'
  <2> DEFINE r == [phase |-> IF approved THEN "check" ELSE "record",
                   node |-> Head(document.queue),
                   approved |-> approved,
                   document |-> document,
                   left |-> Claims[Head(document.queue)],
                   late |-> {}]
  <2>1. review' = [review EXCEPT ![t] = r] /\ UNCHANGED <<repository, overwritten>>
    BY <1>2 DEF Begin
  <2>2. r.phase \notin {"validate", "checkpoint", "apply"}
    OBVIOUS
  <2> HIDE DEF r
  <2> QED BY <1>1, <2>1, <2>2
<1>3. ASSUME NEW t \in Reviewers, Stale(t) \/ ApplyRaises(t) \/ Record(t) PROVE OverlapInv'
  <2>1. review' = [review EXCEPT ![t] = Resting] /\ UNCHANGED <<repository, overwritten>>
    BY <1>3 DEF Stale, ApplyRaises, Record
  <2>2. Resting.phase \notin {"validate", "checkpoint", "apply"}
    BY DEF Resting
  <2> QED BY <1>1, <2>1, <2>2
<1>4. ASSUME NEW t \in Reviewers, CheckHashes(t) PROVE OverlapInv'
  <2> DEFINE r == [review[t] EXCEPT !.phase = "validate"]
  <2>1. /\ review[t].phase = "check" /\ Fresh(review[t].node)
        /\ review' = [review EXCEPT ![t] = r] /\ UNCHANGED <<repository, overwritten>>
    BY <1>4 DEF CheckHashes, Goto
  <2>2. review[t] \in Going
    BY <2>1, InPhase, GoingFields DEF ReviewInv, Phases
  <2>3. r.left = review[t].left /\ r.node = review[t].node
    BY <2>2 DEF Going
  <2>4. \A i \in DOMAIN review[t].left :
            repository[review[t].left[i]] \in Replaceable(review[t].node, review[t].left[i])
    BY <2>1 DEF ReviewInv, ClaimsAreLeft, Fresh, Replaceable
  <2> HIDE DEF r
  <2> QED BY <1>1, <2>1, <2>3, <2>4
<1>5. ASSUME NEW t \in Reviewers, NEW phase,
             review[t].phase \in {"validate", "checkpoint", "apply"},
             review' = [review EXCEPT ![t] = [review[t] EXCEPT !.phase = phase]],
             UNCHANGED <<repository, overwritten>>
      PROVE OverlapInv'
  <2> DEFINE r == [review[t] EXCEPT !.phase = phase]
  <2>1. review[t] \in Going
    BY <1>5, InPhase, GoingFields DEF ReviewInv, Phases
  <2>2. r.left = review[t].left /\ r.node = review[t].node
    BY <2>1 DEF Going
  <2>3. \A i \in DOMAIN review[t].left :
            repository[review[t].left[i]] \in Replaceable(review[t].node, review[t].left[i])
    BY <1>5 DEF OverlapInv, LeftIsReplaceable
  <2>4. review' = [review EXCEPT ![t] = r]
    BY <1>5
  <2> HIDE DEF r
  <2> QED BY <1>1, <1>5, <2>2, <2>3, <2>4
<1>6. ASSUME NEW t \in Reviewers, CreateCheckpoint(t) PROVE OverlapInv'
  BY <1>5, <1>6 DEF CreateCheckpoint, Goto
<1>7. ASSUME NEW t \in Reviewers, Applied(t) PROVE OverlapInv'
  <2> DEFINE r == [review[t] EXCEPT !.phase = "record"]
  <2>1. /\ review[t].phase = "apply" /\ UNCHANGED <<repository, overwritten>>
        /\ review' = [review EXCEPT ![t] = r]
    BY <1>7 DEF Applied, Goto
  <2>2. review[t] \in Going
    BY <2>1, InPhase, GoingFields DEF ReviewInv, Phases
  <2>3. r.phase = "record"
    BY <2>2 DEF Going
  <2> HIDE DEF r
  <2> QED BY <1>1, <2>1, <2>3
<1>8. ASSUME NEW t \in Reviewers, Validate(t) PROVE OverlapInv'
  <2>1. review[t].phase = "validate" /\ UNCHANGED <<repository, overwritten>>
    BY <1>8 DEF Validate
  <2>2. CASE review' = [review EXCEPT ![t] = [review[t] EXCEPT !.phase = "checkpoint"]]
    BY <1>5, <2>1, <2>2
  <2>3. CASE review' = [review EXCEPT ![t] = Resting]
    <3>1. Resting.phase \notin {"validate", "checkpoint", "apply"}
      BY DEF Resting
    <3> QED BY <1>1, <2>1, <2>3, <3>1
  <2> QED BY <1>8, <2>2, <2>3 DEF Validate
<1>9. ASSUME NEW t \in Reviewers, Apply(t) PROVE OverlapInv'
  BY <1>9, ApplyKeepsOverlap
<1>10. ASSUME NEW p \in Paths, Edit(p) PROVE OverlapInv'
  <2>1. PICK c \in Edits : repository' = [repository EXCEPT ![p] = c]
    BY <1>10 DEF Edit
  <2>2. /\ UNCHANGED overwritten /\ DOMAIN repository = Paths
        /\ review' = [t \in Reviewers |-> IF review[t].phase = "apply"
                                          THEN [review[t] EXCEPT !.late = @ \cup {p}] ELSE review[t]]
    BY <1>10 DEF Edit, ReviewInv, ReviewType
  <2>3. \A n, q : repository[q] \in Replaceable(n, q) => repository'[q] \in Replaceable(n, q)
    BY <2>1, <2>2 DEF Replaceable
  <2>4. ASSUME NEW t \in Reviewers
        PROVE /\ review'[t].phase = review[t].phase
              /\ review[t].phase \in Phases => review'[t].left = review[t].left /\ review'[t].node = review[t].node
    <3>1. CASE review[t].phase = "apply"
      <4>1. review[t] \in Going
        BY <3>1, InPhase, GoingFields DEF ReviewInv, Phases
      <4> QED BY <2>2, <3>1, <4>1 DEF Going
    <3>2. CASE review[t].phase # "apply"
      BY <2>2, <3>2
    <3> QED BY <3>1, <3>2
  <2>5. LeftIsReplaceable'
    <3>1. \A t \in Reviewers : review[t].phase \in {"validate", "checkpoint", "apply"} => review[t].phase \in Phases
      BY DEF Phases
    <3>2. SUFFICES ASSUME NEW t \in Reviewers, review'[t].phase \in {"validate", "checkpoint", "apply"},
                          NEW i \in DOMAIN review'[t].left
                   PROVE repository'[review'[t].left[i]] \in Replaceable(review'[t].node, review'[t].left[i])
      BY DEF LeftIsReplaceable, Replaceable
    <3> QED BY <2>3, <2>4, <3>1, <3>2 DEF OverlapInv, LeftIsReplaceable
  <2> QED BY <2>2, <2>5 DEF OverlapInv, OnlyReplaceable, Replaceable
<1>11. CASE Crash
  <2>1. review' = [t \in Reviewers |-> Resting] /\ UNCHANGED overwritten
    BY <1>11 DEF Crash
  <2>2. \A t \in Reviewers : review'[t].phase = "idle"
    BY <2>1 DEF Resting
  <2>3. LeftIsReplaceable'
    BY <2>2 DEF LeftIsReplaceable
  <2> QED BY <2>1, <2>3 DEF OverlapInv, OnlyReplaceable, Replaceable
<1>12. CASE UNCHANGED vars
  BY <1>12 DEF vars, OverlapInv, LeftIsReplaceable, OnlyReplaceable, Replaceable
<1> QED
  BY <1>2, <1>3, <1>4, <1>6, <1>7, <1>8, <1>9, <1>10, <1>11, <1>12 DEF Next, ReviewStep

LEMMA OverlapInvInit ==
    ASSUME Init
    PROVE OverlapInv
BY DEF Init, OverlapInv, LeftIsReplaceable, OnlyReplaceable, Resting

LEMMA OverlapIsSafe ==
    ASSUME OverlapInv, ContentsAreDistinct
    PROVE ProposalsDoNotOverwriteEachOther
<1>1. SUFFICES ASSUME NEW o \in overwritten, NEW n \in Nodes \ {o.by}, o.path \in ClaimedBy(n)
               PROVE o.content # Proposed[n][o.path]
  BY DEF ProposalsDoNotOverwriteEachOther
<1>2. o.by \in Nodes \ {n} /\ o.content \in Replaceable(o.by, o.path)
  BY <1>1 DEF OverlapInv, OnlyReplaceable
<1> QED BY <1>1, <1>2 DEF ContentsAreDistinct, Replaceable

\* With reviews one after the other no merge replaces what another proposal has
\* put into a file, whatever is edited between the checks and the last copy: of the
\* proposals of one run that touch a path at most one is applied
\* (merge_queue.py:58).
THEOREM OneMergePerPath ==
    ASSUME ProposalsAssumption, DOMAIN Original = Paths, SoleReviewer, ContentsAreDistinct
    PROVE Spec => []ProposalsDoNotOverwriteEachOther
<1>1. Init => ReviewInv /\ OverlapInv
  BY ReviewInvInit, OverlapInvInit
<1>2. ReviewInv /\ OverlapInv /\ [Next]_vars => ReviewInv' /\ OverlapInv'
  BY ReviewInvStep, OverlapInvStep
<1>3. OverlapInv => ProposalsDoNotOverwriteEachOther
  BY OverlapIsSafe
<1> QED
  BY <1>1, <1>2, <1>3, PTL DEF Spec
=============================================================================
