------------------------- MODULE SessionStoreProofs -------------------------
(***************************************************************************)
(* Theorems of SessionStore for any graphs, any number of clients and any   *)
(* bounds, of its instance with one client, and of MCSessions, where clients *)
(* and runtimes write the document in turn (RuntimeProofs).                  *)
(***************************************************************************)
EXTENDS MCSessions, FiniteSetTheorems, SequenceTheorems, TLAPS

\* A document as far as approvals are concerned: it has both fields, and the
\* approval is missing or the one of its own revision.
Binds(doc) ==
    /\ {"status", "approved", "revision", "states", "attempts", "overrides",
        "breakpoints", "stepRequested", "queue"} \subseteq DOMAIN doc
    /\ doc.approved \in {NotApproved, doc.revision}

\* The first document of a session is not approved.
LEMMA NewDocumentBinds == \A g : Binds(NewDocument(g))
BY DEF NewDocument, Binds, NotApproved

\* Every operation of the store, applied to a document that binds its approval,
\* makes one that does: approve checks the hash and revise drops the approval.
LEMMA ResultBinds ==
    ASSUME NEW doc, NEW r \in RequestsOn(doc), Binds(doc), Accepts(doc, r)
    PROVE Binds(Result(doc, r))
<1>1. CASE r.kind = "approve"
  <2>1. r.hash = doc.revision /\ Result(doc, r) = Approve(doc, r.hash)
    BY <1>1 DEF Accepts, Result
  <2> QED BY <2>1 DEF Binds, Approve
<1>2. CASE r.kind = "transition"
  <2>1. Result(doc, r) = Transition(doc, r.status)
    BY <1>2 DEF Result
  <2> QED BY <2>1 DEF Binds, Transition
<1>3. CASE r.kind = "revise"
  <2>1. Result(doc, r) = Revise(doc, r.graph)
    BY <1>3 DEF Result
  <2> QED BY <2>1 DEF Binds, Revise
<1>4. CASE r.kind = "retry"
  <2>1. Result(doc, r) = Retry(doc, r.node, r.provider)
    BY <1>4 DEF Result
  <2> QED BY <2>1 DEF Binds, Retry
<1>5. CASE r.kind = "break"
  <2>1. Result(doc, r) = Break(doc, r.node)
    BY <1>5 DEF Result
  <2> QED BY <2>1 DEF Binds, Break
<1>6. CASE r.kind = "clear_break"
  <2>1. Result(doc, r) = ClearBreak(doc, r.node)
    BY <1>6 DEF Result
  <2> QED BY <2>1 DEF Binds, ClearBreak
<1>7. CASE r.kind = "step"
  <2>1. Result(doc, r) = RequestStep(doc)
    BY <1>7 DEF Result
  <2> QED BY <2>1 DEF Binds, RequestStep
<1> QED
  BY <1>1, <1>2, <1>3, <1>4, <1>5, <1>6, <1>7 DEF Accepts

\* What a file holds is a document that binds, or no document.
FileBinds(file) == file.kind = "document" => Binds(file.doc)

\* Whoever is about to write a document holds one that binds.
BindingInv ==
    /\ FileBinds(live)
    /\ FileBinds(temporary)
    /\ DOMAIN pc = Threads /\ DOMAIN draft = Threads
    /\ \A t \in Threads : pc[t] \in {"open", "write"} => Binds(draft[t])

LEMMA WrittenBinds ==
    ASSUME NEW file, NEW doc, Binds(doc), NEW new \in Written(file, doc)
    PROVE FileBinds(new)
BY DEF Written, FileBinds, Whole, Torn

LEMMA BindingStep ==
    ASSUME BindingInv, [Next]_vars
    PROVE BindingInv'
<1> USE DEF BindingInv
<1>1. CASE UNCHANGED vars
  BY <1>1 DEF vars, FileBinds
<1>2. ASSUME NEW t \in Threads, Load(t) PROVE BindingInv'
  <2>1. Binds(live.doc)
    BY <1>2 DEF Load, FileBinds
  <2>2. PICK r \in RequestsOn(live.doc) :
           Accepts(live.doc, r) /\ draft' = [draft EXCEPT ![t] = Result(live.doc, r)]
    BY <1>2 DEF Load
  <2>3. Binds(Result(live.doc, r))
    BY <2>1, <2>2, ResultBinds
  <2> QED BY <1>2, <2>2, <2>3 DEF Load, FileBinds
<1>3. ASSUME NEW t \in Threads, OpenTemporary(t) PROVE BindingInv'
  BY <1>3 DEF OpenTemporary, Empty, FileBinds
<1>4. ASSUME NEW t \in Threads, Write(t) PROVE BindingInv'
  <2>1. Binds(draft[t])
    BY <1>4 DEF Write
  <2>2. FileBinds(temporary') /\ FileBinds(live')
    BY <1>4, <2>1, WrittenBinds DEF Write
  <2> QED BY <1>4, <2>2 DEF Write, FileBinds
<1>5. ASSUME NEW t \in Threads, Rename(t) PROVE BindingInv'
  BY <1>5 DEF Rename, Absent, FileBinds
<1>6. ASSUME NEW t \in Threads,
             RenameRaises(t) \/ OpenJournal(t) \/ OpenJournalRaises(t) \/ AppendEvent(t)
      PROVE BindingInv'
  BY <1>6 DEF RenameRaises, OpenJournal, OpenJournalRaises, AppendEvent, Return, FileBinds
<1>7. CASE Crash
  BY <1>7 DEF Crash, FileBinds
<1> QED
  BY <1>1, <1>2, <1>3, <1>4, <1>5, <1>6, <1>7 DEF Next

LEMMA BindingInit == Init => BindingInv
BY NewDocumentBinds DEF Init, BindingInv, FileBinds, Whole, Absent

\* However many clients race, and wherever the process dies, the document in
\* place never has an approval that was given for another revision: approve
\* and revise write whole documents (orchestration_store.py:37-45, 62-74).
THEOREM ApprovalsBind == Spec => []ApprovalBindsRevision
<1>1. BindingInv => ApprovalBindsRevision
  BY DEF BindingInv, FileBinds, Binds, ApprovalBindsRevision
<1> QED
  BY BindingInit, BindingStep, <1>1, PTL DEF Spec
-----------------------------------------------------------------------------
(* One client: the file protocol is atomic. *)


\* The operations are the same in every instance of SessionDocuments.
LEMMA SameOperations ==
    ASSUME NEW doc
    PROVE /\ Sole!RequestsOn(doc) = RequestsOn(doc)
          /\ \A r : Sole!Accepts(doc, r) = Accepts(doc, r)
          /\ \A r : Sole!Result(doc, r) = Result(doc, r)
          /\ Sole!NewDocument(InitialGraph) = NewDocument(InitialGraph)
<1> USE DEF NodesOf, Sole!NodesOf, AllNodes, Sole!AllNodes, PolicyOf, Sole!PolicyOf,
            Graph, Sole!Graph, NotApproved, Sole!NotApproved, Carry, Sole!Carry
<1>1. Sole!RequestsOn(doc) = RequestsOn(doc)
  BY DEF RequestsOn, Sole!RequestsOn
<1>2. \A r : Sole!Accepts(doc, r) = Accepts(doc, r)
  BY DEF Accepts, Sole!Accepts, MayTransition, Sole!MayTransition, MayRetry, Sole!MayRetry
<1>3. \A r : Sole!Result(doc, r) = Result(doc, r)
  BY DEF Result, Sole!Result, Approve, Sole!Approve, Transition, Sole!Transition,
         Revise, Sole!Revise, Retry, Sole!Retry, Break, Sole!Break,
         ClearBreak, Sole!ClearBreak, RequestStep, Sole!RequestStep
<1>4. Sole!NewDocument(InitialGraph) = NewDocument(InitialGraph)
  BY DEF NewDocument, Sole!NewDocument
<1> QED
  BY <1>1, <1>2, <1>3, <1>4

LEMMA SameAtomicOperations ==
    ASSUME NEW doc
    PROVE /\ Sole!Atomic!RequestsOn(doc) = RequestsOn(doc)
          /\ \A r : Sole!Atomic!Accepts(doc, r) = Accepts(doc, r)
          /\ \A r : Sole!Atomic!Result(doc, r) = Result(doc, r)
          /\ Sole!Atomic!NewDocument(InitialGraph) = NewDocument(InitialGraph)
<1> USE DEF NodesOf, Sole!Atomic!NodesOf, AllNodes, Sole!Atomic!AllNodes, PolicyOf, Sole!Atomic!PolicyOf,
            Graph, Sole!Atomic!Graph, NotApproved, Sole!Atomic!NotApproved, Carry, Sole!Atomic!Carry
<1>1. Sole!Atomic!RequestsOn(doc) = RequestsOn(doc)
  BY DEF RequestsOn, Sole!Atomic!RequestsOn
<1>2. \A r : Sole!Atomic!Accepts(doc, r) = Accepts(doc, r)
  BY DEF Accepts, Sole!Atomic!Accepts, MayTransition, Sole!Atomic!MayTransition, MayRetry, Sole!Atomic!MayRetry
<1>3. \A r : Sole!Atomic!Result(doc, r) = Result(doc, r)
  BY DEF Result, Sole!Atomic!Result, Approve, Sole!Atomic!Approve, Transition, Sole!Atomic!Transition,
         Revise, Sole!Atomic!Revise, Retry, Sole!Atomic!Retry, Break, Sole!Atomic!Break,
         ClearBreak, Sole!Atomic!ClearBreak, RequestStep, Sole!Atomic!RequestStep
<1>4. Sole!Atomic!NewDocument(InitialGraph) = NewDocument(InitialGraph)
  BY DEF NewDocument, Sole!Atomic!NewDocument
<1> QED
  BY <1>1, <1>2, <1>3, <1>4

\* What the client has computed is the operation it was asked for, of the
\* document in place.
Pending ==
    /\ request1["t1"] \in RequestsOn(live1.doc)
    /\ Accepts(live1.doc, request1["t1"])
    /\ draft1["t1"] = Result(live1.doc, request1["t1"])
    /\ request1["t1"].kind = "clear_break" => request1["t1"].node \notin acknowledged1

\* Nothing interferes between the client's read and its rename.
SoleInv ==
    /\ live1.kind = "document" /\ Binds(live1.doc)
    /\ DOMAIN pc1 = {"t1"} /\ DOMAIN draft1 = {"t1"} /\ DOMAIN target1 = {"t1"} /\ DOMAIN request1 = {"t1"}
    /\ pc1["t1"] \in {"idle", "open", "write", "rename", "journal", "append"}
    /\ pc1["t1"] \in {"open", "write", "rename"} => Pending
    /\ pc1["t1"] = "write" => temporary1 = Empty /\ target1["t1"] = "temporary"
    /\ pc1["t1"] = "rename" => temporary1 = Whole(draft1["t1"])
    /\ pc1["t1"] # "write" => target1["t1"] = "closed"
    /\ acknowledged1 \subseteq live1.doc.breakpoints
    /\ pc1["t1"] \in {"journal", "append"} /\ request1["t1"].kind = "break" =>
          request1["t1"].node \in live1.doc.breakpoints

\* An operation leaves the breakpoints alone, but for the one it sets or clears.
LEMMA ResultBreakpoints ==
    ASSUME NEW doc, NEW r \in RequestsOn(doc), Binds(doc)
    PROVE /\ \A n \in doc.breakpoints :
                n \in Result(doc, r).breakpoints \/ (r.kind = "clear_break" /\ r.node = n)
          /\ r.kind = "break" => r.node \in Result(doc, r).breakpoints
<1>1. CASE r.kind = "approve"
  <2>1. Result(doc, r) = Approve(doc, r.hash)
    BY <1>1 DEF Result
  <2> QED BY <1>1, <2>1 DEF Binds, Approve
<1>2. CASE r.kind = "transition"
  <2>1. Result(doc, r) = Transition(doc, r.status)
    BY <1>2 DEF Result
  <2> QED BY <1>2, <2>1 DEF Binds, Transition
<1>3. CASE r.kind = "revise"
  <2>1. Result(doc, r) = Revise(doc, r.graph)
    BY <1>3 DEF Result
  <2> QED BY <1>3, <2>1 DEF Binds, Revise
<1>4. CASE r.kind = "retry"
  <2>1. Result(doc, r) = Retry(doc, r.node, r.provider)
    BY <1>4 DEF Result
  <2> QED BY <1>4, <2>1 DEF Binds, Retry
<1>5. CASE r.kind = "break"
  <2>1. Result(doc, r) = Break(doc, r.node)
    BY <1>5 DEF Result
  <2> QED BY <1>5, <2>1 DEF Binds, Break
<1>6. CASE r.kind = "clear_break"
  <2>1. Result(doc, r) = ClearBreak(doc, r.node)
    BY <1>6 DEF Result
  <2> QED BY <1>6, <2>1 DEF Binds, ClearBreak
<1>7. CASE r.kind = "step"
  <2>1. Result(doc, r) = RequestStep(doc)
    BY <1>7 DEF Result
  <2> QED BY <1>7, <2>1 DEF Binds, RequestStep
<1> QED
  BY <1>1, <1>2, <1>3, <1>4, <1>5, <1>6, <1>7 DEF RequestsOn

\* A step of the only client keeps SoleInv and is an operation, or leaves the
\* document alone.
LEMMA SoleStep ==
    ASSUME SoleInv, [Sole!Next]_Sole!vars
    PROVE /\ SoleInv'
          /\ \/ live1' = live1
             \/ \E r \in RequestsOn(live1.doc) :
                   Accepts(live1.doc, r) /\ live1'.doc = Result(live1.doc, r)
<1> USE DEF SoleInv, Pending, Sole!Nothing, Sole!Empty, Sole!Absent, Sole!Torn, Sole!Whole, Empty, Whole
<1>1. CASE UNCHANGED Sole!vars
  BY <1>1 DEF Sole!vars
<1>2. CASE Sole!Load("t1")
  BY <1>2, SameOperations DEF Sole!Load
<1>3. CASE Sole!OpenTemporary("t1")
  BY <1>3 DEF Sole!OpenTemporary
<1>4. CASE Sole!Write("t1")
  BY <1>4 DEF Sole!Write, Sole!Written
<1>5. CASE Sole!Rename("t1")
  <2>1. target1' = [u \in {"t1"} |-> "closed"]
    BY <1>5 DEF Sole!Rename
  <2>2. /\ live1' = Whole(draft1["t1"]) /\ pc1' = [pc1 EXCEPT !["t1"] = "journal"]
        /\ UNCHANGED <<draft1, request1, acknowledged1>>
    BY <1>5 DEF Sole!Rename
  <2>3. /\ request1["t1"] \in RequestsOn(live1.doc) /\ Accepts(live1.doc, request1["t1"])
        /\ draft1["t1"] = Result(live1.doc, request1["t1"])
    BY <1>5 DEF Sole!Rename
  <2>4. Binds(draft1["t1"])
    BY <2>3, ResultBinds
  <2>5. /\ acknowledged1 \subseteq draft1["t1"].breakpoints
        /\ request1["t1"].kind = "break" => request1["t1"].node \in draft1["t1"].breakpoints
    BY <1>5, <2>3, ResultBreakpoints DEF Sole!Rename
  <2> QED
    BY <2>1, <2>2, <2>3, <2>4, <2>5
<1>6. CASE Sole!RenameRaises("t1")
  BY <1>6 DEF Sole!RenameRaises
<1>7. CASE Sole!OpenJournal("t1")
  BY <1>7 DEF Sole!OpenJournal
<1>8. CASE Sole!OpenJournalRaises("t1")
  BY <1>8 DEF Sole!OpenJournalRaises, Sole!Return
<1>9. CASE Sole!AppendEvent("t1")
  BY <1>9 DEF Sole!AppendEvent, Sole!Return
<1>10. CASE Sole!Crash
  BY <1>10 DEF Sole!Crash
<1> QED
  BY <1>1, <1>2, <1>3, <1>4, <1>5, <1>6, <1>7, <1>8, <1>9, <1>10 DEF Sole!Next

LEMMA SoleInit == Sole!Init => SoleInv
<1> SUFFICES ASSUME Sole!Init
             PROVE SoleInv
  OBVIOUS
<1>1. live1 = Whole(NewDocument(InitialGraph)) /\ acknowledged1 = {}
  BY SameOperations DEF Sole!Init, Sole!Whole, Whole
<1>2. live1.kind = "document" /\ Binds(live1.doc)
  BY <1>1, NewDocumentBinds DEF Whole
<1> QED BY <1>1, <1>2 DEF Sole!Init, SoleInv

\* With a single client every change of session.json is one whole operation on
\* the document before it, wherever the process may die: what the temporary
\* file and the rename (orchestration_store.py:143-148) are for.
THEOREM SoleClientIsAtomic == Sole!Spec => SoleIsAtomic
<1>1. SoleInv /\ [Sole!Next]_Sole!vars => SoleInv'
  BY SoleStep
<1>2. Sole!Init => Sole!Atomic!Init
  BY SameOperations, SameAtomicOperations DEF Sole!Init, Sole!Atomic!Init, Sole!Whole
<1>3. ASSUME SoleInv, SoleInv', [Sole!Next]_Sole!vars
      PROVE [Sole!Atomic!Next]_(IF live1.kind = "document" THEN live1.doc ELSE Sole!Nothing)
  <2>1. CASE live1' = live1
    BY <2>1
  <2>2. CASE \E r \in RequestsOn(live1.doc) :
               Accepts(live1.doc, r) /\ live1'.doc = Result(live1.doc, r)
    <3>1. live1.kind = "document" /\ live1'.kind = "document"
      BY <1>3 DEF SoleInv
    <3> QED
      BY <2>2, <3>1, SameAtomicOperations DEF Sole!Atomic!Next
  <2> QED
    BY <1>3, <2>1, <2>2, SoleStep
<1> QED
  BY SoleInit, <1>1, <1>2, <1>3, PTL DEF Sole!Spec, SoleIsAtomic, Sole!ImplementsAtomicSessions, Sole!Atomic!Spec
-----------------------------------------------------------------------------
(* The journal of racing clients. *)

MayAppend == {t \in Threads : pc[t] \in {"journal", "append"}}

\* Every line, and every thread that will append one, has a replacement of the
\* document of its own.
FollowsInv ==
    /\ journal \in Seq(Nat) /\ renames \in Nat
    /\ DOMAIN pc = Threads /\ sequence \in [Threads -> Nat]
    /\ Len(journal) + Cardinality(MayAppend) <= 1 + renames

LEMMA FollowsInit == Init => FollowsInv
<1> SUFFICES ASSUME Init
             PROVE FollowsInv
  OBVIOUS
<1>1. MayAppend = {}
  BY DEF Init, MayAppend
<1>2. journal \in Seq(Nat) /\ Len(journal) = 1
  BY DEF Init
<1> QED BY <1>1, <1>2, FS_EmptySet DEF Init, FollowsInv

LEMMA FollowsStep ==
    ASSUME IsFiniteSet(Threads), FollowsInv, [Next]_vars
    PROVE FollowsInv'
<1>1. IsFiniteSet(MayAppend) /\ Cardinality(MayAppend) \in Nat /\ Len(journal) \in Nat
  BY FS_Subset, FS_CardinalityType, LenProperties DEF MayAppend, FollowsInv
<1>2. ASSUME UNCHANGED <<journal, renames>>, DOMAIN pc' = Threads, sequence' \in [Threads -> Nat],
             MayAppend' \subseteq MayAppend
      PROVE FollowsInv'
  <2>1. Cardinality(MayAppend') <= Cardinality(MayAppend) /\ Cardinality(MayAppend') \in Nat
    BY <1>1, <1>2, FS_Subset, FS_CardinalityType
  <2> QED BY <1>1, <1>2, <2>1 DEF FollowsInv
<1>3. CASE UNCHANGED vars
  BY <1>3 DEF vars, FollowsInv, MayAppend
<1>4. ASSUME NEW t \in Threads, Load(t) \/ OpenTemporary(t) \/ Write(t)
      PROVE FollowsInv'
  <2>1. /\ UNCHANGED <<journal, renames, sequence>>
        /\ \E at \in {"open", "write", "rename"} : pc' = [pc EXCEPT ![t] = at]
    BY <1>4 DEF Load, OpenTemporary, Write
  <2>2. MayAppend' \subseteq MayAppend
    BY <2>1 DEF MayAppend, FollowsInv
  <2> QED BY <1>2, <2>1, <2>2 DEF FollowsInv
<1>5. ASSUME NEW t \in Threads, RenameRaises(t) \/ OpenJournalRaises(t)
      PROVE FollowsInv'
  <2>1. /\ UNCHANGED <<journal, renames>>
        /\ pc' = [pc EXCEPT ![t] = "idle"] /\ sequence' = [sequence EXCEPT ![t] = 0]
    BY <1>5 DEF RenameRaises, OpenJournalRaises, Return
  <2>2. MayAppend' \subseteq MayAppend
    BY <2>1 DEF MayAppend, FollowsInv
  <2> QED BY <1>2, <2>1, <2>2 DEF FollowsInv
<1>6. ASSUME NEW t \in Threads, OpenJournal(t)
      PROVE FollowsInv'
  <2>1. /\ UNCHANGED <<journal, renames>> /\ pc[t] = "journal"
        /\ pc' = [pc EXCEPT ![t] = "append"] /\ sequence' = [sequence EXCEPT ![t] = Len(journal)]
    BY <1>6 DEF OpenJournal
  <2>2. MayAppend' \subseteq MayAppend
    BY <2>1 DEF MayAppend, FollowsInv
  <2> QED BY <1>1, <1>2, <2>1, <2>2 DEF FollowsInv
<1>7. ASSUME NEW t \in Threads, Rename(t)
      PROVE FollowsInv'
  <2>1. /\ UNCHANGED <<journal, sequence>> /\ renames' = renames + 1
        /\ pc[t] = "rename" /\ pc' = [pc EXCEPT ![t] = "journal"]
    BY <1>7 DEF Rename
  <2>2. MayAppend' = MayAppend \cup {t} /\ t \notin MayAppend
    BY <2>1 DEF MayAppend, FollowsInv
  <2>3. Cardinality(MayAppend') = Cardinality(MayAppend) + 1
    BY <1>1, <2>2, FS_AddElement
  <2> QED BY <1>1, <2>1, <2>3 DEF FollowsInv
<1>8. ASSUME NEW t \in Threads, AppendEvent(t)
      PROVE FollowsInv'
  <2>1. /\ UNCHANGED renames /\ pc[t] = "append" /\ journal' = Append(journal, sequence[t] + 1)
        /\ pc' = [pc EXCEPT ![t] = "idle"] /\ sequence' = [sequence EXCEPT ![t] = 0]
    BY <1>8 DEF AppendEvent, Return
  <2>2. MayAppend' = MayAppend \ {t} /\ t \in MayAppend
    BY <2>1 DEF MayAppend, FollowsInv
  <2>3. Cardinality(MayAppend') = Cardinality(MayAppend) - 1
    BY <1>1, <2>2, FS_RemoveElement
  <2>4. sequence[t] + 1 \in Nat
    BY DEF FollowsInv
  <2>5. journal' \in Seq(Nat) /\ Len(journal') = Len(journal) + 1
    BY <2>1, <2>4, AppendProperties DEF FollowsInv
  <2> QED BY <1>1, <2>1, <2>3, <2>5 DEF FollowsInv
<1>9. CASE Crash
  <2>1. /\ UNCHANGED <<journal, renames>>
        /\ pc' = [t \in Threads |-> "idle"] /\ sequence' = [t \in Threads |-> 0]
    BY <1>9 DEF Crash
  <2>2. MayAppend' = {}
    BY <2>1 DEF MayAppend
  <2> QED BY <1>2, <2>1, <2>2 DEF FollowsInv
<1> QED
  BY <1>3, <1>4, <1>5, <1>6, <1>7, <1>8, <1>9 DEF Next

LEMMA FollowsIsSafe ==
    ASSUME IsFiniteSet(Threads), FollowsInv
    PROVE JournalFollowsDocument
<1>1. Cardinality(MayAppend) \in Nat /\ Len(journal) \in Nat
  BY FS_Subset, FS_CardinalityType, LenProperties DEF MayAppend, FollowsInv
<1> QED BY <1>1 DEF FollowsInv, JournalFollowsDocument

\* However many threads race, and wherever the process dies, the journal has no
\* line that is not for a document that was put in place: the rename comes first
\* (orchestration_store.py:143-148, :42).
THEOREM JournalIsBehind ==
    ASSUME IsFiniteSet(Threads)
    PROVE Spec => []JournalFollowsDocument
BY FollowsInit, FollowsStep, FollowsIsSafe, PTL DEF Spec
-----------------------------------------------------------------------------
(* The writers in turn.  The two instances of PersistedRuntime are ones to   *)
(* which the lemmas of RuntimeProofs apply.                                  *)

QuietP == INSTANCE RuntimeProofs WITH
    InitialGraphs <- {"join", "chain"},
    Requests <- {"approve", "revise", "retry", "step"}, RequestsInRun <- {},
    MayCrash <- TRUE, MaxRuns <- 2, MaxRequests <- 3

BusyP == INSTANCE RuntimeProofs WITH
    InitialGraphs <- {"join", "chain"},
    Requests <- {"approve", "transition", "revise", "retry", "step"},
    RequestsInRun <- {"approve", "transition", "revise", "break", "clear_break", "step", "review"},
    MayCrash <- FALSE, MaxRuns <- 2, MaxRequests <- 3

LEMMA QuietOperations ==
    ASSUME NEW doc
    PROVE /\ QuietP!RequestsOn(doc) = Quiet!RequestsOn(doc)
          /\ \A r : QuietP!Accepts(doc, r) = Quiet!Accepts(doc, r)
          /\ \A r : QuietP!Result(doc, r) = Quiet!Result(doc, r)
          /\ QuietP!Graph(doc) = Quiet!Graph(doc)
          /\ \A g : QuietP!NewDocument(g) = Quiet!NewDocument(g)
          /\ \A g : QuietP!NodesOf(g) = Quiet!NodesOf(g)
          /\ QuietP!AllNodes = Quiet!AllNodes
<1> USE DEF QuietP!NodesOf, Quiet!NodesOf, QuietP!AllNodes, Quiet!AllNodes, QuietP!PolicyOf, Quiet!PolicyOf, QuietP!Graph, Quiet!Graph, QuietP!NotApproved, Quiet!NotApproved, QuietP!Carry, Quiet!Carry
<1>1. QuietP!RequestsOn(doc) = Quiet!RequestsOn(doc)
  BY DEF QuietP!RequestsOn, Quiet!RequestsOn
<1>2. \A r : QuietP!Accepts(doc, r) = Quiet!Accepts(doc, r)
  BY DEF QuietP!Accepts, Quiet!Accepts, QuietP!MayTransition, Quiet!MayTransition, QuietP!MayRetry, Quiet!MayRetry
<1>3. \A r : QuietP!Result(doc, r) = Quiet!Result(doc, r)
  BY DEF QuietP!Result, Quiet!Result, QuietP!Approve, Quiet!Approve, QuietP!Transition, Quiet!Transition,
         QuietP!Revise, Quiet!Revise, QuietP!Retry, Quiet!Retry, QuietP!Break, Quiet!Break,
         QuietP!ClearBreak, Quiet!ClearBreak, QuietP!RequestStep, Quiet!RequestStep
<1>4. \A g : QuietP!NewDocument(g) = Quiet!NewDocument(g)
  BY DEF QuietP!NewDocument, Quiet!NewDocument
<1> QED BY <1>1, <1>2, <1>3, <1>4

LEMMA QuietRuntimes ==
    /\ Quiet!Init => QuietP!Init
    /\ Quiet!Next => QuietP!Next
<1> USE DEF Quiet!NodesOf, QuietP!NodesOf, Quiet!AllNodes, QuietP!AllNodes, Quiet!Graph, QuietP!Graph, Quiet!Idle, QuietP!Idle, Quiet!Verified, QuietP!Verified, Quiet!NoRuntime, QuietP!NoRuntime
<1>1. Quiet!Init => QuietP!Init
  BY Zenon DEF Quiet!NodesOf, Quiet!AllNodes, Quiet!NoRuntime, Quiet!Init, QuietP!Init, Quiet!NewDocument, QuietP!NewDocument, Quiet!NotApproved, QuietP!NotApproved
<1>2. ASSUME NEW r \in Quiet!RequestsOn(document), Quiet!Client(r)
      PROVE r \in QuietP!RequestsOn(document) /\ QuietP!Client(r)
  BY <1>2, QuietOperations DEF Quiet!Client, QuietP!Client
<1>3. Quiet!AppendEvent \/ Quiet!AppendRefused => QuietP!AppendEvent \/ QuietP!AppendRefused
  BY Zenon DEF Quiet!AppendEvent, QuietP!AppendEvent, Quiet!AppendRefused, QuietP!AppendRefused
<1>4. Quiet!OpenRuntime => QuietP!OpenRuntime
  BY Zenon DEF Quiet!OpenRuntime, QuietP!OpenRuntime, Quiet!Opened, QuietP!Opened, Quiet!CachedSequence, QuietP!CachedSequence, Quiet!Restored, QuietP!Restored
<1>5. Quiet!Execute => QuietP!Execute
  BY Zenon DEF Quiet!Execute, QuietP!Execute, Quiet!Settles, QuietP!Settles, Quiet!NodeState, QuietP!NodeState, Quiet!OrdersOf, QuietP!OrdersOf, Quiet!Cardinality, QuietP!Cardinality, Quiet!IsFiniteSet, QuietP!IsFiniteSet, Quiet!Proposed, QuietP!Proposed, Quiet!ProviderAt, QuietP!ProviderAt
<1>6. Quiet!Finish => QuietP!Finish
  BY Zenon DEF Quiet!Finish, QuietP!Finish
<1>7. ASSUME NEW n \in Quiet!AllNodes, Quiet!Record(n) \/ Quiet!RecordRaises(n)
      PROVE n \in QuietP!AllNodes /\ (QuietP!Record(n) \/ QuietP!RecordRaises(n))
  BY <1>7, Zenon DEF Quiet!Record, QuietP!Record, Quiet!RecordRaises, QuietP!RecordRaises, Quiet!RecordsNext, QuietP!RecordsNext, Quiet!DeclaredBefore, QuietP!DeclaredBefore, Quiet!RecordAttempt, QuietP!RecordAttempt, Quiet!AttemptProvider, QuietP!AttemptProvider
<1>8. Quiet!ReviewMerge => QuietP!ReviewMerge
  BY Zenon DEF Quiet!ReviewMerge, QuietP!ReviewMerge, Quiet!Opened, QuietP!Opened
<1>9. Quiet!Crash => QuietP!Crash
  BY Zenon DEF Quiet!Crash, QuietP!Crash
<1> QED BY <1>1, <1>2, <1>3, <1>4, <1>5, <1>6, <1>7, <1>8, <1>9, Zenon DEF Quiet!Next, QuietP!Next

LEMMA BusyOperations ==
    ASSUME NEW doc
    PROVE /\ BusyP!RequestsOn(doc) = Busy!RequestsOn(doc)
          /\ \A r : BusyP!Accepts(doc, r) = Busy!Accepts(doc, r)
          /\ \A r : BusyP!Result(doc, r) = Busy!Result(doc, r)
          /\ BusyP!Graph(doc) = Busy!Graph(doc)
          /\ \A g : BusyP!NewDocument(g) = Busy!NewDocument(g)
          /\ \A g : BusyP!NodesOf(g) = Busy!NodesOf(g)
          /\ BusyP!AllNodes = Busy!AllNodes
<1> USE DEF BusyP!NodesOf, Busy!NodesOf, BusyP!AllNodes, Busy!AllNodes, BusyP!PolicyOf, Busy!PolicyOf, BusyP!Graph, Busy!Graph, BusyP!NotApproved, Busy!NotApproved, BusyP!Carry, Busy!Carry
<1>1. BusyP!RequestsOn(doc) = Busy!RequestsOn(doc)
  BY DEF BusyP!RequestsOn, Busy!RequestsOn
<1>2. \A r : BusyP!Accepts(doc, r) = Busy!Accepts(doc, r)
  BY DEF BusyP!Accepts, Busy!Accepts, BusyP!MayTransition, Busy!MayTransition, BusyP!MayRetry, Busy!MayRetry
<1>3. \A r : BusyP!Result(doc, r) = Busy!Result(doc, r)
  BY DEF BusyP!Result, Busy!Result, BusyP!Approve, Busy!Approve, BusyP!Transition, Busy!Transition,
         BusyP!Revise, Busy!Revise, BusyP!Retry, Busy!Retry, BusyP!Break, Busy!Break,
         BusyP!ClearBreak, Busy!ClearBreak, BusyP!RequestStep, Busy!RequestStep
<1>4. \A g : BusyP!NewDocument(g) = Busy!NewDocument(g)
  BY DEF BusyP!NewDocument, Busy!NewDocument
<1> QED BY <1>1, <1>2, <1>3, <1>4

LEMMA BusyRuntimes ==
    /\ Quiet!Init => BusyP!Init
    /\ Busy!Next => BusyP!Next
<1> USE DEF Busy!NodesOf, BusyP!NodesOf, Busy!AllNodes, BusyP!AllNodes, Busy!Graph, BusyP!Graph, Busy!Idle, BusyP!Idle, Busy!Verified, BusyP!Verified, Busy!NoRuntime, BusyP!NoRuntime
<1>1. Quiet!Init => BusyP!Init
  BY Zenon DEF Quiet!NodesOf, Quiet!AllNodes, Quiet!NoRuntime, Quiet!Init, BusyP!Init, Quiet!NewDocument, BusyP!NewDocument, Quiet!NotApproved, BusyP!NotApproved
<1>2. ASSUME NEW r \in Busy!RequestsOn(document), Busy!Client(r)
      PROVE r \in BusyP!RequestsOn(document) /\ BusyP!Client(r)
  BY <1>2, BusyOperations DEF Busy!Client, BusyP!Client
<1>3. Busy!AppendEvent \/ Busy!AppendRefused => BusyP!AppendEvent \/ BusyP!AppendRefused
  BY Zenon DEF Busy!AppendEvent, BusyP!AppendEvent, Busy!AppendRefused, BusyP!AppendRefused
<1>4. Busy!OpenRuntime => BusyP!OpenRuntime
  BY Zenon DEF Busy!OpenRuntime, BusyP!OpenRuntime, Busy!Opened, BusyP!Opened, Busy!CachedSequence, BusyP!CachedSequence, Busy!Restored, BusyP!Restored
<1>5. Busy!Execute => BusyP!Execute
  BY Zenon DEF Busy!Execute, BusyP!Execute, Busy!Settles, BusyP!Settles, Busy!NodeState, BusyP!NodeState, Busy!OrdersOf, BusyP!OrdersOf, Busy!Cardinality, BusyP!Cardinality, Busy!IsFiniteSet, BusyP!IsFiniteSet, Busy!Proposed, BusyP!Proposed, Busy!ProviderAt, BusyP!ProviderAt
<1>6. Busy!Finish => BusyP!Finish
  BY Zenon DEF Busy!Finish, BusyP!Finish
<1>7. ASSUME NEW n \in Busy!AllNodes, Busy!Record(n) \/ Busy!RecordRaises(n)
      PROVE n \in BusyP!AllNodes /\ (BusyP!Record(n) \/ BusyP!RecordRaises(n))
  BY <1>7, Zenon DEF Busy!Record, BusyP!Record, Busy!RecordRaises, BusyP!RecordRaises, Busy!RecordsNext, BusyP!RecordsNext, Busy!DeclaredBefore, BusyP!DeclaredBefore, Busy!RecordAttempt, BusyP!RecordAttempt, Busy!AttemptProvider, BusyP!AttemptProvider
<1>8. Busy!ReviewMerge => BusyP!ReviewMerge
  BY Zenon DEF Busy!ReviewMerge, BusyP!ReviewMerge, Busy!Opened, BusyP!Opened
<1>9. Busy!Crash => BusyP!Crash
  BY Zenon DEF Busy!Crash, BusyP!Crash
<1> QED BY <1>1, <1>2, <1>3, <1>4, <1>5, <1>6, <1>7, <1>8, <1>9, Zenon DEF Busy!Next, BusyP!Next

LEMMA QuietIsTold ==
    /\ QuietP!TypeOK => Quiet!TypeOK
    /\ QuietP!RestoredStatesAreClosed => Quiet!RestoredStatesAreClosed
    /\ QuietP!BlockedHasACause => Quiet!BlockedHasACause
    /\ QuietP!QueueIsReviewable => Quiet!QueueIsReviewable
    /\ QuietP!LastAttemptMatchesState => Quiet!LastAttemptMatchesState
    /\ QuietP!JournalIsSequential => Quiet!JournalIsSequential
<1> USE DEF Quiet!NodesOf, QuietP!NodesOf, Quiet!AllNodes, QuietP!AllNodes, Quiet!Graph, QuietP!Graph,
            Quiet!Settled, QuietP!Settled, Quiet!NoRuntime, QuietP!NoRuntime, Quiet!Verified, QuietP!Verified,
            Quiet!NodeState, QuietP!NodeState
<1>1. QuietP!TypeOK => Quiet!TypeOK
  BY Zenon DEF QuietP!TypeOK, Quiet!TypeOK, QuietP!DocumentOK, Quiet!DocumentOK, QuietP!Status, Quiet!Status
<1>2. QuietP!RestoredStatesAreClosed => Quiet!RestoredStatesAreClosed
  BY Zenon DEF QuietP!RestoredStatesAreClosed, Quiet!RestoredStatesAreClosed, QuietP!ClosedIn, Quiet!ClosedIn,
     QuietP!Restored, Quiet!Restored, QuietP!Supported, Quiet!Supported, QuietP!DeclaredInOrder,
     Quiet!DeclaredInOrder, QuietP!DeclaredBefore, Quiet!DeclaredBefore
<1>3. QuietP!BlockedHasACause => Quiet!BlockedHasACause
  BY Zenon DEF QuietP!BlockedHasACause, Quiet!BlockedHasACause
<1>4. QuietP!QueueIsReviewable => Quiet!QueueIsReviewable
  BY Zenon DEF QuietP!QueueIsReviewable, Quiet!QueueIsReviewable
<1>5. QuietP!LastAttemptMatchesState => Quiet!LastAttemptMatchesState
  BY Zenon DEF QuietP!LastAttemptMatchesState, Quiet!LastAttemptMatchesState
<1>6. QuietP!JournalIsSequential => Quiet!JournalIsSequential
  BY Zenon DEF QuietP!JournalIsSequential, Quiet!JournalIsSequential
<1> QED BY <1>1, <1>2, <1>3, <1>4, <1>5, <1>6

LEMMA BusyIsTold ==
    /\ BusyP!ExecutedRevisionWasApproved => Busy!ExecutedRevisionWasApproved
    /\ BusyP!ApprovalBindsRevision => Busy!ApprovalBindsRevision
BY Zenon DEF BusyP!ExecutedRevisionWasApproved, Busy!ExecutedRevisionWasApproved,
   BusyP!ApprovalBindsRevision, Busy!ApprovalBindsRevision, BusyP!NotApproved, Busy!NotApproved

\* What each kind of writers keeps while it writes, and the sole client always.
SessionsInv ==
    /\ subject = "quiet" => QuietP!JournalInv /\ QuietP!StatesInv /\ QuietP!ClosedInv /\ QuietP!TypesInv
    /\ subject = "busy" => BusyP!ApprovalInv
    /\ subject = "race" => FollowsInv
    /\ BindingInv
    /\ SoleInv

SessionsVars == <<subject, runtimeVars, raceVars, soleVars>>
SessionsNext == InQuiet \/ InBusy \/ InRace \/ InSole

LEMMA WritersAssumptions ==
    /\ QuietP!GraphsAssumption /\ BusyP!GraphsAssumption
    /\ QuietP!CreatedWithGraph /\ QuietP!NoRevisionInRun /\ QuietP!BoundsAssumption /\ BusyP!CreatedWithGraph
<1>1. QuietP!CreatedWithGraph /\ BusyP!CreatedWithGraph
  BY CreationAssumption DEF QuietP!CreatedWithGraph, BusyP!CreatedWithGraph
<1>2. QuietP!NoRevisionInRun /\ QuietP!BoundsAssumption
  BY DEF QuietP!NoRevisionInRun, QuietP!BoundsAssumption
<1>3. QuietP!GraphsAssumption /\ BusyP!GraphsAssumption
  BY GraphsAssumption DEF NodesOf, QuietP!GraphsAssumption, QuietP!NodesOf, BusyP!GraphsAssumption, BusyP!NodesOf
<1> QED BY <1>1, <1>2, <1>3

LEMMA SessionsInvInit ==
    ASSUME SessionsInit
    PROVE SessionsInv
<1>1. Init /\ Sole!Init /\ QuietP!Init /\ BusyP!Init
  BY QuietRuntimes, BusyRuntimes DEF SessionsInit
<1>2. QuietP!JournalInv /\ QuietP!StatesInv /\ QuietP!ClosedInv /\ QuietP!TypesInv
  BY <1>1, WritersAssumptions, QuietP!JournalInvInit, QuietP!StatesInvInit, QuietP!ClosedInvInit, QuietP!TypesInvInit
<1>3. BusyP!ApprovalInv
  BY <1>1, WritersAssumptions, BusyP!ApprovalInvInit
<1>4. BindingInv
  BY <1>1, BindingInit
<1> QED BY <1>1, <1>2, <1>3, <1>4, FollowsInit, SoleInit DEF SessionsInv

LEMMA SessionsInvStep ==
    ASSUME IsFiniteSet(Threads), SessionsInv, [SessionsNext]_SessionsVars
    PROVE SessionsInv'
<1>1. subject' = subject
  BY DEF SessionsNext, SessionsVars, InQuiet, InBusy, InRace, InSole, AtFiles
<1>2. BindingInv'
  <2>1. Next \/ UNCHANGED raceVars
    BY DEF SessionsNext, SessionsVars, InQuiet, InBusy, InRace, InSole
  <2>2. CASE Next
    BY <2>2, BindingStep DEF SessionsInv
  <2>3. CASE UNCHANGED raceVars
    BY <2>3 DEF SessionsInv, BindingInv, FileBinds, raceVars
  <2> QED BY <2>1, <2>2, <2>3
<1>3. SoleInv'
  <2>1. Sole!Next \/ UNCHANGED soleVars
    BY DEF SessionsNext, SessionsVars, InQuiet, InBusy, InRace, InSole
  <2>2. CASE Sole!Next
    BY <2>2, SoleStep DEF SessionsInv
  <2>3. CASE UNCHANGED soleVars
    BY <2>3 DEF SessionsInv, SoleInv, Pending, soleVars
  <2> QED BY <2>1, <2>2, <2>3
<1>4. CASE subject = "quiet"
  <2>1. [QuietP!Next]_QuietP!vars
    BY <1>4, QuietRuntimes
       DEF SessionsNext, SessionsVars, InQuiet, InBusy, InRace, InSole, runtimeVars, QuietP!vars
  <2>2. QuietP!JournalInv' /\ QuietP!StatesInv' /\ QuietP!ClosedInv' /\ QuietP!TypesInv'
    BY <1>4, <2>1, WritersAssumptions, QuietP!JournalInvStep, QuietP!StatesInvStep, QuietP!ClosedInvStep,
       QuietP!TypesInvStep DEF SessionsInv
  <2> QED BY <1>1, <1>2, <1>3, <1>4, <2>2 DEF SessionsInv
<1>5. CASE subject = "busy"
  <2>1. [BusyP!Next]_BusyP!vars
    BY <1>5, BusyRuntimes
       DEF SessionsNext, SessionsVars, InQuiet, InBusy, InRace, InSole, runtimeVars, BusyP!vars
  <2>2. BusyP!ApprovalInv'
    BY <1>5, <2>1, WritersAssumptions, BusyP!ApprovalInvStep DEF SessionsInv
  <2> QED BY <1>1, <1>2, <1>3, <1>5, <2>2 DEF SessionsInv
<1>6. CASE subject = "race"
  <2>1. [Next]_vars
    BY <1>6 DEF SessionsNext, SessionsVars, InQuiet, InBusy, InRace, InSole, runtimeVars, raceVars, vars
  <2>2. FollowsInv'
    BY <1>6, <2>1, FollowsStep DEF SessionsInv
  <2> QED BY <1>1, <1>2, <1>3, <1>6, <2>2 DEF SessionsInv
<1>7. CASE subject \notin {"quiet", "busy", "race"}
  BY <1>1, <1>2, <1>3, <1>7 DEF SessionsInv
<1> QED BY <1>4, <1>5, <1>6, <1>7

\* Whoever writes, whatever dies: a runtime is constructed from a document that an
\* execution in dependency order could have written, the journal is numbered without
\* gaps and follows the document, and what a sole client was told stays done
\* (orchestration_runtime.py:63, orchestration_store.py:42, event_journal.py:75).
THEOREM SessionsStayCoherent ==
    ASSUME IsFiniteSet(Threads)
    PROVE SessionsSpec => []SessionsAreCoherent
<1>1. SessionsInv => SessionsAreCoherent
  <2> SUFFICES ASSUME SessionsInv
               PROVE SessionsAreCoherent
    OBVIOUS
  <2>1. CASE subject = "quiet"
    <3>1. /\ QuietP!TypeOK /\ QuietP!RestoredStatesAreClosed /\ QuietP!BlockedHasACause
          /\ QuietP!QueueIsReviewable /\ QuietP!LastAttemptMatchesState /\ QuietP!JournalIsSequential
      BY <2>1, WritersAssumptions, QuietP!TypesAreRight, QuietP!ClosedIsRestored, QuietP!StatesAreTold, QuietP!LinesAreRight
         DEF SessionsInv
    <3> QED BY <2>1, <3>1, QuietIsTold DEF SessionsAreCoherent
  <2>2. subject = "race" => JournalFollowsDocument
    BY FollowsIsSafe DEF SessionsInv
  <2>3. Sole!AcknowledgedBreakpointsPersist
    BY DEF SessionsInv, SoleInv, Sole!AcknowledgedBreakpointsPersist
  <2> QED BY <2>1, <2>2, <2>3 DEF SessionsAreCoherent
<1>2. SessionsInv /\ [SessionsNext]_SessionsVars => SessionsInv'
  BY SessionsInvStep
<1> QED BY SessionsInvInit, <1>1, <1>2, PTL DEF SessionsSpec, SessionsNext, SessionsVars

\* A runtime only executes what was approved, however clients interfere with a run
\* (orchestration_runtime.py:57, ARCHITECTURE.md:17).
THEOREM ApprovedBeforeExecuted ==
    ASSUME IsFiniteSet(Threads)
    PROVE SessionsSpec => []ApprovedIsExecuted
<1>1. SessionsInv => ApprovedIsExecuted
  <2> SUFFICES ASSUME SessionsInv, subject = "busy"
               PROVE Busy!ExecutedRevisionWasApproved /\ Busy!ApprovalBindsRevision
    BY DEF ApprovedIsExecuted
  <2>1. BusyP!ExecutedRevisionWasApproved /\ BusyP!ApprovalBindsRevision
    BY WritersAssumptions, BusyP!ApprovalIsSafe DEF SessionsInv
  <2> QED BY <2>1, BusyIsTold
<1>2. SessionsInv /\ [SessionsNext]_SessionsVars => SessionsInv'
  BY SessionsInvStep
<1> QED BY SessionsInvInit, <1>1, <1>2, PTL DEF SessionsSpec, SessionsNext, SessionsVars
=============================================================================
