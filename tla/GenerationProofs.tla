-------------------------- MODULE GenerationProofs --------------------------
(***************************************************************************)
(* The safety of code generation: of a session of the generation controller,  *)
(* for any number of repairs, any faults and setups and any number of crashes; *)
(* of a specification, for any plans; and of the history, for any recorders.   *)
(***************************************************************************)
EXTENDS MCGenerator, SequenceTheorems, FiniteSetTheorems, WellFoundedInduction, TLAPS

Draft == [id : Nat, verdict : (Faults \cup {"backend"}) \X {1, 2}, near : BOOLEAN]
Workers == {Small, Architect, Transform, Patch}
Suppliers == Workers \cup {"draft_supplier"}
DraftSources == Suppliers \cup {"backend_failure"}
Record ==
    [index : Nat, draft : Draft, source : DraftSources, worker : Workers \cup {""},
     changed : BOOLEAN, stagnant : BOOLEAN, consulted : BOOLEAN, escalated : BOOLEAN]
Local ==
    [draft : Draft, source : Suppliers, index : Nat, retried : BOOLEAN, force : BOOLEAN, peers : Nat]
Reasons ==
    {"", "validated", "manual_review", "max_retries_exhausted", "stagnant_repair", "repair_supplier_error",
     "repair_strategy_patch_failed", "architect_stagnant_after_escalation", "repair_strategy_manual_review",
     "small_worker_initial_backend_failure", "architect_after_backend_failure_failed"}
Saved ==
    [phase : {"attempt_recorded", "ready_to_validate", "terminal"}, attempts : Seq(Record), draft : Draft,
     source : Suppliers, index : Nat, retried : BOOLEAN, outcome : Reasons]

TypeOK ==
    /\ setup \in Setups
    /\ pc \in {"start", "validate", "decide", "repair", "finish", "done", "crashed"}
    /\ attempts \in Seq(Record)
    /\ run \in Local
    /\ outcome \in Reasons
    /\ saved \in Saved \cup {None}

\* An attempt by the architect whose static faults somebody is to repair.
Again(a) == a.source = Architect /\ Fault(a.draft) \in Static /\ a.worker # ""
IsAt(a, i) == a.index = i - 1
\* After such an attempt only the architect may come next.
HandsOver(a) == a.source \in Constrained \/ (a.source = "backend_failure" /\ a.index = 0)
IsArchitects(a) == a.source = Architect
\* An attempt that failed and that somebody repairs.
GoesOn(a) == a.worker # "" /\ ~IsComplete(a.draft)

Repaired(as) == {i \in 1..Len(as) : Again(as[i])}

\* The attempts of a session, recorded at any time.
Chain(as, again) ==
    /\ \A i \in 1..Len(as) : IsAt(as[i], i)
    /\ Len(as) <= MaxRetries + 2
    /\ Len(as) = MaxRetries + 2 => HandsOver(as[MaxRetries + 1])
    /\ \A i \in 1..Len(as)-1 :
          /\ HandsOver(as[i]) => IsArchitects(as[i+1])
          /\ GoesOn(as[i])
    /\ \A i, j \in Repaired(as) : i = j
    /\ Repaired(as) # {} => again

\* A draft of this source may come next.
MayFollow(as, source) ==
    /\ Len(as) <= MaxRetries + 1
    /\ Len(as) = MaxRetries + 1 => HandsOver(as[MaxRetries + 1])
    /\ Len(as) > 0 =>
          /\ HandsOver(as[Len(as)]) => source = Architect
          /\ GoesOn(as[Len(as)])

\* The recorded worker, if there is one, may come next.
MayGoOn(as) == as[Len(as)].worker # "" => MayFollow(as, as[Len(as)].worker)

\* The architect has one second chance, and it has been taken.
Spent(as, retried) == Repaired(as) # {} => retried

\* The last attempt is the one that run() is working on.
Current(as, r) == Len(as) > 0 /\ r.index = Len(as) - 1 /\ as[Len(as)].draft = r.draft

Decided(as, why) == Len(as) > 0 /\ (why = "validated" <=> IsComplete(as[Len(as)].draft))

\* What holds while run() is at p.
RunHolds(p, as, r, why, again) ==
    /\ Chain(as, again)
    /\ p \in {"start", "crashed"} => as = <<>>
    /\ p = "validate" => r.index = Len(as) /\ MayFollow(as, r.source)
    /\ p \in {"validate", "decide", "repair"} => Spent(as, r.retried)
    /\ p \in {"decide", "repair"} => Current(as, r) /\ MayGoOn(as)
    /\ p \in {"finish", "done"} => Decided(as, why)

RunInv == RunHolds(pc, attempts, run, outcome, setup.again)

\* What a checkpoint holds can be gone on with.
CheckpointHolds(c, again) ==
    /\ Chain(c.attempts, again) /\ Len(c.attempts) > 0
    /\ c.phase \in {"attempt_recorded", "ready_to_validate"} =>
          Spent(c.attempts, c.retried) /\ c.index = Len(c.attempts)
    /\ c.phase = "attempt_recorded" => MayGoOn(c.attempts)
    /\ c.phase = "ready_to_validate" => MayFollow(c.attempts, c.source)
    /\ c.phase = "terminal" => Decided(c.attempts, c.outcome)

CheckpointInv == saved # None => CheckpointHolds(saved, setup.again)

SessionInv == RunInv /\ CheckpointInv

-----------------------------------------------------------------------------
(* Lemmas about sequences of attempts *)

\* This attempt, of a draft of this source, may be the next.
Fits(a, source, as, again) ==
    /\ \A n \in Nat : n = Len(as) => IsAt(a, n + 1)
    /\ MayFollow(as, source) /\ (source = Architect => IsArchitects(a))
    /\ Again(a) => Repaired(as) = {} /\ again

\* One more attempt.
Extended(as, bs, a) ==
    /\ Len(as) \in Nat /\ Len(bs) = Len(as) + 1
    /\ bs[Len(as) + 1] = a /\ \A i \in 1..Len(as) : bs[i] = as[i]

LEMMA Appended ==
    ASSUME NEW S, NEW as \in Seq(S), NEW a \in S
    PROVE Extended(as, Append(as, a), a)
<1>1. Len(as) \in Nat
  BY LenProperties
<1>2. Len(Append(as, a)) = Len(as) + 1 /\ Append(as, a)[Len(as) + 1] = a
  BY AppendProperties
<1>3. \A i \in 1..Len(as) : Append(as, a)[i] = as[i]
  BY AppendProperties
<1> QED BY <1>1, <1>2, <1>3 DEF Extended

LEMMA OneMore ==
    ASSUME NEW a PROVE Extended(<<>>, <<a>>, a)
<1>1. <<a>> = Append(<<>>, a) /\ <<>> \in Seq({a})
  OBVIOUS
<1> QED BY <1>1, Appended

LEMMA ChainExtends ==
    ASSUME MaxRetries \in Nat, NEW as, NEW bs, NEW a, NEW again \in BOOLEAN, NEW source,
           Chain(as, again), Fits(a, source, as, again), Extended(as, bs, a)
    PROVE Chain(bs, again) /\ (~Again(a) => Repaired(bs) = Repaired(as))
<1>1. PICK n \in Nat : n = Len(as)
  BY DEF Extended
<1>2. Len(bs) = n + 1 /\ bs[n+1] = a /\ \A i \in 1..n : bs[i] = as[i]
  BY <1>1 DEF Extended
<1>3. \A i \in 1..n+1 : i \in 1..n \/ i = n + 1
  OBVIOUS
<1>4. n + 1 \in 1..n+1 /\ n + 1 \notin 1..n /\ \A i \in 1..n : i \in 1..n+1
  OBVIOUS
<1>5. Repaired(bs) = {i \in 1..n+1 : Again(bs[i])} /\ Repaired(as) = {i \in 1..n : Again(as[i])}
  BY <1>1, <1>2 DEF Repaired
<1>6. ~Again(a) => Repaired(bs) = Repaired(as)
  BY <1>2, <1>3, <1>4, <1>5
<1>7. Again(a) => Repaired(bs) = {n + 1}
  <2>1. Again(a) => Repaired(as) = {}
    BY DEF Fits
  <2> QED BY <1>2, <1>3, <1>4, <1>5, <2>1
<1>8. (\A i, j \in Repaired(bs) : i = j) /\ (Repaired(bs) # {} => again)
  BY <1>6, <1>7 DEF Chain, Fits
<1>9. \A i \in 1..n+1 : IsAt(bs[i], i)
  BY <1>1, <1>2, <1>3 DEF Chain, Fits
<1>10. n + 1 <= MaxRetries + 2 /\ (n + 1 = MaxRetries + 2 => HandsOver(bs[MaxRetries + 1]))
  <2>1. n <= MaxRetries + 1 /\ (n = MaxRetries + 1 => HandsOver(as[n]))
    BY <1>1 DEF MayFollow, Fits
  <2>2. CASE n = MaxRetries + 1
    <3>1. n \in 1..n
      BY <2>2
    <3>2. bs[n] = as[n]
      BY <1>2, <3>1
    <3>3. HandsOver(bs[MaxRetries + 1])
      BY <2>1, <2>2, <3>2
    <3> QED BY <2>2, <3>3
  <2>3. CASE n # MaxRetries + 1
    BY <2>1, <2>3
  <2> QED BY <2>2, <2>3
<1>11. ASSUME NEW i \in 1..n
       PROVE (HandsOver(bs[i]) => IsArchitects(bs[i+1])) /\ GoesOn(bs[i])
  <2>1. CASE i = n
    <3>1. n > 0 /\ n \in 1..n
      BY <2>1
    <3>2. bs[n] = as[n] /\ bs[n+1] = a
      BY <1>2, <3>1
    <3>3. n > 0 => (HandsOver(as[n]) => source = Architect) /\ GoesOn(as[n])
      BY <1>1 DEF MayFollow, Fits
    <3>4. source = Architect => IsArchitects(a)
      BY DEF Fits
    <3> QED BY <2>1, <3>1, <3>2, <3>3, <3>4
  <2>2. CASE i # n
    <3>1. i \in 1..n-1 /\ i + 1 \in 1..n
      BY <2>2
    <3>2. bs[i] = as[i] /\ bs[i+1] = as[i+1]
      BY <1>2, <3>1
    <3>3. (HandsOver(as[i]) => IsArchitects(as[i+1])) /\ GoesOn(as[i])
      BY <1>1, <3>1 DEF Chain
    <3> QED BY <3>2, <3>3
  <2> QED BY <2>1, <2>2
<1>12. n + 1 - 1 = n
  OBVIOUS
<1>13. \A i \in 1..Len(bs)-1 : (HandsOver(bs[i]) => IsArchitects(bs[i+1])) /\ GoesOn(bs[i])
  BY <1>2, <1>11, <1>12
<1> QED
  BY <1>2, <1>6, <1>8, <1>9, <1>10, <1>13 DEF Chain
-----------------------------------------------------------------------------
(* Types *)

LEMMA DraftTypes ==
    ASSUME NEW d \in Draft, NEW i \in Nat
    PROVE /\ Made(i) \subseteq Draft /\ Unchanged(d) \in Draft /\ NoDraft \in Draft
          /\ Transformed(d, i) \subseteq Draft /\ Patched(d, i) \subseteq Draft
<1>1. Verdicts \subseteq (Faults \cup {"backend"}) \X {1, 2}
  BY DEF Verdicts
<1>2. Made(i) \subseteq Draft
  BY <1>1 DEF Made, Draft
<1>3. Unchanged(d) \in Draft
  BY DEF Unchanged, Draft
<1>4. NoDraft \in Draft
  BY DEF NoDraft, Draft
<1> QED BY <1>2, <1>3, <1>4 DEF Transformed, Patched

LEMMA OneRecord ==
    ASSUME NEW S, NEW e \in S PROVE <<e>> \in Seq(S)
OBVIOUS

LEMMA LocalsType ==
    ASSUME NEW d \in Draft, NEW source \in Suppliers, NEW i \in Nat
    PROVE Locals(d, source, i) \in Local
BY DEF Locals, Local

LEMMA CheckpointType ==
    ASSUME NEW phase \in {"attempt_recorded", "ready_to_validate", "terminal"}, NEW as \in Seq(Record),
           NEW r \in Local, NEW why \in Reasons
    PROVE Checkpoint(phase, as, r, why) \in Saved
BY DEF Checkpoint, Local, Saved

LEMMA NextRunType ==
    ASSUME NEW r \in Local, NEW d \in Draft, NEW source \in Suppliers, NEW more
    PROVE [r EXCEPT !.draft = d, !.source = source, !.index = @ + 1, !.peers = IF more THEN @ + 1 ELSE @] \in Local
<1>1. PICK q \in Nat : q = IF more THEN r.peers + 1 ELSE r.peers
  BY DEF Local
<1>2. PICK i \in Nat : i = r.index + 1
  BY DEF Local
<1>3. [r EXCEPT !.draft = d, !.source = source, !.index = i, !.peers = q] \in Local
  BY DEF Local
<1> QED BY <1>1, <1>2, <1>3

LEMMA NextIndexType ==
    ASSUME NEW r \in Local
    PROVE [r EXCEPT !.index = @ + 1] \in Local
<1>1. PICK i \in Nat : i = r.index + 1
  BY DEF Local
<1>2. [r EXCEPT !.index = i] \in Local
  BY DEF Local
<1> QED BY <1>1, <1>2

LEMMA ValidatedType ==
    ASSUME NEW r \in Local, NEW force \in BOOLEAN, NEW retried \in BOOLEAN, NEW more
    PROVE [r EXCEPT !.force = force, !.retried = retried, !.peers = IF more THEN @ + 1 ELSE @] \in Local
<1>1. PICK q \in Nat : q = IF more THEN r.peers + 1 ELSE r.peers
  BY DEF Local
<1>2. [r EXCEPT !.force = force, !.retried = retried, !.peers = q] \in Local
  BY DEF Local
<1> QED BY <1>1, <1>2

LEMMA RepairWorkerType ==
    ASSUME NEW d PROVE RepairWorker(d) \in Workers
BY DEF RepairWorker, DecideRepeatedFailure, Workers

LEMMA AttemptType ==
    ASSUME run \in Local, NEW worker \in Workers \cup {""}, NEW memo \in BOOLEAN
    PROVE Attempt(run.draft, worker, memo) \in Record
<1>1. (attempts = <<>> \/ ~IsStagnant(Last(attempts).draft, run.draft)) \in BOOLEAN
  OBVIOUS
<1>2. DiagnosticStagnant(run.draft) \in BOOLEAN
  BY DEF DiagnosticStagnant
<1>3. run.index \in Nat /\ run.draft \in Draft /\ run.source \in Suppliers
  BY DEF Local
<1> QED BY <1>1, <1>2, <1>3 DEF Attempt, Record, DraftSources

LEMMA MarkType ==
    ASSUME attempts \in Seq(Record), Len(attempts) > 0, NEW consulted \in BOOLEAN, NEW escalated \in BOOLEAN
    PROVE /\ Mark(consulted, escalated) \in Seq(Record)
          /\ Len(Mark(consulted, escalated)) = Len(attempts)
          /\ \A i \in 1..Len(attempts) :
                /\ Mark(consulted, escalated)[i].index = attempts[i].index
                /\ Mark(consulted, escalated)[i].source = attempts[i].source
                /\ Mark(consulted, escalated)[i].worker = attempts[i].worker
                /\ Mark(consulted, escalated)[i].draft = attempts[i].draft
<1> DEFINE n == Len(attempts)
           a == [attempts[n] EXCEPT !.consulted = @ \/ consulted, !.escalated = escalated]
           bs == [attempts EXCEPT ![n] = a]
<1>1. n \in 1..n
  BY LenProperties
<1>2. attempts[n] \in Record
  BY <1>1, ElementOfSeq
<1>3. (attempts[n].consulted \/ consulted) \in BOOLEAN
  OBVIOUS
<1>4. /\ a \in Record
      /\ a.index = attempts[n].index /\ a.source = attempts[n].source
      /\ a.worker = attempts[n].worker /\ a.draft = attempts[n].draft
  BY <1>2, <1>3 DEF Record
<1>5. Mark(consulted, escalated) = bs
  BY <1>1, LenProperties DEF Mark
<1> HIDE DEF a
<1>6. bs \in Seq(Record) /\ Len(bs) = n /\ \A i \in 1..n : bs[i] = IF i = n THEN a ELSE attempts[i]
  BY <1>1, <1>4, ExceptSeq
<1> QED BY <1>4, <1>5, <1>6

LEMMA IsIndex ==
    ASSUME NEW n \in Nat, n > 0 PROVE n \in 1..n
OBVIOUS

LEMMA LastRecord ==
    ASSUME NEW as \in Seq(Record), Len(as) > 0
    PROVE Last(as) \in Record /\ Last(as) = as[Len(as)]
<1>1. Len(as) \in Nat
  BY LenProperties
<1>2. Len(as) \in 1..Len(as)
  BY <1>1, IsIndex
<1>3. as[Len(as)] \in Record
  BY <1>2, ElementOfSeq
<1> QED BY <1>3 DEF Last

LEMMA InitTypes ==
    ASSUME Init PROVE TypeOK
<1>1. Locals(NoDraft, Small, 0) \in Local
  <2>1. NoDraft \in Draft
    BY DEF NoDraft, Draft
  <2> QED BY <2>1, LocalsType DEF Suppliers, Workers
<1>2. <<>> \in Seq(Record)
  BY EmptySeq
<1> QED BY <1>1, <1>2 DEF Init, TypeOK, Reasons

LEMMA StepTypes ==
    ASSUME SetupsAssumption, TypeOK, SessionInv, Next
    PROVE TypeOK'
<1> USE DEF TypeOK
<1>1. run.index \in Nat /\ run.draft \in Draft /\ run.source \in Suppliers /\ run.peers \in Nat
  BY DEF Local
<1>2. ASSUME Start PROVE TypeOK'
  <2>1. Made(1) \subseteq Draft /\ NoDraft \in Draft
    BY DraftTypes, <1>1
  <2>2. CASE FirstDraft
    <3>1. run' \in Local
      BY <2>1, <2>2, LocalsType DEF FirstDraft, DraftSources, Suppliers
    <3> QED BY <1>2, <2>2, <3>1 DEF Start, FirstDraft
  <2>3. CASE BackendFails
    <3>1. \A w \in Workers \cup {""} : BackendFailure(w) \in Record
      BY <2>1 DEF BackendFailure, Record, DraftSources, Suppliers
    <3>2. attempts' \in Seq(Record)
      <4>1. PICK w \in Workers \cup {""} : attempts' = <<BackendFailure(w)>>
        BY <2>3 DEF BackendFails, Workers
      <4>2. BackendFailure(w) \in Record
        BY <3>1
      <4> QED BY <4>1, <4>2, OneRecord
    <3>3. run' \in Local
      BY <2>1, <2>3, LocalsType DEF BackendFails, DraftSources, Suppliers, Workers
    <3>4. pc' \in {"validate", "done"}
      BY <2>3 DEF BackendFails
    <3>5. outcome' \in Reasons
      BY <2>3 DEF BackendFails, Reasons
    <3> QED BY <1>2, <3>2, <3>3, <3>4, <3>5 DEF Start
  <2> QED BY <1>2, <2>2, <2>3 DEF Start
<1>3. ASSUME Validate PROVE TypeOK'
  <2>1. PICK worker \in Workers \cup {""}, memo \in BOOLEAN :
          attempts' = Append(attempts, Attempt(run.draft, worker, memo))
    BY <1>3, RepairWorkerType DEF Validate, MayConsult, PeerAnswers
  <2>2. attempts' \in Seq(Record)
    BY <2>1, AttemptType, AppendProperties
  <2>3. run' \in Local
    <3>1. PICK force, retried, more :
            /\ force \in BOOLEAN /\ retried \in BOOLEAN
            /\ run' = [run EXCEPT !.force = force, !.retried = retried, !.peers = IF more THEN @ + 1 ELSE @]
      BY <1>3 DEF Validate, ForceManualReview
    <3> QED BY <3>1, ValidatedType
  <2>4. saved' \in Saved
    <3>1. [run' EXCEPT !.index = @ + 1] \in Local
      BY <2>3, NextIndexType
    <3>2. Checkpoint("attempt_recorded", attempts', [run' EXCEPT !.index = @ + 1], outcome) \in Saved
      BY <2>2, <3>1, CheckpointType
    <3> QED BY <1>3, <3>2 DEF Validate
  <2> QED BY <1>3, <2>2, <2>3, <2>4 DEF Validate
<1>4. ASSUME Decide PROVE TypeOK'
  BY <1>4 DEF Decide, Stop, Reasons
<1>5. ASSUME NEW d \in Draft, NEW source \in Suppliers, NEW consulted \in BOOLEAN, Len(attempts) > 0,
             Accept(d, source, consulted), UNCHANGED setup
      PROVE TypeOK'
  <2>1. run' \in Local
    BY <1>5, NextRunType DEF Accept
  <2>2. (source = Architect /\ Last(attempts).worker # Architect) \in BOOLEAN
    OBVIOUS
  <2>3. attempts' \in Seq(Record)
    BY <1>5, <2>2, MarkType DEF Accept
  <2>4. saved' \in Saved
    BY <1>5, <2>1, <2>3, CheckpointType DEF Accept
  <2> QED BY <1>5, <2>1, <2>3, <2>4 DEF Accept
<1>6. ASSUME Repair PROVE Len(attempts) > 0 /\ pc = "repair" /\ UNCHANGED setup
  BY <1>6 DEF Repair, ApplyConstrained, ConstrainedFails, ModelRepairs, ModelRaises, RepairWithMemo, Escalate,
              Repairing, SessionInv, RunInv, RunHolds, Current
<1>7. ASSUME Len(attempts) > 0, UNCHANGED setup, NEW why \in Reasons, GiveUp(why) \/ GiveUpEscalated(why)
      PROVE TypeOK'
  <2>1. Mark(FALSE, TRUE) \in Seq(Record)
    BY <1>7, MarkType
  <2> QED BY <1>7, <2>1 DEF GiveUp, GiveUpEscalated, Stop
<1>8. \A i \in Nat : Made(i) \subseteq Draft /\ Transformed(run.draft, i) \subseteq Draft /\ Patched(run.draft, i) \subseteq Draft
  BY <1>1, DraftTypes
<1>9. Made(run.index + 2) \subseteq Draft /\ Returned(run.draft) \subseteq Draft
      /\ Transformed(run.draft, run.index + 2) \subseteq Draft /\ Patched(run.draft, run.index + 2) \subseteq Draft
  <2>1. run.index + 2 \in Nat
    BY <1>1
  <2> QED BY <1>1, <2>1, DraftTypes DEF Returned
<1>10. ASSUME ApplyConstrained PROVE TypeOK'
  <2>1. PICK d \in Draft : Accept(d, Last(attempts).worker, FALSE)
    BY <1>9, <1>10 DEF ApplyConstrained
  <2>2. Last(attempts).worker \in Suppliers
    BY <1>10 DEF ApplyConstrained, Repairing, DraftSources, Suppliers, Workers, Constrained
  <2> QED BY <1>5, <1>6, <1>10, <2>1, <2>2 DEF Repair
<1>11. ASSUME ConstrainedFails PROVE TypeOK'
  <2>1. \/ \E d \in Draft : Accept(d, Architect, FALSE)
        \/ GiveUp("repair_strategy_patch_failed") \/ GiveUpEscalated("repair_strategy_patch_failed")
    BY <1>9, <1>11 DEF ConstrainedFails
  <2> QED BY <1>5, <1>6, <1>7, <1>11, <2>1 DEF Repair, Reasons, DraftSources, Suppliers, Workers
<1>12. ASSUME ModelRepairs PROVE TypeOK'
  <2>1. PICK d \in Draft : Accept(d, Last(attempts).worker, FALSE)
    BY <1>9, <1>12 DEF ModelRepairs
  <2>2. Last(attempts).worker \in Suppliers
    BY <1>12 DEF ModelRepairs, Repairing, DraftSources, Suppliers, Workers
  <2> QED BY <1>5, <1>6, <1>12, <2>1, <2>2 DEF Repair
<1>13. ASSUME ModelRaises PROVE TypeOK'
  BY <1>6, <1>7, <1>13 DEF ModelRaises, Repair, Reasons
<1>14. ASSUME RepairWithMemo PROVE TypeOK'
  <2>1. (\E d \in Draft : Accept(d, Small, TRUE)) \/ GiveUp("repair_supplier_error")
    BY <1>9, <1>14 DEF RepairWithMemo
  <2> QED BY <1>5, <1>6, <1>7, <1>14, <2>1 DEF Repair, Reasons, DraftSources, Suppliers, Workers
<1>15. ASSUME Escalate PROVE TypeOK'
  <2>1. \/ \E d \in Draft : Accept(d, Architect, FALSE)
        \/ \E why \in Reasons : GiveUp(why) \/ GiveUpEscalated(why)
    BY <1>9, <1>15 DEF Escalate, Reasons
  <2> QED BY <1>5, <1>6, <1>7, <1>15, <2>1 DEF Repair, DraftSources, Suppliers, Workers
<1>16. ASSUME Finish PROVE TypeOK'
  BY <1>16, CheckpointType DEF Finish
<1>17. \A d \in Draft, source \in Suppliers, i \in Nat : Locals(d, source, i) \in Local
  BY LocalsType
<1>18. ASSUME Crash PROVE TypeOK'
  <2>1. Locals(NoDraft, Small, 0) \in Local
    BY <1>1, <1>17, DraftTypes DEF DraftSources, Suppliers, Workers
  <2>2. <<>> \in Seq(Record)
    BY EmptySeq
  <2> QED BY <1>18, <2>1, <2>2 DEF Crash, Reasons
<1>19. ASSUME Restart PROVE TypeOK'
  BY <1>19 DEF Restart
<1>20. ASSUME Restore PROVE saved \in Saved
  BY <1>20 DEF Restore
<1>21. ASSUME saved \in Saved, NEW d \in Draft, NEW source \in Suppliers
       PROVE Restored(d, source) \in Local
  <2>1. PICK retried \in BOOLEAN, i \in Nat : retried = saved.retried /\ i = saved.index
    BY <1>21 DEF Saved
  <2>2. Locals(d, source, i) \in Local
    BY <1>17
  <2>3. [Locals(d, source, i) EXCEPT !.retried = retried] \in Local
    BY <2>2 DEF Local
  <2> QED BY <2>1, <2>3 DEF Restored
<1>22. ASSUME ResumeReady PROVE TypeOK'
  BY <1>20, <1>21, <1>22 DEF ResumeReady, Restore, Saved
<1>23. ASSUME ResumeEnded PROVE TypeOK'
  BY <1>20, <1>23 DEF ResumeEnded, Restore, Saved, Reasons
<1>24. ASSUME ResumeRecorded PROVE TypeOK'
  <2>1. saved \in Saved /\ saved # None /\ saved.attempts \in Seq(Record) /\ saved.index + 1 \in Nat
    <3>1. saved \in Saved /\ saved # None
      BY <1>20, <1>24 DEF ResumeRecorded, Restore
    <3>2. saved.attempts \in Seq(Record) /\ saved.index \in Nat
      BY <3>1 DEF Saved
    <3> QED BY <3>1, <3>2
  <2>2. Len(saved.attempts) > 0
    BY <2>1 DEF SessionInv, CheckpointInv, CheckpointHolds
  <2>3. Last(saved.attempts) \in Record
    BY <2>1, <2>2, LastRecord
  <2>4. PICK a \in Record : a = Last(saved.attempts)
    BY <2>3
  <2>5. a.draft \in Draft /\ (a.worker # "" => a.worker \in Suppliers)
    BY <2>4 DEF Record, DraftSources, Suppliers
  <2>6. Transformed(a.draft, saved.index + 1) \subseteq Draft /\ Patched(a.draft, saved.index + 1) \subseteq Draft
    BY <2>1, <2>5, DraftTypes
  <2>7. run' \in Local
    <3>1. PICK d \in Draft : run' = Restored(d, a.worker) /\ a.worker # ""
      BY <1>24, <2>4, <2>6 DEF ResumeRecorded
    <3> QED BY <1>21, <2>1, <2>5, <3>1
  <2> QED BY <1>24, <2>1, <2>7 DEF ResumeRecorded, Restore
<1> QED
  BY <1>2, <1>3, <1>4, <1>10, <1>11, <1>12, <1>13, <1>14, <1>15, <1>16, <1>18, <1>19, <1>22, <1>23, <1>24
  DEF Next, Repair, Resume
-----------------------------------------------------------------------------
(* The invariant *)

\* The same attempts as far as the invariant goes.
Alike(as, bs) ==
    /\ Len(as) \in Nat /\ Len(bs) = Len(as)
    /\ \A i \in 1..Len(as) :
          /\ bs[i].index = as[i].index /\ bs[i].source = as[i].source
          /\ bs[i].worker = as[i].worker /\ bs[i].draft = as[i].draft

LEMMA AlikeKeeps ==
    ASSUME MaxRetries \in Nat, NEW as, NEW bs, Alike(as, bs), NEW again \in BOOLEAN, Chain(as, again)
    PROVE /\ Chain(bs, again) /\ Repaired(bs) = Repaired(as)
          /\ \A source : MayFollow(as, source) => MayFollow(bs, source)
          /\ \A why : Decided(as, why) => Decided(bs, why)
<1>1. PICK n \in Nat : n = Len(as) /\ n = Len(bs)
  BY DEF Alike
<1>2. ASSUME NEW i \in 1..n
      PROVE /\ \A k : IsAt(bs[i], k) <=> IsAt(as[i], k)
            /\ HandsOver(bs[i]) <=> HandsOver(as[i])
            /\ IsArchitects(bs[i]) <=> IsArchitects(as[i])
            /\ GoesOn(bs[i]) <=> GoesOn(as[i])
            /\ Again(bs[i]) <=> Again(as[i])
            /\ IsComplete(bs[i].draft) <=> IsComplete(as[i].draft)
  <2>1. /\ bs[i].index = as[i].index /\ bs[i].source = as[i].source
        /\ bs[i].worker = as[i].worker /\ bs[i].draft = as[i].draft
    BY <1>1 DEF Alike
  <2> QED BY <2>1 DEF IsAt, HandsOver, IsArchitects, GoesOn, Again
<1>3. Repaired(bs) = Repaired(as)
  <2>1. Repaired(bs) = {i \in 1..n : Again(bs[i])} /\ Repaired(as) = {i \in 1..n : Again(as[i])}
    BY <1>1 DEF Repaired
  <2> QED BY <1>2, <2>1
<1>4. \A i \in 1..n-1 : i \in 1..n /\ i + 1 \in 1..n
  OBVIOUS
<1>5. n = MaxRetries + 2 => MaxRetries + 1 \in 1..n
  OBVIOUS
<1>6. n = MaxRetries + 1 => MaxRetries + 1 \in 1..n
  OBVIOUS
<1>7. n > 0 => n \in 1..n
  OBVIOUS
<1>8. Chain(bs, again)
  <2>1. \A i \in 1..n : IsAt(bs[i], i)
    BY <1>1, <1>2 DEF Chain
  <2>2. n <= MaxRetries + 2 /\ (n = MaxRetries + 2 => HandsOver(bs[MaxRetries + 1]))
    BY <1>1, <1>2, <1>5 DEF Chain
  <2>3. \A i \in 1..n-1 : (HandsOver(bs[i]) => IsArchitects(bs[i+1])) /\ GoesOn(bs[i])
    <3>1. ASSUME NEW i \in 1..n-1 PROVE (HandsOver(as[i]) => IsArchitects(as[i+1])) /\ GoesOn(as[i])
      BY <1>1 DEF Chain
    <3> QED BY <1>2, <1>4, <3>1
  <2>4. (\A i, j \in Repaired(bs) : i = j) /\ (Repaired(bs) # {} => again)
    BY <1>3 DEF Chain
  <2> QED BY <1>1, <2>1, <2>2, <2>3, <2>4 DEF Chain
<1>9. ASSUME NEW source, MayFollow(as, source) PROVE MayFollow(bs, source)
  BY <1>1, <1>2, <1>6, <1>7, <1>9 DEF MayFollow
<1>10. ASSUME NEW why, Decided(as, why) PROVE Decided(bs, why)
  BY <1>1, <1>2, <1>7, <1>10 DEF Decided
<1> QED BY <1>3, <1>8, <1>9, <1>10

LEMMA EmptyChain ==
    ASSUME MaxRetries \in Nat, NEW again
    PROVE /\ Chain(<<>>, again) /\ Repaired(<<>>) = {}
          /\ \A source : MayFollow(<<>>, source)
<1>1. Len(<<>>) = 0
  OBVIOUS
<1>2. Repaired(<<>>) = {}
  BY <1>1 DEF Repaired
<1>3. Chain(<<>>, again)
  BY <1>1, <1>2 DEF Chain
<1> QED BY <1>1, <1>2, <1>3 DEF MayFollow

LEMMA InitHolds ==
    ASSUME MaxRetries \in Nat, Init PROVE SessionInv
<1>1. RunInv
  BY EmptyChain DEF Init, RunInv, RunHolds
<1> QED BY <1>1 DEF Init, SessionInv, CheckpointInv

LEMMA FailureIs ==
    ASSUME NEW worker
    PROVE LET a == BackendFailure(worker)
          IN /\ IsAt(a, 1) /\ ~Again(a) /\ HandsOver(a) /\ ~IsComplete(a.draft)
             /\ worker = Architect => GoesOn(a)
<1>1. BackendFailure(worker).draft = NoDraft /\ ~IsComplete(NoDraft)
  BY DEF BackendFailure, IsComplete, Fault, NoDraft
<1>2. IsAt(BackendFailure(worker), 1)
  BY DEF BackendFailure, IsAt
<1>3. ~Again(BackendFailure(worker))
  BY DEF BackendFailure, Again, Architect
<1>4. HandsOver(BackendFailure(worker))
  BY DEF BackendFailure, HandsOver
<1>5. worker = Architect => GoesOn(BackendFailure(worker))
  <2>1. BackendFailure(worker).worker = worker
    BY DEF BackendFailure
  <2> QED BY <1>1, <2>1 DEF GoesOn, Architect
<1> QED BY <1>1, <1>2, <1>3, <1>4, <1>5

\* A session that starts with such an attempt.
LEMMA FirstChain ==
    ASSUME MaxRetries \in Nat, NEW again \in BOOLEAN, NEW zero, NEW as, NEW a,
           Chain(zero, again), Repaired(zero) = {}, MayFollow(zero, "none"), Len(zero) = 0, Extended(zero, as, a),
           IsAt(a, 1), ~Again(a), HandsOver(a), ~IsComplete(a.draft)
    PROVE /\ Chain(as, again) /\ Repaired(as) = {} /\ Len(as) = 1
          /\ GoesOn(a) => MayFollow(as, Architect)
          /\ \A why : why # "validated" => Decided(as, why)
<1>1. PICK n \in Nat : n = Len(zero) /\ n = 0
  BY DEF Extended
<1>2. Len(as) = 1 /\ as[1] = a
  <2>1. Len(as) = n + 1 /\ as[n+1] = a
    BY <1>1 DEF Extended
  <2>2. n + 1 = 1
    BY <1>1
  <2> QED BY <2>1, <2>2
<1>3. Fits(a, "none", zero, again)
  BY <1>1 DEF Fits, Architect
<1>4. Chain(as, again) /\ Repaired(as) = {}
  BY <1>3, ChainExtends
<1>5. PICK m \in Nat : m = Len(as) /\ m = 1
  BY <1>2
<1>6. GoesOn(a) => MayFollow(as, Architect)
  <2>1. m <= MaxRetries + 1
    BY <1>5
  <2>2. as[m] = a /\ HandsOver(as[m])
    BY <1>2, <1>5
  <2> QED BY <1>5, <2>1, <2>2 DEF MayFollow
<1>7. \A why : why # "validated" => Decided(as, why)
  BY <1>2, <1>5 DEF Decided
<1> QED BY <1>2, <1>4, <1>6, <1>7

LEMMA FailureChain ==
    ASSUME MaxRetries \in Nat, NEW again \in BOOLEAN, NEW worker
    PROVE LET as == <<BackendFailure(worker)>>
          IN /\ Chain(as, again) /\ Repaired(as) = {} /\ Len(as) = 1
             /\ worker = Architect => MayFollow(as, Architect)
             /\ \A why : why # "validated" => Decided(as, why)
<1>1. PICK a : a = BackendFailure(worker)
  OBVIOUS
<1>2. IsAt(a, 1) /\ ~Again(a) /\ HandsOver(a) /\ ~IsComplete(a.draft) /\ (worker = Architect => GoesOn(a))
  BY <1>1, FailureIs
<1>3. Chain(<<>>, again) /\ Repaired(<<>>) = {} /\ MayFollow(<<>>, "none")
  BY EmptyChain
<1>4. Len(<<>>) = 0
  OBVIOUS
<1>5. PICK zero, as : zero = <<>> /\ as = <<a>>
  OBVIOUS
<1>6. Extended(zero, as, a)
  BY <1>5, OneMore
<1>7. Chain(zero, again) /\ Repaired(zero) = {} /\ MayFollow(zero, "none") /\ Len(zero) = 0
  BY <1>3, <1>4, <1>5
<1>8. /\ Chain(as, again) /\ Repaired(as) = {} /\ Len(as) = 1
      /\ GoesOn(a) => MayFollow(as, Architect)
      /\ \A why : why # "validated" => Decided(as, why)
  BY <1>2, <1>6, <1>7, FirstChain
<1> QED BY <1>1, <1>2, <1>5, <1>8

LEMMA StartHolds ==
    ASSUME SetupsAssumption, SessionInv, TypeOK, Start PROVE SessionInv'
<1>1. setup' = setup /\ setup.again \in BOOLEAN /\ MaxRetries \in Nat /\ CheckpointInv'
  BY DEF Start, SessionInv, CheckpointInv, TypeOK, SetupsAssumption
<1>2. attempts = <<>> /\ Len(<<>>) = 0
  BY DEF Start, SessionInv, RunInv, RunHolds
<1>3. CASE FirstDraft
  <2>1. pc' = "validate" /\ attempts' = <<>> /\ run'.index = 0
    BY <1>2, <1>3 DEF FirstDraft, Locals
  <2>2. RunHolds("validate", <<>>, run', outcome', setup.again)
    BY <1>2, <2>1, <1>1, EmptyChain DEF RunHolds, Spent
  <2> QED BY <1>1, <2>1, <2>2 DEF SessionInv, RunInv
<1>4. CASE BackendFails
  <2>1. PICK again \in BOOLEAN : again = setup.again
    BY <1>1
  <2>2. CASE pc' = "validate"
    <3>1. PICK as : as = <<BackendFailure(Architect)>>
      OBVIOUS
    <3>2. attempts' = as
      BY <1>4, <2>2, <3>1 DEF BackendFails
    <3>3. PICK d : run' = Locals(d, Architect, 1)
      BY <1>4, <2>2 DEF BackendFails
    <3>4. run'.index = 1 /\ run'.source = Architect
      BY <3>3 DEF Locals
    <3>5. Chain(as, again) /\ Repaired(as) = {} /\ Len(as) = 1 /\ MayFollow(as, Architect)
      BY <1>1, <3>1, FailureChain
    <3>6. RunHolds("validate", as, run', outcome', again)
      BY <3>4, <3>5 DEF RunHolds, Spent
    <3> QED BY <1>1, <2>1, <2>2, <3>2, <3>6 DEF SessionInv, RunInv
  <2>3. CASE pc' = "done"
    <3>1. PICK worker, as : as = <<BackendFailure(worker)>> /\ attempts' = as
      BY <1>4, <2>3 DEF BackendFails
    <3>2. outcome' # "validated"
      BY <1>4, <2>3 DEF BackendFails
    <3>3. Chain(as, again) /\ Decided(as, outcome')
      BY <1>1, <3>1, <3>2, FailureChain
    <3>4. RunHolds("done", as, run', outcome', again)
      BY <3>3 DEF RunHolds
    <3> QED BY <1>1, <2>1, <2>3, <3>1, <3>4 DEF SessionInv, RunInv
  <2> QED BY <1>4, <2>2, <2>3 DEF BackendFails
<1> QED BY <1>3, <1>4 DEF Start

\* What the checkpoints must have.
LEMMA RecordedHolds ==
    ASSUME NEW as, NEW r, NEW why, NEW again, Chain(as, again), Len(as) > 0, Spent(as, r.retried),
           r.index = Len(as), MayGoOn(as)
    PROVE CheckpointHolds(Checkpoint("attempt_recorded", as, r, why), again)
BY DEF Checkpoint, CheckpointHolds

LEMMA ReadyHolds ==
    ASSUME NEW as, NEW r, NEW why, NEW again, Chain(as, again), Len(as) > 0, Spent(as, r.retried),
           r.index = Len(as), MayFollow(as, r.source)
    PROVE CheckpointHolds(Checkpoint("ready_to_validate", as, r, why), again)
BY DEF Checkpoint, CheckpointHolds

LEMMA TerminalHolds ==
    ASSUME NEW as, NEW r, NEW why, NEW again, Chain(as, again), Decided(as, why)
    PROVE CheckpointHolds(Checkpoint("terminal", as, r, why), again)
BY DEF Checkpoint, CheckpointHolds, Decided

LEMMA ValidateHolds ==
    ASSUME SetupsAssumption, SessionInv, TypeOK, Validate PROVE SessionInv'
<1>1. setup' = setup /\ setup.again \in BOOLEAN /\ MaxRetries \in Nat
  BY DEF Validate, TypeOK, SetupsAssumption
<1>2. run \in Local /\ attempts \in Seq(Record) /\ Len(attempts) \in Nat
  BY LenProperties DEF TypeOK
<1>3. /\ Chain(attempts, setup.again) /\ MayFollow(attempts, run.source)
      /\ run.index = Len(attempts) /\ Spent(attempts, run.retried)
  BY DEF SessionInv, RunInv, RunHolds, Validate
<1>4. PICK n \in Nat, as \in Seq(Record), again \in BOOLEAN :
        n = Len(attempts) /\ n = run.index /\ as = attempts /\ again = setup.again
  BY <1>1, <1>2, <1>3
<1> DEFINE force == ForceManualReview(run.draft)
           worker == IF ~IsComplete(run.draft) /\ ~force /\ MayRouteRepair THEN RepairWorker(run.draft) ELSE ""
<1>5. PICK memo \in BOOLEAN : attempts' = Append(attempts, Attempt(run.draft, worker, memo))
  BY DEF Validate, MayConsult, PeerAnswers
<1>6. worker \in Workers \cup {""}
  BY RepairWorkerType DEF Workers
<1>7. worker # "" => ~IsComplete(run.draft) /\ ~force /\ MayRouteRepair /\ worker = RepairWorker(run.draft)
  OBVIOUS
<1> HIDE DEF worker
<1>8. PICK a, bs : a = Attempt(run.draft, worker, memo) /\ bs = Append(as, a) /\ bs = attempts'
  BY <1>4, <1>5
<1>9. Extended(as, bs, a)
  <2>1. a \in Record
    BY <1>2, <1>6, <1>8, AttemptType
  <2> QED BY <1>8, <2>1, Appended
<1>10. /\ IsAt(a, n + 1) /\ a.draft = run.draft /\ a.worker = worker
       /\ HandsOver(a) <=> run.source \in Constrained
       /\ IsArchitects(a) <=> run.source = Architect
       /\ GoesOn(a) <=> worker # "" /\ ~IsComplete(run.draft)
       /\ Again(a) <=> run.source = Architect /\ Fault(run.draft) \in Static /\ worker # ""
  <2>1. IsAt(a, n + 1)
    BY <1>4, <1>8 DEF Attempt, IsAt
  <2>2. a.draft = run.draft /\ a.worker = worker /\ a.source = run.source
    BY <1>8 DEF Attempt
  <2>3. run.source # "backend_failure"
    BY <1>2 DEF Local, Suppliers, Workers, Small, Architect, Transform, Patch
  <2> QED BY <2>1, <2>2, <2>3 DEF HandsOver, IsArchitects, GoesOn, Again
<1>11. PICK second :
        /\ second = (run.source = Architect /\ Fault(run.draft) \in Static /\ MayRepairArchitect(run.draft))
        /\ run'.retried = (run.retried \/ second)
        /\ run'.draft = run.draft /\ run'.index = run.index
  BY <1>2 DEF Validate, Local
<1>12. Again(a) => second /\ again /\ ~run.retried
  BY <1>4, <1>7, <1>10, <1>11 DEF ForceManualReview, MayRepairArchitect
<1>13. Fits(a, run.source, as, again)
  BY <1>3, <1>4, <1>10, <1>12 DEF Fits, Spent
<1>14. Chain(bs, again) /\ (~Again(a) => Repaired(bs) = Repaired(as))
  BY <1>1, <1>3, <1>4, <1>9, <1>13, ChainExtends
<1>15. Spent(bs, run'.retried)
  BY <1>3, <1>4, <1>11, <1>12, <1>14 DEF Spent
<1>16. Len(bs) = n + 1 /\ bs[n+1] = a
  BY <1>4, <1>9 DEF Extended
<1>17. PICK m \in Nat : m = Len(bs) /\ m = n + 1 /\ m > 0 /\ m - 1 = n
  BY <1>16
<1>18. Current(bs, run')
  BY <1>4, <1>10, <1>11, <1>16, <1>17 DEF Current
<1>19. worker # "" => MayFollow(bs, worker)
  <2>1. SUFFICES ASSUME worker # "" PROVE MayFollow(bs, worker)
    OBVIOUS
  <2>2. HandsOver(a) => worker = Architect
    <3>1. run.source \in Constrained => RepairWorker(run.draft) = Architect
      BY DEF RepairWorker
    <3> QED BY <1>7, <1>10, <2>1, <3>1
  <2>3. GoesOn(a)
    BY <1>7, <1>10, <2>1
  <2>4. n < MaxRetries \/ HandsOver(a)
    BY <1>4, <1>7, <1>10, <2>1 DEF MayRouteRepair
  <2>5. m <= MaxRetries + 1 /\ (m = MaxRetries + 1 => HandsOver(a))
    <3>1. CASE n < MaxRetries
      BY <1>1, <1>17, <3>1
    <3>2. CASE HandsOver(a)
      <4>1. run.source # Architect
        BY <1>10, <3>2 DEF Constrained, Architect, Transform, Patch
      <4>2. n <= MaxRetries + 1 /\ (n = MaxRetries + 1 => HandsOver(as[n]))
            /\ (n > 0 => (HandsOver(as[n]) => run.source = Architect))
        BY <1>3, <1>4 DEF MayFollow
      <4>3. n = MaxRetries + 1 => n > 0
        BY <1>1
      <4>4. n # MaxRetries + 1
        BY <4>1, <4>2, <4>3
      <4>5. n < MaxRetries + 1
        BY <1>1, <4>2, <4>4
      <4> QED BY <1>1, <1>17, <3>2, <4>5
    <3> QED BY <2>4, <3>1, <3>2
  <2> QED BY <1>16, <1>17, <2>2, <2>3, <2>5 DEF MayFollow
<1>20. MayGoOn(bs)
  BY <1>10, <1>16, <1>17, <1>19 DEF MayGoOn
<1>21. RunInv'
  <2>1. pc' = "decide"
    BY DEF Validate
  <2>2. RunHolds("decide", bs, run', outcome', again)
    BY <1>14, <1>15, <1>18, <1>20 DEF RunHolds
  <2> QED BY <1>1, <1>4, <1>8, <2>1, <2>2 DEF RunInv
<1>22. CheckpointInv'
  <2>1. run' \in Local
    BY StepTypes DEF TypeOK, Next, SetupsAssumption
  <2>2. PICK q \in Local : q = run'
    BY <2>1
  <2>3. PICK r : r = [run' EXCEPT !.index = @ + 1]
    OBVIOUS
  <2>4. q.index = n
    BY <1>4, <1>11, <2>2
  <2>5. [q EXCEPT !.index = m].index = m /\ [q EXCEPT !.index = m].retried = q.retried
    BY <2>2 DEF Local
  <2>6. r = [q EXCEPT !.index = m]
    BY <1>17, <2>2, <2>3, <2>4
  <2>7. r.retried = run'.retried /\ r.index = m
    BY <2>2, <2>5, <2>6
  <2>8. saved' = Checkpoint("attempt_recorded", bs, r, outcome)
    BY <1>8, <2>3 DEF Validate
  <2>9. CheckpointHolds(Checkpoint("attempt_recorded", bs, r, outcome), again)
    BY <1>14, <1>15, <1>17, <1>20, <2>7, RecordedHolds
  <2> QED BY <1>1, <1>4, <2>8, <2>9 DEF CheckpointInv
<1> QED BY <1>21, <1>22 DEF SessionInv

\* What is known while a repair is being chosen or made.
LEMMA Underway ==
    ASSUME SessionInv, TypeOK, pc \in {"decide", "repair"}
    PROVE /\ attempts \in Seq(Record) /\ Len(attempts) \in Nat /\ Len(attempts) > 0
          /\ Last(attempts) = attempts[Len(attempts)]
          /\ Chain(attempts, setup.again) /\ Spent(attempts, run.retried)
          /\ Current(attempts, run) /\ MayGoOn(attempts)
          /\ Last(attempts).worker # "" => MayFollow(attempts, Last(attempts).worker)
<1>1. attempts \in Seq(Record) /\ Len(attempts) \in Nat
  BY LenProperties DEF TypeOK
<1>2. Chain(attempts, setup.again) /\ Spent(attempts, run.retried) /\ Current(attempts, run) /\ MayGoOn(attempts)
  BY DEF SessionInv, RunInv, RunHolds
<1>3. Len(attempts) > 0
  BY <1>2 DEF Current
<1>4. Last(attempts) = attempts[Len(attempts)]
  BY <1>1, <1>3, LastRecord
<1> QED BY <1>1, <1>2, <1>3, <1>4 DEF MayGoOn

LEMMA DecideHolds ==
    ASSUME SetupsAssumption, SessionInv, TypeOK, Decide PROVE SessionInv'
<1>1. UNCHANGED <<setup, attempts, run, saved>> /\ pc = "decide"
  BY DEF Decide
<1>2. CheckpointInv'
  BY <1>1 DEF SessionInv, CheckpointInv
<1>3. CASE pc' = "repair"
  BY <1>1, <1>2, <1>3 DEF SessionInv, RunInv, RunHolds
<1>4. CASE \E why : Stop(why)
  <2>1. pc' = "finish" /\ (outcome' = "validated" <=> IsComplete(Last(attempts).draft))
    BY <1>4 DEF Decide, Stop
  <2>2. Decided(attempts, outcome')
    BY <1>1, <2>1, Underway DEF Decided
  <2> QED BY <1>1, <1>2, <2>1, <2>2 DEF SessionInv, RunInv, RunHolds
<1> QED BY <1>3, <1>4 DEF Decide

LEMMA MarkAlike ==
    ASSUME attempts \in Seq(Record), Len(attempts) \in Nat, Len(attempts) > 0,
           NEW consulted \in BOOLEAN, NEW escalated \in BOOLEAN
    PROVE Alike(attempts, Mark(consulted, escalated))
BY MarkType DEF Alike

\* A draft of this source is taken up.
LEMMA AcceptHolds ==
    ASSUME SetupsAssumption, SessionInv, TypeOK, pc = "repair", NEW d, NEW source, NEW consulted \in BOOLEAN,
           MayFollow(attempts, source), Accept(d, source, consulted), UNCHANGED setup
    PROVE SessionInv'
<1>1. MaxRetries \in Nat /\ setup.again \in BOOLEAN /\ run \in Local
  BY DEF TypeOK, SetupsAssumption
<1>2. /\ attempts \in Seq(Record) /\ Len(attempts) \in Nat /\ Len(attempts) > 0
      /\ Chain(attempts, setup.again) /\ Spent(attempts, run.retried) /\ Current(attempts, run)
  BY Underway
<1>3. PICK n, as, bs, again :
        n = Len(attempts) /\ as = attempts /\ bs = attempts' /\ again = setup.again
        /\ n \in Nat /\ again \in BOOLEAN
  BY <1>1, <1>2
<1>4. PICK escalated \in BOOLEAN : bs = Mark(consulted, escalated)
  BY <1>3 DEF Accept
<1>5. Alike(as, bs)
  BY <1>2, <1>3, <1>4, MarkAlike
<1>6. Chain(bs, again) /\ Repaired(bs) = Repaired(as) /\ MayFollow(bs, source) /\ Len(bs) = n
  <2>1. Len(bs) = n
    BY <1>3, <1>5 DEF Alike
  <2> QED BY <1>1, <1>2, <1>3, <1>5, <2>1, AlikeKeeps
<1>7. run'.retried = run.retried /\ run'.source = source /\ run'.index = n
  <2>1. PICK i \in Nat : i = run.index /\ i + 1 = n
    <3>1. run.index \in Nat
      BY <1>1 DEF Local
    <3>2. run.index = n - 1 /\ n > 0
      BY <1>2, <1>3 DEF Current
    <3> QED BY <1>3, <3>1, <3>2
  <2>2. PICK peers : run' = [run EXCEPT !.draft = d, !.source = source, !.index = n, !.peers = peers]
    BY <2>1 DEF Accept
  <2> QED BY <1>1, <2>2 DEF Local
<1>8. Spent(bs, run'.retried)
  BY <1>2, <1>3, <1>6, <1>7 DEF Spent
<1>9. RunInv'
  <2>1. pc' = "validate"
    BY DEF Accept
  <2>2. RunHolds("validate", bs, run', outcome', again)
    BY <1>6, <1>7, <1>8 DEF RunHolds
  <2> QED BY <1>3, <2>1, <2>2 DEF RunInv
<1>10. CheckpointInv'
  <2>1. PICK r : r = run'
    OBVIOUS
  <2>2. saved' = Checkpoint("ready_to_validate", bs, r, outcome)
    BY <1>3, <2>1 DEF Accept
  <2>3. CheckpointHolds(Checkpoint("ready_to_validate", bs, r, outcome), again)
    BY <1>2, <1>3, <1>6, <1>7, <1>8, <2>1, ReadyHolds
  <2> QED BY <1>3, <2>2, <2>3 DEF CheckpointInv
<1> QED BY <1>9, <1>10 DEF SessionInv

\* No draft is taken up.
LEMMA GiveUpHolds ==
    ASSUME SetupsAssumption, SessionInv, TypeOK, pc = "repair", Last(attempts).worker # "",
           NEW why, why # "validated", GiveUp(why) \/ GiveUpEscalated(why), UNCHANGED setup
    PROVE SessionInv'
<1>1. MaxRetries \in Nat /\ setup.again \in BOOLEAN
  BY DEF TypeOK, SetupsAssumption
<1>2. /\ attempts \in Seq(Record) /\ Len(attempts) \in Nat /\ Len(attempts) > 0
      /\ Chain(attempts, setup.again) /\ MayFollow(attempts, Last(attempts).worker)
  BY Underway
<1>3. Decided(attempts, why)
  BY <1>2 DEF MayFollow, GoesOn, Decided
<1>4. pc' = "finish" /\ outcome' = why /\ saved' = saved
  BY DEF GiveUp, GiveUpEscalated, Stop
<1>5. PICK as, bs, again : as = attempts /\ bs = attempts' /\ again = setup.again /\ again \in BOOLEAN
  BY <1>1
<1>6. Chain(bs, again) /\ Decided(bs, why)
  <2>1. CASE GiveUp(why)
    BY <1>2, <1>3, <1>5, <2>1 DEF GiveUp
  <2>2. CASE GiveUpEscalated(why)
    <3>1. Alike(as, bs)
      BY <1>2, <1>5, <2>2, MarkAlike DEF GiveUpEscalated
    <3>2. Chain(as, again) /\ Decided(as, why)
      BY <1>2, <1>3, <1>5
    <3>3. MaxRetries \in Nat /\ again \in BOOLEAN
      BY <1>1, <1>5
    <3>4. Chain(bs, again) /\ (Decided(as, why) => Decided(bs, why))
      BY <3>1, <3>2, <3>3, AlikeKeeps
    <3> QED BY <3>2, <3>4
  <2> QED BY <2>1, <2>2
<1>7. RunHolds("finish", bs, run', why, again)
  BY <1>6 DEF RunHolds
<1> QED BY <1>4, <1>5, <1>7 DEF SessionInv, RunInv, CheckpointInv

LEMMA RepairHolds ==
    ASSUME SetupsAssumption, SessionInv, TypeOK, Repair PROVE SessionInv'
<1>1. pc = "repair" /\ UNCHANGED setup /\ Last(attempts).worker # ""
  BY DEF Repair, ApplyConstrained, ConstrainedFails, ModelRepairs, ModelRaises, RepairWithMemo, Escalate,
         Repairing, Constrained, Transform, Patch, Small, Architect
<1>2. MayFollow(attempts, Last(attempts).worker) /\ MayFollow(attempts, Architect)
  <2>1. MayFollow(attempts, Last(attempts).worker)
    BY <1>1, Underway
  <2> QED BY <2>1 DEF MayFollow
<1>3. \/ \E d : \E consulted \in BOOLEAN :
            Accept(d, Last(attempts).worker, consulted) \/ Accept(d, Architect, consulted)
      \/ \E why : why # "validated" /\ (GiveUp(why) \/ GiveUpEscalated(why))
  <2>1. CASE ApplyConstrained \/ ModelRepairs
    BY <2>1 DEF ApplyConstrained, ModelRepairs
  <2>2. CASE ConstrainedFails
    BY <2>2 DEF ConstrainedFails
  <2>3. CASE ModelRaises
    BY <2>3 DEF ModelRaises
  <2>4. CASE RepairWithMemo
    BY <2>4 DEF RepairWithMemo, Repairing
  <2>5. CASE Escalate
    BY <2>5 DEF Escalate
  <2> QED BY <2>1, <2>2, <2>3, <2>4, <2>5 DEF Repair
<1> QED BY <1>1, <1>2, <1>3, AcceptHolds, GiveUpHolds

LEMMA FinishHolds ==
    ASSUME SessionInv, Finish PROVE SessionInv'
<1>1. Chain(attempts, setup.again) /\ Decided(attempts, outcome)
  BY DEF Finish, SessionInv, RunInv, RunHolds
<1>2. PICK as, r, why, again : as = attempts /\ r = run /\ why = outcome /\ again = setup.again
  OBVIOUS
<1>3. CheckpointHolds(Checkpoint("terminal", as, r, why), again)
  BY <1>1, <1>2, TerminalHolds
<1>4. CheckpointInv'
  BY <1>2, <1>3 DEF Finish, CheckpointInv
<1>5. RunHolds("done", as, r, why, again)
  BY <1>1, <1>2 DEF RunHolds
<1> QED BY <1>2, <1>4, <1>5 DEF Finish, SessionInv, RunInv

LEMMA CrashHolds ==
    ASSUME MaxRetries \in Nat, SessionInv, Crash \/ Restart PROVE SessionInv'
<1>1. setup' = setup /\ saved' = saved /\ pc' \in {"start", "crashed"} /\ attempts' = <<>>
  BY DEF Crash, Restart, SessionInv, RunInv, RunHolds
<1>2. CheckpointInv'
  BY <1>1 DEF SessionInv, CheckpointInv
<1>3. RunHolds(pc', <<>>, run', outcome', setup.again)
  BY <1>1, EmptyChain DEF RunHolds
<1> QED BY <1>1, <1>2, <1>3 DEF SessionInv, RunInv

\* What resumption finds.
LEMMA SavedHolds ==
    ASSUME SessionInv, TypeOK, Restore
    PROVE /\ saved \in Saved /\ CheckpointHolds(saved, setup.again)
          /\ attempts' = saved.attempts /\ setup' = setup
          /\ saved.attempts \in Seq(Record) /\ Last(saved.attempts) = saved.attempts[Len(saved.attempts)]
<1>1. saved \in Saved /\ CheckpointHolds(saved, setup.again) /\ attempts' = saved.attempts /\ setup' = setup
  BY DEF Restore, TypeOK, SessionInv, CheckpointInv
<1>2. saved.attempts \in Seq(Record) /\ Len(saved.attempts) > 0
  BY <1>1 DEF CheckpointHolds, Saved
<1> QED BY <1>1, <1>2, LastRecord

LEMMA RestoredIs ==
    ASSUME NEW draft, NEW source
    PROVE /\ Restored(draft, source).source = source /\ Restored(draft, source).index = saved.index
          /\ Restored(draft, source).retried = saved.retried
BY DEF Restored, Locals

\* What a resumed run starts from.
LEMMA ResumedHolds ==
    ASSUME SessionInv, TypeOK, Restore, NEW draft, NEW source, run' = Restored(draft, source),
           saved.phase \in {"attempt_recorded", "ready_to_validate"}, MayFollow(saved.attempts, source),
           pc' = "validate", saved' = saved
    PROVE SessionInv'
<1>1. CheckpointHolds(saved, setup.again) /\ attempts' = saved.attempts /\ setup' = setup
  BY SavedHolds
<1>2. run'.source = source /\ run'.index = saved.index /\ run'.retried = saved.retried
  BY RestoredIs
<1>3. RunHolds("validate", saved.attempts, run', outcome', setup.again)
  BY <1>1, <1>2 DEF CheckpointHolds, RunHolds
<1> QED BY <1>1, <1>3 DEF SessionInv, RunInv, CheckpointInv

LEMMA ResumeHolds ==
    ASSUME MaxRetries \in Nat, SessionInv, TypeOK, Resume PROVE SessionInv'
<1>1. CASE Restart
  BY <1>1, CrashHolds
<1>2. CASE ResumeReady
  <2>1. Restore /\ saved.phase = "ready_to_validate" /\ pc' = "validate" /\ saved' = saved
        /\ run' = Restored(saved.draft, saved.source)
    BY <1>2 DEF ResumeReady
  <2>2. MayFollow(saved.attempts, saved.source)
    BY <2>1, SavedHolds DEF CheckpointHolds
  <2> QED BY <2>1, <2>2, ResumedHolds
<1>3. CASE ResumeRecorded
  <2>1. Restore /\ saved.phase = "attempt_recorded" /\ pc' = "validate" /\ saved' = saved
    BY <1>3 DEF ResumeRecorded
  <2>2. PICK source : source = Last(saved.attempts).worker /\ source # "" /\ \E d : run' = Restored(d, source)
    BY <1>3 DEF ResumeRecorded
  <2>3. MayFollow(saved.attempts, source)
    <3>1. CheckpointHolds(saved, setup.again) /\ source = saved.attempts[Len(saved.attempts)].worker
      BY <2>1, <2>2, SavedHolds
    <3>2. MayGoOn(saved.attempts)
      BY <2>1, <3>1 DEF CheckpointHolds
    <3> QED BY <2>2, <3>1, <3>2 DEF MayGoOn
  <2> QED BY <2>1, <2>2, <2>3, ResumedHolds
<1>4. CASE ResumeEnded
  <2>1. Restore /\ pc' = "done"
    BY <1>4 DEF ResumeEnded
  <2>2. /\ saved \in Saved /\ CheckpointHolds(saved, setup.again) /\ attempts' = saved.attempts /\ setup' = setup
        /\ Last(saved.attempts) = saved.attempts[Len(saved.attempts)]
    BY <2>1, SavedHolds
  <2>3. Chain(saved.attempts, setup.again) /\ Len(saved.attempts) > 0
    BY <2>2 DEF CheckpointHolds
  <2>4. Decided(saved.attempts, outcome') /\ CheckpointInv'
    <3>1. CASE saved.phase = "terminal" /\ saved' = saved /\ outcome' = saved.outcome
      BY <2>2, <3>1 DEF CheckpointHolds, CheckpointInv
    <3>2. CASE /\ saved' = [saved EXCEPT !.phase = "terminal", !.outcome = outcome']
               /\ outcome' = IF IsComplete(Last(saved.attempts).draft) THEN "validated"
                             ELSE "repair_strategy_manual_review"
      <4>1. Decided(saved.attempts, outcome')
        BY <2>2, <2>3, <3>2 DEF Decided
      <4>2. saved'.attempts = saved.attempts /\ saved'.phase = "terminal" /\ saved'.outcome = outcome'
        BY <2>2, <3>2 DEF Saved
      <4>3. CheckpointHolds(saved', setup.again)
        BY <2>3, <4>1, <4>2 DEF CheckpointHolds
      <4> QED BY <2>2, <4>1, <4>3 DEF CheckpointInv
    <3> QED BY <1>4, <3>1, <3>2 DEF ResumeEnded
  <2>5. RunHolds("done", saved.attempts, run', outcome', setup.again)
    BY <2>3, <2>4 DEF RunHolds
  <2> QED BY <2>1, <2>2, <2>4, <2>5 DEF SessionInv, RunInv
<1> QED BY <1>1, <1>2, <1>3, <1>4 DEF Resume
-----------------------------------------------------------------------------
(* The theorems *)

IInv == TypeOK /\ SessionInv

LEMMA Inductive ==
    ASSUME SetupsAssumption PROVE Spec => []IInv
<1>1. Init => IInv
  BY InitTypes, InitHolds DEF IInv, SetupsAssumption
<1>2. IInv /\ [Next]_vars => IInv'
  <2>1. SUFFICES ASSUME IInv, [Next]_vars PROVE IInv'
    OBVIOUS
  <2>2. CASE UNCHANGED vars
    BY <2>1, <2>2 DEF IInv, TypeOK, SessionInv, RunInv, CheckpointInv, vars
  <2>3. CASE Next
    <3>1. TypeOK'
      BY <2>1, <2>3, StepTypes DEF IInv, SetupsAssumption
    <3>2. SessionInv'
      <4>1. MaxRetries \in Nat
        BY DEF SetupsAssumption
      <4> QED
        BY <2>1, <2>3, <4>1, StartHolds, ValidateHolds, DecideHolds, RepairHolds, FinishHolds, CrashHolds, ResumeHolds
        DEF IInv, Next
    <3> QED BY <3>1, <3>2 DEF IInv
  <2> QED BY <2>1, <2>2, <2>3
<1> QED BY <1>1, <1>2, PTL DEF Spec

\* The budget of the comment before the loop (generation_controller.py:1395):
\* for any number of repairs, none included, and any number of crashes, no
\* attempt is counted twice or skipped, and one more than the budget is the
\* architect's, after a constrained repair, or after a failure of the backend
\* where there was no budget.
THEOREM BudgetKept ==
    ASSUME SetupsAssumption PROVE Spec => []RetryBudget
<1>1. IInv => RetryBudget
  <2>1. SUFFICES ASSUME IInv PROVE RetryBudget
    OBVIOUS
  <2>2. Chain(attempts, setup.again) /\ Len(attempts) \in Nat /\ MaxRetries \in Nat
    BY <2>1, LenProperties DEF IInv, TypeOK, SessionInv, RunInv, RunHolds, SetupsAssumption
  <2>3. PICK n, as : n = Len(attempts) /\ as = attempts /\ n \in Nat
    BY <2>2
  <2>4. \A i \in 1..n : as[i].index = i - 1
    BY <2>2, <2>3 DEF Chain, IsAt
  <2>5. n <= MaxRetries + 2 /\ (n = MaxRetries + 2 => HandsOver(as[MaxRetries + 1]))
    BY <2>2, <2>3 DEF Chain
  <2>6. ASSUME n = MaxRetries + 2
        PROVE /\ as[n].source = Architect
              /\ as[n-1].source \in Constrained \/ (MaxRetries = 0 /\ as[n-1].source = "backend_failure")
    <3>1. n - 1 = MaxRetries + 1 /\ n - 1 \in 1..n-1 /\ n - 1 + 1 = n
      BY <2>2, <2>6
    <3>2. PICK i \in 1..n-1 : i = n - 1 /\ i = MaxRetries + 1 /\ i + 1 = n
      BY <3>1
    <3>3. HandsOver(as[i])
      BY <2>5, <2>6, <3>2
    <3>4. HandsOver(as[i]) => IsArchitects(as[i+1])
      BY <2>2, <2>3 DEF Chain
    <3>5. as[i].index = MaxRetries
      <4>1. i \in 1..n /\ i - 1 = MaxRetries
        BY <2>2, <3>2
      <4> QED BY <2>4, <4>1
    <3> QED BY <3>2, <3>3, <3>4, <3>5 DEF HandsOver, IsArchitects
  <2> QED BY <2>3, <2>4, <2>5, <2>6 DEF RetryBudget
<1> QED BY <1>1, Inductive, PTL

\* A constrained repair that fails is followed by the architect's draft alone,
\* and an architect's draft that fails the static gates is repaired at most once
\* and never where that is not allowed (generation_controller.py:1318, :1400).
THEOREM LastResort ==
    ASSUME SetupsAssumption PROVE Spec => []ArchitectIsLastResort
<1>1. IInv => ArchitectIsLastResort
  <2>1. SUFFICES ASSUME IInv PROVE ArchitectIsLastResort
    OBVIOUS
  <2>2. Chain(attempts, setup.again) /\ Len(attempts) \in Nat /\ setup.again \in BOOLEAN
    BY <2>1, LenProperties DEF IInv, TypeOK, SessionInv, RunInv, RunHolds, SetupsAssumption
  <2>3. PICK n, as, again :
          n = Len(attempts) /\ as = attempts /\ again = setup.again /\ n \in Nat /\ again \in BOOLEAN
    BY <2>2
  <2>4. ConstrainedThenArchitect
    BY <2>2, <2>3 DEF Chain, HandsOver, IsArchitects, ConstrainedThenArchitect
  <2> DEFINE T == {i \in 1..n-1 : as[i].source = Architect /\ Fault(as[i].draft) \in Static}
  <2>5. T \subseteq Repaired(as)
    <3>1. ASSUME NEW i \in T PROVE i \in Repaired(as)
      <4>1. i \in 1..n-1 /\ i \in 1..n
        BY <2>3
      <4>2. GoesOn(as[i])
        BY <2>2, <2>3, <4>1 DEF Chain
      <4>3. Again(as[i])
        BY <4>2 DEF GoesOn, Again
      <4> QED BY <2>3, <4>1, <4>3 DEF Repaired
    <3> QED BY <3>1
  <2>6. (\A i, j \in T : i = j) /\ (T # {} => again)
    BY <2>2, <2>3, <2>5 DEF Chain
  <2>7. T = {} \/ \E i : T = {i}
    BY <2>6
  <2> HIDE DEF T
  <2>8. Cardinality(T) <= IF again THEN 1 ELSE 0
    <3>1. CASE T = {}
      <4>1. Cardinality(T) = 0
        BY <3>1, FS_EmptySet
      <4> QED BY <4>1
    <3>2. CASE T # {}
      <4>1. Cardinality(T) = 1
        BY <2>7, <3>2, FS_Singleton
      <4> QED BY <2>6, <3>2, <4>1
    <3> QED BY <3>1, <3>2
  <2>9. ArchitectRepairedOnce
    BY <2>3, <2>8 DEF T, ArchitectRepairedOnce
  <2> QED BY <2>4, <2>9 DEF ArchitectIsLastResort
<1> QED BY <1>1, Inductive, PTL

\* A session is completed exactly when its last draft passed every gate, however
\* often it was resumed, and a draft that passed is never repaired
\* (generation_controller.py:1262, :1744).
THEOREM CompletionIsValidation ==
    ASSUME SetupsAssumption PROVE Spec => []CompletedMeansValidated
<1>1. IInv => CompletedMeansValidated
  <2>1. SUFFICES ASSUME IInv PROVE CompletedMeansValidated
    OBVIOUS
  <2>2. /\ Chain(attempts, setup.again) /\ attempts \in Seq(Record)
        /\ pc \in {"finish", "done"} => Decided(attempts, outcome)
    BY <2>1 DEF IInv, TypeOK, SessionInv, RunInv, RunHolds
  <2>3. \A i \in 1..Len(attempts)-1 : ~IsComplete(attempts[i].draft)
    BY <2>2 DEF Chain, GoesOn
  <2>4. pc \in {"finish", "done"} => (outcome = "validated" <=> IsComplete(Last(attempts).draft))
    BY <2>2, LastRecord DEF Decided
  <2> QED BY <2>3, <2>4 DEF CompletedMeansValidated
<1> QED BY <1>1, Inductive, PTL
-----------------------------------------------------------------------------
(* Who is credited *)

\* The architect was asked for the draft after this attempt.
Asked(a) == a.worker = Architect \/ a.escalated

\* The architect's drafts are those it was asked for, and never the first.
Credited(as) ==
    /\ Len(as) > 0 => ~IsArchitects(as[1])
    /\ \A i \in 1..Len(as)-1 : Asked(as[i]) <=> IsArchitects(as[i+1])
    /\ \A i \in 1..Len(as) : Asked(as[i]) => ~IsComplete(as[i].draft)

\* A draft of this source is the architect's as the attempts say.
CreditedNext(as, source) ==
    IF Len(as) > 0 THEN Asked(as[Len(as)]) <=> source = Architect ELSE source # Architect

\* Nobody took the recorded worker's place.
InPlace(as) == Len(as) > 0 => ~as[Len(as)].escalated

CreditInv ==
    /\ Credited(attempts)
    /\ pc = "validate" => CreditedNext(attempts, run.source)
    /\ pc \in {"decide", "repair"} => InPlace(attempts)
    /\ saved # None =>
          /\ Credited(saved.attempts)
          /\ saved.phase = "attempt_recorded" => InPlace(saved.attempts)
          /\ saved.phase = "ready_to_validate" => CreditedNext(saved.attempts, saved.source)

LEMMA CreditExtends ==
    ASSUME NEW as, NEW bs, NEW a, Credited(as), CreditedNext(as, a.source), Extended(as, bs, a),
           Asked(a) => ~IsComplete(a.draft)
    PROVE Credited(bs)
<1>1. PICK n \in Nat : n = Len(as)
  BY DEF Extended
<1>2. Len(bs) = n + 1 /\ bs[n+1] = a /\ \A i \in 1..n : bs[i] = as[i]
  BY <1>1 DEF Extended
<1>3. ~IsArchitects(bs[1])
  <2>1. CASE n = 0
    BY <1>1, <1>2, <2>1 DEF CreditedNext, IsArchitects
  <2>2. CASE n > 0
    <3>1. 1 \in 1..n
      BY <2>2
    <3> QED BY <1>1, <1>2, <2>2, <3>1 DEF Credited
  <2> QED BY <2>1, <2>2
<1>4. ASSUME NEW i \in 1..n PROVE Asked(bs[i]) <=> IsArchitects(bs[i+1])
  <2>1. CASE i = n
    <3>1. n > 0 /\ n \in 1..n
      BY <2>1
    <3>4. bs[n] = as[n]
      BY <1>2, <3>1
    <3>2. Asked(as[n]) <=> a.source = Architect
      BY <1>1, <3>1 DEF CreditedNext
    <3> QED BY <1>2, <2>1, <3>2, <3>4 DEF IsArchitects
  <2>2. CASE i # n
    <3>1. i \in 1..n-1 /\ i + 1 \in 1..n
      BY <2>2
    <3>2. bs[i] = as[i] /\ bs[i+1] = as[i+1]
      BY <1>2, <3>1
    <3> QED BY <1>1, <3>1, <3>2 DEF Credited
  <2> QED BY <2>1, <2>2
<1>5. ASSUME NEW i \in 1..n+1 PROVE Asked(bs[i]) => ~IsComplete(bs[i].draft)
  <2>1. i \in 1..n \/ i = n + 1
    OBVIOUS
  <2> QED BY <1>1, <1>2, <2>1 DEF Credited
<1>6. n + 1 - 1 = n
  OBVIOUS
<1> QED BY <1>2, <1>3, <1>4, <1>5, <1>6 DEF Credited

\* Bs are as, but for who was asked after the last one.
Marked(as, bs, escalated) ==
    /\ Len(as) \in Nat /\ Len(as) > 0 /\ Len(bs) = Len(as)
    /\ \A i \in 1..Len(as)-1 : bs[i] = as[i]
    /\ bs[Len(as)].draft = as[Len(as)].draft /\ bs[Len(as)].source = as[Len(as)].source
    /\ bs[Len(as)].worker = as[Len(as)].worker /\ bs[Len(as)].escalated = escalated

LEMMA MarkIsMarked ==
    ASSUME attempts \in Seq(Record), Len(attempts) > 0, NEW consulted \in BOOLEAN, NEW escalated \in BOOLEAN
    PROVE Marked(attempts, Mark(consulted, escalated), escalated)
<1> DEFINE n == Len(attempts)
           a == [attempts[n] EXCEPT !.consulted = @ \/ consulted, !.escalated = escalated]
           bs == [attempts EXCEPT ![n] = a]
<1>1. n \in 1..n /\ n \in Nat
  BY LenProperties
<1>2. attempts[n] \in Record
  BY <1>1, ElementOfSeq
<1>3. (attempts[n].consulted \/ consulted) \in BOOLEAN
  OBVIOUS
<1>4. /\ a \in Record /\ a.escalated = escalated
      /\ a.source = attempts[n].source /\ a.worker = attempts[n].worker /\ a.draft = attempts[n].draft
  BY <1>2, <1>3 DEF Record
<1>5. Mark(consulted, escalated) = bs
  BY <1>1, LenProperties DEF Mark
<1> HIDE DEF a
<1>6. bs \in Seq(Record) /\ Len(bs) = n /\ \A i \in 1..n : bs[i] = IF i = n THEN a ELSE attempts[i]
  BY <1>1, <1>4, ExceptSeq
<1>7. \A i \in 1..n-1 : i \in 1..n /\ i # n
  BY <1>1
<1> QED BY <1>1, <1>4, <1>5, <1>6, <1>7 DEF Marked

LEMMA MarkedIsCredited ==
    ASSUME NEW as, NEW bs, NEW escalated, Credited(as), Marked(as, bs, escalated), ~IsComplete(as[Len(as)].draft)
    PROVE /\ Credited(bs)
          /\ \A source :
                ((as[Len(as)].worker = Architect \/ escalated) <=> source = Architect) => CreditedNext(bs, source)
<1>1. PICK n \in Nat : n = Len(as) /\ n > 0 /\ n = Len(bs)
  BY DEF Marked
<1>2. /\ \A i \in 1..n-1 : bs[i] = as[i]
      /\ bs[n].draft = as[n].draft /\ bs[n].source = as[n].source
      /\ bs[n].worker = as[n].worker /\ bs[n].escalated = escalated
  BY <1>1 DEF Marked
<1>3. \A i \in 1..n : i \in 1..n-1 \/ i = n
  OBVIOUS
<1>4. \A i \in 1..n : IsArchitects(bs[i]) <=> IsArchitects(as[i])
  BY <1>2, <1>3 DEF IsArchitects
<1>5. 1 \in 1..n /\ \A i \in 1..n-1 : i \in 1..n /\ i + 1 \in 1..n
  BY <1>1
<1>6. ~IsArchitects(bs[1])
  BY <1>1, <1>4, <1>5 DEF Credited
<1>7. \A i \in 1..n-1 : Asked(bs[i]) <=> IsArchitects(bs[i+1])
  BY <1>1, <1>2, <1>4, <1>5 DEF Credited
<1>8. ~IsComplete(bs[n].draft)
  BY <1>1, <1>2
<1>9. \A i \in 1..n : Asked(bs[i]) => ~IsComplete(bs[i].draft)
  BY <1>1, <1>2, <1>3, <1>5, <1>8 DEF Credited
<1> QED BY <1>1, <1>2, <1>6, <1>7, <1>9 DEF Credited, CreditedNext, Asked

LEMMA CreditInit == ASSUME Init PROVE CreditInv
<1>1. Len(<<>>) = 0 /\ 1..0 = {} /\ 1..(0 - 1) = {}
  OBVIOUS
<1>2. Credited(<<>>)
  BY <1>1 DEF Credited
<1> QED BY <1>2 DEF Init, CreditInv

LEMMA AcceptedSource ==
    ASSUME run \in Local, NEW d, NEW source, NEW consulted \in BOOLEAN, Accept(d, source, consulted)
    PROVE /\ attempts' = Mark(consulted, source = Architect /\ Last(attempts).worker # Architect)
          /\ run'.source = source
          /\ saved'.attempts = attempts' /\ saved'.phase = "ready_to_validate" /\ saved'.source = source
<1>1. run'.source = source
  BY DEF Accept, Local
<1> QED BY <1>1 DEF Accept, Checkpoint

LEMMA CreditRepair ==
    ASSUME SetupsAssumption, IInv, CreditInv, Repair
    PROVE CreditInv'
<1>1. attempts \in Seq(Record) /\ run \in Local /\ Len(attempts) \in Nat /\ SessionInv
  BY LenProperties DEF IInv, TypeOK
<1> DEFINE n == Len(attempts)
           worker == attempts[n].worker
<1>2. pc = "repair" /\ worker # "" /\ n > 0 /\ Last(attempts).worker = worker
  <2>1. pc = "repair" /\ Last(attempts).worker # ""
    BY <1>1 DEF Repair, ApplyConstrained, ConstrainedFails, ModelRepairs, ModelRaises, RepairWithMemo,
                Escalate, Repairing, Constrained, Small, Architect, Transform, Patch
  <2>2. n > 0
    BY <1>1, <2>1 DEF SessionInv, RunInv, RunHolds, Current
  <2> QED BY <2>1, <2>2 DEF Last
<1>3. ~IsComplete(attempts[n].draft)
  BY <1>1, <1>2 DEF SessionInv, RunInv, RunHolds, MayGoOn, MayFollow, GoesOn
<1>4. Credited(attempts) /\ ~attempts[n].escalated
  BY <1>2 DEF CreditInv, InPlace
<1>5. ASSUME NEW d, NEW source, NEW consulted \in BOOLEAN, Accept(d, source, consulted),
             worker = Architect => source = Architect
      PROVE CreditInv'
  <2> DEFINE e == source = Architect /\ Last(attempts).worker # Architect
  <2>1. e \in BOOLEAN
    OBVIOUS
  <2>2. Marked(attempts, Mark(consulted, e), e)
    BY <1>1, <1>2, <2>1, MarkIsMarked
  <2>3. (worker = Architect \/ e) <=> source = Architect
    BY <1>2, <1>5
  <2> HIDE DEF e
  <2>4. Credited(Mark(consulted, e)) /\ CreditedNext(Mark(consulted, e), source)
    BY <1>3, <1>4, <2>2, <2>3, MarkedIsCredited
  <2>5. /\ attempts' = Mark(consulted, e) /\ run'.source = source
        /\ saved'.attempts = attempts' /\ saved'.phase = "ready_to_validate" /\ saved'.source = source
    BY <1>1, <1>5, AcceptedSource DEF e
  <2>6. pc' = "validate"
    BY <1>5 DEF Accept
  <2> QED BY <2>4, <2>5, <2>6 DEF CreditInv
<1>6. ASSUME NEW why, GiveUpEscalated(why) PROVE CreditInv'
  <2>1. Marked(attempts, Mark(FALSE, TRUE), TRUE)
    BY <1>1, <1>2, MarkIsMarked
  <2>2. Credited(Mark(FALSE, TRUE))
    BY <1>3, <1>4, <2>1, MarkedIsCredited
  <2>3. attempts' = Mark(FALSE, TRUE) /\ saved' = saved /\ pc' = "finish"
    BY <1>6 DEF GiveUpEscalated, Stop
  <2> QED BY <2>2, <2>3 DEF CreditInv
<1>7. ASSUME NEW why, GiveUp(why) PROVE CreditInv'
  <2>1. attempts' = attempts /\ saved' = saved /\ pc' = "finish"
    BY <1>7 DEF GiveUp, Stop
  <2> QED BY <2>1 DEF CreditInv
<1>8. CASE ApplyConstrained \/ ModelRepairs
  <2>1. \E d : Accept(d, Last(attempts).worker, FALSE)
    BY <1>8 DEF ApplyConstrained, ModelRepairs
  <2> QED BY <1>2, <1>5, <2>1
<1>9. CASE ConstrainedFails
  <2>1. \/ \E d : Accept(d, Architect, FALSE)
        \/ GiveUp("repair_strategy_patch_failed") \/ GiveUpEscalated("repair_strategy_patch_failed")
    BY <1>9 DEF ConstrainedFails
  <2> QED BY <1>5, <1>6, <1>7, <2>1
<1>10. CASE ModelRaises
  BY <1>7, <1>10 DEF ModelRaises
<1>11. CASE RepairWithMemo
  <2>1. (\E d : Accept(d, Small, TRUE)) \/ GiveUp("repair_supplier_error")
    BY <1>11 DEF RepairWithMemo
  <2>2. worker = Small
    BY <1>2, <1>11 DEF RepairWithMemo, Repairing
  <2> QED BY <1>5, <1>7, <2>1, <2>2 DEF Small, Architect
<1>12. CASE Escalate
  <2>1. (\E d : Accept(d, Architect, FALSE)) \/ \E why : GiveUp(why) \/ GiveUpEscalated(why)
    BY <1>12 DEF Escalate
  <2> QED BY <1>5, <1>6, <1>7, <2>1
<1> QED BY <1>8, <1>9, <1>10, <1>11, <1>12 DEF Repair

LEMMA CreditStep ==
    ASSUME SetupsAssumption, IInv, CreditInv, Next
    PROVE CreditInv'
<1>1. /\ attempts \in Seq(Record) /\ run \in Local /\ saved \in Saved \cup {None}
      /\ Len(attempts) \in Nat /\ SessionInv
  BY LenProperties DEF IInv, TypeOK
<1>2. Len(<<>>) = 0 /\ 1..0 = {} /\ 1..(0 - 1) = {}
  OBVIOUS
<1>3. Credited(<<>>)
  BY <1>2 DEF Credited
<1>4. CASE Start
  <2>1. attempts = <<>> /\ saved' = saved /\ pc = "start"
    BY <1>1, <1>4 DEF Start, SessionInv, RunInv, RunHolds
  <2>2. CASE FirstDraft
    <3>1. pc' = "validate" /\ attempts' = <<>> /\ run'.source = "draft_supplier"
      BY <2>1, <2>2 DEF FirstDraft, Locals
    <3>2. CreditedNext(<<>>, "draft_supplier")
      BY <1>2 DEF CreditedNext, Architect
    <3> QED BY <1>3, <2>1, <3>1, <3>2 DEF CreditInv
  <2>3. CASE BackendFails
    <3>1. PICK w : /\ attempts' = <<BackendFailure(w)>>
                   /\ pc' \in {"done", "validate"}
                   /\ pc' = "validate" => run'.source = Architect /\ w = Architect
      <4>1. CASE \E d \in Made(1) : run' = Locals(d, Architect, 1) /\ pc' = "validate"
                                      /\ attempts' = <<BackendFailure(Architect)>>
        BY <4>1 DEF Locals
      <4>2. CASE pc' = "done" /\ attempts' = <<BackendFailure(IF setup.architect THEN Architect ELSE "")>>
        BY <4>2
      <4> QED BY <2>3, <4>1, <4>2 DEF BackendFails
    <3> DEFINE a == BackendFailure(w)
    <3>2. /\ ~IsArchitects(a) /\ ~IsComplete(a.draft) /\ ~a.escalated /\ a.worker = w /\ a.source # Architect
      BY DEF BackendFailure, IsArchitects, Architect, IsComplete, Fault, NoDraft
    <3>3. Extended(<<>>, <<a>>, a)
      BY OneMore
    <3>4. CreditedNext(<<>>, a.source)
      BY <1>2, <3>2 DEF CreditedNext
    <3>5. Credited(<<a>>)
      BY <1>3, <3>2, <3>3, <3>4, CreditExtends
    <3>6. w = Architect => CreditedNext(<<a>>, Architect)
      BY <3>2 DEF CreditedNext, Asked
    <3> QED BY <2>1, <3>1, <3>5, <3>6 DEF CreditInv
  <2> QED BY <1>4, <2>2, <2>3 DEF Start
<1>5. CASE Validate
  <2> DEFINE d == run.draft
  <2>1. PICK worker, memo :
          /\ attempts' = Append(attempts, Attempt(d, worker, memo))
          /\ worker # "" => ~IsComplete(d)
          /\ worker \in Workers \cup {""} /\ memo \in BOOLEAN
    BY <1>5, RepairWorkerType DEF Validate, MayConsult, PeerAnswers
  <2> DEFINE a == Attempt(d, worker, memo)
  <2>2. a \in Record /\ a.worker = worker /\ a.source = run.source /\ a.draft = d /\ ~a.escalated
    BY <1>1, <2>1, AttemptType DEF Attempt
  <2> HIDE DEF a
  <2>3. Extended(attempts, attempts', a)
    BY <1>1, <2>1, <2>2, Appended DEF a
  <2>4. CreditedNext(attempts, a.source) /\ Credited(attempts) /\ (Asked(a) => ~IsComplete(a.draft))
    BY <1>5, <2>1, <2>2 DEF CreditInv, Validate, Asked, Architect
  <2>5. Credited(attempts')
    BY <2>3, <2>4, CreditExtends
  <2>6. InPlace(attempts')
    BY <2>2, <2>3 DEF Extended, InPlace
  <2>7. saved'.attempts = attempts' /\ saved'.phase = "attempt_recorded" /\ pc' = "decide"
    <3>1. saved' = Checkpoint("attempt_recorded", attempts', [run' EXCEPT !.index = @ + 1], outcome) /\ pc' = "decide"
      BY <1>5 DEF Validate
    <3> QED BY <3>1 DEF Checkpoint
  <2> QED BY <2>5, <2>6, <2>7 DEF CreditInv
<1>6. CASE Decide
  <2>1. UNCHANGED <<attempts, run, saved>> /\ pc = "decide" /\ pc' \in {"finish", "repair"}
    BY <1>6 DEF Decide, Stop
  <2> QED BY <2>1 DEF CreditInv
<1>7. CASE Repair
  BY <1>1, <1>7, CreditRepair
<1>8. CASE Finish
  <2>1. UNCHANGED attempts /\ saved'.phase = "terminal" /\ saved'.attempts = attempts /\ pc' = "done"
    BY <1>8 DEF Finish, Checkpoint
  <2> QED BY <2>1 DEF CreditInv
<1>9. CASE Crash
  <2>1. attempts' = <<>> /\ saved' = saved /\ pc' = "crashed"
    BY <1>9 DEF Crash
  <2> QED BY <1>3, <2>1 DEF CreditInv
<1>10. CASE Restart
  <2>1. attempts' = attempts /\ saved' = saved /\ pc' = "start"
    BY <1>10 DEF Restart
  <2> QED BY <2>1 DEF CreditInv
<1>11. CASE ResumeReady
  <2>1. /\ attempts' = saved.attempts /\ saved' = saved /\ saved # None /\ saved.phase = "ready_to_validate"
        /\ run'.source = saved.source
    BY <1>11 DEF ResumeReady, Restore, Restored, Locals
  <2>2. pc' = "validate"
    BY <1>11 DEF ResumeReady
  <2> QED BY <2>1, <2>2 DEF CreditInv
<1>12. CASE ResumeEnded
  <2>1. attempts' = saved.attempts /\ saved # None /\ pc' = "done"
    BY <1>12 DEF ResumeEnded, Restore
  <2>2. saved' = saved \/ (saved'.attempts = saved.attempts /\ saved'.phase = "terminal")
    <3>1. saved \in Saved
      BY <1>1, <2>1
    <3>2. saved' = saved \/ saved' = [saved EXCEPT !.phase = "terminal", !.outcome = outcome']
      BY <1>12 DEF ResumeEnded
    <3> QED BY <3>1, <3>2 DEF Saved
  <2> QED BY <2>1, <2>2 DEF CreditInv
<1>13. CASE ResumeRecorded
  <2>1. /\ attempts' = saved.attempts /\ saved' = saved /\ saved # None /\ saved.phase = "attempt_recorded"
        /\ run'.source = Last(saved.attempts).worker
    BY <1>13 DEF ResumeRecorded, Restore, Restored, Locals
  <2>2. pc' = "validate"
    BY <1>13 DEF ResumeRecorded
  <2>3. Len(saved.attempts) > 0
    BY <1>1, <2>1 DEF SessionInv, CheckpointInv, CheckpointHolds
  <2>4. CreditedNext(saved.attempts, run'.source)
    BY <2>1, <2>3 DEF CreditInv, InPlace, CreditedNext, Asked, Last
  <2> QED BY <2>1, <2>2, <2>4 DEF CreditInv
<1> QED BY <1>4, <1>5, <1>6, <1>7, <1>8, <1>9, <1>10, <1>11, <1>12, <1>13 DEF Next, Resume

LEMMA OneOrMore == ASSUME NEW n \in Nat, n > 0 PROVE n = 1 \/ (n > 1 /\ n # 1)
OBVIOUS

LEMMA Contribution ==
    ASSUME NEW as, NEW completed \in BOOLEAN, Len(as) \in Nat, Len(as) > 0,
           completed /\ Len(as) = 1 => ~ArchitectUsed(as)
    PROVE WorkerContribution(as, completed) \in {"small_solved_initial", "small_repaired"}
            <=> completed /\ ~ArchitectUsed(as)
<1>1. Len(as) = 1 \/ (Len(as) > 1 /\ Len(as) # 1)
  BY OneOrMore, Zenon
<1>2. Len(as) = 1 => ~(Len(as) > 1)
  OBVIOUS
<1>3. CASE ~completed /\ SmallChanged(as) # {}
  <2>1. WorkerContribution(as, completed) = "small_made_progress_but_failed"
    BY <1>3, Zenon DEF WorkerContribution
  <2> QED BY <1>3, <2>1
<1>4. CASE ~completed /\ SmallChanged(as) = {}
  <2>1. WorkerContribution(as, completed) = "small_no_progress"
    BY <1>4, Zenon DEF WorkerContribution
  <2> QED BY <1>4, <2>1
<1>5. CASE completed /\ Len(as) = 1
  <2>1. WorkerContribution(as, completed) = "small_solved_initial"
    BY <1>2, <1>5, Zenon DEF WorkerContribution
  <2> QED BY <1>5, <2>1
<1>6. CASE completed /\ Len(as) > 1 /\ Len(as) # 1 /\ ~ArchitectUsed(as)
  <2>1. WorkerContribution(as, completed) = "small_repaired"
    BY <1>6, Zenon DEF WorkerContribution
  <2> QED BY <1>6, <2>1
<1>7. CASE completed /\ Len(as) > 1 /\ Len(as) # 1 /\ ArchitectUsed(as) /\ SmallChanged(as) # {}
  <2>1. WorkerContribution(as, completed) = "small_helped_architect"
    BY <1>7, Zenon DEF WorkerContribution
  <2> QED BY <1>7, <2>1
<1>8. CASE completed /\ Len(as) > 1 /\ Len(as) # 1 /\ ArchitectUsed(as) /\ SmallChanged(as) = {}
  <2>1. WorkerContribution(as, completed) = "architect_solved_after_small_stall"
    BY <1>8, Zenon DEF WorkerContribution
  <2> QED BY <1>8, <2>1
<1> QED BY <1>1, <1>3, <1>4, <1>5, <1>6, <1>7, <1>8

LEMMA CreditIsFairThen ==
    ASSUME IInv, CreditInv
    PROVE CreditIsFair
<1> SUFFICES ASSUME pc = "done"
             PROVE WorkerContribution(attempts, outcome = "validated") \in {"small_solved_initial", "small_repaired"}
                     <=> outcome = "validated" /\ \A i \in DOMAIN attempts : attempts[i].source # Architect
  BY DEF CreditIsFair
<1>1. PICK n \in Nat : n = Len(attempts) /\ DOMAIN attempts = 1..n /\ n > 0
  BY LenProperties DEF IInv, TypeOK, SessionInv, RunInv, RunHolds, Decided
<1>2. outcome = "validated" <=> IsComplete(attempts[n].draft)
  BY <1>1 DEF IInv, SessionInv, RunInv, RunHolds, Decided
<1>3. /\ ~IsArchitects(attempts[1])
      /\ \A i \in 1..n-1 : Asked(attempts[i]) <=> IsArchitects(attempts[i+1])
      /\ \A i \in 1..n : Asked(attempts[i]) => ~IsComplete(attempts[i].draft)
  BY <1>1 DEF CreditInv, Credited
<1>4. ArchitectUsed(attempts) <=> \E i \in 1..n : Asked(attempts[i])
  BY <1>1 DEF ArchitectUsed, Asked
<1>5. ASSUME outcome = "validated"
      PROVE ArchitectUsed(attempts) <=> \E i \in 1..n : IsArchitects(attempts[i])
  <2>1. ~Asked(attempts[n])
    BY <1>1, <1>2, <1>3, <1>5
  <2>2. ASSUME NEW i \in 1..n, Asked(attempts[i]) PROVE \E j \in 1..n : IsArchitects(attempts[j])
    <3>1. i \in 1..n-1 /\ i + 1 \in 1..n
      BY <2>1, <2>2
    <3> QED BY <1>3, <2>2, <3>1
  <2>3. ASSUME NEW i \in 1..n, IsArchitects(attempts[i]) PROVE \E j \in 1..n : Asked(attempts[j])
    <3>1. PICK j \in 1..n-1 : j + 1 = i
      <4>1. i # 1
        BY <1>3, <2>3
      <4>2. i - 1 \in 1..n-1 /\ i - 1 + 1 = i
        BY <4>1
      <4> QED BY <4>2
    <3>2. Asked(attempts[j]) /\ j \in 1..n
      BY <1>3, <2>3, <3>1
    <3> QED BY <3>2
  <2> QED BY <1>4, <2>2, <2>3
<1>6. outcome = "validated" /\ n = 1 => ~ArchitectUsed(attempts)
  BY <1>3, <1>5
<1>7. WorkerContribution(attempts, outcome = "validated") \in {"small_solved_initial", "small_repaired"}
        <=> outcome = "validated" /\ ~ArchitectUsed(attempts)
  BY <1>1, <1>6, Contribution
<1> QED BY <1>1, <1>5, <1>7 DEF IsArchitects

\* The small worker is credited with a whole session exactly when no draft of it
\* was the architect's, for any budget and any number of crashes: what stands in
\* the attempts is enough to tell, since an architect called in another worker's
\* place is noted in the attempt before (run_coding_capability.py:228).
THEOREM CreditIsKept ==
    ASSUME SetupsAssumption PROVE Spec => []CreditIsFair
<1>1. IInv /\ CreditInv /\ IInv' /\ [Next]_vars => CreditInv'
  <2>1. ASSUME CreditInv, UNCHANGED vars PROVE CreditInv'
    BY <2>1 DEF CreditInv, vars
  <2> QED BY <2>1, CreditStep
<1>2. Init => CreditInv
  BY CreditInit
<1>3. IInv /\ CreditInv => CreditIsFair
  BY CreditIsFairThen
<1> QED BY <1>1, <1>2, <1>3, Inductive, PTL DEF Spec
-----------------------------------------------------------------------------
(* Lists of contracts and results *)

\* A sequence of whatever is in it.
IsList(s) == s \in Seq(ToSet(s))

\* A set of numbers has a least element.
LEMMA LeastNumber ==
    ASSUME NEW S \in SUBSET Nat, S # {}
    PROVE \E p \in S : \A q \in S : p <= q
<1> DEFINE Below(p) == {q \in S : q <= p}
           R == StrictSubsetOrdering(S)
           T == {Below(p) : p \in S}
<1>1. \A p \in S : Below(p) \in SUBSET S /\ IsFiniteSet(Below(p))
  <2>1. TAKE p \in S
  <2>2. IsFiniteSet(0..p)
    BY FS_Interval
  <2>3. \A q \in Below(p) : q \in 0..p
    OBVIOUS
  <2>4. Below(p) \in SUBSET (0..p)
    <3> HIDE DEF Below
    <3> QED BY <2>3
  <2> QED BY <2>2, <2>4, FS_Subset
<1>2. T \subseteq FiniteSubsetsOf(S) /\ T # {}
  BY <1>1 DEF FiniteSubsetsOf
<1>3. IsWellFoundedOn(R, FiniteSubsetsOf(S))
  BY FS_StrictSubsetOrderingWellFounded
<1>4. \E x \in T : \A y \in T : ~(<<y, x>> \in R)
  <2> HIDE DEF T, R
  <2> QED BY <1>2, <1>3, WFMin, Zenon
<1>5. PICK p \in S : \A q \in S : ~(<<Below(q), Below(p)>> \in R)
  <2> HIDE DEF R, Below
  <2> QED BY <1>4
<1>6. ASSUME NEW q \in S, q < p PROVE FALSE
  <2>1. p \in Nat /\ q \in Nat /\ \A x \in S : x \in Nat
    OBVIOUS
  <2>2. \A x \in Below(q) : x \in Below(p)
    BY <1>6, <2>1
  <2>3. p \in Below(p) /\ p \notin Below(q)
    BY <1>6, <2>1
  <2>4. Below(q) \in SUBSET S /\ Below(p) \in SUBSET S
    OBVIOUS
  <2>5. <<Below(q), Below(p)>> \in R
    <3> HIDE DEF Below
    <3> QED BY <2>2, <2>3, <2>4 DEF StrictSubsetOrdering
  <2> QED BY <1>5, <2>5
<1> QED BY <1>6

LEMMA ListFacts ==
    ASSUME NEW s, IsList(s)
    PROVE /\ Len(s) \in Nat /\ DOMAIN s = 1..Len(s)
          /\ \A S : ToSet(s) \subseteq S => s \in Seq(S)
          /\ ToSet(s) = {s[i] : i \in 1..Len(s)}
          /\ (s = <<>>) <=> (Len(s) = 0)
<1>1. Len(s) \in Nat /\ DOMAIN s = 1..Len(s)
  BY LenProperties DEF IsList
<1>2. ASSUME NEW S, ToSet(s) \subseteq S PROVE s \in Seq(S)
  BY <1>2 DEF IsList
<1>3. (s = <<>>) <=> (Len(s) = 0)
  BY DEF IsList
<1> QED BY <1>1, <1>2, <1>3 DEF ToSet

LEMMA ListAppend ==
    ASSUME NEW s, IsList(s), NEW e
    PROVE /\ IsList(Append(s, e)) /\ Len(Append(s, e)) = Len(s) + 1
          /\ Append(s, e)[Len(s) + 1] = e /\ \A i \in 1..Len(s) : Append(s, e)[i] = s[i]
          /\ ToSet(Append(s, e)) = ToSet(s) \cup {e}
<1> DEFINE S == ToSet(s) \cup {e}
           t == Append(s, e)
<1>1. s \in Seq(S) /\ e \in S /\ Len(s) \in Nat
  BY ListFacts
<1>2. t \in Seq(S) /\ Len(t) = Len(s) + 1 /\ t[Len(s) + 1] = e /\ \A i \in 1..Len(s) : t[i] = s[i]
  <2> HIDE DEF S
  <2> QED BY <1>1, AppendProperties
<1>3. DOMAIN t = 1..Len(s)+1
  BY <1>1, <1>2, LenProperties
<1>4. \A i \in 1..Len(s)+1 : i \in 1..Len(s) \/ i = Len(s) + 1
  BY <1>1
<1>5. Len(s) + 1 \in 1..Len(s)+1 /\ \A i \in 1..Len(s) : i \in 1..Len(s)+1
  BY <1>1
<1>6. ToSet(t) = {t[i] : i \in 1..Len(s)+1} /\ ToSet(s) = {s[i] : i \in 1..Len(s)}
  BY <1>3, ListFacts DEF ToSet
<1>7. ToSet(t) = S
  <2> HIDE DEF t
  <2> QED BY <1>2, <1>4, <1>5, <1>6
<1> QED BY <1>2, <1>7 DEF IsList

LEMMA InjectiveAppend ==
    ASSUME NEW s, IsList(s), NEW e, IsInjective(s), e \notin ToSet(s)
    PROVE IsInjective(Append(s, e))
<1> DEFINE n == Len(s)
           t == Append(s, e)
<1>1. /\ n \in Nat /\ DOMAIN s = 1..n /\ ToSet(s) = {s[i] : i \in 1..n}
      /\ DOMAIN t = 1..n+1 /\ t[n+1] = e /\ \A i \in 1..n : t[i] = s[i]
  BY ListFacts, ListAppend
<1> HIDE DEF t
<1>2. ASSUME NEW i \in 1..n+1, NEW j \in 1..n+1, t[i] = t[j] PROVE i = j
  <2>1. (i \in 1..n \/ i = n + 1) /\ (j \in 1..n \/ j = n + 1)
    BY <1>1
  <2>2. \A m \in 1..n : s[m] # e
    BY <1>1
  <2>3. \A m, l \in 1..n : s[m] = s[l] => m = l
    BY <1>1 DEF IsInjective
  <2> QED BY <1>1, <1>2, <2>1, <2>2, <2>3
<1>3. IsInjective(t)
  BY <1>1, <1>2 DEF IsInjective
<1> QED BY <1>3 DEF t

LEMMA EmptyList == IsList(<<>>) /\ ToSet(<<>>) = {} /\ Len(<<>>) = 0 /\ IsInjective(<<>>)
<1>1. DOMAIN <<>> = {} /\ Len(<<>>) = 0
  OBVIOUS
<1> QED BY <1>1 DEF IsList, ToSet, IsInjective

LEMMA SeqOfItself ==
    ASSUME NEW S, NEW s \in Seq(S) PROVE s \in Seq(ToSet(s))
<1>1. Len(s) \in Nat /\ DOMAIN s = 1..Len(s) /\ s = [i \in 1..Len(s) |-> s[i]]
  BY LenProperties
<1>2. \A i \in 1..Len(s) : s[i] \in ToSet(s)
  BY <1>1 DEF ToSet
<1> QED BY <1>1, <1>2

LEMMA ListTail ==
    ASSUME NEW s, IsList(s), s # <<>>
    PROVE /\ IsList(Tail(s)) /\ ToSet(s) = ToSet(Tail(s)) \cup {Head(s)}
          /\ IsInjective(s) => IsInjective(Tail(s)) /\ Head(s) \notin ToSet(Tail(s))
<1> DEFINE t == Tail(s)
           n == Len(s)
<1>1. n \in Nat /\ n > 0 /\ DOMAIN s = 1..n /\ s \in Seq(ToSet(s))
  BY ListFacts DEF IsList
<1>2. t \in Seq(ToSet(s)) /\ Len(t) = n - 1 /\ Head(s) = s[1] /\ \A i \in 1..n-1 : t[i] = s[i+1]
  BY <1>1, HeadTailProperties
<1>3. DOMAIN t = 1..n-1
  BY <1>2, LenProperties
<1> HIDE DEF t
<1>4. 1 \in 1..n /\ \A i \in 1..n-1 : i + 1 \in 1..n /\ i + 1 # 1
  BY <1>1
<1>5. ToSet(t) = {t[i] : i \in 1..n-1} /\ ToSet(s) = {s[i] : i \in 1..n}
  BY <1>1, <1>3 DEF ToSet
<1>6. \A i \in 1..n : i = 1 \/ \E j \in 1..n-1 : i = j + 1
  <2>1. \A i \in 1..n : i # 1 => i - 1 \in 1..n-1 /\ i = i - 1 + 1
    BY <1>1
  <2> QED BY <2>1
<1>7. ToSet(s) = ToSet(t) \cup {Head(s)}
  <2>1. ASSUME NEW x \in ToSet(s) PROVE x \in ToSet(t) \cup {Head(s)}
    <3>1. PICK i \in 1..n : x = s[i]
      BY <1>5
    <3>2. CASE i = 1
      BY <1>2, <3>1, <3>2
    <3>3. CASE i # 1
      <4>1. PICK j \in 1..n-1 : i = j + 1
        BY <1>6, <3>3
      <4> QED BY <1>2, <1>5, <3>1, <4>1
    <3> QED BY <3>2, <3>3
  <2>2. ASSUME NEW x \in ToSet(t) PROVE x \in ToSet(s)
    <3>1. PICK i \in 1..n-1 : x = t[i]
      BY <1>5
    <3> QED BY <1>2, <1>4, <1>5, <3>1
  <2>3. Head(s) \in ToSet(s)
    BY <1>2, <1>4, <1>5
  <2> QED BY <2>1, <2>2, <2>3
<1>8. IsList(t)
  BY <1>2, <1>5, SeqOfItself DEF IsList
<1>9. ASSUME IsInjective(s) PROVE IsInjective(t) /\ Head(s) \notin ToSet(t)
  <2>1. \A i, j \in 1..n : s[i] = s[j] => i = j
    BY <1>1, <1>9 DEF IsInjective
  <2>2. ASSUME NEW i \in 1..n-1, NEW j \in 1..n-1, t[i] = t[j] PROVE i = j
    <3>1. s[i+1] = s[j+1] /\ i + 1 \in 1..n /\ j + 1 \in 1..n
      BY <1>2, <1>4, <2>2
    <3>2. i + 1 = j + 1
      BY <2>1, <3>1
    <3> QED BY <3>2
  <2>3. ASSUME NEW i \in 1..n-1 PROVE t[i] # s[1]
    <3>1. t[i] = s[i+1] /\ i + 1 \in 1..n /\ i + 1 # 1
      BY <1>2, <1>4
    <3> QED BY <1>4, <2>1, <3>1
  <2> QED BY <1>2, <1>3, <1>5, <2>2, <2>3 DEF IsInjective
<1> QED BY <1>7, <1>8, <1>9 DEF t

LEMMA ListReverse ==
    ASSUME NEW s, IsList(s)
    PROVE /\ IsList(Reverse(s)) /\ ToSet(Reverse(s)) = ToSet(s)
          /\ IsInjective(s) => IsInjective(Reverse(s))
<1> DEFINE n == Len(s)
           t == Reverse(s)
<1>1. n \in Nat /\ DOMAIN s = 1..n /\ ToSet(s) = {s[i] : i \in 1..n}
  BY ListFacts
<1>2. t = [i \in 1..n |-> s[(n - i) + 1]]
  BY DEF Reverse
<1>3. \A i \in 1..n : (n - i) + 1 \in 1..n /\ (n - ((n - i) + 1)) + 1 = i
  BY <1>1
<1> HIDE DEF t
<1>4. ASSUME NEW i \in 1..n PROVE t[i] \in ToSet(s) /\ s[i] \in {t[j] : j \in 1..n}
  <2>1. PICK k \in 1..n : k = (n - i) + 1 /\ (n - k) + 1 = i
    BY <1>3
  <2> QED BY <1>1, <1>2, <2>1
<1>5. t \in Seq(ToSet(s))
  BY <1>1, <1>2, <1>4
<1>6. ToSet(t) = {t[i] : i \in 1..n}
  BY <1>2 DEF ToSet
<1>7. ToSet(t) = ToSet(s)
  BY <1>1, <1>4, <1>6
<1>8. ASSUME IsInjective(s) PROVE IsInjective(t)
  <2>1. ASSUME NEW i \in 1..n, NEW j \in 1..n, t[i] = t[j] PROVE i = j
    <3>1. s[(n - i) + 1] = s[(n - j) + 1] /\ (n - i) + 1 \in 1..n /\ (n - j) + 1 \in 1..n
      BY <1>2, <1>3, <2>1
    <3>2. (n - i) + 1 = (n - j) + 1
      BY <1>1, <1>8, <3>1 DEF IsInjective
    <3> QED BY <1>1, <3>2
  <2> QED BY <1>2, <2>1 DEF IsInjective
<1> QED BY <1>5, <1>7, <1>8 DEF IsList, t

\* The function of Only, up to i.
Steps(s, T, n, k) ==
    k = [i \in 0..n |-> IF i = 0 THEN <<>> ELSE IF s[i] \in T THEN Append(k[i-1], s[i]) ELSE k[i-1]]

LEMMA StepsExist ==
    ASSUME NEW s, NEW T, NEW n \in Nat
    PROVE \E k : Steps(s, T, n, k)
<1> DEFINE Bad == {m \in Nat : ~ \E k : Steps(s, T, m, k)}
<1>1. SUFFICES ASSUME Bad # {} PROVE FALSE
  OBVIOUS
<1>2. PICK m \in Bad : \A q \in Bad : m <= q
  <2> HIDE DEF Bad
  <2>1. Bad \in SUBSET Nat
    BY DEF Bad
  <2> QED BY <1>1, <2>1, LeastNumber
<1>3. m \in Nat /\ ~ \E k : Steps(s, T, m, k)
  OBVIOUS
<1>4. m # 0
  <2> DEFINE k == [i \in {0} |-> <<>>]
  <2>1. 0..0 = {0}
    OBVIOUS
  <2>2. Steps(s, T, 0, k)
    BY <2>1 DEF Steps
  <2> QED BY <1>3, <2>2
<1>5. PICK p \in Nat : m = p + 1
  <2>1. m - 1 \in Nat /\ m = m - 1 + 1
    BY <1>3, <1>4
  <2> QED BY <2>1
<1>6. PICK h : Steps(s, T, p, h)
  <2>1. p \notin Bad
    BY <1>2, <1>5
  <2> QED BY <2>1
<1> DEFINE k == [i \in 0..m |-> IF i = m THEN IF s[m] \in T THEN Append(h[p], s[m]) ELSE h[p] ELSE h[i]]
           Value(f, i) == IF i = 0 THEN <<>> ELSE IF s[i] \in T THEN Append(f[i-1], s[i]) ELSE f[i-1]
<1>7. ASSUME NEW i \in 0..m PROVE k[i] = Value(k, i)
  <2>1. CASE i = m
    <3>1. i # 0 /\ i - 1 = p /\ p \in 0..m /\ p # m
      BY <1>5, <2>1
    <3>2. k[i] = IF s[m] \in T THEN Append(h[p], s[m]) ELSE h[p]
      BY <2>1
    <3>3. k[p] = h[p]
      BY <3>1
    <3> QED BY <2>1, <3>1, <3>2, <3>3
  <2>2. CASE i # m
    <3>1. i \in 0..p
      BY <1>5, <2>2
    <3>2. k[i] = h[i] /\ h[i] = Value(h, i)
      BY <1>6, <2>2, <3>1 DEF Steps
    <3>3. CASE i = 0
      BY <3>2, <3>3
    <3>4. CASE i # 0
      <4>1. i - 1 \in 0..m /\ i - 1 # m
        BY <1>5, <3>1, <3>4
      <4>2. k[i-1] = h[i-1]
        BY <4>1
      <4> QED BY <3>2, <3>4, <4>2
    <3> QED BY <3>3, <3>4
  <2> QED BY <2>1, <2>2
<1>8. k = [i \in 0..m |-> Value(k, i)]
  <2>1. DOMAIN k = 0..m
    OBVIOUS
  <2>2. k = [i \in 0..m |-> k[i]]
    OBVIOUS
  <2> HIDE DEF k, Value
  <2> QED BY <1>7, <2>2
<1>9. Steps(s, T, m, k)
  <2> HIDE DEF k
  <2> QED BY <1>8, Zenon DEF Steps
<1> QED BY <1>3, <1>9

LEMMA OnlyIsSteps ==
    ASSUME NEW s, NEW T, Len(s) \in Nat
    PROVE \E k : Steps(s, T, Len(s), k) /\ Only(s, T) = k[Len(s)]
<1> DEFINE k == CHOOSE h : Steps(s, T, Len(s), h)
<1>1. Only(s, T) = k[Len(s)]
  BY Zenon DEF Only, Steps
<1>2. \E h : Steps(s, T, Len(s), h)
  BY StepsExist
<1>3. Steps(s, T, Len(s), k)
  BY <1>2, Zenon
<1> QED BY <1>1, <1>3

\* Only keeps what is in the set, and nothing twice.
LEMMA ListOnly ==
    ASSUME NEW s, IsList(s), NEW T
    PROVE /\ IsList(Only(s, T)) /\ ToSet(Only(s, T)) = ToSet(s) \cap T
          /\ IsInjective(s) => IsInjective(Only(s, T))
<1> DEFINE n == Len(s)
<1>1. n \in Nat /\ DOMAIN s = 1..n /\ ToSet(s) = {s[i] : i \in 1..n}
  BY ListFacts
<1>2. PICK k : Steps(s, T, n, k) /\ Only(s, T) = k[n]
  BY <1>1, OnlyIsSteps
<1> DEFINE Kept(i) == /\ IsList(k[i]) /\ ToSet(k[i]) = {s[j] : j \in 1..i} \cap T
                      /\ IsInjective(s) => IsInjective(k[i])
<1>3. k[0] = <<>> /\ \A i \in 1..n : k[i] = IF s[i] \in T THEN Append(k[i-1], s[i]) ELSE k[i-1]
  <2>1. \A i \in 0..n : k[i] = IF i = 0 THEN <<>> ELSE IF s[i] \in T THEN Append(k[i-1], s[i]) ELSE k[i-1]
    BY <1>2 DEF Steps
  <2>2. 0 \in 0..n /\ \A i \in 1..n : i \in 0..n /\ i # 0
    BY <1>1
  <2> QED BY <2>1, <2>2
<1>4. Kept(0)
  <2>1. {s[j] : j \in 1..0} = {}
    OBVIOUS
  <2> QED BY <1>3, <2>1, EmptyList
<1>5. ASSUME NEW i \in 1..n, Kept(i-1) PROVE Kept(i)
  <2> DEFINE old == k[i-1]
  <2>1. /\ IsList(old) /\ ToSet(old) = {s[j] : j \in 1..i-1} \cap T
        /\ IsInjective(s) => IsInjective(old)
    BY <1>5
  <2>2. {s[j] : j \in 1..i} = {s[j] : j \in 1..i-1} \cup {s[i]}
    <3>1. \A j \in 1..i : j \in 1..i-1 \/ j = i
      OBVIOUS
    <3>2. i \in 1..i /\ \A j \in 1..i-1 : j \in 1..i
      OBVIOUS
    <3> QED BY <3>1, <3>2
  <2>3. CASE s[i] \notin T
    <3>1. k[i] = old
      BY <1>3, <2>3
    <3> QED BY <2>1, <2>2, <2>3, <3>1
  <2>4. CASE s[i] \in T
    <3>1. k[i] = Append(old, s[i])
      BY <1>3, <2>4
    <3>2. IsList(k[i]) /\ ToSet(k[i]) = ToSet(old) \cup {s[i]}
      BY <2>1, <3>1, ListAppend
    <3>3. ASSUME IsInjective(s) PROVE IsInjective(k[i])
      <4>1. s[i] \notin {s[j] : j \in 1..i-1}
        <5>1. \A j \in 1..i-1 : j \in 1..n /\ j # i
          BY <1>1
        <5> QED BY <1>1, <3>3, <5>1 DEF IsInjective
      <4>2. s[i] \notin ToSet(old) /\ IsInjective(old)
        BY <2>1, <3>3, <4>1
      <4> HIDE DEF old
      <4> QED BY <2>1, <3>1, <4>2, InjectiveAppend
    <3> QED BY <2>1, <2>2, <2>4, <3>2, <3>3
  <2> QED BY <2>3, <2>4
<1> HIDE DEF Kept
<1>6. Kept(n)
  <2> DEFINE Bad == {m \in 0..n : ~Kept(m)}
  <2>1. SUFFICES ASSUME Bad # {} PROVE FALSE
    BY <1>1
  <2>2. PICK m \in Bad : \A q \in Bad : m <= q
    <3>1. Bad \in SUBSET Nat
      BY <1>1
    <3> HIDE DEF Bad
    <3> QED BY <2>1, <3>1, LeastNumber
  <2>3. m \in 1..n /\ m - 1 \in 0..n /\ ~(m <= m - 1)
    BY <1>1, <1>4, <2>2
  <2>4. Kept(m - 1)
    BY <2>2, <2>3
  <2> QED BY <1>5, <2>2, <2>3, <2>4
<1> QED BY <1>1, <1>2, <1>6 DEF Kept
-----------------------------------------------------------------------------
(* What holds of the results *)

AcceptedBefore(rs, i) == {rs[j].name : j \in {k \in 1..i-1 : rs[k].status = "accepted"}}

Nameless(rs) == {i \in DOMAIN rs : rs[i].name = NoName}

\* One result for each contract, after those it depends on, and at most n reports
\* that the queue is blocked.
ResultsHold(rs, n) ==
    /\ IsList(rs)
    /\ \A i, j \in DOMAIN rs : rs[i].name # NoName /\ rs[i].name = rs[j].name => i = j
    /\ \A i \in DOMAIN rs : rs[i].name # NoName => rs[i].dependencies \subseteq AcceptedBefore(rs, i)
    /\ Cardinality(Nameless(rs)) <= n

Extends(old, new) == Len(old) <= Len(new) /\ \A i \in 1..Len(old) : new[i] = old[i]

LEMMA NamelessFinite ==
    ASSUME NEW rs, IsList(rs)
    PROVE IsFiniteSet(Nameless(rs)) /\ Cardinality(Nameless(rs)) \in Nat
<1>1. IsFiniteSet(1..Len(rs)) /\ DOMAIN rs = 1..Len(rs)
  BY ListFacts, FS_Interval
<1>2. Nameless(rs) \subseteq 1..Len(rs)
  BY <1>1 DEF Nameless
<1> QED BY <1>1, <1>2, FS_Subset, FS_CardinalityType

LEMMA NoResults == ASSUME NEW n \in Nat PROVE ResultsHold(<<>>, n)
<1>1. DOMAIN <<>> = {} /\ Nameless(<<>>) = {} /\ Cardinality({}) = 0
  BY FS_EmptySet DEF Nameless
<1>2. Cardinality(Nameless(<<>>)) <= n
  <2>1. Cardinality(Nameless(<<>>)) = 0
    BY <1>1, Zenon
  <2> QED BY <2>1
<1>3. \A i \in DOMAIN <<>> : FALSE
  BY <1>1
<1> QED BY <1>2, <1>3, EmptyList, Zenon DEF ResultsHold

LEMMA MoreBlocked ==
    ASSUME NEW rs, NEW n \in Nat, ResultsHold(rs, n)
    PROVE ResultsHold(rs, n + 1)
BY NamelessFinite DEF ResultsHold

LEMMA ExtendsItself == ASSUME NEW rs, IsList(rs) PROVE Extends(rs, rs)
BY ListFacts DEF Extends

\* A result that is appended keeps all that.
LEMMA ReportHolds ==
    ASSUME NEW rs, NEW n \in Nat, ResultsHold(rs, n), NEW r,
           r.name # NoName => r.name \notin Completed(rs) /\ r.dependencies \subseteq Accepted(rs)
    PROVE LET new == Append(rs, r) IN
          /\ ResultsHold(new, IF r.name = NoName THEN n + 1 ELSE n)
          /\ Accepted(rs) \subseteq Accepted(new)
          /\ Completed(new) = Completed(rs) \cup ({r.name} \ {NoName})
          /\ r.name = NoName /\ r.status # "accepted" => Accepted(new) = Accepted(rs)
          /\ new # <<>>
          /\ \A old : IsList(old) /\ Extends(old, rs) => Extends(old, new)
<1> DEFINE new == Append(rs, r)
           m == Len(rs)
<1>1. m \in Nat /\ DOMAIN rs = 1..m /\ IsList(rs)
  BY ListFacts DEF ResultsHold
<1>2. IsList(new) /\ Len(new) = m + 1 /\ DOMAIN new = 1..m+1 /\ new[m+1] = r
      /\ \A i \in 1..m : new[i] = rs[i]
  BY <1>1, ListAppend, ListFacts
<1> HIDE DEF new
<1>3. \A i \in 1..m+1 : i \in 1..m \/ i = m + 1
  BY <1>1
<1>4. m + 1 \in 1..m+1 /\ m + 1 \notin 1..m /\ \A i \in 1..m : i \in 1..m+1
  BY <1>1
<1>5. Accepted(rs) \subseteq Accepted(new)
  BY <1>1, <1>2, <1>4 DEF Accepted
<1>6. Completed(new) = Completed(rs) \cup ({r.name} \ {NoName})
  <2>1. {new[i].name : i \in 1..m+1} = {rs[i].name : i \in 1..m} \cup {r.name}
    BY <1>2, <1>3, <1>4
  <2> QED BY <1>1, <1>2, <2>1 DEF Completed
<1>7. r.status # "accepted" => Accepted(new) = Accepted(rs)
  BY <1>1, <1>2, <1>3, <1>4 DEF Accepted
<1>8. new # <<>>
  BY <1>1, <1>2, ListFacts
<1>9. ASSUME NEW old, IsList(old), Extends(old, rs) PROVE Extends(old, new)
  <2>1. Len(old) \in Nat /\ Len(old) <= m /\ \A i \in 1..Len(old) : rs[i] = old[i]
    BY <1>9, ListFacts DEF Extends
  <2>2. \A i \in 1..Len(old) : i \in 1..m
    BY <1>1, <2>1
  <2>3. Len(old) <= m + 1
    BY <1>1, <2>1
  <2> QED BY <1>2, <2>1, <2>2, <2>3 DEF Extends
<1>10. ASSUME NEW i \in 1..m+1, NEW j \in 1..m+1, new[i].name # NoName, new[i].name = new[j].name
       PROVE i = j
  <2>1. \A k, l \in 1..m : rs[k].name # NoName /\ rs[k].name = rs[l].name => k = l
    BY <1>1 DEF ResultsHold
  <2>2. r.name # NoName => \A k \in 1..m : rs[k].name # r.name
    BY <1>1 DEF Completed
  <2>3. CASE i \in 1..m /\ j \in 1..m
    BY <1>2, <1>10, <2>1, <2>3
  <2>4. CASE i = m + 1 /\ j \in 1..m
    BY <1>2, <1>10, <2>2, <2>4
  <2>5. CASE i \in 1..m /\ j = m + 1
    BY <1>2, <1>10, <2>2, <2>5
  <2> QED BY <1>3, <2>3, <2>4, <2>5
<1>11. ASSUME NEW i \in 1..m+1, new[i].name # NoName
       PROVE new[i].dependencies \subseteq AcceptedBefore(new, i)
  <2>1. \A k \in 1..i-1 : k \in 1..m
    BY <1>1
  <2>2. AcceptedBefore(new, i) = AcceptedBefore(rs, i)
    BY <1>2, <2>1 DEF AcceptedBefore
  <2>3. CASE i \in 1..m
    BY <1>1, <1>2, <1>11, <2>2, <2>3 DEF ResultsHold
  <2>4. CASE i = m + 1
    <3>1. 1..i-1 = 1..m
      BY <1>1, <2>4
    <3>2. AcceptedBefore(rs, i) = Accepted(rs)
      BY <1>1, <3>1 DEF AcceptedBefore, Accepted
    <3> QED BY <1>2, <1>11, <2>2, <2>4, <3>2
  <2> QED BY <1>3, <2>3, <2>4
<1>12. Cardinality(Nameless(new)) <= IF r.name = NoName THEN n + 1 ELSE n
  <2>1. IsFiniteSet(Nameless(rs)) /\ Cardinality(Nameless(rs)) \in Nat /\ Cardinality(Nameless(rs)) <= n
    BY <1>1, NamelessFinite DEF ResultsHold
  <2>2. CASE r.name = NoName
    <3>1. Nameless(new) = Nameless(rs) \cup {m + 1}
      BY <1>1, <1>2, <1>3, <1>4, <2>2 DEF Nameless
    <3>2. m + 1 \notin Nameless(rs)
      BY <1>1, <1>4 DEF Nameless
    <3>3. Cardinality(Nameless(new)) = Cardinality(Nameless(rs)) + 1
      BY <2>1, <3>1, <3>2, FS_AddElement
    <3> QED BY <2>1, <2>2, <3>3
  <2>3. CASE r.name # NoName
    <3>1. Nameless(new) = Nameless(rs)
      BY <1>1, <1>2, <1>3, <1>4, <2>3 DEF Nameless
    <3> QED BY <2>1, <2>3, <3>1
  <2> QED BY <2>2, <2>3
<1>13. ResultsHold(new, IF r.name = NoName THEN n + 1 ELSE n)
  BY <1>2, <1>10, <1>11, <1>12 DEF ResultsHold
<1> QED BY <1>5, <1>6, <1>7, <1>8, <1>9, <1>13 DEF new
-----------------------------------------------------------------------------
(* The invariant of a specification *)

Stages == {"plan", "queue", "work", "repair", "integrate", "generate", "gates", "save", "done"}

\* The contract that was sent to the worker.
InHand == IF stage \in {"work", "repair"} THEN {work.name} ELSE {}
Waiting == ToSet(ready) \cup ToSet(blocked)

SpecShape ==
    /\ stage \in Stages /\ resumes \in Nat
    /\ plan \in Plans \cup {NoPlan}
    /\ work \in [name : ToSet(plan.queue) \cup {NoName}, valid : BOOLEAN, small : Nat, architect : Nat]
    /\ stage \in {"work", "repair"} => work.name \in ToSet(plan.queue)
    /\ stage = "plan" => plan = NoPlan /\ work = NoWork /\ results = <<>> /\ ready = <<>> /\ blocked = <<>>

\* What waits and what is in hand is different, and has no result yet.
PlacesHold ==
    /\ IsList(ready) /\ IsInjective(ready) /\ IsList(blocked) /\ IsInjective(blocked)
    /\ ToSet(ready) \cap ToSet(blocked) = {} /\ Waiting \cap InHand = {}
    /\ Waiting \cup InHand \subseteq ToSet(plan.queue) \ Completed(results)

\* Whoever has no result waits or is in hand; what is left at the end may not be sent.
NobodyIsLost ==
    /\ stage \in {"queue", "work", "repair"} =>
          ToSet(plan.queue) \subseteq Completed(results) \cup Waiting \cup InHand
    /\ stage \in {"integrate", "generate", "gates", "save"} =>
          \A c \in ToSet(plan.queue) : c \in Completed(results) \/ ~MaySend(c)

SentInOrder == stage \in {"work", "repair"} => MaySend(work.name)

\* The end of the queue has been reported once more than the run was resumed.
Reported == ResultsHold(results, IF stage \in {"plan", "queue", "work", "repair"} THEN resumes ELSE resumes + 1)

StoredHolds ==
    stored # NoName =>
        /\ stored = [phase |-> stored.phase, results |-> stored.results]
        /\ stored.results = <<>> => stored.phase = "terminal"
        /\ ResultsHold(stored.results, IF stage = "plan" THEN resumes ELSE resumes + 1)
        /\ stage # "plan" /\ plan # NoPlan => Extends(stored.results, results)

SpecInv == SpecShape /\ PlacesHold /\ NobodyIsLost /\ SentInOrder /\ Reported /\ StoredHolds

LEMMA PlanIs ==
    ASSUME NEW p \in Plans \cup {NoPlan}
    PROVE /\ IsList(p.queue) /\ IsInjective(p.queue) /\ NoName \notin ToSet(p.queue)
          /\ p \in Plans => DOMAIN p.requires = ToSet(p.queue)
<1>1. CASE p \in Plans
  BY <1>1, StructuredSpecAssumption DEF IsList
<1>2. CASE p = NoPlan
  <2>1. p.queue = <<>>
    BY <1>2 DEF NoPlan
  <2>2. NoPlan \in Plans => DOMAIN NoPlan.requires = ToSet(NoPlan.queue)
    BY StructuredSpecAssumption
  <2> QED BY <1>2, <2>1, <2>2, EmptyList
<1> QED BY <1>1, <1>2

LEMMA SpecInitHolds == ASSUME SpecInit PROVE SpecInv
<1> USE DEF SpecInit
<1>1. SpecShape
  BY DEF SpecShape, Stages, NoWork, NoPlan
<1>3. InHand = {} /\ Waiting = {}
  BY EmptyList DEF InHand, Waiting
<1>4. PlacesHold
  BY <1>3, EmptyList DEF PlacesHold
<1>5. NobodyIsLost /\ SentInOrder /\ StoredHolds
  BY DEF NobodyIsLost, SentInOrder, StoredHolds
<1>6. Reported
  BY NoResults DEF Reported
<1> QED BY <1>1, <1>4, <1>5, <1>6 DEF SpecInv
-----------------------------------------------------------------------------
LEMMA EmptyPlan == ToSet(NoPlan.queue) = {}
<1>1. NoPlan.queue = <<>>
  BY DEF NoPlan
<1> QED BY <1>1, EmptyList

\* What is loaded is in order, and so is the state before planning.
LEMMA LoadedHolds ==
    ASSUME SpecInv, stage = "plan"
    PROVE ResultsHold(Loaded, resumes) /\ (stored # NoName => Loaded = stored.results)
<1>1. CASE stored = NoName
  BY <1>1, NoResults DEF Loaded, SpecInv, SpecShape
<1>2. CASE stored # NoName
  BY <1>2 DEF Loaded, SpecInv, StoredHolds
<1> QED BY <1>1, <1>2

LEMMA PlanHolds == ASSUME SpecInv, Plan PROVE SpecInv'
<1>1. /\ stage = "plan" /\ stage' = "queue" /\ work = NoWork /\ work' = NoWork
      /\ blocked' = <<>> /\ results' = Loaded /\ stored' = stored /\ resumes' = resumes /\ resumes \in Nat
  BY DEF Plan, SpecInv, SpecShape
<1>2. PICK p \in Plans : plan' = p /\ ready' = Pending(p.queue, Loaded)
  BY DEF Plan
<1>3. IsList(p.queue) /\ IsInjective(p.queue)
  BY PlanIs
<1>4. /\ IsList(ready') /\ IsInjective(ready')
      /\ ToSet(ready') = ToSet(p.queue) \ Completed(Loaded)
  BY <1>2, <1>3, ListOnly DEF Pending
<1>5. ResultsHold(Loaded, resumes) /\ (stored # NoName => Loaded = stored.results)
  BY <1>1, LoadedHolds
<1>6. Waiting' = ToSet(p.queue) \ Completed(results') /\ InHand' = {}
  BY <1>1, <1>4, EmptyList DEF Waiting, InHand
<1>7. SpecShape'
  BY <1>1, <1>2 DEF SpecShape, Stages, NoWork
<1>8. PlacesHold'
  BY <1>1, <1>2, <1>4, <1>6, EmptyList DEF PlacesHold
<1>9. NobodyIsLost' /\ SentInOrder'
  BY <1>1, <1>2, <1>6 DEF NobodyIsLost, SentInOrder
<1>10. Reported'
  BY <1>1, <1>5 DEF Reported
<1>11. StoredHolds'
  <2>1. SUFFICES ASSUME stored # NoName PROVE StoredHolds'
    BY <1>1 DEF StoredHolds
  <2>2. ResultsHold(stored.results, resumes + 1) /\ IsList(stored.results)
    BY <1>1, <1>5, <2>1, MoreBlocked DEF ResultsHold
  <2>3. Extends(stored.results, results')
    BY <1>1, <1>5, <2>1, <2>2, ExtendsItself
  <2> QED BY <1>1, <2>1, <2>2, <2>3 DEF SpecInv, StoredHolds
<1> QED BY <1>7, <1>8, <1>9, <1>10, <1>11 DEF SpecInv

LEMMA PlanOnlyHolds == ASSUME SpecInv, PlanOnly PROVE SpecInv'
<1>1. /\ stage = "plan" /\ stage' = "done" /\ stored = NoName /\ stored' = NoName
      /\ UNCHANGED <<plan, ready, blocked, work, results, resumes>> /\ resumes \in Nat
  BY DEF PlanOnly, SpecInv, SpecShape
<1>2. InHand = {} /\ InHand' = {} /\ Waiting' = Waiting /\ Completed(results') = Completed(results)
  BY <1>1 DEF InHand, Waiting
<1>3. SpecShape'
  BY <1>1 DEF SpecInv, SpecShape, Stages
<1>4. PlacesHold'
  BY <1>1, <1>2 DEF SpecInv, PlacesHold
<1>5. NobodyIsLost' /\ SentInOrder' /\ StoredHolds'
  BY <1>1 DEF NobodyIsLost, SentInOrder, StoredHolds
<1>6. Reported'
  BY <1>1, MoreBlocked DEF SpecInv, Reported
<1> QED BY <1>3, <1>4, <1>5, <1>6 DEF SpecInv

LEMMA BulkHolds == ASSUME SpecInv, Bulk PROVE SpecInv'
<1>1. /\ stage = "plan" /\ stage' = "generate" /\ plan = NoPlan /\ plan' = NoPlan /\ results = <<>>
      /\ UNCHANGED <<ready, blocked, work, results, stored, resumes>> /\ resumes \in Nat
  BY DEF Bulk, SpecInv, SpecShape
<1>2. InHand = {} /\ InHand' = {} /\ Waiting' = Waiting /\ Completed(results') = Completed(results)
  BY <1>1 DEF InHand, Waiting
<1>3. SpecShape'
  BY <1>1 DEF SpecInv, SpecShape, Stages
<1>4. PlacesHold'
  BY <1>1, <1>2 DEF SpecInv, PlacesHold
<1>5. NobodyIsLost' /\ SentInOrder'
  BY <1>1, EmptyPlan DEF NobodyIsLost, SentInOrder
<1>6. Reported'
  BY <1>1, MoreBlocked DEF SpecInv, Reported
<1>7. StoredHolds'
  <2>1. SUFFICES ASSUME stored # NoName PROVE StoredHolds'
    BY <1>1 DEF StoredHolds
  <2>2. ResultsHold(stored.results, resumes + 1)
    BY <1>1, <2>1, LoadedHolds, MoreBlocked
  <2> QED BY <1>1, <2>1, <2>2 DEF SpecInv, StoredHolds
<1> QED BY <1>3, <1>4, <1>5, <1>6, <1>7 DEF SpecInv

LEMMA ResumeSpecHolds == ASSUME SpecInv, ResumeSpec PROVE SpecInv'
<1>1. /\ stage # "plan" /\ stage' = "plan" /\ plan' = NoPlan /\ ready' = <<>> /\ blocked' = <<>>
      /\ work' = NoWork /\ results' = <<>> /\ stored' = stored /\ resumes' = resumes + 1 /\ resumes \in Nat
  BY DEF ResumeSpec, SpecInv, SpecShape
<1>2. InHand' = {} /\ Waiting' = {}
  BY <1>1, EmptyList DEF InHand, Waiting
<1>3. SpecShape'
  BY <1>1 DEF SpecShape, Stages, NoWork
<1>4. PlacesHold'
  BY <1>1, <1>2, EmptyList DEF PlacesHold
<1>5. NobodyIsLost' /\ SentInOrder'
  BY <1>1 DEF NobodyIsLost, SentInOrder
<1>6. Reported'
  BY <1>1, NoResults DEF Reported
<1>7. StoredHolds'
  BY <1>1 DEF SpecInv, StoredHolds
<1> QED BY <1>3, <1>4, <1>5, <1>6, <1>7 DEF SpecInv

\* What the queue does with its contracts leaves the rest as it is.
LEMMA QueueStep ==
    ASSUME SpecInv, stage = "queue", stage' \in {"queue", "work"},
           UNCHANGED <<plan, results, stored, resumes>>, PlacesHold',
           work' \in [name : ToSet(plan.queue) \cup {NoName}, valid : BOOLEAN, small : Nat, architect : Nat],
           stage' = "work" => work'.name \in ToSet(plan.queue) /\ MaySend(work'.name),
           Waiting \cup InHand = (Waiting \cup InHand)'
    PROVE SpecInv'
<1>1. SpecShape'
  BY DEF SpecInv, SpecShape, Stages
<1>2. MaySend(work'.name) <=> MaySend(work.name)'
  BY DEF MaySend
<1>3. SentInOrder'
  BY <1>2 DEF SentInOrder
<1>4. NobodyIsLost'
  BY DEF SpecInv, NobodyIsLost
<1>5. Reported' /\ StoredHolds'
  BY DEF SpecInv, Reported, StoredHolds
<1> QED BY <1>1, <1>3, <1>4, <1>5 DEF SpecInv

LEMMA SendHolds == ASSUME SpecInv, Send PROVE SpecInv'
<1> DEFINE c == Head(ready)
<1>1. /\ stage = "queue" /\ stage' = "work" /\ ready # <<>> /\ MaySend(c)
      /\ work' = [name |-> c, valid |-> FALSE, small |-> SmallRetries, architect |-> ArchitectRetries]
      /\ ready' = Tail(ready) /\ UNCHANGED <<plan, blocked, results, stored, resumes>>
  BY DEF Send
<1>2. /\ IsList(ready') /\ IsInjective(ready') /\ ToSet(ready) = ToSet(ready') \cup {c} /\ c \notin ToSet(ready')
  BY <1>1, ListTail DEF SpecInv, PlacesHold
<1> HIDE DEF c
<1>3. InHand = {} /\ InHand' = {c} /\ Waiting = Waiting' \cup {c}
  BY <1>1, <1>2 DEF InHand, Waiting
<1>4. c \in ToSet(plan.queue) /\ c \notin ToSet(blocked)
  BY <1>2 DEF SpecInv, PlacesHold, Waiting
<1>5. PlacesHold'
  BY <1>1, <1>2, <1>3, <1>4 DEF SpecInv, PlacesHold, Waiting
<1>6. work'.name = c /\ work' \in [name : ToSet(plan.queue) \cup {NoName}, valid : BOOLEAN, small : Nat, architect : Nat]
  BY <1>1, <1>4, StructuredSpecAssumption
<1> QED BY <1>1, <1>3, <1>4, <1>5, <1>6, QueueStep

LEMMA PushHolds == ASSUME SpecInv, PushToStack PROVE SpecInv'
<1> DEFINE c == Head(ready)
<1>1. /\ stage = "queue" /\ stage' = "queue" /\ ready # <<>> /\ blocked' = Append(blocked, c)
      /\ ready' = Tail(ready) /\ UNCHANGED <<plan, work, results, stored, resumes>>
  BY DEF PushToStack
<1>2. /\ IsList(ready') /\ IsInjective(ready') /\ ToSet(ready) = ToSet(ready') \cup {c} /\ c \notin ToSet(ready')
  BY <1>1, ListTail DEF SpecInv, PlacesHold
<1> HIDE DEF c
<1>3. c \notin ToSet(blocked)
  BY <1>2 DEF SpecInv, PlacesHold
<1>4. IsList(blocked') /\ IsInjective(blocked') /\ ToSet(blocked') = ToSet(blocked) \cup {c}
  BY <1>1, <1>3, ListAppend, InjectiveAppend DEF SpecInv, PlacesHold
<1>5. InHand = {} /\ InHand' = {} /\ Waiting' = Waiting
  BY <1>1, <1>2, <1>4 DEF InHand, Waiting
<1>6. ToSet(ready') \cap ToSet(blocked') = {}
  BY <1>2, <1>4 DEF SpecInv, PlacesHold
<1>7. PlacesHold'
  BY <1>1, <1>2, <1>4, <1>5, <1>6 DEF SpecInv, PlacesHold
<1> QED BY <1>1, <1>5, <1>7, QueueStep DEF SpecInv, SpecShape

LEMMA UnblockHolds == ASSUME SpecInv, Unblock PROVE SpecInv'
<1> DEFINE free == {c \in ToSet(blocked) : MaySend(c)}
           up == Only(blocked, free)
<1>1. /\ stage = "queue" /\ stage' = "queue" /\ ready = <<>> /\ ready' = Reverse(up)
      /\ blocked' = Only(blocked, ToSet(blocked) \ free)
      /\ UNCHANGED <<plan, work, results, stored, resumes>>
  BY DEF Unblock
<1>2. IsList(up) /\ IsInjective(up) /\ ToSet(up) = free
  BY ListOnly DEF SpecInv, PlacesHold
<1>3. IsList(blocked') /\ IsInjective(blocked') /\ ToSet(blocked') = ToSet(blocked) \ free
  BY <1>1, ListOnly DEF SpecInv, PlacesHold
<1>4. IsList(ready') /\ IsInjective(ready') /\ ToSet(ready') = free
  <2> HIDE DEF up, free
  <2> QED BY <1>1, <1>2, ListReverse
<1>5. ToSet(ready) = {} /\ free \subseteq ToSet(blocked)
  BY <1>1, EmptyList
<1> HIDE DEF free
<1>6. InHand = {} /\ InHand' = {} /\ Waiting' = Waiting
  BY <1>1, <1>3, <1>4, <1>5 DEF InHand, Waiting
<1>7. PlacesHold'
  BY <1>1, <1>3, <1>4, <1>6 DEF SpecInv, PlacesHold
<1> QED BY <1>1, <1>6, <1>7, QueueStep DEF SpecInv, SpecShape
-----------------------------------------------------------------------------
(* Reporting *)

LEMMA Reporting ==
    ASSUME SpecInv, stage \in {"queue", "work", "repair"}, stage' \in {"queue", "integrate"},
           NEW name, NEW s, Report(name, s), resumes' = resumes,
           name = NoName => stage' = "integrate" /\ s # "accepted",
           name # NoName => name \notin Completed(results) /\ MaySend(name)
    PROVE /\ Reported' /\ StoredHolds'
          /\ Accepted(results) \subseteq Accepted(results')
          /\ name = NoName => Accepted(results') = Accepted(results)
          /\ Completed(results') = Completed(results) \cup ({name} \ {NoName})
<1> DEFINE r == Result(name, s)
<1>1. /\ results' = Append(results, r) /\ resumes \in Nat
      /\ stored' = [phase |-> "contract_queue", results |-> results']
  BY DEF Report, SpecInv, SpecShape
<1>2. r.name = name /\ r.status = s /\ (name # NoName => r.dependencies = plan.requires[name])
  BY DEF Result
<1> HIDE DEF r
<1>3. ResultsHold(results, resumes)
  BY DEF SpecInv, Reported
<1>4. name # NoName => r.dependencies \subseteq Accepted(results)
  BY <1>2 DEF MaySend
<1>5. /\ ResultsHold(results', IF name = NoName THEN resumes + 1 ELSE resumes)
      /\ Accepted(results) \subseteq Accepted(results')
      /\ name = NoName => Accepted(results') = Accepted(results)
      /\ Completed(results') = Completed(results) \cup ({name} \ {NoName})
      /\ results' # <<>>
  BY <1>1, <1>2, <1>3, <1>4, ReportHolds
<1>6. ResultsHold(results', resumes + 1)
  BY <1>1, <1>5, MoreBlocked
<1>7. Reported'
  BY <1>5, <1>6 DEF Reported
<1>8. Extends(results', results')
  BY <1>6, ExtendsItself DEF ResultsHold
<1>9. stored'.results = results' /\ stored'.phase = "contract_queue"
  BY <1>1
<1>10. StoredHolds'
  BY <1>1, <1>5, <1>6, <1>8, <1>9 DEF StoredHolds
<1> QED BY <1>5, <1>7, <1>10

\* The result of the contract in hand.
LEMMA WorkReported ==
    ASSUME SpecInv, stage \in {"work", "repair"}, NEW s, Report(work.name, s),
           stage' = "queue", work' = NoWork, UNCHANGED <<plan, ready, blocked, resumes>>
    PROVE SpecInv'
<1> DEFINE c == work.name
<1>1. c \in ToSet(plan.queue) /\ MaySend(c) /\ plan \in Plans \cup {NoPlan} /\ resumes \in Nat
  BY DEF SpecInv, SpecShape, SentInOrder
<1>2. c # NoName
  BY <1>1, PlanIs
<1>3. InHand = {c} /\ InHand' = {} /\ Waiting' = Waiting
  BY DEF InHand, Waiting
<1>4. c \notin Completed(results) /\ c \notin Waiting
  BY <1>3 DEF SpecInv, PlacesHold
<1>5. Reported' /\ StoredHolds' /\ Completed(results') = Completed(results) \cup {c}
  BY <1>1, <1>2, <1>4, Reporting
<1>6. SpecShape'
  BY <1>1 DEF SpecShape, Stages, NoWork
<1>7. PlacesHold'
  BY <1>3, <1>4, <1>5 DEF SpecInv, PlacesHold
<1>8. NobodyIsLost' /\ SentInOrder'
  BY <1>3, <1>5 DEF SpecInv, NobodyIsLost, SentInOrder
<1> QED BY <1>5, <1>6, <1>7, <1>8 DEF SpecInv

LEMMA EndQueueHolds == ASSUME SpecInv, EndQueue PROVE SpecInv'
<1>1. /\ stage = "queue" /\ stage' = "integrate" /\ ready = <<>> /\ ToSet(ready) = {}
      /\ \A c \in ToSet(blocked) : ~MaySend(c)
      /\ UNCHANGED <<plan, ready, blocked, work, resumes>> /\ resumes \in Nat
  BY EmptyList DEF EndQueue, SpecInv, SpecShape, ToSet
<1>2. InHand = {} /\ InHand' = {} /\ Waiting' = Waiting
  BY <1>1 DEF InHand, Waiting
<1>3. \A c \in ToSet(plan.queue) : c \in Completed(results) \/ ~MaySend(c)
  BY <1>1, <1>2 DEF SpecInv, NobodyIsLost, Waiting
<1>4. /\ Reported' /\ StoredHolds' /\ Completed(results') = Completed(results)
      /\ Accepted(results') = Accepted(results)
  <2>1. CASE blocked = <<>>
    <3>1. results' = results /\ stored' = stored
      BY <2>1 DEF EndQueue
    <3>2. Reported'
      BY <1>1, <3>1, MoreBlocked DEF SpecInv, Reported
    <3>3. StoredHolds'
      BY <1>1, <3>1 DEF SpecInv, StoredHolds
    <3> QED BY <3>1, <3>2, <3>3
  <2>2. CASE blocked # <<>>
    <3>1. Report(NoName, "dependency_blocked")
      BY <2>2 DEF EndQueue
    <3> QED BY <1>1, <3>1, Reporting
  <2> QED BY <2>1, <2>2
<1>5. \A c : MaySend(c)' <=> MaySend(c)
  BY <1>1, <1>4 DEF MaySend
<1>6. SpecShape'
  BY <1>1 DEF SpecInv, SpecShape, Stages
<1>7. PlacesHold'
  BY <1>1, <1>2, <1>4 DEF SpecInv, PlacesHold
<1>8. NobodyIsLost' /\ SentInOrder'
  BY <1>1, <1>3, <1>4, <1>5 DEF NobodyIsLost, SentInOrder
<1> QED BY <1>4, <1>6, <1>7, <1>8 DEF SpecInv

\* Work on the contract in hand leaves the queue as it is.
LEMMA WorkStep ==
    ASSUME SpecInv, stage \in {"work", "repair"}, stage' = "repair",
           UNCHANGED <<plan, ready, blocked, results, stored, resumes>>,
           NEW v \in BOOLEAN, NEW m \in Nat, NEW a \in Nat,
           work' = [name |-> work.name, valid |-> v, small |-> m, architect |-> a]
    PROVE SpecInv'
<1>1. work'.name = work.name /\ InHand' = InHand /\ Waiting' = Waiting
  BY DEF InHand, Waiting
<1>2. SpecShape'
  BY DEF SpecInv, SpecShape, Stages
<1>3. PlacesHold'
  BY <1>1 DEF SpecInv, PlacesHold
<1>4. NobodyIsLost'
  BY <1>1 DEF SpecInv, NobodyIsLost
<1>5. SentInOrder'
  BY <1>1 DEF SpecInv, SentInOrder, MaySend
<1>6. Reported' /\ StoredHolds'
  BY DEF SpecInv, Reported, StoredHolds
<1> QED BY <1>2, <1>3, <1>4, <1>5, <1>6 DEF SpecInv

LEMMA IsBoolean == \A v \in Validations : v \in BOOLEAN
BY DEF Validations
-----------------------------------------------------------------------------
LEMMA WorkIs ==
    ASSUME SpecInv
    PROVE /\ work = [name |-> work.name, valid |-> work.valid, small |-> work.small, architect |-> work.architect]
          /\ work.valid \in BOOLEAN /\ work.small \in Nat /\ work.architect \in Nat
BY DEF SpecInv, SpecShape

LEMMA GenerateHolds == ASSUME SpecInv, Generate PROVE SpecInv'
<1>1. stage = "work" /\ UNCHANGED <<plan, ready, blocked, resumes>>
  BY DEF Generate, Working
<1>2. \/ Report(work.name, "backend_failed") /\ stage' = "queue" /\ work' = NoWork
      \/ \E valid \in Validations :
            work' = [work EXCEPT !.valid = valid] /\ stage' = "repair" /\ UNCHANGED <<results, stored>>
  BY Zenon DEF Generate
<1>3. CASE Report(work.name, "backend_failed") /\ stage' = "queue" /\ work' = NoWork
  BY <1>1, <1>3, WorkReported
<1>4. ASSUME NEW valid \in Validations,
             work' = [work EXCEPT !.valid = valid], stage' = "repair", UNCHANGED <<results, stored>>
      PROVE SpecInv'
  <2>1. work' = [name |-> work.name, valid |-> valid, small |-> work.small, architect |-> work.architect]
    BY <1>4, WorkIs
  <2> QED BY <1>1, <1>4, <2>1, IsBoolean, WorkIs, WorkStep
<1> QED BY <1>2, <1>3, <1>4

LEMMA SmallRepairHolds == ASSUME SpecInv, SmallRepair PROVE SpecInv'
<1>1. /\ stage = "repair" /\ stage' = "repair" /\ UNCHANGED <<plan, ready, blocked, resumes, results, stored>>
      /\ work.small > 0
  BY DEF SmallRepair, RepairingContract
<1>2. \/ work' = [work EXCEPT !.small = 0]
      \/ \E valid \in Validations : work' = [work EXCEPT !.small = @ - 1, !.valid = valid]
  BY DEF SmallRepair
<1>3. CASE work' = [work EXCEPT !.small = 0]
  <2>1. work' = [name |-> work.name, valid |-> work.valid, small |-> 0, architect |-> work.architect]
    BY <1>3, WorkIs
  <2> QED BY <1>1, <2>1, WorkIs, WorkStep
<1>4. ASSUME NEW valid \in Validations, work' = [work EXCEPT !.small = @ - 1, !.valid = valid] PROVE SpecInv'
  <2>1. work' = [name |-> work.name, valid |-> valid, small |-> work.small - 1, architect |-> work.architect]
    BY <1>4, WorkIs
  <2>2. work.small - 1 \in Nat
    BY <1>1, WorkIs
  <2> QED BY <1>1, <2>1, <2>2, IsBoolean, WorkIs, WorkStep
<1> QED BY <1>2, <1>3, <1>4

LEMMA ArchitectRepairHolds == ASSUME SpecInv, ArchitectRepair PROVE SpecInv'
<1>1. /\ stage = "repair" /\ stage' = "repair" /\ UNCHANGED <<plan, ready, blocked, resumes, results, stored>>
      /\ work.architect > 0
  BY DEF ArchitectRepair, RepairingContract
<1>2. \/ work' = [work EXCEPT !.architect = 0]
      \/ \E valid \in Validations : work' = [work EXCEPT !.architect = @ - 1, !.valid = valid]
  BY DEF ArchitectRepair
<1>3. CASE work' = [work EXCEPT !.architect = 0]
  <2>1. work' = [name |-> work.name, valid |-> work.valid, small |-> work.small, architect |-> 0]
    BY <1>3, WorkIs
  <2> QED BY <1>1, <2>1, WorkIs, WorkStep
<1>4. ASSUME NEW valid \in Validations, work' = [work EXCEPT !.architect = @ - 1, !.valid = valid] PROVE SpecInv'
  <2>1. work' = [name |-> work.name, valid |-> valid, small |-> work.small, architect |-> work.architect - 1]
    BY <1>4, WorkIs
  <2>2. work.architect - 1 \in Nat
    BY <1>1, WorkIs
  <2> QED BY <1>1, <2>1, <2>2, IsBoolean, WorkIs, WorkStep
<1> QED BY <1>2, <1>3, <1>4

LEMMA SettleHolds == ASSUME SpecInv, Settle PROVE SpecInv'
BY WorkReported DEF Settle

\* The steps after the queue leave what it did as it is.
LEMMA DeliverStep ==
    ASSUME SpecInv, stage \in {"integrate", "generate", "gates"}, stage' \in {"generate", "gates", "save"},
           UNCHANGED <<plan, ready, blocked, work, results, stored, resumes>>
    PROVE SpecInv'
<1>1. InHand' = InHand /\ Waiting' = Waiting
  BY DEF InHand, Waiting
<1>2. SpecShape'
  BY DEF SpecInv, SpecShape, Stages
<1>3. PlacesHold'
  BY <1>1 DEF SpecInv, PlacesHold
<1>4. NobodyIsLost' /\ SentInOrder'
  BY DEF SpecInv, NobodyIsLost, SentInOrder, MaySend
<1>5. Reported' /\ StoredHolds'
  BY DEF SpecInv, Reported, StoredHolds
<1> QED BY <1>2, <1>3, <1>4, <1>5 DEF SpecInv

LEMMA DeliverHolds ==
    ASSUME SpecInv, Integrate \/ RunController \/ FinalGates
    PROVE SpecInv'
<1>1. CASE Integrate
  BY <1>1, DeliverStep DEF Integrate, Ends
<1>2. CASE RunController
  BY <1>2, DeliverStep DEF RunController, Ends
<1>3. CASE FinalGates
  BY <1>3, DeliverStep DEF FinalGates, Ends
<1> QED BY <1>1, <1>2, <1>3

LEMMA SaveHolds == ASSUME SpecInv, Save PROVE SpecInv'
<1>1. /\ stage = "save" /\ stage' = "done" /\ UNCHANGED <<plan, ready, blocked, work, results, resumes>>
      /\ stored' = [phase |-> "terminal", results |-> results'] /\ resumes \in Nat
  BY DEF Save, SpecInv, SpecShape
<1>2. InHand' = InHand /\ Waiting' = Waiting
  BY <1>1 DEF InHand, Waiting
<1>3. SpecShape'
  BY <1>1 DEF SpecInv, SpecShape, Stages
<1>4. PlacesHold'
  BY <1>1, <1>2 DEF SpecInv, PlacesHold
<1>5. NobodyIsLost' /\ SentInOrder'
  BY <1>1 DEF NobodyIsLost, SentInOrder
<1>6. Reported' /\ ResultsHold(results', resumes + 1)
  BY <1>1 DEF SpecInv, Reported
<1>7. Extends(results', results')
  BY <1>6, ExtendsItself DEF ResultsHold
<1>8. stored'.results = results' /\ stored'.phase = "terminal"
  BY <1>1
<1>9. StoredHolds'
  BY <1>1, <1>6, <1>7, <1>8 DEF StoredHolds
<1> QED BY <1>3, <1>4, <1>5, <1>6, <1>9 DEF SpecInv

LEMMA SpecNextHolds == ASSUME SpecInv, SpecNext PROVE SpecInv'
<1>1. CASE Queue
  BY <1>1, SendHolds, PushHolds, UnblockHolds, EndQueueHolds DEF Queue
<1>2. CASE Implement
  BY <1>2, GenerateHolds, SmallRepairHolds, ArchitectRepairHolds, SettleHolds DEF Implement
<1>3. CASE Deliver
  BY <1>3, DeliverHolds, SaveHolds DEF Deliver
<1> QED BY <1>1, <1>2, <1>3, PlanHolds, PlanOnlyHolds, BulkHolds, ResumeSpecHolds DEF SpecNext
-----------------------------------------------------------------------------
(* What it implies *)

LEMMA OneResultFollows == ASSUME SpecInv PROVE OneResultPerContract
<1>1. resumes \in Nat /\ IsList(results)
  BY DEF SpecInv, SpecShape, Reported, ResultsHold
<1>2. ResultsHold(results, resumes + 1)
  BY <1>1, MoreBlocked DEF SpecInv, Reported
<1> QED BY <1>2 DEF ResultsHold, Nameless, OneResultPerContract

LEMMA BeforeIs ==
    ASSUME NEW rs, IsList(rs), NEW i \in DOMAIN rs
    PROVE Accepted(SubSeq(rs, 1, i-1)) = AcceptedBefore(rs, i)
<1> DEFINE t == SubSeq(rs, 1, i-1)
<1>1. Len(rs) \in Nat /\ i \in 1..Len(rs) /\ rs \in Seq(ToSet(rs))
  BY ListFacts DEF IsList
<1>2. DOMAIN t = 1..i-1 /\ \A k \in 1..i-1 : t[k] = rs[k]
  <2>1. t = [k \in 1..i-1 |-> rs[k]]
    BY <1>1
  <2> QED BY <2>1
<1> HIDE DEF t
<1>3. Accepted(t) = AcceptedBefore(rs, i)
  BY <1>2 DEF Accepted, AcceptedBefore
<1> QED BY <1>3 DEF t

LEMMA DependenciesFollow == ASSUME SpecInv PROVE DependenciesFirst
<1>1. IsList(results) /\ \A i \in DOMAIN results : results[i].name # NoName =>
          results[i].dependencies \subseteq AcceptedBefore(results, i)
  BY DEF SpecInv, Reported, ResultsHold
<1> QED BY <1>1, BeforeIs DEF DependenciesFirst

LEMMA ExhaustedFollows == ASSUME SpecInv PROVE QueueIsExhausted
BY DEF SpecInv, NobodyIsLost, QueueIsExhausted

LEMMA PrefixIs ==
    ASSUME NEW old, NEW new, IsList(old), IsList(new), Extends(old, new)
    PROVE IsPrefix(old, new)
<1>1. Len(old) \in Nat /\ Len(new) \in Nat /\ Len(old) <= Len(new) /\ \A i \in 1..Len(old) : new[i] = old[i]
  BY ListFacts DEF Extends
<1>2. SubSeq(old, 1, Len(old)) = [i \in 1..Len(old) |-> old[i]] /\ SubSeq(new, 1, Len(old)) = [i \in 1..Len(old) |-> new[i]]
  BY <1>1, ListFacts DEF IsList
<1> QED BY <1>1, <1>2 DEF IsPrefix

\* What is stored changes only with what is reported and at the end.
LEMMA StoredGrows ==
    ASSUME SpecInv, SpecNext, stored # NoName, plan # NoPlan, stored' # stored
    PROVE stored'.results # <<>> /\ IsPrefix(stored.results, stored'.results)
<1>1. \/ \E s \in {"backend_failed", "accepted", "validation_failed"} : Report(work.name, s)
      \/ Report(NoName, "dependency_blocked")
      \/ Save
  <2>1. CASE Generate
    BY <2>1 DEF Generate
  <2>2. CASE Settle
    BY <2>2 DEF Settle
  <2>3. CASE EndQueue
    BY <2>3 DEF EndQueue
  <2>4. SpecNext => \/ Generate \/ Settle \/ EndQueue \/ Save \/ stored' = stored
    BY Zenon DEF SpecNext, Queue, Implement, Deliver, Plan, PlanOnly, Bulk, Send, PushToStack, Unblock,
        SmallRepair, ArchitectRepair, RepairingContract, Integrate, RunController, FinalGates, Ends, ResumeSpec
  <2> QED BY <2>1, <2>2, <2>3, <2>4
<1>2. stage # "plan"
  BY DEF SpecNext, Queue, Implement, Deliver, Plan, PlanOnly, Bulk, Send, PushToStack, Unblock, EndQueue, Generate,
      Working, Settle, SmallRepair, ArchitectRepair, RepairingContract, Integrate, RunController, FinalGates, Save, ResumeSpec
<1>3. /\ IsList(results) /\ IsList(stored.results) /\ Extends(stored.results, results)
      /\ stored = [phase |-> stored.phase, results |-> stored.results]
      /\ stored.results = <<>> => stored.phase = "terminal"
  BY <1>2 DEF SpecInv, Reported, StoredHolds, ResultsHold
<1>4. ASSUME NEW n, NEW s, Report(n, s) PROVE stored'.results # <<>> /\ IsPrefix(stored.results, stored'.results)
  <2>1. stored'.results = Append(results, Result(n, s))
    BY <1>4 DEF Report
  <2>2. IsList(stored'.results) /\ Len(stored'.results) = Len(results) + 1
        /\ \A i \in 1..Len(results) : stored'.results[i] = results[i]
    BY <1>3, <2>1, ListAppend
  <2>3. Len(results) \in Nat /\ Len(stored.results) \in Nat /\ Len(stored.results) <= Len(results)
        /\ \A i \in 1..Len(stored.results) : results[i] = stored.results[i]
    BY <1>3, ListFacts DEF Extends
  <2>4. \A i \in 1..Len(stored.results) : i \in 1..Len(results)
    BY <2>3
  <2>5. Len(stored.results) <= Len(stored'.results)
    BY <2>2, <2>3
  <2>6. Extends(stored.results, stored'.results)
    BY <2>2, <2>3, <2>4, <2>5 DEF Extends
  <2>7. stored'.results # <<>>
    BY <2>2, <2>3, ListFacts
  <2> QED BY <1>3, <2>2, <2>6, <2>7, PrefixIs
<1>5. CASE Save
  <2>1. stored' = [phase |-> "terminal", results |-> results] /\ stored'.results = results
    BY <1>5 DEF Save
  <2>2. ASSUME results = <<>> PROVE FALSE
    <3>1. Len(stored.results) \in Nat /\ Len(stored.results) <= 0
      BY <1>3, <2>2, EmptyList, ListFacts DEF Extends
    <3>2. Len(stored.results) = 0
      BY <3>1
    <3>3. stored.results = <<>>
      BY <1>3, <3>2, ListFacts
    <3> QED BY <1>3, <2>1, <2>2, <3>3
  <2> QED BY <1>3, <2>1, <2>2, PrefixIs
<1> QED BY <1>1, <1>4, <1>5
-----------------------------------------------------------------------------
(* Numbers in a finite set *)

LEMMA GreatestNumber ==
    ASSUME NEW S \in SUBSET Nat, S # {}, IsFiniteSet(S)
    PROVE \E p \in S : \A q \in S : q <= p
<1> DEFINE Above(p) == {q \in S : q >= p}
           R == StrictSubsetOrdering(S)
           T == {Above(p) : p \in S}
<1>1. \A p \in S : Above(p) \in SUBSET S /\ IsFiniteSet(Above(p))
  BY FS_Subset
<1>2. T \subseteq FiniteSubsetsOf(S) /\ T # {}
  BY <1>1 DEF FiniteSubsetsOf
<1>3. IsWellFoundedOn(R, FiniteSubsetsOf(S))
  BY FS_StrictSubsetOrderingWellFounded
<1>4. \E x \in T : \A y \in T : ~(<<y, x>> \in R)
  <2> HIDE DEF T, R
  <2> QED BY <1>2, <1>3, WFMin, Zenon
<1>5. PICK p \in S : \A q \in S : ~(<<Above(q), Above(p)>> \in R)
  <2> HIDE DEF R, Above
  <2> QED BY <1>4
<1>6. ASSUME NEW q \in S, q > p PROVE FALSE
  <2>1. p \in Nat /\ q \in Nat /\ \A x \in S : x \in Nat
    OBVIOUS
  <2>2. \A x \in Above(q) : x \in Above(p)
    BY <1>6, <2>1
  <2>3. p \in Above(p) /\ p \notin Above(q)
    BY <1>6, <2>1
  <2>4. Above(q) \in SUBSET S /\ Above(p) \in SUBSET S
    OBVIOUS
  <2>5. <<Above(q), Above(p)>> \in R
    <3> HIDE DEF Above
    <3> QED BY <2>2, <2>3, <2>4 DEF StrictSubsetOrdering
  <2> QED BY <1>5, <2>5
<1> QED BY <1>6

LEMMA FiniteImage ==
    ASSUME NEW D, IsFiniteSet(D), NEW f
    PROVE IsFiniteSet({f[i] : i \in D})
<1> DEFINE T == {f[i] : i \in D}
           g == [i \in D |-> f[i]]
<1>1. g \in Surjection(D, T)
  BY DEF Surjection
<1> HIDE DEF T, g
<1>2. IsFiniteSet(T)
  BY <1>1, FS_Surjection
<1> QED BY <1>2 DEF T

\* The k-th of some values is one of them.
LEMMA RankedIs ==
    ASSUME NEW D, IsFiniteSet(D), NEW values \in [D -> Nat], NEW k \in Nat, k > 0, k <= Cardinality(D)
    PROVE \E i \in D : Ranked(values, k) = values[i]
<1> DEFINE V == {values[i] : i \in D}
           UpTo(v) == {i \in D : values[i] <= v}
           Under(v) == {i \in D : values[i] < v}
           S == {v \in V : k <= Cardinality(UpTo(v))}
<1>1. V \in SUBSET Nat /\ IsFiniteSet(V)
  <2>1. IsFiniteSet(V)
    BY FiniteImage
  <2> QED BY <2>1
<1>2. \A v \in Nat : /\ IsFiniteSet(UpTo(v)) /\ IsFiniteSet(Under(v))
                     /\ Cardinality(UpTo(v)) \in Nat /\ Cardinality(Under(v)) \in Nat
  <2>1. \A v : UpTo(v) \subseteq D /\ Under(v) \subseteq D
    OBVIOUS
  <2> HIDE DEF UpTo, Under
  <2> QED BY <2>1, FS_Subset, FS_CardinalityType
<1>3. V # {}
  <2>1. D # {}
    BY FS_EmptySet
  <2> QED BY <2>1
<1>4. S # {}
  <2>1. PICK v \in V : \A w \in V : w <= v
    <3> HIDE DEF V
    <3> QED BY <1>1, <1>3, GreatestNumber
  <2>2. UpTo(v) = D
    BY <2>1
  <2>3. v \in S
    BY <2>1, <2>2
  <2> QED BY <2>3
<1>5. PICK v \in S : \A w \in S : v <= w
  <2>1. S \in SUBSET Nat
    BY <1>1
  <2> HIDE DEF S
  <2> QED BY <1>4, <2>1, LeastNumber
<1>6. v \in V /\ v \in Nat /\ k <= Cardinality(UpTo(v))
  BY <1>1, <1>5
<1>7. Cardinality(Under(v)) < k
  <2>0. Cardinality(Under(v)) \in Nat
    BY <1>2, <1>6
  <2>1. SUFFICES ASSUME k <= Cardinality(Under(v)) PROVE FALSE
    <3> HIDE DEF Under
    <3> QED BY <2>0
  <2> DEFINE W == {values[i] : i \in Under(v)}
  <2>2. Under(v) # {}
    <3>1. Cardinality({}) = 0
      BY FS_EmptySet
    <3>2. Cardinality(Under(v)) # 0
      BY <1>2, <1>6, <2>1
    <3> HIDE DEF Under
    <3> QED BY <3>1, <3>2
  <2>3. W \in SUBSET Nat /\ W # {} /\ IsFiniteSet(W)
    <3>1. IsFiniteSet(W)
      <4>1. IsFiniteSet(Under(v))
        BY <1>2, <1>6
      <4> HIDE DEF Under
      <4> QED BY <4>1, FiniteImage
    <3>2. W # {}
      BY <2>2
    <3>3. W \in SUBSET Nat
      OBVIOUS
    <3> QED BY <3>1, <3>2, <3>3
  <2>4. PICK w \in W : \A u \in W : u <= w
    <3> HIDE DEF W
    <3> QED BY <2>3, GreatestNumber
  <2>5. w \in V /\ w < v /\ w \in Nat
    BY <1>1
  <2>6. Under(v) \subseteq UpTo(w)
    BY <2>4
  <2>7. Cardinality(Under(v)) <= Cardinality(UpTo(w))
    <3> HIDE DEF Under, UpTo
    <3> QED BY <1>2, <2>5, <2>6, FS_Subset
  <2>8. w \in S
    <3>1. k <= Cardinality(UpTo(w))
      <4> HIDE DEF Under, UpTo
      <4> QED BY <1>2, <1>6, <2>1, <2>5, <2>7
    <3> QED BY <2>5, <3>1
  <2> QED BY <1>5, <1>6, <2>5, <2>8
<1> DEFINE Is(u) == /\ Cardinality({i \in DOMAIN values : values[i] < u}) < k
                    /\ k <= Cardinality({i \in DOMAIN values : values[i] <= u})
<1>8. Range(values) = V /\ Is(v)
  BY <1>6, <1>7 DEF Range
<1>9. Ranked(values, k) = CHOOSE u \in Range(values) : Is(u)
  BY Zenon DEF Ranked
<1>10. Ranked(values, k) \in V
  <2> HIDE DEF Is, V
  <2> QED BY <1>6, <1>8, <1>9
<1> QED BY <1>10

\* What is more than the median is more than one of the values.
LEMMA AboveOne ==
    ASSUME NEW D, IsFiniteSet(D), NEW values \in [D -> Nat], NEW value \in Nat, Cardinality(D) >= 2,
           AboveMedian(value, values)
    PROVE \E i \in D : values[i] < value
<1> DEFINE n == Cardinality(D)
           One(k) == Ranked(values, k)
<1>1. n \in Nat /\ n >= 2 /\ DOMAIN values = D
  BY FS_CardinalityType
<1>2. 2 * value > TwiceMedian(values) + 2
  BY DEF AboveMedian
<1>3. CASE n % 2 = 1
  <2>1. TwiceMedian(values) = 2 * One((n + 1) \div 2)
    BY <1>1, <1>3, Zenon DEF TwiceMedian
  <2>2. (n + 1) \div 2 \in Nat /\ (n + 1) \div 2 > 0 /\ (n + 1) \div 2 <= n
    BY <1>1
  <2>3. PICK i \in D : One((n + 1) \div 2) = values[i]
    BY <2>2, RankedIs
  <2>4. values[i] \in Nat /\ 2 * value > 2 * values[i] + 2
    BY <1>2, <2>1, <2>3
  <2> QED BY <2>4
<1>4. CASE n % 2 # 1
  <2>1. TwiceMedian(values) = One(n \div 2) + One(n \div 2 + 1)
    BY <1>1, <1>4, Zenon DEF TwiceMedian
  <2>2. n \div 2 \in Nat /\ n \div 2 > 0 /\ n \div 2 <= n /\ n \div 2 + 1 <= n
    BY <1>1
  <2>3. PICK i \in D : One(n \div 2) = values[i]
    BY <2>2, RankedIs
  <2>4. PICK j \in D : One(n \div 2 + 1) = values[j]
    BY <2>2, RankedIs
  <2>5. values[i] \in Nat /\ values[j] \in Nat /\ 2 * value > values[i] + values[j] + 2
    BY <1>2, <2>1, <2>3, <2>4
  <2>6. values[i] < value \/ values[j] < value
    BY <2>5
  <2> QED BY <2>6
<1> QED BY <1>3, <1>4
-----------------------------------------------------------------------------
(* The invariants of the history *)

By(d) == {d.outcomes[i].by : i \in DOMAIN d.outcomes}
Successes(d, t) == {i \in DOMAIN d.outcomes : d.outcomes[i].succeeded /\ d.outcomes[i].template = t}

\* A document, torn or not, whose lessons count its outcomes.
Counted(d) ==
    /\ d = [whole |-> d.whole, outcomes |-> d.outcomes, lessons |-> d.lessons]
    /\ IsList(d.outcomes)
    /\ d.lessons \in [Templates \ {NoTemplate} -> Nat]
    /\ \A t \in Templates \ {NoTemplate} : d.lessons[t] = Cardinality(Successes(d, t))

\* Those who recorded an outcome while nobody else was about to; a document has theirs.
Alone == {p \in Recorders : recorder[p].pc = "recorded"} \ overlapped
KeepsOutcomes(d) == Alone \subseteq By(d)

RecordersAre == recorder = [p \in Recorders |-> recorder[p]]

\* Whoever is about to write has all of them at hand, or is not alone.
OutcomesHold ==
    /\ Counted(document)
    /\ document.whole => KeepsOutcomes(document)
    /\ \A p \in Unwritten : Counted(recorder[p].read) /\ KeepsOutcomes(recorder[p].read)
    /\ \A p \in Recorders : recorder[p].pc = "opened" => p \in By(recorder[p].read)
    /\ \A p, q \in Unwritten : p # q => p \in overlapped

IsLine(l) == l.repairs \in Nat /\ l.kinds \in Nat

\* m is better than l, in one respect.
Warrants(m, l) ==
    /\ m.shape = l.shape
    /\ \/ m.status = "completed" /\ l.status # "completed"
       \/ m.repairs < l.repairs
       \/ m.kinds < l.kinds

LinesHold ==
    /\ IsList(samples)
    /\ \A i \in DOMAIN samples : samples[i] # TornLine => IsLine(samples[i])
    /\ \A i \in DOMAIN samples : samples[i].report = "regressed" =>
          \E j \in 1..i-1 : Warrants(samples[j], samples[i])
    /\ \A p \in Recorders : recorder[p].pc = "reported" =>
          /\ IsLine(recorder[p].sample)
          /\ recorder[p].sample.report = "regressed" =>
                \E j \in 1..Len(samples) : Warrants(samples[j], recorder[p].sample)

HistoryInv == RecordersAre /\ OutcomesHold /\ LinesHold

LEMMA RecorderMoves ==
    ASSUME RecordersAre, NEW p \in Recorders, NEW x, recorder' = [recorder EXCEPT ![p] = x]
    PROVE RecordersAre' /\ recorder'[p] = x /\ \A q \in Recorders : q # p => recorder'[q] = recorder[q]
BY DEF RecordersAre

LEMMA RecordedIs ==
    ASSUME NEW d, Counted(d), NEW p, NEW succeeded \in BOOLEAN, NEW template \in Templates
    PROVE /\ Counted(Recorded(p, d, succeeded, template))
          /\ By(Recorded(p, d, succeeded, template)) = By(d) \cup {p}
<1> DEFINE o == [by |-> p, succeeded |-> succeeded, template |-> template]
           e == Recorded(p, d, succeeded, template)
           n == Len(d.outcomes)
           Counts == succeeded /\ template # NoTemplate
           lessons == IF Counts THEN RegisterSuccessfulTemplate(d.lessons, template) ELSE d.lessons
<1>1. e = [whole |-> d.whole, outcomes |-> Append(d.outcomes, o), lessons |-> lessons]
  <2>1. PICK w, os, ls : d = [whole |-> w, outcomes |-> os, lessons |-> ls]
    BY Zenon DEF Counted
  <2>2. d.whole = w /\ d.outcomes = os /\ d.lessons = ls
    BY <2>1
  <2> DEFINE more == Append(d.outcomes, o)
  <2>3. e = [d EXCEPT !.outcomes = more, !.lessons = lessons]
    BY Zenon DEF Recorded
  <2> HIDE DEF e, lessons, more
  <2>4. e = [whole |-> w, outcomes |-> more, lessons |-> lessons]
    BY <2>1, <2>3
  <2> QED BY <2>2, <2>4 DEF more
<1> HIDE DEF e, lessons
<1>2. /\ n \in Nat /\ DOMAIN d.outcomes = 1..n /\ IsList(e.outcomes) /\ DOMAIN e.outcomes = 1..n+1
      /\ e.outcomes[n+1] = o /\ \A i \in 1..n : e.outcomes[i] = d.outcomes[i]
  <2>1. e.outcomes = Append(d.outcomes, o) /\ IsList(d.outcomes)
    BY <1>1 DEF Counted
  <2> QED BY <2>1, ListFacts, ListAppend
<1> USE DEF lessons
<1>3. o.by = p /\ o.succeeded = succeeded /\ o.template = template
  OBVIOUS
<1>4. /\ \A i \in 1..n+1 : i \in 1..n \/ i = n + 1
      /\ n + 1 \in 1..n+1 /\ n + 1 \notin 1..n /\ \A i \in 1..n : i \in 1..n+1
  BY <1>2
<1>5. e.lessons = lessons /\ e = [whole |-> e.whole, outcomes |-> e.outcomes, lessons |-> e.lessons]
  <2> HIDE DEF lessons
  <2> QED BY <1>1
<1> HIDE DEF o
<1>6. By(e) = By(d) \cup {p}
  BY <1>2, <1>3, <1>4 DEF By
<1>7. \A t : IsFiniteSet(Successes(d, t)) /\ n + 1 \notin Successes(d, t) /\ Cardinality(Successes(d, t)) \in Nat
  <2>1. \A t : Successes(d, t) \subseteq 1..n
    BY <1>2 DEF Successes
  <2>2. IsFiniteSet(1..n)
    BY <1>2, FS_Interval
  <2> QED BY <1>4, <2>1, <2>2, FS_Subset, FS_CardinalityType
<1>8. ASSUME NEW t
      PROVE Successes(e, t) = IF succeeded /\ template = t THEN Successes(d, t) \cup {n + 1} ELSE Successes(d, t)
  <2>1. \A i : i \in Successes(e, t) <=> i \in 1..n+1 /\ e.outcomes[i].succeeded /\ e.outcomes[i].template = t
    BY <1>2, Zenon DEF Successes
  <2>2. \A i : i \in Successes(d, t) <=> i \in 1..n /\ d.outcomes[i].succeeded /\ d.outcomes[i].template = t
    BY <1>2, Zenon DEF Successes
  <2>3. ASSUME NEW i, i # n + 1 PROVE i \in Successes(e, t) <=> i \in Successes(d, t)
    BY <1>2, <1>4, <2>1, <2>2, <2>3, Zenon
  <2>4. n + 1 \in Successes(e, t) <=> succeeded /\ template = t
    BY <1>2, <1>3, <1>4, <2>1, Zenon
  <2>5. CASE succeeded /\ template = t
    BY <2>3, <2>4, <2>5
  <2>6. CASE ~(succeeded /\ template = t)
    <3>1. n + 1 \notin Successes(e, t) /\ n + 1 \notin Successes(d, t)
      BY <1>7, <2>4, <2>6
    <3>2. \A i : i \in Successes(e, t) <=> i \in Successes(d, t)
      BY <2>3, <3>1, Zenon
    <3> DEFINE A == Successes(e, t)
               B == Successes(d, t)
    <3>3. A \subseteq DOMAIN e.outcomes /\ B \subseteq DOMAIN d.outcomes
      BY DEF Successes
    <3>4. A = B
      <4> HIDE DEF A, B
      <4> QED BY <3>2 DEF A, B
    <3> QED BY <2>6, <3>4, Zenon
  <2> QED BY <2>5, <2>6
<1>9. ASSUME NEW t \in Templates \ {NoTemplate}
      PROVE e.lessons[t] = Cardinality(Successes(e, t)) /\ e.lessons[t] \in Nat
  <2>1. d.lessons[t] = Cardinality(Successes(d, t)) /\ d.lessons \in [Templates \ {NoTemplate} -> Nat]
    BY DEF Counted
  <2>2. CASE succeeded /\ template = t
    <3>1. e.lessons[t] = d.lessons[t] + 1
      BY <1>5, <2>1, <2>2 DEF RegisterSuccessfulTemplate
    <3>2. Cardinality(Successes(e, t)) = Cardinality(Successes(d, t)) + 1
      BY <1>7, <1>8, <2>2, FS_AddElement
    <3> QED BY <1>7, <2>1, <3>1, <3>2
  <2>3. CASE ~(succeeded /\ template = t)
    <3>1. e.lessons[t] = d.lessons[t]
      <4>1. CASE Counts
        <5>1. template # t
          BY <2>3, <4>1
        <5>2. lessons[t] = d.lessons[t]
          BY <2>1, <4>1, <5>1 DEF RegisterSuccessfulTemplate
        <5> QED BY <1>5, <5>2
      <4>2. CASE ~Counts
        BY <1>5, <4>2
      <4> QED BY <4>1, <4>2
    <3>2. Successes(e, t) = Successes(d, t)
      BY <1>8, <2>3
    <3> QED BY <1>7, <2>1, <3>1, <3>2
  <2> QED BY <2>2, <2>3
<1>10. e.lessons \in [Templates \ {NoTemplate} -> Nat]
  <2>1. e.lessons = [t \in Templates \ {NoTemplate} |-> e.lessons[t]]
    BY <1>5 DEF Counted, RegisterSuccessfulTemplate
  <2> QED BY <1>9, <2>1
<1>11. Counted(e)
  BY <1>2, <1>5, <1>9, <1>10 DEF Counted
<1> QED BY <1>6, <1>11 DEF e

LEMMA HistoryInitHolds == ASSUME HistoryInit PROVE HistoryInv
<1>1. RecordersAre /\ \A p \in Recorders : recorder[p].pc = "new"
  BY DEF HistoryInit, RecordersAre
<1>2. Unwritten = {}
  BY <1>1 DEF Unwritten
<1>3. Counted(document)
  <2>1. document = [whole |-> TRUE, outcomes |-> <<>>, lessons |-> [t \in Templates \ {NoTemplate} |-> 0]]
    BY DEF HistoryInit
  <2>2. \A t : Successes(document, t) = {}
    BY <2>1, EmptyList DEF Successes
  <2> QED BY <2>1, <2>2, EmptyList, FS_EmptySet DEF Counted
<1>4. KeepsOutcomes(document)
  BY <1>1 DEF KeepsOutcomes, Alone
<1>5. LinesHold
  <2>1. CASE samples = <<>>
    BY <1>1, <2>1, EmptyList DEF LinesHold
  <2>2. ASSUME NEW s \in Samples, samples = <<Line(s, "insufficient_history")>> PROVE LinesHold
    <3> DEFINE l == Line(s, "insufficient_history")
    <3>1. IsLine(l) /\ l.report # "regressed"
      BY SamplesAssumption DEF IsLine, Line
    <3> HIDE DEF l
    <3>2. samples = <<l>>
      BY <2>2 DEF l
    <3>3. DOMAIN samples = {1} /\ samples[1] = l /\ IsList(samples)
      BY <3>2 DEF IsList, ToSet
    <3> QED BY <1>1, <3>1, <3>3 DEF LinesHold
  <2> QED BY <2>1, <2>2 DEF HistoryInit
<1> QED BY <1>1, <1>2, <1>3, <1>4, <1>5 DEF HistoryInv, OutcomesHold
-----------------------------------------------------------------------------
(* Steps of the history *)

\* Who neither records nor begins to leaves the outcomes as they are.
LEMMA OutcomesKeep ==
    ASSUME HistoryInv, NEW p \in Recorders, NEW x, recorder' = [recorder EXCEPT ![p] = x],
           UNCHANGED <<document, overlapped>>, x.pc \notin {"loaded", "opened", "recorded"}
    PROVE OutcomesHold'
<1>1. recorder'[p] = x /\ \A q \in Recorders : q # p => recorder'[q] = recorder[q]
  BY RecorderMoves DEF HistoryInv
<1>2. Alone' \subseteq Alone
  BY <1>1 DEF Alone
<1>3. \A q \in Recorders : recorder'[q].pc \in {"loaded", "opened"} => q # p
  BY <1>1
<1>4. \A q \in Unwritten' : q \in Unwritten /\ recorder'[q] = recorder[q]
  BY <1>1, <1>3 DEF Unwritten
<1>5. Counted(document)' /\ (document'.whole => KeepsOutcomes(document)')
  BY <1>2 DEF HistoryInv, OutcomesHold, KeepsOutcomes
<1>6. \A q \in Unwritten' : Counted(recorder'[q].read) /\ Alone' \subseteq By(recorder'[q].read)
  BY <1>2, <1>4 DEF HistoryInv, OutcomesHold, KeepsOutcomes
<1>7. \A q \in Recorders : recorder'[q].pc = "opened" => q \in By(recorder'[q].read)
  BY <1>1, <1>3 DEF HistoryInv, OutcomesHold
<1>8. \A q, r \in Unwritten' : q # r => q \in overlapped'
  BY <1>4 DEF HistoryInv, OutcomesHold
<1> QED BY <1>5, <1>6, <1>7, <1>8 DEF OutcomesHold, KeepsOutcomes

\* Who does not report leaves the lines as they are.
LEMMA LinesKeep ==
    ASSUME HistoryInv, NEW p \in Recorders, NEW x, recorder' = [recorder EXCEPT ![p] = x],
           samples' = samples, x.pc # "reported"
    PROVE LinesHold'
<1>1. recorder'[p] = x /\ \A q \in Recorders : q # p => recorder'[q] = recorder[q]
  BY RecorderMoves DEF HistoryInv
<1>2. \A q \in Recorders : recorder'[q].pc = "reported" => recorder[q].pc = "reported" /\ recorder'[q] = recorder[q]
  BY <1>1
<1> QED BY <1>2 DEF HistoryInv, LinesHold

LEMMA StoppedHolds ==
    ASSUME HistoryInv, NEW p \in Recorders, NEW c, At(p, c), UNCHANGED <<document, samples, overlapped>>,
           c \notin {"loaded", "opened", "recorded", "reported"}
    PROVE HistoryInv'
<1> DEFINE x == [pc |-> c]
<1>1. recorder' = [recorder EXCEPT ![p] = x] /\ x.pc = c
  BY DEF At
<1> HIDE DEF x
<1> QED BY <1>1, RecorderMoves, OutcomesKeep, LinesKeep DEF HistoryInv

LEMMA LoadHolds == ASSUME HistoryInv, NEW p \in Recorders, Load(p) PROVE HistoryInv'
<1>1. /\ UNCHANGED <<document, samples>>
      /\ overlapped' = IF Unwritten = {} THEN overlapped ELSE overlapped \cup Unwritten \cup {p}
  BY DEF Load
<1>2. CASE ~document.whole
  <2> DEFINE x == [pc |-> "raised"]
  <2>1. recorder' = [recorder EXCEPT ![p] = x] /\ x.pc = "raised"
    BY <1>2 DEF Load, At
  <2> HIDE DEF x
  <2>2. recorder'[p] = x /\ \A q \in Recorders : q # p => recorder'[q] = recorder[q]
    BY <2>1, RecorderMoves DEF HistoryInv
  <2>3. Alone' \subseteq Alone
    BY <1>1, <2>1, <2>2 DEF Alone
  <2>4. \A q \in Unwritten' : q # p /\ q \in Unwritten /\ recorder'[q] = recorder[q]
    BY <2>1, <2>2 DEF Unwritten
  <2>5. \A q \in Unwritten' : Counted(recorder'[q].read) /\ Alone' \subseteq By(recorder'[q].read)
    BY <2>3, <2>4 DEF HistoryInv, OutcomesHold, KeepsOutcomes
  <2>6. \A q \in Recorders : recorder'[q].pc = "opened" => q \in By(recorder'[q].read)
    BY <2>1, <2>2 DEF HistoryInv, OutcomesHold
  <2>7. \A q, r \in Unwritten' : q # r => q \in overlapped'
    BY <1>1, <2>4 DEF HistoryInv, OutcomesHold
  <2>8. Counted(document)' /\ (document'.whole => KeepsOutcomes(document)')
    BY <1>1, <1>2 DEF HistoryInv, OutcomesHold
  <2>9. OutcomesHold'
    BY <2>5, <2>6, <2>7, <2>8 DEF OutcomesHold, KeepsOutcomes
  <2> QED BY <1>1, <2>1, <2>9, RecorderMoves, LinesKeep DEF HistoryInv
<1>3. CASE document.whole
  <2> DEFINE x == [pc |-> "loaded", read |-> document]
  <2>1. recorder' = [recorder EXCEPT ![p] = x] /\ x.pc = "loaded" /\ x.read = document
    BY <1>3 DEF Load
  <2> HIDE DEF x
  <2>2. recorder'[p] = x /\ \A q \in Recorders : q # p => recorder'[q] = recorder[q]
    BY <2>1, RecorderMoves DEF HistoryInv
  <2>3. Alone' \subseteq Alone
    BY <1>1, <2>1, <2>2 DEF Alone
  <2>4. \A q \in Unwritten' : q # p => q \in Unwritten /\ recorder'[q] = recorder[q]
    BY <2>2 DEF Unwritten
  <2>5. Counted(document) /\ Alone \subseteq By(document)
    BY <1>3 DEF HistoryInv, OutcomesHold, KeepsOutcomes
  <2>6. \A q \in Unwritten' : Counted(recorder'[q].read) /\ Alone' \subseteq By(recorder'[q].read)
    <3>1. TAKE q \in Unwritten'
    <3>2. CASE q = p
      BY <2>1, <2>2, <2>3, <2>5, <3>2
    <3>3. CASE q # p
      BY <2>3, <2>4, <3>3 DEF HistoryInv, OutcomesHold, KeepsOutcomes
    <3> QED BY <3>2, <3>3
  <2>7. \A q \in Recorders : recorder'[q].pc = "opened" => q \in By(recorder'[q].read)
    BY <2>1, <2>2 DEF HistoryInv, OutcomesHold
  <2>8. \A q, r \in Unwritten' : q # r => q \in overlapped'
    <3>1. TAKE q, r \in Unwritten'
    <3>2. CASE q \in Unwritten /\ q # p
      BY <1>1, <3>2
    <3>3. CASE q = p /\ q # r
      BY <1>1, <2>4, <3>3
    <3> QED BY <2>4, <3>2, <3>3
  <2>9. Counted(document)' /\ (document'.whole => KeepsOutcomes(document)')
    BY <1>1, <2>3, <2>5 DEF KeepsOutcomes
  <2>10. OutcomesHold'
    BY <2>6, <2>7, <2>8, <2>9 DEF OutcomesHold, KeepsOutcomes
  <2> QED BY <1>1, <2>1, <2>10, RecorderMoves, LinesKeep DEF HistoryInv
<1> QED BY <1>2, <1>3

\* The same but for whether it is whole.
LEMMA TornIs ==
    ASSUME NEW d, Counted(d), NEW b \in BOOLEAN
    PROVE Counted([d EXCEPT !.whole = b]) /\ By([d EXCEPT !.whole = b]) = By(d)
          /\ [d EXCEPT !.whole = b].whole = b
<1> DEFINE e == [d EXCEPT !.whole = b]
<1>1. e = [whole |-> b, outcomes |-> d.outcomes, lessons |-> d.lessons]
  <2>1. PICK w, os, ls : d = [whole |-> w, outcomes |-> os, lessons |-> ls]
    BY Zenon DEF Counted
  <2> QED BY <2>1
<1> HIDE DEF e
<1>2. e.whole = b /\ e.outcomes = d.outcomes /\ e.lessons = d.lessons
  BY <1>1
<1>3. e = [whole |-> e.whole, outcomes |-> e.outcomes, lessons |-> e.lessons]
  BY <1>1, <1>2
<1>4. \A t : Successes(e, t) = Successes(d, t)
  BY <1>2 DEF Successes
<1>5. Counted(e) /\ By(e) = By(d)
  BY <1>2, <1>3, <1>4 DEF Counted, By
<1> QED BY <1>2, <1>5 DEF e

LEMMA OpenHolds == ASSUME HistoryInv, NEW p \in Recorders, Open(p) PROVE HistoryInv'
<1>1. /\ UNCHANGED <<samples, overlapped>> /\ document' = [document EXCEPT !.whole = FALSE]
      /\ recorder[p].pc = "loaded" /\ p \in Unwritten
  BY DEF Open, Unwritten
<1>2. PICK succeeded \in BOOLEAN, template \in Templates : recorder' = [recorder EXCEPT ![p] =
          [pc |-> "opened", read |-> Recorded(p, recorder[p].read, succeeded, template)]]
  BY DEF Open
<1> DEFINE d == Recorded(p, recorder[p].read, succeeded, template)
           x == [pc |-> "opened", read |-> d]
<1>3. Counted(d) /\ By(d) = By(recorder[p].read) \cup {p} /\ Alone \subseteq By(recorder[p].read)
  BY <1>1, RecordedIs DEF HistoryInv, OutcomesHold, KeepsOutcomes
<1> HIDE DEF d
<1>4. x.pc = "opened" /\ x.read = d /\ recorder' = [recorder EXCEPT ![p] = x]
  BY <1>2 DEF d
<1> HIDE DEF x
<1>5. recorder'[p] = x /\ \A q \in Recorders : q # p => recorder'[q] = recorder[q]
  BY <1>4, RecorderMoves DEF HistoryInv
<1>6. Alone' \subseteq Alone
  BY <1>1, <1>4, <1>5 DEF Alone
<1>7. \A q \in Unwritten' : q \in Unwritten /\ (q # p => recorder'[q] = recorder[q])
  BY <1>1, <1>5 DEF Unwritten
<1>8. \A q \in Unwritten' : Counted(recorder'[q].read) /\ Alone' \subseteq By(recorder'[q].read)
  <2>1. TAKE q \in Unwritten'
  <2>2. CASE q = p
    BY <1>3, <1>4, <1>5, <1>6, <2>2
  <2>3. CASE q # p
    BY <1>6, <1>7, <2>3 DEF HistoryInv, OutcomesHold, KeepsOutcomes
  <2> QED BY <2>2, <2>3
<1>9. \A q \in Recorders : recorder'[q].pc = "opened" => q \in By(recorder'[q].read)
  BY <1>3, <1>4, <1>5 DEF HistoryInv, OutcomesHold
<1>10. \A q, r \in Unwritten' : q # r => q \in overlapped'
  BY <1>1, <1>7 DEF HistoryInv, OutcomesHold
<1>11. Counted(document)' /\ ~document'.whole
  BY <1>1, TornIs DEF HistoryInv, OutcomesHold
<1>12. OutcomesHold'
  BY <1>8, <1>9, <1>10, <1>11 DEF OutcomesHold, KeepsOutcomes
<1> QED BY <1>1, <1>4, <1>12, RecorderMoves, LinesKeep DEF HistoryInv

LEMMA WriteHolds == ASSUME HistoryInv, NEW p \in Recorders, Write(p) PROVE HistoryInv'
<1> DEFINE d == recorder[p].read
           x == [pc |-> "recorded"]
<1>1. /\ UNCHANGED <<samples, overlapped>> /\ recorder[p].pc = "opened" /\ p \in Unwritten
      /\ document' = d \/ (p \in overlapped /\ document' = [d EXCEPT !.whole = FALSE])
      /\ recorder' = [recorder EXCEPT ![p] = x] /\ x.pc = "recorded"
  BY DEF Write, At, Unwritten
<1> HIDE DEF x
<1>2. Counted(d) /\ Alone \subseteq By(d) /\ p \in By(d)
  BY <1>1 DEF HistoryInv, OutcomesHold, KeepsOutcomes
<1>3. recorder'[p] = x /\ \A q \in Recorders : q # p => recorder'[q] = recorder[q]
  BY <1>1, RecorderMoves DEF HistoryInv
<1>4. Alone' \subseteq Alone \cup ({p} \ overlapped)
  BY <1>1, <1>3 DEF Alone
<1>5. \A q \in Unwritten' : q # p /\ q \in Unwritten /\ recorder'[q] = recorder[q]
  BY <1>1, <1>3 DEF Unwritten
<1>6. \A q \in Unwritten' : p \in overlapped
  BY <1>1, <1>5 DEF HistoryInv, OutcomesHold
<1>7. \A q \in Unwritten' : Counted(recorder'[q].read) /\ Alone' \subseteq By(recorder'[q].read)
  BY <1>4, <1>5, <1>6 DEF HistoryInv, OutcomesHold, KeepsOutcomes
<1>8. \A q \in Recorders : recorder'[q].pc = "opened" => q \in By(recorder'[q].read)
  BY <1>1, <1>3 DEF HistoryInv, OutcomesHold
<1>9. \A q, r \in Unwritten' : q # r => q \in overlapped'
  BY <1>1, <1>5 DEF HistoryInv, OutcomesHold
<1>10. Counted(document)' /\ By(document') = By(d)
  BY <1>1, <1>2, TornIs
<1>11. Alone' \subseteq By(document')
  BY <1>2, <1>4, <1>10
<1>12. OutcomesHold'
  BY <1>7, <1>8, <1>9, <1>10, <1>11 DEF OutcomesHold, KeepsOutcomes
<1> QED BY <1>1, <1>12, RecorderMoves, LinesKeep DEF HistoryInv

\* A report of a regression is warranted by a line that stands.
LEMMA RegressionIs ==
    ASSUME LinesHold, TornLine \notin ToSet(samples), NEW s \in Samples, RegressionReport(s, samples) = "regressed"
    PROVE \E j \in 1..Len(samples) : Warrants(samples[j], s)
<1> DEFINE peers == {i \in DOMAIN samples : samples[i].shape = s.shape}
           repairs == [i \in peers |-> samples[i].repairs]
           kinds == [i \in peers |-> samples[i].kinds]
<1>1. DOMAIN samples = 1..Len(samples) /\ Len(samples) \in Nat /\ \A i \in DOMAIN samples : IsLine(samples[i])
  BY ListFacts DEF LinesHold, ToSet
<1>2. IsFiniteSet(peers) /\ Cardinality(peers) \in Nat
  <2>1. IsFiniteSet(1..Len(samples)) /\ peers \subseteq 1..Len(samples)
    BY <1>1, FS_Interval
  <2> HIDE DEF peers
  <2> QED BY <2>1, FS_Subset, FS_CardinalityType
<1>3. repairs \in [peers -> Nat] /\ kinds \in [peers -> Nat] /\ s.repairs \in Nat /\ s.kinds \in Nat
  BY <1>1, SamplesAssumption DEF IsLine
<1>4. /\ ~(Cardinality(peers) < 2)
      /\ \/ s.status # "completed" /\ \E i \in peers : samples[i].status = "completed"
         \/ AboveMedian(s.repairs, repairs)
         \/ AboveMedian(s.kinds, kinds)
  BY DEF RegressionReport
<1>5. Cardinality(peers) >= 2
  BY <1>2, <1>4
<1>6. CASE s.status # "completed" /\ \E i \in peers : samples[i].status = "completed"
  BY <1>1, <1>6 DEF Warrants
<1>7. CASE AboveMedian(s.repairs, repairs)
  <2>1. \E i \in peers : repairs[i] < s.repairs
    <3> HIDE DEF peers, repairs
    <3> QED BY <1>2, <1>3, <1>5, <1>7, AboveOne
  <2> QED BY <1>1, <2>1 DEF Warrants
<1>8. CASE AboveMedian(s.kinds, kinds)
  <2>1. \E i \in peers : kinds[i] < s.kinds
    <3> HIDE DEF peers, kinds
    <3> QED BY <1>2, <1>3, <1>5, <1>8, AboveOne
  <2> QED BY <1>1, <2>1 DEF Warrants
<1> QED BY <1>4, <1>6, <1>7, <1>8

LEMMA ReportSampleHolds == ASSUME HistoryInv, NEW p \in Recorders, ReportSample(p) PROVE HistoryInv'
<1>1. UNCHANGED <<document, samples, overlapped>>
  BY DEF ReportSample
<1>2. CASE TornLine \in ToSet(samples)
  BY <1>1, <1>2, StoppedHolds DEF ReportSample
<1>3. CASE TornLine \notin ToSet(samples)
  <2>1. PICK s \in Samples : recorder' = [recorder EXCEPT ![p] =
            [pc |-> "reported", sample |-> Line(s, RegressionReport(s, samples))]]
    BY <1>3 DEF ReportSample
  <2> DEFINE l == Line(s, RegressionReport(s, samples))
             x == [pc |-> "reported", sample |-> l]
  <2>2. x.pc = "reported" /\ x.sample = l /\ recorder' = [recorder EXCEPT ![p] = x]
    BY <2>1
  <2>3. /\ l.shape = s.shape /\ l.status = s.status /\ l.repairs = s.repairs /\ l.kinds = s.kinds
        /\ l.report = RegressionReport(s, samples)
    BY DEF Line
  <2> HIDE DEF x, l
  <2>4. recorder'[p] = x /\ \A q \in Recorders : q # p => recorder'[q] = recorder[q]
    BY <2>2, RecorderMoves DEF HistoryInv
  <2>5. OutcomesHold'
    BY <1>1, <2>2, OutcomesKeep
  <2>6. IsLine(l)
    BY <2>3, SamplesAssumption DEF IsLine
  <2>7. ASSUME l.report = "regressed" PROVE \E j \in 1..Len(samples) : Warrants(samples[j], l)
    <3>1. PICK j \in 1..Len(samples) : Warrants(samples[j], s)
      BY <1>3, <2>3, <2>7, RegressionIs DEF HistoryInv
    <3> QED BY <2>3, <3>1 DEF Warrants
  <2>8. ASSUME NEW q \in Recorders, recorder'[q].pc = "reported"
        PROVE /\ IsLine(recorder'[q].sample)
              /\ recorder'[q].sample.report = "regressed" =>
                    \E j \in 1..Len(samples) : Warrants(samples[j], recorder'[q].sample)
    <3>1. CASE q = p
      BY <2>2, <2>4, <2>6, <2>7, <3>1
    <3>2. CASE q # p
      BY <2>4, <2>8, <3>2 DEF HistoryInv, LinesHold
    <3> QED BY <3>1, <3>2
  <2>9. LinesHold'
    BY <1>1, <2>8 DEF HistoryInv, LinesHold
  <2> QED BY <2>2, <2>5, <2>9, RecorderMoves DEF HistoryInv
<1> QED BY <1>2, <1>3

\* A line that is appended, by one who reports no more.
LEMMA LinesGrow ==
    ASSUME HistoryInv, NEW p \in Recorders, NEW x, recorder' = [recorder EXCEPT ![p] = x], x.pc # "reported",
           NEW l, samples' = Append(samples, l), l # TornLine => IsLine(l),
           l.report = "regressed" => \E j \in 1..Len(samples) : Warrants(samples[j], l)
    PROVE LinesHold'
<1> DEFINE n == Len(samples)
<1>1. /\ IsList(samples) /\ n \in Nat /\ DOMAIN samples = 1..n /\ IsList(samples') /\ DOMAIN samples' = 1..n+1
      /\ Len(samples') = n + 1 /\ samples'[n+1] = l /\ \A i \in 1..n : samples'[i] = samples[i]
  BY ListFacts, ListAppend DEF HistoryInv, LinesHold
<1>2. \A i \in 1..n+1 : i \in 1..n \/ i = n + 1
  BY <1>1
<1>3. \A i \in 1..n+1 : samples'[i] # TornLine => IsLine(samples'[i])
  BY <1>1, <1>2 DEF HistoryInv, LinesHold
<1>4. ASSUME NEW i \in 1..n+1, samples'[i].report = "regressed"
      PROVE \E j \in 1..i-1 : Warrants(samples'[j], samples'[i])
  <2>1. CASE i \in 1..n
    <3>1. PICK j \in 1..i-1 : Warrants(samples[j], samples[i])
      BY <1>1, <1>4, <2>1 DEF HistoryInv, LinesHold
    <3>2. j \in 1..n
      BY <1>1, <2>1
    <3> QED BY <1>1, <2>1, <3>1, <3>2
  <2>2. CASE i = n + 1
    <3>1. PICK j \in 1..n : Warrants(samples[j], l)
      BY <1>1, <1>4, <2>2
    <3>2. j \in 1..i-1
      BY <1>1, <2>2
    <3> QED BY <1>1, <2>2, <3>1, <3>2
  <2> QED BY <1>2, <2>1, <2>2
<1>5. recorder'[p] = x /\ \A q \in Recorders : q # p => recorder'[q] = recorder[q]
  BY RecorderMoves DEF HistoryInv
<1>6. ASSUME NEW q \in Recorders, recorder'[q].pc = "reported"
      PROVE /\ IsLine(recorder'[q].sample)
            /\ recorder'[q].sample.report = "regressed" =>
                  \E j \in 1..n+1 : Warrants(samples'[j], recorder'[q].sample)
  <2>1. recorder[q].pc = "reported" /\ recorder'[q] = recorder[q]
    BY <1>5, <1>6
  <2>2. /\ IsLine(recorder[q].sample)
        /\ recorder[q].sample.report = "regressed" => \E j \in 1..n : Warrants(samples[j], recorder[q].sample)
    BY <2>1 DEF HistoryInv, LinesHold
  <2>3. \A j \in 1..n : j \in 1..n+1
    BY <1>1
  <2> QED BY <1>1, <2>1, <2>2, <2>3
<1> QED BY <1>1, <1>3, <1>4, <1>6 DEF LinesHold

LEMMA AppendSampleHolds == ASSUME HistoryInv, NEW p \in Recorders, AppendSample(p) PROVE HistoryInv'
<1> DEFINE x == [pc |-> "appended"]
           l == recorder[p].sample
<1>1. /\ UNCHANGED <<document, overlapped>> /\ recorder' = [recorder EXCEPT ![p] = x] /\ x.pc = "appended"
      /\ samples' = (IF TornLine \in ToSet(samples) THEN samples ELSE Append(samples, l))
      /\ recorder[p].pc = "reported"
  BY DEF AppendSample, At
<1> HIDE DEF x
<1>2. OutcomesHold' /\ RecordersAre'
  BY <1>1, OutcomesKeep, RecorderMoves DEF HistoryInv
<1>3. IsLine(l) /\ (l.report = "regressed" => \E j \in 1..Len(samples) : Warrants(samples[j], l))
  BY <1>1 DEF HistoryInv, LinesHold
<1> HIDE DEF l
<1>4. CASE TornLine \in ToSet(samples)
  BY <1>1, <1>2, <1>4, LinesKeep DEF HistoryInv
<1>5. CASE TornLine \notin ToSet(samples)
  BY <1>1, <1>2, <1>3, <1>5, LinesGrow DEF HistoryInv
<1> QED BY <1>4, <1>5

LEMMA DieRecordingHolds == ASSUME HistoryInv, NEW p \in Recorders, DieRecording(p) PROVE HistoryInv'
<1> DEFINE x == [pc |-> "died"]
<1>1. /\ UNCHANGED <<document, overlapped>> /\ recorder' = [recorder EXCEPT ![p] = x] /\ x.pc = "died"
      /\ samples' = samples \/ samples' = Append(samples, TornLine)
  BY DEF DieRecording, At
<1> HIDE DEF x
<1>2. OutcomesHold' /\ RecordersAre'
  BY <1>1, OutcomesKeep, RecorderMoves DEF HistoryInv
<1>3. TornLine.report # "regressed"
  BY DEF TornLine
<1>4. LinesHold'
  BY <1>1, <1>3, LinesKeep, LinesGrow
<1> QED BY <1>2, <1>4 DEF HistoryInv

LEMMA HistoryNextHolds == ASSUME HistoryInv, HistoryNext PROVE HistoryInv'
<1>1. PICK p \in Recorders : \/ Load(p) \/ Open(p) \/ Write(p) \/ ReportSample(p) \/ AppendSample(p) \/ DieRecording(p)
  BY Zenon DEF HistoryNext
<1> QED BY <1>1, LoadHolds, OpenHolds, WriteHolds, ReportSampleHolds, AppendSampleHolds, DieRecordingHolds

LEMMA HistoryFollows == ASSUME HistoryInv PROVE OutcomesAreKept /\ RegressionsAreWarranted
<1>1. ASSUME document.whole PROVE Alone \subseteq {o.by : o \in SimilarPastAttempts}
  <2>1. Alone \subseteq By(document)
    BY <1>1 DEF HistoryInv, OutcomesHold, KeepsOutcomes
  <2>2. By(document) = {o.by : o \in SimilarPastAttempts}
    BY <1>1 DEF By, SimilarPastAttempts, ToSet
  <2> QED BY <2>1, <2>2
<1>2. \A t \in Templates \ {NoTemplate} : document.lessons[t] = SuccessfulTemplates(t)
  BY DEF HistoryInv, OutcomesHold, Counted, Successes, SuccessfulTemplates
<1>3. OutcomesAreKept
  BY <1>1, <1>2 DEF Alone, OutcomesAreKept
<1>4. RegressionsAreWarranted
  BY DEF HistoryInv, LinesHold, Warrants, RegressionsAreWarranted
<1> QED BY <1>3, <1>4
-----------------------------------------------------------------------------
(* The three levels together *)

levels == <<subject, vars, specVars, historyVars>>
LevelNext == InSession \/ InSpecification \/ InHistory

LEMMA LevelsAre ==
    /\ GeneratorInit => Init /\ SpecInit /\ HistoryInit
    /\ [LevelNext]_levels => [Next]_vars /\ [SpecNext]_specVars /\ [HistoryNext]_historyVars
<1>1. GeneratorInit => Init /\ SpecInit /\ HistoryInit
  BY DEF GeneratorInit
<1>2. InSession => Next /\ UNCHANGED <<specVars, historyVars>>
  BY DEF InSession
<1>3. InSpecification => SpecNext /\ UNCHANGED <<vars, historyVars>>
  BY DEF InSpecification
<1>4. InHistory => HistoryNext /\ UNCHANGED <<vars, specVars>>
  BY DEF InHistory
<1>5. UNCHANGED levels => UNCHANGED vars /\ UNCHANGED specVars /\ UNCHANGED historyVars
  BY DEF levels
<1>6. UNCHANGED <<specVars, historyVars>> => UNCHANGED specVars /\ UNCHANGED historyVars
  OBVIOUS
<1>7. UNCHANGED <<vars, historyVars>> => UNCHANGED vars /\ UNCHANGED historyVars
  OBVIOUS
<1>8. UNCHANGED <<vars, specVars>> => UNCHANGED vars /\ UNCHANGED specVars
  OBVIOUS
<1> QED BY <1>1, <1>2, <1>3, <1>4, <1>5, <1>6, <1>7, <1>8 DEF LevelNext

LEMMA SessionRuns == GeneratorSpec => Spec
BY LevelsAre, PTL DEF GeneratorSpec, Spec, LevelNext, levels

LEMMA SpecificationHolds == GeneratorSpec => []SpecInv
<1>1. SpecInit => SpecInv
  BY SpecInitHolds
<1>2. SpecInv /\ [SpecNext]_specVars => SpecInv'
  <2>1. ASSUME SpecInv, UNCHANGED specVars PROVE SpecInv'
    BY <2>1 DEF specVars, SpecInv, SpecShape, PlacesHold, NobodyIsLost, SentInOrder, MaySend, Reported, StoredHolds,
        Waiting, InHand
  <2> QED BY <2>1, SpecNextHolds
<1> QED BY <1>1, <1>2, LevelsAre, PTL DEF GeneratorSpec, LevelNext, levels

LEMMA HistoryHolds == GeneratorSpec => []HistoryInv
<1>1. HistoryInit => HistoryInv
  BY HistoryInitHolds
<1>2. HistoryInv /\ [HistoryNext]_historyVars => HistoryInv'
  <2>1. ASSUME HistoryInv, UNCHANGED historyVars PROVE HistoryInv'
    BY <2>1 DEF historyVars, HistoryInv, RecordersAre, OutcomesHold, LinesHold, KeepsOutcomes, Alone, Unwritten
  <2> QED BY <2>1, HistoryNextHolds
<1> QED BY <1>1, <1>2, LevelsAre, PTL DEF GeneratorSpec, LevelNext, levels

\* The composition, at every level: what ends as completed is validated, credited
\* to who did it, and kept in the history as what it was.
THEOREM CompletionEarned ==
    ASSUME SetupsAssumption PROVE GeneratorSpec => []CompletionIsEarned
<1>1. HistoryInv => OutcomesAreKept /\ RegressionsAreWarranted
  BY HistoryFollows
<1>2. CompletedMeansValidated /\ CreditIsFair /\ OutcomesAreKept /\ RegressionsAreWarranted => CompletionIsEarned
  BY DEF CompletionIsEarned
<1> QED BY <1>1, <1>2, SessionRuns, HistoryHolds, CompletionIsValidation, CreditIsKept, PTL

\* For every plan, whatever the workers and the architect do and wherever the
\* process dies: one result for each contract, after those of what it depends on,
\* and nothing left out that could have been sent.
THEOREM ResultsOrdered == GeneratorSpec => []ResultsAreOrdered
<1>1. SpecInv => ResultsAreOrdered
  BY OneResultFollows, DependenciesFollow, ExhaustedFollows DEF ResultsAreOrdered
<1> QED BY <1>1, SpecificationHolds, PTL

\* A checkpoint that replaces another has all of its results, unless the
\* specification was resumed without the architect's contracts: such a session
\* goes to the draft alone and its checkpoint has no results.
THEOREM NothingIsForgotten == GeneratorSpec => NothingForgotten
<1>1. SpecInv /\ [SpecNext]_specVars =>
          [stored # NoName /\ plan # NoPlan =>
              stored'.results # <<>> /\ IsPrefix(stored.results, stored'.results)]_stored
  <2>1. UNCHANGED specVars => stored' = stored
    BY DEF specVars
  <2> QED BY <2>1, StoredGrows
<1> QED BY <1>1, LevelsAre, SpecificationHolds, PTL DEF GeneratorSpec, LevelNext, levels, NothingForgotten
=============================================================================
