----------------------------- MODULE Generation -----------------------------
(***************************************************************************)
(* GenerationController.run: a draft is scanned, validated, recorded and,   *)
(* if it fails, repaired by a worker chosen from the history, until a draft *)
(* passes every gate or the session is given to a person.  A checkpoint is  *)
(* replaced atomically after every attempt and every accepted repair; a     *)
(* process that dies is resumed from it.                                    *)
(*                                                                          *)
(* A draft is reduced to the first gate it fails and whether it is a small  *)
(* edit (under 5 %) of the draft it repairs.  Prompts, directives and the   *)
(* provider schedule (contribution_split, off by default) are left out.     *)
(***************************************************************************)
EXTENDS Naturals, Sequences, FiniteSets, SequencesExt

CONSTANTS
    MaxRetries,
    Faults,         \* what validation may find; "none" is a draft that passes
    Setups,         \* how controllers are constructed, see SetupsAssumption
    MaxCrashes,     \* bound on crashes
    None

SetupsAssumption ==
    /\ MaxRetries \in Nat /\ MaxCrashes \in Nat
    /\ Faults \subseteq {"none", "complexity", "import", "tangled", "lint_skipped",
                         "behavior", "profile", "formal"}
    /\ Setups \subseteq
         [architect : BOOLEAN,      \* architect_supplier is not None
          after : Nat,              \* architect_after_repair_attempts; a large one is None
          strategy : BOOLEAN,       \* repair_strategy is not None
          again : BOOLEAN,          \* allow_architect_repair_retry
          peers : Nat]              \* peer_consultation_limit, 0 without a consultant

ASSUME SetupsAssumption

VARIABLES
    setup,
    pc,             \* start, validate, decide, repair, finish, done or crashed
    attempts,       \* session.attempts
    run,            \* the locals of run(): draft, source, index, retried, force, peers
    outcome,        \* termination_reason; "validated" is a completed session
    saved,          \* checkpoint.json or None
    crashes

vars == <<setup, pc, attempts, run, outcome, saved, crashes>>

Small == "small_worker"
Architect == "architect_llm"
Transform == "deterministic_transform"
Patch == "json_patch"
Constrained == {Transform, Patch}

\* tangled: a forbidden import that more than one statement makes.
Static == {"complexity", "import", "tangled", "lint_skipped"}

\* What the scan, the behaviour examples, the profile of a compliant draft and
\* the formal contracts report, and how much.
Verdicts == {v \in Faults \X {1, 2} : v[1] # "complexity" => v[2] = 1}

\* A draft and what the gates will say of it.
Made(i) == [id : {i}, verdict : Verdicts, near : BOOLEAN]
Fault(d) == d.verdict[1]
IsComplete(d) == Fault(d) = "none"

Locals(draft, source, index) ==
    [draft |-> draft, source |-> source, index |-> index, retried |-> FALSE, force |-> FALSE, peers |-> 0]

NoDraft == [id |-> 0, verdict |-> <<"backend", 1>>, near |-> FALSE]

Init ==
    /\ setup \in Setups
    /\ pc = "start"
    /\ attempts = <<>>
    /\ run = Locals(NoDraft, Small, 0)
    /\ outcome = ""
    /\ saved = None
    /\ crashes = 0
-----------------------------------------------------------------------------
(* What an attempt is compared with *)

IsStagnant(previous, d) == d.id = previous.id

\* _diagnostic_deltas and diagnostic_stagnant: the last attempt's static
\* violation is repeated and its number, if it has one, is not smaller.
DiagnosticStagnant(d) ==
    /\ attempts # <<>>
    /\ LET p == Last(attempts).draft
       IN Fault(d) \in Static /\ Fault(p) = Fault(d) /\ d.verdict[2] >= p.verdict[2]

\* build_failure_signature: the violation's kind and stable location, which here
\* follows from the kind; a level is not part of it.
FailureSignature(d) == IF Fault(d) = "none" THEN "" ELSE Fault(d)

\* semantic_stagnant: nearly the same draft fails in the same way.
SemanticStagnant(d) ==
    /\ attempts # <<>> /\ d.near
    /\ FailureSignature(d) # "" /\ FailureSignature(Last(attempts).draft) = FailureSignature(d)

\* build_branch_state_signature; a profiling failure is not part of it.
Failure(a) == IF Fault(a.draft) \in {"none", "profile"} THEN <<"pass", 1>> ELSE a.draft.verdict
CycleKey(a) == <<a.source, Failure(a)>>

\* A failure fewer, or the same with an improved number.
HasProgress(p, a) ==
    \/ Failure(a)[1] = "pass" /\ Failure(p)[1] # "pass"
    \/ Fault(p.draft) = "complexity" /\ Fault(a.draft) = "complexity"
         /\ a.draft.verdict[2] < p.draft.verdict[2]

NoArtifactProgress(a) == ~a.changed

DetectBranchingLoop(s) ==
    LET n == Len(s)
    IN /\ n >= 2
       /\ ~HasProgress(s[n-1], s[n])
       /\ \/ NoArtifactProgress(s[n])
          \/ \E i \in 1..n-1 : CycleKey(s[i]) = CycleKey(s[n])
          \/ n >= 3 /\ Failure(s[n]) = Failure(s[n-1])

\* _repair_worker_for
RepairWorkerFor(n) == IF setup.architect /\ n >= setup.after THEN Architect ELSE Small

\* decide_repeated_failure: a forbidden import is removed mechanically, anything
\* else asks the small worker for one symbol.
DecideRepeatedFailure(d) == IF Fault(d) \in {"import", "tangled"} THEN Transform ELSE Patch

RepairWorker_Mutant(d) ==
    IF setup.architect /\ (RepairWorkerFor(Len(attempts)) = Architect \/ DiagnosticStagnant(d)) THEN Architect
    ELSE IF SemanticStagnant(d) /\ setup.strategy THEN DecideRepeatedFailure(d)
    ELSE Small

\* Which worker repairs draft d next.
RepairWorker(d) ==
    IF run.source \in Constrained THEN Architect
    ELSE IF setup.architect /\ (RepairWorkerFor(Len(attempts)) = Architect \/ DiagnosticStagnant(d)) THEN Architect
    ELSE IF SemanticStagnant(d) /\ setup.strategy THEN DecideRepeatedFailure(d)
    ELSE Small

\* An architect's draft that fails the static gates is repaired once, if at all.
MayRepairArchitect(d) == setup.again /\ ~run.retried /\ run.index < MaxRetries

ForceManualReview(d) ==
    \/ Fault(d) = "lint_skipped"
    \/ run.source = Architect /\ Fault(d) \in Static /\ ~MayRepairArchitect(d)
    \/ run.source \in Constrained /\ ~IsComplete(d) /\ ~setup.architect

MayRouteRepair_Mutant ==
    run.index <= MaxRetries \/ (run.source \in Constrained /\ setup.architect)

MayRouteRepair ==
    run.index < MaxRetries \/ (run.source \in Constrained /\ setup.architect)

\* Whether the peer's answer is advice: it may fail, or answer with code.
PeerAnswers == BOOLEAN

\* _request_peer_consultation
MayConsult(r) == IF r.peers < setup.peers THEN PeerAnswers ELSE {FALSE}

\* _write_checkpoint
Checkpoint(phase, as, r, why) ==
    [phase |-> phase, attempts |-> as, draft |-> r.draft, source |-> r.source,
     index |-> r.index, retried |-> r.retried, outcome |-> why]
-----------------------------------------------------------------------------
(* The loop *)

BackendFailure(worker) ==
    [index |-> 0, draft |-> NoDraft, source |-> "backend_failure", worker |-> worker,
     changed |-> FALSE, stagnant |-> FALSE, consulted |-> FALSE, escalated |-> FALSE]

\* draft_override or the first answer of the draft supplier.
FirstDraft ==
    \E d \in Made(1) :
        /\ ~d.near
        /\ run' = Locals(d, "draft_supplier", 0)
        /\ pc' = "validate"
        /\ UNCHANGED <<attempts, outcome>>

\* _handle_initial_backend_failure: the architect is asked once, and its draft
\* starts as the second attempt.
BackendFails ==
    \/ /\ setup.architect
       /\ attempts' = <<BackendFailure(Architect)>>
       /\ \E d \in Made(1) : ~d.near /\ run' = Locals(d, Architect, 1)
       /\ pc' = "validate"
       /\ UNCHANGED outcome
    \/ /\ attempts' = <<BackendFailure(IF setup.architect THEN Architect ELSE "")>>
       /\ outcome' = IF setup.architect THEN "architect_after_backend_failure_failed"
                     ELSE "small_worker_initial_backend_failure"
       /\ pc' = "done"
       /\ UNCHANGED run

Start ==
    /\ pc = "start"
    /\ FirstDraft \/ BackendFails
    /\ UNCHANGED <<setup, saved, crashes>>

\* The record of draft d, to be repaired by this worker.
Attempt(d, worker, memo) ==
    [index |-> run.index, draft |-> d, source |-> run.source, worker |-> worker,
     changed |-> attempts = <<>> \/ ~IsStagnant(Last(attempts).draft, d),
     stagnant |-> DiagnosticStagnant(d), consulted |-> memo, escalated |-> FALSE]

\* Scan and validate the draft, choose the next worker, record the attempt.
Validate ==
    /\ pc = "validate"
    /\ LET d == run.draft
           force == ForceManualReview(d)
           worker == IF ~IsComplete(d) /\ ~force /\ MayRouteRepair THEN RepairWorker(d) ELSE ""
           stuck == worker = Small /\ (DiagnosticStagnant(d) \/ SemanticStagnant(d))
       IN \E memo \in IF stuck THEN MayConsult(run) ELSE {FALSE} :
            /\ attempts' = Append(attempts, Attempt(d, worker, memo))
            /\ run' = [run EXCEPT !.force = force,
                 !.retried = @ \/ (run.source = Architect /\ Fault(d) \in Static /\ MayRepairArchitect(d)),
                 !.peers = IF memo THEN @ + 1 ELSE @]
            /\ saved' = Checkpoint("attempt_recorded", attempts', [run' EXCEPT !.index = @ + 1], outcome)
    /\ pc' = "decide"
    /\ UNCHANGED <<setup, outcome, crashes>>

Stop(why) ==
    /\ outcome' = why
    /\ pc' = "finish"

\* After the attempt was recorded: done, to a person, or on to a repair.
Decide ==
    /\ pc = "decide"
    /\ LET a == Last(attempts)
           loop == a.worker \notin Constrained /\ DetectBranchingLoop(attempts)
       IN \/ IsComplete(a.draft) /\ Stop("validated")
          \/ ~IsComplete(a.draft) /\ (run.force \/ loop) /\ Stop("manual_review")
          \/ ~IsComplete(a.draft) /\ ~run.force /\ ~loop /\ ~MayRouteRepair /\ Stop("max_retries_exhausted")
          \/ /\ ~IsComplete(a.draft) /\ ~run.force /\ ~loop /\ MayRouteRepair
             /\ pc' = "repair"
             /\ UNCHANGED outcome
    /\ UNCHANGED <<setup, attempts, run, saved, crashes>>

\* A model returns its input unchanged or something new.
Unchanged(d) == [d EXCEPT !.near = TRUE]
Returned(d) == Made(run.index + 2) \cup {Unchanged(d)}

Mark_Mutant(consulted, escalated) == [attempts EXCEPT ![Len(attempts)].consulted = @ \/ consulted]

\* What is added to the last attempt: a peer's memo, "->architect_llm".
Mark(consulted, escalated) ==
    [attempts EXCEPT ![Len(attempts)].consulted = @ \/ consulted, ![Len(attempts)].escalated = escalated]

\* The next draft of the loop; an architect that was not chosen for it was
\* called instead of who was.
Accept(d, source, consulted) ==
    /\ run' = [run EXCEPT !.draft = d, !.source = source, !.index = @ + 1,
                          !.peers = IF consulted THEN @ + 1 ELSE @]
    /\ attempts' = Mark(consulted, source = Architect /\ Last(attempts).worker # Architect)
    /\ saved' = Checkpoint("ready_to_validate", attempts', run', outcome)
    /\ pc' = "validate"
    /\ UNCHANGED outcome

GiveUp(why) == Stop(why) /\ UNCHANGED <<attempts, run, saved>>

\* The architect called in the worker's place raises or returns its input.
GiveUpEscalated(why) ==
    /\ Stop(why)
    /\ attempts' = Mark(FALSE, TRUE)
    /\ UNCHANGED <<run, saved>>

Repairing(workers) == pc = "repair" /\ Last(attempts).worker \in workers /\ UNCHANGED <<setup, crashes>>

\* apply_deterministic_transform needs exactly one statement to change.
Transformed(d, i) == IF Fault(d) = "import" THEN Made(i) ELSE {}

\* parse_symbol_replacement_patch and apply_symbol_replacement_patch: one symbol
\* that exists once, possibly replaced by itself.
Patched(d, i) == Made(i) \cup {Unchanged(d)}

ApplyConstrained ==
    /\ Repairing(Constrained)
    /\ \E d \in IF Last(attempts).worker = Transform
               THEN Transformed(run.draft, run.index + 2) ELSE Patched(run.draft, run.index + 2) :
          Accept(d, Last(attempts).worker, FALSE)

ConstrainedFails_Mutant ==
    /\ Repairing(Constrained)
    /\ Last(attempts).worker = Patch \/ Fault(run.draft) # "import"
    /\ setup.architect
    /\ \/ \E d \in Made(run.index + 2) : Accept(d, Architect, FALSE)
       \/ GiveUpEscalated("repair_strategy_patch_failed")

\* A patch that cannot be applied goes to the architect at once.
ConstrainedFails ==
    /\ Repairing(Constrained)
    /\ Last(attempts).worker = Patch \/ Fault(run.draft) # "import"
    /\ IF setup.architect
       THEN \/ \E d \in Made(run.index + 2) : Accept(d, Architect, FALSE)
            \/ GiveUpEscalated("repair_strategy_patch_failed")
       ELSE GiveUp("repair_strategy_patch_failed")

\* No progress: an unchanged draft, or a small worker's answer to a repeated
\* diagnostic whatever it contains.
NoProgress(d) ==
    IsStagnant(run.draft, d) \/ (Last(attempts).stagnant /\ Last(attempts).worker # Architect)

ModelRepairs ==
    /\ Repairing({Small, Architect})
    /\ \E d \in Returned(run.draft) :
          /\ ~NoProgress(d) \/ Last(attempts).consulted
          /\ Accept(d, Last(attempts).worker, FALSE)

ModelRaises ==
    /\ Repairing({Small, Architect})
    /\ GiveUp("repair_supplier_error")

\* Without progress a peer is asked, if that is still allowed, and the small
\* worker tries once more; what it returns is validated in any case.
RepairWithMemo ==
    /\ Repairing({Small})
    /\ ~Last(attempts).consulted /\ TRUE \in MayConsult(run)
    /\ \/ \E d \in Returned(run.draft) : Accept(d, Small, TRUE)
       \/ GiveUp("repair_supplier_error")

\* No memo: the architect, if its turn has come, or the end.
Escalate ==
    /\ Repairing({Small, Architect})
    /\ ~Last(attempts).consulted
    /\ IF Last(attempts).worker = Small /\ RepairWorkerFor(Len(attempts)) = Architect
       THEN \/ \E d \in Made(run.index + 2) : Accept(d, Architect, FALSE)
            \/ \E why \in {"repair_supplier_error", "architect_stagnant_after_escalation"} :
                  GiveUpEscalated(why)
       ELSE GiveUp(IF Last(attempts).worker = Architect THEN "architect_stagnant_after_escalation"
                   ELSE "stagnant_repair")

Finish ==
    /\ pc = "finish"
    /\ saved' = Checkpoint("terminal", attempts, run, outcome)
    /\ pc' = "done"
    /\ UNCHANGED <<setup, attempts, run, outcome, crashes>>
-----------------------------------------------------------------------------
(* Crash and resume *)

Crash ==
    /\ pc \in {"validate", "decide", "repair", "finish"}
    /\ crashes < MaxCrashes
    /\ crashes' = crashes + 1
    /\ pc' = "crashed"
    /\ attempts' = <<>> /\ outcome' = "" /\ run' = Locals(NoDraft, Small, 0)
    /\ UNCHANGED <<setup, saved>>

Restored_Mutant(draft, source) == Locals(draft, source, saved.index)

\* The locals a checkpoint restores; session.peer_consultations is not restored.
Restored(draft, source) == [Locals(draft, source, saved.index) EXCEPT !.retried = saved.retried]

Restore ==
    /\ pc = "crashed" /\ saved # None
    /\ attempts' = saved.attempts
    /\ UNCHANGED <<setup, crashes>>

\* Without a checkpoint the run is started anew.
Restart ==
    /\ pc = "crashed" /\ saved = None
    /\ pc' = "start"
    /\ UNCHANGED <<setup, attempts, run, outcome, saved, crashes>>

ResumeReady ==
    /\ Restore
    /\ saved.phase = "ready_to_validate"
    /\ run' = Restored(saved.draft, saved.source)
    /\ pc' = "validate"
    /\ UNCHANGED <<outcome, saved>>

ResumeEnded_Mutant ==
    /\ Restore
    /\ saved.phase = "terminal" \/ (saved.phase = "attempt_recorded" /\ Last(saved.attempts).worker = "")
    /\ outcome' = IF saved.phase = "terminal" THEN saved.outcome ELSE "validated"
    /\ saved' = [saved EXCEPT !.phase = "terminal", !.outcome = outcome']
    /\ pc' = "done"
    /\ UNCHANGED run

ResumeEnded ==
    /\ Restore
    /\ \/ /\ saved.phase = "terminal"
          /\ outcome' = saved.outcome
          /\ UNCHANGED saved
       \/ /\ saved.phase = "attempt_recorded" /\ Last(saved.attempts).worker = ""
          /\ outcome' = IF IsComplete(Last(saved.attempts).draft) THEN "validated"
                        ELSE "repair_strategy_manual_review"
          /\ saved' = [saved EXCEPT !.phase = "terminal", !.outcome = outcome']
    /\ pc' = "done"
    /\ UNCHANGED run

\* _resume_attempt_draft: the recorded worker is called again, and a model may,
\* like a patch, return what it was given.  If it raises, run() raises and
\* everything stays as it was.
ResumeRecorded ==
    /\ Restore
    /\ saved.phase = "attempt_recorded"
    /\ LET a == Last(saved.attempts)
           i == saved.index + 1
       IN /\ a.worker # ""
          /\ \E d \in IF a.worker = Transform THEN Transformed(a.draft, i) ELSE Patched(a.draft, i) :
               run' = Restored(d, a.worker)
    /\ pc' = "validate"
    /\ UNCHANGED <<outcome, saved>>
-----------------------------------------------------------------------------
Repair ==
    ApplyConstrained \/ ConstrainedFails \/ ModelRepairs \/ ModelRaises \/ RepairWithMemo \/ Escalate

Resume == Restart \/ ResumeReady \/ ResumeEnded \/ ResumeRecorded

Next == Start \/ Validate \/ Decide \/ Repair \/ Finish \/ Crash \/ Resume

Spec == Init /\ [][Next]_vars

\* Suppliers and validators have timeouts; a crashed session is resumed.
FairSpec ==
    /\ Spec
    /\ WF_vars(Start \/ Validate \/ Decide \/ Repair \/ Finish)
    /\ WF_vars(Resume)
-----------------------------------------------------------------------------
(* run_coding_capability.py: who is credited *)

ArchitectUsed(as) == \E i \in DOMAIN as : as[i].worker = Architect \/ as[i].escalated

\* Repairs by the small worker alone that changed the draft.
SmallChanged(as) ==
    {i \in 1..Len(as)-1 : as[i].worker = Small /\ ~as[i].escalated /\ as[i+1].changed}

\* The label of _worker_contribution; its counts and deltas are left out.
WorkerContribution(as, completed) ==
    IF completed /\ Len(as) = 1 THEN "small_solved_initial"
    ELSE IF completed /\ Len(as) > 1 /\ ~ArchitectUsed(as) THEN "small_repaired"
    ELSE IF completed /\ ArchitectUsed(as) /\ SmallChanged(as) # {} THEN "small_helped_architect"
    ELSE IF completed /\ ArchitectUsed(as) THEN "architect_solved_after_small_stall"
    ELSE IF ~completed /\ SmallChanged(as) # {} THEN "small_made_progress_but_failed"
    ELSE "small_no_progress"
-----------------------------------------------------------------------------
(* Properties *)

\* The budget of the comment before the loop: at most max_retries repairs, and
\* one more by the architect only when a constrained repair was the last of
\* them, or, with a budget of zero, when the backend failed to give a first
\* draft; across crashes and resumes no attempt is counted twice or skipped.
RetryBudget ==
    LET n == Len(attempts)
    IN /\ \A i \in 1..n : attempts[i].index = i - 1
       /\ n <= MaxRetries + 2
       /\ n = MaxRetries + 2 =>
             /\ attempts[n].source = Architect
             /\ \/ attempts[n-1].source \in Constrained
                \/ MaxRetries = 0 /\ attempts[n-1].source = "backend_failure"

\* A failing constrained repair is never followed by another or by the small
\* worker: the next draft is the architect's.
ConstrainedThenArchitect ==
    \A i \in 1..Len(attempts)-1 :
        attempts[i].source \in Constrained => attempts[i+1].source = Architect

\* An architect's draft that fails the static gates is repaired at most once
\* in a session, and never where that is not allowed, crashes included.
ArchitectRepairedOnce ==
    Cardinality({i \in 1..Len(attempts)-1 :
        attempts[i].source = Architect /\ Fault(attempts[i].draft) \in Static})
      <= IF setup.again THEN 1 ELSE 0

\* The architect comes last and once: after a constrained repair that fails, for
\* one repair of its own draft, over crashes and resumes
\* (generation_controller.py:1318, :1400).
ArchitectIsLastResort == ConstrainedThenArchitect /\ ArchitectRepairedOnce

\* A session is completed exactly when its last draft passed every gate, and a
\* draft that passed is never repaired.
CompletedMeansValidated ==
    /\ \A i \in 1..Len(attempts)-1 : ~IsComplete(attempts[i].draft)
    /\ pc \in {"finish", "done"} =>
          (outcome = "validated" <=> IsComplete(Last(attempts).draft))

\* The small worker is credited with a whole session exactly when no draft of it
\* was the architect's, crashes and escalations in between included
\* (run_coding_capability.py:228).
CreditIsFair ==
    pc = "done" =>
        (WorkerContribution(attempts, outcome = "validated") \in {"small_solved_initial", "small_repaired"}
          <=> outcome = "validated" /\ \A i \in DOMAIN attempts : attempts[i].source # Architect)

\* A recorded transform that does not apply raises at every resume.
CannotResume ==
    /\ pc = "crashed" /\ saved # None
    /\ saved.phase = "attempt_recorded"
    /\ Last(saved.attempts).worker = Transform /\ Fault(saved.draft) = "tangled"

\* Every session ends with a decision, unless it cannot be resumed.
Terminates == <>[](pc = "done" \/ CannotResume)
=============================================================================
