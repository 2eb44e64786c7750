--------------------------- MODULE StructuredSpec ---------------------------
(***************************************************************************)
(* scripts/run_structured_spec.py: a specification is planned as a queue of *)
(* function contracts, each is implemented by the small worker and repaired *)
(* within a budget, the accepted ones are integrated, and the result passes *)
(* the generation controller and the final gates.  After every result a     *)
(* checkpoint is replaced; a run is resumed from it by name, also one that  *)
(* has ended.  Planning is done anew when a run is resumed.                 *)
(*                                                                          *)
(* A source is reduced to whether it satisfies its contract.  Runs are      *)
(* those with --save-artifacts, without which there is nothing to resume.   *)
(***************************************************************************)
EXTENDS ContractOrder

CONSTANTS
    Plans,          \* what planning may return: [queue, requires, files]
    SmallRetries,   \* small_retries_per_contract, the run's max_retries
    ArchitectRetries,
    MaxResumes,     \* bound on resumes
    NoName

ASSUME StructuredSpecAssumption ==
    /\ SmallRetries \in Nat /\ ArchitectRetries \in {0, 1} /\ MaxResumes \in Nat
    /\ \A p \in Plans :
          /\ p.queue \in Seq(ToSet(p.queue)) /\ IsInjective(p.queue) /\ NoName \notin ToSet(p.queue)
          /\ p.queue # <<>>       \* without contracts see Bulk
          /\ DOMAIN p.requires = ToSet(p.queue) /\ p.files \in Nat

VARIABLES
    plan,
    stage,             \* plan, queue, work, integrate, generate, gates, save, done
    ready, blocked, \* ready_queue and blocked_stack
    work,           \* the contract in hand: its name, validity and retries left
    results,        \* contract_execution_results
    status,         \* final_status of the session
    smoke,          \* what the smoke test started
    stored,          \* checkpoint.json: its phase and contract_results, or NoName
    resumes

specVars == <<plan, stage, ready, blocked, work, results, status, smoke, stored, resumes>>

NoPlan == [queue |-> <<>>, requires |-> <<>>, files |-> 0]
NoWork == [name |-> NoName, valid |-> FALSE, small |-> 0, architect |-> 0]

SpecInit ==
    /\ plan = NoPlan /\ stage = "plan"
    /\ ready = <<>> /\ blocked = <<>> /\ work = NoWork
    /\ results = <<>> /\ status = "" /\ smoke = "none"
    /\ stored = NoName
    /\ resumes = 0

Accepted(rs) == {rs[i].name : i \in {j \in DOMAIN rs : rs[j].status = "accepted"}}
Completed(rs) == {rs[i].name : i \in DOMAIN rs} \ {NoName}   \* NoName: "<queue>"

Loaded == IF stored = NoName THEN <<>> ELSE stored.results
-----------------------------------------------------------------------------
\* The elements of s that are in T, in their order; SelectSeq, for a set, as a
\* function that proofs can look into.
Only(s, T) ==
    LET kept[i \in 0..Len(s)] ==
            IF i = 0 THEN <<>> ELSE IF s[i] \in T THEN Append(kept[i-1], s[i]) ELSE kept[i-1]
    IN kept[Len(s)]

Pending_Mutant(queue, rs) == Only(queue, ToSet(queue) \ Accepted(rs))

Pending(queue, rs) == Only(queue, ToSet(queue) \ Completed(rs))

Plan_Mutant ==
    /\ stage = "plan"
    /\ \E p \in Plans : plan' = p /\ ready' = p.queue
    /\ results' = <<>>
    /\ stage' = "queue"
    /\ UNCHANGED <<blocked, work, status, smoke, stored, resumes>>

\* The plan, the contracts it makes, perhaps after the architect's remarks,
\* and those of them that have no result yet.
Plan ==
    /\ stage = "plan"
    /\ \E p \in Plans : plan' = p /\ ready' = Pending(p.queue, Loaded)
    /\ results' = Loaded
    /\ stage' = "queue"
    /\ UNCHANGED <<blocked, work, status, smoke, stored, resumes>>

\* --plan-only, and a specification without contracts.
PlanOnly ==
    /\ stage = "plan" /\ stored = NoName
    /\ stage' = "done"
    /\ status' = "planned"
    /\ UNCHANGED <<plan, ready, blocked, work, results, smoke, stored, resumes>>

\* --no-architect-contracts: the whole specification in one prompt, also when a
\* run with results is resumed; what it loaded is not looked at.
Bulk ==
    /\ stage = "plan"
    /\ plan' = NoPlan
    /\ stage' = "generate"
    /\ UNCHANGED <<ready, blocked, work, results, status, smoke, stored, resumes>>

Result(name, s) ==
    [name |-> name, status |-> s,
     dependencies |-> IF name = NoName THEN {} ELSE plan.requires[name]]

\* A result is appended and the checkpoint replaced.
Report(name, s) ==
    /\ results' = Append(results, Result(name, s))
    /\ stored' = [phase |-> "contract_queue", results |-> results']

MaySend_Mutant(c) == TRUE
MaySend(c) == plan.requires[c] \subseteq Accepted(results)

Send ==
    /\ stage = "queue" /\ ready # <<>>
    /\ MaySend(Head(ready))
    /\ work' = [name |-> Head(ready), valid |-> FALSE, small |-> SmallRetries, architect |-> ArchitectRetries]
    /\ ready' = Tail(ready)
    /\ stage' = "work"
    /\ UNCHANGED <<plan, blocked, results, status, smoke, stored, resumes>>

PushToStack ==
    /\ stage = "queue" /\ ready # <<>>
    /\ ~MaySend(Head(ready))
    /\ blocked' = Append(blocked, Head(ready))
    /\ ready' = Tail(ready)
    /\ UNCHANGED <<plan, stage, work, results, status, smoke, stored, resumes>>

Unblock_Mutant ==
    /\ stage = "queue" /\ ready = <<>> /\ blocked # <<>>
    /\ ready' = Reverse(blocked)
    /\ blocked' = <<>>
    /\ UNCHANGED <<plan, stage, work, results, status, smoke, stored, resumes>>

\* The last ones pushed go first.
Unblock ==
    /\ stage = "queue" /\ ready = <<>>
    /\ LET free == {c \in ToSet(blocked) : MaySend(c)}
       IN /\ free # {}
          /\ ready' = Reverse(Only(blocked, free))
          /\ blocked' = Only(blocked, ToSet(blocked) \ free)
    /\ UNCHANGED <<plan, stage, work, results, status, smoke, stored, resumes>>

EndQueue_Mutant ==
    /\ stage = "queue" /\ ready = <<>>
    /\ stage' = "integrate"
    /\ UNCHANGED <<plan, ready, blocked, work, results, status, smoke, stored, resumes>>

EndQueue ==
    /\ stage = "queue" /\ ready = <<>>
    /\ \A i \in DOMAIN blocked : ~MaySend(blocked[i])
    /\ IF blocked = <<>> THEN UNCHANGED <<results, stored>>
       ELSE Report(NoName, "dependency_blocked")
    /\ stage' = "integrate"
    /\ UNCHANGED <<plan, ready, blocked, work, status, smoke, resumes>>
-----------------------------------------------------------------------------
(* One contract.  stage is "work" until its result is reported.                *)

\* What a worker's source may be, and how its examples end in the sandbox.
Sources == [parses : BOOLEAN, defines : BOOLEAN, imports : BOOLEAN, examples : BOOLEAN,
            sandbox : {"completed", "timeout", "setup_error", "process_error"}, passes : BOOLEAN]

\* _validate_contract_source
ContractIssues(s) ==
    IF ~s.parses THEN {"contract_parse_error"}
    ELSE {k \in {"contract_missing_function"} : ~s.defines}
         \cup {k \in {"contract_missing_import_symbol"} : ~s.imports}
         \cup {k \in {"contract_execution_error"} : s.examples /\ s.sandbox # "completed"}
         \cup {k \in {"contract_example_failed"} : s.examples /\ s.sandbox = "completed" /\ ~s.passes}

Validations == {ContractIssues(s) = {} : s \in Sources}

Working == stage = "work" /\ UNCHANGED <<plan, ready, blocked, status, smoke, resumes>>

\* The first draft: a failing worker is reported at once.
Generate ==
    /\ Working
    /\ \/ /\ Report(work.name, "backend_failed")
          /\ stage' = "queue" /\ work' = NoWork
       \/ \E valid \in Validations :
             /\ work' = [work EXCEPT !.valid = valid]
             /\ stage' = "repair"
             /\ UNCHANGED <<results, stored>>

RepairingContract == stage = "repair" /\ UNCHANGED <<plan, ready, blocked, status, smoke, resumes, results, stored, stage>>

\* A retry; a worker that fails is not asked again.
SmallRepair ==
    /\ RepairingContract
    /\ ~work.valid /\ work.small > 0
    /\ \/ work' = [work EXCEPT !.small = 0]
       \/ \E valid \in Validations : work' = [work EXCEPT !.small = @ - 1, !.valid = valid]

ArchitectRepair ==
    /\ RepairingContract
    /\ ~work.valid /\ work.small = 0 /\ work.architect > 0
    /\ \/ work' = [work EXCEPT !.architect = 0]
       \/ \E valid \in Validations : work' = [work EXCEPT !.architect = @ - 1, !.valid = valid]

Settle ==
    /\ stage = "repair"
    /\ work.valid \/ (work.small = 0 /\ work.architect = 0)
    /\ Report(work.name, IF work.valid THEN "accepted" ELSE "validation_failed")
    /\ stage' = "queue" /\ work' = NoWork
    /\ UNCHANGED <<plan, ready, blocked, status, smoke, resumes>>
-----------------------------------------------------------------------------
(* The whole *)

Ends(s) == status' = s /\ UNCHANGED <<plan, ready, blocked, work, results, stored, resumes>>

\* The architect integrates whatever was accepted, and may fail.
Integrate ==
    /\ stage = "integrate"
    /\ \/ Ends("manual_review_required") /\ stage' = "gates"
       \/ Accepted(results) # {} /\ Ends("") /\ stage' = "generate"
    /\ UNCHANGED smoke

\* GenerationController.run, see Generation.
RunController ==
    /\ stage = "generate"
    /\ \E s \in {"completed", "manual_review_required"} : Ends(s)
    /\ stage' = "gates"
    /\ UNCHANGED smoke

\* _structured_spec_file_map: the files of the accepted contracts, if any has one.
OwnedFiles == {FileOf(plan.queue, plan.files, c) : c \in Accepted(results) \cap ToSet(plan.queue)} \ {0}

\* _validate_structured_spec_output: what the plan names, and imports and
\* contracts across the files.
Outputs == [parses : BOOLEAN, symbols : BOOLEAN, imports : BOOLEAN, contracts : BOOLEAN]

SpecIssues(o) ==
    IF ~o.parses THEN {"spec_parse_error"}
    ELSE {k \in {"missing_component"} : ~o.symbols}
         \cup {k \in {"missing_import_symbol"} : ~o.imports}
         \cup {k \in {"incompatible_contract"} : ~o.contracts}

\* _run_integration_smoke_test: what is started, and how that may end.
Started == IF Cardinality(OwnedFiles) > 1 THEN "contract files" ELSE "final source"
SmokeOutcomes == {"skipped", "running_after_smoke_window", "exited_cleanly", "crashed"}

FinalGates ==
    /\ stage = "gates"
    /\ smoke' = Started
    /\ \E issues \in {SpecIssues(o) : o \in Outputs}, outcome \in SmokeOutcomes :
          Ends(IF status = "completed" /\ (issues # {} \/ outcome = "crashed")
               THEN "manual_review_required" ELSE status)
    /\ stage' = "save"

Save ==
    /\ stage = "save"
    /\ stored' = [phase |-> "terminal", results |-> results]
    /\ stage' = "done"
    /\ UNCHANGED <<plan, ready, blocked, work, results, status, smoke, resumes>>

\* The process dies, or has ended, and the run is named by --resume-run.  Without
\* a checkpoint there is nothing to resume.
ResumeSpec ==
    /\ stage # "plan" /\ stored # NoName
    /\ resumes < MaxResumes
    /\ resumes' = resumes + 1
    /\ stage' = "plan" /\ plan' = NoPlan
    /\ ready' = <<>> /\ blocked' = <<>> /\ work' = NoWork /\ results' = <<>>
    /\ status' = "" /\ smoke' = "none"
    /\ UNCHANGED stored
-----------------------------------------------------------------------------
Queue == Send \/ PushToStack \/ Unblock \/ EndQueue
Implement == Generate \/ SmallRepair \/ ArchitectRepair \/ Settle
Deliver == Integrate \/ RunController \/ FinalGates \/ Save

SpecNext == Plan \/ PlanOnly \/ Bulk \/ Queue \/ Implement \/ Deliver \/ ResumeSpec

\* Workers, the architect and the sandbox have timeouts.
FairRuns ==
    SpecInit /\ [][SpecNext]_specVars /\ WF_specVars(Plan \/ Queue \/ Implement \/ Deliver)
-----------------------------------------------------------------------------
(* Properties *)

\* However often a run is interrupted, a contract is implemented and reported
\* once, and the first report that the queue is blocked is the last of its run.
OneResultPerContract ==
    /\ \A i, j \in DOMAIN results :
          (results[i].name # NoName /\ results[i].name = results[j].name) => i = j
    /\ Cardinality({i \in DOMAIN results : results[i].name = NoName}) <= resumes + 1

\* A contract is accepted only after everything it was said to depend on, also
\* if that was in an earlier process.
DependenciesFirst ==
    \A i \in DOMAIN results :
        results[i].name # NoName => results[i].dependencies \subseteq Accepted(SubSeq(results, 1, i-1))

\* The queue ends only when each contract has a result or waits, directly or
\* through others, for one that was not accepted.
QueueIsExhausted ==
    stage \in {"integrate", "save"} =>
        \A c \in ToSet(plan.queue) : c \in Completed(results) \/ ~MaySend(c)

\* No checkpoint of a run with contracts forgets a result of the one it replaces.
\* A resumption with --no-architect-contracts does: its last checkpoint replaces
\* whatever was stored by no results (run_structured_spec.py:1510, :1701).
NothingForgotten ==
    [][stored # NoName /\ plan # NoPlan =>
          stored'.results # <<>> /\ IsPrefix(stored.results, stored'.results)]_stored

\* Every run ends, in spite of what the queue pushes back and forth.
SpecEnds == <>[](stage = "done")
=============================================================================
