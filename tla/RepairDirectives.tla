-------------------------- MODULE RepairDirectives --------------------------
(***************************************************************************)
(* What the worker is told about a draft that failed: the failing gates of  *)
(* agents/generation_controller.py, the directives that                     *)
(* validation/finding_aggregator.py groups them into, and the choices of    *)
(* agents/repair_strategy.py.                                               *)
(*                                                                          *)
(* A violation is a record of FindingGates: its line is 0 when its location *)
(* names no line.  A function of the draft is an anchor with its name, its  *)
(* first and its last line; names are naturals, of which only the order     *)
(* matters.                                                                 *)
(***************************************************************************)
EXTENDS Naturals, Integers, Sequences, FiniteSets, SequencesExt

Rank(severity) ==
    CASE severity = "High" -> 3 [] severity \in {"Medium", "Warn"} -> 2
      [] severity = "Low" -> 1 [] OTHER -> 0

OrderedUnique(s) == FoldLeft(LAMBDA o, x : IF x \in ToSet(o) THEN o ELSE Append(o, x), <<>>, s)

\* _retry_violations: the failing gates in the order of validation, without
\* repetitions; a gate that reports no issue adds nothing.
RetryViolations(static, behaviour, formal, profiling) ==
    LET failing(gate) == IF gate.is_compliant THEN <<>> ELSE gate.violations
    IN OrderedUnique(failing(static) \o failing(behaviour) \o failing(formal) \o failing(profiling))

HighViolation(kind, engine, value) ==
    [kind |-> kind, engine |-> engine, severity |-> "High", summary |-> kind, value |-> value, line |-> 0]

\* _behavior_violations, _formal_violations, _profiling_violations: one for
\* each issue, none of which has a location.
IssueViolations(kind, engine, issues) ==
    [is_compliant |-> issues = 0, violations |-> [i \in 1..issues |-> HighViolation(kind, engine, i)]]

\* validate_deal_examples and validate_with_crosshair: what is not installed, and
\* a draft without checked contracts, is skipped; every other way not to get an
\* answer fails.
DealVerdict(deal) ==
    IF ~deal.mentioned \/ ~deal.installed THEN "skips"
    ELSE IF deal.outcome # "json" \/ deal.issues > 0 THEN "fails"
    ELSE IF deal.checked = 0 THEN "skips"
    ELSE "passes"

CrossHairVerdict(crosshair) ==
    IF ~crosshair.installed THEN "skips" ELSE IF crosshair.outcome = "holds" THEN "passes" ELSE "fails"

\* _make_formal_verification_handler.
FormalHandler(deal, enabled, crosshair) ==
    IF DealVerdict(deal) # "skips" THEN DealVerdict(deal)
    ELSE IF enabled THEN CrossHairVerdict(crosshair) ELSE "skips"

\* _validate_formal_contracts: through the registry, whose handler may raise,
\* or, when the registry has no such tool, by the same two checks in order.
FormalGate(registry, deal, enabled, crosshair) ==
    IF registry = "registered" THEN FormalHandler(deal, enabled, crosshair)
    ELSE IF registry = "raises" \/ DealVerdict(deal) = "fails" THEN "fails"
    ELSE IF DealVerdict(deal) = "passes" THEN "passes"
    ELSE IF enabled THEN CrossHairVerdict(crosshair) ELSE "skips"
-----------------------------------------------------------------------------
\* _anchor_for_violation: of the functions that hold the line, the first.
AnchorFor(anchors, v) ==
    IF v.line # 0 /\ \E i \in DOMAIN anchors : v.line \in anchors[i].first..anchors[i].last
    THEN Min({i \in DOMAIN anchors : v.line \in anchors[i].first..anchors[i].last})
    ELSE IF Len(anchors) = 1 THEN 1 ELSE 0

\* The name a violation is grouped under: the function's, or else its location
\* or its kind.
GroupKey(anchors, v) ==
    LET a == AnchorFor(anchors, v)
    IN IF a # 0 THEN <<"function", anchors[a].name>>
       ELSE IF v.line # 0 THEN <<"line", v.line>> ELSE <<v.kind, 0>>

\* _diagnostic_deltas, keyed by engine and kind (which determine the hint): the
\* last such violation of the attempt before.
DiagnosticDeltas(before, violations) ==
    LET prior(v) == {i \in DOMAIN before : before[i].engine = v.engine /\ before[i].kind = v.kind}
        repeated == SelectSeq(violations, LAMBDA v : prior(v) # {})
    IN [i \in DOMAIN repeated |->
          [engine |-> repeated[i].engine, kind |-> repeated[i].kind,
           delta |-> repeated[i].value - before[Max(prior(repeated[i]))].value]]

\* _delta_lookup: the last delta of an engine and kind.
DeltaOf(deltas, v) ==
    LET same == {i \in DOMAIN deltas : deltas[i].engine = v.engine /\ deltas[i].kind = v.kind}
    IN IF same = {} THEN <<>> ELSE << deltas[Max(same)] >>

\* _directive_instruction: the first of these that the group has.
InstructionOrder ==
    << {"parse_error"}, {"behavior_mismatch"}, {"formal_counterexample"},
       {"cyclomatic_complexity", "algorithmic_cost"}, {"cyclomatic_complexity", "loop_depth"},
       {"cyclomatic_complexity"}, {"algorithmic_cost"}, {"state_flow_risk"}, {"bounds_risk"}, {"loop_depth"},
       {"global_mutation"}, {"module_state_mutation"}, {"lint_error"} >>

Instruction(kinds) ==
    LET known == {i \in DOMAIN InstructionOrder : InstructionOrder[i] \subseteq kinds}
    IN IF known = {} THEN {"hints"} ELSE InstructionOrder[Min(known)]

\* The kinds whose value is a number; of others no improvement is measured.
NumericKinds == {"loop_depth", "cyclomatic_complexity", "algorithmic_profile"}

Directive(anchors, group, deltas) ==
    LET kinds == {group[i].kind : i \in DOMAIN group}
        changes == FlattenSeq([i \in DOMAIN group |-> DeltaOf(deltas, group[i])])
        worst == Max({Rank(group[i].severity) : i \in DOMAIN group})
    IN [key |-> GroupKey(anchors, Head(group)), violations |-> group, kinds |-> kinds, rank |-> worst,
        repeated |-> changes # <<>>,
        insists |-> \E i \in DOMAIN changes : changes[i].kind \in NumericKinds /\ changes[i].delta = 0,
        instruction |-> Instruction(kinds)]

\* aggregate_violations: groups in the order of their first violation, then
\* sorted; sorted() is stable, and names are compared only within functions.
AggregateViolations(anchors, violations, deltas) ==
    LET keys == OrderedUnique([i \in DOMAIN violations |-> GroupKey(anchors, violations[i])])
        groups == [k \in DOMAIN keys |->
                     SelectSeq(violations, LAMBDA v : GroupKey(anchors, v) = keys[k])]
        directives == [k \in DOMAIN keys |-> Directive(anchors, groups[k], deltas)]
        before(i, j) == \/ directives[i].rank > directives[j].rank
                        \/ /\ directives[i].rank = directives[j].rank
                           /\ IF keys[i][1] = "function" /\ keys[j][1] = "function"
                              THEN keys[i][2] < keys[j][2] ELSE i < j
        order == SortSeq([k \in DOMAIN keys |-> k], before)
    IN [k \in DOMAIN keys |-> directives[order[k]]]
-----------------------------------------------------------------------------
EvidenceKinds == {"formal_counterexample", "behavior_mismatch"}

\* _top_violation: the severest; of equally severe ones a failed example or
\* contract first, and then the first in the list, where the code goes on by
\* the names of engine and kind.
TopViolation(violations) ==
    LET better(i, j) ==
          LET v == violations[i]
              w == violations[j]
          IN \/ Rank(v.severity) > Rank(w.severity)
             \/ Rank(v.severity) = Rank(w.severity) /\ v.kind \in EvidenceKinds /\ w.kind \notin EvidenceKinds
    IN violations[CHOOSE i \in DOMAIN violations :
                    \A j \in DOMAIN violations : better(i, j) \/ (~better(j, i) /\ i <= j)]

PromptScope_Mutant(violations, worker) ==
    IF worker = "small_worker" /\ violations # <<>> THEN << Head(violations) >> ELSE violations

\* _prompt_scope: the small worker hears of one violation, the architect of all.
PromptScope(violations, worker) ==
    IF worker = "small_worker" /\ violations # <<>> THEN << TopViolation(violations) >> ELSE violations

\* _is_metric_scope_ambiguous: everything holds but the complexity.
IsMetricScopeAmbiguous(static, behaviour, formal) ==
    /\ behaviour.is_compliant /\ formal.is_compliant
    /\ static.violations # <<>>
    /\ \A i \in DOMAIN static.violations : static.violations[i].kind = "cyclomatic_complexity"

\* _is_state_machine_failure, for a task whose plan describes a section parser.
IsStateMachineFailure(kinds, plan) ==
    /\ plan = "section_parser"
    /\ kinds \cap {"state_flow_risk", "behavior_mismatch", "cyclomatic_complexity", "loop_depth"} # {}

\* _build_scoped_retry_prompt: the parts of the prompt, before its budget.
RetryPromptParts(violations, worker, plan, deltas) ==
    IF worker = "small_worker" THEN {"top_violation", "do_not_regress"}
    ELSE (IF IsStateMachineFailure({v.kind : v \in ToSet(violations)}, plan)
          THEN {"all_violations", "plan_context"} ELSE {"all_violations", "directives", "initial_prompt"})
         \cup (IF deltas # <<>> THEN {"deltas"} ELSE {})
         \cup (IF Len(violations) > 1 THEN {"architect_mode"} ELSE {})

\* RepairStrategyAgent.decide.
Decide(violations, issues) ==
    IF violations # <<>> \/ issues > 0 THEN "model_only" ELSE "manual_review"

\* decide_repeated_failure: only what a known edit removes is edited by rule.
DecideRepeatedFailure(kinds, registered, counterexample) ==
    IF \/ kinds # {} /\ kinds \subseteq {"external_dependency", "import_risk_block"}
       \/ kinds = {"unsafe_call"} /\ registered
       \/ kinds = {"bounds_risk"} /\ counterexample
    THEN "deterministic_transform" ELSE "json_patch"
=============================================================================
