---------------------------- MODULE FindingGates ----------------------------
(***************************************************************************)
(* From the records of a draft to the verdict on it: the findings of the    *)
(* engines (engines/, agents/engine_registry.py) and what the policy makes  *)
(* of them (validation/policy.py).                                          *)
(*                                                                          *)
(* A finding has the engine, a code that stands for its summary, its        *)
(* severity, the number or set it measured, and the line it points at, 0    *)
(* when its location is not a line.  For an import risk, category and       *)
(* enforcement are the finding's metrics.                                   *)
(***************************************************************************)
EXTENDS Naturals, Sequences, FiniteSets, SequencesExt

Finding(engine, code, severity, value, line) ==
    [engine |-> engine, code |-> code, severity |-> severity, value |-> value, line |-> line,
     category |-> "", enforcement |-> ""]

\* MathEngine and TreeSitterMathEngine.
MathFinding(depth, line) ==
    Finding("math", "loops",
            IF depth >= 3 THEN "High" ELSE IF depth = 2 THEN "Medium" ELSE "Low", depth, line)

BranchingFinding_Mutant(complexity) ==
    Finding("branching", "complexity",
            IF complexity > 8 THEN "High" ELSE IF complexity >= 5 THEN "Medium" ELSE "Low", complexity, 0)

\* BranchingEngine and TreeSitterBranchingEngine; the location is a function.
BranchingFinding(complexity) ==
    Finding("branching", "complexity",
            IF complexity >= 8 THEN "High" ELSE IF complexity >= 5 THEN "Medium" ELSE "Low", complexity, 0)

\* CostEngine, BoundsEngine and StateFlowEngine report their lines together.
LinesFinding(engine, code, severity, lines) ==
    IF lines = {} THEN Finding(engine, "none", "Low", 0, 0)
    ELSE Finding(engine, code, severity, Cardinality(lines), Min(lines))

CostFinding(lines) == LinesFinding("cost", "membership", "High", lines)
BoundsFinding(lines) == LinesFinding("bounds", "bounds", "Medium", lines)
StateFlowFinding(lines) == LinesFinding("state_flow", "lost_update", "Medium", lines)

\* LintEngine.scan: skipped for four reasons; otherwise the wildcard imports,
\* the registered dynamic members and the errors that Pylint reported.
LintFindings(outcome, wildcards, members, errors) ==
    LET wildcard == [i \in 1..wildcards |-> Finding("lint", "wildcard", "High", 0, i)]
        warning == [i \in 1..members |-> Finding("lint", "dynamic_member", "Warn", 0, i)]
        skipped == << Finding("lint", "skipped", "Low", 0, 0) >>
    IN IF outcome = "unavailable" THEN wildcard \o skipped
       ELSE IF outcome \in {"timeout", "not_json"} THEN skipped
       ELSE IF wildcard \o warning = <<>> /\ errors = 0 THEN << Finding("lint", "clean", "Low", 0, 0) >>
       ELSE wildcard \o warning \o [i \in 1..errors |-> Finding("lint", "error", "High", 0, i)]

\* CompilationEngine.scan: nothing when the draft compiles.
CompilationFindings(outcome) ==
    CASE outcome = "no_compiler" -> << Finding("compilation", "skipped", "Low", 0, 0) >>
      [] outcome = "timeout" -> << Finding("compilation", "timeout", "High", 0, 0) >>
      [] outcome = "fails" -> << Finding("compilation", "fails", "High", 0, 0) >>
      [] OTHER -> <<>>

\* The parse contract: a draft that does not parse, or whose language has no
\* parser, is not scanned at all.
ParseFindings == << Finding("parse", "parse", "High", 0, 0) >>

RiskFinding(category, enforcement) ==
    [Finding("hazards", "import_risk", IF enforcement = "hard_block" THEN "High" ELSE "Medium", 0, 0)
       EXCEPT !.category = category, !.enforcement = enforcement]

HazardIf(condition, code) == IF condition THEN << Finding("hazards", code, "High", 0, 0) >> ELSE <<>>

\* HazardsEngine.scan: one finding for each global, one for each other kind of
\* hazard, one for each category of risk.
HazardFindings(globals, external, containers, subscripts, unknown, risks, enforcementOf) ==
    LET found == [i \in 1..Cardinality(globals) |-> Finding("hazards", "global", "High", i, 0)]
                 \o HazardIf(external # {}, "external") \o HazardIf(containers # {}, "container")
                 \o HazardIf(subscripts # {}, "subscript") \o HazardIf(unknown # {}, "unknown_api")
                 \o [i \in 1..Cardinality(risks) |->
                        RiskFinding(SetToSeq(risks)[i], enforcementOf[SetToSeq(risks)[i]])]
    IN IF found = <<>> THEN << Finding("hazards", "none", "Low", 0, 0) >> ELSE found

\* TreeSitterHazardsEngine.scan knows the categories of risk only.
TreeSitterHazardFindings(risks, enforcementOf) ==
    HazardFindings({}, {}, {}, {}, {}, risks, enforcementOf)

\* EngineRegistry.findings_for: a draft that does not parse is not scanned, and
\* the linter is asked through the tool registry when there is one.
FindingsFor(parses, engines, lintTool, lint) ==
    IF ~parses THEN ParseFindings
    ELSE engines \o (IF lintTool = "fails" THEN << Finding("lint_dispatch", "skipped", "Low", 0, 0) >> ELSE lint)
-----------------------------------------------------------------------------
(* validation/policy.py *)

DefaultPolicy ==
    [max_loop_depth |-> 2, max_cyclomatic_complexity |-> 7,
     allowed |-> {"bounds_risk", "import_risk_advisory"}, demote |-> FALSE]

StructuralQualityKinds == {"loop_depth", "cyclomatic_complexity", "algorithmic_cost"}

Violation(f, kind, severity) ==
    [kind |-> kind, engine |-> f.engine, severity |-> severity, summary |-> f.code, value |-> f.value,
     line |-> f.line]

\* What a finding that is no import risk would be called as a violation, "" when the
\* policy has no rule for it.
KindOfFinding(f, policy) ==
    CASE f.engine = "math" /\ f.value > policy.max_loop_depth -> "loop_depth"
      [] f.engine = "branching" /\ f.value > policy.max_cyclomatic_complexity -> "cyclomatic_complexity"
      [] f.engine = "cost" /\ f.code = "membership" -> "algorithmic_cost"
      [] f.engine = "hazards" /\ f.code = "global" -> "global_mutation"
      [] f.engine = "hazards" /\ f.code \in {"container", "subscript"} -> "module_state_mutation"
      [] f.engine = "hazards" /\ f.code = "external" -> "external_dependency"
      [] f.engine = "hazards" /\ f.code = "unknown_api" -> "unknown_api"
      [] f.engine = "parse" -> "parse_error"
      [] f.engine = "lint" /\ f.code = "skipped" -> "lint_skipped"
      [] f.engine = "lint" /\ f.code = "error" -> "lint_error"
      [] f.engine = "bounds" /\ f.code = "bounds" -> "bounds_risk"
      [] f.engine = "state_flow" /\ f.code = "lost_update" -> "state_flow_risk"
      [] OTHER -> ""

HardCategories == {"process_exec", "unsafe_memory", "dynamic_eval"}

\* _import_risk_from_finding: a finding without enforcement is judged by its
\* category; the finding of the older engines has neither.
RiskEnforcement(f) ==
    IF f.enforcement # "" THEN f.enforcement
    ELSE IF f.code = "unsafe" \/ f.category \in HardCategories THEN "hard_block" ELSE "advisory"

IsRisk(f) == f.engine = "hazards" /\ f.code \in {"import_risk", "unsafe"}

RiskKind(f) == IF RiskEnforcement(f) = "hard_block" THEN "import_risk_block" ELSE "import_risk_advisory"

\* An advice is reported apart as long as it is allowed, and is a violation
\* otherwise; a block that is allowed is neither.
AdvisoriesOf(f, policy) ==
    IF IsRisk(f) /\ RiskKind(f) = "import_risk_advisory" /\ RiskKind(f) \in policy.allowed
    THEN << Violation(f, RiskKind(f), f.severity) >> ELSE <<>>

Allows(policy, kind) ==
    kind \in policy.allowed \/ (kind = "import_risk_block" /\ "unsafe_calls" \in policy.allowed)

IsDemoted_Mutant(kind, policy, verified) ==
    verified /\ policy.demote /\ kind \in StructuralQualityKinds \cup {"import_risk_block"}

\* _append_if_blocking, for the kinds that are appended by it.
IsDemoted(kind, policy, verified) == verified /\ policy.demote /\ kind \in StructuralQualityKinds

\* What one finding adds to the violations.
ViolationKind(f, policy) == IF IsRisk(f) THEN RiskKind(f) ELSE KindOfFinding(f, policy)

ViolationsOf(f, policy, verified) ==
    LET kind == ViolationKind(f, policy)
    IN IF kind = "" \/ Allows(policy, kind) \/ IsDemoted(kind, policy, verified) THEN <<>>
       ELSE << Violation(f, kind, IF kind = "lint_skipped" THEN "High" ELSE f.severity) >>

ValidateFindings(findings, policy, verified) ==
    LET violations == FlattenSeq([i \in DOMAIN findings |-> ViolationsOf(findings[i], policy, verified)])
    IN [is_compliant |-> violations = <<>>, violations |-> violations,
        advisories |-> FlattenSeq([i \in DOMAIN findings |-> AdvisoriesOf(findings[i], policy)])]

\* GenerationController._route: the first branching finding decides.
Route(findings) ==
    LET branching == {i \in DOMAIN findings : findings[i].engine = "branching"}
        complexity == IF branching = {} THEN 0 ELSE findings[Min(branching)].value
    IN IF complexity < 5 THEN "one_pass" ELSE IF complexity < 10 THEN "iterative_retry"
       ELSE "decompose_and_generate"
=============================================================================
