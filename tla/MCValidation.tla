---------------------------- MODULE MCValidation ----------------------------
(***************************************************************************)
(* The validation of drafts on four kinds of input.   "walk": every draft   *)
(* of MaxLines lines over a vocabulary is walked, and after each line what  *)
(* is known of it goes through the engines and the policy.  "policy": one   *)
(* or two findings around every threshold, under every policy.  "repair":   *)
(* violations of a draft with these functions, after an earlier attempt.    *)
(* "imports": small projects of one or two languages.                       *)
(***************************************************************************)
EXTENDS StructuralWalk, HazardRules, FindingGates, RepairDirectives, ImportGraph, TLC

VARIABLE gate

validationVars == <<walk, gate>>

\* Constants of the model.
MCScopeWords ==
    {Line("def", "f", "list", <<>>), Line("def", "g", "set", <<>>), Line("class", "f", "", <<>>),
     Line("for", "", "", <<>>), Line("comp", "", "nested", <<>>), Line("bind", "state", "list", <<>>),
     Line("bind", "state", "set", <<>>), Line("in", "state", "", <<>>), Line("end", "", "", <<>>)}
MCHazardWords ==
    {Line("def", "f", "unknown", <<>>), Line("while", "", "", <<>>), Line("if", "", "", <<>>),
     Line("for", "", "past_end", <<>>), Line("index", "x", "past_end", <<>>), Line("global", "x", "", <<>>),
     Line("bind", "x", "list", <<>>), Line("bind", "state", "unknown", <<>>), Line("augment", "state", "", <<>>),
     Line("bind", "x", "list", <<"list">>), Line("augment", "x", "", <<>>), Line("store", "x", "", <<>>),
     Line("call", "x", "", <<"x", "append">>), Line("call", "x", "", <<"x", "count">>), Line("return", "state", "", <<>>),
     Line("import", "shell", "module", <<"shell">>), Line("import", "draw", "symbol", <<"game", "draw">>),
     Line("import", "run", "relative", <<"shell", "run">>), Line("call", "draw", "", <<"draw", "rect">>),
     Line("call", "draw", "", <<"draw", "oval">>), Line("import", "far", "module", <<"far", "away">>),
     Line("call", "os", "", <<"os", "system">>), Line("end", "", "", <<>>)}
MCVocabularies == << MCScopeWords, MCHazardWords >>
MCMaxLines == <<5, 4>>
MCRiskRules ==
    [c \in {"process_exec", "network"} |->
        IF c = "process_exec"
        THEN [enforcement |-> "hard_block", imports |-> {<<"shell">>}, calls |-> {<<"os", "system">>}]
        ELSE [enforcement |-> "advisory", imports |-> {<<"far", "away", "client">>}, calls |-> {}]]
MCLibraries == [library \in {"game"} |-> {<<"draw", "rect">>}]

NoGate == [topic |-> "walk"]

Policies ==
    {[DefaultPolicy EXCEPT !.allowed = a, !.demote = d] :
        a \in {DefaultPolicy.allowed, {}, {"unsafe_calls", "algorithmic_cost"}}, d \in BOOLEAN}

SomeEnforcements == {"hard_block", "advisory", ""}
SomeFindings ==
    {MathFinding(d, 1) : d \in 0..4} \cup {BranchingFinding(c) : c \in {1, 4, 5, 7, 8, 10}}
    \cup {CostFinding(l) : l \in {{}, {2}}} \cup {BoundsFinding(l) : l \in {{}, {2}}}
    \cup {StateFlowFinding({3})} \cup {RiskFinding(c, e) : c \in DOMAIN RiskRules, e \in SomeEnforcements}
    \cup ToSet(LintFindings("reported", 1, 1, 1)) \cup ToSet(LintFindings("timeout", 1, 1, 1))
    \cup ToSet(CompilationFindings("fails"))
    \cup ToSet(FindingsFor(TRUE, <<>>, "fails", <<>>)) \cup ToSet(FindingsFor(FALSE, <<>>, "answers", <<>>))
    \cup {Finding("hazards", c, "High", 0, 0) : c \in {"global", "external", "container", "unknown_api", "unsafe"}}

PolicyGate ==
    {[topic |-> "policy", findings |-> <<f, g>>, policy |-> p, verified |-> v] :
        f \in SomeFindings, g \in {MathFinding(3, 1), MathFinding(1, 1), RiskFinding("process_exec", "hard_block")},
        p \in Policies, v \in BOOLEAN}

Anchors ==
    {<<>>, << [name |-> 1, first |-> 2, last |-> 9] >>,
     << [name |-> 2, first |-> 1, last |-> 4], [name |-> 1, first |-> 2, last |-> 3], [name |-> 1, first |-> 6, last |-> 9] >>}

SomeViolations ==
    {[Violation(MathFinding(d, l), "loop_depth", "High") EXCEPT !.value = d] : d \in {3, 4}, l \in {3, 5}}
    \cup {Violation(BranchingFinding(8), "cyclomatic_complexity", "High"),
          Violation(BoundsFinding({7}), "bounds_risk", "Medium"),
          Violation(StateFlowFinding({8}), "state_flow_risk", "Medium"),
          Violation(RiskFinding("process_exec", "hard_block"), "import_risk_block", "High")}

RepairGate ==
    {[topic |-> "repair", anchors |-> a, static |-> s, issues |-> b, formal |-> x, before |-> p] :
        a \in Anchors, s \in UNION {[1..n -> SomeViolations] : n \in 0..3}, b \in 0..1, x \in 0..1,
        p \in {<<>>, << [CHOOSE v \in SomeViolations : v.kind = "loop_depth" EXCEPT !.value = 4] >>}}

FormalGates ==
    {[topic |-> "formal", enabled |-> e,
      deal |-> [mentioned |-> m, installed |-> d, outcome |-> o, checked |-> n, issues |-> i],
      crosshair |-> [installed |-> c, outcome |-> r]] :
        e \in BOOLEAN, m \in BOOLEAN, d \in BOOLEAN, o \in {"json", "timeout", "crash", "garbage"},
        n \in 0..1, i \in 0..1, c \in BOOLEAN, r \in {"holds", "counterexample", "timeout"}}

\* Every project of these paths in which the first file imports some of choices.
Projects(paths, choices) ==
    {[p \in paths |-> [defines |-> d[p], imports |-> IF p = CHOOSE q \in paths : Last(q.parts) = "main" THEN c ELSE {}]] :
        d \in [paths -> SUBSET {"f", "g"}], c \in {c \in SUBSET choices : Cardinality(c) <= 2}}

PythonChoices ==
    {Import(n, {}, FALSE, FALSE) : n \in {<<"a">>, <<"other">>, <<"json">>, <<"pkg", "m">>}}
    \cup {Import(n, y, TRUE, FALSE) : n \in {<<"a">>, <<"pkg">>, <<"pkg", "m">>}, y \in {{"f"}, {"f", "g"}}}
    \cup {Import(<<"json">>, {y}, TRUE, FALSE) : y \in {"loads", "nope"}} \cup {Import(<<"pkg">>, {"m"}, TRUE, FALSE)}
    \cup {Import(<<"json", "nope">>, {}, FALSE, FALSE), Import(<<"b">>, {"f"}, TRUE, TRUE)}
FlatPython == Projects({Path("python", <<x>>) : x \in {"main", "a"}}, PythonChoices)
NestedPython ==
    Projects({Path("python", p) : p \in {<<"main">>, <<"pkg", "m">>, <<"pkg", "__init__">>}}, PythonChoices)
JavaScript ==
    UNION {Projects({Path("javascript", p) : p \in {<<"src", "main">>, <<"src", "lib", "index">>, q}},
                    {Import(n, y, TRUE, FALSE) : n \in {<<".", "lib">>, <<"..", "b">>, <<".", "b">>, <<"fs">>}, y \in {{}, {"f"}}})
             : q \in {<<"b">>, <<"src", "b">>}}
Rust ==
    UNION {Projects({Path("rust", <<"main">>), Path("rust", q)},
                    {Import(n, {}, FALSE, FALSE) : n \in {<<"crate", "a", "f">>, <<"self", "a">>, <<"std", "fs">>, <<"crate", "b", "g">>}})
             : q \in {<<"a">>, <<"a", "mod">>}}
CFiles ==
    Projects({Path("c", p) : p \in {<<"main">>, <<"inc", "a">>, <<"a">>}},
             {Import(n, {}, FALSE, q) : n \in {<<"a">>, <<"inc", "a">>, <<"stdio">>}, q \in BOOLEAN})

MCInstalled == <<"json">> :> {"loads"}
MCStandardRoots == {"json"}

\* A contract on a file of the project, and what the file has under each name.
ContractsGate ==
    {[topic |-> "contracts", files |-> f, shape |-> d,
      contract |-> [file |-> Path("python", <<x>>), name |-> "f", kind |-> k, signature |-> g]] :
        f \in FlatPython, d \in {"function", "class"}, x \in {"a", "absent"}, k \in {"function", "class"},
        g \in {<<>>, <<"x">>, <<"x", "y">>}}

ImportsGate == {[topic |-> "imports", files |-> f] : f \in FlatPython \cup NestedPython \cup JavaScript \cup Rust \cup CFiles}

\* The walk has no part in this behaviour.
Unwalked ==
    /\ vocabulary = 1 /\ program = <<>> /\ opened = <<>> /\ scope_stack = <<>>
    /\ loop_depth = 0 /\ membership_loop_depth = 0 /\ ir = EmptyIR

ValidationInit ==
    \/ WalkInit /\ gate = NoGate
    \/ gate \in PolicyGate \cup RepairGate \cup FormalGates \cup ImportsGate \cup ContractsGate /\ Unwalked
-----------------------------------------------------------------------------
(* Reference definitions *)

\* The constructs that hold line i, by the lines that opened them.
Enclosing(i) == {k \in 1..i - 1 : program[k].op \in Openers /\ BlockEnd(program, k) >= i}

LoopsAround(i) == {k \in Enclosing(i) : program[k].op \in {"for", "while"}}
ScopesAround(i) == {k \in Enclosing(i) : program[k].op \in {"def", "class"}}

\* The innermost scope at line i, 0 for the module.
ScopeAt(i) == Max({0} \cup ScopesAround(i))

\* The lines at which Python binds name in the scope opened at line s.
Binds(name, s) ==
    {k \in DOMAIN program :
        \/ k = s /\ program[k].op = "def" /\ name = "state"
        \/ /\ program[k].op = "bind" /\ program[k].name = name /\ ScopeAt(k) = s}

KindBoundAt(k) == program[k].kind

\* What a name is at line i, for a draft that binds no name after it is used,
\* in which no class around the line binds it and no scope's path is opened twice.
Scopes(i) == {0} \cup ScopesAround(i)
PlainUse(name, i) ==
    /\ \A s \in Scopes(i) : \A k \in Binds(name, s) : k < i /\ (s = 0 \/ program[s].op = "def")
    /\ \A j, k \in DOMAIN program : program[j].op \in {"def", "class"} /\ program[k].op \in {"def", "class"}
                                    /\ program[j].name = program[k].name => j = k
PythonKind(name, i) ==
    LET binding == {s \in Scopes(i) : Binds(name, s) # {}}
    IN IF binding = {} THEN "" ELSE KindBoundAt(Max(Binds(name, Max(binding))))

\* The depth recorded for a loop is the number of loops that hold it, its own
\* included (decomposition_engine.py:267).
LoopDepthsAreNesting ==
    \A i \in DOMAIN ir.loops : ir.loops[i].depth = Cardinality(LoopsAround(ir.loops[i].line)) + 1

\* The membership tests reported are those in loops whose container is a list
\* by Python's scopes (decomposition_engine.py:123, cost_engine.py:18).
HotspotsFollowScopes ==
    \A i \in DOMAIN program :
        program[i].op = "in" /\ PlainUse(program[i].name, i) =>
            ((\E h \in Hotspots(ir) : ir.membership_checks[h].line = i) <=>
             /\ \E k \in Enclosing(i) : program[k].op \in {"for", "while", "comp"}
             /\ PythonKind(program[i].name, i) \in {"list", "tuple"})

\* The walk of the other languages finds the same depth and, for a draft without
\* functions, the same complexity on the same draft (treesitter_engine.py:74).
EnginesAgree ==
    LET other == TreeSitterDecompose(program)
    IN /\ other.depth = MaxLoopDepth(ir)
       /\ other.decisions + 1 >= BlockingComplexity(ir)
       /\ ir.functions = <<>> => other.decisions + 1 = BlockingComplexity(ir)

\* What the engines find out of a draft is what its nesting and its scopes say
\* (decomposition_engine.py, treesitter_engine.py:80).
AnalysisFollowsScopes == LoopDepthsAreNesting /\ HotspotsFollowScopes /\ EnginesAgree

\* The engines on the draft, without Pylint's part.
MutatingMethods ==
    {"append", "extend", "insert", "pop", "remove", "clear", "sort", "reverse", "add", "discard", "update", "setdefault"}
MutatedStates(how, methods) ==
    {ir.mutations[i].target : i \in {i \in DOMAIN ir.mutations : /\ ir.mutations[i].how = how
                                                               /\ ir.mutations[i].method \in methods}}
        \cap ir.module_state_names
CalledStates == MutatedStates("call", MutatingMethods)
StoredStates == MutatedStates("subscript", {"none"})
Risks == RiskCategories(ir.imports, ir.calls)
Enforcements == [c \in DOMAIN RiskRules |-> RiskRules[c].enforcement]
WalkFindings ==
    FindingsFor(TRUE,
        << MathFinding(MaxLoopDepth(ir), 0) >>
        \o HazardFindings(ir.explicit_globals, ExternalImports(ir.imports), CalledStates,
                          StoredStates, UnknownApiCalls(ir.imports, ir.calls), Risks, Enforcements)
        \o << BranchingFinding(BlockingComplexity(ir)),
              CostFinding({ir.membership_checks[h].line : h \in Hotspots(ir)}),
              BoundsFinding(ir.bounds_risks), StateFlowFinding(ir.state_flow_risks) >>, "answers", <<>>)

KindsOf(verdict) == {verdict.violations[i].kind : i \in DOMAIN verdict.violations}

HasLine(op, name, chain) == \E i \in DOMAIN program : program[i].op = op /\ program[i].name = name
                                                      /\ (chain = <<>> \/ program[i].chain = chain)

\* A draft that imports, not by a relative import, or calls what is blocked,
\* uses an unreviewed call of a registered library, imports a package that is
\* neither of the standard library nor registered nor its own, or changes, by a
\* subscript or a method that changes lists, a name its module binds to a list
\* display, is refused for it, and examples that pass do not excuse it; neither
\* a list that list() makes nor x += [...] counts as such a change (policy.py:212,
\* hazards_engine.py:59, :338, decomposition_engine.py:374).
LinesAreRefused ==
    LET judged(findings) == KindsOf(ValidateFindings(findings, [DefaultPolicy EXCEPT !.demote = TRUE], TRUE))
        kinds == judged(WalkFindings)
    IN /\ HasLine("import", "shell", <<>>) \/ HasLine("call", "os", <<"os", "system">>)
            <=> "import_risk_block" \in kinds
       /\ "import_risk_block" \in kinds <=> "import_risk_block" \in judged(TreeSitterHazardFindings(Risks, Enforcements))
       /\ HasLine("import", "draw", <<>>) /\ HasLine("call", "draw", <<"draw", "oval">>) <=> "unknown_api" \in kinds
       /\ HasLine("import", "far", <<>>) \/ HasLine("import", "shell", <<>>) <=> "external_dependency" \in kinds
       /\ (\E i \in DOMAIN program : /\ program[i].op = "bind" /\ program[i].kind \in Literals
                                     /\ program[i].chain = <<>> /\ ScopesAround(i) = {}
                                     /\ HasLine("store", program[i].name, <<>>)
                                        \/ HasLine("call", program[i].name, <<program[i].name, "append">>))
            <=> "module_state_mutation" \in kinds

\* Two places decide how bad a finding is: under the default policy what is
\* refused is what the engines call High, but for wildcard imports and failed
\* compilations, which are High and tolerated, and for lost updates and
\* skipped lints, which are not and refused, unless it is the lint tool that
\* failed; examples that pass only excuse structure (policy.py:30, math_engine.py:30, branching_engine.py:66).
PolicyFollowsSeverity ==
    gate.topic = "policy" =>
        LET verdict == ValidateFindings(gate.findings, gate.policy, gate.verified)
            strict == ValidateFindings(gate.findings, gate.policy, FALSE)
            high(f) == f.severity = "High" /\ f.code # "wildcard" /\ f.engine # "compilation"
        IN /\ gate.policy = DefaultPolicy =>
                (strict.is_compliant <=> \A i \in DOMAIN gate.findings :
                    LET f == gate.findings[i]
                    IN ~high(f) /\ f.code # "lost_update" /\ ~(f.engine = "lint" /\ f.code = "skipped")
                       /\ ~(IsRisk(f) /\ RiskEnforcement(f) = "hard_block"))
           /\ verdict.advisories = strict.advisories
           /\ ToSet(strict.violations) \ ToSet(verdict.violations) \subseteq
                {v \in ToSet(strict.violations) : v.kind \in StructuralQualityKinds}
           /\ verdict.is_compliant = (verdict.violations = <<>>)
           /\ "cyclomatic_complexity" \in KindsOf(strict) => Route(gate.findings) # "one_pass"

\* What is refused is what must be, by each line and by each threshold.
HazardsAreRefused == LinesAreRefused /\ PolicyFollowsSeverity

\* Every distinct failure is in exactly one directive, the severest come
\* first, a directive that says a failure is repeated is about a gate that
\* failed before; what the small worker is told of is as severe as anything
\* that failed, a failed example or contract if there is one, and every prompt
\* says what must not be lost (finding_aggregator.py:172, generation_controller.py:755).
RepairCoversEveryFailure ==
    gate.topic = "repair" =>
        LET static == [is_compliant |-> gate.static = <<>>, violations |-> gate.static]
            behaviour == IssueViolations("behavior_mismatch", "behavior-validator", gate.issues)
            formal == IssueViolations("formal_counterexample", "formal-validator", gate.formal)
            profiling == IssueViolations("algorithmic_profile", "algorithmic-profiler", 0)
            failures == RetryViolations(static, behaviour, formal, profiling)
            deltas == DiagnosticDeltas(gate.before, failures)
            directives == AggregateViolations(gate.anchors, failures, deltas)
            top == PromptScope(failures, "small_worker")
            kinds == {v.kind : v \in ToSet(failures)}
        IN /\ ToSet(failures) = ToSet(gate.static) \cup ToSet(behaviour.violations) \cup ToSet(formal.violations)
           /\ \A v \in ToSet(failures) : \E d \in DOMAIN directives : v \in ToSet(directives[d].violations)
           /\ \A d, e \in DOMAIN directives :
                /\ d < e => directives[d].rank >= directives[e].rank
                /\ d # e => ToSet(directives[d].violations) \cap ToSet(directives[e].violations) = {}
           /\ \A d \in DOMAIN directives :
                /\ directives[d].repeated <=>
                     \E v \in ToSet(directives[d].violations), w \in ToSet(gate.before) : v.kind = w.kind
                /\ directives[d].insists => directives[d].repeated
           /\ failures # <<>> =>
                /\ Len(top) = 1
                /\ \A v \in ToSet(failures) : Rank(v.severity) <= Rank(top[1].severity)
                /\ gate.issues + gate.formal > 0 => top[1].kind \in EvidenceKinds
                /\ \A worker \in {"small_worker", "architect_llm"}, plan \in {"section_parser", "other"} :
                     RetryPromptParts(failures, worker, plan, deltas)
                        \cap {"do_not_regress", "initial_prompt", "plan_context"} # {}
           /\ (Decide(failures, gate.issues) = "model_only") <=> failures # <<>>
           /\ DecideRepeatedFailure(kinds, FALSE, FALSE) = "deterministic_transform" => kinds = {"import_risk_block"}
           /\ IsMetricScopeAmbiguous(static, behaviour, formal) <=> kinds = {"cyclomatic_complexity"}

\* A draft is judged alike whether the contract check is registered or missing
\* from the registry, and a check that was asked for and could not answer does
\* not let the draft pass (generation_controller.py:625, tool_handlers.py:320).
FormalVerdictIsOne ==
    gate.topic = "formal" =>
        LET verdict(registry) == FormalGate(registry, gate.deal, gate.enabled, gate.crosshair)
        IN /\ verdict("registered") = verdict("unknown_tool")
           /\ verdict("raises") = "fails"
           /\ gate.deal.mentioned /\ gate.deal.installed /\ (gate.deal.outcome # "json" \/ gate.deal.issues > 0)
                => verdict("registered") = "fails"
           /\ verdict("registered") = "skips" =>
                \/ ~gate.enabled
                \/ ~gate.crosshair.installed

RepairIsComplete == RepairCoversEveryFailure /\ FormalVerdictIsOne

\* How the languages themselves find what an import names.
Collapsed(parts) ==
    FoldLeft(LAMBDA seen, part : IF part = ".." /\ seen # <<>> THEN Front(seen) ELSE Append(seen, part), <<>>,
             SelectSeq(parts, LAMBDA part : part # "."))

PythonResolves(files, i) ==
    LET module == {p \in DOMAIN files : ModuleName(p) = i.name}
        known == IF i.name \in DOMAIN Installed /\ module = {} THEN Installed[i.name]
                 ELSE UNION {files[p].defines : p \in module}
        submodules == {Last(ModuleName(p)) : p \in {p \in DOMAIN files : /\ ModuleName(p) # <<>>
                                                                      /\ Front(ModuleName(p)) = i.name}}
    IN /\ module # {} \/ i.name \in DOMAIN Installed
       /\ i.from => i.symbols \subseteq known \cup submodules

OtherResolves(files, p, i) ==
    LET at(parts) == {Path(p.language, parts), Path(p.language, Append(parts, IF p.language = "rust" THEN "mod" ELSE "index"))}
                        \cap DOMAIN files
    IN CASE p.language = "javascript" ->
              \/ Head(i.name) \notin {".", ".."}
              \/ \E q \in at(Collapsed(Front(p.parts) \o i.name)) : i.symbols \subseteq files[q].defines
         [] p.language = "rust" ->
              \/ Head(i.name) = "std"
              \/ \E q \in at(<<i.name[2]>>) : Len(i.name) = 3 => i.name[3] \in files[q].defines
         [] OTHER -> ~i.relative \/ \E q \in DOMAIN files : IsSuffix(i.name, q.parts)

\* What no check asks about: what a relative import of Python names
\* (import_graph.py:129, :238, :279), and the module of a plain import whose root
\* is a standard one (:238 asks `from` imports only).
Unchecked(i) == i.relative \/ (~i.from /\ Len(i.name) > 1 /\ Head(i.name) \in StandardRoots)

\* A project is accepted only when each of its imports that is checked can be
\* resolved, and one that lies in a single directory whenever they can; what is
\* wrongly refused elsewhere is an import of a submodule as a symbol of its
\* package, and a parent directory (import_graph.py:42, :70).
AcceptedImportsResolve ==
    gate.topic = "imports" =>
        LET files == gate.files
            python == \A p \in DOMAIN files : p.language = "python"
            resolves == \A p \in DOMAIN files : \A i \in files[p].imports :
                           IF python THEN Unchecked(i) \/ PythonResolves(files, i) ELSE OtherResolves(files, p, i)
            flat == \A p \in DOMAIN files : Len(p.parts) = 1
        IN /\ ImportsAreCompliant(files, {}) => resolves
           /\ flat /\ resolves => ImportsAreCompliant(files, {})

\* What the check of a contract accepts of a file that was generated, the other
\* files can import and call as the contract says (import_graph.py:156).
AcceptedContractsAreExported ==
    gate.topic = "contracts" =>
        LET files == gate.files
            c == gate.contract
            exports(p) == [n \in files[p].defines |-> [kind |-> gate.shape, signature |-> <<"x">>]]
            issues == CrossFileIssues([p \in DOMAIN files |-> exports(p)], {c})
        IN issues = {} /\ c.file \in DOMAIN files =>
             /\ \A p \in DOMAIN files : Append(ModuleName(c.file), c.name) \notin LocalSymbolsMissing(files, p)
             /\ c.kind = gate.shape
             /\ c.kind = "function" /\ c.signature # <<>> => c.signature = <<"x">>

ImportsAreSound == AcceptedImportsResolve /\ AcceptedContractsAreExported
=============================================================================
