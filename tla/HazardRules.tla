----------------------------- MODULE HazardRules -----------------------------
(***************************************************************************)
(* Which imports and calls of a draft are hazards: engines/import_risk.py   *)
(* and the import part of engines/hazards_engine.py.  A dotted name is the  *)
(* sequence of its parts.  RiskRules is the table of data/import_risk.json, *)
(* a function from categories to their rules; Libraries that of the         *)
(* registered libraries, from a root to the calls its schema allows.        *)
(***************************************************************************)
EXTENDS Naturals, Sequences, FiniteSets, SequencesExt

CONSTANTS RiskRules, Libraries, StdlibRoots

\* _import_name_matches: the pattern, a part of its package, or a package that
\* holds it.
ImportNameMatches(name, patterns) ==
    \E p \in patterns : IsPrefix(p, name) \/ IsPrefix(name, p)

\* match_import_risks and match_call_risks: a call matches in full, by its last
\* part, or from some part on.
ImportHits(imports) ==
    {<<x[1], imports[x[2]].name, imports[x[2]].line, "import">> :
        x \in {x \in (DOMAIN RiskRules) \X (DOMAIN imports) :
                  ImportNameMatches(imports[x[2]].name, RiskRules[x[1]].imports)}}

CallHits(calls) ==
    {<<x[1], calls[x[2]].chain, calls[x[2]].line, "call">> :
        x \in {x \in (DOMAIN RiskRules) \X (DOMAIN calls) :
                  \E p \in RiskRules[x[1]].calls : IsSuffix(p, calls[x[2]].chain)}}

\* _external_imports_from_records: neither relative, nor of the standard
\* library, nor registered.
ExternalImports(imports) ==
    {Head(imports[i].name) : i \in {i \in DOMAIN imports :
        /\ ~imports[i].relative /\ imports[i].name # <<>>
        /\ Head(imports[i].name) \notin StdlibRoots \cup DOMAIN Libraries}}

\* _import_bindings_from_records: the last import of a name wins.
BindingOf(imports, local) ==
    LET binding == {i \in DOMAIN imports : /\ imports[i].bound = local
                                           /\ ~imports[i].relative /\ imports[i].name # <<>>
                                           /\ Head(imports[i].name) \in DOMAIN Libraries}
    IN IF binding = {} THEN [known |-> FALSE]
       ELSE LET i == Max(binding)
            IN [known |-> TRUE, library |-> Head(imports[i].name), path |-> imports[i].path]

\* _unknown_api_calls.
UnknownApiCalls(imports, calls) ==
    {i \in DOMAIN calls :
        LET binding == BindingOf(imports, calls[i].chain[1])
        IN /\ binding.known
           /\ LET path == binding.path \o Tail(calls[i].chain)
              IN path # <<>> /\ path \notin Libraries[binding.library]}

\* _risk_findings: one finding for each category that was hit.
RiskCategories(imports, calls) == {hit[1] : hit \in ImportHits(imports) \cup CallHits(calls)}
=============================================================================
