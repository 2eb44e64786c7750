----------------------------- MODULE ImportGraph -----------------------------
(***************************************************************************)
(* The imports between generated files: validation/import_graph.py.         *)
(*                                                                          *)
(* A path is its parts, without the suffix, and its language.  A file has   *)
(* the symbols it defines (the public ones, for Rust and JavaScript), and   *)
(* its imports: the dotted or slashed name as a sequence, the symbols asked *)
(* for, and whether it is a `from` import, a relative one (Python) or a     *)
(* quoted header (C).  Installed maps the modules that can be imported on   *)
(* this machine to their symbols.                                           *)
(***************************************************************************)
EXTENDS Naturals, Sequences, FiniteSets, SequencesExt

CONSTANTS Installed, StandardRoots

Path(language, parts) == [language |-> language, parts |-> parts]
Import(name, symbols, from, relative) ==
    [name |-> name, symbols |-> symbols, from |-> from, relative |-> relative]

\* _module_name.
ModuleName(path) == SelectSeq(path.parts, LAMBDA part : part # "__init__")

ModuleFile(files, module) ==
    LET found == {p \in DOMAIN files : ModuleName(p) = module}
    IN IF found = {} THEN <<>> ELSE << CHOOSE p \in found : TRUE >>

\* _local_imports and _looks_local_root: every root that is not known to be
\* somebody else's must be the project's.
LocalImports(files, imports, externalRoots) ==
    LET roots == {Head(ModuleName(p)) : p \in {p \in DOMAIN files : ModuleName(p) # <<>>}}
    IN {i \in imports : /\ ~i.relative
                        /\ \/ Head(i.name) \in roots
                           \/ Head(i.name) \notin StandardRoots \cup externalRoots}

\* _analyze_python_import_graph: modules that are missing.
MissingModules(files, path, externalRoots) ==
    {i.name : i \in {i \in LocalImports(files, files[path].imports, externalRoots) :
                        ModuleFile(files, i.name) = <<>>}}

LocalSymbolsMissing_Mutant(files, path) ==
    UNION {{Append(i.name, s) : s \in {s \in i.symbols : \A p \in DOMAIN files : s \notin files[p].defines}} :
             i \in {i \in files[path].imports : i.from /\ ~i.relative /\ ModuleFile(files, i.name) # <<>>}}

\* validate_local_imported_symbols: what a `from` import asks of a file.
LocalSymbolsMissing(files, path) ==
    UNION {{Append(i.name, s) : s \in i.symbols \ files[ModuleFile(files, i.name)[1]].defines} :
             i \in {i \in files[path].imports : i.from /\ ~i.relative /\ ModuleFile(files, i.name) # <<>>}}

\* validate_imported_symbols: what it asks of an installed module, where a
\* symbol may also be a submodule.
InstalledSymbolsMissing(imports, externalRoots) ==
    LET asked == {i \in imports : i.from /\ ~i.relative /\ Head(i.name) \in StandardRoots \cup externalRoots}
    IN {i.name : i \in {i \in asked : i.name \notin DOMAIN Installed}}
       \cup UNION {{Append(i.name, s) : s \in {s \in i.symbols \ Installed[i.name] :
                                                  Append(i.name, s) \notin DOMAIN Installed}} :
                     i \in {i \in asked : i.name \in DOMAIN Installed}}

PythonProblems(files, externalRoots) ==
    UNION {MissingModules(files, p, externalRoots) \cup LocalSymbolsMissing(files, p)
             \cup InstalledSymbolsMissing(files[p].imports, externalRoots) : p \in DOMAIN files}
-----------------------------------------------------------------------------
(* Projects that are not all Python *)

\* _join: a "." disappears, a ".." stays where it is.
JoinPath(path, name) == Front(path.parts) \o SelectSeq(name, LAMBDA part : part # ".")

FindFile(files, language, parts) ==
    IF Path(language, parts) \in DOMAIN files THEN << Path(language, parts) >> ELSE <<>>

FirstFound(candidates) ==
    LET found == SelectSeq(candidates, LAMBDA c : c # <<>>) IN IF found = <<>> THEN <<>> ELSE Head(found)

\* _find_suffix: the only file that ends so.
FindSuffix(files, name) ==
    LET found == {p \in DOMAIN files : IsSuffix(name, p.parts)}
    IN IF Cardinality(found) = 1 THEN << CHOOSE p \in found : TRUE >> ELSE <<>>

\* _resolve_rust_path: the longest prefix that is a module, from the importing
\* file's directory, and the symbol after it.
ResolveRust(files, path, name) ==
    LET parts == SelectSeq(name, LAMBDA part : part \notin {"crate", "self", "super"})
        here == Front(path.parts)
        base == IF Head(name) = "super" /\ here # <<>> THEN Front(here) ELSE here
        at(n) == LET module == base \o SubSeq(parts, 1, n)
                 IN FirstFound(<< FindFile(files, "rust", module), FindFile(files, "rust", Append(module, "mod")) >>)
        lengths == {n \in 1..Len(parts) : at(n) # <<>>}
    IN IF lengths = {} THEN [target |-> <<>>, symbols |-> {}]
       ELSE LET n == Max(lengths)
            IN [target |-> at(n), symbols |-> IF n < Len(parts) THEN {parts[n + 1]} ELSE {}]

\* _resolve_javascript_path: the module or the index of its directory.
ResolveJavaScript(files, path, name) ==
    FirstFound(<< FindFile(files, "javascript", JoinPath(path, name)),
                  FindFile(files, "javascript", Append(JoinPath(path, name), "index")) >>)

\* _resolve_project_import: is it the project's own, and which file is it?
ResolveProjectImport(files, path, i) ==
    CASE path.language = "c" /\ i.relative ->
           [local |-> TRUE, symbols |-> {},
            target |-> FirstFound(<< FindFile(files, "c", JoinPath(path, i.name)), FindSuffix(files, i.name) >>)]
      [] path.language = "rust" /\ Head(i.name) \in {"crate", "self", "super"} ->
           LET r == ResolveRust(files, path, i.name)
           IN [local |-> TRUE, symbols |-> r.symbols, target |-> r.target]
      [] path.language = "javascript" /\ Head(i.name) \in {".", ".."} ->
           [local |-> TRUE, symbols |-> i.symbols, target |-> ResolveJavaScript(files, path, i.name)]
      [] OTHER -> [local |-> FALSE, symbols |-> {}, target |-> <<>>]

\* _analyze_project_import_graph: files without a target, symbols without an
\* export (none is known of a C file).
ProjectProblems(files) ==
    UNION {LET r(i) == ResolveProjectImport(files, p, i)
           IN {i.name : i \in {i \in files[p].imports : r(i).local /\ r(i).target = <<>>}}
              \cup UNION {{Append(i.name, s) : s \in r(i).symbols \ files[r(i).target[1]].defines} :
                            i \in {i \in files[p].imports : r(i).local /\ r(i).target # <<>>}} :
             p \in DOMAIN files}

\* analyze_import_graph: one file of another language, and no file is checked
\* as Python.
ImportsAreCompliant(files, externalRoots) ==
    IF \A p \in DOMAIN files : p.language = "python" THEN PythonProblems(files, externalRoots) = {}
    ELSE ProjectProblems(files) = {}
-----------------------------------------------------------------------------
(* Contracts that own files *)

\* validate_cross_file_contracts for one contract: exports is what the file's
\* top level defines, a function from names to kinds and parameters; a
\* signature that cannot be read is <<>> and matches every definition.
ContractIssue(exports, contract) ==
    IF contract.name \notin DOMAIN exports THEN "missing_contract_export"
    ELSE IF (contract.kind = "class") # (exports[contract.name].kind = "class") THEN "contract_kind_mismatch"
    ELSE IF /\ contract.kind # "class" /\ contract.signature # <<>>
            /\ contract.signature # exports[contract.name].signature THEN "contract_signature_mismatch"
    ELSE "none"

\* A contract whose file was not generated, or does not parse, is passed over.
CrossFileIssues(exportsOf, contracts) ==
    {<<c.name, ContractIssue(exportsOf[c.file], c)>> : c \in {c \in contracts : c.file \in DOMAIN exportsOf}}
        \ {<<c.name, "none">> : c \in contracts}
=============================================================================
