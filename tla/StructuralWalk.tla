--------------------------- MODULE StructuralWalk ---------------------------
(***************************************************************************)
(* The visitor of engines/decomposition_engine.py, which walks a draft and  *)
(* collects the records every Python engine reads.  A draft is written one  *)
(* line at a time: a line opens a construct (def, class, for, if, a         *)
(* comprehension), closes the innermost one ("end"), or is a simple         *)
(* statement.  A line's number is its place in program.  Each action is the *)
(* visit_ method of the line's node; Leave is what follows generic_visit.   *)
(***************************************************************************)
EXTENDS Naturals, Sequences, FiniteSets, SequencesExt

\* The sets of lines drafts are written with, and how long drafts become.
CONSTANTS Vocabularies, MaxLines

VARIABLES vocabulary, program, opened, scope_stack, loop_depth, membership_loop_depth, ir

walk == <<vocabulary, program, opened, scope_stack, loop_depth, membership_loop_depth, ir>>

\* chain is the dotted name of an import or of a called function; for a line
\* that binds a name, the function whose result it is, <<>> for a literal.
Line(op, name, kind, chain) == [op |-> op, name |-> name, kind |-> kind, chain |-> chain]

Literals == {"list", "dict", "set"}

EmptyIR ==
    [functions |-> <<>>, loops |-> <<>>, branches |-> <<>>, mutations |-> <<>>, explicit_globals |-> {},
     module_state_names |-> {}, symbols |-> <<>>, imports |-> <<>>, calls |-> <<>>,
     membership_checks |-> <<>>, bounds_risks |-> {}, state_flow_risks |-> {}]

WalkInit ==
    /\ vocabulary \in DOMAIN Vocabularies
    /\ program = <<>> /\ opened = <<>> /\ scope_stack = <<>>
    /\ loop_depth = 0 /\ membership_loop_depth = 0
    /\ ir = EmptyIR

Here == Len(program) + 1

IsExpression(t) == t.op \in {"in", "call", "index", "comp", "end"}
InFunction == \E i \in DOMAIN opened : opened[i].op = "def"

Read(t) ==
    /\ Len(program) < MaxLines[vocabulary] /\ t \in Vocabularies[vocabulary]
    /\ opened # <<>> => (Last(opened).op = "comp" => IsExpression(t))
    /\ program' = Append(program, t)
    /\ UNCHANGED vocabulary

Opens(t) == opened' = Append(opened, [op |-> t.op, name |-> t.name, kind |-> t.kind, line |-> Here])

Symbol(name, kind) == [name |-> name, kind |-> kind, scope |-> scope_stack, line |-> Here]
\* method is what is called on the target, "none" unless that is how it changes.
Mutation(how, method, target) ==
    [how |-> how, method |-> method, target |-> target, looped |-> loop_depth > 0]

\* visit_FunctionDef: the parameter is bound in the new scope.
VisitFunctionDef(t) ==
    /\ t.op = "def" /\ Read(t) /\ Opens(t)
    /\ scope_stack' = Append(scope_stack, t.name)
    /\ ir' = [ir EXCEPT !.functions = Append(@, [name |-> t.name, line |-> Here]),
                        !.symbols = Append(@, [Symbol("state", t.kind) EXCEPT !.scope = scope_stack'])]
    /\ UNCHANGED <<loop_depth, membership_loop_depth>>

VisitClassDef(t) ==
    /\ t.op = "class" /\ Read(t) /\ Opens(t)
    /\ scope_stack' = Append(scope_stack, t.name)
    /\ UNCHANGED <<loop_depth, membership_loop_depth, ir>>

\* A loop is one level deeper than what is around it, a comprehension's or not.
OpenLoop(t, bounds_risks) ==
    /\ Read(t) /\ Opens(t)
    /\ loop_depth' = loop_depth + 1
    /\ membership_loop_depth' = membership_loop_depth + 1
    /\ ir' = [ir EXCEPT !.loops = Append(@, [depth |-> loop_depth', line |-> Here]),
                        !.bounds_risks = @ \cup bounds_risks]
    /\ UNCHANGED scope_stack

VisitWhile(t) == t.op = "while" /\ OpenLoop(t, {})

\* A for over range(len(x) + 1) is a bounds risk.
VisitFor(t) == t.op = "for" /\ OpenLoop(t, IF t.kind = "past_end" THEN {Here} ELSE {})

Generators(t) == IF t.kind = "nested" THEN 2 ELSE 1

\* _visit_comprehension_scope: for membership tests every generator is a loop.
VisitComprehension(t) ==
    /\ t.op = "comp" /\ Read(t) /\ Opens(t)
    /\ membership_loop_depth' = membership_loop_depth + Generators(t)
    /\ UNCHANGED <<scope_stack, loop_depth, ir>>

VisitIf(t) ==
    /\ t.op = "if" /\ Read(t) /\ Opens(t)
    /\ ir' = [ir EXCEPT !.branches = Append(@, Here)]
    /\ UNCHANGED <<scope_stack, loop_depth, membership_loop_depth>>

\* Statements that open nothing.
Simple(t, ops) ==
    /\ t.op \in ops /\ Read(t)
    /\ UNCHANGED <<opened, scope_stack, loop_depth, membership_loop_depth>>

VisitGlobal(t) ==
    /\ InFunction /\ Simple(t, {"global"})
    /\ ir' = [ir EXCEPT !.explicit_globals = @ \cup {t.name}]

\* visit_Import binds the module, visit_ImportFrom the symbol at the end of the
\* chain; path is what a call through the bound name starts with.  The name of
\* a relative import begins with its dot.
VisitImport(t) ==
    /\ Simple(t, {"import"})
    /\ ir' = [ir EXCEPT !.imports = Append(@,
                [name |-> CASE t.kind = "module" -> t.chain
                            [] t.kind = "symbol" -> Front(t.chain)
                            [] OTHER -> <<".">> \o Front(t.chain),
                 path |-> CASE t.kind = "module" -> <<>>
                            [] t.kind = "symbol" -> Tail(t.chain)
                            [] OTHER -> << Last(t.chain) >>,
                 relative |-> t.kind = "relative", bound |-> t.name, line |-> Here])]

\* visit_Assign, and visit_AnnAssign where kind is what the value, or else the
\* annotation, says.  What the module holds is what it binds to a literal: a
\* list that a call makes is a list to the other engines, but not state.
BindsState_Mutant(t) == t.op = "bind" /\ t.kind \in Literals
BindsState(t) == t.op = "bind" /\ t.kind \in Literals /\ t.chain = <<>>

VisitAssign(t) ==
    /\ Simple(t, {"bind"})
    /\ ir' = [ir EXCEPT
         !.module_state_names = IF scope_stack = <<>> /\ BindsState(t) THEN @ \cup {t.name} ELSE @,
         !.mutations = Append(@, Mutation("assign", "none", t.name)),
         !.symbols = Append(@, Symbol(t.name, t.kind)),
         !.calls = IF t.chain = <<>> THEN @ ELSE Append(@, [chain |-> t.chain, line |-> Here])]

\* An assignment or an augmented assignment to x[...], or an augmented one to x.
VisitAugAssign(t) ==
    /\ Simple(t, {"store", "augment"})
    /\ ir' = [ir EXCEPT !.mutations = Append(@,
                 Mutation(IF t.op = "store" THEN "subscript" ELSE "augassign", "none", t.name))]

\* x.method(...) may be a mutation of x as far as the visitor knows.
VisitCall(t) ==
    /\ Simple(t, {"call"})
    /\ ir' = [ir EXCEPT !.mutations = IF Len(t.chain) = 2 THEN Append(@, Mutation("call", t.chain[2], t.chain[1])) ELSE @,
                        !.calls = Append(@, [chain |-> t.chain, line |-> Here])]

VisitCompare(t) ==
    /\ Simple(t, {"in"})
    /\ ir' = [ir EXCEPT !.membership_checks =
                 IF membership_loop_depth = 0 THEN @
                 ELSE Append(@, [container |-> t.name, scope |-> scope_stack, line |-> Here])]

\* x[len(x)] or x[len(x) + n].
VisitSubscript(t) ==
    /\ Simple(t, {"index"})
    /\ ir' = [ir EXCEPT !.bounds_risks = IF t.kind = "past_end" THEN @ \cup {Here} ELSE @]

VisitReturn(t) == InFunction /\ Simple(t, {"return"}) /\ UNCHANGED ir

\* _record_state_flow_risks, for the function that opened at `first`: every
\* line below it counts, those of nested functions included.
LosesState(first) ==
    LET body == {program[i] : i \in first + 1..Len(program)}
        returns == {t \in body : t.op = "return"}
    IN /\ \E t \in body : t.op \in {"bind", "augment"} /\ t.name = "state"
       /\ \A t \in returns : t.name # "state"

LeaveScope(t) ==
    /\ t.op = "end" /\ opened # <<>> /\ Last(opened).op \in {"def", "class"} /\ Read(t)
    /\ opened' = Front(opened)
    /\ scope_stack' = Front(scope_stack)
    /\ ir' = IF Last(opened).op = "def" /\ LosesState(Last(opened).line)
             THEN [ir EXCEPT !.state_flow_risks = @ \cup {Last(opened).line}] ELSE ir
    /\ UNCHANGED <<loop_depth, membership_loop_depth>>

LeaveLoop_Mutant(t) ==
    /\ t.op = "end" /\ opened # <<>> /\ Last(opened).op \in {"for", "while", "comp"} /\ Read(t)
    /\ opened' = Front(opened)
    /\ loop_depth' = IF Last(opened).op = "comp" THEN loop_depth ELSE loop_depth - 1
    /\ membership_loop_depth' = membership_loop_depth - 1
    /\ UNCHANGED <<scope_stack, ir>>

LeaveLoop(t) ==
    /\ t.op = "end" /\ opened # <<>> /\ Last(opened).op \in {"for", "while", "comp"} /\ Read(t)
    /\ opened' = Front(opened)
    /\ loop_depth' = IF Last(opened).op = "comp" THEN loop_depth ELSE loop_depth - 1
    /\ membership_loop_depth' =
          membership_loop_depth - (IF Last(opened).op = "comp" THEN Generators(Last(opened)) ELSE 1)
    /\ UNCHANGED <<scope_stack, ir>>

LeaveIf(t) ==
    /\ t.op = "end" /\ opened # <<>> /\ Last(opened).op = "if" /\ Read(t)
    /\ opened' = Front(opened)
    /\ UNCHANGED <<scope_stack, loop_depth, membership_loop_depth, ir>>

WalkNext ==
    \E t \in Vocabularies[vocabulary] :
        \/ VisitFunctionDef(t) \/ VisitClassDef(t) \/ VisitWhile(t) \/ VisitFor(t) \/ VisitComprehension(t) \/ VisitIf(t)
        \/ VisitGlobal(t) \/ VisitImport(t) \/ VisitAssign(t) \/ VisitAugAssign(t) \/ VisitCall(t)
        \/ VisitCompare(t) \/ VisitSubscript(t) \/ VisitReturn(t)
        \/ LeaveScope(t) \/ LeaveLoop(t) \/ LeaveIf(t)
-----------------------------------------------------------------------------
(* What the engines ask of the records *)

\* resolve_symbol and kind_of: the innermost scope that has bound the name by
\* then, and in it the latest binding.
KindOf(records, name, scope, line) ==
    LET known == {i \in DOMAIN records.symbols : /\ records.symbols[i].name = name
                                                 /\ records.symbols[i].line <= line
                                                 /\ IsPrefix(records.symbols[i].scope, scope)}
        depth == Max({Len(records.symbols[i].scope) : i \in known})
    IN IF known = {} THEN ""
       ELSE records.symbols[Max({i \in known : Len(records.symbols[i].scope) = depth})].kind

\* The membership tests CostEngine reports.
Hotspots(records) ==
    {i \in DOMAIN records.membership_checks :
        LET check == records.membership_checks[i]
        IN KindOf(records, check.container, check.scope, check.line) \in {"list", "tuple"}}

MaxLoopDepth(records) ==
    Max({0} \cup {records.loops[i].depth : i \in DOMAIN records.loops})

\* The visitor of BranchingEngine: decisions below a function, nested ones
\* included; a later function of the same name takes its place.
Decisions(lines) == Cardinality({i \in lines : program[i].op \in {"if", "for", "while"}})

Openers == {"def", "class", "for", "while", "if", "comp"}

Balance(lines, first, i) ==
    Cardinality({k \in first..i : lines[k].op \in Openers}) - Cardinality({k \in first..i : lines[k].op = "end"})

BlockEnd(lines, first) ==
    LET closing == {i \in first..Len(lines) : Balance(lines, first, i) = 0}
    IN IF closing = {} THEN Len(lines) ELSE Min(closing)

LatestFunctions(records) ==
    {i \in DOMAIN records.functions :
        \A j \in DOMAIN records.functions : records.functions[j].name = records.functions[i].name => j <= i}

BlockingComplexity(records) ==
    IF records.functions = <<>> THEN Decisions(DOMAIN program) + 1
    ELSE Max({LET first == records.functions[i].line
              IN Decisions(first + 1..BlockEnd(program, first)) + 1 : i \in LatestFunctions(records)})

\* decompose of engines/treesitter_engine.py on the same nesting: the path of
\* loops is passed down, and every decision of the file is counted.
Visited(s, t) ==
    CASE t.op \in {"for", "while"} ->
           [s EXCEPT !.path = Append(@, TRUE), !.decisions = @ + 1,
                     !.depth = Max({@, Cardinality({i \in DOMAIN s.path : s.path[i]}) + 1})]
      [] t.op = "if" -> [s EXCEPT !.path = Append(@, FALSE), !.decisions = @ + 1]
      [] t.op \in {"def", "class", "comp"} -> [s EXCEPT !.path = Append(@, FALSE)]
      [] t.op = "end" -> [s EXCEPT !.path = Front(@)]
      [] OTHER -> s

Visits(lines) ==
    LET visited[k \in 0..Len(lines)] ==
          IF k = 0 THEN [path |-> <<>>, depth |-> 0, decisions |-> 0] ELSE Visited(visited[k - 1], lines[k])
    IN visited

TreeSitterDecompose(lines) == Visits(lines)[Len(lines)]
=============================================================================
