----------------------------- MODULE MCGenerator -----------------------------
(***************************************************************************)
(* Code generation, one level at a time: one session of the generation       *)
(* controller, a specification made of contracts whose integration ends in   *)
(* such a session, and the history that processes keep of their sessions.    *)
(***************************************************************************)
EXTENDS Generation, StructuredSpec, RunHistory

\* With and without an architect, early or late; with every other option.
SomeSetups ==
    {[architect |-> FALSE, after |-> 9, strategy |-> TRUE, again |-> FALSE, peers |-> 0],
     [architect |-> TRUE, after |-> 9, strategy |-> TRUE, again |-> TRUE, peers |-> 0],
     [architect |-> TRUE, after |-> 1, strategy |-> TRUE, again |-> TRUE, peers |-> 0],
     [architect |-> TRUE, after |-> 2, strategy |-> TRUE, again |-> FALSE, peers |-> 1]}

Each(la, lb, lc) ==
    [n \in {"a", "b", "c"} |-> CASE n = "a" -> la [] n = "b" -> lb [] n = "c" -> lc]

\* A chain, a join, a cycle with a tail, and no dependency at all.
Graphs == {<<<<"a", "b", "c">>>>, <<<<"c", "a">>, <<"b", "a">>>>, <<<<"b", "a", "b">>, <<"a", "c">>>>, <<>>}

\* What only the text of c or a mentions.
Mentions == {Each({}, {}, {}), Each({}, {}, {"a"}), Each({"c"}, {}, {})}

\* Two components, one of them named twice, and a function only a case calls.
Names == FallbackNames(<<"a", "b", "a">>, <<"b", "c">>)

\* The architect says nothing, or names an order and a dependency.
Remarks == {[order |-> <<>>, added |-> Each(<<>>, <<>>, <<>>)],
            [order |-> <<"c", "b">>, added |-> Each(<<>>, <<"c", "b">>, <<>>)]}

Planned ==
    UNION {UNION {
        {PlannedQueue(Names, planned, listed, r.order, mentioned, 2) :
            listed \in {ListedDependencies(planned, r.added)}, mentioned \in Mentions} :
        planned \in {DependenciesFromGraph(lines, {"a", "b", "c"}) : lines \in Graphs}} : r \in Remarks}

\* A name of its own, so that TLC computes the plans once.
SomePlans == Planned
-----------------------------------------------------------------------------
VARIABLE subject    \* which level this behaviour is about

\* Runs of two shapes.
Run(ended, worse, shape) == [shape |-> shape, status |-> ended, repairs |-> worse, kinds |-> worse]
SomeSamples ==
    {Run("completed", 0, "python"), Run("completed", 2, "python"), Run("manual_review_required", 1, "python"),
     Run("completed", 2, "rust")}

GeneratorInit ==
    /\ subject \in {"session", "specification", "history"}
    /\ Init /\ (subject # "session" => setup = CHOOSE s \in Setups : TRUE)
    /\ SpecInit
    /\ HistoryInit /\ (subject # "history" => samples = <<>>)

InSession == subject = "session" /\ Next /\ UNCHANGED <<subject, specVars, historyVars>>
InSpecification == subject = "specification" /\ SpecNext /\ UNCHANGED <<subject, vars, historyVars>>
InHistory == subject = "history" /\ HistoryNext /\ UNCHANGED <<subject, vars, specVars>>

GeneratorSpec ==
    /\ GeneratorInit
    /\ [][InSession \/ InSpecification \/ InHistory]_<<subject, vars, specVars, historyVars>>
    /\ WF_vars(subject = "session" /\ (Start \/ Validate \/ Decide \/ Repair \/ Finish))
    /\ WF_vars(subject = "session" /\ Resume)
    /\ WF_specVars(subject = "specification" /\ (Plan \/ Queue \/ Implement \/ Deliver))
-----------------------------------------------------------------------------
\* A completed session is validated, credited to who did it, and remembered and
\* compared with others as what it was
\* (generation_controller.py:1526, run_coding_capability.py:228, historian.py:152).
CompletionIsEarned ==
    /\ CompletedMeansValidated /\ CreditIsFair
    /\ OutcomesAreKept /\ RegressionsAreWarranted

\* The results are one for each contract, after those of what it depends on, and
\* leave out only contracts that cannot be sent (run_structured_spec.py:841).
ResultsAreOrdered == OneResultPerContract /\ DependenciesFirst /\ QueueIsExhausted

\* Sessions and specifications end, whatever drafts fail and processes die.
GeneratorEnds ==
    /\ subject = "session" => Terminates
    /\ subject = "specification" => SpecEnds
=============================================================================
