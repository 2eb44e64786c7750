------------------------------ MODULE RunHistory ------------------------------
(***************************************************************************)
(* The historian (agents/historian.py): processes record how their repair     *)
(* sessions went in history.json, which is read, changed and rewritten in     *)
(* place, and append samples of their runs to runs.jsonl, each with a report  *)
(* on how it compares with the samples before.  Neither file is locked; a     *)
(* process may die between any two steps.                                    *)
(***************************************************************************)
EXTENDS Naturals, Sequences, SequencesExt, FiniteSetsExt

CONSTANTS
    Recorders,      \* processes, each with one session to record
    Templates,      \* names of repair templates; "" for none
    Samples         \* what a run may have been: shape, status, repairs, kinds

ASSUME SamplesAssumption == \A s \in Samples : s.repairs \in Nat /\ s.kinds \in Nat

VARIABLES
    document,       \* history.json: whole or torn, outcomes and lessons
    samples,        \* the lines of runs.jsonl
    recorder,       \* recorder[p]: what p is doing
    overlapped      \* history: recorders that were between reading and writing at once

historyVars == <<document, samples, recorder, overlapped>>

NoTemplate == ""

\* A line of runs.jsonl: a sample with the report on it.
Line(s, report) ==
    [shape |-> s.shape, status |-> s.status, repairs |-> s.repairs, kinds |-> s.kinds, report |-> report]
TornLine == [report |-> "torn"]
Unwritten == {p \in Recorders : recorder[p].pc \in {"loaded", "opened"}}

HistoryInit ==
    /\ document = [whole |-> TRUE, outcomes |-> <<>>, lessons |-> [t \in Templates \ {NoTemplate} |-> 0]]
    /\ samples \in {<<>>} \cup {<<Line(s, "insufficient_history")>> : s \in Samples}
    /\ recorder = [p \in Recorders |-> [pc |-> "new"]]
    /\ overlapped = {}

At(p, pc) == recorder' = [recorder EXCEPT ![p] = [pc |-> pc]]
-----------------------------------------------------------------------------
(* history.json *)

\* _load raises for a document that is empty or torn.
Load(p) ==
    /\ recorder[p].pc = "new"
    /\ IF document.whole THEN recorder' = [recorder EXCEPT ![p] = [pc |-> "loaded", read |-> document]]
       ELSE At(p, "raised")
    /\ overlapped' = IF Unwritten = {} THEN overlapped ELSE overlapped \cup Unwritten \cup {p}
    /\ UNCHANGED <<document, samples>>

RegisterSuccessfulTemplate_Mutant(lessons, template) == [lessons EXCEPT ![template] = 1]

\* _register_successful_template: the lesson of a template counts its successes.
RegisterSuccessfulTemplate(lessons, template) == [lessons EXCEPT ![template] = @ + 1]

\* record_repair_outcome
Recorded(p, read, succeeded, template) ==
    [read EXCEPT !.outcomes = Append(@, [by |-> p, succeeded |-> succeeded, template |-> template]),
                 !.lessons = IF succeeded /\ template # NoTemplate THEN RegisterSuccessfulTemplate(@, template) ELSE @]

\* _save: write_text empties the file ...
Open(p) ==
    /\ recorder[p].pc = "loaded"
    /\ \E succeeded \in BOOLEAN, template \in Templates :
          recorder' = [recorder EXCEPT ![p] =
              [pc |-> "opened", read |-> Recorded(p, recorder[p].read, succeeded, template)]]
    /\ document' = [document EXCEPT !.whole = FALSE]
    /\ UNCHANGED <<samples, overlapped>>

\* ... and writes it; of two that wrote at once something of both may remain.
Write(p) ==
    /\ recorder[p].pc = "opened"
    /\ document' \in {recorder[p].read} \cup
          (IF p \in overlapped THEN {[recorder[p].read EXCEPT !.whole = FALSE]} ELSE {})
    /\ At(p, "recorded")
    /\ UNCHANGED <<samples, overlapped>>

\* similar_past_attempts, which answers nothing when the file cannot be read.
SimilarPastAttempts == IF document.whole THEN ToSet(document.outcomes) ELSE {}

\* successful_templates
SuccessfulTemplates(t) == Cardinality({i \in DOMAIN document.outcomes :
    document.outcomes[i].succeeded /\ document.outcomes[i].template = t})
-----------------------------------------------------------------------------
(* runs.jsonl *)

\* The k-th of these values in increasing order, for values indexed by a finite set.
Ranked(values, k) ==
    CHOOSE v \in Range(values) :
        /\ Cardinality({i \in DOMAIN values : values[i] < v}) < k
        /\ k <= Cardinality({i \in DOMAIN values : values[i] <= v})

\* Twice the median.
TwiceMedian(values) ==
    LET n == Cardinality(DOMAIN values)
    IN IF n % 2 = 1 THEN 2 * Ranked(values, (n + 1) \div 2)
       ELSE Ranked(values, n \div 2) + Ranked(values, n \div 2 + 1)

AboveMedian_Mutant(value, values) == 2 * value + 2 > TwiceMedian(values)

\* By more than one.
AboveMedian(value, values) == 2 * value > TwiceMedian(values) + 2

\* regression_report, with the samples of the same task type, language and libraries.
RegressionReport(s, records) ==
    LET peers == {i \in DOMAIN records : records[i].shape = s.shape}
    IN IF Cardinality(peers) < 2 THEN "insufficient_history"
       ELSE IF \/ s.status # "completed" /\ \E i \in peers : records[i].status = "completed"
               \/ AboveMedian(s.repairs, [i \in peers |-> records[i].repairs])
               \/ AboveMedian(s.kinds, [i \in peers |-> records[i].kinds])
            THEN "regressed" ELSE "ok"

\* append_run_sample, up to the append: one line that is not JSON fails it.
ReportSample(p) ==
    /\ recorder[p].pc = "new"
    /\ IF TornLine \in ToSet(samples) THEN At(p, "raised")
       ELSE \E s \in Samples :
            recorder' = [recorder EXCEPT ![p] =
                [pc |-> "reported", sample |-> Line(s, RegressionReport(s, samples))]]
    /\ UNCHANGED <<document, samples, overlapped>>

AppendSample(p) ==
    /\ recorder[p].pc = "reported"
    /\ samples' = IF TornLine \in ToSet(samples) THEN samples ELSE Append(samples, recorder[p].sample)
    /\ At(p, "appended")
    /\ UNCHANGED <<document, overlapped>>

\* A line that is being appended may be cut.
DieRecording(p) ==
    /\ recorder[p].pc \in {"loaded", "opened", "reported"}
    /\ samples' \in {samples} \cup (IF recorder[p].pc = "reported" THEN {Append(samples, TornLine)} ELSE {})
    /\ At(p, "died")
    /\ UNCHANGED <<document, overlapped>>

HistoryNext ==
    \E p \in Recorders : Load(p) \/ Open(p) \/ Write(p) \/ ReportSample(p) \/ AppendSample(p) \/ DieRecording(p)
-----------------------------------------------------------------------------
\* As long as history.json is whole it has the outcome of everyone who recorded
\* one, except of those who did so at once, and its lessons count the successes
\* among them, whoever died or overwrote whom (historian.py:152, :495).
OutcomesAreKept ==
    document.whole =>
        /\ {p \in Recorders : recorder[p].pc = "recorded"} \ overlapped \subseteq {o.by : o \in SimilarPastAttempts}
        /\ \A t \in Templates \ {NoTemplate} : document.lessons[t] = SuccessfulTemplates(t)

\* A run that was reported as a regression is worse, in one respect, than a run
\* of its shape that stands before it, whatever was appended since it read the
\* file (historian.py:362).
RegressionsAreWarranted ==
    \A i \in DOMAIN samples : samples[i].report = "regressed" =>
        \E j \in 1..i-1 :
            /\ samples[j].shape = samples[i].shape
            /\ \/ samples[j].status = "completed" /\ samples[i].status # "completed"
               \/ samples[j].repairs < samples[i].repairs
               \/ samples[j].kinds < samples[i].kinds
=============================================================================
