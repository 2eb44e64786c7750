----------------------------- MODULE MCSessions -----------------------------
(***************************************************************************)
(* The session document under its kinds of writers, one at a time:           *)
(*   quiet   clients and runtimes in turn, with crashes (PersistedRuntime)   *)
(*   busy    clients that write while a runtime runs the graph               *)
(*   race    clients in the threads of the API, file by file (SessionStore)  *)
(*   sole    one client, file by file                                        *)
(* The graphs are a join of two roots, and the chain without one of the      *)
(* roots, so that a revision keeps and removes nodes.  The chain is declared *)
(* child first, as a graph of a client may be.                               *)
(***************************************************************************)
EXTENDS SessionStore

TG == INSTANCE TaskGraphs

CONSTANTS SoleRequests, MaxSoleRequests     \* the requests of the sole client

VARIABLES
    subject,
    document, appending, runtime, runs, approvals, reviewed, revised,
    \* the variables of the sole client that the race does not share
    live1, temporary1, pc1, request1, draft1, target1, sequence1, renames1, acknowledged1

runtimeVars == <<document, journal, appending, runtime, requests, runs, approvals, reviewed, revised>>
raceVars == <<live, temporary, pc, request, draft, target, sequence, renames, acknowledged>>
soleVars == <<live1, temporary1, pc1, request1, draft1, target1, sequence1, renames1, acknowledged1>>

Chain == [n \in {1, 3} |-> IF n = 3 THEN {1} ELSE {}]
MCDeclared == [join |-> <<1, 2, 3>>, chain |-> <<3, 1>>]
MCDeps == [join |-> <<{}, {}, {1, 2}>>, chain |-> Chain]
MCAncestors == MCDeps
MCEditing == [join |-> {1, 3}, chain |-> {1, 3}]
MCRotation == <<<<"qwen">>, <<"qwen">>, <<"qwen">>>>

\* The graphs that the sessions with runtimes are created with.
ASSUME CreationAssumption == {"join", "chain"} \subseteq Graphs

\* No chain of dependencies in these graphs is longer than one.
ASSUME AncestorsAssumption ==
    \A g \in DOMAIN MCDeps : MCAncestors[g] = [n \in DOMAIN MCDeps[g] |-> TG!AncestorsOf(MCDeps[g], n)]

Quiet == INSTANCE PersistedRuntime WITH
    InitialGraphs <- {"join", "chain"},
    Requests <- {"approve", "revise", "retry", "step"}, RequestsInRun <- {},
    MayCrash <- TRUE, MaxRuns <- 2, MaxRequests <- 3

Busy == INSTANCE PersistedRuntime WITH
    InitialGraphs <- {"join", "chain"},
    Requests <- {"approve", "transition", "revise", "retry", "step"},
    RequestsInRun <- {"approve", "transition", "revise", "break", "clear_break", "step", "review"},
    MayCrash <- FALSE, MaxRuns <- 2, MaxRequests <- 3

Sole == INSTANCE SessionStore WITH
    Threads <- {"t1"}, Requests <- SoleRequests, MaxRequests <- MaxSoleRequests,
    live <- live1, temporary <- temporary1, pc <- pc1, request <- request1, draft <- draft1,
    target <- target1, sequence <- sequence1, renames <- renames1, acknowledged <- acknowledged1

SessionsInit ==
    /\ subject \in {"quiet", "busy", "sole", "race"}
    /\ Init /\ Sole!Init /\ Quiet!Init
    /\ subject # "quiet" => document = NewDocument("join")

InQuiet == subject = "quiet" /\ Quiet!Next /\ UNCHANGED <<subject, soleVars, raceVars>>
InBusy == subject = "busy" /\ Busy!Next /\ UNCHANGED <<subject, soleVars, raceVars>>
AtFiles == UNCHANGED <<subject, document, appending, runtime, runs, approvals, reviewed, revised>>
InRace == subject = "race" /\ Next /\ AtFiles /\ UNCHANGED soleVars
InSole == subject = "sole" /\ Sole!Next /\ AtFiles /\ UNCHANGED raceVars

SessionsSpec ==
    SessionsInit /\ [][InQuiet \/ InBusy \/ InRace \/ InSole]_<<subject, runtimeVars, raceVars, soleVars>>
-----------------------------------------------------------------------------
\* With one client the file protocol is atomic, wherever the process dies:
\* session.json only ever changes by a whole operation (orchestration_store.py:143).
SoleIsAtomic == Sole!ImplementsAtomicSessions

\* A runtime that is constructed anew, also after a crash, finds the document in
\* a state that an execution in dependency order could have reached (of a graph
\* declared in another order, only what is declared later may be missing below
\* what succeeded), with nothing blocked for good and a history of attempts that ends where it is; the journal
\* is numbered 1, 2, 3, ..., whichever of the session's journal objects appends,
\* as long as no client writes during a run, and a line is only there for a
\* document that was put in place, by whatever thread; what a sole client was told
\* is done stays done
\* (orchestration_runtime.py:63, orchestration_store.py:69, event_journal.py:75).
SessionsAreCoherent ==
    /\ subject = "quiet" =>
        /\ Quiet!TypeOK /\ Quiet!RestoredStatesAreClosed /\ Quiet!BlockedHasACause
        /\ Quiet!QueueIsReviewable /\ Quiet!LastAttemptMatchesState /\ Quiet!JournalIsSequential
    /\ subject = "race" => JournalFollowsDocument
    /\ subject = "sole" => Sole!AcknowledgedBreakpointsPersist

\* A graph is only executed in a revision somebody approved, also when it is
\* revised after the runtime was constructed, and whatever a finishing run and
\* its clients write, an approval is of the current revision
\* (ARCHITECTURE.md:17, orchestration_store.py:42).
ApprovedIsExecuted ==
    subject = "busy" => Busy!ExecutedRevisionWasApproved /\ Busy!ApprovalBindsRevision
=============================================================================
