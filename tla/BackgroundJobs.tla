---------------------------- MODULE BackgroundJobs ----------------------------
(***************************************************************************)
(* Runs in the background of the HTTP API (api/app.py): a request is given  *)
(* a job in an append-only file of lines (agents/job_store.py), a task of   *)
(* the server's pool runs the generation controller and appends what became *)
(* of it, and a reader folds the lines of a job into its record.  The       *)
(* server may die, which ends its tasks and may cut the line being written, *)
(* and is then started again; nothing takes up the jobs it had.  An append  *)
(* may raise, with its line in the file, a part of it, or nothing.          *)
(*                                                                         *)
(* `outcome` and `failures` are history variables: what the controller of a *)
(* job did, and how many of the job's appends have raised.                  *)
(***************************************************************************)
EXTENDS Naturals, Sequences, SequencesExt

\* JobIds names the jobs; MaxCrashes bounds the deaths of the server, and
\* MaxAppendFailures the appends that raise for one job.
CONSTANTS JobIds, MaxCrashes, MaxAppendFailures

VARIABLES log, task, outcome, crashes, failures

jobVars == <<log, task, outcome, crashes, failures>>

Outcomes == {"result", "RuntimeError", "OtherError"}
Torn == [type |-> "torn"]
Created(j) == [type |-> "job_created", job |-> j, status |-> "queued"]
Event(j, kind, payload) == [type |-> "job_event", job |-> j, event |-> kind, payload |-> payload]

JobsInit ==
    /\ log = <<>>
    /\ task = [j \in JobIds |-> "none"]
    /\ outcome = [j \in JobIds |-> "none"]
    /\ crashes = 0
    /\ failures = [j \in JobIds |-> 0]

\* _append: a line is added behind what the file ends with, and one that was cut
\* has no end of line of its own.
Appended(entry) ==
    IF log # <<>> /\ Last(log) = Torn THEN log ELSE Append(log, entry)

\* get_job, which answers GET /runs/{job_id}: the record of a job is folded from
\* its lines, the last status wins; one line that is not JSON fails every reader.
GetJob(j) ==
    LET mine == {i \in DOMAIN log : log[i].type = "job_event" /\ log[i].job = j}
        statuses == {i \in mine : log[i].event = "status"}
        last == CHOOSE i \in statuses : \A k \in statuses : k <= i
    IN IF Torn \in ToSet(log) THEN [status |-> "unreadable", events |-> {}]
       ELSE IF Created(j) \notin ToSet(log) THEN [status |-> "unknown", events |-> {}]
       ELSE [status |-> IF statuses = {} THEN Created(j).status ELSE log[last].payload,
             events |-> {<<log[i].event, log[i].payload>> : i \in mine}]

\* The kind of error that is reported for what the controller raised.
ErrorOf(exception) == IF exception = "RuntimeError" THEN "backend_error" ELSE "generation_failed"
-----------------------------------------------------------------------------
\* A step that appends a line: the line is in the file and the step goes on to
\* `next`, or the append raises and it goes on at `otherwise`. What raises before
\* the write leaves nothing; what raises in flush or fsync leaves a part of the
\* line or all of it (job_store.py:77).
Report(j, at, entry, next, otherwise) ==
    /\ task[j] = at
    /\ \/ log' = Appended(entry) /\ task' = [task EXCEPT ![j] = next] /\ UNCHANGED failures
       \/ /\ failures[j] < MaxAppendFailures /\ failures' = [failures EXCEPT ![j] = @ + 1]
          /\ log' \in {log, Appended(entry), Appended(Torn)}
          /\ task' = [task EXCEPT ![j] = otherwise]
    /\ UNCHANGED <<outcome, crashes>>

\* run_async: the job is created, and the task follows the answer; there is no
\* task if the creation raises.
RunAsync(j) == Report(j, "none", Created(j), "begin", "ended")

\* The first status is reported outside the try block.
ReportRunning(j) == Report(j, "begin", Event(j, "status", "running"), "controller", "ended")

\* build_controller, which refuses a repo_root outside the workspace, and the
\* controller's run.
RunController(j) ==
    /\ task[j] = "controller"
    /\ \E o \in Outcomes :
          /\ outcome' = [outcome EXCEPT ![j] = o]
          /\ task' = [task EXCEPT ![j] = IF o = "result" THEN "result" ELSE "error"]
    /\ UNCHANGED <<log, crashes, failures>>

ReportResult(j) == Report(j, "result", Event(j, "result", outcome[j]), "completed", "error")
ReportCompleted(j) == Report(j, "completed", Event(j, "status", "completed"), "ended", "error")

ReportError_Mutant(j) == Report(j, "error", Event(j, "error", ErrorOf(outcome[j])), "ended", "ended")

\* The except clause, for the controller's exception and for an append's.
ReportError(j) == Report(j, "error", Event(j, "error", ErrorOf(outcome[j])), "failed", "ended")

ReportFailed_Mutant(j) == Report(j, "failed", Event(j, "status", "completed"), "ended", "ended")

ReportFailed(j) == Report(j, "failed", Event(j, "status", "failed"), "ended", "ended")

\* The server dies and is started again.
Crash ==
    /\ crashes < MaxCrashes /\ crashes' = crashes + 1
    /\ task' = [j \in JobIds |-> IF task[j] = "none" THEN "none" ELSE "ended"]
    /\ log' \in {log} \cup (IF \E j \in JobIds : task[j] \notin {"ended", "controller"}
                            THEN {Appended(Torn)} ELSE {})
    /\ UNCHANGED <<outcome, failures>>

TaskStep(j) ==
    \/ ReportRunning(j) \/ RunController(j)
    \/ ReportResult(j) \/ ReportCompleted(j)
    \/ ReportError(j) \/ ReportFailed(j)

JobsNext == \E j \in JobIds : RunAsync(j) \/ TaskStep(j) \/ Crash

JobsFairness == \A j \in JobIds : WF_jobVars(TaskStep(j))
-----------------------------------------------------------------------------
(* Properties *)

Stage(status) ==
    CASE status = "unknown" -> 0
      [] status = "queued" -> 1
      [] status = "running" -> 2
      [] status \in {"completed", "failed"} -> 3
      [] status = "unreadable" -> 4

\* As long as the file can be read, a job said to be completed has its result,
\* and no error unless an append of its own raised; one said to have failed has
\* the error that its controller or the file raised (app.py:97) ...
StatusMatchesOutcome ==
    \A j \in JobIds :
        LET job == GetJob(j)
            kinds == {event[1] : event \in job.events}
        IN /\ job.status = "completed" => /\ outcome[j] = "result" /\ "result" \in kinds
                                          /\ "error" \in kinds => failures[j] > 0
           /\ job.status = "failed" => "error" \in kinds
           /\ <<"error", "backend_error">> \in job.events => outcome[j] = "RuntimeError"

\* ... and no reader is told less than a reader before; what was completed is not
\* said to have failed unless an append of the job raised (job_store.py:59).
JobsAreTruthful ==
    [][ /\ StatusMatchesOutcome'
        /\ \A j \in JobIds :
              /\ Stage(GetJob(j).status) <= Stage(GetJob(j).status)'
              /\ GetJob(j).status = "completed" /\ GetJob(j).status' = "failed" => failures'[j] > 0 ]_jobVars

\* Unless the server dies or the file refuses a line, every job is reported in the
\* end to have completed or failed, as its controller did (app.py:97).
Unsettled ==
    /\ crashes = 0 /\ \A j \in JobIds : failures[j] = 0
    /\ \E j \in JobIds : /\ task[j] # "none"
                        /\ GetJob(j).status # (IF outcome[j] = "result" THEN "completed" ELSE "failed")

JobsSettle == Unsettled ~> ~Unsettled
=============================================================================
