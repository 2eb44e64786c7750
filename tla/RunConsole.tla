------------------------------ MODULE RunConsole ------------------------------
(***************************************************************************)
(* The console (TUI/) and the generation scripts it starts as processes,    *)
(* which share nothing but the directories of artifacts/runs: the scripts'  *)
(* loops over tasks (scripts/run_coding_capability.py and                   *)
(* run_worker_limit.py), the checkpoints and final artifacts of             *)
(* agents/artifact_manager.py, and the console's two screens, the launcher  *)
(* with its list of runs and the live view of one run.                      *)
(*                                                                          *)
(* The generation controller appears as attempts, each followed by a        *)
(* checkpoint; module Generation has its inside.  `shared` is a history     *)
(* variable: the runs that two processes were working on at once.           *)
(***************************************************************************)
EXTENDS Naturals, Sequences, FiniteSets, SequencesExt

\* Tasks and RunIds are sequences; the others bound the model.
CONSTANTS Tasks, RunIds, MaxAttempts, MaxLaunches, MaxDeaths

None == "none"
ASSUME NamesAssumption == Tasks \in Seq(STRING \ {None}) /\ RunIds \in Seq(STRING \ {None})

VARIABLES runs, recent, processes, launcher, live, shared, deaths

console == <<runs, recent, processes, launcher, live, shared, deaths>>

Runs == ToSet(RunIds)
Processes == 1..MaxLaunches
Artifacts == <<"metadata", "attempts">>

Session(attempts, status) == [state |-> "whole", attempts |-> attempts, status |-> status]
NoFile == [state |-> "absent", attempts |-> 0, status |-> None]
TornFile == [state |-> "torn", attempts |-> 0, status |-> None]
IsFinal(session) == session.status \in {"completed", "failed"}

NoView == [process |-> 0, run |-> None, initial |-> {}, status |-> None, attempts |-> 0]

ConsoleInit ==
    /\ runs = [r \in Runs |-> [task |-> None, entrypoint |-> None, checkpoint |-> NoFile, temporary |-> NoFile,
                               files |-> [f \in ToSet(Artifacts) |-> NoFile]]]
    /\ recent = <<>>
    /\ processes = [p \in Processes |->
          [pc |-> "unborn", entrypoint |-> None, todo |-> <<>>, run |-> None, resumes |-> None, session |-> NoFile,
           passed |-> 0, total |-> 0, saved |-> 0, worked |-> {}, exit |-> None]]
    /\ launcher = {}
    /\ live = NoView
    /\ shared = {}
    /\ deaths = 0

IsAlive(p) == processes[p].pc \notin {"unborn", "exited"}
WorkersOn(r) ==
    {p \in Processes : /\ IsAlive(p) /\ processes[p].pc # "starting"
                       /\ r \in {processes[p].run, processes[p].resumes}}

\* What an ended process had in memory is forgotten.
EndWith(p, code) ==
    processes' = [processes EXCEPT ![p].pc = "exited", ![p].exit = code, ![p].todo = <<>>, ![p].run = None,
                    ![p].session = NoFile, ![p].saved = 0, ![p].passed = 0, ![p].total = 0]
-----------------------------------------------------------------------------
(* The console *)

\* HarnessDataSource.list_runs over ArtifactManager.list_runs: the runs whose
\* checkpoint can be read, the one written last first.
Listed == {r \in Runs : runs[r].checkpoint.state = "whole"}
ListRuns == SelectSeq(recent, LAMBDA r : r \in Listed)

RefreshRuns ==
    /\ live.process = 0
    /\ launcher' = Listed
    /\ UNCHANGED <<runs, recent, processes, live, shared, deaths>>

StartProcess(p, entrypoint, run) ==
    /\ live.process = 0
    /\ p = Min({q \in Processes : processes[q].pc = "unborn"})
    /\ processes' = [processes EXCEPT ![p].pc = "starting", ![p].entrypoint = entrypoint, ![p].resumes = run]
    /\ live' = [process |-> p, run |-> run, initial |-> launcher, status |-> None, attempts |-> 0]
    /\ UNCHANGED <<runs, recent, launcher, shared, deaths>>

\* launch: the live view waits for a run that the launcher's list did not have
\* when it was refreshed last.  The bound leaves a run for every task.
Launch(p) ==
    /\ Cardinality({q \in Processes : processes[q].pc # "unborn" /\ processes[q].resumes = None} \cup {p})
          * Len(Tasks) <= Len(RunIds)
    /\ \E entrypoint \in {"coding_capability", "worker_limit"} : StartProcess(p, entrypoint, None)

\* action_resume on a listed run, whatever is still working on it; _entrypoint_for
\* finds the script by the run's name.
ResumeRun(p) == \E r \in launcher : StartProcess(p, runs[r].entrypoint, r)

\* escape: the process goes on.
PopScreen ==
    /\ live.process # 0
    /\ live' = NoView
    /\ UNCHANGED <<runs, recent, processes, launcher, shared, deaths>>

\* What refresh_run would attach to: the first run of the list that is new.
AttachedRun ==
    LET new == SelectSeq(ListRuns, LAMBDA r : r \notin live.initial)
    IN IF live.run # None THEN live.run ELSE IF new = <<>> THEN None ELSE Head(new)

RefreshRun_Mutant ==
    /\ live.process # 0 /\ AttachedRun # None
    /\ LET checkpoint == runs[AttachedRun].checkpoint
       IN live' = IF checkpoint.state = "whole" /\ checkpoint.attempts # live.attempts
                  THEN [live EXCEPT !.run = AttachedRun, !.status = checkpoint.status, !.attempts = checkpoint.attempts]
                  ELSE [live EXCEPT !.run = AttachedRun]
    /\ UNCHANGED <<runs, recent, processes, launcher, shared, deaths>>

\* refresh_run, every 0.75 seconds: the status is read anew, the log of attempts
\* is drawn again when their number has changed, and a checkpoint that cannot be
\* read is reported in the status line.
RefreshRun ==
    /\ live.process # 0 /\ AttachedRun # None
    /\ LET checkpoint == runs[AttachedRun].checkpoint
       IN live' = CASE checkpoint.state = "whole" ->
                         [live EXCEPT !.run = AttachedRun, !.status = checkpoint.status, !.attempts = checkpoint.attempts]
                    [] checkpoint.state = "torn" -> [live EXCEPT !.run = AttachedRun, !.status = "unreadable"]
                    [] OTHER -> [live EXCEPT !.run = AttachedRun]
    /\ UNCHANGED <<runs, recent, processes, launcher, shared, deaths>>
-----------------------------------------------------------------------------
(* The scripts *)

\* run_tasks and run_ladder up to their loop: a resumed run needs a checkpoint
\* that can be read, and leaves only the task it is about.
LoadTasks(p) ==
    /\ processes[p].pc = "starting"
    /\ LET r == processes[p].resumes
           todo == IF r = None THEN Tasks ELSE << runs[r].task >>
       IN /\ IF r # None /\ runs[r].checkpoint.state # "whole" THEN EndWith(p, "error")
             ELSE processes' = [processes EXCEPT ![p].pc = "tasks", ![p].todo = todo, ![p].total = Len(todo),
                               ![p].session = IF r = None THEN NoFile ELSE runs[r].checkpoint]
          /\ shared' = IF r # None /\ WorkersOn(r) # {} THEN shared \cup {r} ELSE shared
    /\ UNCHANGED <<runs, recent, launcher, live, deaths>>

\* The run a task gets: the resumed one, or a new directory.
RunsFor(p) ==
    IF processes[p].resumes # None THEN {processes[p].resumes}
    ELSE {RunIds[i] : i \in {i \in DOMAIN RunIds : /\ runs[RunIds[i]].task = None
                                                  /\ \A j \in 1..(i - 1) : runs[RunIds[j]].task # None}}

\* create_run, and the start of the controller, which returns at once for a
\* session that has ended.
BeginTask(p) ==
    /\ processes[p].pc = "tasks" /\ processes[p].todo # <<>>
    /\ \E r \in RunsFor(p) :
       LET session == IF processes[p].resumes # None THEN processes[p].session ELSE Session(0, "running")
       IN /\ runs' = [runs EXCEPT ![r].task = Head(processes[p].todo), ![r].entrypoint = processes[p].entrypoint]
          /\ processes' = [processes EXCEPT ![p].pc = IF IsFinal(session) THEN "saving" ELSE "generating",
                             ![p].run = r, ![p].session = session, ![p].saved = 0,
                             ![p].worked = @ \cup {r}]
    /\ UNCHANGED <<recent, launcher, live, shared, deaths>>

\* An attempt of the controller and what became of it, which on_update hands to
\* ArtifactManager.checkpoint: it opens the one temporary name of the run, writes
\* the file, and renames it.
Attempt(p) ==
    /\ processes[p].pc = "generating"
    /\ \E status \in {"running", "completed", "failed"} :
          LET attempts == processes[p].session.attempts + 1
          IN /\ attempts <= MaxAttempts /\ (attempts = MaxAttempts => status # "running")
             /\ processes' = [processes EXCEPT ![p].session = Session(attempts, status), ![p].pc = "writing"]
             /\ runs' = [runs EXCEPT ![processes[p].run].temporary = TornFile]
    /\ UNCHANGED <<recent, launcher, live, shared, deaths>>

\* What another process wrote to the same file at the same time may remain in it,
\* and the file may have been renamed already.
WriteTemporary(p) ==
    /\ processes[p].pc = "writing"
    /\ LET r == processes[p].run
           contents == {processes[p].session} \cup (IF r \in shared THEN {TornFile} ELSE {})
       IN \E content \in contents :
            runs' = IF runs[r].temporary.state = "absent" THEN [runs EXCEPT ![r].checkpoint = content]
                    ELSE [runs EXCEPT ![r].temporary = content]
    /\ processes' = [processes EXCEPT ![p].pc = "renaming"]
    /\ UNCHANGED <<recent, launcher, live, shared, deaths>>

AfterCheckpoint(p) == IF IsFinal(processes[p].session) THEN "saving" ELSE "generating"

RenameTemporary_Mutant(p) ==
    /\ processes[p].pc = "writing"
    /\ runs' = [runs EXCEPT ![processes[p].run].checkpoint = runs[processes[p].run].temporary]
    /\ recent' = <<processes[p].run>> \o SelectSeq(recent, LAMBDA r : r # processes[p].run)
    /\ processes' = [processes EXCEPT ![p].pc = AfterCheckpoint(p)]
    /\ UNCHANGED <<launcher, live, shared, deaths>>

\* replace() raises when another process has renamed the file, and the script
\* ends with the exception.
RenameTemporary(p) ==
    /\ processes[p].pc = "renaming"
    /\ LET r == processes[p].run
       IN IF runs[r].temporary.state = "absent" THEN EndWith(p, "error") /\ UNCHANGED <<runs, recent>>
          ELSE /\ runs' = [runs EXCEPT ![r].checkpoint = runs[r].temporary, ![r].temporary = NoFile]
               /\ recent' = <<r>> \o SelectSeq(recent, LAMBDA other : other # r)
               /\ processes' = [processes EXCEPT ![p].pc = AfterCheckpoint(p)]
    /\ UNCHANGED <<launcher, live, shared, deaths>>

\* save_session writes the final artifacts one after the other, in place.
SaveArtifact(p) ==
    /\ processes[p].pc = "saving" /\ processes[p].saved < Len(Artifacts)
    /\ runs' = [runs EXCEPT ![processes[p].run].files[Artifacts[processes[p].saved + 1]] = processes[p].session]
    /\ processes' = [processes EXCEPT ![p].saved = @ + 1]
    /\ UNCHANGED <<recent, launcher, live, shared, deaths>>

EndTask_Mutant(p) ==
    /\ processes[p].pc = "saving" /\ processes[p].saved = Len(Artifacts)
    /\ processes' = [processes EXCEPT ![p].pc = "tasks", ![p].todo = Tail(@), ![p].run = None, ![p].passed = @ + 1]
    /\ UNCHANGED <<runs, recent, launcher, live, shared, deaths>>

\* The ladder stops at its first break.
EndTask(p) ==
    /\ processes[p].pc = "saving" /\ processes[p].saved = Len(Artifacts)
    /\ LET completed == processes[p].session.status = "completed"
           stops == processes[p].entrypoint = "worker_limit" /\ ~completed
       IN processes' = [processes EXCEPT ![p].pc = "tasks", ![p].run = None,
                          ![p].todo = IF stops THEN <<>> ELSE Tail(@),
                          ![p].passed = @ + (IF completed THEN 1 ELSE 0)]
    /\ UNCHANGED <<runs, recent, launcher, live, shared, deaths>>

EndProcess(p) ==
    /\ processes[p].pc = "tasks" /\ processes[p].todo = <<>>
    /\ EndWith(p, IF processes[p].passed = processes[p].total THEN "success" ELSE "break")
    /\ UNCHANGED <<runs, recent, launcher, live, shared, deaths>>

\* The process is killed between two of its steps.
Die(p) ==
    /\ IsAlive(p) /\ deaths < MaxDeaths
    /\ EndWith(p, "killed") /\ deaths' = deaths + 1
    /\ UNCHANGED <<runs, recent, launcher, live, shared>>

Work(p) ==
    \/ LoadTasks(p) \/ BeginTask(p) \/ Attempt(p)
    \/ WriteTemporary(p) \/ RenameTemporary(p)
    \/ SaveArtifact(p) \/ EndTask(p) \/ EndProcess(p)

ConsoleNext ==
    \/ RefreshRuns \/ PopScreen \/ RefreshRun
    \/ \E p \in Processes : processes[p].pc = "unborn" /\ (Launch(p) \/ ResumeRun(p))
    \/ \E p \in Processes : Work(p) \/ Die(p)

\* Scripts run, and the console's timer fires.
ConsoleFairness == WF_console(RefreshRun) /\ \A p \in Processes : WF_console(Work(p))
-----------------------------------------------------------------------------
(* Properties *)

\* Of a run that one process at a time works on, the checkpoint is never seen
\* incomplete, whenever its process dies, and no resumed process takes it back
\* to an earlier attempt (artifact_manager.py:96).
CheckpointsAdvance ==
    [][\A r \in Runs \ shared' :
          /\ runs'[r].checkpoint.state # "torn"
          /\ runs[r].checkpoint.state = "whole" =>
                /\ runs'[r].checkpoint.state = "whole"
                /\ runs'[r].checkpoint.attempts >= runs[r].checkpoint.attempts]_console

\* A script that reports success has a run of every one of its tasks whose
\* checkpoint says that it completed, and whose artifacts are all there and
\* tell the same; one that reports a break has left a task uncompleted
\* (run_coding_capability.py:584, run_worker_limit.py:268).
ExitTellsOutcome ==
    \A p \in Processes : processes[p].worked \cap shared = {} =>
        LET asked == IF processes[p].resumes = None THEN ToSet(Tasks) ELSE {runs[processes[p].resumes].task}
            completed == {r \in processes[p].worked : runs[r].checkpoint.status = "completed"}
        IN /\ processes[p].exit = "success" =>
                /\ {runs[r].task : r \in completed} = asked
                /\ \A r \in completed, f \in ToSet(Artifacts) : runs[r].files[f] = runs[r].checkpoint
           /\ processes[p].exit = "break" => \E r \in processes[p].worked : runs[r].checkpoint.status = "failed"

\* The live view shows what is not stored, of a run that nothing works on any more.
ShowsStale ==
    LET r == live.run IN
    /\ live.process # 0 /\ r # None
    /\ WorkersOn(r) = {} /\ runs[r].checkpoint.state = "whole"
    /\ live.status # runs[r].checkpoint.status \/ live.attempts # runs[r].checkpoint.attempts

\* It does not stay so: the view comes to show the status and the number of
\* attempts that are stored, unless it is left (TUI/app.py:306).
ViewCatchesUp == ShowsStale ~> ~ShowsStale
=============================================================================
