------------------------------ MODULE Sandbox ------------------------------
(***************************************************************************)
(* Running generated code (container_sandbox, local_sandbox, behavior,      *)
(* project_validation). One caller serves requests one after the other; the *)
(* candidate is a process that may start others, hang, die or finish at any *)
(* time, and what it leaves running outlives the call that started it.      *)
(***************************************************************************)
EXTENDS MountPolicy

CONSTANTS
    Jobs,       \* the requests a caller may make
    Installed,  \* the executables that may be found on this machine
    Cases,      \* the cases of a behaviour specification
    Drafts,     \* what a draft may be and do when its cases are run
    MaxCalls    \* bound of the model

VARIABLES
    tools,      \* the executables shutil.which finds
    call,       \* the request being served: phase, job, steps done
    child,      \* the process the caller waits for
    others,     \* processes and containers that candidates have started
    returned,   \* the last result
    truth,      \* history: what the candidate of this call really did
    calls

vars == <<tools, call, child, others, returned, truth, calls>>

Idle == [phase |-> "idle"]
NoChild == [state |-> "none"]
NoTruth == [exits |-> <<>>, drafts |-> <<>>]
NoTier == "none"
NoResult == [kind |-> "none", call |-> 0, passed |-> FALSE, timedOut |-> FALSE]

Init ==
    /\ tools \in SUBSET Installed
    /\ call = Idle /\ child = NoChild /\ others = {}
    /\ returned = NoResult /\ truth = NoTruth /\ calls = 0

Job == call.job
Start(mode, number) ==
    /\ child' = [state |-> "running", mode |-> mode]
    /\ others' = others \cup (IF mode = "container" THEN {[call |-> number, role |-> "container"]} ELSE {})

Result(passed, timedOut, tier) ==
    [kind |-> Job.kind, job |-> Job, call |-> calls, passed |-> passed, timedOut |-> timedOut, tier |-> tier]

Return(result) ==
    /\ returned' = result
    /\ call' = Idle /\ child' = NoChild

Refuse(j) ==
    /\ returned' = [NoResult EXCEPT !.kind = "refused", !.call = calls + 1]
    /\ UNCHANGED <<call, child, others>>
-----------------------------------------------------------------------------
(* What is asked for *)

\* run_source_isolated: where a script runs, if it runs at all.
ScriptMode(j) ==
    IF j.enforce /\ ~EnforceContainerOnly(j.mode, j.allowLocal, j.fallback) THEN "refused"
    ELSE IF j.mode = "local" THEN "local"
    ELSE IF "docker" \notin tools THEN IF j.fallback THEN "local" ELSE "refused"
    ELSE IF ContainerCommand(DefaultContainerFsPolicy, <<"scratch">>, j.extra, j.network).ok THEN "container" ELSE "refused"

RunScript(j) ==
    /\ j.kind = "script"
    /\ LET mode == ScriptMode(j)
       IN IF mode = "refused" THEN Refuse(j)
          ELSE Start(mode, calls + 1) /\ call' = [phase |-> "wait", job |-> j] /\ UNCHANGED returned

\* run_python_locally_isolated and run_python_project_locally_isolated.
RunPython(j) ==
    /\ j.kind = "python"
    /\ Start("local", calls + 1) /\ call' = [phase |-> "wait", job |-> j] /\ UNCHANGED returned

\* execute_behavior_trace forks a process and a queue.
RunBehavior(j) ==
    /\ j.kind = "behavior"
    /\ Start("fork", calls + 1) /\ call' = [phase |-> "wait", job |-> j] /\ UNCHANGED returned

\* Fixed commands only; JavaScript lints when its manifest says how.
CanonicalCommands(j) ==
    CASE j.language = "c" -> <<"cmake", "cmake", "ctest">>
      [] j.language = "javascript" -> IF j.lintDeclared THEN <<"node", "npm", "npm">> ELSE <<"node", "npm">>
      [] OTHER -> <<"python3", "python3", "python3">>

\* The path of trusted tests that are not a directory.
NoDirectory == <<"missing">>

\* validate_project, up to its loop.
ValidateProject(j) ==
    /\ j.kind = "project"
    /\ IF ~j.marker \/ (j.network /\ ~j.networkApproved) THEN Refuse(j)
       ELSE IF ~j.network /\ j.language # "c" /\ ~j.lockfile
       THEN /\ returned' = [NoResult EXCEPT !.kind = "project", !.call = calls + 1]
            /\ UNCHANGED <<call, child, others>>
       ELSE IF NoDirectory \in ToSet(j.trusted) THEN Refuse(j)
       ELSE /\ call' = [phase |-> "step", job |-> j, steps |-> <<>>]
            /\ UNCHANGED <<child, others, returned>>

Request ==
    /\ call = Idle /\ calls < MaxCalls
    /\ calls' = calls + 1 /\ truth' = NoTruth
    /\ \E j \in Jobs : RunScript(j) \/ RunPython(j) \/ RunBehavior(j) \/ ValidateProject(j)
    /\ UNCHANGED tools

Remaining == Len(CanonicalCommands(Job)) - Len(call.steps)
Broken == call.steps # <<>> /\ Last(call.steps) \in {"failed", "stopped"}

\* A missing tool does not end the loop, a missing container runtime does.
Unavailable ==
    /\ call.phase = "step" /\ Remaining > 0 /\ ~Broken
    /\ \/ /\ Job.mode = "local"
          /\ CanonicalCommands(Job)[Len(call.steps) + 1] \notin tools
          /\ call' = [call EXCEPT !.steps = Append(@, "unavailable")]
       \/ /\ Job.mode = "container" /\ "docker" \notin tools
          /\ call' = [call EXCEPT !.steps = Append(@, "stopped")]
    /\ UNCHANGED <<tools, child, others, returned, truth, calls>>

StartStep ==
    /\ call.phase = "step" /\ Remaining > 0 /\ ~Broken
    /\ IF Job.mode = "local" THEN CanonicalCommands(Job)[Len(call.steps) + 1] \in tools
       ELSE Job.mode = "container" /\ "docker" \in tools /\ ProjectContainerCommand(<<"root">>, Job.trusted, Job.network).ok
    /\ Start(Job.mode, calls)
    /\ call' = [call EXCEPT !.phase = "wait"]
    /\ UNCHANGED <<tools, returned, truth, calls>>

\* The policy or an unknown mode raises, and the caller gets no result.
StepRefused ==
    /\ call.phase = "step" /\ Remaining > 0 /\ ~Broken
    /\ IF Job.mode = "container"
       THEN "docker" \in tools /\ ~ProjectContainerCommand(<<"root">>, Job.trusted, Job.network).ok
       ELSE Job.mode # "local"
    /\ Return([Result(FALSE, FALSE, NoTier) EXCEPT !.kind = "refused"])
    /\ UNCHANGED <<tools, others, truth, calls>>

Tier ==
    LET missing == {"unavailable", "stopped"}
    IN IF ToSet(call.steps) \subseteq missing THEN "unavailable"
       ELSE IF ToSet(call.steps) \cap missing # {} \/ Remaining > 0 THEN "partial" ELSE "full"

FinishProject_Mutant ==
    /\ call.phase = "step" /\ (Remaining = 0 \/ Broken)
    /\ Return(Result("failed" \notin ToSet(call.steps), FALSE, Tier))
    /\ UNCHANGED <<tools, others, truth, calls>>

FinishProject ==
    /\ call.phase = "step" /\ (Remaining = 0 \/ Broken)
    /\ Return(Result(Remaining = 0 /\ ToSet(call.steps) = {"passed"}, FALSE, Tier))
    /\ UNCHANGED <<tools, others, truth, calls>>
-----------------------------------------------------------------------------
(* What the candidate does *)

Mine(role) == [call |-> calls, role |-> role]
Waiting(mode) == call.phase \in {"wait", "expired"} /\ child.state = "running" /\ child.mode = mode

\* A local candidate starts a process of its group, with its pipes or without.
Spawn ==
    /\ Waiting("local")
    /\ \E role \in {"descendant", "daemon"} : others' = others \cup {Mine(role)}
    /\ UNCHANGED <<tools, call, child, returned, truth, calls>>

Exit ==
    /\ Waiting("local")
    /\ \E code \in 0..1 : /\ child' = [state |-> "exited", code |-> code]
                          /\ truth' = [truth EXCEPT !.exits = Append(@, code)]
    /\ UNCHANGED <<tools, call, others, returned, calls>>

\* A container's client exits with it; what outlived its call ends unnoticed.
ProcessEnds ==
    /\ \E p \in others :
         /\ others' = others \ {p}
         /\ IF p = Mine("container") /\ Waiting("container")
            THEN \E code \in 0..1 : /\ child' = [state |-> "exited", code |-> code]
                                    /\ truth' = [truth EXCEPT !.exits = Append(@, code)]
            ELSE UNCHANGED <<child, truth>>
    /\ UNCHANGED <<tools, call, returned, calls>>

\* Imports, asynchronous code and a few calls are refused before anything runs.
Loads(draft) == draft.parses /\ ~draft.blocked /\ ~draft.raises

NoIssue == "none"

\* A function must be callable, a method must belong to a class.
LookupIssue(draft) ==
    IF draft.method = "none" THEN IF draft.defines = "callable" THEN NoIssue ELSE "function lookup"
    ELSE IF draft.defines # "class" THEN "class lookup"
    ELSE IF draft.method = "missing" THEN "method lookup" ELSE NoIssue

\* _run_case: what a case raised, or whether what it returned is what is expected.
CaseTrace(draft, c) ==
    [exception |-> draft.does[c] = "raises", matched |-> draft.does[c] = "expected"]

InlineTrace(draft) ==
    IF ~Loads(draft) THEN [fatal |-> "load", cases |-> <<>>]
    ELSE IF LookupIssue(draft) # NoIssue THEN [fatal |-> LookupIssue(draft), cases |-> <<>>]
    ELSE [fatal |-> NoIssue, cases |-> [c \in Cases |-> CaseTrace(draft, c)]]

\* behavior_result_from_trace
Issues(trace) ==
    IF trace.fatal # NoIssue THEN {trace.fatal}
    ELSE {c \in DOMAIN trace.cases : trace.cases[c].exception \/ ~trace.cases[c].matched}

\* The forked child puts its trace into the queue and exits; when the trace is
\* larger than the pipe it cannot exit before somebody reads it.
PutTrace ==
    /\ Waiting("fork")
    /\ \E d \in Drafts :
         /\ truth' = [truth EXCEPT !.drafts = <<d>>]
         /\ child' \in {[state |-> "exited", queue |-> <<InlineTrace(d)>>], [state |-> "stuck"]}
    /\ UNCHANGED <<tools, call, others, returned, calls>>

\* It may also die before.
DieSilently ==
    /\ Waiting("fork") /\ child' = [state |-> "exited", queue |-> <<>>]
    /\ UNCHANGED <<tools, call, others, returned, truth, calls>>
-----------------------------------------------------------------------------
(* How the caller waits *)

KillGroup == others' = others \ {Mine("descendant"), Mine("daemon")}

PythonExited_Mutant ==
    /\ call.phase = "wait" /\ Job.kind = "python" /\ child.state = "exited"
    /\ UNCHANGED others /\ Return(Result(child.code = 0, FALSE, NoTier))
    /\ UNCHANGED <<tools, truth, calls>>

\* local_sandbox: the group is killed after the child, too.
PythonExited ==
    /\ call.phase = "wait" /\ Job.kind = "python" /\ child.state = "exited"
    /\ KillGroup /\ Return(Result(child.code = 0, FALSE, NoTier))
    /\ UNCHANGED <<tools, truth, calls>>

Expire_Mutant ==
    /\ call.phase = "wait" /\ Job.kind = "python" /\ child.state # "exited"
    /\ call' = [call EXCEPT !.phase = "expired"]
    /\ UNCHANGED <<tools, child, others, returned, truth, calls>>

Expire ==
    /\ call.phase = "wait" /\ Job.kind \in {"python", "behavior"} /\ child.state # "exited"
    /\ call' = [call EXCEPT !.phase = "expired"]
    /\ UNCHANGED <<tools, child, others, returned, truth, calls>>

\* _terminate_process_tree returns at once when the child has exited meanwhile.
TerminateProcessTree ==
    /\ call.phase = "expired" /\ Job.kind = "python"
    /\ IF child.state = "exited" THEN UNCHANGED others ELSE KillGroup
    /\ Return(Result(FALSE, TRUE, NoTier))
    /\ UNCHANGED <<tools, truth, calls>>

\* subprocess.run reads both pipes to their end, which a descendant holds open.
CommandExited ==
    /\ call.phase = "wait" /\ Job.kind \in {"script", "project"} /\ child.state = "exited"
    /\ Mine("descendant") \notin others
    /\ IF Job.kind = "script" THEN Return(Result(child.code = 0, FALSE, NoTier))
       ELSE /\ call' = [call EXCEPT !.phase = "step",
                                    !.steps = Append(@, IF child.code = 0 THEN "passed" ELSE "failed")]
            /\ child' = NoChild /\ UNCHANGED returned
    /\ UNCHANGED <<tools, others, truth, calls>>

\* On a timeout it kills its own child and nothing else.
CommandExpired ==
    /\ call.phase = "wait" /\ Job.kind \in {"script", "project"}
    /\ child.state # "exited" \/ Mine("descendant") \in others
    /\ IF Job.kind = "script" THEN Return(Result(FALSE, TRUE, NoTier))
       ELSE /\ call' = [call EXCEPT !.phase = "step", !.steps = Append(@, "failed")]
            /\ child' = NoChild /\ UNCHANGED returned
    /\ UNCHANGED <<tools, others, truth, calls>>

\* After a join that timed out the child is asked once more whether it lives.
CollectTrace ==
    /\ call.phase \in {"wait", "expired"} /\ Job.kind = "behavior" /\ child.state = "exited"
    /\ Return(Result(child.queue # <<>> /\ Issues(Head(child.queue)) = {}, FALSE, NoTier))
    /\ UNCHANGED <<tools, others, truth, calls>>

TerminateTrace ==
    /\ call.phase = "expired" /\ Job.kind = "behavior" /\ child.state # "exited"
    /\ Return(Result(FALSE, TRUE, NoTier))
    /\ UNCHANGED <<tools, others, truth, calls>>

Caller ==
    \/ Unavailable \/ StartStep \/ StepRefused \/ FinishProject \/ PythonExited \/ Expire
    \/ TerminateProcessTree \/ CommandExited \/ CommandExpired \/ CollectTrace \/ TerminateTrace
Candidate == Spawn \/ Exit \/ ProcessEnds \/ PutTrace \/ DieSilently
Next == Request \/ Caller \/ Candidate

\* The candidate owes nothing; the caller's waits all have a limit.
Spec == Init /\ [][Next]_vars /\ WF_vars(Caller)
-----------------------------------------------------------------------------
(* Properties *)

\* A verdict of success was earned by the candidate of this very call: every
\* case matched, every canonical command of the project exited with 0.
VerdictsAreEarned ==
    returned.passed /\ returned.call = calls =>
        CASE returned.kind = "behavior" ->
               LET d == Head(truth.drafts) IN Loads(d) /\ \A c \in Cases : d.does[c] = "expected"
          [] returned.kind = "project" -> truth.exits = [i \in DOMAIN CanonicalCommands(returned.job) |-> 0]
          [] OTHER -> truth.exits = <<0>>

\* A Python call or a container that came back in time has left nothing behind,
\* whatever its candidate started.
InTimeLeavesNothing ==
    returned.call > 0 /\ ~returned.timedOut =>
        \A p \in others : p.call = returned.call /\ returned.kind \in {"python", "script"}
                          => p.role = "daemon" /\ returned.kind = "script"

\* What a caller is told is true: a success was earned, and a call that was not
\* said to have timed out is over (project_validation.py:127, behavior.py:190,
\* local_sandbox.py:192).
SandboxIsHonest == VerdictsAreEarned /\ InTimeLeavesNothing

\* Every call returns, however the candidate behaves.
CallsReturn == call.phase # "idle" ~> call.phase = "idle"
=============================================================================
