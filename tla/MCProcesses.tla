---------------------------- MODULE MCProcesses ----------------------------
(***************************************************************************)
(* The parts of the system that start processes or threads and read what    *)
(* these leave behind, one at a time: candidates in sandboxes, the console   *)
(* and its scripts, the background jobs of the API.                          *)
(***************************************************************************)
EXTENDS Sandbox, RunConsole, BackgroundJobs

VARIABLE subject    \* which of them this behaviour is about

Script == [kind |-> "script", mode |-> "container", enforce |-> TRUE, allowLocal |-> FALSE, fallback |-> FALSE,
           extra |-> <<>>, network |-> FALSE]
Project == [kind |-> "project", mode |-> "local", language |-> "python", marker |-> TRUE, lockfile |-> TRUE,
            network |-> FALSE, networkApproved |-> FALSE, trusted |-> <<>>, lintDeclared |-> FALSE]
MCJobs == {
    Script, [Script EXCEPT !.fallback = TRUE], [Script EXCEPT !.fallback = TRUE, !.allowLocal = TRUE],
    [Script EXCEPT !.mode = "local", !.enforce = FALSE],
    [Script EXCEPT !.extra = << Mount(<<"tests">>, <<"workspace", "t">>, "bind", TRUE) >>],
    [kind |-> "python"], [kind |-> "behavior"],
    Project, [Project EXCEPT !.lockfile = FALSE],
    [Project EXCEPT !.language = "javascript", !.lintDeclared = TRUE],
    [Project EXCEPT !.mode = "container", !.trusted = << <<"tests">> >>],
    [Project EXCEPT !.mode = "container", !.trusted = << <<"etc">> >>], [Project EXCEPT !.mode = "remote"],
    [Project EXCEPT !.trusted = <<NoDirectory>>], [Project EXCEPT !.language = "c", !.lockfile = FALSE],
    [Project EXCEPT !.marker = FALSE], [Project EXCEPT !.network = TRUE] }
Good == [parses |-> TRUE, blocked |-> FALSE, raises |-> FALSE, method |-> "none", defines |-> "callable",
         does |-> <<"expected", "expected">>]
MCDrafts == {
    Good, [Good EXCEPT !.parses = FALSE], [Good EXCEPT !.blocked = TRUE], [Good EXCEPT !.raises = TRUE],
    [Good EXCEPT !.defines = "nothing"],
    [Good EXCEPT !.method = "present"], [Good EXCEPT !.method = "present", !.defines = "class"],
    [Good EXCEPT !.method = "missing", !.defines = "class"] }
    \cup {[Good EXCEPT !.does = d] : d \in {<<"expected", "other">>, <<"other", "expected">>,
                                           <<"expected", "raises">>, <<"raises", "expected">>, <<"raises", "other">>}}
MCInstalled == {"docker", "python3", "npm", "cmake"}

MCTasks == <<"t1", "t2">>
MCRunIds == <<"r1", "r2">>

AllVars == <<subject, vars, console, jobVars>>

\* The machine of a sandbox has every tool, all but one, or none.
ProcessesInit ==
    /\ subject \in {"sandbox", "console", "jobs"}
    /\ Init
    /\ tools \in {Installed} \cup (IF subject = "sandbox" THEN {{}} \cup {Installed \ {tool} : tool \in Installed} ELSE {})
    /\ ConsoleInit
    /\ JobsInit

InSandbox == subject = "sandbox" /\ Next /\ UNCHANGED <<subject, console, jobVars>>
InConsole == subject = "console" /\ ConsoleNext /\ UNCHANGED <<subject, vars, jobVars>>
InJobs == subject = "jobs" /\ JobsNext /\ UNCHANGED <<subject, vars, console>>

ProcessesSpec ==
    /\ ProcessesInit
    /\ [][InSandbox \/ InConsole \/ InJobs]_AllVars
    /\ WF_vars(subject = "sandbox" /\ Caller)
    /\ ConsoleFairness
    /\ JobsFairness
-----------------------------------------------------------------------------
\* Whoever asked is answered in the end: a call of a sandbox returns whatever
\* its candidate does, a live view comes to show what is stored, a job is
\* reported to have ended.
EveryoneIsAnswered == CallsReturn /\ ViewCatchesUp /\ JobsSettle
=============================================================================
