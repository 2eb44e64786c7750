--------------------------- MODULE ProcessProofs ---------------------------
(***************************************************************************)
(* Theorems of the parts that start processes or threads, for any requests,  *)
(* candidates, tasks, runs and jobs and any number of deaths: what a sandbox *)
(* tells of a candidate, what the scripts leave behind and report, and what  *)
(* a reader of the background jobs is told.                                  *)
(***************************************************************************)
EXTENDS MCProcesses, SequenceTheorems, FiniteSetTheorems, TLAPS
-----------------------------------------------------------------------------
(* Sandboxes *)

Kinds == {"script", "python", "behavior", "project"}
StepResults == {"passed", "failed", "unavailable", "stopped"}
Roles == {"descendant", "daemon", "container"}
Served == call.phase \in {"wait", "expired"}

CallInv ==
    /\ calls \in Nat
    /\ \/ call = Idle
       \/ /\ call \in [phase : {"wait", "expired"}, job : Jobs]
          /\ Job.kind \in Kinds \ {"project"}
          /\ call.phase = "expired" => Job.kind # "script"
       \/ /\ call \in [phase : {"step", "wait"}, job : Jobs, steps : Seq(StepResults)]
          /\ Job.kind = "project"
    /\ others \subseteq [call : 0..calls, role : Roles]

\* A call that is over told how it ended; one that is not has told nothing yet.
ReturnInv ==
    /\ returned.call \in 0..calls
    /\ call # Idle => returned.call < calls

TruthInv == truth \in [exits : Seq(0..1), drafts : Seq(Drafts)]

\* The exit codes of the steps that passed.
Zeros(n) == [i \in 1..n |-> 0]
StepsPassed == Job.kind = "project" => ToSet(call.steps) \subseteq {"passed"}
Earlier == IF Job.kind = "project" THEN Zeros(Len(call.steps)) ELSE <<>>

\* What is known of the candidate is what it did.
ExitInv ==
    Job.kind # "behavior" /\ StepsPassed =>
        /\ call.phase = "step" => truth.exits = Earlier
        /\ Served /\ child.state = "running" => truth.exits = Earlier
        /\ Served /\ child.state = "exited" => child.code \in 0..1 /\ truth.exits = Append(Earlier, child.code)

TraceInv ==
    Served /\ Job.kind = "behavior" =>
        /\ child.state = "running" => child.mode = "fork"
        /\ child.state = "exited" =>
              \/ child.queue = <<>>
              \/ \E d \in Drafts : truth.drafts = <<d>> /\ child.queue = <<InlineTrace(d)>>

\* A container lives as long as the client that waits for it, at least.
ContainerInv ==
    /\ Served /\ Job.kind = "script" /\ Mine("container") \in others =>
          child = [state |-> "running", mode |-> "container"]
    /\ Served /\ Job.kind = "python" => Mine("container") \notin others
    /\ Served /\ child.state = "running" =>
          child.mode \in (CASE Job.kind = "python" -> {"local"} [] Job.kind = "behavior" -> {"fork"}
                            [] OTHER -> {"local", "container"})

SandboxInv ==
    /\ CallInv /\ ReturnInv /\ TruthInv /\ SandboxIsHonest
    /\ call # Idle => ExitInv /\ TraceInv /\ ContainerInv

LEMMA CallShape ==
    ASSUME CallInv
    PROVE /\ calls \in Nat
          /\ call.phase = "idle" <=> call = Idle
          /\ call # Idle => call.job \in Jobs /\ Job.kind \in Kinds /\ call.phase \in {"step", "wait", "expired"}
          /\ call.phase = "step" => Job.kind = "project"
          /\ call.phase = "expired" => Job.kind \in {"python", "behavior"}
          /\ call # Idle /\ Job.kind = "project" =>
                call \in [phase : {"step", "wait"}, job : Jobs, steps : Seq(StepResults)]
          /\ call # Idle /\ Job.kind # "project" => call \in [phase : {"wait", "expired"}, job : Jobs]
<1>1. CASE call = Idle
  BY <1>1 DEF CallInv, Idle
<1>2. CASE call # Idle /\ call \in [phase : {"wait", "expired"}, job : Jobs] /\ Job.kind \in Kinds \ {"project"}
           /\ (call.phase = "expired" => Job.kind # "script")
  BY <1>2 DEF CallInv, Idle, Kinds
<1>3. CASE call # Idle /\ call \in [phase : {"step", "wait"}, job : Jobs, steps : Seq(StepResults)]
           /\ Job.kind = "project"
  BY <1>3 DEF CallInv, Idle, Kinds
<1> QED BY <1>1, <1>2, <1>3 DEF CallInv

\* While a call is served its predecessor's result stays what it was.
LEMMA StillHonest ==
    ASSUME SandboxInv, call # Idle, UNCHANGED <<calls, returned>>,
           \A p \in others' : p \in others \/ p.call = calls
    PROVE ReturnInv' /\ SandboxIsHonest'
<1>1. returned.call < calls /\ calls \in Nat /\ returned.call \in 0..calls
  BY DEF SandboxInv, ReturnInv, CallInv
<1>2. ReturnInv'
  BY <1>1 DEF ReturnInv
<1>3. VerdictsAreEarned'
  BY <1>1 DEF VerdictsAreEarned
<1>4. \A p \in others' : p.call = returned.call => p \in others
  BY <1>1
<1>5. InTimeLeavesNothing'
  BY <1>4 DEF SandboxInv, SandboxIsHonest, InTimeLeavesNothing
<1> QED BY <1>2, <1>3, <1>5 DEF SandboxIsHonest

LEMMA MineIsProcess ==
    ASSUME calls \in Nat, NEW role \in Roles
    PROVE /\ Mine(role) \in [call : 0..calls, role : Roles]
          /\ Mine(role).call = calls /\ Mine(role).role = role
BY DEF Mine

LEMMA SandboxInvInit ==
    ASSUME Init
    PROVE SandboxInv
<1>1. CallInv
  BY DEF Init, CallInv, Idle
<1>2. ReturnInv
  BY DEF Init, ReturnInv, NoResult, Idle
<1>3. SandboxIsHonest
  BY DEF Init, SandboxIsHonest, VerdictsAreEarned, InTimeLeavesNothing, NoResult
<1>4. TruthInv
  BY DEF Init, TruthInv, NoTruth
<1> QED BY <1>1, <1>2, <1>3, <1>4 DEF Init, SandboxInv

\* What a step of the candidate's does not touch.
LEMMA CandidateKeeps ==
    ASSUME SandboxInv, call # Idle, UNCHANGED <<call, calls, returned>>,
           others' \subseteq others \cup {Mine(role) : role \in Roles},
           TruthInv', ExitInv', TraceInv', ContainerInv'
    PROVE SandboxInv'
<1>1. CallInv /\ calls \in Nat
  BY DEF SandboxInv, CallInv
<1>2. others' \subseteq [call : 0..calls, role : Roles]
  BY <1>1, MineIsProcess DEF CallInv
<1>3. CallInv'
  BY <1>1, <1>2 DEF CallInv, Job
<1>4. \A p \in others' : p \in others \/ p.call = calls
  BY <1>1, MineIsProcess
<1>5. ReturnInv' /\ SandboxIsHonest'
  BY <1>4, StillHonest
<1> QED BY <1>3, <1>5 DEF SandboxInv

LEMMA SpawnKeeps ==
    ASSUME SandboxInv, Spawn
    PROVE SandboxInv'
<1>1. call # Idle /\ Served
  BY DEF Spawn, Waiting, Served, Idle
<1>2. PICK role \in {"descendant", "daemon"} : others' = others \cup {Mine(role)}
  BY DEF Spawn
<1>3. UNCHANGED <<tools, call, child, returned, truth, calls>> /\ child.mode = "local"
  BY DEF Spawn, Waiting
<1>4. TruthInv' /\ ExitInv' /\ TraceInv'
  BY <1>1, <1>3 DEF SandboxInv, TruthInv, Job, ExitInv, TraceInv, StepsPassed, Earlier, Served
<1>5. Mine("container")' = Mine("container") /\ Mine(role) # Mine("container")
  BY <1>2, <1>3 DEF Mine
<1>6. ContainerInv'
  BY <1>1, <1>2, <1>3, <1>5 DEF SandboxInv, ContainerInv, Served, Job
<1> QED BY <1>1, <1>2, <1>3, <1>4, <1>6, CandidateKeeps DEF Roles

\* The candidate's code becomes known.
LEMMA CodeIsTold ==
    ASSUME SandboxInv, Served, call # Idle, child.state = "running", Job.kind # "behavior",
           NEW code \in 0..1, child' = [state |-> "exited", code |-> code],
           truth' = [truth EXCEPT !.exits = Append(@, code)], UNCHANGED call
    PROVE TruthInv' /\ ExitInv' /\ TraceInv'
<1>1. truth'.exits = Append(truth.exits, code) /\ TruthInv'
  <2>1. truth \in [exits : Seq(0..1), drafts : Seq(Drafts)]
    BY DEF SandboxInv, TruthInv
  <2>2. Append(truth.exits, code) \in Seq(0..1)
    BY <2>1, AppendProperties
  <2> QED BY <2>1, <2>2 DEF TruthInv
<1>2. Earlier' = Earlier /\ (StepsPassed' <=> StepsPassed)
  BY DEF Earlier, StepsPassed, Job
<1>3. StepsPassed => truth.exits = Earlier
  BY DEF SandboxInv, ExitInv
<1>4. ExitInv'
  BY <1>1, <1>2, <1>3 DEF ExitInv, Served, Job
<1>5. TraceInv'
  BY DEF TraceInv, Job
<1> QED BY <1>1, <1>4, <1>5

LEMMA ExitKeeps ==
    ASSUME SandboxInv, Exit
    PROVE SandboxInv'
<1>1. call # Idle /\ Served /\ child.state = "running" /\ child.mode = "local"
  BY DEF Exit, Waiting, Served, Idle
<1>2. PICK code \in 0..1 : /\ child' = [state |-> "exited", code |-> code]
                           /\ truth' = [truth EXCEPT !.exits = Append(@, code)]
  BY DEF Exit
<1>3. UNCHANGED <<tools, call, others, returned, calls>>
  BY DEF Exit
<1>4. Job.kind # "behavior"
  BY <1>1 DEF SandboxInv, TraceInv
<1>5. TruthInv' /\ ExitInv' /\ TraceInv'
  BY <1>1, <1>2, <1>3, <1>4, CodeIsTold
<1>6. ~(Job.kind = "script" /\ Mine("container") \in others)
  BY <1>1 DEF SandboxInv, ContainerInv
<1>7. ContainerInv'
  BY <1>1, <1>2, <1>3, <1>6 DEF SandboxInv, ContainerInv, Served, Mine, Job
<1> QED BY <1>1, <1>3, <1>5, <1>7, CandidateKeeps

LEMMA ProcessEndsKeeps ==
    ASSUME SandboxInv, ProcessEnds
    PROVE SandboxInv'
<1>1. PICK p \in others :
         /\ others' = others \ {p}
         /\ IF p = Mine("container") /\ Waiting("container")
            THEN \E code \in 0..1 : /\ child' = [state |-> "exited", code |-> code]
                                    /\ truth' = [truth EXCEPT !.exits = Append(@, code)]
            ELSE UNCHANGED <<child, truth>>
  BY DEF ProcessEnds
<1>2. UNCHANGED <<tools, call, returned, calls>>
  BY DEF ProcessEnds
<1>3. CASE p = Mine("container") /\ Waiting("container")
  <2>1. call # Idle /\ Served /\ child.state = "running" /\ child.mode = "container"
    BY <1>3 DEF Waiting, Served, Idle
  <2>2. PICK code \in 0..1 : /\ child' = [state |-> "exited", code |-> code]
                             /\ truth' = [truth EXCEPT !.exits = Append(@, code)]
    BY <1>1, <1>3
  <2>3. Job.kind # "behavior"
    BY <2>1 DEF SandboxInv, TraceInv
  <2>4. TruthInv' /\ ExitInv' /\ TraceInv'
    BY <1>2, <2>1, <2>2, <2>3, CodeIsTold
  <2>5. Mine("container")' \notin others'
    BY <1>1, <1>2, <1>3 DEF Mine
  <2>6. ContainerInv'
    BY <2>2, <2>5 DEF ContainerInv
  <2> QED BY <1>1, <1>2, <2>1, <2>4, <2>6, CandidateKeeps
<1>4. CASE ~(p = Mine("container") /\ Waiting("container"))
  <2>1. UNCHANGED <<child, truth>>
    BY <1>1, <1>4
  <2>2. CASE call # Idle
    <3>1. TruthInv' /\ ExitInv' /\ TraceInv' /\ ContainerInv'
      BY <1>1, <1>2, <2>1, <2>2
         DEF SandboxInv, TruthInv, ExitInv, TraceInv, ContainerInv, StepsPassed, Earlier, Served, Job, Mine
    <3> QED BY <1>1, <1>2, <2>2, <3>1, CandidateKeeps
  <2>3. CASE call = Idle
    <3>1. CallInv' /\ ReturnInv' /\ TruthInv'
      BY <1>1, <1>2, <2>1, <2>3 DEF SandboxInv, CallInv, ReturnInv, TruthInv, Job
    <3>2. VerdictsAreEarned' <=> VerdictsAreEarned
      BY <1>2, <2>1 DEF VerdictsAreEarned
    <3>3. InTimeLeavesNothing'
      BY <1>1, <1>2 DEF SandboxInv, SandboxIsHonest, InTimeLeavesNothing
    <3> QED BY <1>2, <2>3, <3>1, <3>2, <3>3 DEF SandboxInv, SandboxIsHonest
  <2> QED BY <2>2, <2>3
<1> QED BY <1>3, <1>4

LEMMA TraceKeeps ==
    ASSUME SandboxInv, PutTrace \/ DieSilently
    PROVE SandboxInv'
<1>1. call # Idle /\ Served /\ child.state = "running" /\ child.mode = "fork"
  BY DEF PutTrace, DieSilently, Waiting, Served, Idle
<1>2. UNCHANGED <<tools, call, others, returned, calls>>
  BY DEF PutTrace, DieSilently
<1>3. Job.kind = "behavior"
  <2>1. CallInv
    BY DEF SandboxInv
  <2> QED BY <1>1, <2>1, CallShape DEF SandboxInv, ContainerInv, Kinds
<1>4. child'.state \in {"exited", "stuck"}
  BY DEF PutTrace, DieSilently
<1>5. TruthInv' /\ TraceInv'
  <2>1. CASE DieSilently
    BY <2>1 DEF DieSilently, SandboxInv, TruthInv, TraceInv
  <2>2. CASE PutTrace
    <3>1. PICK d \in Drafts :
             /\ truth' = [truth EXCEPT !.drafts = <<d>>]
             /\ child' \in {[state |-> "exited", queue |-> <<InlineTrace(d)>>], [state |-> "stuck"]}
      BY <2>2 DEF PutTrace
    <3>2. truth'.drafts = <<d>> /\ TruthInv'
      <4>1. truth \in [exits : Seq(0..1), drafts : Seq(Drafts)]
        BY DEF SandboxInv, TruthInv
      <4>2. <<d>> \in Seq(Drafts)
        BY <3>1
      <4> QED BY <3>1, <4>1, <4>2 DEF TruthInv
    <3>3. InlineTrace(d)' = InlineTrace(d)
      OBVIOUS
    <3>4. child'.state = "exited" => child'.queue = <<InlineTrace(d)>>
      BY <3>1
    <3>5. TraceInv'
      BY <1>4, <3>2, <3>3, <3>4 DEF TraceInv
    <3> QED BY <3>2, <3>5
  <2> QED BY <2>1, <2>2
<1>6. ExitInv'
  BY <1>2, <1>3 DEF ExitInv, Job
<1>7. ContainerInv'
  BY <1>2, <1>3, <1>4 DEF ContainerInv, Job
<1> QED BY <1>1, <1>2, <1>5, <1>6, <1>7, CandidateKeeps

\* What a call tells, told by its parts.
Earned(kind, job) ==
    CASE kind = "behavior" ->
           LET d == Head(truth.drafts) IN Loads(d) /\ \A c \in Cases : d.does[c] = "expected"
      [] kind = "project" -> truth.exits = [i \in DOMAIN CanonicalCommands(job) |-> 0]
      [] OTHER -> truth.exits = <<0>>

NothingLeft(kind) ==
    \A p \in others' : p.call = calls /\ kind \in {"python", "script"} => p.role = "daemon" /\ kind = "script"

\* A call returns: what it tells is checked against what it knows.
LEMMA ReturnKeeps ==
    ASSUME SandboxInv, call # Idle, UNCHANGED <<calls, truth>>, others' \subseteq others,
           call' = Idle, returned'.call = calls,
           returned'.passed => Earned(returned'.kind, returned'.job),
           ~returned'.timedOut => NothingLeft(returned'.kind)
    PROVE SandboxInv'
<1>2. CallInv' /\ TruthInv'
  BY DEF SandboxInv, CallInv, TruthInv
<1>3. ReturnInv'
  BY DEF SandboxInv, CallInv, ReturnInv
<1>4. VerdictsAreEarned'
  BY DEF VerdictsAreEarned, Earned, Loads, CanonicalCommands
<1>5. InTimeLeavesNothing'
  BY DEF InTimeLeavesNothing, NothingLeft
<1> QED BY <1>2, <1>3, <1>4, <1>5 DEF SandboxInv, SandboxIsHonest

\* One that timed out claims nothing.
LEMMA TimedOutKeeps ==
    ASSUME SandboxInv, call # Idle, UNCHANGED <<calls, truth>>, others' \subseteq others,
           Return(Result(FALSE, TRUE, NoTier))
    PROVE SandboxInv'
<1>1. call' = Idle /\ returned'.call = calls /\ returned'.passed = FALSE /\ returned'.timedOut = TRUE
  BY DEF Return, Result
<1> QED BY <1>1, ReturnKeeps

LEMMA PythonExitedKeeps ==
    ASSUME SandboxInv, PythonExited
    PROVE SandboxInv'
<1>1. /\ call # Idle /\ Served /\ Job.kind = "python" /\ child.state = "exited"
      /\ UNCHANGED <<tools, truth, calls>>
      /\ others' = others \ {Mine("descendant"), Mine("daemon")}
  BY DEF PythonExited, Served, Idle, KillGroup
<1>2. /\ call' = Idle /\ returned'.kind = "python" /\ returned'.call = calls
      /\ returned'.passed => child.code = 0
  BY <1>1 DEF PythonExited, Return, Result
<1>3. ~\E p \in others' : p.call = calls
  <2>1. SUFFICES ASSUME NEW p \in others', p.call = calls PROVE FALSE
    OBVIOUS
  <2>2. p \in [call : 0..calls, role : Roles] /\ p \in others
    BY <1>1 DEF SandboxInv, CallInv
  <2>3. p = Mine(p.role) /\ p.role \in Roles
    BY <2>1, <2>2 DEF Mine
  <2>4. p.role = "container"
    BY <1>1, <2>1, <2>3 DEF Roles
  <2>5. Mine("container") \in others
    BY <2>2, <2>3, <2>4
  <2> QED BY <1>1, <2>5 DEF SandboxInv, ContainerInv
<1>4. returned'.passed => truth.exits = <<0>>
  <2>1. truth.exits = Append(Earlier, child.code)
    BY <1>1 DEF SandboxInv, ExitInv, StepsPassed
  <2>2. Earlier = <<>>
    BY <1>1, Zenon DEF Earlier
  <2> QED BY <1>2, <2>1, <2>2
<1> QED BY <1>1, <1>2, <1>3, <1>4, ReturnKeeps DEF Earned, NothingLeft

LEMMA ScriptExitedKeeps ==
    ASSUME SandboxInv, CommandExited, Job.kind = "script"
    PROVE SandboxInv'
<1>1. /\ call # Idle /\ Served /\ child.state = "exited" /\ Mine("descendant") \notin others
      /\ UNCHANGED <<tools, others, truth, calls>>
  BY DEF CommandExited, Served, Idle
<1>2. /\ call' = Idle /\ returned'.kind = "script" /\ returned'.call = calls
      /\ returned'.passed => child.code = 0
  <2>1. Return(Result(child.code = 0, FALSE, NoTier))
    BY Zenon DEF CommandExited
  <2> QED BY <2>1 DEF Return, Result
<1>3. \A p \in others' : p.call = calls => p.role = "daemon"
  <2>1. SUFFICES ASSUME NEW p \in others', p.call = calls PROVE p.role = "daemon"
    OBVIOUS
  <2>2. p \in [call : 0..calls, role : Roles] /\ p \in others
    BY <1>1 DEF SandboxInv, CallInv
  <2>3. p = Mine(p.role) /\ p.role \in Roles
    BY <2>1, <2>2 DEF Mine
  <2>4. Mine("container") \notin others
    BY <1>1 DEF SandboxInv, ContainerInv
  <2> QED BY <1>1, <2>2, <2>3, <2>4 DEF Roles
<1>4. returned'.passed => truth.exits = <<0>>
  <2>1. truth.exits = Append(Earlier, child.code)
    BY <1>1 DEF SandboxInv, ExitInv, StepsPassed
  <2>2. Earlier = <<>>
    BY Zenon DEF Earlier
  <2> QED BY <1>2, <2>1, <2>2
<1> QED BY <1>1, <1>2, <1>3, <1>4, ReturnKeeps DEF Earned, NothingLeft

\* The candidate's trace tells what its draft did.
LEMMA TraceIsHonest ==
    ASSUME NEW d, Issues(InlineTrace(d)) = {}
    PROVE Loads(d) /\ \A c \in Cases : d.does[c] = "expected"
<1> DEFINE t == InlineTrace(d)
<1>1. t.fatal = NoIssue
  BY DEF Issues
<1>2. Loads(d)
  <2>1. ~Loads(d) => t = [fatal |-> "load", cases |-> <<>>]
    BY DEF InlineTrace
  <2> QED BY <1>1, <2>1 DEF NoIssue
<1>3. LookupIssue(d) = NoIssue
  <2>1. Loads(d) /\ LookupIssue(d) # NoIssue => t.fatal = LookupIssue(d)
    BY DEF InlineTrace
  <2> QED BY <1>1, <1>2, <2>1
<1>4. t.cases = [c \in Cases |-> CaseTrace(d, c)]
  BY <1>2, <1>3 DEF InlineTrace
<1>5. \A c \in Cases : t.cases[c].matched
  <2>1. {c \in DOMAIN t.cases : t.cases[c].exception \/ ~t.cases[c].matched} = {}
    BY <1>1 DEF Issues
  <2> QED BY <1>4, <2>1
<1>6. \A c \in Cases : d.does[c] = "expected"
  <2>1. ASSUME NEW c \in Cases PROVE t.cases[c].matched = (d.does[c] = "expected")
    BY <1>4 DEF CaseTrace
  <2> QED BY <1>5, <2>1
<1> QED BY <1>2, <1>6

LEMMA CollectTraceKeeps ==
    ASSUME SandboxInv, CollectTrace
    PROVE SandboxInv'
<1>1. /\ call # Idle /\ Served /\ Job.kind = "behavior" /\ child.state = "exited"
      /\ UNCHANGED <<tools, others, truth, calls>>
  BY DEF CollectTrace, Served, Idle
<1>2. /\ call' = Idle /\ returned'.kind = "behavior" /\ returned'.call = calls
      /\ returned'.passed => child.queue # <<>> /\ Issues(Head(child.queue)) = {}
  BY <1>1 DEF CollectTrace, Return, Result
<1>3. ASSUME returned'.passed
      PROVE LET d == Head(truth.drafts) IN Loads(d) /\ \A c \in Cases : d.does[c] = "expected"
  <2>1. PICK d \in Drafts : truth.drafts = <<d>> /\ child.queue = <<InlineTrace(d)>>
    BY <1>1, <1>2, <1>3 DEF SandboxInv, TraceInv
  <2>2. Head(truth.drafts) = d /\ Head(child.queue) = InlineTrace(d)
    BY <2>1
  <2> QED BY <1>2, <1>3, <2>2, TraceIsHonest
<1> QED BY <1>1, <1>2, <1>3, ReturnKeeps DEF Earned, NothingLeft

\* A step of a project's validation that does not end the call.
LEMMA ProjectStepKeeps ==
    ASSUME SandboxInv, call # Idle, Job.kind = "project", UNCHANGED <<calls, returned, truth>>,
           call' \in [phase : {"step", "wait"}, job : Jobs, steps : Seq(StepResults)], call'.job = call.job,
           others' \subseteq others \cup {Mine("container")},
           ExitInv',
           call'.phase = "wait" => child'.state = "running" /\ child'.mode \in {"local", "container"}
    PROVE SandboxInv'
<1>1. CallInv /\ calls \in Nat
  BY DEF SandboxInv, CallInv
<1>2. Job' = Job /\ call' # Idle
  BY DEF Job, Idle
<1>3. others' \subseteq [call : 0..calls, role : Roles]
  BY <1>1, MineIsProcess DEF CallInv, Roles
<1>4. CallInv'
  BY <1>1, <1>2, <1>3 DEF CallInv
<1>5. \A p \in others' : p \in others \/ p.call = calls
  BY <1>1, MineIsProcess DEF Roles
<1>6. ReturnInv' /\ SandboxIsHonest'
  BY <1>5, StillHonest
<1>7. TruthInv' /\ TraceInv' /\ ContainerInv'
  BY <1>2 DEF SandboxInv, TruthInv, TraceInv, ContainerInv, Served
<1> QED BY <1>4, <1>6, <1>7 DEF SandboxInv

\* A step that did not pass spoils the verdict for good.
LEMMA StepAdds ==
    ASSUME CallInv, call # Idle, Job.kind = "project", NEW result \in StepResults,
           call' = [call EXCEPT !.phase = "step", !.steps = Append(@, result)]
    PROVE /\ call' \in [phase : {"step", "wait"}, job : Jobs, steps : Seq(StepResults)]
          /\ call'.job = call.job /\ call'.phase = "step" /\ Len(call'.steps) = Len(call.steps) + 1
          /\ StepsPassed' => StepsPassed /\ result = "passed"
<1>1. call \in [phase : {"step", "wait"}, job : Jobs, steps : Seq(StepResults)]
  BY CallShape
<1> DEFINE s == call.steps
<1>2. s \in Seq(StepResults) /\ Append(s, result) \in Seq(StepResults) /\ Len(Append(s, result)) = Len(s) + 1
  BY <1>1, AppendProperties
<1>3. call'.steps = Append(s, result) /\ call'.job = call.job /\ call'.phase = "step"
      /\ call' \in [phase : {"step", "wait"}, job : Jobs, steps : Seq(StepResults)]
  BY <1>1, <1>2
<1>4. ASSUME StepsPassed' PROVE StepsPassed /\ result = "passed"
  <2>1. \A i \in DOMAIN Append(s, result) : Append(s, result)[i] = "passed"
    BY <1>3, <1>4 DEF StepsPassed, ToSet, Job
  <2>2. \A i \in 1..Len(s) : Append(s, result)[i] = s[i] /\ i \in DOMAIN Append(s, result)
    BY <1>2
  <2>3. Append(s, result)[Len(s) + 1] = result /\ Len(s) + 1 \in DOMAIN Append(s, result)
    BY <1>2
  <2>4. \A i \in DOMAIN s : s[i] = "passed"
    BY <1>2, <2>1, <2>2
  <2>5. result = "passed"
    BY <2>1, <2>3
  <2> QED BY <2>4, <2>5 DEF StepsPassed, ToSet
<1> QED BY <1>2, <1>3, <1>4

LEMMA SpoiledStepKeeps ==
    ASSUME SandboxInv, call # Idle, Job.kind = "project", UNCHANGED <<calls, returned, truth, others>>,
           NEW result \in StepResults \ {"passed"},
           call' = [call EXCEPT !.phase = "step", !.steps = Append(@, result)]
    PROVE SandboxInv'
<1>1. CallInv
  BY DEF SandboxInv
<1>2. /\ call' \in [phase : {"step", "wait"}, job : Jobs, steps : Seq(StepResults)]
      /\ call'.job = call.job /\ call'.phase = "step" /\ ~StepsPassed'
  BY <1>1, StepAdds
<1>3. ExitInv'
  BY <1>2 DEF ExitInv
<1> QED BY <1>2, <1>3, ProjectStepKeeps

LEMMA PassedStepKeeps ==
    ASSUME SandboxInv, CommandExited, Job.kind = "project", child.code = 0
    PROVE SandboxInv'
<1>1. /\ call # Idle /\ Served /\ child.state = "exited"
      /\ call' = [call EXCEPT !.phase = "step", !.steps = Append(@, "passed")]
      /\ UNCHANGED <<tools, others, truth, calls, returned>>
  BY DEF CommandExited, Served, Idle
<1>2. CallInv /\ "passed" \in StepResults
  BY DEF SandboxInv, StepResults
<1>3. /\ call' \in [phase : {"step", "wait"}, job : Jobs, steps : Seq(StepResults)]
      /\ call'.job = call.job /\ call'.phase = "step" /\ Len(call'.steps) = Len(call.steps) + 1
      /\ StepsPassed' => StepsPassed
  BY <1>1, <1>2, StepAdds
<1>4. StepsPassed => truth.exits = Append(Zeros(Len(call.steps)), 0)
  BY <1>1 DEF SandboxInv, ExitInv, Earlier
<1>5. Len(call.steps) \in Nat
  <2>1. call \in [phase : {"step", "wait"}, job : Jobs, steps : Seq(StepResults)]
    BY <1>1, <1>2, CallShape
  <2> QED BY <2>1
<1>6. Append(Zeros(Len(call.steps)), 0) = Zeros(Len(call.steps) + 1)
  BY <1>5 DEF Zeros
<1>7. Earlier' = Zeros(Len(call.steps) + 1)
  BY <1>3 DEF Earlier, Job
<1>8. ExitInv'
  BY <1>1, <1>3, <1>4, <1>6, <1>7 DEF ExitInv, Served
<1> QED BY <1>1, <1>3, <1>8, ProjectStepKeeps

LEMMA StartStepKeeps ==
    ASSUME SandboxInv, StartStep
    PROVE SandboxInv'
<1>1. CallInv
  BY DEF SandboxInv
<1>2. call # Idle /\ call.phase = "step"
  BY DEF StartStep, Idle
<1>3. Job.kind = "project"
  BY <1>1, <1>2, CallShape
<1>4. /\ UNCHANGED <<tools, returned, truth, calls>> /\ call' = [call EXCEPT !.phase = "wait"]
      /\ Start(Job.mode, calls)
  BY DEF StartStep
<1>5. call \in [phase : {"step", "wait"}, job : Jobs, steps : Seq(StepResults)]
  BY <1>1, <1>2, <1>3, CallShape
<1>6. /\ call' \in [phase : {"step", "wait"}, job : Jobs, steps : Seq(StepResults)]
      /\ call'.job = call.job /\ call'.steps = call.steps /\ call'.phase = "wait"
  BY <1>4, <1>5
<1>7. Job.mode \in {"local", "container"}
  BY DEF StartStep
<1>8. child' = [state |-> "running", mode |-> Job.mode] /\ others' \subseteq others \cup {Mine("container")}
  BY <1>4 DEF Start, Mine
<1>9. ExitInv'
  <2>1. Earlier' = Earlier /\ (StepsPassed' <=> StepsPassed)
    BY <1>6 DEF Earlier, StepsPassed, Job
  <2>2. StepsPassed => truth.exits = Earlier
    BY <1>2, <1>3 DEF SandboxInv, ExitInv
  <2> QED BY <1>4, <1>6, <1>8, <2>1, <2>2 DEF ExitInv, Served
<1> QED BY <1>2, <1>3, <1>4, <1>6, <1>7, <1>8, <1>9, ProjectStepKeeps

LEMMA UnavailableKeeps ==
    ASSUME SandboxInv, Unavailable
    PROVE SandboxInv'
<1>1. CallInv
  BY DEF SandboxInv
<1>2. call # Idle /\ call.phase = "step" /\ Job.kind = "project"
  BY <1>1, CallShape DEF Unavailable, Idle
<1>3. call \in [phase : {"step", "wait"}, job : Jobs, steps : Seq(StepResults)]
  BY <1>1, <1>2, CallShape
<1>4. PICK result \in {"unavailable", "stopped"} : call' = [call EXCEPT !.steps = Append(@, result)]
  BY DEF Unavailable
<1>5. call' = [call EXCEPT !.phase = "step", !.steps = Append(@, result)]
  BY <1>2, <1>3, <1>4
<1>6. UNCHANGED <<calls, returned, truth, others>> /\ result \in StepResults \ {"passed"}
  BY <1>4 DEF Unavailable, StepResults
<1> QED BY <1>2, <1>5, <1>6, SpoiledStepKeeps

LEMMA StepRefusedKeeps ==
    ASSUME SandboxInv, StepRefused
    PROVE SandboxInv'
<1>1. call # Idle /\ UNCHANGED <<calls, truth, others>> /\ call' = Idle
  BY DEF StepRefused, Return, Idle
<1>2. returned' = [Result(FALSE, FALSE, NoTier) EXCEPT !.kind = "refused"]
  BY DEF StepRefused, Return
<1>3. returned'.call = calls /\ returned'.passed = FALSE /\ returned'.kind = "refused"
  BY <1>2 DEF Result
<1> QED BY <1>1, <1>3, ReturnKeeps DEF NothingLeft

LEMMA FinishProjectKeeps ==
    ASSUME SandboxInv, FinishProject
    PROVE SandboxInv'
<1>1. CallInv
  BY DEF SandboxInv
<1>2. call # Idle /\ call.phase = "step" /\ Job.kind = "project"
  BY <1>1, CallShape DEF FinishProject, Idle
<1>3. call \in [phase : {"step", "wait"}, job : Jobs, steps : Seq(StepResults)]
  BY <1>1, <1>2, CallShape
<1>4. /\ UNCHANGED <<calls, truth, others>> /\ call' = Idle
      /\ returned' = Result(Remaining = 0 /\ ToSet(call.steps) = {"passed"}, FALSE, Tier)
  BY Zenon DEF FinishProject, Return
<1>5. /\ returned'.call = calls /\ returned'.kind = "project" /\ returned'.job = Job
      /\ returned'.passed => Remaining = 0 /\ ToSet(call.steps) = {"passed"}
  BY <1>2, <1>4 DEF Result
<1>6. ASSUME returned'.passed PROVE truth.exits = [i \in DOMAIN CanonicalCommands(Job) |-> 0]
  <2>1. StepsPassed
    BY <1>5, <1>6 DEF StepsPassed
  <2>2. truth.exits = Zeros(Len(call.steps))
    BY <1>2, <2>1 DEF SandboxInv, ExitInv, Earlier
  <2>3. /\ Len(CanonicalCommands(Job)) \in Nat /\ DOMAIN CanonicalCommands(Job) = 1..Len(CanonicalCommands(Job))
        /\ Len(call.steps) \in Nat
    <3>1. CanonicalCommands(Job) \in {<<"cmake", "cmake", "ctest">>, <<"node", "npm", "npm">>, <<"node", "npm">>,
                                     <<"python3", "python3", "python3">>}
      BY Zenon DEF CanonicalCommands
    <3> DEFINE cs == CanonicalCommands(Job)
    <3>2. Len(cs) \in Nat /\ DOMAIN cs = 1..Len(cs)
      BY <3>1
    <3> QED BY <1>3, <3>2
  <2>4. Len(CanonicalCommands(Job)) = Len(call.steps)
    BY <1>5, <1>6, <2>3 DEF Remaining
  <2>5. DOMAIN CanonicalCommands(Job) = 1..Len(call.steps)
    BY <2>3, <2>4
  <2> QED BY <2>2, <2>5 DEF Zeros
<1> QED BY <1>2, <1>4, <1>5, <1>6, ReturnKeeps DEF Earned, NothingLeft

LEMMA ExpireKeeps ==
    ASSUME SandboxInv, Expire
    PROVE SandboxInv'
<1>1. CallInv
  BY DEF SandboxInv
<1>2. /\ call # Idle /\ call.phase = "wait" /\ Job.kind \in {"python", "behavior"}
      /\ call' = [call EXCEPT !.phase = "expired"] /\ UNCHANGED <<tools, child, others, returned, truth, calls>>
  BY DEF Expire, Idle
<1>3. call \in [phase : {"wait", "expired"}, job : Jobs]
  BY <1>1, <1>2, CallShape
<1>4. call' \in [phase : {"wait", "expired"}, job : Jobs] /\ call'.job = call.job /\ call' # Idle
  BY <1>2, <1>3 DEF Idle
<1>5. CallInv'
  BY <1>1, <1>2, <1>4 DEF CallInv, Job, Kinds
<1>6. ReturnInv' /\ SandboxIsHonest'
  BY <1>2, StillHonest
<1>7. TruthInv' /\ TraceInv' /\ ContainerInv'
  BY <1>2, <1>4 DEF SandboxInv, TruthInv, TraceInv, ContainerInv, Served, Job, Mine
<1>8. ExitInv'
  <2>1. StepsPassed /\ Earlier = <<>> /\ Earlier' = <<>>
    BY <1>2, <1>4 DEF StepsPassed, Earlier, Job
  <2> QED BY <1>2, <1>4, <2>1 DEF SandboxInv, ExitInv, Served, Job
<1> QED BY <1>4, <1>5, <1>6, <1>7, <1>8 DEF SandboxInv

LEMMA TerminateKeeps ==
    ASSUME SandboxInv, TerminateProcessTree \/ TerminateTrace
    PROVE SandboxInv'
<1>1. call # Idle /\ UNCHANGED <<calls, truth>>
  <2>1. call.phase = "expired" /\ UNCHANGED <<calls, truth>>
    BY Zenon DEF TerminateProcessTree, TerminateTrace
  <2> QED BY <2>1 DEF Idle
<1>3. Return(Result(FALSE, TRUE, NoTier))
  BY Zenon DEF TerminateProcessTree, TerminateTrace
<1>2. others' \subseteq others
  BY DEF TerminateProcessTree, TerminateTrace, KillGroup
<1> QED BY <1>1, <1>2, <1>3, TimedOutKeeps

LEMMA CommandExitedKeeps ==
    ASSUME SandboxInv, CommandExited
    PROVE SandboxInv'
<1>1. call # Idle /\ (Job.kind = "script" \/ Job.kind = "project")
  BY DEF CommandExited, Idle
<1>2. CASE Job.kind = "project" /\ child.code # 0
  <2>1. /\ UNCHANGED <<calls, returned, truth, others>>
        /\ call' = [call EXCEPT !.phase = "step", !.steps = Append(@, "failed")]
    BY <1>2 DEF CommandExited
  <2>2. "failed" \in StepResults \ {"passed"}
    BY DEF StepResults
  <2> QED BY <1>1, <1>2, <2>1, <2>2, SpoiledStepKeeps
<1> QED BY <1>1, <1>2, ScriptExitedKeeps, PassedStepKeeps

LEMMA CommandExpiredKeeps ==
    ASSUME SandboxInv, CommandExpired
    PROVE SandboxInv'
<1>1. call # Idle /\ (Job.kind = "script" \/ Job.kind = "project") /\ UNCHANGED <<calls, truth, others>>
  BY DEF CommandExpired, Idle
<1>2. CASE Job.kind = "script"
  BY <1>1, <1>2, TimedOutKeeps DEF CommandExpired
<1>3. CASE Job.kind = "project"
  <2>1. UNCHANGED returned /\ call' = [call EXCEPT !.phase = "step", !.steps = Append(@, "failed")]
    BY <1>3 DEF CommandExpired
  <2>2. "failed" \in StepResults \ {"passed"}
    BY DEF StepResults
  <2> QED BY <1>1, <1>3, <2>1, <2>2, SpoiledStepKeeps
<1> QED BY <1>1, <1>2, <1>3

\* A request that is refused, or answered at once without a verdict.
LEMMA AnsweredAtOnceKeeps ==
    ASSUME SandboxInv, call = Idle, calls' = calls + 1, truth' = NoTruth, UNCHANGED <<call, others>>,
           NEW kind \in {"refused", "project"}, returned' = [NoResult EXCEPT !.kind = kind, !.call = calls + 1]
    PROVE SandboxInv'
<1>1. calls \in Nat /\ calls' \in Nat
  BY DEF SandboxInv, CallInv
<1>2. returned'.kind = kind /\ returned'.call = calls' /\ returned'.passed = FALSE
  BY DEF NoResult
<1>3. CallInv' /\ ReturnInv' /\ TruthInv'
  BY <1>1, <1>2 DEF SandboxInv, CallInv, ReturnInv, TruthInv, NoTruth
<1>4. SandboxIsHonest'
  BY <1>2 DEF SandboxIsHonest, VerdictsAreEarned, InTimeLeavesNothing
<1> QED BY <1>3, <1>4 DEF SandboxInv

\* A request whose candidate is started.
LEMMA StartedKeeps ==
    ASSUME SandboxInv, call = Idle, calls' = calls + 1, truth' = NoTruth, UNCHANGED returned,
           NEW j \in Jobs, j.kind \in {"script", "python", "behavior"}, call' = [phase |-> "wait", job |-> j],
           NEW mode, Start(mode, calls + 1),
           mode \in (CASE j.kind = "python" -> {"local"} [] j.kind = "behavior" -> {"fork"}
                       [] OTHER -> {"local", "container"})
    PROVE SandboxInv'
<1>1. calls \in Nat /\ calls' \in Nat /\ returned.call \in 0..calls /\ others \subseteq [call : 0..calls, role : Roles]
  BY DEF SandboxInv, CallInv, ReturnInv
<1>2. call' # Idle /\ Job' = j /\ call'.phase = "wait"
  BY DEF Idle, Job
<1>3. /\ child' = [state |-> "running", mode |-> mode]
      /\ others' = others \cup (IF mode = "container" THEN {[call |-> calls + 1, role |-> "container"]} ELSE {})
  BY DEF Start
<1>4. CallInv'
  <2>1. others' \subseteq [call : 0..calls', role : Roles]
    BY <1>1, <1>3 DEF Roles
  <2> QED BY <1>1, <1>2, <2>1 DEF CallInv, Kinds
<1>5. ReturnInv' /\ VerdictsAreEarned'
  BY <1>1, <1>2 DEF ReturnInv, VerdictsAreEarned
<1>6. InTimeLeavesNothing'
  <2>1. \A p \in others' : p.call = returned.call => p \in others
    BY <1>1, <1>3
  <2> QED BY <2>1 DEF SandboxInv, SandboxIsHonest, InTimeLeavesNothing
<1>7. TruthInv' /\ ExitInv'
  BY <1>2, <1>3 DEF TruthInv, NoTruth, ExitInv, Served, StepsPassed, Earlier
<1>8. TraceInv'
  BY <1>2, <1>3 DEF TraceInv
<1>9. Mine("container")' \in others' => mode = "container"
  BY <1>1, <1>3 DEF Mine
<1>10. ContainerInv'
  BY <1>2, <1>3, <1>9 DEF ContainerInv
<1> QED BY <1>4, <1>5, <1>6, <1>7, <1>8, <1>10 DEF SandboxInv, SandboxIsHonest

LEMMA ScriptModes ==
    ASSUME NEW j
    PROVE ScriptMode(j) \in {"refused", "local", "container"}
BY DEF ScriptMode

LEMMA RequestKeeps ==
    ASSUME SandboxInv, Request
    PROVE SandboxInv'
<1>1. PICK j \in Jobs : RunScript(j) \/ RunPython(j) \/ RunBehavior(j) \/ ValidateProject(j)
  BY DEF Request
<1>2. call = Idle /\ calls' = calls + 1 /\ truth' = NoTruth
  BY DEF Request
<1>3. CASE RunScript(j)
  <2>1. CASE ScriptMode(j) = "refused"
    BY <1>2, <1>3, <2>1, AnsweredAtOnceKeeps DEF RunScript, Refuse
  <2>2. CASE ScriptMode(j) # "refused"
    BY <1>2, <1>3, <2>2, ScriptModes, StartedKeeps DEF RunScript
  <2> QED BY <2>1, <2>2
<1>4. CASE RunPython(j) \/ RunBehavior(j)
  BY <1>2, <1>4, StartedKeeps DEF RunPython, RunBehavior
<1>5. CASE ValidateProject(j)
  <2>1. CASE Refuse(j)
    BY <1>2, <2>1, AnsweredAtOnceKeeps DEF Refuse
  <2>2. CASE UNCHANGED <<call, others>> /\ returned' = [NoResult EXCEPT !.kind = "project", !.call = calls + 1]
    BY <1>2, <2>2, AnsweredAtOnceKeeps
  <2>3. CASE /\ call' = [phase |-> "step", job |-> j, steps |-> <<>>]
             /\ UNCHANGED <<child, others, returned>>
    <3>1. /\ calls \in Nat /\ calls' \in Nat /\ returned.call \in 0..calls
          /\ others \subseteq [call : 0..calls, role : Roles]
      BY <1>2 DEF SandboxInv, CallInv, ReturnInv
    <3>2. call' # Idle /\ Job' = j /\ j.kind = "project" /\ call'.phase = "step" /\ call'.steps = <<>>
      BY <1>5, <2>3 DEF Idle, Job, ValidateProject
    <3>3. CallInv'
      BY <1>2, <2>3, <3>1, <3>2 DEF CallInv, StepResults
    <3>4. ReturnInv' /\ VerdictsAreEarned'
      BY <1>2, <2>3, <3>1, <3>2 DEF ReturnInv, VerdictsAreEarned
    <3>5. InTimeLeavesNothing'
      BY <2>3 DEF SandboxInv, SandboxIsHonest, InTimeLeavesNothing
    <3>6. TruthInv' /\ TraceInv' /\ ContainerInv'
      BY <1>2, <3>2 DEF TruthInv, NoTruth, TraceInv, ContainerInv, Served
    <3>7. ExitInv'
      BY <1>2, <3>2 DEF NoTruth, ExitInv, Served, Earlier, Zeros
    <3> QED BY <3>2, <3>3, <3>4, <3>5, <3>6, <3>7 DEF SandboxInv, SandboxIsHonest
  <2> QED BY <1>5, <2>1, <2>2, <2>3 DEF ValidateProject
<1> QED BY <1>1, <1>3, <1>4, <1>5

LEMMA SandboxInvStep ==
    ASSUME SandboxInv, [Next]_vars
    PROVE SandboxInv'
<1>1. CASE UNCHANGED vars
  BY <1>1 DEF vars, SandboxInv, CallInv, ReturnInv, TruthInv, SandboxIsHonest, VerdictsAreEarned,
     InTimeLeavesNothing, ExitInv, TraceInv, ContainerInv, StepsPassed, Earlier, Served, Job, Mine
<1>2. CASE Candidate
  BY <1>2, SpawnKeeps, ExitKeeps, ProcessEndsKeeps, TraceKeeps DEF Candidate
<1>3. CASE Caller
  BY <1>3, UnavailableKeeps, StartStepKeeps, StepRefusedKeeps, FinishProjectKeeps, PythonExitedKeeps, ExpireKeeps,
     TerminateKeeps, CommandExitedKeeps, CommandExpiredKeeps, CollectTraceKeeps DEF Caller
<1> QED BY <1>1, <1>2, <1>3, RequestKeeps DEF Next

-----------------------------------------------------------------------------
(* The console's scripts *)

Sessions == [state : {"whole"}, attempts : Nat, status : {"running", "completed", "failed"}]
Files == Sessions \cup {NoFile, TornFile}
Steps == {"generating", "writing", "renaming", "saving"}
Scripts == {None, "coding_capability", "worker_limit"}
Codes == {None, "success", "break", "error", "killed"}

RunRecords == [task : ToSet(Tasks) \cup {None}, entrypoint : Scripts, checkpoint : Files, temporary : Files,
               files : [ToSet(Artifacts) -> Files]]
ProcessRecords ==
    [pc : {"unborn", "starting", "tasks", "exited"} \cup Steps, entrypoint : Scripts, todo : Seq(ToSet(Tasks)),
     run : Runs \cup {None}, resumes : Runs \cup {None}, session : Files, passed : Nat, total : Nat,
     saved : 0..Len(Artifacts), worked : SUBSET Runs, exit : Codes]
ConsoleTypes ==
    /\ runs \in [Runs -> RunRecords]
    /\ processes \in [Processes -> ProcessRecords]
    /\ launcher \subseteq Runs

Doing(p) == processes[p].pc \in Steps

\* What is stored, listed or worked on has its task.
HasTask(r) == runs[r].task # None
StoredHasTask == \A r \in Runs : runs[r].checkpoint # NoFile => HasTask(r)
ListedHasTask == \A r \in launcher : HasTask(r)

\* What a process has yet to do, and at which run it is.
ProcessInv(p) ==
    LET me == processes[p] IN
    /\ \A r \in me.worked : HasTask(r)
    /\ me.resumes # None => HasTask(me.resumes)
    /\ Doing(p) <=> me.run # None
    /\ Doing(p) => me.run \in me.worked /\ me.todo # <<>> /\ runs[me.run].task = Head(me.todo)
    /\ me.resumes # None =>
          /\ me.run \in {None, me.resumes} /\ me.worked \subseteq {me.resumes}
          /\ me.pc = "tasks" \/ Doing(p) => me.todo \in {<<>>, << runs[me.resumes].task >>}
          /\ me.pc = "tasks" /\ me.todo # <<>> => me.worked = {}
    /\ me.pc \in {"unborn", "starting"} => me.worked = {} /\ me.exit = None /\ me.passed = 0
    /\ me.pc \in Steps \ {"saving"} => me.saved = 0
    /\ me.pc = "exited" <=> me.exit # None

\* A run that is not shared has one worker at most ...
Exclusive == \A r \in Runs \ shared : \A p, q \in WorkersOn(r) : p = q

\* ... who knows what is stored of it.
KnowsResumed(p) ==
    LET me == processes[p] IN
    me.pc = "tasks" /\ me.resumes # None /\ me.todo # <<>> =>
        me.session \in Sessions /\ (me.resumes \notin shared => me.session = runs[me.resumes].checkpoint)
KnowsStored(p) ==
    LET me == processes[p]
        r == runs[me.run]
    IN Doing(p) /\ me.run \notin shared =>
          /\ me.pc = "generating" => /\ ~IsFinal(me.session)
                                     /\ r.checkpoint = me.session \/ r.checkpoint = NoFile
          /\ me.pc \in {"writing", "renaming"} =>
                /\ r.checkpoint \in Sessions \cup {NoFile} /\ ~IsFinal(r.checkpoint)
                /\ r.checkpoint.attempts <= me.session.attempts
          /\ me.pc = "writing" => r.temporary = TornFile
          /\ me.pc = "renaming" => r.temporary = me.session
          /\ me.pc = "saving" => /\ IsFinal(me.session) /\ r.checkpoint = me.session
                                 /\ \A i \in 1..me.saved : r.files[Artifacts[i]] = me.session
StoredInv(p) == /\ Doing(p) => processes[p].session \in Sessions
                /\ KnowsResumed(p) /\ KnowsStored(p)

WholeInv == \A r \in Runs \ shared : runs[r].checkpoint # TornFile

\* The runs a process is done with.
Done(p) ==
    IF processes[p].exit \in {"killed", "error"} THEN {} ELSE processes[p].worked \ {processes[p].run}
Closed(r) ==
    /\ runs[r].checkpoint \in Sessions /\ IsFinal(runs[r].checkpoint)
    /\ \A f \in ToSet(Artifacts) : runs[r].files[f] = runs[r].checkpoint
ClosedInv(p) == \A r \in Done(p) \ shared : Closed(r)

\* What it counts is how many of them completed.
Alone(p) == processes[p].worked \cap shared = {}
Asked(p) == IF processes[p].resumes = None THEN ToSet(Tasks) ELSE {runs[processes[p].resumes].task}
NoneFailed(p) == \A r \in Done(p) : runs[r].checkpoint.status # "failed"
CountInv(p) ==
    LET me == processes[p] IN
    Alone(p) /\ (me.pc = "tasks" \/ Doing(p)) =>
        /\ me.passed + Len(me.todo) <= me.total
        /\ NoneFailed(p) <=> me.passed + Len(me.todo) = me.total
        /\ NoneFailed(p) => {runs[r].task : r \in Done(p)} \cup ToSet(me.todo) = Asked(p)

\* What ExitTellsOutcome says of one process.
Completed(p) == {r \in processes[p].worked : runs[r].checkpoint.status = "completed"}
Tells(p) ==
    Alone(p) =>
        /\ processes[p].exit = "success" =>
              /\ {runs[r].task : r \in Completed(p)} = Asked(p)
              /\ \A r \in Completed(p), f \in ToSet(Artifacts) : runs[r].files[f] = runs[r].checkpoint
        /\ processes[p].exit = "break" => \E r \in processes[p].worked : runs[r].checkpoint.status = "failed"

Each(p) == ProcessInv(p) /\ StoredInv(p) /\ ClosedInv(p) /\ CountInv(p) /\ Tells(p)
ConsoleInv ==
    /\ ConsoleTypes /\ StoredHasTask /\ ListedHasTask /\ Exclusive /\ WholeInv
    /\ \A p \in Processes : Each(p)

LEMMA TellsOutcome == ExitTellsOutcome <=> \A p \in Processes : Tells(p)
BY DEF ExitTellsOutcome, Tells, Alone, Asked, Completed

\* Of the names, and of sequences.
LEMMA Names ==
    /\ None \notin Runs /\ None \notin ToSet(Tasks) /\ Tasks \in Seq(ToSet(Tasks))
    /\ RunIds \in Seq(Runs) /\ \A i \in DOMAIN RunIds : RunIds[i] \in Runs
    /\ Len(Artifacts) = 2 /\ ToSet(Artifacts) = {Artifacts[1], Artifacts[2]}
    /\ Artifacts[1] # Artifacts[2]
<1>1. Tasks \in Seq(STRING \ {None}) /\ RunIds \in Seq(STRING \ {None})
  BY NamesAssumption
<1>2. None \notin Runs /\ None \notin ToSet(Tasks)
  BY <1>1 DEF Runs, ToSet
<1>3. Tasks \in Seq(ToSet(Tasks)) /\ RunIds \in Seq(Runs)
  BY <1>1 DEF Runs, ToSet
<1>4. \A i \in DOMAIN RunIds : RunIds[i] \in Runs
  BY DEF Runs, ToSet
<1>5. Len(Artifacts) = 2 /\ Artifacts[1] # Artifacts[2] /\ ToSet(Artifacts) = {Artifacts[1], Artifacts[2]}
  BY DEF Artifacts, ToSet
<1> QED BY <1>2, <1>3, <1>4, <1>5

LEMMA OneTaskLess ==
    ASSUME NEW S, NEW s \in Seq(S), s # <<>>
    PROVE /\ Head(s) \in S /\ Tail(s) \in Seq(S) /\ Len(s) \in Nat /\ Len(Tail(s)) = Len(s) - 1 /\ Len(s) > 0
          /\ ToSet(s) = {Head(s)} \cup ToSet(Tail(s))
<1>1. Head(s) \in S /\ Tail(s) \in Seq(S) /\ Len(s) \in Nat /\ Len(Tail(s)) = Len(s) - 1 /\ Len(s) > 0
  OBVIOUS
<1>2. \A i \in DOMAIN s : s[i] \in {Head(s)} \cup ToSet(Tail(s))
  <2>1. TAKE i \in DOMAIN s
  <2>2. CASE i = 1
    BY <2>2
  <2>3. CASE i # 1
    <3>1. i - 1 \in DOMAIN Tail(s) /\ s[i] = Tail(s)[i - 1]
      BY <1>1, <2>3
    <3> QED BY <3>1 DEF ToSet
  <2> QED BY <2>2, <2>3
<1>3. Head(s) = s[1] /\ 1 \in DOMAIN s /\ \A i \in DOMAIN Tail(s) : i + 1 \in DOMAIN s /\ Tail(s)[i] = s[i + 1]
  BY <1>1
<1>4. ToSet(s) = {Head(s)} \cup ToSet(Tail(s))
  BY <1>2, <1>3 DEF ToSet
<1> QED BY <1>1, <1>4

LEMMA KindsOfFiles ==
    /\ NoFile \notin Sessions /\ TornFile \notin Sessions /\ NoFile # TornFile
    /\ ~IsFinal(NoFile) /\ ~IsFinal(TornFile) /\ NoFile.attempts = 0
    /\ \A f \in Files : (f.state = "whole" <=> f \in Sessions) /\ (f.state = "torn" <=> f = TornFile)
                         /\ (f.state = "absent" <=> f = NoFile)
    /\ \A f \in Sessions : f \in Files /\ f.attempts \in Nat
    /\ \A f \in Sessions : IsFinal(f) <=> f.status \in {"completed", "failed"}
    /\ \A f \in Sessions : ~IsFinal(f) <=> f.status = "running"
BY DEF NoFile, TornFile, Sessions, Files, IsFinal, None

\* A step of p as the other processes see it.
Leaves(p) ==
    /\ \A r \in Runs : HasTask(r) => runs'[r].task = runs[r].task
    /\ \A r \in Runs \ shared' : p \notin WorkersOn(r) \/ Closed(r) =>
          runs'[r].checkpoint = runs[r].checkpoint /\ runs'[r].files = runs[r].files
    /\ \A r \in Runs \ shared' : p \notin WorkersOn(r) => runs'[r].temporary = runs[r].temporary
    /\ \A q \in Processes \ {p} : processes'[q] = processes[q]
    /\ shared \subseteq shared'

LEMMA OthersKeep ==
    ASSUME ConsoleInv, NEW p \in Processes, Leaves(p)
    PROVE \A q \in Processes \ {p} : Each(q)'
<1>1. TAKE q \in Processes \ {p}
<1>2. /\ Each(q) /\ processes'[q] = processes[q] /\ shared \subseteq shared' /\ Exclusive
      /\ \A r \in Runs : HasTask(r) => runs'[r].task = runs[r].task
      /\ processes[q].worked \subseteq Runs /\ processes[q].run \in Runs \cup {None}
      /\ processes[q].resumes \in Runs \cup {None} /\ None \notin Runs
  BY Names DEF ConsoleInv, ConsoleTypes, ProcessRecords, Leaves
<1>3. \A r \in Runs \ shared' : q \in WorkersOn(r) =>
          /\ runs'[r].checkpoint = runs[r].checkpoint /\ runs'[r].files = runs[r].files
          /\ runs'[r].temporary = runs[r].temporary
  <2>1. TAKE r \in Runs \ shared'
  <2>2. HAVE q \in WorkersOn(r)
  <2>3. p \notin WorkersOn(r)
    BY <1>2, <2>2 DEF Exclusive
  <2> QED BY <2>3 DEF Leaves
<1>4. \A r \in Runs \ shared' : Closed(r) =>
          runs'[r].checkpoint = runs[r].checkpoint /\ runs'[r].files = runs[r].files
  BY DEF Leaves
<1>5. ProcessInv(q)'
  BY <1>2 DEF Each, ProcessInv, HasTask, Doing
<1>6. Doing(q) => processes[q].run \in Runs /\ q \in WorkersOn(processes[q].run)
  BY <1>2 DEF Each, ProcessInv, WorkersOn, IsAlive, Doing, Steps
<1>7. processes[q].pc = "tasks" /\ processes[q].resumes # None =>
          processes[q].resumes \in Runs /\ q \in WorkersOn(processes[q].resumes)
  BY <1>2 DEF WorkersOn, IsAlive
<1>8. StoredInv(q)'
  <2>1. KnowsResumed(q)'
    BY <1>2, <1>3, <1>7 DEF Each, StoredInv, KnowsResumed
  <2>2. KnowsStored(q)'
    BY <1>2, <1>3, <1>6 DEF Each, StoredInv, KnowsStored, Doing, IsFinal
  <2> QED BY <1>2, <2>1, <2>2 DEF Each, StoredInv, Doing
<1>9. Done(q)' = Done(q) /\ Done(q) \subseteq processes[q].worked
  BY <1>2 DEF Done
<1>10. ClosedInv(q)'
  BY <1>2, <1>4, <1>9 DEF Each, ClosedInv, Closed, IsFinal
<1>11. Alone(q)' => Alone(q) /\ (\A r \in Done(q) : Closed(r) /\ runs'[r].checkpoint = runs[r].checkpoint
                                                  /\ runs'[r].files = runs[r].files)
  BY <1>2, <1>4, <1>9 DEF Each, Alone, ClosedInv
<1>12. (\A r \in processes[q].worked : runs'[r].task = runs[r].task) /\ Asked(q)' = Asked(q)
  BY <1>2 DEF Each, ProcessInv, Asked
<1>13. CountInv(q)'
  <2>1. SUFFICES ASSUME Alone(q)' PROVE CountInv(q)'
    BY DEF CountInv
  <2>2. NoneFailed(q)' <=> NoneFailed(q)
    BY <1>9, <1>11, <2>1 DEF NoneFailed
  <2>3. {runs[r].task : r \in Done(q)}' = {runs[r].task : r \in Done(q)}
    BY <1>9, <1>12
  <2> QED BY <1>2, <1>11, <1>12, <2>1, <2>2, <2>3 DEF Each, CountInv, Doing
<1>14. Tells(q)'
  <2>1. SUFFICES ASSUME Alone(q)', processes[q].exit \in {"success", "break"} PROVE Tells(q)'
    BY <1>2 DEF Tells
  <2>2. Done(q) = processes[q].worked
    BY <1>2, <2>1 DEF Each, ProcessInv, Done, Doing, Steps, None
  <2>3. Completed(q)' = Completed(q) /\ Completed(q) \subseteq processes[q].worked
    BY <1>2, <1>11, <2>1, <2>2 DEF Completed
  <2>4. {runs[r].task : r \in Completed(q)}' = {runs[r].task : r \in Completed(q)}
    BY <1>12, <2>3
  <2> QED BY <1>2, <1>11, <1>12, <2>1, <2>2, <2>3, <2>4 DEF Each, Tells
<1> QED BY <1>5, <1>8, <1>10, <1>13, <1>14 DEF Each

LEMMA StaysExclusive ==
    ASSUME Exclusive, NEW p, shared \subseteq shared', \A q \in Processes \ {p} : processes'[q] = processes[q],
           \A r \in Runs \ shared' : p \in WorkersOn(r)' => p \in WorkersOn(r) \/ WorkersOn(r) = {}
    PROVE Exclusive'
<1>1. SUFFICES ASSUME NEW r \in Runs \ shared'
               PROVE \A q1, q2 \in WorkersOn(r)' : q1 = q2
  BY DEF Exclusive
<1>2. \A q \in Processes \ {p} : q \in WorkersOn(r)' => q \in WorkersOn(r)
  BY DEF WorkersOn, IsAlive
<1>3. WorkersOn(r)' \subseteq Processes
  BY DEF WorkersOn
<1>4. \A q1, q2 \in WorkersOn(r) : q1 = q2
  BY DEF Exclusive
<1> QED BY <1>2, <1>3, <1>4

\* No process takes a step.
LEMMA NoStepKeeps ==
    ASSUME ConsoleInv, UNCHANGED <<runs, processes, shared>>, launcher' \subseteq Runs,
           \A r \in launcher' : HasTask(r)
    PROVE ConsoleInv'
<1>1. ConsoleTypes'
  BY DEF ConsoleInv, ConsoleTypes
<1>2. StoredHasTask' /\ ListedHasTask' /\ WholeInv'
  BY DEF ConsoleInv, StoredHasTask, ListedHasTask, WholeInv, HasTask
<1>3. Exclusive'
  BY DEF ConsoleInv, Exclusive, WorkersOn, IsAlive
<1>4. \A p \in Processes : Each(p)'
  <2>1. TAKE p \in Processes
  <2>2. Each(p)
    BY DEF ConsoleInv
  <2>3. ProcessInv(p)' /\ StoredInv(p)'
    BY <2>2 DEF Each, ProcessInv, StoredInv, KnowsResumed, KnowsStored, HasTask, Doing, IsFinal
  <2>4. Done(p)' = Done(p) /\ Alone(p)' = Alone(p) /\ Asked(p)' = Asked(p) /\ Completed(p)' = Completed(p)
    BY DEF Done, Alone, Asked, Completed
  <2>5. ClosedInv(p)'
    BY <2>2, <2>4 DEF Each, ClosedInv, Closed, IsFinal
  <2>6. CountInv(p)' /\ Tells(p)'
    BY <2>2, <2>4 DEF Each, CountInv, Tells, NoneFailed, Doing
  <2> QED BY <2>3, <2>5, <2>6 DEF Each
<1> QED BY <1>1, <1>2, <1>3, <1>4 DEF ConsoleInv

LEMMA ConsoleInvInit ==
    ASSUME ConsoleInit
    PROVE ConsoleInv
<1>1. ConsoleTypes
  BY Names DEF ConsoleInit, ConsoleTypes, RunRecords, ProcessRecords, Scripts, Codes, Files, NoFile
<1>2. StoredHasTask /\ ListedHasTask /\ WholeInv
  BY KindsOfFiles DEF ConsoleInit, StoredHasTask, ListedHasTask, WholeInv
<1>3. Exclusive
  BY DEF ConsoleInit, Exclusive, WorkersOn, IsAlive
<1>4. \A p \in Processes : Each(p)
  BY DEF ConsoleInit, Each, ProcessInv, StoredInv, KnowsResumed, KnowsStored, ClosedInv, CountInv, Tells, Done, Doing, Steps,
     HasTask, None
<1> QED BY <1>1, <1>2, <1>3, <1>4 DEF ConsoleInv

LEMMA RefreshRunsKeeps ==
    ASSUME ConsoleInv, RefreshRuns \/ PopScreen \/ RefreshRun \/ UNCHANGED console
    PROVE ConsoleInv'
<1>1. UNCHANGED <<runs, processes, shared>> /\ (launcher' = launcher \/ launcher' = Listed)
  BY DEF RefreshRuns, PopScreen, RefreshRun, console
<1>2. \A r \in Listed : r \in Runs /\ HasTask(r)
  BY KindsOfFiles DEF Listed, ConsoleInv, ConsoleTypes, StoredHasTask, NoFile
<1> QED BY <1>1, <1>2, NoStepKeeps DEF ConsoleInv, ConsoleTypes, ListedHasTask

LEMMA StartProcessKeeps ==
    ASSUME ConsoleInv, NEW p \in Processes, processes[p].pc = "unborn", Launch(p) \/ ResumeRun(p)
    PROVE ConsoleInv'
<1>1. PICK e \in Scripts, run \in launcher \cup {None} : StartProcess(p, e, run)
  BY DEF Launch, ResumeRun, Scripts, ConsoleInv, ConsoleTypes, RunRecords
<1>2. /\ UNCHANGED <<runs, launcher, shared>> /\ run \in Runs \cup {None} /\ (run # None => HasTask(run))
      /\ processes' = [processes EXCEPT ![p] = [@ EXCEPT !.pc = "starting", !.entrypoint = e, !.resumes = run]]
      /\ processes[p] \in ProcessRecords
  BY <1>1 DEF StartProcess, ConsoleInv, ConsoleTypes, ListedHasTask
<1>3. /\ processes'[p] = [processes[p] EXCEPT !.pc = "starting", !.entrypoint = e, !.resumes = run]
      /\ \A q \in Processes \ {p} : processes'[q] = processes[q]
  BY <1>2 DEF ConsoleInv, ConsoleTypes
<1>4. ConsoleTypes'
  BY <1>2 DEF ConsoleInv, ConsoleTypes, ProcessRecords
<1>5. StoredHasTask' /\ ListedHasTask' /\ WholeInv'
  BY <1>2 DEF ConsoleInv, StoredHasTask, ListedHasTask, WholeInv, HasTask
<1>6. Exclusive'
  BY <1>2, <1>3, StaysExclusive DEF ConsoleInv, WorkersOn
<1>7. \A q \in Processes \ {p} : Each(q)'
  BY <1>2, <1>3, OthersKeep DEF Leaves
<1>8. Each(p)'
  <2>1. ProcessInv(p) /\ processes[p].worked = {} /\ processes[p].exit = None /\ processes[p].run = None
    BY DEF ConsoleInv, Each, ProcessInv, Doing, Steps
  <2>2. ProcessInv(p)'
    BY <1>2, <1>3, <2>1 DEF ProcessInv, HasTask, Doing, Steps
  <2>3. StoredInv(p)' /\ ClosedInv(p)' /\ CountInv(p)' /\ Tells(p)'
    BY <1>2, <1>3, <2>1 DEF StoredInv, KnowsResumed, KnowsStored, ClosedInv, Done, CountInv, Tells, Doing, Steps, None
  <2> QED BY <2>2, <2>3 DEF Each
<1> QED BY <1>4, <1>5, <1>6, <1>7, <1>8 DEF ConsoleInv

Ended(me, code, todo, session, zero) ==
    [me EXCEPT !.pc = "exited", !.exit = code, !.todo = todo, !.run = None,
       !.session = session, !.saved = zero, !.passed = zero, !.total = zero]

HasEnded(me, code, after) ==
    /\ after \in ProcessRecords
    /\ after.pc = "exited" /\ after.exit = code /\ after.run = None
    /\ after.worked = me.worked /\ after.resumes = me.resumes

LEMMA EndedRecord ==
    ASSUME NEW me \in ProcessRecords, NEW code \in Codes, NEW todo \in Seq(ToSet(Tasks)), NEW f \in Files,
           NEW zero \in 0..Len(Artifacts), zero \in Nat
    PROVE HasEnded(me, code, Ended(me, code, todo, f, zero))
BY DEF ProcessRecords, Ended, HasEnded

LEMMA EndingKeeps ==
    ASSUME ConsoleInv, NEW p \in Processes, IsAlive(p), NEW code \in Codes \ {None}, EndWith(p, code),
           UNCHANGED <<runs, launcher>>, shared \subseteq shared',
           \/ code \in {"killed", "error"}
           \/ /\ processes[p].pc = "tasks" /\ processes[p].todo = <<>>
              /\ code = IF processes[p].passed = processes[p].total THEN "success" ELSE "break"
    PROVE ConsoleInv'
<1> DEFINE ended == Ended(processes[p], code, <<>>, NoFile, 0)
<1>0. /\ processes \in [Processes -> ProcessRecords] /\ processes[p] \in ProcessRecords /\ Each(p)
      /\ processes' = [processes EXCEPT ![p] = ended] /\ processes[p].pc \notin {"unborn", "exited"}
  BY Zenon DEF EndWith, Ended, ConsoleInv, ConsoleTypes, IsAlive
<1>9. HasEnded(processes[p], code, ended)
  <2>1. 0 \in 0..Len(Artifacts) /\ 0 \in Nat /\ NoFile \in Files /\ <<>> \in Seq(ToSet(Tasks))
        /\ code \in Codes
    BY Names DEF Files
  <2>2. processes[p] \in ProcessRecords
    BY <1>0
  <2> QED BY <2>1, <2>2, EndedRecord
<1> HIDE DEF ended
<1>10. processes[p].worked \subseteq Runs /\ processes[p].passed \in Nat
  BY <1>0 DEF ProcessRecords
<1>1. /\ processes[p] \in ProcessRecords /\ Each(p) /\ processes[p].pc \notin {"unborn", "exited"}
      /\ processes'[p] = ended
      /\ processes'[p] \in ProcessRecords
      /\ processes' \in [Processes -> ProcessRecords]
      /\ \A q \in Processes \ {p} : processes'[q] = processes[q]
      /\ processes'[p].pc = "exited" /\ processes'[p].exit = code /\ processes'[p].run = None
      /\ processes'[p].worked = processes[p].worked /\ processes'[p].resumes = processes[p].resumes
  BY <1>0, <1>9 DEF HasEnded
<1>2. ConsoleTypes'
  BY <1>1 DEF ConsoleInv, ConsoleTypes
<1>3. StoredHasTask' /\ ListedHasTask' /\ WholeInv'
  BY DEF ConsoleInv, StoredHasTask, ListedHasTask, WholeInv, HasTask
<1>4. Exclusive'
  <2>2. \A r : p \notin WorkersOn(r)'
    BY <1>1 DEF WorkersOn, IsAlive
  <2> QED BY <1>1, <2>2, StaysExclusive DEF ConsoleInv
<1>5. \A q \in Processes \ {p} : Each(q)'
  BY <1>1, OthersKeep DEF Leaves
<1>6. ProcessInv(p)' /\ StoredInv(p)' /\ CountInv(p)'
  BY <1>1 DEF Each, ProcessInv, StoredInv, KnowsResumed, KnowsStored, CountInv, HasTask, Doing, Steps
<1>7. CASE code \in {"killed", "error"}
  <2>1. ClosedInv(p)' /\ Tells(p)'
    BY <1>1, <1>7 DEF ClosedInv, Done, Tells
  <2> QED BY <1>2, <1>3, <1>4, <1>5, <1>6, <2>1 DEF ConsoleInv, Each
<1>8. CASE /\ processes[p].pc = "tasks" /\ processes[p].todo = <<>>
           /\ code = IF processes[p].passed = processes[p].total THEN "success" ELSE "break"
  <2>1. processes[p].exit = None /\ processes[p].run = None
    BY <1>1, <1>8 DEF Each, ProcessInv, Doing, Steps
  <2>2. Done(p) = processes[p].worked /\ Done(p)' = processes[p].worked
    <3>1. None \notin processes[p].worked
      BY <1>10, Names
    <3>3. code \notin {"killed", "error"} /\ processes[p].exit \notin {"killed", "error"}
      BY <1>8, <2>1 DEF None
    <3> QED BY <1>1, <2>1, <3>1, <3>3 DEF Done
  <2>3. ClosedInv(p)'
    BY <1>1, <2>2 DEF Each, ClosedInv, Closed, IsFinal
  <2>4. Tells(p)'
    <3>1. SUFFICES ASSUME Alone(p)' PROVE Tells(p)'
      BY DEF Tells
    <3>2. Alone(p) /\ (\A r \in processes[p].worked : Closed(r)) /\ Asked(p)' = Asked(p)
      BY <1>1, <2>2, <3>1 DEF Alone, Each, ClosedInv, Asked
    <3>3. /\ NoneFailed(p) <=> processes[p].passed = processes[p].total
          /\ NoneFailed(p) => {runs[r].task : r \in processes[p].worked} = Asked(p)
      <4>1. ToSet(processes[p].todo) = {} /\ Len(processes[p].todo) = 0
        BY <1>8 DEF ToSet
      <4> QED BY <1>1, <1>8, <1>10, <2>2, <3>2, <4>1 DEF Each, CountInv
    <3>4. NoneFailed(p) => Completed(p)' = processes[p].worked
      BY <1>1, <2>2, <3>2 DEF NoneFailed, Completed, Closed, IsFinal
    <3>5. CASE NoneFailed(p)
      BY <1>1, <1>8, <2>2, <3>2, <3>3, <3>4, <3>5 DEF Tells, Closed
    <3>6. CASE ~NoneFailed(p)
      BY <1>1, <1>8, <2>2, <3>3, <3>6 DEF Tells, NoneFailed
    <3> QED BY <3>5, <3>6
  <2> QED BY <1>2, <1>3, <1>4, <1>5, <1>6, <2>3, <2>4 DEF ConsoleInv, Each
<1> QED BY <1>7, <1>8

LEMMA EndProcessKeeps ==
    ASSUME ConsoleInv, NEW p \in Processes, EndProcess(p) \/ Die(p)
    PROVE ConsoleInv'
<1>1. CASE EndProcess(p)
  <2>1. (IF processes[p].passed = processes[p].total THEN "success" ELSE "break") \in Codes \ {None}
    BY DEF Codes, None
  <2> QED BY <1>1, <2>1, EndingKeeps DEF EndProcess, IsAlive
<1>2. CASE Die(p)
  BY <1>2, EndingKeeps DEF Die, Codes, None
<1> QED BY <1>1, <1>2

LEMMA LoadTasksKeeps ==
    ASSUME ConsoleInv, NEW p \in Processes, LoadTasks(p)
    PROVE ConsoleInv'
<1> DEFINE r == processes[p].resumes
           todo == IF r = None THEN Tasks ELSE << runs[r].task >>
<1>1. /\ processes[p].pc = "starting" /\ UNCHANGED <<runs, launcher>> /\ shared \subseteq shared'
      /\ r # None /\ WorkersOn(r) # {} => r \in shared'
  BY DEF LoadTasks
<1>2. CASE r # None /\ runs[r].checkpoint.state # "whole"
  BY <1>1, <1>2, EndingKeeps DEF LoadTasks, IsAlive, Codes, None
<1>3. CASE ~(r # None /\ runs[r].checkpoint.state # "whole")
  <2>1. /\ processes[p] \in ProcessRecords /\ Each(p) /\ r \in Runs \cup {None}
        /\ r # None => runs[r] \in RunRecords /\ HasTask(r) /\ runs[r].checkpoint \in Sessions
    BY <1>3, KindsOfFiles DEF ConsoleInv, ConsoleTypes, ProcessRecords, RunRecords, Each, ProcessInv
  <2>2. todo \in Seq(ToSet(Tasks)) /\ Len(todo) \in Nat /\ ToSet(todo) = Asked(p)
    <3>1. CASE r = None
      BY <3>1, Names DEF Asked
    <3>2. CASE r # None
      <4>1. runs[r].task \in ToSet(Tasks)
        BY <2>1, <3>2 DEF RunRecords, HasTask
      <4> QED BY <3>2, <4>1 DEF Asked, ToSet
    <3> QED BY <3>1, <3>2
  <2> DEFINE loaded == [processes[p] EXCEPT !.pc = "tasks", !.todo = todo, !.total = Len(todo),
                           !.session = IF r = None THEN NoFile ELSE runs[r].checkpoint]
  <2>14. processes' = [processes EXCEPT ![p] = loaded]
    BY <1>3 DEF LoadTasks
  <2>15. /\ loaded \in ProcessRecords
         /\ loaded.pc = "tasks" /\ loaded.todo = todo /\ loaded.total = Len(todo)
         /\ loaded.session = (IF r = None THEN NoFile ELSE runs[r].checkpoint)
         /\ loaded.run = processes[p].run /\ loaded.worked = processes[p].worked /\ loaded.exit = processes[p].exit
         /\ loaded.passed = processes[p].passed /\ loaded.resumes = r
    BY <2>1, <2>2 DEF ProcessRecords, Files
  <2> HIDE DEF loaded, todo
  <2>3. /\ processes'[p] = loaded
        /\ processes'[p].pc = "tasks" /\ processes'[p].todo = todo /\ processes'[p].total = Len(todo)
        /\ processes'[p].session = (IF r = None THEN NoFile ELSE runs[r].checkpoint)
        /\ processes'[p].run = processes[p].run /\ processes'[p].worked = processes[p].worked
        /\ processes'[p].exit = processes[p].exit /\ processes'[p].passed = processes[p].passed
        /\ processes'[p].resumes = r
        /\ processes'[p] \in ProcessRecords
        /\ processes' \in [Processes -> ProcessRecords]
        /\ \A q \in Processes \ {p} : processes'[q] = processes[q]
    BY <2>14, <2>15 DEF ConsoleInv, ConsoleTypes
  <2>4. ConsoleTypes'
    BY <1>1, <2>3 DEF ConsoleInv, ConsoleTypes
  <2>5. StoredHasTask' /\ ListedHasTask' /\ WholeInv'
    BY <1>1 DEF ConsoleInv, StoredHasTask, ListedHasTask, WholeInv, HasTask
  <2>6. processes[p].run = None /\ processes[p].worked = {} /\ processes[p].exit = None /\ processes[p].passed = 0
    BY <1>1, <2>1 DEF Each, ProcessInv, Doing, Steps
  <2>7. Exclusive'
    <3>1. \A x \in Runs : p \in WorkersOn(x)' => x = r
      BY <2>3, <2>6, Names DEF WorkersOn
    <3>2. \A x \in Runs \ shared' : p \in WorkersOn(x)' => WorkersOn(x) = {}
      BY <1>1, <3>1, Names
    <3>3. /\ Exclusive /\ shared \subseteq shared' /\ \A q \in Processes \ {p} : processes'[q] = processes[q]
      BY <1>1, <2>3 DEF ConsoleInv
    <3> QED BY <3>2, <3>3, StaysExclusive
  <2>8. \A q \in Processes \ {p} : Each(q)'
    BY <1>1, <2>3, OthersKeep DEF Leaves
  <2>9. ProcessInv(p)'
    BY <1>1, <2>1, <2>3, <2>6 DEF todo, Each, ProcessInv, HasTask, Doing, Steps, None
  <2>10. StoredInv(p)'
    BY <1>1, <2>1, <2>3 DEF StoredInv, KnowsResumed, KnowsStored, Doing, Steps
  <2>11. Done(p)' = {} /\ Asked(p)' = Asked(p)
    BY <1>1, <2>3, <2>6 DEF Done, Asked
  <2>12. ClosedInv(p)' /\ NoneFailed(p)' /\ Tells(p)'
    BY <2>3, <2>6, <2>11 DEF ClosedInv, NoneFailed, Tells, None
  <2>13. CountInv(p)'
    BY <1>1, <2>2, <2>3, <2>6, <2>11, <2>12 DEF CountInv, ProcessRecords
  <2> QED BY <2>4, <2>5, <2>7, <2>8, <2>9, <2>10, <2>12, <2>13 DEF ConsoleInv, Each
<1> QED BY <1>2, <1>3

\* A step of a process at the run it works on.
GoesOn(p) ==
    /\ processes' \in [Processes -> ProcessRecords]
    /\ \A q \in Processes \ {p} : processes'[q] = processes[q]
    /\ processes'[p].pc \in Steps /\ processes'[p].session \in Sessions
    /\ processes'[p].pc # "saving" => processes'[p].saved = 0
    /\ processes'[p].run = processes[p].run /\ processes'[p].resumes = processes[p].resumes
    /\ processes'[p].todo = processes[p].todo /\ processes'[p].worked = processes[p].worked
    /\ processes'[p].passed = processes[p].passed /\ processes'[p].total = processes[p].total
    /\ processes'[p].exit = processes[p].exit
Touches(r) ==
    /\ runs' \in [Runs -> RunRecords]
    /\ \A x \in Runs \ {r} : runs'[x] = runs[x]
    /\ runs'[r].task = runs[r].task
    /\ r \notin shared => runs'[r].checkpoint # TornFile
    /\ r \notin shared /\ Closed(r) => runs'[r].checkpoint = runs[r].checkpoint /\ runs'[r].files = runs[r].files

LEMMA Working ==
    ASSUME ConsoleInv, NEW p \in Processes, Doing(p)
    PROVE LET r == processes[p].run IN
          /\ processes \in [Processes -> ProcessRecords] /\ processes[p] \in ProcessRecords /\ Each(p)
          /\ runs \in [Runs -> RunRecords] /\ r \in Runs /\ runs[r] \in RunRecords
          /\ HasTask(r) /\ p \in WorkersOn(r) /\ r \in processes[p].worked
          /\ processes[p].exit = None /\ Done(p) = processes[p].worked \ {r}
<1> DEFINE r == processes[p].run
<1>1. /\ processes \in [Processes -> ProcessRecords] /\ processes[p] \in ProcessRecords /\ Each(p)
      /\ runs \in [Runs -> RunRecords]
  BY DEF ConsoleInv, ConsoleTypes
<1>2. processes[p].pc \notin {"unborn", "starting", "exited"}
  BY DEF Doing, Steps
<1>3. ProcessInv(p) /\ processes[p].worked \in SUBSET Runs /\ processes[p].exit \in Codes
  BY <1>1 DEF Each, ProcessRecords
<1>4. r \in processes[p].worked /\ HasTask(r) /\ processes[p].exit = None
  BY <1>2, <1>3 DEF ProcessInv
<1>5. r \in Runs /\ p \in WorkersOn(r)
  BY <1>2, <1>3, <1>4 DEF WorkersOn, IsAlive
<1>6. Done(p) = processes[p].worked \ {r}
  BY <1>4 DEF Done, None
<1> QED BY <1>1, <1>4, <1>5, <1>6

LEMMA WorkKeeps ==
    ASSUME ConsoleInv, NEW p \in Processes, Doing(p), GoesOn(p), Touches(processes[p].run),
           UNCHANGED <<launcher, shared>>, KnowsStored(p)'
    PROVE ConsoleInv'
<1> DEFINE r == processes[p].run
<1>1. /\ processes[p] \in ProcessRecords /\ Each(p) /\ r \in Runs /\ HasTask(r) /\ p \in WorkersOn(r)
      /\ r \in processes[p].worked /\ processes[p].exit = None /\ Done(p) = processes[p].worked \ {r}
  BY Working
<1>2. ConsoleTypes'
  BY DEF ConsoleInv, ConsoleTypes, GoesOn, Touches
<1>3. \A x \in Runs : HasTask(x) => runs'[x].task = runs[x].task /\ HasTask(x)'
  BY DEF Touches, HasTask
<1>4. StoredHasTask' /\ ListedHasTask' /\ WholeInv'
  BY <1>1, <1>3 DEF ConsoleInv, ConsoleTypes, StoredHasTask, ListedHasTask, WholeInv, Touches, HasTask
<1>5. Exclusive'
  <2>1. \A x \in Runs : p \in WorkersOn(x)' => p \in WorkersOn(x)
    BY DEF GoesOn, Doing, WorkersOn, IsAlive, Steps
  <2>2. Exclusive /\ shared \subseteq shared' /\ \A q \in Processes \ {p} : processes'[q] = processes[q]
    BY DEF ConsoleInv, GoesOn
  <2> QED BY <2>1, <2>2, StaysExclusive
<1>6. \A q \in Processes \ {p} : Each(q)'
  <2>1. Leaves(p)
    BY <1>1, <1>3 DEF Leaves, GoesOn, Touches
  <2> QED BY <2>1, OthersKeep
<1>7. ProcessInv(p)'
  <2>1. \A x \in processes[p].worked : x \in Runs
    BY <1>1 DEF ProcessRecords
  <2>2. processes[p].resumes # None => processes[p].resumes \in Runs
    BY <1>1 DEF ProcessRecords
  <2> QED BY <1>1, <1>3, <2>1, <2>2 DEF Each, ProcessInv, GoesOn, Doing, Steps
<1>8. StoredInv(p)'
  BY DEF StoredInv, KnowsResumed, GoesOn, Doing, Steps
<1>9. /\ Done(p)' = Done(p) /\ Asked(p)' = Asked(p) /\ Alone(p)' = Alone(p)
      /\ \A x \in Done(p) : x \in Runs /\ runs'[x] = runs[x]
  BY <1>1, <1>3 DEF Each, ProcessInv, Done, Asked, Alone, GoesOn, Touches, ProcessRecords
<1>10. ClosedInv(p)'
  BY <1>1, <1>9 DEF Each, ClosedInv, Closed, IsFinal
<1>11. NoneFailed(p)' = NoneFailed(p) /\ {runs[x].task : x \in Done(p)}' = {runs[x].task : x \in Done(p)}
  BY <1>9 DEF NoneFailed
<1>12. CountInv(p)'
  BY <1>1, <1>9, <1>11 DEF Each, CountInv, GoesOn
<1>13. Tells(p)'
  BY <1>1 DEF Tells, GoesOn, None
<1> QED BY <1>2, <1>4, <1>5, <1>6, <1>7, <1>8, <1>10, <1>12, <1>13 DEF ConsoleInv, Each

LEMMA AttemptKeeps ==
    ASSUME ConsoleInv, NEW p \in Processes, Attempt(p)
    PROVE ConsoleInv'
<1> DEFINE r == processes[p].run
<1>1. /\ processes \in [Processes -> ProcessRecords] /\ processes[p] \in ProcessRecords /\ Each(p)
      /\ runs \in [Runs -> RunRecords] /\ r \in Runs /\ runs[r] \in RunRecords /\ Doing(p)
      /\ processes[p].pc = "generating"
  BY Working DEF Attempt, Doing, Steps
<1>2. PICK status \in {"running", "completed", "failed"} :
          /\ processes' = [processes EXCEPT ![p].session = Session(processes[p].session.attempts + 1, status),
                                            ![p].pc = "writing"]
          /\ runs' = [runs EXCEPT ![r].temporary = TornFile]
  BY DEF Attempt
<1>3. processes[p].session \in Sessions /\ processes[p].saved = 0 /\ ProcessInv(p) /\ KnowsStored(p)
  BY <1>1 DEF Each, StoredInv, ProcessInv, Steps
<1>4. PICK s \in Sessions : /\ s = Session(processes[p].session.attempts + 1, status)
                            /\ s.attempts = processes[p].session.attempts + 1
  <2>1. processes[p].session.attempts + 1 \in Nat
    BY <1>3 DEF Sessions
  <2> DEFINE n == processes[p].session.attempts + 1
  <2>2. n \in Nat
    BY <2>1
  <2> HIDE DEF n
  <2>3. Session(n, status) \in Sessions /\ Session(n, status).attempts = n
    BY <2>2 DEF Session, Sessions
  <2> QED BY <2>3 DEF n
<1>5. GoesOn(p) /\ processes'[p].pc = "writing" /\ processes'[p].session = s
  BY <1>1, <1>2, <1>3, <1>4 DEF GoesOn, ProcessRecords, Steps, Files
<1>6. TornFile \in Files /\ UNCHANGED <<launcher, shared>>
  BY DEF Files, Attempt
<1>7. /\ Touches(r) /\ runs'[r].checkpoint = runs[r].checkpoint /\ runs'[r].temporary = TornFile
  BY <1>1, <1>2, <1>6 DEF Touches, RunRecords, ConsoleInv, WholeInv
<1>8. KnowsStored(p)'
  <2>1. SUFFICES ASSUME r \notin shared PROVE KnowsStored(p)'
    BY <1>5, <1>6 DEF KnowsStored, GoesOn
  <2>2. ~IsFinal(processes[p].session) /\ (runs[r].checkpoint = processes[p].session \/ runs[r].checkpoint = NoFile)
    BY <1>1, <1>3, <2>1 DEF KnowsStored
  <2>3. /\ runs[r].checkpoint \in Sessions \cup {NoFile} /\ ~IsFinal(runs[r].checkpoint)
        /\ runs[r].checkpoint.attempts <= s.attempts
    BY <1>3, <1>4, <2>2, KindsOfFiles
  <2> QED BY <1>5, <1>7, <2>3 DEF KnowsStored, GoesOn, IsFinal
<1> QED BY <1>1, <1>5, <1>6, <1>7, <1>8, WorkKeeps

LEMMA WriteTemporaryKeeps ==
    ASSUME ConsoleInv, NEW p \in Processes, WriteTemporary(p)
    PROVE ConsoleInv'
<1> DEFINE r == processes[p].run
<1>1. /\ processes \in [Processes -> ProcessRecords] /\ processes[p] \in ProcessRecords /\ Each(p)
      /\ runs \in [Runs -> RunRecords] /\ r \in Runs /\ runs[r] \in RunRecords /\ Doing(p)
      /\ processes[p].pc = "writing"
  BY Working DEF WriteTemporary, Doing, Steps
<1>2. /\ processes' = [processes EXCEPT ![p].pc = "renaming"] /\ UNCHANGED <<launcher, shared>>
      /\ \E content \in {processes[p].session} \cup (IF r \in shared THEN {TornFile} ELSE {}) :
            runs' = IF runs[r].temporary.state = "absent" THEN [runs EXCEPT ![r].checkpoint = content]
                    ELSE [runs EXCEPT ![r].temporary = content]
  BY DEF WriteTemporary
<1>3. processes[p].session \in Sessions /\ processes[p].saved = 0 /\ ProcessInv(p) /\ KnowsStored(p)
  BY <1>1 DEF Each, StoredInv, ProcessInv, Steps
<1>4. GoesOn(p) /\ processes'[p].pc = "renaming" /\ processes'[p].session = processes[p].session
  BY <1>1, <1>2, <1>3 DEF GoesOn, ProcessRecords, Steps
<1>5. PICK content \in {processes[p].session} \cup (IF r \in shared THEN {TornFile} ELSE {}) :
            runs' = IF runs[r].temporary.state = "absent" THEN [runs EXCEPT ![r].checkpoint = content]
                    ELSE [runs EXCEPT ![r].temporary = content]
  BY <1>2
<1>6. content \in Files
  BY <1>3 DEF Files
<1>7. /\ runs' \in [Runs -> RunRecords] /\ runs'[r].task = runs[r].task
      /\ \A x \in Runs \ {r} : runs'[x] = runs[x]
  BY <1>1, <1>5, <1>6 DEF RunRecords
<1>8. CASE r \in shared
  <2>1. Touches(r)
    BY <1>7, <1>8 DEF Touches
  <2>2. KnowsStored(p)'
    BY <1>2, <1>4, <1>8 DEF KnowsStored, GoesOn
  <2> QED BY <1>1, <1>2, <1>4, <2>1, <2>2, WorkKeeps
<1>9. CASE r \notin shared
  <2>1. /\ runs[r].temporary = TornFile /\ content = processes[p].session
        /\ runs[r].checkpoint \in Sessions \cup {NoFile} /\ ~IsFinal(runs[r].checkpoint)
        /\ runs[r].checkpoint.attempts <= processes[p].session.attempts
    BY <1>1, <1>3, <1>5, <1>9 DEF KnowsStored
  <2>2. TornFile.state # "absent"
    BY DEF TornFile
  <2>3. runs'[r].checkpoint = runs[r].checkpoint /\ runs'[r].files = runs[r].files
        /\ runs'[r].temporary = processes[p].session
    BY <1>1, <1>5, <2>1, <2>2 DEF RunRecords
  <2>4. Touches(r)
    BY <1>1, <1>7, <1>9, <2>3 DEF Touches, ConsoleInv, WholeInv
  <2>5. KnowsStored(p)'
    BY <1>4, <2>1, <2>3 DEF KnowsStored, GoesOn, IsFinal
  <2> QED BY <1>1, <1>2, <1>4, <2>4, <2>5, WorkKeeps
<1> QED BY <1>8, <1>9

LEMMA RenameTemporaryKeeps ==
    ASSUME ConsoleInv, NEW p \in Processes, RenameTemporary(p)
    PROVE ConsoleInv'
<1> DEFINE r == processes[p].run
<1>1. /\ processes \in [Processes -> ProcessRecords] /\ processes[p] \in ProcessRecords /\ Each(p)
      /\ runs \in [Runs -> RunRecords] /\ r \in Runs /\ runs[r] \in RunRecords /\ Doing(p)
      /\ processes[p].pc = "renaming"
  BY Working DEF RenameTemporary, Doing, Steps
<1>2. UNCHANGED <<launcher, shared>>
  BY DEF RenameTemporary
<1>3. CASE runs[r].temporary.state = "absent"
  BY <1>1, <1>2, <1>3, EndingKeeps DEF RenameTemporary, IsAlive, Codes, None
<1>4. CASE runs[r].temporary.state # "absent"
  <2>1. /\ processes' = [processes EXCEPT ![p].pc = AfterCheckpoint(p)]
        /\ runs' = [runs EXCEPT ![r].checkpoint = runs[r].temporary, ![r].temporary = NoFile]
    BY <1>4 DEF RenameTemporary
  <2>2. processes[p].session \in Sessions /\ processes[p].saved = 0 /\ ProcessInv(p) /\ KnowsStored(p)
    BY <1>1 DEF Each, StoredInv, ProcessInv, Steps
  <2>3. /\ GoesOn(p) /\ processes'[p].session = processes[p].session /\ processes'[p].saved = 0
        /\ processes'[p].pc = IF IsFinal(processes[p].session) THEN "saving" ELSE "generating"
    BY <1>1, <2>1, <2>2 DEF GoesOn, ProcessRecords, Steps, AfterCheckpoint
  <2>4. NoFile \in Files
    BY DEF Files
  <2>5. /\ runs' \in [Runs -> RunRecords] /\ runs'[r].task = runs[r].task
        /\ \A x \in Runs \ {r} : runs'[x] = runs[x]
        /\ runs'[r].checkpoint = runs[r].temporary
    BY <1>1, <2>1, <2>4 DEF RunRecords
  <2>6. r \notin shared => runs[r].temporary = processes[p].session /\ ~IsFinal(runs[r].checkpoint)
    BY <1>1, <2>2 DEF KnowsStored
  <2>7. Touches(r)
    BY <2>2, <2>5, <2>6, KindsOfFiles DEF Touches, Closed
  <2>8. KnowsStored(p)'
    BY <1>2, <2>3, <2>5, <2>6 DEF KnowsStored, GoesOn, IsFinal
  <2> QED BY <1>1, <1>2, <2>3, <2>7, <2>8, WorkKeeps
<1> QED BY <1>3, <1>4

LEMMA SaveArtifactKeeps ==
    ASSUME ConsoleInv, NEW p \in Processes, SaveArtifact(p)
    PROVE ConsoleInv'
<1> DEFINE r == processes[p].run
           f == Artifacts[processes[p].saved + 1]
<1>1. /\ processes \in [Processes -> ProcessRecords] /\ processes[p] \in ProcessRecords /\ Each(p)
      /\ runs \in [Runs -> RunRecords] /\ r \in Runs /\ runs[r] \in RunRecords /\ Doing(p)
      /\ processes[p].pc = "saving"
  BY Working DEF SaveArtifact, Doing, Steps
<1>2. /\ processes' = [processes EXCEPT ![p].saved = @ + 1] /\ UNCHANGED <<launcher, shared>>
      /\ runs' = [runs EXCEPT ![r].files[f] = processes[p].session] /\ processes[p].saved < Len(Artifacts)
  BY DEF SaveArtifact
<1>3. /\ processes[p].session \in Sessions /\ KnowsStored(p) /\ processes[p].session \in Files
      /\ processes[p].saved \in {0, 1} /\ f \in ToSet(Artifacts)
  BY <1>1, <1>2, Names DEF Each, StoredInv, ProcessRecords, Files
<1>4. /\ GoesOn(p) /\ processes'[p].session = processes[p].session /\ processes'[p].pc = "saving"
      /\ processes'[p].saved = processes[p].saved + 1
  <2>1. processes[p].saved + 1 \in 0..Len(Artifacts)
    BY <1>3, Names
  <2> QED BY <1>1, <1>2, <1>3, <2>1 DEF GoesOn, ProcessRecords, Steps
<1>5. /\ runs' \in [Runs -> RunRecords] /\ runs'[r].task = runs[r].task
      /\ \A x \in Runs \ {r} : runs'[x] = runs[x]
      /\ runs'[r].checkpoint = runs[r].checkpoint
      /\ runs'[r].files = [runs[r].files EXCEPT ![f] = processes[p].session]
      /\ runs[r].files \in [ToSet(Artifacts) -> Files]
  BY <1>1, <1>2, <1>3 DEF RunRecords
<1>6. r \notin shared =>
          /\ IsFinal(processes[p].session) /\ runs[r].checkpoint = processes[p].session
          /\ \A i \in 1..processes[p].saved : runs[r].files[Artifacts[i]] = processes[p].session
  BY <1>1, <1>3 DEF KnowsStored
<1>7. Touches(r)
  <2>1. r \notin shared /\ Closed(r) => runs[r].files[f] = processes[p].session
    BY <1>3, <1>6 DEF Closed
  <2>2. r \notin shared /\ Closed(r) => runs'[r].files = runs[r].files
    BY <1>3, <1>5, <2>1
  <2> QED BY <1>3, <1>5, <1>6, <2>2, KindsOfFiles DEF Touches
<1>8. KnowsStored(p)'
  <2>1. SUFFICES ASSUME r \notin shared PROVE KnowsStored(p)'
    BY <1>2, <1>4 DEF KnowsStored, GoesOn
  <2>2. \A i \in 1..(processes[p].saved + 1) : runs'[r].files[Artifacts[i]] = processes[p].session
    <3>1. TAKE i \in 1..(processes[p].saved + 1)
    <3>2. CASE i = processes[p].saved + 1
      BY <1>3, <1>5, <3>2
    <3>3. CASE i # processes[p].saved + 1
      <4>1. i \in 1..processes[p].saved /\ Artifacts[i] \in ToSet(Artifacts)
        BY <1>3, <3>3, Names
      <4> QED BY <1>3, <1>5, <1>6, <2>1, <4>1
    <3> QED BY <3>2, <3>3
  <2>3. processes'[p].run = r
    BY <1>4 DEF GoesOn
  <2> HIDE DEF r
  <2> QED BY <1>4, <1>5, <1>6, <2>1, <2>2, <2>3 DEF KnowsStored, IsFinal
<1> QED BY <1>1, <1>2, <1>4, <1>7, <1>8, WorkKeeps

LEMMA BeginTaskKeeps ==
    ASSUME ConsoleInv, NEW p \in Processes, BeginTask(p)
    PROVE ConsoleInv'
<1> DEFINE me == processes[p]
           session == IF me.resumes # None THEN me.session ELSE Session(0, "running")
<1>1. /\ processes \in [Processes -> ProcessRecords] /\ me \in ProcessRecords /\ ProcessInv(p)
      /\ runs \in [Runs -> RunRecords] /\ me.pc = "tasks" /\ me.todo # <<>> /\ me.todo \in Seq(ToSet(Tasks))
      /\ KnowsResumed(p) /\ me.worked \subseteq Runs /\ me.resumes \in Runs \cup {None} /\ me.entrypoint \in Scripts
      /\ UNCHANGED <<launcher, shared>> /\ Each(p)
  BY DEF BeginTask, ConsoleInv, ConsoleTypes, Each, StoredInv, ProcessRecords
<1>2. me.run = None /\ me.exit = None /\ Head(me.todo) \in ToSet(Tasks) /\ None \notin Runs /\ Head(me.todo) # None
  BY <1>1, OneTaskLess, Names DEF ProcessInv, Doing, Steps
<1>3. PICK r \in RunsFor(p) :
          /\ runs' = [runs EXCEPT ![r].task = Head(me.todo), ![r].entrypoint = me.entrypoint]
          /\ processes' = [processes EXCEPT ![p].pc = IF IsFinal(session) THEN "saving" ELSE "generating",
                             ![p].run = r, ![p].session = session, ![p].saved = 0, ![p].worked = @ \cup {r}]
  BY Zenon DEF BeginTask
\* A new run has no task yet, a resumed one has the task that is left.
<1>4. /\ r \in Runs /\ r \notin me.worked
      /\ me.resumes # None => r = me.resumes /\ HasTask(r) /\ runs[r].task = Head(me.todo) /\ me.worked = {}
      /\ me.resumes = None => ~HasTask(r)
  <2>1. CASE me.resumes # None
    <3>1. r = me.resumes /\ HasTask(r) /\ me.worked = {} /\ me.todo = << runs[r].task >>
      BY <1>1, <1>3, <2>1 DEF RunsFor, ProcessInv
    <3>2. runs[r].task = Head(me.todo)
      BY <3>1
    <3> QED BY <1>1, <2>1, <3>1, <3>2
  <2>2. CASE me.resumes = None
    <3>1. r \in Runs /\ ~HasTask(r)
      BY <1>3, <2>2, Names DEF RunsFor, HasTask
    <3> QED BY <1>1, <2>2, <3>1 DEF ProcessInv
  <2> QED BY <2>1, <2>2
<1>5. session \in Sessions /\ session \in Files
  <2>1. Session(0, "running") \in Sessions
    BY DEF Session, Sessions
  <2> QED BY <1>1, <1>3, <2>1 DEF KnowsResumed, Files
<1>6. /\ runs' \in [Runs -> RunRecords] /\ runs'[r].task = Head(me.todo)
      /\ \A x \in Runs \ {r} : runs'[x] = runs[x]
      /\ \A x \in Runs : /\ runs'[x].checkpoint = runs[x].checkpoint /\ runs'[x].files = runs[x].files
                         /\ runs'[x].temporary = runs[x].temporary
  BY <1>1, <1>2, <1>3, <1>4 DEF RunRecords
<1>7. \A x \in Runs : HasTask(x) => runs'[x].task = runs[x].task /\ HasTask(x)'
  BY <1>2, <1>4, <1>6 DEF HasTask
<1>8. HasTask(r)'
  BY <1>2, <1>6 DEF HasTask
<1>9. /\ processes' \in [Processes -> ProcessRecords]
      /\ \A q \in Processes \ {p} : processes'[q] = processes[q]
      /\ processes'[p].pc = (IF IsFinal(session) THEN "saving" ELSE "generating") /\ processes'[p].run = r
      /\ processes'[p].session = session /\ processes'[p].saved = 0 /\ processes'[p].worked = me.worked \cup {r}
      /\ processes'[p].todo = me.todo /\ processes'[p].resumes = me.resumes /\ processes'[p].exit = me.exit
      /\ processes'[p].passed = me.passed /\ processes'[p].total = me.total
  <2>1. PICK zero \in 0..Len(Artifacts) : zero = 0
    BY Names
  <2>2. processes' = [processes EXCEPT ![p].pc = IF IsFinal(session) THEN "saving" ELSE "generating",
                        ![p].run = r, ![p].session = session, ![p].saved = zero, ![p].worked = @ \cup {r}]
    BY <1>3, <2>1
  <2> QED BY <1>1, <1>4, <1>5, <2>1, <2>2 DEF ProcessRecords, Steps
<1>10. ConsoleTypes'
  BY <1>1, <1>6, <1>9 DEF ConsoleInv, ConsoleTypes
<1>11. StoredHasTask' /\ ListedHasTask' /\ WholeInv'
  BY <1>1, <1>6, <1>7 DEF ConsoleInv, ConsoleTypes, StoredHasTask, ListedHasTask, WholeInv
<1>12. Exclusive'
  <2>1. ASSUME NEW x \in Runs, p \in WorkersOn(x)', p \notin WorkersOn(x)
        PROVE  WorkersOn(x) = {}
    <3>1. x = r /\ me.resumes = None
      BY <1>1, <1>2, <1>4, <1>9, <2>1 DEF WorkersOn, IsAlive
    <3>2. ASSUME NEW q \in WorkersOn(r) PROVE FALSE
      <4>1. q \in Processes /\ Each(q) /\ processes[q].pc \notin {"unborn", "starting", "exited"}
            /\ (processes[q].run = r \/ processes[q].resumes = r)
        BY <3>2 DEF ConsoleInv, WorkersOn, IsAlive
      <4>2. HasTask(r)
        BY <1>2, <1>4, <4>1 DEF Each, ProcessInv
      <4> QED BY <1>4, <3>1, <4>2
    <3> QED BY <3>1, <3>2
  <2>2. Exclusive /\ shared \subseteq shared'
    BY <1>1 DEF ConsoleInv
  <2> QED BY <1>9, <2>1, <2>2, StaysExclusive
<1>13. \A q \in Processes \ {p} : Each(q)'
  <2>1. Leaves(p)
    BY <1>1, <1>6, <1>7, <1>9 DEF Leaves
  <2> QED BY <2>1, OthersKeep
<1>14. ProcessInv(p)'
  <2>1. \A x \in me.worked : x \in Runs /\ HasTask(x)'
    BY <1>1, <1>7 DEF ProcessInv
  <2>2. me.resumes # None => HasTask(me.resumes)' /\ runs'[me.resumes].task = runs[me.resumes].task
    <3>1. SUFFICES ASSUME me.resumes # None
                   PROVE  HasTask(me.resumes)' /\ runs'[me.resumes].task = runs[me.resumes].task
      OBVIOUS
    <3>2. me.resumes \in Runs /\ HasTask(me.resumes)
      BY <1>1, <3>1 DEF ProcessInv
    <3> QED BY <1>7, <1>9, <3>2
  <2> QED BY <1>1, <1>2, <1>4, <1>6, <1>8, <1>9, <2>1, <2>2 DEF ProcessInv, Doing, Steps
<1>15. StoredInv(p)'
  <2>1. KnowsResumed(p)' /\ (Doing(p)' => session \in Sessions)
    BY <1>5, <1>9 DEF KnowsResumed
  <2>2. KnowsStored(p)'
    <3>1. SUFFICES ASSUME r \notin shared PROVE KnowsStored(p)'
      BY <1>1, <1>9 DEF KnowsStored
    <3>2. CASE me.resumes # None
      <4>1. session = runs'[r].checkpoint
        BY <1>1, <1>3, <1>4, <1>6, <3>1, <3>2 DEF KnowsResumed
      <4> QED BY <1>9, <4>1 DEF KnowsStored, IsFinal
    <3>3. CASE me.resumes = None
      <4>1. ~IsFinal(session) /\ runs'[r].checkpoint = NoFile
        BY <1>3, <1>4, <1>6, <3>3 DEF Session, IsFinal, ConsoleInv, StoredHasTask
      <4> QED BY <1>9, <4>1 DEF KnowsStored, IsFinal
    <3> QED BY <3>2, <3>3
  <2> QED BY <1>9, <2>1, <2>2 DEF StoredInv
<1>16. Done(p) = me.worked /\ Done(p)' = me.worked
  BY <1>1, <1>2, <1>4, <1>9 DEF Done, None
<1>17. ClosedInv(p)'
  BY <1>1, <1>6, <1>16 DEF Each, ClosedInv, Closed, IsFinal
<1>18. CountInv(p)'
  <2>1. Alone(p)' => Alone(p)
    BY <1>1, <1>9 DEF Alone
  <2>2. NoneFailed(p)' <=> NoneFailed(p)
    BY <1>1, <1>6, <1>16 DEF NoneFailed
  <2>5. Asked(p)' = Asked(p)
    <3>1. me.resumes # None => runs'[me.resumes].task = runs[me.resumes].task
      BY <1>1, <1>7 DEF ProcessInv
    <3> QED BY <1>9, <3>1 DEF Asked
  <2>3. {runs[x].task : x \in Done(p)}' = {runs[x].task : x \in Done(p)}
    BY <1>1, <1>7, <1>16 DEF ProcessInv
  <2>4. CountInv(p)
    BY <1>1 DEF Each
  <2> QED BY <1>1, <1>9, <2>1, <2>2, <2>3, <2>4, <2>5 DEF CountInv
<1>19. Tells(p)'
  BY <1>2, <1>9 DEF Tells, None
<1> QED BY <1>10, <1>11, <1>12, <1>13, <1>14, <1>15, <1>17, <1>18, <1>19 DEF ConsoleInv, Each

LEMMA EndTaskKeeps ==
    ASSUME ConsoleInv, NEW p \in Processes, EndTask(p)
    PROVE ConsoleInv'
<1> DEFINE me == processes[p]
           r == me.run
           completed == me.session.status = "completed"
           todo == IF me.entrypoint = "worker_limit" /\ ~completed THEN <<>> ELSE Tail(me.todo)
<1>1. /\ processes \in [Processes -> ProcessRecords] /\ me \in ProcessRecords /\ Each(p)
      /\ r \in Runs /\ Doing(p) /\ r \in me.worked /\ me.exit = None /\ Done(p) = me.worked \ {r}
      /\ me.pc = "saving" /\ me.saved = 2 /\ UNCHANGED <<runs, launcher, shared>>
  BY Working, Names DEF EndTask, Doing, Steps
<1>2. /\ me.session \in Sessions /\ me.todo \in Seq(ToSet(Tasks)) /\ me.todo # <<>> /\ runs[r].task = Head(me.todo)
      /\ me.worked \subseteq Runs /\ None \notin Runs /\ me.passed \in Nat /\ me.total \in Nat
  BY <1>1, Names DEF Each, StoredInv, ProcessInv, ProcessRecords
<1>3. /\ todo \in Seq(ToSet(Tasks)) /\ Len(todo) \in Nat /\ Len(todo) < Len(me.todo) /\ Len(me.todo) \in Nat
      /\ completed => Len(todo) = Len(me.todo) - 1 /\ ToSet(me.todo) = {Head(me.todo)} \cup ToSet(todo)
  BY <1>2, OneTaskLess
<1>18. PICK left \in Nat, toDo \in Nat :
          /\ left = Len(todo) /\ toDo = Len(me.todo) /\ left < toDo
          /\ completed => left = toDo - 1
  BY <1>3
<1>4. processes' = [processes EXCEPT ![p].pc = "tasks", ![p].run = None, ![p].todo = todo,
                      ![p].passed = @ + (IF completed THEN 1 ELSE 0)]
  BY <1>1 DEF EndTask
<1> HIDE DEF todo
<1>5. /\ processes' \in [Processes -> ProcessRecords]
      /\ \A q \in Processes \ {p} : processes'[q] = processes[q]
      /\ processes'[p].pc = "tasks" /\ processes'[p].run = None /\ processes'[p].todo = todo
      /\ processes'[p].passed = me.passed + (IF completed THEN 1 ELSE 0) /\ processes'[p].total = me.total
      /\ processes'[p].worked = me.worked /\ processes'[p].resumes = me.resumes /\ processes'[p].exit = None
  <2>1. PICK n \in Nat : n = me.passed + (IF completed THEN 1 ELSE 0)
    BY <1>2
  <2>2. processes' = [processes EXCEPT ![p].pc = "tasks", ![p].run = None, ![p].todo = todo, ![p].passed = n]
    BY <1>4, <2>1
  <2> QED BY <1>1, <1>3, <2>1, <2>2 DEF ProcessRecords
<1>6. ConsoleTypes'
  BY <1>1, <1>5 DEF ConsoleInv, ConsoleTypes
<1>7. StoredHasTask' /\ ListedHasTask' /\ WholeInv'
  BY <1>1 DEF ConsoleInv, StoredHasTask, ListedHasTask, WholeInv, HasTask
<1>8. Exclusive'
  <2>1. \A x \in Runs : p \in WorkersOn(x)' => p \in WorkersOn(x)
    BY <1>1, <1>2, <1>5 DEF WorkersOn, IsAlive
  <2>2. Exclusive /\ shared \subseteq shared'
    BY <1>1 DEF ConsoleInv
  <2> QED BY <1>5, <2>1, <2>2, StaysExclusive
<1>9. \A q \in Processes \ {p} : Each(q)'
  BY <1>1, <1>5, OthersKeep DEF Leaves
<1>10. me.resumes # None => todo = <<>>
  <2>1. me.resumes # None => me.todo = << runs[me.resumes].task >>
    BY <1>1, <1>2 DEF Each, ProcessInv
  <2>5. left \in Nat /\ toDo \in Nat /\ left < toDo /\ left = Len(todo) /\ toDo = Len(me.todo)
    BY <1>18
  <2>2. me.resumes # None => Len(me.todo) = 1
    BY <2>1
  <2>6. me.resumes # None => toDo = 1
    BY <2>2, <2>5
  <2>7. left < toDo /\ toDo = 1 => left = 0
    BY <2>5
  <2>3. me.resumes # None => Len(todo) = 0
    BY <2>5, <2>6, <2>7, Zenon
  <2>4. todo \in Seq(ToSet(Tasks))
    BY <1>3
  <2> QED BY <2>3, <2>4
<1>11. ProcessInv(p)'
  BY <1>1, <1>2, <1>5, <1>10 DEF Each, ProcessInv, HasTask, Doing, Steps
<1>12. StoredInv(p)'
  BY <1>5, <1>10 DEF StoredInv, KnowsResumed, KnowsStored, Doing, Steps
<1>13. Done(p)' = Done(p) \cup {r} /\ Done(p)' = me.worked
  BY <1>1, <1>2, <1>5 DEF Done, None
<1>14. r \notin shared => Closed(r) /\ runs[r].checkpoint = me.session
  <2>1. r \notin shared => /\ IsFinal(me.session) /\ runs[r].checkpoint = me.session
                           /\ \A i \in 1..2 : runs[r].files[Artifacts[i]] = me.session
    BY <1>1 DEF Each, StoredInv, KnowsStored
  <2> QED BY <1>2, <2>1, Names DEF Closed
<1>15. ClosedInv(p)'
  BY <1>1, <1>13, <1>14 DEF Each, ClosedInv, Closed, IsFinal
<1>16. CountInv(p)'
  <2>1. SUFFICES ASSUME Alone(p)' PROVE CountInv(p)'
    BY DEF CountInv
  <2>2. Alone(p) /\ r \notin shared /\ Asked(p)' = Asked(p)
    BY <1>1, <1>5, <2>1 DEF Alone, Asked
  <2>3. /\ me.passed + Len(me.todo) <= me.total
        /\ NoneFailed(p) <=> me.passed + Len(me.todo) = me.total
        /\ NoneFailed(p) => {runs[x].task : x \in Done(p)} \cup ToSet(me.todo) = Asked(p)
    BY <1>1, <2>2 DEF Each, CountInv
  <2>4. NoneFailed(p)' <=> NoneFailed(p) /\ completed
    BY <1>1, <1>2, <1>13, <1>14, <2>2, KindsOfFiles DEF NoneFailed, Closed
  <2>5. {runs[x].task : x \in Done(p)}' = {runs[x].task : x \in Done(p)} \cup {Head(me.todo)}
    BY <1>1, <1>2, <1>13
  <2> HIDE DEF completed
  <2>6. CASE completed
    <3>1. Len(todo) = Len(me.todo) - 1 /\ ToSet(me.todo) = {Head(me.todo)} \cup ToSet(todo)
          /\ processes'[p].passed = me.passed + 1
      BY <1>3, <1>5, <2>6
    <3>2. processes'[p].passed + Len(processes'[p].todo) = me.passed + Len(me.todo)
      <4>1. left = toDo - 1 /\ processes'[p].passed = me.passed + 1 /\ processes'[p].todo = todo /\ me.passed \in Nat
        BY <1>2, <1>5, <1>18, <2>6, <3>1
      <4>2. (me.passed + 1) + left = me.passed + toDo
        BY <4>1
      <4> QED BY <1>18, <4>1, <4>2
    <3>3. {runs[x].task : x \in Done(p)}' \cup ToSet(processes'[p].todo)
              = {runs[x].task : x \in Done(p)} \cup ToSet(me.todo)
      <4> DEFINE before == {runs[x].task : x \in Done(p)}
                 after == {runs[x].task : x \in Done(p)}'
      <4>1. after = before \cup {Head(me.todo)} /\ processes'[p].todo = todo
        BY <1>5, <2>5
      <4> HIDE DEF before, after
      <4>2. after \cup ToSet(processes'[p].todo) = before \cup ToSet(me.todo)
        BY <3>1, <4>1
      <4> QED BY <4>2 DEF before, after
    <3> QED BY <1>5, <2>2, <2>3, <2>4, <2>6, <3>2, <3>3 DEF CountInv
  <2>7. CASE ~completed
    BY <1>2, <1>3, <1>5, <2>2, <2>3, <2>4, <2>5, <2>7 DEF CountInv
  <2> QED BY <2>6, <2>7
<1>17. Tells(p)'
  BY <1>5 DEF Tells, None
<1> QED BY <1>6, <1>7, <1>8, <1>9, <1>11, <1>12, <1>15, <1>16, <1>17 DEF ConsoleInv, Each

LEMMA ConsoleInvStep ==
    ASSUME ConsoleInv, [ConsoleNext]_console
    PROVE ConsoleInv'
<1>1. CASE \E p \in Processes : processes[p].pc = "unborn" /\ (Launch(p) \/ ResumeRun(p))
  BY <1>1, StartProcessKeeps
<1>2. ASSUME NEW p \in Processes, Work(p) \/ Die(p)
      PROVE  ConsoleInv'
  BY <1>2, LoadTasksKeeps, BeginTaskKeeps, AttemptKeeps, WriteTemporaryKeeps, RenameTemporaryKeeps, SaveArtifactKeeps,
     EndTaskKeeps, EndProcessKeeps DEF Work
<1> QED BY <1>1, <1>2, RefreshRunsKeeps DEF ConsoleNext

\* What CheckpointsAdvance says of a step and a run.
Advances(r) ==
    /\ runs'[r].checkpoint.state # "torn"
    /\ runs[r].checkpoint.state = "whole" =>
          /\ runs'[r].checkpoint.state = "whole"
          /\ runs'[r].checkpoint.attempts >= runs[r].checkpoint.attempts

LEMMA SameCheckpointAdvances ==
    ASSUME ConsoleInv, NEW r \in Runs \ shared, runs'[r].checkpoint = runs[r].checkpoint
    PROVE Advances(r)
<1>1. runs[r].checkpoint \in Files /\ runs[r].checkpoint # TornFile
  BY DEF ConsoleInv, ConsoleTypes, RunRecords, WholeInv
<1>2. runs[r].checkpoint.state = "whole" => runs[r].checkpoint.attempts \in Nat
  BY <1>1, KindsOfFiles
<1> QED BY <1>1, <1>2, KindsOfFiles DEF Advances

LEMMA CheckpointAdvances ==
    ASSUME ConsoleInv, NEW p \in Processes, WriteTemporary(p) \/ RenameTemporary(p), NEW r \in Runs \ shared
    PROVE Advances(r)
<1> DEFINE mine == processes[p].run
<1>1. /\ processes[p] \in ProcessRecords /\ Each(p) /\ Doing(p) /\ runs \in [Runs -> RunRecords] /\ mine \in Runs
      /\ processes[p].pc \in {"writing", "renaming"}
  BY Working DEF WriteTemporary, RenameTemporary, Doing, Steps
<1>2. processes[p].session \in Sessions /\ KnowsStored(p)
  BY <1>1 DEF Each, StoredInv
<1>3. CASE r # mine
  <2>1. runs'[r] = runs[r]
    BY <1>1, <1>3 DEF WriteTemporary, RenameTemporary
  <2> QED BY <2>1, SameCheckpointAdvances
<1>4. CASE r = mine /\ WriteTemporary(p)
  <2>1. runs[r].temporary = TornFile
    BY <1>2, <1>4, <1>1 DEF KnowsStored, WriteTemporary
  <2>2. TornFile.state # "absent"
    BY DEF TornFile
  <2>3. PICK content : runs' = [runs EXCEPT ![r].temporary = content]
    BY <1>4, <2>1, <2>2 DEF WriteTemporary
  <2>4. runs'[r].checkpoint = runs[r].checkpoint
    BY <1>1, <2>3 DEF RunRecords
  <2> QED BY <2>4, SameCheckpointAdvances
<1>5. CASE r = mine /\ RenameTemporary(p)
  <2>1. /\ runs[r].temporary = processes[p].session
        /\ runs[r].checkpoint \in Sessions \cup {NoFile} /\ runs[r].checkpoint.attempts <= processes[p].session.attempts
    BY <1>1, <1>2, <1>5 DEF KnowsStored, RenameTemporary
  <2>2. runs[r].temporary.state = "whole"
    BY <1>2, <2>1 DEF Sessions
  <2>3. runs' = [runs EXCEPT ![r].checkpoint = runs[r].temporary, ![r].temporary = NoFile]
    BY <1>5, <2>2 DEF RenameTemporary
  <2>4. runs'[r].checkpoint = processes[p].session
    BY <1>1, <2>1, <2>3 DEF RunRecords
  <2>5. processes[p].session.attempts \in Nat /\ runs[r].checkpoint.attempts \in Nat
    BY <1>2, <2>1, KindsOfFiles
  <2> QED BY <1>2, <2>1, <2>2, <2>4, <2>5 DEF Advances
<1> QED BY <1>3, <1>4, <1>5

Writes(p) == BeginTask(p) \/ Attempt(p) \/ WriteTemporary(p) \/ RenameTemporary(p) \/ SaveArtifact(p)

LEMMA WhoWrites ==
    ASSUME [ConsoleNext]_console
    PROVE shared \subseteq shared' /\ (UNCHANGED runs \/ \E p \in Processes : Writes(p))
<1>1. CASE RefreshRuns \/ PopScreen \/ RefreshRun \/ UNCHANGED console
  BY <1>1 DEF RefreshRuns, PopScreen, RefreshRun, console
<1>2. CASE \E p \in Processes : processes[p].pc = "unborn" /\ (Launch(p) \/ ResumeRun(p))
  <2>1. PICK p \in Processes : \E e, run : StartProcess(p, e, run)
    BY <1>2, Zenon DEF Launch, ResumeRun
  <2>2. UNCHANGED <<runs, recent, launcher, shared, deaths>>
    BY <2>1, Zenon DEF StartProcess
  <2> QED BY <2>2
<1>3. ASSUME NEW p \in Processes, Work(p) \/ Die(p)
      PROVE  shared \subseteq shared' /\ (UNCHANGED runs \/ \E q \in Processes : Writes(q))
  <2>1. CASE LoadTasks(p)
    BY <2>1 DEF LoadTasks
  <2>2. CASE EndTask(p) \/ EndProcess(p) \/ Die(p)
    BY <2>2 DEF EndTask, EndProcess, Die
  <2>3. CASE Writes(p)
    <3>1. UNCHANGED shared
      BY <2>3, Zenon DEF Writes, BeginTask, Attempt, WriteTemporary, RenameTemporary, SaveArtifact
    <3> QED BY <2>3, <3>1
  <2> QED BY <1>3, <2>1, <2>2, <2>3 DEF Work, Writes
<1> QED BY <1>1, <1>2, <1>3 DEF ConsoleNext

LEMMA CheckpointsAdvanceStep ==
    ASSUME ConsoleInv, [ConsoleNext]_console, NEW r \in Runs \ shared'
    PROVE Advances(r)
<1>1. r \in Runs \ shared /\ runs \in [Runs -> RunRecords]
  BY WhoWrites DEF ConsoleInv, ConsoleTypes
<1>2. CASE UNCHANGED runs
  BY <1>1, <1>2, SameCheckpointAdvances
<1>3. CASE \E p \in Processes : WriteTemporary(p) \/ RenameTemporary(p)
  BY <1>1, <1>3, CheckpointAdvances
<1>4. ASSUME NEW p \in Processes, BeginTask(p) \/ Attempt(p) \/ SaveArtifact(p)
      PROVE  Advances(r)
  <2>1. runs'[r].checkpoint = runs[r].checkpoint
    <3>1. CASE BeginTask(p)
      BY <1>1, <3>1 DEF BeginTask, RunRecords
    <3>2. CASE Attempt(p)
      BY <1>1, <3>2 DEF Attempt, RunRecords
    <3>3. CASE SaveArtifact(p)
      BY <1>1, <3>3 DEF SaveArtifact, RunRecords
    <3> QED BY <1>4, <3>1, <3>2, <3>3
  <2> QED BY <1>1, <2>1, SameCheckpointAdvances
<1> QED BY <1>2, <1>3, <1>4, WhoWrites DEF Writes

-----------------------------------------------------------------------------
(* Background jobs *)

RunningOf(j) == Event(j, "status", "running")
CompletedOf(j) == Event(j, "status", "completed")
FailedOf(j) == Event(j, "status", "failed")
ResultOf(j) == Event(j, "result", "result")
BackendErrorOf(j) == Event(j, "error", "backend_error")
OtherErrorOf(j) == Event(j, "error", "generation_failed")
StatusesOf(j) == {RunningOf(j), CompletedOf(j), FailedOf(j)}
ErrorsOf(j) == {BackendErrorOf(j), OtherErrorOf(j)}
EventsOf(j) == StatusesOf(j) \cup ErrorsOf(j) \cup {ResultOf(j)}
Lines == {Torn} \cup {Created(j) : j \in JobIds} \cup UNION {EventsOf(j) : j \in JobIds}
Stored == ToSet(log)

\* What a task may have written when it is at a step.
Written(j, step) ==
    IF step \in {"none", "begin"} THEN {}
    ELSE IF step \in {"controller", "result"} THEN {RunningOf(j)}
    ELSE IF step = "completed" THEN {RunningOf(j), ResultOf(j)}
    ELSE IF step = "error" THEN {RunningOf(j), ResultOf(j), CompletedOf(j)}
    ELSE IF step = "failed" THEN {RunningOf(j), ResultOf(j), CompletedOf(j)} \cup ErrorsOf(j)
    ELSE EventsOf(j)

JobTypes ==
    /\ log \in Seq(Lines)
    /\ task \in [JobIds -> {"none", "begin", "controller", "result", "completed", "error", "failed", "ended"}]
    /\ outcome \in [JobIds -> Outcomes \cup {"none"}]
    /\ failures \in [JobIds -> Nat]
\* Nothing is added behind a line that was cut.
TornInv == Torn \in Stored => log # <<>> /\ Last(log) = Torn
TaskInv(j) ==
    /\ Stored \cap EventsOf(j) \subseteq Written(j, task[j])
    /\ task[j] \in {"none", "begin", "controller"} => outcome[j] = "none"
    /\ task[j] \in {"result", "completed"} => outcome[j] = "result"
    /\ task[j] \in {"error", "failed"} /\ CompletedOf(j) \in Stored => failures[j] > 0
    /\ Torn \notin Stored =>
          /\ task[j] \notin {"none", "ended"} => Created(j) \in Stored
          /\ task[j] = "completed" => ResultOf(j) \in Stored
          /\ task[j] = "failed" => Stored \cap ErrorsOf(j) # {}
LogInv(j) ==
    /\ CompletedOf(j) \in Stored => /\ ResultOf(j) \in Stored /\ outcome[j] = "result"
                                    /\ Stored \cap ErrorsOf(j) # {} => failures[j] > 0
    /\ FailedOf(j) \in Stored => Stored \cap ErrorsOf(j) # {}
    /\ BackendErrorOf(j) \in Stored => outcome[j] = "RuntimeError"
\* The first status is "running", and "failed" follows every other.
OrderInv(j) ==
    \A i, k \in DOMAIN log : log[k] \in StatusesOf(j) =>
        /\ log[i] = RunningOf(j) => i <= k
        /\ log[i] = CompletedOf(j) => k <= i \/ log[k] = FailedOf(j)
        /\ log[i] = FailedOf(j) => k <= i
JobsInv == JobTypes /\ TornInv /\ \A j \in JobIds : TaskInv(j) /\ LogInv(j) /\ OrderInv(j)

LEMMA LinesDiffer ==
    ASSUME NEW j
    PROVE /\ \A e \in EventsOf(j) : e.type = "job_event" /\ e.job = j /\ e # Torn /\ (\A q : e # Created(q))
          /\ \A q : q # j => EventsOf(q) \cap EventsOf(j) = {}
          /\ \A e \in StatusesOf(j) : e.event = "status" /\ e \in EventsOf(j)
          /\ \A e \in ErrorsOf(j) : e.event = "error" /\ e \in EventsOf(j)
          /\ ResultOf(j).event = "result" /\ ResultOf(j) \in EventsOf(j) /\ ResultOf(j) \notin ErrorsOf(j)
          /\ StatusesOf(j) \cap ErrorsOf(j) = {} /\ ResultOf(j) \notin StatusesOf(j)
          /\ RunningOf(j).payload = "running" /\ CompletedOf(j).payload = "completed" /\ FailedOf(j).payload = "failed"
          /\ RunningOf(j) # CompletedOf(j) /\ RunningOf(j) # FailedOf(j) /\ CompletedOf(j) # FailedOf(j)
          /\ BackendErrorOf(j).payload = "backend_error" /\ OtherErrorOf(j).payload = "generation_failed"
          /\ Created(j).type = "job_created" /\ Created(j).status = "queued" /\ Created(j) # Torn /\ Torn.type = "torn"
          /\ BackendErrorOf(j) # OtherErrorOf(j)
<1>1. /\ \A e \in EventsOf(j) : e.type = "job_event" /\ e.job = j
      /\ Created(j).type = "job_created" /\ Created(j).status = "queued" /\ Torn.type = "torn"
      /\ RunningOf(j).payload = "running" /\ CompletedOf(j).payload = "completed" /\ FailedOf(j).payload = "failed"
      /\ BackendErrorOf(j).payload = "backend_error" /\ OtherErrorOf(j).payload = "generation_failed"
      /\ \A e \in StatusesOf(j) : e.event = "status" /\ e \in EventsOf(j)
      /\ \A e \in ErrorsOf(j) : e.event = "error" /\ e \in EventsOf(j)
      /\ ResultOf(j).event = "result" /\ ResultOf(j) \in EventsOf(j)
  BY DEF EventsOf, StatusesOf, ErrorsOf, RunningOf, CompletedOf, FailedOf, ResultOf, BackendErrorOf, OtherErrorOf,
         Event, Created, Torn
<1>2. \A q : Created(q).type = "job_created"
  BY DEF Created
<1>3. \A q : \A e \in EventsOf(q) : e.job = q
  BY DEF EventsOf, StatusesOf, ErrorsOf, RunningOf, CompletedOf, FailedOf, ResultOf, BackendErrorOf, OtherErrorOf, Event
<1> QED BY <1>1, <1>2, <1>3

LEMMA AppendedLine ==
    ASSUME JobTypes, TornInv, NEW line \in Lines
    PROVE /\ Torn \in Stored => Appended(line) = log
          /\ Torn \notin Stored =>
                /\ Appended(line) = Append(log, line) /\ Appended(line) \in Seq(Lines)
                /\ ToSet(Appended(line)) = Stored \cup {line}
                /\ Appended(line) # <<>> /\ Last(Appended(line)) = line
                /\ DOMAIN Appended(line) = DOMAIN log \cup {Len(log) + 1}
                /\ \A i \in DOMAIN log : i \in Nat /\ i <= Len(log) /\ Appended(line)[i] = log[i]
                /\ Appended(line)[Len(log) + 1] = line /\ Len(log) \in Nat
<1>1. log \in Seq(Lines)
  BY DEF JobTypes
<1>2. Torn \in Stored => Appended(line) = log
  BY DEF TornInv, Appended
<1>3. SUFFICES ASSUME Torn \notin Stored
               PROVE  /\ Appended(line) = Append(log, line) /\ Appended(line) \in Seq(Lines)
                      /\ ToSet(Appended(line)) = Stored \cup {line}
                      /\ Appended(line) # <<>> /\ Last(Appended(line)) = line
                      /\ DOMAIN Appended(line) = DOMAIN log \cup {Len(log) + 1}
                      /\ \A i \in DOMAIN log : i \in Nat /\ i <= Len(log) /\ Appended(line)[i] = log[i]
                      /\ Appended(line)[Len(log) + 1] = line /\ Len(log) \in Nat
  BY <1>2
<1>4. log # <<>> => Last(log) \in Stored
  BY <1>1 DEF Stored, ToSet, Last
<1>5. Appended(line) = Append(log, line)
  BY <1>3, <1>4 DEF Appended
<1>6. /\ Append(log, line) \in Seq(Lines) /\ Append(log, line) # <<>> /\ Last(Append(log, line)) = line
      /\ DOMAIN Append(log, line) = DOMAIN log \cup {Len(log) + 1} /\ Len(log) \in Nat
      /\ \A i \in DOMAIN log : i \in Nat /\ i <= Len(log) /\ Append(log, line)[i] = log[i]
      /\ Append(log, line)[Len(log) + 1] = line
  BY <1>1 DEF Last
<1>7. ToSet(Append(log, line)) = Stored \cup {line}
  BY <1>6 DEF Stored, ToSet
<1> QED BY <1>5, <1>6, <1>7

LEMMA JobsInvInit ==
    ASSUME JobsInit
    PROVE JobsInv
<1>1. Stored = {} /\ log = <<>>
  BY DEF JobsInit, Stored, ToSet
<1>2. JobTypes
  BY DEF JobsInit, JobTypes
<1>3. \A j \in JobIds : task[j] = "none" /\ outcome[j] = "none"
  BY DEF JobsInit
<1> QED BY <1>1, <1>2, <1>3 DEF JobsInv, TornInv, TaskInv, LogInv, OrderInv

\* What happens to a line that is not of a job leaves the job as it was.
LEMMA OtherJobsKeep ==
    ASSUME JobsInv, NEW line \in Lines, log' = log \/ log' = Appended(line), NEW q \in JobIds, line \notin EventsOf(q),
           task'[q] = task[q], outcome'[q] = outcome[q], failures'[q] = failures[q]
    PROVE TaskInv(q)' /\ LogInv(q)' /\ OrderInv(q)'
<1>1. JobTypes /\ TornInv /\ TaskInv(q) /\ LogInv(q) /\ OrderInv(q)
  BY DEF JobsInv
<1>2. /\ Stored \subseteq Stored' /\ Stored' \cap EventsOf(q) = Stored \cap EventsOf(q)
      /\ \A i \in DOMAIN log' : log'[i] \in EventsOf(q) => i \in DOMAIN log /\ log[i] = log'[i]
  BY <1>1, AppendedLine DEF Stored
<1>3. StatusesOf(q) \subseteq EventsOf(q) /\ ErrorsOf(q) \subseteq EventsOf(q) /\ ResultOf(q) \in EventsOf(q)
      /\ BackendErrorOf(q) \in EventsOf(q) /\ RunningOf(q) \in EventsOf(q) /\ CompletedOf(q) \in EventsOf(q)
      /\ FailedOf(q) \in EventsOf(q)
  BY DEF EventsOf, StatusesOf, ErrorsOf
<1>4. TaskInv(q)'
  BY <1>1, <1>2, <1>3 DEF TaskInv
<1>5. LogInv(q)'
  BY <1>1, <1>2, <1>3 DEF LogInv
<1>6. OrderInv(q)'
  BY <1>1, <1>2, <1>3 DEF OrderInv
<1> QED BY <1>4, <1>5, <1>6

LEMMA TornStays ==
    ASSUME JobsInv, NEW line \in Lines, log' = log \/ log' = Appended(line)
    PROVE log' \in Seq(Lines) /\ TornInv'
<1>1. JobTypes /\ TornInv
  BY DEF JobsInv
<1>2. CASE log' = log
  BY <1>1, <1>2 DEF JobTypes, TornInv, Stored
<1>3. CASE log' = Appended(line) /\ Torn \in Stored
  BY <1>1, <1>3, AppendedLine DEF JobTypes, TornInv, Stored
<1>4. CASE log' = Appended(line) /\ Torn \notin Stored
  <2>1. log' \in Seq(Lines) /\ Stored' = Stored \cup {line} /\ log' # <<>> /\ Last(log') = line
    BY <1>1, <1>4, AppendedLine DEF Stored
  <2> QED BY <1>4, <2>1 DEF TornInv
<1> QED BY <1>2, <1>3, <1>4

TaskSteps == {"none", "begin", "controller", "result", "completed", "error", "failed", "ended"}

LEMMA OneJobKeeps ==
    ASSUME JobsInv, NEW j \in JobIds, NEW line \in Lines, log' = log \/ log' = Appended(line),
           \A q \in JobIds \ {j} : /\ line \notin EventsOf(q) /\ task'[q] = task[q]
                                   /\ outcome'[q] = outcome[q] /\ failures'[q] = failures[q],
           task' \in [JobIds -> TaskSteps], outcome' \in [JobIds -> Outcomes \cup {"none"}],
           failures' \in [JobIds -> Nat],
           TaskInv(j)', LogInv(j)', OrderInv(j)'
    PROVE JobsInv'
<1>1. JobTypes' /\ TornInv'
  BY TornStays DEF JobTypes, TaskSteps
<1>2. \A q \in JobIds \ {j} : TaskInv(q)' /\ LogInv(q)' /\ OrderInv(q)'
  BY OtherJobsKeep
<1> QED BY <1>1, <1>2 DEF JobsInv

LEMMA JobFacts ==
    ASSUME JobsInv, NEW j \in JobIds
    PROVE /\ task \in [JobIds -> TaskSteps] /\ outcome \in [JobIds -> Outcomes \cup {"none"}] /\ log \in Seq(Lines)
          /\ failures \in [JobIds -> Nat]
          /\ TaskInv(j) /\ LogInv(j) /\ OrderInv(j)
          /\ \A line \in EventsOf(j) : line \in Lines /\ \A q \in JobIds \ {j} : line \notin EventsOf(q)
          /\ Created(j) \in Lines /\ \A q \in JobIds : Created(j) \notin EventsOf(q)
          /\ Torn \in Lines /\ \A q \in JobIds : Torn \notin EventsOf(q)
<1>1. \A line \in EventsOf(j) : line \in Lines /\ \A q \in JobIds \ {j} : line \notin EventsOf(q)
  BY LinesDiffer DEF Lines
<1>2. /\ Created(j) \in Lines /\ \A q \in JobIds : Created(j) \notin EventsOf(q)
      /\ Torn \in Lines /\ \A q \in JobIds : Torn \notin EventsOf(q)
  BY LinesDiffer DEF Lines
<1> QED BY <1>1, <1>2 DEF JobsInv, JobTypes, TaskSteps

\* How often the appends of a job have raised: once more, or as often as before.
Counted(j) == failures' = failures \/ failures' = [failures EXCEPT ![j] = @ + 1]

LEMMA CountedOnce ==
    ASSUME JobsInv, NEW j \in JobIds, Counted(j)
    PROVE /\ failures' \in [JobIds -> Nat] /\ failures[j] \in Nat /\ failures'[j] \in Nat /\ failures'[j] >= failures[j]
          /\ \A q \in JobIds \ {j} : failures'[q] = failures[q]
          /\ failures' = [failures EXCEPT ![j] = @ + 1] => failures'[j] > 0
BY JobFacts DEF Counted

\* A task goes on and the file stays as it is, or gets a line that is cut.
LEMMA MoveKeeps ==
    ASSUME JobsInv, NEW j \in JobIds, log' = log \/ log' = Appended(Torn), UNCHANGED outcome, Counted(j),
           NEW next \in {"controller", "completed", "error", "failed", "ended"},
           task' = [task EXCEPT ![j] = next], task[j] \notin {"none", "ended"},
           Written(j, task[j]) \subseteq Written(j, next),
           Torn \in Stored \/ next \in {"error", "ended"},
           next = "controller" => outcome[j] = "none", next = "completed" => outcome[j] = "result",
           next \in {"error", "failed"} => failures'[j] > 0 \/ task[j] = "error"
    PROVE JobsInv'
<1>1. /\ task \in [JobIds -> TaskSteps] /\ outcome \in [JobIds -> Outcomes \cup {"none"}]
      /\ TaskInv(j) /\ LogInv(j) /\ OrderInv(j) /\ Torn \in Lines /\ \A q \in JobIds : Torn \notin EventsOf(q)
  BY JobFacts
<1>2. /\ task' \in [JobIds -> TaskSteps] /\ task'[j] = next
      /\ \A q \in JobIds \ {j} : task'[q] = task[q]
  BY <1>1 DEF TaskSteps
<1>3. /\ failures' \in [JobIds -> Nat] /\ failures[j] \in Nat /\ failures'[j] \in Nat /\ failures'[j] >= failures[j]
      /\ \A q \in JobIds \ {j} : failures'[q] = failures[q]
  BY CountedOnce
<1>4. /\ Stored \subseteq Stored' /\ Stored' \cap EventsOf(j) = Stored \cap EventsOf(j)
      /\ \A i \in DOMAIN log' : log'[i] \in EventsOf(j) => i \in DOMAIN log /\ log[i] = log'[i]
      /\ Torn \notin Stored' => Stored' = Stored
  <2>1. JobTypes /\ TornInv
    BY DEF JobsInv
  <2> QED BY <1>1, <2>1, AppendedLine DEF Stored
<1>5. StatusesOf(j) \subseteq EventsOf(j) /\ ErrorsOf(j) \subseteq EventsOf(j) /\ ResultOf(j) \in EventsOf(j)
      /\ BackendErrorOf(j) \in EventsOf(j) /\ RunningOf(j) \in EventsOf(j) /\ CompletedOf(j) \in EventsOf(j)
      /\ FailedOf(j) \in EventsOf(j)
  BY DEF EventsOf, StatusesOf, ErrorsOf
<1>6. TaskInv(j)'
  <2>1. Stored' \cap EventsOf(j) \subseteq Written(j, next)
    BY <1>1, <1>4 DEF TaskInv
  <2>2. next \in {"error", "failed"} /\ CompletedOf(j) \in Stored' => failures'[j] > 0
    BY <1>1, <1>3, <1>4, <1>5 DEF TaskInv
  <2>3. Torn \notin Stored' => /\ next \in {"error", "ended"}
                               /\ next = "error" => Created(j) \in Stored'
    BY <1>1, <1>4 DEF TaskInv
  <2> QED BY <1>2, <2>1, <2>2, <2>3 DEF TaskInv
<1>7. LogInv(j)'
  BY <1>1, <1>3, <1>4, <1>5 DEF LogInv
<1>8. OrderInv(j)'
  BY <1>1, <1>4, <1>5 DEF OrderInv
<1> QED BY <1>1, <1>2, <1>3, <1>6, <1>7, <1>8, OneJobKeeps

\* A line is written, and the task goes on or sees the append raise.
LEMMA WriteKeeps ==
    ASSUME JobsInv, NEW j \in JobIds, Torn \notin Stored, NEW line \in EventsOf(j), log' = Appended(line),
           UNCHANGED outcome, Counted(j), NEW next \in {"controller", "completed", "error", "failed", "ended"},
           task' = [task EXCEPT ![j] = next], task[j] \notin {"none", "ended"},
           Written(j, task[j]) \cup {line} \subseteq Written(j, next),
           next = "controller" => outcome[j] = "none",
           next = "completed" => outcome[j] = "result" /\ line = ResultOf(j),
           next = "failed" => line \in ErrorsOf(j), next = "error" => failures'[j] > 0,
           line = RunningOf(j) => task[j] = "begin", line = CompletedOf(j) => task[j] = "completed",
           line = FailedOf(j) => task[j] = "failed", line \in ErrorsOf(j) => task[j] = "error",
           line = BackendErrorOf(j) => outcome[j] = "RuntimeError"
    PROVE JobsInv'
<1>1. /\ task \in [JobIds -> TaskSteps] /\ outcome \in [JobIds -> Outcomes \cup {"none"}]
      /\ TaskInv(j) /\ LogInv(j) /\ OrderInv(j) /\ line \in Lines /\ \A q \in JobIds \ {j} : line \notin EventsOf(q)
  BY JobFacts
<1>2. /\ task' \in [JobIds -> TaskSteps] /\ task'[j] = next
      /\ \A q \in JobIds \ {j} : task'[q] = task[q]
  BY <1>1 DEF TaskSteps
<1>3. /\ Stored' = Stored \cup {line} /\ line # Torn
      /\ DOMAIN log' = DOMAIN log \cup {Len(log) + 1} /\ log'[Len(log) + 1] = line /\ Len(log) \in Nat
      /\ \A i \in DOMAIN log : i \in Nat /\ i <= Len(log) /\ log'[i] = log[i]
  <2>1. line # Torn
    BY LinesDiffer
  <2>2. JobTypes /\ TornInv
    BY DEF JobsInv
  <2> QED BY <1>1, <2>1, <2>2, AppendedLine DEF Stored
<1>8. /\ failures' \in [JobIds -> Nat] /\ failures[j] \in Nat /\ failures'[j] \in Nat /\ failures'[j] >= failures[j]
      /\ \A q \in JobIds \ {j} : failures'[q] = failures[q]
  BY CountedOnce
<1>4. TaskInv(j)'
  <2>1. Stored' \cap EventsOf(j) \subseteq Written(j, next)
    BY <1>1, <1>3 DEF TaskInv
  <2>2. next = "failed" /\ CompletedOf(j) \in Stored' => failures'[j] > 0
    <3>1. HAVE next = "failed" /\ CompletedOf(j) \in Stored'
    <3>2. line \in ErrorsOf(j) /\ CompletedOf(j) \notin ErrorsOf(j)
      BY <3>1, LinesDiffer DEF StatusesOf
    <3>3. task[j] = "error" /\ CompletedOf(j) \in Stored
      BY <1>3, <3>1, <3>2
    <3> QED BY <1>1, <1>8, <3>3 DEF TaskInv
  <2>3. Created(j) \in Stored'
    BY <1>1, <1>3 DEF TaskInv
  <2> QED BY <1>2, <1>3, <2>1, <2>2, <2>3 DEF TaskInv
<1>5. /\ task[j] = "begin" => Stored \cap EventsOf(j) = {}
      /\ task[j] = "completed" => CompletedOf(j) \notin Stored /\ Stored \cap ErrorsOf(j) = {}
      /\ task[j] \in {"completed", "error", "failed"} => FailedOf(j) \notin Stored
  BY <1>1, LinesDiffer DEF TaskInv, Written, EventsOf, StatusesOf, ErrorsOf
<1>6. LogInv(j)'
  <2>1. CompletedOf(j) \in Stored' => /\ ResultOf(j) \in Stored' /\ outcome[j] = "result"
                                      /\ Stored' \cap ErrorsOf(j) # {} => failures'[j] > 0
    <3>1. CASE line = CompletedOf(j)
      <4>1. task[j] = "completed" /\ ResultOf(j) \in Stored /\ outcome[j] = "result"
        BY <1>1, <3>1 DEF TaskInv
      <4>2. Stored' \cap ErrorsOf(j) = {}
        BY <1>3, <1>5, <3>1, <4>1, LinesDiffer DEF StatusesOf
      <4> QED BY <1>3, <4>1, <4>2
    <3>2. CASE line # CompletedOf(j)
      <4>1. HAVE CompletedOf(j) \in Stored'
      <4>2. CompletedOf(j) \in Stored
        BY <1>3, <3>2, <4>1
      <4>3. Stored' \cap ErrorsOf(j) # {} => Stored \cap ErrorsOf(j) # {} \/ task[j] = "error"
        BY <1>3
      <4>4. ResultOf(j) \in Stored /\ outcome[j] = "result" /\ (Stored \cap ErrorsOf(j) # {} => failures[j] > 0)
        BY <1>1, <4>2 DEF LogInv
      <4>5. task[j] = "error" => failures[j] > 0
        BY <1>1, <4>2 DEF TaskInv
      <4>6. Stored' \cap ErrorsOf(j) # {} => failures'[j] > 0
        BY <1>8, <4>3, <4>4, <4>5
      <4> QED BY <1>3, <4>4, <4>6
    <3> QED BY <3>1, <3>2
  <2>2. FailedOf(j) \in Stored' => Stored' \cap ErrorsOf(j) # {}
    BY <1>1, <1>3, LinesDiffer DEF TaskInv, LogInv
  <2>3. BackendErrorOf(j) \in Stored' => outcome[j] = "RuntimeError"
    BY <1>1, <1>3 DEF LogInv
  <2> QED BY <2>1, <2>2, <2>3 DEF LogInv
<1>7. OrderInv(j)'
  <2>1. \A i \in DOMAIN log : log[i] \in Stored
    BY DEF Stored, ToSet
  <2>2. SUFFICES ASSUME NEW i \in DOMAIN log', NEW k \in DOMAIN log', log'[k] \in StatusesOf(j)
                 PROVE  /\ log'[i] = RunningOf(j) => i <= k
                        /\ log'[i] = CompletedOf(j) => k <= i \/ log'[k] = FailedOf(j)
                        /\ log'[i] = FailedOf(j) => k <= i
    BY DEF OrderInv
  <2>3. CASE i \in DOMAIN log /\ k \in DOMAIN log
    BY <1>1, <1>3, <2>2, <2>3 DEF OrderInv
  <2>4. CASE i = Len(log) + 1 /\ k = Len(log) + 1
    BY <1>3, <2>4
  <2>5. CASE i = Len(log) + 1 /\ k \in DOMAIN log
    <3>1. log[k] \in Stored \cap EventsOf(j) /\ k <= i
      BY <1>3, <2>1, <2>2, <2>5, LinesDiffer
    <3> QED BY <1>3, <1>5, <2>5, <3>1
  <2>6. CASE i \in DOMAIN log /\ k = Len(log) + 1
    <3>1. log'[i] \in Stored /\ i <= k /\ line \in StatusesOf(j) /\ log'[k] = line
      BY <1>3, <2>1, <2>2, <2>6
    <3>2. log'[i] # FailedOf(j) /\ (log'[i] = CompletedOf(j) => line = FailedOf(j))
      BY <1>5, <3>1, LinesDiffer DEF StatusesOf
    <3> QED BY <3>1, <3>2, LinesDiffer
  <2> QED BY <1>3, <2>3, <2>4, <2>5, <2>6
<1> QED BY <1>1, <1>2, <1>4, <1>6, <1>7, <1>8, OneJobKeeps

\* Report writes its line, finds the file cut, or raises with the line written,
\* cut or left out.
LEMMA ReportKeeps ==
    ASSUME JobsInv, NEW j \in JobIds, NEW line \in EventsOf(j), NEW at,
           NEW next \in {"controller", "completed", "failed", "ended"}, NEW otherwise \in {"error", "ended"},
           Report(j, at, line, next, otherwise), at \notin {"none", "ended"},
           Written(j, at) \cup {line} \subseteq Written(j, next),
           Written(j, at) \cup {line} \subseteq Written(j, otherwise),
           next = "controller" => outcome[j] = "none",
           next = "completed" => outcome[j] = "result" /\ line = ResultOf(j),
           next = "failed" => line \in ErrorsOf(j),
           line = RunningOf(j) => at = "begin", line = CompletedOf(j) => at = "completed",
           line = FailedOf(j) => at = "failed", line \in ErrorsOf(j) => at = "error",
           line = BackendErrorOf(j) => outcome[j] = "RuntimeError"
    PROVE JobsInv'
<1>1. task[j] = at /\ UNCHANGED outcome
  BY DEF Report
<1>0. Torn \in Stored => Appended(line) = log
  BY JobFacts, AppendedLine DEF JobsInv
<1>2. CASE log' = Appended(line) /\ task' = [task EXCEPT ![j] = next] /\ failures' = failures
  <2>1. Counted(j)
    BY <1>2 DEF Counted
  <2>2. CASE Torn \notin Stored
    BY <1>1, <1>2, <2>1, <2>2, WriteKeeps
  <2>3. CASE Torn \in Stored
    <3>1. next = "failed" => task[j] = "error"
      BY <1>1
    <3> QED BY <1>0, <1>1, <1>2, <2>1, <2>3, <3>1, MoveKeeps
  <2> QED BY <2>2, <2>3
<1>3. CASE /\ log' \in {log, Appended(line), Appended(Torn)} /\ task' = [task EXCEPT ![j] = otherwise]
           /\ failures' = [failures EXCEPT ![j] = @ + 1]
  <2>1. Counted(j)
    BY <1>3 DEF Counted
  <2>2. failures'[j] > 0
    BY <1>3, <2>1, CountedOnce
  <2>3. CASE log' = Appended(line) /\ Torn \notin Stored
    BY <1>1, <1>3, <2>1, <2>2, <2>3, WriteKeeps
  <2>4. CASE log' = log \/ log' = Appended(Torn)
    BY <1>1, <1>3, <2>1, <2>2, <2>4, MoveKeeps
  <2> QED BY <1>0, <1>3, <2>3, <2>4
<1> QED BY <1>2, <1>3 DEF Report

LEMMA ReportsKeep ==
    ASSUME JobsInv, NEW j \in JobIds,
           ReportRunning(j) \/ ReportResult(j) \/ ReportCompleted(j) \/ ReportError(j) \/ ReportFailed(j)
    PROVE JobsInv'
<1>1. TaskInv(j)
  BY JobFacts
<1>2. CASE ReportRunning(j)
  <2>1. task[j] = "begin" /\ outcome[j] = "none"
    BY <1>1, <1>2 DEF ReportRunning, Report, TaskInv
  <2>2. Report(j, "begin", RunningOf(j), "controller", "ended") /\ RunningOf(j) \in EventsOf(j)
    BY <1>2, LinesDiffer DEF ReportRunning, RunningOf, EventsOf, StatusesOf
  <2>3. Written(j, "begin") \cup {RunningOf(j)} \subseteq Written(j, "controller")
        /\ Written(j, "begin") \cup {RunningOf(j)} \subseteq Written(j, "ended")
    BY DEF Written, EventsOf, StatusesOf
  <2>4. RunningOf(j) \notin {ResultOf(j), CompletedOf(j), FailedOf(j), BackendErrorOf(j), OtherErrorOf(j)}
    BY LinesDiffer DEF StatusesOf, ErrorsOf
  <2> QED BY <2>1, <2>2, <2>3, <2>4, ReportKeeps DEF ErrorsOf
<1>3. CASE ReportResult(j)
  <2>1. task[j] = "result" /\ outcome[j] = "result"
    BY <1>1, <1>3 DEF ReportResult, Report, TaskInv
  <2>2. Report(j, "result", ResultOf(j), "completed", "error") /\ ResultOf(j) \in EventsOf(j)
    BY <1>3, <2>1, LinesDiffer DEF ReportResult, ResultOf
  <2>3. Written(j, "result") \cup {ResultOf(j)} \subseteq Written(j, "completed")
        /\ Written(j, "result") \cup {ResultOf(j)} \subseteq Written(j, "error")
    BY DEF Written
  <2>4. ResultOf(j) \notin {RunningOf(j), CompletedOf(j), FailedOf(j), BackendErrorOf(j), OtherErrorOf(j)}
    BY LinesDiffer DEF StatusesOf, ErrorsOf
  <2> QED BY <2>1, <2>2, <2>3, <2>4, ReportKeeps DEF ErrorsOf
<1>4. CASE ReportCompleted(j)
  <2>2. Report(j, "completed", CompletedOf(j), "ended", "error") /\ CompletedOf(j) \in EventsOf(j)
    BY <1>4, LinesDiffer DEF ReportCompleted, CompletedOf, EventsOf, StatusesOf
  <2>3. Written(j, "completed") \cup {CompletedOf(j)} \subseteq Written(j, "ended")
        /\ Written(j, "completed") \cup {CompletedOf(j)} \subseteq Written(j, "error")
    BY DEF Written, EventsOf, StatusesOf
  <2>4. CompletedOf(j) \notin {RunningOf(j), ResultOf(j), FailedOf(j), BackendErrorOf(j), OtherErrorOf(j)}
    BY LinesDiffer DEF StatusesOf, ErrorsOf
  <2> QED BY <2>2, <2>3, <2>4, ReportKeeps DEF ErrorsOf
<1>5. CASE ReportError(j)
  <2>1. PICK line \in ErrorsOf(j) : line = Event(j, "error", ErrorOf(outcome[j]))
                                    /\ (line = BackendErrorOf(j) => outcome[j] = "RuntimeError")
    <3>1. CASE outcome[j] = "RuntimeError"
      BY <3>1 DEF ErrorOf, ErrorsOf, BackendErrorOf
    <3>2. CASE outcome[j] # "RuntimeError"
      <4>1. Event(j, "error", ErrorOf(outcome[j])) = OtherErrorOf(j)
        BY <3>2 DEF ErrorOf, OtherErrorOf
      <4> QED BY <4>1, LinesDiffer DEF ErrorsOf
    <3> QED BY <3>1, <3>2
  <2>2. Report(j, "error", line, "failed", "ended") /\ line \in EventsOf(j)
    BY <1>5, <2>1, LinesDiffer DEF ReportError
  <2>3. Written(j, "error") \cup {line} \subseteq Written(j, "failed")
        /\ Written(j, "error") \cup {line} \subseteq Written(j, "ended")
    BY <2>1 DEF Written, EventsOf, StatusesOf
  <2>4. line \notin {RunningOf(j), ResultOf(j), CompletedOf(j), FailedOf(j)}
    BY <2>1, LinesDiffer DEF StatusesOf
  <2> QED BY <2>1, <2>2, <2>3, <2>4, ReportKeeps
<1>6. CASE ReportFailed(j)
  <2>2. Report(j, "failed", FailedOf(j), "ended", "ended") /\ FailedOf(j) \in EventsOf(j)
    BY <1>6, LinesDiffer DEF ReportFailed, FailedOf, EventsOf, StatusesOf
  <2>3. Written(j, "failed") \cup {FailedOf(j)} \subseteq Written(j, "ended")
    BY DEF Written, EventsOf, StatusesOf
  <2>4. FailedOf(j) \notin {RunningOf(j), ResultOf(j), CompletedOf(j), BackendErrorOf(j), OtherErrorOf(j)}
    BY LinesDiffer DEF StatusesOf, ErrorsOf
  <2> QED BY <2>2, <2>3, <2>4, ReportKeeps DEF ErrorsOf
<1> QED BY <1>2, <1>3, <1>4, <1>5, <1>6

LEMMA RunAsyncKeeps ==
    ASSUME JobsInv, NEW j \in JobIds, RunAsync(j)
    PROVE JobsInv'
<1>1. /\ task \in [JobIds -> TaskSteps] /\ outcome \in [JobIds -> Outcomes \cup {"none"}]
      /\ TaskInv(j) /\ LogInv(j) /\ OrderInv(j)
      /\ {Created(j), Torn} \subseteq Lines /\ \A q \in JobIds : {Created(j), Torn} \cap EventsOf(q) = {}
  BY JobFacts
<1>2. /\ task[j] = "none" /\ UNCHANGED outcome /\ Counted(j)
      /\ \/ log' = Appended(Created(j)) /\ task' = [task EXCEPT ![j] = "begin"]
         \/ log' \in {log, Appended(Created(j)), Appended(Torn)} /\ task' = [task EXCEPT ![j] = "ended"]
  BY DEF RunAsync, Report, Counted
<1>3. /\ task' \in [JobIds -> TaskSteps] /\ task'[j] \in {"begin", "ended"}
      /\ \A q \in JobIds \ {j} : task'[q] = task[q]
  BY <1>1, <1>2 DEF TaskSteps
<1>4. JobTypes /\ TornInv
  BY DEF JobsInv
<1>9. PICK line \in {Created(j), Torn} : log' = log \/ log' = Appended(line)
  BY <1>2
<1>5. /\ Stored' \cap EventsOf(j) = {}
      /\ task'[j] = "begin" /\ Torn \notin Stored' => Created(j) \in Stored'
      /\ \A i \in DOMAIN log' : log'[i] \in Stored'
  <2>1. Stored \cap EventsOf(j) = {}
    BY <1>1, <1>2 DEF TaskInv, Written
  <2>2. Stored' = Stored \/ Stored' = Stored \cup {line}
    BY <1>1, <1>4, <1>9, AppendedLine DEF Stored
  <2>3. task'[j] = "begin" => (Stored' = Stored /\ Torn \in Stored) \/ Stored' = Stored \cup {Created(j)}
    BY <1>1, <1>2, <1>4, AppendedLine DEF Stored
  <2>4. \A i \in DOMAIN log' : log'[i] \in Stored'
    BY DEF Stored, ToSet
  <2> QED BY <1>1, <2>1, <2>2, <2>3, <2>4
<1>6. TaskInv(j)'
  <2>1. outcome'[j] = "none"
    BY <1>1, <1>2 DEF TaskInv
  <2>2. CompletedOf(j) \notin Stored'
    BY <1>5, LinesDiffer DEF StatusesOf
  <2> QED BY <1>3, <1>5, <2>1, <2>2 DEF TaskInv
<1>7. LogInv(j)' /\ OrderInv(j)'
  BY <1>5, LinesDiffer DEF LogInv, OrderInv, EventsOf, StatusesOf, ErrorsOf
<1>8. failures' \in [JobIds -> Nat] /\ \A q \in JobIds \ {j} : failures'[q] = failures[q]
  BY <1>2, CountedOnce
<1> QED BY <1>1, <1>2, <1>3, <1>6, <1>7, <1>8, <1>9, OneJobKeeps

LEMMA RunControllerKeeps ==
    ASSUME JobsInv, NEW j \in JobIds, RunController(j)
    PROVE JobsInv'
<1>1. /\ task \in [JobIds -> TaskSteps] /\ outcome \in [JobIds -> Outcomes \cup {"none"}]
      /\ TaskInv(j) /\ LogInv(j) /\ OrderInv(j) /\ Torn \in Lines /\ \A q \in JobIds : Torn \notin EventsOf(q)
  BY JobFacts
<1>2. PICK o \in Outcomes : /\ outcome' = [outcome EXCEPT ![j] = o]
                            /\ task' = [task EXCEPT ![j] = IF o = "result" THEN "result" ELSE "error"]
  BY DEF RunController
<1>3. task[j] = "controller" /\ log' = log /\ Stored' = Stored /\ failures' = failures
  BY DEF RunController, Stored
<1>4. /\ task' \in [JobIds -> TaskSteps] /\ outcome' \in [JobIds -> Outcomes \cup {"none"}]
      /\ task'[j] = (IF o = "result" THEN "result" ELSE "error") /\ outcome'[j] = o
      /\ \A q \in JobIds \ {j} : task'[q] = task[q] /\ outcome'[q] = outcome[q]
  BY <1>1, <1>2 DEF TaskSteps
<1>5. Stored \cap EventsOf(j) \subseteq {RunningOf(j)}
  BY <1>1, <1>3 DEF TaskInv, Written
<1>6. TaskInv(j)'
  <2>1. CompletedOf(j) \notin Stored
    BY <1>5, LinesDiffer DEF StatusesOf
  <2> QED BY <1>1, <1>3, <1>4, <1>5, <2>1 DEF TaskInv, Written
<1>7. LogInv(j)'
  BY <1>3, <1>5, LinesDiffer DEF LogInv, EventsOf, StatusesOf, ErrorsOf
<1>8. OrderInv(j)'
  BY <1>1, <1>3 DEF OrderInv
<1>9. failures' \in [JobIds -> Nat]
  BY <1>3, JobFacts
<1> QED BY <1>1, <1>3, <1>4, <1>6, <1>7, <1>8, <1>9, OneJobKeeps

LEMMA CrashKeeps ==
    ASSUME JobsInv, Crash
    PROVE JobsInv'
<1>1. /\ task' = [j \in JobIds |-> IF task[j] = "none" THEN "none" ELSE "ended"] /\ UNCHANGED <<outcome, failures>>
      /\ log' = log \/ log' = Appended(Torn)
  BY DEF Crash
<1>2. Torn \in Lines
  BY DEF Lines
<1>3. JobTypes' /\ TornInv'
  BY <1>1, <1>2, TornStays DEF JobsInv, JobTypes
<1>4. ASSUME NEW j \in JobIds
      PROVE  TaskInv(j)' /\ LogInv(j)' /\ OrderInv(j)'
  <2>1. TaskInv(j) /\ LogInv(j) /\ OrderInv(j) /\ Torn \notin EventsOf(j) /\ JobTypes /\ TornInv
    BY <1>4, JobFacts DEF JobsInv
  <2>2. /\ Stored \subseteq Stored' /\ Stored' \cap EventsOf(j) = Stored \cap EventsOf(j)
        /\ \A i \in DOMAIN log' : log'[i] \in EventsOf(j) => i \in DOMAIN log /\ log[i] = log'[i]
    BY <1>1, <1>2, <2>1, AppendedLine DEF Stored
  <2>3. StatusesOf(j) \subseteq EventsOf(j) /\ ErrorsOf(j) \subseteq EventsOf(j) /\ ResultOf(j) \in EventsOf(j)
        /\ BackendErrorOf(j) \in EventsOf(j) /\ RunningOf(j) \in EventsOf(j) /\ CompletedOf(j) \in EventsOf(j)
        /\ FailedOf(j) \in EventsOf(j)
    BY DEF EventsOf, StatusesOf, ErrorsOf
  <2>4. LogInv(j)' /\ OrderInv(j)'
    BY <1>1, <2>1, <2>2, <2>3 DEF LogInv, OrderInv
  <2>5. CASE task[j] = "none"
    <3>1. task'[j] = "none"
      BY <1>1, <1>4, <2>5
    <3> QED BY <1>1, <2>1, <2>2, <2>4, <2>5, <3>1 DEF TaskInv
  <2>6. CASE task[j] # "none"
    <3>1. task'[j] = "ended"
      BY <1>1, <1>4, <2>6
    <3> QED BY <2>1, <2>2, <2>4, <2>6, <3>1 DEF TaskInv, Written
  <2> QED BY <2>5, <2>6
<1> QED BY <1>3, <1>4 DEF JobsInv

LEMMA JobsInvStep ==
    ASSUME JobsInv, [JobsNext]_jobVars
    PROVE JobsInv'
<1>1. CASE UNCHANGED jobVars
  BY <1>1 DEF jobVars, JobsInv, JobTypes, TornInv, TaskInv, LogInv, OrderInv, Stored
<1>2. CASE JobsNext
  BY <1>2, RunAsyncKeeps, RunControllerKeeps, ReportsKeep, CrashKeeps DEF JobsNext, TaskStep
<1> QED BY <1>1, <1>2

\* What a reader is told of a job, in terms of the lines that are stored.
LEMMA StatusOfJob ==
    ASSUME JobsInv, NEW j \in JobIds
    PROVE GetJob(j).status =
             IF Torn \in Stored THEN "unreadable"
             ELSE IF Created(j) \notin Stored THEN "unknown"
             ELSE IF FailedOf(j) \in Stored THEN "failed"
             ELSE IF CompletedOf(j) \in Stored THEN "completed"
             ELSE IF RunningOf(j) \in Stored THEN "running" ELSE "queued"
<1> DEFINE mine == {i \in DOMAIN log : log[i].type = "job_event" /\ log[i].job = j}
           statuses == {i \in mine : log[i].event = "status"}
           last == CHOOSE i \in statuses : \A k \in statuses : k <= i
<1>1. /\ TaskInv(j) /\ LogInv(j) /\ OrderInv(j) /\ log \in Seq(Lines)
  BY JobFacts
<1>2. CASE Torn \in Stored \/ Created(j) \notin Stored
  BY <1>2 DEF GetJob, Stored
<1>3. CASE Torn \notin Stored /\ Created(j) \in Stored
  <2>1. GetJob(j).status = IF statuses = {} THEN Created(j).status ELSE log[last].payload
    BY <1>3 DEF GetJob, Stored
  <2>2. \A i \in DOMAIN log : i \in Nat /\ log[i] \in Lines /\ log[i] \in Stored
    BY <1>1 DEF Stored, ToSet
  <2>3. \A i \in statuses : log[i] \in StatusesOf(j) /\ i \in DOMAIN log
    <3>1. TAKE i \in statuses
    <3>2. log[i] # Torn /\ (\A q \in JobIds : log[i] # Created(q)) /\ log[i].job = j /\ log[i].event = "status"
      BY LinesDiffer
    <3>3. PICK q \in JobIds : log[i] \in EventsOf(q)
      BY <2>2, <3>2 DEF Lines
    <3>4. q = j
      BY <3>2, <3>3, LinesDiffer
    <3> QED BY <3>2, <3>3, <3>4, LinesDiffer DEF EventsOf
  <2>4. \A i \in DOMAIN log : log[i] \in StatusesOf(j) => i \in statuses
    BY LinesDiffer
  <2> HIDE DEF statuses
  <2>5. ASSUME NEW i \in statuses, \A k \in statuses : k <= i
        PROVE  GetJob(j).status = log[i].payload
    <3>1. last \in statuses /\ \A k \in statuses : k <= last
      BY <2>5
    <3>2. last = i
      BY <2>2, <2>3, <2>5, <3>1
    <3> QED BY <2>1, <2>5, <3>2
  <2>6. \A line \in Stored : \E i \in DOMAIN log : log[i] = line
    BY DEF Stored, ToSet
  <2>7. CASE CompletedOf(j) \in Stored \/ FailedOf(j) \in Stored
    <3>1. PICK line \in {CompletedOf(j), FailedOf(j)} :
                 line = (IF FailedOf(j) \in Stored THEN FailedOf(j) ELSE CompletedOf(j)) /\ line \in Stored
      BY <2>7
    <3>2. PICK i \in DOMAIN log : log[i] = line
      BY <2>6, <3>1
    <3>3. \A k \in statuses : k <= i
      <4>1. TAKE k \in statuses
      <4>2. log[k] \in StatusesOf(j) /\ log[k] \in Stored /\ k \in DOMAIN log
        BY <2>2, <2>3
      <4>3. line # FailedOf(j) => log[k] # FailedOf(j)
        BY <3>1, <4>2
      <4> QED BY <1>1, <3>1, <3>2, <4>2, <4>3 DEF OrderInv
    <3>4. GetJob(j).status = line.payload
      BY <2>4, <2>5, <3>2, <3>3 DEF StatusesOf
    <3> QED BY <1>3, <3>1, <3>4, LinesDiffer
  <2>8. CASE CompletedOf(j) \notin Stored /\ FailedOf(j) \notin Stored /\ RunningOf(j) \in Stored
    <3>1. PICK i \in DOMAIN log : log[i] = RunningOf(j)
      BY <2>6, <2>8
    <3>2. \A k \in statuses : log[k] = RunningOf(j)
      BY <2>2, <2>3, <2>8 DEF StatusesOf
    <3>3. i \in statuses /\ \A k \in statuses : k <= i
      BY <1>1, <2>2, <2>3, <2>4, <3>1, <3>2 DEF OrderInv, StatusesOf
    <3> QED BY <1>3, <2>5, <2>8, <3>1, <3>3, LinesDiffer
  <2>9. CASE CompletedOf(j) \notin Stored /\ FailedOf(j) \notin Stored /\ RunningOf(j) \notin Stored
    <3>1. statuses = {}
      BY <2>2, <2>3, <2>9 DEF StatusesOf
    <3> QED BY <1>3, <2>1, <2>9, <3>1, LinesDiffer
  <2> QED BY <2>7, <2>8, <2>9
<1> QED BY <1>2, <1>3

LEMMA EventsOfJob ==
    ASSUME JobsInv, NEW j \in JobIds
    PROVE /\ \A event \in GetJob(j).events : \E line \in Stored \cap EventsOf(j) : event = <<line.event, line.payload>>
          /\ Torn \notin Stored /\ Created(j) \in Stored =>
                \A line \in Stored \cap EventsOf(j) : <<line.event, line.payload>> \in GetJob(j).events
<1> DEFINE mine == {i \in DOMAIN log : log[i].type = "job_event" /\ log[i].job = j}
<1>1. log \in Seq(Lines) /\ \A i \in DOMAIN log : log[i] \in Lines /\ log[i] \in Stored
  BY JobFacts DEF Stored, ToSet
<1>2. CASE Torn \in Stored \/ Created(j) \notin Stored
  BY <1>2 DEF GetJob, Stored
<1>3. CASE Torn \notin Stored /\ Created(j) \in Stored
  <2>1. GetJob(j).events = {<<log[i].event, log[i].payload>> : i \in mine}
    BY <1>3 DEF GetJob, Stored
  <2>2. \A i \in mine : log[i] \in Stored \cap EventsOf(j)
    <3>1. TAKE i \in mine
    <3>2. log[i] # Torn /\ (\A q \in JobIds : log[i] # Created(q)) /\ log[i].job = j
      BY LinesDiffer
    <3>3. PICK q \in JobIds : log[i] \in EventsOf(q)
      BY <1>1, <3>2 DEF Lines
    <3>4. q = j
      BY <3>2, <3>3, LinesDiffer
    <3> QED BY <1>1, <3>3, <3>4
  <2>3. \A line \in Stored \cap EventsOf(j) : \E i \in mine : log[i] = line
    BY LinesDiffer DEF Stored, ToSet
  <2> HIDE DEF mine
  <2>4. \A event \in GetJob(j).events : \E i \in mine : event = <<log[i].event, log[i].payload>>
    BY <2>1
  <2>5. \A i \in mine : <<log[i].event, log[i].payload>> \in GetJob(j).events
    BY <2>1
  <2> QED BY <2>2, <2>3, <2>4, <2>5
<1> QED BY <1>2, <1>3

LEMMA StatusIsTrue ==
    ASSUME JobsInv
    PROVE StatusMatchesOutcome
<1>1. SUFFICES ASSUME NEW j \in JobIds
               PROVE  LET kinds == {event[1] : event \in GetJob(j).events} IN
                      /\ GetJob(j).status = "completed" =>
                            /\ outcome[j] = "result" /\ "result" \in kinds
                            /\ "error" \in kinds => failures[j] > 0
                      /\ GetJob(j).status = "failed" => "error" \in kinds
                      /\ <<"error", "backend_error">> \in GetJob(j).events => outcome[j] = "RuntimeError"
  BY DEF StatusMatchesOutcome
<1> DEFINE kinds == {event[1] : event \in GetJob(j).events}
<1>2. LogInv(j)
  BY JobFacts
<1>3. \A kind \in kinds : \E line \in Stored \cap EventsOf(j) : kind = line.event
  BY EventsOfJob
<1>4. Torn \notin Stored /\ Created(j) \in Stored => \A line \in Stored \cap EventsOf(j) : line.event \in kinds
  <2>1. SUFFICES ASSUME Torn \notin Stored, Created(j) \in Stored, NEW line \in Stored \cap EventsOf(j)
                 PROVE  line.event \in kinds
    OBVIOUS
  <2>2. <<line.event, line.payload>> \in GetJob(j).events
    BY <2>1, EventsOfJob
  <2> QED BY <2>2
<1> HIDE DEF kinds
<1>5. \A line \in EventsOf(j) : line.event = "error" => line \in ErrorsOf(j)
  BY LinesDiffer DEF EventsOf
<1>6. GetJob(j).status = "completed" =>
          CompletedOf(j) \in Stored /\ Torn \notin Stored /\ Created(j) \in Stored
  BY StatusOfJob
<1>7. GetJob(j).status = "failed" => FailedOf(j) \in Stored /\ Torn \notin Stored /\ Created(j) \in Stored
  BY StatusOfJob
<1>8. GetJob(j).status = "completed" => /\ outcome[j] = "result" /\ "result" \in kinds
                                        /\ "error" \in kinds => failures[j] > 0
  <2>1. HAVE GetJob(j).status = "completed"
  <2>2. ResultOf(j) \in Stored /\ outcome[j] = "result" /\ (Stored \cap ErrorsOf(j) # {} => failures[j] > 0)
    BY <1>2, <1>6, <2>1 DEF LogInv
  <2>3. "result" \in kinds
    BY <1>4, <1>6, <2>1, <2>2, LinesDiffer
  <2>4. ASSUME "error" \in kinds PROVE failures[j] > 0
    BY <1>3, <1>5, <2>2, <2>4
  <2> QED BY <2>2, <2>3, <2>4
<1>9. GetJob(j).status = "failed" => "error" \in kinds
  BY <1>2, <1>4, <1>7, LinesDiffer DEF LogInv
<1>10. <<"error", "backend_error">> \in GetJob(j).events => outcome[j] = "RuntimeError"
  <2>1. HAVE <<"error", "backend_error">> \in GetJob(j).events
  <2>2. PICK line \in Stored \cap EventsOf(j) : line.event = "error" /\ line.payload = "backend_error"
    BY <2>1, EventsOfJob
  <2>3. line = BackendErrorOf(j)
    BY <1>5, <2>2, LinesDiffer DEF ErrorsOf
  <2> QED BY <1>2, <2>2, <2>3 DEF LogInv
<1> QED BY <1>8, <1>9, <1>10 DEF kinds

\* The stage of what a reader is told.
StageTold(j) ==
    Stage(GetJob(j).status) =
        IF Torn \in Stored THEN 4
        ELSE IF Created(j) \notin Stored THEN 0
        ELSE IF CompletedOf(j) \in Stored \/ FailedOf(j) \in Stored THEN 3
        ELSE IF RunningOf(j) \in Stored THEN 2 ELSE 1

LEMMA StageOfJob == JobsInv => \A j \in JobIds : StageTold(j)
<1>1. /\ Stage("unknown") = 0 /\ Stage("queued") = 1 /\ Stage("running") = 2 /\ Stage("completed") = 3
      /\ Stage("failed") = 3 /\ Stage("unreadable") = 4
  BY DEF Stage
<1> QED BY <1>1, StatusOfJob DEF StageTold

LEMMA StageOfJobLater == JobsInv' => (\A j \in JobIds : StageTold(j))'
BY StageOfJob, PTL

\* A reader who is told that a job has ended is told by its lines.
EndTold(j) == GetJob(j).status \in {"completed", "failed"} =>
    /\ CompletedOf(j) \in Stored \/ FailedOf(j) \in Stored
    /\ GetJob(j).status = "failed" <=> FailedOf(j) \in Stored

LEMMA EndOfJob == JobsInv => \A j \in JobIds : EndTold(j)
BY StatusOfJob DEF EndTold

LEMMA EndOfJobLater == JobsInv' => (\A j \in JobIds : EndTold(j))'
BY EndOfJob, PTL

LEMMA StageGrows ==
    ASSUME JobsInv, [JobsNext]_jobVars, NEW j \in JobIds
    PROVE /\ Stage(GetJob(j).status) <= Stage(GetJob(j).status)'
          /\ GetJob(j).status = "completed" /\ GetJob(j).status' = "failed" => failures'[j] > 0
<1>1. JobsInv'
  BY JobsInvStep
<1>2. Stored \subseteq Stored'
  <2>1. \A entry : ToSet(log) \subseteq ToSet(Appended(entry))
    BY JobFacts DEF Appended, ToSet
  <2>2. log' = log \/ \E entry : log' = Appended(entry)
    BY DEF JobsNext, jobVars, RunAsync, TaskStep, ReportRunning, RunController, ReportResult, ReportCompleted, ReportError,
           ReportFailed, Report, Crash
  <2> QED BY <2>1, <2>2 DEF Stored
<1>3. (\A q \in JobIds : StageTold(q)) /\ (\A q \in JobIds : StageTold(q))'
  BY <1>1, StageOfJob, StageOfJobLater
<1>4. StageTold(j) /\ StageTold(j)'
  BY <1>3
<1> HIDE DEF Stored
<1>5. Stage(GetJob(j).status) <= Stage(GetJob(j).status)'
  BY <1>2, <1>4 DEF StageTold
<1>6. GetJob(j).status = "completed" /\ GetJob(j).status' = "failed" => failures'[j] > 0
  <2>1. HAVE GetJob(j).status = "completed" /\ GetJob(j).status' = "failed"
  <2>2. CompletedOf(j) \in Stored
    BY <2>1, StatusOfJob
  <2>3. FailedOf(j) \in Stored'
    <3>1. EndTold(j)'
      BY <1>1, EndOfJobLater
    <3> QED BY <2>1, <3>1 DEF EndTold
  <2>4. LogInv(j)'
    BY <1>1 DEF JobsInv
  <2>5. CompletedOf(j) \in Stored' /\ Stored' \cap ErrorsOf(j) # {}
    BY <1>2, <2>2, <2>3, <2>4 DEF LogInv
  <2> QED BY <2>4, <2>5 DEF LogInv
<1> QED BY <1>5, <1>6

-----------------------------------------------------------------------------
(* The theorems *)

LEMMA ProcessesStep ==
    ASSUME [InSandbox \/ InConsole \/ InJobs]_AllVars
    PROVE [Next]_vars /\ [ConsoleNext]_console /\ [JobsNext]_jobVars
BY DEF InSandbox, InConsole, InJobs, AllVars

\* Whatever candidates do, a success is reported only for what ran and passed,
\* and a Python call or a container that came back in time has left nothing of
\* its own behind (project_validation.py:127, behavior.py:190, local_sandbox.py:192).
THEOREM SandboxesAreHonest == ProcessesSpec => []SandboxIsHonest
<1>1. ProcessesInit => SandboxInv
  BY SandboxInvInit DEF ProcessesInit
<1>2. SandboxInv /\ [InSandbox \/ InConsole \/ InJobs]_AllVars => SandboxInv'
  BY SandboxInvStep, ProcessesStep
<1>3. SandboxInv => SandboxIsHonest
  BY DEF SandboxInv
<1> QED BY <1>1, <1>2, <1>3, PTL DEF ProcessesSpec

LEMMA ConsoleStays == ProcessesSpec => []ConsoleInv
<1>1. ProcessesInit => ConsoleInv
  BY ConsoleInvInit DEF ProcessesInit
<1>2. ConsoleInv /\ [InSandbox \/ InConsole \/ InJobs]_AllVars => ConsoleInv'
  BY ConsoleInvStep, ProcessesStep
<1> QED BY <1>1, <1>2, PTL DEF ProcessesSpec

\* A script's exit code tells what its runs have stored, however many scripts
\* work beside it and whichever are killed, as long as no other works on a run
\* of its own (run_coding_capability.py:584, run_worker_limit.py:268).
THEOREM ExitsTellOutcome == ProcessesSpec => []ExitTellsOutcome
<1>1. ConsoleInv => ExitTellsOutcome
  BY TellsOutcome DEF ConsoleInv, Each
<1> QED BY <1>1, ConsoleStays, PTL

\* The checkpoint of a run that one process at a time works on is never seen
\* incomplete and never goes back (artifact_manager.py:96).
THEOREM CheckpointsOnlyAdvance == ProcessesSpec => CheckpointsAdvance
<1>1. ConsoleInv /\ [InSandbox \/ InConsole \/ InJobs]_AllVars =>
          [\A r \in Runs \ shared' :
              /\ runs'[r].checkpoint.state # "torn"
              /\ runs[r].checkpoint.state = "whole" =>
                    /\ runs'[r].checkpoint.state = "whole"
                    /\ runs'[r].checkpoint.attempts >= runs[r].checkpoint.attempts]_console
  <2>1. SUFFICES ASSUME ConsoleInv, [InSandbox \/ InConsole \/ InJobs]_AllVars
                 PROVE  \A r \in Runs \ shared' : Advances(r)
    BY DEF Advances
  <2> QED BY <2>1, CheckpointsAdvanceStep, ProcessesStep
<1> QED BY <1>1, ConsoleStays, PTL DEF ProcessesSpec, CheckpointsAdvance

\* As long as the file can be read, a reader of a job is told what its
\* controller did, and no reader is told less than one before, whatever appends
\* raise and whenever the server dies; a completed job has an error, or is later
\* said to have failed, only if an append of its own raised
\* (app.py:97, job_store.py:59).
THEOREM JobsStayTruthful == ProcessesSpec => JobsAreTruthful
<1>1. ProcessesInit => JobsInv
  BY JobsInvInit DEF ProcessesInit
<1>2. JobsInv /\ [InSandbox \/ InConsole \/ InJobs]_AllVars => JobsInv'
  BY JobsInvStep, ProcessesStep
<1>3. JobsInv => StatusMatchesOutcome
  BY StatusIsTrue
<1>4. JobsInv /\ [InSandbox \/ InConsole \/ InJobs]_AllVars =>
          \A j \in JobIds :
             /\ Stage(GetJob(j).status) <= Stage(GetJob(j).status)'
             /\ GetJob(j).status = "completed" /\ GetJob(j).status' = "failed" => failures'[j] > 0
  BY StageGrows, ProcessesStep
<1> QED BY <1>1, <1>2, <1>3, <1>4, PTL DEF ProcessesSpec, JobsAreTruthful

=============================================================================
