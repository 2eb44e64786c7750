# Verification of the agent harness

A TLA+ development for `agent_small_harness`, a coding harness around language models. It models
the parts of the program in which several actors change shared state, or in which a long sequence of
legal steps could go wrong: the scheduler of task graphs and the documents its sessions live in, the
reviews by which changes reach the checkout, the terminal client with the bridge behind it, code
generation with its repairs and its resumption, the analysis that judges drafts, and the sandboxes
and processes that run them. TLC checks the modules on small instances; TLAPS proves the main safety
properties of fourteen of them, and those of four of their compositions, for all values of the constants.

Contents: [inventory](#1-inventory), [modules](#2-modules), [runs](#3-runs), [fairness](#4-fairness),
[proofs](#5-proofs), [disagreements](#6-disagreements), [abstractions](#7-abstractions),
[not modelled and plan](#8-not-modelled-and-plan).

## 1. Inventory

Two ways lead from a request to a change of the repository. In the first, a request becomes a graph
of tasks, a person approves a revision of it, agents execute its nodes in workspaces, and their edits
wait in a queue until they are reviewed one by one. In the second, a person chats in a terminal
client; tools prepare diffs, which the person reviews, and an approved specification becomes a
process that generates code, validates it and repairs it.

```
 HTTP clients ──> api/app.py (thread pool) ──> OrchestrationStore ──> session.json, events.jsonl
                     │      │                        ▲
                     │      │                        │ get, record_attempt, _write
      background     │      └──> PersistedOrchestrationRuntime ──> OrchestrationSession.run
      jobs, JobStore │                     │ review_merge                 │ agents (asyncio tasks)
                     │                     ▼                              ▼
                     │         SerializedMergeQueue + CheckpointStore   workspaces, proposals
                     │                     │
                     ▼                     ▼ shared checkout, which a person also edits
            GenerationController           ▲
                     ▲                     │ approved diffs, rewinds, subagents' merges
        scripts      │                     │
 (run_structured_spec, run_coding_capability) <── child process ── tui_bridge <══ pipes ══> rust_tui
                     │                                               │
                     ▼                                               ▼
          engines, policy, sandboxes; history.json        assistant threads: model clients, tools,
          artifacts/runs  <── TUI console watches            chat history, cost guard
```

| Part (source under `src/`) | State | Operations | Correct when |
|---|---|---|---|
| Task graphs (`harness_kernel/task_graph.py`) | immutable graphs, provider policies | topological order, reachability, validation of write claims, rotation | cycles and unordered conflicting writers are refused; a turn of the rotation is fair |
| Scheduler (`harness_kernel/orchestration.py`) | node states, running tasks, breakpoints, step budget, pause event, cancel flag, queue | `approve pause resume cancel step add_breakpoint remove_breakpoint run` | nodes start after all ancestors succeeded; limits and write claims are respected; no wake-up is lost; `run` ends |
| Documents and store (`orchestration_store.py`) | `session.json` | `create approve transition revise record_attempt retry debug_control` | an approval is of the revision in force; operations are atomic though the process dies |
| Journal (`event_journal.py`) | lines of `events.jsonl`, a cached number | open (verify), append, read | it follows the document and is numbered in sequence |
| Runtime (`orchestration_runtime.py`) | a restored session, hashes of the checkout | construct, `run` with its epilogue of writes, `review_merge` | what is restored is a state of an execution in dependency order; only approved revisions run |
| Merge queue, checkpoints (`merge_queue.py`, `checkpoints.py`) | proposal, checkout, saved contents | `enqueue review_next create restore` | what is replaced can be brought back; a rewind is whole or not at all; the queue drains |
| HTTP endpoints, jobs (`api/app.py`, `agents/job_store.py`) | append-only file of job lines | one operation per request; a background task per job | a job's record tells what became of it |
| Terminal client and bridge (`rust_tui/`, `harness_kernel/tui_bridge.py`) | screen mode, pending diff or action; busy flags, queue of diffs, a child process | keys and events; commands, assistant threads, reader of the child | one task at a time; each diff is answered once and not lost; the busy mark goes away |
| History and cost (`tui_bridge.py`, `contribution.py`, `backends/`) | chat history, split, telemetry, cap, approval | chat, compact, clear, rewind, calls with retries | only a race can forget a message; an approval pays for one call |
| Repository tools and their agent (`tool_handlers.py`, `agents/tool_calling_agent.py`) | transcript, proposals, files | read, search, replace, create, move, delete, script; review | what is applied was made from what is there; the task's answer is the truth |
| Generation controller (`agents/generation_controller.py`, `repair_strategy.py`, `validation/branch_loop_detector.py`) | attempts, budgets, `checkpoint.json` | draft, validate, record, repair, escalate, consult a peer, resume | budgets hold over crashes; the architect comes last; completed means validated |
| Structured specifications (`scripts/run_structured_spec.py`) | queue of contracts, results, checkpoint | plan, queue, implement, integrate, run the gates, resume | one result per contract after its dependencies; nothing is forgotten |
| Run history (`agents/historian.py`) | `history.json`, `runs.jsonl` | record an outcome, append a sample, compare | outcomes are kept; a regression report is warranted |
| Analysis and policy (`engines/`, `validation/`) | records of a walk, findings, violations | walk, judge, order repairs, resolve imports | scopes are those of the language; hazards are refused; no failure is left out of a repair |
| Sandboxes (`local_sandbox.py`, `container_sandbox.py`, `project_validation.py`, `validation/behavior.py`) | child processes, containers, time limits | run code, run a project's steps, stop a tree of processes | the verdict is that of the run; a call returns whatever the code does |
| Subagents (`harness_kernel/subagents.py`) | copies of the repository, hashes | copy, edit, propose, merge | a merge replaces what was copied |
| Console and batch scripts (`TUI/`, `scripts/run_coding_capability.py`, `run_worker_limit.py`) | processes, `artifacts/runs`, a list of runs | launch, resume, watch; the loop over tasks | an exit code tells the outcome; checkpoints advance; a view catches up |

Hard behaviours are of five kinds: callbacks between the suspension points of one coroutine
(scheduler); threads without a common lock (endpoints, reviews, assistant and compaction); processes
joined by pipes or by files alone (client and bridge, console and scripts, historians); processes
that die between two writes (runtime, store, reviews, controller, jobs); and candidates that owe
nothing to whoever started them (sandboxes). `PROJECT.json` lists each hazard with its line and the
properties that would notice it. It also lists the components and how far each is modelled.

## 2. Modules

| Module | Models | Composition |
|---|---|---|
| `TaskGraphs` | `task_graph.py` as operators, and what they promise | evaluated in `MCOperators`, proved in `SchedulerProofs`; `Scheduler` and `MCSessions` assume what it computes |
| `DependencyExecution` | abstract: what a scheduler promises about node states and merge queue | refined by `Scheduler` |
| `Scheduler` | `OrchestrationSession` | |
| `SchedulerOperators` | four kinds of operators who control a session | extends `Scheduler` |
| `SchedulerProofs` | theorems about the last two, about `TaskGraphs`, `MountPolicy`, `StructuralWalk`, `HazardRules` and `FindingGates`, and about `MCOperators` | extends the runs' modules, which share no name |
| `SessionDocuments` | the document and each store operation as a function of it | extended by the next three |
| `AtomicSessions` | abstract: the document changes by whole operations | refined by `SessionStore` |
| `SessionStore` | read, temporary file, rename, journal; threads | |
| `SessionStoreProofs` | theorems about one client, racing clients and everything in `MCSessions` | cites `RuntimeProofs` as two instances |
| `PersistedRuntime`, `RuntimeProofs` | documents with runs, retries, revisions, reviews, crashes | a run is one step whose outcomes are those of `Scheduler` |
| `MergeReview`, `MergeReviewProofs` | reviews step by step on the shared checkout | starts from the queue a run leaves |
| `SubagentWorkspaces` | copies, proposals and merges of subagents | |
| `RepositoryTools` | the agent's bounded loop, the tools, review, checkpoint, rewind | |
| `ChangesProofs` | theorems about tools, subagents and everything in `MCChanges` | cites `MergeReviewProofs` as an instance |
| `TerminalSession` | client, pipes, bridge, assistant threads, child process | |
| `Conversation` | history and its compaction, provider per call, cost guard, retries | |
| `BridgeProofs` | theorems about the last two | extends both, which share no name |
| `Generation` | the attempt loop of the controller, crash and resume | |
| `ContractOrder` | the order of contracts, as operators | used by `StructuredSpec` |
| `StructuredSpec` | the runs of a specification | ends in a session of the controller, which is one step there |
| `RunHistory` | the historian's two files and their writers | |
| `GenerationProofs` | theorems about the last four and their composition `MCGenerator` | |
| `StructuralWalk` | the visitor that every engine reads, one action per `visit_` method | composed with the next three by `MCValidation`; proved in `SchedulerProofs` |
| `HazardRules`, `FindingGates` | imports and calls that are hazards; findings, thresholds, policy | composed by `MCValidation`; proved in `SchedulerProofs` |
| `RepairDirectives` | directives, top violation, strategy, formal verdicts | |
| `ImportGraph` | imports between generated files and contracts on them | |
| `Sandbox` | runs of candidates with their processes, limits and verdicts | extends `MountPolicy` |
| `MountPolicy` | which mounts a container may be given, as operators | evaluated in `MCOperators`, proved in `SchedulerProofs` |
| `RunConsole` | scripts as processes, their artifacts, the console's two screens | |
| `BackgroundJobs` | job lines, their writers and the fold that reads them | |
| `ProcessProofs` | theorems about the sandboxes, the scripts and the jobs | of `MCProcesses`, which joins the three |
| `MC...` | instances and the properties that join several modules | `MCSessions` extends `SessionStore` as the race of two clients and has the sole client and the runtimes as instances |

**Merged instances.** Modules that share no state are checked in one run where this keeps the
question together. A variable `subject` (`gate` for inputs of pure operators) is chosen in the initial
state and never changes; it says which module takes steps in this behaviour. The others stay as they
are, so that the reachable states are the sum of those of the modules, not their product.

**Scheduler.** The coroutine `run` is modelled by `pc`. Between two `await`s the event loop runs
nothing else, so `pc` in `open`, `dispatch` or `process` disables agents and controls; at `blocked`,
`woken`, `yield` and `wait` everything interleaves. `woken` exists because `asyncio.Event.set`
only schedules the waiter: `pause()` called before it continues does not stop it. One action
per branch of the dispatch loop (`SkipSettled`, `StopPass`, `Block`, `AwaitDependencies`,
`Dispatch`, `EndPass`) and of the loop over finished tasks. A workspace or a proposal that
cannot be copied raises out of `run` (`DispatchRaises`, `ProcessRaises`). Agents go on after that.

**Documents and store.** A revision's hash covers its parent's hash; it is represented by the
sequence of all graphs so far, which two different histories never share. `Accepts` is the conjunction
of the checks before the first write, `Result` the assignments. Each operation of the store is
`Load`, `OpenTemporary`, `Write`, `Rename`, `OpenJournal`, `AppendEvent`, with a `Raises` twin where
the code raises. An open file is an inode: when one thread renames `session.tmp` while another has it
open, the other writes into `session.json`.

**Runtime.** Store operations are atomic up to the journal line, which is a step of its own so that
a crash can fall between. `Execute` is `session.run` as one step: `Settles` gives the node states
with which the scheduler can return, `OrdersOf` the orders of dispatch and success. The epilogue
is write by write: `Record` for each settled node in declaration order, then `Finish`.

**Reviews.** `Begin` reads the document; then `CheckHashes` or `Stale`, `Validate`,
`CreateCheckpoint`, `Apply` for each file, `Record` writes back the document read at the beginning. A copy may raise
(`ApplyRaises`), and a person may save a file at any time, also between the checkpoint and the last copy;
what is saved then is in `late`. In `SubagentWorkspaces` the comparison of a file and its replacement are
two steps, between which others may act; the pair is then in `overtaken`. A write may raise before or
after it has emptied its file (`WriteRaises`), which leaves the merge half done.

**Tools.** `RepositoryTools` has one action per kind of turn of the agent's loop and per handler. A call
has a root and a name below it; handlers join the two (`Resolved`), while the loop compares the name alone
with the one that the task gives (`Unexpected`). A proposal keeps the contents it was made from, as the
code keeps their hash; a review saves a checkpoint, compares and writes in three steps, and a person may
save a file before each: `late` has what was saved since the checkpoint, `slipped` what since the
comparison. A rewind goes file by file and rolls back when one cannot be written. A file is a sequence of
lines and whether they end in CR LF.

**Terminal.** Client and bridge are two state machines joined by two queues of messages. The bridge's
main thread handles one command at a time; an assistant thread is a record with its own position; the
functions that both call (`propose diffs`, `clear busy`) are steps of whoever calls them, at the
granularity at which threads of one interpreter can be switched.

**Conversation.** The three threads share the list of messages without a lock: each action is what
happens between two places where the code may be interrupted with a stale copy in hand. A call is
taken apart into the guard's decision, the attempts of the client and the recording of its usage.

**Generation.** One action per stage of the loop: `Validate` scans, validates, chooses the next worker
and records; `Decide` stops or goes on; each way to repair is an action. A draft is reduced to the
first gate it fails and to whether it is nearly the draft it repairs. The checkpoint is replaced
exactly where the code calls `_write_checkpoint`; a resumed session has only what it restores.

**Specification.** `ContractOrder` computes the queue as the planner does. `StructuredSpec` sends
contracts one after the other, pushes missing dependencies, settles results, integrates and delivers.
A run that is resumed plans again, which may give another plan. What is left of a list (`Only`) is a
recursive function and not `SelectSeq`, and a median (`Ranked`) a choice and not a sorted sequence, so
that proofs can say what they return.

**Analysis.** A draft is written line by line, and `StructuralWalk` keeps the visitor's own counters
and stacks. References in `MCValidation` are computed from the lines alone, so that a counter that is
not restored when a scope is left shows. `FindingGates` has each engine's finding with the numbers the
policy reads.

**Processes.** In `Sandbox` a candidate may spawn, hang, exit or be killed at any time, before, during
and after the caller's timeout; what escapes is still there when the next request comes. In
`RunConsole` scripts and console share only files. In `BackgroundJobs` a job is a sequence of lines
and its record is their fold. `Report` appends a line or raises, and what raises in `fsync` leaves the line
in the file, or a part of it, or nothing (`agents/job_store.py:75-80`): a job whose last line is
"completed" may then get an error and "failed". `failures` counts these, per job.

**Mounts.** A destination is the sequence of components that `normalize_destination` leaves, ".." among
them, and is allowed if an allowed place is a prefix of it. A source is a resolved path, refused if it *is*
one of `BlockedRoots` or ends in the socket's name; nothing looks at what lies below. The last scan looks
for the socket in every word of the command, hence `WordsOf`.

**Mutants.** Definitions ending in `_Mutant` are not part of any specification. Each is a plausible
bug in the definition after it, and `PROJECT.json` says which property then fails.

## 3. Runs

Runs that pass:

| Run | Question | Instance and why it is enough |
|---|---|---|
| `scheduler` | All safety of the scheduler, that it implements `DependencyExecution`, and that sessions end under every kind of operator | five nodes: three roots for two slots, a join, writers ordered only through another node; fresh and two restored sessions; the controls are not bounded, since a bound could hide a lost wake-up |
| `sessions` | What may be approved, executed, restored, retried and acknowledged, with crashes and races | a join and its revision to a chain (keeps two nodes, drops one), which is declared child first and which a session may also be created with; quiet clients with two runtimes and three requests, busy clients during a run, one client of four operations file by file (instance `Sole`, so that a temporary file left behind is met again; `SoleIsAtomic` is about it), two racing clients with three: a race and something after it |
| `changes` | Does what reaches the checkout follow what was approved, can it be brought back, does the queue drain? | two files, one of which exists, and a folder that is also a root, calls of every tool, good and bad, three turns; three proposals overlapping in a chain, edits by a person at any time, reviews without bound; two subagents over three files; a crash or a failing write anywhere |
| `terminal` | One task, one answer per diff, none lost, and an end to being busy | two assistant threads, three diffs over two files (two for one file, so that the second is stale), any three keys |
| `generator` | Budgets, order, memory and end of code generation | budget three, so that small worker, constrained repair, architect and one more all occur; four constructions; five faults; one crash at any step; the plans of four graphs of three contracts with what their texts mention and the architect remarks, two resumes; three processes with one history |
| `conversation` | What the history may lose and what a call may cost | three messages in a history of two, both compactors, one approval, two commands: the fewest with which each race occurs |
| `processes` | Do sandboxes, scripts and jobs tell the truth and answer in the end? | two requests out of seventeen, since a second one meets what the first left, on a machine with every tool, all but one, or none; two scripts over two tasks, one of which may be killed; two jobs, one crash, one append of each that raises |
| `operators` | Do the pure parts agree with references that do not follow the code's loops? | every draft of five lines over scopes or of four over hazards, every finding around each threshold under every policy, up to three violations, projects of two or three files in four languages, every graph of three nodes, every policy up to weight three, every extra mount at, below, beside and up from the places of a policy |

What the joined properties say is written at their definitions: `SessionsAreCoherent`,
`ApprovedIsExecuted` in `MCSessions`; `AgentsKeepToTheirTask`, `ReplacedIsRecoverable`,
`FilesChangeAsAgreed`, `QueueDrains` in `MCChanges`; `CompletionIsEarned`, `ResultsAreOrdered`,
`GeneratorEnds` in `MCGenerator`; `EveryoneIsAnswered` in `MCProcesses`; the six of `operators` in
`MCOperators` and `MCValidation`.

Runs in which TLC finds the stated claim violated: `second_run_drops_edits`, `journal_numbering`,
`diffs_unseen`, `cost_cap`; see section 6.

Deadlock is checked in the scheduler's run. It is off where the system may stop: when the bounded
requests, keys or launches are used up, when the queue is empty, when an input has been examined.

Bounds are named constants: `MaxRuns`, `MaxRequests`, `MaxSoleRequests`, `MaxRevisions` (documents), `MaxEdits`,
`MaxSharedEdits`, `MaxProposals`, `MaxTasks`, `MaxTurns`, `MaxCheckpoints` (changes), `MaxKeys`,
`MaxDiffs` (terminal), `MaxHistory`, `MaxSaid`, `MaxBilled`, `MaxApprovals`, `MaxCommands`
(conversation), `MaxRetries`, `MaxCrashes`, `SmallRetries`, `ArchitectRetries`, `MaxResumes`
(generation), `MaxCalls`, `MaxAttempts`, `MaxLaunches`, `MaxDeaths`, `MaxAppendFailures` (processes),
`MaxLines`, `MaxWeight` (operators). `MaxRetries`, `MaxTurns`, `SmallRetries`, `ArchitectRetries`,
`MaxHistory` and `Attempts` are parameters of the code. The scheduler itself has no bound.

The run `conversation` takes the provider schedule at one phase and one split; the schedule is
a function of the number of calls, and the phase is chosen so that both providers come up within the
calls of the run. `SavedCap`, the cap that the settings hold at the start, is 0 in `conversation` and
1 in `cost_cap`.

## 4. Fairness

* `RunFairness` (scheduler): the event loop keeps running the coroutine; every agent returns; the
  approval is given. asyncio serves callbacks first come, first served, and a backend call has a
  timeout.
* `OperatorSpec`: strong fairness of `Resume` for an operator who resumes, of `Step` for one who
  steps: nobody leaves a session paused for ever. It has to be strong, because the operator's own
  pauses enable and disable the effect again and again. Nothing is asked of an operator who
  cancels, except not to pause the session afterwards: `pause()` clears the event that `cancel()`
  set, and a coroutine still waiting for an agent would then stop at the gate before it looks at
  the flag.
* `ChangesSpec`, for reviews: a review proceeds (trusted tests have a timeout); whoever reviews in
  the end rejects a head that cannot be applied, without which the queue rightly stays; and the
  process does not die before each single `Record`.
* Terminal: the client keeps reading events, the bridge commands, assistant threads return, the child
  process ends. Models, tools and sandboxes have timeouts. The person need not do anything.
* Conversation: the worker and the compacting thread run on.
* Generator: the controller proceeds and a dead session is resumed; a specification's run proceeds.
  `Terminates` excepts a session that cannot be resumed (`CannotResume`, section 6).
* Processes: the caller of a sandbox proceeds, the candidate owes nothing; scripts run and the
  console's timer fires; tasks of the server proceed unless it dies.

Every other action is without fairness: a person's keys and edits, crashes, deaths, launches.

## 5. Proofs

`SchedulerProofs`, for every graph, restored state, limit and set of controls:

* `TypeCorrect`; `BoundedConcurrency`; `IdleOnlyWhenPaused`, `CancelIsObeyed` (action properties).
* `DependencySafety`, `WriteSerialisation`, `SafeWorkers`, `MergeQueueCorrect`, `SettledReturn` follow
  from `InductiveInv`: types; `Consistent` (a task exists exactly for running nodes, and providers are
  set exactly for what was dispatched); `Downstream` (whatever started has its *ancestors*
  succeeded — the code looks only at direct dependencies, so the statement about ancestors needs the
  dependencies' own history and is not inductive without the node states of all of them);
  `QueueInv` (queue against states); and `PassInv` (what a dispatch pass has established about
  the nodes before the cursor: all of them are settled or wait for something running or pending).
* `IdleOnlyWhenPaused` uses `PassInv`: a pass that reaches the end of the order with nothing running
  has left no node pending, because the first pending one in the order would have been ready.
* `DispatchesControlled` (action property of `SchedulerOperators`): a budget of one was granted since the last
  dispatch (`GrantInv`), and every behaviour with operators is one of the session
  (`OperatorsUseTheSession`), so that `CancelIsObeyed` holds of it too.
* `Implementation`: `Spec => Abstract!Spec`, step by step.

Assumptions: those named in `Scheduler` (an order as `topological_order` returns it, ancestors as
`depends_on` computes them, overlapping writers ordered as `validate` demands), and for
the theorems about ancestors that a restored session is closed (`Closed`). The former are proved of
`task_graph.py` (`AcceptedGraphsMeetTheAssumptions`). The latter is proved of the runtime
(`RestoredInDependencyOrder` below) for graphs declared dependencies first, which nothing enforces. For
a graph declared child first a crash between two attempt records breaks it (section 6), so after such a
crash the theorems about ancestors do not apply; what is left is `Supported`: no direct dependency is
missing but those declared later.

The same module proves what the run `operators` evaluates of the pure parts, for all inputs:

* `GraphsAreSound`, for every finite graph whose identifiers are ordered like numbers, whatever they
  depend on and whatever sequences of names they claim; `EnumeratedGraphsAreSound` makes it the invariant
  `TaskGraphsAreSound`. The rounds of a construction and of a worklist are recursive functions of a
  number: `Recursion` shows from induction (`NumbersInduction`) that such a function exists, and
  `ShrinkingSetsStop` that sets which only shrink are still after as many rounds as there are nodes. So
  what is left over is empty exactly when no node reaches itself (`CyclesAreFound`), and what the
  worklist has found is the least closed set (`AncestorsAreLeast`). A node is taken one round after the
  last of its dependencies (`RoundsAreDepths`), and the order lists round after round (`OrderFollowsRounds`).
* `AcceptedGraphsMeetTheAssumptions`: hence an accepted graph meets what `Scheduler` and `SessionDocuments`
  assume of theirs. The last step is that an order which holds every node and is as long as there are
  nodes holds none twice.
* `RotationsAreFair`: a turn is joined from blocks, each behind the sum of the weights before it
  (`Flattened`); those sums divide the positions among the providers (`SumsDivide`), and a window of one
  turn meets every position once, wherever it begins (`WindowsCount`).
* `ContainersAreConfined`, `ProjectsAreConfined`: for any policy, sources, paths and number of mounts, and
  with trusted tests anywhere, also in the project; `EnumeratedMountsAreConfined` makes them the invariant
  `MountsAreConfined`. They promise what the code compares: that no source is one of the blocked paths,
  not that none lies below one, and that a destination leads below an allowed place unless there is a ".."
  in it. They need no induction, because a place is allowed by one of its prefixes (`LeadsBelowPrefix`:
  without ".." a path never leads up), and mounts at different places are as many as there are places
  (`DistinctElements`). A policy is one that `Policy` makes, and the container's own places are among the
  names of a path.
* `AnalysisIsFaithful`, for every vocabulary and drafts of any length: after each line, loop depths are
  nesting, hotspots follow Python's scopes, and the other engine counts alike. The visitor forgets where
  it came from, so `WalksAreRecorded` first says what it has kept, in terms of a history it does not
  have: the levels *d* at which each line begins (`WalkFollows`). The stack of open constructs is the
  last line of each level that is still open (`StackInv`), each counter is a number of open constructs
  (`DepthInv`), `scope_stack` spells the open scopes (`ScopesInv`), and there is one record per loop,
  binding and test, in the order of the lines, with the depth and the scope the line had (`LoopsInv`,
  `FunctionsInv`, `SymbolsInv`, `ChecksInv`). What all actions have in common is stated once, as
  `WalkEffects`. Levels are then compared with the reference's blocks, which look ahead to the end of a
  construct, by induction over the lines; the tables of the code are keyed by the path of names, so that
  a path has to be shown to belong to one scope only (`OrderedPrefix`), which a draft that opens no
  name twice guarantees. The walk of Tree-sitter goes over the lines again with counters of its own,
  and `TreeSitterSees` relates both after the same number of lines.
* `RefusalsAreSound`: what the lines of a draft say is refused, and the policy follows the severity of
  the findings around its thresholds. It is about drafts of any length over any of the run's words,
  with the run's rules and library (`RulesOfTheRun`), because the property names the blocked imports
  and calls itself. `HazardsFollow` is the part of the walk's invariant that says which imports, calls
  and changes of names have been recorded; from there `BlockedLines`, `ExternalLines`, `UnreviewedLines`
  and `MutatedLines` lead from a line to a hazard and back, and `HazardsAreJudged` from hazards to a
  verdict. What a policy makes of a finding depends on that finding alone (`VerdictsAreOfFindings`, for
  any list of findings and any policy), so the thresholds are compared finding by finding
  (`JudgedByKind`, `SomeFindingsAreJudged`), and what examples excuse is structural for any two lists
  (`DemotionsAreStructural`).
* `FormalVerdictsAgree`: for every answer of the two tools, the half of `RepairIsComplete` that is about
  contract checks.

`RuntimeProofs`, for any graphs, bounds and number of crashes and runs. `CreatedWithGraph` (the first
revision is one of the graphs) is assumed throughout; the other hypotheses say which writers there are
while a runtime exists, since with others TLC finds the property violated:

* `ExecutedIsApproved`: whatever clients do, also during a run. `ApprovalInv` binds every approval, in
  the document and in the copy a runtime took of it, to a revision that somebody approved.
* `LinesAreNumbered`, if clients do not write during a run (`RequestsInRun = {}`; the run
  `journal_numbering` shows why). `JournalInv` ties each journal object's cached number to the file.
* `AttemptsTellStates`, `ReviewInDependencyOrder`, `NothingBlockedForGood`, if they do not revise or
  retry then (`NoRevisionInRun`). `StatesInv` relates the document to the runtime that goes on from it:
  a node that the document shows as settled is settled alike in the runtime, and one that is still
  unrecorded is pending in the document. Without this a crash in the epilogue could leave anything.
* `RestoredInDependencyOrder`, under the same condition: closed under dependency for a graph declared
  dependencies first (`DeclaredInOrder`), and `Supported` for any graph. `ClosedInv` needs the order of
  the epilogue: an attempt is recorded after those of its ancestors that are declared before. That the states a run returns are closed is
  `Settles`, the step by which the model takes over what `Scheduler` promises.
* `TypesAreKept`, if clients do not write during a run.

`SessionStoreProofs`, for any graphs, threads, requests and crashes:

* `ApprovalsBind`: the document in place never carries another revision's approval. `BindingInv`
  says the same of every file and of every document a thread is about to write. It holds even under
  races because each operation writes a whole document, and each document binds its own approval.
* `JournalIsBehind`: any finite number of racing threads leaves no line without a document.
  `FollowsInv` counts the threads that may still append against the renames.
* `SoleClientIsAtomic`: with one thread the protocol implements `AtomicSessions`. `SoleInv`
  says that the draft is the result of the request applied to the document still in place; it also
  says where a breakpoint that was acknowledged is.
* `SessionsStayCoherent`, `ApprovedBeforeExecuted`: the joined invariants of `MCSessions`, of its
  specification. The quiet and the busy writers are instances of `PersistedRuntime`, so the invariants
  of `RuntimeProofs` are taken over from two instances of it (`QuietP`, `BusyP`), after it is shown that
  the operators and actions of the instances are the same. Of the graphs only what
  `TaskGraph.validate` establishes is assumed, not the order in which they are declared.

`GenerationProofs`, for any budget, any faults, constructions and number of crashes:
`BudgetKept`, `LastResort` and `CompletionIsValidation` follow from `SessionInv`, `CreditIsKept` from
that and `CreditInv`.

* `Chain` is what holds of the attempts alone, at any time: they are numbered without gaps, each but
  the last failed and was given to a worker, a constrained repair or a failed backend is
  followed by the architect's draft, one attempt beyond the budget only follows one of these, and there is at most one
  *second chance* (an architect's draft with a static fault that somebody repairs).
* It is not inductive: what may come next depends on the last attempt and on the locals of `run()`.
  `MayFollow` says which source may be next, `Spent` that `retried` is set once the second chance is
  taken, `Current` and `Decided` connect the locals and the outcome with the last attempt.
* `CheckpointInv` says the same of `checkpoint.json`, by its phase. It is what makes resumption safe:
  `attempt_recorded` needs `MayGoOn`, `ready_to_validate` needs `MayFollow` of the saved source, and
  both need `retried` and the index as they were. Without the saved `retried` a resumed session would
  get a second second chance (`Restored_Mutant`).
* A budget of zero is included: with none, a failing backend that is followed by the architect is one
  attempt more than the budget, which `RetryBudget` names as its second exception. `HandsOver` says
  that after a constrained repair or such a failure only the architect may come next.
* `CreditInv` says that an attempt is followed by a draft of the architect's exactly when the architect
  was asked for it, as the recorded worker or by an escalation (`Asked`), and that whoever is asked is
  asked after a failure. The same is said of the saved attempts and of the draft to be validated next:
  otherwise a session that is resumed between the two could be credited to the wrong one.

and, for any plans whose contracts have different names (`StructuredSpecAssumption`), any recorders,
templates and samples:

* `ResultsOrdered`, `NothingIsForgotten` (action property), from `SpecInv`. `PlacesHold`: what is
  ready, blocked or in hand is different and has no result yet; `NobodyIsLost`: whatever has no result
  is in one of these places while the queue runs, and may not be sent once it has ended. A resumed
  run starts from the checkpoint, so `StoredHolds` says the same of its results as `Reported` does of
  those in memory, with one report of a blocked queue less before planning than after the queue has
  ended, and that the former are the first ones of the latter. The plan of the resumed run may be another,
  which is why only `Loaded` results, and not places, go from one to the next.
* `CompletionEarned` has the two properties of the history besides those of the session. `OutcomesHold`:
  the document, and every copy that is about to be written back, has the outcomes of all who recorded
  theirs while nobody else was about to; two who are about to are both in `overlapped`. The copies matter
  because one of them will be the document. `LinesHold`: a reported regression has its better
  predecessor among the lines that were read, which are never removed; what is above the median of some
  numbers is above one of them (`AboveOne`).

`BridgeProofs`, for every cap, split, schedule and bound of `Conversation`:

* `SingleUse`: `GuardInv` counts the approvals that are still unused.
* `NothingElseForgotten`: `MemoryInv` accounts for each message said so far, in the history and in
  what a compacting thread has read and will write back: known, or dropped by the cap, or erased, or
  lost by a compaction under way. What a thread has read must be accounted for as well, because it
  replaces the history later.

and for any number of assistant threads, diffs and files of `TerminalSession`: `OneTaskAtATime`,
`ProposalsAnsweredOnce`, `ProposalsAreNotLost` follow from `SessionInvariant`.

* Proposals are numbered in the order in which they were made. `ReviewInv` says that whoever is in the
  midst of a review holds the head of the queue, `QueueInv` that a queue about to be installed is newer
  than everything before, `AnswersInv` that a discarded proposal has left the queue as soon as its
  review is settled and that an applied one is stale (its file is newer than what it was made from).
* `PendingInv`: what an answer resolves is the head of the queue, except while a thread has yet to
  present it. That is why a diff applied by one thread cannot be answered again by another.

`MergeReviewProofs`, for any proposals, checkout and edits, provided reviews come one after the other
(`SoleReviewer`; section 6 has what happens otherwise):

* `MergesCanBeRewound`: what is left to be copied is saved, already there, or was saved by a person after
  the checkpoint (`late`), which no checkpoint has.
* `OneMergePerPath`: of the proposals that touch a path at most one is applied. `OverlapInv` says what
  a merge under way may replace. Contents have to be distinct (`ContentsAreDistinct`): two proposals
  with the same content cannot be told apart by a hash.

`ChangesProofs`, for any number of agents, paths, calls, diffs and checkpoints:

* `GuardedMerges` (subagents): `MergeInv` says what a merge under way has compared: whatever it will
  still write is what its workspace was copied from, or was changed in between, and then it is in
  `overtaken`. A merge whose write raised leaves its proposal to be merged again, which is refused because
  of the files already written: only such a refused proposal has written something (`broken`).
* `TaskIsKept`, `ReplacedIsSaved` (tools): `TaskInv` is about the loop of the agent, whose diffs are of the
  path that was named below some root; `FilesInv` about files and checkpoints: each content that was
  replaced is in a checkpoint, unless a person saved it after that was made, and a rewind under way
  (`RestoringInv`) has brought back exactly the files that are not left, of a checkpoint that exists,
  after saving what it replaces in another. A rewind that fails half-way rolls back from that second
  one, which is why the invariant has to speak of both.
* `AgentsAreKept`, `ReplacedCanBeBroughtBack`, `ChangesAreAgreed` (action property): the joined
  properties of `MCChanges`, of its specification, with `MergeReviewProofs` for the reviews. Merges of
  subagents make no checkpoint, so that the second is about diffs, rewinds and the merge queue alone.

`ProcessProofs`, of the specification of `MCProcesses`, for any requests, candidates, tools, tasks, runs
and jobs and any number of calls, launches, failures and deaths. The names of tasks and runs are strings
other than "none", which stands for Python's `None` (`NamesAssumption`); of sandboxes and jobs nothing
is assumed.

* `SandboxesAreHonest`: `SandboxInv` ties what a call knows to the ghost `truth`: the steps of a project
  so far and the exit codes that really occurred (`ExitInv`), a trace in the queue and the draft that
  was executed (`TraceInv`). That a containerised call which came back in time leaves no container
  needs `ContainerInv`: as long as the call waits, its container has a client that waits for it; only a
  client that is killed leaves one.
* `ExitsTellOutcome`, `CheckpointsOnlyAdvance` (action property): `ConsoleInv` says of each process
  where it is in its tasks (`ProcessInv`), what it knows of the checkpoint of its run and of its
  temporary file at each point between two writes (`StoredInv`), that the runs it is done with have all
  their artifacts (`ClosedInv`), and what its counter has counted (`CountInv`). All of it is relative to
  `shared`. The invariant of one process speaks of files which any other may write, so the proof needs
  that a run outside `shared` has one worker (`Exclusive`), and that whoever resumes a run that
  another has finished leaves it as it is, since its session is final (`Leaves`). Between loading a
  checkpoint and beginning with it a process holds a copy, which `KnowsResumed` keeps equal to the file.
* `JobsStayTruthful` (action property): a fold that takes the last status is not monotone over arbitrary
  lines; `OrderInv` says that "running" is the first of the lines of a job, that only "failed" follows
  "completed" and nothing follows "failed", `TaskInv` which lines each point of the background task implies
  and that whoever reports an error after "completed" has seen an append raise, and `TornInv` that nothing
  follows a line that was cut, so that no reader ever comes back from being refused.

Only model-checked:

* liveness, deadlock and `ENABLED`, which are outside the prover's reach;
* folds over sets and sequences, as in repair directives and import resolution, whose induction is over
  data: the library's theorems take an operator as a parameter, which no installed prover instantiates.
  Recursion over numbers, as in `TaskGraphs` and `StructuralWalk`, is proved about with sets of numbers
  instead;
* the order in which contracts are queued (`ContractOrder`): the proofs about specifications hold for
  any plan, so they do not need it;
* two properties of `operators`, `ImportsAreSound` and, but for contract checks, `RepairIsComplete`: they
  compare folds, selections and sorts of violations and path names with an independent definition of the
  same answer, over inputs that TLC enumerates.

## 6. Disagreements

Four runs check one claim of the repository each, and TLC finds a behaviour of the code that
contradicts it; `PROJECT.json` quotes the lines.

| Run | What happens |
|---|---|
| `second_run_drops_edits` | after a retry, a second run overwrites the first one's unreviewed merge queue; the edit stays "succeeded" and is never offered again |
| `journal_numbering` | two journal objects of one session write the same sequence number, after which every opening of the journal raises |
| `diffs_unseen` | an approval has no identity: a key pressed twice approves the next diff, which was not on the screen |
| `cost_cap` | the client never reports a cost, so a cap of one call lets any number through |

More became visible while modelling. They have no run of their own; each follows from one or two
actions of the module named. Paths are below `src/`; `tui_bridge.py` and other bare names of that kind
are in `harness_kernel/`.

Scheduler, documents, reviews:

| What the code says | What it does | Module |
|---|---|---|
| `step()` allows "exactly one additional node dispatch" (`orchestration.py:87`) | two calls before the coroutine runs grant one dispatch: the budget is assigned | `Scheduler!Step` |
| "Sessions can be paused, resumed" (`README.md:156`) | after one `step()` the budget stays zero, and `resume()` leads to the next pause without a dispatch | `Scheduler!StopPass` |
| "completion timing cannot alter later assignments" (`ARCHITECTURE.md:44-45`) | the provider is chosen by a running count, and which node is next depends on which agent finished first | `Scheduler!Dispatch` |
| "cancelled sessions are terminal" (`orchestration_store.py:55`) | approve, revise, step and the end of a run replace that status | `SessionDocuments` |
| "current graph revision is not approved" guards "running" (`orchestration_store.py:52-53`) | step makes an unapproved session "running"; it is still not executed (`ApprovedIsExecuted`) | `SessionDocuments!RequestStep` |
| "Descendants blocked solely by this failure" (`orchestration_store.py:106`) | descendants that another failure also blocks become pending too, until the next run | `SessionDocuments!Retry` |
| retried "with an explicitly selected provider" (`README.md:156`) | the choice is stored, but dispatch uses the rotation | `PersistedRuntime!Execute` |
| "A process that died while running is safely retried" (`orchestration_runtime.py:66`) | with a graph declared child first, dying between two records leaves a node succeeded above a pending dependency | `PersistedRuntime!Record` |
| "recoverable session state" (`docs/FILE_INDEX.md:118`) | two writers share `session.tmp`: a change whose request returned is undone by a concurrent one (`orchestration_store.py:42`), and one may go on writing into `session.json` | `SessionStore!Write` |
| "The JSON/JSONL journal is the source of truth" (`ARCHITECTURE.md:49`) | a crash between the document and the journal leaves a change without its line | `SessionStore!Crash` |
| "Merge review is single-threaded" (`ARCHITECTURE.md:39`) | the endpoint runs in a thread pool (`api/app.py:264`); of two reviews at once, one overwrites a proposal the other has applied | `MergeReview` with two `Reviewers` |
| hashes verified "immediately before applying" (`ARCHITECTURE.md:39-41`) | the trusted tests run in between; an edit saved meanwhile is overwritten, though it is in the checkpoint; one saved after the checkpoint is overwritten and in none (`merge_queue.py:64-70`) | `MergeReview!Validate`, `Edit` |

Also: `pause()` after `cancel()` holds the coroutine up (section 4); the review of a node that a
revision removed raises `StopIteration` (`orchestration_runtime.py:98`); `revise` keeps the states of
nodes by name although their dependencies may have changed (`orchestration_store.py:69`).

Client, bridge, tools:

* `TerminalSession`: a chat error and the end of a run set the mode back to the chat
  but do not give the prompt its focus back (`rust_tui/src/main.rs:427`, `:795`); quitting sends a cancel and then ends the bridge before it can be
  read (`:1034`); the reason why the architect is unavailable is never reset (`tui_bridge.py:1326`),
  and a timeout is not among the errors it is told from; an approved action is lost if the bridge is
  busy (`:1076`); a diff that failed or is stale stays pending while the client is back in the chat; the
  old run's last status may arrive after the new run's first.
* `Conversation`: two compactions, or a compaction and a chat, drop each other's messages, although the
  history claims "[context compacted; full history summarized below]" (`tui_bridge.py:984`). That is
  all that can be lost (`ForgottenOnlyByRace`). The approval of an overage is used up by a call the cap
  would have allowed; a change of the split replaces the telemetry under a call in flight (`:388`);
  failed calls are not recorded (`:847`); tokens billed for answers that were empty and asked for
  again are not counted (`backends/architect_client.py:292`).
* `RepositoryTools`: "Any mutation proposal must use that exact relative path"
  (`agents/tool_calling_agent.py:307`), but the loop compares the text of a call's path with the one the
  task names (`:204`) and not the root that the handlers join it to (`tool_handlers.py:434`, `:504`, `:564`),
  so that a task that names `b` gets a diff of `dir/b` (`Unexpected`);
  a move hashes text that was read with universal newlines when it is proposed
  (`tool_handlers.py:614`) and bytes when it is applied (`:646`), so the move of a file with CR LF lines
  is always refused as changed; a replacement compares text with text (`:485`, `:712`) and writes the
  proposed text, which turns CR LF into LF.
* `RepositoryTools`: what a person saves between the comparison of a diff and its write is overwritten
  and in no checkpoint (`tool_handlers.py:707-725`).
* `SubagentWorkspaces`: comparison and replacement of a file are not atomic, a write that raises leaves the
  files before it written, and there is no checkpoint to go back to (`subagents.py:59-71`).

Generation, specifications, history:

* `Generation`: `session.peer_consultations` is not restored, so a resumed session may consult again
  (`agents/generation_controller.py:986`); a repair that was refused as stagnant is made after a crash
  (`:1843`, `:1970`); a session resumed when its repairs were used up reports
  "repair_strategy_manual_review"; a recorded transform that cannot be applied raises at every resume
  (`:363`), which is why `Terminates` has an exception; a backend that fails at once leaves no terminal
  checkpoint; with a budget of zero such a failure and the architect's draft exceed the budget by one.
* `_worker_contribution` says "whether the small worker actually moved the task forward"
  (`scripts/run_coding_capability.py:229`) and labels a session that only a deterministic transform
  completed "small_repaired".
* `StructuredSpec`: integration with any accepted source says that all contracts were accepted
  (`scripts/run_structured_spec.py:1579`); failed contracts are not tried again when a run is resumed;
  a run resumed with `--no-architect-contracts` replaces the results it loaded by none when it ends
  (`:1510`, `:1629`, `:1701`), which is the exception of `NothingForgotten`;
  each resume of a blocked queue adds a result; a resumed run that had ended integrates again and plans
  again; the smoke test runs the files of contracts (`:1271`).
* `RunHistory`: `history.json` is rewritten in place without a lock, so outcomes are lost and readers
  may meet half a file; one torn line of `runs.jsonl` makes every later run fail after its work
  (`agents/historian.py:493`). `OutcomesAreKept` is about writers one after the other.

Analysis:

* `FindingGates`: a failed dispatch of the linter is reported by "engine-lint"
  (`agents/engine_registry.py:109`), for which the policy has no rule, its key being "engine-5-lint"
  (`validation/policy.py:311`); findings of the compilation have none either; a wildcard import is of
  high severity (`engines/lint_engine.py:151`) and never a violation; complexities are kept by name, so
  of two functions of one name the last counts (`engines/branching_engine.py:40`).
* `RepairDirectives`: directives are grouped by name; a violation in a nested function goes to the
  outermost; the snapshot shows the first violation where the worker is given the top one.
* `StructuralWalk`: the symbols of a redefined function stay, class scopes are seen by methods,
  bindings after their use are not. Only what a module binds to a literal is its state
  (`engines/decomposition_engine.py:374`, `:392`): a change of `x = list()` is not refused, nor is
  `x += [...]` of any `x`, which the visitor records and no engine reads (`:414`,
  `engines/hazards_engine.py:338-350`).
* `ImportGraph`: a relative import of Python is accepted whatever it names (`validation/import_graph.py:129`,
  `:238`, `:279`), and so is a plain import of a module that a standard package does not have, as
  `import json.nope` (`:238`); ".." is never collapsed; `crate`, `self` and `super` start in the importing file's
  directory; `from package import submodule` is refused; one file of another language switches the
  checks of Python off (`validation/import_graph.py:36-39`); a contract on a file that is absent or
  does not parse is skipped (`:172`).

Processes:

* `Sandbox`: "terminates the whole child process group on timeout" (`local_sandbox.py:7-8`), but not
  if the child ends between the timeout and the next look (`:192`); a container that timed out goes on
  (`container_sandbox.py:474`) and may write into a later validation's workspace; a trace larger than
  the pipe makes a correct candidate time out (`validation/behavior.py:190`).
* `RunConsole`: a stale list makes a second launch watch the first one's run (`TUI/app.py:314`, `:423`);
  the log is drawn again only when the number of attempts changes; two processes on one run share
  the name of the temporary checkpoint, and the second rename raises.
* `BackgroundJobs`: a job whose process died stays "running"; one torn line, also that of an append that
  raised in a living server, makes every job unreadable; an append that raises in `fsync` has stored its
  line (`agents/job_store.py:78-80`), so that a job said to be completed is then said to have failed
  (`api/app.py:106-116`).
* `MountPolicy`: "Trusted tests are accepted only as a distinct read-only directory"
  (`project_validation.py:75`), but nothing asks whether they are distinct from the project (`:90`): tests
  inside it can be changed through `/workspace`. "Collapse redundant slashes / dots" (`container_sandbox.py:60`) leaves "..", so that
  `/workspace/../etc` passes as a place below `/workspace`; sources are compared with the blocked paths as
  a whole (`:92`), so that `/etc/ssl` passes.

## 7. Abstractions

* Hash equality is equality; contents are named values. Texts are what the properties tell apart.
* A run of a graph appends one journal line where the code appends several; numbering behaves the same.
  A journal line is appended whole.
* Copying of trees is one step: workspaces, snapshots, a subagent's copy with its hashes. A copy of one
  file is atomic. Temporary directories are not cleaned up.
* A person's edit is not inside the copy of one file, or the write of one. Between any two of them it may
  be: after a comparison, after a checkpoint, between the copies of a merge or a rewind.
* What rolls back a rewind that failed half-way does not fail itself (`checkpoints.py:115-122`).
* `PersistedRuntime` has one runtime at a time; `OrchestrationSession.run` of two runtimes would
  share directories. Only tests call `run` today. Agents may only succeed, fail or be left behind;
  raising is failing, as in the code. An agent that raises `CancelledError` by itself is left out.
* Revising keeps node states by name, so closure and blocked causes are stated for sessions never
  revised (`Settled`).
* Threads of one interpreter are switched between steps of the model, not inside one; appending to the
  history and trimming it is one step.
* `TerminalSession` leaves the checkpoint before an approved diff to `RepositoryTools`.
* `Conversation` does not count a change of the split that changes nothing.
* `Generation` has no provider schedule (`contribution_split` is `None` by default). The fault
  `lint_skipped` is a value of the module but not of the run's instance. Of `_worker_contribution` only
  the label is modelled.
* `StructuredSpec` has runs with `--save-artifacts` only; others have nothing to resume.
* `SubagentWorkspaces`: a proposal is merged successfully once.
* `Sandbox`: podman, an unusable runtime and candidates that leave their process group are left out, so
  that "whatever its candidate started" is said of the group; `process.join()` after `terminate()`
  (`validation/behavior.py:193`) has no limit of its own and is taken to return.
* `MountPolicy`: components of paths are names; what a symbolic link inside a container would lead to is
  left out. A name that merely contains "docker.sock" counts as any other, though the last scan would refuse
  it.
* `RunConsole`: what follows a launch of the same process is a resumption; `RunIds` bounds the runs; a
  task's final artifacts are two files; `--continue-after-failure` is left out.
* `BackgroundJobs`: a torn line swallows what is appended after it. A line that was cut just before its
  end of line, which could still be read until the next one is appended to it, is not distinguished from
  one that was cut before.
* `RepairDirectives`: of several violations of equal rank any may be the top one.
* `StructuralWalk`: a record of state flow is written when its function is left. `global` appears as a
  statement, not as what binds a name; the targets of `for`, `async for` and `except ... as` bind nothing.

## 8. Not modelled and plan

| Part | Why not |
|---|---|
| Planning, prompts, routing, repository map (`agents/plan_mode.py`, `prompt/`, `routing/`, `agents/repo_map_agent.py`) | regular expressions over prompts and composition of text; a model would restate them |
| Configuration, benchmarks, reports | files read once, batch programs that run other parts one after the other |
| Wire formats of the model clients, ranking of search results, parsing of source text, Pylint's rules | conversions whose content is the text itself |
| Drawing and text editing in the client, the browser of runs in the bridge | no shared state |
| Roles and permissions | constant tables; their answers are values in `RepositoryTools` and `MergeReview` |
| Blobs, redaction and torn lines of the event journal | a reader refuses them and nothing else depends on them |

What could follow, most valuable first: the soundness of import resolution for any paths; that the
controller's specification refines an abstract session of bounded attempts; the provider schedule inside
`Generation`; `--continue-after-failure`.
