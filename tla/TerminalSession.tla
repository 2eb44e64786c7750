--------------------------- MODULE TerminalSession ---------------------------
(***************************************************************************)
(* The terminal client (rust_tui) and the bridge it starts                  *)
(* (harness_kernel/tui_bridge.py), joined by two pipes of JSON lines.  The  *)
(* bridge's main thread answers commands in order; a chat runs on a thread  *)
(* of its own and leaves proposed diffs, which the person reviews one by    *)
(* one; an approved specification becomes a child process.                  *)
(*                                                                          *)
(* A person types requests and presses keys whenever the client takes them. *)
(* Models and tools answer with anything.  A proposal is reduced to its     *)
(* path and the version of the file it was made from, which stands for the  *)
(* hash that is compared when it is applied.  The checkpoint taken before a  *)
(* proposal is applied is left to Conversation.                             *)
(***************************************************************************)
EXTENDS Naturals, Sequences, FiniteSets

CONSTANTS
    Local,          \* requests served by the local model without permission
    Risky,          \* local requests that need the person's permission first
    Plain,          \* questions for the API model
    Planning,       \* requests that open a questionnaire
    Tools,          \* requests of the /tools command
    Paths,          \* files that may be changed
    Modes,          \* permission modes the person may choose
    Workers,        \* places for assistant threads
    MaxKeys,        \* bound on what the person does
    MaxDiffs,       \* bound on proposals
    None

Requests == Local \cup Risky \cup Plain \cup Planning \cup Tools

ASSUME RequestsAssumption ==
    /\ \A s, t \in {Local, Risky, Plain, Planning, Tools} : (s # t) => (s \cap t = {})
    /\ None \notin Requests
    /\ Modes \subseteq {"default", "accept_edits", "plan", "dont_ask"}
    /\ MaxKeys \in Nat /\ MaxDiffs \in Nat

VARIABLES
    client,         \* what AppState keeps: mode, what it shows, typing, busy
    commands,       \* lines on the bridge's stdin
    events,         \* lines on its stdout that the client has not read
    bridge,         \* busy, pending, diffs, action, permission, history, unavailable
    thread,         \* thread[t]: the main thread and the assistant threads
    child,          \* the harness subprocess and the reports still owed
    files,          \* files[p]: version of p
    made,           \* proposals made so far
    keys,           \* what the person has done so far
    answers         \* history: every proposal applied or discarded, every action
                    \* started, with what the person had on the screen

vars == <<client, commands, events, bridge, thread, child, files, made, keys, answers>>

Main == "main"
Threads == {Main} \cup Workers

ASSUME ThreadsAssumption == Main \notin Workers

Idle == [pc |-> "idle"]

Started ==
    [alive |-> TRUE, busy |-> FALSE, pending |-> None, diffs |-> <<>>, action |-> None,
     permission |-> "default", history |-> "empty", unavailable |-> FALSE]

Init ==
    /\ client = [mode |-> "chat", shown |-> None, typing |-> TRUE, busy |-> FALSE, alive |-> TRUE]
    /\ commands = <<>> /\ events = <<>>
    /\ bridge = Started
    /\ thread = [t \in Threads |-> Idle]
    /\ child = [state |-> "none", owed |-> 0]
    /\ files = [p \in Paths |-> 0]
    /\ made = 0 /\ keys = 0
    /\ answers = {}
-----------------------------------------------------------------------------
(* The client.  Keys do nothing where no action below is enabled.           *)

Press ==
    /\ client.alive
    /\ keys < MaxKeys
    /\ keys' = keys + 1
    /\ UNCHANGED <<events, bridge, thread, child, files, made, answers>>

Send(command) == commands' = Append(commands, command)

\* Enter with a message.
Type(text) ==
    /\ Press
    /\ client.typing /\ ~client.busy
    /\ Send([cmd |-> "chat", text |-> text])
    /\ UNCHANGED client

\* Enter with /spec, /research or /mode.
TypeCommand(c) ==
    /\ Press
    /\ client.typing /\ ~client.busy
    /\ Send(c)
    /\ client' = IF c.cmd = "draft_spec" THEN [client EXCEPT !.mode = "drafting"] ELSE client

SlashCommands ==
    {[cmd |-> "draft_spec"], [cmd |-> "draft_research"]} \cup
    {[cmd |-> "set_permission_mode", mode |-> m] : m \in Modes}

\* The last answer of a questionnaire.
CompleteQuestionnaire ==
    /\ Press
    /\ client.mode = "questionnaire" /\ ~client.typing /\ ~client.busy
    /\ Send([cmd |-> "questionnaire_complete"])
    /\ client' = [client EXCEPT !.mode = "drafting"]

Answer(yes) == [approved |-> yes, seen |-> client.shown]

ApproveAction(yes) ==
    /\ Press
    /\ client.mode = "action" /\ ~client.typing
    /\ Send([cmd |-> "approve_action", answer |-> Answer(yes)])
    /\ client' = [client EXCEPT !.mode = "chat", !.typing = TRUE]

\* The review stays on the screen until the bridge reports the result.
ApplyToolDiff(yes) ==
    /\ Press
    /\ client.mode = "diff" /\ ~client.typing
    /\ Send([cmd |-> "apply_tool_diff", answer |-> Answer(yes)])
    /\ UNCHANGED client

ExecuteSpec ==
    /\ Press
    /\ client.mode = "spec" /\ ~client.typing
    /\ Send([cmd |-> "execute_spec"])
    /\ client' = [client EXCEPT !.mode = "executing"]

\* Escape, or n in a specification's review.
Leave ==
    /\ Press
    /\ client.mode \in {"questionnaire", "spec", "research"} /\ ~client.typing
    /\ client' = [client EXCEPT !.mode = "chat", !.typing = TRUE]
    /\ UNCHANGED commands

\* Control-C is a key of the prompt only.
Quit ==
    /\ Press
    /\ client.typing
    /\ Send([cmd |-> "cancel"])
    /\ client' = [client EXCEPT !.alive = FALSE]

\* main() kills the bridge once the loop has ended; its threads and the pipes
\* go with it, the subprocess does not.
KillBridge ==
    /\ ~client.alive /\ bridge.alive
    /\ bridge' = [Started EXCEPT !.alive = FALSE]
    /\ thread' = [t \in Threads |-> Idle]
    /\ commands' = <<>> /\ events' = <<>>
    /\ UNCHANGED <<client, child, files, made, keys, answers>>

\* AppState::apply, as far as it decides what keys do next.
Applied(e) ==
    CASE e.type = "status"        -> [client EXCEPT !.busy = e.busy]
      [] e.type = "error"         -> [client EXCEPT !.busy = FALSE, !.mode = "chat"]
      [] e.type = "action"        -> [client EXCEPT !.mode = "action", !.shown = e.text, !.typing = FALSE]
      [] e.type = "questionnaire" -> [client EXCEPT !.mode = "questionnaire", !.typing = FALSE]
      [] e.type \in {"spec", "research"} ->
            [client EXCEPT !.mode = e.type, !.typing = FALSE, !.busy = FALSE]
      [] e.type = "diff"          -> [client EXCEPT !.mode = "diff", !.shown = e.diff, !.typing = FALSE]
      [] e.type = "resolved"      -> [client EXCEPT !.mode = "chat", !.typing = TRUE]
      [] e.type = "done"          -> IF client.mode = "executing"
                                     THEN [client EXCEPT !.mode = "chat"] ELSE client

ReadEvent ==
    /\ client.alive
    /\ events # <<>>
    /\ client' = Applied(Head(events))
    /\ events' = Tail(events)
    /\ UNCHANGED <<commands, bridge, thread, child, files, made, keys, answers>>
-----------------------------------------------------------------------------
(* The bridge's main thread.                                                *)

MainReady == bridge.alive /\ thread[Main] = Idle /\ commands # <<>>
Emit(e) == events' = Append(events, e)
Status(b) == [type |-> "status", busy |-> b]

\* PermissionEvaluator.evaluate.
Evaluate(capability) ==
    IF bridge.permission = "dont_ask" THEN "deny"
    ELSE IF capability = "read" THEN "allow"
    ELSE IF bridge.permission = "plan" THEN "deny"
    ELSE IF bridge.permission = "accept_edits" /\ capability = "write" THEN "allow"
    ELSE "ask"

UsesApi(text) == text \in Plain \cup Planning \cup Tools

StartAssistantTask(b, task) ==
    \E w \in Workers :
        /\ thread[w] = Idle
        /\ thread' = [thread EXCEPT ![w] = [pc |-> "run", task |-> task]]
        /\ bridge' = [b EXCEPT !.busy = TRUE]
        /\ Emit(Status(TRUE))

\* What a message meets before its task is started: it is turned away, denied
\* by the permission mode, or kept until the person has given permission.
TurnedAway_Mutant(text) == text \in Planning /\ bridge.unavailable

TurnedAway(text) == bridge.busy \/ (text \in Planning /\ bridge.unavailable)

Denied(text, approved) ==
    \/ text \in Risky /\ Evaluate("write") = "deny"
    \/ text \in Tools /\ Evaluate("read") = "deny"
    \/ UsesApi(text) /\ ~approved /\ Evaluate("network") = "deny"

NeedsPermission(text, approved) ==
    ~approved /\ (text \in Risky \/ (UsesApi(text) /\ Evaluate("network") = "ask"))

\* start_chat, and start_tool_task for Tools; b is the bridge's state before.
StartChat(b, text, approved) ==
    \/ /\ TurnedAway(text)
       /\ bridge' = IF b.busy \/ b.history # "empty" THEN b ELSE [b EXCEPT !.history = "notes"]
       /\ UNCHANGED <<events, thread>>
    \/ /\ ~TurnedAway(text) /\ Denied(text, approved)
       /\ bridge' = b
       /\ Emit([type |-> "error"])
       /\ UNCHANGED thread
    \/ /\ ~TurnedAway(text) /\ ~Denied(text, approved) /\ NeedsPermission(text, approved)
       /\ bridge' = [b EXCEPT !.action = text]
       /\ Emit([type |-> "action", text |-> text])
       /\ UNCHANGED thread
    \/ /\ ~TurnedAway(text) /\ ~Denied(text, approved) /\ ~NeedsPermission(text, approved)
       /\ StartAssistantTask(IF text \in Tools
                             THEN [b EXCEPT !.history = "talk", !.pending = None, !.diffs = <<>>]
                             ELSE [b EXCEPT !.history = "talk"], text)

Handle(kind) ==
    /\ MainReady
    /\ Head(commands).cmd = kind
    /\ commands' = Tail(commands)
    /\ UNCHANGED <<client, files, made, keys>>

Chat ==
    /\ Handle("chat")
    /\ StartChat(bridge, Head(commands).text, FALSE)
    /\ UNCHANGED <<child, answers>>

\* The permission is used up, even if the task cannot start now.
ResolveActionApproval ==
    /\ Handle("approve_action")
    /\ LET a == Head(commands).answer
       IN IF bridge.action # None /\ a.approved
          THEN /\ StartChat([bridge EXCEPT !.action = None], bridge.action, TRUE)
               /\ answers' = answers \cup {[what |-> bridge.action, how |-> "started", seen |-> a.seen]}
          ELSE /\ bridge' = [bridge EXCEPT !.action = None]
               /\ UNCHANGED <<events, thread, answers>>
    /\ UNCHANGED child

\* start_spec_draft, start_research and complete_questionnaire.
StartDraft ==
    /\ \/ Handle("draft_spec") /\ bridge.history # "empty"
       \/ Handle("draft_research") /\ bridge.history = "talk"
       \/ Handle("questionnaire_complete")
    /\ ~bridge.busy
    /\ StartAssistantTask([bridge EXCEPT !.history = IF @ = "empty" THEN "talk" ELSE @],
           IF Head(commands).cmd = "draft_research" THEN "research" ELSE "spec")
    /\ UNCHANGED <<child, answers>>

IgnoreDraft ==
    /\ \/ Handle("draft_spec") /\ (bridge.busy \/ bridge.history = "empty")
       \/ Handle("draft_research") /\ (bridge.busy \/ bridge.history # "talk")
       \/ Handle("questionnaire_complete") /\ bridge.busy
    /\ UNCHANGED <<events, bridge, thread, child, answers>>

SetPermissionMode ==
    /\ Handle("set_permission_mode")
    /\ bridge' = [bridge EXCEPT !.permission = Head(commands).mode]
    /\ UNCHANGED <<events, thread, child, answers>>

\* start_run: one live subprocess; its process and its log reader outlive it.
ExecuteRun ==
    /\ Handle("execute_spec")
    /\ child' = IF child.state \in {"running", "stopping"} THEN child
                ELSE [child EXCEPT !.state = "running"]
    /\ UNCHANGED <<events, bridge, thread, answers>>

Cancel ==
    /\ Handle("cancel")
    /\ child' = IF child.state = "running" THEN [child EXCEPT !.state = "stopping"] ELSE child
    /\ UNCHANGED <<events, bridge, thread, answers>>

\* The subprocess ends by itself or is terminated.
RunExits ==
    /\ child.state \in {"running", "stopping"}
    /\ child' = [state |-> "exited", owed |-> child.owed + 1]
    /\ UNCHANGED <<client, commands, events, bridge, thread, files, made, keys, answers>>

ForwardRun ==
    /\ bridge.alive
    /\ child.owed > 0
    /\ child' = [child EXCEPT !.owed = @ - 1]
    /\ Emit([type |-> "done"])
    /\ UNCHANGED <<client, commands, bridge, thread, files, made, keys, answers>>
-----------------------------------------------------------------------------
(* Reviewing proposals, on the main thread or, if edits are accepted         *)
(* beforehand, on the assistant thread that proposed them.                   *)

Goto(t, pc) == thread' = [thread EXCEPT ![t].pc = pc]
After(t) == IF t = Main THEN Idle ELSE [thread[t] EXCEPT !.pc = "release"]

\* resolve_tool_diff reads the pending proposal.
ResolveToolDiff ==
    /\ Handle("apply_tool_diff")
    /\ LET a == Head(commands).answer
       IN IF bridge.pending = None
          THEN UNCHANGED <<events, thread>>
          ELSE IF a.approved /\ Evaluate("write") = "deny"
          THEN Emit([type |-> "resolved"]) /\ UNCHANGED thread
          ELSE /\ thread' = [thread EXCEPT ![Main] =
                     [pc |-> "apply", diff |-> bridge.pending, approved |-> a.approved, seen |-> a.seen]]
               /\ UNCHANGED events
    /\ UNCHANGED <<bridge, child, answers>>

Unchanged_Mutant(d) == TRUE

\* The hash comparison of apply_reviewed_*.
Unchanged(d) == files[d.path] = d.base

Record(t, how) ==
    answers' = answers \cup {[what |-> thread[t].diff, how |-> how, seen |-> thread[t].seen]}

Apply(t) ==
    /\ bridge.alive /\ thread[t].pc = "apply"
    /\ IF thread[t].approved
       THEN /\ Unchanged(thread[t].diff)
            /\ files' = [files EXCEPT ![thread[t].diff.path] = @ + 1]
            /\ Record(t, "applied")
       ELSE /\ Record(t, "discarded")
            /\ UNCHANGED files
    /\ Goto(t, "settle")
    /\ UNCHANGED <<client, commands, events, bridge, child, made, keys>>

\* A changed file or a failing file operation; the proposal stays pending.
ApplyRaises(t) ==
    /\ bridge.alive /\ thread[t].pc = "apply"
    /\ thread[t].approved
    /\ Emit([type |-> "resolved"])
    /\ thread' = [thread EXCEPT ![t] = After(t)]
    /\ UNCHANGED <<client, commands, bridge, child, files, made, keys, answers>>

SettleDropsHead_Mutant(t) ==
    /\ bridge.alive /\ thread[t].pc = "settle"
    /\ bridge' = [bridge EXCEPT !.pending = None, !.diffs = IF @ = <<>> THEN @ ELSE Tail(@)]
    /\ Emit([type |-> "resolved"])
    /\ Goto(t, "present")
    /\ UNCHANGED <<client, commands, child, files, made, keys, answers>>

Settle(t) ==
    /\ bridge.alive /\ thread[t].pc = "settle"
    /\ bridge' = [bridge EXCEPT !.pending = None,
           !.diffs = IF @ # <<>> /\ Head(@) = thread[t].diff THEN Tail(@) ELSE @]
    /\ Emit([type |-> "resolved"])
    /\ Goto(t, "present")
    /\ UNCHANGED <<client, commands, child, files, made, keys, answers>>

\* An automatic approval that forgets to present the next proposal.
PresentNextToolDiff_Mutant(t) ==
    /\ bridge.alive /\ thread[t].pc = "present"
    /\ thread' = [thread EXCEPT ![t] = After(t)]
    /\ UNCHANGED <<client, commands, events, bridge, child, files, made, keys, answers>>

PresentNextToolDiff(t) ==
    /\ bridge.alive /\ thread[t].pc = "present"
    /\ IF bridge.diffs = <<>>
       THEN /\ thread' = [thread EXCEPT ![t] = After(t)]
            /\ UNCHANGED <<bridge, events>>
       ELSE LET d == Head(bridge.diffs)
            IN /\ bridge' = [bridge EXCEPT !.pending = d]
               /\ Emit([type |-> "diff", diff |-> d])
               /\ thread' = [thread EXCEPT ![t] =
                     IF bridge.permission # "accept_edits" THEN After(t)
                     ELSE [pc |-> "apply", diff |-> d, approved |-> TRUE, seen |-> None]]
    /\ UNCHANGED <<client, commands, child, files, made, keys, answers>>
-----------------------------------------------------------------------------
(* Assistant threads.                                                       *)

Work(w, pc) ==
    /\ bridge.alive
    /\ thread[w].pc = pc
    /\ UNCHANGED <<client, commands, child, files, keys, answers>>

\* Proposals for the files ps, in this order, from their contents now.
ProposalsFor(ps) == [i \in DOMAIN ps |-> [id |-> made + i, path |-> ps[i], base |-> files[ps[i]]]]

\* The tool-calling agent returns with what it has prepared, perhaps nothing.
ToolsReturn(w) ==
    /\ Work(w, "run")
    /\ thread[w].task \in Requests
    /\ \E ps \in UNION {[1 .. n -> Paths] : n \in 0 .. 2} :
          /\ made + Len(ps) <= MaxDiffs
          /\ thread[w].task \in Planning => ps = <<>>
          /\ made' = made + Len(ps)
          /\ thread' = [thread EXCEPT ![w] =
                IF ps = <<>> THEN [pc |-> "release"] ELSE [pc |-> "queue", proposals |-> ProposalsFor(ps)]]
    /\ UNCHANGED <<bridge, events>>

QueueToolDiffs(w) ==
    /\ Work(w, "queue")
    /\ bridge' = [bridge EXCEPT !.pending = None, !.diffs = thread[w].proposals]
    /\ Goto(w, "present")
    /\ UNCHANGED <<events, made>>

\* A questionnaire, a specification or a research note.
Draft(w) ==
    /\ Work(w, "run")
    /\ thread[w].task \in Planning \cup {"spec", "research"}
    /\ Emit([type |-> IF thread[w].task \in Planning THEN "questionnaire" ELSE thread[w].task])
    /\ thread' = [thread EXCEPT ![w] = [pc |-> "release"]]
    /\ UNCHANGED <<bridge, made>>

\* A model that cannot be reached is remembered; other failures are reported.
TaskFails(w) ==
    /\ Work(w, "run")
    /\ \/ /\ thread[w].task \in Plain \cup Planning
          /\ bridge' = [bridge EXCEPT !.unavailable = TRUE]
          /\ UNCHANGED events
       \/ Emit([type |-> "error"]) /\ UNCHANGED bridge
    /\ thread' = [thread EXCEPT ![w] = [pc |-> "release"]]
    /\ UNCHANGED made

\* The flag falls first; the report may come after another task's.
Release(w) ==
    /\ Work(w, "release")
    /\ bridge' = [bridge EXCEPT !.busy = FALSE]
    /\ Goto(w, "report")
    /\ UNCHANGED <<events, made>>

ReportIdle_Mutant(w) ==
    /\ Work(w, "report")
    /\ thread' = [thread EXCEPT ![w] = Idle]
    /\ UNCHANGED <<bridge, events, made>>

ReportIdle(w) ==
    /\ Work(w, "report")
    /\ Emit(Status(FALSE))
    /\ thread' = [thread EXCEPT ![w] = Idle]
    /\ UNCHANGED <<bridge, made>>
-----------------------------------------------------------------------------
Person ==
    \/ \E text \in Requests : Type(text)
    \/ \E c \in SlashCommands : TypeCommand(c)
    \/ \E yes \in BOOLEAN : ApproveAction(yes) \/ ApplyToolDiff(yes)
    \/ CompleteQuestionnaire \/ ExecuteSpec \/ Leave \/ Quit

HandleCommand ==
    \/ Chat \/ ResolveActionApproval \/ StartDraft \/ IgnoreDraft
    \/ SetPermissionMode \/ ExecuteRun \/ Cancel \/ ResolveToolDiff

Review(t) == Apply(t) \/ ApplyRaises(t) \/ Settle(t) \/ PresentNextToolDiff(t)

Assist(w) ==
    \/ ToolsReturn(w) \/ QueueToolDiffs(w) \/ Draft(w) \/ TaskFails(w)
    \/ Release(w) \/ ReportIdle(w)

Next ==
    \/ Person \/ ReadEvent \/ KillBridge
    \/ HandleCommand
    \/ RunExits \/ ForwardRun
    \/ \E t \in Threads : Review(t)
    \/ \E w \in Workers : Assist(w)

Spec == Init /\ [][Next]_vars

\* The client keeps reading, the bridge keeps handling commands, and models,
\* tools and subprocesses return (each has a timeout).  The person need not
\* do anything.
FairSpec ==
    /\ Spec
    /\ WF_vars(ReadEvent) /\ WF_vars(HandleCommand) /\ WF_vars(RunExits) /\ WF_vars(ForwardRun)
    /\ \A t \in Threads : WF_vars(Review(t))
    /\ \A w \in Workers : WF_vars(Assist(w))
-----------------------------------------------------------------------------
(* Properties *)

Working(w) == thread[w].pc \notin {"idle", "report"}

\* The flag that only the main thread raises and only an assistant thread
\* lowers says exactly whether an assistant works, and never two do.
OneTask ==
    /\ bridge.busy <=> \E w \in Workers : Working(w)
    /\ \A v, w \in Workers : Working(v) /\ Working(w) => v = w

\* The queue keeps its order: whenever no thread is in the middle of a review, the
\* proposal the bridge would resolve is the first of its queue, whatever was
\* replaced meanwhile; no proposal is applied twice, and one that was discarded
\* on the main thread is never offered again (tui_bridge.py:1029, :1047).
AnsweredOnce ==
    /\ (\A t \in Threads : thread[t].pc \notin {"apply", "settle", "present", "queue"}) =>
          bridge.pending = IF bridge.diffs = <<>> THEN None ELSE Head(bridge.diffs)
    /\ \A a, b \in answers : a.how = "applied" /\ b.how = "applied" /\ a.what = b.what => a = b
    /\ \A a \in answers : a.how = "discarded" /\ thread[Main] = Idle =>
          \A i \in DOMAIN bridge.diffs : bridge.diffs[i] # a.what

\* A proposal leaves the queue only when it has been answered or when a later
\* task replaces the queue.
DiffsAreNotLost ==
    [][\A i \in DOMAIN bridge.diffs :
          LET d == bridge.diffs[i]
          IN (\A j \in DOMAIN bridge'.diffs : bridge'.diffs[j] # d) =>
                \/ \E a \in answers : a.what = d
                \/ ~bridge'.alive
                \/ \E w \in Workers : thread[w].pc = "queue" \/ (thread[w] = Idle /\ thread'[w].pc = "run")
      ]_bridge

\* Every task ends, and in the end the client's busy mark agrees with the
\* bridge's, although reports of two tasks may arrive in the wrong order.
BusySettles == <>[](client.alive => ~bridge.busy /\ ~client.busy)

\* What a person approves is what the screen showed when the key was pressed.
ApprovedAsShown == \A a \in answers : a.how \in {"applied", "started"} => a.seen \in {a.what, None}
=============================================================================
