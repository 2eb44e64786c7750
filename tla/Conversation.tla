---------------------------- MODULE Conversation ----------------------------
(***************************************************************************)
(* What the bridge's assistant remembers and spends: the chat history with  *)
(* its compaction and rewinds (tui_bridge), the provider each call goes to   *)
(* and the guard of the API's cost (contribution), and the retries of the    *)
(* two model clients (architect_client, ollama_client). Three threads share  *)
(* the history without a lock: the one that reads commands, the assistant's  *)
(* worker and the thread of /compact.                                        *)
(***************************************************************************)
EXTENDS Naturals, Sequences, SequencesExt, FiniteSets

CONSTANTS
    Splits,         \* shares of the local model, in percent
    Phase,          \* where the schedule of this process starts
    SavedCap, Caps, \* the cost cap that was saved, and those the person may set, in calls
    Attempts,       \* retry_attempts of the architect client
    Kinds,          \* "api", "local" and "auto": who answers a task
    MaxHistory,     \* MAX_CHAT_MESSAGES
    MinToCompact,   \* a shorter history is not compacted by itself
    MaxSaid, MaxBilled, MaxApprovals, MaxCommands  \* bounds of the model

ASSUME LimitsAssumption == Attempts \in Nat \ {0} /\ MaxHistory \in Nat \ {0}

VARIABLES
    history,      \* messages, and summaries of messages
    said,         \* how many messages there have been
    erased,       \* history: messages the person cleared or rewound
    raced,        \* history: messages that came or went during a compaction
    saved,        \* the conversation kept with a checkpoint
    worker,       \* the assistant's task
    compactor,    \* the thread of /compact, and what it has read
    compacting,   \* _compaction_in_progress
    split, scheduled,           \* the contribution split and its telemetry
    cap, spent, overage,        \* the cost guard
    billed, unapproved, approvals, orders  \* history: calls that were paid, ...

conversation == <<history, said, erased, raced, saved, worker, compactor, compacting, split, scheduled,
                  cap, spent, overage, billed, unapproved, approvals, orders>>

memory == <<history, said, erased, raced, orders>>
provider == <<split, scheduled>>
money == <<cap, spent, overage, billed, unapproved, approvals>>

Free == [pc |-> "idle"]
Message(id) == [covers |-> {id}, summary |-> FALSE]
Known(h) == UNION {h[i].covers : i \in DOMAIN h}

ConversationInit ==
    /\ history = <<>> /\ said = 0 /\ erased = {} /\ raced = {} /\ saved = <<>>
    /\ worker = Free /\ compactor = Free /\ compacting = FALSE
    /\ split \in Splits /\ scheduled = <<>>
    /\ cap = SavedCap /\ spent = 0 /\ overage = FALSE
    /\ billed = 0 /\ unapproved = 0 /\ approvals = 0 /\ orders = 0

\* Between reading the history and replacing it.
Reading == "summarising" \in {worker.pc, compactor.pc}
Raced(ids) == IF Reading THEN raced \cup ids ELSE raced

\* The last MAX_CHAT_MESSAGES; what falls off is gone for good.
Trimmed(h) == IF Len(h) > MaxHistory THEN SubSeq(h, Len(h) - MaxHistory + 1, Len(h)) ELSE h

Say ==
    LET all == Append(history, Message(said + 1))
        dropped == Known(all) \ Known(Trimmed(all))
    IN /\ said < MaxSaid
       /\ said' = said + 1
       /\ history' = Trimmed(all)
       /\ erased' = erased \cup dropped
       /\ raced' = Raced({said + 1} \cup dropped)
       /\ UNCHANGED orders
-----------------------------------------------------------------------------
(* Commands, on the thread that reads them *)

\* A message starts a task: plain chat and planning send the transcript to the
\* API, a local request stays local, a tool task goes by the schedule.
Ask ==
    /\ worker = Free
    /\ Say
    /\ \E kind \in Kinds : worker' = [pc |-> "choose", kind |-> kind]
    /\ UNCHANGED <<saved, compactor, compacting, provider, money>>

\* A conversation is compacted at any time, but not twice at once.
CompactContext ==
    /\ compactor = Free /\ ~compacting
    /\ compacting' = TRUE
    /\ compactor' = [pc |-> "read"]
    /\ UNCHANGED <<memory, saved, worker, provider, money>>

Counted == orders < MaxCommands /\ orders' = orders + 1

Erase(kept) ==
    /\ Counted
    /\ history' = kept
    /\ erased' = (erased \cup Known(history)) \ Known(kept)
    /\ raced' = Raced(Known(history) \cup Known(kept))
    /\ UNCHANGED said

ClearContext ==
    /\ history # <<>>
    /\ Erase(<<>>)
    /\ UNCHANGED <<saved, worker, compactor, compacting, provider, money>>

SaveConversation ==
    /\ saved = <<>> /\ history # <<>>
    /\ Counted
    /\ saved' = history
    /\ UNCHANGED <<history, said, erased, raced, worker, compactor, compacting, provider, money>>

RewindConversation ==
    /\ saved # <<>> /\ history # saved
    /\ Erase(saved)
    /\ UNCHANGED <<saved, worker, compactor, compacting, provider, money>>

\* Telemetry and schedule start again, whatever call is on its way.
SetContributionSplit ==
    /\ Counted
    /\ split' \in Splits
    /\ scheduled' = <<>>
    /\ provider' # provider   \* what starts nothing again is not counted
    /\ UNCHANGED <<history, said, erased, raced, saved, worker, compactor, compacting, money>>

SaveProviderSettings ==
    /\ Counted
    /\ cap' \in Caps \ {cap}
    /\ UNCHANGED <<history, said, erased, raced, saved, worker, compactor, compacting, split, scheduled,
                   spent, overage, billed, unapproved, approvals>>

ApproveOverage(yes) ==
    /\ overage # yes /\ approvals < MaxApprovals
    /\ overage' = yes
    /\ approvals' = IF yes THEN approvals + 1 ELSE approvals
    /\ UNCHANGED <<memory, saved, worker, compactor, compacting, provider, cap, spent, billed, unapproved>>
-----------------------------------------------------------------------------
(* One call of the worker *)

\* WeightedSchedule.provider_at
ProviderAt(index, share) == IF (Phase + index * 37) % 100 < share THEN "qwen" ELSE "api"

Then(pc) == worker' = [pc |-> pc, kind |-> worker.kind, to |-> worker.to]
Others == UNCHANGED <<saved, compactor, compacting>>

Choose ==
    /\ worker.pc = "choose"
    /\ LET to == CASE worker.kind = "api" -> "api"
                   [] worker.kind = "local" -> "qwen"
                   [] OTHER -> ProviderAt(Len(scheduled), split)
       IN worker' = [pc |-> IF to = "api" THEN "guard" ELSE "ask locally", kind |-> worker.kind, to |-> to]
    /\ Others /\ UNCHANGED <<memory, provider, money>>

\* ApiCostGuard.decision, for a call estimated at one.
Decision == IF spent + 1 > cap /\ ~overage THEN "approval_required" ELSE "allowed"

GuardRefuses ==
    /\ worker.pc = "guard" /\ Decision = "approval_required"
    /\ Then("report")
    /\ Others /\ UNCHANGED <<memory, provider, money>>

GuardAllows_Mutant ==
    /\ worker.pc = "guard" /\ Decision = "allowed"
    /\ unapproved' = IF spent + 1 > cap THEN unapproved + 1 ELSE unapproved
    /\ worker' = [pc |-> "post", kind |-> worker.kind, to |-> worker.to, attempt |-> 1]
    /\ Others /\ UNCHANGED <<memory, provider, cap, spent, overage, billed, approvals>>

\* Any call that is let through uses up the approval.
GuardAllows ==
    /\ worker.pc = "guard" /\ Decision = "allowed"
    /\ overage' = FALSE
    /\ unapproved' = IF spent + 1 > cap THEN unapproved + 1 ELSE unapproved
    /\ worker' = [pc |-> "post", kind |-> worker.kind, to |-> worker.to, attempt |-> 1]
    /\ Others /\ UNCHANGED <<memory, provider, cap, spent, billed, approvals>>

\* A post is paid for unless it never got through; an empty or malformed answer,
\* a timeout, a 429 or 5xx and a broken connection are tried again.
Post(outcome) ==
    /\ worker.pc = "post"
    /\ billed' = IF outcome \in {"answer", "empty"} /\ billed < MaxBilled THEN billed + 1 ELSE billed
    /\ IF outcome = "answer" THEN Then("record")
       ELSE IF outcome # "refused" /\ worker.attempt < Attempts THEN worker' = [worker EXCEPT !.attempt = @ + 1]
       ELSE Then(IF outcome = "timeout" THEN "raise" ELSE "report")
    /\ Others /\ UNCHANGED <<memory, provider, cap, spent, overage, unapproved, approvals>>

\* _usage_from_response counts tokens and leaves the cost at its default of 0.
UsageFromResponse == [estimated_cost |-> 0]

LongEnough == Len(history) >= MinToCompact /\ ~compacting

\* The guard records the cost; a long history is compacted before the answer.
RecordCost ==
    /\ worker.pc = "record"
    /\ spent' = spent + UsageFromResponse.estimated_cost
    /\ \/ Then("answer") /\ UNCHANGED compacting
       \/ worker.kind = "api" /\ LongEnough /\ Then("read") /\ compacting' = TRUE
    /\ UNCHANGED <<memory, saved, compactor, provider, cap, overage, billed, unapproved, approvals>>

AskLocally(answered) ==
    /\ worker.pc = "ask locally"
    /\ Then(IF answered THEN "answer" ELSE "raise")
    /\ Others /\ UNCHANGED <<memory, provider, money>>

\* Only a scheduled call that was answered is in the telemetry.
Answered ==
    /\ worker.pc = "answer"
    /\ scheduled' = IF worker.kind = "auto" THEN Append(scheduled, worker.to) ELSE scheduled
    /\ worker' = Free
    /\ Say
    /\ Others /\ UNCHANGED <<split, money>>

\* _report_deepseek_unavailable adds a message; another exception only shows.
Report ==
    /\ worker.pc = "report"
    /\ worker' = Free
    /\ Say
    /\ Others /\ UNCHANGED <<provider, money>>

Raise ==
    /\ worker.pc = "raise"
    /\ worker' = Free
    /\ Others /\ UNCHANGED <<memory, provider, money>>
-----------------------------------------------------------------------------
(* _run_compaction, by the worker or by the thread of /compact *)

WorkerReads ==
    /\ worker.pc = "read"
    /\ worker' = [pc |-> "summarising", kind |-> worker.kind, to |-> worker.to, read |-> Known(history)]
    /\ Others /\ UNCHANGED <<memory, provider, money>>

CompactorReads ==
    /\ compactor.pc = "read"
    /\ compactor' = [pc |-> "summarising", read |-> Known(history)]
    /\ UNCHANGED <<memory, saved, worker, compacting, provider, money>>

Summarised_Mutant(read) ==
    /\ history' = <<[covers |-> {}, summary |-> TRUE]>>
    /\ UNCHANGED <<said, erased, raced, orders>>

\* The summary replaces the history as it is by now.
Summarised(read) ==
    /\ history' = <<[covers |-> read, summary |-> TRUE]>>
    /\ UNCHANGED <<said, erased, raced, orders>>

EndCompaction_Mutant(kept) == IF kept THEN compacting' = FALSE ELSE UNCHANGED compacting
EndCompaction(kept) == compacting' = FALSE

\* An unusable summary leaves the history alone; an exception does too, and
\* the worker's task ends with it.
WorkerSummarises(outcome) ==
    /\ worker.pc = "summarising"
    /\ IF outcome = "summary" THEN Summarised(worker.read) ELSE UNCHANGED memory
    /\ EndCompaction(outcome = "summary")
    /\ Then(IF outcome = "raises" THEN "raise" ELSE "answer")
    /\ UNCHANGED <<saved, compactor, provider, money>>

CompactorSummarises(outcome) ==
    /\ compactor.pc = "summarising"
    /\ IF outcome = "summary" THEN Summarised(compactor.read) ELSE UNCHANGED memory
    /\ EndCompaction(outcome = "summary")
    /\ compactor' = Free
    /\ UNCHANGED <<saved, worker, provider, money>>

Command ==
    \/ Ask \/ CompactContext \/ ClearContext \/ SaveConversation \/ RewindConversation
    \/ SetContributionSplit \/ SaveProviderSettings \/ \E yes \in BOOLEAN : ApproveOverage(yes)

Worker ==
    \/ Choose \/ GuardRefuses \/ GuardAllows
    \/ \E outcome \in {"answer", "empty", "timeout", "unreachable", "refused"} : Post(outcome)
    \/ RecordCost \/ \E answered \in BOOLEAN : AskLocally(answered)
    \/ Answered \/ Report \/ Raise \/ WorkerReads
    \/ \E outcome \in {"summary", "unusable", "raises"} : WorkerSummarises(outcome)

Compactor ==
    \/ CompactorReads
    \/ \E outcome \in {"summary", "unusable", "raises"} : CompactorSummarises(outcome)

ConversationNext == Command \/ Worker \/ Compactor

ConversationSpec == ConversationInit /\ [][ConversationNext]_conversation

\* Both threads run, and every request to a model has a timeout.
FairConversation == ConversationSpec /\ WF_conversation(Worker) /\ WF_conversation(Compactor)
-----------------------------------------------------------------------------
(* Properties *)

\* What the person or the assistant said is in the history or in its summary,
\* unless the person removed it, the cap of the history dropped it or it came
\* while a compaction was under way; and what was removed stays so, unless it
\* was removed during a compaction.
ForgottenOnlyByRace ==
    /\ 1..said \subseteq Known(history) \cup erased \cup raced
    /\ Known(history) \cap erased \subseteq raced

\* Each approval of an overage lets at most one call beyond the cap through.
OverageIsSingleUse == unapproved + (IF overage THEN 1 ELSE 0) <= approvals

\* A compaction never blocks the next one for good.
CompactionEnds == compacting ~> ~compacting

\* Beyond the cap no call is paid for without an approval
\* ("API cost cap reached; explicit overage approval is required").
CapNeedsApproval == billed <= cap + approvals
=============================================================================
