---------------------------- MODULE BridgeProofs ----------------------------
(***************************************************************************)
(* Theorems of the two halves of the bridge: TerminalSession for any number  *)
(* of assistant threads, any requests, files and proposals and a person who  *)
(* presses any keys; Conversation for every cap, split, schedule and bound.  *)
(***************************************************************************)
EXTENDS TerminalSession, Conversation, SequenceTheorems, TLAPS
-----------------------------------------------------------------------------
(* The queue of diffs and the assistant's threads *)

Diffs == [id : Nat, path : Paths, base : Nat]

\* What a thread may be doing.
Steps(t) ==
    IF t = Main THEN {"idle", "apply", "settle", "present"}
    ELSE {"idle", "run", "queue", "present", "apply", "settle", "release", "report"}

ThreadOK(t) ==
    /\ "pc" \in DOMAIN thread[t] /\ thread[t].pc \in Steps(t)
    /\ thread[t].pc = "idle" => thread[t] = Idle
    /\ thread[t].pc \in {"apply", "settle"} =>
          "diff" \in DOMAIN thread[t] /\ thread[t].diff \in Diffs /\ thread[t].diff.id <= made
    /\ thread[t].pc = "apply" /\ t # Main => thread[t].approved
    /\ thread[t].pc = "queue" => thread[t].proposals \in Seq(Diffs)

Fields == {"alive", "busy", "pending", "diffs", "action", "permission", "history", "unavailable"}

TypeInv ==
    /\ DOMAIN bridge = Fields
    /\ bridge.busy \in BOOLEAN /\ bridge.diffs \in Seq(Diffs)
    /\ DOMAIN thread = Threads /\ \A t \in Threads : ThreadOK(t)
    /\ files \in [Paths -> Nat] /\ made \in Nat

\* The proposals are numbered in the order in which they were made.
Increasing(s) == \A i, j \in DOMAIN s : i < j => s[i].id < s[j].id
Numbered(s) == Increasing(s) /\ \A i \in DOMAIN s : s[i].id <= made

\* A proposal was made before those of a queue, but for the first perhaps.
Before(d, s) == \A i \in DOMAIN s : d.id < s[i].id
AtHead(d, s) == \A i \in DOMAIN s : s[i] = d \/ d.id < s[i].id

Holds(t) == thread[t].pc \in {"apply", "settle"}
Discarded == {a \in answers : a.how = "discarded"}

\* Whatever a thread reviews is at the head of the queue, or no longer in it ...
ReviewInv ==
    /\ Numbered(bridge.diffs)
    /\ \A t \in Threads : Holds(t) => AtHead(thread[t].diff, bridge.diffs)
    /\ \A t \in Threads : thread[t].pc = "settle" => \E a \in answers : a.what = thread[t].diff

\* ... proposals that are to replace the queue are newer than all of this ...
QueueInv ==
    \A w \in Workers : thread[w].pc = "queue" =>
        /\ Numbered(thread[w].proposals)
        /\ \A i \in DOMAIN bridge.diffs : Before(bridge.diffs[i], thread[w].proposals)
        /\ \A t \in Threads : Holds(t) => Before(thread[t].diff, thread[w].proposals)
        /\ \A a \in Discarded : Before(a.what, thread[w].proposals)

\* ... what was discarded has left the queue once the review is settled, and what
\* was applied can no longer be applied.
AnswersInv ==
    /\ \A a \in Discarded :
          /\ a.what \in Diffs /\ a.what.id <= made
          /\ \/ Before(a.what, bridge.diffs)
             \/ thread[Main].pc = "settle" /\ thread[Main].diff = a.what
    /\ \A a \in answers : a.how = "applied" => a.what \in Diffs /\ files[a.what.path] > a.what.base
    /\ \A a, b \in answers : a.how = "applied" /\ b.how = "applied" /\ a.what = b.what => a = b

\* What may be resolved is the head of the queue, or nothing until it is presented.
PendingInv ==
    /\ bridge.pending # None => bridge.diffs # <<>> /\ bridge.pending = Head(bridge.diffs)
    /\ bridge.diffs # <<>> /\ bridge.pending # Head(bridge.diffs) =>
          \E t \in Threads : thread[t].pc = "present"

InductiveInv == TypeInv /\ OneTask /\ ReviewInv /\ QueueInv /\ AnswersInv /\ PendingInv
-----------------------------------------------------------------------------
(* The bridge as the lemmas below see it.                                   *)

\* What the invariant knows of the bridge is left alone.
SameBridge(b, c) == DOMAIN c = DOMAIN b /\ c.busy = b.busy /\ c.pending = b.pending /\ c.diffs = b.diffs

\* No new answer about a proposal.
NoNewReview == answers \subseteq answers' /\ \A a \in answers' \ answers : a.how = "started"

\* Fields that no condition of the invariant mentions.
LEMMA OtherField ==
    ASSUME NEW b, DOMAIN b = Fields, NEW e
    PROVE /\ SameBridge(b, [b EXCEPT !.action = e])
          /\ SameBridge(b, [b EXCEPT !.history = e])
          /\ SameBridge(b, [b EXCEPT !.permission = e])
          /\ SameBridge(b, [b EXCEPT !.unavailable = e])
BY DEF SameBridge, Fields

\* The session starts with nothing made.
LEMMA InitInv ==
    ASSUME Init
    PROVE InductiveInv
<1>1. /\ bridge = Started /\ files = [p \in Paths |-> 0] /\ made = 0 /\ answers = {}
      /\ thread = [t \in Threads |-> Idle]
  BY DEF Init
<1>2. \A t \in Threads : thread[t] = Idle /\ thread[t].pc = "idle" /\ "pc" \in DOMAIN thread[t]
  BY <1>1 DEF Idle
<1>3. DOMAIN bridge = Fields /\ bridge.busy = FALSE /\ bridge.diffs = <<>> /\ bridge.pending = None
  BY <1>1 DEF Started, Fields
<1>4. TypeInv
  <2>1. \A t \in Threads : ThreadOK(t)
    BY <1>2 DEF ThreadOK, Steps
  <2>2. bridge.busy \in BOOLEAN /\ bridge.diffs \in Seq(Diffs)
    BY <1>3, EmptySeq
  <2>3. DOMAIN thread = Threads /\ files \in [Paths -> Nat] /\ made \in Nat
    BY <1>1
  <2> QED BY <1>3, <2>1, <2>2, <2>3 DEF TypeInv
<1>5. OneTask
  BY <1>2, <1>3 DEF OneTask, Working, Threads
<1>6. ReviewInv /\ QueueInv
  BY <1>2, <1>3 DEF ReviewInv, QueueInv, Holds, Numbered, Increasing, Threads
<1>7. AnswersInv /\ PendingInv
  BY <1>1, <1>3 DEF AnswersInv, PendingInv, Discarded
<1> QED
  BY <1>4, <1>5, <1>6, <1>7 DEF InductiveInv

\* A step that changes nothing the invariant mentions.
LEMMA Untouched ==
    ASSUME InductiveInv, SameBridge(bridge, bridge'), NoNewReview, UNCHANGED <<thread, files, made>>
    PROVE InductiveInv'
<1>1. /\ DOMAIN bridge' = DOMAIN bridge /\ bridge'.busy = bridge.busy
      /\ bridge'.pending = bridge.pending /\ bridge'.diffs = bridge.diffs
  BY DEF SameBridge
<1>2. TypeInv'
  BY <1>1 DEF InductiveInv, TypeInv, ThreadOK
<1>3. OneTask' /\ PendingInv'
  BY <1>1 DEF InductiveInv, OneTask, Working, PendingInv
<1>4. Discarded' = Discarded
  BY DEF Discarded, NoNewReview
<1>5. ReviewInv' /\ QueueInv'
  BY <1>1, <1>4 DEF InductiveInv, ReviewInv, QueueInv, Holds, Numbered, NoNewReview
<1>6. AnswersInv'
  BY <1>1, <1>4 DEF InductiveInv, AnswersInv, NoNewReview
<1> QED
  BY <1>2, <1>3, <1>5, <1>6 DEF InductiveInv

\* A thread goes on to something that has no proposal in hand, and leaves the
\* queue alone or empties it.
LEMMA Quiet ==
    ASSUME InductiveInv, NEW t \in Threads, NEW new,
           thread' = [thread EXCEPT ![t] = new],
           "pc" \in DOMAIN new, new.pc \in Steps(t) \ {"apply", "settle", "queue"},
           new.pc = "idle" => new = Idle,
           thread[t].pc # "settle",
           bridge'.diffs \in {bridge.diffs, <<>>}, NoNewReview, UNCHANGED <<files, made>>
    PROVE (\A u \in Threads : ThreadOK(u)') /\ ReviewInv' /\ QueueInv' /\ AnswersInv'
<1>1. /\ DOMAIN thread' = Threads /\ thread'[t] = new
      /\ \A u \in Threads \ {t} : thread'[u] = thread[u]
  BY DEF InductiveInv, TypeInv
<1>2. \A u \in Threads : ThreadOK(u)'
  BY <1>1 DEF InductiveInv, TypeInv, ThreadOK
<1>3. Discarded' = Discarded
  BY DEF Discarded, NoNewReview
<1>4. \A u \in Threads : Holds(u)' => Holds(u) /\ u # t /\ thread'[u] = thread[u]
  BY <1>1 DEF Holds
<1>5. ReviewInv'
  <2>1. Numbered(bridge.diffs)'
    BY DEF InductiveInv, ReviewInv, Numbered, Increasing
  <2>2. \A u \in Threads : Holds(u)' => AtHead(thread'[u].diff, bridge'.diffs)
    BY <1>4 DEF InductiveInv, ReviewInv, AtHead
  <2>3. \A u \in Threads : thread'[u].pc = "settle" => \E a \in answers' : a.what = thread'[u].diff
    BY <1>1 DEF InductiveInv, ReviewInv, NoNewReview
  <2> QED BY <2>1, <2>2, <2>3 DEF ReviewInv
<1>6. QueueInv'
  <2> SUFFICES ASSUME NEW w \in Workers, thread'[w].pc = "queue"
               PROVE /\ Numbered(thread[w].proposals)'
                     /\ \A i \in DOMAIN bridge'.diffs : Before(bridge'.diffs[i], thread'[w].proposals)
                     /\ \A u \in Threads : Holds(u)' => Before(thread'[u].diff, thread'[w].proposals)
                     /\ \A a \in Discarded' : Before(a.what, thread'[w].proposals)
    BY DEF QueueInv
  <2>1. thread'[w] = thread[w] /\ thread[w].pc = "queue"
    BY <1>1 DEF Threads
  <2> QED
    BY <2>1, <1>3, <1>4 DEF InductiveInv, QueueInv, Numbered
<1>7. AnswersInv'
  <2>1. thread[Main].pc = "settle" => thread'[Main] = thread[Main]
    BY <1>1 DEF Threads
  <2>2. \A d : Before(d, bridge.diffs) => Before(d, bridge'.diffs)
    BY DEF Before
  <2>3. \A a \in Discarded' :
            /\ a.what \in Diffs /\ a.what.id <= made'
            /\ Before(a.what, bridge'.diffs) \/ (thread'[Main].pc = "settle" /\ thread'[Main].diff = a.what)
    BY <1>3, <2>1, <2>2 DEF InductiveInv, AnswersInv
  <2> QED BY <2>3 DEF InductiveInv, AnswersInv, NoNewReview
<1> QED BY <1>2, <1>5, <1>6, <1>7

\* One thread moves on and is as much at work as before.
LEMMA OneTaskKept ==
    ASSUME InductiveInv, NEW t \in Threads, NEW new,
           thread' = [thread EXCEPT ![t] = new],
           t # Main => (Working(t) <=> new.pc \notin {"idle", "report"}),
           bridge'.busy = bridge.busy
    PROVE OneTask'
<1>1. thread'[t] = new /\ \A u \in Threads \ {t} : thread'[u] = thread[u]
  BY DEF InductiveInv, TypeInv
<1>2. \A w \in Workers : Working(w)' <=> Working(w)
  BY <1>1, ThreadsAssumption DEF Working, Threads
<1> QED
  BY <1>2 DEF InductiveInv, OneTask

\* A worker that was idle starts on a task; the queue stays, or is emptied.
LEMMA TaskStarts ==
    ASSUME InductiveInv, ~bridge.busy, NEW b, NEW task,
           DOMAIN b = Fields,
           SameBridge(bridge, b) \/ (b.pending = None /\ b.diffs = <<>>),
           StartAssistantTask(b, task), NoNewReview, UNCHANGED <<files, made>>
    PROVE InductiveInv'
<1> PICK w \in Workers : /\ thread[w] = Idle
                         /\ thread' = [thread EXCEPT ![w] = [pc |-> "run", task |-> task]]
                         /\ bridge' = [b EXCEPT !.busy = TRUE]
  BY DEF StartAssistantTask
<1> DEFINE new == [pc |-> "run", task |-> task]
<1>1. /\ DOMAIN bridge' = Fields /\ bridge'.busy = TRUE
      /\ bridge'.pending = b.pending /\ bridge'.diffs = b.diffs
  BY DEF Fields
<1>2. /\ w \in Threads /\ w # Main /\ thread[w].pc = "idle"
      /\ "pc" \in DOMAIN new /\ new.pc = "run"
  BY ThreadsAssumption DEF Threads, Idle
<1>3. /\ DOMAIN thread' = Threads /\ thread'[w] = new
      /\ \A u \in Threads \ {w} : thread'[u] = thread[u]
  BY <1>2 DEF InductiveInv, TypeInv
<1>4. (bridge'.diffs = bridge.diffs /\ bridge'.pending = bridge.pending)
      \/ (bridge'.diffs = <<>> /\ bridge'.pending = None)
  BY <1>1 DEF SameBridge
<1>5. (\A u \in Threads : ThreadOK(u)') /\ ReviewInv' /\ QueueInv' /\ AnswersInv'
  <2>1. new.pc \in Steps(w) \ {"apply", "settle", "queue"}
    BY <1>2 DEF Steps
  <2>2. thread' = [thread EXCEPT ![w] = new] /\ thread[w].pc # "settle"
    BY <1>2
  <2>3. bridge'.diffs \in {bridge.diffs, <<>>}
    BY <1>4
  <2> HIDE DEF new
  <2> QED BY <1>2, <2>1, <2>2, <2>3, Quiet
<1>6. TypeInv'
  BY <1>1, <1>3, <1>4, <1>5, EmptySeq DEF InductiveInv, TypeInv
<1>7. OneTask'
  <2>1. \A v \in Workers : ~Working(v)
    BY DEF InductiveInv, OneTask
  <2>2. \A v \in Workers : Working(v)' <=> v = w
    BY <1>2, <1>3, <2>1 DEF Working, Threads
  <2> QED BY <1>1, <2>2 DEF OneTask
<1>8. PendingInv'
  <2>1. \A u \in Threads : thread[u].pc = "present" => thread'[u].pc = "present"
    BY <1>2, <1>3
  <2> QED BY <1>4, <2>1 DEF InductiveInv, PendingInv
<1> QED BY <1>5, <1>6, <1>7, <1>8 DEF InductiveInv

\* A message, whatever becomes of it.
LEMMA ChatStarts ==
    ASSUME InductiveInv, NEW b, NEW text, NEW approved,
           DOMAIN b = Fields, SameBridge(bridge, b), StartChat(b, text, approved),
           NoNewReview, UNCHANGED <<files, made>>
    PROVE InductiveInv'
<1>1. CASE TurnedAway(text)
  <2>1. UNCHANGED thread /\ (bridge' = b \/ bridge' = [b EXCEPT !.history = "notes"])
    BY <1>1 DEF StartChat
  <2>2. SameBridge(bridge, bridge')
    <3>1. CASE bridge' = b
      BY <3>1
    <3>2. CASE bridge' = [b EXCEPT !.history = "notes"]
      <4>1. SameBridge(b, bridge')
        BY <3>2, OtherField
      <4> QED BY <4>1 DEF SameBridge
    <3> QED BY <2>1, <3>1, <3>2
  <2> QED BY <2>1, <2>2, Untouched
<1>2. CASE ~TurnedAway(text) /\ (Denied(text, approved) \/ NeedsPermission(text, approved))
  <2>1. UNCHANGED thread /\ (bridge' = b \/ bridge' = [b EXCEPT !.action = text])
    BY <1>2 DEF StartChat
  <2>2. SameBridge(bridge, bridge')
    <3>1. CASE bridge' = b
      BY <3>1
    <3>2. CASE bridge' = [b EXCEPT !.action = text]
      <4>1. SameBridge(b, bridge')
        BY <3>2, OtherField
      <4> QED BY <4>1 DEF SameBridge
    <3> QED BY <2>1, <3>1, <3>2
  <2> QED BY <2>1, <2>2, Untouched
<1>3. CASE ~TurnedAway(text) /\ ~Denied(text, approved) /\ ~NeedsPermission(text, approved)
  <2> DEFINE cleared == [b EXCEPT !.history = "talk", !.pending = None, !.diffs = <<>>]
             talk == [b EXCEPT !.history = "talk"]
  <2>1. StartAssistantTask(IF text \in Tools THEN cleared ELSE talk, text)
    BY <1>3, Zenon DEF StartChat
  <2>2. ~bridge.busy
    BY <1>3 DEF TurnedAway
  <2>3. DOMAIN cleared = Fields /\ cleared.pending = None /\ cleared.diffs = <<>>
    BY DEF Fields
  <2>4. DOMAIN talk = Fields /\ SameBridge(bridge, talk)
    BY OtherField DEF SameBridge
  <2> HIDE DEF cleared, talk
  <2>5. CASE text \in Tools
    <3>1. StartAssistantTask(cleared, text)
      BY <2>1, <2>5
    <3> QED BY <3>1, <2>2, <2>3, TaskStarts
  <2>6. CASE text \notin Tools
    <3>1. StartAssistantTask(talk, text)
      BY <2>1, <2>6
    <3> QED BY <3>1, <2>2, <2>4, TaskStarts
  <2> QED BY <2>5, <2>6
<1> QED BY <1>1, <1>2, <1>3

\* The commands of the main thread that start a task or ask for permission.
LEMMA CommandsThatStart ==
    ASSUME InductiveInv, Chat \/ ResolveActionApproval \/ StartDraft
    PROVE InductiveInv'
<1>1. UNCHANGED <<files, made>> /\ DOMAIN bridge = Fields
  BY DEF Chat, ResolveActionApproval, StartDraft, Handle, InductiveInv, TypeInv
<1>2. CASE Chat
  <2>1. StartChat(bridge, Head(commands).text, FALSE) /\ NoNewReview
    BY <1>2 DEF Chat, NoNewReview
  <2> QED BY <1>1, <2>1, ChatStarts DEF SameBridge
<1>3. CASE ResolveActionApproval
  <2> DEFINE a == Head(commands).answer
             b == [bridge EXCEPT !.action = None]
  <2>1. SameBridge(bridge, b) /\ DOMAIN b = Fields
    BY <1>1, OtherField DEF SameBridge
  <2>2. CASE bridge.action # None /\ a.approved
    <3>1. /\ StartChat(b, bridge.action, TRUE)
          /\ answers' = answers \cup {[what |-> bridge.action, how |-> "started", seen |-> a.seen]}
      BY <1>3, <2>2, Zenon DEF ResolveActionApproval
    <3>2. NoNewReview
      BY <3>1 DEF NoNewReview
    <3> HIDE DEF b
    <3> QED BY <1>1, <2>1, <3>1, <3>2, ChatStarts
  <2>3. CASE ~(bridge.action # None /\ a.approved)
    <3>1. bridge' = b /\ UNCHANGED <<thread, answers>>
      BY <1>3, <2>3, Zenon DEF ResolveActionApproval
    <3>2. NoNewReview
      BY <3>1 DEF NoNewReview
    <3> QED BY <1>1, <2>1, <3>1, <3>2, Untouched
  <2> QED BY <2>2, <2>3
<1>4. CASE StartDraft
  <2> DEFINE b == [bridge EXCEPT !.history = IF @ = "empty" THEN "talk" ELSE @]
             task == IF Head(commands).cmd = "draft_research" THEN "research" ELSE "spec"
  <2>1. ~bridge.busy /\ StartAssistantTask(b, task) /\ NoNewReview
    BY <1>4 DEF StartDraft, NoNewReview
  <2>2. SameBridge(bridge, b) /\ DOMAIN b = Fields
    BY <1>1, OtherField DEF SameBridge
  <2> HIDE DEF b, task
  <2> QED BY <1>1, <2>1, <2>2, TaskStarts
<1> QED BY <1>2, <1>3, <1>4

\* A proposal that is taken up is the first of the queue.
LEMMA HeadIsFirst ==
    ASSUME InductiveInv, bridge.diffs # <<>>
    PROVE LET d == Head(bridge.diffs)
          IN /\ d \in Diffs /\ d.id <= made /\ AtHead(d, bridge.diffs)
             /\ d = bridge.diffs[1] /\ 1 \in DOMAIN bridge.diffs
<1>1. bridge.diffs \in Seq(Diffs)
  BY DEF InductiveInv, TypeInv
<1>2. /\ 1 \in DOMAIN bridge.diffs /\ Head(bridge.diffs) = bridge.diffs[1]
      /\ bridge.diffs[1] \in Diffs /\ DOMAIN bridge.diffs = 1 .. Len(bridge.diffs)
  BY <1>1, EmptySeq, LenProperties, ElementOfSeq, HeadTailProperties
<1>3. bridge.diffs[1].id <= made
  BY <1>2 DEF InductiveInv, ReviewInv, Numbered
<1>4. \A i \in DOMAIN bridge.diffs : i # 1 => bridge.diffs[1].id < bridge.diffs[i].id
  BY <1>2 DEF InductiveInv, ReviewInv, Numbered, Increasing
<1> QED BY <1>2, <1>3, <1>4 DEF AtHead

\* A thread takes up the first proposal of the queue.
LEMMA TakesHead ==
    ASSUME InductiveInv, NEW t \in Threads, NEW new, bridge.diffs # <<>>,
           thread' = [thread EXCEPT ![t] = new],
           {"pc", "diff", "approved"} \subseteq DOMAIN new,
           new.pc = "apply", new.diff = Head(bridge.diffs), t # Main => new.approved,
           thread[t].pc \notin {"apply", "settle", "queue"},
           bridge'.diffs = bridge.diffs, UNCHANGED <<files, made, answers>>
    PROVE (\A u \in Threads : ThreadOK(u)') /\ ReviewInv' /\ QueueInv' /\ AnswersInv'
<1>1. /\ thread'[t] = new /\ \A u \in Threads \ {t} : thread'[u] = thread[u]
  BY DEF InductiveInv, TypeInv
<1>2. new.diff \in Diffs /\ new.diff.id <= made /\ AtHead(new.diff, bridge.diffs)
  BY HeadIsFirst
<1>3. \A u \in Threads : ThreadOK(u)'
  BY <1>1, <1>2 DEF InductiveInv, TypeInv, ThreadOK, Steps
<1>4. ReviewInv'
  BY <1>1, <1>2 DEF InductiveInv, ReviewInv, Holds, Numbered
<1>5. QueueInv'
  <2> SUFFICES ASSUME NEW w \in Workers, thread'[w].pc = "queue"
               PROVE /\ Numbered(thread[w].proposals)' /\ thread'[w] = thread[w]
                     /\ \A i \in DOMAIN bridge.diffs : Before(bridge.diffs[i], thread[w].proposals)
                     /\ \A u \in Threads : Holds(u)' => Before(thread'[u].diff, thread[w].proposals)
                     /\ \A a \in Discarded : Before(a.what, thread[w].proposals)
    BY DEF QueueInv, Discarded
  <2>1. thread'[w] = thread[w] /\ thread[w].pc = "queue" /\ w \in Threads
    BY <1>1 DEF Threads
  <2>2. Before(new.diff, thread[w].proposals)
    BY <2>1, HeadIsFirst DEF InductiveInv, QueueInv
  <2> QED
    BY <1>1, <2>1, <2>2 DEF InductiveInv, QueueInv, Numbered, Holds
<1>6. AnswersInv'
  <2>1. Discarded' = Discarded /\ (thread[Main].pc = "settle" => thread'[Main] = thread[Main])
    BY <1>1 DEF Discarded, Threads
  <2> QED BY <2>1 DEF InductiveInv, AnswersInv
<1> QED BY <1>3, <1>4, <1>5, <1>6

\* The commands that start nothing, and the two that read the person's answer.
LEMMA OtherCommands ==
    ASSUME InductiveInv, HandleCommand, ~(Chat \/ ResolveActionApproval \/ StartDraft)
    PROVE InductiveInv'
<1>1. UNCHANGED <<files, made>> /\ DOMAIN bridge = Fields
  BY DEF HandleCommand, IgnoreDraft, SetPermissionMode, ExecuteRun, Cancel, ResolveToolDiff, Handle,
         InductiveInv, TypeInv
<1>2. CASE IgnoreDraft \/ ExecuteRun \/ Cancel
  <2>1. UNCHANGED <<bridge, thread, answers>>
    BY <1>2 DEF IgnoreDraft, ExecuteRun, Cancel
  <2> QED BY <1>1, <2>1, Untouched DEF SameBridge, NoNewReview
<1>3. CASE SetPermissionMode
  <2>1. /\ UNCHANGED <<thread, answers>>
        /\ bridge' = [bridge EXCEPT !.permission = Head(commands).mode]
    BY <1>3 DEF SetPermissionMode
  <2>2. SameBridge(bridge, bridge')
    BY <1>1, <2>1, OtherField
  <2> QED BY <1>1, <2>1, <2>2, Untouched DEF NoNewReview
<1>4. CASE ResolveToolDiff
  <2> DEFINE a == Head(commands).answer
             new == [pc |-> "apply", diff |-> bridge.pending, approved |-> a.approved, seen |-> a.seen]
  <2>1. /\ UNCHANGED <<bridge, answers>> /\ thread[Main] = Idle /\ Main \in Threads
        /\ \/ UNCHANGED thread
           \/ bridge.pending # None /\ thread' = [thread EXCEPT ![Main] = new]
    BY <1>4 DEF ResolveToolDiff, Handle, MainReady, Threads
  <2>2. CASE UNCHANGED thread
    BY <1>1, <2>1, <2>2, Untouched DEF SameBridge, NoNewReview
  <2>3. CASE bridge.pending # None /\ thread' = [thread EXCEPT ![Main] = new]
    <3>1. bridge.diffs # <<>> /\ bridge.pending = Head(bridge.diffs)
      BY <2>3 DEF InductiveInv, PendingInv
    <3>2. /\ {"pc", "diff", "approved"} \subseteq DOMAIN new
          /\ new.pc = "apply" /\ new.diff = bridge.pending
      OBVIOUS
    <3>3. thread[Main].pc = "idle"
      BY <2>1 DEF Idle
    <3> HIDE DEF new
    <3>4. (\A u \in Threads : ThreadOK(u)') /\ ReviewInv' /\ QueueInv' /\ AnswersInv'
      BY <1>1, <2>1, <2>3, <3>1, <3>2, <3>3, TakesHead
    <3>5. TypeInv'
      BY <1>1, <2>1, <2>3, <3>4 DEF InductiveInv, TypeInv
    <3>6. OneTask'
      BY <2>1, <2>3, OneTaskKept
    <3>7. PendingInv'
      BY <2>1, <3>1 DEF PendingInv
    <3> QED BY <3>4, <3>5, <3>6, <3>7 DEF InductiveInv
  <2> QED BY <2>1, <2>2, <2>3
<1> QED BY <1>2, <1>3, <1>4 DEF HandleCommand

\* The client ends the bridge.
LEMMA BridgeEnds ==
    ASSUME InductiveInv, KillBridge
    PROVE InductiveInv'
<1>1. /\ bridge' = [Started EXCEPT !.alive = FALSE] /\ thread' = [t \in Threads |-> Idle]
      /\ UNCHANGED <<files, made, answers>>
  BY DEF KillBridge
<1>2. /\ DOMAIN bridge' = Fields /\ bridge'.busy = FALSE
      /\ bridge'.diffs = <<>> /\ bridge'.pending = None
  BY <1>1 DEF Started, Fields
<1>3. \A t \in Threads : thread'[t] = Idle /\ thread'[t].pc = "idle" /\ "pc" \in DOMAIN thread'[t]
  BY <1>1 DEF Idle
<1>4. TypeInv'
  <2>1. \A t \in Threads : ThreadOK(t)'
    BY <1>3 DEF ThreadOK, Steps
  <2> QED BY <1>1, <1>2, <2>1, EmptySeq DEF InductiveInv, TypeInv
<1>5. OneTask'
  BY <1>2, <1>3 DEF OneTask, Working, Threads
<1>6. ReviewInv' /\ QueueInv'
  BY <1>2, <1>3 DEF ReviewInv, QueueInv, Holds, Numbered, Increasing, Threads
<1>7. AnswersInv' /\ PendingInv'
  BY <1>1, <1>2 DEF InductiveInv, AnswersInv, PendingInv, Discarded, Before
<1> QED BY <1>4, <1>5, <1>6, <1>7 DEF InductiveInv

\* Applying a proposal changes its file from the version it was made from, and
\* discarding one leaves a proposal that will be dropped from the queue.
LEMMA ApplyStep ==
    ASSUME InductiveInv, NEW t \in Threads, Apply(t)
    PROVE InductiveInv'
<1> DEFINE d == thread[t].diff
           new == [thread[t] EXCEPT !.pc = "settle"]
<1>1. thread[t].pc = "apply" /\ thread' = [thread EXCEPT ![t] = new] /\ UNCHANGED <<bridge, made>>
  BY DEF Apply, Goto
<1>2. /\ "pc" \in DOMAIN thread[t] /\ "diff" \in DOMAIN thread[t]
      /\ d \in Diffs /\ d.id <= made /\ (t # Main => thread[t].approved)
  BY <1>1 DEF InductiveInv, TypeInv, ThreadOK
<1>3. /\ new.pc = "settle" /\ new.diff = d /\ {"pc", "diff"} \subseteq DOMAIN new
  BY <1>2
<1>4. /\ thread'[t] = new /\ \A u \in Threads \ {t} : thread'[u] = thread[u]
      /\ DOMAIN thread' = Threads
  BY <1>1 DEF InductiveInv, TypeInv
<1> HIDE DEF new
<1>5. \E how \in {"applied", "discarded"} :
        answers' = answers \cup {[what |-> d, how |-> how, seen |-> thread[t].seen]}
  BY DEF Apply, Record
<1>6. TypeInv'
  <2>1. \A u \in Threads : ThreadOK(u)'
    BY <1>1, <1>2, <1>3, <1>4 DEF InductiveInv, TypeInv, ThreadOK, Steps
  <2>2. files' \in [Paths -> Nat]
    BY DEF Apply, InductiveInv, TypeInv
  <2> QED BY <1>1, <1>4, <2>1, <2>2 DEF InductiveInv, TypeInv
<1>7. OneTask'
  <2>1. t # Main => (Working(t) <=> new.pc \notin {"idle", "report"})
    BY <1>1, <1>3 DEF Working
  <2> QED BY <1>1, <2>1, OneTaskKept
<1>8. ReviewInv'
  <2>1. \A u \in Threads : Holds(u)' => Holds(u) /\ thread'[u].diff = thread[u].diff
    BY <1>1, <1>3, <1>4 DEF Holds
  <2>2. \A u \in Threads : Holds(u)' => AtHead(thread'[u].diff, bridge.diffs)
    BY <2>1 DEF InductiveInv, ReviewInv
  <2> PICK how \in {"applied", "discarded"} :
               answers' = answers \cup {[what |-> d, how |-> how, seen |-> thread[t].seen]}
    BY <1>5
  <2> DEFINE answer == [what |-> d, how |-> how, seen |-> thread[t].seen]
  <2>3. answer \in answers' /\ answer.what = d
    OBVIOUS
  <2> HIDE DEF answer
  <2>4. \A u \in Threads : thread'[u].pc = "settle" => \E a \in answers' : a.what = thread'[u].diff
    BY <1>3, <1>4, <1>5, <2>3 DEF InductiveInv, ReviewInv
  <2> QED BY <1>1, <2>2, <2>4 DEF InductiveInv, ReviewInv, Numbered
<1>9. QueueInv'
  <2> SUFFICES ASSUME NEW w \in Workers, thread'[w].pc = "queue"
               PROVE /\ Numbered(thread[w].proposals)' /\ thread'[w] = thread[w]
                     /\ \A i \in DOMAIN bridge.diffs : Before(bridge.diffs[i], thread[w].proposals)
                     /\ \A u \in Threads : Holds(u)' => Before(thread'[u].diff, thread[w].proposals)
                     /\ \A a \in Discarded' : Before(a.what, thread[w].proposals)
    BY <1>1 DEF QueueInv
  <2>1. thread'[w] = thread[w] /\ thread[w].pc = "queue" /\ w \in Threads
    BY <1>3, <1>4 DEF Threads
  <2>2. \A u \in Threads : Holds(u) => Before(thread[u].diff, thread[w].proposals)
    BY <2>1 DEF InductiveInv, QueueInv
  <2>3. \A u \in Threads : Holds(u)' => Holds(u) /\ thread'[u].diff = thread[u].diff
    BY <1>1, <1>3, <1>4 DEF Holds
  <2>4. \A a \in Discarded' : a \in Discarded \/ a.what = d
    BY <1>5 DEF Discarded
  <2>5. Before(d, thread[w].proposals)
    BY <1>1, <2>2 DEF Holds
  <2> QED
    BY <1>1, <2>1, <2>2, <2>3, <2>4, <2>5 DEF InductiveInv, QueueInv, Numbered
<1>10. AnswersInv'
  <2>1. thread[Main].pc = "settle" => thread'[Main] = thread[Main]
    BY <1>1, <1>4 DEF Threads
  <2>2. CASE thread[t].approved
    <3>1. /\ files[d.path] = d.base /\ files' = [files EXCEPT ![d.path] = @ + 1]
          /\ answers' = answers \cup {[what |-> d, how |-> "applied", seen |-> thread[t].seen]}
      BY <2>2 DEF Apply, Unchanged, Record
    <3>2. Discarded' = Discarded
      BY <3>1 DEF Discarded
    <3>3. /\ files[d.path] \in Nat /\ files'[d.path] = files[d.path] + 1
          /\ \A p \in Paths \ {d.path} : files'[p] = files[p]
      BY <1>2, <3>1 DEF InductiveInv, TypeInv, Diffs
    <3>4. \A a \in answers : a.how = "applied" => a.what \in Diffs /\ files[a.what.path] > a.what.base
      BY DEF InductiveInv, AnswersInv
    <3>5. \A a \in answers' : a.how = "applied" => a.what \in Diffs /\ files'[a.what.path] > a.what.base
      <4> SUFFICES ASSUME NEW a \in answers', a.how = "applied"
                   PROVE a.what \in Diffs /\ files'[a.what.path] > a.what.base
        OBVIOUS
      <4>1. CASE a \in answers
        <5>1. /\ a.what \in Diffs /\ files[a.what.path] > a.what.base
              /\ a.what.path \in Paths /\ a.what.base \in Nat
          BY <3>4, <4>1 DEF Diffs
        <5>2. files[a.what.path] \in Nat
          BY <5>1 DEF InductiveInv, TypeInv
        <5> QED BY <3>3, <5>1, <5>2
      <4>2. CASE a.what = d
        BY <1>2, <3>1, <3>3, <4>2
      <4> QED BY <3>1, <4>1, <4>2
    <3>6. \A a \in answers : a.how = "applied" => a.what # d
      BY <3>1, <3>3, <3>4
    <3>7. \A a, b \in answers' : a.how = "applied" /\ b.how = "applied" /\ a.what = b.what => a = b
      BY <3>1, <3>6 DEF InductiveInv, AnswersInv
    <3>8. \A a \in Discarded' :
            /\ a.what \in Diffs /\ a.what.id <= made'
            /\ Before(a.what, bridge'.diffs) \/ (thread'[Main].pc = "settle" /\ thread'[Main].diff = a.what)
      BY <1>1, <2>1, <3>2 DEF InductiveInv, AnswersInv
    <3> QED BY <3>5, <3>7, <3>8 DEF AnswersInv
  <2>3. CASE ~thread[t].approved
    <3>1. /\ UNCHANGED files /\ t = Main
          /\ answers' = answers \cup {[what |-> d, how |-> "discarded", seen |-> thread[t].seen]}
      BY <1>2, <2>3 DEF Apply, Record
    <3>2. \A a \in answers' : a.how = "applied" => a \in answers
      BY <3>1
    <3>3. \A a \in Discarded' : a \in Discarded \/ a.what = d
      BY <3>1 DEF Discarded
    <3>4. \A a \in Discarded' :
            /\ a.what \in Diffs /\ a.what.id <= made'
            /\ Before(a.what, bridge'.diffs) \/ (thread'[Main].pc = "settle" /\ thread'[Main].diff = a.what)
      BY <1>1, <1>2, <1>3, <1>4, <2>1, <3>1, <3>3 DEF InductiveInv, AnswersInv
    <3> QED BY <3>1, <3>2, <3>4 DEF InductiveInv, AnswersInv
  <2> QED BY <2>2, <2>3
<1>11. PendingInv'
  <2>1. \A u \in Threads : thread[u].pc = "present" => thread'[u].pc = "present"
    BY <1>1, <1>4
  <2> QED BY <1>1, <2>1 DEF InductiveInv, PendingInv
<1> QED BY <1>6, <1>7, <1>8, <1>9, <1>10, <1>11 DEF InductiveInv

\* A review that fails leaves the proposal pending.
LEMMA ApplyRaisesStep ==
    ASSUME InductiveInv, NEW t \in Threads, ApplyRaises(t)
    PROVE InductiveInv'
<1> DEFINE new == After(t)
<1>1. /\ thread[t].pc = "apply" /\ thread' = [thread EXCEPT ![t] = new]
      /\ UNCHANGED <<bridge, files, made, answers>>
  BY DEF ApplyRaises
<1>2. "pc" \in DOMAIN thread[t] /\ DOMAIN thread = Threads
  BY DEF InductiveInv, TypeInv, ThreadOK
<1>3. /\ "pc" \in DOMAIN new /\ (new.pc = "idle" => new = Idle)
      /\ new.pc = IF t = Main THEN "idle" ELSE "release"
  BY <1>2 DEF After, Idle
<1> HIDE DEF new
<1>4. (\A u \in Threads : ThreadOK(u)') /\ ReviewInv' /\ QueueInv' /\ AnswersInv'
  <2>1. new.pc \in Steps(t) \ {"apply", "settle", "queue"}
    BY <1>3 DEF Steps
  <2> QED BY <1>1, <1>3, <2>1, Quiet DEF NoNewReview
<1>5. TypeInv'
  BY <1>1, <1>2, <1>4 DEF InductiveInv, TypeInv
<1>6. OneTask'
  <2>1. t # Main => (Working(t) <=> new.pc \notin {"idle", "report"})
    BY <1>1, <1>3 DEF Working
  <2> QED BY <1>1, <2>1, OneTaskKept
<1>7. PendingInv'
  <2>1. \A u \in Threads : thread[u].pc = "present" => thread'[u].pc = "present"
    BY <1>1, <1>2
  <2> QED BY <1>1, <2>1 DEF InductiveInv, PendingInv
<1> QED BY <1>4, <1>5, <1>6, <1>7 DEF InductiveInv

\* What is left of the queue once a review is settled.
Rest(d) == IF bridge.diffs # <<>> /\ Head(bridge.diffs) = d THEN Tail(bridge.diffs) ELSE bridge.diffs

\* It is in order, and all of it newer than what was reviewed.
LEMMA RestOfQueue ==
    ASSUME InductiveInv, NEW d \in Diffs, AtHead(d, bridge.diffs), NEW rest, rest = Rest(d)
    PROVE /\ rest \in Seq(Diffs) /\ Numbered(rest) /\ Before(d, rest)
          /\ \A i \in DOMAIN rest : \E j \in DOMAIN bridge.diffs : rest[i] = bridge.diffs[j]
          /\ \A i \in DOMAIN bridge.diffs :
                bridge.diffs[i] = d \/ \E j \in DOMAIN rest : rest[j] = bridge.diffs[i]
<1> DEFINE s == bridge.diffs
<1>1. s \in Seq(Diffs) /\ Increasing(s) /\ \A i \in DOMAIN s : s[i].id <= made
  BY DEF InductiveInv, TypeInv, ReviewInv, Numbered
<1>2. Len(s) \in Nat /\ DOMAIN s = 1 .. Len(s) /\ \A i \in DOMAIN s : s[i] \in Diffs /\ s[i].id \in Nat
  <2>1. Len(s) \in Nat /\ DOMAIN s = 1 .. Len(s)
    BY <1>1, LenProperties
  <2>2. \A i \in DOMAIN s : s[i] \in Diffs
    BY <1>1, <2>1, ElementOfSeq
  <2> QED BY <2>1, <2>2 DEF Diffs
<1>3. CASE s # <<>> /\ Head(s) = d
  <2>1. /\ rest = Tail(s) /\ rest \in Seq(Diffs) /\ Len(rest) = Len(s) - 1 /\ s[1] = d
        /\ \A i \in 1 .. Len(rest) : rest[i] = s[i + 1]
    BY <1>1, <1>3, HeadTailProperties DEF Rest
  <2>2. DOMAIN rest = 1 .. Len(rest) /\ Len(s) > 0
    BY <1>2, <2>1, LenProperties
  <2>3. \A i \in DOMAIN rest : i + 1 \in DOMAIN s /\ rest[i] = s[i + 1]
    BY <1>2, <2>1, <2>2
  <2>4. Numbered(rest)
    <3>1. Increasing(rest)
      <4> SUFFICES ASSUME NEW i \in DOMAIN rest, NEW j \in DOMAIN rest, i < j
                   PROVE rest[i].id < rest[j].id
        BY DEF Increasing
      <4>1. i + 1 \in DOMAIN s /\ j + 1 \in DOMAIN s /\ i + 1 < j + 1
        BY <1>2, <2>2, <2>3
      <4>2. s[i + 1].id < s[j + 1].id
        BY <1>1, <4>1 DEF Increasing
      <4> QED BY <2>3, <4>2
    <3> QED BY <1>1, <2>3, <3>1 DEF Numbered
  <2>5. Before(d, rest)
    <3> SUFFICES ASSUME NEW i \in DOMAIN rest
                 PROVE d.id < rest[i].id
      BY DEF Before
    <3>1. i + 1 \in DOMAIN s /\ 1 \in DOMAIN s /\ 1 < i + 1
      BY <1>2, <2>2, <2>3
    <3>2. s[1].id < s[i + 1].id
      BY <1>1, <3>1 DEF Increasing
    <3> QED BY <2>1, <2>3, <3>2
  <2>6. \A i \in DOMAIN s : s[i] = d \/ \E j \in DOMAIN rest : rest[j] = s[i]
    <3> SUFFICES ASSUME NEW i \in DOMAIN s, i # 1
                 PROVE i - 1 \in DOMAIN rest /\ rest[i - 1] = s[i]
      BY <2>1
    <3> QED BY <1>2, <2>1, <2>2
  <2> QED BY <2>1, <2>3, <2>4, <2>5, <2>6
<1>4. CASE s # <<>> /\ Head(s) # d
  <2>1. rest = s
    BY <1>4 DEF Rest
  <2>2. s[1] = Head(s) /\ 1 \in DOMAIN s
    BY <1>4, HeadIsFirst
  <2>3. d.id < s[1].id /\ d.id \in Nat
    BY <1>4, <2>2 DEF AtHead, Diffs
  <2>4. Before(d, s)
    BY <1>1, <1>2, <2>2, <2>3 DEF Increasing, Before
  <2> QED BY <1>1, <2>1, <2>4 DEF Numbered
<1>5. CASE s = <<>>
  <2>1. rest = s /\ DOMAIN s = {}
    BY <1>5 DEF Rest
  <2> QED BY <1>1, <2>1 DEF Numbered, Before
<1> QED BY <1>3, <1>4, <1>5

\* A settled proposal leaves the queue, if it is still the first.
LEMMA SettleStep ==
    ASSUME InductiveInv, NEW t \in Threads, Settle(t)
    PROVE InductiveInv'
<1> DEFINE d == thread[t].diff
           rest == Rest(d)
           new == [thread[t] EXCEPT !.pc = "present"]
<1>1. /\ thread[t].pc = "settle" /\ thread' = [thread EXCEPT ![t] = new]
      /\ UNCHANGED <<files, made, answers>>
      /\ bridge' = [bridge EXCEPT !.pending = None, !.diffs = rest]
  BY DEF Settle, Goto, Rest
<1>2. /\ DOMAIN bridge' = Fields /\ bridge'.busy = bridge.busy
      /\ bridge'.pending = None /\ bridge'.diffs = rest
  BY <1>1 DEF InductiveInv, TypeInv, Fields
<1>3. /\ "pc" \in DOMAIN thread[t] /\ "diff" \in DOMAIN thread[t] /\ d \in Diffs
  BY <1>1 DEF InductiveInv, TypeInv, ThreadOK
<1>4. new.pc = "present" /\ "pc" \in DOMAIN new
  BY <1>3
<1>5. /\ thread'[t] = new /\ \A u \in Threads \ {t} : thread'[u] = thread[u]
      /\ DOMAIN thread' = Threads
  BY <1>1 DEF InductiveInv, TypeInv
<1>6. AtHead(d, bridge.diffs)
  BY <1>1 DEF InductiveInv, ReviewInv, Holds
<1>7. /\ rest \in Seq(Diffs) /\ Numbered(rest) /\ Before(d, rest)
      /\ \A i \in DOMAIN rest : \E j \in DOMAIN bridge.diffs : rest[i] = bridge.diffs[j]
  BY <1>3, <1>6, RestOfQueue
<1> HIDE DEF new, rest
<1>8. TypeInv'
  <2>1. \A u \in Threads : ThreadOK(u)'
    BY <1>1, <1>4, <1>5 DEF InductiveInv, TypeInv, ThreadOK, Steps
  <2> QED BY <1>1, <1>2, <1>5, <1>7, <2>1 DEF InductiveInv, TypeInv
<1>9. OneTask'
  <2>1. t # Main => (Working(t) <=> new.pc \notin {"idle", "report"})
    BY <1>1, <1>4 DEF Working
  <2> QED BY <1>1, <1>2, <2>1, OneTaskKept
<1>10. \A u \in Threads : Holds(u)' => Holds(u) /\ u # t /\ thread'[u] = thread[u]
  BY <1>4, <1>5 DEF Holds
<1>11. ReviewInv'
  <2>1. \A u \in Threads : Holds(u)' => AtHead(thread'[u].diff, rest)
    BY <1>7, <1>10 DEF InductiveInv, ReviewInv, AtHead
  <2>2. \A u \in Threads : thread'[u].pc = "settle" => \E a \in answers : a.what = thread'[u].diff
    BY <1>4, <1>5 DEF InductiveInv, ReviewInv
  <2>3. Numbered(bridge.diffs)'
    BY <1>1, <1>2, <1>7 DEF Numbered
  <2> QED BY <1>1, <1>2, <2>1, <2>2, <2>3 DEF ReviewInv
<1>12. QueueInv'
  <2> SUFFICES ASSUME NEW w \in Workers, thread'[w].pc = "queue"
               PROVE /\ Numbered(thread[w].proposals)' /\ thread'[w] = thread[w]
                     /\ \A i \in DOMAIN rest : Before(rest[i], thread[w].proposals)
                     /\ \A u \in Threads : Holds(u)' => Before(thread'[u].diff, thread[w].proposals)
                     /\ \A a \in Discarded : Before(a.what, thread[w].proposals)
    BY <1>1, <1>2 DEF QueueInv, Discarded
  <2>1. thread'[w] = thread[w] /\ thread[w].pc = "queue"
    BY <1>4, <1>5 DEF Threads
  <2> QED
    BY <1>1, <1>7, <1>10, <2>1 DEF InductiveInv, QueueInv, Numbered
<1>13. AnswersInv'
  <2>1. t # Main => thread'[Main] = thread[Main]
    BY <1>5 DEF Threads
  <2>2. \A e : Before(e, bridge.diffs) => Before(e, rest)
    BY <1>7 DEF Before
  <2>3. Discarded' = Discarded
    BY <1>1 DEF Discarded
  <2>4. \A a \in Discarded' :
          /\ a.what \in Diffs /\ a.what.id <= made'
          /\ Before(a.what, rest) \/ (thread'[Main].pc = "settle" /\ thread'[Main].diff = a.what)
    BY <1>1, <1>7, <2>1, <2>2, <2>3 DEF InductiveInv, AnswersInv
  <2> QED BY <1>1, <1>2, <2>4 DEF InductiveInv, AnswersInv
<1>14. PendingInv'
  BY <1>2, <1>4, <1>5 DEF PendingInv
<1> QED BY <1>8, <1>9, <1>11, <1>12, <1>13, <1>14 DEF InductiveInv

\* The next proposal is shown, or taken up at once where edits are accepted.
LEMMA PresentStep ==
    ASSUME InductiveInv, NEW t \in Threads, PresentNextToolDiff(t)
    PROVE InductiveInv'
<1>1. thread[t].pc = "present" /\ UNCHANGED <<files, made, answers>>
  BY DEF PresentNextToolDiff
<1>2. /\ DOMAIN thread = Threads /\ DOMAIN bridge = Fields /\ "pc" \in DOMAIN thread[t]
  BY DEF InductiveInv, TypeInv, ThreadOK
<1>3. /\ "pc" \in DOMAIN After(t) /\ (After(t).pc = "idle" => After(t) = Idle)
      /\ After(t).pc = IF t = Main THEN "idle" ELSE "release"
  BY <1>2 DEF After, Idle
<1>4. /\ bridge'.busy = bridge.busy /\ bridge'.diffs = bridge.diffs /\ DOMAIN bridge' = Fields
      /\ IF bridge.diffs = <<>> THEN bridge'.pending = bridge.pending
         ELSE bridge'.pending = Head(bridge.diffs)
  BY <1>2 DEF PresentNextToolDiff, Fields
<1>5. PendingInv'
  BY <1>4 DEF InductiveInv, PendingInv
<1>6. CASE thread' = [thread EXCEPT ![t] = After(t)]
  <2>1. After(t).pc \in Steps(t) \ {"apply", "settle", "queue"}
    BY <1>3 DEF Steps
  <2>2. (\A u \in Threads : ThreadOK(u)') /\ ReviewInv' /\ QueueInv' /\ AnswersInv'
    BY <1>1, <1>3, <1>4, <1>6, <2>1, Quiet DEF NoNewReview
  <2>3. TypeInv'
    BY <1>1, <1>2, <1>4, <1>6, <2>2 DEF InductiveInv, TypeInv
  <2>4. t # Main => (Working(t) <=> After(t).pc \notin {"idle", "report"})
    BY <1>1, <1>3 DEF Working
  <2>5. OneTask'
    BY <1>4, <1>6, <2>4, OneTaskKept
  <2> QED BY <1>5, <2>2, <2>3, <2>5 DEF InductiveInv
<1>7. CASE thread' # [thread EXCEPT ![t] = After(t)]
  <2> DEFINE new == [pc |-> "apply", diff |-> Head(bridge.diffs), approved |-> TRUE, seen |-> None]
  <2>1. bridge.diffs # <<>> /\ thread' = [thread EXCEPT ![t] = new]
    BY <1>7 DEF PresentNextToolDiff
  <2>2. /\ {"pc", "diff", "approved"} \subseteq DOMAIN new
        /\ new.pc = "apply" /\ new.diff = Head(bridge.diffs) /\ new.approved
    OBVIOUS
  <2> HIDE DEF new
  <2>3. (\A u \in Threads : ThreadOK(u)') /\ ReviewInv' /\ QueueInv' /\ AnswersInv'
    BY <1>1, <1>4, <2>1, <2>2, TakesHead
  <2>4. TypeInv'
    BY <1>1, <1>2, <1>4, <2>1, <2>3 DEF InductiveInv, TypeInv
  <2>5. t # Main => (Working(t) <=> new.pc \notin {"idle", "report"})
    BY <1>1, <2>2 DEF Working
  <2>6. OneTask'
    BY <1>4, <2>1, <2>5, OneTaskKept
  <2> QED BY <1>5, <2>3, <2>4, <2>6 DEF InductiveInv
<1> QED BY <1>6, <1>7

\* An assistant thread that goes on without proposals.
LEMMA AssistantGoesOn ==
    ASSUME InductiveInv, NEW w \in Workers, NEW new,
           thread' = [thread EXCEPT ![w] = new],
           "pc" \in DOMAIN new, new.pc \in {"release", "report", "idle"}, new.pc = "idle" => new = Idle,
           thread[w].pc \notin {"settle", "present"},
           DOMAIN bridge' = Fields, bridge'.pending = bridge.pending, bridge'.diffs = bridge.diffs,
           bridge'.busy \in BOOLEAN, UNCHANGED <<files, made, answers>>
    PROVE TypeInv' /\ ReviewInv' /\ QueueInv' /\ AnswersInv' /\ PendingInv'
<1>1. w \in Threads /\ w # Main /\ DOMAIN thread = Threads
  BY ThreadsAssumption DEF Threads, InductiveInv, TypeInv
<1>2. new.pc \in Steps(w) \ {"apply", "settle", "queue"}
  BY <1>1 DEF Steps
<1>3. (\A u \in Threads : ThreadOK(u)') /\ ReviewInv' /\ QueueInv' /\ AnswersInv'
  BY <1>1, <1>2, Quiet DEF NoNewReview
<1>4. TypeInv'
  BY <1>1, <1>3 DEF InductiveInv, TypeInv
<1>5. PendingInv'
  <2>1. \A u \in Threads : thread[u].pc = "present" => thread'[u].pc = "present"
    BY <1>1
  <2> QED BY <2>1 DEF InductiveInv, PendingInv
<1> QED BY <1>3, <1>4, <1>5

\* A task ends without proposals: the flag is still up.
LEMMA TaskEnds ==
    ASSUME InductiveInv, NEW w \in Workers, thread[w].pc = "run",
           thread' = [thread EXCEPT ![w] = [pc |-> "release"]],
           SameBridge(bridge, bridge'), UNCHANGED <<files, made, answers>>
    PROVE InductiveInv'
<1> DEFINE new == [pc |-> "release"]
<1>1. new.pc = "release" /\ "pc" \in DOMAIN new
  OBVIOUS
<1>2. /\ DOMAIN bridge' = Fields /\ bridge'.pending = bridge.pending /\ bridge'.diffs = bridge.diffs
      /\ bridge'.busy = bridge.busy /\ bridge'.busy \in BOOLEAN
  BY DEF SameBridge, InductiveInv, TypeInv
<1> HIDE DEF new
<1>3. thread' = [thread EXCEPT ![w] = new]
  BY DEF new
<1>4. TypeInv' /\ ReviewInv' /\ QueueInv' /\ AnswersInv' /\ PendingInv'
  BY <1>1, <1>2, <1>3, AssistantGoesOn
<1>5. OneTask'
  <2>1. w \in Threads /\ (Working(w) <=> new.pc \notin {"idle", "report"})
    BY <1>1 DEF Working, Threads
  <2> QED BY <1>2, <1>3, <2>1, OneTaskKept
<1> QED BY <1>4, <1>5 DEF InductiveInv

\* What the tools have prepared is newer than anything in the bridge.
LEMMA NewProposals ==
    ASSUME InductiveInv, NEW ps \in Seq(Paths), made' = made + Len(ps)
    PROVE /\ ProposalsFor(ps) \in Seq(Diffs) /\ Increasing(ProposalsFor(ps))
          /\ \A i \in DOMAIN ProposalsFor(ps) : ProposalsFor(ps)[i].id <= made'
          /\ \A d \in Diffs : d.id <= made => Before(d, ProposalsFor(ps))
<1> DEFINE s == ProposalsFor(ps)
<1>1. made \in Nat /\ files \in [Paths -> Nat]
  BY DEF InductiveInv, TypeInv
<1>2. Len(ps) \in Nat /\ DOMAIN ps = 1 .. Len(ps) /\ \A i \in 1 .. Len(ps) : ps[i] \in Paths
  BY LenProperties, ElementOfSeq
<1>3. /\ DOMAIN s = 1 .. Len(ps)
      /\ \A i \in 1 .. Len(ps) :
            /\ s[i] = [id |-> made + i, path |-> ps[i], base |-> files[ps[i]]]
            /\ s[i] \in Diffs /\ s[i].id = made + i
  <2>1. s = [i \in 1 .. Len(ps) |-> [id |-> made + i, path |-> ps[i], base |-> files[ps[i]]]]
    BY <1>2 DEF ProposalsFor
  <2> QED BY <1>1, <1>2, <2>1 DEF Diffs
<1>4. s \in Seq(Diffs)
  <2>1. s = [i \in 1 .. Len(ps) |-> s[i]]
    BY <1>2 DEF ProposalsFor
  <2> HIDE DEF s
  <2> QED BY <1>2, <1>3, <2>1, IsASeq
<1>5. \A d \in Diffs : d.id <= made => Before(d, s)
  BY <1>1, <1>2, <1>3 DEF Before, Diffs
<1>6. Increasing(s)
  <2> HIDE DEF s
  <2> QED BY <1>1, <1>2, <1>3 DEF Increasing
<1>7. \A i \in DOMAIN s : s[i].id <= made'
  <2> HIDE DEF s
  <2> QED BY <1>1, <1>2, <1>3
<1> QED BY <1>4, <1>5, <1>6, <1>7

\* The tools return, with proposals that wait for their turn or without any.
LEMMA ToolsReturnStep ==
    ASSUME InductiveInv, NEW w \in Workers, ToolsReturn(w)
    PROVE InductiveInv'
<1>0. PICK ps :
        /\ ps \in UNION {[1 .. n -> Paths] : n \in 0 .. 2}
        /\ made' = made + Len(ps)
        /\ thread' = [thread EXCEPT ![w] =
              IF ps = <<>> THEN [pc |-> "release"] ELSE [pc |-> "queue", proposals |-> ProposalsFor(ps)]]
  BY Zenon DEF ToolsReturn
<1>1. thread[w].pc = "run" /\ UNCHANGED <<bridge, files, answers>>
  BY Zenon DEF ToolsReturn, Work
<1>2. ps \in Seq(Paths) /\ made' = made + Len(ps)
  <2>1. PICK n \in 0 .. 2 : ps \in [1 .. n -> Paths]
    BY <1>0
  <2>2. ps = [i \in 1 .. n |-> ps[i]] /\ n \in Nat /\ \A i \in 1 .. n : ps[i] \in Paths
    BY <2>1
  <2>3. ps \in Seq(Paths)
    BY <2>2, IsASeq
  <2> QED BY <1>0, <2>3
<1>3. /\ w \in Threads /\ w # Main /\ DOMAIN thread = Threads /\ made \in Nat
  BY ThreadsAssumption DEF Threads, InductiveInv, TypeInv
<1>4. CASE ps = <<>>
  <2>1. made' = made
    BY <1>2, <1>3, <1>4, EmptySeq
  <2>2. thread' = [thread EXCEPT ![w] = [pc |-> "release"]]
    BY <1>0, <1>4, Zenon
  <2>3. SameBridge(bridge, bridge')
    BY <1>1 DEF SameBridge
  <2> QED BY <1>1, <2>1, <2>2, <2>3, TaskEnds
<1>5. CASE ps # <<>>
  <2> DEFINE s == ProposalsFor(ps)
             new == [pc |-> "queue", proposals |-> s]
  <2>1. thread' = [thread EXCEPT ![w] = new]
    BY <1>0, <1>5, Zenon
  <2>2. new.pc = "queue" /\ new.proposals = s /\ "pc" \in DOMAIN new
    OBVIOUS
  <2>3. /\ s \in Seq(Diffs) /\ Increasing(s) /\ \A i \in DOMAIN s : s[i].id <= made'
        /\ \A d \in Diffs : d.id <= made => Before(d, s)
    BY <1>2, NewProposals
  <2> HIDE DEF s, new
  <2>4. made' \in Nat /\ made <= made'
    BY <1>2, <1>3, LenProperties
  <2>5. /\ thread'[w] = new /\ DOMAIN thread' = Threads
        /\ \A u \in Threads \ {w} : thread'[u] = thread[u]
    BY <1>3, <2>1
  <2>6. /\ bridge.diffs \in Seq(Diffs) /\ Numbered(bridge.diffs)
        /\ \A i \in DOMAIN bridge.diffs : bridge.diffs[i] \in Diffs /\ bridge.diffs[i].id \in Nat
    <3>1. bridge.diffs \in Seq(Diffs) /\ Numbered(bridge.diffs)
      BY DEF InductiveInv, TypeInv, ReviewInv
    <3>2. \A i \in DOMAIN bridge.diffs : bridge.diffs[i] \in Diffs
      BY <3>1, LenProperties, ElementOfSeq
    <3> QED BY <3>1, <3>2 DEF Diffs
  <2>7. \A d \in Diffs : d.id <= made => d.id <= made'
    BY <1>3, <2>4 DEF Diffs
  <2>8. \A u \in Threads : Holds(u)' => /\ Holds(u) /\ thread'[u] = thread[u]
                                        /\ thread[u].diff \in Diffs /\ thread[u].diff.id <= made
    BY <2>2, <2>5 DEF Holds, InductiveInv, TypeInv, ThreadOK
  <2>9. TypeInv'
    <3>1. ThreadOK(w)'
      BY <1>3, <2>2, <2>3, <2>5 DEF ThreadOK, Steps
    <3>2. \A u \in Threads \ {w} : ThreadOK(u)'
      BY <2>5, <2>7 DEF ThreadOK, InductiveInv, TypeInv
    <3> QED BY <1>1, <2>4, <2>5, <3>1, <3>2 DEF InductiveInv, TypeInv
  <2>10. OneTask'
    <3>1. Working(w) <=> new.pc \notin {"idle", "report"}
      BY <1>1, <2>2 DEF Working
    <3> QED BY <1>1, <1>3, <2>1, <3>1, OneTaskKept
  <2>11. ReviewInv'
    <3>1. Numbered(bridge.diffs)'
      BY <1>1, <2>6, <2>7 DEF Numbered
    <3>2. \A u \in Threads : Holds(u)' => AtHead(thread'[u].diff, bridge.diffs)
      BY <2>8 DEF InductiveInv, ReviewInv
    <3>3. \A u \in Threads : thread'[u].pc = "settle" => \E a \in answers : a.what = thread'[u].diff
      BY <2>2, <2>5 DEF InductiveInv, ReviewInv
    <3> QED BY <1>1, <3>1, <3>2, <3>3 DEF ReviewInv
  <2>12. QueueInv'
    <3>1. \A v \in Workers : thread'[v].pc = "queue" => v = w
      BY <1>1, <2>2, <2>5 DEF InductiveInv, OneTask, Working, Threads
    <3>2. thread'[w].proposals = s
      BY <2>2, <2>5
    <3>3. \A i \in DOMAIN bridge.diffs : Before(bridge.diffs[i], s)
      BY <2>3, <2>6 DEF Numbered
    <3>4. \A u \in Threads : Holds(u)' => Before(thread'[u].diff, s)
      BY <2>3, <2>8
    <3>5. \A a \in Discarded' : Before(a.what, s)
      BY <1>1, <2>3 DEF Discarded, InductiveInv, AnswersInv
    <3> QED BY <1>1, <2>2, <2>3, <2>5, <3>1, <3>2, <3>3, <3>4, <3>5 DEF QueueInv, Numbered
  <2>13. AnswersInv'
    <3>1. thread[Main].pc = "settle" => thread'[Main] = thread[Main]
      BY <1>3, <2>5 DEF Threads
    <3> QED BY <1>1, <2>7, <3>1 DEF InductiveInv, AnswersInv, Discarded
  <2>14. PendingInv'
    <3>1. \A u \in Threads : thread[u].pc = "present" => thread'[u].pc = "present"
      BY <1>1, <2>5
    <3> QED BY <1>1, <3>1 DEF InductiveInv, PendingInv
  <2> QED BY <2>9, <2>10, <2>11, <2>12, <2>13, <2>14 DEF InductiveInv
<1> QED BY <1>4, <1>5

\* Proposals replace the queue.
LEMMA QueueStep ==
    ASSUME InductiveInv, NEW w \in Workers, QueueToolDiffs(w)
    PROVE InductiveInv'
<1> DEFINE s == thread[w].proposals
           new == [thread[w] EXCEPT !.pc = "present"]
<1>1. /\ thread[w].pc = "queue" /\ thread' = [thread EXCEPT ![w] = new]
      /\ UNCHANGED <<files, made, answers>>
      /\ bridge' = [bridge EXCEPT !.pending = None, !.diffs = s]
  BY DEF QueueToolDiffs, Work, Goto
<1>2. /\ w \in Threads /\ w # Main /\ DOMAIN thread = Threads /\ ThreadOK(w)
  BY ThreadsAssumption DEF Threads, InductiveInv, TypeInv
<1>3. /\ DOMAIN bridge' = Fields /\ bridge'.busy = bridge.busy
      /\ bridge'.pending = None /\ bridge'.diffs = s
  BY <1>1 DEF InductiveInv, TypeInv, Fields
<1>4. new.pc = "present" /\ "pc" \in DOMAIN new /\ s \in Seq(Diffs)
  BY <1>1, <1>2 DEF ThreadOK
<1>5. /\ Numbered(s)
      /\ \A u \in Threads : Holds(u) => Before(thread[u].diff, s)
      /\ \A a \in Discarded : Before(a.what, s)
  BY <1>1 DEF InductiveInv, QueueInv
<1> HIDE DEF s, new
<1>6. /\ thread'[w] = new /\ DOMAIN thread' = Threads
      /\ \A u \in Threads \ {w} : thread'[u] = thread[u]
  BY <1>1, <1>2
<1>7. TypeInv'
  <2>1. ThreadOK(w)'
    BY <1>2, <1>4, <1>6 DEF ThreadOK, Steps
  <2>2. \A u \in Threads \ {w} : ThreadOK(u)'
    BY <1>1, <1>6 DEF ThreadOK, InductiveInv, TypeInv
  <2> QED BY <1>1, <1>3, <1>4, <1>6, <2>1, <2>2 DEF InductiveInv, TypeInv
<1>8. OneTask'
  <2>1. Working(w) <=> new.pc \notin {"idle", "report"}
    BY <1>1, <1>4 DEF Working
  <2> QED BY <1>1, <1>2, <1>3, <2>1, OneTaskKept
<1>9. \A u \in Threads : Holds(u)' => Holds(u) /\ thread'[u] = thread[u]
  BY <1>4, <1>6 DEF Holds
<1>10. ReviewInv'
  <2>1. Numbered(bridge.diffs)'
    BY <1>1, <1>3, <1>5 DEF Numbered
  <2>2. \A u \in Threads : Holds(u)' => AtHead(thread'[u].diff, s)
    BY <1>5, <1>9 DEF Before, AtHead
  <2>3. \A u \in Threads : thread'[u].pc = "settle" => \E a \in answers : a.what = thread'[u].diff
    BY <1>4, <1>6 DEF InductiveInv, ReviewInv
  <2> QED BY <1>1, <1>3, <2>1, <2>2, <2>3 DEF ReviewInv
<1>11. QueueInv'
  <2>1. \A v \in Workers : thread'[v].pc # "queue"
    BY <1>1, <1>4, <1>6 DEF InductiveInv, OneTask, Working, Threads
  <2> QED BY <2>1 DEF QueueInv
<1>12. AnswersInv'
  BY <1>1, <1>3, <1>5 DEF InductiveInv, AnswersInv, Discarded
<1>13. PendingInv'
  BY <1>2, <1>3, <1>4, <1>6 DEF PendingInv
<1> QED BY <1>7, <1>8, <1>10, <1>11, <1>12, <1>13 DEF InductiveInv

\* The other steps of an assistant thread.
LEMMA AssistStep ==
    ASSUME InductiveInv, NEW w \in Workers, Assist(w)
    PROVE InductiveInv'
<1>1. w \in Threads /\ w # Main /\ DOMAIN thread = Threads /\ ThreadOK(w) /\ DOMAIN bridge = Fields
  BY ThreadsAssumption DEF Threads, InductiveInv, TypeInv
<1>2. CASE ToolsReturn(w)
  BY <1>2, ToolsReturnStep
<1>3. CASE QueueToolDiffs(w)
  BY <1>3, QueueStep
<1>4. CASE Draft(w) \/ TaskFails(w)
  <2>1. /\ thread[w].pc = "run" /\ thread' = [thread EXCEPT ![w] = [pc |-> "release"]]
        /\ UNCHANGED <<files, made, answers>>
    BY <1>4 DEF Draft, TaskFails, Work
  <2>2. bridge' = bridge \/ bridge' = [bridge EXCEPT !.unavailable = TRUE]
    BY <1>4 DEF Draft, TaskFails
  <2>3. SameBridge(bridge, bridge')
    <3>1. CASE bridge' = bridge
      BY <3>1 DEF SameBridge
    <3>2. CASE bridge' = [bridge EXCEPT !.unavailable = TRUE]
      BY <1>1, <3>2, OtherField
    <3> QED BY <2>2, <3>1, <3>2
  <2> QED BY <2>1, <2>3, TaskEnds
<1>5. CASE Release(w)
  <2> DEFINE new == [thread[w] EXCEPT !.pc = "report"]
  <2>1. /\ thread[w].pc = "release" /\ thread' = [thread EXCEPT ![w] = new]
        /\ UNCHANGED <<files, made, answers>> /\ bridge' = [bridge EXCEPT !.busy = FALSE]
    BY <1>5 DEF Release, Work, Goto
  <2>2. /\ DOMAIN bridge' = Fields /\ bridge'.pending = bridge.pending
        /\ bridge'.diffs = bridge.diffs /\ bridge'.busy = FALSE
    BY <1>1, <2>1 DEF Fields
  <2>3. new.pc = "report" /\ "pc" \in DOMAIN new
    BY <1>1 DEF ThreadOK
  <2> HIDE DEF new
  <2>4. TypeInv' /\ ReviewInv' /\ QueueInv' /\ AnswersInv' /\ PendingInv'
    BY <2>1, <2>2, <2>3, AssistantGoesOn
  <2>5. OneTask'
    <3>1. \A v \in Workers : Working(v) => v = w
      BY <2>1 DEF InductiveInv, OneTask, Working
    <3>2. \A v \in Workers : ~Working(v)'
      BY <1>1, <2>1, <2>3, <3>1 DEF Working, Threads
    <3> QED BY <2>2, <3>2 DEF OneTask
  <2> QED BY <2>4, <2>5 DEF InductiveInv
<1>6. CASE ReportIdle(w)
  <2>1. /\ thread[w].pc = "report" /\ thread' = [thread EXCEPT ![w] = Idle]
        /\ UNCHANGED <<bridge, files, made, answers>>
    BY <1>6 DEF ReportIdle, Work
  <2>2. Idle.pc = "idle" /\ "pc" \in DOMAIN Idle /\ bridge'.busy \in BOOLEAN
    BY <2>1 DEF Idle, InductiveInv, TypeInv
  <2>3. TypeInv' /\ ReviewInv' /\ QueueInv' /\ AnswersInv' /\ PendingInv'
    BY <1>1, <2>1, <2>2, AssistantGoesOn
  <2>4. OneTask'
    <3>1. Working(w) <=> Idle.pc \notin {"idle", "report"}
      BY <2>1, <2>2 DEF Working
    <3> QED BY <1>1, <2>1, <3>1, OneTaskKept
  <2> QED BY <2>3, <2>4 DEF InductiveInv
<1> QED BY <1>2, <1>3, <1>4, <1>5, <1>6 DEF Assist

\* Keys, the client's reading and the child process do not reach this state.
LEMMA OutsideStep ==
    ASSUME InductiveInv, Person \/ ReadEvent \/ RunExits \/ ForwardRun \/ UNCHANGED vars
    PROVE InductiveInv'
<1>1. UNCHANGED <<bridge, thread, files, made, answers>>
  BY DEF Person, Type, TypeCommand, ApproveAction, ApplyToolDiff, CompleteQuestionnaire, ExecuteSpec,
         Leave, Quit, Press, ReadEvent, RunExits, ForwardRun, vars
<1> QED BY <1>1, Untouched DEF SameBridge, NoNewReview

\* Every step keeps the invariant.
LEMMA InductiveInvStep ==
    ASSUME InductiveInv, [Next]_vars
    PROVE InductiveInv'
<1>1. CASE Person \/ ReadEvent \/ RunExits \/ ForwardRun \/ UNCHANGED vars
  BY <1>1, OutsideStep
<1>2. CASE KillBridge
  BY <1>2, BridgeEnds
<1>3. CASE HandleCommand
  BY <1>3, CommandsThatStart, OtherCommands
<1>4. CASE \E t \in Threads : Review(t)
  BY <1>4, ApplyStep, ApplyRaisesStep, SettleStep, PresentStep DEF Review
<1>5. CASE \E w \in Workers : Assist(w)
  BY <1>5, AssistStep
<1> QED BY <1>1, <1>2, <1>3, <1>4, <1>5 DEF Next

\* The invariant of the session.
THEOREM SessionInvariant == Spec => []InductiveInv
<1>1. Init => InductiveInv
  BY InitInv
<1>2. InductiveInv /\ [Next]_vars => InductiveInv'
  BY InductiveInvStep
<1> QED BY <1>1, <1>2, PTL DEF Spec

\* The busy flag is up exactly while an assistant works, and never two work: the
\* guards of start_chat and of the drafts are enough although the flag falls on
\* another thread than the one that raises it.
THEOREM OneTaskAtATime == Spec => []OneTask
<1>1. InductiveInv => OneTask
  BY DEF InductiveInv
<1> QED BY <1>1, SessionInvariant, PTL

\* The proposal that an answer resolves is the first of the queue, none is
\* applied twice, and a discarded one does not come back.
THEOREM ProposalsAnsweredOnce == Spec => []AnsweredOnce
<1>1. ASSUME InductiveInv
      PROVE AnsweredOnce
  <2>1. (\A t \in Threads : thread[t].pc \notin {"apply", "settle", "present", "queue"}) =>
            bridge.pending = IF bridge.diffs = <<>> THEN None ELSE Head(bridge.diffs)
    BY <1>1 DEF InductiveInv, PendingInv
  <2>2. \A a, b \in answers : a.how = "applied" /\ b.how = "applied" /\ a.what = b.what => a = b
    BY <1>1 DEF InductiveInv, AnswersInv
  <2>3. ASSUME NEW a \in answers, a.how = "discarded", thread[Main] = Idle,
               NEW i \in DOMAIN bridge.diffs, bridge.diffs[i] = a.what
        PROVE FALSE
    <3>1. a \in Discarded /\ thread[Main].pc # "settle"
      BY <2>3 DEF Discarded, Idle
    <3>2. a.what \in Diffs /\ Before(a.what, bridge.diffs)
      BY <1>1, <3>1 DEF InductiveInv, AnswersInv
    <3> QED BY <2>3, <3>2 DEF Before, Diffs
  <2> QED BY <2>1, <2>2, <2>3 DEF AnsweredOnce
<1> QED BY <1>1, SessionInvariant, PTL

\* A proposal leaves the queue only answered, with the bridge, or replaced.
LEMMA NothingDropped ==
    ASSUME InductiveInv, Next, NEW i \in DOMAIN bridge.diffs,
           \A j \in DOMAIN bridge'.diffs : bridge'.diffs[j] # bridge.diffs[i]
    PROVE \/ \E a \in answers : a.what = bridge.diffs[i]
          \/ ~bridge'.alive
          \/ \E w \in Workers : thread[w].pc = "queue" \/ (thread[w] = Idle /\ thread'[w].pc = "run")
<1> DEFINE Goal == \/ \E a \in answers : a.what = bridge.diffs[i]
                   \/ ~bridge'.alive
                   \/ \E w \in Workers : thread[w].pc = "queue" \/ (thread[w] = Idle /\ thread'[w].pc = "run")
<1> SUFFICES Goal
  OBVIOUS
<1>1. bridge'.diffs # bridge.diffs
  OBVIOUS
<1>2. DOMAIN bridge = Fields /\ DOMAIN thread = Threads
  BY DEF InductiveInv, TypeInv
<1>3. CASE Person \/ ReadEvent \/ RunExits \/ ForwardRun
  <2>1. UNCHANGED bridge
    BY <1>3 DEF Person, Type, TypeCommand, ApproveAction, ApplyToolDiff, CompleteQuestionnaire, ExecuteSpec,
         Leave, Quit, Press, ReadEvent, RunExits, ForwardRun
  <2> QED BY <1>1, <2>1
<1>4. CASE KillBridge
  BY <1>4 DEF KillBridge, Started
<1>5. ASSUME NEW b, NEW task, StartAssistantTask(b, task)
      PROVE Goal
  <2> PICK w \in Workers : /\ thread[w] = Idle
                           /\ thread' = [thread EXCEPT ![w] = [pc |-> "run", task |-> task]]
    BY <1>5 DEF StartAssistantTask
  <2>1. thread'[w].pc = "run"
    BY <1>2 DEF Threads
  <2> QED BY <2>1
<1>6. ASSUME NEW b, NEW text, NEW approved, DOMAIN b = Fields, SameBridge(bridge, b),
             StartChat(b, text, approved)
      PROVE Goal
  <2>1. \/ bridge' = b \/ bridge' = [b EXCEPT !.history = "notes"] \/ bridge' = [b EXCEPT !.action = text]
        \/ \E c : StartAssistantTask(c, text)
    BY <1>6, Zenon DEF StartChat
  <2>2. bridge' = b => bridge'.diffs = bridge.diffs
    BY <1>6 DEF SameBridge
  <2>3. bridge' = [b EXCEPT !.history = "notes"] => bridge'.diffs = bridge.diffs
    BY <1>6 DEF SameBridge, Fields
  <2>4. bridge' = [b EXCEPT !.action = text] => bridge'.diffs = bridge.diffs
    BY <1>6 DEF SameBridge, Fields
  <2> HIDE DEF Goal
  <2> QED BY <1>1, <1>5, <2>1, <2>2, <2>3, <2>4
<1>7. CASE HandleCommand
  <2>1. CASE Chat
    <3>1. StartChat(bridge, Head(commands).text, FALSE) /\ SameBridge(bridge, bridge)
      BY <2>1 DEF Chat, SameBridge
    <3> HIDE DEF Goal
    <3> QED BY <1>2, <1>6, <3>1
  <2>2. CASE ResolveActionApproval
    <3> DEFINE b == [bridge EXCEPT !.action = None]
    <3>1. bridge' = b \/ StartChat(b, bridge.action, TRUE)
      BY <2>2, Zenon DEF ResolveActionApproval
    <3>2. SameBridge(bridge, b) /\ DOMAIN b = Fields /\ b.diffs = bridge.diffs
      BY <1>2, OtherField DEF SameBridge
    <3> HIDE DEF Goal, b
    <3> QED BY <1>1, <1>6, <3>1, <3>2
  <2>3. CASE StartDraft
    <3>1. \E b, task : StartAssistantTask(b, task)
      BY <2>3, Zenon DEF StartDraft
    <3> HIDE DEF Goal
    <3> QED BY <1>5, <3>1
  <2>4. CASE IgnoreDraft \/ SetPermissionMode \/ ExecuteRun \/ Cancel \/ ResolveToolDiff
    <3>1. bridge' = bridge \/ bridge' = [bridge EXCEPT !.permission = Head(commands).mode]
      BY <2>4 DEF IgnoreDraft, SetPermissionMode, ExecuteRun, Cancel, ResolveToolDiff
    <3> QED BY <1>1, <1>2, <3>1 DEF Fields
  <2> QED BY <1>7, <2>1, <2>2, <2>3, <2>4 DEF HandleCommand
<1>8. CASE \E t \in Threads : Review(t)
  <2> PICK t \in Threads : Review(t)
    BY <1>8
  <2>1. CASE Settle(t)
    <3> DEFINE d == thread[t].diff
    <3>1. thread[t].pc = "settle" /\ bridge'.diffs = Rest(d)
      BY <1>2, <2>1 DEF Settle, Rest, Fields
    <3>2. d \in Diffs /\ AtHead(d, bridge.diffs) /\ \E a \in answers : a.what = d
      BY <3>1 DEF InductiveInv, TypeInv, ThreadOK, ReviewInv, Holds
    <3>3. bridge.diffs[i] = d \/ \E j \in DOMAIN bridge'.diffs : bridge'.diffs[j] = bridge.diffs[i]
      BY <3>1, <3>2, RestOfQueue
    <3> QED BY <3>2, <3>3
  <2>2. CASE Apply(t) \/ ApplyRaises(t) \/ PresentNextToolDiff(t)
    <3>1. bridge'.diffs = bridge.diffs
      BY <1>2, <2>2 DEF Apply, ApplyRaises, PresentNextToolDiff, Fields
    <3> QED BY <1>1, <3>1
  <2> QED BY <2>1, <2>2 DEF Review
<1>9. CASE \E w \in Workers : Assist(w)
  <2> PICK w \in Workers : Assist(w)
    BY <1>9
  <2>1. CASE QueueToolDiffs(w)
    BY <2>1 DEF QueueToolDiffs, Work
  <2>2. CASE ~QueueToolDiffs(w)
    <3>1. \/ bridge' = bridge \/ bridge' = [bridge EXCEPT !.unavailable = TRUE]
          \/ bridge' = [bridge EXCEPT !.busy = FALSE]
      <4>1. CASE ToolsReturn(w)
        BY <4>1 DEF ToolsReturn
      <4>2. CASE Draft(w) \/ TaskFails(w) \/ Release(w) \/ ReportIdle(w)
        BY <4>2 DEF Draft, TaskFails, Release, ReportIdle
      <4> QED BY <2>2, <4>1, <4>2 DEF Assist
    <3> QED BY <1>1, <1>2, <3>1 DEF Fields
  <2> QED BY <2>1, <2>2
<1> QED BY <1>3, <1>4, <1>7, <1>8, <1>9 DEF Next

\* No step loses a proposal that nobody has answered, unless a later task
\* replaces the queue (tui_bridge.py:1047).
THEOREM ProposalsAreNotLost == Spec => DiffsAreNotLost
<1>1. ASSUME InductiveInv, [Next]_vars
      PROVE [\A i \in DOMAIN bridge.diffs :
                LET d == bridge.diffs[i]
                IN (\A j \in DOMAIN bridge'.diffs : bridge'.diffs[j] # d) =>
                      \/ \E a \in answers : a.what = d
                      \/ ~bridge'.alive
                      \/ \E w \in Workers : thread[w].pc = "queue" \/ (thread[w] = Idle /\ thread'[w].pc = "run")
            ]_bridge
  <2>1. CASE Next
    BY <1>1, <2>1, NothingDropped
  <2>2. CASE UNCHANGED vars
    BY <2>2 DEF vars
  <2> QED BY <1>1, <2>1, <2>2
<1> QED BY <1>1, SessionInvariant, PTL DEF Spec, DiffsAreNotLost
-----------------------------------------------------------------------------
(* What the guard of the API's cost lets through *)

\* Approvals that are not used up.
Unused == IF overage THEN 1 ELSE 0

\* What the guard counts: calls let through beyond the cap, approvals given,
\* and whether one is left.
GuardInv ==
    /\ unapproved \in Nat /\ approvals \in Nat
    /\ Unused \in {0, 1}
    /\ unapproved + Unused <= approvals

\* What a step does to the flag it does to the number.
LEMMA UnusedByFlag ==
    /\ overage = FALSE => Unused = 0
    /\ overage = TRUE => Unused = 1
    /\ overage' = FALSE => Unused' = 0
    /\ overage' = TRUE => Unused' = 1
    /\ overage' = overage => Unused' = Unused
    /\ Unused \in {0, 1} /\ Unused' \in {0, 1}
<1>1. (overage = FALSE => Unused = 0) /\ (overage = TRUE => Unused = 1)
  BY Zenon DEF Unused
<1>2. (overage' = FALSE => Unused' = 0) /\ (overage' = TRUE => Unused' = 1)
  BY Zenon DEF Unused
<1>3. overage' = overage => Unused' = Unused
  BY DEF Unused
<1>4. (overage => Unused = 1) /\ (~overage => Unused = 0)
  BY Zenon DEF Unused
<1>5. (overage' => Unused' = 1) /\ (~overage' => Unused' = 0)
  BY Zenon DEF Unused
<1> QED
  BY <1>1, <1>2, <1>3, <1>4, <1>5

\* A session starts without approvals and without calls.
LEMMA GuardInvInit ==
    ASSUME ConversationInit
    PROVE GuardInv
<1>1. unapproved = 0 /\ approvals = 0 /\ overage = FALSE
  BY DEF ConversationInit
<1>2. Unused = 0
  BY <1>1, UnusedByFlag
<1> QED
  BY <1>1, <1>2 DEF GuardInv

\* A step that leaves the counters and the flag alone.
LEMMA GuardInvStutter ==
    ASSUME GuardInv, UNCHANGED <<unapproved, approvals, overage>>
    PROVE GuardInv'
<1>1. Unused' = Unused
  BY UnusedByFlag
<1> QED
  BY <1>1 DEF GuardInv

\* A call beyond the cap is let through only with an approval, which is then
\* used up.
LEMMA AllowedUsesApproval ==
    ASSUME GuardInv, GuardAllows
    PROVE GuardInv'
<1>1. Unused' = 0 /\ approvals' = approvals
  BY UnusedByFlag DEF GuardAllows
<1>2. CASE spent + 1 > cap
  <2>1. Decision = "allowed"
    BY DEF GuardAllows
  <2>2. overage
    BY <1>2, <2>1 DEF Decision
  <2>3. Unused = 1
    BY <2>2, Zenon DEF Unused
  <2>4. unapproved' = unapproved + 1
    BY <1>2 DEF GuardAllows
  <2> QED
    BY <1>1, <2>3, <2>4 DEF GuardInv
<1>3. CASE ~(spent + 1 > cap)
  <2>1. unapproved' = unapproved
    BY <1>3 DEF GuardAllows
  <2> QED
    BY <1>1, <2>1 DEF GuardInv
<1> QED
  BY <1>2, <1>3

\* An approval is counted when it is given, and may be taken back unused.
LEMMA ApprovalIsCounted ==
    ASSUME GuardInv, NEW yes \in BOOLEAN, ApproveOverage(yes)
    PROVE GuardInv'
<1>1. overage' = yes /\ unapproved' = unapproved
  BY DEF ApproveOverage
<1>2. CASE yes = TRUE
  <2>1. approvals' = approvals + 1 /\ Unused' = 1
    BY <1>1, <1>2, UnusedByFlag DEF ApproveOverage
  <2> QED
    BY <1>1, <2>1 DEF GuardInv
<1>3. CASE yes = FALSE
  <2>1. approvals' = approvals /\ Unused' = 0
    BY <1>1, <1>3, UnusedByFlag DEF ApproveOverage
  <2> QED
    BY <1>1, <2>1 DEF GuardInv
<1> QED
  BY <1>2, <1>3

\* No other step touches the counters or the flag.
LEMMA GuardInvStep ==
    ASSUME GuardInv, [ConversationNext]_conversation
    PROVE GuardInv'
<1> DEFINE Unspent == UNCHANGED <<unapproved, approvals, overage>>
<1>1. CASE Ask \/ CompactContext \/ ClearContext \/ SaveConversation \/ RewindConversation
  <2>1. Unspent
    BY <1>1 DEF Ask, CompactContext, ClearContext, SaveConversation, RewindConversation, money
  <2> QED BY <2>1, GuardInvStutter
<1>2. CASE SetContributionSplit \/ SaveProviderSettings
  <2>1. Unspent
    BY <1>2 DEF SetContributionSplit, SaveProviderSettings, money
  <2> QED BY <2>1, GuardInvStutter
<1>3. CASE \E yes \in BOOLEAN : ApproveOverage(yes)
  BY <1>3, ApprovalIsCounted
<1>4. CASE Choose \/ GuardRefuses \/ RecordCost \/ Answered \/ Report \/ Raise \/ WorkerReads
  <2>1. Unspent
    BY <1>4 DEF Choose, GuardRefuses, RecordCost, Answered, Report, Raise, WorkerReads, money
  <2> QED BY <2>1, GuardInvStutter
<1>5. CASE GuardAllows
  BY <1>5, AllowedUsesApproval
<1>6. CASE \E outcome \in {"answer", "empty", "timeout", "unreachable", "refused"} : Post(outcome)
  <2>1. Unspent
    BY <1>6 DEF Post
  <2> QED BY <2>1, GuardInvStutter
<1>7. CASE \E answered \in BOOLEAN : AskLocally(answered)
  <2>1. Unspent
    BY <1>7 DEF AskLocally, money
  <2> QED BY <2>1, GuardInvStutter
<1>8. CASE \E outcome \in {"summary", "unusable", "raises"} :
              WorkerSummarises(outcome) \/ CompactorSummarises(outcome)
  <2>1. Unspent
    BY <1>8 DEF WorkerSummarises, CompactorSummarises, money
  <2> QED BY <2>1, GuardInvStutter
<1>9. CASE CompactorReads
  <2>1. Unspent
    BY <1>9 DEF CompactorReads, money
  <2> QED BY <2>1, GuardInvStutter
<1>10. CASE UNCHANGED conversation
  <2>1. Unspent
    BY <1>10 DEF conversation
  <2> QED BY <2>1, GuardInvStutter
<1> QED
  BY <1>1, <1>2, <1>3, <1>4, <1>5, <1>6, <1>7, <1>8, <1>9, <1>10
     DEF ConversationNext, Command, Worker, Compactor

\* Every approval of an overage lets at most one call beyond the cap through,
\* for any cap and however approvals, other calls, new settings and compactions
\* come in between (ApiCostGuard, tui_bridge.py:888).
THEOREM SingleUse == ConversationSpec => []OverageIsSingleUse
<1>1. ConversationInit => GuardInv
  BY GuardInvInit
<1>2. GuardInv /\ [ConversationNext]_conversation => GuardInv'
  BY GuardInvStep
<1>3. GuardInv => OverageIsSingleUse
  BY DEF GuardInv, OverageIsSingleUse, Unused
<1> QED
  BY <1>1, <1>2, <1>3, PTL DEF ConversationSpec
-----------------------------------------------------------------------------
(* What is forgotten.                                                        *)

Ids == 1..said
Entries == [covers : SUBSET Ids, summary : BOOLEAN]

\* Nothing is missing from, or back in, a set of messages but what was removed
\* or came in the middle of a compaction.
Accounted(ids) ==
    /\ ids \subseteq Ids
    /\ Ids \subseteq ids \cup erased \cup raced
    /\ ids \cap erased \subseteq raced

\* The history is accounted for, and so is what a compaction under way has read,
\* which will replace it.
MemoryInv ==
    /\ said \in Nat /\ "pc" \in DOMAIN worker
    /\ history \in Seq(Entries) /\ saved \in Seq(Entries)
    /\ erased \subseteq Ids
    /\ Accounted(Known(history))
    /\ worker.pc = "summarising" => Accounted(worker.read)
    /\ compactor.pc = "summarising" => Accounted(compactor.read)

\* What a longer history knows.
LEMMA KnownAppend ==
    ASSUME NEW S, NEW h \in Seq(S), NEW e
    PROVE Known(Append(h, e)) = Known(h) \cup e.covers
<1>1. DOMAIN h = 1..Len(h) /\ DOMAIN Append(h, e) = 1..(Len(h) + 1) /\ Len(h) \in Nat
  OBVIOUS
<1>2. \A i \in 1..Len(h) : Append(h, e)[i] = h[i]
  OBVIOUS
<1>3. Append(h, e)[Len(h) + 1] = e
  OBVIOUS
<1>4. ASSUME NEW x PROVE x \in Known(Append(h, e)) <=> x \in Known(h) \cup e.covers
  <2>1. x \in Known(h) <=> \E i \in 1..Len(h) : x \in h[i].covers
    BY <1>1 DEF Known
  <2>2. x \in Known(Append(h, e)) <=> \E i \in 1..(Len(h) + 1) : x \in Append(h, e)[i].covers
    BY <1>1 DEF Known
  <2> QED
    BY <1>1, <1>2, <1>3, <2>1, <2>2
<1> QED
  BY <1>4

\* What a shorter one may know.
LEMMA KnownTrimmed ==
    ASSUME NEW S, NEW h \in Seq(S)
    PROVE Trimmed(h) \in Seq(S) /\ Known(Trimmed(h)) \subseteq Known(h)
<1> MaxHistory \in Nat \ {0}
  BY LimitsAssumption
<1>1. CASE Len(h) > MaxHistory
  <2> DEFINE m == Len(h) - MaxHistory + 1
             t == SubSeq(h, m, Len(h))
  <2>1. m \in 1..Len(h) /\ Len(h) \in Nat
    BY <1>1
  <2>2. t \in Seq(S) /\ Len(t) = Len(h) - m + 1 /\ \A i \in 1..Len(t) : t[i] = h[m + i - 1]
    BY <2>1
  <2>3. \A i \in DOMAIN t : m + i - 1 \in DOMAIN h /\ t[i] = h[m + i - 1]
    <3> HIDE DEF t
    <3>1. DOMAIN t = 1..Len(t) /\ DOMAIN h = 1..Len(h)
      BY <2>2
    <3> QED BY <2>1, <2>2, <3>1
  <2>4. Trimmed(h) = t
    BY <1>1 DEF Trimmed
  <2>5. Known(t) \subseteq Known(h)
    <3> HIDE DEF t, m
    <3> QED BY <2>3 DEF Known
  <2> QED
    BY <2>2, <2>4, <2>5
<1>2. CASE ~(Len(h) > MaxHistory)
  BY <1>2 DEF Trimmed
<1> QED
  BY <1>1, <1>2

LEMMA KnownBounded ==
    ASSUME NEW S, NEW h \in Seq([covers : SUBSET S, summary : BOOLEAN])
    PROVE Known(h) \subseteq S
<1>1. \A i \in DOMAIN h : h[i] \in [covers : SUBSET S, summary : BOOLEAN]
  BY ElementOfSeq, LenProperties
<1>2. \A i \in DOMAIN h : h[i].covers \subseteq S
  BY <1>1
<1> QED
  BY <1>2 DEF Known

LEMMA MemoryInvInit ==
    ASSUME ConversationInit
    PROVE MemoryInv
<1>1. said = 0 /\ history = <<>> /\ saved = <<>> /\ erased = {} /\ raced = {}
  BY DEF ConversationInit
<1>2. worker.pc = "idle" /\ compactor.pc = "idle" /\ "pc" \in DOMAIN worker
  BY DEF ConversationInit, Free
<1>3. Known(history) = {} /\ Ids = {}
  BY <1>1 DEF Known, Ids
<1> QED
  BY <1>1, <1>2, <1>3 DEF MemoryInv, Accounted

\* A step that leaves the messages alone, and of whose threads none has just read.
LEMMA MemoryInvStutter ==
    ASSUME MemoryInv, UNCHANGED memory, saved' \in {saved, history}, "pc" \in DOMAIN worker',
           worker'.pc = "summarising" => worker'.read = Known(history) \/ UNCHANGED worker,
           compactor'.pc = "summarising" => compactor'.read = Known(history) \/ UNCHANGED compactor
    PROVE MemoryInv'
<1>1. UNCHANGED <<history, said, erased, raced, Ids, Entries>>
  BY DEF memory, Ids, Entries
<1>2. Known(history)' = Known(history)
  BY <1>1 DEF Known
<1>3. \A ids : Accounted(ids)' <=> Accounted(ids)
  BY <1>1 DEF Accounted
<1> QED
  BY <1>1, <1>2, <1>3 DEF MemoryInv, Accounted

\* A new message, and the oldest one that falls off: what is read during a
\* compaction stays accounted for, as both have raced with it.
LEMMA SayKeeps ==
    ASSUME MemoryInv, Say, UNCHANGED saved, "pc" \in DOMAIN worker',
           worker'.pc = "summarising" => UNCHANGED worker,
           compactor'.pc = "summarising" => UNCHANGED compactor
    PROVE MemoryInv'
<1> DEFINE new == said + 1
           all == Append(history, Message(new))
           dropped == Known(all) \ Known(Trimmed(all))
<1>1. /\ said' = new /\ history' = Trimmed(all)
      /\ erased' = erased \cup dropped /\ raced' = Raced({new} \cup dropped)
  BY DEF Say
<1>2. said \in Nat /\ Ids' = Ids \cup {new} /\ new \notin Ids /\ Ids \subseteq Ids'
  BY <1>1 DEF MemoryInv, Ids
<1>3. history \in Seq(Entries') /\ saved \in Seq(Entries')
  <2>1. Entries \subseteq Entries'
    BY <1>2 DEF Entries
  <2> QED BY <2>1, SeqMonotonic DEF MemoryInv
<1>4. Message(new) \in Entries'
  BY <1>2 DEF Message, Entries
<1>5. all \in Seq(Entries')
  BY <1>3, <1>4
<1>6. Known(all) = Known(history) \cup {new}
  BY <1>3, KnownAppend DEF Message
<1>7. history' \in Seq(Entries') /\ Known(history)' \subseteq Known(all)
  <2>1. Known(history)' = Known(history')
    BY DEF Known
  <2> QED BY <1>1, <1>5, <2>1, KnownTrimmed
<1>8. raced \subseteq raced' /\ (Reading => {new} \cup dropped \subseteq raced')
  BY <1>1 DEF Raced
<1> HIDE DEF dropped, new, all
<1>9. Known(all) = Known(history)' \cup dropped /\ Known(history)' \cap dropped = {}
  <2>1. Known(history)' = Known(Trimmed(all))
    BY <1>1 DEF Known
  <2> QED BY <1>7, <2>1 DEF dropped
<1>10. Accounted(Known(history))'
  <2> SUFFICES /\ Known(history)' \subseteq Ids'
               /\ Ids' \subseteq Known(history)' \cup erased' \cup raced'
               /\ Known(history)' \cap erased' \subseteq raced'
    BY DEF Accounted
  <2>1. Known(history) \subseteq Ids /\ Ids \subseteq Known(history) \cup erased \cup raced
        /\ Known(history) \cap erased \subseteq raced /\ erased \subseteq Ids
    BY DEF MemoryInv, Accounted
  <2> QED BY <1>1, <1>2, <1>6, <1>8, <1>9, <2>1
<1>11. ASSUME NEW ids, Reading, Accounted(ids) PROVE Accounted(ids)'
  BY <1>1, <1>2, <1>8, <1>11 DEF Accounted
<1>12. erased' \subseteq Ids'
  BY <1>1, <1>2, <1>6, <1>9 DEF MemoryInv, Accounted
<1>13. worker'.pc = "summarising" => Accounted(worker.read)'
  BY <1>11 DEF MemoryInv, Reading
<1>14. compactor'.pc = "summarising" => Accounted(compactor.read)'
  BY <1>11 DEF MemoryInv, Reading
<1>15. saved' \in Seq(Entries') /\ said' \in Nat /\ "pc" \in DOMAIN worker'
  BY <1>1, <1>2, <1>3 DEF new
<1> QED
  BY <1>7, <1>10, <1>12, <1>13, <1>14, <1>15 DEF MemoryInv

\* What the person clears or brings back: what was read before has raced with it.
LEMMA EraseKeeps ==
    ASSUME MemoryInv, NEW kept, kept \in {<<>>, saved}, Erase(kept), UNCHANGED <<saved, worker, compactor>>
    PROVE MemoryInv'
<1>1. /\ history' = kept /\ said' = said
      /\ erased' = (erased \cup Known(history)) \ Known(kept)
      /\ raced' = Raced(Known(history) \cup Known(kept))
  BY DEF Erase
<1>2. Ids' = Ids /\ Entries' = Entries
  BY <1>1 DEF Ids, Entries
<1>3. kept \in Seq(Entries) /\ Known(history)' = Known(kept)
  <2>1. Known(history)' = Known(kept)
    BY <1>1 DEF Known
  <2>2. saved \in Seq(Entries) /\ <<>> \in Seq(Entries)
    BY EmptySeq DEF MemoryInv
  <2> QED BY <2>1, <2>2
<1>4. Known(kept) \subseteq Ids
  BY <1>3, KnownBounded DEF Entries
<1>5. raced \subseteq raced' /\ (Reading => Known(history) \cup Known(kept) \subseteq raced')
  BY <1>1 DEF Raced
<1>6. Accounted(Known(history))'
  BY <1>1, <1>2, <1>3, <1>4, <1>5 DEF MemoryInv, Accounted
<1>7. ASSUME NEW ids, Reading, Accounted(ids) PROVE Accounted(ids)'
  BY <1>1, <1>2, <1>5, <1>7 DEF Accounted
<1>8. erased' \subseteq Ids'
  BY <1>1, <1>2 DEF MemoryInv, Accounted
<1>9. worker'.pc = "summarising" => Accounted(worker.read)'
  BY <1>7 DEF MemoryInv, Reading
<1>10. compactor'.pc = "summarising" => Accounted(compactor.read)'
  BY <1>7 DEF MemoryInv, Reading
<1> QED
  BY <1>1, <1>2, <1>3, <1>6, <1>8, <1>9, <1>10 DEF MemoryInv

\* A summary takes the place of whatever the history has become.
LEMMA SummaryKeeps ==
    ASSUME MemoryInv, NEW read, Accounted(read), Summarised(read), UNCHANGED saved, "pc" \in DOMAIN worker',
           worker'.pc = "summarising" => UNCHANGED worker,
           compactor'.pc = "summarising" => UNCHANGED compactor
    PROVE MemoryInv'
<1>1. history' = <<[covers |-> read, summary |-> TRUE]>> /\ UNCHANGED <<said, erased, raced>>
  BY DEF Summarised
<1>2. Ids' = Ids /\ Entries' = Entries
  BY <1>1 DEF Ids, Entries
<1>3. history' \in Seq(Entries)
  BY <1>1 DEF Accounted, Entries
<1>4. Known(history)' = read
  BY <1>1 DEF Known
<1>5. \A ids : Accounted(ids)' <=> Accounted(ids)
  BY <1>1, <1>2 DEF Accounted
<1> QED
  BY <1>1, <1>2, <1>3, <1>4, <1>5 DEF MemoryInv, Accounted

\* Commands come at any time, also in the middle of a compaction.
LEMMA MemoryInvCommand ==
    ASSUME MemoryInv, Command
    PROVE MemoryInv'
<1>1. CASE Ask
  <2>1. Say /\ UNCHANGED <<saved, compactor>> /\ worker'.pc = "choose" /\ "pc" \in DOMAIN worker'
    BY <1>1 DEF Ask
  <2> QED BY <2>1, SayKeeps
<1>2. CASE CompactContext
  <2>1. UNCHANGED memory /\ UNCHANGED <<saved, worker>> /\ compactor'.pc = "read" /\ "pc" \in DOMAIN worker
    BY <1>2 DEF CompactContext, MemoryInv
  <2> QED BY <2>1, MemoryInvStutter
<1>3. CASE ClearContext
  BY <1>3, EraseKeeps DEF ClearContext
<1>4. CASE SaveConversation
  <2>1. MemoryInv /\ UNCHANGED <<history, said, erased, raced, worker, compactor>> /\ saved' = history
    BY <1>4 DEF SaveConversation
  <2>2. Known(history)' = Known(history) /\ Ids' = Ids /\ Entries' = Entries
    BY <2>1 DEF Known, Ids, Entries
  <2>3. \A ids : Accounted(ids)' <=> Accounted(ids)
    BY <2>1, <2>2 DEF Accounted
  <2> QED BY <2>1, <2>2, <2>3 DEF MemoryInv, Accounted
<1>5. CASE RewindConversation
  BY <1>5, EraseKeeps DEF RewindConversation
<1>6. CASE SetContributionSplit \/ SaveProviderSettings \/ \E yes \in BOOLEAN : ApproveOverage(yes)
  <2>1. UNCHANGED <<history, said, erased, raced, saved, worker, compactor>>
    BY <1>6 DEF SetContributionSplit, SaveProviderSettings, ApproveOverage, memory
  <2>2. Known(history)' = Known(history) /\ Ids' = Ids /\ Entries' = Entries
    BY <2>1 DEF Known, Ids, Entries
  <2>3. \A ids : Accounted(ids)' <=> Accounted(ids)
    BY <2>1, <2>2 DEF Accounted
  <2> QED BY <2>1, <2>2, <2>3 DEF MemoryInv, Accounted
<1> QED
  BY <1>1, <1>2, <1>3, <1>4, <1>5, <1>6 DEF Command

\* Of the worker's steps only its answers and reports add to the history, and
\* only the end of a compaction replaces it.
LEMMA MemoryInvWorker ==
    ASSUME MemoryInv, Worker
    PROVE MemoryInv'
<1>1. CASE Choose \/ GuardRefuses \/ GuardAllows \/ RecordCost \/ Raise
           \/ \E answered \in BOOLEAN : AskLocally(answered)
  <2>1. UNCHANGED memory /\ UNCHANGED <<saved, compactor>>
    BY <1>1 DEF Choose, GuardRefuses, GuardAllows, RecordCost, Raise, AskLocally, Others
  <2>2. Choose => \E to : worker' = [pc |-> IF to = "api" THEN "guard" ELSE "ask locally",
                                    kind |-> worker.kind, to |-> to]
    BY Zenon DEF Choose
  <2>3. CASE Choose
    <3>1. PICK to : worker' = [pc |-> IF to = "api" THEN "guard" ELSE "ask locally",
                               kind |-> worker.kind, to |-> to]
      BY <2>2, <2>3
    <3>2. worker'.pc \in {"guard", "ask locally"} /\ "pc" \in DOMAIN worker'
      BY <3>1
    <3> QED BY <2>1, <3>2, MemoryInvStutter
  <2>4. CASE GuardRefuses \/ RecordCost \/ \E answered \in BOOLEAN : AskLocally(answered)
    <3>1. \E pc \in {"report", "answer", "read", "raise"} : Then(pc)
      BY <2>4, Zenon DEF GuardRefuses, RecordCost, AskLocally
    <3> QED BY <2>1, <3>1, MemoryInvStutter DEF Then
  <2>5. CASE GuardAllows
    BY <2>1, <2>5, MemoryInvStutter DEF GuardAllows
  <2>6. CASE Raise
    BY <2>1, <2>6, MemoryInvStutter DEF Raise, Free
  <2> QED BY <1>1, <2>3, <2>4, <2>5, <2>6
<1>2. CASE \E outcome \in {"answer", "empty", "timeout", "unreachable", "refused"} : Post(outcome)
  <2>1. UNCHANGED memory /\ UNCHANGED <<saved, compactor>>
    BY <1>2 DEF Post, Others
  <2>2. worker.pc = "post" /\ \/ \E pc \in {"record", "raise", "report"} : Then(pc)
                              \/ worker' = [worker EXCEPT !.attempt = @ + 1]
    BY <1>2, Zenon DEF Post
  <2>3. worker'.pc # "summarising" /\ "pc" \in DOMAIN worker'
    BY <2>2 DEF Then, MemoryInv
  <2> QED BY <2>1, <2>3, MemoryInvStutter
<1>3. CASE Answered \/ Report
  <2>1. Say /\ UNCHANGED <<saved, compactor>> /\ worker' = Free
    BY <1>3 DEF Answered, Report, Others
  <2>2. worker'.pc = "idle" /\ "pc" \in DOMAIN worker'
    BY <2>1 DEF Free
  <2> QED BY <2>1, <2>2, SayKeeps
<1>4. CASE WorkerReads
  <2>1. UNCHANGED memory /\ UNCHANGED <<saved, compactor>> /\ worker'.read = Known(history)
        /\ "pc" \in DOMAIN worker'
    BY <1>4 DEF WorkerReads, Others
  <2> QED BY <2>1, MemoryInvStutter
<1>5. ASSUME NEW outcome, WorkerSummarises(outcome)
      PROVE MemoryInv'
  <2>1. worker.pc = "summarising" /\ UNCHANGED <<saved, compactor>> /\ worker'.pc # "summarising"
        /\ "pc" \in DOMAIN worker'
    BY <1>5 DEF WorkerSummarises, Then
  <2>2. Summarised(worker.read) \/ UNCHANGED memory
    BY <1>5 DEF WorkerSummarises
  <2>3. CASE Summarised(worker.read)
    BY <2>1, <2>3, SummaryKeeps DEF MemoryInv
  <2>4. CASE UNCHANGED memory
    BY <2>1, <2>4, MemoryInvStutter
  <2> QED BY <2>2, <2>3, <2>4
<1> QED
  BY <1>1, <1>2, <1>3, <1>4, <1>5 DEF Worker

LEMMA MemoryInvCompactor ==
    ASSUME MemoryInv, Compactor
    PROVE MemoryInv'
<1>1. CASE CompactorReads
  <2>1. UNCHANGED memory /\ UNCHANGED <<saved, worker>> /\ compactor'.read = Known(history)
        /\ "pc" \in DOMAIN worker
    BY <1>1 DEF CompactorReads, MemoryInv
  <2> QED BY <2>1, MemoryInvStutter
<1>2. ASSUME NEW outcome, CompactorSummarises(outcome)
      PROVE MemoryInv'
  <2>1. compactor.pc = "summarising" /\ UNCHANGED <<saved, worker>> /\ compactor'.pc # "summarising"
        /\ "pc" \in DOMAIN worker
    BY <1>2 DEF CompactorSummarises, Free, MemoryInv
  <2>2. Summarised(compactor.read) \/ UNCHANGED memory
    BY <1>2 DEF CompactorSummarises
  <2>3. CASE Summarised(compactor.read)
    BY <2>1, <2>3, SummaryKeeps DEF MemoryInv
  <2>4. CASE UNCHANGED memory
    BY <2>1, <2>4, MemoryInvStutter
  <2> QED BY <2>2, <2>3, <2>4
<1> QED
  BY <1>1, <1>2 DEF Compactor

\* What was said is in the history or in a summary of it unless somebody removed
\* it, the cap dropped it or a compaction under way lost it, and what was removed
\* comes back only from such a compaction, for a history, a cap and a
\* conversation of any length (tui_bridge.py:984).
THEOREM NothingElseForgotten == ConversationSpec => []ForgottenOnlyByRace
<1>1. ConversationInit => MemoryInv
  BY MemoryInvInit
<1>2. MemoryInv /\ [ConversationNext]_conversation => MemoryInv'
  <2>1. ASSUME MemoryInv, UNCHANGED conversation PROVE MemoryInv'
    <3>1. UNCHANGED memory /\ UNCHANGED <<saved, worker, compactor>> /\ "pc" \in DOMAIN worker
      BY <2>1 DEF conversation, memory, MemoryInv
    <3> QED BY <2>1, <3>1, MemoryInvStutter
  <2> QED
    BY <2>1, MemoryInvCommand, MemoryInvWorker, MemoryInvCompactor DEF ConversationNext
<1>3. MemoryInv => ForgottenOnlyByRace
  BY DEF MemoryInv, Accounted, ForgottenOnlyByRace, Ids
<1> QED
  BY <1>1, <1>2, <1>3, PTL DEF ConversationSpec
=============================================================================
