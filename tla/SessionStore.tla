--------------------------- MODULE SessionStore ---------------------------
(***************************************************************************)
(* The file protocol of harness_kernel/orchestration_store.py: every        *)
(* operation reads session.json, computes the new document, writes it to    *)
(* session.tmp, renames that over session.json, opens the event journal and *)
(* appends one line.  Nothing is locked; the HTTP endpoints of api/app.py   *)
(* run the operations in a thread pool, here the Threads.                   *)
(*                                                                          *)
(* An open file is an inode, which keeps its identity when it is renamed.   *)
(* target[t] is where the inode that t has opened is to be found now: it is *)
(* session.tmp when opened, becomes session.json when any thread renames    *)
(* it, and is unreachable once another file is renamed over that.           *)
(***************************************************************************)
EXTENDS SessionDocuments

CONSTANTS
    InitialGraph,   \* the graph the session is created with
    Threads,        \* clients executing operations
    Requests,       \* kinds of requests made
    MayCrash,       \* whether the process may die
    MaxRequests,    \* bound on the operations begun
    MaxRevisions    \* bound on the graph revisions of a session

VARIABLES
    live,           \* session.json
    temporary,      \* session.tmp
    journal,        \* sequence numbers of the lines of events.jsonl
    pc,             \* pc[t]: what t's operation does next
    request,        \* request[t]: the operation t executes
    draft,          \* draft[t]: the document t has computed
    target,         \* target[t]: where the file is that t has open
    sequence,       \* sequence[t]: last line number found when t opened the journal
    requests,       \* operations begun so far
    renames,        \* history: how often session.json was replaced
    acknowledged    \* history: breakpoints set by operations that returned

vars == <<live, temporary, journal, pc, request, draft, target, sequence, requests,
          renames, acknowledged>>

Nothing == [kind |-> "none"]
Absent == [kind |-> "absent"]
Empty == [kind |-> "empty"]
Torn == [kind |-> "torn"]
Whole(doc) == [kind |-> "document", doc |-> doc]

Init ==
    /\ live = Whole(NewDocument(InitialGraph))
    /\ temporary = Absent
    /\ journal = <<1>>
    /\ pc = [t \in Threads |-> "idle"]
    /\ request = [t \in Threads |-> Nothing]
    /\ draft = [t \in Threads |-> Nothing]
    /\ target = [t \in Threads |-> "closed"]
    /\ sequence = [t \in Threads |-> 0]
    /\ requests = 0
    /\ renames = 0
    /\ acknowledged = {}

\* What writing doc from the start of an inode leaves there: if it was not
\* empty its tail may stick out behind the new document.
Written(file, doc) == IF file = Empty THEN {Whole(doc)} ELSE {Whole(doc), Torn}

\* The operation is over, normally or by an exception.
Return(t) ==
    /\ pc' = [pc EXCEPT ![t] = "idle"]
    /\ request' = [request EXCEPT ![t] = Nothing]
    /\ draft' = [draft EXCEPT ![t] = Nothing]
    /\ sequence' = [sequence EXCEPT ![t] = 0]

\* get() and the checks; a refused request raises without having done anything.
Load(t) ==
    /\ pc[t] = "idle"
    /\ requests < MaxRequests
    /\ live.kind = "document"
    /\ \E r \in RequestsOn(live.doc) :
          /\ r.kind \in Requests
          /\ Accepts(live.doc, r)
          /\ r.kind = "revise" => Len(live.doc.revision) < MaxRevisions
          /\ request' = [request EXCEPT ![t] = r]
          /\ draft' = [draft EXCEPT ![t] = Result(live.doc, r)]
          /\ acknowledged' = IF r.kind = "clear_break" THEN acknowledged \ {r.node} ELSE acknowledged
    /\ pc' = [pc EXCEPT ![t] = "open"]
    /\ requests' = requests + 1
    /\ UNCHANGED <<live, temporary, journal, target, sequence, renames>>

OpenInPlace_Mutant(t) ==
    /\ pc[t] = "open"
    /\ live' = Empty
    /\ target' = [target EXCEPT ![t] = "live"]
    /\ pc' = [pc EXCEPT ![t] = "write"]
    /\ UNCHANGED <<temporary, journal, request, draft, sequence, requests, renames, acknowledged>>

\* write_text opens session.tmp, creating or truncating it ...
OpenTemporary(t) ==
    /\ pc[t] = "open"
    /\ temporary' = Empty
    /\ target' = [target EXCEPT ![t] = "temporary"]
    /\ pc' = [pc EXCEPT ![t] = "write"]
    /\ UNCHANGED <<live, journal, request, draft, sequence, requests, renames, acknowledged>>

\* ... and writes the document to the file it has open.
Write(t) ==
    /\ pc[t] = "write"
    /\ IF target[t] = "temporary" THEN temporary' \in Written(temporary, draft[t]) ELSE UNCHANGED temporary
    /\ IF target[t] = "live" THEN live' \in Written(live, draft[t]) ELSE UNCHANGED live
    /\ target' = [target EXCEPT ![t] = "closed"]
    /\ pc' = [pc EXCEPT ![t] = "rename"]
    /\ UNCHANGED <<journal, request, draft, sequence, requests, renames, acknowledged>>

\* temporary.replace(path).
Rename(t) ==
    /\ pc[t] = "rename"
    /\ temporary # Absent
    /\ live' = temporary
    /\ temporary' = Absent
    /\ target' = [u \in Threads |-> CASE target[u] = "temporary" -> "live"
                                      [] target[u] = "live" -> "gone"
                                      [] OTHER -> target[u]]
    /\ pc' = [pc EXCEPT ![t] = "journal"]
    /\ renames' = renames + 1
    /\ UNCHANGED <<journal, request, draft, sequence, requests, acknowledged>>

RenameRaises_Mutant(t) ==
    /\ pc[t] = "rename"
    /\ temporary = Absent
    /\ pc' = [pc EXCEPT ![t] = "journal"]
    /\ UNCHANGED <<live, temporary, journal, request, draft, target, sequence, requests,
                   renames, acknowledged>>

\* Another thread has renamed session.tmp already.
RenameRaises(t) ==
    /\ pc[t] = "rename"
    /\ temporary = Absent
    /\ Return(t)
    /\ UNCHANGED <<live, temporary, journal, target, requests, renames, acknowledged>>

\* EventJournal.__init__ verifies the lines and takes the last number ...
Verified == \A i \in DOMAIN journal : journal[i] = i

OpenJournal(t) ==
    /\ pc[t] = "journal"
    /\ Verified
    /\ sequence' = [sequence EXCEPT ![t] = Len(journal)]
    /\ pc' = [pc EXCEPT ![t] = "append"]
    /\ UNCHANGED <<live, temporary, journal, request, draft, target, requests, renames, acknowledged>>

OpenJournalRaises(t) ==
    /\ pc[t] = "journal"
    /\ ~Verified
    /\ Return(t)
    /\ UNCHANGED <<live, temporary, journal, target, requests, renames, acknowledged>>

\* ... and append() writes the next one; the lock in EventJournal belongs to
\* an object that no other thread has.
AppendEvent(t) ==
    /\ pc[t] = "append"
    /\ journal' = Append(journal, sequence[t] + 1)
    /\ acknowledged' = IF request[t].kind = "break" THEN acknowledged \cup {request[t].node} ELSE acknowledged
    /\ Return(t)
    /\ UNCHANGED <<live, temporary, target, requests, renames>>

\* The process dies; what it has written is in the files.
Crash ==
    /\ MayCrash
    /\ \E t \in Threads : pc[t] # "idle"
    /\ pc' = [t \in Threads |-> "idle"]
    /\ request' = [t \in Threads |-> Nothing]
    /\ draft' = [t \in Threads |-> Nothing]
    /\ target' = [t \in Threads |-> "closed"]
    /\ sequence' = [t \in Threads |-> 0]
    /\ UNCHANGED <<live, temporary, journal, requests, renames, acknowledged>>

Next ==
    \/ \E t \in Threads :
          \/ Load(t) \/ OpenTemporary(t) \/ Write(t) \/ Rename(t) \/ RenameRaises(t)
          \/ OpenJournal(t) \/ OpenJournalRaises(t) \/ AppendEvent(t)
    \/ Crash

Spec == Init /\ [][Next]_vars
-----------------------------------------------------------------------------
(* Properties *)

FileOK(file) == file \in {Absent, Empty, Torn} \/ (file.kind = "document" /\ DocumentOK(file.doc))

TypeOK ==
    /\ FileOK(live) /\ live # Absent
    /\ FileOK(temporary)
    /\ journal \in Seq(Nat)
    /\ pc \in [Threads -> {"idle", "open", "write", "rename", "journal", "append"}]
    /\ \A t \in Threads : draft[t] # Nothing => DocumentOK(draft[t])
    /\ target \in [Threads -> {"closed", "temporary", "live", "gone"}]
    /\ sequence \in [Threads -> Nat]
    /\ acknowledged \subseteq AllNodes

Atomic == INSTANCE AtomicSessions WITH
    document <- IF live.kind = "document" THEN live.doc ELSE Nothing

\* With one client the file protocol is atomic, wherever the process dies:
\* session.json only ever changes by a whole operation.
ImplementsAtomicSessions == Atomic!Spec

\* Racing clients overwrite each other's whole documents, never parts of them:
\* no interleaving leaves a revision with an approval given for another one.
ApprovalBindsRevision ==
    live.kind = "document" => live.doc.approved \in {NotApproved, live.doc.revision}

\* The journal never runs ahead of the document: a line is only there for a
\* document that was put in place.
JournalFollowsDocument == Len(journal) <= 1 + renames

\* A breakpoint that was set by an operation that returned, and not cleared
\* since, is in the session; two clients may lose one, as nothing is locked
\* between the reading and the writing of a document (orchestration_store.py:42).
AcknowledgedBreakpointsPersist ==
    live.kind = "document" => acknowledged \subseteq live.doc.breakpoints
=============================================================================
