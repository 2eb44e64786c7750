-------------------------- MODULE AtomicSessions --------------------------
(***************************************************************************)
(* What OrchestrationStore promises a client: the session document only     *)
(* ever changes by whole operations, each applied to the document before    *)
(* it.  SessionStore is the file protocol meant to implement this.          *)
(***************************************************************************)
EXTENDS SessionDocuments

CONSTANT InitialGraph   \* the graph the session is created with

VARIABLE document

Init == document = NewDocument(InitialGraph)

Next == \E r \in RequestsOn(document) :
           Accepts(document, r) /\ document' = Result(document, r)

Spec == Init /\ [][Next]_document
=============================================================================
