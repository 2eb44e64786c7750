SPECIFICATION SessionsSpec
CONSTANTS
    Graphs = {"join", "chain"}
    Declared <- MCDeclared
    Deps <- MCDeps
    Ancestors <- MCAncestors
    Editing <- MCEditing
    Rotation <- MCRotation
    NoProvider = "unassigned"
    InitialGraph = "chain"
    Threads = {"t1", "t2"}
    Requests = {"approve", "revise", "break", "step"}
    SoleRequests = {"approve", "transition", "revise", "break", "clear_break", "step"}
    MayCrash = TRUE
    MaxRequests = 3
    MaxSoleRequests = 4
    MaxRevisions = 2
INVARIANTS ApprovalBindsRevision SessionsAreCoherent ApprovedIsExecuted
PROPERTIES SoleIsAtomic
CHECK_DEADLOCK FALSE
