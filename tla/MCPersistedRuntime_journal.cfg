SPECIFICATION Spec
CONSTANTS
    Graphs = {"chain"}
    Declared <- MCDeclared
    Deps <- MCDeps
    Ancestors <- MCAncestors
    Editing <- MCEditing
    Rotation <- MCRotation
    NoProvider = "unassigned"
    InitialGraphs = {"chain"}
    Requests = {"approve"}
    RequestsInRun = {"transition"}
    MayCrash = FALSE
    MaxRuns = 1
    MaxRequests = 2
    MaxRevisions = 1
CHECK_DEADLOCK FALSE
INVARIANTS JournalIsSequential
