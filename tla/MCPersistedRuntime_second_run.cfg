SPECIFICATION Spec
CONSTANTS
    Graphs = {"chain"}
    Declared <- MCDeclared
    Deps <- MCDeps
    Ancestors <- MCAncestors
    Editing <- MCEditing
    Rotation <- MCRotation
    NoProvider = "unassigned"
    InitialGraphs = {"chain"}
    Requests = {"approve", "retry"}
    RequestsInRun = {}
    MayCrash = FALSE
    MaxRuns = 2
    MaxRequests = 3
    MaxRevisions = 1
CHECK_DEADLOCK FALSE
INVARIANTS SuccessfulEditsAwaitReview
