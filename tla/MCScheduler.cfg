SPECIFICATION OperatorSpec
CONSTANTS
    Nodes = {1, 2, 3, 4, 5}
    Deps <- MixedGraph
    Ancestors <- MixedAncestors
    Editing <- MCEditing
    Overlaps <- MCOverlaps
    Order <- MixedOrder
    Providers = {"qwen", "api"}
    Rotation <- AlternatingRotation
    NoProvider = "none"
    Concurrency = 2
    Controls = {"pause", "resume", "cancel", "step", "break", "clear_break"}
    Breakable = {4}
    InitialStates <- MixedRestored
INVARIANTS
    AncestorsSucceeded
    WorkersAreSafe
    MergeQueueIsSound
    ReturnsSettled
PROPERTIES
    NeverSpins
    ImplementsDependencyExecution
    DispatchesAreControlled
    SessionsFinish
