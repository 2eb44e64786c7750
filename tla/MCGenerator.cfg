SPECIFICATION GeneratorSpec
CONSTANTS
    MaxRetries = 3
    Faults = {"none", "complexity", "import", "tangled", "behavior"}
    Setups <- SomeSetups
    MaxCrashes = 1
    None = None
    Plans <- SomePlans
    SmallRetries = 1
    ArchitectRetries = 1
    MaxResumes = 2
    NoName = NoName
    Recorders = {"p1", "p2", "p3"}
    Templates = {"guard", ""}
    Samples <- SomeSamples
INVARIANTS RetryBudget ArchitectIsLastResort CompletionIsEarned ResultsAreOrdered
PROPERTIES NothingForgotten GeneratorEnds
CHECK_DEADLOCK FALSE
