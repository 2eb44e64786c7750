SPECIFICATION OperatorsSpec
CONSTANTS
    MaxLines <- MCMaxLines
    Vocabularies <- MCVocabularies
    RiskRules <- MCRiskRules
    Libraries <- MCLibraries
    StdlibRoots = {"os"}
    Installed <- MCInstalled
    StandardRoots <- MCStandardRoots
    NodeIds = {1, 2, 3}
    UnknownId = 0
    MaxWeight = 3
INVARIANTS
    AnalysisFollowsScopes
    HazardsAreRefused
    RepairIsComplete
    ImportsAreSound
    TaskGraphsAreSound
    MountsAreConfined
CHECK_DEADLOCK FALSE
