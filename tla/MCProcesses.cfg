SPECIFICATION ProcessesSpec
CONSTANTS
    Jobs <- MCJobs
    Installed <- MCInstalled
    Cases = {1, 2}
    Drafts <- MCDrafts
    MaxCalls = 2
    Tasks <- MCTasks
    RunIds <- MCRunIds
    MaxAttempts = 2
    MaxLaunches = 2
    MaxDeaths = 1
    JobIds = {"j1", "j2"}
    MaxCrashes = 1
    MaxAppendFailures = 1
INVARIANTS SandboxIsHonest ExitTellsOutcome
PROPERTIES JobsAreTruthful CheckpointsAdvance EveryoneIsAnswered
CHECK_DEADLOCK FALSE
