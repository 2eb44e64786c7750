SPECIFICATION ChangesSpec
CONSTANTS
    Paths <- MCPaths
    Resolved <- MCResolved
    Folders = {"dir"}
    Original <- MCOriginal
    Calls <- MCCalls
    Allowed <- MCAllowed
    Requests = {"any", "b"}
    Anywhere = "any"
    Edits <- MCEdits
    MaxTurns = 3
    MaxProposals = 2
    MaxTasks = 1
    MaxEdits = 1
    MaxCheckpoints = 3
    SharedPaths = {1, 2, 3}
    Ignored = {3}
    Agents = {"s1", "s2"}
    MaxSharedEdits = 1
INVARIANTS AgentsKeepToTheirTask ReplacedIsRecoverable
PROPERTIES FilesChangeAsAgreed QueueDrains
CHECK_DEADLOCK FALSE
