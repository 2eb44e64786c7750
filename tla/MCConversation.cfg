SPECIFICATION FairConversation
CONSTANTS
    Splits = {50}
    Kinds = {"api", "auto"}
    Phase = 70
    SavedCap = 0
    Caps = {0, 1}
    Attempts = 2
    MaxHistory = 2
    MinToCompact = 2
    MaxSaid = 3
    MaxBilled = 0
    MaxApprovals = 1
    MaxCommands = 2
INVARIANTS ForgottenOnlyByRace OverageIsSingleUse
PROPERTIES CompactionEnds
CHECK_DEADLOCK FALSE
