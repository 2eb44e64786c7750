SPECIFICATION ConversationSpec
CONSTANTS
    Splits = {50}
    Kinds = {"api", "auto"}
    Phase = 70
    SavedCap = 1
    Caps = {1}
    Attempts = 1
    MaxHistory = 2
    MinToCompact = 2
    MaxSaid = 3
    MaxBilled = 3
    MaxApprovals = 1
    MaxCommands = 0
INVARIANTS CapNeedsApproval
CHECK_DEADLOCK FALSE
