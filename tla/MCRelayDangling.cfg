CONSTANTS
    LastMrid = 6
    Sessions = 1
    MaxCalls = 1
    Reopen = FALSE
    Hasty = FALSE
    Closing = TRUE
SPECIFICATION Spec
INVARIANTS PExternAlive
CHECK_DEADLOCK FALSE
