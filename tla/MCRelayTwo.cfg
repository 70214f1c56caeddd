CONSTANTS
    LastMrid = 6
    Sessions = 2
    MaxCalls = 2
    Reopen = FALSE
    Hasty = FALSE
    Closing = FALSE
SPECIFICATION Spec
INVARIANTS RightObject
CHECK_DEADLOCK FALSE
