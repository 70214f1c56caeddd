CONSTANTS
    LastMrid = 6
    Sessions = 1
    MaxCalls = 2
    Reopen = FALSE
    Hasty = FALSE
    Closing = TRUE
SPECIFICATION Spec
INVARIANTS TypeOK RefusedExplained
PROPERTIES EndsReachServer EndsReachCaller RequestsDelivered RepliesDelivered
CHECK_DEADLOCK FALSE
