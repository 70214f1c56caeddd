CONSTANTS
    Clients = {c1, c2}
    Signals = {1}
    QuitSignals = {}
    MaxTimeout = 1
    MaxInt = 1
    Asked <- AnyWatch
    MaxOthers = 1
    AtomicClear = FALSE
SPECIFICATION FairSpec
INVARIANTS TypeOK WatchKept
PROPERTIES FiredForReason WatchedFdFires TimerFiresInTime
