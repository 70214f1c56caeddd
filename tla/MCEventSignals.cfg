CONSTANTS
    Clients = {c1}
    Signals = {1, 15}
    QuitSignals = {15}
    MaxTimeout = 2
    MaxInt = 1
    Asked <- AnyOrLong
    MaxOthers = 2
    AtomicClear = TRUE
SPECIFICATION FairSpec
INVARIANT SignalKept
PROPERTY QuitSignalEnds
