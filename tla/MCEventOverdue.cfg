CONSTANTS
    Clients = {c1}
    Signals = {}
    QuitSignals = {}
    MaxTimeout = 1
    MaxInt = 1
    Asked <- OnlyTimer
    MaxOthers = 0
    AtomicClear = TRUE
SPECIFICATION FairSpec
PROPERTY TimerFires
