CONSTANTS
    Scripts <- MCScripts
    SocketSz = 6
    MaxFds = 2
    MaxIOVecs = 4
    OpenWhileWriting = TRUE
SPECIFICATION Spec
INVARIANTS TypeOK StreamWhole FileInHand ErrorExplained Watched
PROPERTIES ImplementsChannel
CHECK_DEADLOCK FALSE
