CONSTANTS
    LastMrid = 3
    Senders = {"ProcessArgs", "Dispatch", "OnError", "dtor"}
    ReplyHasFactory = FALSE
    MaxCalls = 2
SPECIFICATION Spec
INVARIANTS TypeOK ProxyOwnsId NoLeakedId RequestHasMsger CreatorMatches OrphanUnused
