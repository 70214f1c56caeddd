CONSTANTS
    LastMrid = 2
    Senders = {"ProcessArgs", "Dispatch", "OnError", "ctor"}
    ReplyHasFactory = FALSE
    MaxCalls = 2
SPECIFICATION FairSpec
INVARIANT ConstructedOnce
PROPERTIES DeletableDeleted QuitEnds
