CONSTANTS
    LastMrid = 3
    Senders = {"ProcessArgs", "Dispatch"}
    ReplyHasFactory = FALSE
    MaxCalls = 2
SPECIFICATION FairSpec
PROPERTY ForwardErrorEnds
