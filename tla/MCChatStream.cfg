SPECIFICATION LazySpec
CONSTANTS
    t1 = t1
    NoID = NoID
    ToolIDs = {t1}
    ToolIndexes <- MCNoIndexes
    NoIndex <- MCNoIndex
    ProviderCap = 2
    OutCap = 2
    MaxEvents = 3
    MaxPings = 1
    Chatty = TRUE
INVARIANTS
    ClientNeverBroken
    StartedIsWhole
    CancelledNotCompleted
PROPERTIES
    CancelEnds
    UpstreamEndEndsStream
    NoLeakAfterError
CHECK_DEADLOCK FALSE
