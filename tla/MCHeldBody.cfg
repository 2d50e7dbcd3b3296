SPECIFICATION FairSpec
CONSTANTS
    t1 = t1
    NoID = NoID
    ToolIDs = {t1}
    ToolIndexes <- MCNoIndexes
    NoIndex <- MCNoIndex
    ProviderCap = 2
    OutCap = 2
    MaxEvents = 3
    MaxPings = 1
    Chatty = TRUE
PROPERTY ClosedAfterDone
CHECK_DEADLOCK FALSE
