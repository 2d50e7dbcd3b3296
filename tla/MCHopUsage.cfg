SPECIFICATION Spec
CONSTANTS
    t1 = t1
    t2 = t2
    t3 = t3
    NoID = NoID
    ToolIDs = {t1, t2}
    ToolIndexes <- MCToolIndexes
    NoIndex <- MCNoIndex
    AskedIDs <- MCAskedIDs
    MaxTurns <- MCMaxTurns
    CallIDs <- MCCallIDs
    MaxFrames <- MCMaxFrames
INVARIANTS
    HopKeepsUsage
CHECK_DEADLOCK FALSE
