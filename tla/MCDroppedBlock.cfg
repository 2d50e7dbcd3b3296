SPECIFICATION FairSpec
CONSTANTS
    t1 = t1
    t2 = t2
    NoID = NoID
    ToolIDs = {t1, t2}
    ToolIndexes <- MCToolIndexes
    NoIndex <- MCNoIndex
    BlockIndexes <- MCBlockIndexes
    Dropped = {"mute"}
INVARIANTS
    EveryBlockStopped
CHECK_DEADLOCK FALSE
