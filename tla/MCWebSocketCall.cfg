SPECIFICATION FairSpec
CONSTANTS
    NoID = NoID
    NoIndex <- MCNoIndex
    SocketCap = 1
    ChannelCap = 2
    MaxFrames = 3
INVARIANTS
    NothingAfterClose
    MessagesWhole
PROPERTIES
    CancelEnds
    LeavingEnds
CHECK_DEADLOCK FALSE
