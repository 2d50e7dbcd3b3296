SPECIFICATION FairSpec
CONSTANTS
    NoID = NoID
    NoIndex <- MCNoIndex
    SocketCap = 1
    ChannelCap = 1
    MaxFrames = 1
PROPERTY DialCancelled
CHECK_DEADLOCK FALSE
