SPECIFICATION FairSpec
CONSTANTS
    s1 = s1
    s2 = s2
    Streams = {s1, s2}
    QueueCap = 1
    MaxFrames = 2
    Kinds = {"turn", "warmup", "malformed", "unsupported"}
    Replies = {{"text"}}
    Upstreams = {"stateless", "native"}
PROPERTIES
    EveryFrameAnswered
    ExitReturns
    DisconnectReturns
CHECK_DEADLOCK FALSE
