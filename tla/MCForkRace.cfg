SPECIFICATION FairSpec
CONSTANTS
    s1 = s1
    s2 = s2
    Streams = {s1, s2}
    QueueCap = 1
    MaxFrames = 2
    Kinds = {"turn"}
    Replies = {{"text"}}
    Upstreams = {"stateless"}
INVARIANT ForkFound
CHECK_DEADLOCK FALSE
