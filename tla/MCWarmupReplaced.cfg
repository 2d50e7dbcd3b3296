SPECIFICATION FairSpec
CONSTANTS
    s1 = s1
    s2 = s2
    Streams = {s1, s2}
    QueueCap = 1
    MaxFrames = 2
    Kinds = {"warmup"}
    Replies = {{"text"}}
    Upstreams = {"stateless"}
PROPERTY SnapshotsImmutable
CHECK_DEADLOCK FALSE
