SPECIFICATION Spec
CONSTANTS
    s1 = s1
    s2 = s2
    Streams = {s1, s2}
    QueueCap = 2
    MaxFrames = 3
    Kinds = {"turn"}
    Replies = {{"redacted"}, {"text", "redacted"}}
    Upstreams = {"stateless"}
SYMMETRY MCSymmetry
INVARIANTS
    TypeOK
    InOrder
    ContinuesTurn
    OwnResponseFound
    StoredIsAnswered
CHECK_DEADLOCK FALSE
