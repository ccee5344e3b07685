CONSTANTS
    c1 = c1
    c2 = c2
    n1 = n1
    NoTask = NoTask
    NoCall = NoCall
    NoId = NoId
    NullId = NullId
    FrameParts = 2
    Calls <- TwoCalls
    Notes <- None
    RawIds <- None
    Cancellable <- TwoCalls
    Endings <- None
    WireCap = 3
    ReplyCap = 1
    PeerWindow = 1
    MaxStrays = 0
SPECIFICATION Spec
INVARIANTS
    WholeFrames
CHECK_DEADLOCK FALSE
