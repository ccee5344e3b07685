CONSTANTS
    c1 = c1
    c2 = c2
    n1 = n1
    NoTask = NoTask
    NoCall = NoCall
    NoId = NoId
    NullId = NullId
    FrameParts = 2
    Calls <- TwoCalls
    Notes <- OneNote
    RawIds <- CollidingIds
    Cancellable <- None
    Endings <- Closed
    WireCap = 2
    ReplyCap = 1
    PeerWindow = 1
    MaxStrays = 1
SPECIFICATION FairSpec
INVARIANTS
    ReplyHasOwnId
    PendingIsInFlight
    WholeFrames
PROPERTIES
    EveryTaskReturns
