CONSTANTS
    c1 = c1
    c2 = c2
    n1 = n1
    NoTask = NoTask
    NoCall = NoCall
    NoId = NoId
    NullId = NullId
    FrameParts = 2
    Calls <- TwoCalls
    Notes <- OneNote
    RawIds <- None
    Cancellable <- TwoCallsAndNote
    Endings <- AnyEnding
    WireCap = 3
    ReplyCap = 2
    PeerWindow = 2
    MaxStrays = 1
SPECIFICATION Spec
INVARIANTS
    TypeOK
    ReplyIsOwn
    RegisteredBeforeWritten
    ClosedMeansClosed
PROPERTIES
    ImplementsContract
