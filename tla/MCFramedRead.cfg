CONSTANTS
    MaxUsize = 90
    MaxPrefix = 3
    MaxHeader = 12
    Connections <- MCConnections
    ChunkSize = 4
    Interrupts <- AnyInterrupt
    Tolerated <- MildErrors
SPECIFICATION FairSpec
INVARIANTS
    TypeOK
    NothingLostOrAdded
    SentIsReceived
    CapHolds
PROPERTIES
    EveryFrameReturned
