SPECIFICATION FairSpec
CONSTANTS
    c1 = c1  c2 = c2  c3 = c3  NoCall = NoCall
    Calls <- MCCalls
    Cancellable <- MCCancellable
    MaxSpoilt = 2
    MaxFailures = 1
INVARIANTS
    TypeOK
    TokensMoveForward
    OneFetchPerExpiry
PROPERTIES
    ImplementsContract
    EveryCallReturns
