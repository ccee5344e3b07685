SPECIFICATION FairSpec
CONSTANTS
    c1 = c1  c2 = c2  n1 = n1  NoCall = NoCall
    Calls <- MCCalls
    Cancellable <- MCCancellable
    Notes <- MCNotes
    MaxAttempts = 3
    BaseBackoff = 2
    MaxBackoff = 3
    MaxCrashes = 2
INVARIANTS
    TypeOK
    OneConnection
PROPERTIES
    ImplementsContract
    EveryCallReturns
    NextCallRecovers
