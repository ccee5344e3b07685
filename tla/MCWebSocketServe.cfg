SPECIFICATION FairSpec
CONSTANTS
    m1 = m1  m2 = m2  m3 = m3
    NoId = NoId  NullId = NullId  NoLimit = NoLimit  Nothing = Nothing
    Ids <- MCIds
    Messages <- MCMessages
    Bodies <- MCBodies
    Methods <- MCMethods
    Registered <- MCRegistered
    MaxBatchLen = NoLimit
    Droppable <- MCNone
    Chatty <- MCThirdChatty
    InboxCap = 2
    OutboxCap = 1
    MaxExtras = 1
INVARIANTS TypeOK TakenIsAnswered RepliesInOrder
PROPERTIES ShutdownReturns
