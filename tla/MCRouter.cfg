SPECIFICATION FairSpec
CONSTANTS
    m1 = m1  m2 = m2
    NoId = NoId  NullId = NullId  NoLimit = NoLimit
    Ids <- MCIds
    Messages <- MCMessages
    Bodies <- MCBodies
    Methods <- MCMethods
    MaxRegistrations = 3
    MaxBatchLen = 3
    Droppable <- MCDroppable
INVARIANTS TypeOK AnswersEveryCall RunsInOrder
PROPERTIES EveryMessageHandled
