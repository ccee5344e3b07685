SPECIFICATION Spec
CONSTANTS
    p1 = p1
    p2 = p2
    Peers <- TwoPeers
    MaxSends = 2
    Room = 1
INVARIANTS
    TypeOK
    AnsweredInOrder
PROPERTIES
    DrainEnds
