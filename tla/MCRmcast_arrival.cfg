SPECIFICATION FairSpec
CONSTANTS
    a = a
    b = b
    c = c
    Proc <- Two
    MaxSeq = 2
    MaxCasts <- TwiceAOnceB
    MaxBeats <- OnlyA
    MaxFault <- OneLoss
INVARIANTS
    MulticastNotFreed
PROPERTIES
    AbortsOnlyOnTornHeartbeat
    KnowledgeOnlyGrows
    EarlierMessagesArrive
CHECK_DEADLOCK FALSE
