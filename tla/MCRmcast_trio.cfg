SPECIFICATION Spec
CONSTANTS
    a = a
    b = b
    c = c
    Proc <- Three
    MaxSeq = 2
    MaxCasts <- TwiceA
    MaxBeats <- OnlyB
    MaxFault <- OneOfEach
INVARIANTS
    TypeOK
    AcksSound
    Retention
    RequestsServable
    SuspicionStaysHidden
PROPERTY ImplementsService
CHECK_DEADLOCK FALSE
