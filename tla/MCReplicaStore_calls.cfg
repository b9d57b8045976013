CONSTANTS
    c1 = c1
    c2 = c2
    x = x
    y = y
    N = 3
    Leader = 2
    MinReplicas = 3
    Client = {c1, c2}
    Op = {x, y}
    MayWrite <- MayBeTheSame
    Program <- MakeUseRemove
    Mortal = {0, 2}
SPECIFICATION FairSpec
INVARIANTS
    TypeOK
    EntriesKept
    CopiesInStep
    AckedSurvive
    HandlersSurvive
PROPERTIES
    RequestsReturn
    ImplementsSharedLog
CHECK_DEADLOCK FALSE
