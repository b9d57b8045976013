CONSTANTS
    p1 = p1
    p2 = p2
    p3 = p3
    Proc = {p1, p2, p3}
    Interval = 3
    Timeout = 9
    MaxDelay = 3
    Horizon = 24
    Calm = 14
    LossAt = {1, 7}
    CastAt <- Instants
    LastFault = 2
    MaxCrash = 1
    MaxLoss = 1
SPECIFICATION Spec
SYMMETRY Symmetry
INVARIANTS
    TypeOK
    DetectedInTime
    Accurate
    OwnEntryLeads
CHECK_DEADLOCK FALSE
