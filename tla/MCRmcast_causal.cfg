SPECIFICATION Spec
CONSTANTS
    a = a
    b = b
    c = c
    Proc <- Three
    MaxSeq = 1
    MaxCasts <- AOnceBOnce
    MaxBeats <- Nobody
    MaxFault <- NoFault
INVARIANTS
    CausalOrder
CHECK_DEADLOCK FALSE
