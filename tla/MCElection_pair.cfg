CONSTANTS
    N = 3
    Client = {c1, c2}
    MaxThreads = 3
    MaxSearch = 1
    Mortal = {}
    MaxProposal = 8
    Garbage = {0}
SPECIFICATION Spec
INVARIANTS
    AtMostOneElected
    LeadersAreElected
CHECK_DEADLOCK FALSE
