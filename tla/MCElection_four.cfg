CONSTANTS
    N = 4
    Client = {c1}
    MaxThreads = 4
    MaxSearch = 2
    Mortal = {3}
    MaxProposal = 11
    Garbage = {0}
SPECIFICATION FairSpec
INVARIANTS
    TypeOK
PROPERTIES
    DecidesOnce
    CallsReturn
    SearchEndsIfAllLive
CHECK_DEADLOCK FALSE
