CONSTANTS
    N = 3
    Client = {c1}
    MaxThreads = 3
    MaxSearch = 1
    Mortal = {2}
    MaxProposal = 11
    Garbage = {0}
SPECIFICATION FairSpec
PROPERTIES
    SearchEnds
CHECK_DEADLOCK FALSE
