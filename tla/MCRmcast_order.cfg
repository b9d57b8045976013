SPECIFICATION FairSpec
CONSTANTS
    a = a
    b = b
    c = c
    Proc <- Two
    MaxSeq = 2
    MaxCasts <- TwiceA
    MaxBeats <- AllOnce
    MaxFault <- NoFault
PROPERTIES
    Agreement
