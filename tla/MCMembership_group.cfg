CONSTANTS
    p1 = p1
    p2 = p2
    p3 = p3
    gone = gone
    Proc = {p1, p2}
    Old <- OldIds
    Chunk = 2
    MaxCasts <- Casts
SPECIFICATION FairSpec
INVARIANTS
    TypeOK
    MembersDistinct
    MutualKnowledge
    GroupComplete
    DiesOnlyEarly
    NumbersFresh
PROPERTY EventuallyKnown
CHECK_DEADLOCK FALSE
