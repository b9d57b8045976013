CONSTANTS
    t1 = t1
    t2 = t2
    Thread = {t1, t2}
    Calls = 3
    Frac = 2
    Delay = {3, 4}
    MaxCall = 4
    Latency = 2
SPECIFICATION FairSpec
INVARIANTS
    TypeOK
    SettledKept
    Sorted
    WakeupKept
PROPERTY EventuallySent
CHECK_DEADLOCK FALSE
