SPECIFICATION FairSpec
CONSTANTS
    w1 = w1
    w2 = w2
    k1 = k1
    a = a
    none = none
    missing = missing
    corrupt = corrupt
    Windows <- MCWindows
    Keys <- MCKeys
    Values <- MCValues
    NoItem <- none
    NoFile <- missing
    Corrupt <- corrupt
    MaxOpens = 1
    MaxChanges = 2
    MaxSessions = 1
    MaxFaults = 1
CHECK_DEADLOCK FALSE
PROPERTY ClosesAnyway
