CONSTANTS
    m = m
    x = x
    NoConn = none
    Conns = {m}
    Fatal = {m}
    HandedOver = {}
    MaxSockets = 3
    MaxAttempts = 2
    GraceTimes = {"zero", "some"}
    MayDispose = TRUE
    MaxRestarts = 1
    MaxCrashes = 0
SPECIFICATION FairSpec
INVARIANT SameSocket
PROPERTY LoopEnds
PROPERTY AbandonedIsDisposed
CHECK_DEADLOCK FALSE
