CONSTANTS
    m = m
    x = x
    NoConn = none
    Conns = {x}
    Fatal = {}
    HandedOver = {x}
    MaxSockets = 2
    MaxAttempts = 1
    GraceTimes = {"some"}
    MayDispose = TRUE
    MaxRestarts = 1
    MaxCrashes = 1
SPECIFICATION FairSpec
INVARIANT IInv
INVARIANT TimedIffAbandoned
PROPERTY ServedOrFailed
CHECK_DEADLOCK FALSE
