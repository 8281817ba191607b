CONSTANTS
    m = m
    x = x
    NoConn = none
    Conns = {m, x}
    Fatal = {m}
    HandedOver = {x}
    MaxSockets = 2
    MaxAttempts = 1
    GraceTimes = {"some"}
    MayDispose = FALSE
    MaxRestarts = 0
    MaxCrashes = 1
SPECIFICATION Spec
INVARIANT FailureReachesAll
PROPERTY EventsFollow
CHECK_DEADLOCK FALSE
