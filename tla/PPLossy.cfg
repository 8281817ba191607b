\* A socket that loses messages, both ways: the replay request.
CONSTANTS
    Data = {a, b}
    NoData = none
    FromClient = 2
    FromServer = 1
    MaxSockets = 1
    MaxDrops = 1
    SocketHandoff = FALSE
    MayDispose = FALSE
    MaxSend <- MCMaxSend
SYMMETRY AnyData
SPECIFICATION Spec
INVARIANT DeliveredInOrder
INVARIANT NothingForgotten
PROPERTY ReliableBothWays
CHECK_DEADLOCK FALSE
