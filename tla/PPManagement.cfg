\* The management connection: three sockets, and either end may leave.
CONSTANTS
    Data = {a}
    NoData = none
    FromClient = 2
    FromServer = 0
    MaxSockets = 3
    MaxDrops = 0
    SocketHandoff = FALSE
    MayDispose = TRUE
    MaxSend <- MCMaxSend
SPECIFICATION Spec
INVARIANT SInv
INVARIANT NoGap
INVARIANT NothingStranded
INVARIANT NothingCutOff
CHECK_DEADLOCK FALSE
