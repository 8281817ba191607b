\* The extension host connection, whose sockets travel to another process: what
\* is sent is delivered and confirmed, through the hand-off.
CONSTANTS
    Data = {a}
    NoData = none
    FromClient = 1
    FromServer = 0
    MaxSockets = 3
    MaxDrops = 0
    SocketHandoff = TRUE
    MayDispose = FALSE
    MaxSend <- MCMaxSend
SPECIFICATION FairSpec
INVARIANT NoTimerForgotten
PROPERTY EventuallyConfirmed
CHECK_DEADLOCK FALSE
