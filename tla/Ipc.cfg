SPECIFICATION FairSpec
CONSTANTS
    MaxCalls = 2
    Events = {e}
    MaxFires = 2
    MaxRegistrations = 2
    MaxInputs = 6
CHECK_DEADLOCK FALSE
INVARIANT AInv
INVARIANT EndsAgree
INVARIANT CancelsArrive
INVARIANT HeardOnce
PROPERTY ImplementsRemoteCalls
PROPERTY CallsSettle
