SPECIFICATION Spec
CONSTANTS
    Resources = {r}
    Kinds = {"text"}
    Groups = {0}
    ConfirmedGroups = {0}
    MaxPushes = 2
    MaxRequests = 2
    MaxCloses = 2
    MaxChanges = 1
CHECK_DEADLOCK FALSE
INVARIANT NeverGarbled
