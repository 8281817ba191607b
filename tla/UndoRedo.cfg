SPECIFICATION Spec
CONSTANTS
    Resources = {r, s}
    Kinds = {"text", "texts", "files"}
    Groups = {0, 1}
    ConfirmedGroups = {0}
    MaxPushes = 2
    MaxRequests = 2
    MaxCloses = 1
    MaxChanges = 1
CHECK_DEADLOCK FALSE
INVARIANT IInv
INVARIANT NothingGarbled
INVARIANT SidesAgree
INVARIANT LocksAreHeld
INVARIANT RecursionEnds
SYMMETRY symmetry
