SPECIFICATION FairSpec
CONSTANTS
    NoTask = none
    MaxEdits = 2
    MaxWrites = 1
    MaxSaves = 2
    MaxFailures = 1
    MaxReverts = 1
    MaxInputs = 5
CHECK_DEADLOCK FALSE
INVARIANT IInv
INVARIANT CleanIsKnown
INVARIANT SavesAreHonoured
PROPERTY SavesKnowTheFile
PROPERTY EditsSurvive
PROPERTY NobodyWaits
