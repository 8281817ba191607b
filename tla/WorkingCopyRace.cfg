SPECIFICATION Spec
CONSTANTS
    NoTask = none
    MaxEdits = 2
    MaxWrites = 1
    MaxSaves = 2
    MaxFailures = 0
    MaxReverts = 0
    MaxInputs = 5
CHECK_DEADLOCK FALSE
PROPERTY NeverOverwritten
