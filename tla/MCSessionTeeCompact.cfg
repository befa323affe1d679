CONSTANTS
    MaxRows = 9
    MaxCalls = 1
    MaxStep = 1
    MaxQueries = 2
    MaxCrashes = 0
    MaxRewrites = 1
    LockConflicts = FALSE
SPECIFICATION Spec
PROPERTY
    CompactionReplacesWhatItRead
CHECK_DEADLOCK FALSE
