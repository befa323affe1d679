CONSTANTS
    MaxRows = 12
    MaxCalls = 1
    MaxStep = 1
    MaxQueries = 3
    MaxCrashes = 0
    MaxRewrites = 1
    LockConflicts = FALSE
SPECIFICATION Spec
INVARIANT
    RewindKeepsMemory
CHECK_DEADLOCK FALSE
