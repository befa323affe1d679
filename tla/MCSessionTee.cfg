CONSTANTS
    MaxRows = 7
    MaxCalls = 2
    MaxStep = 2
    MaxQueries = 2
    MaxCrashes = 1
    MaxRewrites = 1
    LockConflicts = TRUE
SPECIFICATION Spec
INVARIANTS
    TypeOK
    StepTextMirrorsProjection
    PartialAnswerMarked
    TurnsPaired
    UsageConserved
    BranchIsPrefix
CHECK_DEADLOCK FALSE
