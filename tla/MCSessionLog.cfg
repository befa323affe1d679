CONSTANTS
    ChunkFlushCount = 2
    MaxLines = 3
    MaxFaults = 1
    MaxCrashes = 2
    PowerLossPossible = TRUE
SPECIFICATION Spec
INVARIANTS
    TypeOK
    SeqContinuity
    BoundaryDurable
    ChunksBounded
    TurnMonotone
    CrashKeepsLinesParsing
PROPERTIES
    DurablePrefix
    ImplementsDurableLog
    BoundaryEventuallyDurable
    LockEventuallyFree
