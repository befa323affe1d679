CONSTANTS
    ChunkFlushCount = 2
    MaxLines = 2
    MaxFaults = 1
    MaxCrashes = 1
    PowerLossPossible = TRUE
SPECIFICATION ISpec
CONSTRAINT OneMisfortune
INVARIANTS
    ITypeOK
    IndexFaithful
    AccumulatorWhole
