CONSTANTS
    Procs = {p1, p2}
    Nobody = Nobody
    MaxFiles = 3
    MaxLines = 2
SPECIFICATION Spec
INVARIANT
    WriterOwnsTheLog
CHECK_DEADLOCK FALSE
