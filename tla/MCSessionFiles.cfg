CONSTANTS
    Procs = {p1, p2, p3}
    Nobody = Nobody
    MaxFiles = 3
    MaxLines = 2
SPECIFICATION Spec
SYMMETRY ProcSymmetry
INVARIANTS
    TypeOK
    SeqsContinuous
CHECK_DEADLOCK FALSE
