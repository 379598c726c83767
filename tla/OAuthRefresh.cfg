SPECIFICATION Spec
CONSTANTS
    Procs = {p1, p2}
    NoProc = NoProc
    MaxToken = 4
    MaxLockFaults = 1
    MaxLost = 1
    Flows = {f1, f2}
SYMMETRY Symmetry
CHECK_DEADLOCK FALSE
INVARIANTS
    TypeOK
    StoredIsHonoured
    NeverDisabledByRace
PROPERTY
    RotationNeverUndone
