SPECIFICATION Spec
CONSTANTS
    Procs = {p1, p2}
    NoProc = NoProc
    MaxToken = 3
    MaxLockFaults = 1
    MaxLost = 0
    Flows = {}
CHECK_DEADLOCK FALSE
INVARIANT RefusedMeansHonoured
