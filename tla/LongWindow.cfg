SPECIFICATION Spec
CONSTANTS
    Requests = {r1, r2, r3, r4}
    NoRequest = NoRequest
    MaxFaults = 2
SYMMETRY Symmetry
CHECK_DEADLOCK FALSE
INVARIANTS
    TypeOK
    LowOnlyByRace
    CountedAtMostTwice
