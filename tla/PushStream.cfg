SPECIFICATION Spec
CONSTANTS
    Procs = {o, p}
    Owner = o
    Nobody = Nobody
    RingFrames = 2
    QueueFrames = 2
    MaxSeq = 3
    MaxOwn = 1
    MaxFaults = 2
    MaxConnects = 2
\* With every bound reached and nothing in flight the system is at rest.
CHECK_DEADLOCK FALSE
INVARIANTS
    TypeOK
    NoSilentSkip
    CaughtUp
    DeclarationKnown
