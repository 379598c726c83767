SPECIFICATION Spec
CONSTANTS
    Readers = {r1, r2}
    Builds = {b1, b2}
    Values = {v0, v1}
    FreshVersions = {1}
    MaxGeneration = 2
    MaxVersion = 2
    None = None
    Refused = Refused
SYMMETRY Symmetry
\* With both build names taken a build that would start again stops here.
CHECK_DEADLOCK FALSE
INVARIANTS
    TypeOK
    FreshIsCurrent
PROPERTIES
    ReadsAreLive
