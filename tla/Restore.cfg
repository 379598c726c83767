SPECIFICATION RestoreSpec
CONSTANTS
    Readers = {r1}
    Builds = {b1}
    Values = {0, 1}
    FreshVersions = {1}
    MaxGeneration = 1
    MaxVersion = 1
    None = None
    Refused = Refused
    Swaps = {s1, s2}
    Other = Other
    MaxCalls = 1
INVARIANTS
    RestoreTypeOK
    FreshIsCurrent
    ShutUnlessContended
    LooseOnlyIfUndrained
    ShutOnlyIfBroken
PROPERTIES
    LatchReopens
