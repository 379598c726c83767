SPECIFICATION Spec
CONSTANTS
    r1 = r1
    r2 = r2
    r3 = r3
    p1 = p1
    p2 = p2
    key = key
    m1 = m1
    m2 = m2
    Requests = {r1, r2, r3}
    Processes = {p1, p2}
    ProcOf <- MCProcOf
    KeySubject = key
    Overrides = {m1}
    ModelOf <- BurstModelOf
    CountTokens = {r3}
    ReqLimit <- BurstReqLimit
    ConcLimit <- BurstConcLimit
    LongLimit <- BurstLongLimit
    Window = 2
    GaugeTtl = 3
    RenewInterval = 1
    MaxRenewed = 3
    ClaimMax = 1
    MaxMissed = 0
    MaxFaults = 1
    MaxTime = 3
CHECK_DEADLOCK FALSE
INVARIANTS
    TypeOK
    ConcurrencyCeiling
    RequestCeiling
    SettledHoldsNothing
