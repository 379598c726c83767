SPECIFICATION Spec
CONSTANTS
    r1 = r1
    r2 = r2
    r3 = r3
    p1 = p1
    p2 = p2
    key = key
    m1 = m1
    m2 = m2
    Requests = {r1, r2}
    Processes = {p1, p2}
    ProcOf <- RenewProcOf
    KeySubject = key
    Overrides = {m1, m2}
    ModelOf <- RenewModelOf
    CountTokens = {}
    ReqLimit <- RenewReqLimit
    ConcLimit <- RenewConcLimit
    LongLimit <- RenewLongLimit
    Window = 2
    GaugeTtl = 4
    RenewInterval = 1
    MaxRenewed = 5
    ClaimMax = 1
    MaxMissed = 1
    MaxFaults = 1
    MaxTime = 10
CHECK_DEADLOCK FALSE
INVARIANTS
    ConcurrencyCeiling
    LeakHeals
