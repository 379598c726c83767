SPECIFICATION FairSpec
CONSTANTS
    a = a
    b = b
    r1 = r1
    Requests = {r1, r2}
    Pairs = {a, b}
    Targets <- Models
    Refreshable = {b}
    NoCode = NoCode
    UpstreamCodes = {"AUTH", "RATE_LIMIT", "BAD_REQUEST"}
    MaxAttempts = 2
    Deadline = 1
    ProbeTtl = 1
    Threshold = 2
    Cooldown = 1
    CooldownCap = 2
    RateLimitPark = 1
    QuotaPark = 2
    InitialRows <- Rows
    MaxTime = 2
    MaxFaults = 1
CHECK_DEADLOCK FALSE
INVARIANTS
    TypeOK
    LoadIsInFlight
    ProbesBounded
    ProbeSlotsAccounted
    HealedStaysClosed
    OneAnswer
    LogTellsTheAnswer
PROPERTY
    RequestsEnd
