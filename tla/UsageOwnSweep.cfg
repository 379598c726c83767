SPECIFICATION Spec
CONSTANTS
    r1 = r1
    r2 = r2
    n1 = n1
    n2 = n2
    Requests = {r1, r2}
    Nodes = {n1, n2}
    NoNode = NoNode
    NodeOf <- MCNodeOf
    Keyed = {r1}
    Hour = 2
    Day = 1
    Retention = 1
    DailyRetention = 1
    MaxFaults = 1
    MaxTime = 2
CHECK_DEADLOCK FALSE
INVARIANT InterruptedMeansGone
