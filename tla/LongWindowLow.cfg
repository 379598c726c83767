SPECIFICATION Spec
CONSTANTS
    Requests = {r1, r2}
    NoRequest = NoRequest
    MaxFaults = 1
CHECK_DEADLOCK FALSE
INVARIANT CountsNeverLow
