SPECIFICATION FairCoordinatorSpec
CONSTANTS
    d1 = d1
    c1 = c1
    s1 = s1
    k1 = k1
    Devices = {d1}
    ProbeClip = clip
    clip = clip
    Contents = {clip, c1}
    Sessions = {s1}
    Calls = {k1}
    None = None
    MaxRequests = 2
    MaxUnsolicited = 1
    Interval = 1
    CIRCUIT_BREAKER_TIMEOUTS = 2
    CIRCUIT_BREAKER_MAX_BACKOFF = 3
INVARIANTS
    ProbePendingIsAwaited
PROPERTIES
    RefreshesSettleNoProbe
    UsesLedger
    ProbesEnd
CHECK_DEADLOCK FALSE
