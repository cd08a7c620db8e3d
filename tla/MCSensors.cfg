SPECIFICATION BoundedSensorsSpec
CONSTANTS
    d1 = d1
    c1 = c1
    s1 = s1
    k1 = k1
    Devices = {d1}
    ProbeClip = clip
    clip = clip
    Contents = {clip}
    Sessions = {}
    Calls = {k1}
    None = None
    MaxRequests = 3
    MaxUnsolicited = 0
    Interval = 1
    CIRCUIT_BREAKER_TIMEOUTS = 2
    CIRCUIT_BREAKER_MAX_BACKOFF = 3
INVARIANTS
    OpenCircuitIsSilent
    CircuitMatchesLog
    SensorsShowLedger
CHECK_DEADLOCK FALSE
