SPECIFICATION BoundedSpec
CONSTANTS
    d1 = d1
    c1 = c1
    c2 = c2
    s1 = s1
    Devices = {d1}
    Contents = {c1, c2}
    Sessions = {s1}
    None = None
    MaxRequests = 3
    MaxUnsolicited = 1
SYMMETRY Interchangeable
INVARIANTS
    TypeOK
    TimerDiscipline
    OneVerdictPerRequest
    CountersMatchLog
PROPERTY KeepsPromise
CHECK_DEADLOCK FALSE
