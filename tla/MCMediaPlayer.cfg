SPECIFICATION FairCallerSpec
CONSTANTS
    d1 = d1
    c1 = c1
    c2 = c2
    s1 = s1
    k1 = k1
    k2 = k2
    Devices = {d1}
    Contents = {c1}
    Sessions = {s1}
    Calls = {k1, k2}
    None = None
    MaxRequests = 2
    MaxUnsolicited = 1
INVARIANTS
    FlagFollowsAnnouncements
    ToldErrorsHaveVerdicts
PROPERTIES
    EveryRequestSettles
    PlayingCallsEnd
CHECK_DEADLOCK FALSE
