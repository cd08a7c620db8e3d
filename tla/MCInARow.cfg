SPECIFICATION RepairsSpec
CONSTANTS
    d1 = d1
    g1 = g1
    t1 = t1
    Devices = {d1}
    Groups = {g1}
    Templates = {t1}
    FETCH_FAILURES_BEFORE_ISSUE = 2
    MaxRecords = 3
PROPERTIES
    FailuresInARow
CHECK_DEADLOCK FALSE
