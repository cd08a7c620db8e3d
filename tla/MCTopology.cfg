SPECIFICATION TopologySpec
CONSTANTS
    None = None
    s1 = s1  s2 = s2  g1 = g1
    n1 = n1  f1 = f1
    Speakers = {s1, s2}
    Groups = {g1}
    Near = {n1}
    Far = {f1}
    Names = {}
    Placements = {"near", None}
    Memberships = {{}, {g1}}
INVARIANTS
    TopologyTypeOK
    SensorsShowTopology
PROPERTIES
    LeaderIsTrue
    SpanIssueIsTrue
CHECK_DEADLOCK FALSE
