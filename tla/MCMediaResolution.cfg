SPECIFICATION BoundedResolutionSpec
CONSTANTS
    None = None
    Devices = {d1, d2}
    Flows = {f1, f2}
    d1 = d1  d2 = d2  f1 = f1  f2 = f2
    home = home  proxy = proxy  radio = radio  auto = auto
    Bases = {proxy}
    Hosts = {home, auto, proxy, radio}
    ItemHosts = {auto, radio}
    Pinned = {home}
    Automatic = {auto}
    Lookalikes = {}
    Titles = {t1}
    t1 = t1
    MaxLines = 3
SYMMETRY Alike
INVARIANTS
    OnlyRacesLoseEdits
    PlaysFirstItem
PROPERTIES
    RebasedAsEdited
    LiveAsEdited
CHECK_DEADLOCK FALSE
