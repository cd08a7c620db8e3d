SPECIFICATION FairDiscoverySpec
CONSTANTS
    MaxSetUps = 3
INVARIANTS
    OneBrowser
    LockHasHolder
    UnloadFailsOnlyAtStop
PROPERTIES
    LoadedDiscovers
CHECK_DEADLOCK FALSE
