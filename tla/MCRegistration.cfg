SPECIFICATION RegistrationSpec
CONSTANTS
    p1 = p1
    g1 = g1
    Players = {p1}
    DynamicGroups = {g1}
    AllowLists = {{}, {p1}}
    MaxSetUps = 3
    MaxObjects = 4
INVARIANTS
    ClaimedIsHeld
    OneObjectPerGroup
CHECK_DEADLOCK FALSE
