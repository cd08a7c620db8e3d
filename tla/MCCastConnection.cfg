SPECIFICATION FairConnectionSpec
INVARIANTS
    ConnectionTypeOK
    AvailableIsConnected
    ConnectedIsAvailable
    DisconnectedShowsNothing
    LoneDisconnectSucceeds
PROPERTIES
    DisconnectsEnd
    ConnectionIsShown
CHECK_DEADLOCK FALSE
