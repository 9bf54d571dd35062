SPECIFICATION Spec
CONSTANTS
    Devices = {d1}
    Conns = {c1, c2}
    None = None
    SendBuffer = 1
    NotifyBuffer = 2
    MaxMissed = 1
    PresenceWindows = 3
    MaxEvents = 3
    MaxWindows = 0
    MayRevoke = {d1}
    MayClose = TRUE
    PresenceFails = TRUE
SYMMETRY Symmetric
CHECK_DEADLOCK FALSE
INVARIANTS RevokedNeverConnects LiveSocketIsReachable SignalsInOrder
