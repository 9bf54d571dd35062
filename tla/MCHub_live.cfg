SPECIFICATION FairSpec
CONSTANTS
    Devices = {d1}
    Conns = {c1, c2}
    None = None
    SendBuffer = 1
    NotifyBuffer = 1
    MaxMissed = 1
    PresenceWindows = 3
    MaxEvents = 0
    MaxWindows = 3
    MayRevoke = {}
    MayClose = FALSE
    PresenceFails = FALSE

CHECK_DEADLOCK FALSE
PROPERTIES SilentSocketIsCut ClosedSocketLeaves
