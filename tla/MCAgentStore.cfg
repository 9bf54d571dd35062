SPECIFICATION Spec
CONSTANTS
    Workflows = {1}
    Sessions = {s1}
    None = None
    Sizes = {1, 3}
    MaxRingEvents = 2
    MaxRingBytes = 2
    DrainLimit = 2
    RingReadLimit = 2
    ActivityCap = 1
    MayMove = {"completed", "disconnected_running"}
    MaxLog = 3
    MaxClock = 1
    ClockSteps = {"forward", "back"}
    MaxCrashes = 1
SYMMETRY Symmetric
CHECK_DEADLOCK FALSE
INVARIANTS RingIsLongestSuffix SnapshotIsHighWater CleanFailOnlyUnbound NothingLost SeenInOrder
