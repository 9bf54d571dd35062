SPECIFICATION Spec
CONSTANTS
    Servers = {s1, s2}
    Inputs = {i1}
    Approvals = {a1}
    Devices = {d1}
    None = None
    TTL = 1
    MaxClock = 2
    MaxCalls = 6
    MaxCrashes = 2
SYMMETRY Symmetric
CHECK_DEADLOCK FALSE
INVARIANTS InputRunsAtMostOnce AppliedVerdictStands SnapshotMatchesStore
