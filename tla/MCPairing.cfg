SPECIFICATION Spec
CONSTANTS
    Sessions = {s1}
    Keys = {k1, k2}
    NoKey = NoKey
    Requests = {r1, r2, r3}
    RequestIds = {i1, i2, i3}
    PairingTTL = 1
    ConsumedKeep = 3
    TicksPerSecond = 2
    MaxNow = 2
    MaxRedisLosses = 1
SYMMETRY Symmetric
CHECK_DEADLOCK FALSE
INVARIANTS LatchVerdictIsDurable AnsweredDecisionStands JoinedKeysAgree
PROPERTIES ImplementsLatch
