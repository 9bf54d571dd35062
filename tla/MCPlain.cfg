SPECIFICATION FairSpec
CONSTANTS
    MaxBytes = 2
    MaxInput = 3
    Cap = 1
    PipeCap = 2
    Chunk = 2
    TailCap = 4
    Separator = 1
    CharWidth = 2
    Inherits <- SomeInherits
CHECK_DEADLOCK FALSE
INVARIANTS ClosedOnce NothingLeftRunning JoinedOutputIsComplete UnmarkedTailIsWhole
PROPERTIES CallsReturn
