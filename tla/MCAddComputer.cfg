SPECIFICATION AddFairSpec
CONSTANTS
    MaxSessions = 2
    MaxPolls = 1
    MaxDecides = 1
CHECK_DEADLOCK FALSE
INVARIANTS LiveNeverReplaced DoneIsEarned
PROPERTIES SessionEnds
