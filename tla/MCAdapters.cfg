SPECIFICATION AdapterFairSpec
CONSTANTS
    Providers = {"claude", "codex", "opencode", "generic"}
    Lines <- SomeLines
    SinkPieces = 3
    MaxLines <- FewLines
    MaxRuns = 2
CHECK_DEADLOCK FALSE
INVARIANTS LinesReportedOnce ExitReportedOnce SessionIsCurrent
PROPERTIES ExitIsReported
