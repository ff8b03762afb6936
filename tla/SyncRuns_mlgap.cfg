\* Mercado Livre: a failed markAccountSynced undoes a success.
SPECIFICATION Spec
CONSTANTS
    Callers = {c1, c2}
    Provider = "ML"
    InitialDays = 10
    OverlapDays = 2
    ChunkDays = 3
    FloorDays = 20
    SearchBuffer = 1
    StaleThreshold = 1
    Automatic = TRUE
    CustomWindows <- NoPeriods
    Never = Never
    MaxRuns = 4
    Horizon = 1
    MaxFaults = 1
INVARIANT CoverageGapless
CHECK_DEADLOCK FALSE
