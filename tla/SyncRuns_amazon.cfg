\* Amazon, with custom periods.
SPECIFICATION Spec
CONSTANTS
    Callers = {c1, c2}
    Provider = "AMAZON"
    InitialDays = 10
    OverlapDays = 2
    ChunkDays = 3
    FloorDays = 20
    SearchBuffer = 1
    StaleThreshold = 1
    Automatic = TRUE
    CustomWindows <- OldPeriods
    Never = Never
    MaxRuns = 3
    Horizon = 0
    MaxFaults = 1
INVARIANTS TypeOK CoverageGapless SuccessIsWhole LastSyncProven
PROPERTY CoverageNeverShrinks
SYMMETRY Symmetry
CHECK_DEADLOCK FALSE
