SPECIFICATION FairSpec
CONSTANTS
    Jobs = {1, 2}
    Live = {1}
    Parallelism = 2
    MaxRuns = 2
    MaxFaults = 2
INVARIANTS
    ExitZeroIsTrue
    RowsAreMarkers
PROPERTIES
    FinishedStaysFinished
    BatchEnds
CHECK_DEADLOCK FALSE
