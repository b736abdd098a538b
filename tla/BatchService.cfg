SPECIFICATION Spec
CONSTANTS
    Jobs = {1, 2}
    Live = {1}
    Parallelism = 2
    MaxRuns = 2
    MaxFaults = 2
INVARIANT ServiceOutlivesLiveJobs
CHECK_DEADLOCK FALSE
