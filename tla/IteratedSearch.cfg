SPECIFICATION PlannerFairSpec
CONSTANTS
    Configs <- MCConfigs
    MaxCost = 2
    MaxPhases = 6
INVARIANTS
    IncumbentsImprove
    BestPlanKept
    SolvedPhaseImproves
PROPERTIES
    RunEnds
