SPECIFICATION Spec
CONSTANTS
    Configs <- RepeatLast
    MaxCost = 0
    MaxPhases = 2
    Requests = {r1}
    Direct = FALSE
PROPERTIES
    ActivePhaseAccepted
