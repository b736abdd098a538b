SPECIFICATION Spec
CONSTANTS
    Configs <- RepeatLast
    MaxCost = 0
    MaxPhases = 2
    Requests = {r1, r2}
    Direct = FALSE
SYMMETRY Symmetry
INVARIANTS
    WaitersAreReached
    
PROPERTIES
    StaleStaysStale
    FlushedIsFinal
