SPECIFICATION FairSpec
CONSTANTS
    Requests = {1, 2}
    Count <- MCCount
    MaxConcurrency = 2
    MaxRetries = 1
    Token = 2
    Rate = 3
INVARIANTS
    NothingLeaked
    FutureTellsAll
PROPERTIES
    BudgetIsFinal
    FuturesResolve
