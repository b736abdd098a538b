SPECIFICATION FairSpec
CONSTANTS
    s0 = s0
    s1 = s1
    s2 = s2
    s3 = s3
    s4 = s4
    s5 = s5
    a = a
    b = b
    NoState = NoState
    NoOp = NoOp
    States <- DiamondStates
    Ops <- DiamondOps
    InitState <- s0
    Succ <- Diamond
    Cost <- DiamondCost
    AdjCost <- DiamondCost
    Unit = 1
    Goals = {s3}
    DeadEnds = {s5}
    Violating = {s4}
    bounds = {3, 4, 7}
    Modes <- AllModes
    MaxRequests = 2
    MaxPending = 2
    MaxSamples = 1
    MaxChain = 2
INVARIANTS
    NoOpenNodeLost
    AnswersAwaited
    RequestBudget
    ParentsCertifyG
    ClosedNodesSettled
    PlanBeatsBound
    ReopeningExhaustsAll
PROPERTIES
    SearchEnds
