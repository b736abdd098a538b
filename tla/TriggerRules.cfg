SPECIFICATION Spec
CONSTANTS
    Hs = {0, 1, 3}
    InitialH = 3
    Capacity = 2
    Rules = {"plateau", "stall", "ancestor"}
    RequestInitial = FALSE
    AnalysisInterval = 1
    ActivityWindows = 4
    GrowthConfirmWindows = 1
    LayerResetWindows = 2
    MinRecentExpanded = 1
    MinRecentNetGrowth = 1
    MinSinceExpanded = 1
    MinSinceNetGrowth = 1
    StallExpansions = 2
    AncestorCheckInterval = 2
    MinGap = 2
    PerLayerGap = 3
    CandidateLayers = 2
    RequestsPerSlot = 2
    MaxPending = 2
    MaxRequests = 3
    Ratio = 120
    HEpsilon = 1
    HRelative = 5
    MaxExpansions = 5
    MaxOpened = 6
INVARIANTS
    SharedSpacing
    StallOnce
PROPERTIES
    LayerInterval
    FreshEvidence
