SPECIFICATION FairSpec
CONSTANTS
    Requests = {r1, r2, r3}
    Workers = {w1, w2}
    MaxQueue = 1
    MaxAddrs = 2
    NoReq = NoReq
    NoFd = NoFd
INVARIANTS
    EachRequestInOnePlace
    SweepHitsOwnSockets
    PhaseEndAccounting
PROPERTIES
    NothingEscapesSweep
    ImplementsLifecycle
    StopReturns
    RequestsMove
