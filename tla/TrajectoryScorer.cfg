SPECIFICATION Spec
CONSTANTS
    Tasks <- MCTasks
    BinBits = 4
    MaxChain = 4
    MaxLines = 2
    MaxRequests = 2
    MaxStates = 6
INVARIANTS
    ScoreIsReplay
    IdsAreStates
    GeneratorFindsApplicable
    ProcessorAgrees
