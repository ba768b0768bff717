CONSTANTS
    p1 = p1
    p2 = p2
    d1 = d1
    d2 = d2
    Engines = {p1, p2, d1, d2}
    Requests <- MCRequests
    Loads <- MCLoads
    InputTokens <- MCInput
    OutputTokens <- MCOutput
    PrefillInstances <- MCTwoPrefills
    DecodeInstances <- MCTwoEngines
    NumBlocks <- MCLargePools
    BlockSize = 2
    MaxTokensBudget = 4
    MaxConcurrency = 2
    DecodeQueryLen = 1
    Scale = 1
    AvgDecodeTokens = 1
    KvTransferModes = {TRUE, FALSE}
SPECIFICATION Spec
INVARIANTS
    TypeOK
    GateIsTight
    StagesSeparated
PROPERTIES
    SimulationEnds
