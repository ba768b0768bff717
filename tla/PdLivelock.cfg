CONSTANTS
    p1 = p1
    p2 = p2
    d1 = d1
    d2 = d2
    Engines = {p1, d1}
    Requests <- MCThree
    Loads <- MCThreeLoads
    InputTokens <- MCFixedInput
    OutputTokens <- MCFixedOutput
    PrefillInstances <- MCPrefill
    DecodeInstances <- MCDecode
    NumBlocks <- MCFivePools
    BlockSize = 2
    MaxTokensBudget = 4
    MaxConcurrency = 2
    DecodeQueryLen = 1
    Scale = 1
    AvgDecodeTokens = 1
    KvTransferModes = {TRUE}
SPECIFICATION Spec
INVARIANTS
    PassMakesProgress
