CONSTANTS
    Engines = {e1}
    Requests <- MCThree
    InputTokens <- MCFixedInput
    OutputTokens <- MCFixedOutput
    NumBlocks <- MCBlocks
    BlockSize = 2
    MaxTokensBudget = 3
    DecodeQueryLen = 1
    Scale = 1
    AvgDecodeTokens = 1
    KvTransferModes = {TRUE}
SPECIFICATION SchedSpec
INVARIANTS
    PredictableBatch
