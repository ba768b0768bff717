CONSTANTS
    Engines = {e1}
    Requests <- MCRequests
    InputTokens <- MCInput
    OutputTokens <- MCOutput
    NumBlocks <- MCBlocks
    BlockSize = 2
    MaxTokensBudget = 4
    DecodeQueryLen = 3
    Scale = 2
    AvgDecodeTokens = 4
    KvTransferModes = {TRUE}

SPECIFICATION SchedSpec
INVARIANTS
    SchedTypeOK
    OnePlacePerRequest
    SlotsMatchSequence
    PoolAccounts
    BudgetRespected
    NoSchedulerError
    PassMakesProgress
    ExactOutput
PROPERTIES
    NoOvertaking
    UsesPools
    EveryRequestFinishes
