CONSTANTS
    r1 = r1
    r2 = r2
    r3 = r3
    Requests <- MCRequests
    NumBlocks = 4
    BlockSize = 2
    MaxNewTokens = 5
SPECIFICATION Spec
INVARIANTS
    TypeOK
    NoBlockLost
    NoBlockShared
    OnlyTailHasRoom
PROPERTIES
    ImplementsPool
    RefusedOnlyWhenFull
