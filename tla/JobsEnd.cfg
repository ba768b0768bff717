SPECIFICATION Spec
CONSTANTS
    a = a
    b = b
    j1 = j1
    j2 = j2
    None = None
    Jobs = {j1, j2}
    Cases = {a}
    Submissions <- MCTwins
    Workers = {w1}
    MaxInflight = 1
    MaxStops = 2
    RowsPerCase = {0, 1}
PROPERTIES
    EveryJobEnds
    CancelTakesEffect
