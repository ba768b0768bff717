SPECIFICATION Spec
CONSTANTS
    a = a
    b = b
    j1 = j1
    j2 = j2
    None = None
    Jobs = {j1, j2}
    Cases = {a, b}
    Submissions <- MCPartial
    Workers = {w1}
    MaxInflight = 1
    MaxStops = 0
    RowsPerCase = {1}
INVARIANTS
    ReusedCasesSucceeded
