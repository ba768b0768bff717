SPECIFICATION Spec
CONSTANTS
    a = a
    b = b
    j1 = j1
    j2 = j2
    None = None
    Jobs = {j1, j2}
    Cases = {a}
    Submissions <- MCSubmissions
    Workers = {w1, w2}
    MaxInflight = 1
    MaxStops = 1
    RowsPerCase = {2}
SYMMETRY MCWorkersAlike
INVARIANTS
    TypeOK
    NoDuplicateWork
    SucceededIsComplete
PROPERTIES
    RecordsWrittenOnce
    ImplementsLifecycle
