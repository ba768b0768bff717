CONSTANTS
    a = a
    b = b
    m1 = m1
    m2 = m2
    k1 = k1
    k2 = k2
    k3 = k3
    NoOne = NoOne
    Workers = {a, b}
    Models = {m1, m2}
    Workloads = {k1, k2, k3}
    Size <- MCSize
    MaxEntries = 2
    MaxBytes = 3
    Pools = {"prefill", "decode"}
    PoolOf <- MCPoolOf
    Rounds <- MCRounds
SPECIFICATION Spec
INVARIANTS
    TemplateStillThere
