SPECIFICATION Spec
CONSTANTS
    Workers = {w1, w2}
    Nobody = Nobody
    SharedName = FALSE
    Txs = {t1, t2}
    NoTx = NoTx
    Origins = {o1, o2}
    Faulty = {o2}
    Lifetime = 0
    MaxCount = 2
    AtomicApi = FALSE
    MaxFaults = 0
SYMMETRY Symmetry
INVARIANT PaidOnce
