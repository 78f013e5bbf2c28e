SPECIFICATION FairSpec
CONSTANTS
    Workers = {w1}
    Nobody = Nobody
    SharedName = FALSE
    Txs = {t1, t2}
    NoTx = NoTx
    Origins = {o1, o2}
    Faulty = {}
    Lifetime = 0
    MaxCount = 2
    AtomicApi = TRUE
    MaxFaults = 1
PROPERTY PaidIsConfirmed
PROPERTY WorkEnds
