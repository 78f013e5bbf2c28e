SPECIFICATION Spec
CONSTANTS
    Workers = {w1, w2}
    Nobody = Nobody
    SharedName = TRUE
    Txs = {t1, t2}
    NoTx = NoTx
    Origins = {o1, o2}
    Faulty = {o2}
    Lifetime = 0
    MaxCount = 2
    AtomicApi = TRUE
    MaxFaults = 1
SYMMETRY Symmetry
INVARIANT TypeOK
INVARIANT PaidOnce
INVARIANT OnRecord
INVARIANT ConfirmedIsPaid
PROPERTY EvidenceKept
PROPERTY ImplementsOneTransfer
