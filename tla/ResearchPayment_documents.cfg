SPECIFICATION FairSpec
CONSTANTS
    NDocs = 2
    Runners = {r1}
    Attempts = {a1, a2}
    NoAttempt = NoAttempt
    Reconcilers = {k1}
    Origins = {o1, o2}
    Faulty = {}
    Lifetime = 0
    Trusted = "blockhash"
    AtomicFail = TRUE
    MaxFaults = 0
INVARIANT ClosedAccounts
PROPERTY ImplementsPaidOnce
PROPERTY AttemptsEnd
PROPERTY PaidIsDelivered
