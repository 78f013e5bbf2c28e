SPECIFICATION Spec
CONSTANTS
    NDocs = 1
    Runners = {r1, r2}
    Attempts = {a1, a2}
    NoAttempt = NoAttempt
    Reconcilers = {k1}
    Origins = {o1, o2}
    Faulty = {o2}
    Lifetime = 0
    Trusted = "blockhash"
    AtomicFail = TRUE
    MaxFaults = 1
SYMMETRY Symmetry
INVARIANT TypeOK
INVARIANT OneOwner
INVARIANT MoneyMovesOnce
INVARIANT DeliveredIffPaid
PROPERTY NeverReopened
