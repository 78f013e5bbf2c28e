SPECIFICATION Spec
CONSTANTS
    NDocs = 1
    Runners = {r1}
    Attempts = {a1}
    NoAttempt = NoAttempt
    Reconcilers = {k1, k2}
    Origins = {o1, o2}
    Faulty = {o2}
    Lifetime = 1
    Trusted = "delay"
    AtomicFail = FALSE
    MaxFaults = 1
SYMMETRY Symmetry
INVARIANT ReleasedNeverLands
INVARIANT PrepaidRefundedOnce
