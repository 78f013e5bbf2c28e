SPECIFICATION FairSpec
CONSTANTS
    MaxPayloads = 2
    MaxRequests = 2
    Gateways = {g1}
    Routes = {"ledger", "topup"}
    Retries = {"patient", "eager"}
    Queue = TRUE
    MaxCrashes = 1
INVARIANTS TypeOK FenceStands PaidAtMostOnce OnlyFinal
PROPERTIES ImplementsOneTransfer MovedIsBooked FenceEnds CreditedUnlessCrashed
CHECK_DEADLOCK FALSE
