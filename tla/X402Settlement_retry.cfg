SPECIFICATION Spec
CONSTANTS
    MaxPayloads = 2
    MaxRequests = 3
    Gateways = {g1, g2}
    Routes = {"ledger"}
    Retries = {"eager"}
    Queue = TRUE
    MaxCrashes = 0
INVARIANT FenceKept
CHECK_DEADLOCK FALSE
