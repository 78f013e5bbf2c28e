SPECIFICATION FairSpec
CONSTANTS
    Accounts = {c1, c2}
    RefundAccount = b
    Docs = {d1, d2}
    Amounts = {0, 1, 5, 9, 45}
    Totals = {0, 1, 5, 6, 10, 46, 50}
    Windows = {0, 1, 2, 3}
    MinWindow = 1
    MaxWindow = 2
    MaxLineItems = 2
    MaxU64 = 40000
    MaxSafe = 3
    MaxDonation = 1
    MaxExpiry = 4
    MaxTime = 6
INVARIANTS TypeOK OneSideIsPaid NoFreeRefund DeadlinesDisjoint ValidatorsAgree
PROPERTY InvoiceEnds
CHECK_DEADLOCK FALSE
