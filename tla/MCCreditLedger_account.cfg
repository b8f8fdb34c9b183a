SPECIFICATION LiveSpec
CONSTANTS
    r1 = r1
    r2 = r2
    tenant = tenant
    inv1 = inv1
    inv2 = inv2
    lead1 = lead1
    Requests = {r1, r2}
    NoRequest = NoRequest
    Jobs <- AccountJobs
    Ids = {inv1, inv2, lead1}
    NoId = NoId
    TenantId = tenant
    TrialCredits = 3
    Cap = 3
    Window = 1
    Threshold = 3
    MaxTime = 2
    MaxDeletions = 1
CHECK_DEADLOCK FALSE
INVARIANTS
    GrantOncePerReference
    OperatorCapHolds
    LedgerChain
    CrossingsAnnouncedOnce
PROPERTIES
    ImplementsAccount
    RequestsEnd
