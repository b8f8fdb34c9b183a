SPECIFICATION FairSpec
CONSTANTS
    l1 = l1
    l2 = l2
    p1 = p1
    p2 = p2
    caller = caller
    Null = Null
    NoLead = NoLead
    Leads = {l1}
    Passes = {p1}
    Callers = {}
    BatchSize = 1
    SweepLimit = 2
    MaxAttempts = 2
    RetryDelay = 1
    DailyLimit = 2
    WindowStart = 0
    WindowEnd = 2
    DayLength = 3
    Credits = 3
    MaxTime = 4
    MaxCrashes = 1
    MaxRefusals = 1
    MaxHangUps = 1
    MaxPauses = 0
CHECK_DEADLOCK FALSE
INVARIANTS
    OneLiveLine
    RetrySpacing
PROPERTIES
    CompletedIsKept
    ClaimsEndUnlessAbandoned
