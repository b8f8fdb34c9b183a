SPECIFICATION Spec
CONSTANTS
    l1 = l1
    l2 = l2
    p1 = p1
    p2 = p2
    caller = caller
    Null = Null
    NoLead = NoLead
    Leads = {l1}
    Passes = {p1, p2}
    Callers = {}
    BatchSize = 1
    SweepLimit = 2
    MaxAttempts = 2
    RetryDelay = 1
    DailyLimit = 3
    WindowStart = 0
    WindowEnd = 2
    DayLength = 2
    Credits = 3
    MaxTime = 1
    MaxCrashes = 0
    MaxRefusals = 0
    MaxHangUps = 0
    MaxPauses = 0
CHECK_DEADLOCK FALSE
INVARIANT
    OneLiveLine
