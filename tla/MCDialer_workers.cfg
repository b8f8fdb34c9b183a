SPECIFICATION Spec
CONSTANTS
    l1 = l1
    l2 = l2
    p1 = p1
    p2 = p2
    caller = caller
    Null = Null
    NoLead = NoLead
    Leads = {l1, l2}
    Passes = {p1}
    Callers = {caller}
    BatchSize = 2
    SweepLimit = 2
    MaxAttempts = 1
    RetryDelay = 1
    DailyLimit = 1
    WindowStart = 0
    WindowEnd = 1
    DayLength = 1
    Credits = 2
    MaxTime = 1
    MaxCrashes = 0
    MaxRefusals = 0
    MaxHangUps = 0
    MaxPauses = 1
CHECK_DEADLOCK FALSE
SYMMETRY Symmetry
INVARIANTS
    
    StopsHeld
    DailyLimitHeld
