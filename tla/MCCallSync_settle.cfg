SPECIFICATION FairSpec
CONSTANTS
    s1 = s1
    s2 = s2
    Syncers = {s1, s2}
    Credits = 1
    MaxCrashes = 1
    MaxHangUps = 1
CHECK_DEADLOCK FALSE
INVARIANTS
    SettledOnceInTurn
    
    CostFollowsLedger
    EndAgrees
PROPERTY
    CallSettles
