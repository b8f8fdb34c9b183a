SPECIFICATION FairSpec
CONSTANTS
    d1 = d1
    d2 = d2
    w1 = w1
    i1 = i1
    Deliveries = {d1, d2}
    Workers = {w1}
    Instances = {i1}
    Home <- AtHome
    MaxAttempts = 2
    MaxCrashes = 1
    MaxSwitches = 1
CHECK_DEADLOCK FALSE
INVARIANTS
    
    ErasedIsNotSent
PROPERTIES
    
    DeliverySettles
