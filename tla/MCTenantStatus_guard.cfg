SPECIFICATION TenantSpec
CONSTANTS
    east = east
    west = west
    o1 = o1
    o2 = o2
    r1 = r1
    r2 = r2
    Instances = {east, west}
    Operators = {o1, o2}
    TenantRequests = {r1, r2}
    Home <- HomeOf
    Ttl = 2
    TrialEnd = 1
    Take = 2
    MaxTime = 3
    MaxChanges = 3
SYMMETRY Symmetry
CHECK_DEADLOCK FALSE
INVARIANTS
    ShutOutInTime
PROPERTIES
    ReopenedAsItWas
