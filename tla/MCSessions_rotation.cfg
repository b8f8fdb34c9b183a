SPECIFICATION Spec
CONSTANTS
    b1 = b1
    b2 = b2
    r1 = r1
    r2 = r2
    r3 = r3
    Tabs = {b1, b2}
    Requests = {r1, r2, r3}
    TabOf <- SomeTabs
    MaxTokens = 4
    MaxCode = 2
    MaxChanges = 2
    MaxLosses = 1
SYMMETRY Symmetry
CHECK_DEADLOCK FALSE
INVARIANTS
    
    
    
    CodesWinOnce
