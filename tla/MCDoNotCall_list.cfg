SPECIFICATION Spec
CONSTANTS
    l1 = l1
    l2 = l2
    r1 = r1
    r2 = r2
    CountryCode <- TheCode
    MobileLength = 3
    MinLength = 2
    MaxLength = 6
    LeadIds = {l1, l2}
    NoLead = NoLead
    Requests = {r1, r2}
    Spellings <- TheSpellings
    Files <- TheFiles
    MaxBegun = 4
    MaxRaced = 3
SYMMETRY Symmetry
CHECK_DEADLOCK FALSE

    
PROPERTIES
    HeldUntilTakenBack
    SwitchedBackIsCallable
