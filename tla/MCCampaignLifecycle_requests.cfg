SPECIFICATION CampaignSpec
CONSTANTS
    m1 = m1
    m2 = m2
    l1 = l1
    l2 = l2
    Agent = Agent
    Null = Null
    Keep = Keep
    Managers = {m1, m2}
    Leads = {l1, l2}
    Patches <- SomePatches
    MaxCalls = 1
CHECK_DEADLOCK FALSE
SYMMETRY Symmetry
INVARIANTS
    WindowStaysOrdered
    NoCallFromADraft
PROPERTIES
    ArchivedIsFinal
