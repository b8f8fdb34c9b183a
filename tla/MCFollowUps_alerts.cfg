SPECIFICATION Spec
CONSTANTS
    w1 = w1
    w2 = w2
    Workers = {w1, w2}
    Times = {0, 8, 23}
    Step = 8
    Horizon = 64
    Lookback = 24
    MaxEdits = 5
    MaxCrashes = 1
    Zones <- SomeZones
SYMMETRY Symmetry
CHECK_DEADLOCK FALSE
INVARIANTS
    AnnouncedOncePerSchedule
    NoAlertIsMissed
    LabelFollowsTheCalendar
