CONSTANTS
    Events = {e1, e2}
    NoEvent = NoEvent
    DayLength = 2
    RetentionDays = 3
    TmpMaxAge = 2
    Grace = 1
    High = 1
    Target = 0
    MaxStall = 1
    MaxTime = 4
    MaxFaults = 0
    MaxCrashes = 0
SPECIFICATION Spec
PROPERTIES
    ConfirmedIsSaved
CHECK_DEADLOCK FALSE
