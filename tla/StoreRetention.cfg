CONSTANTS
    Events = {e1}
    NoEvent = NoEvent
    DayLength = 2
    RetentionDays = 1
    TmpMaxAge = 2
    Grace = 2
    High = 2
    Target = 1
    MaxStall = 1
    MaxTime = 4
    MaxFaults = 0
    MaxCrashes = 1
SPECIFICATION FairSpec
PROPERTIES
    ExpiredReclaimed
CHECK_DEADLOCK FALSE
