CONSTANTS
    Events = {e1, e2}
    NoEvent = NoEvent
    DayLength = 4
    RetentionDays = 1
    TmpMaxAge = 2
    Grace = 2
    High = 2
    Target = 1
    MaxStall = 1
    MaxTime = 4
    MaxFaults = 1
    MaxCrashes = 1
SPECIFICATION Spec
INVARIANTS
    TypeOK
PROPERTIES
    ImplementsVault
    StagedSaveSucceeds
    UpdateWithinGrace
    PressureTakesOldest
    PassReclaims
SYMMETRY EventSymmetry
CHECK_DEADLOCK FALSE
