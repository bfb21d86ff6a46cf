CONSTANTS
    Calls = {t1, t2, t3}
    Streams = {a}
    Hazards = {"fire", "smoke"}
    NoCall = NoCall
    Cooldown = 2
    Retention = 2
    Tolerance = 1
    MaxTime = 3
    MaxFaults = 1
    MaxCrashes = 1
    MaxSteps = 1
SPECIFICATION Spec
INVARIANTS
    TypeOK
    LockExact
    ReservationsExact
PROPERTIES
    NoDuplicateAlarm
    SilenceIsShort
    ImplementsAtomic
SYMMETRY CallSymmetry
CHECK_DEADLOCK FALSE
