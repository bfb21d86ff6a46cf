CONSTANTS
    Calls = {t1, t2}
    Streams = {a, b}
    Hazards = {"fire", "smoke"}
    NoCall = NoCall
    Cooldown = 2
    Retention = 2
    Tolerance = 1
    MaxTime = 2
    MaxFaults = 1
    MaxCrashes = 1
    MaxSteps = 1
SPECIFICATION FairSpec
INVARIANTS
    SuppressedWasAlarmed
PROPERTIES
    DeliveryEnds
CHECK_DEADLOCK FALSE
