CONSTANTS
    Loggers = {a, b}
    Cleaner = cleaner
    Free = Free
    Retention = 2
    MaxDay = 2
    MaxFaults = 1
SPECIFICATION Spec
INVARIANTS
    TypeOK
    RecentKept
PROPERTIES
    ImplementsJournal
    ExpiredGo
    ShutdownEnds
