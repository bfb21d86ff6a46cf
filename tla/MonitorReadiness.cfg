CONSTANTS
    MayVanish = FALSE
    Models = {m1, m2}
    NoModel = NoModel
    Confirms = {w1}
    Probe = probe
    NoCaller = NoCaller
SPECIFICATION Spec
INVARIANTS
    TypeOK
    LockExact
    ReadyIsNamed
PROPERTIES
    ImplementsModelName
    UnreadyWhenFull
    ReadyWhenWell
