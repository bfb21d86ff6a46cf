CONSTANTS
    MayVanish = TRUE
    Models = {m1, m2}
    NoModel = NoModel
    Confirms = {w1}
    Probe = probe
    NoCaller = NoCaller
SPECIFICATION Spec
PROPERTIES
    ReadyWhenWell
