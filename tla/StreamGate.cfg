CONSTANTS
    Streams = {s1, s2, s3}
    Cooldown = 2
    PruneEvery = 3
    MaxClock = 6
SPECIFICATION HSpec
INVARIANT HInv
PROPERTY ImplementsAdmission
SYMMETRY StreamSymmetry
