CONSTANTS
    f1 = f1  f2 = f2  f3 = f3
    a = a  b = b
    Frames <- MCFrames
    Streams <- MCStreams
    StreamOf <- MCStreamOf
    Sam3QueueSize = 1
    LlmQueueSize = 1
    Sam3Concurrency = 2
    LlmConcurrency = 2
    Cooldown = 1
    PruneEvery = 2
    MaxClock = 1
SPECIFICATION Spec
INVARIANTS
    TypeOK
    GateExact
    UnfinishedExact
    DrainLosesNothing
    ReservationIsFree
    CountsBalance
PROPERTIES
    NothingAcceptedLate
