CONSTANTS
    f1 = f1  f2 = f2  f3 = f3  f4 = f4
    a = a  b = b  c = c  d = d
    Frames <- MCFrames
    Streams <- MCStreams
    StreamOf <- MCStreamOf
    Sam3QueueSize = 1
    LlmQueueSize = 1
    Sam3Concurrency = 2
    LlmConcurrency = 1
    Cooldown = 0
    PruneEvery = 2
    MaxClock = 0
SPECIFICATION LoadSpec
PROPERTIES
    FramesSettle
    ShutdownEnds
