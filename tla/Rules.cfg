CONSTANTS
    MaxBytes = 3
    MaxChunk = 2
    MaxMessages = 3
    Percent = {0, 40, 60, 100}
    Sizes = {0, 1, 2, 3}
    MaxImageBytes = 5
    MaxImagePixels = 3
    Scale = 2
    Certain = 10
    Threshold = 3
    NotANumber = 99
    MaxSide = 2
    MaxOffset = 1
SPECIFICATION Spec
INVARIANTS
    BufferBounded
    WholeBodyOrTooLarge
    BoxesFit
    RefusedIsCleaned
CHECK_DEADLOCK FALSE
