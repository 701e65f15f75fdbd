\* Each direction by itself, under the fairness of the send loop.
SPECIFICATION FairSpec
CONSTANTS
    BufferSize = 4
    MinFree = 1
    AppendSizes <- Sizes
    ReadSizes <- Sizes
    MaxBytes = 16
CONSTRAINT OneDirection
INVARIANTS
    TypeOK
    WithinBounds
    OutputIntact
    InputIntact
    RecvHasRoom
    BoundedMemory
PROPERTIES
    FlushDrains
    FlushEnds
    StreamSpec
