SPECIFICATION BothSpec
CONSTANTS
    MaxSize = 7
    Granularity = 3
    MaxErrors = 2
    Garbage = Garbage
    BlockSize = 2
    BitsPerByte = 2
    MaxOffset = 8
    MaxLength = 5
    MaxCalls = 3
INVARIANTS
    TransferSound
    RangeIsExact
    OnlyLongRangeStrays
PROPERTIES
    EveryTransferEnds
