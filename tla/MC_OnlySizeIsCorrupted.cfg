\* HT_MIN_CAPACITY scaled to 1, with threshold 1: the second insertion grows the
\* table to two buckets, and no larger array fits.
CONSTANTS
    k1 = k1
    k2 = k2
    Keys = {k1, k2}
    Values = {0}
    Hash <- MCHash
    Requests = {1, 4}
    MinCapacity = 1
    DefaultCapacity = 1
    PointerSize = 1
    SizeMax = 3
    U64Max = 6
    NULL = NULL
    MaxFrames = 4
    FrameIdMax = 7
    OperationIdMax = 5
SPECIFICATION SessionSpec
INVARIANT OnlySizeIsCorrupted
