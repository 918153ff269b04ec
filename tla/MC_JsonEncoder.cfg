\* A document of three full frames passes the largest size.
CONSTANTS
    SizeMax = 63
    InitialCapacity = 4
    Int32Max = 45
    PieceSize <- MCPieceSize
    Timelines <- MCTimelines
    Requests <- MCRequests
SPECIFICATION Spec
INVARIANTS
    WritesFit
    BufferIsFreedOnce
    ArrivesWhole
PROPERTY EncodingEnds
\* A document is encoded once.
CHECK_DEADLOCK FALSE
