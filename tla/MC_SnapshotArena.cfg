\* Sizes are multiples of the alignments, as in C, but for the header's.
CONSTANTS
    n1 = n1
    n2 = n2
    n3 = n3
    Nodes = {n1, n2, n3}
    NULL = NULL
    Capacity = 4
    KeySize <- MCKeySize
    SizeMax = 51
    HeaderSize = 9
    BucketSize = 2
    EntrySize = 8
    BucketAlign = 2
    EntryAlign = 4
SPECIFICATION Spec
INVARIANTS
    AnswerIsRight
    ArenaFitsTheTable
    ReadsBackTheTable
PROPERTY CaptureEnds
\* A capture is made once.
CHECK_DEADLOCK FALSE
