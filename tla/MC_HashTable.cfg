\* The real HT_MIN_CAPACITY: the fourth insertion grows the table to 8 buckets;
\* 9 buckets or more do not fit in the scaled address space.
CONSTANTS
    k1 = k1
    k2 = k2
    k3 = k3
    k4 = k4
    Keys = {k1, k2, k3, k4}
    Values = {0}
    Hash <- MCHash
    Requests = {0, 4, 9, 100}
    MinCapacity = 4
    DefaultCapacity = 8
    PointerSize = 8
    SizeMax = 127
    U64Max = 6
    NULL = NULL
SYMMETRY Interchangeable
SPECIFICATION Spec
INVARIANTS
    TypeOK
    WellFormed
    SizeCounts
    LoadBounded
    NoLeak
    TraceDescribesTable
PROPERTIES
    EntriesKeepIdentity
    RehashKeepsContents
    FailureChangesNothing
