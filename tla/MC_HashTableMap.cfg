\* A scaled HT_MIN_CAPACITY of 2 (threshold 2), so that three keys grow the table
\* once, and a fourth entry id never comes.
CONSTANTS
    k1 = k1
    k2 = k2
    k3 = k3
    k4 = k4
    Keys = {k1, k2, k3}
    Values = {0, 1}
    Hash <- MCHash
    Requests = {0, 3, 5}
    MinCapacity = 2
    DefaultCapacity = 2
    PointerSize = 8
    SizeMax = 63
    U64Max = 5
    NULL = NULL
SPECIFICATION FairSpec
PROPERTIES
    ImplementsMap
    CallReturns
