CONSTANTS
    k1 = k1
    k2 = k2
    Keys = {k1, k2}
    Values = {0}
    Hash <- MCHash
    NextId = 3
    Subjects <- MCSubjects
SPECIFICATION ValidatorSpec
INVARIANT ValidatorIsExact
\* A snapshot is judged once.
CHECK_DEADLOCK FALSE
