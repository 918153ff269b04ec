CONSTANTS
    MaxFrames = 3
    FrameIdMax = 9
    SessionsMax = 2
    Demo <- MCDemo
    NULL = NULL
    Faults = {"encode"}
SPECIFICATION Spec
INVARIANT RowKeysAreUnique
