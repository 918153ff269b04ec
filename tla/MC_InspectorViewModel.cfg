\* Every fault, at every point.
CONSTANTS
    MaxFrames = 3
    FrameIdMax = 7
    SessionsMax = 2
    Demo <- MCDemo
    NULL = NULL
    Faults = {"capture", "encode", "create", "java heap"}
SPECIFICATION Spec
INVARIANTS
    OwnsEverySession
    SelectionIsHeld
    ShowsWhatItReceived
    FlagTellsTheFrames

