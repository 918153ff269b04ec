\* Three slots; seven frames before the ids run out, so that the head goes once
\* around the ring.
CONSTANTS
    s1 = s1
    s2 = s2
    s3 = s3
    s4 = s4
    MaxFrames = 3
    IdMax = 8
    Events = {"put", "delete"}
    Snapshots = {s1, s2, s3, s4}
    Asked = {0, 1, 2, 3, 7}
    NULL = NULL
SPECIFICATION Spec
INVARIANTS
    FramesInOrder
    SnapshotsHaveOneOwner
PROPERTY ImplementsLog
