--------------------------- MODULE SessionContract ---------------------------
(***************************************************************************)
(* What a session of native/adapters/hash_table/include/hti/hash_inspector.h*)
(* promises to the code that drives it: a log of frames that a call adds to*)
(* at its end, without a gap, and a quarantine that only a corruption      *)
(* enters and only a restoration or the end of the session leaves.  The    *)
(* table is not in it, a frame tells no more than its kind.                *)
(*                                                                         *)
(* HashInspector implements it; InspectorViewModel is built on it.         *)
(***************************************************************************)
EXTENDS Naturals, Sequences

CONSTANTS
    MaxFrames,      \* INSPECT_TIMELINE_MAX_FRAMES
    FrameIdMax      \* UINT64_MAX as a frame id, scaled down

VARIABLES
    stage,          \* "none", "idle" between the calls of a session, or "busy"
    timeline,       \* the retained frames, the oldest first
    next_frame_id,
    in_quarantine,  \* the session's own flag
    recorded        \* the frames that the running or the last call has recorded

contractvars == <<stage, timeline, next_frame_id, in_quarantine, recorded>>

Log == INSTANCE BoundedLog WITH
    Limit <- MaxFrames, IdMax <- FrameIdMax, Payloads <- {}, Asked <- {},
    open <- stage # "none", log <- timeline, next_id <- next_frame_id, answer <- 0

\* The most frames of a call: an insertion that grows the table records the beginning
\* and the end of the rehash, and itself.
MaxRecorded == 3

\* One frame more.
Records(kind) ==
    /\ next_frame_id < FrameIdMax
    /\ timeline' = Log!Appended(timeline, next_frame_id, kind)
    /\ next_frame_id' = next_frame_id + 1

\* The first frame of a call, or a capture that fails.
RecordsFirst(kind) ==
    \/ Records(kind) /\ recorded' = 1
    \/ recorded' = 0 /\ UNCHANGED <<timeline, next_frame_id>>

-----------------------------------------------------------------------------

ContractInit ==
    stage = "none" /\ timeline = <<>> /\ next_frame_id = 1 /\ in_quarantine = FALSE /\ recorded = 0

\* A session begins with the frame of its creation.
Create ==
    /\ stage = "none" /\ stage' = "idle"
    /\ Records("created")
    /\ UNCHANGED <<in_quarantine, recorded>>

\* The session is gone, with its frames.
Gone ==
    /\ stage' = "none" /\ timeline' = <<>> /\ next_frame_id' = 1
    /\ in_quarantine' = FALSE /\ recorded' = 0

Destroy == stage = "idle" /\ Gone

\* A call on the table; no such call is taken in quarantine.
Begin ==
    /\ stage = "idle" /\ ~ in_quarantine
    /\ RecordsFirst("other")
    /\ stage' = "busy"
    /\ UNCHANGED in_quarantine

GoOn ==
    /\ stage = "busy" /\ recorded < MaxRecorded
    /\ Records("other")
    /\ recorded' = recorded + 1
    /\ UNCHANGED <<stage, in_quarantine>>

\* A call of which nothing has been recorded may record at its end that it failed.
End ==
    /\ stage = "busy"
    /\ \/ UNCHANGED <<timeline, next_frame_id, recorded>>
       \/ recorded = 0 /\ RecordsFirst("other")
    /\ stage' = "idle"
    /\ UNCHANGED in_quarantine

\* A validation, or a corruption that has no memory for its clone.
Judge ==
    /\ stage = "idle"
    /\ RecordsFirst("other")
    /\ UNCHANGED <<stage, in_quarantine>>

Reject ==
    /\ stage = "idle"
    /\ recorded' = 0
    /\ UNCHANGED <<stage, timeline, next_frame_id, in_quarantine>>

Corrupt ==
    /\ stage = "idle" /\ ~ in_quarantine /\ in_quarantine' = TRUE
    /\ RecordsFirst("corrupted")
    /\ UNCHANGED stage

Restore ==
    /\ stage = "idle" /\ in_quarantine /\ in_quarantine' = FALSE
    /\ RecordsFirst("restored")
    /\ UNCHANGED stage

ContractNext ==
    \/ Create \/ Destroy
    \/ Begin \/ GoOn \/ End
    \/ Judge \/ Reject \/ Corrupt \/ Restore

\* A call that has begun returns.
Returns == stage = "busy" ~> stage # "busy"

ContractSpec == ContractInit /\ [][ContractNext]_contractvars /\ Returns

=============================================================================
