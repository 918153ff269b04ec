----------------------------- MODULE BoundedLog -----------------------------
(***************************************************************************)
(* What a timeline promises (native/inspection/include/hti/inspection.h):  *)
(* a first-in first-out log of at most Limit frames, numbered from 1       *)
(* without a gap, that drops its oldest frame to make room.                *)
(***************************************************************************)
EXTENDS Naturals, Sequences

CONSTANTS
    Limit,     \* the frames a log retains
    IdMax,     \* the id that is never given to a frame
    Payloads,  \* what a frame carries
    Asked      \* the positions and ids that callers ask for

VARIABLES
    open,      \* the log exists
    log,       \* the retained frames, the oldest first
    next_id,   \* the id of the next frame
    answer     \* the answer to the last call

logvars == <<open, log, next_id, answer>>

\* The last frames of a sequence, Limit of them at most.
Newest(frames) ==
    IF Len(frames) <= Limit THEN frames
    ELSE SubSeq(frames, Len(frames) - Limit + 1, Len(frames))

Appended(frames, id, payload) ==
    Newest(Append(frames, [frame_id |-> id, payload |-> payload]))

Answer(call, argument, status, frames) ==
    answer' = [call |-> call, argument |-> argument, status |-> status, frames |-> frames]

NoAnswer == [call |-> "none", argument |-> 0, status |-> "OK", frames |-> {}]

Init == open = FALSE /\ log = <<>> /\ next_id = 1 /\ answer = NoAnswer

Open == ~ open /\ open' = TRUE /\ UNCHANGED <<log, next_id, answer>>

Close == open /\ open' = FALSE /\ log' = <<>> /\ next_id' = 1 /\ answer' = NoAnswer

AppendFrame ==
    /\ open /\ next_id < IdMax
    /\ \E p \in Payloads : log' = Appended(log, next_id, p)
    /\ next_id' = next_id + 1
    /\ Answer("append", next_id, "OK", {})
    /\ UNCHANGED open

Refuse ==
    /\ open /\ next_id = IdMax
    /\ Answer("append", next_id, "OVERFLOW", {})
    /\ UNCHANGED <<open, log, next_id>>

\* A read finds the only frame that it may find, or none.
Finds(call, argument, frames) ==
    /\ open
    /\ Answer(call, argument, IF frames = {} THEN "NOT_FOUND" ELSE "OK", frames)
    /\ UNCHANGED <<open, log, next_id>>

ReadAt(index) == Finds("get_at", index, {log[i] : i \in DOMAIN log \cap {index + 1}})

ReadById(id) == Finds("get_by_id", id, {f \in {log[i] : i \in DOMAIN log} : f.frame_id = id})

Next ==
    \/ Open \/ Close \/ AppendFrame \/ Refuse
    \/ \E n \in Asked : ReadAt(n) \/ ReadById(n)

Spec == Init /\ [][Next]_logvars

=============================================================================
