--------------------------- MODULE HashInspector ---------------------------
(***************************************************************************)
(* A session of native/adapters/hash_table/src/hash_inspector.c: a hash    *)
(* table whose trace sink captures a frame in the middle of its calls, the *)
(* timeline of these frames, and the quarantine in which a corrupted clone *)
(* stands for the table.                                                   *)
(*                                                                         *)
(* The steps of the table are those of HashTable; a session call makes the *)
(* same step and reacts to the trace event that it emits.  The active      *)
(* table is in the variables of HashTable, the clean backup is a copy of   *)
(* them.  The timeline is the log that InspectionTimeline implements.      *)
(*                                                                         *)
(* Left out: the argument checks (a null pointer, a key that is no demo    *)
(* key), which return before anything changes; the corruption of a size    *)
(* that is SIZE_MAX; a capture that fails with HTI_CORRUPT_STRUCTURE, for  *)
(* the table always has a capacity that a capture accepts.                 *)
(***************************************************************************)
EXTENDS HashTable, HashSnapshot

CONSTANTS
    MaxFrames,      \* INSPECT_TIMELINE_MAX_FRAMES
    FrameIdMax,     \* UINT64_MAX as a frame id, scaled down
    OperationIdMax  \* UINT64_MAX as an operation id, scaled down

ASSUME SessionAssumption ==
    /\ MaxFrames \in Nat \ {0}
    /\ FrameIdMax \in Nat \ {0, 1}
    /\ OperationIdMax \in Nat \ {0}

VARIABLES
    stage,                 \* "idle" between the calls of a session
    backup,                \* session->clean_backup, or NULL
    timeline,              \* the retained frames, the oldest first
    next_frame_id,         \* timeline->next_frame_id
    next_operation_id,     \* session->next_operation_id
    quarantined,           \* session->quarantined
    active_result,         \* *session->active_result, or NULL
    active_capture_status, \* session->active_capture_status
    result                 \* the result of the last call

\* What the pointers point to, when they are not null: a table, and the result of an
\* operation with the name of its last frame's event.
BucketArrays == UNION {[0..(c - 1) -> Seq(Entry)] : c \in 1..SizeMax}

Tables ==
    [buckets : BucketArrays, size : Nat, capacity : Nat, resize_threshold : Nat,
     revision : 0..U64Max, next_entry_id : 0..U64Max, live_blocks : Nat]

Operations == {"none", "create", "put", "lookup", "delete", "validate", "corrupt", "restore", "destroy"}

TableStatuses == {"OK", "INVALID_ARGUMENT", "NOT_FOUND", "NO_MEMORY", "OVERFLOW"}

Statuses == TableStatuses \cup {"CAPTURE_FAILED", "QUARANTINED", "NOT_CORRUPTED"}

Events ==
    {"SESSION_CREATED", "PUT_INSERTED", "PUT_UPDATED", "LOOKUP_HIT", "LOOKUP_MISS",
     "DELETE_HIT", "DELETE_MISS", "REHASH_BEGIN", "REHASH_END", "REHASH_FAILED",
     "VALIDATION_PASSED", "VALIDATION_FAILED", "SIZE_CORRUPTION_APPLIED",
     "CLEAN_STATE_RESTORED", "OPERATION_FAILED"}

Results ==
    [op : Operations, status : Statuses, table_status : TableStatuses, operation_id : Nat,
     first_frame_id : Nat, frame_count : Nat, event : Events \cup {"NONE"}]

ASSUME NoNullAssumption == NULL \notin Tables /\ NULL \notin Results

capturing == <<timeline, next_frame_id>>
session == <<stage, backup, capturing, next_operation_id, quarantined,
             active_result, active_capture_status, result>>
allvars == <<vars, session>>

Log == INSTANCE BoundedLog WITH
    Limit <- MaxFrames, IdMax <- FrameIdMax, Payloads <- {}, Asked <- {},
    open <- stage # "none", log <- timeline, next_id <- next_frame_id, answer <- NULL

-----------------------------------------------------------------------------
(* Snapshots and frames. *)

\* The keys a bucket array holds and their values.
Held(B) == {<<e.key, e.value>> : e \in Linked(B)}

\* What a snapshot of the active table shows.
Shows ==
    [held |-> Held(buckets), reported_size |-> size, capacity |-> capacity,
     revision |-> revision,
     violations |-> Violations(SnapshotOf(buckets, size, capacity, resize_threshold, revision),
                               next_entry_id)]

\* Mutant: the snapshot is taken before the table is changed.
PayloadTooEarly(id, event) == [operation_id |-> id, event |-> event, shows |-> Shows]

\* What a frame carries: the snapshot shows the table that the step leaves.
Payload(id, event) == [operation_id |-> id, event |-> event, shows |-> Shows']

\* hti_append_owned_snapshot, when the timeline takes the snapshot.
Appends(id, event) ==
    /\ next_frame_id # FrameIdMax
    /\ timeline' = Log!Appended(timeline, next_frame_id, Payload(id, event))
    /\ next_frame_id' = next_frame_id + 1

\* There is no memory for the snapshot, or no id for the frame.
CaptureFailures == {"NO_MEMORY"} \cup (IF next_frame_id = FrameIdMax THEN {"OVERFLOW"} ELSE {})

\* Mutant: the result names the last of its frames.
WithLastFrame(res, event) ==
    [res EXCEPT !.first_frame_id = next_frame_id, !.frame_count = @ + 1, !.event = event]

\* The result of an operation that has one frame more.
WithFrame(res, event) ==
    [res EXCEPT !.first_frame_id = IF res.frame_count = 0 THEN next_frame_id ELSE @,
                !.frame_count = @ + 1, !.event = event]

\* hti_capture_event: the result and the status after it.
Captures(res, event, after, status) ==
    \/ Appends(res.operation_id, event) /\ after = WithFrame(res, event) /\ status = "OK"
    \/ status \in CaptureFailures /\ after = res /\ UNCHANGED capturing

-----------------------------------------------------------------------------
(* Operations. *)

NoResult(op, status, table_status) ==
    [op |-> op, status |-> status, table_status |-> table_status, operation_id |-> 0,
     first_frame_id |-> 0, frame_count |-> 0, event |-> "NONE"]

\* hti_begin_operation, between calls and with an id left.
Begins ==
    /\ stage = "idle"
    /\ next_operation_id # OperationIdMax
    /\ next_operation_id' = next_operation_id + 1

\* The result it prepares.
Begun(op) == [NoResult(op, "OK", "OK") EXCEPT !.operation_id = next_operation_id]

\* hti_finish_operation: a capture that failed on the way decides the status.
Finishes(res, status) ==
    /\ result' = [res EXCEPT !.status = IF status = "OK" THEN "OK" ELSE "CAPTURE_FAILED"]
    /\ active_result' = NULL
    /\ active_capture_status' = "OK"
    /\ stage' = "idle"

\* Captures the last frame of an operation and finishes it.
FinishesWith(res, event) ==
    \E status \in CaptureFailures \cup {"OK"}, after \in {res, WithFrame(res, event)} :
        Captures(res, event, after, status) /\ Finishes(after, status)

\* Mutant: a failed capture does not keep the later ones of the operation away.
Forgets(status) == FALSE

\* The sink does nothing once a capture of the operation has failed.
IgnoresTraces(status) == status # "OK"

\* hti_trace_sink, on the event of the table's step; events of the session's frames
\* are named after the traces they stand for.
Sinks(res, status) ==
    IF trace' = NoTrace \/ IgnoresTraces(status)
    THEN active_result' = res /\ active_capture_status' = status /\ UNCHANGED capturing
    ELSE Captures(res, trace'.kind, active_result', active_capture_status')

\* A step of the table within a session call, and whether the call has returned.
TableSteps(res, status) ==
    /\ Sinks(res, status)
    /\ stage' = IF pc' = "ready" THEN "return" ELSE "call"
    /\ UNCHANGED <<backup, quarantined, result>>

\* The table is as it was.
TableStays == Silent /\ UNCHANGED <<table, rehash, pc, entry, live_blocks, ret>>

SessionInit ==
    /\ Init
    /\ stage = "none" /\ backup = NULL
    /\ timeline = <<>> /\ next_frame_id = 0 /\ next_operation_id = 0
    /\ quarantined = FALSE
    /\ active_result = NULL /\ active_capture_status = "OK"
    /\ result = NoResult("none", "OK", "OK")

-----------------------------------------------------------------------------
(* hti_session_create and hti_session_destroy. *)

Gone(op, status) ==
    /\ stage' = "none" /\ backup' = NULL /\ quarantined' = FALSE
    /\ timeline' = <<>> /\ next_frame_id' = 0 /\ next_operation_id' = 0
    /\ result' = NoResult(op, status, "OK")
    /\ UNCHANGED <<active_result, active_capture_status>>

\* No memory for the session or for its timeline.
SessionRefused == stage = "none" /\ Gone("create", "NO_MEMORY") /\ TableStays

\* The session and its timeline are allocated; its table is next.
SessionBegins ==
    /\ stage = "none"
    /\ stage' = "creating" /\ next_frame_id' = 1
    /\ TableStays
    /\ UNCHANGED <<backup, timeline, next_operation_id, quarantined,
                   active_result, active_capture_status, result>>

SessionMakesTable ==
    /\ stage = "creating"
    /\ (\E r \in Requests : CreateTable(r)) \/ CreateBuckets
    /\ UNCHANGED session

\* Every refusal but one for memory is reported as an invalid argument.
SessionHasNoTable ==
    /\ stage = "creating"
    /\ (\E r \in Requests : CreateRefused(r)) \/ CreateFails
    /\ Gone("create", IF ret'.status = "NO_MEMORY" THEN "NO_MEMORY" ELSE "INVALID_ARGUMENT")

SessionCreated ==
    /\ stage = "creating" /\ pc = "ready"
    /\ TableStays
    /\ Appends(0, "SESSION_CREATED")
    /\ stage' = "idle" /\ next_operation_id' = 1
    /\ result' = NoResult("create", "OK", "OK")
    /\ UNCHANGED <<backup, quarantined, active_result, active_capture_status>>

\* The first capture fails: everything is given back.
SessionNotCaptured ==
    /\ stage = "creating"
    /\ \E status \in CaptureFailures : Gone("create", status)
    /\ Destroy

SessionDestroy == stage = "idle" /\ Gone("destroy", "OK") /\ Destroy

-----------------------------------------------------------------------------
(* hti_session_put, hti_session_lookup and hti_session_delete. *)

\* Mutant: a quarantined session takes calls.
AcceptsAlways == TRUE

Accepts == ~ quarantined

SessionPut(k, v) ==
    /\ Accepts /\ Begins
    /\ PutUpdates(k, v) \/ PutAllocates(k, v) \/ PutRefused(k)
    /\ TableSteps(Begun("put"), "OK")

SessionLookup(k) ==
    /\ Accepts /\ Begins
    /\ GetHits(k) \/ Misses("get", "LOOKUP_MISS", k)
    /\ TableSteps(Begun("lookup"), "OK")

SessionDelete(k) ==
    /\ Accepts /\ Begins
    /\ RemoveHits(k) \/ Misses("remove", "DELETE_MISS", k)
    /\ TableSteps(Begun("delete"), "OK")

\* The table goes on with an insertion that grows it.
SessionContinues ==
    /\ stage = "call"
    /\ Continue
    /\ TableSteps(active_result, active_capture_status)
    /\ UNCHANGED next_operation_id

\* The table's call has returned.  An operation of which no trace told, and no
\* capture failed, gets its frame now (hti_capture_failure_if_needed).
SessionReturns ==
    /\ stage = "return"
    /\ TableStays
    /\ LET res == [active_result EXCEPT !.table_status = ret.status]
       IN IF res.frame_count = 0 /\ active_capture_status = "OK"
          THEN FinishesWith(res, "OPERATION_FAILED")
          ELSE Finishes(res, active_capture_status) /\ UNCHANGED capturing
    /\ UNCHANGED <<backup, next_operation_id, quarantined>>

-----------------------------------------------------------------------------
(* hti_session_validate, hti_session_corrupt_size and hti_session_restore. *)

SessionValidate ==
    /\ Begins
    /\ TableStays
    /\ FinishesWith(Begun("validate"),
                    IF Shows.violations = {} THEN "VALIDATION_PASSED" ELSE "VALIDATION_FAILED")
    /\ UNCHANGED <<backup, quarantined>>

\* Mutant: the backup is taken of the corrupted table.
SavedCorrupted ==
    [buckets |-> buckets, size |-> size + 1, capacity |-> capacity,
     resize_threshold |-> resize_threshold, revision |-> revision,
     next_entry_id |-> next_entry_id, live_blocks |-> live_blocks]

\* The table as ht_internal_clone copies it, and as the session keeps it.
Saved ==
    [buckets |-> buckets, size |-> size, capacity |-> capacity,
     resize_threshold |-> resize_threshold, revision |-> revision,
     next_entry_id |-> next_entry_id, live_blocks |-> live_blocks]

\* ht_internal_clone fails; ht_destroy has freed the part of the clone that was made.
CorruptFails ==
    /\ Accepts /\ Begins
    /\ TableStays
    /\ FinishesWith([Begun("corrupt") EXCEPT !.table_status = "NO_MEMORY"], "OPERATION_FAILED")
    /\ UNCHANGED <<backup, quarantined>>

\* The clone takes the place of the table, with a size and a revision one higher.
CorruptSize ==
    /\ Accepts /\ Begins
    /\ backup' = Saved
    /\ size' = size + 1 /\ Bump
    /\ live_blocks' = 2 + Cardinality(Linked(buckets))
    /\ quarantined' = TRUE
    /\ Silent
    /\ UNCHANGED <<buckets, capacity, resize_threshold, next_entry_id, rehash, pc, entry, ret>>
    /\ FinishesWith(Begun("corrupt"), "SIZE_CORRUPTION_APPLIED")

\* Mutant: the corrupted clone stays the active table.
RestoredClone == [Saved EXCEPT !.live_blocks = backup.live_blocks]

Restored == backup

\* The clone is destroyed and the backup is active again.
Restore ==
    /\ quarantined /\ backup # NULL
    /\ Begins
    /\ buckets' = Restored.buckets /\ size' = Restored.size /\ capacity' = Restored.capacity
    /\ resize_threshold' = Restored.resize_threshold /\ revision' = Restored.revision
    /\ next_entry_id' = Restored.next_entry_id /\ live_blocks' = Restored.live_blocks
    /\ backup' = NULL
    /\ quarantined' = FALSE
    /\ Silent
    /\ UNCHANGED <<rehash, pc, entry, ret>>
    /\ FinishesWith(Begun("restore"), "CLEAN_STATE_RESTORED")

\* A call is rejected: in quarantine, out of it, or when the operation ids are used up.
Rejects(op, status, table_status) ==
    /\ stage = "idle"
    /\ result' = NoResult(op, status, table_status)
    /\ TableStays
    /\ UNCHANGED <<stage, backup, capturing, next_operation_id, quarantined,
                   active_result, active_capture_status>>

TableCalls == {"put", "lookup", "delete", "corrupt"}

SessionRejects ==
    \/ \E op \in TableCalls : ~ Accepts /\ Rejects(op, "QUARANTINED", "INVALID_ARGUMENT")
    \/ (~ quarantined \/ backup = NULL) /\ Rejects("restore", "NOT_CORRUPTED", "INVALID_ARGUMENT")
    \/ /\ next_operation_id = OperationIdMax
       /\ \E op \in {"validate"} \cup (IF Accepts THEN TableCalls ELSE {"restore"}) :
             Rejects(op, "OVERFLOW", "OK")

-----------------------------------------------------------------------------

\* The rest of a call that has begun.
SessionProceeds ==
    \/ SessionMakesTable \/ SessionHasNoTable \/ SessionCreated \/ SessionNotCaptured
    \/ SessionContinues
    \/ SessionReturns

SessionCalls ==
    \/ SessionRefused \/ SessionBegins \/ SessionDestroy
    \/ \E k \in Keys :
          SessionLookup(k) \/ SessionDelete(k) \/ \E v \in Values : SessionPut(k, v)
    \/ SessionValidate \/ CorruptFails \/ CorruptSize \/ Restore
    \/ SessionRejects

SessionNext == SessionCalls \/ SessionProceeds

\* A call that has begun runs on.
SessionSpec == SessionInit /\ [][SessionNext]_allvars /\ WF_allvars(SessionProceeds)

-----------------------------------------------------------------------------
(* What the session promises. *)

FrameAt(i) == timeline[i].payload

\* While a session is quarantined its backup is a sound table, all that the clone
\* differs in is the size and the revision, and there is a backup only then
\* (hti_session_corrupt_size hands two tables over, hti_session_restore one back).
QuarantineKeepsCleanTable ==
    /\ quarantined <=> backup # NULL
    /\ quarantined =>
          /\ Sound(SnapshotOf(backup.buckets, backup.size, backup.capacity,
                              backup.resize_threshold, backup.revision), backup.next_entry_id)
          /\ [Saved EXCEPT !.size = backup.size, !.revision = backup.revision] = backup
          /\ size = backup.size + 1

\* The architecture plan has the corruption "increment only its reported size"
\* (docs/architecture-plan.md:226); ht_internal_corrupt_size_plus_one raises the
\* revision too, so this does not hold.
OnlySizeIsCorrupted == quarantined => [Saved EXCEPT !.size = backup.size] = backup

\* The validator's verdict on a retained frame is bad exactly when the frame tells
\* of the corruption: no frame taken inside a call, in the middle of a growth, after
\* a failure or after the restoration shows a table that is not sound, and no frame
\* taken in quarantine passes for a good one.
FramesJudgeTheTable ==
    \A i \in DOMAIN timeline :
        IF FrameAt(i).event \in {"SIZE_CORRUPTION_APPLIED", "VALIDATION_FAILED"}
        THEN /\ "SIZE_MISMATCH" \in FrameAt(i).shows.violations
             /\ FrameAt(i).shows.violations \subseteq {"SIZE_MISMATCH", "LOAD_EXCEEDED"}
        ELSE FrameAt(i).shows.violations = {}

\* The frames of an operation are next to each other in the timeline, in the order
\* of the operations, and a result names exactly those of its operation, as far as
\* they are retained: what hti_operation_result_json copies by id belongs to it.  The
\* session fills in a result while its call runs and forgets it when the call returns,
\* so that no trace is written into a result that the caller has given up.
ResultNamesItsFrames ==
    LET res == IF active_result # NULL THEN active_result ELSE result
        named == res.first_frame_id..(res.first_frame_id + res.frame_count - 1)
    IN /\ active_result # NULL <=> stage \in {"call", "return"}
       /\ \A i, j \in DOMAIN timeline :
             i <= j => FrameAt(i).operation_id <= FrameAt(j).operation_id
       /\ \A i \in DOMAIN timeline :
             res.operation_id > 0 =>
                (timeline[i].frame_id \in named <=> FrameAt(i).operation_id = res.operation_id)
       /\ (res.frame_count > 0 => res.event = FrameAt(Len(timeline)).event)

\* A growth that is seen is seen from its start: the frame before the end of a
\* rehash is its beginning, of the same operation and with the same contents in half
\* the buckets, and what follows in the operation is the insertion.  A failed capture
\* in between cannot tear a hole, for no later trace is captured.
RehashIsSeenWhole ==
    \A i \in 2..Len(timeline) :
        LET before == FrameAt(i - 1)  after == FrameAt(i)
        IN /\ after.event = "REHASH_END" =>
                 /\ before.event = "REHASH_BEGIN"
                 /\ after.operation_id = before.operation_id
                 /\ after.shows.held = before.shows.held
                 /\ after.shows.capacity = 2 * before.shows.capacity
           /\ before.event = "REHASH_BEGIN" /\ after.operation_id = before.operation_id
                 => after.event = "REHASH_END"
           /\ before.event = "REHASH_END" /\ after.operation_id = before.operation_id
                 => after.event = "PUT_INSERTED"

\* After a call that reports HTI_OK the newest frame shows the active table as it is
\* now, so a viewer that looks at it looks at the live table; only a reported capture
\* failure leaves it behind.
NewestFrameIsCurrent ==
    stage = "idle" /\ result.status = "OK" =>
        timeline # <<>> /\ FrameAt(Len(timeline)).shows = Shows

\* What a caller would get back: the clean table in quarantine, else the active one.
Recoverable ==
    [k \in Keys |->
        IF backup = NULL THEN Visible[k]
        ELSE IF \E v \in Values : <<k, v>> \in Held(backup.buckets)
        THEN CHOOSE v \in Values : <<k, v>> \in Held(backup.buckets)
        ELSE NULL]

RecoverableMap == INSTANCE ByteMap WITH live <- Alive, map <- Recoverable

\* For the table's callers a session is one map: a failed capture, a corruption, a
\* restoration and every rejected call leave its contents alone, and no result of
\* the table is given for a change that a restoration would take back.
SessionIsOneMap == RecoverableMap!Spec

\* How a frame appears to the code above the session.
KindOf(frame) ==
    CASE frame.payload.event = "SESSION_CREATED"         -> "created"
      [] frame.payload.event = "SIZE_CORRUPTION_APPLIED" -> "corrupted"
      [] frame.payload.event = "CLEAN_STATE_RESTORED"    -> "restored"
      [] OTHER                                           -> "other"

Contract == INSTANCE SessionContract WITH
    stage <- CASE stage \in {"none", "creating"} -> "none" [] stage = "idle" -> "idle"
               [] OTHER -> "busy",
    timeline <- [i \in DOMAIN timeline |->
                    [frame_id |-> timeline[i].frame_id, payload |-> KindOf(timeline[i])]],
    next_frame_id <- IF stage \in {"none", "creating"} THEN 1 ELSE next_frame_id,
    in_quarantine <- quarantined,
    recorded <- (IF active_result = NULL THEN result ELSE active_result).frame_count

\* What the code above a session relies on, whatever fails inside it: frames come one
\* after the other without a gap in their ids, the last call's are the last of the
\* log, three at most, and the flag of the quarantine changes with a corruption or a
\* restoration only, next to which no frame of another call slips in.  A call returns,
\* one that grows the table and fails on the way included.
KeepsContract == Contract!ContractSpec

=============================================================================
