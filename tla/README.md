# A verification project for hash-table-inspector

This directory holds a TLA+ model of hash-table-inspector, from its C hash table up to
the view model of its Android app, the TLC runs that check it on small instances, and
proofs that TLAPS checks for every value of the constants. Paths below are relative to
`src/`; `hash_table.c` is `native/hash_table/src/hash_table.c`, `inspection_timeline.c` is
in `native/inspection/src/`, `hash_inspector.c`, `hash_snapshot.c` and `hash_json.c` are
in `native/adapters/hash_table/src/`, `hash_inspector_jni.c` is in `native/jni/`, and the
Kotlin files are in `app/src/main/java/com/hammertomahawk/hashtableinspector/`.

## The system

A C11 hash table emits trace events in the middle of its calls. An inspector session
catches them, copies the whole table into a snapshot, lets a validator judge it, and
keeps the last 64 snapshots as frames of a timeline. A session can also be quarantined
on purpose: a corrupted clone takes the place of the table, until the clean table is
restored. An Android app drives one session through JNI and JSON and shows the frames.

| Component | State | Operations | Modules |
|---|---|---|---|
| Hash table (`hash_table.c`) | bucket array of chains, size, capacity, threshold, revision, next entry id | create, destroy, put, get, remove, reserve; the rehash inside put and reserve | `TableShape`, `HashTable`, `ByteMap` |
| Timeline (`inspection_timeline.c`) | ring of frames, head, count, next frame id | create, destroy, append, get_at, get_by_id | `InspectionTimeline`, `BoundedLog` |
| Snapshot and validator (`hash_snapshot.c`) | none; a snapshot is an immutable arena | capture, cycle check, layout, validate, read back | `HashSnapshot`, `SnapshotValidator`, `ChainCycle`, `ArenaLayout`, `SnapshotArena` |
| Session (`hash_inspector.c`) | active table, clean backup, timeline, next operation id, quarantine flag, active result and capture status | create, destroy, put, lookup, delete, validate, corrupt, restore, the trace sink | `HashInspector`, `SessionContract` |
| JSON encoder (`hash_json.c`) | a growing buffer | result and timeline documents | `JsonEncoder` |
| JNI bridge (`hash_inspector_jni.c`) | none; buffers of one call | one function per operation, copies of keys and documents | `NativeSession`, `JsonEncoder`, `DemoKey` |
| Kotlin session (`NativeHashSession.kt`) | the handle of a session, a lock | create, one call per operation, close | `NativeSession`, `SerialSession` |
| View model (`InspectorViewModel.kt`) | the session, copied frames, selection, quarantine flag, outcome | construction, operations, reset, demo, selection, clearing | `InspectorViewModel` |
| Parser (`NativeModels.kt`) | none | documents to frames | parts of `JsonEncoder`, `DemoKey`, `InspectorViewModel` |
| User interface (`MainActivity.kt`) | none of its own | buttons, timeline rows | parts of `InspectorViewModel` |

How they interact. The session calls the table; the table calls back into the session
(`hti_trace_sink`) before and after a rehash and at the end of most calls; the sink
reads the table (`hti_snapshot_capture_internal`) and appends to the timeline, which
takes the snapshot's ownership and may release an older one. The result of an operation
names its frames by id; the encoder looks them up after the operation, the bridge copies
the document into a Java array, Kotlin parses it. A Kotlin session holds the address of a
native one and runs every call, with its encoding and parsing, inside one lock. The view
model has one such session at a time and knows of it what the documents say.

What is hard here. There are no threads in the native code; the difficulty is in steps
that fail half way (an allocation, a capture, an encoding, the last id), in callbacks that
look at a table in the middle of a call, in ownership that changes hands, in addresses
that are used as handles, and in long sequences of legal calls. Threads meet in the Kotlin
session. Messages are lost between the session and the view model: an operation that was
performed may have no document. `PROJECT.json` lists each hazard at its line, with the
properties that watch it.

What makes each part correct. The table: it is a map; every entry is where a search
looks, the counters tell the truth, the load factor holds, a failure changes nothing, no
block leaks. The timeline: the last frames in order, never altered, every snapshot with
one owner. The capture: its arena is large enough, what is read back is the table. The
validator: it accuses exactly the unsound tables. The session: frames, results and backup
say true things about the table, whichever capture fails. The encoder: no write leaves
the buffer and what arrives is whole. The Kotlin session: nothing uses a session that was
closed. The view model: it closes each session once and shows what it received.

## The modules and the code

    HashTable  InspectionTimeline   HashSnapshot   SnapshotArena(ArenaLayout, ChainCycle)
       |             |                  |    \
       |implements   |implements        |     SnapshotValidator
    ByteMap      BoundedLog             |
                     \                  |
          HashInspector = HashTable + HashSnapshot + BoundedLog
                     |implements
              SessionContract          NativeSession   JsonEncoder   DemoKey
                     |                      |implements
              InspectorViewModel       SerialSession

**`TableShape`** is how a table holds entries: a bucket array is a function from indices
to chains, a chain is a sequence with its head first. A key is a model value with a hash
given by the constant `Hash`, so that collisions are chosen. `hash & (capacity - 1)` is
`hash % capacity`, which is the same while the capacity is a power of two:
`TraceDescribesTable` has that for every finished rehash.

**`HashTable`** has the fields of `struct ht` as variables. A call is one step where
nothing can look in between. It is several where an allocation or a callback splits it:

    ht_create   CreateTable -> CreateBuckets | CreateFails
    ht_put      PutUpdates | PutRefused | PutAllocates -> [Grow -> Relink* -> EndRehash] -> LinkEntry
                                                     |  GrowFails
    ht_reserve  ReserveReturns | ReserveFails | ReserveBegins -> Relink* -> EndRehash

`pc` says where a call is, `entry` is the entry that `ht_put` has allocated and not
linked, `new_buckets` is the array that `ht_rehash` fills, one entry per step.
`live_blocks` counts allocations minus deallocations. `trace` is the event a step gives
to the sink, `ret` what the last call returned. An allocation may always fail; it
overflows when its bytes exceed `SizeMax`, the scaled `SIZE_MAX`. `U64Max` stands for
`UINT64_MAX`: ids stop below it, revisions wrap at it.

**`ByteMap`** is what the header promises: a map whose calls take effect in one step and
whose refused calls change nothing. `HashTable` implements it (`ImplementsMap`) with
`map <- Visible`, the value of each key over both arrays, so in mid-rehash too.

**`InspectionTimeline`** has the fields of `struct inspect_timeline`; a snapshot is an
identity in `heap` while it is allocated, and `owned` is the one that
`hti_capture_event` has made and not handed over. `AppendFrame` is the whole append:
evict, place, number, take over. **`BoundedLog`** is the log it implements
(`ImplementsLog`), with the ring unrolled from its head.

**`HashSnapshot`** has the snapshot as a copy of the chains and counters, the violations
the validator records (by kind; the code counts them and keeps the first), and `Sound`,
the definition they are compared with. **`SnapshotValidator`** runs the validator once, on a
snapshot that may be damaged in any way.

**`ArenaLayout`** is the `size_t` arithmetic of `hash_snapshot.c`: `Plus`, `Times` and
`AlignUp` wrap, `CanAdd`, `CanMultiply` and `CanAlignUp` are the checks before them, and
`LayoutFits` is the chain of `||` in the capture. **`ChainCycle`** is the loop of
`hti_chain_has_cycle` over an arbitrary graph of next pointers. **`SnapshotArena`** extends
both to the whole capture: the first pass checks each chain and counts it, the layout is
computed and the arena allocated, the second pass writes the records; `BucketView`,
`EntryView` and `Listed` are how the accessors and the encoder read them back. The
validator at its end is `HashSnapshot`'s.

**`HashInspector`** extends `HashTable` and `HashSnapshot`. A session call makes the
table's own step and, in the same step, `Sinks` reacts to the event it emits: append a
frame of the table as the step leaves it, or fail and set the sticky capture status, or
ignore the event since a capture has failed. `stage` is where the session call is
(`creating`, `call`, `return`, `idle`). The active table is in the variables of
`HashTable`; the clean backup is a record of them (`Saved`), which is also what the clone
copies. The timeline is the abstract log that `InspectionTimeline` implements.
**`SessionContract`** is what is left of a session when the table is taken out of it: a
log, the number of frames that the last call recorded, the quarantine flag, and that a
call returns. `HashInspector` implements it (`KeepsContract`).

**`JsonEncoder`** appends a document piece by piece to a buffer that grows by doubling
until half of `SIZE_MAX` (`Grow`, one turn of the loop per step, then `Reallocate`). A
piece is a kind with a length; `FramePieces` and the operators under it are the order in
which `hash_json.c` writes them, `FrameAt` the look-up of a result's frame. The bridge's
copy ends it (`CopyJson`, `CannotCopy`). `Parsed` follows the structure as
`NativeModels.kt` does.

**`DemoKey`** is the way of a key: US-ASCII with a question mark for what it cannot
express, a buffer of `HTI_DEMO_KEY_MAX_BYTES` that a longer key leaves empty while its
length is passed on, the session's check, and a document in which it stands unescaped.

**`NativeSession`** has any number of threads that call and close any number of
`NativeHashSession` objects. A native session is an address in `memory`, and an address
given back may be handed out again. A call is `Acquire`, the reading of the handle,
`Enter` and `Finish` of the native operation (it reads the session, has it point to the
thread's result, and writes it later), `Encode`, `Leave`; a close clears the handle before
it gives the session back. **`SerialSession`** is the object it implements: calls take
effect at one moment, on an open object, or are refused.

**`InspectorViewModel`** is the view model on the UI thread, over `SessionContract`.
`Faults` says what may fail: a capture, the encoding, the creation of a session, an
allocation of the Java heap (an `OutOfMemoryError`, which nothing catches). `Consume`
takes the frames of a result, `ConsumeFails` is a result that was lost; `Reset` is three
steps (close, create, read the timeline), each of which may fail; the demo makes its
calls one after the other whatever became of them. `lost` is no state of the code, it
remembers which frames no document brought.

Left out: argument checks that return before any change; an entry whose size overflows
`size_t`; the value a result carries; the corruption of a size that is `SIZE_MAX`; in
`HashInspector`, a capture that finds a corrupt structure (its table never is one) or
whose arena overflows (that is `SnapshotArena`); a Kotlin session that could not be
created (the factory throws and nothing is left); the text of the error below the input
field.

## The runs

| Run | Question | Instance |
|---|---|---|
| `table` | do the table's invariants survive rehashes, removals, reserves and every failure? | real `HT_MIN_CAPACITY` 4, four keys, two with equal hashes, a third that collides until the growth, capacities 4 and 8, ids up to 5, revision wrapping at 7 |
| `table_map` | is the table a map, and does every call return? | minimum capacity 2, three keys, two values, growth to 4, larger arrays overflow |
| `timeline` | are order, ownership and answers right at every head? | 3 slots, 4 snapshots, 7 frame ids (the head passes slot 0 again), then overflow |
| `validator` | is the verdict exact? | every content of two buckets with up to three entries, ids 0..3, wrong hashes and counters |
| `capture` | does a capture end, fit its arena, and read back as the table? | every way to link three entries into four buckets, a memory that three entries fill exactly |
| `session` | do frames, results and backup tell the truth, and is the contract kept? | two colliding keys, a table that grows from 1 to 2 buckets on the second insertion, 4 retained frames, 6 frame ids, 4 operations |
| `session_revision` | does the corruption change the size only? | the same; it does not |
| `json` | does a document arrive whole or not at all, without a write past the buffer? | timelines of up to three frames, results that are whole, empty or evicted in part, `SIZE_MAX` 63 and arrays of 45 |
| `demo_key` | is a key shown as it was typed? | keys of up to 2 bytes, strings of up to 3 characters of five kinds |
| `native_session` | is no session used after its close, and is there a serial order? | two threads, two objects, two addresses, 3 operations |
| `viewmodel` | what does the view model show when anything may fail? | logs of 3 frames, 6 frame ids per session, two sessions, every fault |
| `viewmodel_rows` | are the keys of the rows unique? | the same; they are not |

Why these bounds are enough. A table of four keys reaches every branch of the search,
grows at the real boundary (the fourth insertion at capacity 4), relinks chains of length
one to three into one chain and into two, and is asked for capacities that round to
none, to the same, to the next, and to one that does not fit. A ring of three slots has
every relation of head, count and wrap-around. Three entries make chains that end, meet,
loop to their head and loop after a tail, and a sum and a product of the layout each
overflow on some of them. In the session a growing insertion makes three frames, so four
retained frames hold one with a neighbour on either side and evict in the middle of the
next; every capture may fail for memory, and both the frame ids and the operation ids run
out. A document of three frames passes the limit of an array, that of the buffer, and
the half of `SIZE_MAX` where the doubling stops. Two threads and two objects are one
thread to wait while another closes, and one object to get the address of the other. Six
frames evict twice in a log of three; two sessions are what a reset needs.

What each property says stands above its definition. Those that are less obvious:
`TraceDescribesTable` holds at the moment a sink is called; `EntriesKeepIdentity` is an
action property over all calls; `RehashIsSeenWhole` says that a failed capture never
leaves a frame of the end of a rehash without that of its beginning;
`ResultNamesItsFrames` is what the encoder relies on when it looks frames up by id;
`SessionIsOneMap` has the map of a quarantined session be that of its backup;
`ArenaFitsTheTable` has an overflow reported exactly when unbounded numbers would say so;
`ImplementsSerial` lets a call that waits while another closes be refused and nothing
else; `ShowsWhatItReceived` relates the two caps of 64, the native and the Kotlin one;
`FlagTellsTheFrames` relates the flag to the frames that are shown.

Deadlock is checked everywhere but in `validator`, `capture` and `json`, which judge,
capture or encode once and stop.

## What the code does otherwise than it says

`session_revision` is expected to fail. `docs/architecture-plan.md:226` has the corruption
"increment only its reported size"; `ht_internal_corrupt_size_plus_one` raises the revision
of the clone too, and the restoration brings the old revision back, so the next change
gives out a revision that a retained frame already bears. Nothing compares revisions today.

`viewmodel_rows` is expected to fail. `reset` closes the old session, creates a new one
and reads its timeline; when the reading fails, the new session stays and so do the frames
of the old one. The next operation appends a frame whose id, counted from 1 again, is
already among them, and `MainActivity.kt:211` gives the ids to a `LazyColumn` as keys,
which throws when two are equal.

Two more consequences of documents that are lost are in the model and break no property
that is stated. When the capture or the encoding of the corruption's frame fails, the
session is in quarantine and the flag of the view model is not set, for no frame tells of
it: Restore stays disabled and every operation is refused, until a reset. And the demo
ends with "size corruption is active" whatever became of its calls.

## Fairness

`FairSpec` and `SessionSpec` assume weak fairness of the steps that continue a call that
has begun, and of nothing else: the native code has no locks and waits for nothing, so a
call that runs is a thread that is scheduled. No call is assumed to be made, and no
allocation is assumed to succeed. Under it every call returns (`CallReturns`, and `Returns`
in `KeepsContract`). The capture and the encoder assume the same of their loops
(`CaptureEnds`, `EncodingEnds`).

In `NativeSession` each thread that holds a lock runs on, and a lock that is free is taken
by one of the threads that wait for it. There is no fairness among those: a Java monitor
promises none, so no property says that a given thread gets its turn. What holds is that
whoever holds a lock gives it back (`LockIsReleased`).

## The proofs

Every safety property of a passing run is a theorem for every value of the constants. A constant is bound only by the
named assumptions in the module that declares it, which TLC evaluates on a run. They say
what the types of the C and Kotlin code give (sizes, limits and ids are numbers, the chains
of a frame are a sequence, `NULL` is no object), that `HT_MIN_CAPACITY` and the capacity of
a captured table are powers of two (`MaskAssumption`, `ArenaAssumption`), that alignments
divide `SIZE_MAX + 1` (`LayoutAssumption`), and that a log holds at least the three frames
that one call can record (`ViewModelAssumption`, and the hypothesis of `ResultsAreRetained`;
the code has 64).

| Module | Theorems |
|---|---|
| `HashTable_proofs` | `TypeCorrect`, `ChainsWellFormed`, `SizeIsCount`, `BlocksBalance`, `LoadFactor`, `RehashKeeps`, `FailuresKeep`; `IdentityKept`, `TableIsMap`, `ArraysFit`, `TraceIsTrue`; `CallsAreShort` |
| `InspectionTimeline_proofs` | `TypeCorrect`, `RingKeepsOrder`, `SnapshotsOwned`, `RingIsLog` |
| `HashInspector_proofs` | `ValidatorExact`, `ValidatorIsRight`; `SessionHasItsTable`, `CleanTableKept`, `FramesJudged`, `ResultsNameFrames`, `NewestIsCurrent`, `RehashSeenWhole`, `SessionImplementsMap`, `SessionKeepsContract`, `ResultsAreRetained`, `FramesNeverChange`; `SessionCallsAreShort` |
| `SnapshotArena_proofs` | `LayoutIsSound`, `LayoutIsExact`, `CycleCheckIsRight`, `ArenaFits`, `SnapshotIsTheTable`; `CapturesAreShort` |
| `JsonEncoder_proofs` | `NoWritePastBuffer`, `NoBufferIsLeaked`, `DocumentArrivesWhole`; `EncodingsAreShort` |
| `DemoKey_proofs` | `KeysAreShown` |
| `NativeSession_proofs` | `TypeCorrect`, `NoUseAfterClose`, `CallsAreSerialized`, `NoSessionIsLeaked`, `Linearizable`; `BlocksAreShort` |
| `InspectorViewModel_proofs` | `OwnershipHolds`, `SelectionHolds`, `ReceivedIsShown`, `FlagIsTold`; `RowKeysNeedALoss` |

**The table.** The invariants are not inductive one by one: counting needs that no entry is
linked twice (or an insertion would not raise the cardinality by one), that needs ids below
`next_entry_id` and the key of the pending entry to be absent from both arrays, and the load
bound needs the capacity of a growth to be twice the old one. `IInv` is their conjunction
with what connects them, and each action has a lemma. For the map, each step is first shown
to keep, add, change or remove one entry of `Contents`, the set of all entries in both
arrays (the `...Effect` lemmas); `MapOf` is the map that such a set is, and each effect on
the set is one on the map, which is the step that `ByteMap` takes (`TableIsMap`). The same
effects keep the id of every entry (`IdentityKept`). An event agrees with the table because
of where it is emitted: the one at the end of a rehash needs that the arrays have a power of
two of buckets and a size that fits (`ArraysFit`).

**The timeline.** `SlotFacts` has the arithmetic: from any head the positions are the slots,
each once (`WrapAround`: a sum of two positions goes around once at most). Order is what
tells eviction that the slot at the head is occupied, and a free slot what tells an append
that it destroys no snapshot, so order and ownership are proved together. The log that the
ring is (`LogOf`) is unrolled from the head; an append that evicts moves the head, so it
drops the first of the log and adds one at its end, and look-ups agree because ids grow
along it (`RingIsLog`).

**The validator.** `ValidatorExact` is about any snapshot with finite chains: the codes that
the loops record are absent exactly when the definition of a sound table holds. The number
of records is the number of linked entries only if no two records are one entry, so the
counters are compared after the records. `ValidatorIsRight` is the property of the run, for
any set of snapshots (`SubjectsAssumption`: counters that are numbers, chains that end).

**The session.** `SessionHasItsTable` has the tables: outside of quarantine the active one
satisfies `HashTable`'s own invariant, in quarantine a clone stands in that only its size
and revision tell from the backup. Each step of the session is then reduced to what it does
to the timeline and the result: nothing, a new call, a new call with a frame, one more frame
(`Recorded`). On that rest, in layers, when a result is filled in (`RInv`), that each
retained frame was judged rightly (`LInv`, with `ValidatorExact`), that the frames of the
result in hand are the last ones, numbered without a gap (`NInv`), that the newest one is
current (`CInv`), and that a growth is recorded from its beginning on (`WInv`: in the middle
of a rehash the last frame still shows the contents as they are). `SessionImplementsMap`
takes the map of a session to be that of its backup in quarantine. `SessionKeepsContract`
needs one more count, how many frames a call can still add where it is (`KInv`); it says
that the session's steps are those of `SessionContract`, and that it returns (`Returns`) is
left to TLC. From the contract follows `ResultsAreRetained`: three frames are the most that
a call records, so a log of three or more still has every frame of the last result when the
encoder looks them up. A log of two does not: an insertion that grows the table evicts its
own first frame. From the numbering of the frames follows that an id names one frame as long
as the session lives (`FramesNeverChange`): neither a quarantine nor a restoration nor an
eviction alters a retained frame, and an evicted one never returns.

**The capture.** A layout whose checks succeed has its regions in order, aligned and within
the arena, and the checks succeed exactly when the size without wrapping fits into a
`size_t`; the one fact about division is that `left <= SizeMax \div right` is `left * right
<= SizeMax`. For the cycle check, the fast pointer is on a walk from the head and the slow
one half as far along it (`CycleInv`): if they meet, the walk has come back to an entry, and
if the walk ends there is no cycle. For the arena, the first pass leaves the places it went
through and the second follows them (`WayInv`), so that it writes no more than was counted;
nothing is counted twice, and what is ahead of the first pass is finite and gets less
(`CountInv`). What the records tell (`RecordsInv`) makes the table that is read back the one
that was captured. `ArenaInv` is the conjunction.

**The encoder.** `BufferInv` adds what a growing buffer is on its way to: the capacity
wanted lies between one and `SIZE_MAX`, and the addition for the next piece was checked, so
nothing wraps. `DocumentInv` says that what is written, followed by what is next, leads the
reader to the frames begun so far, each the one that was asked for. What the reader makes of
an entry, a bucket, a snapshot and a frame is a lemma each, on top of the one before; the
rest is that a document in two parts is read in two readings.

**The keys.** The invariant follows the bytes of one call. A key that passes the check has
no question mark, so none of its characters was replaced, and no quote, so a document does
not cut it.

**The Kotlin session.** The lock alone is not enough for `NoUseAfterClose`: a thread inside
holds the handle of its object (`HoldsTheHandle`), or has cleared it and is the only one
that can still give the session back (`SessionsAreOwned`), and the writer a session points
to is inside (`WriterIsInside`). `IInv` joins them; the refinement also needs that a thread
in a call has the operation it was asked for (`KnowsItsCall`).

**The view model.** `IInv` adds what each call rests on: the log has the frames that a call
has recorded, since a log of `MaxRecorded` frames or more only drops older ones. `ShownInv`
tells the frames that no document can have brought yet from the known ones, which are shown
unless they are in `lost`; what is shown is in the order of the sessions and ids, without
repetition, so that the cap of Kotlin drops what the native log has dropped. `FlagInv` has
the flag tell the newest change among the frames shown, and needs that only a session's
first frame tells of its creation. `RowKeysNeedALoss` is about the property that
`viewmodel_rows` finds violated: if no encoding fails (`"encode" \notin Faults`), what is
shown is of one session (`OneSession`) and its ids differ, so the keys are unique whatever
else fails.

**How long a call can run.** The safe half of what must eventually happen is proved with a
measure of what is left, which each step lowers. A table's call has at most the entries that
are still to be relinked and three steps before it (`CallsAreShort`), and a session's call
one more (`SessionCallsAreShort`): a trace is answered within the step that emits it. In a
capture (`CapturesAreShort`) the question is the cycle check, for the chain may loop. As long
as slow and fast have not met, the slow pointer has been at different entries (`TurnsInv`):
if it had come back to one, some turn before would have been a multiple of the round, where
the two meet. So a check has no more turns than the chain has entries, which the pigeonhole
principle gives, and a capture three steps for each entry, four for each bucket, and one. The
encoder's measure has three parts (`EncodingsAreShort`): the frames left, the pieces left of
the frame at hand, the bytes that a capacity lacks; a doubling raises the capacity by one at
least, and `SIZE_MAX` stops it. A thread in a Kotlin block has five steps to its end, and no
step of another thread changes where it is or takes the lock from it (`BlocksAreShort`).

**Recursion.** The induction theorems of the library take an
operator that the provers cannot instantiate. Where a fact is about sequences or sets of any
size (the sums of the first pass, the reading of a document, parts that are put together),
it is proved of a set of numbers, by its smallest counterexample (`AllNumbers`, from the
well-foundedness of `<`), and the folds of the community modules are unfolded by what their
definitions choose.

Only model-checked: the properties that something eventually happens (`CallReturns`,
`Returns` in `KeepsContract`, `CaptureEnds`, `EncodingEnds`, `LockIsReleased`). The measures
above bound every call; that a step of it is possible until it has returned, and is taken
under the fairness assumed, rests on `ENABLED`, which is outside the proof system. The two
properties that are expected to fail have no proof: `OnlySizeIsCorrupted` is false in every
quarantine of the code, and so is `RowKeysAreUnique` of some rows without the hypothesis of
`RowKeysNeedALoss`.

## Plan

Done, in this order: the table, its map and its proofs; the timeline, its log and its
proofs; snapshots and validator; the session that composes them; the contract and the view
model; the Kotlin session and its proofs; the arena, the encoder, keys; the proofs of all of
these; and the measures that bound every call.

Next: that the log of a session is one of `InspectionTimeline`, and a Kotlin session's native
one a session of `HashInspector`, as compositions and not one by one.

## Not modelled

Rendering, layout and wording (`MainActivity.kt` beyond what enables a button and keys a
row, the descriptions of events); the conversion of numbers in documents; the hash function
itself, of which any is admitted; the host tests and build files, which hold no state of
the program.
