----------------------------- MODULE HashTable -----------------------------
(***************************************************************************)
(* The separate-chaining hash table of native/hash_table/src/hash_table.c. *)
(*                                                                         *)
(* One caller at a time uses a table, so a call is one step, except where  *)
(* an allocation or a trace callback splits it: creation (the table's      *)
(* block, then the bucket array) and the calls that rehash.  A rehash moves*)
(* one entry per step, because the loop that relinks the chains is where   *)
(* an entry could be lost, duplicated or put in the wrong bucket, and      *)
(* because the trace callback reads the table before and after it.         *)
(*                                                                         *)
(* Argument checks that return HT_INVALID_ARGUMENT before touching any     *)
(* state are left out.                                                     *)
(***************************************************************************)
EXTENDS TableShape, FiniteSets

CONSTANTS
    Requests,         \* the capacities a caller asks for
    MinCapacity,      \* HT_MIN_CAPACITY
    DefaultCapacity,  \* HT_DEFAULT_CAPACITY
    PointerSize,      \* sizeof(ht_entry_t *)
    SizeMax,          \* SIZE_MAX, scaled down
    U64Max,           \* UINT64_MAX, scaled down
    NULL              \* the null pointer, and "no value"

ASSUME LimitAssumption ==
    /\ MinCapacity \in Nat \ {0}
    /\ DefaultCapacity \in Nat
    /\ PointerSize \in Nat \ {0}
    /\ SizeMax \in Nat
    /\ U64Max \in Nat \ {0}
    /\ Requests \subseteq Nat

ASSUME MaskAssumption == IsPowerOfTwo(MinCapacity)

VARIABLES
    buckets,          \* table->buckets: the chain of each bucket
    size,             \* table->size
    capacity,         \* table->capacity
    resize_threshold, \* table->resize_threshold
    revision,         \* table->revision, a wrapping uint64
    next_entry_id,    \* table->next_entry_id
    pc,               \* where the call in progress is, "ready" between calls
    entry,            \* ht_put's allocated and not yet linked entry, or NULL
    new_buckets,      \* ht_rehash's array under construction
    new_capacity,     \* ht_create's or ht_rehash's capacity
    moved_count,      \* ht_rehash's count of relinked entries
    live_blocks,      \* blocks allocated and not yet deallocated
    trace,            \* the event given to the trace sink in this step
    ret               \* what the last finished call returned

table  == <<buckets, size, capacity, resize_threshold, revision, next_entry_id>>
rehash == <<new_buckets, new_capacity, moved_count>>
vars   == <<table, rehash, pc, entry, live_blocks, trace, ret>>

ASSUME NullAssumption == NULL \notin Entry /\ NULL \notin Keys /\ NULL \notin Values

-----------------------------------------------------------------------------
(* Sizes and indices. *)

Capacities == {c \in MinCapacity..SizeMax : IsPowerOfTwo(c)}

\* ht_normalize_capacity: the first doubling of MinCapacity that is enough.
Normalizes(requested, c) ==
    /\ c \in Capacities
    /\ requested <= c
    /\ \A d \in Capacities : requested <= d => c <= d

CannotNormalize(requested) == \A c \in Capacities : c < requested

EmptyBuckets(c) == [b \in 0..(c - 1) |-> <<>>]

\* Mutant: the byte count is not checked before the allocation.
UncheckedAllocation(c) == {"OK", "NO_MEMORY"}

\* What ht_allocate_buckets may return for a capacity.
BucketAllocation(c) ==
    IF c * PointerSize > SizeMax THEN {"OVERFLOW"} ELSE {"OK", "NO_MEMORY"}

\* Every entry the table owns, in mid-rehash too.
Contents == Linked(buckets) \cup Linked(new_buckets)

Bump == revision' = (revision + 1) % (U64Max + 1)

-----------------------------------------------------------------------------
(* Searching a chain: the same loop in ht_put, ht_get and ht_remove. *)

Chain(k) == buckets[BucketIndex(Hash[k], capacity)]

\* Mutant: the bytes of the key are not compared.
MatchesHash(e, k) == e.hash = Hash[k]

Matches(e, k) == e.hash = Hash[k] /\ e.key = k

\* The loop stops at position i of the chain, its probe count.
FoundAt(k, i) ==
    /\ i \in DOMAIN Chain(k)
    /\ Matches(Chain(k)[i], k)
    /\ \A j \in 1..(i - 1) : ~ Matches(Chain(k)[j], k)

Missing(k) == \A i \in DOMAIN Chain(k) : ~ Matches(Chain(k)[i], k)

-----------------------------------------------------------------------------
(* Trace events and return values. *)

NoTrace == [kind |-> "NONE"]

\* The sink is also given the size and the capacity before the event; those after
\* it are the table's, but for the refused capacity of REHASH_FAILED.
Emit(kind, status, id, probes, moved) ==
    trace' = [kind |-> kind, status |-> status, entry_id |-> id, probe_count |-> probes,
              moved_count |-> moved, size_before |-> size, capacity_before |-> capacity]

Silent == trace' = NoTrace

Return(op, k, status, out) ==
    ret' = [op |-> op, key |-> k, status |-> status, out |-> out]

\* A call on an idle table that leaves it idle; one that also changes nothing.
Idle == pc = "ready" /\ UNCHANGED <<rehash, pc, entry, capacity, resize_threshold>>

ReadOnly == Idle /\ UNCHANGED <<buckets, size, revision, next_entry_id, live_blocks>>

Init ==
    /\ buckets = EmptyBuckets(0) /\ size = 0 /\ capacity = 0 /\ resize_threshold = 0
    /\ revision = 0 /\ next_entry_id = 0
    /\ new_buckets = EmptyBuckets(0) /\ new_capacity = 0 /\ moved_count = 0
    /\ pc = "absent" /\ entry = NULL /\ live_blocks = 0 /\ trace = NoTrace
    /\ ret = [op |-> "none", key |-> NULL, status |-> "OK", out |-> NULL]

-----------------------------------------------------------------------------
(* ht_create and ht_destroy. *)

Requested(r) == IF r = 0 THEN DefaultCapacity ELSE r

CreateRefused(r) ==
    /\ pc = "absent"
    /\ Return("create", NULL,
              IF CannotNormalize(Requested(r)) THEN "OVERFLOW" ELSE "NO_MEMORY", NULL)
    /\ Silent
    /\ UNCHANGED <<table, rehash, pc, entry, live_blocks>>

\* The table's own block is allocated; its bucket array is next.
CreateTable(r) ==
    /\ pc = "absent"
    /\ \E c \in Capacities : Normalizes(Requested(r), c) /\ new_capacity' = c
    /\ live_blocks' = live_blocks + 1
    /\ pc' = "create"
    /\ Silent
    /\ UNCHANGED <<table, new_buckets, moved_count, entry, ret>>

CreateFails ==
    /\ pc = "create"
    /\ \E status \in BucketAllocation(new_capacity) \ {"OK"} :
          Return("create", NULL, status, NULL)
    /\ live_blocks' = live_blocks - 1
    /\ new_capacity' = 0
    /\ pc' = "absent"
    /\ Silent
    /\ UNCHANGED <<table, new_buckets, moved_count, entry>>

CreateBuckets ==
    /\ pc = "create"
    /\ "OK" \in BucketAllocation(new_capacity)
    /\ buckets' = EmptyBuckets(new_capacity)
    /\ capacity' = new_capacity /\ resize_threshold' = ThresholdFor(new_capacity)
    /\ size' = 0 /\ revision' = 0 /\ next_entry_id' = 1
    /\ live_blocks' = live_blocks + 1
    /\ new_capacity' = 0
    /\ pc' = "ready"
    /\ Silent
    /\ Return("create", NULL, "OK", NULL)
    /\ UNCHANGED <<new_buckets, moved_count, entry>>

\* Frees what the chains hold, whatever size says, then the array and the table.
Destroy ==
    /\ pc = "ready"
    /\ live_blocks' = live_blocks - (Cardinality(Linked(buckets)) + 2)
    /\ buckets' = EmptyBuckets(0) /\ size' = 0 /\ capacity' = 0 /\ resize_threshold' = 0
    /\ revision' = 0 /\ next_entry_id' = 0
    /\ pc' = "absent"
    /\ Silent
    /\ Return("destroy", NULL, "OK", NULL)
    /\ UNCHANGED <<rehash, entry>>

-----------------------------------------------------------------------------
(* ht_put. *)

PutUpdates(k, v) ==
    /\ Idle
    /\ LET b == BucketIndex(Hash[k], capacity)
       IN \E i \in DOMAIN buckets[b] :
            /\ FoundAt(k, i)
            /\ buckets' = [buckets EXCEPT ![b][i].value = v]
            /\ Emit("PUT_UPDATED", "OK", buckets[b][i].entry_id, i, 0)
    /\ Bump
    /\ Return("put", k, "OK", "UPDATED")
    /\ UNCHANGED <<size, next_entry_id, live_blocks>>

CanInsert == size # SizeMax /\ next_entry_id # U64Max

\* The counters are at their limit, or there is no memory for the entry.
PutRefused(k) ==
    /\ ReadOnly
    /\ Missing(k)
    /\ Return("put", k, IF CanInsert THEN "NO_MEMORY" ELSE "OVERFLOW", NULL)
    /\ Silent

\* Mutant: the id is taken from the size, which a removal lowers.
EntryNumberedBySize(k, v) ==
    [entry_id |-> size + 1, hash |-> Hash[k], key |-> k, value |-> v]

NewEntry(k, v) ==
    [entry_id |-> next_entry_id, hash |-> Hash[k], key |-> k, value |-> v]

\* Mutant: off by one, the table grows one insertion late.
MustGrowLate == size > resize_threshold

MustGrow == size + 1 > resize_threshold

PutAllocates(k, v) ==
    /\ pc = "ready"
    /\ Missing(k)
    /\ CanInsert
    /\ entry' = NewEntry(k, v)
    /\ live_blocks' = live_blocks + 1
    /\ pc' = IF MustGrow THEN "grow" ELSE "link"
    /\ Silent
    /\ UNCHANGED <<table, rehash, ret>>

\* The doubling may overflow before ht_rehash is called.
DoublingOverflows == capacity > SizeMax \div 2

Growth == IF DoublingOverflows THEN {"OVERFLOW"} ELSE BucketAllocation(2 * capacity)

GrowthRefused ==
    /\ pc = "grow"
    /\ \E status \in Growth \ {"OK"} :
          /\ IF DoublingOverflows THEN Silent ELSE Emit("REHASH_FAILED", status, 0, 0, 0)
          /\ Return("put", entry.key, status, NULL)
    /\ pc' = "ready"
    /\ UNCHANGED rehash

\* Mutants: the entry is not freed; its pointer is kept; the threshold was already set.
GrowFailsLeaking == GrowthRefused /\ entry' = NULL /\ UNCHANGED <<table, live_blocks>>
GrowFailsDangling ==
    GrowthRefused /\ live_blocks' = live_blocks - 1 /\ UNCHANGED <<table, entry>>
GrowFailsHalfway ==
    /\ GrowthRefused /\ entry' = NULL /\ live_blocks' = live_blocks - 1
    /\ resize_threshold' = ThresholdFor(2 * capacity)
    /\ UNCHANGED <<buckets, size, capacity, revision, next_entry_id>>

\* The new entry is freed again, whichever step of the growth failed.
GrowFails == GrowthRefused /\ entry' = NULL /\ live_blocks' = live_blocks - 1 /\ UNCHANGED table

\* ht_rehash has its new array: what it does up to its loop.
BeginRehash(c) ==
    /\ new_buckets' = EmptyBuckets(c) /\ new_capacity' = c /\ moved_count' = 0
    /\ live_blocks' = live_blocks + 1
    /\ pc' = "relink"
    /\ Emit("REHASH_BEGIN", "OK", 0, 0, 0)
    /\ UNCHANGED <<table, entry, ret>>

Grow == pc = "grow" /\ "OK" \in Growth /\ BeginRehash(2 * capacity)

\* The entry goes to the head of its chain.
LinkEntry ==
    /\ pc = "link"
    /\ LET b == BucketIndex(entry.hash, capacity)
       IN /\ buckets' = [buckets EXCEPT ![b] = Cons(entry, @)]
          /\ Emit("PUT_INSERTED", "OK", entry.entry_id, Len(buckets[b]), 0)
    /\ size' = size + 1
    /\ next_entry_id' = next_entry_id + 1
    /\ Bump
    /\ Return("put", entry.key, "OK", "INSERTED")
    /\ entry' = NULL
    /\ pc' = "ready"
    /\ UNCHANGED <<capacity, resize_threshold, rehash, live_blocks>>

-----------------------------------------------------------------------------
(* ht_rehash, from ht_put or from ht_reserve. *)

\* The first chain that the loop has not emptied.
IsNextChain(b) ==
    /\ buckets[b] # <<>>
    /\ \A a \in DOMAIN buckets : a < b => buckets[a] = <<>>

\* Mutant: the entry is indexed by the old capacity.
OldIndex(e) == BucketIndex(e.hash, capacity)

NewIndex(e) == BucketIndex(e.hash, new_capacity)

\* Mutant: the entry is linked back into the array that is being emptied.
RelinkIntoOldArray ==
    /\ pc = "relink"
    /\ \E b \in DOMAIN buckets :
          IsNextChain(b) /\ buckets' = [buckets EXCEPT ![b] = Append(Tail(@), Head(@))]
    /\ Silent
    /\ UNCHANGED <<size, capacity, resize_threshold, revision, next_entry_id,
                   rehash, pc, entry, live_blocks, ret>>

\* The head of the next chain moves to the head of its chain in the new array.
Relink ==
    /\ pc = "relink"
    /\ \E b \in DOMAIN buckets :
          /\ IsNextChain(b)
          /\ LET e == Head(buckets[b])
             IN /\ buckets' = [buckets EXCEPT ![b] = Tail(@)]
                /\ new_buckets' = [new_buckets EXCEPT ![NewIndex(e)] = Cons(e, @)]
    /\ moved_count' = moved_count + 1
    /\ Silent
    /\ UNCHANGED <<size, capacity, resize_threshold, revision, next_entry_id,
                   new_capacity, pc, entry, live_blocks, ret>>

\* Mutant: the loop stops before the last bucket.
LoopStopsEarly == \A b \in DOMAIN buckets : b + 1 < capacity => buckets[b] = <<>>

LoopDone == \A b \in DOMAIN buckets : buckets[b] = <<>>

\* The new array takes over and the old one is freed; ht_reserve returns.
EndRehash ==
    /\ pc = "relink"
    /\ LoopDone
    /\ buckets' = new_buckets
    /\ capacity' = new_capacity /\ resize_threshold' = ThresholdFor(new_capacity)
    /\ Bump
    /\ live_blocks' = live_blocks - 1
    /\ Emit("REHASH_END", "OK", 0, 0, moved_count)
    /\ new_buckets' = EmptyBuckets(0) /\ new_capacity' = 0 /\ moved_count' = 0
    /\ IF entry = NULL
       THEN pc' = "ready" /\ Return("reserve", NULL, "OK", NULL)
       ELSE pc' = "link" /\ UNCHANGED ret
    /\ UNCHANGED <<size, next_entry_id, entry>>

-----------------------------------------------------------------------------
(* ht_get, ht_remove and ht_reserve. *)

GetHits(k) ==
    /\ ReadOnly
    /\ \E i \in DOMAIN Chain(k) :
          /\ FoundAt(k, i)
          /\ Emit("LOOKUP_HIT", "OK", Chain(k)[i].entry_id, i, 0)
          /\ Return("get", k, "OK", Chain(k)[i].value)

\* ht_get and ht_remove miss alike.
Misses(op, kind, k) ==
    /\ ReadOnly
    /\ Missing(k)
    /\ Emit(kind, "NOT_FOUND", 0, Len(Chain(k)), 0)
    /\ Return(op, k, "NOT_FOUND", NULL)

RemoveHits(k) ==
    /\ Idle
    /\ LET b == BucketIndex(Hash[k], capacity)
       IN \E i \in DOMAIN buckets[b] :
            /\ FoundAt(k, i)
            /\ buckets' = [buckets EXCEPT ![b] = RemoveAt(@, i)]
            /\ Emit("DELETE_HIT", "OK", buckets[b][i].entry_id, i, 0)
            /\ Return("remove", k, "OK", buckets[b][i].value)
    /\ live_blocks' = live_blocks - 1
    /\ size' = size - 1
    /\ Bump
    /\ UNCHANGED next_entry_id

\* The return paths of ht_reserve that never reach ht_rehash: a capacity that is
\* no doubling within size_t, and one that the table already has.
ReserveReturns(r) ==
    /\ ReadOnly
    /\ CannotNormalize(r) \/ r <= capacity
    /\ Return("reserve", NULL, IF r <= capacity THEN "OK" ELSE "OVERFLOW", NULL)
    /\ Silent

Enlarges(r, c) == Normalizes(r, c) /\ c > capacity

ReserveFails(r) ==
    /\ ReadOnly
    /\ \E c \in Capacities :
          /\ Enlarges(r, c)
          /\ \E status \in BucketAllocation(c) \ {"OK"} :
                Emit("REHASH_FAILED", status, 0, 0, 0) /\ Return("reserve", NULL, status, NULL)

ReserveBegins(r) ==
    /\ pc = "ready"
    /\ \E c \in Capacities :
          Enlarges(r, c) /\ "OK" \in BucketAllocation(c) /\ BeginRehash(c)

-----------------------------------------------------------------------------

Lifecycle ==
    \/ \E r \in Requests : CreateRefused(r) \/ CreateTable(r)
    \/ CreateFails
    \/ CreateBuckets
    \/ Destroy

Calls ==
    \/ \E k \in Keys, v \in Values : PutUpdates(k, v) \/ PutAllocates(k, v)
    \/ \E k \in Keys :
          \/ PutRefused(k)
          \/ GetHits(k)
          \/ Misses("get", "LOOKUP_MISS", k)
          \/ RemoveHits(k)
          \/ Misses("remove", "DELETE_MISS", k)
    \/ \E r \in Requests : ReserveReturns(r) \/ ReserveFails(r) \/ ReserveBegins(r)

\* The rest of a call that has begun.
Continue ==
    GrowFails \/ Grow \/ Relink \/ EndRehash \/ LinkEntry

Next == Lifecycle \/ Calls \/ Continue

Spec == Init /\ [][Next]_vars

\* A call that has begun runs on: no step of it waits for anything.
FairSpec == Spec /\ WF_vars(Continue \/ CreateFails \/ CreateBuckets)

-----------------------------------------------------------------------------
(* What the table promises. *)

PCs == {"absent", "create", "ready", "grow", "relink", "link"}

Alive == pc \notin {"absent", "create"}

\* The variables have their types; only ht_put holds an unlinked entry, and only
\* ht_rehash a second array.
TypeOK ==
    /\ pc \in PCs
    /\ capacity \in Nat /\ (pc \in {"absent", "create"} <=> capacity = 0)
    /\ new_capacity \in Nat /\ (pc \in {"create", "relink"} <=> new_capacity > 0)
    /\ buckets \in [0..(capacity - 1) -> Seq(Entry)]
    /\ new_buckets \in [IF pc = "relink" THEN 0..(new_capacity - 1) ELSE {} -> Seq(Entry)]
    /\ size \in Nat /\ resize_threshold \in Nat /\ moved_count \in Nat
    /\ revision \in 0..U64Max /\ next_entry_id \in 0..U64Max
    /\ (Alive => next_entry_id > 0)
    /\ entry \in Entry \cup {NULL}
    /\ (pc \in {"grow", "link"} => entry # NULL)
    /\ (entry # NULL => pc \in {"grow", "relink", "link"})

\* Every linked entry sits in the chain its hash selects, in the old array for
\* the old capacity and in the new one for the new capacity, and no key and no
\* id is linked twice, at every step of a rehash too (ht_rehash's loop, ht_put's
\* insertion after the array was replaced).
WellFormed ==
    /\ Placed(buckets, capacity)
    /\ Placed(new_buckets, new_capacity)
    /\ Distinct(buckets)
    /\ Distinct(new_buckets)
    /\ \A e \in Linked(buckets), f \in Linked(new_buckets) :
          e.key # f.key /\ e.entry_id # f.entry_id
    /\ \A e \in Contents : e.hash = Hash[e.key] /\ e.entry_id \in 1..(next_entry_id - 1)
    /\ entry # NULL =>
          /\ entry.hash = Hash[entry.key]
          /\ entry.entry_id = next_entry_id
          /\ next_entry_id < U64Max
          /\ \A e \in Contents : e.key # entry.key

\* size counts the linked entries, although no call recounts them and a rehash
\* spreads them over two arrays; moved_count counts those already moved.
SizeCounts ==
    /\ size = Cardinality(Linked(buckets)) + Cardinality(Linked(new_buckets))
    /\ moved_count = Cardinality(Linked(new_buckets))

\* The load factor of 3/4 holds whenever a caller can look, so an insertion grows
\* the table in time; it may not have been skipped after a reserve or a failed
\* growth, which leaves a full table that must try to grow again.
LoadBounded ==
    /\ resize_threshold = ThresholdFor(capacity)
    /\ size <= resize_threshold
    /\ pc = "link" => size < resize_threshold
    /\ pc = "relink" => new_capacity > capacity /\ (entry # NULL => new_capacity = 2 * capacity)

\* Every block allocated is still reachable or was freed once: the table, its
\* array, the linked entries, and what a call in progress holds.  The error
\* paths of ht_create, ht_put and ht_rehash are where a leak would hide.
NoLeak ==
    live_blocks =
        (IF pc = "absent" THEN 0 ELSE IF pc = "create" THEN 1 ELSE 2)
        + Cardinality(Linked(buckets)) + Cardinality(Linked(new_buckets))
        + (IF pc = "relink" THEN 1 ELSE 0)
        + (IF entry # NULL THEN 1 ELSE 0)

\* What the sink is told agrees with the table it can read at that moment: the
\* entry named is where the probes say, a miss means that no chain at all has
\* the key, and a finished rehash has moved every entry to an array whose bytes a
\* size_t can count and whose indices a mask can select.
TraceDescribesTable ==
    CASE trace.kind \in {"PUT_UPDATED", "LOOKUP_HIT"} ->
            /\ Chain(ret.key)[trace.probe_count].entry_id = trace.entry_id
            /\ Chain(ret.key)[trace.probe_count].key = ret.key
            /\ size = trace.size_before
      [] trace.kind = "PUT_INSERTED" ->
            /\ Head(Chain(ret.key)).entry_id = trace.entry_id
            /\ trace.entry_id = next_entry_id - 1
            /\ Len(Chain(ret.key)) = trace.probe_count + 1
            /\ size = trace.size_before + 1
      [] trace.kind = "DELETE_HIT" ->
            /\ \A e \in Contents : e.key # ret.key /\ e.entry_id # trace.entry_id
            /\ size = trace.size_before - 1
      [] trace.kind \in {"LOOKUP_MISS", "DELETE_MISS"} ->
            /\ \A e \in Contents : e.key # ret.key
            /\ trace.probe_count = Len(Chain(ret.key))
      [] trace.kind = "REHASH_BEGIN" ->
            /\ size = trace.size_before /\ capacity = trace.capacity_before
            /\ Linked(new_buckets) = {}
      [] trace.kind = "REHASH_END" ->
            /\ trace.moved_count = size /\ size = trace.size_before
            /\ capacity > trace.capacity_before
            /\ IsPowerOfTwo(capacity) /\ capacity * PointerSize <= SizeMax
      [] trace.kind = "REHASH_FAILED" ->
            /\ trace.status = ret.status
            /\ size = trace.size_before /\ capacity = trace.capacity_before
            /\ entry = NULL
      [] OTHER -> trace = NoTrace

\* An entry keeps its id, key and hash until it is removed, however often it is
\* relinked or updated, and an id that was given up is never given to another
\* entry of the same table.
EntriesKeepIdentity ==
    [][ pc' \notin {"absent", "create"} =>
        \A f \in Contents' :
            \/ \E e \in Contents : e.entry_id = f.entry_id /\ e.key = f.key /\ e.hash = f.hash
            \/ next_entry_id <= f.entry_id /\ f.entry_id < next_entry_id' ]_vars

\* A rehash changes no entry: what the two arrays hold together is the same after
\* every step of it.
RehashKeepsContents ==
    [][ pc = "relink" => Contents' = Contents ]_vars

\* A call that reports HT_NO_MEMORY or HT_OVERFLOW has left the table as it was
\* when it was called (ht_put's cleanup after a failed ht_rehash).
FailureChangesNothing ==
    [][ ret' # ret /\ ret'.status \in {"NO_MEMORY", "OVERFLOW"} => UNCHANGED table ]_vars

\* Every call returns: a creation, an insertion and a rehash come to an end.
CallReturns == pc \notin {"absent", "ready"} ~> pc \in {"absent", "ready"}

\* The map a caller sees, in mid-rehash too.
Visible ==
    [k \in Keys |->
        IF \E e \in Contents : e.key = k
        THEN (CHOOSE e \in Contents : e.key = k).value
        ELSE NULL]

Map == INSTANCE ByteMap WITH live <- Alive, map <- Visible

\* The table implements the map of its header: every call takes effect at one
\* step, returns what a map would, and a refused one leaves the map alone.
ImplementsMap == Map!Spec

=============================================================================
