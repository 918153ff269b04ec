------------------------- MODULE SnapshotValidator -------------------------
(***************************************************************************)
(* hti_validate_snapshot of hash_snapshot.c, run once on a snapshot of a   *)
(* table that may be damaged in any way: its counters, and the id, hash,   *)
(* key and place of every entry.                                           *)
(***************************************************************************)
EXTENDS HashSnapshot

CONSTANTS
    Subjects,   \* the snapshots that may be judged
    NextId      \* table->next_entry_id

\* The counters of a snapshot are unsigned and its chains end (the capture has checked
\* them); nothing more is known of it.
ASSUME SubjectsAssumption ==
    /\ NextId \in Nat
    /\ \A s \in Subjects :
          /\ s.capacity \in Nat /\ s.chains \in [0..(s.capacity - 1) -> Seq(Entry)]
          /\ s.reported_size \in Nat /\ s.resize_threshold \in Nat

VARIABLES
    subject,   \* a snapshot before the validator has judged it
    verdict    \* the violations it found

ValidatorInit == subject \in Subjects /\ verdict = {"not judged"}

Validate ==
    /\ verdict = {"not judged"}
    /\ verdict' = Violations(subject, NextId)
    /\ UNCHANGED subject

ValidatorSpec == ValidatorInit /\ [][Validate]_<<subject, verdict>>

\* The validator finds no violation in exactly the tables that are sound: no damage
\* of a counter, an id, a hash or a link escapes it, and it accuses no good table.
ValidatorIsExact == verdict # {"not judged"} => (verdict = {} <=> Sound(subject, NextId))
=============================================================================
