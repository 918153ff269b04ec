--------------------------- MODULE MC_SnapshotArena ---------------------------
(* Every way in which three entries can be linked into four buckets, in a memory *)
(* of 51 bytes, which three entries fill; chains that meet count more.           *)
EXTENDS SnapshotArena

CONSTANTS n1, n2, n3

MCKeySize == [n \in Nodes |-> IF n = n1 THEN 5 ELSE 1]
=============================================================================
