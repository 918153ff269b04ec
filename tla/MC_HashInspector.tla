-------------------------- MODULE MC_HashInspector --------------------------
(* A small session: two keys of the same chain, and a table of one bucket that  *)
(* the second of them makes grow.                                               *)
EXTENDS HashInspector

CONSTANTS k1, k2

MCHash == [k \in Keys |-> IF k = k1 THEN 1 ELSE 3]
=============================================================================
