--------------------------- MODULE MC_NativeSession ---------------------------
(* Threads on two objects; their sessions may come to lie at the same address   *)
(* one after the other.                                                         *)
EXTENDS NativeSession, TLC

CONSTANTS t1, t2, o1, o2
=============================================================================
