----------------------- MODULE MC_InspectionTimeline -----------------------
(* A small ring.  One snapshot more than the ring has slots can be alive. *)
EXTENDS InspectionTimeline

CONSTANTS s1, s2, s3, s4
=============================================================================
