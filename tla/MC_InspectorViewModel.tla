------------------------ MODULE MC_InspectorViewModel ------------------------
(* The view model with a log of three frames, what one call may record.         *)
EXTENDS InspectorViewModel

\* The demo's kinds of calls in their order; it makes nine on the table in the code.
MCDemo == <<"table", "corrupt", "validate">>
=============================================================================
