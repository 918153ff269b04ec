----------------------------- MODULE MC_DemoKey -----------------------------
(* Keys of up to two bytes, and calls with three characters.                  *)
EXTENDS DemoKey
=============================================================================
