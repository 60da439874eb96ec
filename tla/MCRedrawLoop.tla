---------------------------- MODULE MCRedrawLoop ----------------------------
(* RedrawLoop with an interval of a few ticks.                             *)
EXTENDS RedrawLoop
=============================================================================
