--------------------------- MODULE MCGrilioTimers ---------------------------
(* Instances of the timers for TLC.                                        *)
EXTENDS GrilioTimers, TLC

Symmetry == Permutations(Req)
=============================================================================
