--------------------------- MODULE MCGrilioEvents ---------------------------
(* Instances of the channel's events for TLC.                              *)
EXTENDS GrilioEvents

AllSignals == Signals
=============================================================================
