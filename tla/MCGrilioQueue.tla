--------------------------- MODULE MCGrilioQueue ---------------------------
(* Instances of the request engine with queues and transactions for TLC.   *)
EXTENDS MCGrilioChannel, GrilioQueue

PlainOrForgotten == {Plain, Forgotten(FALSE)}

QueueSymmetry == Permutations(Req) \cup Permutations(Queue)
=============================================================================
