-------------------------- MODULE MCGrilioChannel --------------------------
(* Instances of the request engine for TLC: the requests the application   *)
(* may make in each of them.                                               *)
EXTENDS GrilioChannelProperties, TLC

P(blocking, timeout, retries) ==
    [blocking |-> blocking, internal |-> FALSE, response |-> TRUE,
     timeout |-> timeout, max_retries |-> retries]

Plain         == P(FALSE, "none", 0)
Blocking      == P(TRUE, "none", 0)
Retried       == P(FALSE, "none", 1)
TimedPlain    == P(FALSE, "own", 0)
TimedBlocking == P(TRUE, "own", 0)
TimedRetried  == P(FALSE, "own", 1)
\* Fire and forget: no response callback, and the default timeout.
Forgotten(blocking) == [P(blocking, "default", 0) EXCEPT !.response = FALSE]

OnlyPlain        == {Plain}
PlainOrBlocking  == {Plain, Blocking}
RetriedOrPlain   == {Retried, Plain}
OnlyTimed        == {TimedPlain}
TimedOrBlocking  == {TimedPlain, TimedBlocking}
OnlyTimedRetried == {TimedRetried}
TimedRetriedOrBlocking == {TimedRetried, Blocking}
WithForgotten    == {TimedRetried, Forgotten(FALSE), Forgotten(TRUE)}

Symmetry == Permutations(Req)
=============================================================================
