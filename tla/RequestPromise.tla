--------------------------- MODULE RequestPromise ---------------------------
(***************************************************************************)
(* What libgrilio promises to the one who submits a request, with nothing  *)
(* said about how: the request waits, and then it is answered or cancelled *)
(* once and for all.  Its response callback, if there is one and the       *)
(* cancellation is not a silent one, is called when that happens and at no *)
(* other time.                                                             *)
(***************************************************************************)
EXTENDS Naturals

CONSTANT Req    \* request objects

VARIABLES
    phase,      \* what the application sees as the status of each request
    calls       \* how many times the response callback of each was called

vars == <<phase, calls>>

Init == phase = [r \in Req |-> "new"] /\ calls = [r \in Req |-> 0]

Submit(r) ==
    /\ phase[r] = "new"
    /\ phase' = [phase EXCEPT ![r] = "waiting"]
    /\ UNCHANGED calls

Settle(r, final) ==
    /\ phase[r] = "waiting"
    /\ phase' = [phase EXCEPT ![r] = final]
    /\ \/ calls' = [calls EXCEPT ![r] = @ + 1]
       \/ UNCHANGED calls

Next == \E r \in Req : \/ Submit(r)
                       \/ Settle(r, "answered")
                       \/ Settle(r, "cancelled")

Spec == Init /\ [][Next]_vars
=============================================================================
