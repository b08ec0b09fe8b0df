-------------------------- MODULE TransportPromise --------------------------
(***************************************************************************)
(* What a transport promises to the channel above it, with nothing said    *)
(* about sockets: the link comes up at most once and goes down for good,   *)
(* packets are written one at a time and in order, a packet is reported as *)
(* written at most once and only while the link is up, and nothing that    *)
(* the daemon sends is delivered after the link has gone down.             *)
(***************************************************************************)
EXTENDS Naturals

VARIABLES
    link,       \* "new", "up" or "down", as the channel was told
    writing,    \* the packet the channel waits for, 0 if it may send another
    accepted,   \* how many packets the channel has given to the transport
    written,    \* how many of them were reported as written
    got         \* how many packets of the daemon were delivered

vars == <<link, writing, accepted, written, got>>

Init ==
    /\ link = "new"
    /\ writing = 0 /\ accepted = 0 /\ written = 0 /\ got = 0

Connect ==
    /\ link = "new"
    /\ link' = "up"
    /\ UNCHANGED <<writing, accepted, written, got>>

Disconnect ==
    /\ link # "down"
    /\ link' = "down"
    /\ UNCHANGED <<writing, accepted, written, got>>

\* A packet is written at once, or it is written later, or never.
Send ==
    /\ link = "up" /\ writing = 0
    /\ accepted' = accepted + 1
    /\ \/ written' = accepted' /\ UNCHANGED writing
       \/ writing' = accepted' /\ UNCHANGED written
    /\ UNCHANGED <<link, got>>

Sent ==
    /\ link = "up" /\ writing # 0
    /\ written' = writing
    /\ writing' = 0
    /\ UNCHANGED <<link, accepted, got>>

Deliver ==
    /\ link # "down"
    /\ got' = got + 1
    /\ UNCHANGED <<link, writing, accepted, written>>

Next == Connect \/ Disconnect \/ Send \/ Sent \/ Deliver

Spec == Init /\ [][Next]_vars
=============================================================================
