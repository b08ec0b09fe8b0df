--------------------------- MODULE MCGrilioSocket ---------------------------
(* Instances of the socket transport for TLC.                              *)
EXTENDS GrilioSocket

AllKinds == PacketKinds
\* GRilIoChannel sends from the handlers of these signals.
ChannelSends == {"connected", "request_sent", "delivery"}
\* A shutdown in the handler of the RIL_CONNECTED event would be followed by the
\* connected signal.
NotConnecting == Signals \ {"connected_event"}
AllSignals == Signals
=============================================================================
