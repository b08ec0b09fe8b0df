---------------------------- MODULE GrilioSocket ----------------------------
(***************************************************************************)
(* The socket transport (grilio_transport_socket.c): the subscription and  *)
(* the packets it writes, the packets it reads, its read and write         *)
(* watches, errors, shutdown and the last reference.                       *)
(*                                                                         *)
(* Bytes are counted in units: a part of a packet consists of the units    *)
(* the properties can tell apart, and one read or write moves any number   *)
(* of them.  The signals of the transport (grilio_transport.c) run code of *)
(* its user in the middle of a handler, and the user may call the          *)
(* transport from there; the variable stack holds what is left to do in    *)
(* the functions that are being executed, innermost first.  The user       *)
(* behaves like GRilIoChannel: it sends while it believes that the link is *)
(* up and that the previous packet is written.                             *)
(***************************************************************************)
EXTENDS Integers, Sequences, FiniteSets, SequencesExt

CONSTANTS
    SubLen,     \* units of the subscription, 0 if there is none
    HeaderLen,  \* units of the length and header of a request
    DataLens,   \* units the data of a request may have
    LenLen,     \* units of the length of an incoming packet
    BodyLen,    \* units of the rest of an incoming packet
    Kinds,      \* the packets the daemon may send
    SendIn,     \* signals from whose handlers the user sends
    ShutdownIn, \* signals from whose handlers the user shuts the link down
    ReleaseIn,  \* signals from whose handlers the user drops its reference
    MaxSend,    \* bound: packets the user sends
    MaxRecv     \* bound: packets the daemon sends

Signals == {"connected", "disconnected", "request_sent", "delivery",
            "connected_event", "read_error", "write_error"}
\* RIL_CONNECTED with the version; a response, an acknowledgement or any other event; a
\* packet of an unknown type; without even a type; a response without all of its header;
\* more than RIL_MAX_PACKET_LEN.
PacketKinds == {"connected", "delivery", "unknown", "short", "short_response", "long"}

ASSUME LengthAssumption ==
    /\ SubLen \in Nat /\ HeaderLen \in Nat \ {0}
    /\ LenLen \in Nat \ {0} /\ BodyLen \in Nat \ {0}
    /\ DataLens \subseteq Nat /\ DataLens # {}
ASSUME KindAssumption == Kinds \subseteq PacketKinds
ASSUME SignalAssumption ==
    SendIn \subseteq Signals /\ ShutdownIn \subseteq Signals /\ ReleaseIn \subseteq Signals
ASSUME CountAssumption == MaxSend \in Nat /\ MaxRecv \in Nat

VARIABLES
    \* struct grilio_transport_socket; the watch ids tell whether they are not zero
    io_channel, read_watch_id, write_watch_id, write_error_id, connected, disconnected,
    sub_pos, send_req, send_header_pos, send_pos,
    read_len_buf, read_len, read_buf,
    \* is the main loop source of the write watch attached
    write_source,
    \* references: the user's, and whether the object still exists
    held, alive,
    \* what is being executed
    stack,
    \* the user: the link as it was told, the packet it waits for, the data lengths of
    \* the packets it has sent
    link, busy, size,
    \* history: what was written to the socket, and the packets reported as written
    wire, written,
    \* the daemon: its packets (history), the units of them that were not read yet, and
    \* how many packets were signalled (history)
    incoming, unread, got

ioVars    == <<io_channel, read_watch_id, write_watch_id, write_source>>
downVars  == <<write_error_id, disconnected>>
sendVars  == <<sub_pos, send_req, send_header_pos, send_pos, wire>>
readVars  == <<read_len_buf, read_len, read_buf>>
peerVars  == <<incoming, unread>>
refVars   == <<held, alive>>
userVars  == <<busy, size, written>>
vars == <<ioVars, connected, downVars, sendVars, readVars, refVars, stack, link,
          userVars, peerVars, got>>

-----------------------------------------------------------------------------
(* What is left to do in the functions that are being executed.            *)

Frame(f, s) == [fn |-> f, sig |-> s]
Step1(f)    == <<Frame(f, "none")>>

\* A signal runs the handler of the user, unless that was disconnected.
Emit(s) == IF held THEN <<Frame("user", s)>> ELSE <<>>

Idle       == stack = <<>>
Top        == Head(stack)
Rest       == Tail(stack)
Running(f) == stack # <<>> /\ Top.fn = f

\* Between two handlers only the reference of the user keeps the object.
Dispatched == Idle /\ held

\* Code of the user runs: in a handler of one of these signals, or from the main loop.
UserRuns(signals) ==
    alive /\ held /\ (Idle \/ (Running("user") /\ Top.sig \in signals))

-----------------------------------------------------------------------------
(* Writing.                                                                *)

\* The units of packet p after the first i, up to the one with number j; packet 0 is the
\* subscription.
Chunk(p, i, j) == [k \in 1 .. j - i |-> <<p, i + k>>]

\* Mutant of WriteOutcomes: the packet counts as sent after its header.
WriteHeaderOnly(p, h, d) ==
    LET Outcome == [sub : sub_pos .. SubLen, header : h .. HeaderLen, data : {d},
                    result : {"wait", "stop", "sent", "error"}]
    IN  {o \in Outcome :
           IF o.sub < SubLen
           THEN o.result \in {"wait", "error"} /\ o.header = h
           ELSE IF ~connected \/ p = 0
           THEN o.result = "stop" /\ o.header = h
           ELSE o.result = IF o.header < HeaderLen THEN "wait" ELSE "sent"}

\* What one call of grilio_transport_socket_write may do for packet p (0 if there is
\* none), whose header and data have been written up to h and d: where it gets, and
\* whether it has to wait, stops, has sent the packet or fails.  A failing write writes
\* nothing.
WriteOutcomes(p, h, d) ==
    LET n == IF p = 0 THEN 0 ELSE size'[p]
        Outcome == [sub : sub_pos .. SubLen, header : h .. HeaderLen, data : d .. n,
                    result : {"wait", "stop", "sent", "error"}]
        Waits(o, unmoved) == o.result = "wait" \/ (o.result = "error" /\ unmoved)
    IN  {o \in Outcome :
           IF o.sub < SubLen
           THEN Waits(o, o.sub = sub_pos) /\ o.header = h /\ o.data = d
           ELSE IF ~connected \/ p = 0
           THEN o.result = "stop" /\ o.header = h /\ o.data = d
           ELSE IF o.header < HeaderLen
           THEN Waits(o, o.header = h) /\ o.data = d
           ELSE IF o.data < n
           THEN Waits(o, o.data = d)
           ELSE o.result = "sent"}

\* The positions after outcome o, and what it has put on the wire.
Advance(p, h, d, o) ==
    /\ sub_pos' = o.sub
    /\ send_header_pos' = o.header
    /\ send_pos' = o.data
    /\ send_req' = IF o.result = "sent" THEN 0 ELSE p
    /\ wire' = wire \o Chunk(0, sub_pos, o.sub) \o Chunk(p, h, o.header)
                    \o Chunk(p, HeaderLen + d, HeaderLen + o.data)

\* Mutant of ShutdownIO: the id of the write watch stays.
ShutdownKeepsId ==
    /\ io_channel' = FALSE
    /\ read_watch_id' = FALSE
    /\ write_watch_id' = write_watch_id
    /\ write_source' = FALSE

\* Mutant of ShutdownIO: the read watch stays.
ShutdownKeepsReading ==
    /\ io_channel' = FALSE
    /\ read_watch_id' = read_watch_id
    /\ write_watch_id' = FALSE
    /\ write_source' = FALSE

\* grilio_transport_socket_shutdown_io.  A write watch whose id was forgotten stays.
ShutdownIO ==
    /\ io_channel' = FALSE
    /\ read_watch_id' = FALSE
    /\ write_watch_id' = FALSE
    /\ write_source' = (write_source /\ ~write_watch_id)

\* grilio_transport_socket_handle_write_error, called where the callback of the write
\* watch goes on (source: it is still attached).
HandleWriteError(source) ==
    /\ io_channel' = FALSE
    /\ read_watch_id' = FALSE
    /\ write_watch_id' = FALSE
    /\ write_source' = source
    /\ write_error_id' = TRUE

\* grilio_transport_socket_write_callback: the descriptor is writable.  What follows
\* the request-sent signal is the action WriteReturn.
WriteCallback ==
    /\ Dispatched /\ io_channel /\ write_source
    /\ UNCHANGED <<size>>
    /\ \E o \in WriteOutcomes(send_req, send_header_pos, send_pos) :
        /\ Advance(send_req, send_header_pos, send_pos, o)
        /\ \/ /\ o.result = "sent"
              /\ stack' = Emit("request_sent") \o Step1("write_return")
              /\ written' = Append(written, send_req)
              /\ busy' = IF busy = send_req THEN 0 ELSE busy
              /\ UNCHANGED <<ioVars, write_error_id>>
           \/ /\ o.result = "wait" /\ send_req # 0
              /\ UNCHANGED <<ioVars, write_error_id, stack, written, busy>>
           \/ /\ o.result = "stop" \/ (o.result = "wait" /\ send_req = 0)
              /\ write_watch_id' = FALSE /\ write_source' = FALSE
              /\ UNCHANGED <<io_channel, read_watch_id, write_error_id, stack, written,
                             busy>>
           \/ /\ o.result = "error"
              /\ HandleWriteError(FALSE)
              /\ UNCHANGED <<stack, written, busy>>
    /\ UNCHANGED <<connected, disconnected, readVars, refVars, link, peerVars, got>>

\* The callback returns G_SOURCE_REMOVE.
WriteReturn ==
    /\ Running("write_return")
    /\ write_watch_id' = FALSE /\ write_source' = FALSE
    /\ stack' = Rest
    /\ UNCHANGED <<io_channel, read_watch_id, connected, downVars, sendVars, readVars,
                   refVars, link, userVars, peerVars, got>>

\* Mutant of Send: the positions in the header and the data are not reset.
SendFromLastPosition(d) ==
    /\ UserRuns(SendIn)
    /\ link = "up" /\ busy = 0 /\ send_req = 0 /\ io_channel
    /\ Len(size) < MaxSend
    /\ size' = Append(size, d)
    /\ LET p == Len(size')
       IN  \E o \in WriteOutcomes(p, send_header_pos, send_pos) :
             /\ Advance(p, send_header_pos, send_pos, o)
             /\ busy' = IF o.result = "sent" THEN 0 ELSE p
             /\ written' = IF o.result = "sent" THEN Append(written, p) ELSE written
             /\ write_watch_id' = (write_watch_id \/ o.result = "wait")
             /\ write_source' = (write_source \/ o.result = "wait")
    /\ UNCHANGED <<io_channel, read_watch_id, downVars, connected, readVars, refVars,
                   stack, link, peerVars, got>>

\* grilio_transport_socket_send, called by the user with d units of data.  Unless the
\* packet is written at once the user waits for it.
Send(d) ==
    /\ UserRuns(SendIn)
    /\ link = "up" /\ busy = 0
    /\ Len(size) < MaxSend
    /\ size' = Append(size, d)
    /\ LET p == Len(size')
       IN  IF send_req # 0 \/ ~io_channel
           THEN /\ busy' = p
                /\ UNCHANGED <<ioVars, write_error_id, sendVars, written>>
           ELSE \E o \in WriteOutcomes(p, 0, 0) :
                  /\ Advance(p, 0, 0, o)
                  /\ busy' = IF o.result = "sent" THEN 0 ELSE p
                  /\ written' = IF o.result = "sent" THEN Append(written, p) ELSE written
                  /\ CASE o.result = "wait" ->
                            /\ write_watch_id' = TRUE
                            /\ write_source' = (write_source \/ ~write_watch_id)
                            /\ UNCHANGED <<io_channel, read_watch_id, write_error_id>>
                       [] o.result = "error" -> HandleWriteError(write_source)
                       [] OTHER -> UNCHANGED <<ioVars, write_error_id>>
    /\ UNCHANGED <<connected, disconnected, readVars, refVars, stack, link, peerVars, got>>

-----------------------------------------------------------------------------
(* Shutdown, and the errors that lead to it.                               *)

\* grilio_transport_socket_disconnected: the signal is emitted once.
SetDisconnected(after) ==
    /\ connected' = FALSE
    /\ disconnected' = TRUE
    /\ link' = IF ~disconnected /\ held THEN "down" ELSE link
    /\ stack' = (IF disconnected THEN <<>> ELSE Emit("disconnected")) \o after

\* grilio_transport_socket_shutdown, called by the user.
Shutdown ==
    /\ UserRuns(ShutdownIn)
    /\ ShutdownIO
    /\ SetDisconnected(stack)
    /\ UNCHANGED <<write_error_id, sendVars, readVars, refVars, userVars, peerVars, got>>

\* grilio_transport_socket_write_error_cb, the idle callback.  It holds no reference.
WriteErrorCallback ==
    /\ Dispatched /\ write_error_id
    /\ write_error_id' = FALSE
    /\ stack' = Emit("write_error") \o Step1("write_error")
    /\ UNCHANGED <<ioVars, connected, disconnected, sendVars, readVars, refVars, link,
                   userVars, peerVars, got>>

\* Mutant of WriteErrorDown: the disconnected signal is left to the user.
WriteErrorLeft ==
    /\ Running("write_error")
    /\ held \/ ~alive
    /\ stack' = Rest
    /\ UNCHANGED <<ioVars, write_error_id, connected, disconnected, link, sendVars,
                   readVars, refVars, userVars, peerVars, got>>

\* What follows the write-error signal.
WriteErrorDown ==
    /\ Running("write_error")
    /\ held \/ ~alive
    /\ SetDisconnected(Rest)
    /\ UNCHANGED <<ioVars, write_error_id, sendVars, readVars, refVars, userVars,
                   peerVars, got>>

\* grilio_transport_socket_handle_read_error and, without an error, handle_eof.
HandleReadError(error) ==
    /\ ShutdownIO
    /\ SetDisconnected(IF error THEN Step1("read_error") ELSE Step1("read_return"))
    /\ UNCHANGED write_error_id

\* The read-error signal goes out after the disconnected signal.
ReadErrorSignal ==
    /\ Running("read_error")
    /\ stack' = Emit("read_error") \o Step1("read_return") \o Rest
    /\ UNCHANGED <<ioVars, connected, downVars, sendVars, readVars, refVars, link,
                   userVars, peerVars, got>>

-----------------------------------------------------------------------------
(* Reading.                                                                *)

\* What the daemon puts into the stream for its packet n: the length and the rest.
Length(k)  == IF k = "short" THEN 0 ELSE BodyLen
Body(n, k) == Chunk(n, 0, LenLen + Length(k))

\* Mutant of StartOfPacket: the position in the length is not reset.
KeepReading == UNCHANGED read_len_buf

\* "we are ready to start receiving the next packet".
StartOfPacket == read_len_buf' = <<>>

\* Mutant of HandleUnknown: the callback returns FALSE.
UnknownEndsReading ==
    /\ read_watch_id' = FALSE
    /\ UNCHANGED <<got, stack, io_channel, write_watch_id, write_source, connected,
                   downVars, link>>

\* "Ignore unknown packets".
HandleUnknown == UNCHANGED <<got, stack, ioVars, connected, downVars, link>>

\* grilio_transport_socket_handle_packet, for packet n of the daemon.
HandlePacket(n) ==
    /\ StartOfPacket
    /\ \/ /\ incoming[n] = "delivery"
          /\ got' = got + 1
          /\ stack' = Emit("delivery") \o Step1("read_return")
          /\ UNCHANGED <<ioVars, connected, downVars, link>>
       \/ /\ incoming[n] = "connected"
          /\ got' = got + 1
          /\ stack' = Emit("connected_event") \o Step1("connected")
          /\ UNCHANGED <<ioVars, connected, downVars, link>>
       \/ incoming[n] = "unknown" /\ HandleUnknown
       \/ incoming[n] \in {"short", "short_response"} /\ HandleReadError(TRUE) /\ UNCHANGED got

\* grilio_transport_socket_read: a units of the length, and then, unless that has to be
\* waited for, b units of the rest.
Read(a, b) ==
    LET lenbuf == read_len_buf \o SubSeq(unread, 1, a)
        fresh  == Len(read_len_buf) < LenLen
        n      == lenbuf[1][1]
        length == IF fresh THEN Length(incoming[n]) ELSE read_len
        before == IF fresh THEN <<>> ELSE read_buf
        buf    == before \o SubSeq(unread, a + 1, a + b)
    IN  /\ a + b <= Len(unread)
        /\ a <= LenLen - Len(read_len_buf)
        /\ fresh => a > 0
        /\ unread' = SubSeq(unread, a + b + 1, Len(unread))
        /\ IF Len(lenbuf) < LenLen
           THEN /\ b = 0
                /\ read_len_buf' = lenbuf
                /\ UNCHANGED <<read_len, read_buf, got, stack, ioVars, connected,
                               downVars, link>>
           ELSE IF fresh /\ incoming[n] = "long"
           THEN \* "Message is too long or stream is broken"
                /\ b = 0
                /\ read_len_buf' = lenbuf
                /\ read_watch_id' = FALSE
                /\ UNCHANGED <<read_len, read_buf, got, stack, io_channel,
                               write_watch_id, write_source, connected, downVars, link>>
           ELSE /\ Len(buf) <= length
                /\ read_len' = length
                /\ read_buf' = buf
                /\ IF Len(buf) < length
                   THEN /\ read_len_buf' = lenbuf
                        /\ UNCHANGED <<got, stack, ioVars, connected, downVars, link>>
                   ELSE HandlePacket(n)

\* grilio_transport_socket_read_callback: the descriptor is readable.
ReadCallback ==
    /\ Dispatched /\ read_watch_id
    /\ \E a \in 0 .. LenLen, b \in 0 .. BodyLen : a + b > 0 /\ Read(a, b)
    /\ UNCHANGED <<sendVars, refVars, userVars, incoming>>

\* The read fails, or the daemon has closed its end.
ReadFails(error) ==
    /\ Dispatched /\ read_watch_id
    /\ HandleReadError(error)
    /\ UNCHANGED <<sendVars, readVars, refVars, userVars, peerVars, got>>

\* The callback returns and drops the reference it has taken.
ReadReturn ==
    /\ Running("read_return")
    /\ stack' = Rest
    /\ UNCHANGED <<ioVars, connected, downVars, sendVars, readVars, refVars, link,
                   userVars, peerVars, got>>

\* grilio_transport_socket_connected, after the signal of the indication.
SocketConnected ==
    /\ Running("connected")
    /\ connected' = TRUE
    /\ link' = IF held THEN "up" ELSE link
    /\ stack' = Emit("connected") \o Step1("read_return") \o Rest
    /\ UNCHANGED <<ioVars, downVars, sendVars, readVars, refVars, userVars, peerVars, got>>

-----------------------------------------------------------------------------
(* The user and the daemon.                                                *)

UserReturns ==
    /\ Running("user")
    /\ stack' = Rest
    /\ UNCHANGED <<ioVars, connected, downVars, sendVars, readVars, refVars, link,
                   userVars, peerVars, got>>

\* grilio_transport_unref and grilio_transport_remove_handlers, by the only user.
Release ==
    /\ UserRuns(ReleaseIn)
    /\ held' = FALSE
    /\ UNCHANGED <<ioVars, connected, downVars, sendVars, readVars, alive, stack, link,
                   userVars, peerVars, got>>

\* Mutant of Referenced: the callbacks of the watches do not take a reference.
ReferencedBySignals(f) == f.fn = "user"

\* These functions, or the signal they emit, hold a reference of their own.
Referenced(f) == f.fn \in {"user", "write_return", "connected", "read_error",
                           "read_return"}

\* grilio_transport_socket_finalize, when the last reference goes.
Finalize ==
    /\ alive /\ ~held
    /\ \A k \in DOMAIN stack : ~Referenced(stack[k])
    /\ alive' = FALSE
    /\ ShutdownIO
    /\ connected' = FALSE /\ disconnected' = TRUE
    /\ write_error_id' = FALSE
    /\ UNCHANGED <<sendVars, readVars, held, stack, link, userVars, peerVars, got>>

\* The daemon announces itself once on a connection.
DaemonSends(kind) ==
    /\ Len(incoming) < MaxRecv
    /\ kind = "connected" => "connected" \notin ToSet(incoming)
    /\ io_channel
    /\ incoming' = Append(incoming, kind)
    /\ unread' = unread \o Body(Len(incoming'), kind)
    /\ UNCHANGED <<ioVars, connected, downVars, sendVars, readVars, refVars, stack, link,
                   userVars, got>>

-----------------------------------------------------------------------------
\* grilio_transport_socket_new.
Init ==
    /\ io_channel = TRUE /\ read_watch_id = TRUE
    /\ write_watch_id = (SubLen > 0) /\ write_source = (SubLen > 0)
    /\ write_error_id = FALSE /\ connected = FALSE /\ disconnected = FALSE
    /\ sub_pos = 0 /\ send_req = 0 /\ send_header_pos = 0 /\ send_pos = 0
    /\ read_len_buf = <<>> /\ read_len = 0 /\ read_buf = <<>>
    /\ held = TRUE /\ alive = TRUE
    /\ stack = <<>>
    /\ link = "new" /\ busy = 0 /\ size = <<>>
    /\ wire = <<>> /\ written = <<>>
    /\ incoming = <<>> /\ unread = <<>> /\ got = 0

User ==
    \/ \E d \in DataLens : Send(d)
    \/ Shutdown
    \/ Release

\* What the main loop may dispatch.
Event ==
    \/ WriteCallback
    \/ WriteErrorCallback
    \/ ReadCallback
    \/ \E error \in BOOLEAN : ReadFails(error)

\* How the function that is being executed goes on.
Step ==
    \/ WriteReturn
    \/ WriteErrorDown
    \/ ReadErrorSignal
    \/ ReadReturn
    \/ SocketConnected
    \/ UserReturns
    \/ Finalize

Next == User \/ Event \/ Step \/ \E kind \in Kinds : DaemonSends(kind)

Spec == Init /\ [][Next]_vars

\* Functions return, and the main loop gets around to a source that stays ready.
\* Nothing is assumed of the daemon, of the peer's willingness to take what is written
\* or of what the user calls.
Fairness ==
    /\ WF_vars(Step)
    /\ SF_vars(ReadCallback)
    /\ SF_vars(WriteErrorCallback)

FairSpec == Spec /\ Fairness

-----------------------------------------------------------------------------
\* Type correctness; there is no watch without a descriptor.
TypeOK ==
    /\ read_watch_id \/ write_watch_id => io_channel
    /\ {io_channel, read_watch_id, write_watch_id, write_source, write_error_id,
        connected, disconnected, held, alive} \subseteq BOOLEAN
    /\ sub_pos \in 0 .. SubLen /\ send_header_pos \in 0 .. HeaderLen
    /\ send_pos \in Nat
    /\ send_req \in 0 .. Len(size) /\ busy \in 0 .. Len(size)
    /\ size \in Seq(DataLens)
    /\ {wire, read_len_buf, read_buf, unread} \subseteq Seq(Nat \X Nat)
    /\ written \in Seq(Nat) /\ incoming \in Seq(Kinds)
    /\ read_len \in Nat /\ got \in Nat
    /\ link \in {"new", "up", "down"}

-----------------------------------------------------------------------------
(* Safety.                                                                 *)

\* How many units the subscription (0) and packet p have.
Units(p) == IF p = 0 THEN SubLen ELSE HeaderLen + size[p]

\* What the daemon reads: the subscription and then whole packets in the order in
\* which they were sent, each unit once, however the writes were cut and whichever
\* function did them.
Following(u) == IF u[2] < Units(u[1]) THEN <<u[1], u[2] + 1>> ELSE <<u[1] + 1, 1>>
WireFormat ==
    \A k \in DOMAIN wire :
        /\ wire[k][1] \in 0 .. Len(size)
        /\ wire[k] = IF k > 1 THEN Following(wire[k - 1])
                     ELSE IF SubLen > 0 THEN <<0, 1>> ELSE <<1, 1>>

\* A packet is reported to the user when and only when the last of it is on the wire, once.
ReportedIsWritten ==
    /\ \A j \in DOMAIN written : written[j] = j
    /\ \A p \in DOMAIN size : p \in ToSet(written) <=> <<p, Units(p)>> \in ToSet(wire)

\* Between two callbacks the buffers hold the beginning of one packet of the daemon,
\* and every packet before it that means something was signalled.
ReadInStep ==
    LET n == IF read_len_buf = <<>> THEN 0 ELSE read_len_buf[1][1]
    IN  Idle /\ n # 0 =>
          /\ read_len_buf = SubSeq(Body(n, incoming[n]), 1, Len(read_len_buf))
          /\ Len(read_len_buf) = LenLen /\ read_watch_id =>
               read_buf = SubSeq(Body(n, incoming[n]), LenLen + 1, LenLen + Len(read_buf))
          /\ got = Cardinality({m \in 1 .. n - 1 : incoming[m] # "unknown"})

\* "Will have to wait": while the link is open, a packet or a subscription that is partly
\* written has a write watch.
PartlyWrittenIsWatched ==
    Idle /\ alive /\ io_channel =>
        (send_req # 0 \/ sub_pos \in 1 .. SubLen - 1 => write_source)

\* What the comment in grilio_transport_socket_handle_write_error counts on: a write
\* watch whose id was zeroed is freed by the callback.
ForgottenWatchIsFreed == Idle /\ ~write_watch_id => ~write_source

\* Wherever the user drops the last reference, no function of the transport goes on
\* after the object was finalized.  The idle callback of a write error is left out: it
\* holds no reference and still emits the disconnected signal after the write-error one.
RunsReferenced == ~alive => \A k \in DOMAIN stack : stack[k].fn = "write_error"

-----------------------------------------------------------------------------
(* Refinement and liveness.                                                *)

Promise == INSTANCE TransportPromise
             WITH writing <- busy, accepted <- Len(size), written <-
                    IF written = <<>> THEN 0 ELSE Last(written)

\* The socket, for all its watches and callbacks, keeps the promise of a transport.
KeepsPromise == Promise!Spec

\* Whatever the daemon has sent is read to its end while the link is open, unless a
\* packet that is too long has stopped that.
EverythingRead ==
    \A n \in 1 .. MaxRecv :
        n <= Len(incoming) ~>
            \/ \A k \in DOMAIN unread : unread[k][1] > n
            \/ ~io_channel \/ "long" \in ToSet(incoming)

\* The user learns of every loss of the link, if it is still there.
LossIsTold == ~io_channel ~> link = "down" \/ ~held
=============================================================================
