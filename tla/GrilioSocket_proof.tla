-------------------------- MODULE GrilioSocket_proof --------------------------
(***************************************************************************)
(* The socket transport, for any lengths, packets and numbers of packets:  *)
(*                                                                         *)
(*   - no function of it goes on after the object was finalized, wherever  *)
(*     its user drops the last reference (RunsReferenced, which leaves out *)
(*     the idle callback of a write error);                                *)
(*   - what is written is the subscription and then whole packets in order,*)
(*     and a packet is reported when its last unit is on the wire          *)
(*     (WireFormat, ReportedIsWritten, from WireInv);                      *)
(*   - what is read is assembled in step with the packets of the daemon    *)
(*     (ReadInStep, from ReadInv);                                         *)
(*   - it implements TransportPromise (KeepsPromise, from LinkInv), if the *)
(*     user does not shut the link down from the RIL_CONNECTED handler.    *)
(***************************************************************************)
EXTENDS GrilioSocket, SequenceTheorems, FiniteSetTheorems, TLAPS

Functions == {"user", "write_return", "write_error", "connected", "read_error",
              "read_return"}
FrameType == [fn : Functions, sig : Signals \cup {"none"}]

\* The user's reference keeps the object alive; once it is not, what is left to run is
\* write-error callbacks, and since nobody listens they push no frame.
AllOf(s, f) == \A k \in DOMAIN s : s[k].fn = f
ReferenceInv ==
    /\ stack \in Seq(FrameType)
    /\ held \in BOOLEAN /\ alive \in BOOLEAN
    /\ held => alive
    /\ ~alive => AllOf(stack, "write_error")

-----------------------------------------------------------------------------
(* Frames.                                                                 *)

LEMMA FrameTyped ==
    ASSUME NEW f \in Functions, NEW s \in Signals \cup {"none"}
    PROVE  Frame(f, s) \in FrameType
  BY DEF Frame, FrameType

LEMMA Step1Typed ==
    ASSUME NEW f \in Functions
    PROVE  Step1(f) \in Seq(FrameType)
<1>1. Frame(f, "none") \in FrameType
  BY FrameTyped
<1>2. QED
  BY <1>1 DEF Step1

LEMMA EmitTyped ==
    ASSUME NEW s \in Signals
    PROVE  Emit(s) \in Seq(FrameType)
<1>1. Frame("user", s) \in FrameType
  BY FrameTyped DEF Functions
<1>2. QED
  BY <1>1 DEF Emit

LEMMA RestTyped ==
    ASSUME stack \in Seq(FrameType), stack # <<>>
    PROVE  /\ Rest \in Seq(FrameType)
           /\ \A k \in DOMAIN Rest : k + 1 \in DOMAIN stack /\ Rest[k] = stack[k + 1]
           /\ 1 \in DOMAIN stack /\ Top = stack[1]
<1> HIDE DEF FrameType
<1>1. QED
  BY DEF Rest, Top

LEMMA AppendedTyped ==
    ASSUME NEW s \in Seq(FrameType), NEW t \in Seq(FrameType)
    PROVE  s \o t \in Seq(FrameType)
<1> DEFINE S == FrameType
<1> HIDE DEF S
<1>1. ASSUME NEW a \in Seq(S), NEW b \in Seq(S)
      PROVE  a \o b \in Seq(S)
  OBVIOUS
<1>2. QED
  BY <1>1 DEF S

-----------------------------------------------------------------------------
(* Steps.                                                                  *)

\* While the user holds its reference the object is alive, whatever is pushed.
LEMMA HeldStep ==
    ASSUME ReferenceInv, UNCHANGED refVars, held, stack' \in Seq(FrameType)
    PROVE  ReferenceInv'
  BY DEF ReferenceInv, refVars

\* While another function than the write-error callback is on top, it is, too.
LEMMA RunningStep ==
    ASSUME ReferenceInv, UNCHANGED refVars, stack # <<>>, Top.fn # "write_error",
           stack' \in Seq(FrameType)
    PROVE  ReferenceInv'
<1>1. alive
  BY RestTyped DEF ReferenceInv, AllOf
<1>2. QED
  BY <1>1 DEF ReferenceInv, refVars

\* A frame is popped.
LEMMA PopStep ==
    ASSUME ReferenceInv, UNCHANGED refVars, stack # <<>>, stack' = Rest
    PROVE  ReferenceInv'
<1>1. /\ Rest \in Seq(FrameType)
      /\ \A k \in DOMAIN Rest : k + 1 \in DOMAIN stack /\ Rest[k] = stack[k + 1]
  BY RestTyped DEF ReferenceInv
<1>2. QED
  BY <1>1 DEF ReferenceInv, refVars, AllOf

LEMMA WriteCallbackStep ==
    ASSUME ReferenceInv, WriteCallback
    PROVE  ReferenceInv'
<1>1. held /\ UNCHANGED refVars
  BY DEF WriteCallback, Dispatched
<1>2. \/ stack' = Emit("request_sent") \o Step1("write_return")
      \/ stack' = stack
  BY DEF WriteCallback
<1>3. Emit("request_sent") \o Step1("write_return") \in Seq(FrameType)
  BY EmitTyped, Step1Typed, AppendedTyped DEF Signals, Functions
<1>4. QED
  BY <1>1, <1>2, <1>3, HeldStep DEF ReferenceInv

\* grilio_transport_socket_disconnected pushes at most the handler of its signal.
LEMMA SetDisconnectedTyped ==
    ASSUME NEW after \in Seq(FrameType), SetDisconnected(after)
    PROVE  stack' \in Seq(FrameType)
<1>1. <<>> \in Seq(FrameType) /\ Emit("disconnected") \in Seq(FrameType)
  BY EmitTyped DEF Signals
<1>2. QED
  BY <1>1, AppendedTyped DEF SetDisconnected

LEMMA HandleReadErrorTyped ==
    ASSUME NEW error \in BOOLEAN, HandleReadError(error)
    PROVE  stack' \in Seq(FrameType)
<1>1. (IF error THEN Step1("read_error") ELSE Step1("read_return")) \in Seq(FrameType)
  BY Step1Typed DEF Functions
<1>2. QED
  BY <1>1, SetDisconnectedTyped DEF HandleReadError

LEMMA ReadCallbackStep ==
    ASSUME ReferenceInv, ReadCallback
    PROVE  ReferenceInv'
<1>1. held /\ UNCHANGED refVars
  BY DEF ReadCallback, Dispatched
<1>2. ASSUME NEW n, HandlePacket(n)
      PROVE  stack' \in Seq(FrameType)
  <2>1. CASE stack' = Emit("delivery") \o Step1("read_return")
    BY <2>1, EmitTyped, Step1Typed, AppendedTyped DEF Signals, Functions
  <2>2. CASE stack' = Emit("connected_event") \o Step1("connected")
    BY <2>2, EmitTyped, Step1Typed, AppendedTyped DEF Signals, Functions
  <2>3. CASE HandleUnknown
    BY <2>3 DEF HandleUnknown, ReferenceInv
  <2>4. CASE HandleReadError(TRUE)
    BY <2>4, HandleReadErrorTyped
  <2>5. QED
    BY <1>2, <2>1, <2>2, <2>3, <2>4 DEF HandlePacket
<1>3. stack' \in Seq(FrameType)
  <2>1. PICK a \in 0 .. LenLen, b \in 0 .. BodyLen : Read(a, b)
    BY DEF ReadCallback
  <2>2. stack' = stack \/ \E n : HandlePacket(n)
    BY <2>1, Zenon DEF Read
  <2>3. QED
    BY <1>2, <2>2 DEF ReferenceInv
<1>4. QED
  BY <1>1, <1>3, HeldStep

\* What follows the write-error signal runs with the object or without it.
LEMMA WriteErrorDownStep ==
    ASSUME ReferenceInv, WriteErrorDown
    PROVE  ReferenceInv'
<1>1. /\ stack # <<>> /\ UNCHANGED refVars /\ SetDisconnected(Rest)
      /\ Rest \in Seq(FrameType)
  BY RestTyped DEF WriteErrorDown, Running, ReferenceInv
<1>2. CASE held
  BY <1>1, <1>2, SetDisconnectedTyped, HeldStep
<1>3. CASE ~held
  <2>1. stack' = <<>> \o Rest
    BY <1>1, <1>3 DEF SetDisconnected, Emit
  <2>2. stack' = Rest
    BY <1>1, <2>1, ConcatEmptySeq
  <2>3. QED
    BY <1>1, <2>2, PopStep
<1>4. QED
  BY <1>2, <1>3

LEMMA ReadErrorSignalStep ==
    ASSUME ReferenceInv, ReadErrorSignal
    PROVE  ReferenceInv'
<1>1. /\ stack # <<>> /\ Top.fn = "read_error" /\ UNCHANGED refVars
      /\ stack' = Emit("read_error") \o Step1("read_return") \o Rest
      /\ Rest \in Seq(FrameType)
  BY RestTyped DEF ReadErrorSignal, Running, ReferenceInv
<1>2. stack' \in Seq(FrameType)
  <2>1. Emit("read_error") \o Step1("read_return") \in Seq(FrameType)
    BY EmitTyped, Step1Typed, AppendedTyped DEF Signals, Functions
  <2>2. QED
    BY <1>1, <2>1, AppendedTyped
<1>3. QED
  BY <1>1, <1>2, RunningStep

LEMMA SocketConnectedStep ==
    ASSUME ReferenceInv, SocketConnected
    PROVE  ReferenceInv'
<1>1. /\ stack # <<>> /\ Top.fn = "connected" /\ UNCHANGED refVars
      /\ stack' = Emit("connected") \o Step1("read_return") \o Rest
      /\ Rest \in Seq(FrameType)
  BY RestTyped DEF SocketConnected, Running, ReferenceInv
<1>2. stack' \in Seq(FrameType)
  <2>1. Emit("connected") \o Step1("read_return") \in Seq(FrameType)
    BY EmitTyped, Step1Typed, AppendedTyped DEF Signals, Functions
  <2>2. QED
    BY <1>1, <2>1, AppendedTyped
<1>3. QED
  BY <1>1, <1>2, RunningStep

\* The last reference goes only when no function that holds one is being executed.
LEMMA FinalizeStep ==
    ASSUME ReferenceInv, Finalize
    PROVE  ReferenceInv'
<1>1. ASSUME NEW k \in DOMAIN stack
      PROVE  stack[k].fn = "write_error"
  <2>1. stack[k] \in FrameType
    BY DEF ReferenceInv
  <2>2. stack[k].fn \in Functions /\ ~Referenced(stack[k])
    BY <2>1 DEF Finalize, FrameType
  <2>3. QED
    BY <2>2 DEF Functions, Referenced
<1>2. QED
  BY <1>1 DEF ReferenceInv, Finalize, AllOf

LEMMA ReferenceStep == ReferenceInv /\ [Next]_vars => ReferenceInv'
<1> SUFFICES ASSUME ReferenceInv, [Next]_vars
             PROVE  ReferenceInv'
  OBVIOUS
<1>1. ASSUME NEW d \in DataLens, Send(d)
      PROVE  ReferenceInv'
  BY <1>1 DEF Send, ReferenceInv, refVars
<1>2. CASE Shutdown
  <2>1. held /\ UNCHANGED refVars /\ SetDisconnected(stack)
    BY <1>2 DEF Shutdown, UserRuns
  <2>2. QED
    BY <2>1, SetDisconnectedTyped, HeldStep DEF ReferenceInv
<1>3. CASE Release
  BY <1>3 DEF Release, ReferenceInv
<1>4. CASE WriteCallback
  BY <1>4, WriteCallbackStep
<1>5. CASE WriteErrorCallback
  <2>1. /\ held /\ UNCHANGED refVars
        /\ stack' = Emit("write_error") \o Step1("write_error")
    BY <1>5 DEF WriteErrorCallback, Dispatched
  <2>2. stack' \in Seq(FrameType)
    BY <2>1, EmitTyped, Step1Typed, AppendedTyped DEF Signals, Functions
  <2>3. QED
    BY <2>1, <2>2, HeldStep
<1>6. CASE ReadCallback
  BY <1>6, ReadCallbackStep
<1>7. ASSUME NEW error \in BOOLEAN, ReadFails(error)
      PROVE  ReferenceInv'
  BY <1>7, HandleReadErrorTyped, HeldStep DEF ReadFails, Dispatched
<1>8. CASE WriteReturn
  BY <1>8, PopStep DEF WriteReturn, Running
<1>9. CASE WriteErrorDown
  BY <1>9, WriteErrorDownStep
<1>10. CASE ReadErrorSignal
  BY <1>10, ReadErrorSignalStep
<1>11. CASE ReadReturn
  BY <1>11, PopStep DEF ReadReturn, Running
<1>12. CASE SocketConnected
  BY <1>12, SocketConnectedStep
<1>13. CASE UserReturns
  BY <1>13, PopStep DEF UserReturns, Running
<1>14. CASE Finalize
  BY <1>14, FinalizeStep
<1>15. ASSUME NEW kind \in Kinds, DaemonSends(kind)
       PROVE  ReferenceInv'
  BY <1>15 DEF DaemonSends, ReferenceInv, refVars
<1>16. CASE UNCHANGED vars
  BY <1>16 DEF vars, ReferenceInv, refVars
<1>17. QED
  BY <1>1, <1>2, <1>3, <1>4, <1>5, <1>6, <1>7, <1>8, <1>9, <1>10, <1>11, <1>12, <1>13,
     <1>14, <1>15, <1>16 DEF Next, User, Event, Step

-----------------------------------------------------------------------------
(* The theorem.                                                            *)

\* The invariant behind it holds in every reachable state.
THEOREM ReferencesHold == Spec => []ReferenceInv
<1>1. Init => ReferenceInv
  BY DEF Init, ReferenceInv
<1>2. QED
  BY <1>1, ReferenceStep, PTL DEF Spec

\* Wherever the last reference is dropped, nothing but the idle callback of a write error
\* is being executed once the transport was finalized.
THEOREM RunsAreReferenced == Spec => []RunsReferenced
<1>1. ReferenceInv => RunsReferenced
  BY DEF ReferenceInv, RunsReferenced, AllOf
<1>2. QED
  BY <1>1, ReferencesHold, PTL

-----------------------------------------------------------------------------
(* Types.                                                                  *)

UnitSeqs == Seq(Nat \X Nat)

LEMMA Lengths ==
    /\ SubLen \in Nat /\ HeaderLen \in Nat \ {0}
    /\ LenLen \in Nat \ {0} /\ BodyLen \in Nat \ {0}
    /\ DataLens \subseteq Nat
  BY LengthAssumption DEF LengthAssumption

LEMMA ChunkTyped ==
    ASSUME NEW p \in Nat, NEW i \in Nat, NEW j \in Nat, i <= j
    PROVE  Chunk(p, i, j) \in UnitSeqs
<1>1. \A k \in 1 .. j - i : <<p, i + k>> \in Nat \X Nat
  OBVIOUS
<1>2. QED
  BY <1>1 DEF Chunk, UnitSeqs

LEMMA ChunkUnits ==
    ASSUME NEW p \in Nat, NEW i \in Nat, NEW j \in Nat, i <= j
    PROVE  /\ Len(Chunk(p, i, j)) = j - i
           /\ \A k \in 1 .. j - i : Chunk(p, i, j)[k] = <<p, i + k>>
  BY DEF Chunk

LEMMA UnitSeqsConcat ==
    ASSUME NEW s \in UnitSeqs, NEW t \in UnitSeqs
    PROVE  /\ s \o t \in UnitSeqs
           /\ Len(s \o t) = Len(s) + Len(t)
           /\ \A i \in 1 .. Len(s) : (s \o t)[i] = s[i]
           /\ \A i \in 1 .. Len(t) : (s \o t)[Len(s) + i] = t[i]
<1> DEFINE S == Nat \X Nat
<1> HIDE DEF S
<1>1. s \in Seq(S) /\ t \in Seq(S)
  BY DEF UnitSeqs, S
<1>2. s \o t \in Seq(S)
  BY <1>1
<1>3. QED
  BY <1>1, <1>2 DEF UnitSeqs, S

LEMMA UnitSeqsPart ==
    ASSUME NEW s \in UnitSeqs, NEW i \in Nat, NEW j \in Nat, i <= j, j <= Len(s)
    PROVE  /\ SubSeq(s, i + 1, j) \in UnitSeqs
           /\ Len(SubSeq(s, i + 1, j)) = j - i
           /\ \A k \in 1 .. j - i : SubSeq(s, i + 1, j)[k] = s[i + k]
<1> DEFINE S == Nat \X Nat
<1> HIDE DEF S
<1>1. s \in Seq(S)
  BY DEF UnitSeqs, S
<1>2. SubSeq(s, i + 1, j) \in Seq(S)
  BY <1>1
<1>3. QED
  BY <1>1, <1>2 DEF UnitSeqs, S

\* What one call of grilio_transport_socket_write leaves behind.
LEMMA OutcomeTyped ==
    ASSUME NEW p, NEW h \in 0 .. HeaderLen, NEW d \in Nat, sub_pos \in 0 .. SubLen,
           size' \in Seq(DataLens), p \in 0 .. Len(size'),
           NEW o \in WriteOutcomes(p, h, d)
    PROVE  /\ o.sub \in Nat /\ o.header \in Nat /\ o.data \in Nat
           /\ sub_pos <= o.sub /\ o.sub <= SubLen
           /\ h <= o.header /\ o.header <= HeaderLen
           /\ d <= o.data /\ (p # 0 => size'[p] \in Nat /\ (o.data > d => o.data <= size'[p]))
           /\ o.result \in {"wait", "stop", "sent", "error"}
<1>1. p # 0 => size'[p] \in Nat
  <2>1. p # 0 => p \in 1 .. Len(size')
    OBVIOUS
  <2>2. p # 0 => size'[p] \in DataLens
    BY <2>1
  <2>3. QED
    BY <2>2, Lengths
<1>2. QED
  BY <1>1, Lengths DEF WriteOutcomes

LEMMA AdvanceTyped ==
    ASSUME NEW p, NEW h \in 0 .. HeaderLen, NEW d \in Nat, sub_pos \in 0 .. SubLen,
           size' \in Seq(DataLens), p \in 0 .. Len(size'), wire \in UnitSeqs,
           NEW o \in WriteOutcomes(p, h, d), Advance(p, h, d, o)
    PROVE  /\ sub_pos' \in 0 .. SubLen /\ send_header_pos' \in 0 .. HeaderLen
           /\ send_pos' \in Nat /\ send_req' \in {0, p}
           /\ wire' \in UnitSeqs
<1>1. /\ o.sub \in Nat /\ o.header \in Nat /\ o.data \in Nat
      /\ sub_pos <= o.sub /\ o.sub <= SubLen
      /\ h <= o.header /\ o.header <= HeaderLen
      /\ d <= o.data
  BY OutcomeTyped
<1>2. Chunk(0, sub_pos, o.sub) \in UnitSeqs
  BY <1>1, Lengths, ChunkTyped
<1>3. Chunk(p, h, o.header) \in UnitSeqs
  BY <1>1, Lengths, ChunkTyped
<1>4. Chunk(p, HeaderLen + d, HeaderLen + o.data) \in UnitSeqs
  BY <1>1, Lengths, ChunkTyped
<1>5. wire' \in UnitSeqs
  BY <1>2, <1>3, <1>4, UnitSeqsConcat DEF Advance
<1>6. QED
  BY <1>1, <1>5, Lengths DEF Advance

\* The positions and the packets of a well-typed state, for the lemmas above.
LEMMA TypedParts ==
    ASSUME TypeOK
    PROVE  /\ wire \in UnitSeqs /\ read_len_buf \in UnitSeqs /\ read_buf \in UnitSeqs
           /\ unread \in UnitSeqs
           /\ sub_pos \in 0 .. SubLen /\ send_header_pos \in 0 .. HeaderLen /\ send_pos \in Nat
           /\ size \in Seq(DataLens) /\ send_req \in 0 .. Len(size) /\ busy \in 0 .. Len(size)
           /\ written \in Seq(Nat) /\ incoming \in Seq(Kinds) /\ Len(size) \in Nat
  BY DEF TypeOK, UnitSeqs

\* What the types of the buffers and positions are, and that of the flags.
DataTyped ==
    /\ sub_pos \in 0 .. SubLen /\ send_header_pos \in 0 .. HeaderLen /\ send_pos \in Nat
    /\ send_req \in 0 .. Len(size) /\ busy \in 0 .. Len(size)
    /\ size \in Seq(DataLens)
    /\ wire \in UnitSeqs /\ read_len_buf \in UnitSeqs /\ read_buf \in UnitSeqs
    /\ unread \in UnitSeqs
    /\ written \in Seq(Nat) /\ incoming \in Seq(Kinds)
    /\ read_len \in Nat /\ got \in Nat
FlagsTyped ==
    /\ read_watch_id \/ write_watch_id => io_channel
    /\ io_channel \in BOOLEAN /\ read_watch_id \in BOOLEAN /\ write_watch_id \in BOOLEAN
    /\ write_source \in BOOLEAN /\ write_error_id \in BOOLEAN /\ connected \in BOOLEAN
    /\ disconnected \in BOOLEAN /\ held \in BOOLEAN /\ alive \in BOOLEAN
    /\ link \in {"new", "up", "down"}

LEMMA TypeSplit == TypeOK <=> DataTyped /\ FlagsTyped
  BY DEF TypeOK, DataTyped, FlagsTyped, UnitSeqs

dataVars == <<sendVars, readVars, userVars, peerVars, got>>

LEMMA SendData ==
    ASSUME DataTyped, NEW d \in DataLens, Send(d)
    PROVE  DataTyped'
<1> DEFINE p == Len(size')
<1>1. /\ size \in Seq(DataLens) /\ Len(size) \in Nat /\ wire \in UnitSeqs
      /\ written \in Seq(Nat) /\ sub_pos \in 0 .. SubLen
  BY DEF DataTyped
<1>2. size' = Append(size, d)
  BY DEF Send
<1>3. size' \in Seq(DataLens) /\ p = Len(size) + 1 /\ p \in Nat
  BY <1>1, <1>2
<1>4. /\ UNCHANGED <<readVars, peerVars, got>>
      /\ busy' \in {0, p} /\ written' \in {written, Append(written, p)}
      /\ \/ UNCHANGED sendVars
         \/ \E o \in WriteOutcomes(p, 0, 0) : Advance(p, 0, 0, o)
  BY DEF Send
<1>5. written' \in Seq(Nat)
  <2>1. Append(written, p) \in Seq(Nat)
    BY <1>1, <1>3, AppendProperties
  <2>2. QED
    BY <1>1, <1>4, <2>1
<1>6. /\ sub_pos' \in 0 .. SubLen /\ send_header_pos' \in 0 .. HeaderLen
      /\ send_pos' \in Nat /\ send_req' \in 0 .. p /\ wire' \in UnitSeqs
  <2>1. CASE UNCHANGED sendVars
    BY <2>1, <1>3 DEF DataTyped, sendVars
  <2>2. ASSUME NEW o \in WriteOutcomes(p, 0, 0), Advance(p, 0, 0, o)
        PROVE  /\ sub_pos' \in 0 .. SubLen /\ send_header_pos' \in 0 .. HeaderLen
               /\ send_pos' \in Nat /\ send_req' \in {0, p} /\ wire' \in UnitSeqs
    <3>1. 0 \in 0 .. HeaderLen /\ 0 \in Nat /\ p \in 0 .. Len(size')
      BY <1>3, Lengths
    <3>2. QED
      BY <3>1, <2>2, <1>1, <1>3, AdvanceTyped
  <2>3. QED
    BY <1>3, <1>4, <2>1, <2>2
<1>7. busy' \in 0 .. p
  BY <1>3, <1>4
<1>8. QED
  BY <1>3, <1>4, <1>5, <1>6, <1>7 DEF DataTyped, readVars, peerVars

LEMMA WriteCallbackData ==
    ASSUME DataTyped, WriteCallback
    PROVE  DataTyped'
<1>1. /\ size' = size /\ size \in Seq(DataLens) /\ Len(size) \in Nat /\ wire \in UnitSeqs
      /\ written \in Seq(Nat) /\ sub_pos \in 0 .. SubLen
      /\ send_req \in 0 .. Len(size') /\ send_header_pos \in 0 .. HeaderLen
      /\ send_pos \in Nat
  BY DEF DataTyped, WriteCallback
<1>2. PICK o \in WriteOutcomes(send_req, send_header_pos, send_pos) :
          /\ Advance(send_req, send_header_pos, send_pos, o)
          /\ written' \in {written, Append(written, send_req)}
          /\ busy' \in {0, busy}
  BY DEF WriteCallback
<1>3. /\ sub_pos' \in 0 .. SubLen /\ send_header_pos' \in 0 .. HeaderLen
      /\ send_pos' \in Nat /\ send_req' \in {0, send_req} /\ wire' \in UnitSeqs
  BY <1>1, <1>2, AdvanceTyped
<1>4. written' \in Seq(Nat)
  <2>1. Append(written, send_req) \in Seq(Nat)
    BY <1>1, AppendProperties
  <2>2. QED
    BY <1>1, <1>2, <2>1
<1>5. UNCHANGED <<readVars, peerVars, got>>
  BY DEF WriteCallback
<1>6. QED
  BY <1>1, <1>2, <1>3, <1>4, <1>5, SMTT(30) DEF DataTyped, readVars, peerVars

LEMMA ReadData ==
    ASSUME DataTyped, NEW a \in Nat, NEW b \in Nat, Read(a, b),
           UNCHANGED <<sendVars, userVars, incoming>>
    PROVE  DataTyped'
<1> DEFINE lenbuf == read_len_buf \o SubSeq(unread, 1, a)
           fresh  == Len(read_len_buf) < LenLen
           n      == lenbuf[1][1]
           length == IF fresh THEN Length(incoming[n]) ELSE read_len
           before == IF fresh THEN <<>> ELSE read_buf
           buf    == before \o SubSeq(unread, a + 1, a + b)
<1>1. /\ read_len_buf \in UnitSeqs /\ read_buf \in UnitSeqs /\ unread \in UnitSeqs
      /\ Len(unread) \in Nat /\ a + b <= Len(unread) /\ <<>> \in UnitSeqs
      /\ read_len \in Nat /\ got \in Nat
  BY DEF DataTyped, UnitSeqs, Read
<1>2. SubSeq(unread, 1, a) \in UnitSeqs
  <2>1. SubSeq(unread, 0 + 1, a) \in UnitSeqs
    BY <1>1, UnitSeqsPart
  <2>2. QED
    BY <2>1
<1>3. SubSeq(unread, a + 1, a + b) \in UnitSeqs
  BY <1>1, UnitSeqsPart
<1>4. SubSeq(unread, a + b + 1, Len(unread)) \in UnitSeqs
  <2>1. ASSUME NEW c \in Nat, c <= Len(unread)
        PROVE  SubSeq(unread, c + 1, Len(unread)) \in UnitSeqs
    BY <1>1, <2>1, UnitSeqsPart
  <2>2. a + b \in Nat
    OBVIOUS
  <2>3. QED
    BY <1>1, <2>1, <2>2, Zenon
<1>5. lenbuf \in UnitSeqs
  BY <1>1, <1>2, UnitSeqsConcat
<1>6. buf \in UnitSeqs
  BY <1>1, <1>3, UnitSeqsConcat
<1>7. length \in Nat
  BY <1>1, Lengths DEF Length
<1> HIDE DEF length, buf
<1>8. unread' \in UnitSeqs
  BY <1>4 DEF Read
<1>9. /\ read_len_buf' \in {lenbuf, <<>>} /\ read_len' \in {read_len, length}
      /\ read_buf' \in {read_buf, buf} /\ got' \in {got, got + 1}
  BY DEF Read, HandlePacket, StartOfPacket, HandleUnknown, length, buf
<1> HIDE DEF lenbuf
<1>10. read_len_buf' \in UnitSeqs /\ read_len' \in Nat /\ read_buf' \in UnitSeqs /\ got' \in Nat
  BY <1>1, <1>5, <1>6, <1>7, <1>9
<1>11. QED
  BY <1>8, <1>10 DEF DataTyped, sendVars, userVars

LEMMA DaemonData ==
    ASSUME DataTyped, NEW kind \in Kinds, DaemonSends(kind)
    PROVE  DataTyped'
<1>1. incoming' = Append(incoming, kind) /\ incoming \in Seq(Kinds) /\ unread \in UnitSeqs
  BY DEF DataTyped, DaemonSends
<1>2. incoming' \in Seq(Kinds) /\ Len(incoming') \in Nat
  BY <1>1
<1>3. Length(kind) \in Nat /\ LenLen + Length(kind) \in Nat
  BY Lengths DEF Length
<1>4. Body(Len(incoming'), kind) \in UnitSeqs
  BY <1>2, <1>3, ChunkTyped DEF Body
<1>5. unread' \in UnitSeqs
  BY <1>1, <1>4, UnitSeqsConcat DEF DaemonSends
<1>6. QED
  BY <1>2, <1>5 DEF DaemonSends, DataTyped, sendVars, readVars, userVars

\* Every other step leaves the data alone.
LEMMA DataStep == DataTyped /\ [Next]_vars => DataTyped'
<1> SUFFICES ASSUME DataTyped, [Next]_vars PROVE DataTyped'
  OBVIOUS
<1>1. ASSUME NEW d \in DataLens, Send(d) PROVE DataTyped'
  BY <1>1, SendData
<1>2. CASE WriteCallback
  BY <1>2, WriteCallbackData
<1>3. CASE ReadCallback
  <2>1. PICK a \in 0 .. LenLen, b \in 0 .. BodyLen : Read(a, b)
    BY <1>3 DEF ReadCallback
  <2>2. UNCHANGED <<sendVars, userVars, incoming>>
    BY <1>3 DEF ReadCallback
  <2>3. a \in Nat /\ b \in Nat
    BY Lengths
  <2>4. QED
    BY <2>1, <2>2, <2>3, ReadData
<1>4. ASSUME NEW kind \in Kinds, DaemonSends(kind) PROVE DataTyped'
  BY <1>4, DaemonData
<1>5. CASE UNCHANGED dataVars
  BY <1>5 DEF dataVars, sendVars, readVars, userVars, peerVars, DataTyped
<1>6. CASE Shutdown \/ Release \/ WriteErrorCallback \/ (\E error \in BOOLEAN : ReadFails(error))
           \/ Step \/ UNCHANGED vars
  <2>1. UNCHANGED dataVars
    BY <1>6 DEF Shutdown, Release, WriteErrorCallback, ReadFails, Step, WriteReturn,
       WriteErrorDown, ReadErrorSignal, ReadReturn, SocketConnected, UserReturns, Finalize,
       vars, dataVars
  <2>2. QED
    BY <2>1, <1>5
<1>7. QED
  BY <1>1, <1>2, <1>3, <1>4, <1>6 DEF Next, User, Event

-----------------------------------------------------------------------------
(* The watches and the link.                                               *)

\* What a step may do to the channel and its watches: nothing; close it; set the write
\* watch while it is open; remove the write watch, or the read watch.
IOStep ==
    \/ UNCHANGED ioVars
    \/ io_channel' = FALSE /\ read_watch_id' = FALSE /\ write_watch_id' = FALSE
    \/ io_channel /\ UNCHANGED <<io_channel, read_watch_id>>
    \/ UNCHANGED <<io_channel, read_watch_id>> /\ write_watch_id' = FALSE
    \/ UNCHANGED <<io_channel, write_watch_id>> /\ read_watch_id' = FALSE

\* What it may do to the link: nothing, lose it, or bring it up.
LinkStep ==
    \/ UNCHANGED <<connected, disconnected, link>>
    \/ /\ connected' = FALSE /\ disconnected' = TRUE
       /\ link' = IF ~disconnected /\ held THEN "down" ELSE link
    \/ /\ Running("connected")
       /\ connected' = TRUE /\ disconnected' = disconnected
       /\ link' = IF held THEN "up" ELSE link

FlagStep == /\ IOStep /\ LinkStep
            /\ write_watch_id' \in BOOLEAN /\ write_source' \in BOOLEAN
            /\ write_error_id' \in BOOLEAN
            /\ held' \in BOOLEAN /\ alive' \in BOOLEAN

LEMMA SendFlags ==
    ASSUME FlagsTyped, NEW d \in DataLens, Send(d)
    PROVE  FlagStep
<1>1. /\ UNCHANGED <<connected, disconnected, link, held, alive>>
      /\ \/ UNCHANGED <<ioVars, write_error_id>>
         \/ /\ io_channel /\ write_watch_id' = TRUE
            /\ write_source' = (write_source \/ ~write_watch_id)
            /\ UNCHANGED <<io_channel, read_watch_id, write_error_id>>
         \/ HandleWriteError(write_source)
  BY DEF Send, refVars
<1>2. CASE UNCHANGED <<ioVars, write_error_id>>
  BY <1>1, <1>2 DEF FlagStep, IOStep, LinkStep, FlagsTyped, ioVars
<1>3. CASE /\ io_channel /\ write_watch_id' = TRUE
           /\ write_source' = (write_source \/ ~write_watch_id)
           /\ UNCHANGED <<io_channel, read_watch_id, write_error_id>>
  BY <1>1, <1>3 DEF FlagStep, IOStep, LinkStep, FlagsTyped
<1>4. CASE HandleWriteError(write_source)
  BY <1>1, <1>4 DEF FlagStep, IOStep, LinkStep, FlagsTyped, HandleWriteError
<1>5. QED
  BY <1>1, <1>2, <1>3, <1>4

LEMMA WriteCallbackFlags ==
    ASSUME FlagsTyped, WriteCallback
    PROVE  FlagStep
<1>1. /\ UNCHANGED <<connected, disconnected, link, held, alive>>
      /\ \/ UNCHANGED <<ioVars, write_error_id>>
         \/ /\ write_watch_id' = FALSE /\ write_source' = FALSE
            /\ UNCHANGED <<io_channel, read_watch_id, write_error_id>>
         \/ HandleWriteError(FALSE)
  BY DEF WriteCallback, refVars
<1>2. CASE UNCHANGED <<ioVars, write_error_id>>
  BY <1>1, <1>2 DEF FlagStep, IOStep, LinkStep, FlagsTyped, ioVars
<1>3. CASE /\ write_watch_id' = FALSE /\ write_source' = FALSE
           /\ UNCHANGED <<io_channel, read_watch_id, write_error_id>>
  BY <1>1, <1>3 DEF FlagStep, IOStep, LinkStep, FlagsTyped
<1>4. CASE HandleWriteError(FALSE)
  BY <1>1, <1>4 DEF FlagStep, IOStep, LinkStep, FlagsTyped, HandleWriteError
<1>5. QED
  BY <1>1, <1>2, <1>3, <1>4

\* The channel is closed and the user told.
LEMMA DownFlags ==
    ASSUME FlagsTyped, ShutdownIO, NEW s, SetDisconnected(s),
           UNCHANGED <<held, alive, write_error_id>>
    PROVE  FlagStep
  BY DEF FlagStep, IOStep, LinkStep, FlagsTyped, ShutdownIO, SetDisconnected

LEMMA ReadFlags ==
    ASSUME FlagsTyped, NEW a, NEW b, Read(a, b), UNCHANGED <<held, alive>>
    PROVE  FlagStep
<1>1. \/ UNCHANGED <<ioVars, connected, downVars, link>>
      \/ /\ read_watch_id' = FALSE
         /\ UNCHANGED <<io_channel, write_watch_id, write_source, connected, downVars, link>>
      \/ HandleReadError(TRUE)
  BY DEF Read, HandlePacket, HandleUnknown
<1>2. CASE UNCHANGED <<ioVars, connected, downVars, link>>
  BY <1>2 DEF FlagStep, IOStep, LinkStep, FlagsTyped, ioVars, downVars
<1>3. CASE /\ read_watch_id' = FALSE
           /\ UNCHANGED <<io_channel, write_watch_id, write_source, connected, downVars, link>>
  BY <1>3 DEF FlagStep, IOStep, LinkStep, FlagsTyped, downVars
<1>4. CASE HandleReadError(TRUE)
  BY <1>4, DownFlags DEF HandleReadError
<1>5. QED
  BY <1>1, <1>2, <1>3, <1>4

LEMMA FlagSteps == FlagsTyped /\ [Next]_vars => FlagStep
<1> SUFFICES ASSUME FlagsTyped, [Next]_vars PROVE FlagStep
  OBVIOUS
<1>1. ASSUME NEW d \in DataLens, Send(d) PROVE FlagStep
  BY <1>1, SendFlags
<1>2. CASE Shutdown
  BY <1>2, DownFlags DEF Shutdown, refVars
<1>3. CASE WriteCallback
  BY <1>3, WriteCallbackFlags
<1>4. CASE WriteReturn
  BY <1>4 DEF WriteReturn, FlagStep, IOStep, LinkStep, FlagsTyped, downVars, refVars
<1>5. CASE WriteErrorCallback
  BY <1>5 DEF WriteErrorCallback, FlagStep, IOStep, LinkStep, FlagsTyped, ioVars, refVars
<1>6. CASE WriteErrorDown
  BY <1>6 DEF WriteErrorDown, SetDisconnected, FlagStep, IOStep, LinkStep, FlagsTyped, ioVars,
     refVars
<1>7. CASE ReadCallback
  BY <1>7, ReadFlags DEF ReadCallback, refVars
<1>8. ASSUME NEW error \in BOOLEAN, ReadFails(error) PROVE FlagStep
  BY <1>8, DownFlags DEF ReadFails, HandleReadError, refVars
<1>9. CASE SocketConnected
  BY <1>9 DEF SocketConnected, FlagStep, IOStep, LinkStep, FlagsTyped, ioVars, downVars, refVars
<1>10. CASE Release
  BY <1>10 DEF Release, FlagStep, IOStep, LinkStep, FlagsTyped, ioVars, downVars
<1>11. CASE Finalize
  BY <1>11 DEF Finalize, ShutdownIO, FlagStep, IOStep, LinkStep, FlagsTyped
<1>12. CASE \/ ReadErrorSignal \/ ReadReturn \/ UserReturns \/ UNCHANGED vars
            \/ \E kind \in Kinds : DaemonSends(kind)
  BY <1>12 DEF ReadErrorSignal, ReadReturn, UserReturns, DaemonSends, vars, FlagStep, IOStep,
     LinkStep, FlagsTyped, ioVars, downVars, refVars
<1>13. QED
  BY <1>1, <1>2, <1>3, <1>4, <1>5, <1>6, <1>7, <1>8, <1>9, <1>10, <1>11, <1>12
  DEF Next, User, Event, Step

LEMMA TypeStep == TypeOK /\ [Next]_vars => TypeOK'
<1> SUFFICES ASSUME DataTyped, FlagsTyped, [Next]_vars PROVE DataTyped' /\ FlagsTyped'
  <2>1. TypeOK' <=> DataTyped' /\ FlagsTyped'
    BY DEF TypeOK, DataTyped, FlagsTyped, UnitSeqs
  <2>2. QED
    BY <2>1, TypeSplit
<1>1. FlagStep
  BY FlagSteps
<1>2. FlagsTyped'
  <2>1. /\ connected' \in BOOLEAN /\ disconnected' \in BOOLEAN
        /\ link' \in {"new", "up", "down"}
    BY <1>1 DEF FlagsTyped, FlagStep, LinkStep
  <2>2. /\ io_channel' \in BOOLEAN /\ read_watch_id' \in BOOLEAN
        /\ read_watch_id' \/ write_watch_id' => io_channel'
    <3>1. CASE UNCHANGED ioVars
      BY <3>1 DEF FlagsTyped, ioVars
    <3>2. CASE io_channel' = FALSE /\ read_watch_id' = FALSE /\ write_watch_id' = FALSE
      BY <3>2
    <3>3. CASE io_channel /\ UNCHANGED <<io_channel, read_watch_id>>
      BY <3>3 DEF FlagsTyped
    <3>4. CASE UNCHANGED <<io_channel, read_watch_id>> /\ write_watch_id' = FALSE
      BY <3>4 DEF FlagsTyped
    <3>5. CASE UNCHANGED <<io_channel, write_watch_id>> /\ read_watch_id' = FALSE
      BY <3>5 DEF FlagsTyped
    <3>6. QED
      BY <1>1, <3>1, <3>2, <3>3, <3>4, <3>5 DEF FlagStep, IOStep
  <2>3. QED
    BY <1>1, <2>1, <2>2 DEF FlagsTyped, FlagStep
<1>3. QED
  BY <1>2, DataStep

\* Every reachable state of the socket is well typed, and there is no watch without a
\* descriptor.
THEOREM TypeCorrect == Spec => []TypeOK
<1>1. Init => TypeOK
  <2> SUFFICES ASSUME Init PROVE TypeOK
    OBVIOUS
  <2>1. <<>> \in UnitSeqs /\ <<>> \in Seq(Nat) /\ <<>> \in Seq(Kinds) /\ <<>> \in Seq(DataLens)
        /\ Len(size) = 0
    BY DEF UnitSeqs, Init
  <2>2. DataTyped
    BY <2>1, Lengths DEF Init, DataTyped
  <2>3. FlagsTyped
    <3>1. (SubLen > 0) \in BOOLEAN
      BY Lengths
    <3>2. write_watch_id \in BOOLEAN /\ write_source \in BOOLEAN
      BY <3>1 DEF Init
    <3>3. QED
      BY <3>2 DEF Init, FlagsTyped
  <2>4. QED
    BY <2>2, <2>3, TypeSplit
<1>2. QED
  BY <1>1, TypeStep, PTL DEF Spec

-----------------------------------------------------------------------------
(* What is on the wire.                                                    *)

\* The units of packet p, if sz are the lengths of the data of the packets; the unit that
\* follows u in the stream; and the first one of all.
Full(sz, p)  == IF p = 0 THEN SubLen ELSE HeaderLen + sz[p]
After(sz, u) == IF u[2] < Full(sz, u[1]) THEN <<u[1], u[2] + 1>> ELSE <<u[1] + 1, 1>>
FirstUnit    == IF SubLen > 0 THEN <<0, 1>> ELSE <<1, 1>>

\* w is a beginning of the stream; it goes on after the first j units of packet p.
Unbroken(sz, w) ==
    \A k \in DOMAIN w : /\ w[k][1] \in 0 .. Len(sz)
                        /\ k = 1 => w[k] = FirstUnit
                        /\ k > 1 => w[k] = After(sz, w[k - 1])
GoesOn(sz, w, p, j) ==
    /\ j > 0 => w # <<>> /\ w[Len(w)] = <<p, j>>
    /\ j = 0 /\ w = <<>> => FirstUnit = <<p, 1>>
    /\ j = 0 /\ w # <<>> => After(sz, w[Len(w)]) = <<p, 1>>

LEMMA FullTyped ==
    ASSUME NEW sz \in Seq(DataLens), NEW p \in 0 .. Len(sz)
    PROVE  Full(sz, p) \in Nat /\ (p # 0 => sz[p] \in Nat /\ Full(sz, p) = HeaderLen + sz[p])
<1>1. p # 0 => p \in 1 .. Len(sz)
  OBVIOUS
<1>2. p # 0 => sz[p] \in Nat
  <2>1. p # 0 => sz[p] \in DataLens
    BY <1>1
  <2>2. QED
    BY <2>1, Lengths
<1>3. QED
  BY <1>2, Lengths DEF Full

\* w and then the units of packet p after the first j, up to number k.
Onto(w, p, j, k) == w \o Chunk(p, j, k)

\* v is w with the units of packet p after the first j, up to number k.
Grown(w, v, p, j, k) ==
    /\ v \in UnitSeqs /\ Len(v) = Len(w) + (k - j) /\ Len(w) \in Nat
    /\ \A i \in 1 .. Len(w) : v[i] = w[i]
    /\ \A i \in 1 .. k - j : v[Len(w) + i] = <<p, j + i>>
    /\ DOMAIN w = 1 .. Len(w) /\ DOMAIN v = 1 .. Len(v)
    /\ w = <<>> <=> Len(w) = 0
    /\ v = <<>> <=> Len(v) = 0

LEMMA ChunkOnto ==
    ASSUME NEW w \in UnitSeqs, NEW p \in Nat, NEW j \in Nat, NEW k \in Nat, j <= k
    PROVE  Grown(w, Onto(w, p, j, k), p, j, k)
<1> DEFINE c == Chunk(p, j, k)
<1>1. c \in UnitSeqs
  BY ChunkTyped
<1>2. Len(c) = k - j /\ \A i \in 1 .. k - j : c[i] = <<p, j + i>>
  BY ChunkUnits
<1> HIDE DEF c
<1>3. /\ w \o c \in UnitSeqs /\ Len(w \o c) = Len(w) + Len(c)
      /\ \A i \in 1 .. Len(w) : (w \o c)[i] = w[i]
      /\ \A i \in 1 .. Len(c) : (w \o c)[Len(w) + i] = c[i]
  BY <1>1, UnitSeqsConcat
<1>4. \A s \in UnitSeqs : Len(s) \in Nat /\ DOMAIN s = 1 .. Len(s) /\ (s = <<>> <=> Len(s) = 0)
  BY DEF UnitSeqs
<1> DEFINE v == w \o c
<1> HIDE DEF v
<1>5. /\ v \in UnitSeqs /\ Len(v) = Len(w) + (k - j)
      /\ \A i \in 1 .. Len(w) : v[i] = w[i]
      /\ \A i \in 1 .. k - j : v[Len(w) + i] = <<p, j + i>>
  BY <1>2, <1>3 DEF v
<1>6. Grown(w, v, p, j, k)
  BY <1>4, <1>5 DEF Grown
<1>7. QED
  BY <1>6 DEF v, c, Onto

LEMMA NoChunk ==
    ASSUME NEW w \in UnitSeqs, NEW p \in Nat, NEW j \in Nat
    PROVE  Onto(w, p, j, j) = w
<1>1. Chunk(p, j, j) = <<>>
  BY DEF Chunk
<1> DEFINE S == Nat \X Nat
<1> HIDE DEF S
<1>2. w \in Seq(S)
  BY DEF UnitSeqs, S
<1>3. QED
  BY <1>1, <1>2, ConcatEmptySeq DEF Onto

\* The stream stays unbroken when a packet goes on where it was left.
LEMMA StreamGrown ==
    ASSUME NEW sz \in Seq(DataLens), NEW w, NEW v, Unbroken(sz, w),
           NEW p \in 0 .. Len(sz), NEW j \in Nat, NEW k \in Nat, j < k, k <= Full(sz, p),
           GoesOn(sz, w, p, j), Grown(w, v, p, j, k)
    PROVE  Unbroken(sz, v) /\ GoesOn(sz, v, p, k)
<1>1. /\ Len(w) \in Nat /\ Len(v) = Len(w) + (k - j) /\ DOMAIN w = 1 .. Len(w)
      /\ DOMAIN v = 1 .. Len(v) /\ (v = <<>> <=> Len(v) = 0)
      /\ w = <<>> <=> Len(w) = 0
      /\ \A i \in 1 .. Len(w) : v[i] = w[i]
      /\ \A i \in 1 .. k - j : v[Len(w) + i] = <<p, j + i>>
  BY Zenon DEF Grown
<1>2. v # <<>>
  BY <1>1
<1> USE <1>1, <1>2
<1>3. p \in Nat
  OBVIOUS
<1>4. Full(sz, p) \in Nat
  BY FullTyped
<1>5. ASSUME NEW m \in 1 .. Len(v)
      PROVE  /\ v[m][1] \in 0 .. Len(sz)
             /\ m = 1 => v[m] = FirstUnit
             /\ m > 1 => v[m] = After(sz, v[m - 1])
  <2>1. CASE m <= Len(w)
    <3>1. m \in 1 .. Len(w) /\ (m > 1 => m - 1 \in 1 .. Len(w))
      BY <2>1
    <3>2. v[m] = w[m] /\ (m > 1 => v[m - 1] = w[m - 1])
      BY <3>1
    <3>3. QED
      BY <3>1, <3>2 DEF Unbroken
  <2>2. CASE m = Len(w) + 1
    <3>1. v[m] = <<p, j + 1>>
      BY <2>2, SMTT(30)
    <3>2. CASE w = <<>>
      BY <2>2, <3>1, <3>2 DEF GoesOn
    <3>3. CASE w # <<>>
      <4>1. v[m - 1] = w[Len(w)] /\ m > 1
        BY <2>2, <3>3, SMTT(30)
      <4>2. j > 0 => w[Len(w)] = <<p, j>>
        BY DEF GoesOn
      <4>3. j > 0 => After(sz, <<p, j>>) = <<p, j + 1>>
        BY <1>4, SMTT(30) DEF After
      <4>4. j = 0 => <<p, 1>> = After(sz, w[Len(w)])
        BY <3>3 DEF GoesOn
      <4>5. v[m] = After(sz, v[m - 1])
        <5>1. CASE j = 0
          BY <3>1, <4>1, <4>4, <5>1
        <5>2. CASE j > 0
          BY <3>1, <4>1, <4>2, <4>3, <5>2
        <5>3. QED
          BY <5>1, <5>2
      <4>6. v[m][1] \in 0 .. Len(sz)
        BY <3>1
      <4>7. QED
        BY <4>1, <4>5, <4>6, <2>2
    <3>4. QED
      BY <3>2, <3>3
  <2>3. CASE m > Len(w) + 1
    <3>1. PICK i \in 2 .. k - j : m = Len(w) + i
      <4>1. m - Len(w) \in 2 .. k - j /\ m = Len(w) + (m - Len(w))
        BY <2>3
      <4>2. QED
        BY <4>1
    <3>2. v[m] = <<p, j + i>> /\ v[m - 1] = <<p, j + (i - 1)>>
      <4>1. i \in 1 .. k - j /\ i - 1 \in 1 .. k - j /\ m - 1 = Len(w) + (i - 1)
        BY <3>1
      <4>2. v[Len(w) + (i - 1)] = <<p, j + (i - 1)>>
        BY <4>1
      <4>3. QED
        BY <3>1, <4>1, <4>2
    <3>3. j + (i - 1) < Full(sz, p) /\ j + (i - 1) + 1 = j + i
      BY <1>4, <3>1, SMTT(30)
    <3>4. After(sz, <<p, j + (i - 1)>>) = <<p, j + i>>
      BY <3>3 DEF After
    <3>5. QED
      BY <1>3, <2>3, <3>2, <3>4
  <2>4. QED
    BY <2>1, <2>2, <2>3, SMTT(30)
<1>6. v[Len(v)] = <<p, k>> /\ v # <<>>
  <2>1. k - j \in 1 .. k - j /\ j + (k - j) = k
    OBVIOUS
  <2>2. v[Len(w) + (k - j)] = <<p, j + (k - j)>>
    BY <2>1
  <2>3. QED
    BY <2>1, <2>2
<1>7. Unbroken(sz, v)
  BY <1>5 DEF Unbroken
<1>8. k > 0
  OBVIOUS
<1>9. GoesOn(sz, v, p, k)
  BY <1>6, <1>8 DEF GoesOn
<1>10. QED
  BY <1>7, <1>9

LEMMA StreamExtended ==
    ASSUME NEW sz \in Seq(DataLens), NEW w \in UnitSeqs, Unbroken(sz, w),
           NEW p \in 0 .. Len(sz), NEW j \in Nat, NEW k \in Nat, j <= k, k <= Full(sz, p),
           GoesOn(sz, w, p, j), NEW v, v = Onto(w, p, j, k)
    PROVE  Unbroken(sz, v) /\ GoesOn(sz, v, p, k)
<1>1. p \in Nat
  OBVIOUS
<1>2. CASE j = k
  <2>1. v = w
    BY <1>1, <1>2, NoChunk
  <2>2. QED
    BY <1>2, <2>1
<1>3. CASE j < k
  <2>1. Grown(w, v, p, j, k)
    BY <1>1, ChunkOnto
  <2>2. QED
    BY <2>1, <1>3, StreamGrown
<1>4. QED
  BY <1>2, <1>3

\* Once a packet is complete the stream goes on with the next one.
LEMMA NextPacket ==
    ASSUME NEW sz \in Seq(DataLens), NEW w, NEW p \in 0 .. Len(sz),
           Full(sz, p) > 0, GoesOn(sz, w, p, Full(sz, p))
    PROVE  GoesOn(sz, w, p + 1, 0)
<1>1. Full(sz, p) \in Nat
  BY FullTyped
<1>2. w # <<>> /\ w[Len(w)] = <<p, Full(sz, p)>>
  BY <1>1 DEF GoesOn
<1>3. After(sz, <<p, Full(sz, p)>>) = <<p + 1, 1>>
  BY <1>1 DEF After
<1>4. QED
  BY <1>2, <1>3 DEF GoesOn

\* What is sent later changes nothing of what there is.
LEMMA SizesAppended ==
    ASSUME NEW sz \in Seq(DataLens), NEW d \in DataLens, NEW w \in UnitSeqs, Unbroken(sz, w)
    PROVE  /\ \A p \in 0 .. Len(sz) : Full(Append(sz, d), p) = Full(sz, p)
           /\ Unbroken(Append(sz, d), w)
           /\ \A p, j : GoesOn(sz, w, p, j) => GoesOn(Append(sz, d), w, p, j)
<1> DEFINE sy == Append(sz, d)
<1>1. /\ Len(sz) \in Nat /\ Len(sy) = Len(sz) + 1
      /\ \A p \in 1 .. Len(sz) : sy[p] = sz[p]
  OBVIOUS
<1> HIDE DEF sy
<1>2. \A p \in 0 .. Len(sz) : Full(sy, p) = Full(sz, p)
  BY <1>1 DEF Full
<1>3. Len(w) \in Nat /\ DOMAIN w = 1 .. Len(w) /\ (w # <<>> => Len(w) > 0)
  BY DEF UnitSeqs
<1>4. \A k \in 1 .. Len(w) : After(sy, w[k]) = After(sz, w[k])
  BY <1>2, <1>3 DEF Unbroken, After
<1>5. Unbroken(sy, w)
  <2> SUFFICES ASSUME NEW k \in 1 .. Len(w)
               PROVE  /\ w[k][1] \in 0 .. Len(sy)
                      /\ k = 1 => w[k] = FirstUnit
                      /\ k > 1 => w[k] = After(sy, w[k - 1])
    BY <1>3 DEF Unbroken
  <2>1. k > 1 => k - 1 \in 1 .. Len(w)
    BY <1>3
  <2>2. k > 1 => After(sy, w[k - 1]) = After(sz, w[k - 1])
    BY <1>4, <2>1
  <2>3. QED
    BY <1>1, <1>3, <2>2 DEF Unbroken
<1>6. ASSUME NEW p, NEW j, GoesOn(sz, w, p, j) PROVE GoesOn(sy, w, p, j)
  <2>1. w # <<>> => After(sy, w[Len(w)]) = After(sz, w[Len(w)])
    BY <1>3, <1>4
  <2>2. QED
    BY <1>6, <2>1 DEF GoesOn
<1>7. QED
  BY <1>2, <1>5, <1>6 DEF sy

\* What was written and reported: packets are reported in order, when their last unit is
\* on the wire; beyond the reported ones there is at most a part of the next one.
WirePart(sz, w, wr) ==
    /\ Unbroken(sz, w)
    /\ Len(wr) <= Len(sz) /\ \A j \in DOMAIN wr : wr[j] = j
    /\ \A p \in 1 .. Len(wr) : \E k \in DOMAIN w : w[k] = <<p, Full(sz, p)>>
    /\ \A k \in DOMAIN w :
         /\ w[k][1] <= Len(wr) + 1
         /\ w[k][1] = Len(wr) + 1 => w[k][2] < Full(sz, Len(wr) + 1)

\* Where the positions of the transport say that the wire ends.
Partly(sz, sub, p, h, d) ==
    /\ d > 0 => h = HeaderLen
    /\ sub < SubLen => h = 0 /\ d = 0
    /\ h + d < Full(sz, p)
Position(sz, w, wr, sub, p, h, d) ==
    /\ sub < SubLen => Len(wr) = 0 /\ GoesOn(sz, w, 0, sub)
    /\ p = 0 => /\ Len(sz) = Len(wr)
                /\ sub = SubLen => GoesOn(sz, w, Len(wr) + 1, 0)
    /\ p # 0 => /\ Len(sz) = Len(wr) + 1 /\ p = Len(sz)
                /\ Partly(sz, sub, p, h, d)
                /\ sub = SubLen => GoesOn(sz, w, p, h + d)

LEMMA ChunkKeeps ==
    ASSUME NEW sz \in Seq(DataLens), NEW w \in UnitSeqs, NEW wr \in Seq(Nat),
           WirePart(sz, w, wr),
           NEW p \in 0 .. Len(sz), NEW j \in Nat, NEW k \in Nat, j <= k, k <= Full(sz, p),
           GoesOn(sz, w, p, j), p <= Len(wr) + 1, p = Len(wr) + 1 => k < Full(sz, p)
    PROVE  /\ Onto(w, p, j, k) \in UnitSeqs
           /\ WirePart(sz, Onto(w, p, j, k), wr)
           /\ GoesOn(sz, Onto(w, p, j, k), p, k)
<1>1. p \in Nat /\ Len(wr) \in Nat /\ Full(sz, p) \in Nat
  BY FullTyped
<1>2. PICK v : v = Onto(w, p, j, k)
  OBVIOUS
<1>3. Grown(w, v, p, j, k)
  BY <1>1, <1>2, ChunkOnto
<1>4. Unbroken(sz, v) /\ GoesOn(sz, v, p, k)
  BY <1>2, StreamExtended DEF WirePart
<1>5. WirePart(sz, v, wr)
  <2>1. ASSUME NEW i \in DOMAIN v
        PROVE  /\ v[i][1] <= Len(wr) + 1
               /\ v[i][1] = Len(wr) + 1 => v[i][2] < Full(sz, Len(wr) + 1)
    <3>1. CASE i \in DOMAIN w
      <4>1. v[i] = w[i]
        BY <1>3, <3>1 DEF Grown
      <4>2. QED
        BY <3>1, <4>1 DEF WirePart
    <3>2. CASE i \notin DOMAIN w
      <4>1. i - Len(w) \in 1 .. k - j /\ i = Len(w) + (i - Len(w))
        BY <1>3, <3>2, SMTT(30) DEF Grown
      <4>2. v[i] = <<p, j + (i - Len(w))>>
        BY <1>3, <4>1 DEF Grown
      <4>3. j + (i - Len(w)) <= k /\ j + (i - Len(w)) \in Nat
        BY <4>1
      <4>4. p = Len(wr) + 1 => j + (i - Len(w)) < Full(sz, p)
        BY <1>1, <4>3
      <4>5. QED
        BY <4>2, <4>4
    <3>3. QED
      BY <3>1, <3>2
  <2>2. ASSUME NEW q \in 1 .. Len(wr)
        PROVE  \E i \in DOMAIN v : v[i] = <<q, Full(sz, q)>>
    <3>1. PICK i \in DOMAIN w : w[i] = <<q, Full(sz, q)>>
      BY DEF WirePart
    <3>2. i \in DOMAIN v /\ v[i] = w[i]
      BY <1>3, SMTT(30) DEF Grown
    <3>3. QED
      BY <3>1, <3>2
  <2>3. QED
    BY <1>4, <2>1, <2>2 DEF WirePart
<1>6. v \in UnitSeqs
  BY <1>3 DEF Grown
<1>7. QED
  BY <1>2, <1>4, <1>5, <1>6

\* The last unit of a packet is written, and the packet reported.
LEMMA ChunkCompletes ==
    ASSUME NEW sz \in Seq(DataLens), NEW w \in UnitSeqs, NEW wr \in Seq(Nat),
           WirePart(sz, w, wr),
           NEW p \in 1 .. Len(sz), p = Len(wr) + 1, NEW j \in Nat, j <= Full(sz, p),
           GoesOn(sz, w, p, j)
    PROVE  /\ Onto(w, p, j, Full(sz, p)) \in UnitSeqs
           /\ WirePart(sz, Onto(w, p, j, Full(sz, p)), Append(wr, p))
           /\ GoesOn(sz, Onto(w, p, j, Full(sz, p)), p + 1, 0)
<1>1. /\ p \in 0 .. Len(sz) /\ p \in Nat /\ Len(wr) \in Nat
      /\ Full(sz, p) \in Nat /\ Full(sz, p) > 0
  <2>1. p \in 0 .. Len(sz) /\ p \in Nat /\ p # 0 /\ Len(wr) \in Nat
    OBVIOUS
  <2>2. Full(sz, p) \in Nat /\ sz[p] \in Nat /\ Full(sz, p) = HeaderLen + sz[p]
    BY <2>1, FullTyped
  <2>3. QED
    BY <2>1, <2>2, Lengths
<1>2. PICK k \in Nat : k = Full(sz, p)
  BY <1>1
<1>3. PICK v : v = Onto(w, p, j, k)
  OBVIOUS
<1>4. Grown(w, v, p, j, k)
  BY <1>1, <1>2, <1>3, ChunkOnto
<1>5. Unbroken(sz, v) /\ GoesOn(sz, v, p, k)
  <2>1. Unbroken(sz, w)
    BY DEF WirePart
  <2>2. j <= k /\ k <= Full(sz, p)
    BY <1>1, <1>2
  <2>3. QED
    BY <1>1, <1>3, <2>1, <2>2, StreamExtended
<1>6. GoesOn(sz, v, p + 1, 0)
  BY <1>1, <1>2, <1>5, NextPacket
<1>7. PICK wq : wq = Append(wr, p)
  OBVIOUS
<1>8. /\ Len(wq) = Len(wr) + 1 /\ DOMAIN wq = 1 .. Len(wr) + 1
      /\ \A i \in 1 .. Len(wr) : wq[i] = wr[i]
      /\ wq[Len(wr) + 1] = p /\ DOMAIN wr = 1 .. Len(wr)
  BY <1>1, <1>7
<1>9. WirePart(sz, v, wq)
  <2>1. ASSUME NEW i \in DOMAIN v
        PROVE  v[i][1] <= Len(wr) + 1
    <3>1. CASE i \in DOMAIN w
      <4>1. v[i] = w[i]
        BY <1>4, <3>1 DEF Grown
      <4>2. QED
        BY <3>1, <4>1 DEF WirePart
    <3>2. CASE i \notin DOMAIN w
      <4>1. i - Len(w) \in 1 .. k - j /\ i = Len(w) + (i - Len(w))
        BY <1>4, <3>2 DEF Grown
      <4>2. v[i] = <<p, j + (i - Len(w))>>
        BY <1>4, <4>1 DEF Grown
      <4>3. QED
        BY <1>1, <4>2
    <3>3. QED
      BY <3>1, <3>2
  <2>2. \A i \in DOMAIN v : v[i][1] \in Nat
    BY <1>5 DEF Unbroken
  <2>3. ASSUME NEW q \in 1 .. Len(wq)
        PROVE  \E i \in DOMAIN v : v[i] = <<q, Full(sz, q)>>
    <3>1. CASE q \in 1 .. Len(wr)
      <4>1. PICK i \in DOMAIN w : w[i] = <<q, Full(sz, q)>>
        BY <3>1 DEF WirePart
      <4>2. i \in DOMAIN v /\ v[i] = w[i]
        BY <1>1, <1>2, <1>4, SMTT(30) DEF Grown
      <4>3. QED
        BY <4>1, <4>2
    <3>2. CASE q = p
      <4>1. v # <<>> /\ v[Len(v)] = <<p, k>>
        BY <1>1, <1>2, <1>5 DEF GoesOn
      <4>2. Len(v) \in DOMAIN v
        BY <1>4, <4>1 DEF Grown, UnitSeqs
      <4>3. QED
        BY <1>2, <3>2, <4>1, <4>2
    <3>3. QED
      BY <1>1, <1>8, <3>1, <3>2
  <2>4. \A i \in DOMAIN wq : wq[i] = i
    BY <1>1, <1>8 DEF WirePart
  <2>5. Len(wq) <= Len(sz)
    BY <1>8
  <2>6. \A i \in DOMAIN v :
          /\ v[i][1] <= Len(wq) + 1
          /\ v[i][1] = Len(wq) + 1 => v[i][2] < Full(sz, Len(wq) + 1)
    BY <1>1, <1>8, <2>1, <2>2
  <2>7. QED
    BY <1>5, <2>3, <2>4, <2>5, <2>6 DEF WirePart
<1>10. v \in UnitSeqs
  BY <1>4 DEF Grown
<1>11. QED
  BY <1>2, <1>3, <1>6, <1>7, <1>9, <1>10

\* Parts of one packet that were written one after the other.
LEMMA ChunksJoined ==
    ASSUME NEW w \in UnitSeqs, NEW p \in Nat, NEW i \in Nat, NEW j \in Nat, NEW k \in Nat,
           i <= j, j <= k
    PROVE  Onto(Onto(w, p, i, j), p, j, k) = Onto(w, p, i, k)
<1>1. PICK u : u = Onto(w, p, i, j)
  OBVIOUS
<1>2. Grown(w, u, p, i, j)
  BY <1>1, ChunkOnto
<1>3. PICK v : v = Onto(u, p, j, k)
  OBVIOUS
<1>4. u \in UnitSeqs
  BY <1>2 DEF Grown
<1>5. Grown(u, v, p, j, k)
  BY <1>3, <1>4, ChunkOnto
<1>6. i <= k
  OBVIOUS
<1>7. PICK x : x = Onto(w, p, i, k)
  OBVIOUS
<1>8. Grown(w, x, p, i, k)
  BY <1>6, <1>7, ChunkOnto
<1>9. Len(v) = Len(x) /\ Len(w) \in Nat /\ Len(u) = Len(w) + (j - i) /\ Len(v) = Len(w) + (k - i)
  BY <1>2, <1>5, <1>8 DEF Grown
<1>10. ASSUME NEW m \in 1 .. Len(v) PROVE v[m] = x[m]
  <2>1. CASE m <= Len(w)
    <3>1. m \in 1 .. Len(w) /\ m \in 1 .. Len(u)
      BY <1>9, <2>1
    <3>2. v[m] = u[m] /\ u[m] = w[m] /\ x[m] = w[m]
      BY <3>1, <1>2, <1>5, <1>8 DEF Grown
    <3>3. QED
      BY <3>2
  <2>2. CASE m > Len(w) /\ m <= Len(u)
    <3>1. PICK n \in 1 .. j - i : m = Len(w) + n
      <4>1. m - Len(w) \in 1 .. j - i /\ m = Len(w) + (m - Len(w))
        BY <1>9, <2>2
      <4>2. QED
        BY <4>1
    <3>2. m \in 1 .. Len(u) /\ n \in 1 .. k - i
      BY <1>9, <2>2
    <3>3. v[m] = u[m]
      BY <3>2, <1>5 DEF Grown
    <3>4. u[Len(w) + n] = <<p, i + n>>
      BY <1>2 DEF Grown
    <3>5. x[Len(w) + n] = <<p, i + n>>
      BY <3>2, <1>8 DEF Grown
    <3>6. QED
      BY <3>1, <3>3, <3>4, <3>5
  <2>3. CASE m > Len(u)
    <3>1. PICK n \in 1 .. k - j : m = Len(u) + n
      <4>1. m - Len(u) \in 1 .. k - j /\ m = Len(u) + (m - Len(u))
        BY <1>9, <2>3
      <4>2. QED
        BY <4>1
    <3>2. (j - i) + n \in 1 .. k - i /\ m = Len(w) + ((j - i) + n) /\ i + ((j - i) + n) = j + n
      BY <1>9, <3>1
    <3>3. v[Len(u) + n] = <<p, j + n>>
      BY <1>5 DEF Grown
    <3>4. x[Len(w) + ((j - i) + n)] = <<p, i + ((j - i) + n)>>
      BY <3>2, <1>8 DEF Grown
    <3>5. QED
      BY <3>1, <3>2, <3>3, <3>4
  <2>4. QED
    BY <1>9, <2>1, <2>2, <2>3
<1>11. v \in UnitSeqs /\ x \in UnitSeqs
  BY <1>5, <1>8 DEF Grown
<1>12. v = x
  BY <1>9, <1>10, <1>11, SeqEqual DEF UnitSeqs
<1>13. QED
  BY <1>1, <1>3, <1>7, <1>12

\* From position h of the header and d of the data to g and e: the data begin once the
\* header is written.
InOrder(h, d, g, e) ==
    /\ h \in Nat /\ g \in Nat /\ h <= g /\ g <= HeaderLen
    /\ d \in Nat /\ e \in Nat /\ d <= e
    /\ d > 0 => h = HeaderLen
    /\ e > d => g = HeaderLen

LEMMA PacketPart ==
    ASSUME NEW w \in UnitSeqs, NEW p \in Nat, NEW h, NEW d, NEW g, NEW e, InOrder(h, d, g, e)
    PROVE  /\ Onto(Onto(w, p, h, g), p, HeaderLen + d, HeaderLen + e)
                = Onto(w, p, h + d, g + e)
           /\ h + d \in Nat /\ g + e \in Nat /\ h + d <= g + e
<1>1. /\ h \in Nat /\ g \in Nat /\ h <= g /\ g <= HeaderLen
      /\ d \in Nat /\ e \in Nat /\ d <= e
      /\ d > 0 => h = HeaderLen
      /\ e > d => g = HeaderLen
  BY DEF InOrder
<1> USE <1>1
<1>2. PICK hd : hd = HeaderLen + d
  OBVIOUS
<1>3. PICK he : he = HeaderLen + e
  OBVIOUS
<1>4. PICK i : i = h + d
  OBVIOUS
<1>5. PICK k : k = g + e
  OBVIOUS
<1>6. hd \in Nat /\ he \in Nat /\ i \in Nat /\ k \in Nat /\ i <= k /\ hd <= he
  BY <1>2, <1>3, <1>4, <1>5, Lengths
<1>7. Onto(Onto(w, p, h, g), p, hd, he) = Onto(w, p, i, k)
  <2>1. CASE d > 0
    <3>1. h = g /\ hd = i /\ he = k
      BY <2>1, <1>2, <1>3, <1>4, <1>5, Lengths
    <3>2. Onto(w, p, h, h) = w
      BY NoChunk
    <3>3. QED
      BY <3>1, <3>2
  <2>2. CASE d = 0 /\ e = 0
    <3>1. i = h /\ k = g /\ he = hd
      BY <2>2, <1>2, <1>3, <1>4, <1>5, Lengths
    <3>2. Onto(w, p, h, g) \in UnitSeqs
      BY ChunkTyped, UnitSeqsConcat DEF Onto
    <3>3. Onto(Onto(w, p, h, g), p, hd, hd) = Onto(w, p, h, g)
      BY <1>6, <3>2, NoChunk
    <3>4. QED
      BY <3>1, <3>3
  <2>3. CASE d = 0 /\ e > 0
    <3>1. hd = g /\ i = h /\ he = k /\ g <= k
      BY <2>3, <1>2, <1>3, <1>4, <1>5, Lengths
    <3>2. Onto(Onto(w, p, h, g), p, g, k) = Onto(w, p, h, k)
      <4>1. h <= g /\ g <= k /\ k \in Nat
        BY <1>6, <3>1
      <4>2. QED
        BY <4>1, ChunksJoined
    <3>3. QED
      BY <3>1, <3>2
  <2>4. QED
    BY <2>1, <2>2, <2>3
<1>8. QED
  BY <1>2, <1>3, <1>4, <1>5, <1>6, <1>7

\* A write goes on with the subscription, which may be over then.
LEMMA SubscriptionWritten ==
    ASSUME NEW sz \in Seq(DataLens), NEW w \in UnitSeqs, NEW wr \in Seq(Nat),
           WirePart(sz, w, wr), NEW sub \in 0 .. SubLen, NEW t \in sub .. SubLen,
           NEW p \in 0 .. Len(sz), NEW h \in Nat, NEW d \in Nat,
           Position(sz, w, wr, sub, p, h, d), NEW v, v = Onto(w, 0, sub, t)
    PROVE  /\ v \in UnitSeqs
           /\ WirePart(sz, v, wr)
           /\ Position(sz, v, wr, t, p, h, d)
<1>1. sub \in Nat /\ t \in Nat /\ sub <= t /\ t <= SubLen /\ SubLen \in Nat /\ Len(sz) \in Nat
  BY Lengths
<1>2. 0 \in 0 .. Len(sz) /\ 0 \in Nat /\ Full(sz, 0) = SubLen
  BY <1>1 DEF Full
<1>3. CASE sub = SubLen
  <2>1. t = sub
    BY <1>1, <1>3
  <2>2. v = w
    BY <1>1, <1>2, <2>1, NoChunk
  <2>3. QED
    BY <2>1, <2>2
<1>4. CASE sub < SubLen
  <2>1. Len(wr) = 0 /\ GoesOn(sz, w, 0, sub)
    BY <1>4 DEF Position
  <2>2. v \in UnitSeqs /\ WirePart(sz, v, wr) /\ GoesOn(sz, v, 0, t)
    <3>1. 0 <= Len(wr) + 1 /\ (0 = Len(wr) + 1 => t < Full(sz, 0))
      BY <2>1
    <3>2. QED
      BY <1>1, <1>2, <2>1, <3>1, ChunkKeeps
  <2>3. t = SubLen => GoesOn(sz, v, 1, 0)
    <3>1. t = SubLen => SubLen > 0
      BY <1>1, <1>4
    <3>2. t = SubLen => GoesOn(sz, v, 0 + 1, 0)
      BY <1>2, <2>2, <3>1, NextPacket
    <3>3. QED
      BY <3>2
  <2>4. p # 0 => h = 0 /\ d = 0 /\ h + d = 0
    BY <1>4 DEF Position, Partly
  <2>5. p # 0 => Partly(sz, t, p, h, d)
    BY <1>4 DEF Position, Partly
  <2>6. Position(sz, v, wr, t, p, h, d)
    <3>1. t < SubLen => Len(wr) = 0 /\ GoesOn(sz, v, 0, t)
      BY <2>1, <2>2
    <3>2. p = 0 => /\ Len(sz) = Len(wr)
                   /\ t = SubLen => GoesOn(sz, v, Len(wr) + 1, 0)
      <4>1. Len(wr) + 1 = 1
        BY <2>1
      <4>2. QED
        BY <2>3, <4>1 DEF Position
    <3>3. p # 0 => /\ Len(sz) = Len(wr) + 1 /\ p = Len(sz)
                   /\ t = SubLen => GoesOn(sz, v, p, h + d)
      <4>1. p # 0 => Len(sz) = Len(wr) + 1 /\ p = Len(sz) /\ p = 1
        BY <2>1 DEF Position
      <4>2. QED
        BY <2>3, <2>4, <4>1
    <3>4. QED
      BY <2>5, <3>1, <3>2, <3>3 DEF Position
  <2>7. QED
    BY <2>2, <2>6
<1>5. QED
  BY <1>1, <1>3, <1>4

\* It goes on with the packet, and does not get to its end.
LEMMA PacketPartWritten ==
    ASSUME NEW sz \in Seq(DataLens), NEW w \in UnitSeqs, NEW wr \in Seq(Nat),
           WirePart(sz, w, wr), NEW p \in 1 .. Len(sz),
           NEW h \in Nat, NEW d \in Nat, Position(sz, w, wr, SubLen, p, h, d),
           NEW g \in Nat, h <= g, g <= HeaderLen, NEW e \in Nat, d <= e,
           \/ g < HeaderLen /\ e = d
           \/ g = HeaderLen /\ e < sz[p],
           NEW v, v = Onto(Onto(w, p, h, g), p, HeaderLen + d, HeaderLen + e)
    PROVE  /\ v \in UnitSeqs
           /\ WirePart(sz, v, wr)
           /\ Position(sz, v, wr, SubLen, p, g, e)
<1>1. /\ p \in 0 .. Len(sz) /\ p \in Nat /\ p # 0 /\ Len(sz) \in Nat /\ HeaderLen \in Nat
      /\ SubLen \in Nat
  BY Lengths
<1>2. sz[p] \in Nat /\ Full(sz, p) = HeaderLen + sz[p]
  BY <1>1, FullTyped
<1>3. /\ Len(sz) = Len(wr) + 1 /\ p = Len(sz) /\ GoesOn(sz, w, p, h + d)
      /\ d > 0 => h = HeaderLen
  BY <1>1 DEF Position, Partly
<1>4. e > d => g = HeaderLen
  BY <1>1
<1>5. /\ v = Onto(w, p, h + d, g + e) /\ h + d \in Nat /\ g + e \in Nat /\ h + d <= g + e
  <2>1. /\ Onto(Onto(w, p, h, g), p, HeaderLen + d, HeaderLen + e) = Onto(w, p, h + d, g + e)
        /\ h + d \in Nat /\ g + e \in Nat /\ h + d <= g + e
    <3>1. InOrder(h, d, g, e)
      BY <1>1, <1>3, <1>4 DEF InOrder
    <3>2. QED
      BY <1>1, <3>1, PacketPart
  <2>2. QED
    BY <2>1, Zenon
<1>6. e > 0 => g = HeaderLen
  BY <1>1, <1>3
<1>7. g + e < Full(sz, p)
  BY <1>1, <1>2, <1>6, SMTT(30)
<1>8. PICK j \in Nat : j = h + d
  BY <1>5
<1>9. PICK k \in Nat : k = g + e
  BY <1>5
<1>10. v \in UnitSeqs /\ WirePart(sz, v, wr) /\ GoesOn(sz, v, p, k)
  <2>1. /\ v = Onto(w, p, j, k) /\ j <= k /\ k <= Full(sz, p) /\ GoesOn(sz, w, p, j)
        /\ p <= Len(wr) + 1 /\ (p = Len(wr) + 1 => k < Full(sz, p))
    BY <1>1, <1>2, <1>3, <1>5, <1>7, <1>8, <1>9, SMTT(30)
  <2>2. QED
    BY <1>1, <2>1, ChunkKeeps
<1>11. Partly(sz, SubLen, p, g, e)
  BY <1>1, <1>6, <1>7 DEF Partly
<1>12. Position(sz, v, wr, SubLen, p, g, e)
  BY <1>1, <1>3, <1>9, <1>10, <1>11 DEF Position
<1>13. QED
  BY <1>10, <1>12

\* It gets to the end of the packet, which is reported.
LEMMA PacketWritten ==
    ASSUME NEW sz \in Seq(DataLens), NEW w \in UnitSeqs, NEW wr \in Seq(Nat),
           WirePart(sz, w, wr), NEW p \in 1 .. Len(sz),
           NEW h \in Nat, NEW d \in Nat, Position(sz, w, wr, SubLen, p, h, d),
           h <= HeaderLen, d <= sz[p], NEW v,
           v = Onto(Onto(w, p, h, HeaderLen), p, HeaderLen + d, HeaderLen + sz[p])
    PROVE  /\ v \in UnitSeqs
           /\ WirePart(sz, v, Append(wr, p))
           /\ \A h2, d2 : Position(sz, v, Append(wr, p), SubLen, 0, h2, d2)
<1>1. /\ p \in 0 .. Len(sz) /\ p \in Nat /\ p # 0 /\ Len(sz) \in Nat /\ HeaderLen \in Nat
      /\ SubLen \in Nat
  BY Lengths
<1>2. sz[p] \in Nat /\ Full(sz, p) = HeaderLen + sz[p]
  BY <1>1, FullTyped
<1>3. /\ Len(sz) = Len(wr) + 1 /\ p = Len(sz) /\ GoesOn(sz, w, p, h + d)
      /\ d > 0 => h = HeaderLen
  BY <1>1 DEF Position, Partly
<1>4. PICK e \in Nat : e = sz[p]
  BY <1>2
<1>5. /\ v = Onto(w, p, h + d, HeaderLen + e) /\ h + d \in Nat
      /\ h + d <= HeaderLen + e
  <2>1. HeaderLen <= HeaderLen /\ d <= e /\ (e > d => HeaderLen = HeaderLen)
    BY <1>1, <1>4
  <2>2. /\ Onto(Onto(w, p, h, HeaderLen), p, HeaderLen + d, HeaderLen + e)
              = Onto(w, p, h + d, HeaderLen + e)
        /\ h + d \in Nat /\ h + d <= HeaderLen + e
    <3>1. InOrder(h, d, HeaderLen, e)
      BY <1>1, <1>3, <2>1 DEF InOrder
    <3>2. QED
      BY <1>1, <3>1, PacketPart
  <2>3. QED
    BY <1>4, <2>2, Zenon
<1>6. PICK j \in Nat : j = h + d
  BY <1>5
<1>7. v = Onto(w, p, j, Full(sz, p)) /\ j <= Full(sz, p) /\ GoesOn(sz, w, p, j) /\ p = Len(wr) + 1
  BY <1>2, <1>3, <1>4, <1>5, <1>6
<1>8. v \in UnitSeqs /\ WirePart(sz, v, Append(wr, p)) /\ GoesOn(sz, v, p + 1, 0)
  BY <1>7, ChunkCompletes
<1>9. Len(Append(wr, p)) = p
  BY <1>1, <1>3
<1>10. ASSUME NEW h2, NEW d2 PROVE Position(sz, v, Append(wr, p), SubLen, 0, h2, d2)
  BY <1>1, <1>3, <1>8, <1>9 DEF Position
<1>11. QED
  BY <1>8, <1>10

\* The outcomes of a write: the packet does not go on; it does, but not to its end; it is
\* sent.
LEMMA OutcomeKinds ==
    ASSUME NEW p, NEW h \in 0 .. HeaderLen, NEW d \in Nat, sub_pos \in 0 .. SubLen,
           size' \in Seq(DataLens), p \in 0 .. Len(size'),
           NEW o \in WriteOutcomes(p, h, d)
    PROVE  \/ o.header = h /\ o.data = d /\ o.result # "sent"
           \/ /\ o.sub = SubLen /\ p # 0 /\ o.result # "sent"
              /\ \/ o.header < HeaderLen /\ o.data = d
                 \/ o.header = HeaderLen /\ o.data < size'[p]
           \/ /\ o.sub = SubLen /\ p # 0 /\ o.result = "sent"
              /\ o.header = HeaderLen /\ o.data = size'[p] /\ d <= size'[p]
<1>1. p # 0 => size'[p] \in Nat
  <2>1. p # 0 => p \in 1 .. Len(size')
    OBVIOUS
  <2>2. p # 0 => size'[p] \in DataLens
    BY <2>1
  <2>3. QED
    BY <2>2, Lengths
<1>2. PICK n : n = IF p = 0 THEN 0 ELSE size'[p]
  OBVIOUS
<1>3. n \in Nat /\ (p # 0 => n = size'[p])
  BY <1>1, <1>2
<1>4. /\ o.sub \in sub_pos .. SubLen /\ o.header \in h .. HeaderLen /\ o.data \in d .. n
      /\ IF o.sub < SubLen
         THEN o.result # "sent" /\ o.header = h /\ o.data = d
         ELSE IF ~connected \/ p = 0
         THEN o.result # "sent" /\ o.header = h /\ o.data = d
         ELSE IF o.header < HeaderLen
         THEN o.result # "sent" /\ o.data = d
         ELSE IF o.data < n
         THEN o.result # "sent"
         ELSE o.result = "sent"
  BY <1>2 DEF WriteOutcomes
<1>5. QED
  BY <1>3, <1>4, Lengths

LEMMA WireWritten ==
    ASSUME NEW p, NEW h \in 0 .. HeaderLen, NEW d \in Nat, sub_pos \in 0 .. SubLen,
           size' \in Seq(DataLens), p \in 0 .. Len(size'), wire \in UnitSeqs,
           written \in Seq(Nat), WirePart(size', wire, written),
           Position(size', wire, written, sub_pos, p, h, d),
           NEW o \in WriteOutcomes(p, h, d), Advance(p, h, d, o)
    PROVE  /\ o.result # "sent" =>
                /\ WirePart(size', wire', written)
                /\ Position(size', wire', written, sub_pos', p, send_header_pos', send_pos')
           /\ o.result = "sent" =>
                /\ WirePart(size', wire', Append(written, p))
                /\ Position(size', wire', Append(written, p), sub_pos', 0, send_header_pos',
                            send_pos')
<1>1. /\ o.sub \in Nat /\ o.header \in Nat /\ o.data \in Nat
      /\ o.sub \in sub_pos .. SubLen
      /\ h <= o.header /\ o.header <= HeaderLen /\ d <= o.data
      /\ h \in Nat /\ p \in Nat
  <2>1. /\ o.sub \in Nat /\ o.header \in Nat /\ o.data \in Nat
        /\ sub_pos <= o.sub /\ o.sub <= SubLen
        /\ h <= o.header /\ o.header <= HeaderLen /\ d <= o.data
    BY OutcomeTyped
  <2>2. QED
    BY <2>1, Lengths
<1>2. PICK v1 : v1 = Onto(wire, 0, sub_pos, o.sub)
  OBVIOUS
<1>3. PICK v2 : v2 = Onto(Onto(v1, p, h, o.header), p, HeaderLen + d, HeaderLen + o.data)
  OBVIOUS
<1>4. /\ sub_pos' = o.sub /\ send_header_pos' = o.header /\ send_pos' = o.data /\ wire' = v2
  BY <1>2, <1>3, Zenon DEF Advance, Onto
<1>5. PICK sz \in Seq(DataLens) : sz = size'
  OBVIOUS
<1>6. /\ v1 \in UnitSeqs
      /\ WirePart(sz, v1, written)
      /\ Position(sz, v1, written, o.sub, p, h, d)
  BY <1>1, <1>2, <1>5, SubscriptionWritten
<1>7. CASE o.header = h /\ o.data = d /\ o.result # "sent"
  <2>1. HeaderLen + d \in Nat
    BY Lengths
  <2>2. Onto(v1, p, h, h) = v1 /\ Onto(v1, p, HeaderLen + d, HeaderLen + d) = v1
    BY <1>1, <1>6, <2>1, NoChunk
  <2>3. v2 = v1
    BY <1>3, <1>7, <2>2
  <2>4. QED
    BY <1>4, <1>5, <1>6, <1>7, <2>3
<1>8. CASE /\ o.sub = SubLen /\ p # 0 /\ o.result # "sent"
           /\ \/ o.header < HeaderLen /\ o.data = d
              \/ o.header = HeaderLen /\ o.data < size'[p]
  <2>1. p \in 1 .. Len(sz)
    BY <1>5, <1>8
  <2>2. Position(sz, v1, written, SubLen, p, h, d)
    BY <1>6, <1>8
  <2>3. WirePart(sz, v2, written) /\ Position(sz, v2, written, SubLen, p, o.header, o.data)
    BY <1>1, <1>3, <1>5, <1>6, <1>8, <2>1, <2>2, PacketPartWritten
  <2>4. QED
    BY <1>4, <1>5, <1>8, <2>3
<1>9. CASE /\ o.sub = SubLen /\ p # 0 /\ o.result = "sent"
           /\ o.header = HeaderLen /\ o.data = size'[p] /\ d <= size'[p]
  <2>1. p \in 1 .. Len(sz) /\ h <= HeaderLen /\ d <= sz[p]
    BY <1>1, <1>5, <1>9
  <2>2. Position(sz, v1, written, SubLen, p, h, d)
    BY <1>6, <1>9
  <2>3. v2 = Onto(Onto(v1, p, h, HeaderLen), p, HeaderLen + d, HeaderLen + sz[p])
    BY <1>3, <1>5, <1>9
  <2>4. /\ WirePart(sz, v2, Append(written, p))
        /\ Position(sz, v2, Append(written, p), SubLen, 0, o.header, o.data)
    BY <1>1, <1>6, <2>1, <2>2, <2>3, PacketWritten
  <2>5. QED
    BY <1>4, <1>5, <1>9, <2>4
<1>10. \/ o.header = h /\ o.data = d /\ o.result # "sent"
       \/ /\ o.sub = SubLen /\ p # 0 /\ o.result # "sent"
          /\ \/ o.header < HeaderLen /\ o.data = d
             \/ o.header = HeaderLen /\ o.data < size'[p]
       \/ /\ o.sub = SubLen /\ p # 0 /\ o.result = "sent"
          /\ o.header = HeaderLen /\ o.data = size'[p] /\ d <= size'[p]
  BY OutcomeKinds
<1>11. QED
  BY <1>7, <1>8, <1>9, <1>10, Zenon

\* What was written, and where the transport believes it is; the user waits for the packet
\* that is being written while the channel is open.
WireInv ==
    /\ WirePart(size, wire, written)
    /\ io_channel =>
         /\ busy = send_req
         /\ Position(size, wire, written, sub_pos, send_req, send_header_pos, send_pos)

LEMMA WireSend ==
    ASSUME TypeOK, WireInv, NEW d \in DataLens, Send(d)
    PROVE  WireInv'
<1>1. /\ size \in Seq(DataLens) /\ Len(size) \in Nat /\ wire \in UnitSeqs
      /\ written \in Seq(Nat) /\ Len(written) \in Nat /\ sub_pos \in 0 .. SubLen
  BY TypedParts
<1>2. PICK sz : sz = Append(size, d)
  OBVIOUS
<1>3. /\ sz \in Seq(DataLens) /\ Len(sz) = Len(size) + 1 /\ size' = sz /\ Len(sz) \in Nat
  BY <1>1, <1>2 DEF Send
<1>4. /\ \A p \in 0 .. Len(size) : Full(sz, p) = Full(size, p)
      /\ Unbroken(sz, wire)
      /\ \A p, j : GoesOn(size, wire, p, j) => GoesOn(sz, wire, p, j)
  BY <1>1, <1>2, SizesAppended DEF WireInv, WirePart
<1>5. WirePart(sz, wire, written)
  <2>1. ASSUME NEW k \in DOMAIN wire
        PROVE  /\ wire[k][1] <= Len(written) + 1
               /\ wire[k][1] = Len(written) + 1 => wire[k][2] < Full(sz, Len(written) + 1)
    <3>1. wire[k][1] \in 0 .. Len(size)
      BY DEF WireInv, WirePart, Unbroken
    <3>2. QED
      BY <3>1, <1>4 DEF WireInv, WirePart
  <2>2. ASSUME NEW p \in 1 .. Len(written)
        PROVE  \E k \in DOMAIN wire : wire[k] = <<p, Full(sz, p)>>
    <3>1. p \in 0 .. Len(size)
      BY <1>1 DEF WireInv, WirePart
    <3>2. QED
      BY <3>1, <1>4 DEF WireInv, WirePart
  <2>3. Len(written) <= Len(sz) /\ \A j \in DOMAIN written : written[j] = j
    BY <1>1, <1>3 DEF WireInv, WirePart
  <2>4. QED
    BY <1>4, <2>1, <2>2, <2>3 DEF WirePart
<1>6. CASE send_req # 0 \/ ~io_channel
  <2>1. ~io_channel
    BY <1>6 DEF WireInv, Send
  <2>2. UNCHANGED <<ioVars, sendVars, written>>
    BY <1>6 DEF Send
  <2>3. QED
    BY <1>3, <1>5, <2>1, <2>2 DEF WireInv, ioVars, sendVars
<1>7. CASE send_req = 0 /\ io_channel
  <2>1. PICK p : p = Len(sz)
    OBVIOUS
  <2>2. PICK o \in WriteOutcomes(p, 0, 0) :
          /\ Advance(p, 0, 0, o)
          /\ busy' = IF o.result = "sent" THEN 0 ELSE p
          /\ written' = IF o.result = "sent" THEN Append(written, p) ELSE written
    BY <1>3, <1>7, <2>1 DEF Send
  <2>3. Position(sz, wire, written, sub_pos, p, 0, 0)
    <3>1. Position(size, wire, written, sub_pos, 0, send_header_pos, send_pos)
      BY <1>7 DEF WireInv
    <3>2. p \in 1 .. Len(sz) /\ p = Len(written) + 1
      BY <1>1, <1>3, <2>1, <3>1 DEF Position
    <3>3. Full(sz, p) > 0
      <4>1. Full(sz, p) = HeaderLen + sz[p] /\ sz[p] \in Nat
        BY <1>3, <3>2, FullTyped
      <4>2. QED
        BY <4>1, Lengths
    <3>4. Partly(sz, sub_pos, p, 0, 0)
      BY <3>3 DEF Partly
    <3>5. sub_pos < SubLen => Len(written) = 0 /\ GoesOn(sz, wire, 0, sub_pos)
      BY <1>4, <3>1 DEF Position
    <3>6. sub_pos = SubLen => GoesOn(sz, wire, p, 0)
      BY <1>4, <3>1, <3>2 DEF Position
    <3>7. QED
      BY <2>1, <3>2, <3>4, <3>5, <3>6 DEF Position
  <2>4. 0 \in 0 .. HeaderLen /\ p \in 0 .. Len(size') /\ size' \in Seq(DataLens)
    BY <1>3, <2>1, Lengths
  <2>5. /\ WirePart(size', wire, written)
        /\ Position(size', wire, written, sub_pos, p, 0, 0)
    BY <1>3, <1>5, <2>3
  <2>6. /\ o.result # "sent" =>
              /\ WirePart(size', wire', written)
              /\ Position(size', wire', written, sub_pos', p, send_header_pos', send_pos')
        /\ o.result = "sent" =>
              /\ WirePart(size', wire', Append(written, p))
              /\ Position(size', wire', Append(written, p), sub_pos', 0, send_header_pos',
                          send_pos')
    BY <1>1, <2>2, <2>4, <2>5, WireWritten
  <2>7. send_req' = IF o.result = "sent" THEN 0 ELSE p
    BY <2>2 DEF Advance
  <2>8. CASE o.result = "sent"
    BY <2>2, <2>6, <2>7, <2>8 DEF WireInv
  <2>9. CASE o.result # "sent"
    BY <2>2, <2>6, <2>7, <2>9 DEF WireInv
  <2>10. QED
    BY <2>8, <2>9
<1>8. QED
  BY <1>6, <1>7

LEMMA WireWriteCallback ==
    ASSUME TypeOK, WireInv, WriteCallback
    PROVE  WireInv'
<1>1. /\ size \in Seq(DataLens) /\ wire \in UnitSeqs /\ written \in Seq(Nat)
      /\ sub_pos \in 0 .. SubLen /\ send_header_pos \in 0 .. HeaderLen /\ send_pos \in Nat
      /\ send_req \in 0 .. Len(size)
  BY TypedParts
<1>2. size' = size /\ io_channel
  BY DEF WriteCallback
<1>3. PICK o \in WriteOutcomes(send_req, send_header_pos, send_pos) :
        /\ Advance(send_req, send_header_pos, send_pos, o)
        /\ written' = IF o.result = "sent" THEN Append(written, send_req) ELSE written
        /\ busy' = IF o.result = "sent" /\ busy = send_req THEN 0 ELSE busy
  BY DEF WriteCallback
<1>4. /\ busy = send_req
      /\ WirePart(size', wire, written)
      /\ Position(size', wire, written, sub_pos, send_req, send_header_pos, send_pos)
  BY <1>2 DEF WireInv
<1>5. size' \in Seq(DataLens) /\ send_req \in 0 .. Len(size')
  BY <1>1, <1>2
<1>6. /\ o.result # "sent" =>
            /\ WirePart(size', wire', written)
            /\ Position(size', wire', written, sub_pos', send_req, send_header_pos', send_pos')
      /\ o.result = "sent" =>
            /\ WirePart(size', wire', Append(written, send_req))
            /\ Position(size', wire', Append(written, send_req), sub_pos', 0,
                        send_header_pos', send_pos')
  BY <1>1, <1>3, <1>4, <1>5, WireWritten
<1>7. send_req' = IF o.result = "sent" THEN 0 ELSE send_req
  BY <1>3 DEF Advance
<1>8. CASE o.result = "sent"
  BY <1>3, <1>4, <1>6, <1>7, <1>8 DEF WireInv
<1>9. CASE o.result # "sent"
  BY <1>3, <1>4, <1>6, <1>7, <1>9 DEF WireInv
<1>10. QED
  BY <1>8, <1>9

\* Nothing else writes.
LEMMA OthersDoNotWrite ==
    ASSUME [Next]_vars, ~WriteCallback, \A d \in DataLens : ~Send(d)
    PROVE  UNCHANGED <<sendVars, userVars>>
<1>1. CASE Shutdown \/ Release \/ WriteErrorCallback \/ ReadCallback \/ WriteReturn
  BY <1>1 DEF Shutdown, Release, WriteErrorCallback, ReadCallback, WriteReturn
<1>2. CASE \/ WriteErrorDown \/ ReadErrorSignal \/ ReadReturn \/ SocketConnected \/ UserReturns
  BY <1>2 DEF WriteErrorDown, ReadErrorSignal, ReadReturn, SocketConnected, UserReturns
<1>3. CASE \/ Finalize \/ UNCHANGED vars \/ \E error \in BOOLEAN : ReadFails(error)
           \/ \E kind \in Kinds : DaemonSends(kind)
  BY <1>3 DEF Finalize, vars, ReadFails, DaemonSends
<1>4. QED
  BY <1>1, <1>2, <1>3 DEF Next, User, Event, Step

LEMMA NotReopened == TypeOK /\ [Next]_vars /\ io_channel' => io_channel
<1> SUFFICES ASSUME TypeOK, [Next]_vars, io_channel' PROVE io_channel
  OBVIOUS
<1>1. FlagStep
  BY FlagSteps, TypeSplit
<1>2. QED
  BY <1>1 DEF FlagStep, IOStep, ioVars

LEMMA WireStep == TypeOK /\ WireInv /\ [Next]_vars => WireInv'
<1> SUFFICES ASSUME TypeOK, WireInv, [Next]_vars PROVE WireInv'
  OBVIOUS
<1>1. ASSUME NEW d \in DataLens, Send(d) PROVE WireInv'
  BY <1>1, WireSend
<1>2. CASE WriteCallback
  BY <1>2, WireWriteCallback
<1>3. CASE ~WriteCallback /\ \A d \in DataLens : ~Send(d)
  <2>1. UNCHANGED <<sendVars, userVars>>
    BY <1>3, OthersDoNotWrite
  <2>2. io_channel' => io_channel
    BY NotReopened
  <2>3. QED
    BY <2>1, <2>2 DEF WireInv, sendVars, userVars
<1>4. QED
  BY <1>1, <1>2, <1>3

\* The positions of the transport and the packets it has reported agree with what is on
\* the wire.
THEOREM WireInvHolds == Spec => [](TypeOK /\ WireInv)
<1>1. Init => WireInv
  <2> SUFFICES ASSUME Init PROVE WireInv
    OBVIOUS
  <2>1. size = <<>> /\ wire = <<>> /\ written = <<>> /\ sub_pos = 0 /\ send_req = 0 /\ busy = 0
    BY DEF Init
  <2>2. WirePart(size, wire, written)
    BY <2>1 DEF WirePart, Unbroken
  <2>3. GoesOn(size, wire, 0, 0) \/ SubLen = 0
    BY <2>1, Lengths DEF GoesOn, FirstUnit
  <2>4. SubLen = 0 => GoesOn(size, wire, 1, 0)
    BY <2>1 DEF GoesOn, FirstUnit
  <2>5. Position(size, wire, written, sub_pos, send_req, send_header_pos, send_pos)
    BY <2>1, <2>3, <2>4, Lengths DEF Position
  <2>6. QED
    BY <2>1, <2>2, <2>5 DEF WireInv
<1>2. QED
  BY <1>1, WireStep, TypeCorrect, PTL DEF Spec

LEMMA UnitsAreFull == \A p : Units(p) = Full(size, p)
  BY DEF Units, Full

\* What the daemon reads: the subscription and then whole packets in the order in which
\* they were sent, each unit once.
THEOREM WireIsWhole == Spec => []WireFormat
<1>1. TypeOK /\ WireInv => WireFormat
  <2> SUFFICES ASSUME TypeOK, WireInv PROVE WireFormat
    OBVIOUS
  <2>1. \A u : Following(u) = After(size, u)
    BY UnitsAreFull DEF Following, After
  <2>2. QED
    BY <2>1 DEF WireInv, WirePart, Unbroken, WireFormat, FirstUnit
<1>2. QED
  BY <1>1, WireInvHolds, PTL

\* A packet is reported to the user when and only when the last of it is on the wire.
THEOREM ReportedWhenWritten == Spec => []ReportedIsWritten
<1>1. TypeOK /\ WireInv => ReportedIsWritten
  <2> SUFFICES ASSUME TypeOK, WireInv PROVE ReportedIsWritten
    OBVIOUS
  <2>1. /\ size \in Seq(DataLens) /\ Len(size) \in Nat /\ wire \in UnitSeqs
        /\ written \in Seq(Nat) /\ Len(written) \in Nat
        /\ DOMAIN written = 1 .. Len(written) /\ DOMAIN size = 1 .. Len(size)
    BY TypedParts
  <2>2. \A j \in DOMAIN written : written[j] = j
    BY DEF WireInv, WirePart
  <2>3. ASSUME NEW p \in DOMAIN size
        PROVE  p \in ToSet(written) <=> <<p, Units(p)>> \in ToSet(wire)
    <3>1. p \in ToSet(written) <=> p <= Len(written)
      BY <2>1, <2>2 DEF ToSet
    <3>2. Units(p) = Full(size, p) /\ Full(size, p) \in Nat
      BY <2>1, UnitsAreFull, FullTyped
    <3>3. CASE p <= Len(written)
      <4>1. PICK k \in DOMAIN wire : wire[k] = <<p, Full(size, p)>>
        BY <2>1, <3>3 DEF WireInv, WirePart
      <4>2. QED
        BY <3>1, <3>2, <3>3, <4>1 DEF ToSet
    <3>4. CASE p > Len(written)
      <4>1. ASSUME NEW k \in DOMAIN wire, wire[k] = <<p, Full(size, p)>> PROVE FALSE
        <5>1. /\ wire[k][1] <= Len(written) + 1
              /\ wire[k][1] = Len(written) + 1 => wire[k][2] < Full(size, Len(written) + 1)
          BY DEF WireInv, WirePart
        <5>2. p = Len(written) + 1
          BY <2>1, <3>4, <4>1, <5>1
        <5>3. QED
          BY <3>2, <4>1, <5>1, <5>2
      <4>2. QED
        BY <2>1, <3>1, <3>2, <3>4, <4>1 DEF ToSet
    <3>5. QED
      BY <2>1, <3>3, <3>4
  <2>4. QED
    BY <2>2, <2>3 DEF ReportedIsWritten
<1>2. QED
  BY <1>1, WireInvHolds, PTL

-----------------------------------------------------------------------------
(* What is read.                                                           *)

PacketLen(k) == LenLen + Length(k)

\* u are the units of the packets from n on, without the first j; packet m starts after
\* unit f[m] of u.
Starts(packets, u, f, n, j) ==
    /\ f \in [n .. Len(packets) + 1 -> Int]
    /\ f[n] = 0 - j /\ f[Len(packets) + 1] = Len(u)
    /\ \A m \in n .. Len(packets) :
         /\ f[m + 1] = f[m] + PacketLen(packets[m])
         /\ \A i \in 1 .. PacketLen(packets[m]) :
              f[m] + i > 0 => f[m] + i <= Len(u) /\ u[f[m] + i] = <<m, i>>
Placed(packets, u, n, j) == \E f : Starts(packets, u, f, n, j)

LEMMA PacketLenTyped == \A k : Length(k) \in Nat /\ PacketLen(k) \in Nat
                                /\ PacketLen(k) = LenLen + Length(k)
  BY Lengths DEF PacketLen, Length

\* The next units belong to the packet that is being read.
LEMMA NextUnits ==
    ASSUME NEW packets \in Seq(Kinds), NEW u \in UnitSeqs, NEW n \in 1 .. Len(packets) + 1,
           NEW j \in Nat, Placed(packets, u, n, j), Len(u) > 0
    PROVE  /\ n \in 1 .. Len(packets)
           /\ \A i \in 1 .. PacketLen(packets[n]) - j : u[i] = <<n, j + i>>
<1>1. PICK f : Starts(packets, u, f, n, j)
  BY DEF Placed
<1>2. Len(packets) \in Nat /\ Len(u) \in Nat
  BY DEF UnitSeqs
<1>3. f[n] = 0 - j /\ f[Len(packets) + 1] = Len(u)
  BY <1>1 DEF Starts
<1>4. n \in 1 .. Len(packets)
  BY <1>2, <1>3
<1>5. ASSUME NEW i \in 1 .. PacketLen(packets[n]) - j PROVE u[i] = <<n, j + i>>
  <2>1. PICK x \in Nat : x = j + i
    OBVIOUS
  <2>2. PacketLen(packets[n]) \in Nat
    BY PacketLenTyped
  <2>3. x \in 1 .. PacketLen(packets[n]) /\ f[n] + x = i /\ f[n] + x > 0
    BY <1>3, <2>1, <2>2
  <2>4. n \in n .. Len(packets)
    BY <1>2, <1>4
  <2>5. u[f[n] + x] = <<n, x>>
    BY <1>1, <2>3, <2>4 DEF Starts
  <2>6. QED
    BY <2>1, <2>3, <2>5
<1>6. QED
  BY <1>4, <1>5

\* v is u without the first c units.
Dropped(u, v, c) ==
    /\ v \in UnitSeqs /\ Len(u) \in Nat /\ Len(v) = Len(u) - c
    /\ \A i \in 1 .. Len(u) - c : v[i] = u[c + i]

LEMMA UnitsDropped ==
    ASSUME NEW u \in UnitSeqs, NEW c \in Nat, c <= Len(u)
    PROVE  Dropped(u, SubSeq(u, c + 1, Len(u)), c)
<1>1. Len(u) \in Nat
  BY DEF UnitSeqs
<1>2. PICK l \in Nat : l = Len(u)
  BY <1>1
<1>3. /\ SubSeq(u, c + 1, l) \in UnitSeqs
      /\ Len(SubSeq(u, c + 1, l)) = l - c
      /\ \A k \in 1 .. l - c : SubSeq(u, c + 1, l)[k] = u[c + k]
  BY <1>2, UnitSeqsPart
<1>4. QED
  BY <1>1, <1>2, <1>3 DEF Dropped

\* Some of it is read.
LEMMA PartTaken ==
    ASSUME NEW packets \in Seq(Kinds), NEW u \in UnitSeqs, NEW n \in 1 .. Len(packets) + 1,
           NEW j \in Nat, Placed(packets, u, n, j), NEW c \in Nat, c <= Len(u),
           NEW v, Dropped(u, v, c), NEW k \in Nat, k = j + c
    PROVE  Placed(packets, v, n, k)
<1>1. PICK f : Starts(packets, u, f, n, j)
  BY DEF Placed
<1>2. Len(packets) \in Nat /\ Len(u) \in Nat
  BY DEF UnitSeqs
<1>3. Len(v) = Len(u) - c /\ \A i \in 1 .. Len(u) - c : v[i] = u[c + i]
  BY Zenon DEF Dropped
<1>4. PICK q \in Nat : q = Len(packets) + 1
  BY <1>2
<1>5. PICK g : g = [m \in n .. q |-> f[m] - c]
  OBVIOUS
<1>6. f \in [n .. q -> Int] /\ f[n] = 0 - j /\ f[q] = Len(u)
  BY <1>1, <1>4 DEF Starts
<1>7. n \in n .. q /\ q \in n .. q
  BY <1>2, <1>4
<1>8. g \in [n .. q -> Int] /\ \A m \in n .. q : g[m] = f[m] - c
  BY <1>5, <1>6
<1>9. g[n] = 0 - k /\ g[q] = Len(v)
  <2>1. g[n] = f[n] - c /\ g[q] = f[q] - c
    BY <1>7, <1>8
  <2>2. QED
    BY <2>1, <1>2, <1>3, <1>6
<1>10. ASSUME NEW m \in n .. Len(packets)
       PROVE  /\ g[m + 1] = g[m] + PacketLen(packets[m])
              /\ \A i \in 1 .. PacketLen(packets[m]) :
                   g[m] + i > 0 => g[m] + i <= Len(v) /\ v[g[m] + i] = <<m, i>>
  <2>1. m \in n .. q /\ m + 1 \in n .. q /\ PacketLen(packets[m]) \in Nat
    BY <1>2, <1>4, PacketLenTyped
  <2>2. f[m] \in Int /\ f[m + 1] \in Int
    BY <1>6, <2>1
  <2>3. f[m + 1] = f[m] + PacketLen(packets[m])
    BY <1>1 DEF Starts
  <2>4. g[m] = f[m] - c /\ g[m + 1] = f[m + 1] - c
    BY <1>8, <2>1
  <2>5. ASSUME NEW i \in Nat, i \in 1 .. PacketLen(packets[m]), g[m] + i > 0
        PROVE  g[m] + i <= Len(v) /\ v[g[m] + i] = <<m, i>>
    <3>1. PICK x \in Nat : x = g[m] + i
      BY <2>2, <2>4, <2>5
    <3>2. PICK y \in Nat : y = f[m] + i
      BY <2>2, <2>4, <2>5, SMTT(30)
    <3>3. y = c + x /\ y > 0 /\ x > 0
      <4>1. PICK a \in Int : a = f[m]
        BY <2>2
      <4>2. x = (a - c) + i /\ y = a + i
        BY <2>4, <3>1, <3>2, <4>1
      <4>3. x > 0
        BY <2>5, <3>1
      <4>4. QED
        BY <4>2, <4>3
    <3>4. y <= Len(u) /\ u[y] = <<m, i>>
      BY <1>1, <2>5, <3>2, <3>3 DEF Starts
    <3>5. x \in 1 .. Len(u) - c
      BY <1>2, <3>3, <3>4, SMTT(30)
    <3>6. v[x] = u[y]
      BY <1>3, <3>3, <3>5
    <3>7. x <= Len(v)
      BY <1>2, <1>3, <3>5
    <3>8. QED
      BY <3>1, <3>4, <3>6, <3>7
  <2>6. \A i \in 1 .. PacketLen(packets[m]) : i \in Nat
    BY <2>1
  <2>7. g[m + 1] = g[m] + PacketLen(packets[m])
    BY <2>1, <2>2, <2>3, <2>4, SMTT(30)
  <2>8. QED
    BY <2>5, <2>6, <2>7
<1>11. Starts(packets, v, g, n, k)
  BY <1>4, <1>8, <1>9, <1>10 DEF Starts
<1>12. QED
  BY <1>11 DEF Placed

\* All of it was read.
LEMMA PacketTaken ==
    ASSUME NEW packets \in Seq(Kinds), NEW u, NEW n \in 1 .. Len(packets),
           Placed(packets, u, n, PacketLen(packets[n]))
    PROVE  Placed(packets, u, n + 1, 0)
<1>1. PICK f : Starts(packets, u, f, n, PacketLen(packets[n]))
  BY DEF Placed
<1>2. Len(packets) \in Nat /\ PacketLen(packets[n]) \in Nat
  BY PacketLenTyped
<1>3. PICK g : g = [m \in n + 1 .. Len(packets) + 1 |-> f[m]]
  OBVIOUS
<1>4. /\ f \in [n .. Len(packets) + 1 -> Int]
      /\ f[n] = 0 - PacketLen(packets[n]) /\ f[Len(packets) + 1] = Len(u)
  BY <1>1 DEF Starts
<1>5. /\ g \in [n + 1 .. Len(packets) + 1 -> Int]
      /\ \A m \in n + 1 .. Len(packets) + 1 : g[m] = f[m]
  BY <1>2, <1>3, <1>4
<1>6. n \in n .. Len(packets)
  BY <1>2
<1>7. f[n + 1] = f[n] + PacketLen(packets[n])
  BY <1>1, <1>6 DEF Starts
<1>8. g[n + 1] = 0 - 0 /\ g[Len(packets) + 1] = Len(u)
  BY <1>2, <1>4, <1>5, <1>7
<1>9. ASSUME NEW m \in n + 1 .. Len(packets)
      PROVE  /\ g[m + 1] = g[m] + PacketLen(packets[m])
             /\ \A i \in 1 .. PacketLen(packets[m]) :
                  g[m] + i > 0 => g[m] + i <= Len(u) /\ u[g[m] + i] = <<m, i>>
  <2>1. /\ m \in n .. Len(packets) /\ m \in n + 1 .. Len(packets) + 1
        /\ m + 1 \in n + 1 .. Len(packets) + 1
    BY <1>2
  <2>2. g[m] = f[m] /\ g[m + 1] = f[m + 1]
    BY <1>5, <2>1
  <2>3. QED
    BY <1>1, <2>1, <2>2 DEF Starts
<1>10. Starts(packets, u, g, n + 1, 0)
  BY <1>5, <1>8, <1>9 DEF Starts
<1>11. QED
  BY <1>10 DEF Placed

\* The daemon sends another one.
LEMMA PacketArrives ==
    ASSUME NEW packets \in Seq(Kinds), NEW u \in UnitSeqs, NEW n \in 1 .. Len(packets) + 1,
           NEW j \in Nat, Placed(packets, u, n, j), NEW kind \in Kinds,
           NEW more, more = Append(packets, kind),
           NEW v, Grown(u, v, Len(packets) + 1, 0, PacketLen(kind))
    PROVE  Placed(more, v, n, j)
<1>1. PICK f : Starts(packets, u, f, n, j)
  BY DEF Placed
<1>2. Len(packets) \in Nat /\ Len(u) \in Nat
  BY DEF UnitSeqs
<1>3. PICK q \in Nat : q = Len(packets) + 1
  BY <1>2
<1>4. PICK l \in Nat : l = PacketLen(kind)
  BY PacketLenTyped
<1>5. /\ Len(more) = q /\ more[q] = kind
      /\ \A m \in 1 .. Len(packets) : more[m] = packets[m]
  BY <1>3
<1>6. /\ Len(v) = Len(u) + l
      /\ \A i \in 1 .. Len(u) : v[i] = u[i]
      /\ \A i \in 1 .. l : v[Len(u) + i] = <<q, i>>
  <2>1. Grown(u, v, q, 0, l)
    BY <1>3, <1>4
  <2>2. /\ Len(v) = Len(u) + (l - 0)
        /\ \A i \in 1 .. Len(u) : v[i] = u[i]
        /\ \A i \in 1 .. l - 0 : v[Len(u) + i] = <<q, 0 + i>>
    BY <2>1, Zenon DEF Grown
  <2>3. l - 0 = l /\ \A i \in 1 .. l : 0 + i = i
    OBVIOUS
  <2>4. /\ Len(v) = Len(u) + l
        /\ \A i \in 1 .. l : v[Len(u) + i] = <<q, 0 + i>>
    BY <2>2, <2>3
  <2>5. \A i \in 1 .. l : v[Len(u) + i] = <<q, i>>
    BY <2>3, <2>4
  <2>6. QED
    BY <2>2, <2>4, <2>5
<1>7. PICK g : g = [m \in n .. q + 1 |-> IF m = q + 1 THEN Len(u) + l ELSE f[m]]
  OBVIOUS
<1>8. /\ f \in [n .. q -> Int]
      /\ f[n] = 0 - j /\ f[q] = Len(u)
  BY <1>1, <1>3 DEF Starts
<1>9. /\ g \in [n .. q + 1 -> Int] /\ g[q + 1] = Len(u) + l
      /\ \A m \in n .. q : g[m] = f[m]
  BY <1>2, <1>3, <1>7, <1>8
<1>10. g[n] = 0 - j /\ g[q + 1] = Len(v) /\ g[q] = Len(u)
  BY <1>3, <1>6, <1>8, <1>9
<1>11. ASSUME NEW m \in n .. q
       PROVE  /\ g[m + 1] = g[m] + PacketLen(more[m])
              /\ \A i \in 1 .. PacketLen(more[m]) :
                   g[m] + i > 0 => g[m] + i <= Len(v) /\ v[g[m] + i] = <<m, i>>
  <2>1. CASE m = q
    <3>1. PacketLen(more[m]) = l /\ g[m] = Len(u) /\ g[m + 1] = Len(u) + l
      BY <1>4, <1>5, <1>9, <1>10, <2>1
    <3>2. \A i \in 1 .. l : Len(u) + i <= Len(v) /\ v[Len(u) + i] = <<m, i>>
      <4>1. \A i \in 1 .. l : v[Len(u) + i] = <<m, i>>
        BY <1>6, <2>1, Zenon
      <4>2. \A i \in 1 .. l : Len(u) + i <= Len(v)
        BY <1>2, <1>6
      <4>3. QED
        BY <4>1, <4>2
    <3>3. QED
      BY <3>1, <3>2
  <2>2. CASE m # q
    <3>1. /\ m \in n .. Len(packets) /\ m \in 1 .. Len(packets) /\ m + 1 \in n .. q
          /\ m \in n .. q
      BY <1>2, <1>3, <2>2
    <3>2. g[m] = f[m] /\ g[m + 1] = f[m + 1] /\ more[m] = packets[m] /\ f[m] \in Int
      BY <1>5, <1>8, <1>9, <3>1
    <3>3. f[m + 1] = f[m] + PacketLen(packets[m])
      BY <1>1, <3>1 DEF Starts
    <3>4. ASSUME NEW i \in 1 .. PacketLen(packets[m]), f[m] + i > 0
          PROVE  f[m] + i <= Len(v) /\ v[f[m] + i] = <<m, i>>
      <4>1. f[m] + i <= Len(u) /\ u[f[m] + i] = <<m, i>>
        BY <1>1, <3>1, <3>4 DEF Starts
      <4>2. PICK x \in Nat : x = f[m] + i
        BY <3>2, <3>4
      <4>3. x \in 1 .. Len(u)
        BY <1>2, <3>4, <4>1, <4>2
      <4>4. QED
        BY <1>2, <1>6, <4>1, <4>2, <4>3, SMTT(30)
    <3>5. QED
      BY <3>2, <3>3, <3>4
  <2>3. QED
    BY <2>1, <2>2
<1>12. Starts(more, v, g, n, j)
  BY <1>5, <1>9, <1>10, <1>11 DEF Starts
<1>13. QED
  BY <1>12 DEF Placed

\* The l units of s are those of packet p after number q; and so are those of u after its
\* first c.
Holds(s, p, q, l) ==
    /\ s \in UnitSeqs /\ l \in Nat /\ Len(s) = l /\ DOMAIN s = 1 .. l
    /\ \A i \in 1 .. l : s[i] = <<p, q + i>>
Gives(u, c, p, q, l) == \A i \in 1 .. l : u[c + i] = <<p, q + i>>

\* s and the units of u after the first c, up to number d.
Fed(s, u, c, d) == s \o SubSeq(u, c + 1, d)

\* A buffer that holds units of packet p after number q gets the next ones.
LEMMA BufferGrown ==
    ASSUME NEW s, NEW u \in UnitSeqs, NEW c \in Nat, NEW d \in Nat, c <= d,
           d <= Len(u), NEW p, NEW q \in Nat, NEW l, Holds(s, p, q, l),
           NEW x, x = q + l, NEW m, m = d - c, Gives(u, c, p, x, m)
    PROVE  Holds(Fed(s, u, c, d), p, q, l + m)
<1>1. PICK t : t = SubSeq(u, c + 1, d)
  OBVIOUS
<1>2. /\ t \in UnitSeqs /\ Len(t) = d - c
      /\ \A k \in 1 .. d - c : t[k] = u[c + k]
  BY <1>1, UnitSeqsPart
<1>3. PICK v : v = Fed(s, u, c, d)
  OBVIOUS
<1>4. /\ s \in UnitSeqs /\ l \in Nat /\ Len(s) = l
      /\ \A i \in 1 .. l : s[i] = <<p, q + i>>
  BY Zenon DEF Holds
<1>5. m \in Nat /\ x \in Nat
  BY <1>4
<1>6. v = s \o t
  BY <1>1, <1>3, Zenon DEF Fed
<1>7. /\ v \in UnitSeqs /\ Len(v) = l + m
      /\ \A i \in 1 .. l : v[i] = s[i]
      /\ \A i \in 1 .. m : v[l + i] = t[i]
  <2>1. /\ s \o t \in UnitSeqs /\ Len(s \o t) = Len(s) + Len(t)
        /\ \A i \in 1 .. Len(s) : (s \o t)[i] = s[i]
        /\ \A i \in 1 .. Len(t) : (s \o t)[Len(s) + i] = t[i]
    BY <1>2, <1>4, UnitSeqsConcat
  <2>2. Len(s) = l /\ Len(t) = m
    BY <1>2, <1>4
  <2>3. QED
    BY <1>6, <2>1, <2>2, Zenon
<1>8. DOMAIN v = 1 .. l + m
  BY <1>7 DEF UnitSeqs
<1>9. ASSUME NEW i \in 1 .. l + m PROVE v[i] = <<p, q + i>>
  <2>1. CASE i <= l
    <3>1. i \in 1 .. l
      BY <1>4, <1>5, <2>1
    <3>2. QED
      BY <1>4, <1>7, <3>1, Zenon
  <2>2. CASE i > l
    <3>1. PICK k \in 1 .. m : i = l + k
      <4>1. i - l \in 1 .. m /\ i = l + (i - l)
        BY <1>4, <1>5, <2>2
      <4>2. QED
        BY <4>1
    <3>2. v[i] = t[k]
      BY <1>7, <3>1, Zenon
    <3>3. t[k] = u[c + k]
      BY <1>2
    <3>4. u[c + k] = <<p, x + k>>
      BY DEF Gives
    <3>5. x + k = q + i
      BY <1>4, <1>5, <3>1
    <3>6. QED
      BY <3>2, <3>3, <3>4, <3>5, Zenon
  <2>3. QED
    BY <1>4, <1>5, <2>1, <2>2
<1>10. l + m \in Nat
  BY <1>4, <1>5
<1>11. Holds(v, p, q, l + m)
  BY <1>7, <1>8, <1>9, <1>10, Zenon DEF Holds
<1>12. QED
  BY <1>3, <1>11, Zenon

Fits(s, u, c, d) == /\ s \in UnitSeqs /\ u \in UnitSeqs /\ c \in Nat /\ d \in Nat
                    /\ c <= d /\ d <= Len(u)

LEMMA FedLength ==
    ASSUME NEW s, NEW u, NEW c, NEW d, Fits(s, u, c, d)
    PROVE  Len(Fed(s, u, c, d)) = Len(s) + (d - c)
<1>1. s \in UnitSeqs /\ u \in UnitSeqs /\ c \in Nat /\ d \in Nat /\ c <= d /\ d <= Len(u)
  BY DEF Fits
<1>2. PICK t : t = SubSeq(u, c + 1, d)
  OBVIOUS
<1>3. t \in UnitSeqs /\ Len(t) = d - c
  BY <1>1, <1>2, UnitSeqsPart
<1>4. Len(s \o t) = Len(s) + Len(t)
  BY <1>1, <1>3, UnitSeqsConcat
<1>5. QED
  BY <1>2, <1>3, <1>4 DEF Fed

\* The packets before n that mean something.
Meaning(packets, n) == {m \in 1 .. n - 1 : packets[m] # "unknown"}

LEMMA MeaningCounted ==
    ASSUME NEW packets, NEW n \in Nat, n > 0
    PROVE  /\ Cardinality(Meaning(packets, 1)) = 0
           /\ packets[n] = "unknown" =>
                Cardinality(Meaning(packets, n + 1)) = Cardinality(Meaning(packets, n))
           /\ packets[n] # "unknown" =>
                Cardinality(Meaning(packets, n + 1)) = Cardinality(Meaning(packets, n)) + 1
<1>1. Meaning(packets, 1) = {}
  BY DEF Meaning
<1>2. IsFiniteSet(Meaning(packets, n))
  <2>1. IsFiniteSet(1 .. n - 1)
    BY FS_Interval
  <2>2. QED
    BY <2>1, FS_Subset DEF Meaning
<1>3. n \notin Meaning(packets, n)
  BY DEF Meaning
<1>4. packets[n] = "unknown" => Meaning(packets, n + 1) = Meaning(packets, n)
  BY DEF Meaning
<1>5. packets[n] # "unknown" => Meaning(packets, n + 1) = Meaning(packets, n) \cup {n}
  BY DEF Meaning
<1>6. Cardinality(Meaning(packets, n) \cup {n}) = Cardinality(Meaning(packets, n)) + 1
  BY <1>2, <1>3, FS_AddElement
<1>7. QED
  BY <1>1, <1>4, <1>5, <1>6, FS_EmptySet

\* The buffers hold the beginning of packet n, the packets before it were signalled, and
\* what was not read yet goes on from there.
LenRead  == Len(read_len_buf) = LenLen
Done     == IF LenRead THEN LenLen + Len(read_buf) ELSE Len(read_len_buf)
Begun(n) == /\ Holds(read_len_buf, n, 0, Len(read_len_buf))
            /\ got = Cardinality(Meaning(incoming, n))
ReadUpTo(n) ==
    /\ Begun(n)
    /\ LenRead => /\ read_len = Length(incoming[n]) /\ Len(read_buf) < read_len
                  /\ Holds(read_buf, n, LenLen, Len(read_buf))
    /\ Placed(incoming, unread, n, Done)
ReadInv ==
    /\ Len(read_len_buf) <= LenLen
    /\ read_len_buf # <<>> => \E n \in 1 .. Len(incoming) : Begun(n)
    /\ read_watch_id => \E n \in 1 .. Len(incoming) + 1 : ReadUpTo(n)

\* What a read does with the units it gets of packet n, of kind k: lb is then in the buffer
\* of the length and buf in that of the rest.
ReadOutcome(n, k, lb, buf) ==
    \/ /\ Len(lb) < LenLen /\ read_len_buf' = lb
       /\ got' = got /\ read_watch_id' = read_watch_id
    \/ /\ Len(lb) = LenLen /\ read_len_buf' = lb /\ read_watch_id' = FALSE /\ got' = got
    \/ /\ Len(lb) = LenLen /\ Len(buf) < Length(k) /\ read_len' = Length(k) /\ read_buf' = buf
       /\ read_len_buf' = lb /\ got' = got /\ read_watch_id' = read_watch_id
    \/ /\ Len(lb) = LenLen /\ Len(buf) = Length(k) /\ k # "unknown" /\ read_len_buf' = <<>>
       /\ got' = got + 1
    \/ /\ Len(lb) = LenLen /\ Len(buf) = Length(k) /\ k = "unknown" /\ read_len_buf' = <<>>
       /\ got' = got
    \/ read_len_buf' = <<>> /\ read_watch_id' = FALSE

LEMMA DoneTyped == TypeOK => Done \in Nat
<1> SUFFICES ASSUME TypeOK PROVE Done \in Nat
  OBVIOUS
<1>1. Len(read_len_buf) \in Nat /\ Len(read_buf) \in Nat /\ LenLen \in Nat
  BY TypedParts, Lengths, SMTT(30) DEF UnitSeqs
<1>2. CASE LenRead
  BY <1>1, <1>2 DEF Done
<1>3. CASE ~LenRead
  BY <1>1, <1>3 DEF Done
<1>4. QED
  BY <1>2, <1>3

\* A read of some units of packet n: the l units of its length that are in the buffer then,
\* its rest as far as it was read, how many units that makes, and what the read does.
ReadFrom(n, lb, buf, d, l) ==
    /\ n \in 1 .. Len(incoming) /\ d \in Nat /\ l \in Nat
    /\ got = Cardinality(Meaning(incoming, n))
    /\ l = Len(lb) /\ l <= LenLen /\ l > 0 /\ Holds(lb, n, 0, l)
    /\ Placed(incoming, unread', n, d)
    /\ l < LenLen => d = l
    /\ l = LenLen =>
         /\ Len(buf) \in Nat
         /\ Len(buf) <= Length(incoming[n]) =>
              Holds(buf, n, LenLen, Len(buf)) /\ d = LenLen + Len(buf)
    /\ ReadOutcome(n, incoming[n], lb, buf)

LEMMA ReadParts ==
    ASSUME TypeOK, ReadInv, ReadCallback
    PROVE  \E n, lb, buf, d, l : ReadFrom(n, lb, buf, d, l)
<1>1. PICK a \in 0 .. LenLen, b \in 0 .. BodyLen : a + b > 0 /\ Read(a, b)
  BY DEF ReadCallback
<1>2. read_watch_id
  BY DEF ReadCallback
<1>3. PICK n \in 1 .. Len(incoming) + 1 : ReadUpTo(n)
  BY <1>2 DEF ReadInv
<1>4. /\ incoming \in Seq(Kinds) /\ Len(incoming) \in Nat /\ unread \in UnitSeqs
      /\ read_len_buf \in UnitSeqs /\ read_buf \in UnitSeqs
      /\ Len(unread) \in Nat /\ Len(read_len_buf) \in Nat /\ Len(read_buf) \in Nat
  BY TypedParts, SMTT(30) DEF UnitSeqs
<1>5. PICK r \in Nat : r = Len(read_len_buf) /\ r <= LenLen
  BY <1>4 DEF ReadInv
<1>6. /\ a \in Nat /\ b \in Nat /\ LenLen \in Nat /\ LenLen > 0 /\ a + b \in Nat
      /\ BodyLen \in Nat
  BY Lengths
<1>7. a + b <= Len(unread) /\ a <= LenLen - r /\ (r < LenLen => a > 0)
  BY <1>1, <1>5 DEF Read
<1>8. PICK done \in Nat : done = Done
  BY DoneTyped
<1>9. (r < LenLen => done = r) /\ (r = LenLen => done = LenLen + Len(read_buf) /\ a = 0)
  BY <1>5, <1>6, <1>7, <1>8 DEF Done, LenRead
<1>10. /\ n \in 1 .. Len(incoming)
       /\ \A i \in 1 .. PacketLen(incoming[n]) - done : unread[i] = <<n, done + i>>
  <2>1. Placed(incoming, unread, n, done)
    BY <1>3, <1>8 DEF ReadUpTo
  <2>2. Len(unread) > 0
    BY <1>1, <1>4, <1>6, <1>7
  <2>3. QED
    BY <1>4, <2>1, <2>2, NextUnits
<1>11. PICK c \in Nat : c = a + b
  BY <1>6
<1>12. PICK d \in Nat : d = done + c
  OBVIOUS
<1>13. Placed(incoming, unread', n, d)
  <2>1. unread' = SubSeq(unread, c + 1, Len(unread))
    BY <1>1, <1>11 DEF Read
  <2>2. Dropped(unread, unread', c)
    BY <1>4, <1>7, <1>11, <2>1, UnitsDropped
  <2>3. Placed(incoming, unread, n, done)
    BY <1>3, <1>8 DEF ReadUpTo
  <2>4. QED
    BY <1>4, <1>7, <1>11, <1>12, <2>2, <2>3, PartTaken
<1>14. PICK lb : lb = Fed(read_len_buf, unread, 0, a)
  OBVIOUS
<1>15. PICK old : old = IF r < LenLen THEN <<>> ELSE read_buf
  OBVIOUS
<1>16. PICK buf : buf = Fed(old, unread, a, c)
  OBVIOUS
<1>17. PICK l \in Nat : l = r + a /\ l <= LenLen /\ l > 0
  BY <1>5, <1>6, <1>7
<1>18. PICK len \in Nat : len = Length(incoming[n])
  BY PacketLenTyped
<1>19. Holds(lb, n, 0, l)
  <2>1. Holds(read_len_buf, n, 0, r)
    BY <1>3, <1>5 DEF ReadUpTo, Begun
  <2>2. Gives(unread, 0, n, r, a)
    <3> SUFFICES ASSUME NEW i \in 1 .. a PROVE unread[0 + i] = <<n, r + i>>
      BY DEF Gives
    <3>1. i \in Nat /\ 0 + i = i /\ i <= a /\ r < LenLen /\ done = r
      BY <1>5, <1>6, <1>7, <1>9
    <3>2. i \in 1 .. PacketLen(incoming[n]) - done
      BY <1>5, <1>6, <1>7, <3>1, PacketLenTyped, SMTT(30)
    <3>3. QED
      BY <1>10, <3>1, <3>2
  <2>3. /\ 0 \in Nat /\ 0 <= a /\ a <= Len(unread) /\ r = 0 + r /\ a = a - 0 /\ l = r + a
    BY <1>4, <1>6, <1>7, <1>17
  <2>4. QED
    BY <1>4, <1>6, <1>14, <2>1, <2>2, <2>3, BufferGrown
<1>20. l = LenLen => \E o \in Nat : /\ Holds(old, n, LenLen, o)
                                   /\ done + a = LenLen + o /\ o <= len
  <2> SUFFICES ASSUME l = LenLen PROVE \E o \in Nat : /\ Holds(old, n, LenLen, o)
                                                      /\ done + a = LenLen + o /\ o <= len
    OBVIOUS
  <2>1. CASE r < LenLen
    <3>1. old = <<>> /\ done = r
      BY <1>9, <1>15, <2>1
    <3>2. Holds(<<>>, n, LenLen, 0)
      BY DEF Holds, UnitSeqs
    <3>3. done + a = LenLen + 0 /\ 0 <= len
      BY <1>6, <1>17, <3>1
    <3>4. QED
      BY <3>1, <3>2, <3>3
  <2>2. CASE r = LenLen
    <3>1. old = read_buf /\ done = LenLen + Len(read_buf) /\ a = 0
      BY <1>6, <1>9, <1>15, <2>2
    <3>2. LenRead
      BY <1>5, <2>2 DEF LenRead
    <3>3. Len(read_buf) < len /\ Holds(read_buf, n, LenLen, Len(read_buf))
      BY <1>3, <1>18, <3>2 DEF ReadUpTo
    <3>4. done + a = LenLen + Len(read_buf) /\ Len(read_buf) <= len
      BY <1>4, <1>6, <3>1, <3>3
    <3>5. QED
      BY <1>4, <3>1, <3>3, <3>4
  <2>3. QED
    BY <1>5, <1>6, <2>1, <2>2
<1>21. l = LenLen =>
         /\ Len(buf) \in Nat
         /\ Len(buf) <= len => Holds(buf, n, LenLen, Len(buf)) /\ d = LenLen + Len(buf)
  <2> SUFFICES ASSUME l = LenLen
               PROVE  /\ Len(buf) \in Nat
                      /\ Len(buf) <= len =>
                           Holds(buf, n, LenLen, Len(buf)) /\ d = LenLen + Len(buf)
    OBVIOUS
  <2>1. PICK o \in Nat : /\ Holds(old, n, LenLen, o)
                         /\ done + a = LenLen + o /\ o <= len
    BY <1>20
  <2>2. a <= c /\ c <= Len(unread) /\ b = c - a
    BY <1>4, <1>6, <1>7, <1>11
  <2>3. Len(buf) = o + b
    <3>1. old \in UnitSeqs /\ Len(old) = o
      BY <2>1 DEF Holds
    <3>2. Fits(old, unread, a, c)
      BY <1>4, <1>6, <2>2, <3>1 DEF Fits
    <3>3. Len(Fed(old, unread, a, c)) = Len(old) + (c - a)
      BY <3>2, FedLength
    <3>4. QED
      BY <1>16, <2>2, <3>1, <3>3
  <2>4. ASSUME Len(buf) <= len
        PROVE  Holds(buf, n, LenLen, Len(buf)) /\ d = LenLen + Len(buf)
    <3>1. PICK y \in Nat : y = LenLen + o
      BY <1>6
    <3>2. Gives(unread, a, n, y, b)
      <4> SUFFICES ASSUME NEW i \in 1 .. b PROVE unread[a + i] = <<n, y + i>>
        BY DEF Gives
      <4>1. PICK x \in Nat : x = a + i
        BY <1>6
      <4>2. PacketLen(incoming[n]) = LenLen + len
        BY <1>18, PacketLenTyped
      <4>3. x \in 1 .. PacketLen(incoming[n]) - done /\ done + x = y + i
        BY <1>6, <2>1, <2>3, <2>4, <3>1, <4>1, <4>2
      <4>4. QED
        BY <1>10, <4>1, <4>3
    <3>3. Holds(buf, n, LenLen, o + b)
      BY <1>4, <1>6, <1>16, <2>1, <2>2, <3>1, <3>2, BufferGrown
    <3>4. d = LenLen + (o + b)
      BY <1>6, <1>11, <1>12, <2>1
    <3>5. QED
      BY <2>3, <3>3, <3>4
  <2>5. QED
    BY <1>6, <2>3, <2>4
<1>22. l = Len(lb) /\ lb[1] = <<n, 0 + 1>> /\ lb[1][1] = n
  <2>1. 1 \in 1 .. l
    BY <1>17
  <2>2. QED
    BY <1>19, <2>1 DEF Holds
<1>23. ReadOutcome(n, incoming[n], lb, buf)
  <2> DEFINE lenbuf == read_len_buf \o SubSeq(unread, 1, a)
             fresh  == Len(read_len_buf) < LenLen
             length == IF fresh THEN Length(incoming[lenbuf[1][1]]) ELSE read_len
             before == IF fresh THEN <<>> ELSE read_buf
             whole  == before \o SubSeq(unread, a + 1, a + b)
  <2>1. \/ /\ Len(lenbuf) < LenLen /\ read_len_buf' = lenbuf
           /\ got' = got /\ read_watch_id' = read_watch_id
        \/ /\ ~(Len(lenbuf) < LenLen) /\ read_len_buf' = lenbuf /\ read_watch_id' = FALSE
           /\ got' = got
        \/ /\ ~(Len(lenbuf) < LenLen) /\ Len(whole) < length /\ read_len' = length
           /\ read_buf' = whole
           /\ read_len_buf' = lenbuf /\ got' = got /\ read_watch_id' = read_watch_id
        \/ /\ ~(Len(lenbuf) < LenLen) /\ Len(whole) <= length /\ ~(Len(whole) < length)
           /\ HandlePacket(lenbuf[1][1])
    BY <1>1 DEF Read, ioVars
  <2>2. lenbuf = lb
    BY <1>14 DEF Fed
  <2>3. whole = buf
    <3>1. before = old
      BY <1>5, <1>15
    <3>2. QED
      BY <1>11, <1>16, <3>1 DEF Fed
  <2>4. Len(lenbuf) = LenLen => length = len
    <3>1. CASE fresh
      BY <1>18, <1>22, <2>2, <3>1
    <3>2. CASE ~fresh
      <4>1. LenRead
        BY <1>5, <1>6, <3>2 DEF LenRead
      <4>2. QED
        BY <1>3, <1>18, <3>2, <4>1 DEF ReadUpTo
    <3>3. QED
      BY <3>1, <3>2
  <2> HIDE DEF lenbuf, length, whole
  <2>5. Len(lenbuf) = l /\ lenbuf[1][1] = n /\ (~(l < LenLen) <=> l = LenLen)
    BY <1>6, <1>17, <1>22, <2>2
  <2>6. HandlePacket(n) =>
          \/ incoming[n] # "unknown" /\ read_len_buf' = <<>> /\ got' = got + 1
          \/ incoming[n] = "unknown" /\ read_len_buf' = <<>> /\ got' = got
          \/ read_len_buf' = <<>> /\ read_watch_id' = FALSE
    BY DEF HandlePacket, StartOfPacket, HandleUnknown, HandleReadError, ShutdownIO
  <2>7. CASE /\ Len(lenbuf) < LenLen /\ read_len_buf' = lenbuf
             /\ got' = got /\ read_watch_id' = read_watch_id
    BY <2>2, <2>7, Zenon DEF ReadOutcome
  <2>8. CASE /\ ~(Len(lenbuf) < LenLen) /\ read_len_buf' = lenbuf /\ read_watch_id' = FALSE
             /\ got' = got
    BY <2>2, <2>5, <2>8, Zenon DEF ReadOutcome
  <2>9. CASE /\ ~(Len(lenbuf) < LenLen) /\ Len(whole) < length /\ read_len' = length
             /\ read_buf' = whole
             /\ read_len_buf' = lenbuf /\ got' = got /\ read_watch_id' = read_watch_id
    <3>1. Len(lenbuf) = LenLen
      BY <2>5, <2>9, Zenon
    <3>2. length = Length(incoming[n])
      BY <1>18, <2>4, <3>1, Zenon
    <3>3. QED
      BY <2>2, <2>3, <2>9, <3>1, <3>2, Zenon DEF ReadOutcome
  <2>10. CASE /\ ~(Len(lenbuf) < LenLen) /\ Len(whole) <= length /\ ~(Len(whole) < length)
              /\ HandlePacket(lenbuf[1][1])
    <3>1. Len(lenbuf) = LenLen
      BY <2>5, <2>10, Zenon
    <3>2. length = Length(incoming[n])
      BY <1>18, <2>4, <3>1, Zenon
    <3>3. Len(buf) \in Nat
      BY <1>17, <1>21, <2>5, <3>1
    <3>4. Len(buf) = Length(incoming[n])
      BY <1>18, <2>3, <2>10, <3>2, <3>3
    <3>5. HandlePacket(n)
      BY <2>5, <2>10, Zenon
    <3>6. QED
      BY <2>2, <2>6, <3>1, <3>4, <3>5, Zenon DEF ReadOutcome
  <2>11. QED
    BY <2>1, <2>7, <2>8, <2>9, <2>10
<1>24. l < LenLen => d = l
  <2>1. Len(read_len_buf \o SubSeq(unread, 1, a)) < LenLen => b = 0
    BY <1>1 DEF Read
  <2>2. lb = read_len_buf \o SubSeq(unread, 1, a)
    BY <1>14 DEF Fed
  <2>3. l < LenLen => b = 0
    BY <1>22, <2>1, <2>2, Zenon
  <2>4. l < LenLen => done = r
    BY <1>5, <1>6, <1>7, <1>9, <1>17
  <2>5. QED
    BY <1>6, <1>11, <1>12, <1>17, <2>3, <2>4
<1>25. got = Cardinality(Meaning(incoming, n))
  BY <1>3 DEF ReadUpTo, Begun
<1>26. l = Len(lb) /\ l <= LenLen /\ l > 0
  BY <1>17, <1>22
<1>27. ReadFrom(n, lb, buf, d, l)
  BY <1>10, <1>13, <1>18, <1>19, <1>21, <1>23, <1>24, <1>25, <1>26, Zenon DEF ReadFrom
<1>28. QED
  BY <1>27

LEMMA ReadCallbackRead ==
    ASSUME TypeOK, ReadInv, ReadCallback
    PROVE  ReadInv'
<1>1. PICK n, lb, buf, d, l : ReadFrom(n, lb, buf, d, l)
  BY ReadParts
<1>2. incoming' = incoming /\ incoming \in Seq(Kinds) /\ Len(incoming) \in Nat
  BY TypedParts DEF ReadCallback
<1>3. PICK k : k = incoming[n]
  OBVIOUS
<1>4. /\ n \in 1 .. Len(incoming) /\ n \in Nat /\ n > 0 /\ d \in Nat /\ l \in Nat
      /\ got = Cardinality(Meaning(incoming, n))
      /\ l = Len(lb) /\ l <= LenLen /\ l > 0 /\ Holds(lb, n, 0, l)
      /\ Placed(incoming, unread', n, d)
      /\ l < LenLen => d = l
      /\ l = LenLen =>
           /\ Len(buf) \in Nat
           /\ Len(buf) <= Length(k) => Holds(buf, n, LenLen, Len(buf)) /\ d = LenLen + Len(buf)
      /\ ReadOutcome(n, k, lb, buf)
  BY <1>1, <1>2, <1>3 DEF ReadFrom
<1>5. Length(k) \in Nat /\ PacketLen(k) = LenLen + Length(k) /\ LenLen \in Nat /\ LenLen > 0
  BY PacketLenTyped, Lengths
<1>6. ASSUME read_len_buf' = lb, got' = got PROVE Begun(n)'
  BY <1>2, <1>4, <1>6 DEF Begun
<1>7. CASE /\ Len(lb) < LenLen /\ read_len_buf' = lb
           /\ got' = got /\ read_watch_id' = read_watch_id
  <2>1. ~LenRead' /\ Done' = d
    BY <1>4, <1>5, <1>7 DEF LenRead, Done
  <2>2. ReadUpTo(n)'
    BY <1>2, <1>4, <1>6, <1>7, <2>1 DEF ReadUpTo
  <2>3. n \in 1 .. Len(incoming') /\ n \in 1 .. Len(incoming') + 1
    BY <1>2, <1>4
  <2>4. Len(read_len_buf') <= LenLen
    BY <1>4, <1>7
  <2>5. QED
    BY <1>6, <1>7, <2>2, <2>3, <2>4 DEF ReadInv
<1>8. CASE /\ Len(lb) = LenLen /\ read_len_buf' = lb /\ read_watch_id' = FALSE /\ got' = got
  <2>1. n \in 1 .. Len(incoming') /\ Len(read_len_buf') <= LenLen
    BY <1>2, <1>4, <1>8
  <2>2. QED
    BY <1>6, <1>8, <2>1 DEF ReadInv
<1>9. CASE /\ Len(lb) = LenLen /\ Len(buf) < Length(k) /\ read_len' = Length(k)
           /\ read_buf' = buf
           /\ read_len_buf' = lb /\ got' = got /\ read_watch_id' = read_watch_id
  <2>1. Holds(buf, n, LenLen, Len(buf)) /\ d = LenLen + Len(buf)
    BY <1>4, <1>5, <1>9
  <2>2. LenRead' /\ Done' = d
    BY <1>4, <1>5, <1>9, <2>1 DEF LenRead, Done
  <2>3. Begun(n)' /\ read_len' = Length(incoming'[n]) /\ Len(read_buf') < read_len'
    BY <1>2, <1>3, <1>6, <1>9
  <2>4. Holds(read_buf, n, LenLen, Len(read_buf))'
    BY <1>9, <2>1
  <2>5. ReadUpTo(n)'
    BY <1>2, <1>4, <2>2, <2>3, <2>4 DEF ReadUpTo
  <2>6. n \in 1 .. Len(incoming') /\ n \in 1 .. Len(incoming') + 1
    BY <1>2, <1>4
  <2>7. Len(read_len_buf') <= LenLen
    BY <1>4, <1>9
  <2>8. QED
    BY <1>6, <1>9, <2>5, <2>6, <2>7 DEF ReadInv
<1>10. ASSUME Len(lb) = LenLen, Len(buf) = Length(k), read_len_buf' = <<>>,
              got' = Cardinality(Meaning(incoming, n + 1))
       PROVE  ReadInv'
  <2>1. d = PacketLen(incoming[n])
    BY <1>3, <1>4, <1>5, <1>10
  <2>3. Placed(incoming, unread', n + 1, 0)
    BY <1>2, <1>4, <2>1, PacketTaken
  <2>4. ~LenRead' /\ Done' = 0
    BY <1>5, <1>10 DEF LenRead, Done
  <2>5. Begun(n + 1)'
    <3>1. Holds(<<>>, n + 1, 0, 0)
      BY DEF Holds, UnitSeqs
    <3>2. QED
      BY <1>2, <1>10, <3>1 DEF Begun
  <2>6. ReadUpTo(n + 1)'
    BY <1>2, <2>3, <2>4, <2>5 DEF ReadUpTo
  <2>7. n + 1 \in 1 .. Len(incoming') + 1 /\ Len(read_len_buf') <= LenLen
    BY <1>2, <1>4, <1>5, <1>10
  <2>8. QED
    BY <1>10, <2>6, <2>7 DEF ReadInv
<1>11. CASE /\ Len(lb) = LenLen /\ Len(buf) = Length(k) /\ k # "unknown" /\ read_len_buf' = <<>>
            /\ got' = got + 1
  BY <1>3, <1>4, <1>10, <1>11, MeaningCounted
<1>12. CASE /\ Len(lb) = LenLen /\ Len(buf) = Length(k) /\ k = "unknown" /\ read_len_buf' = <<>>
            /\ got' = got
  BY <1>3, <1>4, <1>10, <1>12, MeaningCounted
<1>13. CASE read_len_buf' = <<>> /\ read_watch_id' = FALSE
  BY <1>5, <1>13 DEF ReadInv
<1>14. ReadOutcome(n, k, lb, buf)
  BY <1>4
<1>15. QED
  BY <1>7, <1>8, <1>9, <1>11, <1>12, <1>13, <1>14 DEF ReadOutcome

\* What the daemon sends changes nothing of what was read.
LEMMA DaemonRead ==
    ASSUME TypeOK, ReadInv, NEW kind \in Kinds, DaemonSends(kind)
    PROVE  ReadInv'
<1>1. /\ incoming \in Seq(Kinds) /\ Len(incoming) \in Nat /\ unread \in UnitSeqs
      /\ read_len_buf \in UnitSeqs /\ LenLen \in Nat /\ LenLen > 0
  BY TypedParts, Lengths
<1>2. /\ UNCHANGED <<read_len_buf, read_len, read_buf, got, read_watch_id>>
      /\ incoming' = Append(incoming, kind)
  BY DEF DaemonSends, readVars, ioVars
<1>3. PICK more : more = incoming'
  OBVIOUS
<1>4. /\ more = Append(incoming, kind) /\ Len(more) = Len(incoming) + 1
      /\ \A m \in 1 .. Len(incoming) : more[m] = incoming[m]
  BY <1>1, <1>2, <1>3
<1>5. \A n \in 1 .. Len(incoming) + 1 : Meaning(more, n) = Meaning(incoming, n)
  BY <1>1, <1>4 DEF Meaning
<1>6. ASSUME NEW n \in 1 .. Len(incoming) + 1, Begun(n) PROVE Begun(n)'
  BY <1>2, <1>3, <1>5, <1>6 DEF Begun
<1>7. Grown(unread, unread', Len(incoming) + 1, 0, PacketLen(kind))
  <2>1. unread' = Onto(unread, Len(incoming) + 1, 0, PacketLen(kind))
    BY <1>3, <1>4 DEF DaemonSends, Body, Onto, PacketLen
  <2>2. Len(incoming) + 1 \in Nat /\ 0 \in Nat /\ PacketLen(kind) \in Nat /\ 0 <= PacketLen(kind)
    BY <1>1, PacketLenTyped
  <2>3. Grown(unread, Onto(unread, Len(incoming) + 1, 0, PacketLen(kind)), Len(incoming) + 1, 0,
              PacketLen(kind))
    BY <1>1, <2>2, ChunkOnto
  <2>4. QED
    BY <2>1, <2>3, Zenon
<1>8. ASSUME NEW n \in 1 .. Len(incoming) + 1, ReadUpTo(n) PROVE ReadUpTo(n)'
  <2>1. Begun(n)'
    BY <1>6, <1>8 DEF ReadUpTo
  <2>2. Done \in Nat
    BY DoneTyped
  <2>3. Placed(more, unread', n, Done)
    BY <1>1, <1>4, <1>7, <1>8, <2>2, PacketArrives DEF ReadUpTo
  <2>4. ASSUME LenRead PROVE more[n] = incoming[n]
    <3>1. read_len_buf # <<>> /\ 1 \in 1 .. Len(read_len_buf)
      BY <1>1, <2>4 DEF LenRead
    <3>2. PICK m \in 1 .. Len(incoming) : Begun(m)
      BY <3>1 DEF ReadInv
    <3>3. read_len_buf[1] = <<m, 0 + 1>>
      BY <3>1, <3>2 DEF Begun, Holds
    <3>4. read_len_buf[1] = <<n, 0 + 1>>
      BY <1>8, <3>1 DEF ReadUpTo, Begun, Holds
    <3>5. QED
      BY <1>4, <3>3, <3>4
  <2>5. LenRead' = LenRead /\ Done' = Done
    BY <1>2 DEF LenRead, Done
  <2>6. LenRead' => /\ read_len' = Length(incoming'[n]) /\ Len(read_buf') < read_len'
                    /\ Holds(read_buf, n, LenLen, Len(read_buf))'
    BY <1>2, <1>3, <1>8, <2>4, <2>5 DEF ReadUpTo
  <2>7. QED
    BY <1>3, <2>1, <2>3, <2>5, <2>6 DEF ReadUpTo
<1>9. \A n : (n \in 1 .. Len(incoming) => n \in 1 .. Len(incoming'))
             /\ (n \in 1 .. Len(incoming) + 1 => n \in 1 .. Len(incoming') + 1)
  BY <1>1, <1>3, <1>4
<1>10. read_len_buf' # <<>> => \E n \in 1 .. Len(incoming') : Begun(n)'
  <2>1. \A n \in 1 .. Len(incoming) : n \in 1 .. Len(incoming) + 1
    BY <1>1
  <2>2. QED
    BY <1>2, <1>6, <1>9, <2>1 DEF ReadInv
<1>11. read_watch_id' => \E n \in 1 .. Len(incoming') + 1 : ReadUpTo(n)'
  BY <1>2, <1>8, <1>9 DEF ReadInv
<1>12. QED
  BY <1>2, <1>10, <1>11 DEF ReadInv

\* Nothing else reads or sends to the transport.
LEMMA OthersDoNotRead ==
    ASSUME [Next]_vars, ~ReadCallback, \A kind \in Kinds : ~DaemonSends(kind)
    PROVE  UNCHANGED <<readVars, peerVars, got>>
<1>1. CASE Shutdown \/ Release \/ WriteErrorCallback \/ WriteCallback \/ WriteReturn
  BY <1>1 DEF Shutdown, Release, WriteErrorCallback, WriteCallback, WriteReturn
<1>2. CASE \/ WriteErrorDown \/ ReadErrorSignal \/ ReadReturn \/ SocketConnected \/ UserReturns
  BY <1>2 DEF WriteErrorDown, ReadErrorSignal, ReadReturn, SocketConnected, UserReturns
<1>3. CASE \/ Finalize \/ UNCHANGED vars \/ \E error \in BOOLEAN : ReadFails(error)
           \/ \E d \in DataLens : Send(d)
  BY <1>3 DEF Finalize, vars, ReadFails, Send
<1>4. QED
  BY <1>1, <1>2, <1>3 DEF Next, User, Event, Step

LEMMA ReadStep == TypeOK /\ ReadInv /\ [Next]_vars => ReadInv'
<1> SUFFICES ASSUME TypeOK, ReadInv, [Next]_vars PROVE ReadInv'
  OBVIOUS
<1>1. CASE ReadCallback
  BY <1>1, ReadCallbackRead
<1>2. ASSUME NEW kind \in Kinds, DaemonSends(kind) PROVE ReadInv'
  BY <1>2, DaemonRead
<1>3. CASE ~ReadCallback /\ \A kind \in Kinds : ~DaemonSends(kind)
  <2>1. UNCHANGED <<readVars, peerVars, got>>
    BY <1>3, OthersDoNotRead
  <2>2. UNCHANGED <<read_len_buf, read_len, read_buf, got, incoming, unread>>
    BY <2>1 DEF readVars, peerVars
  <2>3. FlagStep
    BY FlagSteps, TypeSplit
  <2>4. read_watch_id' => read_watch_id
    BY <2>3 DEF FlagStep, IOStep, ioVars
  <2>5. LenRead' = LenRead /\ Done' = Done
    BY <2>2 DEF LenRead, Done
  <2>6. \A n : (Begun(n) => Begun(n)') /\ (ReadUpTo(n) => ReadUpTo(n)')
    BY <2>2, <2>5 DEF Begun, ReadUpTo
  <2>7. QED
    BY <2>2, <2>4, <2>6 DEF ReadInv
<1>4. QED
  BY <1>1, <1>2, <1>3

LEMMA HeldIsPart ==
    ASSUME NEW s, NEW p \in Nat, NEW q \in Nat, NEW l, Holds(s, p, q, l),
           NEW k \in Nat, q + l <= k
    PROVE  s = SubSeq(Chunk(p, 0, k), q + 1, q + l)
<1>1. PICK c : c = Chunk(p, 0, k)
  OBVIOUS
<1>2. 0 \in Nat /\ 0 <= k /\ k - 0 = k /\ \A i \in 1 .. k : 0 + i = i
  OBVIOUS
<1>3. c \in UnitSeqs /\ Len(c) = k
  BY <1>1, <1>2, ChunkTyped, ChunkUnits
<1>4. \A i \in 1 .. k : c[i] = <<p, i>>
  <2>1. \A i \in 1 .. k : c[i] = <<p, 0 + i>>
    BY <1>1, <1>2 DEF Chunk
  <2>2. QED
    BY <1>2, <2>1
<1>5. /\ s \in UnitSeqs /\ l \in Nat /\ Len(s) = l
      /\ \A i \in 1 .. l : s[i] = <<p, q + i>>
  BY Zenon DEF Holds
<1>6. PICK e \in Nat : e = q + l
  BY <1>5
<1>7. PICK t : t = SubSeq(c, q + 1, e)
  OBVIOUS
<1>8. t \in UnitSeqs /\ Len(t) = e - q /\ \A i \in 1 .. e - q : t[i] = c[q + i]
  BY <1>3, <1>5, <1>6, <1>7, UnitSeqsPart
<1>9. e - q = l
  BY <1>5, <1>6
<1>10. \A i \in 1 .. l : s[i] = t[i]
  <2> SUFFICES ASSUME NEW i \in 1 .. l PROVE s[i] = t[i]
    OBVIOUS
  <2>1. q + i \in 1 .. k
    BY <1>5
  <2>2. t[i] = c[q + i]
    BY <1>8, <1>9
  <2>3. c[q + i] = <<p, q + i>>
    BY <1>4, <2>1
  <2>4. QED
    BY <1>5, <2>2, <2>3, Zenon
<1>11. s = t
  <2>1. Len(s) = Len(t)
    BY <1>5, <1>8, <1>9
  <2>2. \A i \in 1 .. Len(s) : s[i] = t[i]
    BY <1>5, <1>10
  <2>3. QED
    BY <1>5, <1>8, <2>1, <2>2, SeqEqual DEF UnitSeqs
<1>12. QED
  BY <1>1, <1>6, <1>7, <1>11, Zenon

\* The buffers hold the beginning of a packet of the daemon, what is not read yet goes on
\* from there, and what was signalled agrees with it.
THEOREM ReadInvHolds == Spec => [](TypeOK /\ ReadInv)
<1>1. Init => ReadInv
  <2> SUFFICES ASSUME Init PROVE ReadInv
    OBVIOUS
  <2>1. /\ incoming = <<>> /\ unread = <<>> /\ got = 0 /\ read_len_buf = <<>>
        /\ Len(incoming) = 0 /\ Len(unread) = 0 /\ Len(read_len_buf) = 0
        /\ LenLen \in Nat /\ LenLen > 0
    BY Lengths DEF Init
  <2>2. ~LenRead /\ Done = 0
    BY <2>1 DEF LenRead, Done
  <2>3. Begun(1)
    <3>1. Holds(<<>>, 1, 0, 0)
      BY DEF Holds, UnitSeqs
    <3>2. Cardinality(Meaning(incoming, 1)) = 0
      BY MeaningCounted
    <3>3. QED
      BY <2>1, <3>1, <3>2 DEF Begun
  <2>4. Placed(incoming, unread, 1, 0)
    <3>1. PICK f : f = [m \in 1 .. 1 |-> 0]
      OBVIOUS
    <3>2. Starts(incoming, unread, f, 1, 0)
      BY <2>1, <3>1 DEF Starts
    <3>3. QED
      BY <3>2 DEF Placed
  <2>5. ReadUpTo(1) /\ 1 \in 1 .. Len(incoming) + 1
    BY <2>1, <2>2, <2>3, <2>4 DEF ReadUpTo
  <2>6. QED
    BY <2>1, <2>5 DEF ReadInv
<1>2. QED
  BY <1>1, ReadStep, TypeCorrect, PTL DEF Spec

\* Between two callbacks the buffers hold the beginning of one packet of the daemon, and
\* every packet before it that means something was signalled.
THEOREM ReadsInStep == Spec => []ReadInStep
<1>1. TypeOK /\ ReadInv => ReadInStep
  <2> SUFFICES ASSUME TypeOK, ReadInv, read_len_buf # <<>>
               PROVE  LET n == read_len_buf[1][1]
                      IN  /\ read_len_buf = SubSeq(Body(n, incoming[n]), 1, Len(read_len_buf))
                          /\ Len(read_len_buf) = LenLen /\ read_watch_id =>
                               read_buf = SubSeq(Body(n, incoming[n]), LenLen + 1,
                                                 LenLen + Len(read_buf))
                          /\ got = Cardinality({m \in 1 .. n - 1 : incoming[m] # "unknown"})
    BY DEF ReadInStep
  <2>1. PICK n \in 1 .. Len(incoming) : Begun(n)
    BY DEF ReadInv
  <2>2. /\ read_len_buf \in UnitSeqs /\ read_buf \in UnitSeqs /\ Len(incoming) \in Nat
        /\ Len(read_len_buf) \in Nat /\ Len(read_len_buf) > 0 /\ Len(read_len_buf) <= LenLen
        /\ LenLen \in Nat /\ n \in Nat /\ Len(read_buf) \in Nat
    <3>1. Len(incoming) \in Nat /\ read_len_buf \in UnitSeqs /\ read_buf \in UnitSeqs
      BY TypedParts
    <3>2. QED
      BY <3>1, Lengths DEF UnitSeqs, ReadInv
  <2>3. read_len_buf[1] = <<n, 0 + 1>>
    BY <2>1, <2>2 DEF Begun, Holds
  <2>4. n = read_len_buf[1][1]
    BY <2>3
  <2>5. PICK k \in Nat : k = PacketLen(incoming[n])
    BY PacketLenTyped
  <2>6. Body(n, incoming[n]) = Chunk(n, 0, k)
    BY <2>5 DEF Body, PacketLen
  <2>7. read_len_buf = SubSeq(Chunk(n, 0, k), 1, Len(read_len_buf))
    <3>1. PICK l : l = Len(read_len_buf)
      OBVIOUS
    <3>2. Holds(read_len_buf, n, 0, l)
      BY <2>1, <3>1 DEF Begun
    <3>3. 0 \in Nat /\ 0 + l <= k /\ 0 + 1 = 1 /\ 0 + l = l
      BY <2>2, <2>5, <3>1, PacketLenTyped
    <3>4. read_len_buf = SubSeq(Chunk(n, 0, k), 0 + 1, 0 + l)
      BY <2>2, <3>2, <3>3, HeldIsPart
    <3>5. QED
      BY <3>1, <3>3, <3>4
  <2>8. ASSUME LenRead, read_watch_id
        PROVE  read_buf = SubSeq(Chunk(n, 0, k), LenLen + 1, LenLen + Len(read_buf))
    <3>1. PICK m \in 1 .. Len(incoming) + 1 : ReadUpTo(m)
      BY <2>8 DEF ReadInv
    <3>2. read_len_buf[1] = <<m, 0 + 1>>
      BY <2>2, <3>1 DEF ReadUpTo, Begun, Holds
    <3>3. m = n
      BY <2>3, <3>2
    <3>4. PICK l : l = Len(read_buf)
      OBVIOUS
    <3>5. Holds(read_buf, n, LenLen, l) /\ l < Length(incoming[n])
      BY <2>8, <3>1, <3>3, <3>4 DEF ReadUpTo
    <3>6. LenLen + l <= k
      BY <2>2, <2>5, <3>4, <3>5, PacketLenTyped
    <3>7. read_buf = SubSeq(Chunk(n, 0, k), LenLen + 1, LenLen + l)
      BY <2>2, <3>5, <3>6, HeldIsPart
    <3>8. QED
      BY <3>4, <3>7
  <2>9. got = Cardinality({m \in 1 .. n - 1 : incoming[m] # "unknown"})
    BY <2>1 DEF Begun, Meaning
  <2>10. QED
    BY <2>4, <2>6, <2>7, <2>8, <2>9 DEF LenRead
<1>2. QED
  BY <1>1, ReadInvHolds, PTL

-----------------------------------------------------------------------------
(* The link, as the user is told of it.                                    *)

Without(s, f) == \A k \in DOMAIN s : s[k].fn # f

\* Once the link is lost, or about to be, the channel is closed.
ClosedInv ==
    disconnected \/ write_error_id \/ ~Without(stack, "write_error") => ~io_channel

\* What the user was told agrees with the transport, while there is a user.
ToldInv ==
    /\ link = "down" => disconnected
    /\ held /\ disconnected => link = "down"
    /\ held /\ connected => link = "up"
    /\ connected => ~disconnected

\* The connected signal is still to come: the indication was just read, and nothing else
\* is being executed but the handler of its signal.
ConnectingInv ==
    ~Without(stack, "connected") =>
        /\ ~disconnected
        /\ \/ stack = Step1("connected")
           \/ stack = <<Frame("user", "connected_event"), Frame("connected", "none")>>

LinkInv == ClosedInv /\ ToldInv /\ ConnectingInv

LEMMA WithoutBoth ==
    ASSUME NEW s \in Seq(FrameType), NEW t \in Seq(FrameType), NEW f,
           Without(s, f), Without(t, f)
    PROVE  Without(s \o t, f)
<1> HIDE DEF FrameType
<1>1. ASSUME NEW k \in 1 .. Len(s) + Len(t) PROVE (s \o t)[k].fn # f
  <2>1. CASE k \in 1 .. Len(s)
    <3>1. (s \o t)[k] = s[k]
      BY <2>1
    <3>2. QED
      BY <2>1, <3>1 DEF Without
  <2>2. CASE k \notin 1 .. Len(s)
    <3>1. k - Len(s) \in 1 .. Len(t) /\ (s \o t)[k] = t[k - Len(s)]
      BY <2>2
    <3>2. QED
      BY <3>1 DEF Without
  <2>3. QED
    BY <2>1, <2>2
<1>2. DOMAIN (s \o t) = 1 .. Len(s) + Len(t)
  OBVIOUS
<1>3. QED
  BY <1>1, <1>2 DEF Without

LEMMA EmitWithout ==
    ASSUME NEW s \in Signals
    PROVE  Emit(s) \in Seq(FrameType) /\ \A f : f # "user" => Without(Emit(s), f)
<1>1. Emit(s) = <<>> \/ Emit(s) = <<Frame("user", s)>>
  BY DEF Emit
<1>2. QED
  BY <1>1, EmitTyped DEF Without, Frame

LEMMA Step1Without ==
    ASSUME NEW f \in Functions
    PROVE  Step1(f) \in Seq(FrameType) /\ \A g : g # f => Without(Step1(f), g)
  BY Step1Typed DEF Without, Step1, Frame

\* A signal and what follows it.
LEMMA PushedWithout ==
    ASSUME NEW s \in Signals, NEW f \in Functions, NEW g, g # "user", g # f
    PROVE  Without(Emit(s) \o Step1(f), g) /\ Emit(s) \o Step1(f) \in Seq(FrameType)
<1>1. Emit(s) \in Seq(FrameType) /\ Without(Emit(s), g)
  BY EmitWithout
<1>2. Step1(f) \in Seq(FrameType) /\ Without(Step1(f), g)
  BY Step1Without
<1>3. QED
  BY <1>1, <1>2, WithoutBoth, AppendedTyped

LEMMA RestWithout ==
    ASSUME stack \in Seq(FrameType), stack # <<>>, NEW g, Without(stack, g)
    PROVE  Rest \in Seq(FrameType) /\ Without(Rest, g)
  BY RestTyped DEF Without

\* The same on top of what is left to do.
LEMMA SignalWithout ==
    ASSUME stack \in Seq(FrameType), stack # <<>>, NEW g, Without(Rest, g),
           NEW s \in Signals, NEW f \in Functions, g # "user", g # f
    PROVE  Without(Emit(s) \o Step1(f) \o Rest, g)
<1>1. Without(Emit(s) \o Step1(f), g) /\ Emit(s) \o Step1(f) \in Seq(FrameType)
  BY PushedWithout
<1>2. Rest \in Seq(FrameType)
  BY RestTyped
<1>3. QED
  BY <1>1, <1>2, WithoutBoth

LEMMA DisconnectedWithout ==
    ASSUME NEW after \in Seq(FrameType), NEW g, g # "user", Without(after, g),
           SetDisconnected(after)
    PROVE  Without(stack', g)
<1>1. PICK e : e = IF disconnected THEN <<>> ELSE Emit("disconnected")
  OBVIOUS
<1>2. e \in Seq(FrameType) /\ Without(e, g)
  <2>1. "disconnected" \in Signals
    BY DEF Signals
  <2>2. Emit("disconnected") \in Seq(FrameType) /\ Without(Emit("disconnected"), g)
    BY <2>1, EmitWithout
  <2>3. <<>> \in Seq(FrameType) /\ Without(<<>>, g)
    BY DEF Without
  <2>4. QED
    BY <1>1, <2>2, <2>3
<1>3. stack' = e \o after
  BY <1>1 DEF SetDisconnected
<1>4. QED
  BY <1>2, <1>3, WithoutBoth

\* A function that is being executed is on the stack.
LEMMA TopOnStack ==
    ASSUME stack \in Seq(FrameType), NEW f, Running(f)
    PROVE  /\ ~Without(stack, f) /\ stack # <<>>
           /\ ConnectingInv => f \in {"user", "connected"} \/ Without(stack, "connected")
<1>1. stack # <<>> /\ 1 \in DOMAIN stack /\ stack[1].fn = f
  BY RestTyped DEF Running
<1>2. stack = Step1("connected") => f = "connected"
  BY <1>1 DEF Step1, Frame
<1>3. stack = <<Frame("user", "connected_event"), Frame("connected", "none")>> => f = "user"
  BY <1>1 DEF Frame
<1>4. QED
  BY <1>1, <1>2, <1>3 DEF Without, ConnectingInv

\* No new reference is taken by the user.
LEMMA HeldBefore == [Next]_vars /\ held' => held
<1> SUFFICES ASSUME [Next]_vars, held' PROVE held
  OBVIOUS
<1>1. CASE \/ \E d \in DataLens : Send(d)
           \/ Shutdown \/ Release \/ WriteCallback \/ WriteErrorCallback \/ ReadCallback
           \/ \E error \in BOOLEAN : ReadFails(error)
  BY <1>1 DEF Send, Shutdown, Release, WriteCallback, WriteErrorCallback, ReadCallback,
     ReadFails, refVars
<1>2. CASE \/ WriteReturn \/ WriteErrorDown \/ ReadErrorSignal \/ ReadReturn
           \/ SocketConnected \/ UserReturns \/ Finalize \/ UNCHANGED vars
           \/ \E kind \in Kinds : DaemonSends(kind)
  BY <1>2 DEF WriteReturn, WriteErrorDown, ReadErrorSignal, ReadReturn, SocketConnected,
     UserReturns, Finalize, vars, DaemonSends, refVars
<1>3. QED
  BY <1>1, <1>2 DEF Next, User, Event, Step

\* What the user is told goes with what happens to the link.
LEMMA ToldStep ==
    ASSUME TypeOK, ReferenceInv, LinkInv, [Next]_vars
    PROVE  ToldInv'
<1>1. LinkStep
  BY FlagSteps, TypeSplit DEF FlagStep
<1>2. held' => held
  BY HeldBefore
<1>3. CASE UNCHANGED <<connected, disconnected, link>>
  BY <1>2, <1>3 DEF LinkInv, ToldInv
<1>4. CASE /\ connected' = FALSE /\ disconnected' = TRUE
           /\ link' = IF ~disconnected /\ held THEN "down" ELSE link
  BY <1>2, <1>4 DEF LinkInv, ToldInv
<1>5. CASE /\ Running("connected")
           /\ connected' = TRUE /\ disconnected' = disconnected
           /\ link' = IF held THEN "up" ELSE link
  <2>1. ~Without(stack, "connected")
    BY <1>5, TopOnStack DEF ReferenceInv
  <2>2. ~disconnected
    BY <2>1 DEF LinkInv, ConnectingInv
  <2>3. QED
    BY <1>2, <1>5, <2>2 DEF LinkInv, ToldInv
<1>6. QED
  BY <1>1, <1>3, <1>4, <1>5 DEF LinkStep

\* A handler of the channel runs from the main loop: it leaves the stack alone or pushes a
\* signal and what follows it.
LEMMA CallbackStack ==
    ASSUME WriteCallback \/ ReadCallback, io_channel'
    PROVE  /\ UNCHANGED downVars /\ stack = <<>> /\ held
           /\ \/ UNCHANGED stack
              \/ stack' = Emit("request_sent") \o Step1("write_return")
              \/ stack' = Emit("delivery") \o Step1("read_return")
              \/ ReadCallback /\ stack' = Emit("connected_event") \o Step1("connected")
<1>1. CASE WriteCallback
  BY <1>1 DEF WriteCallback, Dispatched, Idle, HandleWriteError, downVars
<1>2. CASE ReadCallback
  <2>1. PICK a \in 0 .. LenLen, b \in 0 .. BodyLen : Read(a, b)
    BY <1>2 DEF ReadCallback
  <2>2. \/ UNCHANGED <<stack, downVars>>
        \/ \E n : HandlePacket(n)
    BY <2>1, Zenon DEF Read
  <2>3. ASSUME NEW n, HandlePacket(n)
        PROVE  \/ UNCHANGED <<stack, downVars>>
               \/ /\ UNCHANGED downVars
                  /\ \/ stack' = Emit("delivery") \o Step1("read_return")
                     \/ stack' = Emit("connected_event") \o Step1("connected")
    BY <2>3 DEF HandlePacket, HandleUnknown, HandleReadError, ShutdownIO
  <2>4. stack = <<>> /\ held
    BY <1>2 DEF ReadCallback, Dispatched, Idle
  <2>5. QED
    BY <1>2, <2>2, <2>3, <2>4
<1>3. QED
  BY <1>1, <1>2

LEMMA ClosedStep ==
    ASSUME TypeOK, ReferenceInv, LinkInv, [Next]_vars
    PROVE  ClosedInv'
<1> SUFFICES ASSUME io_channel'
             PROVE  ~disconnected' /\ ~write_error_id' /\ Without(stack', "write_error")
  BY DEF ClosedInv, Without
<1>1. /\ ~disconnected /\ ~write_error_id /\ Without(stack, "write_error")
      /\ stack \in Seq(FrameType)
  <2>1. io_channel
    BY NotReopened
  <2>2. QED
    BY <2>1 DEF LinkInv, ClosedInv, ReferenceInv
<1>2. CASE UNCHANGED <<downVars, stack>>
  BY <1>1, <1>2 DEF downVars
<1>3. CASE UNCHANGED downVars /\ stack # <<>> /\ stack' = Rest
  BY <1>1, <1>3, RestWithout DEF downVars
<1>4. ASSUME NEW d \in DataLens, Send(d)
      PROVE  UNCHANGED <<downVars, stack>>
  BY <1>4 DEF Send, HandleWriteError, downVars
<1>5. CASE Shutdown \/ Finalize \/ \E error \in BOOLEAN : ReadFails(error)
  BY <1>5 DEF Shutdown, Finalize, ReadFails, HandleReadError, ShutdownIO
<1>6. CASE WriteCallback \/ ReadCallback
  <2>1. UNCHANGED downVars
    BY <1>6, CallbackStack
  <2>2. Without(stack', "write_error")
    <3>1. Without(Emit("request_sent") \o Step1("write_return"), "write_error")
      BY PushedWithout DEF Signals, Functions
    <3>2. Without(Emit("delivery") \o Step1("read_return"), "write_error")
      BY PushedWithout DEF Signals, Functions
    <3>3. Without(Emit("connected_event") \o Step1("connected"), "write_error")
      BY PushedWithout DEF Signals, Functions
    <3>4. QED
      BY <1>1, <1>6, <3>1, <3>2, <3>3, CallbackStack
  <2>3. QED
    BY <1>1, <2>1, <2>2 DEF downVars
<1>7. CASE WriteErrorCallback
  BY <1>1, <1>7 DEF WriteErrorCallback
<1>8. CASE WriteErrorDown
  BY <1>1, <1>8, TopOnStack DEF WriteErrorDown
<1>9. CASE ReadErrorSignal \/ SocketConnected
  <2>1. /\ UNCHANGED downVars /\ stack # <<>>
        /\ \/ stack' = Emit("read_error") \o Step1("read_return") \o Rest
           \/ stack' = Emit("connected") \o Step1("read_return") \o Rest
    BY <1>9 DEF ReadErrorSignal, SocketConnected, Running
  <2>2. Without(Rest, "write_error")
    BY <1>1, <2>1, RestWithout
  <2>3. Without(stack', "write_error")
    <3>1. Without(Emit("read_error") \o Step1("read_return") \o Rest, "write_error")
      BY <1>1, <2>1, <2>2, SignalWithout DEF Signals, Functions
    <3>2. Without(Emit("connected") \o Step1("read_return") \o Rest, "write_error")
      BY <1>1, <2>1, <2>2, SignalWithout DEF Signals, Functions
    <3>3. QED
      BY <2>1, <3>1, <3>2
  <2>4. QED
    BY <1>1, <2>1, <2>3 DEF downVars
<1>10. CASE WriteReturn \/ ReadReturn \/ UserReturns
  <2>1. UNCHANGED downVars /\ stack # <<>> /\ stack' = Rest
    BY <1>10 DEF WriteReturn, ReadReturn, UserReturns, Running
  <2>2. QED
    BY <1>3, <2>1
<1>11. CASE Release \/ UNCHANGED vars \/ \E kind \in Kinds : DaemonSends(kind)
  <2>1. UNCHANGED <<downVars, stack>>
    BY <1>11 DEF Release, vars, DaemonSends, downVars
  <2>2. QED
    BY <1>2, <2>1
<1>12. QED
  BY <1>2, <1>4, <1>5, <1>6, <1>7, <1>8, <1>9, <1>10, <1>11 DEF Next, User, Event, Step

LEMMA TwoFrames == \A a, b : <<a>> \o <<b>> = <<a, b>> /\ Tail(<<a, b>>) = <<b>>
<1> SUFFICES ASSUME NEW a, NEW b
             PROVE  <<a>> \o <<b>> = <<a, b>> /\ Tail(<<a, b>>) = <<b>>
  OBVIOUS
<1>1. PICK S : S = {a, b}
  OBVIOUS
<1>2. <<a>> \in Seq(S) /\ <<b>> \in Seq(S) /\ <<a, b>> \in Seq(S)
  BY <1>1
<1>3. <<a>> \o <<b>> = <<a, b>>
  <2>1. PICK s : s = <<a>> \o <<b>>
    OBVIOUS
  <2>2. s \in Seq(S) /\ Len(s) = 2 /\ s[1] = a /\ s[2] = b
    BY <1>2, <2>1
  <2>3. \A i \in 1 .. Len(s) : s[i] = <<a, b>>[i]
    BY <2>2
  <2>4. QED
    BY <1>2, <2>1, <2>2, <2>3, SeqEqual
<1>4. Tail(<<a, b>>) = <<b>>
  <2>1. PICK s : s = Tail(<<a, b>>)
    OBVIOUS
  <2>2. s \in Seq(S) /\ Len(s) = 1 /\ s[1] = b
    BY <1>2, <2>1
  <2>3. \A i \in 1 .. Len(s) : s[i] = <<b>>[i]
    BY <2>2
  <2>4. QED
    BY <1>2, <2>1, <2>2, <2>3, SeqEqual
<1>5. QED
  BY <1>3, <1>4

\* Nothing comes between the indication and the connected signal but what the user does in
\* the handler of RIL_CONNECTED, and that does not shut the link down.
LEMMA ConnectingStep ==
    ASSUME "connected_event" \notin ShutdownIn,
           TypeOK, ReferenceInv, LinkInv, [Next]_vars
    PROVE  ConnectingInv'
<1>1. stack \in Seq(FrameType) /\ ConnectingInv
  BY DEF ReferenceInv, LinkInv
<1>2. CASE Without(stack', "connected")
  BY <1>2 DEF ConnectingInv, Without
<1>3. CASE UNCHANGED <<disconnected, stack>>
  BY <1>1, <1>3 DEF ConnectingInv, Without, Step1, Frame
<1>4. stack = <<>> => Without(stack, "connected")
  BY DEF Without
<1>5. CASE Shutdown
  <2>1. SetDisconnected(stack) /\ Without(stack, "connected")
    <3>1. stack = <<>> \/ (Running("user") /\ Top.sig # "connected_event")
      BY <1>5 DEF Shutdown, UserRuns, Idle
    <3>2. stack # Step1("connected") \/ stack = <<>>
      BY <3>1 DEF Running, Top, Step1, Frame
    <3>3. stack # <<Frame("user", "connected_event"), Frame("connected", "none")>>
      BY <3>1 DEF Running, Top, Frame
    <3>4. QED
      BY <1>1, <1>4, <1>5, <3>2, <3>3 DEF ConnectingInv, Shutdown
  <2>2. Without(stack', "connected")
    BY <1>1, <2>1, DisconnectedWithout
  <2>3. QED
    BY <1>2, <2>2
<1>6. CASE Finalize
  <2>1. Without(stack, "connected") /\ stack' = stack
    BY <1>6 DEF Finalize, Referenced, Without
  <2>2. QED
    BY <1>2, <2>1
<1>7. ASSUME NEW error \in BOOLEAN, HandleReadError(error)
      PROVE  Without(stack', "connected")
  <2>1. PICK after : after = IF error THEN Step1("read_error") ELSE Step1("read_return")
    OBVIOUS
  <2>2. after \in Seq(FrameType) /\ Without(after, "connected")
    BY <2>1, Step1Without DEF Functions
  <2>3. QED
    BY <1>7, <2>1, <2>2, DisconnectedWithout DEF HandleReadError
<1>8. CASE WriteCallback
  <2>1. UNCHANGED <<disconnected, stack>> \/ stack' = Emit("request_sent") \o Step1("write_return")
    BY <1>8 DEF WriteCallback
  <2>2. Without(Emit("request_sent") \o Step1("write_return"), "connected")
    BY PushedWithout DEF Signals, Functions
  <2>3. QED
    BY <1>2, <1>3, <2>1, <2>2
<1>9. CASE WriteErrorCallback
  <2>1. Without(Emit("write_error") \o Step1("write_error"), "connected")
    BY PushedWithout DEF Signals, Functions
  <2>2. QED
    BY <1>2, <1>9, <2>1 DEF WriteErrorCallback
<1>10. CASE ReadCallback
  <2>1. CASE \E n : HandleReadError(TRUE)
    BY <1>2, <1>7, <2>1
  <2>2. CASE stack' = Emit("delivery") \o Step1("read_return")
    <3>1. Without(Emit("delivery") \o Step1("read_return"), "connected")
      BY PushedWithout DEF Signals, Functions
    <3>2. QED
      BY <1>2, <2>2, <3>1
  <2>3. CASE stack' = Emit("connected_event") \o Step1("connected") /\ UNCHANGED downVars
    <3>1. held /\ ~disconnected
      BY <1>10 DEF ReadCallback, Dispatched, TypeOK, LinkInv, ClosedInv
    <3>2. stack' = <<Frame("user", "connected_event"), Frame("connected", "none")>>
      <4>1. Emit("connected_event") = <<Frame("user", "connected_event")>>
        BY <3>1 DEF Emit
      <4>2. QED
        BY <2>3, <4>1, TwoFrames DEF Step1
    <3>3. QED
      BY <2>3, <3>1, <3>2 DEF ConnectingInv, downVars
  <2>4. CASE UNCHANGED <<stack, downVars>>
    BY <1>3, <2>4 DEF downVars
  <2>5. PICK a \in 0 .. LenLen, b \in 0 .. BodyLen : Read(a, b)
    BY <1>10 DEF ReadCallback
  <2>6. UNCHANGED <<stack, downVars>> \/ \E n : HandlePacket(n)
    BY <2>5, Zenon DEF Read
  <2>7. ASSUME NEW n, HandlePacket(n)
        PROVE  \/ HandleReadError(TRUE)
               \/ stack' = Emit("delivery") \o Step1("read_return")
               \/ stack' = Emit("connected_event") \o Step1("connected") /\ UNCHANGED downVars
               \/ UNCHANGED <<stack, downVars>>
    BY <2>7 DEF HandlePacket, HandleUnknown
  <2>8. QED
    BY <2>1, <2>2, <2>3, <2>4, <2>6, <2>7
<1>11. ASSUME NEW f \in Functions \ {"user", "connected"}, Running(f)
       PROVE  Without(stack, "connected") /\ Without(Rest, "connected") /\ stack # <<>>
              /\ Rest \in Seq(FrameType)
  BY <1>1, <1>11, TopOnStack, RestWithout
<1>12. CASE WriteReturn \/ ReadReturn
  <2>1. stack' = Rest /\ (Running("write_return") \/ Running("read_return"))
    BY <1>12 DEF WriteReturn, ReadReturn
  <2>2. QED
    BY <1>2, <1>11, <2>1 DEF Functions
<1>13. CASE WriteErrorDown
  <2>1. SetDisconnected(Rest) /\ Running("write_error")
    BY <1>13 DEF WriteErrorDown
  <2>2. Without(Rest, "connected") /\ Rest \in Seq(FrameType)
    BY <1>11, <2>1 DEF Functions
  <2>3. QED
    BY <1>2, <2>1, <2>2, DisconnectedWithout
<1>14. CASE ReadErrorSignal
  <2>1. /\ Running("read_error")
        /\ stack' = Emit("read_error") \o Step1("read_return") \o Rest
    BY <1>14 DEF ReadErrorSignal
  <2>2. Without(Rest, "connected") /\ stack # <<>>
    BY <1>11, <2>1 DEF Functions
  <2>3. Without(stack', "connected")
    BY <1>1, <2>1, <2>2, SignalWithout DEF Signals, Functions
  <2>4. QED
    BY <1>2, <2>3
<1>15. CASE SocketConnected
  <2>1. /\ Running("connected")
        /\ stack' = Emit("connected") \o Step1("read_return") \o Rest
    BY <1>15 DEF SocketConnected
  <2>2. ~Without(stack, "connected") /\ stack # <<>>
    BY <1>1, <2>1, TopOnStack
  <2>3. stack = Step1("connected")
    BY <1>1, <2>1, <2>2 DEF ConnectingInv, Running, Top, Frame
  <2>4. Without(Rest, "connected")
    BY <2>3 DEF Rest, Step1, Without
  <2>5. Without(stack', "connected")
    BY <1>1, <2>1, <2>2, <2>4, SignalWithout DEF Signals, Functions
  <2>6. QED
    BY <1>2, <2>5
<1>16. CASE UserReturns
  <2>1. Running("user") /\ stack # <<>> /\ stack' = Rest /\ disconnected' = disconnected
    BY <1>16 DEF UserReturns, Running, downVars
  <2>2. CASE Without(stack, "connected")
    BY <1>1, <1>2, <2>1, <2>2, RestWithout
  <2>3. CASE ~Without(stack, "connected")
    <3>1. stack # Step1("connected")
      BY <2>1 DEF Running, Top, Step1, Frame
    <3>2. stack' = Step1("connected")
      <4>1. stack = <<Frame("user", "connected_event"), Frame("connected", "none")>>
        BY <1>1, <2>3, <3>1 DEF ConnectingInv
      <4>2. QED
        BY <2>1, <4>1, TwoFrames DEF Rest, Step1
    <3>3. ~disconnected'
      BY <1>1, <2>1, <2>3 DEF ConnectingInv
    <3>4. QED
      BY <3>2, <3>3 DEF ConnectingInv, Step1, Frame
  <2>4. QED
    BY <2>2, <2>3
<1>17. CASE \/ Release \/ UNCHANGED vars \/ \E d \in DataLens : Send(d)
            \/ \E kind \in Kinds : DaemonSends(kind)
  <2>1. UNCHANGED <<disconnected, stack>>
    BY <1>17 DEF Release, vars, Send, DaemonSends, downVars
  <2>2. QED
    BY <1>3, <2>1
<1>18. CASE \E error \in BOOLEAN : ReadFails(error)
  BY <1>2, <1>7, <1>18 DEF ReadFails
<1>19. QED
  BY <1>5, <1>6, <1>8, <1>9, <1>10, <1>12, <1>13, <1>14, <1>15, <1>16, <1>17, <1>18
  DEF Next, User, Event, Step

\* What the user was told of the link is true, a lost link has closed the channel, and the
\* connected signal does not follow a loss.
THEOREM LinkInvHolds ==
    ASSUME "connected_event" \notin ShutdownIn
    PROVE  Spec => [](TypeOK /\ ReferenceInv /\ WireInv /\ LinkInv)
<1>1. Init => LinkInv
  BY DEF Init, LinkInv, ClosedInv, ToldInv, ConnectingInv, Without
<1>2. TypeOK /\ ReferenceInv /\ LinkInv /\ [Next]_vars => LinkInv'
  BY ToldStep, ClosedStep, ConnectingStep DEF LinkInv
<1>3. QED
  BY <1>1, <1>2, WireInvHolds, ReferencesHold, PTL DEF Spec

-----------------------------------------------------------------------------
(* The socket implements the transport.                                    *)

\* The number of the packet that was reported last.
Reported(wr) == IF wr = <<>> THEN 0 ELSE Last(wr)

LEMMA ReportedNext ==
    ASSUME NEW wr \in Seq(Nat), NEW p \in Nat
    PROVE  Reported(Append(wr, p)) = p
<1>1. PICK v : v = Append(wr, p)
  OBVIOUS
<1>2. v # <<>> /\ v[Len(v)] = p
  BY <1>1
<1>3. QED
  BY <1>1, <1>2 DEF Reported, Last

\* The link is lost, if it was not lost before.
LEMMA LossPromised ==
    ASSUME LinkInv, NEW after, SetDisconnected(after), UNCHANGED <<userVars, got>>
    PROVE  Promise!Disconnect \/ UNCHANGED <<link, busy, size, written, got>>
<1>1. CASE ~disconnected /\ held
  <2>1. link # "down" /\ link' = "down"
    BY <1>1 DEF LinkInv, ToldInv, SetDisconnected
  <2>2. QED
    BY <2>1 DEF Promise!Disconnect, userVars
<1>2. CASE ~(~disconnected /\ held)
  BY <1>2 DEF SetDisconnected, userVars
<1>3. QED
  BY <1>1, <1>2

LEMMA SendPromised ==
    ASSUME TypeOK, NEW d \in DataLens, Send(d)
    PROVE  Promise!Send
<1>1. size \in Seq(DataLens) /\ Len(size) \in Nat /\ written \in Seq(Nat)
  BY TypedParts
<1>2. PICK p : p = Len(size')
  OBVIOUS
<1>3. p = Len(size) + 1 /\ p \in Nat
  BY <1>1, <1>2 DEF Send
<1>4. /\ link = "up" /\ busy = 0 /\ UNCHANGED <<link, got>>
      /\ \/ busy' = p /\ written' = written
         \/ busy' = 0 /\ written' = Append(written, p)
  BY <1>2 DEF Send
<1>5. Reported(Append(written, p)) = p
  BY <1>1, <1>3, ReportedNext
<1>6. \/ Reported(written') = p /\ busy' = busy
      \/ busy' = p /\ Reported(written') = Reported(written)
  BY <1>4, <1>5
<1>7. QED
  BY <1>2, <1>3, <1>4, <1>6 DEF Promise!Send, Reported

LEMMA WriteCallbackPromised ==
    ASSUME TypeOK, WireInv, LinkInv, WriteCallback
    PROVE  Promise!Sent \/ UNCHANGED <<link, busy, size, written, got>>
<1>1. PICK o \in WriteOutcomes(send_req, send_header_pos, send_pos) :
        \/ /\ o.result = "sent"
           /\ written' = Append(written, send_req)
           /\ busy' = IF busy = send_req THEN 0 ELSE busy
        \/ UNCHANGED <<written, busy>>
  BY DEF WriteCallback
<1>2. held /\ io_channel /\ UNCHANGED <<link, size, got>>
  BY DEF WriteCallback, Dispatched
<1>3. CASE o.result = "sent" /\ written' = Append(written, send_req)
           /\ busy' = IF busy = send_req THEN 0 ELSE busy
  <2>1. connected /\ send_req # 0
    BY <1>3 DEF WriteOutcomes
  <2>2. link = "up" /\ busy = send_req
    BY <1>2, <2>1 DEF LinkInv, ToldInv, WireInv
  <2>3. written \in Seq(Nat) /\ send_req \in Nat
    BY TypedParts
  <2>4. Reported(written') = send_req
    BY <1>3, <2>3, ReportedNext
  <2>5. QED
    BY <1>2, <1>3, <2>1, <2>2, <2>4 DEF Promise!Sent, Reported
<1>4. QED
  BY <1>1, <1>2, <1>3

LEMMA ReadPromised ==
    ASSUME TypeOK, LinkInv, ReadCallback
    PROVE  \/ Promise!Deliver \/ Promise!Disconnect
           \/ UNCHANGED <<link, busy, size, written, got>>
<1>1. PICK a \in 0 .. LenLen, b \in 0 .. BodyLen : Read(a, b)
  BY DEF ReadCallback
<1>2. UNCHANGED <<busy, size, written>>
  BY DEF ReadCallback, userVars
<1>3. UNCHANGED <<link, got>> \/ \E n : HandlePacket(n)
  BY <1>1, Zenon DEF Read
<1>4. ASSUME NEW n, HandlePacket(n)
      PROVE  \/ got' = got + 1 /\ UNCHANGED link
             \/ UNCHANGED <<link, got>>
             \/ HandleReadError(TRUE) /\ UNCHANGED got
  BY <1>4 DEF HandlePacket, HandleUnknown
<1>5. CASE got' = got + 1 /\ UNCHANGED link
  <2>1. link # "down"
    BY DEF ReadCallback, TypeOK, LinkInv, ClosedInv, ToldInv
  <2>2. QED
    BY <1>2, <1>5, <2>1 DEF Promise!Deliver
<1>6. CASE HandleReadError(TRUE) /\ UNCHANGED got
  BY <1>2, <1>6, LossPromised DEF HandleReadError, userVars
<1>7. QED
  BY <1>2, <1>3, <1>4, <1>5, <1>6

\* The connected signal is the first thing the user hears of the link, or changes nothing.
LEMMA ConnectPromised ==
    ASSUME TypeOK, ReferenceInv, LinkInv, SocketConnected
    PROVE  Promise!Connect \/ UNCHANGED <<link, busy, size, written, got>>
<1>1. UNCHANGED <<busy, size, written, got>> /\ link' = IF held THEN "up" ELSE link
  BY DEF SocketConnected, userVars
<1>2. link # "down"
  <2>1. ~Without(stack, "connected")
    BY TopOnStack DEF SocketConnected, ReferenceInv
  <2>2. QED
    BY <2>1 DEF LinkInv, ConnectingInv, ToldInv
<1>3. link \in {"new", "up"}
  BY <1>2 DEF TypeOK
<1>4. CASE held /\ link = "new"
  BY <1>1, <1>4 DEF Promise!Connect
<1>5. CASE ~(held /\ link = "new")
  BY <1>1, <1>3, <1>5
<1>6. QED
  BY <1>4, <1>5

LEMMA PromiseStep ==
    ASSUME TypeOK, ReferenceInv, WireInv, LinkInv, [Next]_vars
    PROVE  [Promise!Next]_(Promise!vars)
<1>1. CASE UNCHANGED <<link, busy, size, written, got>>
  BY <1>1 DEF Promise!vars
<1>2. CASE \E d \in DataLens : Send(d)
  BY <1>2, SendPromised DEF Promise!Next
<1>3. CASE WriteCallback
  BY <1>1, <1>3, WriteCallbackPromised DEF Promise!Next
<1>4. CASE ReadCallback
  BY <1>1, <1>4, ReadPromised DEF Promise!Next
<1>5. CASE SocketConnected
  BY <1>1, <1>5, ConnectPromised DEF Promise!Next
<1>6. CASE Shutdown \/ WriteErrorDown \/ \E error \in BOOLEAN : ReadFails(error)
  <2>1. UNCHANGED <<userVars, got>> /\ \E after : SetDisconnected(after)
    BY <1>6 DEF Shutdown, WriteErrorDown, ReadFails, HandleReadError
  <2>2. QED
    BY <1>1, <2>1, LossPromised DEF Promise!Next
<1>7. CASE \/ Release \/ WriteErrorCallback \/ WriteReturn \/ ReadErrorSignal \/ ReadReturn
           \/ UserReturns \/ Finalize \/ UNCHANGED vars
           \/ \E kind \in Kinds : DaemonSends(kind)
  <2>1. UNCHANGED <<link, busy, size, written, got>>
    BY <1>7 DEF Release, WriteErrorCallback, WriteReturn, ReadErrorSignal, ReadReturn,
       UserReturns, Finalize, vars, DaemonSends, userVars
  <2>2. QED
    BY <1>1, <2>1
<1>8. QED
  BY <1>2, <1>3, <1>4, <1>5, <1>6, <1>7 DEF Next, User, Event, Step

\* For all its watches and callbacks, partial writes, errors, shutdowns and calls from
\* inside its signals the socket keeps the promise of a transport (TransportPromise): every
\* step of it is a step of the promise or changes nothing the channel can see.
THEOREM SocketKeepsPromise ==
    ASSUME "connected_event" \notin ShutdownIn
    PROVE  Spec => KeepsPromise
<1>1. Init => Promise!Init
  <2> SUFFICES ASSUME Init PROVE Promise!Init
    OBVIOUS
  <2>1. link = "new" /\ busy = 0 /\ size = <<>> /\ written = <<>> /\ got = 0 /\ Len(size) = 0
    BY DEF Init
  <2>2. QED
    BY <2>1 DEF Promise!Init
<1>2. TypeOK /\ ReferenceInv /\ WireInv /\ LinkInv /\ [Next]_vars
        => [Promise!Next]_(Promise!vars)
  BY PromiseStep
<1>3. QED
  BY <1>1, <1>2, LinkInvHolds, PTL DEF Spec, KeepsPromise, Promise!Spec
=============================================================================
