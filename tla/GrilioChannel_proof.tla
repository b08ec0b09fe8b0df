------------------------ MODULE GrilioChannel_proof ------------------------
(***************************************************************************)
(* The request engine is type correct: one lemma per action, all combined  *)
(* at the end.  Then ListIntegrity, that the lists which share req->next   *)
(* never share a request, by the inductive invariant ListInv.              *)
(***************************************************************************)
EXTENDS GrilioChannel, SequenceTheorems, TLAPS

USE NoneAssumption, IdAssumption, OptionAssumption, BoundAssumption
USE DEF NoneAssumption, IdAssumption, OptionAssumption, BoundAssumption

-----------------------------------------------------------------------------
(* Frames and stacks.                                                      *)

\* A frame that holds no request is well formed, whatever it carries.
LEMMA FrameTyped ==
    ASSUME NEW f \in Functions \ {"submit", "expire_one", "queue_cancel_all", "drop"}
    PROVE  /\ Frame(f) \in FrameType
           /\ \A I \in SUBSET Ids : [Frame(f) EXCEPT !.ids = I] \in FrameType
           /\ \A n \in BOOLEAN : [Frame(f) EXCEPT !.notify = n] \in FrameType
           /\ \A I \in SUBSET Ids, n \in BOOLEAN :
                [Frame(f) EXCEPT !.ids = I, !.notify = n] \in FrameType
           /\ \A R \in SUBSET Req : [Frame(f) EXCEPT !.reqs = R] \in FrameType
  BY DEF Frame, FrameType, Held, ReqOrNone

\* A frame of a function that holds a request is typed if the request is one.
LEMMA HeldTyped ==
    ASSUME NEW r \in Req, NEW f \in {"submit", "expire_one"}
    PROVE  [Frame(f) EXCEPT !.req = r] \in FrameType
  BY DEF Frame, FrameType, Held, ReqOrNone, Functions

\* A frame of drop_request carries the id it was called with.
LEMMA DropTyped ==
    ASSUME NEW i \in Ids
    PROVE  /\ [Frame("drop") EXCEPT !.ids = {i}] \in FrameType
           /\ [Frame("drop") EXCEPT !.ids = {i}].fn = "drop"
  BY DEF Frame, FrameType, Held, ReqOrNone, Functions

\* One frame on top of a stack.
LEMMA PushTyped ==
    ASSUME NEW s \in Seq(FrameType), NEW f \in FrameType
    PROVE  <<f>> \o s \in Seq(FrameType)
  BY ConcatProperties, <<f>> \in Seq(FrameType)

\* A callback is a sequence of typed frames.
LEMMA CallTyped ==
    ASSUME NEW kind
    PROVE  Call(kind) \in Seq(FrameType)
  <1>1. App \in FrameType
    BY FrameTyped DEF App, Functions
  <1>2. CASE kind \in Reentrant
    BY <1>1, <1>2 DEF Call
  <1>3. CASE kind \notin Reentrant
    BY <1>3 DEF Call
  <1> QED  BY <1>2, <1>3

\* So is the response callback of a request, if it has one.
LEMMA NotifyTyped ==
    ASSUME NEW r
    PROVE  Notify(r) \in Seq(FrameType)
  BY CallTyped DEF Notify

\* What remains of the stack when its top returns is typed.
LEMMA RestTyped ==
    ASSUME StackTypeOK, stack # <<>>
    PROVE  Top \in FrameType /\ Rest \in Seq(FrameType)
  BY HeadTailProperties DEF StackTypeOK, Top, Rest

\* The frames of functions without local variables are typed.
LEMMA ConstFrames ==
    /\ Write \in FrameType /\ PendingUpdate \in FrameType
    /\ TimeoutReset \in FrameType /\ App \in FrameType
  BY FrameTyped DEF Write, PendingUpdate, TimeoutReset, App, Functions

-----------------------------------------------------------------------------
(* The values of the helpers.                                              *)

\* remove_request leaves a table.
LEMMA TableWithoutTyped ==
    ASSUME TypeOK, NEW r \in Req
    PROVE  TableWithout(r) \in [Ids -> ReqOrNone]
  BY DEF TypeOK, TableTypeOK, TableWithout, ReqOrNone

\* Removing a serial from the pending table leaves such a table.
LEMMA PendingWithoutTyped ==
    ASSUME TypeOK, NEW i \in Ids
    PROVE  PendingWithout(i) \in [Ids -> ReqOrNone]
  BY DEF TypeOK, TableTypeOK, PendingWithout, ReqOrNone

\* block_req remains a request or NULL when an id is cancelled.
LEMMA UnblockedByTyped ==
    ASSUME TypeOK, NEW i
    PROVE  UnblockedBy(i) \in ReqOrNone
  BY DEF TypeOK, SendTypeOK, UnblockedBy, ReqOrNone

\* The history of callbacks stays in its bounds.
LEMMA RepliedTyped ==
    ASSUME TypeOK, NEW r \in Req
    PROVE  /\ Replied(r) \in [Req -> 0 .. 2]
           /\ \A n \in BOOLEAN : CancelReplies(r, n) \in [Req -> 0 .. 2]
  <1>1. replies \in [Req -> 0 .. 2]
    BY DEF TypeOK, EnvTypeOK
  <1>2. [replies EXCEPT ![r] = IF @ < 2 THEN @ + 1 ELSE @] \in [Req -> 0 .. 2]
    BY <1>1
  <1> QED  BY <1>1, <1>2 DEF Replied, CancelReplies

\* Removing one element of a sequence.
LEMMA RemoveAtProperties ==
    ASSUME NEW S, NEW s \in Seq(S), NEW k \in DOMAIN s
    PROVE  /\ RemoveAt(s, k) \in Seq(S)
           /\ Len(RemoveAt(s, k)) = Len(s) - 1
           /\ \A j \in 1 .. Len(s) - 1 :
                RemoveAt(s, k)[j] = IF j < k THEN s[j] ELSE s[j + 1]
  <1>1. k \in 1 .. Len(s) /\ Len(s) \in Nat /\ \A i \in 1 .. Len(s) : s[i] \in S
    BY LenProperties, ElementOfSeq
  <1> DEFINE a == SubSeq(s, 1, k - 1)
             b == SubSeq(s, k + 1, Len(s))
  <1>2. /\ a \in Seq(S) /\ Len(a) = k - 1
        /\ \A i \in 1 .. k - 1 : a[i] = s[i]
    BY <1>1, SubSeqProperties
  <1>3. /\ b \in Seq(S) /\ Len(b) = Len(s) - k
        /\ \A i \in 1 .. Len(s) - k : b[i] = s[k + i]
    <2>1. \A i \in (k + 1) .. Len(s) : s[i] \in S
      BY <1>1
    <2>2. /\ b \in Seq(S)
          /\ Len(b) = IF k + 1 <= Len(s) THEN Len(s) - (k + 1) + 1 ELSE 0
          /\ \A i \in 1 .. Len(s) - (k + 1) + 1 : b[i] = s[(k + 1) + i - 1]
      <3>1. k + 1 \in Int /\ Len(s) \in Int
        BY <1>1
      <3> QED  BY <2>1, <3>1, SubSeqProperties
    <2> QED  BY <2>2, <1>1
  <1> HIDE DEF a, b
  <1>4. /\ a \o b \in Seq(S)
        /\ Len(a \o b) = Len(s) - 1
        /\ \A i \in 1 .. Len(s) - 1 :
             (a \o b)[i] = IF i <= k - 1 THEN a[i] ELSE b[i - (k - 1)]
    BY <1>1, <1>2, <1>3, ConcatProperties
  <1>5. ASSUME NEW i \in 1 .. Len(s) - 1, i < k
        PROVE  (a \o b)[i] = s[i]
    <2>1. i \in 1 .. k - 1 /\ i <= k - 1
      BY <1>1, <1>5
    <2>2. a[i] = s[i]
      BY <1>2, <2>1
    <2>3. (a \o b)[i] = a[i]
      BY <1>4, <2>1
    <2> QED  BY <2>2, <2>3
  <1>6. ASSUME NEW i \in 1 .. Len(s) - 1, ~(i < k)
        PROVE  (a \o b)[i] = s[i + 1]
    <2>1. /\ i - (k - 1) \in 1 .. Len(s) - k /\ k + (i - (k - 1)) = i + 1
          /\ ~(i <= k - 1)
      BY <1>1, <1>6
    <2>2. b[i - (k - 1)] = s[i + 1]
      BY <1>3, <2>1
    <2>3. (a \o b)[i] = b[i - (k - 1)]
      BY <1>4, <2>1
    <2> QED  BY <2>2, <2>3
  <1> QED  BY <1>4, <1>5, <1>6 DEF RemoveAt, a, b

-----------------------------------------------------------------------------
(* A part of the state that an action leaves alone keeps its type.         *)

\* A step that does not touch the requests keeps their types.
LEMMA RequestSame ==
    ASSUME TypeOK, UNCHANGED reqVars PROVE RequestTypeOK'
  BY DEF TypeOK, RequestTypeOK, reqVars

\* A step that does not touch the lists keeps their types.
LEMMA SendSame ==
    ASSUME TypeOK, UNCHANGED <<sendVars, tmoVars>> PROVE SendTypeOK'
  BY DEF TypeOK, SendTypeOK, sendVars, tmoVars

\* A step that does not touch the tables keeps their types.
LEMMA TableSame ==
    ASSUME TypeOK, UNCHANGED <<tabVars, txnVars>> PROVE TableTypeOK'
  BY DEF TypeOK, TableTypeOK, tabVars, txnVars

\* A step that does not touch the surroundings keeps their types.
LEMMA EnvSame ==
    ASSUME TypeOK, UNCHANGED <<envVars, replies>> PROVE EnvTypeOK'
  BY DEF TypeOK, EnvTypeOK, envVars

-----------------------------------------------------------------------------
\* A new channel is typed.
LEMMA InitTyped == Init => TypeOK
  <1> SUFFICES ASSUME Init PROVE TypeOK
    OBVIOUS
  <1>1. RequestTypeOK
    BY DEF Init, RequestTypeOK, Statuses
  <1>2. SendTypeOK
    BY DEF Init, SendTypeOK, ReqOrNone
  <1>3. TableTypeOK
    <2>1. req_table \in [Ids -> ReqOrNone] /\ pending \in [Ids -> ReqOrNone]
      BY DEF Init, ReqOrNone
    <2>2. last_req_id \in 0 .. IdMax /\ block_ids \in 0 .. MaxBlock
      BY DEF Init
    <2>3. last_pending \in BOOLEAN
      BY DEF Init
    <2>4. timeout_id \in BOOLEAN
      BY DEF Init
    <2>5. owner \in Queue \cup {None} /\ owner_queue \in Seq(Queue)
      BY DEF Init
    <2> QED  BY <2>1, <2>2, <2>3, <2>4, <2>5 DEF TableTypeOK
  <1>4. EnvTypeOK
    <2>1. connected \in BOOLEAN
      BY DEF Init
    <2>2. closed \in BOOLEAN
      BY DEF Init
    <2>3. tx \in [req : Req, serial : 0 .. IdMax] \cup {None} /\ rild \subseteq 0 .. IdMax
      BY DEF Init
    <2>4. replies \in [Req -> 0 .. 2]
      BY DEF Init
    <2> QED  BY <2>1, <2>2, <2>3, <2>4 DEF EnvTypeOK
  <1>5. StackTypeOK
    BY DEF Init, StackTypeOK
  <1> QED
    BY <1>1, <1>2, <1>3, <1>4, <1>5 DEF TypeOK

-----------------------------------------------------------------------------
(* Actions that only move the stack, or a variable or two.                 *)

\* A step that changes nothing but the stack keeps the types.
LEMMA StackOnlyTyped ==
    ASSUME TypeOK, StackTypeOK',
           UNCHANGED <<reqVars, sendVars, tabVars, txnVars, tmoVars, envVars, replies>>
    PROVE  TypeOK'
  BY RequestSame, SendSame, TableSame, EnvSame DEF TypeOK

\* schedule_write that finds nothing to send keeps the types.
LEMMA WriteStopTyped ==
    ASSUME TypeOK, WriteStop PROVE TypeOK'
  <1>1. StackTypeOK'
    BY RestTyped DEF WriteStop, TypeOK, StackTypeOK, Running
  <1> QED  BY <1>1, StackOnlyTyped DEF WriteStop

\* The return of a callback keeps the types.
LEMMA AppReturnsTyped ==
    ASSUME TypeOK, AppReturns PROVE TypeOK'
  <1>1. StackTypeOK'
    BY RestTyped DEF AppReturns, TypeOK, StackTypeOK, Running
  <1> QED  BY <1>1, StackOnlyTyped DEF AppReturns

\* The end of the loop over expired requests keeps the types.
LEMMA ExpireEndTyped ==
    ASSUME TypeOK, ExpireEnd PROVE TypeOK'
  <1>1. StackTypeOK'
    BY RestTyped DEF ExpireEnd, TypeOK, StackTypeOK, Running
  <1> QED  BY <1>1, StackOnlyTyped DEF ExpireEnd

\* The end of the loop over due retries keeps the types.
LEMMA RequeueEndTyped ==
    ASSUME TypeOK, RequeueEnd PROVE TypeOK'
  <1>1. StackTypeOK'
    BY RestTyped DEF RequeueEnd, TypeOK, StackTypeOK, Running
  <1> QED  BY <1>1, StackOnlyTyped DEF RequeueEnd

\* The end of a loop of cancel_all keeps the types.
LEMMA CancelLoopEndTyped ==
    ASSUME TypeOK, CancelLoopEnd PROVE TypeOK'
  <1>1. StackTypeOK'
    BY RestTyped DEF CancelLoopEnd, TypeOK, StackTypeOK, Running
  <1> QED  BY <1>1, StackOnlyTyped DEF CancelLoopEnd

\* cancel_all, when it collects the keys of the table, keeps the types.
LEMMA CancelTableStartTyped ==
    ASSUME TypeOK, CancelTableStart PROVE TypeOK'
  <1>1. StackTypeOK'
    <2>1. Top \in FrameType /\ Rest \in Seq(FrameType)
      BY RestTyped DEF CancelTableStart, TypeOK, Running
    <2>2. Top.notify \in BOOLEAN
      BY <2>1 DEF FrameType
    <2>3. [Frame("cancel_table") EXCEPT !.ids = {i \in Ids : req_table[i] # None},
                                        !.notify = Top.notify] \in FrameType
      BY <2>2, FrameTyped DEF Functions
    <2> QED  BY <2>1, <2>3, PushTyped DEF CancelTableStart, StackTypeOK
  <1> QED  BY <1>1, StackOnlyTyped DEF CancelTableStart

\* The end of cancel_all, which stops the timer, keeps the types.
LEMMA CancelAllEndTyped ==
    ASSUME TypeOK, CancelAllEnd PROVE TypeOK'
  <1>1. StackTypeOK'
    BY RestTyped DEF CancelAllEnd, TypeOK, StackTypeOK, Running
  <1>2. TableTypeOK'
    <2>1. timeout_id' \in BOOLEAN
      BY DEF CancelAllEnd
    <2> QED  BY <2>1 DEF CancelAllEnd, TypeOK, TableTypeOK, txnVars
  <1> QED
    BY <1>1, <1>2, RequestSame, SendSame, EnvSame DEF CancelAllEnd, TypeOK

\* reset_timeout keeps the types.
LEMMA ResetTimeoutTyped ==
    ASSUME TypeOK, ResetTimeout PROVE TypeOK'
  <1>1. StackTypeOK'
    BY RestTyped DEF ResetTimeout, TypeOK, StackTypeOK, Running
  <1>2. TableTypeOK'
    <2>1. timeout_id' \in BOOLEAN
      BY DEF ResetTimeout, HasDeadline
    <2> QED  BY <2>1 DEF ResetTimeout, TypeOK, TableTypeOK, txnVars
  <1> QED
    BY <1>1, <1>2, RequestSame, SendSame, EnvSame DEF ResetTimeout, TypeOK

\* update_pending keeps the types.
LEMMA UpdatePendingTyped ==
    ASSUME TypeOK, UpdatePending PROVE TypeOK'
  <1>1. StackTypeOK'
    <2>1. Rest \in Seq(FrameType)
      BY RestTyped DEF UpdatePending, TypeOK, Running
    <2> QED
      BY <2>1, CallTyped, ConcatProperties, EmptySeq DEF UpdatePending, StackTypeOK
  <1>2. TableTypeOK'
    <2>1. last_pending' \in BOOLEAN
      BY DEF UpdatePending, HasPending
    <2> QED  BY <2>1 DEF UpdatePending, TypeOK, TableTypeOK, txnVars
  <1> QED
    BY <1>1, <1>2, RequestSame, SendSame, EnvSame DEF UpdatePending, TypeOK

\* grilio_channel_serialize keeps the types.
LEMMA SerializeTyped ==
    ASSUME TypeOK, Serialize PROVE TypeOK'
  <1>1. TableTypeOK'
    BY DEF Serialize, TypeOK, TableTypeOK, tabVars
  <1>2. StackTypeOK'
    BY DEF Serialize, TypeOK, StackTypeOK
  <1> QED
    BY <1>1, <1>2, RequestSame, SendSame, EnvSame DEF Serialize, TypeOK

\* grilio_channel_deserialize keeps the types.
LEMMA DeserializeTyped ==
    ASSUME TypeOK, Deserialize PROVE TypeOK'
  <1>1. TableTypeOK'
    BY DEF Deserialize, TypeOK, TableTypeOK, tabVars
  <1>2. StackTypeOK'
    BY ConstFrames, PushTyped DEF Deserialize, TypeOK, StackTypeOK
  <1>3. SendTypeOK'
    BY DEF Deserialize, TypeOK, SendTypeOK, ReqOrNone, tmoVars
  <1> QED
    BY <1>1, <1>2, <1>3, RequestSame, EnvSame DEF Deserialize, TypeOK

\* handle_connected keeps the types.
LEMMA ConnectedTyped ==
    ASSUME TypeOK, Connected PROVE TypeOK'
  <1>1. StackTypeOK'
    BY ConstFrames, CallTyped, ConcatProperties, <<Write>> \in Seq(FrameType)
      DEF Connected, TypeOK, StackTypeOK
  <1>2. EnvTypeOK'
    <2>1. connected' \in BOOLEAN
      BY DEF Connected
    <2> QED  BY <2>1 DEF Connected, TypeOK, EnvTypeOK
  <1> QED
    BY <1>1, <1>2, RequestSame, SendSame, TableSame DEF Connected, TypeOK

\* handle_disconnected keeps the types.
LEMMA DisconnectedTyped ==
    ASSUME TypeOK, Disconnected PROVE TypeOK'
  <1>1. StackTypeOK'
    BY CallTyped, ConcatProperties DEF Disconnected, TypeOK, StackTypeOK
  <1>2. EnvTypeOK'
    <2>1. connected' \in BOOLEAN
      BY DEF Disconnected
    <2>2. closed' \in BOOLEAN
      BY DEF Disconnected
    <2>3. /\ tx' \in [req : Req, serial : 0 .. IdMax] \cup {None}
          /\ rild' \subseteq 0 .. IdMax /\ replies' \in [Req -> 0 .. 2]
      BY DEF Disconnected, TypeOK, EnvTypeOK
    <2> QED  BY <2>1, <2>2, <2>3 DEF EnvTypeOK
  <1> QED
    BY <1>1, <1>2, RequestSame, SendSame, TableSame DEF Disconnected, TypeOK

-----------------------------------------------------------------------------
(* Sending.                                                                *)

\* dequeue_request, which hands a queued request to its caller, keeps the types.
LEMMA DequeueTyped ==
    ASSUME TypeOK, Dequeue PROVE TypeOK'
  <1>1. PICK k \in DequeueIdx : Dequeue!3!(k)!2
    BY DEF Dequeue
  <1> DEFINE r == send_queue[k]
  <1>2. k \in DOMAIN send_queue /\ r \in Req
    <2>1. send_queue \in Seq(Req)
      BY DEF TypeOK, SendTypeOK
    <2>2. k \in DOMAIN send_queue
      BY <2>1 DEF DequeueIdx, OrdinaryIdx, InternalIdx
    <2> QED  BY <2>1, <2>2, ElementOfSeq, LenProperties
  <1>3. RequestTypeOK'
    BY <1>1, <1>2 DEF Dequeue, TypeOK, RequestTypeOK, Statuses
  <1>4. SendTypeOK'
    BY <1>1, <1>2, RemoveAtProperties DEF Dequeue, TypeOK, SendTypeOK, tmoVars
  <1>5. TableTypeOK'
    <2>1. r \in Req /\ current_id[r] \in 0 .. IdMax
      BY <1>2 DEF TypeOK, RequestTypeOK
    <2>2. pending' \in [Ids -> ReqOrNone]
      BY <1>1, <2>1 DEF TypeOK, TableTypeOK, ReqOrNone
    <2>3. last_pending' \in BOOLEAN
      BY <1>1 DEF TypeOK, TableTypeOK
    <2> QED  BY <2>2, <2>3 DEF Dequeue, TypeOK, TableTypeOK, txnVars
  <1>6. StackTypeOK'
    <2>1. Rest \in Seq(FrameType)
      BY RestTyped DEF Dequeue, TypeOK, Running
    <2>2. <<[Frame("submit") EXCEPT !.req = r]>> \in Seq(FrameType)
      <3>1. [Frame("submit") EXCEPT !.req = r] \in FrameType
        BY <1>2, HeldTyped
      <3> QED  BY <3>1
    <2>3. <<[Frame("submit") EXCEPT !.req = r]>> \o Rest \in Seq(FrameType)
      BY <2>1, <2>2, ConcatProperties
    <2>4. Call("pending") \in Seq(FrameType) /\ <<>> \in Seq(FrameType)
      BY CallTyped
    <2>5. /\ Call("pending") \o <<[Frame("submit") EXCEPT !.req = r]>> \o Rest
               \in Seq(FrameType)
          /\ <<>> \o <<[Frame("submit") EXCEPT !.req = r]>> \o Rest \in Seq(FrameType)
      BY <2>1, <2>2, <2>4, ConcatProperties
    <2> QED  BY <1>1, <2>3, <2>5 DEF StackTypeOK
  <1> QED
    BY <1>3, <1>4, <1>5, <1>6, EnvSame DEF Dequeue, TypeOK

\* send_next_request, which hands its request to the transport, keeps the types.
LEMMA SubmitTyped ==
    ASSUME TypeOK, Submit PROVE TypeOK'
  <1>1. PICK outcome \in IF closed THEN {"ERROR"} ELSE SendOutcomes :
          Submit!3!(outcome)
    BY DEF Submit
  <1> DEFINE r == Top.req
  <1>2. r \in Req /\ Rest \in Seq(FrameType)
    <2>1. Top \in FrameType /\ Top.fn = "submit" /\ Rest \in Seq(FrameType)
      BY RestTyped DEF Submit, TypeOK, Running, Top
    <2> QED  BY <2>1 DEF FrameType, Held, ReqOrNone
  <1>3. RequestTypeOK'
    <2>1. /\ deadline' \in [Req -> BOOLEAN]
      BY <1>1, <1>2 DEF TypeOK, RequestTypeOK
    <2>2. queue' \in [Req -> Queue \cup {None}]
      BY <1>1, <1>2 DEF TypeOK, RequestTypeOK
    <2>3. status' \in [Req -> Statuses]
      <3>1. status' = status \/ status' = [status EXCEPT ![r] = "SENT"]
        BY <1>1
      <3> QED  BY <3>1, <1>2 DEF TypeOK, RequestTypeOK, Statuses
    <2> QED  BY <2>1, <2>2, <2>3 DEF Submit, TypeOK, RequestTypeOK
  <1>4. SendTypeOK'
    BY <1>1, <1>2 DEF Submit, TypeOK, SendTypeOK, ReqOrNone, tmoVars
  <1>5. TableTypeOK'
    <2>1. HasDeadline' \in BOOLEAN
      BY DEF HasDeadline
    <2>2. timeout_id' \in BOOLEAN
      BY <1>1, <2>1 DEF TypeOK, TableTypeOK
    <2> QED  BY <2>2 DEF Submit, TypeOK, TableTypeOK, txnVars
  <1>6. EnvTypeOK'
    <2>1. current_id[r] \in 0 .. IdMax
      BY <1>2 DEF TypeOK, RequestTypeOK
    <2>2. tx' \in [req : Req, serial : 0 .. IdMax] \cup {None} /\ rild' \subseteq 0 .. IdMax
      BY <1>1, <1>2, <2>1 DEF TypeOK, EnvTypeOK
    <2> QED  BY <2>2 DEF Submit, TypeOK, EnvTypeOK
  <1>7. StackTypeOK'
    <2>1. stack' = <<Write>> \o Rest \/ stack' = Rest
      BY <1>1
    <2> QED  BY <1>2, <2>1, ConstFrames, PushTyped DEF StackTypeOK
  <1> QED
    BY <1>3, <1>4, <1>5, <1>6, <1>7 DEF TypeOK

\* handle_request_sent keeps the types.
LEMMA RequestSentTyped ==
    ASSUME TypeOK, RequestSent PROVE TypeOK'
  <1>1. tx \in [req : Req, serial : 0 .. IdMax]
    BY DEF RequestSent, TypeOK, EnvTypeOK
  <1>2. RequestTypeOK'
    BY <1>1 DEF RequestSent, TypeOK, RequestTypeOK, Statuses
  <1>3. SendTypeOK'
    BY DEF RequestSent, TypeOK, SendTypeOK, ReqOrNone, tmoVars
  <1>4. EnvTypeOK'
    <2>1. rild' \subseteq 0 .. IdMax /\ tx' = None
      BY <1>1 DEF RequestSent, TypeOK, EnvTypeOK
    <2> QED  BY <2>1 DEF RequestSent, TypeOK, EnvTypeOK
  <1>5. StackTypeOK'
    BY ConstFrames DEF RequestSent, StackTypeOK
  <1> QED
    BY <1>2, <1>3, <1>4, <1>5, TableSame DEF RequestSent, TypeOK

\* grilio_channel_send_request_full keeps the types.
LEMMA SendThroughTyped ==
    ASSUME TypeOK, NEW r \in Req, NEW p \in Profiles, NEW q \in Queue \cup {None},
           SendThrough(r, p, q)
    PROVE  TypeOK'
  <1> USE DEF SendThrough
  <1>1. RequestTypeOK'
    BY DEF TypeOK, RequestTypeOK, Statuses, Ids
  <1>2. SendTypeOK'
    BY AppendProperties DEF TypeOK, SendTypeOK, tmoVars
  <1>3. TableTypeOK'
    <2>1. req_table' \in [Ids -> ReqOrNone] /\ last_req_id' \in 0 .. IdMax
      BY DEF TypeOK, TableTypeOK, ReqOrNone, Ids
    <2> QED  BY <2>1 DEF TypeOK, TableTypeOK, txnVars
  <1>4. StackTypeOK'
    BY ConstFrames, PushTyped DEF TypeOK, StackTypeOK
  <1> QED  BY <1>1, <1>2, <1>3, <1>4, EnvSame DEF TypeOK

\* So it does without a queue.
LEMMA SendRequestTyped ==
    ASSUME TypeOK, NEW r \in Req, NEW p \in Profiles, SendRequest(r, p)
    PROVE  TypeOK'
  BY SendThroughTyped DEF SendRequest

\* requeue_request keeps the types.
LEMMA RequeueTyped ==
    ASSUME TypeOK, NEW r \in Req, Requeue(r)
    PROVE  /\ current_id' \in [Req -> 0 .. IdMax]
           /\ req_table' \in [Ids -> ReqOrNone] /\ last_req_id' \in 0 .. IdMax
           /\ deadline' \in [Req -> BOOLEAN]
           /\ retry_count' \in [Req -> Nat]
           /\ status' \in [Req -> Statuses]
           /\ send_queue' \in Seq(Req)
  <1> USE DEF Requeue
  <1>1. current_id' \in [Req -> 0 .. IdMax] /\ retry_count' \in [Req -> Nat]
    BY DEF TypeOK, RequestTypeOK, Ids
  <1>2. req_table' \in [Ids -> ReqOrNone] /\ last_req_id' \in 0 .. IdMax
    <2>1. req_table \in [Ids -> ReqOrNone] /\ r \in ReqOrNone
      BY DEF TypeOK, TableTypeOK, ReqOrNone
    <2>2. PICK i \in Ids : /\ req_table' = [req_table EXCEPT ![id[r]] = r, ![i] = r]
                          /\ last_req_id' = i
      OBVIOUS
    <2>3. req_table' \in [Ids -> ReqOrNone]
      BY <2>1, <2>2
    <2> QED  BY <2>2, <2>3 DEF Ids
  <1>3. deadline' \in [Req -> BOOLEAN]
    BY DEF TypeOK, RequestTypeOK
  <1>4. status' \in [Req -> Statuses]
    BY DEF TypeOK, RequestTypeOK, Statuses
  <1>5. send_queue' \in Seq(Req)
    BY AppendProperties DEF TypeOK, SendTypeOK
  <1> QED  BY <1>1, <1>2, <1>3, <1>4, <1>5

\* grilio_channel_retry_request keeps the types.
LEMMA RetryRequestTyped ==
    ASSUME TypeOK, NEW i \in Ids, RetryRequest(i) PROVE TypeOK'
  <1>1. PICK r \in retry : retry' = retry \ {r} /\ Requeue(r)
    BY DEF RetryRequest
  <1>2. r \in Req
    BY DEF TypeOK, SendTypeOK
  <1>3. RequestTypeOK'
    BY <1>1, <1>2, RequeueTyped DEF RetryRequest, TypeOK, RequestTypeOK
  <1>4. SendTypeOK'
    BY <1>1, <1>2, RequeueTyped DEF RetryRequest, TypeOK, SendTypeOK, tmoVars
  <1>5. TableTypeOK'
    BY <1>1, <1>2, RequeueTyped DEF RetryRequest, TypeOK, TableTypeOK, txnVars
  <1>6. StackTypeOK'
    BY ConstFrames, ConcatProperties, <<Write, TimeoutReset>> \in Seq(FrameType)
      DEF RetryRequest, TypeOK, StackTypeOK
  <1> QED
    BY <1>3, <1>4, <1>5, <1>6, EnvSame DEF RetryRequest, TypeOK

\* Sending one due retry again keeps the types.
LEMMA RequeueNextTyped ==
    ASSUME TypeOK, RequeueNext PROVE TypeOK'
  <1>1. PICK r \in resend : resend' = resend \ {r} /\ Requeue(r)
    BY DEF RequeueNext
  <1>2. r \in Req
    BY DEF TypeOK, SendTypeOK
  <1>3. RequestTypeOK'
    BY <1>1, <1>2, RequeueTyped DEF RequeueNext, TypeOK, RequestTypeOK
  <1>4. SendTypeOK'
    BY <1>1, <1>2, RequeueTyped DEF RequeueNext, TypeOK, SendTypeOK
  <1>5. TableTypeOK'
    BY <1>1, <1>2, RequeueTyped DEF RequeueNext, TypeOK, TableTypeOK, txnVars
  <1>6. StackTypeOK'
    BY ConstFrames, PushTyped DEF RequeueNext, TypeOK, StackTypeOK
  <1> QED
    BY <1>3, <1>4, <1>5, <1>6, EnvSame DEF RequeueNext, TypeOK

\* Splitting the due part off the retry queue keeps the types.
LEMMA TakeRetriesTyped ==
    ASSUME TypeOK, TakeRetries PROVE TypeOK'
  <1>1. StackTypeOK'
    BY RestTyped, PushTyped, FrameTyped
      DEF TakeRetries, TypeOK, StackTypeOK, Running, Functions
  <1>2. SendTypeOK'
    BY DEF TakeRetries, TypeOK, SendTypeOK
  <1> QED
    BY <1>1, <1>2, RequestSame, TableSame, EnvSame DEF TakeRetries, TypeOK

-----------------------------------------------------------------------------
(* Events of the transport and of the timers.                              *)

\* queue_ack keeps the types.
LEMMA QueueAckTyped ==
    ASSUME TypeOK, NEW a \in Req, QueueAck(a), UNCHANGED <<txnVars, tmoVars>>
    PROVE  RequestTypeOK' /\ SendTypeOK' /\ TableTypeOK'
  <1> USE DEF QueueAck
  <1>1. RequestTypeOK'
    BY DEF TypeOK, RequestTypeOK, Statuses, Ids
  <1>2. SendTypeOK'
    BY AppendProperties DEF TypeOK, SendTypeOK, tmoVars
  <1>3. TableTypeOK'
    <2>1. req_table' \in [Ids -> ReqOrNone] /\ last_req_id' \in 0 .. IdMax
      BY DEF TypeOK, TableTypeOK, ReqOrNone, Ids
    <2> QED  BY <2>1 DEF TypeOK, TableTypeOK, txnVars
  <1> QED  BY <1>1, <1>2, <1>3

\* handle_indication of an event to be acknowledged keeps the types.
LEMMA IndicationTyped ==
    ASSUME TypeOK, NEW a \in Req, Indication(a) PROVE TypeOK'
  <1>1. StackTypeOK'
    BY ConstFrames, CallTyped, ConcatProperties, <<Write>> \in Seq(FrameType)
      DEF Indication, StackTypeOK
  <1> QED
    BY <1>1, QueueAckTyped, EnvSame DEF Indication, TypeOK

\* The arrival of a reply, perhaps with an acknowledgement queued, keeps the types.
LEMMA ResponseTyped ==
    ASSUME TypeOK, NEW i \in Ids, NEW a \in ReqOrNone, Response(i, a)
    PROVE  TypeOK'
  <1>1. RequestTypeOK' /\ SendTypeOK' /\ TableTypeOK'
    <2>1. CASE a # None /\ QueueAck(a)
      BY <2>1, QueueAckTyped DEF Response, ReqOrNone
    <2>2. CASE UNCHANGED <<reqVars, sendVars, tabVars>>
      BY <2>2, RequestSame, SendSame, TableSame DEF Response
    <2> QED  BY <2>1, <2>2 DEF Response
  <1>2. EnvTypeOK'
    <2>1. rild' \subseteq 0 .. IdMax
      BY DEF Response, TypeOK, EnvTypeOK
    <2> QED  BY <2>1 DEF Response, TypeOK, EnvTypeOK
  <1>3. StackTypeOK'
    <2>1. [Frame("response") EXCEPT !.ids = {i}] \in FrameType
      BY FrameTyped DEF Functions
    <2> QED  BY <2>1 DEF Response, StackTypeOK
  <1> QED  BY <1>1, <1>2, <1>3 DEF TypeOK

-----------------------------------------------------------------------------
(* Completing a request, or putting it off.                                *)

\* The completion of a request keeps the types.
LEMMA CompleteTyped ==
    ASSUME TypeOK, NEW r \in Req, NEW final \in Statuses, Complete(r, final)
    PROVE  /\ status' \in [Req -> Statuses]
           /\ queue' \in [Req -> Queue \cup {None}]
           /\ req_table' \in [Ids -> ReqOrNone]
  <1>1. status' \in [Req -> Statuses]
    BY DEF Complete, TypeOK, RequestTypeOK
  <1>2. queue' \in [Req -> Queue \cup {None}]
    BY DEF Complete, RemoveRequest, TypeOK, RequestTypeOK
  <1>3. req_table' \in [Ids -> ReqOrNone]
    BY TableWithoutTyped DEF Complete, RemoveRequest
  <1> QED  BY <1>1, <1>2, <1>3

\* schedule_retry keeps the types.
LEMMA ScheduleRetryTyped ==
    ASSUME TypeOK, NEW r \in Req, ScheduleRetry(r)
    PROVE  /\ deadline' \in [Req -> BOOLEAN]
           /\ status' \in [Req -> Statuses]
           /\ req_table' \in [Ids -> ReqOrNone]
           /\ retry' \subseteq Req
  <1>1. deadline' \in [Req -> BOOLEAN]
    BY DEF ScheduleRetry, TypeOK, RequestTypeOK
  <1>2. status' \in [Req -> Statuses]
    BY DEF ScheduleRetry, TypeOK, RequestTypeOK, Statuses
  <1>3. req_table' \in [Ids -> ReqOrNone]
    BY TableWithoutTyped DEF ScheduleRetry
  <1>4. retry' \subseteq Req
    BY DEF ScheduleRetry, TypeOK, SendTypeOK
  <1> QED  BY <1>1, <1>2, <1>3, <1>4

\* handle_response, whether it completes a request or has it retried, keeps the types.
LEMMA HandleResponseTyped ==
    ASSUME TypeOK, HandleResponse PROVE TypeOK'
  <1>1. PICK i \in Top.ids : HandleResponse!2!(i)
    BY DEF HandleResponse
  <1> DEFINE r == req_table[i]
  <1>2. /\ Top \in FrameType /\ Rest \in Seq(FrameType)
        /\ i \in Ids
    <2>1. Top \in FrameType /\ Rest \in Seq(FrameType)
      BY RestTyped DEF HandleResponse, TypeOK, Running
    <2> QED  BY <2>1 DEF FrameType
  <1>3. r \in ReqOrNone /\ (Answered(r) => r \in Req)
    BY <1>2 DEF TypeOK, TableTypeOK, ReqOrNone, Answered
  <1>4. pending' \in [Ids -> ReqOrNone] /\ block_req' \in ReqOrNone
    BY <1>1, <1>2, PendingWithoutTyped DEF TypeOK, SendTypeOK, ReqOrNone
  <1>5. <<Write, PendingUpdate>> \o Rest \in Seq(FrameType)
    BY <1>2, ConstFrames, ConcatProperties, <<Write, PendingUpdate>> \in Seq(FrameType)
  <1>6. /\ status' \in [Req -> Statuses] /\ deadline' \in [Req -> BOOLEAN]
        /\ queue' \in [Req -> Queue \cup {None}] /\ req_table' \in [Ids -> ReqOrNone]
        /\ retry' \subseteq Req /\ timeout_id' \in BOOLEAN /\ replies' \in [Req -> 0 .. 2]
        /\ stack' \in Seq(FrameType)
    <2>0. HasDeadline' \in BOOLEAN
      BY DEF HasDeadline
    <2>1. CASE ~Answered(r)
      BY <1>1, <1>5, <2>1
        DEF TypeOK, RequestTypeOK, SendTypeOK, TableTypeOK, EnvTypeOK
    <2>2. CASE Answered(r) /\ ScheduleRetry(r) /\ HandleResponse!2!(i)!1!3!2
      <3>1. timeout_id' \in BOOLEAN
        BY <2>0, <2>2
      <3> QED
        BY <1>3, <1>5, <2>2, <3>1, ScheduleRetryTyped DEF TypeOK, RequestTypeOK, EnvTypeOK
    <2>3. CASE Answered(r) /\ Complete(r, "DONE") /\ HandleResponse!2!(i)!1!3!3
      <3>1. stack' \in Seq(FrameType)
        <4>1. Notify(r) \in Seq(FrameType)
          BY NotifyTyped
        <4>2. <<Write, PendingUpdate>> \in Seq(FrameType)
          BY ConstFrames
        <4>3. Notify(r) \o <<Write, PendingUpdate>> \o Rest \in Seq(FrameType)
          BY <1>2, <4>1, <4>2, ConcatProperties
        <4> QED  BY <2>3, <4>3
      <3>2. replies' \in [Req -> 0 .. 2]
        BY <1>3, <2>3, RepliedTyped
      <3>3. "DONE" \in Statuses
        BY DEF Statuses
      <3>4. /\ deadline' \in [Req -> BOOLEAN] /\ retry' \subseteq Req /\ timeout_id' \in BOOLEAN
        BY <2>3 DEF TypeOK, RequestTypeOK, SendTypeOK, TableTypeOK
      <3> QED  BY <1>3, <2>3, <3>1, <3>2, <3>3, <3>4, CompleteTyped
    <2> QED  BY <1>1, <2>1, <2>2, <2>3
  <1> QED
    BY <1>4, <1>6
    DEF HandleResponse, TypeOK, RequestTypeOK, SendTypeOK, TableTypeOK, EnvTypeOK,
        StackTypeOK, txnVars, tmoVars, envVars

\* grilio_channel_timeout, when it collects the expired requests, keeps the types.
LEMMA TimeoutTyped ==
    ASSUME TypeOK, NEW due \in SUBSET Timeable, NEW again \in SUBSET retry,
           Timeout(due, again)
    PROVE  TypeOK'
  <1>1. due \subseteq Req /\ again \subseteq Req
    BY DEF Timeable, TypeOK, SendTypeOK
  <1>2. RequestTypeOK'
    <2>1. deadline' \in [Req -> BOOLEAN]
      BY DEF Timeout
    <2> QED  BY <2>1 DEF Timeout, TypeOK, RequestTypeOK
  <1>3. SendTypeOK'
    BY <1>1 DEF Timeout, TypeOK, SendTypeOK, ReqOrNone
  <1>4. TableTypeOK'
    <2>1. timeout_id' \in BOOLEAN
      BY DEF Timeout
    <2> QED  BY <2>1 DEF Timeout, TypeOK, TableTypeOK, txnVars
  <1>5. StackTypeOK'
    <2>1. Frame("expire") \in FrameType /\ [Frame("retry_due") EXCEPT !.reqs = again] \in FrameType
      BY <1>1, FrameTyped DEF Functions
    <2> QED  BY <2>1, ConstFrames DEF Timeout, StackTypeOK
  <1> QED
    BY <1>2, <1>3, <1>4, <1>5, EnvSame DEF Timeout, TypeOK

\* Taking one request off the list of expired ones keeps the types.
LEMMA ExpirePendingTyped ==
    ASSUME TypeOK, ExpirePending PROVE TypeOK'
  <1>1. PICK r \in expired : ExpirePending!2!(r)
    BY DEF ExpirePending
  <1>2. PICK i \in Ids : ExpirePending!2!(r)!2!(i)
    BY <1>1
  <1>3. r \in Req
    BY DEF TypeOK, SendTypeOK
  <1>4. SendTypeOK'
    BY <1>1 DEF ExpirePending, TypeOK, SendTypeOK, sendVars
  <1>5. TableTypeOK'
    <2>1. pending' \in [Ids -> ReqOrNone]
      BY <1>2, PendingWithoutTyped
    <2>2. HasPending' \in BOOLEAN
      BY DEF HasPending
    <2>3. last_pending' \in BOOLEAN
      BY <1>2, <2>2 DEF TypeOK, TableTypeOK
    <2> QED  BY <2>1, <2>3 DEF ExpirePending, TypeOK, TableTypeOK, txnVars
  <1>6. StackTypeOK'
    <2>1. stack \in Seq(FrameType)
      BY DEF TypeOK, StackTypeOK
    <2>2. [Frame("expire_one") EXCEPT !.req = r] \in FrameType
      BY <1>3, HeldTyped
    <2>3. <<[Frame("expire_one") EXCEPT !.req = r]>> \in Seq(FrameType)
      BY <2>2
    <2>4. Call("pending") \in Seq(FrameType) /\ <<>> \in Seq(FrameType)
      BY CallTyped
    <2>5. /\ Call("pending") \o <<[Frame("expire_one") EXCEPT !.req = r]>> \o stack
               \in Seq(FrameType)
          /\ <<>> \o <<[Frame("expire_one") EXCEPT !.req = r]>> \o stack \in Seq(FrameType)
      BY <2>1, <2>3, <2>4, ConcatProperties
    <2> QED  BY <1>2, <2>5 DEF StackTypeOK
  <1> QED
    BY <1>4, <1>5, <1>6, RequestSame, EnvSame DEF ExpirePending, TypeOK

\* Completing an expired request or having it retried keeps the types.
LEMMA ExpireOneTyped ==
    ASSUME TypeOK, ExpireOne PROVE TypeOK'
  <1> DEFINE r == Top.req
  <1>1. r \in Req /\ Rest \in Seq(FrameType)
    <2>1. Top \in FrameType /\ Top.fn = "expire_one" /\ Rest \in Seq(FrameType)
      BY RestTyped DEF ExpireOne, TypeOK, Running, Top
    <2> QED  BY <2>1 DEF FrameType, Held, ReqOrNone
  <1>2. /\ status' \in [Req -> Statuses] /\ deadline' \in [Req -> BOOLEAN]
        /\ queue' \in [Req -> Queue \cup {None}] /\ req_table' \in [Ids -> ReqOrNone]
        /\ retry' \subseteq Req /\ replies' \in [Req -> 0 .. 2]
        /\ stack' \in Seq(FrameType)
    <2>1. CASE CanRetry(r)
      BY <1>1, <2>1, ScheduleRetryTyped DEF ExpireOne, TypeOK, RequestTypeOK, EnvTypeOK
    <2>2. CASE ~CanRetry(r)
      <3>1. stack' \in Seq(FrameType)
        <4>1. Notify(r) \in Seq(FrameType)
          BY NotifyTyped
        <4>2. Notify(r) \o Rest \in Seq(FrameType)
          BY <1>1, <4>1, ConcatProperties
        <4> QED  BY <2>2, <4>2 DEF ExpireOne
      <3>2. replies' \in [Req -> 0 .. 2]
        BY <1>1, <2>2, RepliedTyped DEF ExpireOne
      <3>3. Complete(r, "DONE") /\ "DONE" \in Statuses
        BY <2>2 DEF ExpireOne, Statuses
      <3>4. deadline' \in [Req -> BOOLEAN] /\ retry' \subseteq Req
        BY <2>2 DEF ExpireOne, TypeOK, RequestTypeOK, SendTypeOK
      <3> QED  BY <1>1, <3>1, <3>2, <3>3, <3>4, CompleteTyped
    <2> QED  BY <2>1, <2>2
  <1> QED
    BY <1>2
    DEF ExpireOne, TypeOK, RequestTypeOK, SendTypeOK, TableTypeOK, EnvTypeOK,
        StackTypeOK, txnVars, envVars

\* grilio_channel_pending_timeout keeps the types.
LEMMA PendingTimeoutTyped ==
    ASSUME TypeOK, NEW due \in SUBSET Ids, PendingTimeout(due) PROVE TypeOK'
  <1>1. pending' \in [Ids -> ReqOrNone] /\ block_req' \in ReqOrNone
    BY DEF PendingTimeout, TypeOK, TableTypeOK, SendTypeOK, ReqOrNone
  <1>2. StackTypeOK'
    BY ConstFrames DEF PendingTimeout, StackTypeOK
  <1>3. SendTypeOK' /\ TableTypeOK'
    BY <1>1 DEF PendingTimeout, TypeOK, SendTypeOK, TableTypeOK, txnVars, tmoVars
  <1> QED
    BY <1>2, <1>3, RequestSame, EnvSame DEF PendingTimeout, TypeOK

-----------------------------------------------------------------------------
(* Cancellation.                                                           *)

\* A cancellation with its callback keeps the types.
LEMMA CancelledTyped ==
    ASSUME NEW r, NEW n
    PROVE  Cancelled(r, n) \in Seq(FrameType)
  BY NotifyTyped, EmptySeq DEF Cancelled

\* The requests that grilio_channel_cancel_request may find.
LEMMA CancelThenTyped ==
    ASSUME TypeOK, NEW i \in Ids, NEW n \in BOOLEAN, NEW after \in Seq(FrameType),
           CancelThen(i, n, after)
    PROVE  TypeOK'
  <1>1. SendTypeOK /\ TableTypeOK /\ send_queue \in Seq(Req)
    BY DEF TypeOK, SendTypeOK
  <1>2. \/ /\ UNCHANGED <<status, queue, req_table, send_queue, retry, replies>>
           /\ stack' = after
        \/ \E r \in Req, more \in {<<Write>>, <<TimeoutReset, Write>>} :
             /\ Complete(r, "CANCELLED")
             /\ replies' = CancelReplies(r, n)
             /\ stack' = Cancelled(r, n) \o more \o after
             /\ send_queue' \in Seq(Req) /\ retry' \subseteq Req
    <2> DEFINE Sending  == send_req # None /\ id[send_req] = i
               QueuedAt == {k \in DOMAIN send_queue : id[send_queue[k]] = i}
               Cancel(r, more) == /\ Complete(r, "CANCELLED")
                                  /\ replies' = CancelReplies(r, n)
                                  /\ stack' = Cancelled(r, n) \o more \o after
    <2>1. CASE /\ Sending /\ Cancel(send_req, <<Write>>)
               /\ UNCHANGED <<send_queue, retry>>
      BY <1>1, <2>1 DEF SendTypeOK, ReqOrNone
    <2>2. CASE /\ \E k \in QueuedAt :
                    /\ Cancel(send_queue[k], <<Write>>)
                    /\ send_queue' = RemoveAt(send_queue, k)
               /\ UNCHANGED retry
      <3>1. PICK k \in DOMAIN send_queue : /\ Cancel(send_queue[k], <<Write>>)
                                           /\ send_queue' = RemoveAt(send_queue, k)
        BY <2>2
      <3>2. send_queue[k] \in Req /\ send_queue' \in Seq(Req)
        BY <1>1, <3>1, ElementOfSeq, LenProperties, RemoveAtProperties
      <3> QED  BY <1>1, <2>2, <3>1, <3>2 DEF SendTypeOK
    <2>3. CASE /\ req_table[i] # None
               /\ Cancel(req_table[i], <<TimeoutReset, Write>>)
               /\ UNCHANGED <<send_queue, retry>>
      BY <1>1, <2>3 DEF SendTypeOK, TableTypeOK, ReqOrNone
    <2>4. CASE /\ \E r \in retry : /\ Cancel(r, <<TimeoutReset, Write>>)
                                   /\ retry' = retry \ {r}
               /\ UNCHANGED send_queue
      BY <1>1, <2>4 DEF SendTypeOK
    <2> QED  BY <2>1, <2>2, <2>3, <2>4 DEF CancelThen
  <1>3. /\ status' \in [Req -> Statuses] /\ queue' \in [Req -> Queue \cup {None}]
        /\ req_table' \in [Ids -> ReqOrNone] /\ send_queue' \in Seq(Req)
        /\ retry' \subseteq Req /\ replies' \in [Req -> 0 .. 2]
        /\ stack' \in Seq(FrameType)
    <2>1. CASE /\ UNCHANGED <<status, queue, req_table, send_queue, retry, replies>>
               /\ stack' = after
      BY <2>1 DEF TypeOK, RequestTypeOK, SendTypeOK, TableTypeOK, EnvTypeOK
    <2>2. ASSUME NEW r \in Req, NEW more \in {<<Write>>, <<TimeoutReset, Write>>},
                 Complete(r, "CANCELLED"), replies' = CancelReplies(r, n),
                 stack' = Cancelled(r, n) \o more \o after
          PROVE  /\ status' \in [Req -> Statuses] /\ queue' \in [Req -> Queue \cup {None}]
                 /\ req_table' \in [Ids -> ReqOrNone] /\ replies' \in [Req -> 0 .. 2]
                 /\ stack' \in Seq(FrameType)
      <3>1. more \in Seq(FrameType)
        <4>1. <<Write>> \in Seq(FrameType) /\ <<TimeoutReset, Write>> \in Seq(FrameType)
          BY ConstFrames
        <4> QED  BY <4>1
      <3>2. Cancelled(r, n) \o more \o after \in Seq(FrameType)
        BY <3>1, CancelledTyped, ConcatProperties
      <3>3. "CANCELLED" \in Statuses
        BY DEF Statuses
      <3> QED  BY <2>2, <3>2, <3>3, CompleteTyped, RepliedTyped
    <2> QED  BY <1>2, <2>1, <2>2
  <1>4. block_req' \in ReqOrNone
    BY UnblockedByTyped DEF CancelThen
  <1> QED
    BY <1>3, <1>4
    DEF CancelThen, TypeOK, RequestTypeOK, SendTypeOK, TableTypeOK, EnvTypeOK,
        StackTypeOK, txnVars, tmoVars, envVars

\* grilio_channel_cancel_request keeps the types.
LEMMA CancelRequestTyped ==
    ASSUME TypeOK, NEW i \in Ids, NEW n \in BOOLEAN, CancelRequest(i, n)
    PROVE  TypeOK'
  BY CancelThenTyped DEF CancelRequest, TypeOK, StackTypeOK

\* The cancellation in grilio_channel_drop_request keeps the types.
LEMMA DropRequestTyped ==
    ASSUME TypeOK, NEW i \in Ids, DropRequest(i)
    PROVE  TypeOK'
  <1>1. [Frame("drop") EXCEPT !.ids = {i}] \in FrameType
    BY DropTyped
  <1>2. <<[Frame("drop") EXCEPT !.ids = {i}]>> \o stack \in Seq(FrameType)
    BY <1>1, PushTyped DEF TypeOK, StackTypeOK
  <1> QED  BY <1>2, CancelThenTyped DEF DropRequest

\* drop_request, when it takes the request off the pending table, keeps the types.
LEMMA DropPendingTyped ==
    ASSUME TypeOK, DropPending PROVE TypeOK'
  <1>1. PICK i \in Top.ids : DropPending!2!(i)
    BY DEF DropPending
  <1>2. Rest \in Seq(FrameType) /\ i \in Ids
    <2>1. Top \in FrameType /\ Rest \in Seq(FrameType)
      BY RestTyped DEF DropPending, TypeOK, Running
    <2> QED  BY <2>1 DEF FrameType
  <1>3. TableTypeOK'
    <2>1. pending' \in [Ids -> ReqOrNone]
      BY <1>1, <1>2, PendingWithoutTyped
    <2> QED  BY <2>1 DEF DropPending, TypeOK, TableTypeOK, txnVars
  <1>4. StackTypeOK'
    <2>1. <<Write, PendingUpdate>> \in Seq(FrameType) /\ <<>> \in Seq(FrameType)
      BY ConstFrames
    <2>2. /\ <<Write, PendingUpdate>> \o Rest \in Seq(FrameType)
          /\ <<>> \o Rest \in Seq(FrameType)
      BY <1>2, <2>1, ConcatProperties
    <2> QED  BY <1>1, <2>2 DEF StackTypeOK
  <1> QED
    BY <1>3, <1>4, RequestSame, SendSame, EnvSame DEF DropPending, TypeOK

\* The beginning of cancel_all keeps the types.
LEMMA CancelAllTyped ==
    ASSUME TypeOK, NEW n \in BOOLEAN, CancelAll(n) PROVE TypeOK'
  <1> DEFINE loops == << [Frame("cancel_queue") EXCEPT !.notify = n],
                         [Frame("cancel_retry") EXCEPT !.notify = n],
                         Frame("cancel_end") >>
  <1>1. loops \in Seq(FrameType) /\ stack \in Seq(FrameType)
    <2>1. /\ [Frame("cancel_queue") EXCEPT !.notify = n] \in FrameType
          /\ [Frame("cancel_retry") EXCEPT !.notify = n] \in FrameType
          /\ Frame("cancel_end") \in FrameType
      BY FrameTyped DEF Functions
    <2> QED  BY <2>1 DEF TypeOK, StackTypeOK
  <1> HIDE DEF loops
  <1>2. /\ status' \in [Req -> Statuses] /\ queue' \in [Req -> Queue \cup {None}]
        /\ req_table' \in [Ids -> ReqOrNone] /\ replies' \in [Req -> 0 .. 2]
        /\ stack' \in Seq(FrameType)
    <2>1. CASE send_req # None /\ status[send_req] # "CANCELLED"
      <3>1. send_req \in Req /\ "CANCELLED" \in Statuses
        BY <2>1 DEF TypeOK, SendTypeOK, ReqOrNone, Statuses
      <3>2. /\ Complete(send_req, "CANCELLED")
            /\ replies' = CancelReplies(send_req, n)
            /\ stack' = Cancelled(send_req, n) \o loops \o stack
        BY <2>1 DEF CancelAll, loops
      <3>3. Cancelled(send_req, n) \o loops \o stack \in Seq(FrameType)
        BY <1>1, CancelledTyped, ConcatProperties
      <3> QED  BY <3>1, <3>2, <3>3, CompleteTyped, RepliedTyped
    <2>2. CASE ~(send_req # None /\ status[send_req] # "CANCELLED")
      <3>1. stack' = loops \o stack /\ UNCHANGED <<status, queue, req_table, replies>>
        BY <2>2 DEF CancelAll, loops
      <3> QED
        BY <1>1, <3>1, ConcatProperties
        DEF TypeOK, RequestTypeOK, TableTypeOK, EnvTypeOK
    <2> QED  BY <2>1, <2>2
  <1>3. block_req' \in ReqOrNone
    BY DEF CancelAll, ReqOrNone
  <1> QED
    BY <1>2, <1>3
    DEF CancelAll, TypeOK, RequestTypeOK, SendTypeOK, TableTypeOK, EnvTypeOK,
        StackTypeOK, txnVars, tmoVars, envVars

\* The loops of grilio_channel_cancel_all complete one request each time.
LEMMA CancelOneTyped ==
    ASSUME TypeOK, NEW r \in Req, NEW n \in BOOLEAN, NEW loop \in Seq(FrameType),
           Complete(r, "CANCELLED"), replies' = CancelReplies(r, n),
           stack' = Cancelled(r, n) \o loop
    PROVE  /\ status' \in [Req -> Statuses] /\ queue' \in [Req -> Queue \cup {None}]
           /\ req_table' \in [Ids -> ReqOrNone] /\ replies' \in [Req -> 0 .. 2]
           /\ stack' \in Seq(FrameType)
  <1>1. "CANCELLED" \in Statuses
    BY DEF Statuses
  <1>2. Cancelled(r, n) \o loop \in Seq(FrameType)
    BY CancelledTyped, ConcatProperties
  <1> QED  BY <1>1, <1>2, CompleteTyped, RepliedTyped

\* cancel_all, for the head of the send queue, keeps the types.
LEMMA CancelQueuedTyped ==
    ASSUME TypeOK, CancelQueued PROVE TypeOK'
  <1>1. Top.notify \in BOOLEAN /\ stack \in Seq(FrameType)
    <2>1. Top \in FrameType
      BY RestTyped DEF CancelQueued, TypeOK, Running
    <2> QED  BY <2>1 DEF FrameType, TypeOK, StackTypeOK
  <1>2. Head(send_queue) \in Req /\ send_queue' \in Seq(Req)
    BY HeadTailProperties DEF CancelQueued, TypeOK, SendTypeOK
  <1>3. /\ status' \in [Req -> Statuses] /\ queue' \in [Req -> Queue \cup {None}]
        /\ req_table' \in [Ids -> ReqOrNone] /\ replies' \in [Req -> 0 .. 2]
        /\ stack' \in Seq(FrameType)
    BY <1>1, <1>2, CancelOneTyped DEF CancelQueued
  <1> QED
    BY <1>2, <1>3
    DEF CancelQueued, TypeOK, RequestTypeOK, SendTypeOK, TableTypeOK, EnvTypeOK,
        StackTypeOK, txnVars, tmoVars, envVars

\* cancel_all, for the next key of the table, keeps the types.
LEMMA CancelTableTyped ==
    ASSUME TypeOK, CancelTable PROVE TypeOK'
  <1>1. PICK i \in Top.ids : CancelTable!2!(i)
    BY DEF CancelTable
  <1> DEFINE r == req_table[i]
             loop == <<[Top EXCEPT !.ids = @ \ {i}]>> \o Rest
  <1>2. /\ Top \in FrameType /\ Rest \in Seq(FrameType) /\ Top.fn = "cancel_table"
        /\ Top.notify \in BOOLEAN /\ i \in Ids
    <2>1. Top \in FrameType /\ Rest \in Seq(FrameType) /\ Top.fn = "cancel_table"
      BY RestTyped DEF CancelTable, TypeOK, Running, Top
    <2> QED  BY <2>1 DEF FrameType
  <1>3. loop \in Seq(FrameType)
    <2>1. [Top EXCEPT !.ids = @ \ {i}] \in FrameType
      BY <1>2 DEF FrameType, Held
    <2> QED  BY <1>2, <2>1, PushTyped
  <1>4. r \in ReqOrNone
    BY <1>2 DEF TypeOK, TableTypeOK
  <1> HIDE DEF loop
  <1>5. /\ status' \in [Req -> Statuses] /\ queue' \in [Req -> Queue \cup {None}]
        /\ req_table' \in [Ids -> ReqOrNone] /\ replies' \in [Req -> 0 .. 2]
        /\ stack' \in Seq(FrameType)
    <2>1. CASE r # None
      <3>1. /\ Complete(r, "CANCELLED")
            /\ replies' = CancelReplies(r, Top.notify)
            /\ stack' = Cancelled(r, Top.notify) \o loop
        BY <1>1, <2>1 DEF loop
      <3> QED  BY <1>2, <1>3, <1>4, <2>1, <3>1, CancelOneTyped DEF ReqOrNone
    <2>2. CASE r = None
      <3>1. stack' = loop /\ UNCHANGED <<status, queue, req_table, replies>>
        BY <1>1, <2>2 DEF loop
      <3> QED  BY <1>3, <3>1 DEF TypeOK, RequestTypeOK, TableTypeOK, EnvTypeOK
    <2> QED  BY <2>1, <2>2
  <1> QED
    BY <1>5
    DEF CancelTable, TypeOK, RequestTypeOK, SendTypeOK, TableTypeOK, EnvTypeOK,
        StackTypeOK, sendVars, txnVars, tmoVars, envVars

\* cancel_all, for a request of the retry queue, keeps the types.
LEMMA CancelRetryTyped ==
    ASSUME TypeOK, CancelRetry PROVE TypeOK'
  <1>1. Top.notify \in BOOLEAN /\ stack \in Seq(FrameType)
    <2>1. Top \in FrameType
      BY RestTyped DEF CancelRetry, TypeOK, Running
    <2> QED  BY <2>1 DEF FrameType, TypeOK, StackTypeOK
  <1>2. PICK r \in retry : CancelRetry!2!(r)
    BY DEF CancelRetry
  <1>3. r \in Req /\ retry' \subseteq Req
    BY <1>2 DEF TypeOK, SendTypeOK
  <1>4. /\ status' \in [Req -> Statuses] /\ queue' \in [Req -> Queue \cup {None}]
        /\ req_table' \in [Ids -> ReqOrNone] /\ replies' \in [Req -> 0 .. 2]
        /\ stack' \in Seq(FrameType)
    BY <1>1, <1>2, <1>3, CancelOneTyped
  <1> QED
    BY <1>3, <1>4
    DEF CancelRetry, TypeOK, RequestTypeOK, SendTypeOK, TableTypeOK, EnvTypeOK,
        StackTypeOK, txnVars, tmoVars, envVars

-----------------------------------------------------------------------------
\* Every API call keeps the types.
LEMMA AppCallTyped ==
    ASSUME TypeOK, AppCall PROVE TypeOK'
  BY SendRequestTyped, CancelRequestTyped, CancelAllTyped, RetryRequestTyped,
     DropRequestTyped, SerializeTyped, DeserializeTyped, AppReturnsTyped
  DEF AppCall, KnownIds

\* Every event of the main loop keeps the types.
LEMMA EventTyped ==
    ASSUME TypeOK, Event PROVE TypeOK'
  BY ConnectedTyped, DisconnectedTyped, RequestSentTyped, ResponseTyped,
     IndicationTyped, TimeoutTyped, PendingTimeoutTyped
  DEF Event

\* Every step of a running function keeps the types.
LEMMA StepTyped ==
    ASSUME TypeOK, Step PROVE TypeOK'
  BY WriteStopTyped, DequeueTyped, SubmitTyped, UpdatePendingTyped, ResetTimeoutTyped,
     HandleResponseTyped, ExpirePendingTyped, ExpireOneTyped, ExpireEndTyped,
     TakeRetriesTyped, RequeueNextTyped, RequeueEndTyped, DropPendingTyped,
     CancelQueuedTyped, CancelTableStartTyped, CancelTableTyped, CancelRetryTyped,
     CancelLoopEndTyped, CancelAllEndTyped
  DEF Step

\* Whatever the application calls and the transport reports, every field of the
\* channel keeps its type: in particular the function that is about to submit or to
\* expire a request really holds one (grilio_channel.c:518, 640), and the send queue
\* is a sequence of requests.
THEOREM TypeCorrect == Spec => []TypeOK
  <1>1. TypeOK /\ UNCHANGED vars => TypeOK'
    BY StackOnlyTyped DEF vars, TypeOK, StackTypeOK
  <1>2. TypeOK /\ [Next]_vars => TypeOK'
    BY <1>1, AppCallTyped, EventTyped, StepTyped DEF Next
  <1> QED  BY InitTyped, <1>2, PTL DEF Spec
-----------------------------------------------------------------------------
(* Sequences without duplicates.                                           *)

\* Appending something new to a sequence without repetitions adds it to the range and
\* repeats nothing (queue_request links a request behind last_req).
LEMMA AppendInjection ==
    ASSUME NEW S, NEW s \in Seq(S), NEW e \in S, IsInjective(s), e \notin Range(s)
    PROVE  IsInjective(Append(s, e)) /\ Range(Append(s, e)) = Range(s) \cup {e}
  <1>1. /\ DOMAIN s = 1 .. Len(s) /\ Len(s) \in Nat
        /\ DOMAIN Append(s, e) = 1 .. Len(s) + 1
        /\ \A k \in 1 .. Len(s) : Append(s, e)[k] = s[k]
        /\ Append(s, e)[Len(s) + 1] = e
    BY AppendProperties, LenProperties
  <1> DEFINE t == Append(s, e)
  <1> HIDE DEF t
  <1>2. /\ DOMAIN t = 1 .. Len(s) + 1
        /\ \A k \in DOMAIN s : t[k] = s[k]
        /\ t[Len(s) + 1] = e
    BY <1>1 DEF t
  <1>3. \A k \in DOMAIN t : k \in DOMAIN s \/ k = Len(s) + 1
    BY <1>1, <1>2
  <1>4. \A k \in DOMAIN s : k \in DOMAIN t /\ k # Len(s) + 1
    BY <1>1, <1>2
  <1>5. Len(s) + 1 \in DOMAIN t
    BY <1>1, <1>2
  <1>6. IsInjective(t)
    BY <1>2, <1>3, <1>4 DEF IsInjective, Range
  <1>7. Range(t) = Range(s) \cup {e}
    BY <1>2, <1>3, <1>4, <1>5 DEF Range
  <1> QED  BY <1>6, <1>7 DEF t

\* Removing a position from a sequence without repetitions removes that element from the
\* range and no other (a request is unlinked from the middle of the send queue).
LEMMA RemoveAtInjection ==
    ASSUME NEW S, NEW s \in Seq(S), NEW k \in DOMAIN s, IsInjective(s)
    PROVE  /\ IsInjective(RemoveAt(s, k))
           /\ Range(RemoveAt(s, k)) = Range(s) \ {s[k]}
  <1> DEFINE t == RemoveAt(s, k)
             from(j) == IF j < k THEN j ELSE j + 1
  <1>1. /\ t \in Seq(S) /\ Len(t) = Len(s) - 1
        /\ \A j \in 1 .. Len(s) - 1 : t[j] = IF j < k THEN s[j] ELSE s[j + 1]
    BY RemoveAtProperties
  <1>2. /\ DOMAIN s = 1 .. Len(s) /\ Len(s) \in Nat /\ DOMAIN t = 1 .. Len(s) - 1
        /\ k \in 1 .. Len(s)
    BY <1>1, LenProperties
  <1> HIDE DEF t
  <1>3. \A j \in DOMAIN t : from(j) \in DOMAIN s /\ from(j) # k
    BY <1>2
  <1>4. \A j \in DOMAIN t : t[j] = s[from(j)]
    BY <1>1, <1>2
  <1>5. \A i, j \in DOMAIN t : from(i) = from(j) => i = j
    BY <1>2
  <1>6. \A i \in DOMAIN s : i # k => \E j \in DOMAIN t : from(j) = i
    <2> TAKE i \in DOMAIN s
    <2> HAVE i # k
    <2>1. CASE i < k
      <3>1. i \in DOMAIN t /\ from(i) = i
        BY <1>2, <2>1
      <3> QED  BY <3>1
    <2>2. CASE i > k
      <3>1. i - 1 \in DOMAIN t /\ from(i - 1) = i
        BY <1>2, <2>2
      <3> QED  BY <3>1
    <2> QED  BY <1>2, <2>1, <2>2
  <1> HIDE DEF from
  <1>7. IsInjective(t)
    BY <1>3, <1>4, <1>5 DEF IsInjective
  <1>8. Range(t) = Range(s) \ {s[k]}
    <2>1. \A x \in Range(t) : x \in Range(s) /\ x # s[k]
      BY <1>3, <1>4 DEF Range, IsInjective
    <2>2. \A x \in Range(s) : x # s[k] => x \in Range(t)
      <3> TAKE x \in Range(s)
      <3> HAVE x # s[k]
      <3>1. PICK i \in DOMAIN s : x = s[i] /\ i # k
        BY DEF Range
      <3>2. PICK j \in DOMAIN t : from(j) = i
        BY <1>6, <3>1
      <3>3. x = t[j]
        BY <1>4, <3>1, <3>2
      <3> QED  BY <3>3 DEF Range
    <2> QED  BY <2>1, <2>2
  <1> QED  BY <1>7, <1>8 DEF t

\* Removing the head of a sequence without repetitions removes it from the range
\* (cancel_all empties the send queue from its head).
LEMMA TailInjection ==
    ASSUME NEW S, NEW s \in Seq(S), s # <<>>, IsInjective(s)
    PROVE  /\ IsInjective(Tail(s))
           /\ Range(Tail(s)) = Range(s) \ {Head(s)} /\ Head(s) \in Range(s)
  <1> DEFINE t == Tail(s)
  <1>1. /\ DOMAIN s = 1 .. Len(s) /\ Len(s) \in Nat /\ Len(s) >= 1
        /\ DOMAIN t = 1 .. Len(s) - 1
        /\ Head(s) = s[1]
        /\ \A i \in DOMAIN t : t[i] = s[i + 1]
    <2>1. t \in Seq(S) /\ Len(t) = Len(s) - 1 /\ \A i \in 1 .. Len(t) : t[i] = s[i + 1]
      BY HeadTailProperties
    <2>2. DOMAIN t = 1 .. Len(t) /\ DOMAIN s = 1 .. Len(s) /\ Len(s) \in Nat /\ Len(s) # 0
      BY <2>1, LenProperties, EmptySeq
    <2>3. Head(s) = s[1]
      OBVIOUS
    <2> QED  BY <2>1, <2>2, <2>3
  <1> HIDE DEF t
  <1>2. \A i \in DOMAIN t : i + 1 \in DOMAIN s /\ i + 1 # 1
    BY <1>1
  <1>3. \A i \in DOMAIN s : i # 1 => i - 1 \in DOMAIN t /\ (i - 1) + 1 = i
    BY <1>1
  <1>4. 1 \in DOMAIN s
    BY <1>1
  <1>5. \A i, j \in DOMAIN t : i + 1 = j + 1 => i = j
    BY <1>1
  <1>6. IsInjective(t)
    <2> SUFFICES ASSUME NEW i \in DOMAIN t, NEW j \in DOMAIN t, t[i] = t[j]
                 PROVE  i = j
      BY DEF IsInjective
    <2>1. s[i + 1] = s[j + 1] /\ i + 1 \in DOMAIN s /\ j + 1 \in DOMAIN s
      BY <1>1, <1>2
    <2>2. i + 1 = j + 1
      BY <2>1 DEF IsInjective
    <2> QED  BY <1>5, <2>2
  <1>7. Range(t) = Range(s) \ {Head(s)}
    <2>1. \A x \in Range(t) : x \in Range(s) /\ x # Head(s)
      <3> TAKE x \in Range(t)
      <3>1. PICK i \in DOMAIN t : x = t[i]
        BY DEF Range
      <3>2. x = s[i + 1] /\ i + 1 \in DOMAIN s /\ i + 1 # 1
        BY <1>1, <1>2, <3>1
      <3> QED  BY <1>1, <1>4, <3>2 DEF Range, IsInjective
    <2>2. \A x \in Range(s) : x # Head(s) => x \in Range(t)
      <3> TAKE x \in Range(s)
      <3> HAVE x # Head(s)
      <3>1. PICK i \in DOMAIN s : x = s[i] /\ i # 1
        BY <1>1 DEF Range
      <3>2. i - 1 \in DOMAIN t /\ (i - 1) + 1 = i
        BY <1>3, <3>1
      <3>3. x = t[i - 1]
        BY <1>1, <3>1, <3>2
      <3> QED  BY <3>2, <3>3 DEF Range
    <2> QED  BY <2>1, <2>2
  <1> QED  BY <1>1, <1>4, <1>6, <1>7 DEF t, Range

\* What is at a position of a sequence is in its range and has its type.
LEMMA InDomain ==
    ASSUME NEW S, NEW s \in Seq(S), NEW k \in DOMAIN s
    PROVE  s[k] \in Range(s) /\ s[k] \in S
  BY ElementOfSeq, LenProperties DEF Range

-----------------------------------------------------------------------------
(* What the functions on a stack hold.                                     *)

\* A sequence of frames none of which holds a request or handles a reply.
Plain(pre) == /\ pre \in Seq(FrameType)
              /\ HeldBy(pre) = {} /\ "response" \notin Executing(pre)

\* Calling functions that hold no request changes neither what is held nor that each
\* request is held once.
LEMMA PushFrames ==
    ASSUME NEW s \in Seq(FrameType), NEW pre \in Seq(FrameType), HeldBy(pre) = {}
    PROVE  /\ HeldBy(pre \o s) = HeldBy(s)
           /\ HeldOnce(s) => HeldOnce(pre \o s)
           /\ Executing(pre \o s) = Executing(pre) \cup Executing(s)
  <1> DEFINE t == pre \o s
             n == Len(pre)
  <1>1. /\ n \in Nat /\ Len(s) \in Nat
        /\ DOMAIN pre = 1 .. n /\ DOMAIN s = 1 .. Len(s) /\ DOMAIN t = 1 .. n + Len(s)
        /\ \A k \in 1 .. n + Len(s) : t[k] = IF k <= n THEN pre[k] ELSE s[k - n]
    BY ConcatProperties, LenProperties
  <1> HIDE DEF t, n
  <1>2. \A k \in DOMAIN t : \/ k \in DOMAIN pre /\ t[k] = pre[k]
                            \/ k - n \in DOMAIN s /\ t[k] = s[k - n]
    BY <1>1
  <1>3. \A k \in DOMAIN pre : k \in DOMAIN t /\ t[k] = pre[k]
    BY <1>1
  <1>4. \A k \in DOMAIN s : n + k \in DOMAIN t /\ t[n + k] = s[k]
    <2> TAKE k \in DOMAIN s
    <2>1. n + k \in 1 .. n + Len(s) /\ ~(n + k <= n) /\ (n + k) - n = k
      BY <1>1
    <2> QED  BY <1>1, <2>1
  <1>5. ASSUME NEW k \in DOMAIN pre PROVE ~Held(pre[k])
    <2>1. Held(pre[k]) => pre[k].req \in HeldBy(pre)
      BY DEF HeldBy
    <2> QED  BY <2>1
  <1>6. HeldBy(t) = HeldBy(s)
    <2>1. \A r \in HeldBy(t) : r \in HeldBy(s)
      BY <1>2, <1>5 DEF HeldBy
    <2>2. \A r \in HeldBy(s) : r \in HeldBy(t)
      BY <1>4 DEF HeldBy
    <2> QED  BY <2>1, <2>2
  <1>7. ASSUME HeldOnce(s) PROVE HeldOnce(t)
    <2> SUFFICES ASSUME NEW j \in DOMAIN t, NEW k \in DOMAIN t,
                        Held(t[j]), Held(t[k]), t[j].req = t[k].req
                 PROVE  j = k
      BY DEF HeldOnce
    <2>1. /\ j - n \in DOMAIN s /\ t[j] = s[j - n]
          /\ k - n \in DOMAIN s /\ t[k] = s[k - n]
      BY <1>2, <1>5
    <2>2. j - n = k - n
      BY <1>7, <2>1 DEF HeldOnce
    <2> QED  BY <1>1, <2>2
  <1>8. Executing(t) = Executing(pre) \cup Executing(s)
    <2>1. \A f \in Executing(t) : f \in Executing(pre) \cup Executing(s)
      BY <1>2 DEF Executing
    <2>2. \A f \in Executing(pre) \cup Executing(s) : f \in Executing(t)
      BY <1>3, <1>4 DEF Executing
    <2> QED  BY <2>1, <2>2
  <1> QED  BY <1>6, <1>7, <1>8 DEF t

\* A function that holds a request is called, or returns.
LEMMA PopFrame ==
    ASSUME NEW s \in Seq(FrameType), s # <<>>
    PROVE  /\ Executing(s) = {Head(s).fn} \cup Executing(Tail(s))
           /\ ~Held(Head(s)) => HeldBy(s) = HeldBy(Tail(s))
           /\ Held(Head(s)) => HeldBy(s) = {Head(s).req} \cup HeldBy(Tail(s))
           /\ HeldOnce(s) => /\ HeldOnce(Tail(s))
                             /\ Held(Head(s)) => Head(s).req \notin HeldBy(Tail(s))
  <1> DEFINE t == Tail(s)
  <1>1. /\ DOMAIN s = 1 .. Len(s) /\ Len(s) \in Nat /\ Len(s) >= 1
        /\ DOMAIN t = 1 .. Len(s) - 1
        /\ Head(s) = s[1]
        /\ \A i \in DOMAIN t : t[i] = s[i + 1]
    <2>1. t \in Seq(FrameType) /\ Len(t) = Len(s) - 1 /\ \A i \in 1 .. Len(t) : t[i] = s[i + 1]
      BY HeadTailProperties
    <2>2. DOMAIN t = 1 .. Len(t) /\ DOMAIN s = 1 .. Len(s) /\ Len(s) \in Nat /\ Len(s) # 0
      BY <2>1, LenProperties, EmptySeq
    <2>3. Head(s) = s[1]
      OBVIOUS
    <2> QED  BY <2>1, <2>2, <2>3
  <1> HIDE DEF t
  <1>2. \A i \in DOMAIN t : i + 1 \in DOMAIN s /\ i + 1 # 1 /\ t[i] = s[i + 1]
    BY <1>1
  <1>3. \A i \in DOMAIN s : i # 1 => i - 1 \in DOMAIN t /\ s[i] = t[i - 1]
    BY <1>1
  <1>4. 1 \in DOMAIN s /\ s[1] = Head(s)
    BY <1>1
  <1>5. Executing(s) = {Head(s).fn} \cup Executing(t)
    <2>1. \A f \in Executing(s) : f \in {Head(s).fn} \cup Executing(t)
      BY <1>3, <1>4 DEF Executing
    <2>2. \A f \in {Head(s).fn} \cup Executing(t) : f \in Executing(s)
      BY <1>2, <1>4 DEF Executing
    <2> QED  BY <2>1, <2>2
  <1>6. \A r \in HeldBy(s) : r \in HeldBy(t) \/ (Held(Head(s)) /\ r = Head(s).req)
    BY <1>3, <1>4 DEF HeldBy
  <1>7. \A r \in HeldBy(t) : r \in HeldBy(s)
    BY <1>2 DEF HeldBy
  <1>8. Held(Head(s)) => Head(s).req \in HeldBy(s)
    BY <1>4 DEF HeldBy
  <1>9. ASSUME HeldOnce(s)
        PROVE  HeldOnce(t) /\ (Held(Head(s)) => Head(s).req \notin HeldBy(t))
    <2>1. HeldOnce(t)
      <3> SUFFICES ASSUME NEW j \in DOMAIN t, NEW k \in DOMAIN t,
                          Held(t[j]), Held(t[k]), t[j].req = t[k].req
                   PROVE  j = k
        BY DEF HeldOnce
      <3>1. j + 1 = k + 1
        BY <1>2, <1>9 DEF HeldOnce
      <3> QED  BY <1>1, <3>1
    <2>2. ASSUME Held(Head(s)), Head(s).req \in HeldBy(t) PROVE FALSE
      <3>1. PICK k \in DOMAIN t : Held(t[k]) /\ t[k].req = Head(s).req
        BY <2>2 DEF HeldBy
      <3> QED  BY <1>2, <1>4, <1>9, <2>2, <3>1 DEF HeldOnce
    <2> QED  BY <2>1, <2>2
  <1> QED  BY <1>5, <1>6, <1>7, <1>8, <1>9 DEF t

\* Calling a function that holds a request nobody holds (dequeue_request returns one)
\* adds just that request to what is held.
LEMMA PushHeldFrame ==
    ASSUME NEW s \in Seq(FrameType), NEW f \in FrameType, Held(f)
    PROVE  /\ HeldBy(<<f>> \o s) = {f.req} \cup HeldBy(s)
           /\ HeldOnce(s) /\ f.req \notin HeldBy(s) => HeldOnce(<<f>> \o s)
           /\ Executing(<<f>> \o s) = {f.fn} \cup Executing(s)
  <1> DEFINE t == <<f>> \o s
  <1>1. t \in Seq(FrameType) /\ t # <<>> /\ Head(t) = f /\ Tail(t) = s
    <2>1. t \in Seq(FrameType) /\ Len(t) = Len(s) + 1 /\ Len(s) \in Nat
      BY PushTyped, ConcatProperties, LenProperties, <<f>> \in Seq(FrameType), Len(<<f>>) = 1
    <2>2. t # <<>>
      BY <2>1, EmptySeq
    <2>3. \A i \in 1 .. Len(t) : t[i] = IF i <= 1 THEN <<f>>[i] ELSE s[i - 1]
      BY <2>1, ConcatProperties, <<f>> \in Seq(FrameType), Len(<<f>>) = 1
    <2>4. Head(t) = f
      BY <2>1, <2>3
    <2>5. Tail(t) = s
      <3>1. /\ Tail(t) \in Seq(FrameType) /\ Len(Tail(t)) = Len(s)
            /\ \A i \in 1 .. Len(s) : Tail(t)[i] = t[i + 1]
        BY <2>1, <2>2, HeadTailProperties
      <3>2. \A i \in 1 .. Len(s) : t[i + 1] = s[i]
        <4> TAKE i \in 1 .. Len(s)
        <4>1. i + 1 \in 1 .. Len(t) /\ ~(i + 1 <= 1) /\ (i + 1) - 1 = i
          BY <2>1
        <4> QED  BY <2>3, <4>1
      <3> QED  BY <3>1, <3>2, SeqEqual
    <2> QED  BY <2>1, <2>2, <2>4, <2>5
  <1> HIDE DEF t
  <1>2. /\ HeldBy(t) = {f.req} \cup HeldBy(s) /\ Executing(t) = {f.fn} \cup Executing(s)
    BY <1>1, PopFrame
  <1>3. ASSUME HeldOnce(s), f.req \notin HeldBy(s) PROVE HeldOnce(t)
    <2>1. /\ DOMAIN t = 1 .. Len(t) /\ DOMAIN s = 1 .. Len(s) /\ Len(t) = Len(s) + 1
          /\ Len(s) \in Nat /\ \A i \in 1 .. Len(s) : s[i] = t[i + 1]
      BY <1>1, HeadTailProperties, LenProperties
    <2>2. \A k \in DOMAIN t : \/ k = 1 /\ t[k] = f
                              \/ k - 1 \in DOMAIN s /\ t[k] = s[k - 1]
      BY <1>1, <2>1
    <2>3. \A k \in DOMAIN s : Held(s[k]) => s[k].req # f.req
      BY <1>3 DEF HeldBy
    <2> SUFFICES ASSUME NEW j \in DOMAIN t, NEW k \in DOMAIN t,
                        Held(t[j]), Held(t[k]), t[j].req = t[k].req
                 PROVE  j = k
      BY DEF HeldOnce
    <2>4. CASE j = 1 \/ k = 1
      BY <2>1, <2>2, <2>3, <2>4
    <2>5. CASE j # 1 /\ k # 1
      <3>1. j - 1 = k - 1
        BY <1>3, <2>2, <2>5 DEF HeldOnce
      <3> QED  BY <2>1, <3>1
    <2> QED  BY <2>4, <2>5
  <1> QED  BY <1>2, <1>3 DEF t

\* None of these functions holds a request, handles a reply or lists expired requests.
LEMMA PlainFrames ==
    ASSUME NEW pre \in Seq(FrameType),
           \A k \in DOMAIN pre : pre[k].fn \notin {"submit", "expire_one", "response"}
    PROVE  Plain(pre)
  BY DEF Plain, HeldBy, Held, Executing

\* Calling plain functions after plain functions is calling plain functions.
LEMMA PlainConcat ==
    ASSUME NEW a, NEW b, Plain(a), Plain(b)
    PROVE  Plain(a \o b)
  BY PushFrames, ConcatProperties DEF Plain

\* A single call of a plain function.
LEMMA PlainFrame ==
    ASSUME NEW f \in FrameType, f.fn \notin {"submit", "expire_one", "response"}
    PROVE  Plain(<<f>>)
  <1>1. <<f>> \in Seq(FrameType) /\ DOMAIN <<f>> = {1} /\ <<f>>[1] = f
    OBVIOUS
  <1> QED  BY <1>1, PlainFrames

\* Two calls of plain functions, as after a reply: update_pending and schedule_write.
LEMMA PlainPair ==
    ASSUME NEW f \in FrameType, f.fn \notin {"submit", "expire_one", "response"},
           NEW g \in FrameType, g.fn \notin {"submit", "expire_one", "response"}
    PROVE  Plain(<<f, g>>)
  <1>1. <<f, g>> \in Seq(FrameType) /\ DOMAIN <<f, g>> = 1 .. 2
    OBVIOUS
  <1>2. <<f, g>>[1] = f /\ <<f, g>>[2] = g
    OBVIOUS
  <1>3. \A k \in 1 .. 2 : k = 1 \/ k = 2
    OBVIOUS
  <1>4. \A k \in DOMAIN <<f, g>> : <<f, g>>[k].fn \notin {"submit", "expire_one", "response"}
    BY <1>1, <1>2, <1>3
  <1> QED  BY <1>1, <1>4, PlainFrames

\* Callbacks, whether the application does anything in them or not, are plain.
LEMMA PlainCalls ==
    ASSUME NEW r, NEW n, NEW kind
    PROVE  /\ Plain(<<>>) /\ Plain(Call(kind)) /\ Plain(Notify(r)) /\ Plain(Cancelled(r, n))
           /\ Plain(<<Write>>) /\ Plain(<<Write, PendingUpdate>>)
           /\ Plain(<<TimeoutReset, Write>>) /\ Plain(<<Write, TimeoutReset>>)
  <1>1. Plain(<<>>)
    <2>1. <<>> \in Seq(FrameType) /\ DOMAIN <<>> = {}
      OBVIOUS
    <2> QED  BY <2>1, PlainFrames
  <1>2. /\ App.fn = "app" /\ Write.fn = "schedule_write"
        /\ PendingUpdate.fn = "update_pending" /\ TimeoutReset.fn = "reset_timeout"
    BY DEF App, Write, PendingUpdate, TimeoutReset, Frame
  <1>3. Plain(<<App>>) /\ Plain(<<Write>>) /\ Plain(<<PendingUpdate>>) /\ Plain(<<TimeoutReset>>)
    BY <1>2, ConstFrames, PlainFrame
  <1>5. /\ Plain(<<Write, PendingUpdate>>) /\ Plain(<<TimeoutReset, Write>>)
        /\ Plain(<<Write, TimeoutReset>>)
    BY <1>2, ConstFrames, PlainPair
  <1>6. \A c : Plain(Call(c))
    BY <1>1, <1>3 DEF Call
  <1>7. Plain(Notify(r))
    BY <1>1, <1>6 DEF Notify
  <1>8. Plain(Cancelled(r, n))
    BY <1>1, <1>7 DEF Cancelled
  <1> QED  BY <1>1, <1>3, <1>5, <1>6, <1>7, <1>8

\* What a function that is not grilio_channel_handle_response calls, and what it
\* leaves to be done, changes nothing for the functions below it.
LEMMA PlainPush ==
    ASSUME NEW s \in Seq(FrameType), NEW pre, Plain(pre), "response" \notin Executing(s)
    PROVE  /\ HeldBy(pre \o s) = HeldBy(s)
           /\ HeldOnce(s) => HeldOnce(pre \o s)
           /\ Executing(s) \subseteq Executing(pre \o s)
           /\ "response" \notin Executing(pre \o s)
  BY PushFrames DEF Plain

\* What the functions below the one that is running hold does not change.
Keeps(t) == /\ HeldBy(t) = HeldBy(stack) /\ HeldOnce(t)
            /\ "response" \notin Executing(t)
            /\ "expire" \in Executing(stack) => "expire" \in Executing(t)

\* When the function on top is not handle_response, no reply is being handled: a reply
\* is handled with nothing else on the stack.
LEMMA NoResponse ==
    ASSUME ListInv, stack = <<>> \/ Top.fn # "response"
    PROVE  "response" \notin Executing(stack)
  <1>1. stack \in Seq(FrameType)
    BY DEF ListInv, TypeOK, StackTypeOK
  <1>2. CASE stack = <<>>
    BY <1>2 DEF Executing
  <1>3. CASE stack # <<>> /\ Top.fn # "response"
    <2> SUFFICES ASSUME "response" \in Executing(stack) PROVE FALSE
      OBVIOUS
    <2>1. Len(stack) = 1
      BY DEF ListInv, FramesSound
    <2>2. DOMAIN stack = {1} /\ Top = stack[1]
      BY <1>1, <1>3, <2>1, LenProperties DEF Top
    <2> QED  BY <1>3, <2>2 DEF Executing
  <1> QED  BY <1>2, <1>3

\* Calling plain functions keeps what the invariant says of the stack.
LEMMA KeepsPush ==
    ASSUME ListInv, stack = <<>> \/ Top.fn # "response", NEW pre, Plain(pre)
    PROVE  Keeps(stack) /\ Keeps(pre \o stack)
  BY NoResponse, PlainPush DEF Keeps, ListInv, TypeOK, StackTypeOK, FramesSound

\* So does starting plain functions from the main loop.
LEMMA KeepsFresh ==
    ASSUME stack = <<>>, NEW pre, Plain(pre)
    PROVE  Keeps(pre)
  <1>1. HeldBy(stack) = {} /\ Executing(stack) = {}
    BY DEF HeldBy, Executing
  <1>2. ASSUME NEW k \in DOMAIN pre PROVE ~Held(pre[k])
    <2>1. Held(pre[k]) => pre[k].req \in HeldBy(pre)
      BY DEF HeldBy
    <2> QED  BY <2>1 DEF Plain
  <1> QED  BY <1>1, <1>2 DEF Keeps, Plain, HeldOnce

\* The function on top returns.
LEMMA PopSound ==
    ASSUME ListInv, NEW fn, Running(fn)
    PROVE  /\ Rest \in Seq(FrameType)
           /\ HeldOnce(Rest) /\ "response" \notin Executing(Rest)
           /\ fn \notin {"submit", "expire_one"} => HeldBy(Rest) = HeldBy(stack)
           /\ fn \in {"submit", "expire_one"} =>
                /\ Top.req \in Req
                /\ HeldBy(stack) = {Top.req} \cup HeldBy(Rest)
                /\ Top.req \notin HeldBy(Rest)
           /\ fn # "expire" => ("expire" \in Executing(stack) => "expire" \in Executing(Rest))
  <1>1. stack \in Seq(FrameType) /\ stack # <<>> /\ Top.fn = fn /\ HeldOnce(stack)
    BY DEF ListInv, TypeOK, StackTypeOK, Running, Top, FramesSound
  <1>2. Top \in FrameType /\ Rest \in Seq(FrameType)
    BY <1>1, RestTyped DEF StackTypeOK
  <1>3. /\ Executing(stack) = {fn} \cup Executing(Rest)
        /\ ~Held(Top) => HeldBy(stack) = HeldBy(Rest)
        /\ Held(Top) => HeldBy(stack) = {Top.req} \cup HeldBy(Rest)
        /\ HeldOnce(Rest)
        /\ Held(Top) => Top.req \notin HeldBy(Rest)
    BY <1>1, PopFrame DEF Top, Rest
  <1>4. Held(Top) <=> fn \in {"submit", "expire_one"}
    BY <1>1 DEF Held
  <1>5. Held(Top) => Top.req \in Req
    BY <1>2 DEF FrameType, ReqOrNone
  <1>6. "response" \notin Executing(Rest)
    <2>1. CASE fn # "response"
      BY <1>1, <1>3, <2>1, NoResponse
    <2>2. CASE fn = "response"
      <3>1. Len(stack) = 1
        BY <1>3, <2>2 DEF ListInv, FramesSound
      <3>2. Len(Rest) = 0
        BY <1>1, <3>1, HeadTailProperties DEF Rest
      <3>3. DOMAIN Rest = {}
        BY <1>2, <3>2, LenProperties
      <3> QED  BY <3>3 DEF Executing
    <2> QED  BY <2>1, <2>2
  <1> QED  BY <1>2, <1>3, <1>4, <1>5, <1>6

\* So does the return of a function, and what it calls in its place.
LEMMA KeepsPop ==
    ASSUME ListInv, NEW fn, fn \notin {"submit", "expire_one", "expire"}, Running(fn),
           NEW pre, Plain(pre)
    PROVE  Keeps(Rest) /\ Keeps(pre \o Rest)
  <1>1. /\ Rest \in Seq(FrameType)
        /\ HeldOnce(Rest) /\ "response" \notin Executing(Rest)
        /\ HeldBy(Rest) = HeldBy(stack)
        /\ "expire" \in Executing(stack) => "expire" \in Executing(Rest)
    BY PopSound
  <1> QED  BY <1>1, PlainPush DEF Keeps

-----------------------------------------------------------------------------
(* Steps that link no request anywhere.                                    *)

\* Taking requests off the lists, changing the status of requests to one that is over, and
\* removing keys from the table keeps ListInv: the lists only shrink.
LEMMA UnlinkSound ==
    ASSUME ListInv, TypeOK',
           IsInjective(send_queue'), Range(send_queue') \subseteq Range(send_queue),
           retry' \subseteq retry, expired' \subseteq expired, resend' \subseteq resend,
           \A i \in Ids : req_table'[i] \in {req_table[i], None},
           id' = id, current_id' = current_id,
           \A r \in Req : \/ status'[r] = status[r]
                          \/ /\ status'[r] # "NEW"
                             /\ r \in Range(send_queue') => status'[r] = "CANCELLED",
           \A r \in Req : deadline'[r] =>
                deadline[r] \/ (r \notin Range(send_queue') /\ status'[r] # "NEW"),
           HeldBy(stack') \subseteq HeldBy(stack), HeldOnce(stack'),
           expired' # {} => "expire" \in Executing(stack'),
           "response" \in Executing(stack') => Len(stack') = 1
    PROVE  ListInv'
  <1>1. Range(send_queue) \subseteq Req /\ retry \subseteq Req
    BY RangeOfSeq DEF ListInv, TypeOK, SendTypeOK
  <1>2. ListIntegrity'
    BY DEF ListInv, ListIntegrity
  <1>3. QueuedHasNoDeadline'
    BY <1>1 DEF ListInv, QueuedHasNoDeadline
  <1>4. TableKeys'
    BY DEF ListInv, TableKeys
  <1>5. NewIsNowhere'
    <2> SUFFICES ASSUME NEW r \in Req, (status[r] = "NEW")'
                 PROVE  (/\ r \notin Range(send_queue) \cup retry \cup expired \cup resend
                                       \cup HeldBy(stack)
                         /\ ~deadline[r]
                         /\ \A i \in Ids : req_table[i] # r)'
      BY DEF NewIsNowhere
    <2>1. status[r] = "NEW"
      OBVIOUS
    <2>2. /\ r \notin Range(send_queue) \cup retry \cup expired \cup resend \cup HeldBy(stack)
          /\ ~deadline[r]
          /\ \A i \in Ids : req_table[i] # r
      BY <2>1 DEF ListInv, NewIsNowhere
    <2>3. ~deadline'[r]
      BY <2>2
    <2>4. \A i \in Ids : req_table'[i] # r
      BY <2>2
    <2> QED  BY <2>2, <2>3, <2>4
  <1>6. FramesSound'
    BY DEF FramesSound
  <1> QED  BY <1>2, <1>3, <1>4, <1>5, <1>6 DEF ListInv

\* Nothing happens to the lists.
LEMMA SameLists ==
    ASSUME ListInv, TypeOK',
           UNCHANGED <<status, id, current_id, deadline, send_queue, retry, expired,
                       resend, req_table>>,
           HeldBy(stack') \subseteq HeldBy(stack), HeldOnce(stack'),
           "response" \notin Executing(stack'),
           "expire" \in Executing(stack) => "expire" \in Executing(stack') \/ expired = {}
    PROVE  ListInv'
  <1>1. IsInjective(send_queue) /\ (expired # {} => "expire" \in Executing(stack))
    BY DEF ListInv, ListIntegrity, FramesSound
  <1>2. expired' # {} => "expire" \in Executing(stack')
    BY <1>1
  <1> QED  BY <1>1, <1>2, UnlinkSound

\* A step that leaves all requests and all lists alone keeps ListInv if the stack is kept.
LEMMA SameListsKept ==
    ASSUME ListInv, TypeOK',
           UNCHANGED <<status, id, current_id, deadline, send_queue, retry, expired,
                       resend, req_table>>,
           Keeps(stack')
    PROVE  ListInv'
  BY SameLists DEF Keeps

\* schedule_write that finds nothing to send keeps ListInv.
LEMMA WriteStopSound ==
    ASSUME ListInv, WriteStop PROVE ListInv'
  <1>1. TypeOK'
    BY WriteStopTyped DEF ListInv
  <1>2. Keeps(stack')
    BY KeepsPop, PlainCalls DEF WriteStop
  <1> QED
    BY <1>1, <1>2, SameListsKept DEF WriteStop, reqVars, sendVars, tabVars, tmoVars

\* reset_timeout keeps ListInv.
LEMMA ResetTimeoutSound ==
    ASSUME ListInv, ResetTimeout PROVE ListInv'
  <1>1. TypeOK'
    BY ResetTimeoutTyped DEF ListInv
  <1>2. Keeps(stack')
    BY KeepsPop, PlainCalls DEF ResetTimeout
  <1> QED
    BY <1>1, <1>2, SameListsKept DEF ResetTimeout, reqVars, sendVars, tabVars, tmoVars

\* The return of a callback keeps ListInv.
LEMMA AppReturnsSound ==
    ASSUME ListInv, AppReturns PROVE ListInv'
  <1>1. TypeOK'
    BY AppReturnsTyped DEF ListInv
  <1>2. Keeps(stack')
    BY KeepsPop, PlainCalls DEF AppReturns
  <1> QED
    BY <1>1, <1>2, SameListsKept DEF AppReturns, reqVars, sendVars, tabVars, tmoVars

\* The end of cancel_all, which stops the timer, keeps ListInv.
LEMMA CancelAllEndSound ==
    ASSUME ListInv, CancelAllEnd PROVE ListInv'
  <1>1. TypeOK'
    BY CancelAllEndTyped DEF ListInv
  <1>2. Keeps(stack')
    BY KeepsPop, PlainCalls DEF CancelAllEnd
  <1> QED
    BY <1>1, <1>2, SameListsKept DEF CancelAllEnd, reqVars, sendVars, tabVars, tmoVars

\* update_pending keeps ListInv.
LEMMA UpdatePendingSound ==
    ASSUME ListInv, UpdatePending PROVE ListInv'
  <1>1. TypeOK'
    BY UpdatePendingTyped DEF ListInv
  <1>2. Plain(IF last_pending # HasPending THEN Call("pending") ELSE <<>>)
    BY PlainCalls
  <1>3. Keeps(stack')
    BY <1>2, KeepsPop DEF UpdatePending
  <1> QED
    BY <1>1, <1>3, SameListsKept DEF UpdatePending, reqVars, sendVars, tmoVars

\* The end of the loop over due retries keeps ListInv.
LEMMA RequeueEndSound ==
    ASSUME ListInv, RequeueEnd PROVE ListInv'
  <1>1. TypeOK'
    BY RequeueEndTyped DEF ListInv
  <1>2. Keeps(stack')
    BY KeepsPop, PlainCalls DEF RequeueEnd
  <1> QED
    BY <1>1, <1>2, SameListsKept DEF RequeueEnd, reqVars, sendVars, tabVars, tmoVars

\* The end of the loop over expired requests keeps ListInv.
LEMMA ExpireEndSound ==
    ASSUME ListInv, ExpireEnd PROVE ListInv'
  <1>1. TypeOK'
    BY ExpireEndTyped DEF ListInv
  <1>2. /\ HeldBy(stack') \subseteq HeldBy(stack) /\ HeldOnce(stack')
        /\ "response" \notin Executing(stack') /\ expired = {}
    BY PopSound DEF ExpireEnd
  <1> QED
    BY <1>1, <1>2, SameLists DEF ExpireEnd, reqVars, sendVars, tabVars, tmoVars

\* The end of a loop of cancel_all keeps ListInv.
LEMMA CancelLoopEndSound ==
    ASSUME ListInv, CancelLoopEnd PROVE ListInv'
  <1>1. TypeOK'
    BY CancelLoopEndTyped DEF ListInv
  <1>2. Keeps(stack')
    BY KeepsPop, PlainCalls DEF CancelLoopEnd
  <1> QED
    BY <1>1, <1>2, SameListsKept DEF CancelLoopEnd, reqVars, sendVars, tabVars, tmoVars

\* cancel_all, when it collects the keys of the table, keeps ListInv.
LEMMA CancelTableStartSound ==
    ASSUME ListInv, CancelTableStart PROVE ListInv'
  <1> DEFINE f == [Frame("cancel_table") EXCEPT !.ids = {i \in Ids : req_table[i] # None},
                                                !.notify = Top.notify]
  <1>1. TypeOK'
    BY CancelTableStartTyped DEF ListInv
  <1>2. Plain(<<f>>)
    <2>1. Top \in FrameType
      BY RestTyped DEF CancelTableStart, Running, ListInv, TypeOK
    <2>2. Top.notify \in BOOLEAN
      BY <2>1 DEF FrameType
    <2>3. f \in FrameType
      BY <2>2, FrameTyped DEF Functions
    <2>4. f.fn = "cancel_table"
      BY DEF Frame
    <2> QED  BY <2>3, <2>4, PlainFrame
  <1> HIDE DEF f
  <1>3. stack' = <<f>> \o Rest
    BY DEF CancelTableStart, f
  <1>4. Keeps(stack')
    BY <1>2, <1>3, KeepsPop DEF CancelTableStart
  <1> QED
    BY <1>1, <1>4, SameListsKept DEF CancelTableStart, reqVars, sendVars, tabVars, tmoVars

\* drop_request, when it takes the request off the pending table, keeps ListInv.
LEMMA DropPendingSound ==
    ASSUME ListInv, DropPending PROVE ListInv'
  <1>1. TypeOK'
    BY DropPendingTyped DEF ListInv
  <1>2. PICK i \in Top.ids :
          stack' = (IF pending[i] # None THEN <<Write, PendingUpdate>> ELSE <<>>) \o Rest
    BY DEF DropPending
  <1>3. Plain(IF pending[i] # None THEN <<Write, PendingUpdate>> ELSE <<>>)
    BY PlainCalls
  <1>4. Keeps(stack')
    BY <1>2, <1>3, KeepsPop DEF DropPending
  <1> QED
    BY <1>1, <1>4, SameListsKept DEF DropPending, reqVars, sendVars, tmoVars

\* Application code runs: no reply is being handled.
LEMMA AppRunsKeeps ==
    ASSUME ListInv, AppRuns, NEW pre, Plain(pre)
    PROVE  Keeps(stack) /\ Keeps(pre \o stack)
  BY KeepsPush DEF AppRuns, Running, Top

\* grilio_channel_serialize keeps ListInv.
LEMMA SerializeSound ==
    ASSUME ListInv, Serialize PROVE ListInv'
  <1>1. TypeOK'
    BY SerializeTyped DEF ListInv
  <1>2. Keeps(stack')
    BY AppRunsKeeps, PlainCalls DEF Serialize
  <1> QED
    BY <1>1, <1>2, SameListsKept DEF Serialize, reqVars, sendVars, tabVars, tmoVars

\* grilio_channel_deserialize keeps ListInv.
LEMMA DeserializeSound ==
    ASSUME ListInv, Deserialize PROVE ListInv'
  <1>1. TypeOK'
    BY DeserializeTyped DEF ListInv
  <1>2. Keeps(stack')
    BY AppRunsKeeps, PlainCalls DEF Deserialize
  <1> QED
    BY <1>1, <1>2, SameListsKept DEF Deserialize, reqVars, tabVars, tmoVars

\* handle_connected keeps ListInv.
LEMMA ConnectedSound ==
    ASSUME ListInv, Connected PROVE ListInv'
  <1>1. TypeOK'
    BY ConnectedTyped DEF ListInv
  <1>2. Keeps(stack')
    BY KeepsFresh, PlainCalls, PlainConcat DEF Connected, Idle
  <1> QED
    BY <1>1, <1>2, SameListsKept DEF Connected, reqVars, sendVars, tabVars, tmoVars

\* handle_disconnected keeps ListInv.
LEMMA DisconnectedSound ==
    ASSUME ListInv, Disconnected PROVE ListInv'
  <1>1. TypeOK'
    BY DisconnectedTyped DEF ListInv
  <1>2. Keeps(stack')
    BY AppRunsKeeps, PlainCalls DEF Disconnected
  <1> QED
    BY <1>1, <1>2, SameListsKept DEF Disconnected, reqVars, sendVars, tabVars, tmoVars

\* grilio_channel_pending_timeout keeps ListInv.
LEMMA PendingTimeoutSound ==
    ASSUME ListInv, NEW due \in SUBSET Ids, PendingTimeout(due) PROVE ListInv'
  <1>1. TypeOK'
    BY PendingTimeoutTyped DEF ListInv
  <1>2. Keeps(stack')
    BY KeepsFresh, PlainCalls DEF PendingTimeout, Idle
  <1> QED
    BY <1>1, <1>2, SameListsKept DEF PendingTimeout, reqVars, tmoVars

-----------------------------------------------------------------------------
(* Steps that complete a request.                                          *)

\* The completion of a request keeps ListInv.
LEMMA CompleteSound ==
    ASSUME ListInv, TypeOK', NEW r \in Req, NEW final \in {"DONE", "CANCELLED"},
           Complete(r, final),
           UNCHANGED <<id, current_id, deadline, expired, resend>>,
           IsInjective(send_queue'), Range(send_queue') \subseteq Range(send_queue),
           final = "DONE" => r \notin Range(send_queue),
           retry' \subseteq retry,
           HeldBy(stack') \subseteq HeldBy(stack), HeldOnce(stack'),
           "response" \notin Executing(stack'),
           "expire" \in Executing(stack) => "expire" \in Executing(stack') \/ expired = {}
    PROVE  ListInv'
  <1>1. \A i \in Ids : req_table'[i] \in {req_table[i], None}
    BY DEF Complete, RemoveRequest, TableWithout
  <1>2. ASSUME NEW s \in Req
        PROVE  \/ status'[s] = status[s]
               \/ /\ status'[s] # "NEW"
                  /\ s \in Range(send_queue') => status'[s] = "CANCELLED"
    BY DEF Complete, ListInv, TypeOK, RequestTypeOK
  <1>3. expired' # {} => "expire" \in Executing(stack')
    BY DEF ListInv, FramesSound
  <1> QED  BY <1>1, <1>2, <1>3, UnlinkSound

\* So does a cancellation that calls only functions which hold nothing.
LEMMA CompleteKept ==
    ASSUME ListInv, TypeOK', NEW r \in Req, Complete(r, "CANCELLED"),
           UNCHANGED <<id, current_id, deadline, expired, resend>>,
           IsInjective(send_queue'), Range(send_queue') \subseteq Range(send_queue),
           retry' \subseteq retry, Keeps(stack')
    PROVE  ListInv'
  BY CompleteSound DEF Keeps

\* cancel_request, whatever its caller goes on with, keeps ListInv.
LEMMA CancelThenSound ==
    ASSUME ListInv, NEW i \in Ids, NEW n \in BOOLEAN, NEW after \in Seq(FrameType),
           Keeps(after), CancelThen(i, n, after)
    PROVE  ListInv'
  <1>1. send_queue \in Seq(Req) /\ IsInjective(send_queue)
    BY DEF ListInv, TypeOK, SendTypeOK, ListIntegrity
  <1>2. TypeOK'
    BY CancelThenTyped DEF ListInv
  <1>3. UNCHANGED <<id, current_id, deadline, expired, resend>>
    BY DEF CancelThen, tmoVars
  <1>4. \A r \in Req, more \in {<<Write>>, <<TimeoutReset, Write>>} :
          Keeps(Cancelled(r, n) \o more \o after)
    <2> TAKE r \in Req, more \in {<<Write>>, <<TimeoutReset, Write>>}
    <2>1. Plain(Cancelled(r, n)) /\ Plain(more)
      BY PlainCalls
    <2>2. Plain(Cancelled(r, n) \o more)
      BY <2>1, PlainConcat
    <2>3. Keeps((Cancelled(r, n) \o more) \o after)
      BY <2>2, PlainPush DEF Keeps
    <2> QED  BY <2>3
  <1> DEFINE Sending  == send_req # None /\ id[send_req] = i
             QueuedAt == {k \in DOMAIN send_queue : id[send_queue[k]] = i}
             Cancel(r, more) == /\ Complete(r, "CANCELLED")
                                /\ replies' = CancelReplies(r, n)
                                /\ stack' = Cancelled(r, n) \o more \o after
  <1>6. CASE /\ Sending /\ Cancel(send_req, <<Write>>)
             /\ UNCHANGED <<send_queue, retry>>
    <2>1. send_req \in Req
      BY <1>6 DEF ListInv, TypeOK, SendTypeOK, ReqOrNone
    <2> QED  BY <1>1, <1>2, <1>3, <1>4, <1>6, <2>1, CompleteKept
  <1>7. CASE /\ \E k \in QueuedAt :
                  /\ Cancel(send_queue[k], <<Write>>)
                  /\ send_queue' = RemoveAt(send_queue, k)
             /\ UNCHANGED retry
    <2>1. PICK k \in DOMAIN send_queue : /\ Cancel(send_queue[k], <<Write>>)
                                         /\ send_queue' = RemoveAt(send_queue, k)
      BY <1>7
    <2>2. /\ send_queue[k] \in Req /\ IsInjective(send_queue')
          /\ Range(send_queue') \subseteq Range(send_queue)
      BY <1>1, <2>1, InDomain, RemoveAtInjection
    <2>3. Keeps(stack')
      BY <1>4, <2>1, <2>2
    <2> QED  BY <1>2, <1>3, <1>7, <2>1, <2>2, <2>3, CompleteKept
  <1>8. CASE /\ req_table[i] # None
             /\ Cancel(req_table[i], <<TimeoutReset, Write>>)
             /\ UNCHANGED <<send_queue, retry>>
    <2>1. req_table[i] \in Req
      BY <1>8 DEF ListInv, TypeOK, TableTypeOK, ReqOrNone
    <2> QED  BY <1>1, <1>2, <1>3, <1>4, <1>8, <2>1, CompleteKept
  <1>9. CASE /\ \E r \in retry : /\ Cancel(r, <<TimeoutReset, Write>>)
                                 /\ retry' = retry \ {r}
             /\ UNCHANGED send_queue
    <2>1. PICK r \in retry : Cancel(r, <<TimeoutReset, Write>>) /\ retry' = retry \ {r}
      BY <1>9
    <2>2. r \in Req
      BY DEF ListInv, TypeOK, SendTypeOK
    <2>3. Keeps(stack')
      BY <1>4, <2>1, <2>2
    <2> QED  BY <1>1, <1>2, <1>3, <1>9, <2>1, <2>2, <2>3, CompleteKept
  <1>10. CASE /\ stack' = after
              /\ UNCHANGED <<status, queue, req_table, send_queue, retry, replies>>
    BY <1>2, <1>3, <1>10, SameListsKept
  <1> QED  BY <1>6, <1>7, <1>8, <1>9, <1>10 DEF CancelThen

\* grilio_channel_cancel_request keeps ListInv.
LEMMA CancelRequestSound ==
    ASSUME ListInv, NEW i \in Ids, NEW n \in BOOLEAN, CancelRequest(i, n)
    PROVE  ListInv'
  <1>1. stack \in Seq(FrameType) /\ Keeps(stack)
    BY AppRunsKeeps, PlainCalls DEF CancelRequest, ListInv, TypeOK, StackTypeOK
  <1> QED  BY <1>1, CancelThenSound DEF CancelRequest

\* The cancellation in grilio_channel_drop_request keeps ListInv.
LEMMA DropRequestSound ==
    ASSUME ListInv, NEW i \in Ids, DropRequest(i)
    PROVE  ListInv'
  <1> DEFINE f == [Frame("drop") EXCEPT !.ids = {i}]
  <1>1. f \in FrameType
    BY DropTyped
  <1>2. f.fn = "drop"
    BY DropTyped
  <1> HIDE DEF f
  <1>3. Plain(<<f>>)
    BY <1>1, <1>2, PlainFrame
  <1>4. <<f>> \o stack \in Seq(FrameType) /\ Keeps(<<f>> \o stack)
    BY <1>1, <1>3, AppRunsKeeps, PushTyped DEF DropRequest, ListInv, TypeOK, StackTypeOK
  <1> QED  BY <1>4, CancelThenSound DEF DropRequest, f

\* The beginning of cancel_all keeps ListInv.
LEMMA CancelAllSound ==
    ASSUME ListInv, NEW n \in BOOLEAN, CancelAll(n) PROVE ListInv'
  <1> DEFINE f == [Frame("cancel_queue") EXCEPT !.notify = n]
             g == [Frame("cancel_retry") EXCEPT !.notify = n]
             h == Frame("cancel_end")
             loops == <<f, g, h>>
  <1>1. TypeOK' /\ IsInjective(send_queue)
    BY CancelAllTyped DEF ListInv, ListIntegrity
  <1>2. Plain(loops)
    <2>1. f \in FrameType /\ g \in FrameType /\ h \in FrameType
      BY FrameTyped DEF Functions
    <2>2. f.fn = "cancel_queue" /\ g.fn = "cancel_retry" /\ h.fn = "cancel_end"
      BY DEF Frame
    <2> HIDE DEF f, g, h
    <2>3. loops \in Seq(FrameType) /\ DOMAIN loops = 1 .. 3
      BY <2>1
    <2>4. loops[1] = f /\ loops[2] = g /\ loops[3] = h
      OBVIOUS
    <2>5. \A k \in 1 .. 3 : k = 1 \/ k = 2 \/ k = 3
      OBVIOUS
    <2> HIDE DEF loops
    <2>6. \A k \in DOMAIN loops : loops[k].fn \notin {"submit", "expire_one", "response"}
      BY <2>2, <2>3, <2>4, <2>5
    <2> QED  BY <2>3, <2>6, PlainFrames
  <1> HIDE DEF loops
  <1>3. UNCHANGED <<id, current_id, deadline, expired, resend, send_queue, retry>>
    BY DEF CancelAll, tmoVars
  <1>4. CASE send_req # None /\ status[send_req] # "CANCELLED"
    <2>1. send_req \in Req
      BY <1>4 DEF ListInv, TypeOK, SendTypeOK, ReqOrNone
    <2>2. /\ Complete(send_req, "CANCELLED")
          /\ stack' = Cancelled(send_req, n) \o loops \o stack
      BY <1>4 DEF CancelAll, loops
    <2>3. Plain(Cancelled(send_req, n) \o loops)
      BY <1>2, PlainCalls, PlainConcat
    <2>4. Keeps(stack')
      BY <2>2, <2>3, AppRunsKeeps DEF CancelAll
    <2> QED  BY <1>1, <1>3, <2>1, <2>2, <2>4, CompleteKept
  <1>5. CASE ~(send_req # None /\ status[send_req] # "CANCELLED")
    <2>1. stack' = loops \o stack /\ UNCHANGED <<status, queue, req_table, replies>>
      BY <1>5 DEF CancelAll, loops
    <2>2. Keeps(stack')
      BY <1>2, <2>1, AppRunsKeeps DEF CancelAll
    <2> QED  BY <1>1, <1>3, <2>1, <2>2, SameListsKept
  <1> QED  BY <1>4, <1>5

\* cancel_all, for the head of the send queue, keeps ListInv.
LEMMA CancelQueuedSound ==
    ASSUME ListInv, CancelQueued PROVE ListInv'
  <1> DEFINE r == Head(send_queue)
  <1>1. TypeOK'
    BY CancelQueuedTyped DEF ListInv
  <1>2. send_queue \in Seq(Req) /\ send_queue # <<>> /\ IsInjective(send_queue)
    BY DEF CancelQueued, ListInv, TypeOK, SendTypeOK, ListIntegrity
  <1>3. /\ r \in Req /\ IsInjective(send_queue')
        /\ Range(send_queue') \subseteq Range(send_queue)
    BY <1>2, HeadTailProperties, TailInjection DEF CancelQueued
  <1>4. Keeps(stack')
    BY KeepsPush, PlainCalls DEF CancelQueued, Running, Top
  <1>5. Complete(r, "CANCELLED") /\ UNCHANGED <<id, current_id, deadline, expired, resend, retry>>
    BY DEF CancelQueued, tmoVars
  <1> QED  BY <1>1, <1>3, <1>4, <1>5, CompleteKept

\* cancel_all, for the next key of the table, keeps ListInv.
LEMMA CancelTableSound ==
    ASSUME ListInv, CancelTable PROVE ListInv'
  <1>1. PICK i \in Top.ids : CancelTable!2!(i)
    BY DEF CancelTable
  <1> DEFINE r == req_table[i]
             f == [Top EXCEPT !.ids = @ \ {i}]
  <1>2. TypeOK' /\ IsInjective(send_queue)
    BY CancelTableTyped DEF ListInv, ListIntegrity
  <1>3. Top \in FrameType /\ Top.fn = "cancel_table"
    BY RestTyped DEF CancelTable, Running, Top, ListInv, TypeOK
  <1>4. i \in Ids /\ r \in ReqOrNone
    BY <1>3 DEF FrameType, ListInv, TypeOK, TableTypeOK
  <1>5. Plain(<<f>>)
    <2>1. f \in FrameType /\ f.fn = "cancel_table"
      BY <1>3 DEF FrameType, Held
    <2> HIDE DEF f
    <2> QED  BY <2>1, PlainFrame
  <1> HIDE DEF f
  <1>6. UNCHANGED <<id, current_id, deadline, expired, resend, send_queue, retry>>
    BY DEF CancelTable, sendVars, tmoVars
  <1>7. CASE r # None
    <2>1. Complete(r, "CANCELLED") /\ stack' = Cancelled(r, Top.notify) \o (<<f>> \o Rest)
      BY <1>1, <1>7 DEF f
    <2>2. Plain(Cancelled(r, Top.notify))
      BY PlainCalls
    <2>3. Keeps((Cancelled(r, Top.notify) \o <<f>>) \o Rest)
      BY <1>5, <2>2, PlainConcat, KeepsPop DEF CancelTable
    <2>4. stack' = (Cancelled(r, Top.notify) \o <<f>>) \o Rest
      <3>1. Rest \in Seq(FrameType)
        BY RestTyped DEF CancelTable, Running, ListInv, TypeOK
      <3> QED  BY <1>5, <2>1, <2>2, <3>1, ConcatAssociative DEF Plain
    <2> QED  BY <1>2, <1>4, <1>6, <1>7, <2>1, <2>3, <2>4, CompleteKept DEF ReqOrNone
  <1>8. CASE r = None
    <2>1. stack' = <<f>> \o Rest /\ UNCHANGED <<status, queue, req_table, replies>>
      BY <1>1, <1>8 DEF f
    <2>2. Keeps(stack')
      BY <1>5, <2>1, KeepsPop DEF CancelTable
    <2> QED  BY <1>2, <1>6, <2>1, <2>2, SameListsKept
  <1> QED  BY <1>7, <1>8

\* cancel_all, for a request of the retry queue, keeps ListInv.
LEMMA CancelRetrySound ==
    ASSUME ListInv, CancelRetry PROVE ListInv'
  <1>1. PICK r \in retry : CancelRetry!2!(r)
    BY DEF CancelRetry
  <1>2. TypeOK' /\ IsInjective(send_queue) /\ r \in Req
    BY CancelRetryTyped DEF ListInv, ListIntegrity, TypeOK, SendTypeOK
  <1>3. Keeps(stack')
    BY <1>1, KeepsPush, PlainCalls DEF CancelRetry, Running, Top
  <1>4. UNCHANGED <<id, current_id, deadline, expired, resend, send_queue>>
    BY DEF CancelRetry, tmoVars
  <1> QED  BY <1>1, <1>2, <1>3, <1>4, CompleteKept

-----------------------------------------------------------------------------
(* Sending.                                                                *)

\* handle_request_sent keeps ListInv.
LEMMA RequestSentSound ==
    ASSUME ListInv, RequestSent PROVE ListInv'
  <1>1. TypeOK' /\ IsInjective(send_queue)
    BY RequestSentTyped DEF ListInv, ListIntegrity
  <1>2. tx.req \in Req /\ status \in [Req -> Statuses]
    BY DEF RequestSent, ListInv, TypeOK, EnvTypeOK, RequestTypeOK
  <1>3. Keeps(stack')
    BY KeepsFresh, PlainCalls DEF RequestSent, Idle
  <1>4. ASSUME NEW r \in Req
        PROVE  \/ status'[r] = status[r]
               \/ /\ status'[r] # "NEW"
                  /\ r \in Range(send_queue') => status'[r] = "CANCELLED"
    <2>1. CASE status[tx.req] = "SENDING" /\ r = tx.req
      <3>1. status'[r] = "SENT" /\ send_queue' = send_queue
        BY <1>2, <2>1 DEF RequestSent
      <3>2. r \notin Range(send_queue)
        BY <2>1 DEF ListInv, QueuedHasNoDeadline
      <3> QED  BY <3>1, <3>2
    <2>2. CASE ~(status[tx.req] = "SENDING" /\ r = tx.req)
      BY <1>2, <2>2 DEF RequestSent
    <2> QED  BY <2>1, <2>2
  <1>5. /\ UNCHANGED <<id, current_id, deadline, send_queue, retry, expired, resend, req_table>>
    BY DEF RequestSent, tabVars, tmoVars
  <1>6. expired' # {} => "expire" \in Executing(stack')
    BY <1>3, <1>5 DEF Keeps, ListInv, FramesSound
  <1> QED  BY <1>1, <1>3, <1>4, <1>5, <1>6, UnlinkSound DEF Keeps

\* send_next_request, which hands its request to the transport, keeps ListInv.
LEMMA SubmitSound ==
    ASSUME ListInv, Submit PROVE ListInv'
  <1> DEFINE r == Top.req
  <1>1. TypeOK' /\ IsInjective(send_queue)
    BY SubmitTyped DEF ListInv, ListIntegrity
  <1>2. PICK outcome \in IF closed THEN {"ERROR"} ELSE SendOutcomes :
          Submit!3!(outcome)
    BY DEF Submit
  <1>3. /\ Rest \in Seq(FrameType) /\ r \in Req
        /\ HeldBy(stack) = {r} \cup HeldBy(Rest) /\ HeldOnce(Rest)
        /\ "response" \notin Executing(Rest)
        /\ "expire" \in Executing(stack) => "expire" \in Executing(Rest)
    BY PopSound DEF Submit
  <1>4. r \notin Range(send_queue) /\ status[r] # "NEW"
    BY <1>3 DEF ListInv, ListIntegrity, NewIsNowhere
  <1>5. /\ HeldBy(stack') \subseteq HeldBy(stack) /\ HeldOnce(stack')
        /\ "response" \notin Executing(stack')
        /\ "expire" \in Executing(stack) => "expire" \in Executing(stack')
    <2>1. stack' = <<Write>> \o Rest \/ stack' = Rest
      BY <1>2
    <2>2. Plain(<<Write>>)
      BY PlainCalls
    <2>3. /\ HeldBy(<<Write>> \o Rest) = HeldBy(Rest) /\ HeldOnce(<<Write>> \o Rest)
          /\ Executing(Rest) \subseteq Executing(<<Write>> \o Rest)
          /\ "response" \notin Executing(<<Write>> \o Rest)
      BY <1>3, <2>2, PlainPush
    <2> QED  BY <1>3, <2>1, <2>3
  <1>6. status' = status \/ status' = [status EXCEPT ![r] = "SENT"]
    BY <1>2
  <1>7. deadline' = deadline \/ deadline' = [deadline EXCEPT ![r] = TRUE]
    BY <1>2
  <1>8. /\ UNCHANGED <<id, current_id, send_queue, retry, expired, resend, req_table>>
    BY DEF Submit, tmoVars
  <1>9. status \in [Req -> Statuses] /\ deadline \in [Req -> BOOLEAN]
    BY DEF ListInv, TypeOK, RequestTypeOK
  <1>10. ASSUME NEW s \in Req
         PROVE  /\ \/ status'[s] = status[s]
                   \/ /\ status'[s] # "NEW"
                      /\ s \in Range(send_queue') => status'[s] = "CANCELLED"
                /\ s = r => status'[s] # "NEW"
    BY <1>4, <1>6, <1>8, <1>9
  <1>11. ASSUME NEW s \in Req, deadline'[s]
         PROVE  deadline[s] \/ (s \notin Range(send_queue') /\ status'[s] # "NEW")
    <2>1. CASE s = r
      BY <1>4, <1>8, <1>10, <2>1
    <2>2. CASE s # r
      BY <1>7, <1>9, <1>11, <2>2
    <2> QED  BY <2>1, <2>2
  <1>12. expired' # {} => "expire" \in Executing(stack')
    BY <1>5, <1>8 DEF ListInv, FramesSound
  <1> QED  BY <1>1, <1>5, <1>8, <1>10, <1>11, <1>12, UnlinkSound

\* dequeue_request, which hands a queued request to its caller, keeps ListInv.
LEMMA DequeueSound ==
    ASSUME ListInv, Dequeue PROVE ListInv'
  <1>1. PICK k \in DequeueIdx : Dequeue!3!(k)!2
    BY DEF Dequeue
  <1> DEFINE r == send_queue[k]
             f == [Frame("submit") EXCEPT !.req = r]
  <1>2. /\ send_queue \in Seq(Req) /\ IsInjective(send_queue) /\ k \in DOMAIN send_queue
        /\ stack \in Seq(FrameType) /\ status \in [Req -> Statuses]
    BY DEF ListInv, TypeOK, SendTypeOK, RequestTypeOK, StackTypeOK, ListIntegrity,
           DequeueIdx, OrdinaryIdx, InternalIdx
  <1>3. r \in Req /\ r \in Range(send_queue)
    BY <1>2, InDomain
  <1>4. IsInjective(send_queue') /\ Range(send_queue') = Range(send_queue) \ {r}
    BY <1>1, <1>2, RemoveAtInjection
  <1>5. f \in FrameType /\ Held(f) /\ f.req = r /\ f.fn = "submit"
    BY <1>3, HeldTyped DEF Frame, Held
  <1>6. /\ r \notin retry \cup expired \cup resend \cup HeldBy(stack)
        /\ ~deadline[r] /\ status[r] # "NEW"
    BY <1>3 DEF ListInv, ListIntegrity, QueuedHasNoDeadline
  <1> HIDE DEF f
  <1>7. /\ HeldBy(stack') = {r} \cup HeldBy(stack) /\ HeldOnce(stack')
        /\ "response" \notin Executing(stack')
        /\ "expire" \in Executing(stack) => "expire" \in Executing(stack')
    <2>1. /\ Rest \in Seq(FrameType)
          /\ HeldOnce(Rest) /\ "response" \notin Executing(Rest)
          /\ HeldBy(Rest) = HeldBy(stack)
          /\ "expire" \in Executing(stack) => "expire" \in Executing(Rest)
      <3>1. Running("schedule_write")
        BY DEF Dequeue
      <3> QED  BY <3>1, PopSound
    <2> DEFINE s == <<f>> \o Rest
    <2>2. /\ s \in Seq(FrameType)
          /\ HeldBy(s) = {r} \cup HeldBy(stack) /\ HeldOnce(s)
          /\ "response" \notin Executing(s)
          /\ "expire" \in Executing(stack) => "expire" \in Executing(s)
      <3>1. s \in Seq(FrameType)
        BY <1>5, <2>1, PushTyped
      <3>2. /\ HeldBy(s) = {r} \cup HeldBy(Rest) /\ HeldOnce(s)
            /\ Executing(s) = {"submit"} \cup Executing(Rest)
        BY <1>5, <1>6, <2>1, PushHeldFrame
      <3> QED  BY <2>1, <3>1, <3>2
    <2>3. \E pre : Plain(pre) /\ (stack' = s \/ stack' = pre \o s)
      <3> DEFINE pre == IF last_pending THEN <<>> ELSE Call("pending")
      <3>1. Plain(pre)
        BY PlainCalls
      <3>2. pre \o <<f>> \o Rest = pre \o s
        <4>1. <<f>> \in Seq(FrameType) /\ pre \in Seq(FrameType)
          BY <1>5, <3>1 DEF Plain
        <4> HIDE DEF pre
        <4> QED  BY <2>1, <4>1, ConcatAssociative
      <3>3. stack' = <<f>> \o Rest \/ stack' = pre \o <<f>> \o Rest
        BY <1>1 DEF f
      <3> QED  BY <3>1, <3>2, <3>3
    <2> HIDE DEF s
    <2>4. CASE stack' = s
      BY <2>2, <2>4
    <2>5. ASSUME NEW pre, Plain(pre), stack' = pre \o s
          PROVE  /\ HeldBy(stack') = {r} \cup HeldBy(stack) /\ HeldOnce(stack')
                 /\ "response" \notin Executing(stack')
                 /\ "expire" \in Executing(stack) => "expire" \in Executing(stack')
      <3>1. /\ HeldBy(pre \o s) = HeldBy(s) /\ HeldOnce(pre \o s)
            /\ Executing(s) \subseteq Executing(pre \o s)
            /\ "response" \notin Executing(pre \o s)
        BY <2>2, <2>5, PlainPush
      <3> QED  BY <2>2, <2>5, <3>1
    <2> QED  BY <2>3, <2>4, <2>5
  <1>8. status' = [status EXCEPT ![r] = "SENDING"]
    BY <1>1
  <1>9. UNCHANGED <<id, current_id, deadline, retry, expired, resend, req_table>>
    BY DEF Dequeue, tmoVars
  <1>10. ListIntegrity'
    BY <1>4, <1>6, <1>7, <1>9 DEF ListInv, ListIntegrity
  <1>11. QueuedHasNoDeadline'
    BY <1>2, <1>4, <1>8, <1>9, RangeOfSeq DEF ListInv, QueuedHasNoDeadline
  <1>12. TableKeys'
    BY <1>9 DEF ListInv, TableKeys
  <1>13. NewIsNowhere'
    BY <1>2, <1>4, <1>6, <1>7, <1>8, <1>9 DEF ListInv, NewIsNowhere
  <1>14. FramesSound'
    BY <1>7, <1>9 DEF ListInv, FramesSound
  <1> QED
    BY <1>10, <1>11, <1>12, <1>13, <1>14, DequeueTyped DEF ListInv

-----------------------------------------------------------------------------
(* Steps that put a request into the send queue.                           *)

\* Linking a request that is on no list to the end of the send queue, without a deadline
\* and under its own ids, keeps ListInv.
LEMMA EnqueueSound ==
    ASSUME ListInv, TypeOK', NEW r \in Req, NEW i \in Ids,
           r \notin Range(send_queue) \cup HeldBy(stack),
           r \notin retry' \cup expired' \cup resend',
           \A j \in Ids : req_table[j] # r,
           send_queue' = Append(send_queue, r),
           status' = [status EXCEPT ![r] = "QUEUED"],
           ~deadline'[r], \A s \in Req \ {r} : deadline'[s] => deadline[s],
           \A s \in Req \ {r} : id'[s] = id[s] /\ current_id'[s] = current_id[s],
           current_id'[r] = i,
           \A j \in Ids : \/ req_table'[j] = req_table[j]
                          \/ req_table'[j] = r /\ j \in {id'[r], current_id'[r]},
           retry' \subseteq retry, expired' = expired, resend' \subseteq resend,
           HeldBy(stack') = HeldBy(stack), HeldOnce(stack'),
           "expire" \in Executing(stack) => "expire" \in Executing(stack'),
           "response" \in Executing(stack') => Len(stack') = 1
    PROVE  ListInv'
  <1>1. send_queue \in Seq(Req) /\ IsInjective(send_queue) /\ status \in [Req -> Statuses]
    BY DEF ListInv, TypeOK, SendTypeOK, RequestTypeOK, ListIntegrity
  <1>2. IsInjective(send_queue') /\ Range(send_queue') = Range(send_queue) \cup {r}
    BY <1>1, AppendInjection
  <1>3. Range(send_queue) \subseteq Req
    BY <1>1, RangeOfSeq
  <1>4. ListIntegrity'
    BY <1>2 DEF ListInv, ListIntegrity
  <1>5. QueuedHasNoDeadline'
    <2> SUFFICES ASSUME NEW s \in Range(send_queue')
                 PROVE  ~deadline'[s] /\ status'[s] \in {"QUEUED", "CANCELLED"}
      BY DEF QueuedHasNoDeadline
    <2>1. CASE s = r
      BY <1>1, <2>1
    <2>2. CASE s \in Range(send_queue) /\ s \in Req \ {r}
      <3>1. ~deadline[s] /\ status[s] \in {"QUEUED", "CANCELLED"}
        BY <2>2 DEF ListInv, QueuedHasNoDeadline
      <3>2. ~deadline'[s]
        BY <2>2, <3>1
      <3>3. status'[s] = status[s]
        BY <1>1, <2>2
      <3> QED  BY <3>1, <3>2, <3>3
    <2> QED  BY <1>2, <1>3, <2>1, <2>2
  <1>6. TableKeys'
    <2> SUFFICES ASSUME NEW j \in Ids, req_table'[j] # None
                 PROVE  /\ j = id'[req_table'[j]] \/ j = current_id'[req_table'[j]]
                        /\ req_table'[j] \notin retry' \cup resend'
      BY DEF TableKeys
    <2>1. CASE req_table'[j] = r
      BY <2>1
    <2>2. CASE req_table'[j] = req_table[j] /\ req_table[j] # r
      <3>1. /\ j = id[req_table[j]] \/ j = current_id[req_table[j]]
            /\ req_table[j] \notin retry \cup resend
        BY <2>2 DEF ListInv, TableKeys
      <3>2. req_table[j] \in Req \ {r}
        BY <2>2 DEF ListInv, TypeOK, TableTypeOK, ReqOrNone
      <3> QED  BY <2>2, <3>1, <3>2
    <2> QED  BY <2>1, <2>2
  <1>7. NewIsNowhere'
    <2> SUFFICES ASSUME NEW s \in Req, (status[s] = "NEW")'
                 PROVE  (/\ s \notin Range(send_queue) \cup retry \cup expired \cup resend
                                       \cup HeldBy(stack)
                         /\ ~deadline[s]
                         /\ \A j \in Ids : req_table[j] # s)'
      BY DEF NewIsNowhere
    <2>1. s # r /\ status[s] = "NEW"
      BY <1>1
    <2>2. /\ s \notin Range(send_queue) \cup retry \cup expired \cup resend \cup HeldBy(stack)
          /\ ~deadline[s]
          /\ \A j \in Ids : req_table[j] # s
      BY <2>1 DEF ListInv, NewIsNowhere
    <2>3. ~deadline'[s]
      BY <2>1, <2>2
    <2>4. \A j \in Ids : req_table'[j] # s
      BY <2>1, <2>2
    <2> QED  BY <1>2, <2>1, <2>2, <2>3, <2>4
  <1>8. FramesSound'
    BY DEF ListInv, FramesSound
  <1> QED  BY <1>4, <1>5, <1>6, <1>7, <1>8 DEF ListInv

\* A new request is nowhere, so its id, table entry and place in the queue are fresh.
LEMMA NewFree ==
    ASSUME ListInv, NEW r \in Req, status[r] = "NEW"
    PROVE  /\ r \notin Range(send_queue) \cup HeldBy(stack)
           /\ r \notin retry \cup expired \cup resend
           /\ ~deadline[r]
           /\ \A j \in Ids : req_table[j] # r
  BY DEF ListInv, NewIsNowhere

\* grilio_channel_send_request_full keeps ListInv.
LEMMA SendThroughSound ==
    ASSUME ListInv, NEW r \in Req, NEW p \in Profiles, NEW q \in Queue \cup {None},
           SendThrough(r, p, q)
    PROVE  ListInv'
  <1>1. PICK i \in Ids : /\ id' = [id EXCEPT ![r] = i]
                         /\ current_id' = [current_id EXCEPT ![r] = i]
                         /\ req_table' = [req_table EXCEPT ![i] = r]
    BY DEF SendThrough
  <1>2. /\ AppRuns /\ status[r] = "NEW"
        /\ send_queue' = Append(send_queue, r)
        /\ status' = [status EXCEPT ![r] = "QUEUED"]
        /\ stack' = <<Write>> \o stack
        /\ UNCHANGED <<deadline, retry, expired, resend>>
    BY DEF SendThrough, tmoVars
  <1>3. TypeOK'
    BY SendThroughTyped DEF ListInv
  <1>4. Keeps(stack')
    BY <1>2, AppRunsKeeps, PlainCalls
  <1>5. /\ id \in [Req -> 0 .. IdMax] /\ current_id \in [Req -> 0 .. IdMax]
        /\ req_table \in [Ids -> ReqOrNone]
    BY DEF ListInv, TypeOK, RequestTypeOK, TableTypeOK
  <1>6. /\ id'[r] = i /\ current_id'[r] = i
        /\ \A s \in Req \ {r} : id'[s] = id[s] /\ current_id'[s] = current_id[s]
    BY <1>1, <1>5
  <1>7. \A j \in Ids : \/ req_table'[j] = req_table[j]
                       \/ req_table'[j] = r /\ j \in {id'[r], current_id'[r]}
    BY <1>1, <1>5, <1>6
  <1>8. \A s \in Req \ {r} : deadline'[s] => deadline[s]
    BY <1>2
  <1> QED
    BY <1>2, <1>3, <1>4, <1>6, <1>7, <1>8, NewFree, EnqueueSound DEF Keeps

\* So does a request without a queue.
LEMMA SendRequestSound ==
    ASSUME ListInv, NEW r \in Req, NEW p \in Profiles, SendRequest(r, p)
    PROVE  ListInv'
  BY SendThroughSound DEF SendRequest

\* queue_ack keeps ListInv.
LEMMA QueueAckSound ==
    ASSUME ListInv, NEW a \in Req, QueueAck(a), stack = <<>>, TypeOK',
           UNCHANGED <<expired, resend>>,
           HeldBy(stack') = {}, HeldOnce(stack'),
           "response" \in Executing(stack') => Len(stack') = 1
    PROVE  ListInv'
  <1>1. PICK i \in Ids : /\ id' = [id EXCEPT ![a] = i]
                         /\ current_id' = [current_id EXCEPT ![a] = i]
                         /\ req_table' = [req_table EXCEPT ![i] = a]
    BY DEF QueueAck
  <1>2. /\ status[a] = "NEW"
        /\ send_queue' = Append(send_queue, a)
        /\ status' = [status EXCEPT ![a] = "QUEUED"]
        /\ UNCHANGED <<deadline, retry>>
    BY DEF QueueAck
  <1>3. HeldBy(stack) = {} /\ Executing(stack) = {}
    BY DEF HeldBy, Executing
  <1>4. /\ id \in [Req -> 0 .. IdMax] /\ current_id \in [Req -> 0 .. IdMax]
        /\ req_table \in [Ids -> ReqOrNone]
    BY DEF ListInv, TypeOK, RequestTypeOK, TableTypeOK
  <1>5. /\ id'[a] = i /\ current_id'[a] = i
        /\ \A s \in Req \ {a} : id'[s] = id[s] /\ current_id'[s] = current_id[s]
    BY <1>1, <1>4
  <1>6. \A j \in Ids : \/ req_table'[j] = req_table[j]
                       \/ req_table'[j] = a /\ j \in {id'[a], current_id'[a]}
    BY <1>1, <1>4, <1>5
  <1>7. \A s \in Req \ {a} : deadline'[s] => deadline[s]
    BY <1>2
  <1> QED
    BY <1>2, <1>3, <1>5, <1>6, <1>7, NewFree, EnqueueSound

\* handle_indication of an event to be acknowledged keeps ListInv.
LEMMA IndicationSound ==
    ASSUME ListInv, NEW a \in Req, Indication(a) PROVE ListInv'
  <1>1. TypeOK'
    BY IndicationTyped DEF ListInv
  <1>2. stack = <<>> /\ QueueAck(a) /\ UNCHANGED <<expired, resend>>
    BY DEF Indication, Idle, tmoVars
  <1>3. Plain(stack')
    BY PlainCalls, PlainConcat DEF Indication
  <1>4. Keeps(stack') /\ HeldBy(stack') = {}
    BY <1>2, <1>3, KeepsFresh DEF Plain
  <1> QED  BY <1>1, <1>2, <1>4, QueueAckSound DEF Keeps

\* The arrival of a reply, perhaps with an acknowledgement queued, keeps ListInv.
LEMMA ResponseSound ==
    ASSUME ListInv, NEW i \in Ids, NEW a \in ReqOrNone, Response(i, a)
    PROVE  ListInv'
  <1> DEFINE f == [Frame("response") EXCEPT !.ids = {i}]
  <1>1. TypeOK'
    BY ResponseTyped DEF ListInv
  <1>2. stack = <<>> /\ stack' = <<f>> /\ UNCHANGED <<expired, resend>>
    BY DEF Response, Idle, tmoVars
  <1>3. f.fn = "response" /\ ~Held(f)
    BY DEF Frame, Held
  <1> HIDE DEF f
  <1>4. DOMAIN <<f>> = {1} /\ <<f>>[1] = f /\ Len(<<f>>) = 1
    OBVIOUS
  <1>5. HeldBy(stack') = {} /\ HeldOnce(stack') /\ Len(stack') = 1
    BY <1>2, <1>3, <1>4 DEF HeldBy, HeldOnce
  <1>6. CASE a # None /\ QueueAck(a)
    BY <1>1, <1>2, <1>5, <1>6, QueueAckSound DEF ReqOrNone
  <1>7. CASE UNCHANGED <<reqVars, sendVars, tabVars>>
    <2>1. /\ UNCHANGED <<status, id, current_id, deadline, send_queue, retry, req_table>>
      BY <1>7 DEF reqVars, sendVars, tabVars
    <2>2. expired = {}
      BY <1>2 DEF ListInv, FramesSound, Executing
    <2>3. IsInjective(send_queue)
      BY DEF ListInv, ListIntegrity
    <2> QED  BY <1>1, <1>2, <1>5, <2>1, <2>2, <2>3, UnlinkSound
  <1> QED  BY <1>6, <1>7 DEF Response

\* What grilio_channel_requeue_request needs: a request that is on no list.
LEMMA RequeueSound ==
    ASSUME ListInv, TypeOK', NEW r \in retry \cup resend, Requeue(r),
           r \notin retry' \cup resend',
           retry' \subseteq retry, expired' = expired, resend' \subseteq resend, id' = id,
           Keeps(stack')
    PROVE  ListInv'
  <1>1. PICK i \in Ids : /\ current_id' = [current_id EXCEPT ![r] = i]
                         /\ req_table' = [req_table EXCEPT ![id[r]] = r, ![i] = r]
    BY DEF Requeue
  <1>2. /\ r \in Req /\ current_id \in [Req -> 0 .. IdMax]
        /\ req_table \in [Ids -> ReqOrNone] /\ deadline \in [Req -> BOOLEAN]
    BY DEF ListInv, TypeOK, SendTypeOK, RequestTypeOK, TableTypeOK
  <1>3. /\ r \notin Range(send_queue) \cup HeldBy(stack) /\ r \notin expired'
    BY DEF ListInv, ListIntegrity
  <1>4. \A j \in Ids : req_table[j] # r
    BY <1>2 DEF ListInv, TableKeys, NoneAssumption
  <1>5. /\ current_id'[r] = i
        /\ \A s \in Req \ {r} : id'[s] = id[s] /\ current_id'[s] = current_id[s]
    BY <1>1, <1>2
  <1>6. \A j \in Ids : \/ req_table'[j] = req_table[j]
                       \/ req_table'[j] = r /\ j \in {id'[r], current_id'[r]}
    BY <1>1, <1>2, <1>5
  <1>7. ~deadline'[r] /\ \A s \in Req \ {r} : deadline'[s] => deadline[s]
    BY <1>2 DEF Requeue
  <1>8. send_queue' = Append(send_queue, r) /\ status' = [status EXCEPT ![r] = "QUEUED"]
    BY DEF Requeue
  <1> QED
    BY <1>2, <1>3, <1>4, <1>5, <1>6, <1>7, <1>8, EnqueueSound DEF Keeps

\* grilio_channel_retry_request keeps ListInv.
LEMMA RetryRequestSound ==
    ASSUME ListInv, NEW i \in Ids, RetryRequest(i) PROVE ListInv'
  <1>1. PICK r \in retry : retry' = retry \ {r} /\ Requeue(r)
    BY DEF RetryRequest
  <1>2. TypeOK'
    BY RetryRequestTyped DEF ListInv
  <1>3. r \notin resend
    BY DEF ListInv, ListIntegrity
  <1>4. Keeps(stack')
    BY AppRunsKeeps, PlainCalls DEF RetryRequest
  <1>5. UNCHANGED <<id, expired, resend>>
    BY DEF RetryRequest, tmoVars
  <1> QED  BY <1>1, <1>2, <1>3, <1>4, <1>5, RequeueSound

\* Sending one due retry again keeps ListInv.
LEMMA RequeueNextSound ==
    ASSUME ListInv, RequeueNext PROVE ListInv'
  <1>1. PICK r \in resend : resend' = resend \ {r} /\ Requeue(r)
    BY DEF RequeueNext
  <1>2. TypeOK'
    BY RequeueNextTyped DEF ListInv
  <1>3. r \notin retry
    BY DEF ListInv, ListIntegrity
  <1>4. Keeps(stack')
    BY KeepsPush, PlainCalls DEF RequeueNext, Running, Top
  <1>5. UNCHANGED <<id, expired, retry>>
    BY DEF RequeueNext
  <1> QED  BY <1>1, <1>2, <1>3, <1>4, <1>5, RequeueSound

-----------------------------------------------------------------------------
(* Replies and timeouts.                                                   *)

\* What grilio_channel_schedule_retry needs: a request that is on no list.
LEMMA ScheduleRetrySound ==
    ASSUME ListInv, TypeOK', NEW r \in Req, ScheduleRetry(r),
           r \notin Range(send_queue) \cup expired \cup resend \cup HeldBy(stack'),
           UNCHANGED <<id, current_id, send_queue, expired, resend>>,
           HeldBy(stack') \subseteq HeldBy(stack), HeldOnce(stack'),
           "response" \notin Executing(stack'),
           "expire" \in Executing(stack) => "expire" \in Executing(stack')
    PROVE  ListInv'
  <1>1. /\ retry' = retry \cup {r} /\ status' = [status EXCEPT ![r] = "RETRY"]
        /\ deadline' = [deadline EXCEPT ![r] = TRUE] /\ req_table' = TableWithout(r)
    BY DEF ScheduleRetry
  <1>2. /\ status \in [Req -> Statuses] /\ deadline \in [Req -> BOOLEAN]
        /\ req_table \in [Ids -> ReqOrNone] /\ send_queue \in Seq(Req)
    BY DEF ListInv, TypeOK, RequestTypeOK, TableTypeOK, SendTypeOK
  <1>3. ASSUME NEW i \in Ids
        PROVE  /\ req_table'[i] \in {req_table[i], None}
               /\ req_table'[i] # r
    <2>1. req_table'[i] = IF i = id[r] \/ i = current_id[r] THEN None ELSE req_table[i]
      BY <1>1 DEF TableWithout
    <2>2. req_table[i] = r => i = id[r] \/ i = current_id[r]
      BY DEF ListInv, TableKeys, NoneAssumption
    <2> QED  BY <2>1, <2>2 DEF NoneAssumption
  <1>4. ListIntegrity'
    BY <1>1 DEF ListInv, ListIntegrity
  <1>5. QueuedHasNoDeadline'
    <2> SUFFICES ASSUME NEW s \in Range(send_queue')
                 PROVE  ~deadline'[s] /\ status'[s] \in {"QUEUED", "CANCELLED"}
      BY DEF QueuedHasNoDeadline
    <2>1. s \in Req \ {r} /\ s \in Range(send_queue)
      BY <1>2, RangeOfSeq
    <2>2. ~deadline[s] /\ status[s] \in {"QUEUED", "CANCELLED"}
      BY <2>1 DEF ListInv, QueuedHasNoDeadline
    <2>3. ~deadline'[s]
      BY <1>1, <1>2, <2>1, <2>2
    <2>4. status'[s] = status[s]
      BY <1>1, <1>2, <2>1
    <2> QED  BY <2>2, <2>3, <2>4
  <1>6. TableKeys'
    BY <1>1, <1>3 DEF ListInv, TableKeys
  <1>7. NewIsNowhere'
    <2> SUFFICES ASSUME NEW s \in Req, (status[s] = "NEW")'
                 PROVE  (/\ s \notin Range(send_queue) \cup retry \cup expired \cup resend
                                       \cup HeldBy(stack)
                         /\ ~deadline[s]
                         /\ \A j \in Ids : req_table[j] # s)'
      BY DEF NewIsNowhere
    <2>1. s # r /\ status[s] = "NEW"
      BY <1>1, <1>2
    <2>2. /\ s \notin Range(send_queue) \cup retry \cup expired \cup resend \cup HeldBy(stack)
          /\ ~deadline[s]
          /\ \A j \in Ids : req_table[j] # s
      BY <2>1 DEF ListInv, NewIsNowhere
    <2>3. ~deadline'[s]
      BY <1>1, <1>2, <2>1, <2>2
    <2>4. \A j \in Ids : req_table'[j] # s
      BY <1>3, <2>2 DEF NoneAssumption
    <2> QED  BY <1>1, <2>1, <2>2, <2>3, <2>4
  <1>8. FramesSound'
    BY DEF ListInv, FramesSound
  <1> QED  BY <1>4, <1>5, <1>6, <1>7, <1>8 DEF ListInv

\* handle_response, whether it completes a request or has it retried, keeps ListInv.
LEMMA HandleResponseSound ==
    ASSUME ListInv, HandleResponse PROVE ListInv'
  <1>1. PICK i \in Top.ids : HandleResponse!2!(i)
    BY DEF HandleResponse
  <1> DEFINE r == req_table[i]
  <1>2. TypeOK' /\ IsInjective(send_queue)
    BY HandleResponseTyped DEF ListInv, ListIntegrity
  <1>3. /\ Rest \in Seq(FrameType) /\ HeldBy(Rest) = HeldBy(stack)
    BY PopSound DEF HandleResponse
  <1>4. HeldBy(Rest) = {} /\ Executing(Rest) = {} /\ expired = {}
    <2>1. stack \in Seq(FrameType) /\ stack # <<>> /\ Head(stack).fn = "response"
      BY DEF HandleResponse, Running, ListInv, TypeOK, StackTypeOK
    <2>2. Executing(stack) = {"response"} \cup Executing(Rest)
      BY <2>1, PopFrame DEF Rest
    <2>3. Len(stack) = 1
      BY <2>2 DEF ListInv, FramesSound
    <2>4. Len(Rest) = 0
      BY <2>1, <2>3, HeadTailProperties DEF Rest
    <2>5. DOMAIN Rest = {}
      BY <1>3, <2>4, LenProperties
    <2>6. HeldBy(Rest) = {} /\ Executing(Rest) = {}
      BY <2>5 DEF HeldBy, Executing
    <2> QED  BY <2>2, <2>6 DEF ListInv, FramesSound
  <1>5. /\ UNCHANGED <<id, current_id, send_queue, expired, resend>>
    BY DEF HandleResponse, tmoVars
  <1>6. Keeps(stack')
    <2>1. Plain(Notify(r) \o <<Write, PendingUpdate>>) /\ Plain(<<Write, PendingUpdate>>)
      BY PlainCalls, PlainConcat
    <2>2. /\ Keeps(<<Write, PendingUpdate>> \o Rest)
          /\ Keeps((Notify(r) \o <<Write, PendingUpdate>>) \o Rest)
      BY <2>1, KeepsPop DEF HandleResponse
    <2>3. \/ stack' = <<Write, PendingUpdate>> \o Rest
          \/ stack' = (Notify(r) \o <<Write, PendingUpdate>>) \o Rest
      BY <1>1
    <2> QED  BY <2>2, <2>3
  <1>7. Answered(r) => /\ r \in Req
                       /\ r \notin Range(send_queue) \cup retry \cup expired \cup resend
    <2> SUFFICES ASSUME Answered(r)
                 PROVE  r \in Req /\ r \notin Range(send_queue) \cup retry \cup expired \cup resend
      OBVIOUS
    <2>1. i \in Ids
      BY RestTyped DEF HandleResponse, Running, ListInv, TypeOK, FrameType
    <2>2. r # None /\ status[r] = "SENT"
      BY DEF Answered
    <2>3. r \in Req
      BY <2>1, <2>2 DEF ListInv, TypeOK, TableTypeOK, ReqOrNone
    <2>4. r \notin Range(send_queue)
      BY <2>2 DEF ListInv, QueuedHasNoDeadline
    <2>5. r \notin retry \cup resend
      BY <2>1, <2>2 DEF ListInv, TableKeys
    <2> QED  BY <1>4, <2>3, <2>4, <2>5
  <1>8. CASE ~Answered(r)
    <2>1. UNCHANGED <<status, deadline, req_table, retry>>
      BY <1>1, <1>8
    <2> QED  BY <1>2, <1>5, <1>6, <2>1, SameListsKept
  <1>9. CASE Answered(r) /\ ScheduleRetry(r)
    BY <1>2, <1>3, <1>4, <1>5, <1>6, <1>7, <1>9, ScheduleRetrySound DEF Keeps
  <1>10. CASE Answered(r) /\ Complete(r, "DONE") /\ UNCHANGED <<deadline, retry>>
    BY <1>2, <1>5, <1>6, <1>7, <1>10, CompleteSound DEF Keeps
  <1> QED  BY <1>1, <1>8, <1>9, <1>10

\* Completing an expired request or having it retried keeps ListInv.
LEMMA ExpireOneSound ==
    ASSUME ListInv, ExpireOne PROVE ListInv'
  <1> DEFINE r == Top.req
  <1>1. TypeOK' /\ IsInjective(send_queue)
    BY ExpireOneTyped DEF ListInv, ListIntegrity
  <1>2. /\ Rest \in Seq(FrameType) /\ r \in Req
        /\ HeldBy(stack) = {r} \cup HeldBy(Rest) /\ r \notin HeldBy(Rest) /\ HeldOnce(Rest)
        /\ "response" \notin Executing(Rest)
        /\ "expire" \in Executing(stack) => "expire" \in Executing(Rest)
    <2>1. Running("expire_one")
      BY DEF ExpireOne
    <2> QED  BY <2>1, PopSound
  <1>3. r \notin Range(send_queue) \cup retry \cup expired \cup resend
    BY <1>2 DEF ListInv, ListIntegrity
  <1>4. UNCHANGED <<id, current_id, send_queue, expired, resend>>
    BY DEF ExpireOne
  <1>5. CASE CanRetry(r)
    <2>1. ScheduleRetry(r) /\ stack' = Rest
      BY <1>5 DEF ExpireOne
    <2> QED  BY <1>1, <1>2, <1>3, <1>4, <2>1, ScheduleRetrySound
  <1>6. CASE ~CanRetry(r)
    <2>1. /\ Complete(r, "DONE") /\ stack' = Notify(r) \o Rest
          /\ UNCHANGED <<deadline, retry>>
      BY <1>6 DEF ExpireOne
    <2>2. Plain(Notify(r))
      BY PlainCalls
    <2>3. /\ HeldBy(stack') = HeldBy(Rest) /\ HeldOnce(stack')
          /\ Executing(Rest) \subseteq Executing(stack')
          /\ "response" \notin Executing(stack')
      BY <1>2, <2>1, <2>2, PlainPush
    <2>4. /\ HeldBy(stack') \subseteq HeldBy(stack)
          /\ "expire" \in Executing(stack) => "expire" \in Executing(stack')
      BY <1>2, <2>3
    <2> QED  BY <1>1, <1>2, <1>3, <1>4, <2>1, <2>3, <2>4, CompleteSound
  <1> QED  BY <1>5, <1>6

\* grilio_channel_timeout, when it collects the expired requests, keeps ListInv.
LEMMA TimeoutSound ==
    ASSUME ListInv, NEW due \in SUBSET Timeable, NEW again \in SUBSET retry,
           Timeout(due, again)
    PROVE  ListInv'
  <1>1. /\ stack = <<>> /\ expired' = due
        /\ deadline' = [r \in Req |-> deadline[r] /\ r \notin due]
        /\ stack' = <<Frame("expire"), [Frame("retry_due") EXCEPT !.reqs = again],
                      TimeoutReset, Write, PendingUpdate>>
        /\ UNCHANGED <<status, id, current_id, send_queue, retry, resend, req_table>>
    BY DEF Timeout, Idle
  <1>2. due \subseteq Req /\ \A r \in due : deadline[r] /\ \E i \in Ids : req_table[i] = r
    BY DEF Timeable
  <1>3. \A r \in due : /\ r \notin Range(send_queue) \cup retry \cup resend
                       /\ status[r] # "NEW"
    <2> TAKE r \in due
    <2>1. r \notin Range(send_queue)
      BY <1>2 DEF ListInv, QueuedHasNoDeadline
    <2>2. r \notin retry \cup resend
      BY <1>2 DEF ListInv, TableKeys, NoneAssumption
    <2>3. status[r] # "NEW"
      BY <1>2 DEF ListInv, NewIsNowhere
    <2> QED  BY <2>1, <2>2, <2>3
  <1>4. HeldBy(stack') = {} /\ "expire" \in Executing(stack') /\ "response" \notin Executing(stack')
    <2> DEFINE e == Frame("expire")
               d == [Frame("retry_due") EXCEPT !.reqs = again]
    <2>1. e.fn = "expire" /\ d.fn = "retry_due" /\ TimeoutReset.fn = "reset_timeout"
          /\ Write.fn = "schedule_write" /\ PendingUpdate.fn = "update_pending"
      BY DEF Frame, TimeoutReset, Write, PendingUpdate
    <2> HIDE DEF e, d
    <2>2. stack' = <<e, d, TimeoutReset, Write, PendingUpdate>>
      BY <1>1 DEF e, d
    <2>3. /\ DOMAIN stack' = 1 .. 5 /\ stack'[1] = e /\ stack'[2] = d
          /\ stack'[3] = TimeoutReset /\ stack'[4] = Write /\ stack'[5] = PendingUpdate
      BY <2>2
    <2>4. \A k \in 1 .. 5 : k = 1 \/ k = 2 \/ k = 3 \/ k = 4 \/ k = 5
      OBVIOUS
    <2>5. \A k \in DOMAIN stack' : ~Held(stack'[k]) /\ stack'[k].fn # "response"
      BY <2>1, <2>3, <2>4 DEF Held
    <2>6. 1 \in DOMAIN stack' /\ stack'[1].fn = "expire"
      BY <2>1, <2>3
    <2> QED  BY <2>5, <2>6 DEF HeldBy, Executing
  <1>5. HeldOnce(stack')
    <2>1. ASSUME NEW k \in DOMAIN stack' PROVE ~Held(stack'[k])
      <3>1. Held(stack'[k]) => stack'[k].req \in HeldBy(stack')
        BY DEF HeldBy
      <3> QED  BY <1>4, <3>1
    <2> QED  BY <2>1 DEF HeldOnce
  <1>6. send_queue \in Seq(Req) /\ Range(send_queue) \subseteq Req
    BY RangeOfSeq DEF ListInv, TypeOK, SendTypeOK
  <1>7. \A r \in Req : deadline'[r] => deadline[r]
    BY <1>1
  <1>8. ListIntegrity'
    BY <1>1, <1>3, <1>4 DEF ListInv, ListIntegrity
  <1>9. QueuedHasNoDeadline'
    BY <1>1, <1>6, <1>7 DEF ListInv, QueuedHasNoDeadline
  <1>10. TableKeys'
    BY <1>1 DEF ListInv, TableKeys
  <1>11. NewIsNowhere'
    BY <1>1, <1>3, <1>4, <1>7 DEF ListInv, NewIsNowhere
  <1>12. FramesSound'
    BY <1>4, <1>5 DEF FramesSound
  <1> QED
    BY <1>8, <1>9, <1>10, <1>11, <1>12, TimeoutTyped DEF ListInv

\* Taking one request off the list of expired ones keeps ListInv.
LEMMA ExpirePendingSound ==
    ASSUME ListInv, ExpirePending PROVE ListInv'
  <1>1. PICK r \in expired : ExpirePending!2!(r)
    BY DEF ExpirePending
  <1>2. PICK i \in Ids : ExpirePending!2!(r)!2!(i)
    BY <1>1
  <1> DEFINE f == [Frame("expire_one") EXCEPT !.req = r]
  <1>3. r \in Req /\ stack \in Seq(FrameType) /\ HeldOnce(stack)
    BY DEF ListInv, TypeOK, SendTypeOK, StackTypeOK, FramesSound
  <1>4. f \in FrameType /\ Held(f) /\ f.req = r
    BY <1>3, HeldTyped DEF Frame, Held
  <1>5. f.fn = "expire_one"
    BY DEF Frame
  <1> HIDE DEF f
  <1>6. /\ r \notin Range(send_queue) \cup retry \cup resend \cup HeldBy(stack)
        /\ status[r] # "NEW"
    BY <1>3 DEF ListInv, ListIntegrity, NewIsNowhere
  <1>7. "expire" \in Executing(stack) /\ "response" \notin Executing(stack)
    <2>1. "expire" \in Executing(stack)
      BY DEF ListInv, FramesSound
    <2>2. Top.fn = "expire"
      BY DEF ExpirePending, Running, Top
    <2> QED  BY <2>1, <2>2, NoResponse
  <1>8. /\ HeldBy(stack') = {r} \cup HeldBy(stack) /\ HeldOnce(stack')
        /\ "response" \notin Executing(stack') /\ "expire" \in Executing(stack')
    <2> DEFINE s == <<f>> \o stack
    <2>1. /\ s \in Seq(FrameType) /\ HeldBy(s) = {r} \cup HeldBy(stack) /\ HeldOnce(s)
          /\ "response" \notin Executing(s) /\ "expire" \in Executing(s)
      <3>1. s \in Seq(FrameType)
        BY <1>3, <1>4, PushTyped
      <3>2. /\ HeldBy(s) = {r} \cup HeldBy(stack) /\ HeldOnce(s)
            /\ Executing(s) = {"expire_one"} \cup Executing(stack)
        BY <1>3, <1>4, <1>5, <1>6, PushHeldFrame
      <3> QED  BY <1>7, <3>1, <3>2
    <2>2. PICK pre : Plain(pre) /\ stack' = pre \o <<f>> \o stack
      <3> DEFINE changed == pending[i] # None /\ last_pending # HasPending'
                 p == IF changed THEN Call("pending") ELSE <<>>
      <3>1. Plain(p)
        BY PlainCalls
      <3>2. stack' = p \o <<f>> \o stack
        BY <1>2 DEF f
      <3> QED  BY <3>1, <3>2
    <2>3. stack' = pre \o s
      <3>1. <<f>> \in Seq(FrameType) /\ pre \in Seq(FrameType)
        BY <1>4, <2>2 DEF Plain
      <3> QED  BY <1>3, <2>2, <3>1, ConcatAssociative
    <2> HIDE DEF s
    <2>4. /\ HeldBy(pre \o s) = HeldBy(s) /\ HeldOnce(pre \o s)
          /\ Executing(s) \subseteq Executing(pre \o s)
          /\ "response" \notin Executing(pre \o s)
      BY <2>1, <2>2, PlainPush
    <2> QED  BY <2>1, <2>3, <2>4
  <1>9. /\ expired' = expired \ {r}
        /\ UNCHANGED <<status, id, current_id, deadline, send_queue, retry, resend, req_table>>
    BY <1>1 DEF ExpirePending, reqVars, sendVars
  <1>10. ListIntegrity'
    BY <1>6, <1>8, <1>9 DEF ListInv, ListIntegrity
  <1>11. QueuedHasNoDeadline'
    BY <1>9 DEF ListInv, QueuedHasNoDeadline
  <1>12. TableKeys'
    BY <1>9 DEF ListInv, TableKeys
  <1>13. NewIsNowhere'
    BY <1>6, <1>8, <1>9 DEF ListInv, NewIsNowhere
  <1>14. FramesSound'
    BY <1>8 DEF FramesSound
  <1> QED
    BY <1>10, <1>11, <1>12, <1>13, <1>14, ExpirePendingTyped DEF ListInv

\* Splitting the due part off the retry queue keeps ListInv.
LEMMA TakeRetriesSound ==
    ASSUME ListInv, TakeRetries PROVE ListInv'
  <1> DEFINE f == Frame("requeue")
  <1>1. f \in FrameType /\ f.fn = "requeue"
    BY FrameTyped DEF Functions, Frame
  <1> HIDE DEF f
  <1>2. Keeps(stack')
    <2>1. Plain(<<f>>)
      BY <1>1, PlainFrame
    <2> QED  BY <2>1, KeepsPop DEF TakeRetries, f
  <1>3. /\ retry' \subseteq retry /\ resend' \subseteq retry /\ retry' \cap resend' = {}
        /\ UNCHANGED <<status, id, current_id, deadline, send_queue, expired, req_table>>
    BY DEF TakeRetries, reqVars, tabVars
  <1>4. ListIntegrity'
    BY <1>2, <1>3 DEF ListInv, ListIntegrity, Keeps
  <1>5. QueuedHasNoDeadline'
    BY <1>3 DEF ListInv, QueuedHasNoDeadline
  <1>6. TableKeys'
    BY <1>3 DEF ListInv, TableKeys
  <1>7. NewIsNowhere'
    BY <1>2, <1>3 DEF ListInv, NewIsNowhere, Keeps
  <1>8. FramesSound'
    BY <1>2, <1>3 DEF ListInv, FramesSound, Keeps
  <1> QED
    BY <1>4, <1>5, <1>6, <1>7, <1>8, TakeRetriesTyped DEF ListInv

-----------------------------------------------------------------------------
\* A new channel has nothing on its lists, so ListInv holds.
LEMMA InitSound == Init => ListInv
  <1> SUFFICES ASSUME Init PROVE ListInv
    OBVIOUS
  <1>1. TypeOK
    BY InitTyped
  <1>2. /\ Range(send_queue) = {} /\ HeldBy(stack) = {} /\ Executing(stack) = {}
        /\ IsInjective(send_queue) /\ HeldOnce(stack)
    BY DEF Init, Range, HeldBy, Executing, IsInjective, HeldOnce
  <1>3. retry = {} /\ expired = {} /\ resend = {} /\ \A i \in Ids : req_table[i] = None
    BY DEF Init
  <1>4. \A r \in Req : ~deadline[r]
    BY DEF Init
  <1> QED
    BY <1>1, <1>2, <1>3, <1>4
    DEF ListInv, ListIntegrity, QueuedHasNoDeadline, TableKeys, NewIsNowhere, FramesSound

\* Every API call keeps ListInv.
LEMMA AppCallSound ==
    ASSUME ListInv, AppCall PROVE ListInv'
  BY SendRequestSound, CancelRequestSound, CancelAllSound, RetryRequestSound,
     DropRequestSound, SerializeSound, DeserializeSound, AppReturnsSound
  DEF AppCall, KnownIds

\* Every event of the main loop keeps ListInv.
LEMMA EventSound ==
    ASSUME ListInv, Event PROVE ListInv'
  BY ConnectedSound, DisconnectedSound, RequestSentSound, ResponseSound,
     IndicationSound, TimeoutSound, PendingTimeoutSound
  DEF Event

\* Every step of a running function keeps ListInv.
LEMMA StepSound ==
    ASSUME ListInv, Step PROVE ListInv'
  BY WriteStopSound, DequeueSound, SubmitSound, UpdatePendingSound, ResetTimeoutSound,
     HandleResponseSound, ExpirePendingSound, ExpireOneSound, ExpireEndSound,
     TakeRetriesSound, RequeueNextSound, RequeueEndSound, DropPendingSound,
     CancelQueuedSound, CancelTableStartSound, CancelTableSound, CancelRetrySound,
     CancelLoopEndSound, CancelAllEndSound
  DEF Step

\* A step that changes nothing keeps ListInv.
LEMMA StutterSound ==
    ASSUME ListInv, UNCHANGED vars PROVE ListInv'
  BY DEF vars, ListInv, TypeOK, RequestTypeOK, SendTypeOK, TableTypeOK, EnvTypeOK,
         StackTypeOK, ListIntegrity, QueuedHasNoDeadline, TableKeys, NewIsNowhere,
         FramesSound, reqVars, sendVars, tabVars, txnVars, tmoVars, envVars

\* ListInv is inductive: ListIntegrity needs to know that a queued request has no
\* deadline (or it could be picked as expired), that the table knows no request that
\* waits for a retry (the same), and that a reply is handled with nothing else going on.
THEOREM ListInvHolds == Spec => []ListInv
  <1>1. ListInv /\ [Next]_vars => ListInv'
    BY AppCallSound, EventSound, StepSound, StutterSound DEF Next
  <1> QED  BY InitSound, <1>1, PTL DEF Spec

\* However calls, callbacks, replies, retries and timeouts interleave, no request is
\* ever linked into two of the lists that share req->next, or twice into one of them,
\* and a request that dequeue_request or grilio_channel_timeout has taken off its list
\* is on none of them until it is put there.
THEOREM ListsSound == Spec => []ListIntegrity
  <1>1. ListInv => ListIntegrity
    BY DEF ListInv
  <1> QED  BY <1>1, ListInvHolds, PTL
=============================================================================
