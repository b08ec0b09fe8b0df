--------------------- MODULE GrilioChannelSignals_proof ---------------------
(***************************************************************************)
(* What the channel believes of its surroundings is right whenever the     *)
(* main loop has control: last_pending tells whether requests are pending, *)
(* and send_req is the request whose packet the transport is writing.      *)
(***************************************************************************)
EXTENDS GrilioChannelProperties, GrilioChannel_proof

USE NoneAssumption, IdAssumption, OptionAssumption, BoundAssumption
USE DEF NoneAssumption, IdAssumption, OptionAssumption, BoundAssumption

-----------------------------------------------------------------------------
(* The invariants.                                                         *)

\* A queued request has a serial, under which dequeue_request makes it pending.
QueuedHaveSerials == \A r \in Range(send_queue) : current_id[r] \in Ids

\* When last_pending is wrong, update_pending is going to be called.
Signalled == last_pending = HasPending \/ "update_pending" \in Executing(stack)

\* While send_next_request holds a request nobody can interrupt it, unless the
\* application handles pending-changed, and nothing is being written.
SubmitOnTop ==
    /\ stack # <<>> => "submit" \notin Executing(Rest)
    /\ Running("submit") => send_req = None

\* send_req is what is being written.
Written ==
    ~closed /\ "ERROR" \notin SendOutcomes =>
        IF tx = None THEN send_req = None ELSE send_req = tx.req

-----------------------------------------------------------------------------
(* What a step does to them.                                               *)

\* Nobody begins to hand a request to the transport, or to handle a reply.
NoneBegins(t) == /\ "submit" \in Executing(t) => "submit" \in Executing(stack)
                 /\ "response" \in Executing(t) => "response" \in Executing(stack)

\* And update_pending is still going to be called.
Flow(t) == /\ "update_pending" \in Executing(stack) => "update_pending" \in Executing(t)
           /\ NoneBegins(t)

\* What is queued afterwards was queued before, or has been given a serial.
SerialsKept ==
    \A r \in Range(send_queue') : \/ r \in Range(send_queue) /\ current_id'[r] = current_id[r]
                                  \/ current_id'[r] \in Ids

PendingStays == UNCHANGED <<pending, last_pending>>
WriterStays  == UNCHANGED <<send_req, tx, closed>>

\* A step of the channel that neither submits nor settles what is pending.
Steady == Flow(stack') /\ SerialsKept /\ PendingStays /\ WriterStays /\ ~Running("submit")

\* Plain functions do not include send_next_request with a request in its hands.
LEMMA PlainNoSubmit ==
    ASSUME NEW pre, Plain(pre)
    PROVE  /\ pre \in Seq(FrameType)
           /\ "submit" \notin Executing(pre) /\ "response" \notin Executing(pre)
  <1> SUFFICES ASSUME NEW k \in DOMAIN pre, pre[k].fn = "submit" PROVE FALSE
    BY DEF Plain, Executing
  <1>1. Held(pre[k])
    BY DEF Held
  <1>2. pre[k].req \in HeldBy(pre)
    BY <1>1 DEF HeldBy
  <1> QED  BY <1>2 DEF Plain

\* Calling plain functions.
LEMMA FlowPush ==
    ASSUME ListInv, NEW pre, Plain(pre)
    PROVE  Flow(stack) /\ Flow(pre \o stack)
  <1>1. stack \in Seq(FrameType)
    BY DEF ListInv, TypeOK, StackTypeOK
  <1>2. Executing(pre \o stack) = Executing(pre) \cup Executing(stack)
    BY <1>1, PushFrames DEF Plain
  <1> QED  BY <1>2, PlainNoSubmit DEF Flow, NoneBegins

\* Starting plain functions from the main loop.
LEMMA FlowFresh ==
    ASSUME stack = <<>>, NEW pre, Plain(pre)
    PROVE  Flow(pre)
  <1>1. Executing(stack) = {}
    BY DEF Executing
  <1> QED  BY <1>1, PlainNoSubmit DEF Flow, NoneBegins

\* The function on top returns, and plain functions are called in its place.
LEMMA FlowPop ==
    ASSUME ListInv, NEW fn, fn # "update_pending", Running(fn), NEW pre, Plain(pre)
    PROVE  /\ Flow(Rest) /\ Flow(pre \o Rest)
           /\ Executing(pre \o Rest) = Executing(pre) \cup Executing(Rest)
  <1>1. stack \in Seq(FrameType) /\ stack # <<>> /\ Head(stack).fn = fn
    BY DEF ListInv, TypeOK, StackTypeOK, Running
  <1>2. Rest \in Seq(FrameType) /\ Executing(stack) = {fn} \cup Executing(Rest)
    BY <1>1, PopFrame, RestTyped DEF Rest, StackTypeOK
  <1>3. Executing(pre \o Rest) = Executing(pre) \cup Executing(Rest)
    BY <1>2, PushFrames DEF Plain
  <1> QED  BY <1>2, <1>3, PlainNoSubmit DEF Flow, NoneBegins

\* A single frame of a plain function.
LEMMA PlainCall ==
    ASSUME NEW f \in Functions \ {"submit", "expire_one", "queue_cancel_all", "response",
                              "drop"},
           NEW I \in SUBSET Ids, NEW n \in BOOLEAN
    PROVE  /\ Plain(<<Frame(f)>>)
           /\ Plain(<<[Frame(f) EXCEPT !.ids = I]>>)
           /\ Plain(<<[Frame(f) EXCEPT !.notify = n]>>)
           /\ Plain(<<[Frame(f) EXCEPT !.ids = I, !.notify = n]>>)
  <1>1. /\ Frame(f) \in FrameType /\ [Frame(f) EXCEPT !.ids = I] \in FrameType
        /\ [Frame(f) EXCEPT !.notify = n] \in FrameType
        /\ [Frame(f) EXCEPT !.ids = I, !.notify = n] \in FrameType
    BY FrameTyped
  <1>2. /\ Frame(f).fn = f /\ [Frame(f) EXCEPT !.ids = I].fn = f
        /\ [Frame(f) EXCEPT !.notify = n].fn = f
        /\ [Frame(f) EXCEPT !.ids = I, !.notify = n].fn = f
    BY DEF Frame
  <1>3. \A g \in FrameType : g.fn = f => Plain(<<g>>)
    BY PlainFrame
  <1> QED  BY <1>1, <1>2, <1>3

\* The send queue, or the part of it that is left, keeps its serials.
LEMMA SerialsOfFewer ==
    ASSUME UNCHANGED current_id, Range(send_queue') \subseteq Range(send_queue)
    PROVE  SerialsKept
  BY DEF SerialsKept

\* A request that joins it brings one.
LEMMA SerialsOfMore ==
    ASSUME ListInv, NEW r \in Req, NEW i \in Ids,
           current_id' = [current_id EXCEPT ![r] = i], send_queue' = Append(send_queue, r)
    PROVE  SerialsKept
  <1>1. send_queue \in Seq(Req) /\ current_id \in [Req -> 0 .. IdMax]
    BY DEF ListInv, TypeOK, SendTypeOK, RequestTypeOK
  <1>2. \A s \in Range(send_queue') : s \in Range(send_queue) \/ s = r
    <2>1. /\ DOMAIN send_queue = 1 .. Len(send_queue) /\ Len(send_queue) \in Nat
          /\ DOMAIN send_queue' = 1 .. Len(send_queue) + 1
          /\ \A k \in 1 .. Len(send_queue) : send_queue'[k] = send_queue[k]
          /\ send_queue'[Len(send_queue) + 1] = r
      BY <1>1, AppendProperties, LenProperties
    <2> QED  BY <2>1 DEF Range
  <1>3. current_id'[r] = i /\ \A s \in Req \ {r} : current_id'[s] = current_id[s]
    BY <1>1
  <1>4. Range(send_queue) \subseteq Req
    BY <1>1, RangeOfSeq
  <1> QED  BY <1>2, <1>3, <1>4 DEF SerialsKept

\* Application code runs: no request is being submitted right now.
LEMMA AppSteady ==
    ASSUME ListInv, AppRuns, NEW pre, Plain(pre)
    PROVE  Flow(stack) /\ Flow(pre \o stack) /\ ~Running("submit")
  BY FlowPush DEF AppRuns, Running

-----------------------------------------------------------------------------
(* The calls of the application, and what they lead to.                    *)

\* send_request_full is steady.
LEMMA SendRequestSteady ==
    ASSUME ListInv, NEW r \in Req, NEW p \in Profiles, SendRequest(r, p)
    PROVE  Steady
  <1>1. AppRuns /\ stack' = <<Write>> \o stack
    BY DEF SendRequest, SendThrough
  <1>2. SerialsKept
    BY SerialsOfMore DEF SendRequest, SendThrough
  <1>3. PendingStays /\ WriterStays
    BY DEF SendRequest, SendThrough, PendingStays, WriterStays, envVars
  <1> QED  BY <1>1, <1>2, <1>3, AppSteady, PlainCalls DEF Steady

\* retry_request is steady.
LEMMA RetryRequestSteady ==
    ASSUME ListInv, NEW i \in Ids, RetryRequest(i)
    PROVE  Steady
  <1>1. AppRuns /\ stack' = <<Write, TimeoutReset>> \o stack
    BY DEF RetryRequest
  <1>2. PICK r \in retry : Requeue(r)
    BY DEF RetryRequest
  <1>3. SerialsKept
    BY <1>2, SerialsOfMore DEF Requeue, ListInv, TypeOK, SendTypeOK
  <1>4. PendingStays /\ WriterStays
    BY DEF RetryRequest, PendingStays, WriterStays, envVars
  <1> QED  BY <1>1, <1>3, <1>4, AppSteady, PlainCalls DEF Steady

\* cancel_request keeps what the send queue knows, whatever its caller goes on with.
LEMMA CancelThenSteady ==
    ASSUME ListInv, NEW i \in Ids, NEW n \in BOOLEAN, NEW after, after \in Seq(FrameType),
           Flow(after), CancelThen(i, n, after)
    PROVE  Flow(stack') /\ SerialsKept /\ PendingStays /\ WriterStays
  <1>1. send_queue \in Seq(Req) /\ IsInjective(send_queue)
    BY DEF ListInv, TypeOK, SendTypeOK, ListIntegrity
  <1>2. \/ send_queue' = send_queue
        \/ \E k \in DOMAIN send_queue : send_queue' = RemoveAt(send_queue, k)
    BY DEF CancelThen
  <1>3. SerialsKept
    <2>1. UNCHANGED current_id
      BY DEF CancelThen
    <2>2. Range(send_queue') \subseteq Range(send_queue)
      BY <1>1, <1>2, RemoveAtInjection
    <2> QED  BY <2>1, <2>2, SerialsOfFewer
  <1>4. PendingStays /\ WriterStays
    BY DEF CancelThen, PendingStays, WriterStays, envVars
  <1>5. \/ stack' = after
        \/ \E r \in Req \cup {None}, more \in {<<Write>>, <<TimeoutReset, Write>>} :
             stack' = Cancelled(r, n) \o more \o after
    <2>1. /\ send_req \in ReqOrNone /\ req_table[i] \in ReqOrNone
          /\ \A k \in DOMAIN send_queue : send_queue[k] \in Req
          /\ retry \subseteq Req
      BY <1>1, InDomain DEF ListInv, TypeOK, SendTypeOK, TableTypeOK
    <2> QED  BY <2>1 DEF CancelThen, ReqOrNone
  <1>6. ASSUME NEW r \in Req \cup {None}, NEW more \in {<<Write>>, <<TimeoutReset, Write>>}
        PROVE  Flow(Cancelled(r, n) \o more \o after)
    <2>1. Plain(Cancelled(r, n) \o more)
      BY PlainCalls, PlainConcat
    <2>2. Executing((Cancelled(r, n) \o more) \o after)
            = Executing(Cancelled(r, n) \o more) \cup Executing(after)
      BY <2>1, PushFrames DEF Plain
    <2> QED  BY <2>1, <2>2, PlainNoSubmit DEF Flow, NoneBegins
  <1> QED  BY <1>3, <1>4, <1>5, <1>6

\* cancel_request is steady.
LEMMA CancelRequestSteady ==
    ASSUME ListInv, NEW i \in Ids, NEW n \in BOOLEAN, CancelRequest(i, n)
    PROVE  Steady
  <1>1. AppRuns /\ CancelThen(i, n, stack)
    BY DEF CancelRequest
  <1>2. Flow(stack) /\ ~Running("submit") /\ stack \in Seq(FrameType)
    BY <1>1, AppSteady, PlainCalls DEF ListInv, TypeOK, StackTypeOK
  <1> QED  BY <1>1, <1>2, CancelThenSteady DEF Steady

\* So is the cancellation in drop_request.
LEMMA DropRequestSteady ==
    ASSUME ListInv, NEW i \in Ids, DropRequest(i)
    PROVE  Steady
  <1> DEFINE pre == <<[Frame("drop") EXCEPT !.ids = {i}]>>
  <1>1. Plain(pre)
    BY DropTyped, PlainFrame
  <1>2. AppRuns /\ CancelThen(i, FALSE, pre \o stack)
    BY DEF DropRequest
  <1> HIDE DEF pre
  <1>3. Flow(pre \o stack) /\ ~Running("submit") /\ pre \o stack \in Seq(FrameType)
    BY <1>1, <1>2, AppSteady, ConcatProperties DEF ListInv, TypeOK, StackTypeOK, Plain
  <1> QED  BY <1>2, <1>3, CancelThenSteady DEF Steady

\* cancel_all is steady.
LEMMA CancelAllSteady ==
    ASSUME ListInv, NEW n \in BOOLEAN, CancelAll(n)
    PROVE  Steady
  <1> DEFINE f == [Frame("cancel_queue") EXCEPT !.notify = n]
             g == [Frame("cancel_retry") EXCEPT !.notify = n]
             h == Frame("cancel_end")
             loops == <<f, g, h>>
  <1>1. Plain(loops)
    <2>1. f \in FrameType /\ g \in FrameType /\ h \in FrameType
      BY FrameTyped DEF Functions
    <2>2. f.fn = "cancel_queue" /\ g.fn = "cancel_retry" /\ h.fn = "cancel_end"
      BY DEF Frame
    <2> HIDE DEF f, g, h
    <2>3. loops \in Seq(FrameType) /\ DOMAIN loops = 1 .. 3
      BY <2>1
    <2>4. loops[1] = f /\ loops[2] = g /\ loops[3] = h
      OBVIOUS
    <2> HIDE DEF loops
    <2>5. \A k \in DOMAIN loops : loops[k].fn \notin {"submit", "expire_one", "response"}
      <3>1. \A k \in 1 .. 3 : k = 1 \/ k = 2 \/ k = 3
        OBVIOUS
      <3> QED  BY <2>2, <2>3, <2>4, <3>1
    <2> QED  BY <2>3, <2>5, PlainFrames
  <1> HIDE DEF loops
  <1>2. AppRuns
    BY DEF CancelAll
  <1>3. \/ stack' = loops \o stack
        \/ stack' = Cancelled(send_req, n) \o loops \o stack
    BY DEF CancelAll, loops
  <1>4. Plain(Cancelled(send_req, n) \o loops)
    BY <1>1, PlainCalls, PlainConcat
  <1>5. Flow(stack') /\ ~Running("submit")
    BY <1>1, <1>2, <1>3, <1>4, AppSteady
  <1>6. UNCHANGED <<current_id, send_queue>> /\ PendingStays /\ WriterStays
    BY DEF CancelAll, PendingStays, WriterStays, envVars
  <1> QED  BY <1>5, <1>6, SerialsOfFewer DEF Steady

\* serialize, deserialize and the return of a callback are steady.
LEMMA OtherCallsSteady ==
    ASSUME ListInv, Serialize \/ Deserialize \/ AppReturns
    PROVE  Steady
  <1>1. UNCHANGED <<current_id, send_queue>> /\ PendingStays /\ WriterStays
    BY DEF Serialize, Deserialize, AppReturns, PendingStays, WriterStays, envVars, reqVars,
           sendVars, tabVars
  <1>2. CASE Serialize \/ Deserialize
    <2>1. AppRuns /\ (stack' = stack \/ stack' = <<Write>> \o stack)
      BY <1>2 DEF Serialize, Deserialize
    <2> QED  BY <1>1, <2>1, AppSteady, PlainCalls, SerialsOfFewer DEF Steady
  <1>3. CASE AppReturns
    <2>1. Running("app") /\ stack' = Rest
      BY <1>3 DEF AppReturns
    <2>2. ~Running("submit")
      BY <2>1 DEF Running
    <2> QED  BY <1>1, <2>1, <2>2, FlowPop, PlainCalls, SerialsOfFewer DEF Steady
  <1> QED  BY <1>2, <1>3

\* Every call of the application is steady.
LEMMA AppCallSteady ==
    ASSUME ListInv, AppCall PROVE Steady
  BY SendRequestSteady, CancelRequestSteady, CancelAllSteady, RetryRequestSteady,
     DropRequestSteady, OtherCallsSteady
  DEF AppCall, KnownIds

-----------------------------------------------------------------------------
(* The events of the main loop.                                            *)

\* The main loop dispatches an event: nothing is being executed.
LEMMA EventFlow ==
    ASSUME Idle, NEW pre, Plain(pre)
    PROVE  Flow(pre) /\ ~Running("submit")
  BY FlowFresh DEF Idle, Running

\* handle_connected is steady.
LEMMA ConnectedSteady ==
    ASSUME ListInv, Connected PROVE Steady
  <1>1. Flow(stack') /\ ~Running("submit")
    BY EventFlow, PlainCalls, PlainConcat DEF Connected
  <1>2. UNCHANGED <<current_id, send_queue>> /\ PendingStays /\ WriterStays
    BY DEF Connected, PendingStays, WriterStays, reqVars, sendVars, tabVars
  <1> QED  BY <1>1, <1>2, SerialsOfFewer DEF Steady

\* queue_ack gives the acknowledgement a serial and changes nothing else.
LEMMA QueueAckSteady ==
    ASSUME ListInv, NEW a \in Req, QueueAck(a)
    PROVE  SerialsKept /\ PendingStays /\ UNCHANGED send_req
  BY SerialsOfMore DEF QueueAck, PendingStays

\* An event that has to be acknowledged is steady.
LEMMA IndicationSteady ==
    ASSUME ListInv, NEW a \in Req, Indication(a) PROVE Steady
  <1>1. Flow(stack') /\ ~Running("submit")
    BY EventFlow, PlainCalls, PlainConcat DEF Indication
  <1> QED  BY <1>1, QueueAckSteady DEF Indication, envVars, WriterStays, Steady

\* The arrival of a reply is steady, but for the function that handles it.
LEMMA ResponseArrives ==
    ASSUME ListInv, NEW i \in Ids, NEW a \in ReqOrNone, Response(i, a)
    PROVE  /\ Executing(stack) = {} /\ "submit" \notin Executing(stack')
           /\ SerialsKept /\ PendingStays /\ WriterStays /\ ~Running("submit")
  <1> DEFINE f == [Frame("response") EXCEPT !.ids = {i}]
  <1>1. stack = <<>> /\ stack' = <<f>> /\ f.fn = "response" /\ UNCHANGED <<tx, closed>>
    BY DEF Response, Idle, Frame
  <1> HIDE DEF f
  <1>2. /\ Executing(stack) = {} /\ "submit" \notin Executing(stack')
        /\ ~Running("submit")
    <2>1. \A k \in DOMAIN <<f>> : <<f>>[k].fn = "response"
      BY <1>1
    <2>2. Executing(stack) = {} /\ "submit" \notin Executing(<<f>>)
      BY <1>1, <2>1 DEF Executing
    <2> QED  BY <1>1, <2>2 DEF Running
  <1>3. SerialsKept /\ PendingStays /\ UNCHANGED send_req
    <2>1. CASE a # None /\ QueueAck(a)
      BY <2>1, QueueAckSteady DEF ReqOrNone
    <2>2. CASE a = None /\ UNCHANGED <<reqVars, sendVars, tabVars>>
      BY <2>2, SerialsOfFewer DEF reqVars, sendVars, tabVars, PendingStays
    <2> QED  BY <2>1, <2>2 DEF Response
  <1> QED  BY <1>1, <1>2, <1>3 DEF WriterStays

\* The beginning of grilio_channel_timeout is steady: it collects what has expired.
LEMMA TimeoutSteady ==
    ASSUME ListInv, NEW due \in SUBSET Timeable, NEW again \in SUBSET retry,
           Timeout(due, again)
    PROVE  Steady
  <1> DEFINE e == Frame("expire")
             d == [Frame("retry_due") EXCEPT !.reqs = again]
  <1>1. /\ stack = <<>> /\ stack' = <<e, d, TimeoutReset, Write, PendingUpdate>>
        /\ UNCHANGED <<current_id, send_queue>> /\ PendingStays /\ WriterStays
    BY DEF Timeout, Idle, PendingStays, WriterStays, envVars
  <1>2. /\ e.fn = "expire" /\ d.fn = "retry_due" /\ TimeoutReset.fn = "reset_timeout"
        /\ Write.fn = "schedule_write" /\ PendingUpdate.fn = "update_pending"
    BY DEF Frame, TimeoutReset, Write, PendingUpdate
  <1> HIDE DEF e, d
  <1>3. /\ DOMAIN stack' = 1 .. 5 /\ stack'[1] = e /\ stack'[2] = d
        /\ stack'[3] = TimeoutReset /\ stack'[4] = Write /\ stack'[5] = PendingUpdate
    BY <1>1
  <1>4. \A k \in 1 .. 5 : k = 1 \/ k = 2 \/ k = 3 \/ k = 4 \/ k = 5
    OBVIOUS
  <1>5. \A k \in DOMAIN stack' : stack'[k].fn \notin {"submit", "response"}
    BY <1>2, <1>3, <1>4
  <1>6. /\ Executing(stack) = {} /\ "submit" \notin Executing(stack')
        /\ "response" \notin Executing(stack')
    BY <1>1, <1>5 DEF Executing
  <1> QED  BY <1>1, <1>6, SerialsOfFewer DEF Steady, Flow, NoneBegins, Running

-----------------------------------------------------------------------------
(* The steps of the functions that are being executed.                     *)

\* A function other than update_pending and send_next_request goes on: it returns, calls
\* plain functions in its place, or calls them and goes on later.
LEMMA StepFlow ==
    ASSUME ListInv, NEW fn, fn \notin {"update_pending", "submit"}, Running(fn),
           NEW pre, Plain(pre)
    PROVE  /\ Flow(Rest) /\ Flow(pre \o Rest) /\ Flow(pre \o stack)
           /\ Flow(stack) /\ ~Running("submit")
  BY FlowPop, FlowPush DEF Running

\* Steps that only end a function are steady.
LEMMA EndSteady ==
    ASSUME ListInv, WriteStop \/ ResetTimeout \/ ExpireEnd \/ RequeueEnd \/ CancelLoopEnd
                      \/ CancelAllEnd
    PROVE  Steady
  <1>1. UNCHANGED <<current_id, send_queue>> /\ PendingStays /\ WriterStays
    BY DEF WriteStop, ResetTimeout, ExpireEnd, RequeueEnd, CancelLoopEnd, CancelAllEnd,
           PendingStays, WriterStays, envVars, reqVars, sendVars, tabVars
  <1>2. stack' = Rest /\ \E fn \in Functions \ {"update_pending", "submit"} : Running(fn)
    BY DEF WriteStop, ResetTimeout, ExpireEnd, RequeueEnd, CancelLoopEnd, CancelAllEnd,
           Functions
  <1> QED  BY <1>1, <1>2, StepFlow, PlainCalls, SerialsOfFewer DEF Steady

\* An expired request is retried or completed: steady.
LEMMA ExpireOneSteady ==
    ASSUME ListInv, ExpireOne PROVE Steady
  <1>1. Running("expire_one")
    BY DEF ExpireOne
  <1>2. stack' = Rest \/ stack' = Notify(Top.req) \o Rest
    BY DEF ExpireOne
  <1>3. UNCHANGED <<current_id, send_queue>> /\ PendingStays /\ WriterStays
    BY DEF ExpireOne, PendingStays, WriterStays, envVars
  <1> QED  BY <1>1, <1>2, <1>3, StepFlow, PlainCalls, SerialsOfFewer DEF Steady

\* The due part of the retry queue is split off: steady.
LEMMA TakeRetriesSteady ==
    ASSUME ListInv, TakeRetries PROVE Steady
  <1>1. Running("retry_due") /\ stack' = <<Frame("requeue")>> \o Rest
    BY DEF TakeRetries
  <1>2. Plain(<<Frame("requeue")>>)
    BY PlainCall DEF Functions
  <1>3. UNCHANGED <<current_id, send_queue>> /\ PendingStays /\ WriterStays
    BY DEF TakeRetries, PendingStays, WriterStays, envVars, reqVars, tabVars
  <1> QED  BY <1>1, <1>2, <1>3, StepFlow, SerialsOfFewer DEF Steady

\* A due request is queued again under a new serial: steady.
LEMMA RequeueNextSteady ==
    ASSUME ListInv, RequeueNext PROVE Steady
  <1>1. Running("requeue") /\ stack' = <<Write>> \o stack
    BY DEF RequeueNext
  <1>2. PICK r \in resend : Requeue(r)
    BY DEF RequeueNext
  <1>3. SerialsKept
    BY <1>2, SerialsOfMore DEF Requeue, ListInv, TypeOK, SendTypeOK
  <1>4. PendingStays /\ WriterStays
    BY DEF RequeueNext, PendingStays, WriterStays, envVars
  <1> QED  BY <1>1, <1>3, <1>4, StepFlow, PlainCalls DEF Steady

\* The loops of cancel_all are steady.
LEMMA CancelLoopsSteady ==
    ASSUME ListInv, CancelQueued \/ CancelRetry PROVE Steady
  <1>1. \/ Running("cancel_queue") \/ Running("cancel_retry")
    BY DEF CancelQueued, CancelRetry
  <1>2. \E r : stack' = Cancelled(r, Top.notify) \o stack
    BY DEF CancelQueued, CancelRetry
  <1>3. UNCHANGED current_id /\ PendingStays /\ WriterStays
    BY DEF CancelQueued, CancelRetry, PendingStays, WriterStays, envVars
  <1>4. Range(send_queue') \subseteq Range(send_queue)
    <2>1. send_queue \in Seq(Req) /\ IsInjective(send_queue)
      BY DEF ListInv, TypeOK, SendTypeOK, ListIntegrity
    <2>2. send_queue' = send_queue \/ (send_queue # <<>> /\ send_queue' = Tail(send_queue))
      BY DEF CancelQueued, CancelRetry
    <2> QED  BY <2>1, <2>2, TailInjection
  <1> QED  BY <1>1, <1>2, <1>3, <1>4, StepFlow, PlainCalls, SerialsOfFewer DEF Steady

\* cancel_all collects the keys of the table: steady.
LEMMA CancelTableStartSteady ==
    ASSUME ListInv, CancelTableStart PROVE Steady
  <1> DEFINE keys == {i \in Ids : req_table[i] # None}
             pre  == <<[Frame("cancel_table") EXCEPT !.ids = keys, !.notify = Top.notify]>>
  <1>1. Running("cancel_queue") /\ stack' = pre \o Rest
    BY DEF CancelTableStart
  <1>2. Top \in FrameType
    BY RestTyped DEF CancelTableStart, Running, ListInv, TypeOK
  <1>3. Plain(pre)
    <2>1. Top.notify \in BOOLEAN /\ keys \in SUBSET Ids
      BY <1>2 DEF FrameType
    <2> HIDE DEF keys
    <2> QED  BY <2>1, PlainCall DEF Functions
  <1> HIDE DEF pre
  <1>4. UNCHANGED <<current_id, send_queue>> /\ PendingStays /\ WriterStays
    BY DEF CancelTableStart, PendingStays, WriterStays, envVars, reqVars, sendVars, tabVars
  <1> QED  BY <1>1, <1>3, <1>4, StepFlow, SerialsOfFewer DEF Steady

\* cancel_all goes through them: steady.
LEMMA CancelTableSteady ==
    ASSUME ListInv, CancelTable PROVE Steady
  <1>1. PICK i \in Top.ids : CancelTable!2!(i)
    BY DEF CancelTable
  <1> DEFINE r == req_table[i]
             f == [Top EXCEPT !.ids = @ \ {i}]
  <1>2. Top \in FrameType /\ Top.fn = "cancel_table" /\ Rest \in Seq(FrameType)
    BY RestTyped DEF CancelTable, Running, Top, ListInv, TypeOK
  <1>3. Plain(<<f>>)
    <2>1. f \in FrameType /\ f.fn = "cancel_table"
      BY <1>2 DEF FrameType, Held
    <2> HIDE DEF f
    <2> QED  BY <2>1, PlainFrame
  <1>4. \/ stack' = <<f>> \o Rest
        \/ stack' = Cancelled(r, Top.notify) \o (<<f>> \o Rest)
    BY <1>1
  <1> HIDE DEF f, r
  <1>5. Plain(Cancelled(r, Top.notify))
    BY PlainCalls
  <1>6. Cancelled(r, Top.notify) \o (<<f>> \o Rest) = (Cancelled(r, Top.notify) \o <<f>>) \o Rest
    BY <1>2, <1>3, <1>5, ConcatAssociative DEF Plain
  <1>7. Plain(Cancelled(r, Top.notify) \o <<f>>)
    BY <1>3, <1>5, PlainConcat
  <1>8. UNCHANGED <<current_id, send_queue>> /\ PendingStays /\ WriterStays
    BY DEF CancelTable, PendingStays, WriterStays, envVars, sendVars
  <1>9. Running("cancel_table")
    BY DEF CancelTable
  <1>10. Flow(stack') /\ ~Running("submit")
    BY <1>3, <1>4, <1>6, <1>7, <1>9, StepFlow
  <1> QED  BY <1>8, <1>10, SerialsOfFewer DEF Steady

\* The steps that neither submit a request nor settle what is pending.
LEMMA StepSteady ==
    ASSUME ListInv, Step,
           ~(Dequeue \/ Submit \/ UpdatePending \/ HandleResponse \/ ExpirePending
                \/ DropPending)
    PROVE  Steady
  BY EndSteady, ExpireOneSteady, TakeRetriesSteady, RequeueNextSteady, CancelLoopsSteady,
     CancelTableStartSteady, CancelTableSteady
  DEF Step

-----------------------------------------------------------------------------
(* last_pending.                                                           *)

PendingInv == ListInv /\ QueuedHaveSerials /\ Signalled

\* A step that keeps the serials of what is queued.
LEMMA SerialsKeep ==
    ASSUME QueuedHaveSerials, SerialsKept PROVE QueuedHaveSerials'
  BY DEF QueuedHaveSerials, SerialsKept

\* A step that leaves the pending requests and last_pending alone and drops no call of
\* update_pending.
LEMMA SignalledKept ==
    ASSUME Signalled, PendingStays, Flow(stack') PROVE Signalled'
  BY DEF Signalled, PendingStays, Flow, HasPending

\* A function that settles pending requests goes on with schedule_write and, before it
\* returns, update_pending.
LEMMA UpdateCalled ==
    ASSUME NEW pre, Plain(pre), NEW s \in Seq(FrameType),
           \/ stack' = pre \o <<Write, PendingUpdate>> \o s
           \/ stack' = <<Write, PendingUpdate>> \o s
    PROVE  Signalled' /\ Executing(stack') \cap {"submit", "response"} \subseteq Executing(s)
  <1> DEFINE wp == <<Write, PendingUpdate>>
  <1>1. Plain(wp) /\ wp[2].fn = "update_pending" /\ 2 \in DOMAIN wp
    <2>1. PendingUpdate.fn = "update_pending"
      BY DEF PendingUpdate, Frame
    <2>2. wp[2] = PendingUpdate /\ 2 \in DOMAIN wp
      OBVIOUS
    <2>3. Plain(wp)
      BY PlainCalls
    <2> QED  BY <2>1, <2>2, <2>3
  <1> HIDE DEF wp
  <1>2. "update_pending" \in Executing(wp)
    BY <1>1 DEF Executing
  <1>3. Plain(pre \o wp) /\ Executing(pre \o wp) = Executing(pre) \cup Executing(wp)
    BY <1>1, PlainConcat, PushFrames DEF Plain
  <1>4. \/ stack' = (pre \o wp) \o s
        \/ stack' = wp \o s
    BY DEF wp
  <1>5. /\ Executing((pre \o wp) \o s) = Executing(pre \o wp) \cup Executing(s)
        /\ Executing(wp \o s) = Executing(wp) \cup Executing(s)
    BY <1>1, <1>3, PushFrames DEF Plain
  <1>6. /\ "submit" \notin Executing(wp) /\ "submit" \notin Executing(pre \o wp)
        /\ "response" \notin Executing(wp) /\ "response" \notin Executing(pre \o wp)
    BY <1>1, <1>3, PlainNoSubmit
  <1> QED  BY <1>2, <1>3, <1>4, <1>5, <1>6 DEF Signalled

\* A function that settles pending requests, with nothing else in its hands.
Settling == /\ Signalled => Signalled'
            /\ SerialsKept /\ WriterStays /\ ~Running("submit") /\ NoneBegins(stack')

\* grilio_channel_pending_timeout calls update_pending.
LEMMA PendingTimeoutSettles ==
    ASSUME ListInv, NEW due \in SUBSET Ids, PendingTimeout(due) PROVE Settling
  <1>1. stack = <<>> /\ stack' = <<Write, PendingUpdate>>
    BY DEF PendingTimeout, Idle
  <1>2. <<Write, PendingUpdate>> = <<Write, PendingUpdate>> \o <<>>
    OBVIOUS
  <1>3. Signalled' /\ Executing(stack') \cap {"submit", "response"} \subseteq Executing(<<>>)
    <2>1. <<>> \in Seq(FrameType) /\ Plain(<<>>)
      BY PlainCalls
    <2>2. stack' = <<Write, PendingUpdate>> \o <<>>
      BY <1>1, <1>2
    <2> QED  BY <2>1, <2>2, UpdateCalled
  <1>4. UNCHANGED <<current_id, send_queue>> /\ WriterStays
    BY DEF PendingTimeout, reqVars, envVars, WriterStays
  <1> QED  BY <1>1, <1>3, <1>4, SerialsOfFewer DEF Settling, NoneBegins, Running

\* A reply that settles a request has update_pending called.
LEMMA HandleResponseSettles ==
    ASSUME ListInv, HandleResponse PROVE Settling
  <1>1. Running("response")
    BY DEF HandleResponse
  <1>2. /\ Rest \in Seq(FrameType)
        /\ NoneBegins(Rest)
    BY <1>1, RestTyped, FlowPop, PlainCalls DEF ListInv, TypeOK, Running, Flow
  <1>3. \/ stack' = <<Write, PendingUpdate>> \o Rest
        \/ \E r : stack' = Notify(r) \o <<Write, PendingUpdate>> \o Rest
    BY DEF HandleResponse
  <1>4. Signalled' /\ Executing(stack') \cap {"submit", "response"} \subseteq Executing(Rest)
    BY <1>2, <1>3, UpdateCalled, PlainCalls
  <1>5. UNCHANGED <<current_id, send_queue>> /\ WriterStays
    BY DEF HandleResponse, envVars, WriterStays
  <1>6. ~Running("submit")
    BY <1>1 DEF Running
  <1> QED  BY <1>2, <1>4, <1>5, <1>6, SerialsOfFewer DEF Settling, NoneBegins

\* drop_request calls update_pending, if it has removed something.
LEMMA DropPendingSettles ==
    ASSUME ListInv, DropPending PROVE Settling
  <1>1. Running("drop") /\ ListInv
    BY DEF DropPending
  <1>2. Rest \in Seq(FrameType) /\ Flow(Rest) /\ Flow(<<>> \o Rest)
    BY <1>1, RestTyped, FlowPop, PlainCalls DEF ListInv, TypeOK, Running
  <1>3. PICK i \in Top.ids :
          /\ pending' = PendingWithout(i)
          /\ stack' = (IF pending[i] # None THEN <<Write, PendingUpdate>> ELSE <<>>) \o Rest
    BY DEF DropPending
  <1>4. i \in Ids /\ pending \in [Ids -> ReqOrNone]
    BY <1>1, RestTyped DEF ListInv, TypeOK, TableTypeOK, Running, FrameType
  <1>5. UNCHANGED <<current_id, send_queue>> /\ WriterStays /\ last_pending' = last_pending
    BY DEF DropPending, envVars, reqVars, sendVars, WriterStays
  <1>6. ~Running("submit")
    BY <1>1 DEF Running
  <1>7. CASE pending[i] # None
    <2>1. Signalled' /\ Executing(stack') \cap {"submit", "response"} \subseteq Executing(Rest)
      BY <1>2, <1>3, <1>7, UpdateCalled, PlainCalls
    <2> QED  BY <1>2, <1>5, <1>6, <2>1, SerialsOfFewer DEF Settling, Flow, NoneBegins
  <1>8. CASE pending[i] = None
    <2>1. pending' = pending /\ stack' = <<>> \o Rest
      BY <1>3, <1>4, <1>8 DEF PendingWithout
    <2>2. Signalled => Signalled'
      BY <1>2, <1>5, <2>1, SignalledKept DEF PendingStays
    <2> QED  BY <1>2, <1>5, <1>6, <2>1, <2>2, SerialsOfFewer DEF Settling, Flow
  <1> QED  BY <1>7, <1>8

\* The loop over expired requests updates last_pending itself.
LEMMA ExpirePendingSettles ==
    ASSUME ListInv, ExpirePending PROVE Settling
  <1>1. PICK r \in expired : ExpirePending!2!(r)
    BY DEF ExpirePending
  <1>2. PICK i \in Ids : ExpirePending!2!(r)!2!(i)
    BY <1>1
  <1> DEFINE f == [Frame("expire_one") EXCEPT !.req = r]
             changed == pending[i] # None /\ last_pending # HasPending'
             pre == IF changed THEN Call("pending") ELSE <<>>
  <1>3. Running("expire") /\ ListInv
    BY DEF ExpirePending
  <1>4. r \in Req /\ stack \in Seq(FrameType) /\ pending \in [Ids -> ReqOrNone]
    BY <1>3 DEF ListInv, TypeOK, SendTypeOK, StackTypeOK, TableTypeOK
  <1>5. f \in FrameType /\ Held(f) /\ f.fn = "expire_one"
    BY <1>4, HeldTyped DEF Frame, Held
  <1> HIDE DEF f
  <1>6. stack' = pre \o <<f>> \o stack /\ Plain(pre)
    BY <1>2, PlainCalls DEF f
  <1>7. last_pending' = IF changed THEN HasPending' ELSE last_pending
    BY <1>2
  <1> HIDE DEF pre
  <1>8. Executing(stack') = Executing(pre) \cup {"expire_one"} \cup Executing(stack)
    <2>1. <<f>> \o stack \in Seq(FrameType)
      BY <1>4, <1>5, PushTyped
    <2>2. pre \o <<f>> \o stack = pre \o (<<f>> \o stack)
      <3>1. <<f>> \in Seq(FrameType) /\ pre \in Seq(FrameType)
        BY <1>5, <1>6 DEF Plain
      <3> QED  BY <1>4, <3>1, ConcatAssociative
    <2>3. Executing(<<f>> \o stack) = {"expire_one"} \cup Executing(stack)
      BY <1>4, <1>5, PushHeldFrame
    <2>4. Executing(pre \o (<<f>> \o stack)) = Executing(pre) \cup Executing(<<f>> \o stack)
      BY <1>6, <2>1, PushFrames DEF Plain
    <2> QED  BY <1>6, <2>2, <2>3, <2>4
  <1>9. Flow(stack')
    BY <1>6, <1>8, PlainNoSubmit DEF Flow, NoneBegins
  <1>10. Signalled => Signalled'
    <2>1. CASE pending[i] # None
      BY <1>7, <2>1 DEF Signalled
    <2>2. CASE pending[i] = None
      <3>1. pending' = pending
        BY <1>2, <1>4, <2>2 DEF PendingWithout
      <3> QED  BY <1>7, <1>9, <2>2, <3>1, SignalledKept DEF PendingStays
    <2> QED  BY <2>1, <2>2
  <1>11. UNCHANGED <<current_id, send_queue>> /\ WriterStays
    BY DEF ExpirePending, reqVars, sendVars, envVars, WriterStays
  <1>12. ~Running("submit")
    BY <1>3 DEF Running
  <1> QED  BY <1>9, <1>10, <1>11, <1>12, SerialsOfFewer DEF Settling, Flow

\* update_pending corrects last_pending.
LEMMA UpdatePendingSettles ==
    ASSUME ListInv, UpdatePending PROVE Settling
  <1> DEFINE pre == IF last_pending # HasPending THEN Call("pending") ELSE <<>>
  <1>1. Running("update_pending") /\ stack' = pre \o Rest /\ Plain(pre)
    BY PlainCalls DEF UpdatePending
  <1> HIDE DEF pre
  <1>2. Rest \in Seq(FrameType) /\ Executing(stack) = {"update_pending"} \cup Executing(Rest)
    BY <1>1, RestTyped, PopFrame DEF ListInv, TypeOK, StackTypeOK, Running, Rest
  <1>3. Executing(stack') = Executing(pre) \cup Executing(Rest)
    BY <1>1, <1>2, PushFrames DEF Plain
  <1>4. /\ UNCHANGED <<current_id, send_queue>> /\ WriterStays
        /\ last_pending' = HasPending /\ pending' = pending
    BY DEF UpdatePending, reqVars, sendVars, envVars, WriterStays
  <1>5. Signalled' /\ ~Running("submit")
    BY <1>1, <1>4 DEF Signalled, HasPending, Running
  <1> QED
    BY <1>1, <1>2, <1>3, <1>4, <1>5, PlainNoSubmit, SerialsOfFewer DEF Settling, NoneBegins

\* The link and its end, and the packet that is out, leave alone what is pending.
LEMMA LinkKeepsPending ==
    ASSUME ListInv, Disconnected \/ RequestSent
    PROVE  Flow(stack') /\ SerialsKept /\ PendingStays /\ ~Running("submit")
  <1>1. CASE Disconnected
    <2>1. AppRuns /\ stack' = Call("event") \o stack
      BY <1>1 DEF Disconnected
    <2>2. UNCHANGED <<current_id, send_queue>> /\ PendingStays
      BY <1>1 DEF Disconnected, reqVars, sendVars, tabVars, PendingStays
    <2> QED  BY <2>1, <2>2, AppSteady, PlainCalls, SerialsOfFewer
  <1>2. CASE RequestSent
    <2>1. Idle /\ stack' = <<Write>>
      BY <1>2 DEF RequestSent
    <2>2. UNCHANGED <<current_id, send_queue>> /\ PendingStays
      BY <1>2 DEF RequestSent, tabVars, PendingStays
    <2> QED  BY <2>1, <2>2, EventFlow, PlainCalls, SerialsOfFewer
  <1> QED  BY <1>1, <1>2

\* send_next_request leaves alone what is pending.
LEMMA SubmitKeepsPending ==
    ASSUME ListInv, Submit
    PROVE  Flow(stack') /\ SerialsKept /\ PendingStays
  <1>1. Running("submit") /\ (stack' = <<Write>> \o Rest \/ stack' = Rest)
    BY DEF Submit
  <1>2. UNCHANGED <<current_id, send_queue>> /\ PendingStays
    BY DEF Submit, PendingStays
  <1> QED  BY <1>1, <1>2, FlowPop, PlainCalls, SerialsOfFewer

\* dequeue_request makes a request pending, or submits one of the channel's own.
LEMMA DequeueSignals ==
    ASSUME PendingInv, Dequeue PROVE QueuedHaveSerials' /\ Signalled'
  <1>1. PICK k \in DequeueIdx : Dequeue!3!(k)!2
    BY DEF Dequeue
  <1> DEFINE r == send_queue[k]
             f == [Frame("submit") EXCEPT !.req = r]
  <1>2. /\ send_queue \in Seq(Req) /\ IsInjective(send_queue) /\ k \in DOMAIN send_queue
        /\ pending \in [Ids -> ReqOrNone]
    BY DEF PendingInv, ListInv, TypeOK, SendTypeOK, TableTypeOK, ListIntegrity,
           DequeueIdx, OrdinaryIdx, InternalIdx
  <1>3. r \in Req /\ r \in Range(send_queue) /\ current_id[r] \in Ids
    BY <1>2, InDomain DEF PendingInv, QueuedHaveSerials
  <1>4. QueuedHaveSerials'
    <2>1. Range(send_queue') \subseteq Range(send_queue) /\ current_id' = current_id
      BY <1>1, <1>2, RemoveAtInjection DEF Dequeue
    <2> QED  BY <2>1, SerialsOfFewer, SerialsKeep DEF PendingInv
  <1>5. Signalled'
    <2>1. CASE prof[r].internal
      <3>1. stack' = <<f>> \o Rest /\ UNCHANGED <<pending, last_pending>>
        BY <1>1, <2>1
      <3>2. f \in FrameType /\ Held(f)
        BY <1>3, HeldTyped DEF Frame, Held
      <3> HIDE DEF f
      <3>3. Rest \in Seq(FrameType) /\ Flow(Rest)
        <4>1. Running("schedule_write") /\ ListInv
          BY DEF Dequeue, PendingInv
        <4> QED  BY <4>1, RestTyped, FlowPop, PlainCalls DEF ListInv, TypeOK, Running
      <3>4. Executing(Rest) \subseteq Executing(stack')
        BY <3>1, <3>2, <3>3, PushHeldFrame
      <3> QED  BY <3>1, <3>3, <3>4 DEF Flow, PendingInv, Signalled, HasPending
    <2>2. CASE ~prof[r].internal
      <3>1. pending' = [pending EXCEPT ![current_id[r]] = r] /\ last_pending' = TRUE
        BY <1>1, <2>2
      <3>2. pending'[current_id[r]] # None
        BY <1>2, <1>3, <3>1
      <3> QED  BY <1>3, <3>1, <3>2 DEF Signalled, HasPending
    <2> QED  BY <2>1, <2>2
  <1> QED  BY <1>4, <1>5

\* Every step of the channel keeps it.
LEMMA PendingInvStep ==
    ASSUME PendingInv, [Next]_vars PROVE PendingInv'
  <1> SUFFICES QueuedHaveSerials' /\ Signalled'
    <2>1. ListInv'
      BY AppCallSound, EventSound, StepSound, StutterSound DEF PendingInv, Next
    <2> QED  BY <2>1 DEF PendingInv
  <1>2. ASSUME Flow(stack'), SerialsKept, PendingStays
        PROVE  QueuedHaveSerials' /\ Signalled'
    BY <1>2, SerialsKeep, SignalledKept DEF PendingInv
  <1>3. CASE AppCall
    BY <1>2, <1>3, AppCallSteady DEF Steady, PendingInv
  <1>4. CASE Event
    <2>1. CASE \E due \in SUBSET Ids : PendingTimeout(due)
      BY <2>1, PendingTimeoutSettles, SerialsKeep DEF Settling, PendingInv
    <2>2. CASE Disconnected \/ RequestSent
      BY <1>2, <2>2, LinkKeepsPending DEF PendingInv
    <2>3. CASE \/ Connected
               \/ \E a \in Req : Indication(a)
               \/ \E due \in SUBSET Timeable, again \in SUBSET retry : Timeout(due, again)
      BY <1>2, <2>3, ConnectedSteady, IndicationSteady, TimeoutSteady
      DEF Steady, PendingInv
    <2>4. CASE \E i \in Ids, a \in ReqOrNone : Response(i, a)
      BY <2>4, ResponseArrives, SerialsKeep DEF PendingInv, Signalled, PendingStays, HasPending
    <2> QED  BY <1>4, <2>1, <2>2, <2>3, <2>4 DEF Event
  <1>5. CASE Step
    <2>1. CASE UpdatePending \/ HandleResponse \/ ExpirePending \/ DropPending
      BY <2>1, UpdatePendingSettles, HandleResponseSettles, ExpirePendingSettles,
         DropPendingSettles, SerialsKeep
      DEF Settling, PendingInv
    <2>2. CASE Dequeue
      BY <2>2, DequeueSignals
    <2>3. CASE Submit
      BY <1>2, <2>3, SubmitKeepsPending DEF PendingInv
    <2>4. CASE ~(Dequeue \/ Submit \/ UpdatePending \/ HandleResponse \/ ExpirePending
                   \/ DropPending)
      BY <1>2, <1>5, <2>4, StepSteady DEF Steady, PendingInv
    <2> QED  BY <2>1, <2>2, <2>3, <2>4
  <1>6. CASE UNCHANGED vars
    <2>1. UNCHANGED <<current_id, send_queue, pending, last_pending, stack>>
      BY <1>6 DEF vars, reqVars, sendVars, tabVars
    <2>2. Flow(stack')
      BY <2>1 DEF Flow, NoneBegins
    <2> QED  BY <1>2, <2>1, <2>2, SerialsOfFewer DEF PendingStays
  <1> QED  BY <1>3, <1>4, <1>5, <1>6 DEF Next

\* The inductive invariant behind PendingSignalled: last_pending is right or about to be
\* corrected, and nothing is queued without the serial it will be pending under.
THEOREM PendingInvHolds == Spec => []PendingInv
  <1>1. Init => PendingInv
    <2> SUFFICES ASSUME Init PROVE PendingInv
      OBVIOUS
    <2>1. ListInv
      BY InitSound
    <2>2. Range(send_queue) = {}
      BY DEF Init, Range
    <2>3. last_pending = HasPending
      BY DEF Init, HasPending
    <2> QED  BY <2>1, <2>2, <2>3 DEF PendingInv, QueuedHaveSerials, Signalled
  <1> QED  BY <1>1, PendingInvStep, PTL DEF Spec

\* When the main loop has control, the last pending-changed signal told the truth,
\* whichever of its five ways a request took into or out of the pending table and
\* whatever the handlers of the signal did.
THEOREM PendingToldTruly == Spec => []PendingSignalled
  <1>1. PendingInv => PendingSignalled
    BY DEF PendingInv, Signalled, PendingSignalled, Executing
  <1> QED  BY <1>1, PendingInvHolds, PTL

-----------------------------------------------------------------------------
(* send_req.                                                               *)

WriteInv == ListInv /\ SubmitOnTop /\ Written

\* When nobody is submitting a request, and nobody begins to, SubmitOnTop stays.
LEMMA SubmitOnTopKept ==
    ASSUME ListInv, ListInv', SubmitOnTop, ~Running("submit"),
           "submit" \in Executing(stack') => "submit" \in Executing(stack)
    PROVE  SubmitOnTop' /\ ~Running("submit")'
  <1>1. "submit" \notin Executing(stack)
    <2>1. CASE stack = <<>>
      BY <2>1 DEF Executing
    <2>2. CASE stack # <<>>
      <3>1. Executing(stack) = {Head(stack).fn} \cup Executing(Rest)
        BY <2>2, PopFrame DEF ListInv, TypeOK, StackTypeOK, Rest
      <3> QED  BY <2>2, <3>1 DEF SubmitOnTop, Running
    <2> QED  BY <2>1, <2>2
  <1>2. ASSUME stack' # <<>>
        PROVE  "submit" \notin Executing(Tail(stack')) /\ Head(stack').fn # "submit"
    <2>1. Executing(stack') = {Head(stack').fn} \cup Executing(Tail(stack'))
      BY <1>2, PopFrame DEF ListInv, TypeOK, StackTypeOK
    <2> QED  BY <1>1, <2>1
  <1> QED  BY <1>2 DEF SubmitOnTop, Rest, Running

\* The packet that is out was send_req's; and the lost link takes it along.
LEMMA LinkKeepsWritten ==
    ASSUME WriteInv, Disconnected \/ RequestSent
    PROVE  Written'
  BY DEF WriteInv, Written, Disconnected, RequestSent, sendVars

\* send_next_request hands its request to the transport, which had nothing to write.
LEMMA SubmitWrites ==
    ASSUME WriteInv, ListInv', Submit
    PROVE  SubmitOnTop' /\ Written' /\ ~Running("submit")'
  <1> DEFINE r == Top.req
  <1>1. PICK outcome \in IF closed THEN {"ERROR"} ELSE SendOutcomes :
          Submit!3!(outcome)
    BY DEF Submit
  <1>2. /\ Running("submit") /\ closed' = closed /\ send_req = None
        /\ stack \in Seq(FrameType) /\ stack # <<>> /\ Rest \in Seq(FrameType)
        /\ "submit" \notin Executing(Rest)
    <2>1. Running("submit") /\ closed' = closed
      BY DEF Submit
    <2> QED  BY <2>1, RestTyped DEF WriteInv, SubmitOnTop, Running, ListInv, TypeOK, StackTypeOK
  <1>3. SubmitOnTop' /\ ~Running("submit")'
    <2>1. stack' = <<Write>> \o Rest \/ stack' = Rest
      BY <1>1
    <2>2. Executing(<<Write>> \o Rest) = Executing(<<Write>>) \cup Executing(Rest)
      BY <1>2, PlainCalls, PushFrames DEF Plain
    <2>3. "submit" \notin Executing(stack')
      BY <1>2, <2>1, <2>2, PlainCalls, PlainNoSubmit
    <2>4. stack' # <<>> => Executing(stack') = {Head(stack').fn} \cup Executing(Tail(stack'))
      BY PopFrame DEF ListInv, TypeOK, StackTypeOK
    <2> QED  BY <2>3, <2>4 DEF SubmitOnTop, Rest, Running
  <1>4. Written'
    <2> SUFFICES ASSUME ~closed, "ERROR" \notin SendOutcomes
                 PROVE  IF tx' = None THEN send_req' = None ELSE send_req' = tx'.req
      BY <1>2 DEF Written
    <2>1. tx = None
      BY <1>2 DEF WriteInv, Written, ListInv, TypeOK, EnvTypeOK
    <2>2. outcome \in {"OK", "PENDING"}
      <3>1. outcome \in SendOutcomes
        BY <1>1
      <3> QED  BY <3>1
    <2>3. CASE outcome = "OK"
      BY <1>1, <2>1, <2>3
    <2>4. CASE outcome = "PENDING"
      <3>1. send_req' = r /\ tx' = [req |-> r, serial |-> current_id[r]]
        BY <1>1, <2>4
      <3>2. tx'.req = r
        BY <3>1
      <3>3. tx' # None
        <4>1. r \in Req /\ current_id[r] \in 0 .. IdMax
          BY <1>2, RestTyped DEF WriteInv, ListInv, TypeOK, RequestTypeOK, Running, Top,
                                 FrameType, Held, ReqOrNone
        <4>2. tx' \in [req : Req, serial : 0 .. IdMax]
          BY <3>1, <4>1
        <4> QED  BY <4>2, PacketAssumption
      <3> QED  BY <3>1, <3>2, <3>3
    <2> QED  BY <2>2, <2>3, <2>4
  <1> QED  BY <1>3, <1>4

\* dequeue_request returns to its caller with the request, if the application does not
\* handle pending-changed.
LEMMA DequeueOnTop ==
    ASSUME WriteInv, Dequeue, "pending" \notin Reentrant
    PROVE  SubmitOnTop' /\ Written'
  <1>1. PICK k \in DequeueIdx : Dequeue!3!(k)!2
    BY DEF Dequeue
  <1> DEFINE r == send_queue[k]
             f == [Frame("submit") EXCEPT !.req = r]
  <1>2. /\ Running("schedule_write") /\ send_req = None /\ WriterStays
        /\ stack \in Seq(FrameType) /\ Rest \in Seq(FrameType)
        /\ "submit" \notin Executing(Rest)
    <2>1. Running("schedule_write") /\ send_req = None /\ WriterStays
      BY DEF Dequeue, CanSend, WriterStays, envVars
    <2> QED  BY <2>1, RestTyped DEF WriteInv, SubmitOnTop, Running, ListInv, TypeOK, StackTypeOK
  <1>3. f \in FrameType
    <2>1. send_queue \in Seq(Req) /\ k \in DOMAIN send_queue
      BY DEF WriteInv, ListInv, TypeOK, SendTypeOK, DequeueIdx, OrdinaryIdx, InternalIdx
    <2> QED  BY <2>1, InDomain, HeldTyped
  <1>4. stack' = <<f>> \o Rest
    <2>1. \/ stack' = <<f>> \o Rest
          \/ stack' = <<>> \o <<f>> \o Rest
      BY <1>1 DEF Call
    <2>2. <<>> \o <<f>> = <<f>>
      OBVIOUS
    <2> HIDE DEF f
    <2> QED  BY <2>1, <2>2
  <1> HIDE DEF f
  <1>5. stack' # <<>> /\ Tail(stack') = Rest
    <2>1. <<f>> \in Seq(FrameType) /\ Len(<<f>>) = 1
      BY <1>3
    <2>2. /\ stack' \in Seq(FrameType) /\ Len(stack') = Len(Rest) + 1 /\ Len(Rest) \in Nat
          /\ \A i \in 1 .. Len(stack') : stack'[i] = IF i <= 1 THEN <<f>>[i] ELSE Rest[i - 1]
      BY <1>2, <1>4, <2>1, ConcatProperties, LenProperties
    <2>3. stack' # <<>>
      BY <2>2, EmptySeq
    <2>4. /\ Tail(stack') \in Seq(FrameType) /\ Len(Tail(stack')) = Len(Rest)
          /\ \A i \in 1 .. Len(Rest) : Tail(stack')[i] = stack'[i + 1]
      BY <2>2, <2>3, HeadTailProperties
    <2>5. \A i \in 1 .. Len(Rest) : stack'[i + 1] = Rest[i]
      <3> TAKE i \in 1 .. Len(Rest)
      <3>1. i + 1 \in 1 .. Len(stack') /\ ~(i + 1 <= 1) /\ (i + 1) - 1 = i
        BY <2>2
      <3> QED  BY <2>2, <3>1
    <2> QED  BY <1>2, <2>3, <2>4, <2>5, SeqEqual
  <1> QED
    BY <1>2, <1>5 DEF SubmitOnTop, Rest, Written, WriterStays, WriteInv

\* Without a handler of pending-changed, every step keeps the invariant of send_req.
LEMMA WriteInvStep ==
    ASSUME WriteInv, [Next]_vars, "pending" \notin Reentrant
    PROVE  WriteInv'
  <1>1. ListInv'
    BY AppCallSound, EventSound, StepSound, StutterSound DEF WriteInv, Next
  <1> SUFFICES SubmitOnTop' /\ Written'
    BY <1>1 DEF WriteInv
  <1>2. WriterStays => Written'
    BY DEF WriterStays, Written, WriteInv
  <1>3. ASSUME ~Running("submit"),
               "submit" \in Executing(stack') => "submit" \in Executing(stack)
        PROVE  SubmitOnTop'
    BY <1>1, <1>3, SubmitOnTopKept DEF WriteInv
  <1>4. CASE AppCall
    BY <1>2, <1>3, <1>4, AppCallSteady DEF Steady, Flow, NoneBegins, WriteInv
  <1>5. CASE Event
    <2>1. CASE \E due \in SUBSET Ids : PendingTimeout(due)
      BY <1>2, <1>3, <2>1, PendingTimeoutSettles DEF Settling, NoneBegins, WriteInv
    <2>2. CASE Disconnected \/ RequestSent
      BY <1>3, <2>2, LinkKeepsPending, LinkKeepsWritten DEF Flow, NoneBegins, WriteInv
    <2>3. CASE \/ Connected
               \/ \E a \in Req : Indication(a)
               \/ \E due \in SUBSET Timeable, again \in SUBSET retry : Timeout(due, again)
      BY <1>2, <1>3, <2>3, ConnectedSteady, IndicationSteady, TimeoutSteady
      DEF Steady, Flow, NoneBegins, WriteInv
    <2>4. CASE \E i \in Ids, a \in ReqOrNone : Response(i, a)
      BY <1>2, <1>3, <2>4, ResponseArrives DEF WriteInv
    <2> QED  BY <1>5, <2>1, <2>2, <2>3, <2>4 DEF Event
  <1>6. CASE Step
    <2>1. CASE UpdatePending \/ HandleResponse \/ ExpirePending \/ DropPending
      BY <1>2, <1>3, <2>1, UpdatePendingSettles, HandleResponseSettles,
         ExpirePendingSettles, DropPendingSettles
      DEF Settling, NoneBegins, WriteInv
    <2>2. CASE Dequeue
      BY <2>2, DequeueOnTop
    <2>3. CASE Submit
      BY <1>1, <2>3, SubmitWrites
    <2>4. CASE ~(Dequeue \/ Submit \/ UpdatePending \/ HandleResponse \/ ExpirePending
                   \/ DropPending)
      BY <1>2, <1>3, <1>6, <2>4, StepSteady DEF Steady, Flow, NoneBegins, WriteInv
    <2> QED  BY <2>1, <2>2, <2>3, <2>4
  <1>7. CASE UNCHANGED vars
    <2>1. UNCHANGED <<send_req, tx, closed, stack>>
      BY <1>7 DEF vars, sendVars, envVars
    <2> QED  BY <1>2, <2>1 DEF WriterStays, SubmitOnTop, Rest, Running, WriteInv
  <1> QED  BY <1>4, <1>5, <1>6, <1>7 DEF Next

\* So it always holds.
LEMMA WriteInvHolds ==
    ASSUME "pending" \notin Reentrant
    PROVE  Spec => []WriteInv
  <1>1. Init => WriteInv
    <2> SUFFICES ASSUME Init PROVE WriteInv
      OBVIOUS
    <2>1. ListInv
      BY InitSound
    <2>2. SubmitOnTop /\ Written
      BY DEF Init, SubmitOnTop, Written, Running
    <2> QED  BY <2>1, <2>2 DEF WriteInv
  <1>2. WriteInv /\ [Next]_vars => WriteInv'
    BY WriteInvStep
  <1> QED  BY <1>1, <1>2, PTL DEF Spec

\* Unless the application handles pending-changed, the channel waits for the transport
\* only while the transport writes the very packet of send_req: send_req is never left
\* behind, which would keep every later request in the queue.
THEOREM WaitsForWrittenOnly ==
    ASSUME "pending" \notin Reentrant
    PROVE  Spec => []SendReqIsWritten
  <1>1. WriteInv => SendReqIsWritten
    BY DEF WriteInv, Written, SendReqIsWritten
  <1> QED  BY <1>1, WriteInvHolds, PTL

-----------------------------------------------------------------------------
(* The request timer.                                                      *)

CancelFns == {"cancel_queue", "cancel_table", "cancel_retry", "cancel_end"}
Expiring  == {"expire", "expire_one"}

\* grilio_channel_cancel_all is not being executed, or it is what is being executed:
\* without a response callback that calls the channel nothing interrupts its loops.
NoLoops(s) == Executing(s) \cap CancelFns = {}
EndNext(s) == s # <<>> /\ Head(s).fn = "cancel_end" /\ NoLoops(Tail(s))
RetryNext(s) == s # <<>> /\ Head(s).fn = "cancel_retry" /\ EndNext(Tail(s))
TableNext(s) == s # <<>> /\ Head(s).fn \in {"cancel_queue", "cancel_table"} /\ RetryNext(Tail(s))
LoopsOnTop == NoLoops(stack) \/ EndNext(stack) \/ RetryNext(stack) \/ TableNext(stack)

\* Below the loop over the expired requests, reset_timeout is waiting for its turn.
ResetFollows(s) == \A k \in DOMAIN s : s[k].fn \in Expiring =>
                      \E j \in DOMAIN s : j > k /\ s[j].fn = "reset_timeout"

\* While there is a deadline to wait for, the timer runs or is going to be looked at.
Armed == Timeable # {} \/ retry # {} => timeout_id \/ "reset_timeout" \in Executing(stack)

\* What the loops of cancel_all have achieved so far.
TableLeft == {i \in Ids : req_table[i] # None}
Emptied == /\ Running("cancel_table") => TableLeft \subseteq Top.ids
           /\ Running("cancel_retry") \/ Running("cancel_end") => TableLeft = {}
           /\ Running("cancel_end") => retry = {}

TimerInv == ListInv /\ Armed /\ ResetFollows(stack) /\ LoopsOnTop /\ Emptied

\* Functions that can be called without more ado.
Mild(pre) == pre \in Seq(FrameType) /\ Executing(pre) \cap (CancelFns \cup Expiring) = {}

\* The functions of a stack that cancel nothing, with the timer looked at as before.
GoesOn(t) == /\ NoLoops(t) /\ ResetFollows(t)
             /\ "reset_timeout" \in Executing(stack) => "reset_timeout" \in Executing(t)

\* Nothing new to wait for.
NothingToWaitFor == Timeable' \subseteq Timeable /\ retry' \subseteq retry
TimerStays == NothingToWaitFor /\ timeout_id' = timeout_id

\* What a call does to the stack.
LEMMA PushTop ==
    ASSUME NEW f \in FrameType, NEW s \in Seq(FrameType)
    PROVE  /\ <<f>> \o s \in Seq(FrameType) /\ <<f>> \o s # <<>>
           /\ Head(<<f>> \o s) = f /\ Tail(<<f>> \o s) = s
  <1> DEFINE e == <<f>>
             t == e \o s
  <1>1. e \in Seq(FrameType) /\ Len(e) = 1 /\ e[1] = f
    OBVIOUS
  <1> HIDE DEF e
  <1>2. /\ t \in Seq(FrameType) /\ Len(t) = Len(s) + 1 /\ Len(s) \in Nat
        /\ \A i \in 1 .. Len(t) : t[i] = IF i <= 1 THEN e[i] ELSE s[i - 1]
    <2>1. /\ t \in Seq(FrameType) /\ Len(t) = Len(e) + Len(s)
          /\ \A i \in 1 .. Len(e) + Len(s) : t[i] = IF i <= Len(e) THEN e[i] ELSE s[i - Len(e)]
      BY <1>1, ConcatProperties
    <2> HIDE DEF t
    <2>2. Len(s) \in Nat
      BY LenProperties
    <2> QED  BY <1>1, <2>1, <2>2
  <1> HIDE DEF t
  <1>3. t # <<>>
    BY <1>2, EmptySeq
  <1>4. Head(t) = f
    BY <1>1, <1>2, <1>3, HeadTailProperties
  <1>5. /\ Tail(t) \in Seq(FrameType) /\ Len(Tail(t)) = Len(s)
        /\ \A i \in 1 .. Len(s) : Tail(t)[i] = t[i + 1]
    BY <1>2, <1>3, HeadTailProperties
  <1>6. \A i \in 1 .. Len(s) : t[i + 1] = s[i]
    <2> TAKE i \in 1 .. Len(s)
    <2>1. i + 1 \in 1 .. Len(t) /\ ~(i + 1 <= 1) /\ (i + 1) - 1 = i
      BY <1>2
    <2> QED  BY <1>2, <2>1
  <1>7. Tail(t) = s
    BY <1>5, <1>6, SeqEqual
  <1> QED  BY <1>2, <1>3, <1>4, <1>7 DEF e, t

\* Mild functions are mild together.
LEMMA MildConcat ==
    ASSUME NEW a, NEW b, Mild(a), Mild(b)
    PROVE  Mild(a \o b)
  <1>1. Executing(a) = {f.fn : f \in Range(a)} /\ Executing(b) = {f.fn : f \in Range(b)}
        /\ Executing(a \o b) = {f.fn : f \in Range(a \o b)}
    BY DEF Executing, Range
  <1>2. a \o b \in Seq(FrameType) /\ Range(a \o b) = Range(a) \cup Range(b)
    BY RangeConcatenation, ConcatProperties DEF Mild
  <1> QED  BY <1>1, <1>2 DEF Mild

\* A single mild function, or two.
LEMMA MildFrames ==
    ASSUME NEW f \in FrameType, f.fn \notin CancelFns \cup Expiring,
           NEW g \in FrameType, g.fn \notin CancelFns \cup Expiring
    PROVE  Mild(<<f>>) /\ Mild(<<f, g>>)
  <1>1. /\ <<f>> \in Seq(FrameType) /\ DOMAIN <<f>> = {1}
        /\ <<f, g>> \in Seq(FrameType) /\ DOMAIN <<f, g>> = {1, 2}
    OBVIOUS
  <1>2. Executing(<<f>>) = {f.fn} /\ Executing(<<f, g>>) = {f.fn, g.fn}
    BY <1>1 DEF Executing
  <1> QED  BY <1>1, <1>2 DEF Mild

\* Callbacks, and what the channel does after them, are mild.
LEMMA MildCalls ==
    ASSUME NEW r, NEW n, NEW kind
    PROVE  /\ Mild(<<>>) /\ Mild(Call(kind)) /\ Mild(Notify(r)) /\ Mild(Cancelled(r, n))
           /\ Mild(<<Write>>) /\ Mild(<<Write, PendingUpdate>>)
           /\ Mild(<<TimeoutReset, Write>>) /\ Mild(<<Write, TimeoutReset>>)
  <1>1. Mild(<<>>)
    <2>1. <<>> \in Seq(FrameType) /\ Executing(<<>>) = {}
      BY DEF Executing
    <2> QED  BY <2>1 DEF Mild
  <1>2. /\ App.fn = "app" /\ Write.fn = "schedule_write"
        /\ PendingUpdate.fn = "update_pending" /\ TimeoutReset.fn = "reset_timeout"
    BY DEF App, Write, PendingUpdate, TimeoutReset, Frame
  <1>3. /\ Mild(<<App>>) /\ Mild(<<Write>>) /\ Mild(<<Write, PendingUpdate>>)
        /\ Mild(<<TimeoutReset, Write>>) /\ Mild(<<Write, TimeoutReset>>)
    BY <1>2, ConstFrames, MildFrames DEF CancelFns, Expiring
  <1>4. \A c : Mild(Call(c))
    BY <1>1, <1>3 DEF Call
  <1>5. Mild(Notify(r))
    BY <1>1, <1>4 DEF Notify
  <1>6. Mild(Cancelled(r, n))
    BY <1>1, <1>5 DEF Cancelled
  <1> QED  BY <1>1, <1>3, <1>4, <1>5, <1>6

\* Functions on top of a stack, other than the loop over the expired requests.
LEMMA ResetPush ==
    ASSUME NEW s \in Seq(FrameType), ResetFollows(s),
           NEW pre \in Seq(FrameType), Executing(pre) \cap Expiring = {}
    PROVE  /\ pre \o s \in Seq(FrameType) /\ ResetFollows(pre \o s)
           /\ Executing(pre \o s) = Executing(pre) \cup Executing(s)
  <1> DEFINE t == pre \o s
             n == Len(pre)
  <1>1. /\ t \in Seq(FrameType) /\ n \in Nat /\ Len(s) \in Nat
        /\ DOMAIN pre = 1 .. n /\ DOMAIN s = 1 .. Len(s) /\ DOMAIN t = 1 .. n + Len(s)
        /\ \A k \in 1 .. n + Len(s) : t[k] = IF k <= n THEN pre[k] ELSE s[k - n]
    BY ConcatProperties, LenProperties
  <1> HIDE DEF t, n
  <1>2. \A k \in DOMAIN t : \/ k \in DOMAIN pre /\ t[k] = pre[k]
                            \/ k - n \in DOMAIN s /\ t[k] = s[k - n]
    BY <1>1
  <1>3. \A k \in DOMAIN s : n + k \in DOMAIN t /\ t[n + k] = s[k]
    <2> TAKE k \in DOMAIN s
    <2>1. n + k \in 1 .. n + Len(s) /\ ~(n + k <= n) /\ (n + k) - n = k
      BY <1>1
    <2> QED  BY <1>1, <2>1
  <1>4. \A k \in DOMAIN pre : pre[k].fn \notin Expiring /\ k \in DOMAIN t /\ t[k] = pre[k]
    BY <1>1 DEF Executing
  <1>5. ResetFollows(t)
    <2> SUFFICES ASSUME NEW k \in DOMAIN t, t[k].fn \in Expiring
                 PROVE  \E j \in DOMAIN t : j > k /\ t[j].fn = "reset_timeout"
      BY DEF ResetFollows
    <2>1. k - n \in DOMAIN s /\ t[k] = s[k - n]
      BY <1>2, <1>4
    <2>2. PICK j \in DOMAIN s : j > k - n /\ s[j].fn = "reset_timeout"
      BY <2>1 DEF ResetFollows
    <2>3. n + j \in DOMAIN t /\ n + j > k /\ t[n + j].fn = "reset_timeout"
      BY <1>1, <1>3, <2>2
    <2> QED  BY <2>3
  <1>6. Executing(t) = Executing(pre) \cup Executing(s)
    <2>1. \A f \in Executing(t) : f \in Executing(pre) \cup Executing(s)
      BY <1>2 DEF Executing
    <2>2. \A f \in Executing(pre) \cup Executing(s) : f \in Executing(t)
      BY <1>3, <1>4 DEF Executing
    <2> QED  BY <2>1, <2>2
  <1> QED  BY <1>1, <1>5, <1>6 DEF t

\* Mild functions on top of a stack that goes on.
LEMMA GoesOnPush ==
    ASSUME NEW s \in Seq(FrameType), GoesOn(s), NEW pre, Mild(pre)
    PROVE  GoesOn(pre \o s)
  <1>1. /\ ResetFollows(pre \o s)
        /\ Executing(pre \o s) = Executing(pre) \cup Executing(s)
    BY ResetPush DEF Mild, GoesOn
  <1> QED  BY <1>1 DEF Mild, GoesOn, NoLoops

\* The function on top returns.
LEMMA GoesOnRest ==
    ASSUME TimerInv, stack # <<>>
    PROVE  /\ Rest \in Seq(FrameType) /\ stack \in Seq(FrameType)
           /\ ResetFollows(Rest)
           /\ Executing(stack) = {Top.fn} \cup Executing(Rest)
           /\ Top.fn \in Expiring => "reset_timeout" \in Executing(Rest)
           /\ Top.fn \notin CancelFns => NoLoops(stack) /\ NoLoops(Rest) /\ GoesOn(stack)
           /\ Top.fn \notin CancelFns \cup {"reset_timeout"} => GoesOn(Rest)
  <1>1. stack \in Seq(FrameType)
    BY DEF TimerInv, ListInv, TypeOK, StackTypeOK
  <1>2. /\ Rest \in Seq(FrameType) /\ Len(Rest) = Len(stack) - 1
        /\ \A i \in 1 .. Len(Rest) : Rest[i] = stack[i + 1]
    BY <1>1, HeadTailProperties DEF Rest
  <1>3. /\ DOMAIN Rest = 1 .. Len(Rest) /\ DOMAIN stack = 1 .. Len(stack)
        /\ Len(stack) \in Nat /\ Len(stack) # 0
    BY <1>1, <1>2, LenProperties, EmptySeq
  <1>4. \A i \in DOMAIN Rest : i + 1 \in DOMAIN stack /\ Rest[i] = stack[i + 1] /\ i \in Nat
    BY <1>2, <1>3
  <1>5. \A k \in DOMAIN stack : k \in Nat /\ (k > 1 => k - 1 \in DOMAIN Rest /\ stack[k] = Rest[k - 1])
    <2> TAKE k \in DOMAIN stack
    <2>1. k \in Nat /\ k <= Len(stack)
      BY <1>3
    <2>2. ASSUME k > 1 PROVE k - 1 \in 1 .. Len(Rest) /\ (k - 1) + 1 = k
      BY <1>2, <1>3, <2>1, <2>2
    <2> QED  BY <1>2, <1>3, <2>1, <2>2
  <1>6. ResetFollows(Rest)
    <2> SUFFICES ASSUME NEW k \in DOMAIN Rest, Rest[k].fn \in Expiring
                 PROVE  \E j \in DOMAIN Rest : j > k /\ Rest[j].fn = "reset_timeout"
      BY DEF ResetFollows
    <2>1. PICK j \in DOMAIN stack : j > k + 1 /\ stack[j].fn = "reset_timeout"
      BY <1>4 DEF TimerInv, ResetFollows
    <2>2. j > 1 /\ j - 1 > k
      BY <1>4, <1>5, <2>1
    <2> QED  BY <1>5, <2>1, <2>2
  <1>7. Executing(stack) = {Top.fn} \cup Executing(Rest)
    BY <1>1, PopFrame DEF Top, Rest
  <1>8. Top.fn \in Expiring => "reset_timeout" \in Executing(Rest)
    <2> SUFFICES ASSUME Top.fn \in Expiring PROVE "reset_timeout" \in Executing(Rest)
      OBVIOUS
    <2>1. 1 \in DOMAIN stack /\ stack[1] = Top
      BY <1>1, <1>3 DEF Top
    <2>2. PICK j \in DOMAIN stack : j > 1 /\ stack[j].fn = "reset_timeout"
      BY <2>1 DEF TimerInv, ResetFollows
    <2> QED  BY <1>5, <2>2 DEF Executing
  <1>9. Top.fn \notin CancelFns => NoLoops(stack)
    BY DEF TimerInv, LoopsOnTop, EndNext, RetryNext, TableNext, CancelFns, Top
  <1> QED  BY <1>1, <1>2, <1>6, <1>7, <1>8, <1>9 DEF NoLoops, GoesOn, TimerInv

\* What a stack that goes on leads to, wherever mild functions are called.
LEMMA GoesOnCalls ==
    ASSUME TimerInv, NEW pre, Mild(pre)
    PROVE  /\ stack = <<>> => GoesOn(stack) /\ GoesOn(pre)
           /\ stack = <<>> \/ Top.fn \notin CancelFns => GoesOn(stack) /\ GoesOn(pre \o stack)
           /\ stack # <<>> /\ Top.fn \notin CancelFns \cup {"reset_timeout"} =>
                GoesOn(Rest) /\ GoesOn(pre \o Rest)
  <1>1. stack \in Seq(FrameType)
    BY DEF TimerInv, ListInv, TypeOK, StackTypeOK
  <1>2. ASSUME stack = <<>> PROVE GoesOn(stack) /\ GoesOn(pre)
    <2>1. Executing(stack) = {}
      BY <1>2 DEF Executing
    <2>2. GoesOn(stack)
      BY <2>1 DEF GoesOn, NoLoops, TimerInv
    <2>3. GoesOn(pre)
      BY <2>1 DEF Mild, GoesOn, NoLoops, ResetFollows, Executing
    <2> QED  BY <2>2, <2>3
  <1>3. stack # <<>> /\ Top.fn \notin CancelFns => GoesOn(stack)
    BY GoesOnRest
  <1>4. stack = <<>> \/ Top.fn \notin CancelFns => GoesOn(pre \o stack)
    BY <1>1, <1>2, <1>3, GoesOnPush
  <1>5. stack # <<>> /\ Top.fn \notin CancelFns \cup {"reset_timeout"} =>
          Rest \in Seq(FrameType) /\ GoesOn(Rest)
    BY GoesOnRest
  <1> QED  BY <1>2, <1>3, <1>4, <1>5, GoesOnPush

\* Application code is not running within cancel_all.
LEMMA AppGoesOn ==
    ASSUME TimerInv, AppRuns, NEW pre, Mild(pre)
    PROVE  GoesOn(stack) /\ GoesOn(pre \o stack)
  <1>1. stack = <<>> \/ Top.fn \notin CancelFns
    BY DEF AppRuns, Running, Top, CancelFns
  <1> QED  BY <1>1, GoesOnCalls

\* A step that brings nothing new to wait for keeps the invariant.
LEMMA TimerKept ==
    ASSUME TimerInv, ListInv', TimerStays, GoesOn(stack') PROVE TimerInv'
  <1>1. Armed'
    BY DEF TimerInv, Armed, TimerStays, NothingToWaitFor, GoesOn
  <1>2. LoopsOnTop'
    BY DEF LoopsOnTop, GoesOn
  <1>3. \A f \in CancelFns : ~Running(f)'
    <2>1. stack' # <<>> => Head(stack').fn \in Executing(stack')
      BY PopFrame DEF ListInv, TypeOK, StackTypeOK
    <2> QED  BY <2>1 DEF Running, GoesOn, NoLoops
  <1>4. Emptied'
    BY <1>3 DEF Emptied, CancelFns
  <1> QED  BY <1>1, <1>2, <1>4 DEF TimerInv, GoesOn

\* A step that looks at the timer keeps it too.
LEMMA TimerLookedAt ==
    ASSUME TimerInv, ListInv', GoesOn(stack'),
           timeout_id' \/ "reset_timeout" \in Executing(stack')
              \/ (Timeable' = {} /\ retry' = {})
    PROVE  TimerInv'
  <1>1. Armed'
    BY DEF Armed
  <1>2. LoopsOnTop'
    BY DEF LoopsOnTop, GoesOn
  <1>3. \A f \in CancelFns : ~Running(f)'
    <2>1. stack' # <<>> => Head(stack').fn \in Executing(stack')
      BY PopFrame DEF ListInv, TypeOK, StackTypeOK
    <2> QED  BY <2>1 DEF Running, GoesOn, NoLoops
  <1>4. Emptied'
    BY <1>3 DEF Emptied, CancelFns
  <1> QED  BY <1>1, <1>2, <1>4 DEF TimerInv, GoesOn

\* No request becomes one that may time out.
LEMMA FewerTimeable ==
    ASSUME \A r \in Req : deadline'[r] =>
              /\ deadline[r] /\ current_id'[r] = current_id[r]
              /\ \A i \in Ids : req_table'[i] = r => req_table[i] = r
    PROVE  Timeable' \subseteq Timeable
  BY DEF Timeable

\* Requests leave the table and the retry queue.
LEMMA FewerInTable ==
    ASSUME ListInv, UNCHANGED <<deadline, current_id, timeout_id>>, retry' \subseteq retry,
           req_table' = req_table \/ \E r : req_table' = TableWithout(r)
    PROVE  TimerStays
  <1>1. \A r \in Req, i \in Ids : req_table'[i] = r => req_table[i] = r
    <2>1. None \notin Req
      OBVIOUS
    <2> QED  BY <2>1 DEF TableWithout
  <1> QED  BY <1>1, FewerTimeable DEF TimerStays, NothingToWaitFor

\* A request that joins the table has no deadline yet.
LEMMA JoinsUntimed ==
    ASSUME NEW r \in Req, ~deadline'[r], timeout_id' = timeout_id, retry' \subseteq retry,
           NEW i \in Ids, NEW j,
           req_table \in [Ids -> ReqOrNone],
           req_table' = [req_table EXCEPT ![j] = r, ![i] = r],
           \A s \in Req \ {r} : deadline'[s] = deadline[s] /\ current_id'[s] = current_id[s]
    PROVE  TimerStays
  <1>1. \A s \in Req \ {r}, k \in Ids : req_table'[k] = s => req_table[k] = s
    OBVIOUS
  <1>2. \A s \in Req : deadline'[s] =>
              /\ deadline[s] /\ current_id'[s] = current_id[s]
              /\ \A k \in Ids : req_table'[k] = s => req_table[k] = s
    BY <1>1
  <1> QED  BY <1>2, FewerTimeable DEF TimerStays, NothingToWaitFor

-----------------------------------------------------------------------------
(* What the application calls, and the timer.                              *)

\* A new request has no deadline.
LEMMA SendRequestWaits ==
    ASSUME TimerInv, NEW r \in Req, NEW p \in Profiles, SendRequest(r, p)
    PROVE  TimerStays /\ GoesOn(stack')
  <1>1. SendThrough(r, p, None)
    BY DEF SendRequest
  <1>2. /\ AppRuns /\ status[r] = "NEW" /\ stack' = <<Write>> \o stack
        /\ UNCHANGED <<deadline, retry, timeout_id>>
    BY <1>1 DEF SendThrough
  <1>3. PICK i \in Ids : /\ current_id' = [current_id EXCEPT ![r] = i]
                         /\ req_table' = [req_table EXCEPT ![i] = r]
    BY <1>1 DEF SendThrough
  <1>4. TimerStays
    <2>1. ~deadline'[r] /\ timeout_id' = timeout_id /\ retry' \subseteq retry
      BY <1>2 DEF TimerInv, ListInv, NewIsNowhere
    <2>2. req_table \in [Ids -> ReqOrNone] /\ current_id \in [Req -> 0 .. IdMax]
      BY DEF TimerInv, ListInv, TypeOK, TableTypeOK, RequestTypeOK
    <2>3. req_table' = [req_table EXCEPT ![i] = r, ![i] = r]
      BY <1>3, <2>2
    <2>4. \A s \in Req \ {r} : deadline'[s] = deadline[s] /\ current_id'[s] = current_id[s]
      BY <1>2, <1>3, <2>2
    <2> QED  BY <2>1, <2>2, <2>3, <2>4, JoinsUntimed
  <1> QED  BY <1>2, <1>4, AppGoesOn, MildCalls

\* A request that is tried again loses its deadline.
LEMMA RequeueWaits ==
    ASSUME ListInv, NEW r \in Req, Requeue(r),
           timeout_id' = timeout_id, retry' \subseteq retry
    PROVE  TimerStays
  <1>1. PICK i \in Ids : /\ current_id' = [current_id EXCEPT ![r] = i]
                         /\ req_table' = [req_table EXCEPT ![id[r]] = r, ![i] = r]
    BY DEF Requeue
  <1>2. /\ req_table \in [Ids -> ReqOrNone] /\ current_id \in [Req -> 0 .. IdMax]
        /\ deadline \in [Req -> BOOLEAN]
    BY DEF ListInv, TypeOK, TableTypeOK, RequestTypeOK
  <1>3. ~deadline'[r]
    BY <1>2 DEF Requeue
  <1>4. \A s \in Req \ {r} : deadline'[s] = deadline[s] /\ current_id'[s] = current_id[s]
    BY <1>1, <1>2 DEF Requeue
  <1> QED  BY <1>1, <1>2, <1>3, <1>4, JoinsUntimed

\* grilio_channel_retry_request takes a request from the retry queue.
LEMMA RetryRequestWaits ==
    ASSUME TimerInv, NEW i \in Ids, RetryRequest(i)
    PROVE  TimerStays /\ GoesOn(stack')
  <1>1. AppRuns /\ stack' = <<Write, TimeoutReset>> \o stack /\ timeout_id' = timeout_id
    BY DEF RetryRequest
  <1>2. PICK r \in retry : id[r] = i /\ retry' = retry \ {r} /\ Requeue(r)
    BY DEF RetryRequest
  <1>3. r \in Req /\ ListInv
    BY DEF TimerInv, ListInv, TypeOK, SendTypeOK
  <1>4. retry' \subseteq retry
    BY <1>2
  <1>5. TimerStays
    BY <1>1, <1>2, <1>3, <1>4, RequeueWaits
  <1> QED  BY <1>1, <1>5, AppGoesOn, MildCalls

\* A request that is cancelled is not waited for, and mild functions follow.
LEMMA CancelThenWaits ==
    ASSUME TimerInv, NEW i \in Ids, NEW n, NEW after, CancelThen(i, n, after)
    PROVE  /\ TimerStays
           /\ stack' = after \/ \E pre : Mild(pre) /\ stack' = pre \o after
  <1>1. /\ UNCHANGED <<deadline, current_id, timeout_id>> /\ retry' \subseteq retry
        /\ req_table' = req_table \/ \E r : req_table' = TableWithout(r)
    BY DEF CancelThen, Complete, RemoveRequest
  <1>2. ASSUME NEW r, NEW more, Mild(more), stack' = Cancelled(r, n) \o more \o after
        PROVE  \E pre : Mild(pre) /\ stack' = pre \o after
    BY <1>2, MildConcat, MildCalls
  <1>3. \/ stack' = after
        \/ \E r : stack' = Cancelled(r, n) \o <<Write>> \o after
        \/ \E r : stack' = Cancelled(r, n) \o <<TimeoutReset, Write>> \o after
    BY DEF CancelThen
  <1>4. stack' = after \/ \E pre : Mild(pre) /\ stack' = pre \o after
    <2>1. CASE \E r : stack' = Cancelled(r, n) \o <<Write>> \o after
      BY <1>2, <2>1, MildCalls
    <2>2. CASE \E r : stack' = Cancelled(r, n) \o <<TimeoutReset, Write>> \o after
      BY <1>2, <2>2, MildCalls
    <2> QED  BY <1>3, <2>1, <2>2
  <1> QED  BY <1>1, <1>4, FewerInTable DEF TimerInv

LEMMA CancelRequestWaits ==
    ASSUME TimerInv, NEW i \in Ids, NEW n, CancelRequest(i, n)
    PROVE  TimerStays /\ GoesOn(stack')
  <1>1. AppRuns /\ CancelThen(i, n, stack)
    BY DEF CancelRequest
  <1> QED  BY <1>1, CancelThenWaits, AppGoesOn, MildCalls

\* grilio_channel_drop_request.
LEMMA DropRequestWaits ==
    ASSUME TimerInv, NEW i \in Ids, DropRequest(i)
    PROVE  TimerStays /\ GoesOn(stack')
  <1> DEFINE f == [Frame("drop") EXCEPT !.ids = {i}]
             after == <<f>> \o stack
  <1>1. AppRuns /\ CancelThen(i, FALSE, after)
    BY DEF DropRequest
  <1>2. f \in FrameType /\ f.fn = "drop"
    BY DropTyped DEF Frame
  <1> HIDE DEF f
  <1>3. Mild(<<f>>)
    BY <1>2, MildFrames DEF CancelFns, Expiring
  <1>4. GoesOn(after) /\ after \in Seq(FrameType)
    BY <1>1, <1>2, <1>3, AppGoesOn, PushTop DEF TimerInv, ListInv, TypeOK, StackTypeOK
  <1> HIDE DEF after
  <1> QED  BY <1>1, <1>4, CancelThenWaits, GoesOnPush

\* The other calls.
LEMMA OtherCallsWait ==
    ASSUME TimerInv, Serialize \/ Deserialize \/ AppReturns
    PROVE  TimerStays /\ GoesOn(stack')
  <1>1. UNCHANGED <<deadline, current_id, timeout_id, req_table, retry>>
    BY DEF Serialize, Deserialize, AppReturns, reqVars, tabVars, sendVars
  <1>2. TimerStays
    BY <1>1, FewerInTable DEF TimerInv
  <1>3. CASE Serialize
    BY <1>2, <1>3, AppGoesOn, MildCalls DEF Serialize
  <1>4. CASE Deserialize
    BY <1>2, <1>4, AppGoesOn, MildCalls DEF Deserialize
  <1>5. CASE AppReturns
    BY <1>2, <1>5, GoesOnCalls, MildCalls DEF AppReturns, Running, Top, CancelFns
  <1> QED  BY <1>2, <1>3, <1>4, <1>5

\* A function of another kind on top of a stack.
LEMMA ResetPushOne ==
    ASSUME NEW f \in FrameType, f.fn \notin Expiring,
           NEW s \in Seq(FrameType), ResetFollows(s)
    PROVE  /\ <<f>> \o s \in Seq(FrameType) /\ <<f>> \o s # <<>>
           /\ Head(<<f>> \o s) = f /\ Tail(<<f>> \o s) = s
           /\ ResetFollows(<<f>> \o s)
           /\ Executing(<<f>> \o s) = {f.fn} \cup Executing(s)
  <1> DEFINE e == <<f>>
  <1>1. e \in Seq(FrameType) /\ DOMAIN e = {1} /\ e[1] = f
    OBVIOUS
  <1> HIDE DEF e
  <1>2. Executing(e) = {f.fn}
    BY <1>1 DEF Executing
  <1>3. /\ ResetFollows(e \o s) /\ Executing(e \o s) = {f.fn} \cup Executing(s)
    BY <1>1, <1>2, ResetPush
  <1> QED  BY <1>3, PushTop DEF e

\* If the application does not call from a response callback, cancelling a request
\* runs nothing.
LEMMA CancelsQuietly ==
    ASSUME "response" \notin Reentrant
    PROVE  \A r, n : Cancelled(r, n) = <<>>
  BY DEF Cancelled, Notify, Call

\* Three functions called one after the other.
LEMMA ThreeOnTop ==
    ASSUME NEW a \in FrameType, NEW b \in FrameType, NEW c \in FrameType,
           NEW s \in Seq(FrameType)
    PROVE  /\ <<a, b, c>> \o s = <<a>> \o (<<b>> \o (<<c>> \o s))
           /\ <<>> \o <<a, b, c>> \o s = <<a, b, c>> \o s
  <1> DEFINE x == <<a>>
             y == <<b>>
             z == <<c>>
  <1>1. x \in Seq(FrameType) /\ y \in Seq(FrameType) /\ z \in Seq(FrameType)
    OBVIOUS
  <1>2. <<a, b, c>> = x \o (y \o z)
    <2> DEFINE p == <<b, c>>
               t == <<a, b, c>>
    <2>1. /\ p \in Seq(FrameType) /\ Len(p) = 2 /\ p[1] = b /\ p[2] = c
          /\ t \in Seq(FrameType) /\ Len(t) = 3 /\ t[1] = a /\ t[2] = b /\ t[3] = c
          /\ Len(x) = 1 /\ x[1] = a /\ Len(y) = 1 /\ y[1] = b /\ Len(z) = 1 /\ z[1] = c
      OBVIOUS
    <2> HIDE DEF x, y, z, p, t
    <2>2. /\ y \o z \in Seq(FrameType) /\ Len(y \o z) = 2
          /\ (y \o z)[1] = b /\ (y \o z)[2] = c
      <3>1. /\ y \o z \in Seq(FrameType) /\ Len(y \o z) = 2
            /\ \A i \in 1 .. 2 : (y \o z)[i] = IF i <= 1 THEN y[i] ELSE z[i - 1]
        BY <1>1, <2>1, ConcatProperties
      <3>2. (y \o z)[1] = y[1] /\ (y \o z)[2] = z[2 - 1]
        BY <3>1
      <3> QED  BY <2>1, <3>1, <3>2
    <2>3. \A i \in 1 .. 2 : (y \o z)[i] = p[i]
      <3>1. \A i \in 1 .. 2 : i = 1 \/ i = 2
        OBVIOUS
      <3> QED  BY <2>1, <2>2, <3>1
    <2>4. y \o z = p
      BY <2>1, <2>2, <2>3, SeqEqual
    <2>5. /\ x \o p \in Seq(FrameType) /\ Len(x \o p) = 3
          /\ (x \o p)[1] = a /\ (x \o p)[2] = b /\ (x \o p)[3] = c
      <3>1. /\ x \o p \in Seq(FrameType) /\ Len(x \o p) = 3
            /\ \A i \in 1 .. 3 : (x \o p)[i] = IF i <= 1 THEN x[i] ELSE p[i - 1]
        <4>1. /\ x \o p \in Seq(FrameType) /\ Len(x \o p) = Len(x) + Len(p)
              /\ \A i \in 1 .. Len(x) + Len(p) :
                   (x \o p)[i] = IF i <= Len(x) THEN x[i] ELSE p[i - Len(x)]
          <5>1. x \in Seq(FrameType) /\ p \in Seq(FrameType)
            BY <1>1, <2>1
          <5> QED  BY <5>1, ConcatProperties
        <4> QED  BY <2>1, <4>1
      <3>2. (x \o p)[1] = x[1] /\ (x \o p)[2] = p[2 - 1] /\ (x \o p)[3] = p[3 - 1]
        BY <3>1
      <3> QED  BY <2>1, <3>1, <3>2
    <2>6. \A i \in 1 .. 3 : (x \o p)[i] = t[i]
      <3>1. \A i \in 1 .. 3 : i = 1 \/ i = 2 \/ i = 3
        OBVIOUS
      <3> QED  BY <2>1, <2>5, <3>1
    <2>7. x \o p = t
      BY <2>1, <2>5, <2>6, SeqEqual
    <2> QED  BY <2>4, <2>7 DEF t
  <1>3. <<a, b, c>> \in Seq(FrameType) /\ <<>> \o <<a, b, c>> = <<a, b, c>>
    OBVIOUS
  <1> HIDE DEF x, y, z
  <1>4. y \o z \in Seq(FrameType)
    BY <1>1, ConcatProperties
  <1> DEFINE T == Seq(FrameType)
  <1>5. \A u \in T, v \in T, w \in T : (u \o v) \o w = u \o (v \o w)
    BY ConcatAssociative
  <1> HIDE DEF T
  <1>6. /\ (x \o (y \o z)) \o s = x \o ((y \o z) \o s)
        /\ (y \o z) \o s = y \o (z \o s)
    BY <1>1, <1>4, <1>5 DEF T
  <1> QED  BY <1>2, <1>3, <1>5, <1>6 DEF x, y, z

\* grilio_channel_cancel_all starts.
LEMMA CancelAllWaits ==
    ASSUME TimerInv, ListInv', "response" \notin Reentrant, NEW n \in BOOLEAN, CancelAll(n)
    PROVE  TimerInv'
  <1> DEFINE a == [Frame("cancel_queue") EXCEPT !.notify = n]
             b == [Frame("cancel_retry") EXCEPT !.notify = n]
             c == Frame("cancel_end")
  <1>1. /\ a \in FrameType /\ b \in FrameType /\ c \in FrameType
        /\ a.fn = "cancel_queue" /\ b.fn = "cancel_retry" /\ c.fn = "cancel_end"
    BY FrameTyped DEF Frame, Functions
  <1>2. /\ AppRuns /\ UNCHANGED <<deadline, current_id, timeout_id, retry>>
        /\ req_table' = req_table \/ \E r : req_table' = TableWithout(r)
        /\ \/ stack' = <<a, b, c>> \o stack
           \/ \E r : stack' = Cancelled(r, n) \o <<a, b, c>> \o stack
    BY DEF CancelAll, Complete, RemoveRequest
  <1> HIDE DEF a, b, c
  <1>3. TimerStays
    BY <1>2, FewerInTable DEF TimerInv
  <1>4. /\ stack \in Seq(FrameType) /\ ResetFollows(stack) /\ GoesOn(stack)
    BY <1>2, AppGoesOn, MildCalls DEF TimerInv, ListInv, TypeOK, StackTypeOK
  <1>5. stack' = <<a>> \o (<<b>> \o (<<c>> \o stack))
    <2>1. stack' = <<a, b, c>> \o stack \/ stack' = <<>> \o <<a, b, c>> \o stack
      BY <1>2, CancelsQuietly
    <2> QED  BY <1>1, <1>4, <2>1, ThreeOnTop
  <1>6. PICK s3 \in Seq(FrameType) : s3 = <<c>> \o stack
    BY <1>1, <1>4, PushTop
  <1>7. PICK s2 \in Seq(FrameType) : s2 = <<b>> \o s3
    BY <1>1, <1>6, PushTop
  <1>8. EndNext(s3) /\ ResetFollows(s3) /\ Executing(s3) = {c.fn} \cup Executing(stack)
    BY <1>1, <1>4, <1>6, ResetPushOne DEF EndNext, GoesOn, Expiring
  <1>9. RetryNext(s2) /\ ResetFollows(s2) /\ Executing(s2) = {b.fn} \cup Executing(s3)
    BY <1>1, <1>7, <1>8, ResetPushOne DEF RetryNext, Expiring
  <1>10. /\ stack' = <<a>> \o s2
         /\ TableNext(stack') /\ ResetFollows(stack') /\ Head(stack') = a
         /\ Executing(stack') = {a.fn} \cup Executing(s2)
    BY <1>1, <1>5, <1>6, <1>7, <1>9, ResetPushOne DEF TableNext, Expiring
  <1>11. Executing(stack) \subseteq Executing(stack')
    BY <1>8, <1>9, <1>10
  <1>12. Armed'
    BY <1>3, <1>11 DEF TimerInv, Armed, TimerStays, NothingToWaitFor
  <1>13. LoopsOnTop' /\ Emptied'
    BY <1>1, <1>10 DEF LoopsOnTop, Emptied, Running
  <1> QED  BY <1>10, <1>12, <1>13 DEF TimerInv

\* Whatever the application calls.
LEMMA AppCallWaits ==
    ASSUME TimerInv, ListInv', "response" \notin Reentrant, AppCall PROVE TimerInv'
  <1>1. KnownIds \subseteq Ids
    BY DEF KnownIds
  <1>2. CASE \E n \in BOOLEAN : CancelAll(n)
    BY <1>2, CancelAllWaits
  <1>3. CASE ~\E n \in BOOLEAN : CancelAll(n)
    <2>1. TimerStays /\ GoesOn(stack')
      BY <1>1, <1>3, SendRequestWaits, CancelRequestWaits, RetryRequestWaits,
         DropRequestWaits, OtherCallsWait
      DEF AppCall
    <2> QED  BY <2>1, TimerKept
  <1> QED  BY <1>2, <1>3

-----------------------------------------------------------------------------
(* Events, and the timer.                                                  *)

LEMMA QueueAckWaits ==
    ASSUME TimerInv, NEW a \in Req, QueueAck(a) PROVE TimerStays
  <1>1. /\ status[a] = "NEW" /\ UNCHANGED <<deadline, retry, timeout_id>>
    BY DEF QueueAck
  <1>2. PICK i \in Ids : /\ current_id' = [current_id EXCEPT ![a] = i]
                         /\ req_table' = [req_table EXCEPT ![i] = a]
    BY DEF QueueAck
  <1>3. ~deadline'[a] /\ timeout_id' = timeout_id /\ retry' \subseteq retry
    BY <1>1 DEF TimerInv, ListInv, NewIsNowhere
  <1>4. req_table \in [Ids -> ReqOrNone] /\ current_id \in [Req -> 0 .. IdMax]
    BY DEF TimerInv, ListInv, TypeOK, TableTypeOK, RequestTypeOK
  <1>5. req_table' = [req_table EXCEPT ![i] = a, ![i] = a]
    BY <1>2, <1>4
  <1>6. \A s \in Req \ {a} : deadline'[s] = deadline[s] /\ current_id'[s] = current_id[s]
    BY <1>1, <1>2, <1>4
  <1> QED  BY <1>3, <1>4, <1>5, <1>6, JoinsUntimed

\* The events that bring nothing to wait for.
LEMMA EventWaits ==
    ASSUME TimerInv,
           \/ Connected \/ Disconnected \/ RequestSent
           \/ \E i \in Ids, a \in ReqOrNone : Response(i, a)
           \/ \E a \in Req : Indication(a)
           \/ \E due \in SUBSET Ids : PendingTimeout(due)
    PROVE  TimerStays /\ GoesOn(stack')
  <1>1. ASSUME Connected \/ Disconnected \/ RequestSent
                 \/ \E due \in SUBSET Ids : PendingTimeout(due)
        PROVE  TimerStays
    <2>1. UNCHANGED <<deadline, current_id, timeout_id, req_table, retry>>
      BY <1>1 DEF Connected, Disconnected, RequestSent, PendingTimeout, reqVars, tabVars, sendVars
    <2> QED  BY <2>1, FewerInTable DEF TimerInv
  <1>2. ASSUME NEW pre, Mild(pre), stack = <<>>, stack' = pre PROVE GoesOn(stack')
    BY <1>2, GoesOnCalls
  <1>3. \A kind : Mild(Call(kind) \o <<Write>>)
    BY MildCalls, MildConcat
  <1>4. CASE Connected
    BY <1>1, <1>2, <1>3, <1>4 DEF Connected, Idle
  <1>5. CASE Disconnected
    BY <1>1, <1>5, AppGoesOn, MildCalls DEF Disconnected
  <1>6. CASE RequestSent
    BY <1>1, <1>2, <1>6, MildCalls DEF RequestSent, Idle
  <1>7. CASE \E due \in SUBSET Ids : PendingTimeout(due)
    BY <1>1, <1>2, <1>7, MildCalls DEF PendingTimeout, Idle
  <1>8. CASE \E a \in Req : Indication(a)
    <2>1. PICK a \in Req : QueueAck(a) /\ Idle /\ stack' = Call("event") \o <<Write>>
      BY <1>8 DEF Indication
    <2> QED  BY <1>2, <1>3, <2>1, QueueAckWaits DEF Idle
  <1>9. CASE \E i \in Ids, a \in ReqOrNone : Response(i, a)
    <2>1. PICK i \in Ids, a \in ReqOrNone : Response(i, a)
      BY <1>9
    <2> DEFINE f == [Frame("response") EXCEPT !.ids = {i}]
    <2>2. f \in FrameType /\ f.fn = "response"
      BY FrameTyped DEF Functions, Frame
    <2>3. Idle /\ stack' = <<f>>
      BY <2>1 DEF Response
    <2> HIDE DEF f
    <2>4. GoesOn(stack')
      BY <1>2, <2>2, <2>3, MildFrames DEF Idle, CancelFns, Expiring
    <2>5. CASE a \in Req /\ QueueAck(a)
      BY <2>4, <2>5, QueueAckWaits
    <2>6. CASE UNCHANGED <<reqVars, sendVars, tabVars>>
      BY <2>4, <2>6, FewerInTable DEF TimerInv, reqVars, sendVars, tabVars
    <2> QED  BY <2>1, <2>5, <2>6 DEF Response, ReqOrNone
  <1> QED  BY <1>4, <1>5, <1>6, <1>7, <1>8, <1>9

\* The timer is set again when grilio_channel_timeout is through.
LEMMA TimeoutWaits ==
    ASSUME TimerInv, ListInv', NEW due \in SUBSET Timeable, NEW again \in SUBSET retry,
           Timeout(due, again)
    PROVE  TimerInv'
  <1> DEFINE f == [Frame("retry_due") EXCEPT !.reqs = again]
  <1>1. stack' = <<Frame("expire"), f, TimeoutReset, Write, PendingUpdate>>
    BY DEF Timeout
  <1>2. /\ Frame("expire").fn = "expire" /\ f.fn = "retry_due"
        /\ TimeoutReset.fn = "reset_timeout" /\ Write.fn = "schedule_write"
        /\ PendingUpdate.fn = "update_pending"
    BY DEF Frame, TimeoutReset, Write, PendingUpdate
  <1> HIDE DEF f
  <1>3. /\ DOMAIN stack' = 1 .. 5
        /\ stack'[1].fn = "expire" /\ stack'[2].fn = "retry_due"
        /\ stack'[3].fn = "reset_timeout" /\ stack'[4].fn = "schedule_write"
        /\ stack'[5].fn = "update_pending"
    BY <1>1, <1>2
  <1>4. \A k \in 1 .. 5 : k = 1 \/ k = 2 \/ k = 3 \/ k = 4 \/ k = 5
    OBVIOUS
  <1>5. NoLoops(stack')
    BY <1>3, <1>4 DEF NoLoops, Executing, CancelFns
  <1>6. ResetFollows(stack')
    <2>1. \A k \in 1 .. 5 : stack'[k].fn \in Expiring => k = 1
      BY <1>3, <1>4 DEF Expiring
    <2> QED  BY <1>3, <2>1 DEF ResetFollows
  <1>7. "reset_timeout" \in Executing(stack')
    BY <1>3 DEF Executing
  <1> QED  BY <1>5, <1>6, <1>7, TimerLookedAt DEF GoesOn

LEMMA EventsWait ==
    ASSUME TimerInv, ListInv', Event PROVE TimerInv'
  <1>1. CASE \E due \in SUBSET Timeable, again \in SUBSET retry : Timeout(due, again)
    BY <1>1, TimeoutWaits
  <1>2. CASE ~\E due \in SUBSET Timeable, again \in SUBSET retry : Timeout(due, again)
    BY <1>2, EventWaits, TimerKept DEF Event
  <1> QED  BY <1>1, <1>2

-----------------------------------------------------------------------------
(* The steps of the functions, and the timer.                              *)

\* Functions that end, and those that only signal.
LEMMA EndsWait ==
    ASSUME TimerInv,
           WriteStop \/ UpdatePending \/ ExpireEnd \/ RequeueEnd \/ DropPending \/ TakeRetries
    PROVE  TimerStays /\ GoesOn(stack')
  <1>1. TimerStays
    <2>1. /\ UNCHANGED <<deadline, current_id, timeout_id, req_table>> /\ retry' \subseteq retry
      BY DEF WriteStop, UpdatePending, ExpireEnd, RequeueEnd, DropPending, TakeRetries,
             reqVars, tabVars, sendVars
    <2> QED  BY <2>1, FewerInTable DEF TimerInv
  <1>2. stack # <<>> /\ Top.fn \notin CancelFns \cup {"reset_timeout"}
    BY DEF WriteStop, UpdatePending, ExpireEnd, RequeueEnd, DropPending, TakeRetries,
           Running, Top, CancelFns
  <1>3. \A pre : Mild(pre) => GoesOn(Rest) /\ GoesOn(pre \o Rest)
    BY <1>2, GoesOnCalls
  <1>4. CASE WriteStop \/ ExpireEnd \/ RequeueEnd
    BY <1>1, <1>3, <1>4, MildCalls DEF WriteStop, ExpireEnd, RequeueEnd
  <1>5. CASE UpdatePending
    <2>1. \E pre : Mild(pre) /\ stack' = pre \o Rest
      BY <1>5, MildCalls DEF UpdatePending
    <2> QED  BY <1>1, <1>3, <2>1
  <1>6. CASE DropPending
    <2>1. \E pre : Mild(pre) /\ stack' = pre \o Rest
      BY <1>6, MildCalls DEF DropPending
    <2> QED  BY <1>1, <1>3, <2>1
  <1>7. CASE TakeRetries
    <2> DEFINE f == Frame("requeue")
    <2>1. f \in FrameType /\ f.fn = "requeue"
      BY FrameTyped DEF Functions, Frame
    <2>2. stack' = <<f>> \o Rest
      BY <1>7 DEF TakeRetries
    <2> HIDE DEF f
    <2>3. Mild(<<f>>)
      BY <2>1, MildFrames DEF CancelFns, Expiring
    <2> QED  BY <1>1, <1>3, <2>2, <2>3
  <1> QED  BY <1>4, <1>5, <1>6, <1>7

\* dequeue_request.
LEMMA DequeueWaits ==
    ASSUME TimerInv, Dequeue PROVE TimerStays /\ GoesOn(stack')
  <1>1. PICK k \in DequeueIdx : Dequeue!3!(k)!2
    BY DEF Dequeue
  <1> DEFINE f == [Frame("submit") EXCEPT !.req = send_queue[k]]
  <1>2. f \in FrameType /\ f.fn = "submit"
    <2>1. send_queue \in Seq(Req) /\ k \in DOMAIN send_queue
      BY DEF TimerInv, ListInv, TypeOK, SendTypeOK, DequeueIdx, OrdinaryIdx, InternalIdx
    <2> QED  BY <2>1, InDomain, HeldTyped DEF Frame
  <1>3. \E pre : Mild(pre) /\ stack' = pre \o Rest
    <2>1. \/ stack' = <<f>> \o Rest
          \/ \E pre : Mild(pre) /\ stack' = pre \o <<f>> \o Rest
      BY <1>1, MildCalls
    <2> HIDE DEF f
    <2>2. Mild(<<f>>)
      BY <1>2, MildFrames DEF CancelFns, Expiring
    <2> QED  BY <2>1, <2>2, MildConcat
  <1>4. stack # <<>> /\ Top.fn = "schedule_write"
        /\ UNCHANGED <<deadline, current_id, timeout_id, req_table, retry>>
    BY DEF Dequeue, Running, Top
  <1>5. TimerStays
    BY <1>4, FewerInTable DEF TimerInv
  <1> QED  BY <1>3, <1>4, <1>5, GoesOnCalls DEF CancelFns

\* The request that is sent may get a deadline, and then the timer is looked at.
LEMMA SubmitWaits ==
    ASSUME TimerInv, ListInv', Submit PROVE TimerInv'
  <1>1. PICK outcome \in IF closed THEN {"ERROR"} ELSE SendOutcomes :
          Submit!3!(outcome)
    BY DEF Submit
  <1>2. stack # <<>> /\ Top.fn = "submit" /\ UNCHANGED <<current_id, retry, req_table>>
    BY DEF Submit, Running, Top
  <1>3. GoesOn(stack')
    <2>1. stack' = <<Write>> \o Rest \/ stack' = Rest
      BY <1>1
    <2> QED  BY <1>2, <2>1, GoesOnCalls, MildCalls DEF CancelFns
  <1>4. \/ /\ deadline' = deadline /\ timeout_id' = timeout_id
        \/ timeout_id' \in {HasDeadline', timeout_id \/ HasDeadline'}
    BY <1>1
  <1>5. CASE deadline' = deadline /\ timeout_id' = timeout_id
    <2>1. TimerStays
      BY <1>2, <1>5, FewerInTable DEF TimerInv
    <2> QED  BY <1>3, <2>1, TimerKept
  <1>6. CASE timeout_id' \in {HasDeadline', timeout_id \/ HasDeadline'}
    <2>1. Timeable' # {} \/ retry' # {} => HasDeadline'
      BY DEF Timeable, HasDeadline
    <2>2. timeout_id' \/ (Timeable' = {} /\ retry' = {})
      BY <1>6, <2>1
    <2> QED  BY <1>3, <2>2, TimerLookedAt
  <1> QED  BY <1>4, <1>5, <1>6

\* grilio_channel_reset_timeout.
LEMMA ResetTimeoutWaits ==
    ASSUME TimerInv, ListInv', ResetTimeout PROVE TimerInv'
  <1>1. /\ stack # <<>> /\ Top.fn = "reset_timeout" /\ stack' = Rest
        /\ UNCHANGED <<deadline, current_id, req_table, retry, block_req>>
        /\ timeout_id' = HasDeadline
    BY DEF ResetTimeout, Running, Top, reqVars, sendVars
  <1>2. NoLoops(stack') /\ ResetFollows(stack')
    BY <1>1, GoesOnRest DEF CancelFns
  <1>3. Armed'
    <2>1. Timeable # {} \/ retry # {} => HasDeadline
      BY DEF Timeable, HasDeadline
    <2> QED  BY <1>1, <2>1 DEF Armed, Timeable
  <1>4. LoopsOnTop' /\ Emptied'
    <2>1. stack' # <<>> => Head(stack').fn \in Executing(stack')
      BY PopFrame DEF ListInv, TypeOK, StackTypeOK
    <2> QED  BY <1>2, <2>1 DEF LoopsOnTop, Emptied, Running, NoLoops, CancelFns
  <1> QED  BY <1>2, <1>3, <1>4 DEF TimerInv

\* A reply: the request it completes is no longer waited for, the one that is to be
\* tried again is.
LEMMA HandleResponseWaits ==
    ASSUME TimerInv, ListInv', HandleResponse PROVE TimerInv'
  <1>1. PICK i \in Top.ids : HandleResponse!2!(i)
    BY DEF HandleResponse
  <1> DEFINE r == req_table[i]
  <1>2. stack # <<>> /\ Top.fn = "response" /\ current_id' = current_id
    BY DEF HandleResponse, Running, Top
  <1>3. GoesOn(stack')
    <2>1. \E pre : Mild(pre) /\ stack' = pre \o Rest
      <3>1. \/ stack' = <<Write, PendingUpdate>> \o Rest
            \/ stack' = Notify(r) \o <<Write, PendingUpdate>> \o Rest
        BY <1>1
      <3> QED  BY <3>1, MildCalls, MildConcat
    <2> QED  BY <1>2, <2>1, GoesOnCalls DEF CancelFns
  <1>4. CASE UNCHANGED <<deadline, req_table, retry, timeout_id>>
    <2>1. TimerStays
      BY <1>2, <1>4, FewerInTable DEF TimerInv
    <2> QED  BY <1>3, <2>1, TimerKept
  <1>5. CASE ScheduleRetry(r) /\ timeout_id' = HasDeadline'
    <2>1. retry' # {}
      BY <1>5 DEF ScheduleRetry
    <2>2. timeout_id'
      BY <1>5, <2>1 DEF HasDeadline
    <2> QED  BY <1>3, <2>2, TimerLookedAt
  <1>6. CASE Complete(r, "DONE") /\ UNCHANGED <<deadline, retry, timeout_id>>
    <2>1. TimerStays
      BY <1>2, <1>6, FewerInTable DEF TimerInv, Complete, RemoveRequest
    <2> QED  BY <1>3, <2>1, TimerKept
  <1> QED  BY <1>1, <1>4, <1>5, <1>6

\* The loop over the expired requests.
LEMMA ExpirePendingWaits ==
    ASSUME TimerInv, ExpirePending PROVE TimerStays /\ GoesOn(stack')
  <1>1. PICK r \in expired : ExpirePending!2!(r)
    BY DEF ExpirePending
  <1>2. stack # <<>> /\ Top.fn = "expire" /\ stack \in Seq(FrameType) /\ GoesOn(stack)
    <2>1. stack # <<>> /\ Top.fn = "expire"
      BY DEF ExpirePending, Running, Top
    <2> QED  BY <2>1, GoesOnRest DEF CancelFns
  <1> DEFINE f == [Frame("expire_one") EXCEPT !.req = r]
  <1>3. f \in FrameType /\ f.fn = "expire_one"
    BY HeldTyped DEF TimerInv, ListInv, TypeOK, SendTypeOK, Frame
  <1>4. stack' = <<f>> \o stack \/ \E pre : Mild(pre) /\ stack' = pre \o <<f>> \o stack
    BY <1>1, MildCalls
  <1> HIDE DEF f
  <1>5. PICK t \in Seq(FrameType) : t = <<f>> \o stack
    BY <1>2, <1>3, PushTop
  <1>6. GoesOn(t)
    <2>1. t # <<>> /\ Head(t) = f /\ Tail(t) = stack
      BY <1>2, <1>3, <1>5, PushTop
    <2>2. Executing(t) = {f.fn} \cup Executing(stack)
      BY <2>1, PopFrame
    <2>3. "reset_timeout" \in Executing(stack)
      BY <1>2, GoesOnRest DEF Expiring
    <2>4. /\ Len(t) = Len(stack) + 1 /\ Len(stack) \in Nat
          /\ DOMAIN t = 1 .. Len(t) /\ DOMAIN stack = 1 .. Len(stack)
          /\ \A i \in 1 .. Len(stack) : stack[i] = t[i + 1]
      <3>1. Len(stack) = Len(t) - 1 /\ \A i \in 1 .. Len(stack) : stack[i] = t[i + 1]
        BY <2>1, HeadTailProperties
      <3> QED  BY <1>2, <3>1, LenProperties
    <2>5. \A i \in DOMAIN stack : i + 1 \in DOMAIN t /\ i + 1 > 1 /\ t[i + 1] = stack[i]
      BY <2>4
    <2>6. ResetFollows(t)
      <3> SUFFICES ASSUME NEW k \in DOMAIN t, t[k].fn \in Expiring
                   PROVE  \E j \in DOMAIN t : j > k /\ t[j].fn = "reset_timeout"
        BY DEF ResetFollows
      <3>1. CASE k = 1
        <4>1. PICK j \in DOMAIN stack : stack[j].fn = "reset_timeout"
          BY <2>3 DEF Executing
        <4> QED  BY <2>5, <3>1, <4>1
      <3>2. CASE k # 1
        <4>1. k - 1 \in DOMAIN stack /\ t[k] = stack[k - 1]
          <5>1. k - 1 \in 1 .. Len(stack) /\ (k - 1) + 1 = k
            BY <2>4, <3>2
          <5> QED  BY <2>4, <5>1
        <4>2. PICK j \in DOMAIN stack : j > k - 1 /\ stack[j].fn = "reset_timeout"
          BY <4>1 DEF TimerInv, ResetFollows
        <4>3. j + 1 > k
          BY <2>4, <4>2
        <4> QED  BY <2>5, <4>2, <4>3
      <3> QED  BY <3>1, <3>2
    <2> QED  BY <1>2, <1>3, <2>2, <2>6 DEF GoesOn, NoLoops, CancelFns
  <1>7. GoesOn(stack')
    <2>1. stack' = t \/ \E pre : Mild(pre) /\ stack' = pre \o t
      <3>1. ASSUME NEW pre, Mild(pre) PROVE pre \o <<f>> \o stack = pre \o (<<f>> \o stack)
        <4> DEFINE e == <<f>>
        <4>1. e \in Seq(FrameType) /\ pre \in Seq(FrameType) /\ stack \in Seq(FrameType)
          BY <1>2, <1>3, <3>1 DEF Mild
        <4> HIDE DEF e
        <4>2. (pre \o e) \o stack = pre \o (e \o stack)
          BY <4>1, ConcatAssociative
        <4> QED  BY <4>2 DEF e
      <3> QED  BY <1>4, <1>5, <3>1
    <2> QED  BY <1>6, <2>1, GoesOnPush
  <1>8. UNCHANGED <<deadline, current_id, timeout_id, req_table, retry>>
    BY DEF ExpirePending, reqVars, sendVars
  <1> QED  BY <1>7, <1>8, FewerInTable DEF TimerInv

\* An expired request is tried again or over, and reset_timeout is still to come.
LEMMA ExpireOneWaits ==
    ASSUME TimerInv, ListInv', ExpireOne PROVE TimerInv'
  <1>1. stack # <<>> /\ Top.fn = "expire_one"
    BY DEF ExpireOne, Running, Top
  <1>2. "reset_timeout" \in Executing(stack)
    BY <1>1, GoesOnRest DEF Expiring
  <1>3. GoesOn(stack')
    <2>1. stack' = Rest \/ \E pre : Mild(pre) /\ stack' = pre \o Rest
      BY MildCalls DEF ExpireOne
    <2> QED  BY <1>1, <2>1, GoesOnCalls, MildCalls DEF CancelFns
  <1> QED  BY <1>2, <1>3, TimerLookedAt DEF GoesOn

\* A retry that is due goes back into the send queue.
LEMMA RequeueNextWaits ==
    ASSUME TimerInv, RequeueNext PROVE TimerStays /\ GoesOn(stack')
  <1>1. PICK r \in resend : Requeue(r)
    BY DEF RequeueNext
  <1>2. /\ r \in Req /\ ListInv /\ timeout_id' = timeout_id /\ retry' \subseteq retry
        /\ stack # <<>> /\ Top.fn = "requeue" /\ stack' = <<Write>> \o stack
    BY DEF RequeueNext, Running, Top, TimerInv, ListInv, TypeOK, SendTypeOK
  <1>3. TimerStays
    BY <1>1, <1>2, RequeueWaits
  <1> QED  BY <1>2, <1>3, GoesOnCalls, MildCalls DEF CancelFns

-----------------------------------------------------------------------------
(* The loops of grilio_channel_cancel_all, and the timer.                  *)

\* Where the loops are, according to which of them is on top.
LEMMA LoopOnTop ==
    ASSUME TimerInv, stack # <<>>
    PROVE  /\ Top.fn \in {"cancel_queue", "cancel_table"} => TableNext(stack)
           /\ Top.fn = "cancel_retry" => RetryNext(stack)
           /\ Top.fn = "cancel_end" => EndNext(stack)
           /\ Rest \in Seq(FrameType) /\ ResetFollows(Rest)
           /\ Executing(stack) = {Top.fn} \cup Executing(Rest)
  <1>1. /\ Rest \in Seq(FrameType) /\ ResetFollows(Rest)
        /\ Executing(stack) = {Top.fn} \cup Executing(Rest)
    BY GoesOnRest
  <1>2. Top.fn \in CancelFns => ~NoLoops(stack)
    BY <1>1 DEF NoLoops
  <1> QED
    BY <1>1, <1>2 DEF TimerInv, LoopsOnTop, EndNext, RetryNext, TableNext, CancelFns, Top

\* A loop cancels a request: the stack is the same afterwards.
LEMMA LoopGoesOn ==
    ASSUME TimerInv, ListInv', TimerStays, stack' = stack,
           ~Running("cancel_table"), TableLeft' \subseteq TableLeft
    PROVE  TimerInv'
  <1>1. Armed' /\ LoopsOnTop'
    BY DEF TimerInv, Armed, LoopsOnTop, TimerStays, NothingToWaitFor
  <1>2. Emptied'
    BY DEF TimerInv, Emptied, Running, TimerStays, NothingToWaitFor
  <1> QED  BY <1>1, <1>2 DEF TimerInv

\* The table has fewer entries.
LEMMA LessLeft ==
    ASSUME req_table' = req_table \/ \E r : req_table' = TableWithout(r)
    PROVE  TableLeft' \subseteq TableLeft
  BY DEF TableLeft, TableWithout

\* Quiet cancellation changes the stack as if there were no callback.
LEMMA QuietStack ==
    ASSUME "response" \notin Reentrant, NEW s \in Seq(FrameType), NEW r, NEW n
    PROVE  Cancelled(r, n) \o s = s
  BY CancelsQuietly

\* The send queue and the retry queue are emptied.
LEMMA CancelListsWait ==
    ASSUME TimerInv, ListInv', "response" \notin Reentrant, CancelQueued \/ CancelRetry
    PROVE  TimerInv'
  <1>1. /\ UNCHANGED <<deadline, current_id, timeout_id>> /\ retry' \subseteq retry
        /\ req_table' = req_table \/ \E r : req_table' = TableWithout(r)
        /\ ~Running("cancel_table")
    BY DEF CancelQueued, CancelRetry, Complete, RemoveRequest, Running
  <1>2. \E r, n : stack' = Cancelled(r, n) \o stack
    BY DEF CancelQueued, CancelRetry
  <1>3. stack' = stack
    BY <1>2, QuietStack DEF TimerInv, ListInv, TypeOK, StackTypeOK
  <1>4. TimerStays
    BY <1>1, FewerInTable DEF TimerInv
  <1>5. TableLeft' \subseteq TableLeft
    BY <1>1, LessLeft
  <1> QED  BY <1>1, <1>3, <1>4, <1>5, LoopGoesOn

\* The loop over the table takes a step, or begins.
LEMMA TableLoopGoesOn ==
    ASSUME TimerInv, ListInv', TimerStays, NEW f \in FrameType, f.fn = "cancel_table",
           stack # <<>>, Top.fn \in {"cancel_queue", "cancel_table"},
           stack' = <<f>> \o Rest, TableLeft' \subseteq f.ids
    PROVE  TimerInv'
  <1>1. /\ TableNext(stack) /\ Rest \in Seq(FrameType) /\ ResetFollows(Rest)
        /\ Executing(stack) = {Top.fn} \cup Executing(Rest)
    BY LoopOnTop
  <1>2. /\ stack' # <<>> /\ Head(stack') = f /\ Tail(stack') = Rest
        /\ ResetFollows(stack') /\ Executing(stack') = {f.fn} \cup Executing(Rest)
    BY <1>1, ResetPushOne DEF Expiring
  <1>3. LoopsOnTop'
    BY <1>1, <1>2 DEF LoopsOnTop, TableNext, Rest
  <1>4. Emptied'
    BY <1>2 DEF Emptied, Running, Top
  <1>5. Armed'
    BY <1>1, <1>2 DEF TimerInv, Armed, TimerStays, NothingToWaitFor
  <1> QED  BY <1>2, <1>3, <1>4, <1>5 DEF TimerInv

LEMMA CancelTableStartWaits ==
    ASSUME TimerInv, ListInv', CancelTableStart PROVE TimerInv'
  <1> DEFINE f == [Frame("cancel_table") EXCEPT !.ids = {i \in Ids : req_table[i] # None},
                                                !.notify = Top.notify]
  <1>1. /\ stack # <<>> /\ Top.fn = "cancel_queue" /\ stack' = <<f>> \o Rest
        /\ UNCHANGED <<deadline, current_id, timeout_id, req_table, retry>>
    BY DEF CancelTableStart, Running, Top, reqVars, tabVars, sendVars
  <1>2. Top.notify \in BOOLEAN
    BY <1>1, RestTyped DEF TimerInv, ListInv, TypeOK, StackTypeOK, Top, FrameType
  <1>3. f \in FrameType /\ f.fn = "cancel_table" /\ f.ids = TableLeft
    BY <1>2, FrameTyped DEF Functions, Frame, TableLeft
  <1> HIDE DEF f
  <1>4. TimerStays /\ TableLeft' = TableLeft
    BY <1>1, FewerInTable DEF TimerInv, TableLeft
  <1> QED  BY <1>1, <1>3, <1>4, TableLoopGoesOn

LEMMA CancelTableWaits ==
    ASSUME TimerInv, ListInv', "response" \notin Reentrant, CancelTable PROVE TimerInv'
  <1>1. PICK i \in Top.ids : CancelTable!2!(i)
    BY DEF CancelTable
  <1> DEFINE r == req_table[i]
             f == [Top EXCEPT !.ids = @ \ {i}]
  <1>2. /\ stack # <<>> /\ Top \in FrameType /\ Top.fn = "cancel_table"
        /\ Rest \in Seq(FrameType) /\ Top.ids \subseteq Ids /\ TableLeft \subseteq Top.ids
    <2>1. stack # <<>> /\ Top.fn = "cancel_table" /\ Running("cancel_table")
      BY DEF CancelTable, Running, Top
    <2>2. Top \in FrameType /\ Rest \in Seq(FrameType)
      BY <2>1, RestTyped DEF TimerInv, ListInv, TypeOK, Top
    <2> QED  BY <2>1, <2>2 DEF TimerInv, Emptied, FrameType
  <1>3. f \in FrameType /\ f.fn = "cancel_table" /\ f.ids = Top.ids \ {i}
    BY <1>2 DEF FrameType, Held
  <1>4. /\ UNCHANGED <<deadline, current_id, timeout_id, retry>>
        /\ IF r # None THEN req_table' = TableWithout(r) ELSE req_table' = req_table
    BY <1>1 DEF CancelTable, Complete, RemoveRequest, sendVars
  <1>5. TimerStays
    BY <1>4, FewerInTable DEF TimerInv
  <1>6. TableLeft' \subseteq f.ids
    <2>1. req_table'[i] = None
      <3>1. r # None => i = id[r] \/ i = current_id[r]
        BY <1>2 DEF TimerInv, ListInv, TableKeys
      <3> QED  BY <1>2, <1>4, <3>1 DEF TableWithout
    <2>2. TableLeft' \subseteq TableLeft
      BY <1>4, LessLeft
    <2> QED  BY <1>2, <1>3, <2>1, <2>2 DEF TableLeft
  <1>7. \/ stack' = <<f>> \o Rest
        \/ stack' = Cancelled(r, Top.notify) \o (<<f>> \o Rest)
    BY <1>1
  <1> HIDE DEF f, r
  <1>8. <<f>> \o Rest \in Seq(FrameType)
    BY <1>2, <1>3, PushTop
  <1>9. stack' = <<f>> \o Rest
    BY <1>7, <1>8, QuietStack
  <1> QED  BY <1>2, <1>3, <1>5, <1>6, <1>9, TableLoopGoesOn

\* The loop over the table ends when nothing of what it found is left; the one over the
\* retry queue when that is empty.
LEMMA CancelLoopEndWaits ==
    ASSUME TimerInv, ListInv', CancelLoopEnd PROVE TimerInv'
  <1>1. /\ stack # <<>> /\ stack' = Rest
        /\ UNCHANGED <<deadline, current_id, timeout_id, req_table, retry>>
        /\ \/ Top.fn = "cancel_table" /\ TableLeft = {}
           \/ Top.fn = "cancel_retry" /\ retry = {} /\ TableLeft = {}
    BY DEF CancelLoopEnd, Running, Top, reqVars, tabVars, sendVars, TimerInv, Emptied
  <1>2. ResetFollows(stack') /\ Executing(stack) = {Top.fn} \cup Executing(stack')
    BY <1>1, LoopOnTop
  <1>3. TimerStays /\ TableLeft' = TableLeft
    BY <1>1, FewerInTable DEF TimerInv, TableLeft
  <1>4. Armed'
    BY <1>1, <1>2, <1>3 DEF TimerInv, Armed, TimerStays, NothingToWaitFor
  <1>5. CASE Top.fn = "cancel_table" /\ TableLeft = {}
    <2>1. RetryNext(stack')
      BY <1>1, <1>5, LoopOnTop DEF TableNext, Rest
    <2>2. LoopsOnTop' /\ Emptied'
      BY <1>3, <1>5, <2>1 DEF LoopsOnTop, Emptied, Running, RetryNext
    <2> QED  BY <1>2, <1>4, <2>2 DEF TimerInv
  <1>6. CASE Top.fn = "cancel_retry" /\ retry = {} /\ TableLeft = {}
    <2>1. EndNext(stack')
      BY <1>1, <1>6, LoopOnTop DEF RetryNext, Rest
    <2>2. LoopsOnTop' /\ Emptied'
      BY <1>1, <1>3, <1>6, <2>1 DEF LoopsOnTop, Emptied, Running, EndNext
    <2> QED  BY <1>2, <1>4, <2>2 DEF TimerInv
  <1> QED  BY <1>1, <1>5, <1>6

\* "We no longer need the timer."
LEMMA CancelAllEndWaits ==
    ASSUME TimerInv, ListInv', CancelAllEnd PROVE TimerInv'
  <1>1. /\ stack # <<>> /\ Top.fn = "cancel_end" /\ stack' = Rest
        /\ UNCHANGED <<deadline, current_id, req_table, retry>>
        /\ TableLeft = {} /\ retry = {}
    BY DEF CancelAllEnd, Running, Top, reqVars, sendVars, TimerInv, Emptied
  <1>2. ResetFollows(stack') /\ NoLoops(stack')
    BY <1>1, LoopOnTop DEF EndNext, Rest
  <1>3. "reset_timeout" \in Executing(stack) => "reset_timeout" \in Executing(stack')
    BY <1>1, LoopOnTop
  <1>4. Timeable' = {} /\ retry' = {}
    <2>1. \A i \in Ids : req_table'[i] \notin Req
      BY <1>1 DEF TableLeft
    <2> QED  BY <1>1, <2>1 DEF Timeable
  <1> QED  BY <1>2, <1>3, <1>4, TimerLookedAt DEF GoesOn

\* Every step keeps the invariant.
LEMMA TimerInvStep ==
    ASSUME TimerInv, [Next]_vars, "response" \notin Reentrant PROVE TimerInv'
  <1>1. ListInv'
    BY AppCallSound, EventSound, StepSound, StutterSound DEF TimerInv, Next
  <1>2. CASE AppCall
    BY <1>1, <1>2, AppCallWaits
  <1>3. CASE Event
    BY <1>1, <1>3, EventsWait
  <1>4. CASE Step
    <2>1. ASSUME \/ WriteStop \/ UpdatePending \/ ExpireEnd \/ RequeueEnd \/ DropPending
                 \/ TakeRetries \/ Dequeue \/ ExpirePending \/ RequeueNext
          PROVE  TimerInv'
      <3>1. TimerStays /\ GoesOn(stack')
        BY <2>1, EndsWait, DequeueWaits, ExpirePendingWaits, RequeueNextWaits
      <3> QED  BY <1>1, <3>1, TimerKept
    <2>2. ASSUME CancelQueued \/ CancelTableStart \/ CancelTable \/ CancelRetry
                   \/ CancelLoopEnd \/ CancelAllEnd
          PROVE  TimerInv'
      BY <1>1, <2>2, CancelListsWait, CancelTableStartWaits, CancelTableWaits,
         CancelLoopEndWaits, CancelAllEndWaits
    <2>3. ASSUME Submit \/ ResetTimeout \/ HandleResponse \/ ExpireOne PROVE TimerInv'
      BY <1>1, <2>3, SubmitWaits, ResetTimeoutWaits, HandleResponseWaits, ExpireOneWaits
    <2> QED  BY <1>4, <2>1, <2>2, <2>3 DEF Step
  <1>5. CASE UNCHANGED vars
    <2>1. UNCHANGED <<deadline, current_id, timeout_id, retry, req_table, stack>>
      BY <1>5 DEF vars, reqVars, tabVars, sendVars
    <2> QED
      BY <1>1, <2>1
      DEF TimerInv, Armed, Timeable, LoopsOnTop, NoLoops, EndNext, RetryNext, TableNext,
          Emptied, TableLeft, Running, Top
  <1> QED  BY <1>2, <1>3, <1>4, <1>5 DEF Next

\* What the request timer rests on: a deadline that is set in the middle of a handler
\* is seen before the main loop gets control again.
THEOREM TimerInvHolds ==
    ASSUME "response" \notin Reentrant
    PROVE  Spec => []TimerInv
  <1>1. Init => TimerInv
    <2> SUFFICES ASSUME Init PROVE TimerInv
      OBVIOUS
    <2>1. ListInv
      BY InitSound
    <2>2. Timeable = {} /\ retry = {} /\ stack = <<>> /\ Executing(stack) = {}
      BY DEF Init, Timeable, Executing
    <2> QED
      BY <2>1, <2>2
      DEF TimerInv, Armed, ResetFollows, LoopsOnTop, NoLoops, Emptied, Running
  <1>2. TimerInv /\ [Next]_vars => TimerInv'
    BY TimerInvStep
  <1> QED  BY <1>1, <1>2, PTL DEF Spec

\* Unless the application calls the channel from a response callback, the timer runs
\* whenever the main loop has control and a request may time out or waits for its next
\* try, whichever function set the deadline and whatever the other handlers did.
THEOREM TimerIsArmed ==
    ASSUME "response" \notin Reentrant
    PROVE  Spec => []TimerArmed
  <1>1. TimerInv => TimerArmed
    <2>1. stack = <<>> => Executing(stack) = {}
      BY DEF Executing
    <2> QED  BY <2>1 DEF TimerInv, Armed, TimerArmed
  <1> QED  BY <1>1, TimerInvHolds, PTL
=============================================================================
