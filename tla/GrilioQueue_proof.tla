------------------------- MODULE GrilioQueue_proof --------------------------
(***************************************************************************)
(* What holds of the request engine together with queues and transactions: *)
(* its lists stay sound, the queues that wait for the channel stay sound,  *)
(* a queue holds live requests only, and transactions are isolated.        *)
(***************************************************************************)
EXTENDS GrilioQueue, GrilioChannelSignals_proof

USE NoneAssumption, IdAssumption, OptionAssumption, BoundAssumption
USE DEF NoneAssumption, IdAssumption, OptionAssumption, BoundAssumption

-----------------------------------------------------------------------------
(* What the engine does to queues, owners and requests.                    *)

Alive == {"QUEUED", "SENDING", "SENT", "RETRY"}

\* A step by which no queue becomes the owner or stops waiting, and by which requests
\* leave their queues or remain there alive.
QueuesKept ==
    /\ UNCHANGED <<owner, owner_queue>>
    /\ \A r \in Req :
        /\ queue'[r] \in {queue[r], None}
        /\ id'[r] \in {id[r]} \cup Ids
        /\ queue'[r] = None \/ status'[r] = status[r] \/ status'[r] \in Alive

\* A request that was submitted never becomes a new one, and stays the way it was set up.
NoneRenewed ==
    \A r \in Req : status[r] # "NEW" => status'[r] # "NEW" /\ prof'[r] = prof[r]

\* Requests, queues and owners are not changed at all.
LEMMA SameRequests ==
    ASSUME UNCHANGED <<owner, owner_queue, queue, id, status, prof>>
    PROVE  QueuesKept /\ NoneRenewed
  BY DEF QueuesKept, NoneRenewed

\* A request that is over has left its queue.
LEMMA CompleteKeepsQueues ==
    ASSUME TypeOK, NEW r \in Req, NEW final \in {"DONE", "CANCELLED"}, Complete(r, final),
           UNCHANGED <<owner, owner_queue, id, prof>>
    PROVE  QueuesKept /\ NoneRenewed
  BY DEF Complete, RemoveRequest, QueuesKept, NoneRenewed, TypeOK, RequestTypeOK

\* A request that goes on is alive.
LEMMA LiveKeepsQueues ==
    ASSUME TypeOK, NEW r \in Req, NEW s \in Alive, status' = [status EXCEPT ![r] = s],
           UNCHANGED <<owner, owner_queue, queue, id, prof>>
    PROVE  QueuesKept /\ NoneRenewed
  BY DEF Alive, QueuesKept, NoneRenewed, TypeOK, RequestTypeOK

\* A request that gets its id is queued for the first time.
LEMMA AckKeepsQueues ==
    ASSUME TypeOK, NEW a \in Req, QueueAck(a), UNCHANGED <<owner, owner_queue>>
    PROVE  QueuesKept /\ NoneRenewed
  BY DEF QueueAck, Alive, QueuesKept, NoneRenewed, TypeOK, RequestTypeOK

\* requeue_request does not end a request.
LEMMA RequeueKeepsQueues ==
    ASSUME TypeOK, NEW r \in Req, Requeue(r),
           UNCHANGED <<owner, owner_queue, queue, id, prof>>
    PROVE  QueuesKept /\ NoneRenewed
  BY LiveKeepsQueues, "QUEUED" \in Alive DEF Requeue, Alive

\* cancel_request completes a request or finds none.
LEMMA CancelThenKeepsQueues ==
    ASSUME TypeOK, NEW i \in Ids, NEW n, NEW after, CancelThen(i, n, after)
    PROVE  QueuesKept /\ NoneRenewed
  <1>1. UNCHANGED <<owner, owner_queue, id, prof>>
    BY DEF CancelThen, txnVars
  <1>2. \/ UNCHANGED <<status, queue>>
        \/ \E r \in Req : Complete(r, "CANCELLED")
    <2>1. /\ send_req # None => send_req \in Req
          /\ \A k \in DOMAIN send_queue : send_queue[k] \in Req
          /\ req_table[i] # None => req_table[i] \in Req
          /\ retry \subseteq Req
      BY InDomain DEF TypeOK, SendTypeOK, TableTypeOK, ReqOrNone
    <2> QED  BY <2>1 DEF CancelThen
  <1> QED  BY <1>1, <1>2, CompleteKeepsQueues, SameRequests

\* Every call of the application but the submission of a request.
LEMMA AppCallKeepsQueues ==
    ASSUME TypeOK, AppCall
    PROVE  QueuesKept /\ NoneRenewed
  <1>1. ASSUME NEW r \in Req, NEW p \in Profiles, SendRequest(r, p)
        PROVE  QueuesKept /\ NoneRenewed
    BY <1>1 DEF SendRequest, SendThrough, txnVars, Alive, QueuesKept, NoneRenewed,
                TypeOK, RequestTypeOK
  <1>2. ASSUME NEW i \in KnownIds, NEW n \in BOOLEAN, CancelRequest(i, n)
        PROVE  QueuesKept /\ NoneRenewed
    BY <1>2, CancelThenKeepsQueues DEF CancelRequest, KnownIds
  <1>3. ASSUME NEW n \in BOOLEAN, CancelAll(n)
        PROVE  QueuesKept /\ NoneRenewed
    <2>1. UNCHANGED <<owner, owner_queue, id, prof>>
      BY <1>3 DEF CancelAll, txnVars
    <2>2. UNCHANGED <<status, queue>> \/ (send_req \in Req /\ Complete(send_req, "CANCELLED"))
      BY <1>3 DEF CancelAll, TypeOK, SendTypeOK, ReqOrNone
    <2> QED  BY <2>1, <2>2, CompleteKeepsQueues, SameRequests
  <1>4. ASSUME NEW i \in KnownIds, RetryRequest(i)
        PROVE  QueuesKept /\ NoneRenewed
    BY <1>4, RequeueKeepsQueues DEF RetryRequest, txnVars, TypeOK, SendTypeOK
  <1>5. ASSUME NEW i \in KnownIds, DropRequest(i)
        PROVE  QueuesKept /\ NoneRenewed
    BY <1>5, CancelThenKeepsQueues DEF DropRequest, KnownIds
  <1>6. CASE Serialize \/ Deserialize \/ AppReturns
    BY <1>6, SameRequests DEF Serialize, Deserialize, AppReturns, reqVars, txnVars
  <1> QED  BY <1>1, <1>2, <1>3, <1>4, <1>5, <1>6 DEF AppCall

\* Every event of the main loop.
LEMMA EventKeepsQueues ==
    ASSUME TypeOK, Event
    PROVE  QueuesKept /\ NoneRenewed
  <1>1. CASE Connected \/ Disconnected
    BY <1>1, SameRequests DEF Connected, Disconnected, reqVars, txnVars
  <1>2. CASE RequestSent
    <2>1. tx.req \in Req /\ UNCHANGED <<owner, owner_queue, queue, id, prof>>
      BY <1>2 DEF RequestSent, TypeOK, EnvTypeOK, txnVars, tabVars
    <2>2. status' = status \/ status' = [status EXCEPT ![tx.req] = "SENT"]
      BY <1>2 DEF RequestSent
    <2> QED  BY <2>1, <2>2, SameRequests, LiveKeepsQueues, "SENT" \in Alive DEF Alive
  <1>3. ASSUME NEW i \in Ids, NEW a \in ReqOrNone, Response(i, a)
        PROVE  QueuesKept /\ NoneRenewed
    <2>1. CASE a = None
      BY <1>3, <2>1, SameRequests DEF Response, reqVars, txnVars
    <2>2. CASE a # None
      BY <1>3, <2>2, AckKeepsQueues DEF Response, txnVars, ReqOrNone
    <2> QED  BY <2>1, <2>2
  <1>4. ASSUME NEW a \in Req, Indication(a)
        PROVE  QueuesKept /\ NoneRenewed
    BY <1>4, AckKeepsQueues DEF Indication, txnVars
  <1>5. ASSUME NEW due, NEW again, Timeout(due, again)
        PROVE  QueuesKept /\ NoneRenewed
    BY <1>5, SameRequests DEF Timeout, txnVars
  <1>6. ASSUME NEW due, PendingTimeout(due)
        PROVE  QueuesKept /\ NoneRenewed
    BY <1>6, SameRequests DEF PendingTimeout, reqVars, txnVars
  <1> QED  BY <1>1, <1>2, <1>3, <1>4, <1>5, <1>6 DEF Event

\* dequeue_request changes no queue and no owner.
LEMMA DequeueKeepsQueues ==
    ASSUME TypeOK, Dequeue
    PROVE  QueuesKept /\ NoneRenewed
  <1>1. PICK k \in DequeueIdx :
          /\ status' = [status EXCEPT ![send_queue[k]] = "SENDING"]
          /\ UNCHANGED <<owner, owner_queue, queue, id, prof>>
    BY DEF Dequeue, txnVars
  <1>2. send_queue[k] \in Req
    <2>1. send_queue \in Seq(Req) /\ k \in DOMAIN send_queue
      BY DEF TypeOK, SendTypeOK, DequeueIdx, OrdinaryIdx, InternalIdx
    <2> QED  BY <2>1, InDomain
  <1> QED  BY <1>1, <1>2, LiveKeepsQueues, "SENDING" \in Alive DEF Alive

\* Every step of a function of the engine.
LEMMA StepKeepsQueues ==
    ASSUME ListInv, Step
    PROVE  QueuesKept /\ NoneRenewed
  <1>0. TypeOK
    BY DEF ListInv
  <1>1. CASE WriteStop \/ UpdatePending \/ ResetTimeout \/ ExpirePending \/ ExpireEnd
             \/ TakeRetries \/ RequeueEnd \/ DropPending \/ CancelTableStart
             \/ CancelLoopEnd \/ CancelAllEnd
    <2>1. CASE WriteStop \/ UpdatePending \/ ResetTimeout \/ ExpirePending
      BY <2>1, SameRequests
      DEF WriteStop, UpdatePending, ResetTimeout, ExpirePending, reqVars, txnVars
    <2>2. CASE ExpireEnd \/ TakeRetries \/ RequeueEnd \/ DropPending
      BY <2>2, SameRequests
      DEF ExpireEnd, TakeRetries, RequeueEnd, DropPending, reqVars, txnVars
    <2>3. CASE CancelTableStart \/ CancelLoopEnd \/ CancelAllEnd
      BY <2>3, SameRequests
      DEF CancelTableStart, CancelLoopEnd, CancelAllEnd, reqVars, txnVars
    <2> QED  BY <1>1, <2>1, <2>2, <2>3
  <1>2. CASE Submit
    <2>1. Top.req \in Req /\ UNCHANGED <<owner, owner_queue, id, prof>>
      <3>1. Top.req \in Req
        BY <1>2, PopSound DEF Submit
      <3> QED  BY <1>2, <3>1 DEF Submit, txnVars
    <2>2. queue' = queue \/ queue' = [queue EXCEPT ![Top.req] = None]
      BY <1>2 DEF Submit
    <2>3. status' = status \/ status' = [status EXCEPT ![Top.req] = "SENT"]
      BY <1>2 DEF Submit
    <2>4. \A r \in Req : queue'[r] \in {queue[r], None}
                         /\ (status'[r] = status[r] \/ status'[r] = "SENT")
      BY <1>0, <2>1, <2>2, <2>3 DEF TypeOK, RequestTypeOK
    <2> QED  BY <2>1, <2>4 DEF QueuesKept, NoneRenewed, Alive
  <1>3. CASE HandleResponse
    <2>1. UNCHANGED <<owner, owner_queue, id, prof>>
      BY <1>3 DEF HandleResponse, txnVars
    <2>2. PICK i \in Top.ids : LET r == req_table[i]
                               IN  \/ UNCHANGED <<status, queue>>
                                   \/ /\ Answered(r)
                                      /\ \/ ScheduleRetry(r) /\ UNCHANGED queue
                                         \/ Complete(r, "DONE")
      BY <1>3 DEF HandleResponse
    <2>3. i \in Ids
      BY <1>0, <1>3, RestTyped DEF HandleResponse, Running, TypeOK, FrameType
    <2>4. Answered(req_table[i]) => req_table[i] \in Req
      BY <1>0, <2>3 DEF Answered, TypeOK, TableTypeOK, ReqOrNone
    <2>5. CASE UNCHANGED <<status, queue>>
      BY <2>1, <2>5, SameRequests
    <2>6. CASE Answered(req_table[i]) /\ ScheduleRetry(req_table[i]) /\ UNCHANGED queue
      BY <1>0, <2>1, <2>4, <2>6, LiveKeepsQueues, "RETRY" \in Alive
      DEF ScheduleRetry, Alive
    <2>7. CASE Answered(req_table[i]) /\ Complete(req_table[i], "DONE")
      BY <1>0, <2>1, <2>4, <2>7, CompleteKeepsQueues
    <2> QED  BY <2>2, <2>5, <2>6, <2>7
  <1>4. CASE ExpireOne
    <2>1. Top.req \in Req /\ UNCHANGED <<owner, owner_queue, id, prof>>
      <3>1. Top.req \in Req
        BY <1>4, PopSound DEF ExpireOne
      <3> QED  BY <1>4, <3>1 DEF ExpireOne, txnVars
    <2>2. \/ ScheduleRetry(Top.req) /\ UNCHANGED queue
          \/ Complete(Top.req, "DONE")
      BY <1>4 DEF ExpireOne
    <2> QED  BY <1>0, <2>1, <2>2, LiveKeepsQueues, CompleteKeepsQueues, "RETRY" \in Alive
             DEF ScheduleRetry, Alive
  <1>5. CASE RequeueNext
    BY <1>0, <1>5, RequeueKeepsQueues DEF RequeueNext, txnVars, TypeOK, SendTypeOK
  <1>6. CASE CancelQueued
    <2>1. Head(send_queue) \in Req
      BY <1>0, <1>6, HeadTailProperties DEF CancelQueued, TypeOK, SendTypeOK
    <2> QED  BY <1>0, <1>6, <2>1, CompleteKeepsQueues DEF CancelQueued, txnVars
  <1>7. CASE CancelTable
    <2>1. UNCHANGED <<owner, owner_queue, id, prof>>
      BY <1>7 DEF CancelTable, txnVars
    <2>2. PICK i \in Top.ids : \/ UNCHANGED <<status, queue>>
                               \/ req_table[i] # None /\ Complete(req_table[i], "CANCELLED")
      BY <1>7 DEF CancelTable
    <2>3. i \in Ids
      BY <1>0, <1>7, RestTyped DEF CancelTable, Running, TypeOK, FrameType
    <2>4. req_table[i] # None => req_table[i] \in Req
      BY <1>0, <2>3 DEF TypeOK, TableTypeOK, ReqOrNone
    <2> QED  BY <1>0, <2>1, <2>2, <2>4, CompleteKeepsQueues, SameRequests
  <1>8. CASE CancelRetry
    BY <1>0, <1>8, CompleteKeepsQueues DEF CancelRetry, txnVars, TypeOK, SendTypeOK
  <1>9. CASE Dequeue
    BY <1>0, <1>9, DequeueKeepsQueues
  <1> QED  BY <1>1, <1>2, <1>3, <1>4, <1>5, <1>6, <1>7, <1>8, <1>9 DEF Step

\* Every step of the engine.
LEMMA EngineKeepsQueues ==
    ASSUME ListInv, Next
    PROVE  QueuesKept /\ NoneRenewed
  BY AppCallKeepsQueues, EventKeepsQueues, StepKeepsQueues
  DEF Next, ListInv

-----------------------------------------------------------------------------
(* The lists of the engine, under the operations on queues.                *)

\* A request that is in a queue has the id it was submitted under.
MembersHaveIds == \A r \in Req : queue[r] # None => id[r] \in Ids

\* The frames of grilio_queue_cancel_all are typed and hold no request.
LEMMA QueueFramePlain ==
    ASSUME NEW f \in {"queue_cancel_all", "queue_cancel"}, NEW n \in BOOLEAN,
           NEW q \in Queue, NEW I \in SUBSET Ids
    PROVE  /\ [Frame("queue_cancel_all") EXCEPT !.queue = q, !.notify = n] \in FrameType
           /\ Plain(<<[Frame("queue_cancel_all") EXCEPT !.queue = q, !.notify = n]>>)
           /\ [Frame("queue_cancel") EXCEPT !.ids = I, !.notify = n] \in FrameType
           /\ Plain(<<[Frame("queue_cancel") EXCEPT !.ids = I, !.notify = n]>>)
  <1> DEFINE a == [Frame("queue_cancel_all") EXCEPT !.queue = q, !.notify = n]
             c == [Frame("queue_cancel") EXCEPT !.ids = I, !.notify = n]
  <1>1. a \in FrameType /\ c \in FrameType
    BY DEF Frame, FrameType, Held, ReqOrNone, Functions
  <1>2. a.fn = "queue_cancel_all" /\ c.fn = "queue_cancel"
    BY DEF Frame
  <1> HIDE DEF a, c
  <1>3. Plain(<<a>>) /\ Plain(<<c>>)
    BY <1>1, <1>2, PlainFrame
  <1> QED  BY <1>1, <1>3 DEF a, c

\* A step that touches nothing that the lists depend on, and keeps the types.
LEMMA ListsKept ==
    ASSUME ListInv, NEW stk \in Seq(FrameType), stack' = stk, Keeps(stk),
           queue' \in [Req -> Queue \cup {None}],
           owner' \in Queue \cup {None}, owner_queue' \in Seq(Queue),
           UNCHANGED <<prof, status, id, current_id, retry_count, deadline, sendVars,
                       tabVars, block_ids, tmoVars, envVars, replies>>
    PROVE  ListInv'
  <1>1. TypeOK'
    BY DEF ListInv, TypeOK, RequestTypeOK, SendTypeOK, TableTypeOK, EnvTypeOK, StackTypeOK,
           sendVars, tabVars, tmoVars, envVars
  <1> QED  BY <1>1, SameListsKept DEF sendVars, tabVars, tmoVars

\* g_slist_remove takes an element of a list without repetitions off it, or does nothing.
LEMMA RemoveFirstOne ==
    ASSUME NEW S, NEW s \in Seq(S), IsInjective(s), NEW e
    PROVE  \/ e \notin Range(s) /\ RemoveFirst(s, e) = s
           \/ \E k \in DOMAIN s : s[k] = e /\ RemoveFirst(s, e) = RemoveAt(s, k)
  <1>1. DOMAIN s = 1 .. Len(s)
    BY LenProperties
  <1>2. CASE e \notin Range(s)
    BY <1>1, <1>2 DEF RemoveFirst, Range
  <1>3. CASE e \in Range(s)
    <2>1. PICK k \in 1 .. Len(s) : s[k] = e
      BY <1>1, <1>3 DEF Range
    <2>2. {j \in 1 .. Len(s) : s[j] = e} = {k}
      BY <1>1, <2>1 DEF IsInjective
    <2>3. Min({k}) = k
      BY <2>1 DEF Min
    <2>4. RemoveFirst(s, e) = RemoveAt(s, k)
      BY <2>1, <2>2, <2>3 DEF RemoveFirst, SelectInSeq
    <2> QED  BY <1>1, <2>1, <2>4
  <1> QED  BY <1>2, <1>3

\* The conditions on owner and owner_queue, in the terms of the lemmas on sequences.
Owners(o, oq) ==
    /\ o \in Queue \cup {None} /\ oq \in Seq(Queue)
    /\ o = None => oq = <<>>
    /\ o \notin Range(oq)
    /\ IsInjective(oq)

\* OwnerQueueSound says the same.
LEMMA OwnersSound == TypeOK => (OwnerQueueSound <=> Owners(owner, owner_queue))
  <1> SUFFICES ASSUME TypeOK  PROVE OwnerQueueSound <=> Owners(owner, owner_queue)
    OBVIOUS
  <1>1. ToSet(owner_queue) = Range(owner_queue)
    BY DEF ToSet, Range
  <1> QED  BY <1>1 DEF OwnerQueueSound, Owners, IsInjective, TypeOK, TableTypeOK

\* transaction_finish: the next queue that waits becomes the owner, or q no longer waits.
LEMMA FinishSound ==
    ASSUME ListInv, Owners(owner, owner_queue), AppRuns, NEW q \in Queue,
           FinishTransaction(q)
    PROVE  /\ Owners(owner', owner_queue')
           /\ stack' \in Seq(FrameType) /\ Keeps(stack')
  <1>1. /\ owner_queue \in Seq(Queue) /\ IsInjective(owner_queue)
        /\ stack \in Seq(FrameType)
    BY DEF ListInv, TypeOK, StackTypeOK, Owners
  <1>2. CASE owner = q
    <2>1. Owners(owner', owner_queue')
      <3>1. CASE owner_queue = <<>>
        <4>1. owner' = None /\ owner_queue' = <<>>
          BY <1>2, <3>1 DEF FinishTransaction
        <4>2. Range(<<>>) = {} /\ IsInjective(<<>>) /\ <<>> \in Seq(Queue)
          BY DEF Range, IsInjective
        <4> QED  BY <4>1, <4>2 DEF Owners
      <3>2. CASE owner_queue # <<>>
        <4>1. owner' = Head(owner_queue) /\ owner_queue' = Tail(owner_queue)
          BY <1>2, <3>2 DEF FinishTransaction
        <4>2. /\ Head(owner_queue) \in Queue /\ Tail(owner_queue) \in Seq(Queue)
              /\ IsInjective(Tail(owner_queue))
              /\ Head(owner_queue) \notin Range(Tail(owner_queue))
          BY <1>1, <3>2, HeadTailProperties, TailInjection
        <4> QED  BY <4>1, <4>2 DEF Owners
      <3> QED  BY <3>1, <3>2
    <2>2. Plain(Call("owner") \o <<Write>>)
      BY PlainCalls, PlainConcat
    <2>3. stack' = (Call("owner") \o <<Write>>) \o stack
      BY <1>2 DEF FinishTransaction
    <2>4. stack' \in Seq(FrameType)
      BY <1>1, <2>2, <2>3, ConcatProperties DEF Plain
    <2> QED  BY <2>1, <2>2, <2>3, <2>4, AppRunsKeeps
  <1>3. CASE owner # q
    <2>1. owner' = owner /\ stack' = stack /\ owner_queue' = RemoveFirst(owner_queue, q)
      BY <1>3 DEF FinishTransaction
    <2>2. CASE owner_queue' = owner_queue
      BY <1>1, <2>1, <2>2, AppRunsKeeps, PlainCalls
    <2>3. ASSUME NEW k \in DOMAIN owner_queue, owner_queue' = RemoveAt(owner_queue, k)
          PROVE  Owners(owner', owner_queue')
      <3>1. /\ owner_queue' \in Seq(Queue) /\ IsInjective(owner_queue')
            /\ Range(owner_queue') \subseteq Range(owner_queue)
        BY <1>1, <2>3, RemoveAtProperties, RemoveAtInjection
      <3>2. owner # None
        BY <2>3, LenProperties DEF Owners
      <3> QED  BY <2>1, <3>1, <3>2 DEF Owners
    <2> QED  BY <1>1, <2>1, <2>2, <2>3, RemoveFirstOne, AppRunsKeeps, PlainCalls
  <1> QED  BY <1>2, <1>3

\* transaction_start: q becomes the owner of a free channel, or waits behind the others.
LEMMA StartSound ==
    ASSUME ListInv, Owners(owner, owner_queue), NEW q \in Queue, TransactionStart(q)
    PROVE  /\ Owners(owner', owner_queue')
           /\ stack' \in Seq(FrameType) /\ Keeps(stack')
  <1>1. /\ owner_queue \in Seq(Queue) /\ IsInjective(owner_queue)
        /\ stack \in Seq(FrameType) /\ AppRuns
    BY DEF ListInv, TypeOK, StackTypeOK, Owners, TransactionStart
  <1>2. CASE owner = None
    <2>1. owner' = q /\ owner_queue' = owner_queue /\ stack' = Call("owner") \o stack
      BY <1>2 DEF TransactionStart
    <2>2. owner_queue = <<>> /\ Range(<<>>) = {}
      BY <1>2 DEF Owners, Range
    <2>3. stack' \in Seq(FrameType)
      BY <1>1, <2>1, PlainCalls, ConcatProperties DEF Plain
    <2> QED  BY <1>1, <2>1, <2>2, <2>3, AppRunsKeeps, PlainCalls DEF Owners
  <1>3. CASE owner # None
    <2>1. owner' = owner /\ stack' = stack
      BY <1>3 DEF TransactionStart
    <2>2. \/ owner_queue' = owner_queue
          \/ /\ owner # q /\ q \notin Range(owner_queue)
             /\ owner_queue' = Append(owner_queue, q)
      BY <1>3 DEF TransactionStart, ToSet, Range
    <2>3. Owners(owner', owner_queue')
      <3>1. CASE owner_queue' = owner_queue
        BY <2>1, <3>1
      <3>2. CASE /\ owner # q /\ q \notin Range(owner_queue)
                 /\ owner_queue' = Append(owner_queue, q)
        <4>1. /\ owner_queue' \in Seq(Queue) /\ IsInjective(owner_queue')
              /\ Range(owner_queue') = Range(owner_queue) \cup {q}
          BY <1>1, <3>2, AppendProperties, AppendInjection
        <4> QED  BY <1>3, <2>1, <3>2, <4>1 DEF Owners
      <3> QED  BY <2>2, <3>1, <3>2
    <2> QED  BY <1>1, <2>1, <2>3, AppRunsKeeps, PlainCalls
  <1> QED  BY <1>2, <1>3

-----------------------------------------------------------------------------
(* The invariant of the channel with its queues.                           *)

QueueInv == /\ ListInv
            /\ Owners(owner, owner_queue)
            /\ QueueHoldsLive
            /\ MembersHaveIds

\* What the engine, or a call that completes requests, does to queues.
LEMMA QueuesKeptSound ==
    ASSUME QueueInv, ListInv', QueuesKept
    PROVE  QueueInv'
  <1>1. QueueHoldsLive'
    <2> SUFFICES ASSUME NEW r \in Req, queue'[r] # None
                 PROVE  status'[r] \notin {"NEW", "DONE", "CANCELLED"}
      BY DEF QueueHoldsLive
    <2> QED  BY DEF QueueInv, QueueHoldsLive, QueuesKept, Alive
  <1>2. MembersHaveIds'
    BY DEF QueueInv, MembersHaveIds, QueuesKept
  <1> QED  BY <1>1, <1>2 DEF QueueInv, QueuesKept

\* The operations that change only queue, owner, owner_queue and the stack.
LEMMA MembershipSound ==
    ASSUME QueueInv, Owners(owner', owner_queue'),
           stack' \in Seq(FrameType), Keeps(stack'),
           \A r \in Req : queue'[r] \in {queue[r], None},
           queue' \in [Req -> Queue \cup {None}],
           UNCHANGED <<prof, status, id, current_id, retry_count, deadline, sendVars,
                       tabVars, block_ids, tmoVars, envVars, replies>>
    PROVE  QueueInv'
  <1>1. ListInv'
    BY ListsKept DEF QueueInv, Owners
  <1>2. QueueHoldsLive' /\ MembersHaveIds'
    BY DEF QueueInv, QueueHoldsLive, MembersHaveIds
  <1> QED  BY <1>1, <1>2 DEF QueueInv

\* A request enters its queue alive and with an id.
LEMMA QueueSendRequestSound ==
    ASSUME QueueInv, NEW q \in Queue, NEW r \in Req, NEW p \in Profiles,
           QueueSendRequest(q, r, p)
    PROVE  QueueInv'
  <1>1. SendThrough(r, p, q)
    BY DEF QueueSendRequest
  <1>2. ListInv'
    BY <1>1, SendThroughSound DEF QueueInv
  <1>3. PICK i \in Ids : id' = [id EXCEPT ![r] = i]
    BY <1>1 DEF SendThrough
  <1>4. /\ queue' = [queue EXCEPT ![r] = q] /\ status' = [status EXCEPT ![r] = "QUEUED"]
        /\ UNCHANGED <<owner, owner_queue>>
    BY <1>1 DEF SendThrough, txnVars
  <1>5. \A s \in Req : \/ s = r /\ status'[s] = "QUEUED" /\ id'[s] = i
                       \/ queue'[s] = queue[s] /\ status'[s] = status[s] /\ id'[s] = id[s]
    BY <1>3, <1>4 DEF QueueInv, ListInv, TypeOK, RequestTypeOK
  <1>6. QueueHoldsLive' /\ MembersHaveIds'
    BY <1>5 DEF QueueInv, QueueHoldsLive, MembersHaveIds
  <1> QED  BY <1>2, <1>4, <1>6 DEF QueueInv

\* Queues are cancelled through cancel_request.
LEMMA QueueCancelSound ==
    ASSUME QueueInv, NEW i \in Ids, NEW n \in BOOLEAN, NEW after \in Seq(FrameType),
           Keeps(after), CancelThen(i, n, after)
    PROVE  QueueInv'
  BY CancelThenSound, CancelThenKeepsQueues, QueuesKeptSound DEF QueueInv, ListInv

\* A single request of a queue is cancelled.
LEMMA QueueCancelRequestSound ==
    ASSUME QueueInv, NEW q \in Queue, NEW i \in KnownIds, NEW n \in BOOLEAN,
           QueueCancelRequest(q, i, n)
    PROVE  QueueInv'
  <1>1. stack \in Seq(FrameType) /\ Keeps(stack)
    BY AppRunsKeeps, PlainCalls
    DEF QueueCancelRequest, QueueInv, ListInv, TypeOK, StackTypeOK
  <1> QED  BY <1>1, QueueCancelSound DEF QueueCancelRequest, KnownIds

\* The loop of grilio_queue_cancel_all begins.
LEMMA QueueCancelAllSound ==
    ASSUME QueueInv, NEW q \in Queue, NEW n \in BOOLEAN, QueueCancelAll(q, n)
    PROVE  QueueInv'
  <1> DEFINE f == [Frame("queue_cancel_all") EXCEPT !.queue = q, !.notify = n]
  <1>1. f \in FrameType /\ Plain(<<f>>)
    BY QueueFramePlain
  <1> HIDE DEF f
  <1>2. stack' = <<f>> \o stack
    BY DEF QueueCancelAll, f
  <1>3. stack' \in Seq(FrameType) /\ Keeps(stack')
    BY <1>1, <1>2, PushTyped, AppRunsKeeps
    DEF QueueCancelAll, QueueInv, ListInv, TypeOK, StackTypeOK
  <1>4. queue' \in [Req -> Queue \cup {None}] /\ queue' = queue
    BY DEF QueueCancelAll, QueueInv, ListInv, TypeOK, RequestTypeOK, reqVars
  <1> QED  BY <1>3, <1>4, MembershipSound DEF QueueCancelAll, QueueInv, reqVars, txnVars

\* The loop of grilio_queue_cancel_all calls cancel_request with a typed frame.
LEMMA CancelNextCalls ==
    ASSUME QueueInv, QueueCancelNext
    PROVE  \E f \in FrameType : Plain(<<f>>) /\ stack' = <<f>> \o stack
  <1>1. PICK r \in Members(Top.queue) :
          stack' = <<[Frame("queue_cancel") EXCEPT !.ids = {id[r]},
                                                   !.notify = Top.notify]>> \o stack
    BY DEF QueueCancelNext
  <1>2. Top \in FrameType /\ Top.fn = "queue_cancel_all"
    BY RestTyped DEF QueueInv, ListInv, TypeOK, QueueCancelNext, Running, Top
  <1>3. Top.notify \in BOOLEAN /\ Top.queue \in Queue
    BY <1>2 DEF FrameType
  <1>4. id[r] \in Ids
    BY <1>3 DEF Members, QueueInv, MembersHaveIds
  <1> DEFINE f == [Frame("queue_cancel") EXCEPT !.ids = {id[r]}, !.notify = Top.notify]
  <1>5. f \in FrameType /\ Plain(<<f>>)
    BY <1>3, <1>4, QueueFramePlain
  <1>6. stack' = <<f>> \o stack
    BY <1>1
  <1> HIDE DEF f
  <1> QED  BY <1>5, <1>6

\* The loop takes the next request off the queue.
LEMMA QueueCancelNextSound ==
    ASSUME QueueInv, QueueCancelNext
    PROVE  QueueInv'
  <1>1. PICK f \in FrameType : Plain(<<f>>) /\ stack' = <<f>> \o stack
    BY CancelNextCalls
  <1>2. /\ TypeOK /\ stack \in Seq(FrameType) /\ stack # <<>>
        /\ Top.fn = "queue_cancel_all"
    BY DEF QueueInv, ListInv, TypeOK, StackTypeOK, QueueCancelNext, Running, Top
  <1>3. stack' \in Seq(FrameType) /\ Keeps(stack')
    BY <1>1, <1>2, PushTyped, KeepsPush DEF QueueInv
  <1>4. \E r \in Req : queue' = [queue EXCEPT ![r] = None]
    BY DEF QueueCancelNext, Members
  <1>5. /\ queue' \in [Req -> Queue \cup {None}]
        /\ \A s \in Req : queue'[s] \in {queue[s], None}
    BY <1>2, <1>4 DEF TypeOK, RequestTypeOK
  <1> QED  BY <1>3, <1>5, MembershipSound DEF QueueCancelNext, QueueInv, txnVars

\* The cancellation of one of its requests.
LEMMA QueueCancelStepSound ==
    ASSUME QueueInv, QueueCancel
    PROVE  QueueInv'
  <1>1. /\ TypeOK /\ stack \in Seq(FrameType) /\ stack # <<>> /\ Top \in FrameType
    BY RestTyped DEF QueueInv, ListInv, TypeOK, StackTypeOK, QueueCancel, Running
  <1>2. PICK i \in Top.ids : CancelThen(i, Top.notify, Rest)
    BY DEF QueueCancel
  <1>3. i \in Ids /\ Top.notify \in BOOLEAN
    BY <1>1 DEF FrameType
  <1>4. Rest \in Seq(FrameType) /\ Keeps(Rest)
    BY <1>1, RestTyped, KeepsPop, PlainCalls DEF QueueInv, QueueCancel, TypeOK
  <1> QED  BY <1>2, <1>3, <1>4, QueueCancelSound

\* The end of the loop.
LEMMA QueueCancelEndSound ==
    ASSUME QueueInv, QueueCancelEnd
    PROVE  QueueInv'
  <1>1. Rest \in Seq(FrameType) /\ Keeps(Rest)
    BY RestTyped, KeepsPop, PlainCalls
    DEF QueueInv, QueueCancelEnd, ListInv, TypeOK, Running
  <1>2. stack' = Rest /\ queue' = queue /\ queue' \in [Req -> Queue \cup {None}]
    BY DEF QueueCancelEnd, QueueInv, ListInv, TypeOK, RequestTypeOK, reqVars
  <1> QED  BY <1>1, <1>2, MembershipSound DEF QueueCancelEnd, QueueInv, reqVars, txnVars

\* A transaction begins.
LEMMA TransactionStartSound ==
    ASSUME QueueInv, NEW q \in Queue, TransactionStart(q)
    PROVE  QueueInv'
  <1>1. /\ Owners(owner', owner_queue')
        /\ stack' \in Seq(FrameType) /\ Keeps(stack')
    BY StartSound DEF QueueInv
  <1>2. queue' = queue /\ queue' \in [Req -> Queue \cup {None}]
    BY DEF TransactionStart, QueueInv, ListInv, TypeOK, RequestTypeOK, reqVars
  <1> QED  BY <1>1, <1>2, MembershipSound DEF TransactionStart, reqVars

\* A transaction ends, or is given up before it began.
LEMMA TransactionFinishSound ==
    ASSUME QueueInv, NEW q \in Queue, TransactionFinish(q)
    PROVE  QueueInv'
  <1>1. /\ Owners(owner', owner_queue')
        /\ stack' \in Seq(FrameType) /\ Keeps(stack')
    BY FinishSound DEF TransactionFinish, QueueInv
  <1>2. queue' = queue /\ queue' \in [Req -> Queue \cup {None}]
    BY DEF TransactionFinish, QueueInv, ListInv, TypeOK, RequestTypeOK, reqVars
  <1> QED  BY <1>1, <1>2, MembershipSound DEF TransactionFinish, reqVars

\* A queue that is freed lets its requests go and finishes its transaction.
LEMMA QueueFreeSound ==
    ASSUME QueueInv, NEW q \in Queue, QueueFree(q)
    PROVE  QueueInv'
  <1>1. /\ Owners(owner', owner_queue')
        /\ stack' \in Seq(FrameType) /\ Keeps(stack')
    BY FinishSound DEF QueueFree, QueueInv
  <1>2. /\ queue' \in [Req -> Queue \cup {None}]
        /\ \A r \in Req : queue'[r] \in {queue[r], None}
    BY DEF QueueFree, QueueInv, ListInv, TypeOK, RequestTypeOK
  <1> QED  BY <1>1, <1>2, MembershipSound DEF QueueFree

\* A new channel has no queues.
LEMMA InitQueues == Init => QueueInv
  <1> SUFFICES ASSUME Init  PROVE QueueInv
    OBVIOUS
  <1>1. owner = None /\ owner_queue = <<>> /\ \A r \in Req : queue[r] = None
    BY DEF Init
  <1>2. Range(<<>>) = {} /\ IsInjective(<<>>) /\ <<>> \in Seq(Queue)
    BY DEF Range, IsInjective
  <1> QED  BY <1>1, <1>2, InitSound DEF QueueInv, Owners, QueueHoldsLive, MembersHaveIds

\* Every step keeps the invariant.
LEMMA QueueNextSound == QueueInv /\ [QueueNext]_queueVars => QueueInv'
  <1> SUFFICES ASSUME QueueInv, [QueueNext]_queueVars  PROVE QueueInv'
    OBVIOUS
  <1>1. CASE Next
    <2>1. ListInv'
      BY <1>1, AppCallSound, EventSound, StepSound DEF Next, QueueInv
    <2> QED  BY <1>1, <2>1, EngineKeepsQueues, QueuesKeptSound DEF QueueInv
  <1>2. CASE MemberCall
    BY <1>2, QueueSendRequestSound, QueueFreeSound DEF MemberCall
  <1>3. CASE QueueCall
    BY <1>3, QueueCancelRequestSound, QueueCancelAllSound, TransactionStartSound,
       TransactionFinishSound
    DEF QueueCall
  <1>4. CASE QueueStep
    BY <1>4, QueueCancelNextSound, QueueCancelStepSound, QueueCancelEndSound DEF QueueStep
  <1>5. CASE UNCHANGED queueVars
    <2>1. UNCHANGED vars
      BY <1>5 DEF queueVars
    <2>2. ListInv'
      BY <2>1, StutterSound DEF QueueInv
    <2>3. UNCHANGED <<owner, owner_queue, queue, id, status, prof>>
      BY <2>1 DEF vars, reqVars, txnVars
    <2> QED  BY <2>2, <2>3, SameRequests, QueuesKeptSound
  <1> QED  BY <1>1, <1>2, <1>3, <1>4, <1>5 DEF QueueNext

-----------------------------------------------------------------------------
(* Transactions on the wire.                                               *)

\* The packet that is being written belongs to the request the channel waits for.
WritesSendReq == tx # None => tx.req = send_req

\* Requests the daemon may reply to, or whose packet is being written, were submitted.
InFlightIsOld == /\ \A p \in PendingReqs : status[p] # "NEW"
                 /\ tx # None => status[tx.req] # "NEW"

\* A request is in the queue it was submitted through, or has left it.
OriginSound == /\ origin \in [Req -> Queue \cup {None}] /\ began \in BOOLEAN
               /\ \A r \in Req : queue[r] \in {origin[r], None}

\* When a queue owns the channel and send_next_request has an ordinary request in its
\* hands, that request and all that are pending were submitted through the owner.
AboutToSend ==
    Running("submit") /\ owner # None /\ ~prof[Top.req].internal =>
        /\ origin[Top.req] = owner
        /\ \A p \in PendingReqs : origin[p] = owner

WireInv == /\ QueueInv /\ WriteInv
           /\ WritesSendReq /\ InFlightIsOld /\ OriginSound
           /\ AboutToSend /\ TransactionIsolated

\* A step by which nothing becomes pending, nothing is handed to the transport and
\* nobody begins to hand something to it.
Quiet == /\ PendingReqs' \subseteq PendingReqs
         /\ tx' = None \/ UNCHANGED <<tx, send_req>>
         /\ ~Running("submit")
         /\ "submit" \in Executing(stack') => "submit" \in Executing(stack)

\* What was submitted through the owner stays known as that while it is the owner.
OriginsKept ==
    /\ OriginSound'
    /\ owner # None /\ owner' = owner =>
         \A r \in Req : status[r] # "NEW" /\ origin[r] = owner => origin'[r] = owner

\* When the request that was handed out is known.
Begun == began' = (owner # None /\ owner' = owner /\ (began \/ SendsOrdinary))

\* The pending requests are requests, and so is the one whose packet is written.
LEMMA InFlightTyped ==
    ASSUME TypeOK
    PROVE  /\ PendingReqs \subseteq Req
           /\ tx # None => tx.req \in Req
  BY DEF TypeOK, TableTypeOK, EnvTypeOK, ReqOrNone, PendingReqs

\* Such a step keeps the invariant.
LEMMA QuietKeepsWire ==
    ASSUME WireInv, QueueInv', WriteInv', Quiet, NoneRenewed, OriginsKept, Begun
    PROVE  WireInv'
  <1>1. /\ PendingReqs \subseteq Req /\ PendingReqs' \subseteq PendingReqs
        /\ tx # None => tx.req \in Req
        /\ tx' = None \/ UNCHANGED <<tx, send_req>>
    BY InFlightTyped DEF WireInv, QueueInv, ListInv, Quiet
  <1>2. WritesSendReq' /\ InFlightIsOld'
    BY <1>1 DEF WireInv, WritesSendReq, InFlightIsOld, NoneRenewed
  <1>3. AboutToSend'
    <2>1. ~Running("submit")'
      BY SubmitOnTopKept DEF WireInv, WriteInv, Quiet
    <2> QED  BY <2>1 DEF AboutToSend
  <1>4. TransactionIsolated'
    <2> SUFFICES ASSUME began' PROVE TransactionIsolated'
      BY DEF TransactionIsolated
    <2>1. ~SendsOrdinary
      BY DEF Quiet, SendsOrdinary
    <2>2. owner # None /\ owner' = owner /\ began
      BY <2>1 DEF Begun
    <2>3. /\ \A p \in PendingReqs : status[p] # "NEW" /\ origin[p] = owner
          /\ tx # None => status[tx.req] # "NEW"
          /\ tx # None /\ ~prof[tx.req].internal => origin[tx.req] = owner
      BY <2>2 DEF WireInv, InFlightIsOld, TransactionIsolated
    <2>4. \A p \in PendingReqs' : origin'[p] = owner'
      BY <1>1, <2>2, <2>3 DEF OriginsKept
    <2>5. ASSUME tx' # None, ~prof'[tx'.req].internal PROVE origin'[tx'.req] = owner'
      <3>1. tx' = tx /\ tx # None /\ tx.req \in Req /\ status[tx.req] # "NEW"
        BY <1>1, <2>3, <2>5
      <3>2. prof'[tx.req] = prof[tx.req]
        BY <3>1 DEF NoneRenewed
      <3> QED  BY <2>2, <2>3, <2>5, <3>1, <3>2 DEF OriginsKept
    <2> QED  BY <2>4, <2>5 DEF TransactionIsolated
  <1> QED  BY <1>2, <1>3, <1>4 DEF WireInv, OriginsKept

\* Where nothing is submitted or freed, requests stay in their queues or leave them.
LEMMA OriginsStay ==
    ASSUME WireInv, UNCHANGED origin, Begun,
           \A r \in Req : queue'[r] \in {queue[r], None}
    PROVE  OriginsKept
  BY DEF WireInv, OriginsKept, OriginSound, Begun

\* dequeue_request looks at the queues the requests are in; those are the ones they were
\* submitted through.
LEMMA DequeueKeepsWire ==
    ASSUME WireInv, QueueInv', WriteInv', Dequeue, UNCHANGED origin, Begun,
           "pending" \notin Reentrant
    PROVE  WireInv'
  <1>1. PICK k \in DequeueIdx : Dequeue!3!(k)
    BY DEF Dequeue
  <1> DEFINE r == send_queue[k]
             f == [Frame("submit") EXCEPT !.req = r]
  <1>2. /\ TypeOK /\ ListInv /\ r \in Req /\ f \in FrameType /\ f.req = r
        /\ k \in DOMAIN send_queue
    <2>1. TypeOK /\ ListInv /\ send_queue \in Seq(Req) /\ k \in DOMAIN send_queue
      BY DEF WireInv, QueueInv, ListInv, TypeOK, SendTypeOK, DequeueIdx, OrdinaryIdx,
             InternalIdx
    <2> QED  BY <2>1, InDomain, HeldTyped DEF Frame
  <1>3. /\ Running("schedule_write") /\ Rest \in Seq(FrameType)
        /\ UNCHANGED <<send_req, tx, prof, queue, owner>>
    <2>1. Running("schedule_write") /\ UNCHANGED <<send_req, tx, prof, queue, owner>>
      BY DEF Dequeue, txnVars, envVars
    <2> QED  BY <1>2, <2>1, RestTyped DEF Running, TypeOK
  <1>4. Top' = f
    <2>1. \/ stack' = <<f>> \o Rest
          \/ stack' = <<>> \o <<f>> \o Rest
      BY <1>1 DEF Call
    <2>2. <<>> \o <<f>> = <<f>>
      OBVIOUS
    <2> HIDE DEF f
    <2>3. stack' = <<f>> \o Rest
      BY <2>1, <2>2
    <2> QED  BY <1>2, <1>3, <2>3, PushTop DEF Top
  <1>5. \A p \in PendingReqs' : \/ p \in PendingReqs
                                \/ p = r /\ ~prof[r].internal
    <2>1. \/ pending' = pending
          \/ ~prof[r].internal /\ pending' = [pending EXCEPT ![current_id[r]] = r]
      BY <1>1
    <2>2. pending \in [Ids -> ReqOrNone]
      BY <1>2 DEF TypeOK, TableTypeOK
    <2> HIDE DEF r
    <2>3. \A i \in Ids : pending'[i] = pending[i] \/ (~prof[r].internal /\ pending'[i] = r)
      BY <2>1, <2>2
    <2> QED  BY <2>3 DEF PendingReqs
  <1>6. ASSUME owner # None, ~prof[r].internal
        PROVE  \A p \in PendingReqs \cup {r} : origin[p] = owner
    <2>1. k \in OrdinaryIdx
      BY <1>6 DEF DequeueIdx, InternalIdx
    <2>2. queue[r] = owner /\ \A p \in PendingReqs : queue[p] = owner
      BY <1>6, <2>1 DEF OrdinaryIdx
    <2> QED  BY <1>2, <1>6, <2>2, InFlightTyped DEF WireInv, OriginSound
  <1> HIDE DEF f
  <1>7. status' = [status EXCEPT ![r] = "SENDING"]
    BY <1>1
  <1> HIDE DEF r
  <1>8. WritesSendReq' /\ InFlightIsOld' /\ OriginSound'
    <2>1. WritesSendReq'
      BY <1>3 DEF WireInv, WritesSendReq
    <2>2. \A p \in Req : status'[p] = status[p] \/ status'[p] = "SENDING"
      BY <1>2, <1>7 DEF TypeOK, RequestTypeOK
    <2>3. InFlightIsOld'
      <3>1. /\ \A p \in PendingReqs' : status'[p] # "NEW"
        BY <1>2, <1>5, <1>7, <2>2, InFlightTyped
        DEF WireInv, InFlightIsOld, TypeOK, RequestTypeOK
      <3> QED  BY <1>2, <1>3, <2>2, <3>1, InFlightTyped DEF WireInv, InFlightIsOld
    <2>4. OriginSound'
      BY <1>3 DEF WireInv, OriginSound, Begun
    <2> QED  BY <2>1, <2>3, <2>4
  <1>9. AboutToSend'
    BY <1>2, <1>3, <1>4, <1>5, <1>6 DEF AboutToSend
  <1>10. TransactionIsolated'
    <2> SUFFICES ASSUME began' PROVE TransactionIsolated'
      BY DEF TransactionIsolated
    <2>1. ~SendsOrdinary
      BY <1>3 DEF SendsOrdinary, Running
    <2>2. owner # None /\ began
      BY <2>1 DEF Begun
    <2> QED  BY <1>3, <1>5, <1>6, <2>2 DEF WireInv, TransactionIsolated
  <1> QED  BY <1>8, <1>9, <1>10 DEF WireInv

\* The packet that goes out, and the requests that are pending then, belong to the owner.
LEMMA SubmitKeepsWire ==
    ASSUME WireInv, QueueInv', WriteInv', Submit, UNCHANGED origin, NoneRenewed,
           QueuesKept, Begun
    PROVE  WireInv'
  <1> DEFINE r == Top.req
  <1>1. /\ Running("submit") /\ UNCHANGED <<prof, pending, owner>>
        /\ tx' = tx \/ tx' = [req |-> r, serial |-> current_id[r]]
        /\ \/ send_req' = None /\ tx' = tx
           \/ send_req' = r
    BY DEF Submit, txnVars
  <1>2. TypeOK /\ ListInv /\ send_req = None /\ tx = None
    <2>1. TypeOK /\ ListInv /\ send_req = None
      BY <1>1 DEF WireInv, WriteInv, SubmitOnTop, ListInv
    <2>2. tx # None => tx.req \in Req
      BY <2>1, InFlightTyped
    <2> QED  BY <2>1, <2>2 DEF WireInv, WritesSendReq
  <1>3. r \in Req /\ status[r] # "NEW"
    <2>1. r \in Req /\ r \in HeldBy(stack)
      BY <1>1, <1>2, PopSound
    <2> QED  BY <1>2, <2>1 DEF ListInv, NewIsNowhere
  <1>4. tx' = None \/ tx'.req = r
    BY <1>1, <1>2
  <1> HIDE DEF r
  <1>5. PendingReqs' = PendingReqs /\ PendingReqs \subseteq Req
    BY <1>1, <1>2, InFlightTyped DEF PendingReqs
  <1>6. WritesSendReq'
    BY <1>1, <1>2, <1>4 DEF WritesSendReq
  <1>7. InFlightIsOld'
    BY <1>3, <1>4, <1>5 DEF WireInv, InFlightIsOld, NoneRenewed
  <1>8. OriginSound'
    <2>1. \A s \in Req : queue'[s] \in {queue[s], None}
      BY DEF QueuesKept
    <2> QED  BY <2>1, OriginsStay DEF OriginsKept
  <1>9. ~Running("submit")'
    <2>1. WriteInv /\ ListInv'
      BY DEF WireInv, WriteInv
    <2> QED  BY <2>1, SubmitWrites
  <1>10. TransactionIsolated'
    <2> SUFFICES ASSUME began' PROVE TransactionIsolated'
      BY DEF TransactionIsolated
    <2>1. owner # None /\ owner' = owner /\ (began \/ ~prof[r].internal)
      BY DEF Begun, SendsOrdinary, r
    <2>2. ~prof[r].internal => origin[r] = owner
      BY <1>1, <2>1 DEF WireInv, AboutToSend, r
    <2>3. \A p \in PendingReqs : origin[p] = owner
      BY <1>1, <2>1 DEF WireInv, AboutToSend, TransactionIsolated, r
    <2> QED  BY <1>1, <1>4, <1>5, <2>1, <2>2, <2>3 DEF TransactionIsolated
  <1> QED  BY <1>6, <1>7, <1>8, <1>9, <1>10 DEF WireInv, AboutToSend

-----------------------------------------------------------------------------
(* The other steps hand nothing to the transport.                          *)

\* What is pending afterwards was pending before, if the table only loses entries.
LEMMA PendingFewer ==
    ASSUME \A i \in Ids : pending'[i] \in {pending[i], None}
    PROVE  PendingReqs' \subseteq PendingReqs
  BY DEF PendingReqs

\* A function of the channel that settles what is pending is quiet.
LEMMA SettlingIsQuiet ==
    ASSUME ListInv, Settling, \A i \in Ids : pending'[i] \in {pending[i], None}
    PROVE  Quiet
  BY PendingFewer DEF Quiet, Settling, NoneBegins, WriterStays

\* So is one that leaves alone what is pending and what is written.
LEMMA StayingIsQuiet ==
    ASSUME PendingStays, WriterStays, ~Running("submit"), Flow(stack')
    PROVE  Quiet
  BY DEF Quiet, Flow, NoneBegins, WriterStays, PendingStays, PendingReqs

\* The steps that settle pending requests.
LEMMA StepSettlesQuietly ==
    ASSUME ListInv, UpdatePending \/ HandleResponse \/ ExpirePending \/ DropPending
    PROVE  Quiet
  <1>1. Settling
    BY UpdatePendingSettles, HandleResponseSettles, ExpirePendingSettles,
       DropPendingSettles
  <1>2. pending' = pending \/ \E i \in Ids : pending' = PendingWithout(i)
    <2>1. Running("response") \/ Running("drop") => Top.ids \subseteq Ids
      BY RestTyped DEF ListInv, TypeOK, Running, FrameType
    <2> QED
      BY <2>1 DEF UpdatePending, HandleResponse, ExpirePending, DropPending
  <1>3. pending \in [Ids -> ReqOrNone]
    BY DEF ListInv, TypeOK, TableTypeOK
  <1>4. \A i \in Ids : pending'[i] \in {pending[i], None}
    BY <1>2, <1>3 DEF PendingWithout
  <1> QED  BY <1>1, <1>4, SettlingIsQuiet

\* The events of the main loop.
LEMMA EventIsQuiet ==
    ASSUME ListInv, Event
    PROVE  Quiet
  <1>1. ASSUME NEW due \in SUBSET Ids, PendingTimeout(due)  PROVE Quiet
    <2>1. \A i \in Ids : pending'[i] \in {pending[i], None}
      BY <1>1 DEF PendingTimeout
    <2> QED  BY <1>1, <2>1, PendingTimeoutSettles, SettlingIsQuiet
  <1>2. CASE Disconnected \/ RequestSent
    <2>1. tx' = None
      BY <1>2 DEF Disconnected, RequestSent
    <2> QED  BY <1>2, <2>1, LinkKeepsPending
             DEF Quiet, Flow, NoneBegins, PendingStays, PendingReqs
  <1>3. CASE \/ Connected
             \/ \E a \in Req : Indication(a)
             \/ \E due \in SUBSET Timeable, again \in SUBSET retry : Timeout(due, again)
    BY <1>3, ConnectedSteady, IndicationSteady, TimeoutSteady, StayingIsQuiet DEF Steady
  <1>4. ASSUME NEW i \in Ids, NEW a \in ReqOrNone, Response(i, a)  PROVE Quiet
    BY <1>4, ResponseArrives DEF Quiet, WriterStays, PendingStays, PendingReqs
  <1> QED  BY <1>1, <1>2, <1>3, <1>4 DEF Event

\* Every step of the engine but the two that send.
LEMMA EngineIsQuiet ==
    ASSUME ListInv, Next, ~(Step /\ (Dequeue \/ Submit))
    PROVE  Quiet
  <1>1. CASE AppCall
    BY <1>1, AppCallSteady, StayingIsQuiet DEF Steady
  <1>2. CASE Step
    <2>1. CASE UpdatePending \/ HandleResponse \/ ExpirePending \/ DropPending
      BY <2>1, StepSettlesQuietly
    <2>2. CASE ~(UpdatePending \/ HandleResponse \/ ExpirePending \/ DropPending)
      BY <1>2, <2>2, StepSteady, StayingIsQuiet DEF Steady
    <2> QED  BY <2>1, <2>2
  <1> QED  BY <1>1, <1>2, EventIsQuiet DEF Next

\* A step of the queues leaves alone what is pending and what is written.
Calm == PendingStays /\ WriterStays /\ Flow(stack') /\ ~Running("submit")

\* Such a step keeps the invariant.
LEMMA CalmKeepsWire ==
    ASSUME WireInv, QueueInv', Calm, NoneRenewed, OriginsKept, Begun
    PROVE  WireInv'
  <1>1. SubmitOnTop'
    BY SubmitOnTopKept DEF WireInv, WriteInv, QueueInv, Calm, Flow, NoneBegins
  <1>2. WriteInv'
    BY <1>1 DEF WireInv, WriteInv, QueueInv, Written, Calm, WriterStays
  <1>3. Quiet
    BY StayingIsQuiet DEF Calm
  <1> QED  BY <1>2, <1>3, QuietKeepsWire

\* The application calls a function that calls plain functions, or none.
LEMMA CallIsCalm ==
    ASSUME ListInv, AppRuns, NEW pre, Plain(pre), stack' = stack \/ stack' = pre \o stack,
           UNCHANGED <<pending, last_pending, send_req, tx, closed>>
    PROVE  Calm
  BY AppSteady DEF Calm, PendingStays, WriterStays

\* grilio_queue_send_request_full notes the queue.
LEMMA QueueSendKeepsWire ==
    ASSUME WireInv, QueueInv', NEW q \in Queue, NEW r \in Req, NEW p \in Profiles,
           QueueSendRequest(q, r, p), Begun
    PROVE  WireInv'
  <1>1. /\ TypeOK /\ ListInv /\ AppRuns /\ status[r] = "NEW" /\ stack' = <<Write>> \o stack
        /\ prof' = [prof EXCEPT ![r] = p] /\ status' = [status EXCEPT ![r] = "QUEUED"]
        /\ queue' = [queue EXCEPT ![r] = q] /\ origin' = [origin EXCEPT ![r] = q]
        /\ UNCHANGED <<pending, last_pending, send_req, tx, closed>>
    BY DEF WireInv, QueueInv, ListInv, QueueSendRequest, SendThrough, envVars
  <1>2. Calm
    BY <1>1, CallIsCalm, PlainCalls
  <1>3. NoneRenewed
    BY <1>1 DEF NoneRenewed, TypeOK, RequestTypeOK
  <1>4. OriginsKept
    BY <1>1 DEF WireInv, OriginsKept, OriginSound, Begun, TypeOK, RequestTypeOK
  <1> QED  BY <1>2, <1>3, <1>4, CalmKeepsWire

\* transaction_finish calls the application and schedule_write, or nothing.
LEMMA FinishIsCalm ==
    ASSUME ListInv, AppRuns, NEW q, FinishTransaction(q),
           UNCHANGED <<pending, last_pending, send_req, tx, closed>>
    PROVE  Calm
  <1>1. Plain(Call("owner") \o <<Write>>)
    BY PlainCalls, PlainConcat
  <1>2. stack' = stack \/ stack' = (Call("owner") \o <<Write>>) \o stack
    BY DEF FinishTransaction
  <1> QED  BY <1>1, <1>2, CallIsCalm

\* grilio_queue_free forgets the queue, which does not own the channel afterwards.
LEMMA QueueFreeKeepsWire ==
    ASSUME WireInv, QueueInv', NEW q \in Queue, QueueFree(q), Begun
    PROVE  WireInv'
  <1>1. /\ ListInv /\ AppRuns /\ FinishTransaction(q)
        /\ queue' = [r \in Req |-> IF queue[r] = q THEN None ELSE queue[r]]
        /\ origin' = [r \in Req |-> IF origin[r] = q THEN None ELSE origin[r]]
        /\ UNCHANGED <<prof, status, pending, last_pending, send_req, tx, closed>>
    BY DEF WireInv, QueueInv, QueueFree, sendVars, tabVars, envVars
  <1>2. Calm
    BY <1>1, FinishIsCalm
  <1>3. NoneRenewed
    BY <1>1 DEF NoneRenewed
  <1>4. owner = q => owner' # q
    <2>1. owner_queue # <<>> => Head(owner_queue) \in Range(owner_queue)
      BY EmptySeq, LenProperties DEF WireInv, QueueInv, Owners, Range
    <2> QED  BY <1>1, <2>1 DEF FinishTransaction, WireInv, QueueInv, Owners
  <1>5. OriginsKept
    BY <1>1, <1>4 DEF WireInv, OriginsKept, OriginSound, Begun
  <1> QED  BY <1>2, <1>3, <1>5, CalmKeepsWire

\* The other calls cancel requests, or start and finish transactions.
LEMMA QueueCallIsCalm ==
    ASSUME QueueInv, QueueCall
    PROVE  Calm /\ NoneRenewed /\ \A r \in Req : queue'[r] \in {queue[r], None}
  <1>0. TypeOK /\ ListInv /\ stack \in Seq(FrameType)
    BY DEF QueueInv, ListInv, TypeOK, StackTypeOK
  <1>1. ASSUME NEW q \in Queue, NEW i \in KnownIds, NEW n \in BOOLEAN,
               QueueCancelRequest(q, i, n)
        PROVE  Calm /\ NoneRenewed /\ \A r \in Req : queue'[r] \in {queue[r], None}
    <2>1. AppRuns /\ CancelThen(i, n, stack) /\ i \in Ids
      BY <1>1 DEF QueueCancelRequest, KnownIds
    <2>2. Flow(stack) /\ ~Running("submit")
      BY <1>0, <2>1, AppSteady, PlainCalls
    <2>3. QueuesKept /\ NoneRenewed
      BY <1>0, <2>1, CancelThenKeepsQueues
    <2> QED  BY <1>0, <2>1, <2>2, <2>3, CancelThenSteady DEF Calm, QueuesKept
  <1>2. ASSUME NEW q \in Queue, NEW n \in BOOLEAN, QueueCancelAll(q, n)
        PROVE  Calm /\ NoneRenewed /\ \A r \in Req : queue'[r] \in {queue[r], None}
    <2> DEFINE f == [Frame("queue_cancel_all") EXCEPT !.queue = q, !.notify = n]
    <2>1. Plain(<<f>>)
      BY QueueFramePlain
    <2>2. AppRuns /\ stack' = <<f>> \o stack
      BY <1>2 DEF QueueCancelAll
    <2> HIDE DEF f
    <2>3. UNCHANGED <<prof, status, queue, pending, last_pending, send_req, tx, closed>>
      BY <1>2 DEF QueueCancelAll, reqVars, sendVars, tabVars, envVars
    <2> QED  BY <1>0, <2>1, <2>2, <2>3, CallIsCalm DEF NoneRenewed
  <1>3. ASSUME NEW q \in Queue, TransactionStart(q)
        PROVE  Calm /\ NoneRenewed /\ \A r \in Req : queue'[r] \in {queue[r], None}
    <2>1. AppRuns /\ (stack' = stack \/ stack' = Call("owner") \o stack)
      BY <1>3 DEF TransactionStart
    <2>2. UNCHANGED <<prof, status, queue, pending, last_pending, send_req, tx, closed>>
      BY <1>3 DEF TransactionStart, reqVars, sendVars, tabVars, envVars
    <2> QED  BY <1>0, <2>1, <2>2, CallIsCalm, PlainCalls DEF NoneRenewed
  <1>4. ASSUME NEW q \in Queue, TransactionFinish(q)
        PROVE  Calm /\ NoneRenewed /\ \A r \in Req : queue'[r] \in {queue[r], None}
    <2>1. UNCHANGED <<prof, status, queue, pending, last_pending, send_req, tx, closed>>
      BY <1>4 DEF TransactionFinish, reqVars, sendVars, tabVars, envVars
    <2> QED  BY <1>0, <1>4, <2>1, FinishIsCalm DEF TransactionFinish, NoneRenewed
  <1> QED  BY <1>1, <1>2, <1>3, <1>4 DEF QueueCall

\* So does the loop of grilio_queue_cancel_all.
LEMMA QueueStepIsCalm ==
    ASSUME QueueInv, QueueStep
    PROVE  Calm /\ NoneRenewed /\ \A r \in Req : queue'[r] \in {queue[r], None}
  <1>0. TypeOK /\ ListInv /\ stack \in Seq(FrameType)
    BY DEF QueueInv, ListInv, TypeOK, StackTypeOK
  <1>1. CASE QueueCancelNext
    <2>1. PICK f \in FrameType : Plain(<<f>>) /\ stack' = <<f>> \o stack
      BY <1>1, CancelNextCalls
    <2>2. Running("queue_cancel_all")
      BY <1>1 DEF QueueCancelNext
    <2>3. Flow(stack') /\ ~Running("submit")
      BY <1>0, <2>1, <2>2, FlowPush DEF Running
    <2>4. /\ UNCHANGED <<prof, status, pending, last_pending, send_req, tx, closed>>
          /\ \E r \in Req : queue' = [queue EXCEPT ![r] = None]
      BY <1>1 DEF QueueCancelNext, Members, sendVars, tabVars, envVars
    <2> QED
      BY <1>0, <2>3, <2>4
      DEF Calm, PendingStays, WriterStays, NoneRenewed, TypeOK, RequestTypeOK
  <1>2. CASE QueueCancel
    <2>1. PICK i \in Top.ids : CancelThen(i, Top.notify, Rest)
      BY <1>2 DEF QueueCancel
    <2>2. Running("queue_cancel") /\ ~Running("submit")
      BY <1>2 DEF QueueCancel, Running
    <2>3. i \in Ids /\ Top.notify \in BOOLEAN /\ Rest \in Seq(FrameType)
      BY <1>0, <2>2, RestTyped DEF TypeOK, Running, FrameType
    <2>4. Flow(Rest)
      BY <1>0, <2>2, FlowPop, PlainCalls
    <2>5. QueuesKept /\ NoneRenewed
      BY <1>0, <2>1, <2>3, CancelThenKeepsQueues
    <2> QED  BY <1>0, <2>1, <2>2, <2>3, <2>4, <2>5, CancelThenSteady DEF Calm, QueuesKept
  <1>3. CASE QueueCancelEnd
    <2>1. Running("queue_cancel_all") /\ ~Running("submit") /\ stack' = Rest
      BY <1>3 DEF QueueCancelEnd, Running
    <2>2. UNCHANGED <<prof, status, queue, pending, last_pending, send_req, tx, closed>>
      BY <1>3 DEF QueueCancelEnd, reqVars, sendVars, tabVars, envVars
    <2>3. Flow(Rest)
      BY <1>0, <2>1, FlowPop, PlainCalls
    <2> QED  BY <2>1, <2>2, <2>3 DEF Calm, PendingStays, WriterStays, NoneRenewed
  <1> QED  BY <1>1, <1>2, <1>3 DEF QueueStep

\* Every step keeps the invariant.
LEMMA WireNextSound ==
    ASSUME WireInv, [QueueNext]_queueVars, "pending" \notin Reentrant
    PROVE  WireInv'
  <1>1. QueueInv' /\ ListInv
    BY QueueNextSound DEF WireInv, QueueInv
  <1>2. CASE QueueNext
    <2>1. Begun
      BY <1>2 DEF QueueNext, Begun
    <2>2. CASE MemberCall
      BY <1>1, <2>1, <2>2, QueueSendKeepsWire, QueueFreeKeepsWire DEF MemberCall
    <2>3. CASE (QueueCall \/ QueueStep) /\ UNCHANGED origin
      <3>1. Calm /\ NoneRenewed /\ \A r \in Req : queue'[r] \in {queue[r], None}
        BY <2>3, QueueCallIsCalm, QueueStepIsCalm DEF WireInv
      <3>2. OriginsKept
        BY <2>1, <2>3, <3>1, OriginsStay
      <3> QED  BY <1>1, <2>1, <3>1, <3>2, CalmKeepsWire
    <2>4. CASE Next /\ UNCHANGED origin
      <3>1. WriteInv'
        BY <2>4, WriteInvStep DEF WireInv
      <3>2. QueuesKept /\ NoneRenewed
        BY <1>1, <2>4, EngineKeepsQueues
      <3>3. CASE Dequeue
        BY <1>1, <2>1, <2>4, <3>1, <3>3, DequeueKeepsWire
      <3>4. CASE Submit
        BY <1>1, <2>1, <2>4, <3>1, <3>2, <3>4, SubmitKeepsWire
      <3>5. CASE ~Dequeue /\ ~Submit
        <4>1. Quiet
          BY <1>1, <2>4, <3>5, EngineIsQuiet
        <4>2. OriginsKept
          BY <2>1, <2>4, <3>2, OriginsStay DEF QueuesKept
        <4> QED  BY <1>1, <2>1, <3>1, <3>2, <4>1, <4>2, QuietKeepsWire
      <3> QED  BY <3>3, <3>4, <3>5
    <2> QED  BY <1>2, <2>2, <2>3, <2>4 DEF QueueNext
  <1>3. CASE UNCHANGED queueVars
    <2>1. UNCHANGED vars /\ UNCHANGED <<origin, began>>
      BY <1>3 DEF queueVars
    <2>2. WriteInv'
      BY <2>1, WriteInvStep DEF WireInv
    <2>3. UNCHANGED <<tx, send_req, pending, status, queue, stack, owner, prof>>
      BY <2>1 DEF vars, reqVars, sendVars, tabVars, txnVars, envVars
    <2> QED
      BY <1>1, <2>1, <2>2, <2>3
      DEF WireInv, WritesSendReq, InFlightIsOld, OriginSound, AboutToSend,
          TransactionIsolated, PendingReqs, Running, Top
  <1> QED  BY <1>2, <1>3

-----------------------------------------------------------------------------
(* The theorems.                                                           *)

\* The invariant of the channel with its queues holds in every reachable state.
THEOREM QueueInvHolds == QueueSpec => []QueueInv
  <1>1. QueueInit => QueueInv
    BY InitQueues DEF QueueInit
  <1> QED  BY <1>1, QueueNextSound, PTL DEF QueueSpec

\* Queues can be cancelled, freed and given the channel from any callback: the lists that
\* share req->next stay disjoint.
THEOREM QueueListsSound == QueueSpec => []ListIntegrity
  <1>1. QueueInv => ListIntegrity
    BY DEF QueueInv, ListInv
  <1> QED  BY <1>1, QueueInvHolds, PTL

\* For any number of queues, no queue waits for a free channel, none waits twice and the
\* owner does not wait, wherever transactions are started, finished or given up.
THEOREM OwnerQueueStaysSound == QueueSpec => []OwnerQueueSound
  <1>1. QueueInv => OwnerQueueSound
    BY OwnersSound DEF QueueInv, ListInv
  <1> QED  BY <1>1, QueueInvHolds, PTL

\* A request that is over has left its queue, so that neither grilio_queue_cancel_all nor
\* grilio_queue_free finds it there.
THEOREM QueuesHoldLive == QueueSpec => []QueueHoldsLive
  <1>1. QueueInv => QueueHoldsLive
    BY DEF QueueInv
  <1> QED  BY <1>1, QueueInvHolds, PTL

\* Unless the application handles pending-changed: once the owner of the channel has sent
\* its first request, every request the daemon may still reply to and the packet that is
\* being written were submitted through the owner, until the transaction ends.  It takes
\* that the queues dequeue_request looks at say where requests come from, however they
\* are cancelled, dropped, forgotten and freed between dequeue and reply.
THEOREM TransactionsIsolated ==
    ASSUME "pending" \notin Reentrant
    PROVE  QueueSpec => []TransactionIsolated
  <1>1. QueueInit => WireInv
    <2> SUFFICES ASSUME QueueInit PROVE WireInv
      OBVIOUS
    <2>1. QueueInv
      BY InitQueues DEF QueueInit
    <2>2. SubmitOnTop /\ Written
      BY DEF QueueInit, Init, SubmitOnTop, Written, Running
    <2>3. PendingReqs = {} /\ tx = None /\ began = FALSE /\ owner = None
      BY DEF QueueInit, Init, PendingReqs
    <2>4. OriginSound
      BY DEF QueueInit, Init, OriginSound
    <2> QED
      BY <2>1, <2>2, <2>3, <2>4
      DEF WireInv, QueueInv, WriteInv, WritesSendReq, InFlightIsOld, AboutToSend,
          TransactionIsolated
  <1>2. WireInv /\ [QueueNext]_queueVars => WireInv'
    BY WireNextSound
  <1>3. WireInv => TransactionIsolated
    BY DEF WireInv
  <1> QED  BY <1>1, <1>2, <1>3, PTL DEF QueueSpec

=============================================================================
