---------------------------- MODULE GrilioQueue ----------------------------
(***************************************************************************)
(* Request queues (grilio_queue.c) and the transactions they run on the    *)
(* channel.  A GRilIoQueue groups requests so that they can be cancelled   *)
(* together; while a queue owns the channel, only its requests are sent.   *)
(* A queue is an address here: after grilio_queue_free it stands for the   *)
(* next queue that is allocated.  The order of the requests within a queue *)
(* (the qnext list) is left out, membership is req->queue.                 *)
(***************************************************************************)
EXTENDS GrilioChannel

\* History, which the code does not keep: the queue a request was submitted through,
\* while that queue is there, and whether an ordinary request was handed to the transport
\* since the present owner got the channel.
VARIABLES origin, began

queueVars == <<vars, origin, began>>

Members(q) == {r \in Req : queue[r] = q}

-----------------------------------------------------------------------------
(* Requests.                                                               *)

\* grilio_queue_send_request_full: grilio_queue_add, and then as without a queue.
QueueSendRequest(q, r, p) ==
    /\ SendThrough(r, p, q)
    /\ origin' = [origin EXCEPT ![r] = q]

\* grilio_channel_get_request.
GetRequest(i) ==
    IF send_req # None /\ id[send_req] = i THEN {send_req}
    ELSE IF block_req # None /\ id[block_req] = i THEN {block_req}
    ELSE IF req_table[i] # None THEN {req_table[i]}
    ELSE LET Queued == {r \in ToSet(send_queue) : id[r] = i}
         IN  IF Queued # {} THEN Queued ELSE {r \in retry : id[r] = i}

\* grilio_queue_cancel_request.
QueueCancelRequest(q, i, notify) ==
    /\ AppRuns
    /\ \E r \in GetRequest(i) : queue[r] = q
    /\ CancelThen(i, notify, stack)

\* grilio_queue_cancel_all takes the requests off the queue one by one ...
QueueCancelAll(q, notify) ==
    /\ AppRuns
    /\ stack' = <<[Frame("queue_cancel_all") EXCEPT !.queue = q, !.notify = notify]>>
                  \o stack
    /\ UNCHANGED <<reqVars, sendVars, tabVars, txnVars, tmoVars, envVars, replies>>

QueueCancelNext ==
    /\ Running("queue_cancel_all")
    /\ \E r \in Members(Top.queue) :
        /\ queue' = [queue EXCEPT ![r] = None]
        /\ stack' = <<[Frame("queue_cancel") EXCEPT !.ids = {id[r]},
                                                    !.notify = Top.notify]>> \o stack
    /\ UNCHANGED <<prof, status, id, current_id, retry_count, deadline, sendVars,
                   tabVars, txnVars, tmoVars, envVars, replies>>

\* ... and cancels each of them.
QueueCancel ==
    /\ Running("queue_cancel")
    /\ \E i \in Top.ids : CancelThen(i, Top.notify, Rest)

QueueCancelEnd ==
    /\ Running("queue_cancel_all") /\ Members(Top.queue) = {}
    /\ stack' = Rest
    /\ UNCHANGED <<reqVars, sendVars, tabVars, txnVars, tmoVars, envVars, replies>>

-----------------------------------------------------------------------------
(* Transactions.                                                           *)

\* grilio_channel_transaction_start.
TransactionStart(q) ==
    /\ AppRuns
    /\ IF owner = None
       THEN owner' = q /\ stack' = Call("owner") \o stack /\ UNCHANGED owner_queue
       ELSE /\ owner_queue' = IF owner = q \/ q \in ToSet(owner_queue) THEN owner_queue
                              ELSE Append(owner_queue, q)
            /\ UNCHANGED <<owner, stack>>
    /\ UNCHANGED <<reqVars, sendVars, tabVars, block_ids, tmoVars, envVars, replies>>

\* Mutant of FinishTransaction: the next owner stays in the queue.
FinishInQueue(q) ==
    IF owner = q
    THEN /\ owner' = IF owner_queue = <<>> THEN None ELSE Head(owner_queue)
         /\ stack' = Call("owner") \o <<Write>> \o stack
         /\ UNCHANGED owner_queue
    ELSE /\ owner_queue' = RemoveFirst(owner_queue, q)
         /\ UNCHANGED <<owner, stack>>

\* grilio_channel_transaction_finish, called from anywhere in the application.
FinishTransaction(q) ==
    IF owner = q
    THEN /\ owner' = IF owner_queue = <<>> THEN None ELSE Head(owner_queue)
         /\ owner_queue' = IF owner_queue = <<>> THEN <<>> ELSE Tail(owner_queue)
         /\ stack' = Call("owner") \o <<Write>> \o stack
    ELSE /\ owner_queue' = RemoveFirst(owner_queue, q)
         /\ UNCHANGED <<owner, stack>>

TransactionFinish(q) ==
    /\ AppRuns
    /\ FinishTransaction(q)
    /\ UNCHANGED <<reqVars, sendVars, tabVars, block_ids, tmoVars, envVars, replies>>

\* The last reference to q goes.  Whoever called a function of q that is still running
\* has to hold one.  grilio_queue_free lets the requests of q go and finishes its
\* transaction.
QueueFree(q) ==
    /\ AppRuns
    /\ \A k \in DOMAIN stack : stack[k].queue # q
    /\ queue' = [r \in Req |-> IF queue[r] = q THEN None ELSE queue[r]]
    /\ origin' = [r \in Req |-> IF origin[r] = q THEN None ELSE origin[r]]
    /\ FinishTransaction(q)
    /\ UNCHANGED <<prof, status, id, current_id, retry_count, deadline, sendVars, tabVars,
                   block_ids, tmoVars, envVars, replies>>

-----------------------------------------------------------------------------
QueueInit ==
    /\ Init
    /\ origin = [r \in Req |-> None] /\ began = FALSE

\* Calls that begin or end the membership of requests in a queue, and other calls.
MemberCall ==
    \/ \E q \in Queue, r \in Req, p \in Profiles : QueueSendRequest(q, r, p)
    \/ \E q \in Queue : QueueFree(q)

QueueCall ==
    \/ \E q \in Queue, i \in KnownIds, n \in BOOLEAN : QueueCancelRequest(q, i, n)
    \/ \E q \in Queue, n \in BOOLEAN : QueueCancelAll(q, n)
    \/ \E q \in Queue : TransactionStart(q)
    \/ \E q \in Queue : TransactionFinish(q)

QueueStep ==
    \/ QueueCancelNext
    \/ QueueCancel
    \/ QueueCancelEnd

\* The step hands an ordinary request to the transport.
SendsOrdinary == Running("submit") /\ ~prof[Top.req].internal

QueueNext ==
    /\ \/ MemberCall
       \/ (Next \/ QueueCall \/ QueueStep) /\ UNCHANGED origin
    /\ began' = (owner # None /\ owner' = owner /\ (began \/ SendsOrdinary))

QueueSpec == QueueInit /\ [][QueueNext]_queueVars

-----------------------------------------------------------------------------
\* The queues that wait for the channel: none waits while the channel is free (asserted
\* by grilio_channel_transaction_start), none waits twice, and the owner does not wait.
OwnerQueueSound ==
    /\ owner = None => owner_queue = <<>>
    /\ owner \notin ToSet(owner_queue)
    /\ \A j, k \in DOMAIN owner_queue : owner_queue[j] = owner_queue[k] => j = k

\* Transactions do not mix on the wire: from its first packet to its end, every request
\* the daemon may still reply to, and the packet that is being written, was submitted
\* through the queue that owns the channel, although cancellation, forgetting, dropping,
\* timeouts and grilio_queue_free change the queue that dequeue_request looks at.
TransactionIsolated ==
    began => /\ \A p \in PendingReqs : origin[p] = owner
             /\ tx # None /\ ~prof[tx.req].internal => origin[tx.req] = owner

\* A request that is over has left its queue, so freeing it is safe (grilio_request_free
\* asserts that), and a request in a queue is alive or about to be completed.
QueueHoldsLive ==
    \A r \in Req : queue[r] # None => status[r] \notin {"NEW", "DONE", "CANCELLED"}
=============================================================================
