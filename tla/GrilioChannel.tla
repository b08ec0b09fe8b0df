--------------------------- MODULE GrilioChannel ---------------------------
(***************************************************************************)
(* The request engine of grilio_channel.c: the send queue, the request     *)
(* table, the table of pending requests, the retry queue, serialization    *)
(* and blocking, the request timers and cancellation.                      *)
(*                                                                         *)
(* Everything runs on one GLib main loop, so a handler runs to completion  *)
(* before the next event is dispatched.  What makes it hard is that a      *)
(* handler calls the application back in the middle (a response callback,  *)
(* the pending-changed and owner-changed signals) and the application may  *)
(* call the channel again from there.  The variable stack holds what the   *)
(* functions that are being executed still have to do, innermost first: a  *)
(* main loop event needs an empty stack, an API call needs an empty stack  *)
(* or application code on top of it, and every other action performs the   *)
(* next step of the function on top.                                       *)
(***************************************************************************)
EXTENDS Integers, Sequences, FiniteSets, SequencesExt

CONSTANTS
    Req,            \* request objects
    Queue,          \* GRilIoQueue objects
    None,           \* the null pointer
    IdMax,          \* request ids are 1..IdMax and wrap around (guint in C)
    Profiles,       \* what the application may set in a request
    DefaultTimeout, \* priv->timeout > 0 (grilio_channel_set_timeout)
    SendOutcomes,   \* what grilio_transport_send may return
    EarlyReplies,   \* may the daemon use the id of a packet it does not have
    Reentrant,      \* callbacks from which the application calls back
    MaxDepth,       \* bound: nesting of application callbacks
    MaxBlock        \* bound: grilio_channel_serialize ids held at a time

Ids == 1 .. IdMax

Profile == [blocking : BOOLEAN, internal : BOOLEAN, response : BOOLEAN,
            timeout : {"none", "own", "default"}, max_retries : Int]

\* RIL_RESPONSE_ACKNOWLEDGEMENT requests made by the channel itself.
AckProfile == [blocking |-> FALSE, internal |-> TRUE, response |-> FALSE,
               timeout |-> "default", max_retries |-> 0]

ASSUME NoneAssumption    == None \notin Req \cup Queue
ASSUME IdAssumption      == IdMax \in Nat \ {0}
ASSUME PacketAssumption  == None \notin [req : Req, serial : 0 .. IdMax]
ASSUME ProfileAssumption == Profiles \subseteq {p \in Profile : ~p.internal}
ASSUME OptionAssumption  == /\ DefaultTimeout \in BOOLEAN
                            /\ EarlyReplies \in BOOLEAN
                            /\ SendOutcomes \subseteq {"OK", "PENDING", "ERROR"}
                            /\ Reentrant \subseteq {"response", "pending",
                                                    "owner", "event"}
ASSUME BoundAssumption   == MaxDepth \in Nat /\ MaxBlock \in Nat

VARIABLES
    \* the fields of the requests
    prof, status, id, current_id, retry_count, deadline, queue,
    \* grilio_channel_priv
    connected, send_req, block_req, req_table, pending, send_queue, retry,
    last_req_id, last_pending, timeout_id, block_ids, owner, owner_queue,
    \* the lists grilio_channel_timeout works through
    expired, resend,
    \* what is being executed
    stack,
    \* the transport: the packet being written, was the link lost
    tx, closed,
    \* the daemon: serials it has and did not reply to
    rild,
    \* history: how many times a response callback was called
    replies

reqVars  == <<prof, status, id, current_id, retry_count, deadline, queue>>
sendVars == <<send_req, block_req, send_queue, retry>>
tabVars  == <<req_table, pending, last_req_id, last_pending, timeout_id>>
txnVars  == <<block_ids, owner, owner_queue>>
tmoVars  == <<expired, resend>>
envVars  == <<connected, tx, closed, rild>>
vars == <<reqVars, sendVars, tabVars, txnVars, tmoVars, envVars, stack, replies>>

Statuses == {"NEW", "QUEUED", "SENDING", "SENT", "CANCELLED", "DONE", "RETRY"}
ReqOrNone == Req \cup {None}

-----------------------------------------------------------------------------
(* What is left to do in the functions that are being executed.            *)

Functions == {"app", "schedule_write", "submit", "update_pending", "response",
    "reset_timeout", "expire", "expire_one", "retry_due", "requeue",
    "cancel_queue", "cancel_table", "cancel_retry", "cancel_end", "drop",
    "queue_cancel_all", "queue_cancel"}

\* These functions hold a request they have taken off a list.
Held(f) == f.fn \in {"submit", "expire_one"}

FrameType == {f \in [fn : Functions, req : ReqOrNone, reqs : SUBSET Req,
                     ids : SUBSET Ids, notify : BOOLEAN, queue : Queue \cup {None}] :
                /\ Held(f) => f.req # None
                /\ f.fn = "queue_cancel_all" => f.queue # None
                /\ f.fn = "drop" => \E i \in Ids : f.ids = {i}}

Frame(f) == [fn |-> f, req |-> None, reqs |-> {}, ids |-> {},
             notify |-> FALSE, queue |-> None]
App           == Frame("app")
Write         == Frame("schedule_write")
PendingUpdate == Frame("update_pending")
TimeoutReset  == Frame("reset_timeout")

Running(f) == stack # <<>> /\ Head(stack).fn = f
Top  == Head(stack)
Rest == Tail(stack)

\* Application code runs in a callback of this kind, if it does anything there.
Call(kind) == IF kind \in Reentrant THEN <<App>> ELSE <<>>

\* Calls the response callback of r, if it has one.
Notify(r) == IF prof[r].response THEN Call("response") ELSE <<>>
Replied(r) == IF prof[r].response
              THEN [replies EXCEPT ![r] = IF @ < 2 THEN @ + 1 ELSE @]
              ELSE replies

Depth == Cardinality({k \in DOMAIN stack : stack[k].fn = "app"})
AppRuns == stack = <<>> \/ (Running("app") /\ Depth <= MaxDepth)
Idle == stack = <<>>

-----------------------------------------------------------------------------
(* Helpers.                                                                *)

CanRetry(r) == prof[r].max_retries < 0 \/ prof[r].max_retries > retry_count[r]
Serialized  == block_ids > 0
Timed(r)    == \/ prof[r].timeout = "own"
               \/ prof[r].timeout = "default" /\ DefaultTimeout

\* Mutant of Answered: a reply that comes too early counts.
AnsweredTooEarly(r) == IF r = None THEN FALSE
                       ELSE status[r] \in {"QUEUED", "SENDING", "SENT"}

\* Does a reply to r, if there is such a request, complete it or have it retried?
Answered(r) == IF r = None THEN FALSE ELSE status[r] = "SENT"

\* Mutant of UnblockedBy: cancellation does not look at block_req.
StaysBlocked(i) == block_req

\* block_req, once the application has given up the request with id i.
UnblockedBy(i) ==
    IF block_req # None /\ id[block_req] = i THEN None ELSE block_req

\* Mutant of PendingWithout: the serial stays pending.
PendingKept(i) == pending

PendingWithout(i) == [pending EXCEPT ![i] = None]
HasPending  == \E i \in Ids : pending[i] # None
PendingReqs == {pending[i] : i \in Ids} \ {None}

\* grilio_channel_generate_id: the next id, cyclically, that is not in the table.
IsNextId(i) ==
    LET Free == {j \in Ids : req_table[j] = None}
        Distance(j) == (j - last_req_id - 1) % IdMax
    IN  i \in Free /\ \A j \in Free : Distance(i) <= Distance(j)

\* Mutant of TableWithout: the id the caller has stays in the table.
TableWithoutSerial(r) ==
    [i \in Ids |-> IF i = current_id[r] THEN None ELSE req_table[i]]

\* The request table without the two keys of r.
TableWithout(r) ==
    [i \in Ids |-> IF i = id[r] \/ i = current_id[r] THEN None ELSE req_table[i]]

\* Mutant of RemoveRequest: the request stays in its queue.
RemoveFromTable(r) == req_table' = TableWithout(r) /\ queue' = queue

\* grilio_channel_remove_request also takes r off its GRilIoQueue.
RemoveRequest(r) == /\ req_table' = TableWithout(r)
                    /\ queue' = [queue EXCEPT ![r] = None]

\* Mutant of HasDeadline: the retry queue is forgotten.
HasDeadlineInTable ==
    \/ block_req # None /\ deadline[block_req]
    \/ \E i \in Ids : req_table[i] # None /\ deadline[req_table[i]]

\* Mutant of HasDeadline: only the retry queue counts.
HasDeadlineInRetry == retry # {}

\* grilio_channel_reset_timeout keeps the timer armed if and only if there is
\* a deadline to wait for.
HasDeadline ==
    \/ block_req # None /\ deadline[block_req]
    \/ \E i \in Ids : req_table[i] # None /\ deadline[req_table[i]]
    \/ retry # {}

-----------------------------------------------------------------------------
(* Sending: grilio_channel_schedule_write runs send_next_request until it  *)
(* returns FALSE.                                                          *)

InternalIdx == {k \in DOMAIN send_queue : prof[send_queue[k]].internal}

\* Mutant of OrdinaryIdx: a blocking request does not wait for what is pending.
OrdinaryIdxUnblocked ==
    IF block_req # None \/ send_queue = <<>> \/ (HasPending /\ Serialized) THEN {} ELSE {1}

\* Mutant of OrdinaryIdx: pending requests that are in no queue are not waited for.
OrdinaryIdxHasty ==
    IF block_req # None \/ send_queue = <<>> THEN {}
    ELSE IF owner # None
    THEN IF \A p \in PendingReqs : queue[p] \in {owner, None}
         THEN {k \in DOMAIN send_queue : queue[send_queue[k]] = owner}
         ELSE {}
    ELSE IF HasPending /\ (Serialized \/ prof[send_queue[1]].blocking)
    THEN {} ELSE {1}

\* Positions the first pass of dequeue_request chooses from (head not internal).
OrdinaryIdx ==
    IF block_req # None \/ send_queue = <<>> THEN {}
    ELSE IF owner # None
    THEN IF \A p \in PendingReqs : queue[p] = owner
         THEN {k \in DOMAIN send_queue : queue[send_queue[k]] = owner}
         ELSE {}
    ELSE IF HasPending /\ (Serialized \/ prof[send_queue[1]].blocking)
    THEN {} ELSE {1}

\* What dequeue_request takes: the head if it is internal, otherwise the first
\* ordinary request that may go, otherwise the first internal one.
DequeueIdx == IF 1 \notin InternalIdx /\ OrdinaryIdx # {}
              THEN OrdinaryIdx ELSE InternalIdx

\* Mutant of CanSend: a packet that is being written does not matter.
CanSendAnyway == connected /\ DequeueIdx # {}

CanSend == connected /\ send_req = None /\ DequeueIdx # {}

\* send_next_request finds nothing that may be sent now.
WriteStop ==
    /\ Running("schedule_write")
    /\ ~CanSend
    /\ stack' = Rest
    /\ UNCHANGED <<reqVars, sendVars, tabVars, txnVars, tmoVars, envVars, replies>>

\* dequeue_request.  The pending-changed signal goes out before the caller gets
\* to assign priv->send_req and priv->block_req.
Dequeue ==
    /\ Running("schedule_write")
    /\ CanSend
    /\ \E k \in DequeueIdx :
        /\ \A j \in DequeueIdx : k <= j
        /\ LET r == send_queue[k]
               Submission == [Frame("submit") EXCEPT !.req = r]
           IN  /\ send_queue' = RemoveAt(send_queue, k)
               /\ status' = [status EXCEPT ![r] = "SENDING"]
               /\ IF prof[r].internal
                  THEN /\ stack' = <<Submission>> \o Rest
                       /\ UNCHANGED <<pending, last_pending>>
                  ELSE /\ pending' = [pending EXCEPT ![current_id[r]] = r]
                       /\ last_pending' = TRUE
                       /\ stack' = (IF last_pending THEN <<>> ELSE Call("pending"))
                                     \o <<Submission>> \o Rest
    /\ UNCHANGED <<prof, id, current_id, retry_count, deadline, queue,
                   send_req, block_req, retry, req_table, last_req_id, timeout_id,
                   txnVars, tmoVars, envVars, replies>>

\* The rest of send_next_request, after dequeue_request returned r.  Whether a timer
\* that was armed is left alone depends on how close r's deadline is.
Submit ==
    /\ Running("submit")
    /\ UNCHANGED <<prof, id, current_id, retry_count, send_queue, retry,
                   req_table, pending, last_req_id, last_pending, txnVars, tmoVars,
                   connected, closed, replies>>
    /\ \E outcome \in IF closed THEN {"ERROR"} ELSE SendOutcomes :
       LET r == Top.req
           blocks  == ~prof[r].internal /\ (prof[r].blocking \/ Serialized)
           forgets == ~prof[r].response /\ ~CanRetry(r)
           timed   == Timed(r) /\ ~(forgets /\ block_req = None /\ ~blocks)
       IN  /\ block_req' = IF blocks THEN r ELSE block_req
           /\ queue' = IF forgets THEN [queue EXCEPT ![r] = None] ELSE queue
           /\ deadline' = IF timed THEN [deadline EXCEPT ![r] = TRUE] ELSE deadline
           /\ timeout_id' \in IF timed THEN {HasDeadline', timeout_id \/ HasDeadline'}
                            ELSE {timeout_id}
           /\ IF outcome = "OK"
              THEN \* request_sent, and on to the next request
                   /\ status' = IF status[r] = "SENDING"
                                THEN [status EXCEPT ![r] = "SENT"] ELSE status
                   /\ send_req' = None
                   /\ rild' = IF prof[r].internal THEN rild
                              ELSE rild \cup {current_id[r]}
                   /\ stack' = <<Write>> \o Rest
                   /\ UNCHANGED tx
              ELSE \* the packet is partly written, or lost
                   /\ send_req' = r
                   /\ tx' = IF outcome = "PENDING"
                            THEN [req |-> r, serial |-> current_id[r]] ELSE tx
                   /\ stack' = Rest
                   /\ UNCHANGED <<status, rild>>

\* Mutant of UpdatePending: last_pending is never reset.
UpdatePendingOnce ==
    /\ Running("update_pending")
    /\ last_pending' = (last_pending \/ HasPending)
    /\ stack' = (IF last_pending # HasPending THEN Call("pending") ELSE <<>>) \o Rest
    /\ UNCHANGED <<reqVars, sendVars, req_table, pending, last_req_id, timeout_id,
                   txnVars, tmoVars, envVars, replies>>

\* grilio_channel_update_pending.
UpdatePending ==
    /\ Running("update_pending")
    /\ last_pending' = HasPending
    /\ stack' = (IF last_pending # HasPending THEN Call("pending") ELSE <<>>) \o Rest
    /\ UNCHANGED <<reqVars, sendVars, req_table, pending, last_req_id, timeout_id,
                   txnVars, tmoVars, envVars, replies>>

\* grilio_channel_reset_timeout, where it follows a callback.
ResetTimeout ==
    /\ Running("reset_timeout")
    /\ timeout_id' = HasDeadline
    /\ stack' = Rest
    /\ UNCHANGED <<reqVars, sendVars, req_table, pending, last_req_id, last_pending,
                   txnVars, tmoVars, envVars, replies>>

\* The application returns from a callback.
AppReturns ==
    /\ Running("app")
    /\ stack' = Rest
    /\ UNCHANGED <<reqVars, sendVars, tabVars, txnVars, tmoVars, envVars, replies>>

-----------------------------------------------------------------------------
(* Submitting and retrying requests.                                       *)

\* grilio_channel_send_request_full, for a request that belongs to q.
SendThrough(r, p, q) ==
    /\ AppRuns
    /\ status[r] = "NEW"
    /\ \E i \in Ids :
        /\ IsNextId(i)
        /\ id' = [id EXCEPT ![r] = i]
        /\ current_id' = [current_id EXCEPT ![r] = i]
        /\ req_table' = [req_table EXCEPT ![i] = r]
        /\ last_req_id' = i
    /\ prof' = [prof EXCEPT ![r] = p]
    /\ queue' = [queue EXCEPT ![r] = q]
    /\ status' = [status EXCEPT ![r] = "QUEUED"]
    /\ send_queue' = Append(send_queue, r)
    /\ stack' = <<Write>> \o stack
    /\ UNCHANGED <<retry_count, deadline, send_req, block_req, retry, pending,
                   last_pending, timeout_id, txnVars, tmoVars, envVars, replies>>

SendRequest(r, p) == SendThrough(r, p, None)

\* Mutant of Requeue: only the new id goes into the table.
RequeueSerialOnly(r) ==
    /\ \E i \in Ids :
        /\ IsNextId(i)
        /\ current_id' = [current_id EXCEPT ![r] = i]
        /\ req_table' = [req_table EXCEPT ![i] = r]
        /\ last_req_id' = i
    /\ deadline' = [deadline EXCEPT ![r] = FALSE]
    /\ retry_count' = [retry_count EXCEPT ![r] = @ + 1]
    /\ status' = [status EXCEPT ![r] = "QUEUED"]
    /\ send_queue' = Append(send_queue, r)

\* Mutant of Requeue: the deadline of the retry is not reset.
RequeueWithDeadline(r) ==
    /\ \E i \in Ids :
        /\ IsNextId(i)
        /\ current_id' = [current_id EXCEPT ![r] = i]
        /\ req_table' = [req_table EXCEPT ![id[r]] = r, ![i] = r]
        /\ last_req_id' = i
    /\ deadline' = deadline
    /\ retry_count' = [retry_count EXCEPT ![r] = @ + 1]
    /\ status' = [status EXCEPT ![r] = "QUEUED"]
    /\ send_queue' = Append(send_queue, r)

\* grilio_channel_requeue_request, up to schedule_write.
Requeue(r) ==
    /\ \E i \in Ids :
        /\ IsNextId(i)
        /\ current_id' = [current_id EXCEPT ![r] = i]
        /\ req_table' = [req_table EXCEPT ![id[r]] = r, ![i] = r]
        /\ last_req_id' = i
    /\ deadline' = [deadline EXCEPT ![r] = FALSE]
    /\ retry_count' = [retry_count EXCEPT ![r] = @ + 1]
    /\ status' = [status EXCEPT ![r] = "QUEUED"]
    /\ send_queue' = Append(send_queue, r)

\* grilio_channel_retry_request, where it finds the request in the retry queue
\* (everywhere else it only returns an answer).
RetryRequest(i) ==
    /\ AppRuns
    /\ ~(block_req # None /\ id[block_req] = i)
    /\ \A k \in DOMAIN send_queue : id[send_queue[k]] # i
    /\ req_table[i] = None
    /\ \E r \in retry :
        /\ id[r] = i
        /\ retry' = retry \ {r}
        /\ Requeue(r)
    /\ stack' = <<Write, TimeoutReset>> \o stack
    /\ UNCHANGED <<prof, id, queue, send_req, block_req, pending, last_pending,
                   timeout_id, txnVars, tmoVars, envVars, replies>>

\* Mutant of ScheduleRetry: the request stays in the table.
ScheduleRetryInTable(r) ==
    /\ deadline' = [deadline EXCEPT ![r] = TRUE]
    /\ status' = [status EXCEPT ![r] = "RETRY"]
    /\ req_table' = req_table
    /\ retry' = retry \cup {r}

\* grilio_channel_schedule_retry.  The retry queue is sorted by deadline and the
\* deadlines are arbitrary, so it is a set here: any member may be due first.
ScheduleRetry(r) ==
    /\ deadline' = [deadline EXCEPT ![r] = TRUE]
    /\ status' = [status EXCEPT ![r] = "RETRY"]
    /\ req_table' = TableWithout(r)
    /\ retry' = retry \cup {r}

\* A request is over: it leaves the table and its queue, and its callback runs.
Complete(r, final) ==
    /\ status' = [status EXCEPT ![r] = final]
    /\ RemoveRequest(r)

-----------------------------------------------------------------------------
(* The events the transport reports.                                       *)

\* grilio_channel_handle_connected.
Connected ==
    /\ Idle /\ ~connected /\ ~closed
    /\ connected' = TRUE
    /\ stack' = Call("event") \o <<Write>>
    /\ UNCHANGED <<reqVars, sendVars, tabVars, txnVars, tmoVars, tx, closed, rild,
                   replies>>

\* grilio_channel_handle_disconnected: EOF, an error, or grilio_channel_shutdown.
\* The transport forgets the packet it was writing; there is no way back.
Disconnected ==
    /\ AppRuns /\ ~closed
    /\ closed' = TRUE
    /\ connected' = FALSE
    /\ tx' = None
    /\ rild' = {}
    /\ stack' = Call("event") \o stack
    /\ UNCHANGED <<reqVars, sendVars, tabVars, txnVars, tmoVars, replies>>

\* grilio_channel_handle_request_sent: the rest of the packet was written.
RequestSent ==
    /\ Idle
    /\ tx # None
    /\ LET r == tx.req
       IN  /\ status' = IF status[r] = "SENDING"
                        THEN [status EXCEPT ![r] = "SENT"] ELSE status
           /\ send_req' = IF send_req = r THEN None ELSE send_req
           /\ rild' = IF prof[r].internal THEN rild ELSE rild \cup {tx.serial}
    /\ tx' = None
    /\ stack' = <<Write>>
    /\ UNCHANGED <<prof, id, current_id, retry_count, deadline, queue, block_req,
                   send_queue, retry, tabVars, txnVars, tmoVars, connected, closed,
                   replies>>

\* grilio_channel_queue_ack.
QueueAck(a) ==
    /\ status[a] = "NEW"
    /\ \E i \in Ids :
        /\ IsNextId(i)
        /\ id' = [id EXCEPT ![a] = i]
        /\ current_id' = [current_id EXCEPT ![a] = i]
        /\ req_table' = [req_table EXCEPT ![i] = a]
        /\ last_req_id' = i
    /\ prof' = [prof EXCEPT ![a] = AckProfile]
    /\ status' = [status EXCEPT ![a] = "QUEUED"]
    /\ send_queue' = Append(send_queue, a)
    /\ UNCHANGED <<retry_count, deadline, queue, send_req, block_req, retry,
                   pending, last_pending, timeout_id>>

\* grilio_channel_handle_indication, of an event that has to be acknowledged.
\* (Other events change nothing and only run application code.)
Indication(a) ==
    /\ Idle /\ connected
    /\ QueueAck(a)
    /\ stack' = Call("event") \o <<Write>>
    /\ UNCHANGED <<txnVars, tmoVars, envVars, replies>>

\* The beginning of grilio_channel_handle_response: a reply with serial i comes
\* in and a, unless it is None, is the acknowledgement it asks for.
Response(i, a) ==
    /\ Idle /\ connected
    /\ i \in rild \/ EarlyReplies
    /\ rild' = rild \ {i}
    /\ stack' = <<[Frame("response") EXCEPT !.ids = {i}]>>
    /\ \/ a # None /\ QueueAck(a)
       \/ a = None /\ UNCHANGED <<reqVars, sendVars, tabVars>>
    /\ UNCHANGED <<txnVars, tmoVars, connected, tx, closed, replies>>

\* The rest of grilio_channel_handle_response.
HandleResponse ==
    /\ Running("response")
    /\ \E i \in Top.ids :
        LET r == req_table[i] IN
        /\ pending' = PendingWithout(i)
        /\ block_req' = IF block_req # None /\ current_id[block_req] = i
                        THEN None ELSE block_req
        /\ \/ \* nothing to complete
              /\ ~Answered(r)
              /\ stack' = <<Write, PendingUpdate>> \o Rest
              /\ UNCHANGED <<status, deadline, queue, req_table, retry, timeout_id,
                             replies>>
           \/ \* the retry callback asks for another try
              /\ Answered(r) /\ CanRetry(r)
              /\ ScheduleRetry(r)
              /\ timeout_id' = HasDeadline'
              /\ stack' = <<Write, PendingUpdate>> \o Rest
              /\ UNCHANGED <<queue, replies>>
           \/ \* it is over
              /\ Answered(r)
              /\ Complete(r, "DONE")
              /\ replies' = Replied(r)
              /\ stack' = Notify(r) \o <<Write, PendingUpdate>> \o Rest
              /\ UNCHANGED <<deadline, retry, timeout_id>>
    /\ UNCHANGED <<prof, id, current_id, retry_count, send_req, send_queue,
                   last_req_id, last_pending, txnVars, tmoVars, envVars>>

-----------------------------------------------------------------------------
(* Timers.  Any request whose deadline is set may be the one that is due.   *)

\* Requests grilio_channel_timeout finds in the table under their own serial.
Timeable == {r \in Req : /\ deadline[r]
                         /\ \E i \in Ids : i = current_id[r] /\ req_table[i] = r}

\* grilio_channel_timeout, its first loop: the requests of due have timed out and
\* those of again may be tried again.  A timer that finds nothing due is only of
\* interest when there is nothing left to wait for.
Timeout(due, again) ==
    /\ Idle
    /\ timeout_id
    /\ due \subseteq Timeable /\ again \subseteq retry
    /\ due \cup again = {} => Timeable \cup retry = {}
    /\ timeout_id' = FALSE
    /\ deadline' = [r \in Req |-> deadline[r] /\ r \notin due]
    /\ block_req' = IF block_req \in due THEN None ELSE block_req
    /\ expired' = due
    /\ stack' = <<Frame("expire"), [Frame("retry_due") EXCEPT !.reqs = again],
                  TimeoutReset, Write, PendingUpdate>>
    /\ UNCHANGED <<prof, status, id, current_id, retry_count, queue, send_req,
                   send_queue, retry, req_table, pending, last_req_id, last_pending,
                   txnVars, resend, envVars, replies>>

\* The next expired request is no longer pending, which may be signalled.
ExpirePending ==
    /\ Running("expire")
    /\ \E r \in expired :
        /\ expired' = expired \ {r}
        /\ \E i \in Ids :
            /\ i = current_id[r]
            /\ pending' = PendingWithout(i)
            /\ LET changed == pending[i] # None /\ last_pending # HasPending'
               IN  /\ last_pending' = IF changed THEN HasPending' ELSE last_pending
                   /\ stack' = (IF changed THEN Call("pending") ELSE <<>>)
                               \o <<[Frame("expire_one") EXCEPT !.req = r]>> \o stack
    /\ UNCHANGED <<reqVars, sendVars, req_table, last_req_id, timeout_id, txnVars,
                   resend, envVars, replies>>

\* It is tried again later, or it is over.
ExpireOne ==
    /\ Running("expire_one")
    /\ LET r == Top.req IN
       IF CanRetry(r)
       THEN /\ ScheduleRetry(r)
            /\ stack' = Rest
            /\ UNCHANGED <<queue, replies>>
       ELSE /\ Complete(r, "DONE")
            /\ replies' = Replied(r)
            /\ stack' = Notify(r) \o Rest
            /\ UNCHANGED <<deadline, retry>>
    /\ UNCHANGED <<prof, id, current_id, retry_count, send_req, block_req, send_queue,
                   pending, last_req_id, last_pending, timeout_id, txnVars, expired,
                   resend, envVars>>

\* After that loop, the due part of the retry queue is split off.
ExpireEnd ==
    /\ Running("expire") /\ expired = {}
    /\ stack' = Rest
    /\ UNCHANGED <<reqVars, sendVars, tabVars, txnVars, tmoVars, envVars, replies>>

TakeRetries ==
    /\ Running("retry_due")
    /\ resend' = retry \cap Top.reqs
    /\ retry' = retry \ Top.reqs
    /\ stack' = <<Frame("requeue")>> \o Rest
    /\ UNCHANGED <<reqVars, send_req, block_req, send_queue, tabVars, txnVars, expired,
                   envVars, replies>>

\* Its requests go back to the send queue one by one.
RequeueNext ==
    /\ Running("requeue")
    /\ \E r \in resend :
        /\ resend' = resend \ {r}
        /\ Requeue(r)
    /\ stack' = <<Write>> \o stack
    /\ UNCHANGED <<prof, id, queue, send_req, block_req, retry, pending, last_pending,
                   timeout_id, txnVars, expired, envVars, replies>>

RequeueEnd ==
    /\ Running("requeue") /\ resend = {}
    /\ stack' = Rest
    /\ UNCHANGED <<reqVars, sendVars, tabVars, txnVars, tmoVars, envVars, replies>>

\* Mutant of PendingTimeout: block_req stays.
PendingTimeoutBlocked(due) ==
    /\ Idle
    /\ due # {}
    /\ \A i \in due : pending[i] # None
    /\ pending' = [i \in Ids |-> IF i \in due THEN None ELSE pending[i]]
    /\ stack' = <<Write, PendingUpdate>>
    /\ UNCHANGED <<reqVars, sendVars, req_table, last_req_id,
                   last_pending, timeout_id, txnVars, tmoVars, envVars, replies>>

\* grilio_channel_pending_timeout: the requests with the serials of due have been
\* pending for too long.  The timer is armed while there is something pending.
PendingTimeout(due) ==
    /\ Idle
    /\ due # {}
    /\ \A i \in due : pending[i] # None
    /\ pending' = [i \in Ids |-> IF i \in due THEN None ELSE pending[i]]
    /\ block_req' = IF \E i \in due : pending[i] = block_req THEN None ELSE block_req
    /\ stack' = <<Write, PendingUpdate>>
    /\ UNCHANGED <<reqVars, send_req, send_queue, retry, req_table, last_req_id,
                   last_pending, timeout_id, txnVars, tmoVars, envVars, replies>>

-----------------------------------------------------------------------------
(* Cancellation.                                                           *)

Cancelled(r, notify) == IF notify THEN Notify(r) ELSE <<>>
CancelReplies(r, notify) == IF notify THEN Replied(r) ELSE replies

\* grilio_channel_cancel_request.  The caller goes on with the frames of after.
CancelThen(i, notify, after) ==
    /\ block_req' = UnblockedBy(i)
    /\ LET Sending  == send_req # None /\ id[send_req] = i
           QueuedAt == {k \in DOMAIN send_queue : id[send_queue[k]] = i}
           Cancel(r, more) == /\ Complete(r, "CANCELLED")
                              /\ replies' = CancelReplies(r, notify)
                              /\ stack' = Cancelled(r, notify) \o more \o after
       IN  \/ \* it is being sent
              /\ Sending /\ status[send_req] # "CANCELLED"
              /\ Cancel(send_req, <<Write>>)
              /\ UNCHANGED <<send_queue, retry>>
           \/ \* it is in the send queue
              /\ ~Sending
              /\ \E k \in QueuedAt :
                  /\ \A j \in QueuedAt : k <= j
                  /\ Cancel(send_queue[k], <<Write>>)
                  /\ send_queue' = RemoveAt(send_queue, k)
              /\ UNCHANGED retry
           \/ \* it has been sent
              /\ ~Sending /\ QueuedAt = {} /\ req_table[i] # None
              /\ Cancel(req_table[i], <<TimeoutReset, Write>>)
              /\ UNCHANGED <<send_queue, retry>>
           \/ \* it is in the retry queue
              /\ ~Sending /\ QueuedAt = {} /\ req_table[i] = None
              /\ \E r \in retry :
                  /\ id[r] = i
                  /\ Cancel(r, <<TimeoutReset, Write>>)
                  /\ retry' = retry \ {r}
              /\ UNCHANGED send_queue
           \/ \* it is not found, or it has been cancelled while being sent
              /\ IF Sending THEN status[send_req] = "CANCELLED"
                 ELSE /\ QueuedAt = {} /\ req_table[i] = None
                      /\ \A r \in retry : id[r] # i
              /\ stack' = after
              /\ UNCHANGED <<status, queue, req_table, send_queue, retry, replies>>
    /\ UNCHANGED <<prof, id, current_id, retry_count, deadline, send_req,
                   pending, last_req_id, last_pending, timeout_id, txnVars, tmoVars,
                   envVars>>

CancelRequest(i, notify) == AppRuns /\ CancelThen(i, notify, stack)

\* grilio_channel_drop_request, its call of grilio_channel_cancel_request.
DropRequest(i) ==
    AppRuns /\ CancelThen(i, FALSE, <<[Frame("drop") EXCEPT !.ids = {i}]>> \o stack)

\* The rest of it: the request no longer counts as pending.
DropPending ==
    /\ Running("drop")
    /\ \E i \in Top.ids :
        /\ pending' = PendingWithout(i)
        /\ stack' = (IF pending[i] # None THEN <<Write, PendingUpdate>> ELSE <<>>) \o Rest
    /\ UNCHANGED <<reqVars, sendVars, req_table, last_req_id, last_pending, timeout_id,
                   txnVars, tmoVars, envVars, replies>>

\* grilio_channel_cancel_all, the request that is being sent.
CancelAll(notify) ==
    /\ AppRuns
    /\ block_req' = None
    /\ LET loops == << [Frame("cancel_queue") EXCEPT !.notify = notify],
                       [Frame("cancel_retry") EXCEPT !.notify = notify],
                       Frame("cancel_end") >>
       IN  IF send_req # None /\ status[send_req] # "CANCELLED"
           THEN /\ Complete(send_req, "CANCELLED")
                /\ replies' = CancelReplies(send_req, notify)
                /\ stack' = Cancelled(send_req, notify) \o loops \o stack
           ELSE /\ stack' = loops \o stack
                /\ UNCHANGED <<status, queue, req_table, replies>>
    /\ UNCHANGED <<prof, id, current_id, retry_count, deadline, send_req, send_queue,
                   retry, pending, last_req_id, last_pending, timeout_id, txnVars,
                   tmoVars, envVars>>

\* Then the send queue, from its head.
CancelQueued ==
    /\ Running("cancel_queue")
    /\ send_queue # <<>>
    /\ LET r == Head(send_queue)
       IN  /\ Complete(r, "CANCELLED")
           /\ replies' = CancelReplies(r, Top.notify)
           /\ stack' = Cancelled(r, Top.notify) \o stack
    /\ send_queue' = Tail(send_queue)
    /\ UNCHANGED <<prof, id, current_id, retry_count, deadline, send_req, block_req,
                   retry, pending, last_req_id, last_pending, timeout_id, txnVars,
                   tmoVars, envVars>>

\* Then the table, by the keys it has at this moment.
CancelTableStart ==
    /\ Running("cancel_queue")
    /\ send_queue = <<>>
    /\ stack' = <<[Frame("cancel_table") EXCEPT
                     !.ids = {i \in Ids : req_table[i] # None},
                     !.notify = Top.notify]>> \o Rest
    /\ UNCHANGED <<reqVars, sendVars, tabVars, txnVars, tmoVars, envVars, replies>>

\* In the order of the keys; some may be gone by the time it gets to them.
CancelTable ==
    /\ Running("cancel_table")
    /\ \E i \in Top.ids :
        /\ \A j \in Top.ids : i <= j
        /\ LET r == req_table[i]
               loop == <<[Top EXCEPT !.ids = @ \ {i}]>> \o Rest
           IN  IF r # None
               THEN /\ Complete(r, "CANCELLED")
                    /\ replies' = CancelReplies(r, Top.notify)
                    /\ stack' = Cancelled(r, Top.notify) \o loop
               ELSE /\ stack' = loop
                    /\ UNCHANGED <<status, queue, req_table, replies>>
    /\ UNCHANGED <<prof, id, current_id, retry_count, deadline, sendVars, pending,
                   last_req_id, last_pending, timeout_id, txnVars, tmoVars, envVars>>

\* Then the retry queue.
CancelRetry ==
    /\ Running("cancel_retry")
    /\ \E r \in retry :
        /\ Complete(r, "CANCELLED")
        /\ retry' = retry \ {r}
        /\ replies' = CancelReplies(r, Top.notify)
        /\ stack' = Cancelled(r, Top.notify) \o stack
    /\ UNCHANGED <<prof, id, current_id, retry_count, deadline, send_req, block_req,
                   send_queue, pending, last_req_id, last_pending, timeout_id, txnVars,
                   tmoVars, envVars>>

CancelLoopEnd ==
    /\ \/ Running("cancel_table") /\ Top.ids = {}
       \/ Running("cancel_retry") /\ retry = {}
    /\ stack' = Rest
    /\ UNCHANGED <<reqVars, sendVars, tabVars, txnVars, tmoVars, envVars, replies>>

\* "We no longer need the timer."
CancelAllEnd ==
    /\ Running("cancel_end")
    /\ timeout_id' = FALSE
    /\ stack' = Rest
    /\ UNCHANGED <<reqVars, sendVars, req_table, pending, last_req_id, last_pending,
                   txnVars, tmoVars, envVars, replies>>

-----------------------------------------------------------------------------
(* Serialization.  The ids are interchangeable, so they are counted.       *)

Serialize ==
    /\ AppRuns /\ block_ids < MaxBlock
    /\ block_ids' = block_ids + 1
    /\ UNCHANGED <<reqVars, sendVars, tabVars, owner, owner_queue, tmoVars, envVars,
                   stack, replies>>

\* Mutant of Deserialize: an id that is not there counts.
DeserializeTwice ==
    /\ AppRuns
    /\ block_ids' = block_ids - 1
    /\ UNCHANGED <<reqVars, sendVars, tabVars, owner, owner_queue, tmoVars, envVars,
                   stack, replies>>

\* Mutant of Deserialize: nothing is sent afterwards.
DeserializeQuietly ==
    /\ AppRuns /\ block_ids > 0
    /\ block_ids' = block_ids - 1
    /\ block_req' = IF block_ids = 1 /\ block_req # None /\ ~prof[block_req].blocking
                    THEN None ELSE block_req
    /\ UNCHANGED <<reqVars, send_req, send_queue, retry, tabVars, owner, owner_queue,
                   tmoVars, envVars, stack, replies>>

Deserialize ==
    /\ AppRuns /\ block_ids > 0
    /\ block_ids' = block_ids - 1
    /\ IF block_ids = 1
       THEN /\ block_req' = IF block_req # None /\ ~prof[block_req].blocking
                            THEN None ELSE block_req
            /\ stack' = <<Write>> \o stack
       ELSE UNCHANGED <<block_req, stack>>
    /\ UNCHANGED <<reqVars, send_req, send_queue, retry, tabVars, owner, owner_queue,
                   tmoVars, envVars, replies>>

-----------------------------------------------------------------------------
Init ==
    /\ prof = [r \in Req |-> AckProfile]
    /\ status = [r \in Req |-> "NEW"]
    /\ id = [r \in Req |-> 0]
    /\ current_id = [r \in Req |-> 0]
    /\ retry_count = [r \in Req |-> 0]
    /\ deadline = [r \in Req |-> FALSE]
    /\ queue = [r \in Req |-> None]
    /\ send_req = None /\ block_req = None
    /\ send_queue = <<>> /\ retry = {}
    /\ req_table = [i \in Ids |-> None]
    /\ pending = [i \in Ids |-> None]
    /\ last_req_id = 0 /\ last_pending = FALSE /\ timeout_id = FALSE
    /\ block_ids = 0 /\ owner = None /\ owner_queue = <<>>
    /\ expired = {} /\ resend = {}
    /\ connected = FALSE /\ tx = None /\ closed = FALSE /\ rild = {}
    /\ stack = <<>>
    /\ replies = [r \in Req |-> 0]

\* What the application may call.  It knows the ids it was given.
KnownIds ==
    {i \in Ids : \E r \in Req : id[r] = i /\ status[r] # "NEW" /\ ~prof[r].internal}
AppCall ==
    \/ \E r \in Req, p \in Profiles : SendRequest(r, p)
    \/ \E i \in KnownIds, notify \in BOOLEAN : CancelRequest(i, notify)
    \/ \E notify \in BOOLEAN : CancelAll(notify)
    \/ \E i \in KnownIds : RetryRequest(i)
    \/ \E i \in KnownIds : DropRequest(i)
    \/ Serialize
    \/ Deserialize
    \/ AppReturns

\* What the main loop may dispatch.
Event ==
    \/ Connected
    \/ Disconnected
    \/ RequestSent
    \/ \E i \in Ids, a \in ReqOrNone : Response(i, a)
    \/ \E a \in Req : Indication(a)
    \/ \E due \in SUBSET Timeable, again \in SUBSET retry : Timeout(due, again)
    \/ \E due \in SUBSET Ids : PendingTimeout(due)

\* How the function that is being executed goes on.
Step ==
    \/ WriteStop
    \/ Dequeue
    \/ Submit
    \/ UpdatePending
    \/ ResetTimeout
    \/ HandleResponse
    \/ ExpirePending
    \/ ExpireOne
    \/ ExpireEnd
    \/ TakeRetries
    \/ RequeueNext
    \/ RequeueEnd
    \/ DropPending
    \/ CancelQueued
    \/ CancelTableStart
    \/ CancelTable
    \/ CancelRetry
    \/ CancelLoopEnd
    \/ CancelAllEnd

Next == AppCall \/ Event \/ Step

Spec == Init /\ [][Next]_vars

\* Functions and callbacks return.  A timer source of the main loop that is armed stays
\* armed while other handlers run and is dispatched eventually: strong fairness, because
\* the events are only enabled between handlers.  Nothing is assumed of the daemon, of
\* the transport or of what the application calls.
Fairness ==
    /\ WF_vars(Step)
    /\ SF_vars(AppReturns)
    /\ SF_vars(\E due \in SUBSET Timeable, again \in SUBSET retry : Timeout(due, again))
    /\ SF_vars(\E due \in SUBSET Ids : PendingTimeout(due))

FairSpec == Spec /\ Fairness

-----------------------------------------------------------------------------
\* Type correctness of the requests, the channel, its timers and its surroundings.
RequestTypeOK ==
    /\ prof \in [Req -> Profiles \cup {AckProfile}]
    /\ status \in [Req -> Statuses]
    /\ id \in [Req -> 0 .. IdMax]
    /\ current_id \in [Req -> 0 .. IdMax]
    /\ retry_count \in [Req -> Nat]
    /\ deadline \in [Req -> BOOLEAN]
    /\ queue \in [Req -> Queue \cup {None}]

SendTypeOK ==
    /\ send_req \in ReqOrNone /\ block_req \in ReqOrNone
    /\ send_queue \in Seq(Req) /\ retry \subseteq Req
    /\ expired \subseteq Req /\ resend \subseteq Req

TableTypeOK ==
    /\ req_table \in [Ids -> ReqOrNone]
    /\ pending \in [Ids -> ReqOrNone]
    /\ last_req_id \in 0 .. IdMax
    /\ last_pending \in BOOLEAN /\ timeout_id \in BOOLEAN
    /\ block_ids \in 0 .. MaxBlock
    /\ owner \in Queue \cup {None} /\ owner_queue \in Seq(Queue)

EnvTypeOK ==
    /\ connected \in BOOLEAN /\ closed \in BOOLEAN
    /\ tx \in [req : Req, serial : 0 .. IdMax] \cup {None}
    /\ rild \subseteq 0 .. IdMax
    /\ replies \in [Req -> 0 .. 2]

StackTypeOK == stack \in Seq(FrameType)

TypeOK == RequestTypeOK /\ SendTypeOK /\ TableTypeOK /\ EnvTypeOK /\ StackTypeOK

-----------------------------------------------------------------------------
(* List integrity, and the inductive invariant behind it.                  *)

\* What the functions on a stack hold, each of them something else, and which they are.
HeldBy(s)    == {s[k].req : k \in {j \in DOMAIN s : Held(s[j])}}
HeldOnce(s)  == \A j, k \in DOMAIN s :
                    Held(s[j]) /\ Held(s[k]) /\ s[j].req = s[k].req => j = k
Executing(s) == {s[k].fn : k \in DOMAIN s}

\* The send queue, the retry queue and the lists grilio_channel_timeout works through
\* share the one pointer req->next: a request linked into two of them, or into one of
\* them twice, would corrupt both.  And a request that one of the functions has taken
\* off its list is on none of them, until that function puts it there.
ListIntegrity ==
    /\ IsInjective(send_queue)
    /\ \A r \in Range(send_queue) : r \notin retry \cup expired \cup resend
    /\ retry \cap (expired \cup resend) = {}
    /\ expired \cap resend = {}
    /\ \A r \in HeldBy(stack) :
         r \notin Range(send_queue) \cup retry \cup expired \cup resend

\* A queued request carries no deadline, so it cannot be picked as expired.
QueuedHasNoDeadline ==
    \A r \in Range(send_queue) : ~deadline[r] /\ status[r] \in {"QUEUED", "CANCELLED"}

\* The table knows a request by its own ids only, and not while it waits for a retry.
TableKeys ==
    \A i \in Ids : req_table[i] # None =>
        /\ i = id[req_table[i]] \/ i = current_id[req_table[i]]
        /\ req_table[i] \notin retry \cup resend

\* A request that was not submitted is nowhere.
NewIsNowhere ==
    \A r \in Req : status[r] = "NEW" =>
        /\ r \notin Range(send_queue) \cup retry \cup expired \cup resend \cup HeldBy(stack)
        /\ ~deadline[r]
        /\ \A i \in Ids : req_table[i] # r

\* The functions that are being executed: no two hold the same request, the list of
\* expired requests is in use only while grilio_channel_timeout runs, and a reply is
\* handled when nothing else is.
FramesSound ==
    /\ HeldOnce(stack)
    /\ expired # {} => "expire" \in Executing(stack)
    /\ "response" \in Executing(stack) => Len(stack) = 1

ListInv == /\ TypeOK
           /\ ListIntegrity
           /\ QueuedHasNoDeadline
           /\ TableKeys
           /\ NewIsNowhere
           /\ FramesSound
=============================================================================
