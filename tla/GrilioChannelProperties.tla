---------------------- MODULE GrilioChannelProperties ----------------------
(***************************************************************************)
(* What makes the request engine correct.  The properties relate the       *)
(* structures a request is found in (send queue, retry queue, request      *)
(* table, pending table, send_req, block_req) to each other and to what    *)
(* the application is told.                                                *)
(***************************************************************************)
EXTENDS GrilioChannel

\* The application may still get an answer.
Live(r) == status[r] \in {"QUEUED", "SENDING", "SENT", "RETRY"}

\* Application code may look at the channel now.
Visible == stack = <<>> \/ Running("app")

\* The request that grilio_channel_cancel_request finds by id i.
LookUp(i) ==
    LET Queued   == {k \in DOMAIN send_queue : id[send_queue[k]] = i}
        Retrying == {r \in retry : id[r] = i}
    IN  IF send_req # None /\ id[send_req] = i THEN send_req
        ELSE IF Queued # {} THEN send_queue[CHOOSE k \in Queued : \A j \in Queued : k <= j]
        ELSE IF req_table[i] # None THEN req_table[i]
        ELSE IF Retrying # {} THEN CHOOSE r \in Retrying : TRUE
        ELSE None

-----------------------------------------------------------------------------
(* Safety.                                                                 *)

\* Whenever the application can call, the id it was given leads to its request as
\* long as the request is alive, whatever structure it sits in: cancelling it works.
CancelFindsRequest ==
    Visible => \A r \in Req :
        Live(r) /\ ~prof[r].internal => LookUp(id[r]) = r

\* A request that is over is not in any structure which could complete it again.
OverIsForgotten ==
    \A r \in Req : status[r] \in {"DONE", "CANCELLED"} =>
        /\ \A i \in Ids : req_table[i] # r
        /\ \A k \in DOMAIN send_queue : send_queue[k] # r
        /\ r \notin retry

\* When the main loop gets control, a blocking request in flight is the only ordinary
\* request in flight ("Block next requests from being sent while this one is pending").
BlockingAlone ==
    stack = <<>> => \A i, j \in Ids :
        LET r == pending[i]
            s == pending[j]
        IN  r # None /\ s # None /\ r # s /\ prof[r].blocking
            => ~(status[r] \in {"SENDING", "SENT"} /\ status[s] \in {"SENDING", "SENT"})

\* While block_req is set it is a request in flight that can be found in the table:
\* its reply, its timeout and its cancellation release the channel.
BlockReqInTable ==
    block_req # None =>
        /\ status[block_req] \in {"SENDING", "SENT"}
        /\ \E i \in Ids : i = current_id[block_req] /\ req_table[i] = block_req

\* A live request counts as pending at most under the serial of its last try, and
\* only while that try is in flight.
PendingIsInFlight ==
    \A i \in Ids : pending[i] # None /\ Live(pending[i]) =>
        i = current_id[pending[i]] /\ status[pending[i]] \in {"SENDING", "SENT"}

\* When the main loop gets control, the timer runs if any request may time out or
\* waits for its next try.
TimerArmed == stack = <<>> /\ (Timeable # {} \/ retry # {}) => timeout_id

\* When the main loop gets control, nothing that may be sent is left unsent.
NothingLeftUnsent == stack = <<>> => ~CanSend

\* When the main loop gets control, the last pending-changed signal told the truth.
PendingSignalled == stack = <<>> => last_pending = HasPending

\* The channel waits for the transport only when the transport writes its request.
SendReqIsWritten ==
    stack = <<>> /\ ~closed /\ "ERROR" \notin SendOutcomes =>
        IF tx = None THEN send_req = None ELSE send_req = tx.req

\* What grilio_channel_request_sent asserts: the packet that is being written
\* belongs to a request that is being sent, or was cancelled meanwhile.
WrittenIsSending ==
    stack = <<>> /\ tx # None => status[tx.req] \in {"SENDING", "CANCELLED"}

-----------------------------------------------------------------------------
(* Action properties.                                                      *)

Transitions ==
    {<<"NEW", "QUEUED">>, <<"QUEUED", "SENDING">>, <<"SENDING", "SENT">>,
     <<"SENT", "RETRY">>, <<"RETRY", "QUEUED">>, <<"SENT", "DONE">>}

\* A request goes through its states in order; what is over stays over.
LifeCycle ==
    [][\A r \in Req :
        \/ status'[r] = status[r]
        \/ <<status[r], status'[r]>> \in Transitions
        \/ status'[r] = "CANCELLED" /\ Live(r)]_vars

\* What test_cancel1 asserts after the main loop has ended: a request that was cancelled
\* has the status CANCELLED for good.
CancelledStays ==
    [][\A r \in Req : status[r] = "CANCELLED" => status'[r] = "CANCELLED"]_vars

\* What grilio_channel_handle_response asserts: a reply that completes a request, or
\* has it tried again, carries the serial of its last try.
ReplyIsForLastTry ==
    [][\A r \in Req : status[r] = "SENT" /\ HandleResponse /\ status'[r] # "SENT"
         => current_id[r] \in Top.ids]_vars

\* What grilio_channel_requeue_request asserts: when a request is to be tried again,
\* nobody uses its ids.
RetryFindsIdsFree ==
    [][\A r \in Req : retry_count'[r] # retry_count[r] =>
         \A i \in {id[r], current_id[r]} : req_table[i] = None /\ pending[i] # r]_vars

\* "Same as grilio_channel_cancel_request but also removes the cancelled request
\* from the pending list so that it no longer prevents blocking requests from being
\* submitted": once the drop is through, no request with that id is pending.
DropUnblocks ==
    [][\A i \in Ids : DropPending /\ i \in Top.ids =>
         \A j \in Ids : pending'[j] # None => id[pending'[j]] # i]_vars

-----------------------------------------------------------------------------
(* Refinement.                                                             *)

\* What the application sees of the requests it made.
Phase(r) == CASE status[r] = "NEW" -> "new"
              [] status[r] = "DONE" -> "answered"
              [] status[r] = "CANCELLED" -> "cancelled"
              [] OTHER -> "waiting"

Promise == INSTANCE RequestPromise
             WITH phase <- [r \in Req |-> Phase(r)], calls <- replies

\* All of the machinery above implements the promise of RequestPromise: a request is
\* settled at most once and for good, and its callback runs then or never.
KeepsPromise == Promise!Spec

-----------------------------------------------------------------------------
(* Liveness.                                                               *)

\* With a timeout, a request is always settled while the link is up: answered, timed
\* out or cancelled, whatever the daemon does and however often it is retried.
Settles ==
    \A r \in Req : (Live(r) /\ Timed(r) /\ connected) ~> (~Live(r) \/ closed)

\* A queued request does not wait forever, even if nothing it waits for has a timeout:
\* "pending requests prevent blocking requests from being submitted and we don't want
\* to get stuck forever".
QueueMoves ==
    \A r \in Req : (status[r] = "QUEUED" /\ connected) ~> (status[r] # "QUEUED" \/ closed)
=============================================================================
