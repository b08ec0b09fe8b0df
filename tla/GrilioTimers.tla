---------------------------- MODULE GrilioTimers ----------------------------
(***************************************************************************)
(* The two timers of the channel (grilio_channel.c) and the clock.         *)
(* GrilioChannel only knows whether the request timer is armed; here the   *)
(* deadlines are times, timers count whole milliseconds, and the code      *)
(* rearms a timer only when it believes that it has to.  The request timer *)
(* waits for the earliest deadline of a request in the table or in the     *)
(* retry queue, the pending timer for the earliest time at which a request *)
(* that was not replied to no longer keeps others from being sent.         *)
(*                                                                         *)
(* A request that is queued may be submitted at any time: when that        *)
(* happens is the business of GrilioChannel.  The blocking request is in   *)
(* the table (BlockReqInTable there), so its deadline needs no mention.    *)
(* Times are multiples of the resolution of the clock; no time passes      *)
(* within a handler.                                                       *)
(***************************************************************************)
EXTENDS Integers, FiniteSets, FiniteSetsExt

CONSTANTS
    Req,             \* request objects
    Milli,           \* clock ticks in a millisecond
    OwnTimeouts,     \* what grilio_request_set_timeout may set, in milliseconds
    DefaultTimeouts, \* what grilio_channel_set_timeout may set, 0 for none
    RetryPeriods,    \* what grilio_request_set_retry may set, in milliseconds
    PendingTimeouts, \* what grilio_channel_set_pending_timeout may set
    MayLower,        \* may the application make the pending timeout shorter
    MaxTime          \* bound: the time at which the clock stops

ASSUME MilliAssumption == Milli \in Nat \ {0} /\ MaxTime \in Nat \ {0}
ASSUME TimeoutAssumption ==
    /\ OwnTimeouts \subseteq Nat \ {0} /\ PendingTimeouts \subseteq Nat \ {0}
    /\ DefaultTimeouts \subseteq Nat /\ RetryPeriods \subseteq Nat
    /\ DefaultTimeouts # {} /\ PendingTimeouts # {}
    /\ MayLower \in BOOLEAN

VARIABLES
    \* the monotonic clock; it is not 0
    now,
    \* the requests: where they are, their own timeout, their deadline and submit time
    \* (0 for none), and which of them are pending
    state, timeout, deadline, submitted, pending,
    \* the request timer: when its source is due (0 if there is none), and next_deadline
    timeout_id, next_deadline,
    \* the same for the timer of the pending requests, and its length
    pending_timeout_id, next_pending_deadline, pending_timeout,
    \* history: next_pending_deadline, if it was left over when nothing was pending
    leftover

reqVars     == <<state, timeout, deadline, submitted>>
timerVars   == <<timeout_id, next_deadline>>
pendingVars == <<pending_timeout_id, next_pending_deadline, leftover>>
vars == <<now, reqVars, pending, timerVars, pendingVars, pending_timeout>>

States == {"new", "queued", "sent", "retry", "over"}

-----------------------------------------------------------------------------
\* Mutant of DueAt: the milliseconds are rounded down.
DueAtRoundedDown(t) == IF t > now THEN now + Milli * ((t - now) \div Milli) ELSE now

\* When a source is due that is added for time t: after as many whole milliseconds as
\* it takes, or in the next iteration of the main loop if the time has come.
DueAt(t) == IF t > now THEN now + Milli * ((t - now + Milli - 1) \div Milli) ELSE now

\* The times the request timer has to wait for: of requests in the table that were
\* submitted with a timeout, and of requests in the retry queue.
Deadlines ==
    {deadline[r] : r \in {q \in Req : state[q] \in {"sent", "retry"} /\ deadline[q] # 0}}

\* Mutant of ResetTimeout: the timer is not touched while it is armed.
ResetTimeoutIfNone(armed, next) ==
    IF Deadlines' = {} THEN timeout_id' = 0 /\ next_deadline' = 0
    ELSE /\ next_deadline' = IF next = 0 THEN Min(Deadlines') ELSE next
         /\ timeout_id' = IF next = 0 THEN DueAt(Min(Deadlines')) ELSE armed

\* grilio_channel_reset_timeout, where the timer and next_deadline were as given.  It
\* is only moved forward; if it fires too early it is set again then.
ResetTimeout(armed, next) ==
    IF Deadlines' = {}
    THEN /\ timeout_id' = 0
         /\ next_deadline' = IF armed # 0 THEN 0 ELSE next
    ELSE IF next = 0 \/ next > Min(Deadlines')
    THEN /\ next_deadline' = Min(Deadlines')
         /\ timeout_id' = DueAt(Min(Deadlines'))
    ELSE timeout_id' = armed /\ next_deadline' = next

\* grilio_channel_pending_deadline.
PendingDeadline(r) ==
    submitted[r] + Milli * (IF timeout[r] > 0 THEN timeout[r] ELSE pending_timeout)
PendingDeadlines == {PendingDeadline(r) : r \in pending}

\* Mutant of ResetPendingTimeout: the timer is only moved forward.
ResetPendingForward(armed) ==
    LET earliest == Min(PendingDeadlines')
        same == next_pending_deadline # 0 /\ next_pending_deadline <= earliest
    IN  IF pending' = {}
        THEN /\ pending_timeout_id' = 0 /\ leftover' = next_pending_deadline
             /\ UNCHANGED next_pending_deadline
        ELSE /\ UNCHANGED leftover
             /\ next_pending_deadline' = IF same THEN next_pending_deadline ELSE earliest
             /\ pending_timeout_id' = IF same THEN armed ELSE DueAt(earliest)

\* grilio_channel_reset_pending_timeout, where the timer was as given.
ResetPendingTimeout(armed) ==
    IF pending' = {}
    THEN /\ pending_timeout_id' = 0
         /\ leftover' = next_pending_deadline
         /\ UNCHANGED next_pending_deadline
    ELSE IF next_pending_deadline # Min(PendingDeadlines')
    THEN /\ next_pending_deadline' = Min(PendingDeadlines')
         /\ pending_timeout_id' = DueAt(Min(PendingDeadlines'))
         /\ leftover' = 0
    ELSE pending_timeout_id' = armed /\ UNCHANGED <<next_pending_deadline, leftover>>

-----------------------------------------------------------------------------
(* Requests.                                                               *)

\* grilio_channel_send_request, of a request with its own timeout t or with none.
Queue(r, t) ==
    /\ state[r] = "new"
    /\ state' = [state EXCEPT ![r] = "queued"]
    /\ timeout' = [timeout EXCEPT ![r] = t]
    /\ UNCHANGED <<now, deadline, submitted, pending, timerVars, pendingVars,
                   pending_timeout>>

\* dequeue_request and grilio_channel_send_next_request, where the channel has the
\* timeout d for requests without one.  A request is forgotten if nothing is called back
\* or tried again and nothing is blocked: it gets no deadline.  An acknowledgement, which
\* is sent once, is not replied to and does not become pending.
Submit(r, d, forgotten, replied) ==
    /\ state[r] = "queued"
    /\ replied \/ r \notin pending
    /\ state' = [state EXCEPT ![r] = "sent"]
    /\ submitted' = [submitted EXCEPT ![r] = now]
    /\ UNCHANGED <<now, timeout, pending_timeout>>
    /\ IF replied
       THEN pending' = pending \cup {r} /\ ResetPendingTimeout(pending_timeout_id)
       ELSE UNCHANGED <<pending, pendingVars>>
    /\ LET ms == IF forgotten THEN 0 ELSE IF timeout[r] > 0 THEN timeout[r] ELSE d
       IN  IF ms > 0
           THEN /\ deadline' = [deadline EXCEPT ![r] = now + Milli * ms]
                /\ IF next_deadline = 0 \/ deadline'[r] < next_deadline
                   THEN ResetTimeout(timeout_id, next_deadline)
                   ELSE UNCHANGED timerVars
           ELSE UNCHANGED <<deadline, timerVars>>

\* grilio_channel_handle_response: a reply to a request that was sent or that is only
\* pending any more; its submit time is reset if it is in the table.  If it is to be
\* tried again that happens after p milliseconds.
Reply(r, retried, p) ==
    /\ state[r] = "sent" \/ r \in pending
    /\ pending' = pending \ {r}
    /\ submitted' = IF r \in pending /\ state[r] \in {"queued", "sent"}
                    THEN [submitted EXCEPT ![r] = 0] ELSE submitted
    /\ UNCHANGED <<now, timeout, pending_timeout>>
    /\ IF r \in pending THEN ResetPendingTimeout(pending_timeout_id)
       ELSE UNCHANGED pendingVars
    /\ IF state[r] = "sent" /\ retried
       THEN /\ state' = [state EXCEPT ![r] = "retry"]
            /\ deadline' = [deadline EXCEPT ![r] = now + Milli * p]
            /\ ResetTimeout(timeout_id, next_deadline)
       ELSE /\ state' = [state EXCEPT ![r] = IF @ = "sent" THEN "over" ELSE @]
            /\ UNCHANGED <<deadline, timerVars>>

\* grilio_channel_retry_request and requeue_request.
RetryRequest(r) ==
    /\ state[r] = "retry"
    /\ state' = [state EXCEPT ![r] = "queued"]
    /\ deadline' = [deadline EXCEPT ![r] = 0]
    /\ ResetTimeout(timeout_id, next_deadline)
    /\ UNCHANGED <<now, timeout, submitted, pending, pendingVars, pending_timeout>>

\* grilio_channel_cancel_request: the request stays pending.
CancelRequest(r) ==
    /\ state[r] \in {"queued", "sent", "retry"}
    /\ state' = [state EXCEPT ![r] = "over"]
    /\ IF state[r] = "queued" THEN UNCHANGED timerVars
       ELSE UNCHANGED deadline /\ ResetTimeout(timeout_id, next_deadline)
    /\ UNCHANGED <<now, timeout, deadline, submitted, pending, pendingVars,
                   pending_timeout>>

\* grilio_channel_drop_request, where the request was not tried again.
DropRequest(r) ==
    /\ r \in pending
    /\ state' = [state EXCEPT ![r] = "over"]
    /\ UNCHANGED <<now, timeout, deadline, pending_timeout>>
    /\ IF state[r] = "sent" THEN ResetTimeout(timeout_id, next_deadline)
       ELSE UNCHANGED timerVars
    /\ pending' = pending \ {r}
    /\ submitted' = [submitted EXCEPT ![r] = 0]
    /\ ResetPendingTimeout(pending_timeout_id)

\* Mutant of CancelAll: next_deadline outlives the timer.
CancelAllKeepsDeadline ==
    /\ state' = [r \in Req |-> IF state[r] = "new" THEN "new" ELSE "over"]
    /\ timeout_id' = 0
    /\ UNCHANGED <<now, timeout, deadline, submitted, pending, next_deadline, pendingVars,
                   pending_timeout>>

\* grilio_channel_cancel_all: what was sent stays pending.
CancelAll ==
    /\ state' = [r \in Req |-> IF state[r] = "new" THEN "new" ELSE "over"]
    /\ timeout_id' = 0
    /\ next_deadline' = IF timeout_id = 0 THEN next_deadline ELSE 0
    /\ UNCHANGED <<now, timeout, deadline, submitted, pending, pendingVars,
                   pending_timeout>>

\* grilio_channel_set_pending_timeout: a longer timeout takes effect at once.
SetPendingTimeout(ms) ==
    /\ ms # pending_timeout
    /\ MayLower \/ ms > pending_timeout
    /\ pending_timeout' = ms
    /\ UNCHANGED <<now, reqVars, pending, timerVars>>
    /\ IF pending_timeout < ms THEN ResetPendingTimeout(pending_timeout_id)
       ELSE UNCHANGED pendingVars

-----------------------------------------------------------------------------
(* The timers.                                                             *)

\* grilio_channel_timeout: the requests of again, which have timed out, are tried again
\* after p milliseconds, the others that have timed out are over, and those that have
\* waited for their retry go back to the queue.
Timeout(again, p) ==
    LET expired == {r \in Req : state[r] = "sent" /\ deadline[r] \in 1 .. now}
        due     == {r \in Req : state[r] = "retry" /\ deadline[r] <= now}
                     \cup IF p = 0 THEN again ELSE {}
    IN  /\ timeout_id # 0 /\ timeout_id <= now
        /\ again \subseteq expired
        /\ again = {} => p = Min(RetryPeriods)
        /\ state' = [r \in Req |-> CASE r \in due -> "queued"
                                     [] r \in again \ due -> "retry"
                                     [] r \in expired \ again -> "over"
                                     [] OTHER -> state[r]]
        /\ deadline' = [r \in Req |-> CASE r \in again \ due -> now + Milli * p
                                        [] r \in (expired \cup due) \ (again \ due) -> 0
                                        [] OTHER -> deadline[r]]
        /\ pending' = pending \ expired
        /\ UNCHANGED <<now, timeout, submitted, pending_timeout>>
        /\ IF expired \cap pending # {} THEN ResetPendingTimeout(pending_timeout_id)
           ELSE UNCHANGED pendingVars
        /\ ResetTimeout(0, 0)

\* grilio_channel_pending_timeout.
PendingTimeout ==
    /\ pending_timeout_id # 0 /\ pending_timeout_id <= now
    /\ pending' = {r \in pending : PendingDeadline(r) > now}
    /\ UNCHANGED <<now, reqVars, timerVars, pending_timeout>>
    /\ ResetPendingTimeout(0)

Tick ==
    /\ now < MaxTime
    /\ now' = now + 1
    /\ UNCHANGED <<reqVars, pending, timerVars, pendingVars, pending_timeout>>

-----------------------------------------------------------------------------
Init ==
    /\ now = 1
    /\ state = [r \in Req |-> "new"]
    /\ timeout = [r \in Req |-> 0]
    /\ deadline = [r \in Req |-> 0] /\ submitted = [r \in Req |-> 0]
    /\ pending = {}
    /\ timeout_id = 0 /\ next_deadline = 0
    /\ pending_timeout_id = 0 /\ next_pending_deadline = 0 /\ leftover = 0
    /\ pending_timeout \in PendingTimeouts

Next ==
    \/ \E r \in Req, t \in OwnTimeouts \cup {0} : Queue(r, t)
    \/ \E r \in Req, d \in DefaultTimeouts, forgotten, replied \in BOOLEAN :
         Submit(r, d, forgotten, replied)
    \/ \E r \in Req, retried \in BOOLEAN, p \in RetryPeriods : Reply(r, retried, p)
    \/ \E r \in Req : RetryRequest(r)
    \/ \E r \in Req : CancelRequest(r)
    \/ \E r \in Req : DropRequest(r)
    \/ CancelAll
    \/ \E ms \in PendingTimeouts : SetPendingTimeout(ms)
    \/ \E again \in SUBSET Req, p \in RetryPeriods : Timeout(again, p)
    \/ PendingTimeout
    \/ Tick

Spec == Init /\ [][Next]_vars

-----------------------------------------------------------------------------
\* Type correctness; a request timer that is not armed has no deadline.
TypeOK ==
    /\ now \in 1 .. MaxTime
    /\ state \in [Req -> States]
    /\ timeout \in [Req -> OwnTimeouts \cup {0}]
    /\ deadline \in [Req -> Nat] /\ submitted \in [Req -> 0 .. now]
    /\ pending \subseteq {r \in Req : submitted[r] # 0}
    /\ {timeout_id, next_deadline, pending_timeout_id, next_pending_deadline} \subseteq Nat
    /\ timeout_id = 0 <=> next_deadline = 0
    /\ pending_timeout \in PendingTimeouts

\* The source is there for time t: it is due less than a millisecond after t, unless it
\* is due already.
Covers(source, t) == source # 0 /\ (source < t + Milli \/ source <= now)

\* Every request that may time out or that waits for its retry is covered by the timer:
\* it fires within a millisecond of the earliest deadline, although the code moves it
\* only forward and leaves it alone when it thinks that it can.
RequestTimerCovers == Deadlines # {} => Covers(timeout_id, Min(Deadlines))

\* Likewise for the requests that are pending, "and we don't want to get stuck forever".
PendingTimerRuns ==
    pending # {} => Covers(pending_timeout_id, Min(PendingDeadlines))

\* That fails in one case only: the timer was removed when nothing was pending any more,
\* and the earliest deadline since then is the very one that it was last set for.
PendingTimerCovers ==
    PendingTimerRuns \/ (pending_timeout_id = 0 /\ leftover = Min(PendingDeadlines))
=============================================================================
