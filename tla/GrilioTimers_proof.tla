-------------------------- MODULE GrilioTimers_proof --------------------------
(***************************************************************************)
(* Each timer of the channel fires within a millisecond of the earliest    *)
(* deadline it is there for: for any number of requests, any timeouts and  *)
(* any resolution of the clock.  The invariant says what the code believes *)
(* when it leaves a timer alone, and why it may.                           *)
(***************************************************************************)
EXTENDS GrilioTimers, WellFoundedInduction, TLAPS

USE MilliAssumption, TimeoutAssumption

-----------------------------------------------------------------------------
(* Arithmetic.                                                             *)

\* Whole milliseconds in a number of ticks.
LEMMA DivBounds ==
    ASSUME NEW a \in Nat, NEW m \in Nat \ {0}
    PROVE  /\ a \div m \in Nat
           /\ m * (a \div m) \in Nat
           /\ m * (a \div m) <= a
           /\ a < m * (a \div m) + m
  BY SMT

\* A source that is added for time t is due at t or later, less than a millisecond later,
\* or at once.
LEMMA DueAtBounds ==
    ASSUME NEW t \in Nat, now \in Nat
    PROVE  /\ DueAt(t) \in Nat
           /\ DueAt(t) >= t
           /\ DueAt(t) >= now
           /\ DueAt(t) < t + Milli \/ DueAt(t) <= now
<1>1. CASE t > now
  <2>1. t - now + Milli - 1 \in Nat
    BY <1>1
  <2>2. QED
    BY <1>1, <2>1, DivBounds DEF DueAt
<1>2. CASE ~(t > now)
  BY <1>2 DEF DueAt
<1>3. QED
  BY <1>1, <1>2

\* A set of times that is not empty has a least element, which Min returns.
LEMMA MinOfTimes ==
    ASSUME NEW S \in SUBSET Nat, S # {}
    PROVE  /\ Min(S) \in S
           /\ \A y \in S : Min(S) <= y
<1> DEFINE R == {ss \in Nat \X Nat : ss[1] < ss[2]}
<1>0. IsWellFoundedOn(R, Nat)
  BY NatLessThanWellFounded, Zenon DEF OpToRel
<1>1. PICK x \in S : \A y \in S : ~(<<y, x>> \in R)
  BY <1>0, WFMin, Zenon
<1>2. ASSUME NEW y \in S
      PROVE  x <= y
  <2>1. ~(<<y, x>> \in Nat \X Nat /\ <<y, x>>[1] < <<y, x>>[2])
    BY <1>1, Zenon
  <2>2. QED
    BY <2>1
<1>3. QED
  BY <1>2, Zenon DEF Min

\* Whatever timeout is set, it is a number of milliseconds.
LEMMA TimeoutsAreNat ==
    OwnTimeouts \cup {0} \subseteq Nat /\ PendingTimeouts \subseteq Nat
<1>1. OwnTimeouts \subseteq Nat \ {0} /\ PendingTimeouts \subseteq Nat \ {0}
  BY TimeoutAssumption
<1>2. QED
  BY <1>1, SMT

\* A deadline some milliseconds from now.
LEMMA LaterIsNat ==
    ASSUME NEW t \in Nat, NEW ms \in Nat
    PROVE  /\ t + Milli * ms \in Nat
           /\ t + Milli * ms >= t
  BY SMT

-----------------------------------------------------------------------------
(* The invariant.                                                          *)

\* Only a request that was submitted since it was queued last has a deadline.
WaitingHasNone == \A r \in Req : state[r] \in {"new", "queued"} => deadline[r] = 0

\* A request that is new was not submitted.
NewNotSubmitted == \A r \in Req : state[r] = "new" => submitted[r] = 0

TypeInv == TypeOK /\ WaitingHasNone /\ NewNotSubmitted

\* What makes it right to leave the request timer alone: next_deadline is no later than
\* any deadline, and the source is there for next_deadline.
Prompt(source, t) == source < t + Milli \/ source <= now
RequestTimer ==
    /\ \A d \in Deadlines : next_deadline # 0 /\ next_deadline <= d
    /\ timeout_id # 0 => Prompt(timeout_id, next_deadline)

\* What is known of the pending timer: next_pending_deadline is the earliest deadline,
\* and the source is there for it and not due before it, or there is none and the
\* deadline is left over.
PendingTimer ==
    /\ pending # {} => next_pending_deadline = Min(PendingDeadlines)
    /\ \/ pending_timeout_id = 0 /\ leftover = next_pending_deadline
       \/ /\ pending # {}
          /\ pending_timeout_id >= next_pending_deadline
          /\ Prompt(pending_timeout_id, next_pending_deadline)

-----------------------------------------------------------------------------
(* What the two reset functions leave behind.                              *)

\* grilio_channel_reset_timeout leaves the timer armed for the earliest deadline or an
\* earlier time.
LEMMA ResetTimeoutSound ==
    ASSUME NEW armed \in Nat, NEW next \in Nat,
           armed = 0 <=> next = 0,
           armed # 0 => Prompt(armed, next),
           now \in Nat \ {0}, now' = now,
           deadline' \in [Req -> Nat],
           ResetTimeout(armed, next)
    PROVE  /\ timeout_id' \in Nat /\ next_deadline' \in Nat
           /\ timeout_id' = 0 <=> next_deadline' = 0
           /\ RequestTimer'
<1> DEFINE D == Deadlines'
<1>1. D \in SUBSET Nat /\ 0 \notin D
  BY DEF Deadlines
<1>2. RequestTimer' <=>
        /\ \A d \in D : next_deadline' # 0 /\ next_deadline' <= d
        /\ timeout_id' # 0 => timeout_id' < next_deadline' + Milli \/ timeout_id' <= now
  BY DEF RequestTimer, Prompt
<1>3. armed # 0 => armed < next + Milli \/ armed <= now
  BY DEF Prompt
<1>4. CASE D = {}
  <2>1. timeout_id' = 0 /\ next_deadline' = IF armed # 0 THEN 0 ELSE next
    BY <1>4 DEF ResetTimeout
  <2>2. QED
    BY <1>2, <1>4, <2>1
<1>5. CASE D # {}
  <2> DEFINE m == Min(D)
  <2>1. m \in Nat \ {0} /\ \A d \in D : m <= d
    BY <1>1, <1>5, MinOfTimes
  <2>2. /\ DueAt(m) \in Nat \ {0}
        /\ DueAt(m) < m + Milli \/ DueAt(m) <= now
    BY <2>1, DueAtBounds
  <2>3. CASE next = 0 \/ next > m
    <3>1. next_deadline' = m /\ timeout_id' = DueAt(m)
      BY <1>5, <2>3 DEF ResetTimeout
    <3> HIDE DEF m, D
    <3>2. QED
      BY <1>2, <2>1, <2>2, <3>1
  <2>4. CASE ~(next = 0 \/ next > m)
    <3>1. next_deadline' = next /\ timeout_id' = armed
      BY <1>5, <2>4 DEF ResetTimeout
    <3>2. \A d \in D : next <= d
      <4> HIDE DEF m, D
      <4>1. QED
        BY <1>1, <2>1, <2>4
    <3> HIDE DEF m, D
    <3>3. QED
      BY <1>2, <1>3, <2>4, <3>1, <3>2
  <2>5. QED
    BY <2>3, <2>4
<1>6. QED
  BY <1>4, <1>5

\* PendingDeadlines, of given requests.
DeadlinesOf(own, sub, P, long) ==
    {sub[r] + Milli * (IF own[r] > 0 THEN own[r] ELSE long) : r \in P}

\* Deadlines of requests that were submitted are times, not 0.
LEMMA PendingDeadlinesAreTimes ==
    ASSUME NEW own \in [Req -> OwnTimeouts \cup {0}],
           NEW sub \in [Req -> Nat],
           NEW P \in SUBSET {r \in Req : sub[r] # 0},
           NEW long \in PendingTimeouts
    PROVE  /\ DeadlinesOf(own, sub, P, long) \in SUBSET Nat
           /\ 0 \notin DeadlinesOf(own, sub, P, long)
           /\ DeadlinesOf(own, sub, P, long) = {} <=> P = {}
<1> DEFINE Due(r) == sub[r] + Milli * (IF own[r] > 0 THEN own[r] ELSE long)
<1>1. ASSUME NEW r \in P
      PROVE  Due(r) \in Nat \ {0}
  <2> DEFINE ms == IF own[r] > 0 THEN own[r] ELSE long
  <2>1. r \in Req /\ sub[r] \in Nat \ {0}
    OBVIOUS
  <2>2. own[r] \in Nat /\ long \in Nat
    BY <2>1, TimeoutsAreNat
  <2>3. ms \in Nat
    BY <2>2
  <2> HIDE DEF ms
  <2>4. sub[r] + Milli * ms \in Nat \ {0}
    BY <2>1, <2>3, LaterIsNat
  <2>5. QED
    BY <2>4 DEF ms
<1> HIDE DEF Due
<1>2. {Due(r) : r \in P} \in SUBSET Nat /\ 0 \notin {Due(r) : r \in P}
      /\ ({Due(r) : r \in P} = {} <=> P = {})
  BY <1>1
<1>3. QED
  BY <1>2 DEF Due, DeadlinesOf

\* grilio_channel_reset_pending_timeout keeps the types.
LEMMA ResetPendingTyped ==
    ASSUME NEW armed \in Nat,
           now \in Nat, next_pending_deadline \in Nat,
           PendingDeadlines' \in SUBSET Nat,
           PendingDeadlines' = {} <=> pending' = {},
           ResetPendingTimeout(armed)
    PROVE  pending_timeout_id' \in Nat /\ next_pending_deadline' \in Nat
<1> DEFINE D == PendingDeadlines'
<1>1. CASE pending' = {}
  BY <1>1 DEF ResetPendingTimeout
<1>2. CASE pending' # {} /\ next_pending_deadline # Min(D)
  <2>1. Min(D) \in Nat
    BY <1>2, MinOfTimes
  <2>2. next_pending_deadline' = Min(D) /\ pending_timeout_id' = DueAt(Min(D))
    BY <1>2 DEF ResetPendingTimeout
  <2> HIDE DEF D
  <2>3. QED
    BY <2>1, <2>2, DueAtBounds
<1>3. CASE pending' # {} /\ next_pending_deadline = Min(D)
  BY <1>3 DEF ResetPendingTimeout
<1>4. QED
  BY <1>1, <1>2, <1>3

\* It leaves the pending timer armed for the earliest deadline, unless that is the one
\* for which the timer was set last, and then nothing but the source given it remains.
LEMMA ResetPendingSound ==
    ASSUME NEW armed \in Nat,
           now \in Nat \ {0}, now' = now,
           PendingDeadlines' \in SUBSET Nat,
           PendingDeadlines' = {} <=> pending' = {},
           ResetPendingTimeout(armed),
           pending' # {} /\ next_pending_deadline = Min(PendingDeadlines') =>
              \/ armed = 0 /\ leftover = next_pending_deadline
              \/ armed >= next_pending_deadline /\ Prompt(armed, next_pending_deadline)
    PROVE  PendingTimer'
<1> DEFINE D == PendingDeadlines'
           n == next_pending_deadline
<1>1. CASE pending' = {}
  BY <1>1 DEF ResetPendingTimeout, PendingTimer
<1>2. CASE pending' # {} /\ n # Min(D)
  <2>1. Min(D) \in Nat
    BY <1>2, MinOfTimes
  <2>2. next_pending_deadline' = Min(D) /\ pending_timeout_id' = DueAt(Min(D))
    BY <1>2 DEF ResetPendingTimeout
  <2>3. /\ DueAt(Min(D)) >= Min(D)
        /\ DueAt(Min(D)) < Min(D) + Milli \/ DueAt(Min(D)) <= now
    <3> HIDE DEF D
    <3>1. QED
      BY <2>1, DueAtBounds
  <2>4. QED
    BY <1>2, <2>2, <2>3 DEF PendingTimer, Prompt
<1>3. CASE pending' # {} /\ n = Min(D)
  <2>1. /\ pending_timeout_id' = armed /\ next_pending_deadline' = n
        /\ leftover' = leftover
    BY <1>3 DEF ResetPendingTimeout
  <2>2. QED
    BY <1>3, <2>1 DEF PendingTimer, Prompt
<1>4. QED
  BY <1>1, <1>2, <1>3

-----------------------------------------------------------------------------
(* Types.                                                                  *)

\* What a request that is submitted or retried may get as its deadline.
LEMMA DeadlineSet ==
    ASSUME TypeOK, NEW r \in Req, NEW ms \in Nat
    PROVE  [deadline EXCEPT ![r] = now + Milli * ms] \in [Req -> Nat]
<1>1. now + Milli * ms \in Nat
  BY LaterIsNat DEF TypeOK
<1>2. QED
  BY <1>1 DEF TypeOK

\* grilio_channel_reset_pending_timeout in a well-typed step.
LEMMA PendingTyped ==
    ASSUME TypeOK, NEW armed \in Nat,
           timeout' = timeout, submitted' \in [Req -> Nat],
           pending' \subseteq {r \in Req : submitted'[r] # 0},
           pending_timeout' \in PendingTimeouts,
           ResetPendingTimeout(armed)
    PROVE  pending_timeout_id' \in Nat /\ next_pending_deadline' \in Nat
<1>1. /\ PendingDeadlines' \in SUBSET Nat
      /\ PendingDeadlines' = {} <=> pending' = {}
  <2>1. timeout' \in [Req -> OwnTimeouts \cup {0}]
    BY DEF TypeOK
  <2>2. /\ submitted' \in [Req -> Nat] /\ pending_timeout' \in PendingTimeouts
        /\ pending' \in SUBSET {r \in Req : submitted'[r] # 0}
    OBVIOUS
  <2>3. PendingDeadlines' = DeadlinesOf(timeout', submitted', pending', pending_timeout')
    BY DEF PendingDeadlines, PendingDeadline, DeadlinesOf
  <2>4. QED
    BY <2>1, <2>2, <2>3, PendingDeadlinesAreTimes
<1>2. QED
  BY <1>1, ResetPendingTyped DEF TypeOK

\* The channel leaves the request timer alone where no deadline is added.
LEMMA RequestTimerKept ==
    ASSUME TypeOK, RequestTimer, UNCHANGED timerVars,
           now' \in Nat, now' >= now,
           Deadlines' \subseteq Deadlines
    PROVE  RequestTimer'
  BY DEF RequestTimer, Prompt, timerVars, TypeOK

\* grilio_channel_reset_timeout, called with the timer and next_deadline as they are.
LEMMA ResetTimeoutKeeps ==
    ASSUME TypeOK, RequestTimer, now' = now, deadline' \in [Req -> Nat],
           ResetTimeout(timeout_id, next_deadline)
    PROVE  /\ timeout_id' \in Nat /\ next_deadline' \in Nat
           /\ timeout_id' = 0 <=> next_deadline' = 0
           /\ RequestTimer'
  BY ResetTimeoutSound DEF TypeOK, RequestTimer

-----------------------------------------------------------------------------
(* The request timer: one lemma for each action.                           *)

TimerInv == TypeInv /\ RequestTimer

LEMMA QueueSound ==
    ASSUME TimerInv, NEW r \in Req, NEW t \in OwnTimeouts \cup {0}, Queue(r, t)
    PROVE  TimerInv'
<1> USE DEF TimerInv, TypeInv, Queue
<1>1. TypeOK'
  BY DEF TypeOK, States, timerVars, pendingVars
<1>2. WaitingHasNone' /\ NewNotSubmitted'
  BY DEF WaitingHasNone, NewNotSubmitted, TypeOK
<1>3. Deadlines' \subseteq Deadlines
  BY DEF Deadlines, TypeOK
<1>4. RequestTimer'
  BY <1>3, RequestTimerKept DEF TypeOK
<1>5. QED
  BY <1>1, <1>2, <1>4

LEMMA RetryRequestSound ==
    ASSUME TimerInv, NEW r \in Req, RetryRequest(r)
    PROVE  TimerInv'
<1> USE DEF TimerInv, TypeInv, RetryRequest
<1>1. deadline' \in [Req -> Nat] /\ state' \in [Req -> States]
  BY DEF TypeOK, States
<1>2. /\ timeout_id' \in Nat /\ next_deadline' \in Nat
      /\ timeout_id' = 0 <=> next_deadline' = 0
      /\ RequestTimer'
  BY <1>1, ResetTimeoutKeeps
<1>3. TypeOK'
  BY <1>1, <1>2 DEF TypeOK, pendingVars
<1>4. WaitingHasNone' /\ NewNotSubmitted'
  BY DEF WaitingHasNone, NewNotSubmitted, TypeOK
<1>5. QED
  BY <1>2, <1>3, <1>4

LEMMA CancelRequestSound ==
    ASSUME TimerInv, NEW r \in Req, CancelRequest(r)
    PROVE  TimerInv'
<1> USE DEF TimerInv, TypeInv, CancelRequest
<1>1. state' \in [Req -> States] /\ deadline' \in [Req -> Nat]
  BY DEF TypeOK, States
<1>2. /\ timeout_id' \in Nat /\ next_deadline' \in Nat
      /\ timeout_id' = 0 <=> next_deadline' = 0
      /\ RequestTimer'
  <2>1. CASE state[r] = "queued"
    <3>1. Deadlines' \subseteq Deadlines
      BY DEF Deadlines, TypeOK
    <3>2. QED
      BY <2>1, <3>1, RequestTimerKept DEF TypeOK, timerVars
  <2>2. CASE state[r] # "queued"
    BY <1>1, <2>2, ResetTimeoutKeeps
  <2>3. QED
    BY <2>1, <2>2
<1>3. TypeOK'
  BY <1>1, <1>2 DEF TypeOK, pendingVars
<1>4. WaitingHasNone' /\ NewNotSubmitted'
  BY DEF WaitingHasNone, NewNotSubmitted, TypeOK
<1>5. QED
  BY <1>2, <1>3, <1>4

LEMMA SubmitSound ==
    ASSUME TimerInv, NEW r \in Req, NEW d \in DefaultTimeouts,
           NEW forgotten \in BOOLEAN, NEW replied \in BOOLEAN,
           Submit(r, d, forgotten, replied)
    PROVE  TimerInv'
<1> USE DEF TimerInv, TypeInv
<1> DEFINE ms == IF forgotten THEN 0 ELSE IF timeout[r] > 0 THEN timeout[r] ELSE d
<1>1. ms \in Nat
  <2>1. timeout[r] \in Nat /\ d \in Nat
    <3>1. DefaultTimeouts \subseteq Nat
      BY TimeoutAssumption
    <3>2. QED
      BY <3>1, TimeoutsAreNat DEF TypeOK
  <2>2. QED
    BY <2>1
<1>2. /\ state[r] = "queued" /\ state' = [state EXCEPT ![r] = "sent"]
      /\ submitted' = [submitted EXCEPT ![r] = now]
      /\ pending' = pending \cup {r} \/ pending' = pending
      /\ now' = now /\ timeout' = timeout /\ pending_timeout' = pending_timeout
      /\ ResetPendingTimeout(pending_timeout_id) \/ UNCHANGED pendingVars
  BY DEF Submit
<1>3. /\ state' \in [Req -> States] /\ submitted' \in [Req -> 0 .. now]
      /\ submitted' \in [Req -> Nat] /\ pending_timeout' \in PendingTimeouts
      /\ pending' \subseteq {q \in Req : submitted'[q] # 0}
  BY <1>2 DEF TypeOK, States
<1>4. pending_timeout_id' \in Nat /\ next_pending_deadline' \in Nat
  <2>1. CASE ResetPendingTimeout(pending_timeout_id)
    BY <1>2, <1>3, <2>1, PendingTyped DEF TypeOK
  <2>2. CASE UNCHANGED pendingVars
    BY <2>2 DEF TypeOK, pendingVars
  <2>3. QED
    BY <1>2, <2>1, <2>2
<1>5. /\ timeout_id' \in Nat /\ next_deadline' \in Nat
      /\ timeout_id' = 0 <=> next_deadline' = 0
      /\ deadline' \in [Req -> Nat]
      /\ RequestTimer'
  <2>1. CASE ms > 0
    <3>1. /\ deadline' = [deadline EXCEPT ![r] = now + Milli * ms]
          /\ IF next_deadline = 0 \/ deadline'[r] < next_deadline
             THEN ResetTimeout(timeout_id, next_deadline)
             ELSE UNCHANGED timerVars
      BY <2>1 DEF Submit
    <3> HIDE DEF ms
    <3>2. deadline' \in [Req -> Nat]
      BY <1>1, <3>1, DeadlineSet
    <3>3. CASE next_deadline = 0 \/ deadline'[r] < next_deadline
      BY <1>2, <3>1, <3>2, <3>3, ResetTimeoutKeeps
    <3>4. CASE ~(next_deadline = 0 \/ deadline'[r] < next_deadline)
      <4>1. UNCHANGED timerVars
        BY <3>1, <3>4
      <4>2. ASSUME NEW x \in Deadlines'
            PROVE  next_deadline <= x
        <5>1. PICK q \in Req : state'[q] \in {"sent", "retry"} /\ deadline'[q] # 0
                                 /\ x = deadline'[q]
          BY DEF Deadlines
        <5>2. CASE q = r
          BY <3>2, <3>4, <5>1, <5>2 DEF TypeOK
        <5>3. CASE q # r
          <6>1. deadline[q] \in Deadlines /\ x = deadline[q]
            BY <1>2, <3>1, <5>1, <5>3 DEF Deadlines, TypeOK
          <6>2. QED
            BY <6>1 DEF RequestTimer
        <5>4. QED
          BY <5>2, <5>3
      <4>3. RequestTimer'
        BY <1>2, <3>4, <4>1, <4>2 DEF RequestTimer, Prompt, timerVars
      <4>4. QED
        BY <3>2, <4>1, <4>3 DEF TypeOK, timerVars
    <3>5. QED
      BY <3>3, <3>4, <3>2
  <2>2. CASE ~(ms > 0)
    <3>1. UNCHANGED <<deadline, timerVars>>
      BY <2>2 DEF Submit
    <3>2. Deadlines' \subseteq Deadlines
      <4>1. deadline[r] = 0
        BY <1>2 DEF WaitingHasNone
      <4>2. QED
        BY <1>2, <3>1, <4>1 DEF Deadlines, TypeOK
    <3>3. QED
      BY <1>2, <3>1, <3>2, RequestTimerKept DEF TypeOK, timerVars
  <2>3. QED
    BY <2>1, <2>2
<1>6. TypeOK'
  BY <1>2, <1>3, <1>4, <1>5 DEF TypeOK
<1>7. WaitingHasNone' /\ NewNotSubmitted'
  <2>1. \A q \in Req \ {r} : deadline'[q] = deadline[q] /\ state'[q] = state[q]
                               /\ submitted'[q] = submitted[q]
    BY <1>2 DEF Submit, TypeOK
  <2>2. state'[r] = "sent"
    BY <1>2 DEF TypeOK
  <2>3. QED
    BY <2>1, <2>2 DEF WaitingHasNone, NewNotSubmitted
<1>8. QED
  BY <1>5, <1>6, <1>7

LEMMA ReplySound ==
    ASSUME TimerInv, NEW r \in Req, NEW retried \in BOOLEAN, NEW p \in RetryPeriods,
           Reply(r, retried, p)
    PROVE  TimerInv'
<1> USE DEF TimerInv, TypeInv
<1>1. /\ state[r] = "sent" \/ r \in pending
      /\ pending' = pending \ {r}
      /\ \/ submitted' = [submitted EXCEPT ![r] = 0]
         \/ submitted' = submitted
      /\ now' = now /\ timeout' = timeout /\ pending_timeout' = pending_timeout
      /\ IF r \in pending THEN ResetPendingTimeout(pending_timeout_id)
         ELSE UNCHANGED pendingVars
  BY DEF Reply
<1>2. /\ submitted' \in [Req -> 0 .. now] /\ submitted' \in [Req -> Nat]
      /\ pending' \subseteq {q \in Req : submitted'[q] # 0}
      /\ pending_timeout' \in PendingTimeouts
  BY <1>1 DEF TypeOK
<1>3. pending_timeout_id' \in Nat /\ next_pending_deadline' \in Nat
  <2>1. CASE r \in pending
    BY <1>1, <1>2, <2>1, PendingTyped DEF TypeOK
  <2>2. CASE r \notin pending
    BY <1>1, <2>2 DEF TypeOK, pendingVars
  <2>3. QED
    BY <2>1, <2>2
<1>4. /\ timeout_id' \in Nat /\ next_deadline' \in Nat
      /\ timeout_id' = 0 <=> next_deadline' = 0
      /\ deadline' \in [Req -> Nat] /\ state' \in [Req -> States]
      /\ RequestTimer'
      /\ WaitingHasNone' /\ NewNotSubmitted'
  <2>1. CASE state[r] = "sent" /\ retried
    <3>1. /\ state' = [state EXCEPT ![r] = "retry"]
          /\ deadline' = [deadline EXCEPT ![r] = now + Milli * p]
          /\ ResetTimeout(timeout_id, next_deadline)
      BY <2>1 DEF Reply
    <3>2. p \in Nat
      BY TimeoutAssumption
    <3>3. deadline' \in [Req -> Nat]
      BY <3>1, <3>2, DeadlineSet
    <3>4. /\ timeout_id' \in Nat /\ next_deadline' \in Nat
          /\ timeout_id' = 0 <=> next_deadline' = 0
          /\ RequestTimer'
      BY <1>1, <3>1, <3>3, ResetTimeoutKeeps
    <3>5. state'[r] = "retry" /\ state' \in [Req -> States]
      BY <3>1 DEF TypeOK, States
    <3>6. \A q \in Req \ {r} : deadline'[q] = deadline[q] /\ state'[q] = state[q]
                                 /\ submitted'[q] = submitted[q]
      BY <1>1, <3>1 DEF TypeOK
    <3>7. QED
      BY <3>3, <3>4, <3>5, <3>6 DEF WaitingHasNone, NewNotSubmitted
  <2>2. CASE ~(state[r] = "sent" /\ retried)
    <3>1. /\ state' = [state EXCEPT ![r] = IF @ = "sent" THEN "over" ELSE @]
          /\ UNCHANGED <<deadline, timerVars>>
      BY <2>2 DEF Reply
    <3>2. state' \in [Req -> States]
      BY <3>1 DEF TypeOK, States
    <3>3. Deadlines' \subseteq Deadlines
      BY <3>1 DEF Deadlines, TypeOK
    <3>4. RequestTimer'
      BY <1>1, <3>1, <3>3, RequestTimerKept DEF TypeOK
    <3>5. WaitingHasNone' /\ NewNotSubmitted'
      BY <1>1, <3>1 DEF WaitingHasNone, NewNotSubmitted, TypeOK
    <3>6. QED
      BY <3>1, <3>2, <3>4, <3>5 DEF TypeOK, timerVars
  <2>3. QED
    BY <2>1, <2>2
<1>5. TypeOK'
  BY <1>1, <1>2, <1>3, <1>4 DEF TypeOK
<1>6. QED
  BY <1>4, <1>5

LEMMA DropRequestSound ==
    ASSUME TimerInv, NEW r \in Req, DropRequest(r)
    PROVE  TimerInv'
<1> USE DEF TimerInv, TypeInv
<1>1. /\ state' = [state EXCEPT ![r] = "over"]
      /\ now' = now /\ timeout' = timeout /\ deadline' = deadline
      /\ pending_timeout' = pending_timeout
      /\ pending' = pending \ {r}
      /\ submitted' = [submitted EXCEPT ![r] = 0]
      /\ ResetPendingTimeout(pending_timeout_id)
  BY DEF DropRequest
<1>2. /\ submitted' \in [Req -> 0 .. now] /\ submitted' \in [Req -> Nat]
      /\ pending' \subseteq {q \in Req : submitted'[q] # 0}
      /\ pending_timeout' \in PendingTimeouts
      /\ state' \in [Req -> States] /\ deadline' \in [Req -> Nat]
  BY <1>1 DEF TypeOK, States
<1>3. pending_timeout_id' \in Nat /\ next_pending_deadline' \in Nat
  BY <1>1, <1>2, PendingTyped DEF TypeOK
<1>4. /\ timeout_id' \in Nat /\ next_deadline' \in Nat
      /\ timeout_id' = 0 <=> next_deadline' = 0
      /\ RequestTimer'
  <2>1. CASE state[r] = "sent"
    BY <1>1, <1>2, <2>1, ResetTimeoutKeeps DEF DropRequest
  <2>2. CASE state[r] # "sent"
    <3>1. UNCHANGED timerVars
      BY <2>2 DEF DropRequest
    <3>2. Deadlines' \subseteq Deadlines
      BY <1>1 DEF Deadlines, TypeOK
    <3>3. QED
      BY <1>1, <3>1, <3>2, RequestTimerKept DEF TypeOK, timerVars
  <2>3. QED
    BY <2>1, <2>2
<1>5. TypeOK'
  BY <1>1, <1>2, <1>3, <1>4 DEF TypeOK
<1>6. WaitingHasNone' /\ NewNotSubmitted'
  BY <1>1 DEF WaitingHasNone, NewNotSubmitted, TypeOK
<1>7. QED
  BY <1>4, <1>5, <1>6

LEMMA CancelAllSound ==
    ASSUME TimerInv, CancelAll
    PROVE  TimerInv'
<1> USE DEF TimerInv, TypeInv, CancelAll
<1>1. state' \in [Req -> States] /\ \A r \in Req : state'[r] \in {"new", "over"}
  BY DEF States
<1>2. timeout_id' = 0 /\ next_deadline' = 0
  BY DEF TypeOK
<1>3. TypeOK'
  BY <1>1, <1>2 DEF TypeOK, pendingVars
<1>4. Deadlines' = {}
  BY <1>1 DEF Deadlines
<1>5. RequestTimer'
  BY <1>2, <1>4 DEF RequestTimer
<1>6. WaitingHasNone' /\ NewNotSubmitted'
  BY DEF WaitingHasNone, NewNotSubmitted, TypeOK
<1>7. QED
  BY <1>3, <1>5, <1>6

LEMMA SetPendingTimeoutSound ==
    ASSUME TimerInv, NEW ms \in PendingTimeouts, SetPendingTimeout(ms)
    PROVE  TimerInv'
<1> USE DEF TimerInv, TypeInv, SetPendingTimeout
<1>1. pending_timeout_id' \in Nat /\ next_pending_deadline' \in Nat
  <2>1. CASE pending_timeout < ms
    BY <2>1, PendingTyped DEF TypeOK, reqVars
  <2>2. CASE ~(pending_timeout < ms)
    BY <2>2 DEF TypeOK, pendingVars
  <2>3. QED
    BY <2>1, <2>2
<1>2. TypeOK'
  BY <1>1 DEF TypeOK, reqVars, timerVars
<1>3. WaitingHasNone' /\ NewNotSubmitted'
  BY DEF WaitingHasNone, NewNotSubmitted, reqVars
<1>4. RequestTimer'
  BY RequestTimerKept DEF TypeOK, Deadlines, reqVars
<1>5. QED
  BY <1>2, <1>3, <1>4

LEMMA TimeoutSound ==
    ASSUME TimerInv, NEW again \in SUBSET Req, NEW p \in RetryPeriods, Timeout(again, p)
    PROVE  TimerInv'
<1> USE DEF TimerInv, TypeInv
<1> DEFINE expired == {r \in Req : state[r] = "sent" /\ deadline[r] \in 1 .. now}
           due == {r \in Req : state[r] = "retry" /\ deadline[r] <= now}
                    \cup IF p = 0 THEN again ELSE {}
<1>1. /\ again \subseteq expired
      /\ state' = [r \in Req |-> CASE r \in due -> "queued"
                                   [] r \in again \ due -> "retry"
                                   [] r \in expired \ again -> "over"
                                   [] OTHER -> state[r]]
      /\ deadline' = [r \in Req |-> CASE r \in again \ due -> now + Milli * p
                                      [] r \in (expired \cup due) \ (again \ due) -> 0
                                      [] OTHER -> deadline[r]]
      /\ pending' = pending \ expired
      /\ now' = now /\ timeout' = timeout /\ submitted' = submitted
      /\ pending_timeout' = pending_timeout
      /\ IF expired \cap pending # {} THEN ResetPendingTimeout(pending_timeout_id)
         ELSE UNCHANGED pendingVars
      /\ ResetTimeout(0, 0)
  BY DEF Timeout
<1>2. /\ due \subseteq Req /\ again \subseteq Req
      /\ \A r \in due \cup again : state[r] # "new"
      /\ \A r \in expired : state[r] = "sent"
  BY <1>1
<1> HIDE DEF expired, due
<1>3. now + Milli * p \in Nat
  <2>1. p \in Nat
    BY TimeoutAssumption
  <2>2. now \in Nat
    BY DEF TypeOK
  <2>3. QED
    BY <2>1, <2>2, LaterIsNat
<1>4. state' \in [Req -> States] /\ deadline' \in [Req -> Nat]
  <2>1. ASSUME NEW r \in Req
        PROVE  state'[r] \in States /\ deadline'[r] \in Nat
    BY <1>1, <1>3 DEF TypeOK, States
  <2>2. state' = [r \in Req |-> state'[r]] /\ deadline' = [r \in Req |-> deadline'[r]]
    BY <1>1
  <2>3. QED
    BY <2>1, <2>2
<1>5. pending_timeout_id' \in Nat /\ next_pending_deadline' \in Nat
  <2>1. CASE expired \cap pending # {}
    <3>1. /\ submitted' \in [Req -> Nat] /\ pending_timeout' \in PendingTimeouts
          /\ pending' \subseteq {r \in Req : submitted'[r] # 0}
      BY <1>1 DEF TypeOK
    <3>2. pending_timeout_id \in Nat
      BY DEF TypeOK
    <3>3. QED
      BY <1>1, <2>1, <3>1, <3>2, PendingTyped
  <2>2. CASE expired \cap pending = {}
    BY <1>1, <2>2 DEF TypeOK, pendingVars
  <2>3. QED
    BY <2>1, <2>2
<1>6. /\ timeout_id' \in Nat /\ next_deadline' \in Nat
      /\ timeout_id' = 0 <=> next_deadline' = 0
      /\ RequestTimer'
  <2>1. now \in Nat \ {0}
    BY DEF TypeOK
  <2>2. QED
    BY <1>1, <1>4, <2>1, ResetTimeoutSound
<1>7. TypeOK'
  BY <1>1, <1>4, <1>5, <1>6 DEF TypeOK
<1>8. NewNotSubmitted'
  BY <1>1, <1>2 DEF NewNotSubmitted
<1>9. WaitingHasNone'
  <2>1. SUFFICES ASSUME NEW r \in Req, state'[r] \in {"new", "queued"}
                 PROVE  deadline'[r] = 0
    BY DEF WaitingHasNone
  <2>2. CASE r \in due
    BY <1>1, <2>2
  <2>3. CASE r \notin due
    <3>1. r \notin again /\ r \notin expired /\ state'[r] = state[r]
      BY <1>1, <2>1, <2>3
    <3>2. deadline'[r] = deadline[r]
      BY <1>1, <2>3, <3>1
    <3>3. QED
      BY <2>1, <3>1, <3>2 DEF WaitingHasNone
  <2>4. QED
    BY <2>2, <2>3
<1>10. QED
  BY <1>6, <1>7, <1>8, <1>9

LEMMA PendingTimeoutSound ==
    ASSUME TimerInv, PendingTimeout
    PROVE  TimerInv'
<1> USE DEF TimerInv, TypeInv, PendingTimeout
<1>1. pending_timeout_id' \in Nat /\ next_pending_deadline' \in Nat
  BY PendingTyped DEF TypeOK, reqVars
<1>2. TypeOK'
  BY <1>1 DEF TypeOK, reqVars, timerVars
<1>3. WaitingHasNone' /\ NewNotSubmitted'
  BY DEF WaitingHasNone, NewNotSubmitted, reqVars
<1>4. RequestTimer'
  BY RequestTimerKept DEF TypeOK, Deadlines, reqVars
<1>5. QED
  BY <1>2, <1>3, <1>4

LEMMA TickSound ==
    ASSUME TimerInv, Tick
    PROVE  TimerInv'
<1> USE DEF TimerInv, TypeInv, Tick
<1>1. TypeOK'
  BY DEF TypeOK, reqVars, timerVars, pendingVars
<1>2. WaitingHasNone' /\ NewNotSubmitted'
  BY DEF WaitingHasNone, NewNotSubmitted, reqVars
<1>3. RequestTimer'
  BY RequestTimerKept DEF TypeOK, Deadlines, reqVars
<1>4. QED
  BY <1>1, <1>2, <1>3

-----------------------------------------------------------------------------
(* The pending timer, where the application never makes its timeout        *)
(* shorter.                                                                *)

\* The channel leaves the pending timer alone where it leaves what is pending alone.
LEMMA PendingKept ==
    ASSUME TypeOK, PendingTimer, UNCHANGED <<pending, pendingVars>>,
           now' \in Nat, now' >= now,
           \A r \in pending : submitted'[r] = submitted[r] /\ timeout'[r] = timeout[r],
           pending_timeout' = pending_timeout
    PROVE  PendingTimer'
<1>1. PendingDeadlines' = PendingDeadlines
  BY DEF PendingDeadlines, PendingDeadline
<1>2. QED
  BY <1>1 DEF PendingTimer, Prompt, pendingVars, TypeOK

\* The deadlines after a step that keeps the types.
LEMMA NextPendingDeadlines ==
    ASSUME TypeOK'
    PROVE  /\ PendingDeadlines' \in SUBSET Nat
           /\ PendingDeadlines' = {} <=> pending' = {}
<1>1. /\ timeout' \in [Req -> OwnTimeouts \cup {0}]
      /\ submitted' \in [Req -> Nat] /\ pending_timeout' \in PendingTimeouts
      /\ pending' \in SUBSET {r \in Req : submitted'[r] # 0}
  BY DEF TypeOK
<1>2. PendingDeadlines' = DeadlinesOf(timeout', submitted', pending', pending_timeout')
  BY DEF PendingDeadlines, PendingDeadline, DeadlinesOf
<1>3. QED
  BY <1>1, <1>2, PendingDeadlinesAreTimes

\* grilio_channel_reset_pending_timeout, called with the timer as it is.
LEMMA PendingReset ==
    ASSUME TypeOK, TypeOK', PendingTimer, now' = now,
           ResetPendingTimeout(pending_timeout_id)
    PROVE  PendingTimer'
<1>1. /\ pending_timeout_id \in Nat
      /\ now \in Nat \ {0}
  BY DEF TypeOK
<1>2. \/ pending_timeout_id = 0 /\ leftover = next_pending_deadline
      \/ /\ pending_timeout_id >= next_pending_deadline
         /\ Prompt(pending_timeout_id, next_pending_deadline)
  BY DEF PendingTimer
<1>3. QED
  BY <1>1, <1>2, NextPendingDeadlines, ResetPendingSound

\* When the pending timer fires, every deadline it leaves is a later one than
\* next_pending_deadline, so it is set again.
LEMMA PendingTimeoutCovers ==
    ASSUME TypeOK, TypeOK', PendingTimer, PendingTimeout
    PROVE  PendingTimer'
<1>1. /\ now \in Nat \ {0} /\ now' = now
      /\ pending_timeout_id # 0 /\ pending_timeout_id <= now
      /\ pending_timeout_id \in Nat /\ next_pending_deadline \in Nat
      /\ pending' = {r \in pending : PendingDeadline(r) > now}
      /\ submitted' = submitted /\ timeout' = timeout
      /\ pending_timeout' = pending_timeout
      /\ ResetPendingTimeout(0)
  BY DEF PendingTimeout, TypeOK, reqVars
<1>2. CASE pending_timeout_id >= next_pending_deadline
  <2>1. \A t \in PendingDeadlines' : t > now
    BY <1>1 DEF PendingDeadlines, PendingDeadline
  <2>2. pending' # {} => Min(PendingDeadlines') > now
    <3>1. pending' # {} => Min(PendingDeadlines') \in PendingDeadlines'
      BY NextPendingDeadlines, MinOfTimes
    <3>2. QED
      BY <2>1, <3>1
  <2>3. ~(pending' # {} /\ next_pending_deadline = Min(PendingDeadlines'))
    BY <1>1, <1>2, <2>2
  <2>4. QED
    BY <1>1, <2>3, NextPendingDeadlines, ResetPendingSound
<1>3. QED
  BY <1>1, <1>2 DEF PendingTimer

LEMMA PendingTimerStep ==
    ASSUME MayLower = FALSE, TimerInv, TypeOK', PendingTimer, [Next]_vars
    PROVE  PendingTimer'
<1> USE DEF TimerInv, TypeInv
<1>1. ASSUME NEW r \in Req, NEW t \in OwnTimeouts \cup {0}, Queue(r, t)
      PROVE  PendingTimer'
  <2>1. r \notin pending
    BY <1>1 DEF Queue, NewNotSubmitted, TypeOK
  <2>2. QED
    BY <1>1, <2>1, PendingKept DEF Queue, TypeOK
<1>2. ASSUME NEW r \in Req, NEW d \in DefaultTimeouts,
             NEW forgotten \in BOOLEAN, NEW replied \in BOOLEAN,
             Submit(r, d, forgotten, replied)
      PROVE  PendingTimer'
  <2>1. CASE replied
    BY <1>2, <2>1, PendingReset DEF Submit
  <2>2. CASE ~replied
    <3>1. r \notin pending
      BY <1>2, <2>2 DEF Submit
    <3>2. QED
      BY <1>2, <2>2, <3>1, PendingKept DEF Submit, TypeOK
  <2>3. QED
    BY <2>1, <2>2
<1>3. ASSUME NEW r \in Req, NEW retried \in BOOLEAN, NEW p \in RetryPeriods,
             Reply(r, retried, p)
      PROVE  PendingTimer'
  <2>1. CASE r \in pending
    BY <1>3, <2>1, PendingReset DEF Reply
  <2>2. CASE r \notin pending
    BY <1>3, <2>2, PendingKept DEF Reply, TypeOK
  <2>3. QED
    BY <2>1, <2>2
<1>4. ASSUME NEW r \in Req, RetryRequest(r)
      PROVE  PendingTimer'
  BY <1>4, PendingKept DEF RetryRequest, TypeOK
<1>5. ASSUME NEW r \in Req, CancelRequest(r)
      PROVE  PendingTimer'
  BY <1>5, PendingKept DEF CancelRequest, TypeOK
<1>6. ASSUME NEW r \in Req, DropRequest(r)
      PROVE  PendingTimer'
  BY <1>6, PendingReset DEF DropRequest
<1>7. CASE CancelAll
  BY <1>7, PendingKept DEF CancelAll, TypeOK
<1>8. ASSUME NEW ms \in PendingTimeouts, SetPendingTimeout(ms)
      PROVE  PendingTimer'
  <2>1. ms > pending_timeout /\ now' = now
    BY <1>8 DEF SetPendingTimeout
  <2>2. ResetPendingTimeout(pending_timeout_id)
    BY <1>8, <2>1 DEF SetPendingTimeout
  <2>3. QED
    BY <2>1, <2>2, PendingReset
<1>9. ASSUME NEW again \in SUBSET Req, NEW p \in RetryPeriods, Timeout(again, p)
      PROVE  PendingTimer'
  <2> DEFINE expired == {r \in Req : state[r] = "sent" /\ deadline[r] \in 1 .. now}
  <2>1. /\ pending' = pending \ expired
        /\ now' = now /\ timeout' = timeout /\ submitted' = submitted
        /\ pending_timeout' = pending_timeout
        /\ IF expired \cap pending # {} THEN ResetPendingTimeout(pending_timeout_id)
           ELSE UNCHANGED pendingVars
    BY <1>9 DEF Timeout
  <2> HIDE DEF expired
  <2>2. CASE expired \cap pending # {}
    BY <2>1, <2>2, PendingReset
  <2>3. CASE expired \cap pending = {}
    <3>1. pending' = pending
      BY <2>1, <2>3
    <3>2. QED
      BY <2>1, <2>3, <3>1, PendingKept DEF TypeOK
  <2>4. QED
    BY <2>2, <2>3
<1>10. CASE PendingTimeout
  BY <1>10, PendingTimeoutCovers
<1>11. CASE Tick
  BY <1>11, PendingKept DEF Tick, TypeOK, reqVars
<1>12. CASE UNCHANGED vars
  BY <1>12, PendingKept DEF vars, TypeOK, reqVars, pendingVars
<1>13. QED
  BY <1>1, <1>2, <1>3, <1>4, <1>5, <1>6, <1>7, <1>8, <1>9, <1>10, <1>11, <1>12 DEF Next

-----------------------------------------------------------------------------
(* The theorems.                                                           *)

LEMMA InitTimerInv == Init => TimerInv /\ PendingTimer
<1> SUFFICES ASSUME Init
             PROVE  TimerInv /\ PendingTimer
  OBVIOUS
<1>1. TypeOK
  BY DEF Init, TypeOK, States
<1>2. WaitingHasNone /\ NewNotSubmitted
  BY DEF Init, WaitingHasNone, NewNotSubmitted
<1>3. RequestTimer /\ PendingTimer
  BY DEF Init, RequestTimer, PendingTimer, Deadlines
<1>4. QED
  BY <1>1, <1>2, <1>3 DEF TimerInv, TypeInv

LEMMA TimerInvStep == TimerInv /\ [Next]_vars => TimerInv'
<1> SUFFICES ASSUME TimerInv, [Next]_vars
             PROVE  TimerInv'
  OBVIOUS
<1>1. CASE UNCHANGED vars
  BY <1>1 DEF vars, reqVars, timerVars, pendingVars, TimerInv, TypeInv, TypeOK,
              WaitingHasNone, NewNotSubmitted, RequestTimer, Deadlines, Prompt
<1>2. CASE Next
  BY <1>2, QueueSound, SubmitSound, ReplySound, RetryRequestSound, CancelRequestSound,
     DropRequestSound, CancelAllSound, SetPendingTimeoutSound, TimeoutSound,
     PendingTimeoutSound, TickSound DEF Next
<1>3. QED
  BY <1>1, <1>2

\* The invariant behind the request timer holds in every reachable state.
THEOREM TimerInvHolds == Spec => []TimerInv
<1>1. QED
  BY InitTimerInv, TimerInvStep, PTL DEF Spec

\* Every reachable state is well typed, and a request timer that is not armed has no
\* deadline: grilio_channel_reset_timeout may take next_deadline for the timer.
THEOREM TypeCorrect == Spec => []TypeOK
<1>1. TimerInv => TypeOK
  BY DEF TimerInv, TypeInv
<1>2. QED
  BY <1>1, TimerInvHolds, PTL

\* The source of the request timer is there for the earliest deadline.
LEMMA TimerInvCovers == TimerInv => RequestTimerCovers
<1> SUFFICES ASSUME TimerInv, Deadlines # {}
             PROVE  Covers(timeout_id, Min(Deadlines))
  BY DEF RequestTimerCovers
<1> DEFINE m == Min(Deadlines)
<1>1. m \in Deadlines /\ m \in Nat
  <2>1. Deadlines \in SUBSET Nat
    BY DEF TimerInv, TypeInv, TypeOK, Deadlines
  <2>2. QED
    BY <2>1, MinOfTimes
<1> HIDE DEF m
<1>2. next_deadline # 0 /\ next_deadline <= m
  BY <1>1 DEF TimerInv, RequestTimer
<1>3. /\ timeout_id # 0 /\ timeout_id \in Nat /\ next_deadline \in Nat /\ now \in Nat
      /\ timeout_id < next_deadline + Milli \/ timeout_id <= now
  BY <1>2 DEF TimerInv, TypeInv, TypeOK, RequestTimer, Prompt
<1>4. Covers(timeout_id, m)
  BY <1>1, <1>2, <1>3 DEF Covers
<1>5. QED
  BY <1>4 DEF m

\* Every request that may time out or waits for its retry is covered by the timer,
\* although grilio_channel_reset_timeout moves it only forward.
THEOREM RequestTimerRuns == Spec => []RequestTimerCovers
<1>1. QED
  BY TimerInvHolds, TimerInvCovers, PTL

LEMMA PendingCovers == TimerInv /\ PendingTimer => PendingTimerCovers
<1> SUFFICES ASSUME TimerInv, PendingTimer
             PROVE  PendingTimerCovers
  OBVIOUS
<1> DEFINE m == Min(PendingDeadlines)
<1>1. CASE pending = {}
  BY <1>1 DEF PendingTimerCovers, PendingTimerRuns
<1>2. CASE pending_timeout_id = 0 /\ leftover = next_pending_deadline /\ pending # {}
  BY <1>2 DEF PendingTimer, PendingTimerCovers
<1>3. CASE /\ pending # {}
           /\ pending_timeout_id >= next_pending_deadline
           /\ Prompt(pending_timeout_id, next_pending_deadline)
  <2>1. m = next_pending_deadline
    BY <1>3 DEF PendingTimer
  <2>2. m \in Nat \ {0}
    <3>1. /\ timeout \in [Req -> OwnTimeouts \cup {0}]
          /\ submitted \in [Req -> Nat] /\ pending_timeout \in PendingTimeouts
          /\ pending \in SUBSET {r \in Req : submitted[r] # 0}
      BY DEF TimerInv, TypeInv, TypeOK
    <3>2. PendingDeadlines = DeadlinesOf(timeout, submitted, pending, pending_timeout)
      BY DEF PendingDeadlines, PendingDeadline, DeadlinesOf
    <3>3. PendingDeadlines \in SUBSET Nat /\ 0 \notin PendingDeadlines
          /\ PendingDeadlines # {}
      BY <1>3, <3>1, <3>2, PendingDeadlinesAreTimes
    <3>4. m \in PendingDeadlines
      BY <3>3, MinOfTimes, Zenon
    <3> HIDE DEF m
    <3>5. QED
      BY <3>3, <3>4
  <2> HIDE DEF m
  <2>3. pending_timeout_id \in Nat
    BY DEF TimerInv, TypeInv, TypeOK
  <2>4. Covers(pending_timeout_id, m)
    BY <1>3, <2>1, <2>2, <2>3 DEF Covers, Prompt
  <2>5. QED
    BY <2>4 DEF m, PendingTimerCovers, PendingTimerRuns
<1>4. QED
  BY <1>1, <1>2, <1>3 DEF PendingTimer

\* Where the pending timeout is never made shorter, the pending timer covers every
\* pending request but in the one stale case that PendingTimerCovers names.
THEOREM PendingTimerFires ==
    ASSUME MayLower = FALSE
    PROVE  Spec => []PendingTimerCovers
<1>1. Init => TimerInv /\ PendingTimer
  BY InitTimerInv
<1>2. TimerInv /\ PendingTimer /\ [Next]_vars => (TimerInv /\ PendingTimer)'
  <2>1. SUFFICES ASSUME TimerInv, PendingTimer, [Next]_vars
                 PROVE  TimerInv' /\ PendingTimer'
    OBVIOUS
  <2>2. TimerInv'
    BY <2>1, TimerInvStep
  <2>3. QED
    BY <2>1, <2>2, PendingTimerStep DEF TimerInv, TypeInv
<1>3. QED
  BY <1>1, <1>2, PendingCovers, PTL DEF Spec
=============================================================================
