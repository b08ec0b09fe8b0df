# libgrilio in TLA+

libgrilio is a C library (GLib, one main loop) through which an application talks to
the radio daemon *rild* over a Unix socket: it submits numbered requests, gets
their responses through callbacks and receives unsolicited events. This directory
holds TLA+ models of its request engine, its queues and transactions, its timers, its
injected events, its socket transport and its packet format, what TLC checks of them and
what is proved about them with TLAPS.

Contents: [Inventory](#inventory) - [Plan](#plan) - [The model](#the-model) -
[Properties and runs](#properties-and-runs) - [Fairness](#fairness) -
[Proofs](#proofs) - [What the code does differently](#what-the-code-does-differently-from-what-it-says) -
[Not modelled](#not-modelled)

## Inventory

Everything runs in one thread. There are no locks; concurrency is the order in which
the main loop dispatches its sources, and **reentrancy**: nearly every function of
the channel and of the transport calls back in the middle (response callbacks,
`pending-changed`, `owner-changed`, `connected`, event handlers, request-sent), and what
is called may call the channel or the transport again from there.

| Component | Source (under `src/src`) | State | Operations | Status |
|---|---|---|---|---|
| request engine | `grilio_channel.c` | `send_req`, `block_req`, `req_table`, `pending`, the send queue `first_req..last_req`, `retry_req`, `block_ids`, `last_req_id`, `last_pending`, `timeout_id` | send, cancel, cancel_all, drop, retry, serialize, deserialize; handlers of response, indication, connected, disconnected, request-sent; two timers | `GrilioChannel`; disposal left out, clock in `GrilioTimers` |
| queues, transactions | `grilio_queue.c`, `grilio_channel.c` | `req->queue`, `owner`, `owner_queue` | queue_send, queue_cancel, queue_cancel_all, queue_free; transaction_start, transaction_finish | `GrilioQueue` |
| request object | `grilio_request.c` | `status`, `id`, `current_id`, `retry_count`, `deadline`, `next`, reference count; the payload | setters, ref/unref, append_* | fields in `GrilioChannel`, payload in `GrilioParcel`; memory is not modelled |
| timers and clock | `grilio_channel.c` 597-826 | `next_deadline`, `next_pending_deadline`, submit times | reset_timeout, reset_pending_timeout, set_pending_timeout, the two callbacks | `GrilioTimers` |
| injected events, link signals | `grilio_channel.c` 1111-1255, 1958-1989 | `first_inject..last_inject`, `processing_injects`, `process_injects_id`, `connected` | inject_unsol_event, delivery, drop; handlers of connected, disconnected and errors | `GrilioEvents` |
| transport interface | `grilio_transport.c` | `connected`, the watches of its user | send, shutdown, seven signals | the promise in `TransportPromise`; names, version offset and signal registration left out |
| socket transport | `grilio_transport_socket.c` | two watches, the packet being written (`send_req`, `send_header_pos`, `send_pos`), the packet being read, a deferred error | send, write callback, read callback, errors, shutdown, finalize | `GrilioSocket`; opening the socket left out |
| encoder, parser | `grilio_encode.c`, `grilio_parser.c` | a byte array; a position in one | append_*, get_* | `GrilioParcel` |
| loggers | `grilio_hexdump.c`, `grilio_log.h` | none | output only | not modelled |
| tests | `src/test` | - | - | read for what the library is expected to do |

### How they interact

- The application owns a `GRilIoRequest` until it is submitted. Then the channel moves
  it between its structures: send queue, `send_req` (being written), request table (by
  `id` and `current_id`), `pending` (by `current_id`), retry queue. The send queue, the
  retry queue and the local lists of `grilio_channel_timeout` link requests through the
  same pointer, `req->next`.
- `grilio_channel_schedule_write` calls `send_next_request` until that returns FALSE;
  that dequeues a request and calls `grilio_transport_send`. The transport answers
  *sent*, *pending* (it will signal request-sent when the rest is out) or *error* (it
  has signalled or will signal a write error and a disconnection).
- The daemon answers with the serial of the packet, `current_id`. A response, a
  timeout or a cancellation ends the request, or has it tried again under a new serial
  while the application still knows it by its first `id`.
- A queue marks its requests with `req->queue` and may own the channel; while it does,
  only its own (and internal) requests are dequeued.
- Events come from the daemon or are injected by the application; injected ones are
  delivered from an idle callback, in the order of injection, once the link is up.

In the model, `TransportPromise` is the seam between the two halves: `GrilioSocket` is
shown to implement it, `GrilioChannel` and `GrilioEvents` assume no more of their
transport. `GrilioTimers` gives the clock to the engine's abstract "the timer is
armed"; `RequestPromise` is what the engine promises to the application.

### Hard behaviours, and what is correct

*Request engine.* Callbacks in the middle of a function (lists and tables may change
under it); a timeout racing the write of the same packet, a late reply or a retry; a
request that is known under two serials; ids that wrap around; the link lost with
requests everywhere; a channel that waits for a blocking request whose reply never
comes. It is correct when: no request is on two lists; what the application may cancel
is found; what is over stays over and is never called back again; blocking requests
travel alone; whatever unblocks the channel leads to a write; timers are armed while
there is something to wait for; requests are settled and the queue moves.

*Queues and transactions.* Start, finish and free from callbacks, a queue cancelled
while its callbacks change it. Correct when: owners are queued at most once, nobody
waits for a free channel, a transaction shares the wire with nothing foreign from its first
packet to its end, whatever became of the queues its requests came through, and a queue
never points to a request that is over.

*Timers.* A timer is left alone when it is believed to be early enough: a remembered
deadline that is stale when the timer has fired or was removed (663 compares with
`next_pending_deadline`, which nothing resets), a deadline that moves because a try is
retried, submit times reset for another request than the one that leaves `pending`
(1067), deadlines in microseconds and sources in milliseconds. Correct when: while
there is a deadline, the source is due no later than a millisecond after the earliest.

*Injected events.* Injection from a handler of an injected event, shutdown in the
middle of delivery, connection while a delivery is scheduled, the end of file in
between. Correct when: events are delivered once and in order, none is forgotten while
the link is up, and none is delivered after the link is down.

*Socket.* Partial writes of the subscription, the header or the data; a write that is
started from the signal that reports the previous one; errors reported later than they
happen; handlers that shut the transport down or drop its last reference between two
packets. Correct when: what is on the wire is the packets, whole and in order; what is
reported as written is written; reading stays in step with the packets; a packet that
is partly written has a watch; a lost link is told; no function goes on in an object
that was finalized.

*Encoder, parser.* Correct when parsing gives back what was encoded, no length in a
packet makes the parser leave it, and a packet cut short is noticed.

## Plan

In this order, the most important behaviour first:

1. `GrilioChannel`, `GrilioChannelProperties` - the request engine (**done**).
2. `RequestPromise` - the abstract specification of what a submitter is promised, which
   the engine implements (**done**).
3. `GrilioQueue` - composes the engine with queues and transactions (**done**).
4. `GrilioChannel_proof` - type correctness and list integrity for any number of
   requests, ids and nested callbacks (**done**).
5. `GrilioTimers` - the two timers with a clock (**done**, with proof).
6. `TransportPromise`, `GrilioSocket` - the promise of a transport and the socket that
   keeps it (**done**, with proof).
7. `GrilioEvents` - injected events, with connection, end of file and shutdown (**done**,
   with proof).
8. `GrilioParcel` - encoder and parser over all short packets (**done**, with proof).
9. `GrilioQueue_proof`, `GrilioChannelSignals_proof` - queues, transactions and what the
   channel believes of its surroundings (**done**).
10. `GrilioChannelRequests_proof` - what becomes of a request: the step simulation of
    `RequestPromise`, ids, retries, pending serials, blocking requests (**done**, under
    the hypotheses it names).
11. `GrilioSocket_proof` - the streams of the socket in both directions, its links, and the
    step simulation of `TransportPromise` (**done**).
12. `GrilioParcel_proof` - what is read is what was appended, for all values and all
    packets (**done**).
13. Left: the order of the requests within a queue.

## The model

### `GrilioChannel` (grilio_channel.c, with the fields of grilio_request.c)

Variables carry the names of the code: `send_req`, `block_req`, `req_table`, `pending`,
`retry`, `last_req_id`, `last_pending`, `timeout_id`, `owner`, `owner_queue`, and
functions `status`, `id`, `current_id`, `retry_count`, `deadline`, `queue` for the fields
of the requests. `expired` and `resend` are the two local lists of
`grilio_channel_timeout`, which live while callbacks run. `tx`, `closed` and `rild` are
the surroundings: the packet that the transport has partly written, whether the link was
lost, and the serials that the daemon has not replied to.

**Reentrancy.** `stack` says what the functions being executed still have to do,
innermost first. A C function that calls back is cut into one action before each
callback and one after it; the remainder is a frame of the stack with the local
variables it needs. A callback is a frame `app`. An API call needs an empty stack or
an `app` frame on top, an event of the main loop needs an empty stack, and every action
under `Step` runs the frame on top. `Reentrant` names the callbacks in which the
application does anything, `MaxDepth` bounds how deep they nest.

| Code | Actions |
|---|---|
| `send_request_full`, `queue_request`, `generate_id` | `SendRequest` |
| `schedule_write`, `dequeue_request`, `send_next_request`, `request_sent` | `WriteStop`, `Dequeue` (up to the pending-changed signal), `Submit` |
| `handle_request_sent` | `RequestSent` |
| `handle_response`, `schedule_retry`, `remove_request` | `Response`, `HandleResponse` |
| `handle_indication`, `queue_ack` | `Indication`, `QueueAck` |
| `handle_connected`, `handle_disconnected`, `shutdown` | `Connected`, `Disconnected` |
| `timeout` | `Timeout`, `ExpirePending`, `ExpireOne`, `ExpireEnd`, `TakeRetries`, `RequeueNext`, `RequeueEnd` |
| `pending_timeout` | `PendingTimeout` |
| `reset_timeout`, `update_pending` | `ResetTimeout`, `UpdatePending`; in place where no callback precedes them |
| `retry_request`, `requeue_request` | `RetryRequest`, `Requeue` |
| `cancel_request`, `drop_request` | `CancelRequest`, `DropRequest`, `DropPending` |
| `cancel_all` | `CancelAll`, `CancelQueued`, `CancelTableStart`, `CancelTable`, `CancelRetry`, `CancelLoopEnd`, `CancelAllEnd` |
| `serialize`, `deserialize` | `Serialize`, `Deserialize` |

Definitions whose comment begins with "Mutant of" are deliberate errors: each of them
is a variant of the definition it names, and a property fails when it takes its place.
No specification uses them.

**Abstractions.**

- *Time.* The clock is in `GrilioTimers`; here a deadline is set or not. Any request in
  the table that has one may be the one that is due when the timer fires, several of
  them together, and so may any members of the retry queue; a timer that finds nothing due is only modelled when
  nothing is left to wait for. Pending requests may all pass their limit, so the pending
  timer is armed exactly while something is pending. This covers every choice of
  timeouts; what it cannot show is an error in the arithmetic of the deadlines.
- *Retry queue.* Sorted by deadline in the code, and the deadlines are arbitrary, so a
  set. The send queue is a sequence.
- *Ids* are `1..IdMax` and wrap around, as `guint` does. `IsNextId` is the loop of
  `generate_id`: the first id after the last one that is not a key of the table.
- *Serialize ids* are interchangeable and are counted.
- *Replies.* A reply comes with a serial the daemon has; with `EarlyReplies`, with any.
  Whether a retry callback asks for another try is a free choice, and it is assumed not
  to call the channel. A `SOLICITED_ACK` changes no state.
- *Acknowledgements* are internal requests which are drawn from `Req` as well.
- A request object is submitted once, as the code demands (`GASSERT(req->status == GRILIO_REQUEST_NEW)`).
- Left out: memory and reference counts, destroy callbacks, logging, the contents of
  packets, names of handlers, disposal of the channel (all that would run there is
  `cancel_all` in a state in which nobody listens).

### `GrilioChannelProperties`, `RequestPromise`, `MCGrilioChannel`

The properties of the engine; the abstract specification (submit once, then be answered
or cancelled once, with the callback called at that moment or never); and the
request profiles of the instances.

### `GrilioQueue`, `MCGrilioQueue`

Extends the engine with `QueueSendRequest`, `QueueCancelRequest`, `QueueCancelAll` (with
its loop, `QueueCancelNext`, `QueueCancel`, `QueueCancelEnd`), `TransactionStart`,
`TransactionFinish` and `QueueFree`. A queue stands for its address: what is allocated
after `QueueFree` may be the same one. A queue is not freed while a function of it is
being executed, because its caller has to hold a reference; nor is it modelled in which
order its requests are linked (`qnext`), so `queue_cancel_all` takes them in any order.

Two history variables, which the code has no counterpart of, say what a transaction is on
the wire: `origin` is the queue a request was submitted through, as long as that queue is
there, and `began` tells whether the present owner has had an ordinary request sent. They
are needed because `req->queue`, which `dequeue_request` looks at, is cleared on the way:
when a fire-and-forget request is sent, and when a request is cancelled, dropped or over, it
leaves its queue, but may stay in `pending`. `QueueCall`, `QueueStep` and the actions of the
engine leave `origin` alone; the two calls that change it are in `MemberCall`.

### `GrilioTimers`, `MCGrilioTimers`

The deadlines in clock ticks, `Milli` of them to a millisecond: `now` is the monotonic
clock, `timeout_id` and `pending_timeout_id` are the times at which the two GLib
sources are due or none, `next_deadline` and `next_pending_deadline` what the code
remembers. `DueAt` is the rounding to whole milliseconds of `g_timeout_add`;
`ResetTimeout` and `ResetPendingTimeout` are the functions of these names, with the
conditions under which they leave a source alone. `Tick` lets time pass between
handlers, and `Timeout` and `PendingTimeout` run at or after the time they are due.

| Code | Actions |
|---|---|
| `send_request_full` / `send_next_request` | `Queue` / `Submit` |
| `handle_response`, `retry_request` | `Reply`, `RetryRequest` |
| `cancel_request`, `drop_request`, `cancel_all` | `CancelRequest`, `DropRequest`, `CancelAll` |
| `set_pending_timeout` | `SetPendingTimeout` |
| `timeout`, `pending_timeout` | `Timeout`, `PendingTimeout` |

What is submitted gets no deadline if it is fire-and-forget and blocks nothing
(`forgotten`), and stays out of `pending` if it expects no reply (not `replied`); both are
chosen freely. `Reply` resets the submit time of a request only if it is in the table.

Abstracted: the send queue has no order and a queued request may be submitted at any
time (what holds it back is the subject of `GrilioChannel`); a blocking request is in the
table, so `block_req` adds no deadline; handlers take no time, and callbacks do not call
back. `leftover` is history: it remembers a `next_pending_deadline` that belongs to
no armed source. `MaxTime` bounds the clock.

### `GrilioEvents`, `MCGrilioEvents`

The list of injected events, the idle source that delivers it, `connected` and the
signals of the link. `DeliverInject` and `ProcessEnd` are the loop of
`grilio_channel_process_injects`, which `ProcessInjectsCallback` and `HandleConnected` start;
`Indication` is an event of the daemon, `HandleDisconnected` and `HandleError` are the
handlers of the transport's signals, `ErrorSignal` their second half; `Shutdown` and
`ShutdownDrop` are `grilio_channel_shutdown` before and after the transport signals the
disconnection. The stack is used as in `GrilioChannel`, and `CallsIn` names the handlers
from which the application calls. As `TransportPromise` has it, the channel is not
shut down while the transport signals that it is connected.

### `TransportPromise`, `GrilioSocket`, `MCGrilioSocket`

`TransportPromise` is the abstract transport: the link comes up at most once and goes down
for good, packets are written one at a time and in order, a packet is reported as
written at most once and only while the link is up, and nothing is delivered after the
link is down.

`GrilioSocket` counts bytes in units: a subscription is `SubLen` of them, a request
`HeaderLen` and one of `DataLens`, an incoming packet `LenLen` and `BodyLen`; a read or a write
moves any number. `wire` is everything that was written, unit by unit, `incoming` the packets
the daemon has sent and `unread` the units of them that are still in the descriptor.

| Code | Actions |
|---|---|
| `send`, `write`, `write_callback` | `Send`; `WriteCallback`, `WriteReturn` (after request-sent) |
| `handle_error` and its idle callback | `WriteErrorCallback`, `WriteErrorDown` |
| `read_callback`, `read`, `handle_solicited`, `handle_indication` | `ReadCallback`, `ReadReturn`; `ReadErrorSignal` (the end of `handle_read_error`) |
| `connected` | `SocketConnected` |
| `shutdown`, `finalize`, unref | `Shutdown`, `Finalize`, `Release` |

The user of the transport behaves like `GRilIoChannel`: it sends while it was told that the
link is up and that the previous packet is written. `SendIn`, `ShutdownIn` and `ReleaseIn` say
from which signals it sends, shuts down or drops its reference. `write_source` tells
whether the GLib source of the write watch still exists, apart from the id the code
keeps of it. The packets of the daemon are of every kind the reading code distinguishes:
`RIL_CONNECTED` with a version, anything that is delivered, an unknown type, too short,
too short for a response, too long. A malformed `RIL_CONNECTED` counts as delivered.

### `GrilioParcel`, `MCGrilioParcel`

Encoding and parsing as operators over sequences of bytes. `AppendByte`,
`AppendBytes`, `AppendInt32Array`, `AppendUtf8`, `ArrayUtf8New` and `ArrayInt32New` build a packet;
`ParserInit` starts to read it or any part of it that was cut off, and `GetByte`,
`GetInt32Array`, `GetNullableUtf8`, `SkipString` and `GetData` read. A byte has the two values
of `Base` 2, so that all packets of an instance can be enumerated, a word is four of
them and a UTF-16 unit two; there is a surrogate pair, a byte that is no UTF-8 and a null
string. The conversion is modelled by what it does: a string ends at its first invalid
byte, and its length is its number of units. `LengthAssumption` says how long the values
may be: an array's length fits into a word, and that of a string, in bytes with
its padding, does too. A longer string has two billion units; the code does not check.

## Properties and runs

All runs allow TLC to stop (`CHECK_DEADLOCK FALSE`): when the link is lost and every
request object was used, or the clock has reached its bound, nothing more happens, and
that is right. Distinct states are given for the symmetric instances.

| Run | Instance | Checks | States |
|---|---|---|---|
| `serialization` | 3 requests, plain or blocking, 4 ids, one serialize id, whole or partial writes | `TypeOK`, `BlockingAlone`, `BlockReqInTable`, `NothingLeftUnsent`, `SendReqIsWritten`, `DropUnblocks` | 532k |
| `retries` | 2 requests, plain or retried, 5 ids, partial writes, early replies; calls from response, connection and event callbacks | `CancelFindsRequest`, `OverIsForgotten`, `PendingIsInFlight`, `PendingSignalled`, `WrittenIsSending`, `LifeCycle`, `RetryFindsIdsFree`, `KeepsPromise` | 194k |
| `lists` | 2 requests: timed and retried, or fire-and-forget, blocking or not; 4 ids, one serialize id, failing writes | `ListInv`, `ListIntegrity`, `TimerArmed` | 656k |
| `progress` | 2 requests: timed and retried, or blocking without a timeout; fair timers | `Settles`, `QueueMoves` | 216k |
| `transactions` | 2 requests, plain or fire-and-forget, 2 queues, 3 ids, whole or partial writes; calls from response and owner-changed callbacks | `OwnerQueueSound`, `QueueHoldsLive`, `TransactionIsolated` | 1,987k |
| `timers` | 2 requests, 2 ticks to a millisecond, an own timeout of 2 ms, the default of 1 ms or none, with and without replies, retry after 0 or 1 ms, pending timeouts of 1 or 2 ms, a clock of 6 ticks | `TypeOK`, `RequestTimerCovers`, `PendingTimerCovers` | 3,489k |
| `events` | 4 events, calls from every handler; fair idle source | `TypeOK`, `InjectedInOrder`, `InjectsScheduled`, `InjectSettled` | 1.2k |
| `socket` | subscription, headers and lengths of 2 units, data of 0 or 1, 3 packets out, 2 packets of every kind in | `TypeOK`, `WireFormat`, `ReportedIsWritten`, `ReadInStep`, `RunsReferenced`, `KeepsPromise`, `EverythingRead`, `LossIsTold` | 92k |
| `parcel` | packets of up to 2 values, whole or cut anywhere, up to 3 calls of the parser | `CursorInPacket`, `RoundTrip`, `CutIsNoticed` | 372k |

What they show:

- `serialization`: when control returns to the main loop, a blocking request is never in
  flight together with another ordinary request, `block_req` is always a request in
  flight that its reply, its timeout or its cancellation finds, nothing that may be sent
  is left in the queue, and the channel waits for the transport only when the transport
  is writing its request; `drop_request` takes a request that was not retried off `pending`.
- `retries`: the id that `send_request` returned leads to the request in whatever
  structure it sits, whenever the application can call; what is over is in none of them;
  a live request is pending only under its last serial and only while in flight; every
  request goes through its states in order; ids of a request that is tried again are
  free. `KeepsPromise` is the refinement: all of that implements `RequestPromise`.
- `lists`: the structures that share `req->next` are disjoint, and the timer is armed
  whenever something may expire or waits for a retry. `ListInv` is the inductive
  invariant of the proof.
- `progress`: whatever the daemon does, a request with a timeout is settled or the link
  lost, and a queued request leaves the queue: the pending timeout releases the channel
  from a blocking request that is never answered.
- `transactions`: a queue waits for the channel at most once, and only while another one owns
  it; what a queue points to is alive, whatever its callbacks do to it. `TransactionIsolated`:
  from the first packet of a transaction to its end, every request that is pending, and the
  packet that is being written, came through the owner. It is about the wire and about where
  requests came from, and `dequeue_request` decides by `req->queue` at an earlier moment; in
  between, packets are written in parts, fire-and-forget requests leave their queue,
  requests are cancelled and dropped while pending, queues are freed, and owners change.
- `timers`: whatever is submitted, answered, retried, cancelled and dropped in between, each
  source is due within a millisecond of the earliest deadline it is there for. For the
  pending timer this makes an exception for a deadline that is equal to the stale
  `next_pending_deadline` (below).
- `events`: events are delivered in the order of injection, once each; while the link is up
  and the list is not empty, the idle source is attached; and every event is delivered
  or dropped, or the link is not up.
- `socket`: what is on the wire is a prefix of subscription, headers and data in the order
  of sending; what was reported as written is written; the reader's position is where a
  packet starts or goes on; no function runs in a finalized object; all of that implements
  `TransportPromise`. With fairness: packets that have arrived are read or the link is
  lost, and a descriptor that was closed is told to the user.
- `parcel`: reading with the functions that match gives back what was appended; the cursor
  stays within the packet; and a reader that asks for the values in their order stays in
  step, also past strings that it skips, until a call fails, exactly where the packet
  was cut.

**Bounds.** Two requests are enough for one to be cancelled, submitted or dropped from
the callback of the other, and for a blocking request against an ordinary one; three
are used where a third one has to wait (`serialization`). Ids: every submission
and every try takes one, and the numbers suffice for all requests to be alive at once
and each of them to be retried once, so these runs do not reach the wrap-around of the
ids (2^32 submissions in the code). `serialization` and `lists` hold as well
with 2 and with 3 ids, where ids are used again and the table fills up, and the theorems
hold for every number of ids; the properties of `retries` do not (see below). `MaxDepth` 1 lets a
function be interrupted by calls of the application; callbacks from these calls run,
but make no calls themselves. `MaxBlock` 1 reaches both sides of
"serialized". `max_retries` is 0 or 1; unlimited retries would make the serials
unbounded. Two requests are enough for the earliest deadline to leave and another one to
take over; 6 ticks let a request time out, be retried and time out again. Two units of header
and one of data are enough for a partial write to stop before, within and after the
header; three packets, for one to be sent from the signal that reports the previous one
and another one after that. The bounds are in `MC*.tla` and the `.cfg` files; `MaxDepth`,
`MaxBlock`, `MaxTime`, `MaxInject`, `MaxSend`, `MaxRecv`, `MaxItems` and `MaxReads` are also
guards of the models.

**Where the properties stop.** Beyond these limits the code violates them, see
[below](#what-the-code-does-differently-from-what-it-says).

- `LifeCycle`, `WrittenIsSending` and `KeepsPromise` are checked with retries but without
  deadlines, `TimerArmed` without calls from callbacks, `BlockingAlone` without
  transactions, `BlockingAlone`, `CancelFindsRequest` and `SendReqIsWritten` without a
  `pending-changed` handler, `NothingLeftUnsent` without transactions, `BlockReqInTable`
  without calls from callbacks, `DropUnblocks` without retries, and `TransactionIsolated`
  without a `pending-changed` handler.
- `PendingTimerCovers` needs a pending timeout that is never made shorter.
- `KeepsPromise` of the socket needs a user that does not shut it down from the handler of
  the `RIL_CONNECTED` event; `RunsReferenced` leaves out the idle callback of a write error;
  `EverythingRead` makes an exception for packets that are too long.

## Fairness

Three runs use fairness (`FairSpec`), each with weak fairness of `Step`: C functions run
to their end once called. The other conditions are strong, because an event is enabled
only between handlers (stack empty), again and again but not continuously.

- `progress`: strong fairness of `AppReturns` (callbacks return), of `Timeout` and of
  `PendingTimeout` (GLib dispatches a timer source that is armed and due). Nothing is
  assumed of the daemon: it need not answer. Nothing is assumed of the transport either,
  and so the run lets writes succeed at once (`SendOutcomes = {"OK"}`): a packet that is
  written partly depends on the socket's write watch, which is the subject of
  `GrilioSocket`.
- `events`: strong fairness of `ProcessInjectsCallback`, an idle source.
- `socket`: strong fairness of `ReadCallback` (the watch of a descriptor with something to
  read) and of `WriteErrorCallback` (an idle source). Nothing is assumed of the peer: it may
  send nothing, and never take what is written.

## Proofs

`tlapm` proves, for all values of the constants that satisfy the assumptions the modules
name (any finite or infinite set of requests, any number of ids, any nesting of
callbacks, any profiles, any lengths, any timeouts, any resolution of the clock):

| Theorem | Module | Statement |
|---|---|---|
| `TypeCorrect` | `GrilioChannel_proof` | `Spec => []TypeOK` |
| `ListInvHolds` | `GrilioChannel_proof` | `Spec => []ListInv` |
| `ListsSound` | `GrilioChannel_proof` | `Spec => []ListIntegrity` |
| `PendingToldTruly` | `GrilioChannelSignals_proof` | `Spec => []PendingSignalled` |
| `WaitsForWrittenOnly` | `GrilioChannelSignals_proof` | `Spec => []SendReqIsWritten` if `"pending" \notin Reentrant` |
| `TimerIsArmed` | `GrilioChannelSignals_proof` | `Spec => []TimerArmed` if *c* |
| `RequestInvHolds` | `GrilioChannelRequests_proof` | `Spec => []RequestInv` if *i* |
| `OverForgotten` | `GrilioChannelRequests_proof` | `Spec => []OverIsForgotten` if *i, t* |
| `WrittenBelongs` | `GrilioChannelRequests_proof` | `Spec => []WrittenIsSending` if *i, t* |
| `LifeGoesOn` | `GrilioChannelRequests_proof` | `Spec => LifeCycle` if *i, t* |
| `PromiseKept` | `GrilioChannelRequests_proof` | `Spec => KeepsPromise` (`RequestPromise`) if *i, t* |
| `CancelFinds` | `GrilioChannelRequests_proof` | `Spec => []CancelFindsRequest` if *i, t, p* |
| `PendingInFlight` | `GrilioChannelRequests_proof` | `Spec => []PendingIsInFlight` if *i, t, d* |
| `RepliesMatch` | `GrilioChannelRequests_proof` | `Spec => ReplyIsForLastTry` if *i, t, d* |
| `RetriesFindIdsFree` | `GrilioChannelRequests_proof` | `Spec => RetryFindsIdsFree` if *i, t, d* |
| `BlockReqFound` | `GrilioChannelRequests_proof` | `Spec => []BlockReqInTable` if *i, t, d, p, c* |
| `BlockingIsAlone` | `GrilioChannelRequests_proof` | `Spec => []BlockingAlone` if *i, t, d, p, c* |
| `NothingUnsent` | `GrilioChannelRequests_proof` | `Spec => []NothingLeftUnsent` if *i, t, d, p, c* |
| `DropsUnblock` | `GrilioChannelRequests_proof` | `Spec => DropUnblocks` if *r* |
| `QueueListsSound` | `GrilioQueue_proof` | `QueueSpec => []ListIntegrity` |
| `OwnerQueueStaysSound` | `GrilioQueue_proof` | `QueueSpec => []OwnerQueueSound` |
| `QueuesHoldLive` | `GrilioQueue_proof` | `QueueSpec => []QueueHoldsLive` |
| `TransactionsIsolated` | `GrilioQueue_proof` | `QueueSpec => []TransactionIsolated` if *p* |
| `TypeCorrect` | `GrilioTimers_proof` | `Spec => []TypeOK` |
| `RequestTimerRuns` | `GrilioTimers_proof` | `Spec => []RequestTimerCovers` |
| `PendingTimerFires` | `GrilioTimers_proof` | `Spec => []PendingTimerCovers` if `MayLower = FALSE` |
| `TypeCorrect` | `GrilioEvents_proof` | `Spec => []TypeOK` |
| `InjectsInOrder` | `GrilioEvents_proof` | `Spec => []InjectedInOrder` |
| `InjectsNotForgotten` | `GrilioEvents_proof` | `Spec => []InjectsScheduled` |
| `RunsAreReferenced` | `GrilioSocket_proof` | `Spec => []RunsReferenced` |
| `TypeCorrect` | `GrilioSocket_proof` | `Spec => []TypeOK` |
| `WireIsWhole` | `GrilioSocket_proof` | `Spec => []WireFormat` |
| `ReportedWhenWritten` | `GrilioSocket_proof` | `Spec => []ReportedIsWritten` |
| `ReadsInStep` | `GrilioSocket_proof` | `Spec => []ReadInStep` |
| `SocketKeepsPromise` | `GrilioSocket_proof` | `Spec => KeepsPromise` (`TransportPromise`) if *s* |
| `ParcelInvariant` | `GrilioParcel_proof` | `Spec => []ParcelInv` |
| `CursorStaysInPacket` | `GrilioParcel_proof` | `Spec => []CursorInPacket` |
| `ValuesRoundTrip` | `GrilioParcel_proof` | `Spec => []RoundTrip` |
| `CutsAreNoticed` | `GrilioParcel_proof` | `Spec => []CutIsNoticed` |

Where the code breaks a property beyond some limit, the limit is a hypothesis of the
theorem; for the instances that show it see
[below](#what-the-code-does-differently-from-what-it-says). Not every theorem is known to be
false without each of its hypotheses: those of `BlockInv` and of `TryInv` are what the
argument needs.

- *i*, ids are fresh (`FreshIds`): what is put into the send queue gets a larger id than
  everything before it, that is, `last_req_id` has not wrapped around. With ids that come
  again, a live request may get the id of one that is over.
- *t*, no timeouts (`NoTimeouts`): neither the channel nor a request sets one. A request that
  expires while it is written, or while `grilio_channel_timeout` calls back, is completed
  twice or written when it is over (`cancelled_while_expiring`). `RequestInv` itself is proved
  with timeouts: what it says, it says of the requests that have none.
- *d*, a daemon that replies only to what it was sent (`~EarlyReplies`). A reply to a serial
  that is still being written may come late, after the retry it caused. The run `retries`
  has such replies and finds nothing, with at most one retry; with two, the argument of
  the proof does not hold.
- *p*, the application does not call the channel from a `pending-changed` handler
  (`"pending" \notin Reentrant`).
- *c*, nor from the callback of a request (`"response" \notin Reentrant`): `cancel_all` clears
  `block_req` before, and stops the timer after, it calls back.
- *r*, no request is retried (`NoRetries`).
- *s*, the user of the socket does not shut it down from its handler of `RIL_CONNECTED`
  (`"connected_event" \notin ShutdownIn`): the connected signal would follow the
  disconnected one.

**Types.** `TypeOK` of `GrilioChannel` is inductive as it stands; the one part that is not
obvious is that a frame which holds a request (`submit`, `expire_one`) really has one.
There is one lemma for each action and the theorem combines them.

**Lists.** `ListIntegrity` says that the send queue holds no request twice, that it is
disjoint from the retry queue and both lists of `grilio_channel_timeout`, that these are
disjoint from each other, and that a request some function holds is on none of them. It
is not inductive. The strengthening `ListInv` adds

- `QueuedHasNoDeadline`: `grilio_channel_timeout` takes the expired requests from the
  request *table*, by their deadline, and a queued request is in that table. That it
  does not link a queued request into a second list depends on `requeue_request`
  resetting the deadline;
- `TableKeys`: a request in the retry queue, or in the list of those to be sent again, is
  not in the table at all, so neither a timer nor a reply finds it there; and every key
  is one of the two ids of its request, so that `TableWithout` really removes it;
- `NewIsNowhere`: a request that is submitted is on no list yet;
- `FramesSound`: no two functions hold the same request; requests are expired only while
  `grilio_channel_timeout` runs; a response is handled with nothing else on the stack,
  so that the request it hands to the retry queue cannot be in the hands of another
  function.

The second half of `GrilioChannel_proof` first shows what the sequence operators do (removing from an
injective sequence, appending to one), then what pushing and popping frames does
to `HeldBy`, `HeldOnce` and `Executing`, then that unlinking, completing,
enqueueing and retrying a request keep `ListInv`, and then one lemma per action. Most
actions are *plain*: they change only things that the invariant does not mention, or
push and pop frames that hold nothing.

**Surroundings.** `PendingSignalled` says that `last_pending` is right whenever the main loop
has control. In between it may be wrong, and then `update_pending` is on the stack:
that is `Signalled`, and with `ListInv` and `QueuedHaveSerials` (a queued request has a serial,
under which it becomes pending) it is `PendingInv`. `SendReqIsWritten` says that `send_req` is
the request the transport is writing. It depends on nobody coming between
the dequeuing of a request and `grilio_transport_send` (`SubmitOnTop`). That is false when the application
calls from the `pending-changed` handler - `BlockingAlone` and `SendReqIsWritten` are violated
then - so the hypothesis of the theorem is needed. It also needs `PacketAssumption`: `None` is
not a packet.

`TimerArmed` is true of the main loop only: between handlers the timer may be off, and then
`reset_timeout` is on the stack (`Armed`), below everything that expires requests
(`ResetFollows`). `cancel_all` ends with the timer off, so one has to know that its loops left
nothing to wait for (`Emptied`), which is so if no callback submits anything. That is
`TimerInv`.

**Requests.** `RequestInv` is `ListInv` with `FrameOK`, `NewUnknown`, `Placed` and what makes ids
a name: they are not above `last_req_id`, and different requests have different ones. `Placed`
says, for a request without a deadline, in exactly which structures it is while it has
which status - the send queue when QUEUED, the retry queue or the hands of
`grilio_channel_timeout` when RETRY, the table under both ids when it can be answered, in no
structure when it is over - and that the packet being written belongs to a request that is
SENDING or was CANCELLED. `FrameOK` says what the functions being executed may still do to it:
`submit` has a request that is not written yet; the keys that `cancel_all` has collected are
old ones, and none belongs to a request that is queued or will be again, so the loop cannot
cancel what a callback has submitted meanwhile in place of what it was for.

Most steps leave requests alone (`Still`, `Quiet`). The others change the status of one, and
`LifeStep` shows that each of them is an edge of `Transitions` or a cancellation of a live request,
and calls back at most once, when it settles the request (`Moves`). `LifeCycle` and the step
simulation of `RequestPromise` follow: the promise maps every status to a phase, a move to
`Settle` or to a stutter.

For `CancelFindsRequest` one has to know who has the due retries that are in no structure:
`requeue`, or the `schedule_write` it calls (`RetriesHidden`); with no `pending-changed` handler
the application never looks in between. `TryInv` is what replies are about: what is pending,
what is being written, what the daemon has received and what it answers are serials of the
last try of a request that is in flight, so a retried request has none of them and its two
ids are free. Without retries, `current_id` is `id` throughout (`OneSerial`), which is all that
`drop_request` needs.

`BlockInv` and `UnsentInv` are proved together. The first: `block_req` is in flight; a request
between its dequeuing and `grilio_transport_send` goes out with nothing to wait for; and a
blocking request that is pending and in flight is `block_req`, or about to be, and alone -
except while `cancel_all` is at work, which clears `block_req` first. The second: as long as the
send queue holds something that may be sent, a function is on the stack that leads to
`send_next_request`. Both rest on all the earlier invariants.

**Queues.** `QueueInv` is `ListInv`, `OwnerQueueSound` (with the owner itself), `QueueHoldsLive` and
`MembersHaveIds`. Every action of the engine is shown to keep the queues (`QueuesKept`: it
starts no transaction, and a request leaves its queue or stays alive); it keeps `ListInv`
by the lemmas of `GrilioChannel_proof`, and the actions of `GrilioQueue` are then looked at
one by one.

`TransactionIsolated` follows from `WireInv`. Its parts: the queue a request is in, if any, is the
one it came through (`OriginSound`), so the test of `dequeue_request`, which is stricter,
says enough about `origin`; the packet being written is that of `send_req` (`WritesSendReq`); what
is pending or being written was submitted before, so that a request that gets its origin
now is none of them (`InFlightIsOld`); a request between its dequeuing and `grilio_transport_send`
came through the owner, and so did everything pending (`AboutToSend`); `SubmitOnTop` and
`Written` of `GrilioChannelSignals_proof`; and `TransactionIsolated` itself. The step that needs the
middle parts is `Submit`, with which a transaction begins on the wire: what makes it true was
decided when the request was dequeued, and with no `pending-changed` handler nothing runs in
between. Steps by which nothing becomes pending and nothing is handed to the transport are dealt
with together (`Quiet`, `Calm`); a change of the owner starts over with nothing begun.

**Timers.** `TimerInv` says what the code believes when it leaves a timer alone and why it
may: `next_deadline` is no later than any deadline, and the source that is attached is due
within a millisecond of it or at once. `PendingTimer` is stronger: `next_pending_deadline` *is*
the earliest deadline while something is pending. `DueAtBounds` is the arithmetic of the rounding.
For the pending timer the remembered value may be a stale one that equals a new deadline;
`PendingTimerCovers` excuses exactly that.

**Events.** `EventsInv` has three parts: what the stack looks like (functions that only the
main loop calls have nothing below them, and `processing_injects` tells whether the loop is on
it); that somebody will look at the list - the idle source, the loop or `handle_connected`;
and where the events are, each of them delivered, listed or dropped, in increasing order.

**References.** `ReferenceInv`: the user's reference keeps the transport alive, and once it is
not alive only write-error callbacks are left to run. Every other handler takes a
reference, so the transport is finalized with nothing of it on the stack.

**Writing.** `WireFormat` speaks of the wire alone, and is not inductive: whether the next write
goes on where the last one stopped depends on what the transport believes of its
position. `WireInv` has both. `WirePart`: the wire is a beginning of the stream (`Unbroken`), the
reported packets are the first ones and have their last unit on it, and of the packet
after them there is at most a part. `Position`, while the channel is open: the wire ends where
`sub_pos`, `send_header_pos` and `send_pos` say (`GoesOn`), the header comes before the data, and what
the user waits for is the packet being written. After an error the positions may be
ahead or behind, and nothing is written any more. The lemmas below it say what appending a part of a
packet does to a stream (`StreamExtended`, `ChunkKeeps`, `ChunkCompletes`) and that header and data,
written in two parts, are one (`PacketPart`); `WireWritten` is the call of `grilio_transport_socket_write`
that `Send` and `WriteCallback` share. The packets are arbitrary in number and length, so there is
no induction over them: each unit follows from the one before it.

**Reading.** `ReadInv`: the buffers hold the beginning of one packet and everything before it was
handled (`Begun`), and while there is a read watch, the stream goes on exactly after what the buffers
hold (`ReadUpTo`). Where the packets start in what is unread is a function `f` on the packet
numbers, of which the invariant says that it exists (`Placed`): each packet starts where the one
before it ends, and the units in between are its units. Reading shifts it, a packet that
arrives extends it, a packet that is complete moves the index on. After an error the buffers
stay as they are, so the first half survives without the watch.

**The link.** `LinkInv` relates what the user was told to what the transport knows. Three facts
are needed that `KeepsPromise` does not mention: the channel is closed before the link is reported as
lost (`ClosedInv`: also while a write error waits for its idle callback, so nothing is delivered
after it); a packet is written to its end only by a connected transport, whose user was told
(`ToldInv`); and between the indication and the connected signal nothing runs but the
handler of the indication (`ConnectingInv`), which is where the hypothesis *s* is used. The step
simulation then maps sending and the write callback to `Send` and `Sent`, a packet that is read to
`Deliver`, every way of losing the link to `Disconnect`, and `SocketConnected` to `Connect`.

**The parcel.** `ParcelInv` is `Packed` - the bytes are the encodings of the values, joined in the
order of appending - and `Reading`: the cursor is within the packet, and while the calls
follow the values, it is where the values end that were returned, all of which are
right. The assumptions are those on the constants: a byte has at least two values, the
letters and the two halves of pairs are different non-zero units, arrays and byte strings
are not empty, and the values have a length that a packet can carry. The bytes may have
any number of values, and so the theorems hold for the 256 of the code.

The properties are about data of any length, and a library theorem for induction takes a
predicate as a parameter, which the provers cannot instantiate. `NatInd` takes a *set*
instead: if it has zero and the successors of its members, it has every number. It
follows from the least number outside the set. With it

- `Flattening`, `Parts`, `PartAt` and `Uniform` say what `FlattenSeq` returns: its prefixes are joined
  one by one, and element *j* of part *i* is where the lengths of the parts before
  *i* say. So the encoding of value *n* stands at `Offset(n - 1)` (`ItemAt`), and the words
  of an array and the units of a string every four and every two bytes (`WordsBytes`);
- `UnitsPaired` shows that what `g_utf8_to_utf16` makes of a valid string consists of letters and
  whole pairs, and that its characters are the string again (`PairedUtf8`).

`WordBytes` and `UnitBytes` are the arithmetic: a number is what its digits say. `TextFound` is
where it comes together: if a string stands at the cursor, the size that the parser computes
from the length is the size that the encoder wrote, so the parser takes all of it when it
is there to its end and nothing of it when it is cut. It is also where the bound on the length
is needed: `4 + Align4((len + 1) * 2)` must not wrap around. `CalledStep` then does
for every function of the parser what they share, the history of the calls, and each
step lemma says what that function finds at the cursor.

**Only model-checked.** Liveness (`FairSpec` in `progress`, `events` and `socket`), and whatever needs
`ENABLED`, is outside what the prover does. What
a theorem says under a hypothesis and the code may well do without it is checked where the
instances allow: `PendingIsInFlight` with early replies in `retries`, for example.

## What the code does differently from what it says

Three runs end in a violation; each checks one statement of a comment, an assertion or a
test against the model.

| Run | Statement | What happens |
|---|---|---|
| `cancelled_while_expiring` | `test_io.c:3571` and `3600`, a cancelled request stays CANCELLED | it is completed (and called back a second time) from the local list of expired requests |
| `injected_after_eof` | `grilio_channel.c:1120-1122`, "We should be connected when we are doing this", `GASSERT(self->connected ...)` | events that were injected before the end of file are delivered by the idle callback after it, since only shutdown drops them |
| `lost_wakeup` | `grilio_transport_socket.c:575`, "Will have to wait" | the write callback signals request-sent while `write_watch_id` is set and removes the watch afterwards; a packet that is sent from there and written partly is never finished |

Met while modelling, with the instance that shows it, but without a run of their own.
The request engine:

- A request times out while its packet is partly written; when the packet is out its
  status is DONE, against `GASSERT(req->status == GRILIO_REQUEST_CANCELLED)` (839;
  `WrittenIsSending`, `OnlyTimed`, 2 requests, 3 ids, writes OK or PENDING).
- The reply to the first try comes when the second one is out, and completes it; the
  second serial stays pending, against `GASSERT(req->current_id == id)` (1083;
  `ReplyIsForLastTry`, `OnlyTimedRetried`, 6 ids).
- `pending` is keyed by `current_id` and `drop_request` uses `id`, so after a retry it does not
  do what 1921 says, "also removes the cancelled request from the pending list"
  (`DropUnblocks`, `RetriedOrPlain`, 5 ids).
- `cancel_all` stops the timer at its end, "We no longer need the timer" (1907), although a
  request submitted from one of its callbacks has armed it (`TimerArmed`, `OnlyTimed`,
  3 ids, `Reentrant = {"response"}`, `MaxDepth` 1).
- `pending-changed` is signalled between the dequeuing of a request and the assignment of
  `block_req`, "Block next requests from being sent while this one is pending" (902;
  `BlockingAlone`, `TimedOrBlocking`, 4 ids, `Reentrant = {"pending"}`, `MaxDepth` 1). A request
  sent from there overtakes it and is forgotten in `send_req` (`SendReqIsWritten`, plain
  requests).
- `grilio_channel_timeout` requeues its due retries one by one, with a callback in between;
  until its turn comes, a request is in no structure and `cancel_request` does not find
  it (`CancelFindsRequest`, `RetriedOrPlain`, 6 ids, `Reentrant = {"pending"}`).
- `cancel_all` clears `block_req` first and calls back later: a blocking request submitted
  in a callback sets it again and is then cancelled by the loop, and `block_req` stays
  (`BlockReqInTable`, `PlainOrBlocking`, 3 requests, `Reentrant = {"response"}`).
- A transaction that is started from a `pending-changed` handler begins behind a request of
  another queue that was dequeued already: it is sent after the owner has got the channel
  (`TransactionIsolated`, plain requests, 3 ids, `Reentrant = {"pending"}`, `MaxDepth` 1).
- Within a transaction a blocking request of the owner goes out without waiting for
  what is pending (`dequeue_request`, 439-453; `BlockingAlone` with `PlainOrBlocking`
  under `QueueSpec`).
- `transaction_start` may make requests of the new owner eligible, but schedules no write
  (1582-1620).
- The id generator looks at the table only. Once the ids have wrapped around it may give
  out the id of a request in the retry queue, against the assertions in 378-383
  (`RetryFindsIdsFree`, `OnlyTimedRetried`, 3 requests, 3 ids), or the first id of a request that
  is over as the serial of another one; cancelling by that old id then takes
  the other one for sent and leaves it in the send queue (`OverIsForgotten`, the instance
  of `retries` with 3 ids). It takes 2^32 submissions to get there.

Timers and transport:

- Nothing resets `next_pending_deadline` when the pending timer is removed, so a new
  deadline that is equal to it is taken for armed (663; `PendingTimerRuns`, the instance
  of `timers`).
- `set_pending_timeout` with a shorter timeout leaves a source where the longer one put it
  (1573; `PendingTimerCovers` with `MayLower = TRUE`).
- A shutdown from a handler of the `RIL_CONNECTED` event is followed by the connected signal:
  the link comes up after it went down (socket, 278; `KeepsPromise` with `connected_event` in
  `ShutdownIn`).
- The idle callback of a write error takes no reference of its own; if the handler of
  the error drops the last one, the disconnected signal is emitted on a finalized
  object (socket, 441).
- `handle_write_error` zeroes the id of the write watch, "This one is going to be freed when we
  return FALSE from the callback" (457-460). It is also called by `send`, while the watch of a
  partly written subscription is attached: nobody returns FALSE then, and the source
  stays (`ForgottenWatchIsFreed`, `SubLen` 2).
- A packet longer than the maximum ends the read watch; the link is neither closed nor
  reported as lost (socket, 376).

## Not modelled

Loggers and hexdump are output only. The test server and the tests are not part of the
library. Memory management of requests and of the channel (reference counts, the destroy
callback, disposal and finalization of the channel) is left out: the models of the engine
take a request object to exist as long as anyone uses it; only the transport has its
references modelled. Opening the socket, the names and the version offset of a transport
and the registration of signal handlers change nothing that the properties speak of. In
the parcel, formatting and splitting of strings are GLib's; the padded size of a string
with one of the two largest lengths wraps around in the parser, and what is read then is
left open; the room reserved in the array between its two resizings is not modelled. The
composition of socket and channel in one state space is replaced by `TransportPromise`.
