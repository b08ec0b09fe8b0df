-------------------- MODULE GrilioChannelRequests_proof --------------------
(***************************************************************************)
(* What happens to a request without a deadline of its own, from the time  *)
(* it is submitted until it is over: where it is while it has which        *)
(* status, that nobody takes it for another one, and that it is settled    *)
(* once and for all.  The proof is by the inductive invariant RequestInv.  *)
(***************************************************************************)
EXTENDS GrilioChannelSignals_proof

USE NoneAssumption, IdAssumption, OptionAssumption, BoundAssumption
USE DEF NoneAssumption, IdAssumption, OptionAssumption, BoundAssumption

-----------------------------------------------------------------------------
(* What is assumed of a behaviour.                                         *)

\* The counter behind generate_id has not wrapped around: what is queued, for the first
\* time or for another try, gets a larger id than everything that was queued before it.
FreshStep == Len(send_queue') > Len(send_queue) => last_req_id' > last_req_id
FreshIds  == [][FreshStep]_vars

-----------------------------------------------------------------------------
(* The invariant.                                                          *)

Untimed(r) == ~Timed(r)
Known(r)   == status[r] # "NEW"
OwnIds(r)  == {id[r], current_id[r]}

IdsGiven == \A r \in Req : Known(r) => OwnIds(r) \subseteq 1 .. last_req_id

IdsApart == \A r, s \in Req :
    Known(r) /\ Known(s) /\ r # s => OwnIds(r) \cap OwnIds(s) = {}

\* The transport does not know a request that was not submitted, and nobody was called.
NewUnknown == \A r \in Req : ~Known(r) =>
    send_req # r /\ (tx # None => tx.req # r) /\ replies[r] = 0

\* Where a request is while it has which status.
Placed(r) ==
    /\ r \in Range(send_queue) <=> status[r] = "QUEUED"
    /\ r \in retry \cup resend <=> status[r] = "RETRY"
    /\ status[r] \in {"QUEUED", "SENDING", "SENT"} =>
         \A i \in OwnIds(r) : req_table[i] = r
    /\ status[r] \in {"RETRY", "DONE", "CANCELLED"} =>
         \A i \in Ids : req_table[i] # r
    /\ send_req = r => status[r] \in {"SENDING", "CANCELLED"}
    /\ tx # None /\ tx.req = r => status[r] \in {"SENDING", "CANCELLED"}
    /\ deadline[r] => status[r] \in {"RETRY", "CANCELLED"}
    /\ Live(r) => replies[r] = 0

\* What the functions that are being executed know of requests: what has expired has a
\* deadline; what is about to be handed to the transport is not over and not there yet;
\* and cancel_all has not collected the key of a request that is queued now, or will be
\* again.
FrameOK(f) ==
    /\ f.fn = "expire_one" => Timed(f.req)
    /\ f.fn = "submit" /\ Untimed(f.req) =>
         status[f.req] \in {"SENDING", "CANCELLED"} /\ (tx # None => tx.req # f.req)
    /\ f.fn = "cancel_table" => \A i \in f.ids :
         /\ i <= last_req_id
         /\ \A r \in Req : Untimed(r) /\ status[r] \in {"QUEUED", "RETRY"} => i \notin OwnIds(r)

\* At most one function works through the due retries: grilio_channel_timeout, which the
\* main loop calls.  It sits four frames from the bottom of the stack.
Retrier == {"retry_due", "requeue"}
OneRetrier(t) == \A k \in DOMAIN t : t[k].fn \in Retrier => Len(t) - k = 3
RetriesTaken  == /\ OneRetrier(stack)
                 /\ resend # {} => "requeue" \in Executing(stack)

RequestInv ==
    /\ ListInv
    /\ RetriesTaken
    /\ IdsGiven /\ IdsApart /\ NewUnknown
    /\ \A r \in Req : Known(r) /\ Untimed(r) => Placed(r)
    /\ \A r \in expired : Timed(r)
    /\ \A f \in Range(stack) : FrameOK(f)

\* One request changes its status, from one it may have before to one it may have after,
\* and if that settles it its callback may have been called.
Moves(r, to) ==
    /\ status' = [status EXCEPT ![r] = to]
    /\ Untimed(r)' => \/ <<status[r], to>> \in Transitions
                      \/ to = "CANCELLED" /\ Live(r)
    /\ \/ replies' = replies
       \/ /\ to \in {"DONE", "CANCELLED"} /\ replies' = Replied(r)
          /\ Untimed(r) => Live(r) /\ replies[r] = 0

LifeStep == \/ UNCHANGED <<status, replies>>
            \/ \E r \in Req, to \in Statuses : Moves(r, to)

-----------------------------------------------------------------------------
(* Functions that know nothing of requests.                                *)

Busy == {"submit", "expire_one", "cancel_table"} \cup Retrier

Calm(pre) == pre \in Seq(FrameType) /\ \A f \in Range(pre) : f.fn \notin Busy

\* Who works through the due retries goes on.
RetrierStays(t) == /\ OneRetrier(stack) => OneRetrier(t)
                   /\ "requeue" \in Executing(stack) => "requeue" \in Executing(t)

\* Nothing is called that knows of a request, and was not being executed before.
NothingNew(t) == /\ \A f \in Range(t) : f \in Range(stack) \/ f.fn \notin Busy
                 /\ RetrierStays(t)

\* Calm functions are calm together.
LEMMA CalmConcat ==
    ASSUME NEW a, NEW b, Calm(a), Calm(b)
    PROVE  Calm(a \o b)
  BY RangeConcatenation, ConcatProperties DEF Calm

\* A single calm function.
LEMMA CalmFrame ==
    ASSUME NEW f \in FrameType, f.fn \notin Busy
    PROVE  Calm(<<f>>)
  <1>1. <<f>> \in Seq(FrameType) /\ DOMAIN <<f>> = {1} /\ <<f>>[1] = f
    OBVIOUS
  <1> QED  BY <1>1 DEF Calm, Range

\* Callbacks, and what the channel does after them, are calm.
LEMMA CalmCalls ==
    ASSUME NEW r, NEW n, NEW kind
    PROVE  /\ Calm(<<>>) /\ Calm(Call(kind)) /\ Calm(Notify(r)) /\ Calm(Cancelled(r, n))
           /\ Calm(<<Write>>) /\ Calm(<<Write, PendingUpdate>>)
           /\ Calm(<<TimeoutReset, Write>>) /\ Calm(<<Write, TimeoutReset>>)
  <1>1. Calm(<<>>)
    <2>1. <<>> \in Seq(FrameType) /\ Range(<<>>) = {}
      BY DEF Range
    <2> QED  BY <2>1 DEF Calm
  <1>2. Calm(<<App>>) /\ Calm(<<Write>>) /\ Calm(<<PendingUpdate>>) /\ Calm(<<TimeoutReset>>)
    <2>1. /\ App.fn = "app" /\ Write.fn = "schedule_write"
          /\ PendingUpdate.fn = "update_pending" /\ TimeoutReset.fn = "reset_timeout"
      BY DEF App, Write, PendingUpdate, TimeoutReset, Frame
    <2> QED  BY <2>1, ConstFrames, CalmFrame DEF Busy, Retrier
  <1>3. ASSUME NEW f \in FrameType, NEW g \in FrameType, f.fn \notin Busy, g.fn \notin Busy
        PROVE  Calm(<<f, g>>)
    <2>1. <<f, g>> \in Seq(FrameType) /\ DOMAIN <<f, g>> = {1, 2}
      OBVIOUS
    <2> QED  BY <1>3, <2>1 DEF Calm, Range
  <1>4. /\ Calm(<<Write, PendingUpdate>>) /\ Calm(<<TimeoutReset, Write>>)
        /\ Calm(<<Write, TimeoutReset>>)
    <2>1. /\ Write.fn = "schedule_write"
          /\ PendingUpdate.fn = "update_pending" /\ TimeoutReset.fn = "reset_timeout"
      BY DEF Write, PendingUpdate, TimeoutReset, Frame
    <2> QED  BY <1>3, <2>1, ConstFrames DEF Busy, Retrier
  <1>5. \A c : Calm(Call(c))
    BY <1>1, <1>2 DEF Call
  <1>6. Calm(Notify(r))
    BY <1>1, <1>5 DEF Notify
  <1>7. Calm(Cancelled(r, n))
    BY <1>1, <1>6 DEF Cancelled
  <1> QED  BY <1>1, <1>2, <1>4, <1>5, <1>6, <1>7

\* Functions other than these two may be called, whoever works through the retries.
LEMMA RetrierPush ==
    ASSUME NEW s \in Seq(FrameType), RetrierStays(s),
           NEW pre \in Seq(FrameType), \A f \in Range(pre) : f.fn \notin Retrier
    PROVE  RetrierStays(pre \o s)
  <1> DEFINE t == pre \o s
             n == Len(pre)
  <1>1. /\ n \in Nat /\ Len(s) \in Nat /\ Len(t) = n + Len(s)
        /\ DOMAIN pre = 1 .. n /\ DOMAIN s = 1 .. Len(s) /\ DOMAIN t = 1 .. n + Len(s)
        /\ \A k \in 1 .. n + Len(s) : t[k] = IF k <= n THEN pre[k] ELSE s[k - n]
    BY ConcatProperties, LenProperties
  <1> HIDE DEF t, n
  <1>2. ASSUME OneRetrier(s), NEW k \in DOMAIN t, t[k].fn \in Retrier PROVE Len(t) - k = 3
    <2>1. CASE k <= n
      BY <1>1, <1>2, <2>1 DEF Range
    <2>2. CASE ~(k <= n)
      <3>1. k - n \in DOMAIN s /\ s[k - n].fn \in Retrier
        BY <1>1, <1>2, <2>2
      <3>2. Len(s) - (k - n) = 3
        BY <1>2, <3>1 DEF OneRetrier
      <3> QED  BY <1>1, <3>2
    <2> QED  BY <2>1, <2>2
  <1>3. Executing(s) \subseteq Executing(t)
    <2>1. \A k \in DOMAIN s : n + k \in DOMAIN t /\ t[n + k] = s[k]
      <3> TAKE k \in DOMAIN s
      <3>1. n + k \in 1 .. n + Len(s) /\ ~(n + k <= n) /\ (n + k) - n = k
        BY <1>1
      <3> QED  BY <1>1, <3>1
    <2> QED  BY <2>1 DEF Executing
  <1> QED  BY <1>2, <1>3 DEF RetrierStays, OneRetrier, t

\* A function is called.
LEMMA PushRange ==
    ASSUME NEW f \in FrameType, NEW s \in Seq(FrameType)
    PROVE  /\ <<f>> \o s \in Seq(FrameType)
           /\ Range(<<f>> \o s) = {f} \cup Range(s)
           /\ f.fn \notin Retrier /\ RetrierStays(s) => RetrierStays(<<f>> \o s)
  <1> DEFINE e == <<f>>
  <1>1. e \in Seq(FrameType) /\ Range(e) = {f}
    BY DEF Range
  <1> HIDE DEF e
  <1>2. e \o s \in Seq(FrameType) /\ Range(e \o s) = {f} \cup Range(s)
    BY <1>1, RangeConcatenation, ConcatProperties
  <1>3. f.fn \notin Retrier /\ RetrierStays(s) => RetrierStays(e \o s)
    BY <1>1, RetrierPush
  <1> QED  BY <1>2, <1>3 DEF e

\* The functions of a stack that is no longer than the one before, with calm ones on top.
LEMMA NewPush ==
    ASSUME NEW pre, Calm(pre), NEW s \in Seq(FrameType), NothingNew(s)
    PROVE  NothingNew(pre \o s)
  <1>1. Range(pre \o s) = Range(pre) \cup Range(s)
    BY RangeConcatenation DEF Calm
  <1>2. RetrierStays(pre \o s)
    BY RetrierPush DEF Calm, NothingNew, Busy
  <1> QED  BY <1>1, <1>2 DEF Calm, NothingNew

\* The function on top returns.
LEMMA RestProperties ==
    ASSUME stack \in Seq(FrameType), stack # <<>>
    PROVE  /\ Rest \in Seq(FrameType) /\ Range(Rest) \subseteq Range(stack)
           /\ Top \in Range(stack) /\ Top \in FrameType
           /\ Top.fn # "requeue" => NothingNew(Rest)
           /\ OneRetrier(stack) => OneRetrier(Rest)
           /\ OneRetrier(stack) /\ Top.fn \in Retrier =>
                \A f \in Range(Rest) : f.fn \notin Retrier
  <1>1. /\ Rest \in Seq(FrameType) /\ Len(Rest) = Len(stack) - 1
        /\ \A i \in 1 .. Len(Rest) : Rest[i] = stack[i + 1]
    BY HeadTailProperties DEF Rest
  <1>2. /\ DOMAIN Rest = 1 .. Len(Rest) /\ DOMAIN stack = 1 .. Len(stack)
        /\ Len(stack) \in Nat /\ Len(stack) # 0
    BY <1>1, LenProperties, EmptySeq
  <1>3. \A i \in DOMAIN Rest : i + 1 \in DOMAIN stack /\ Rest[i] = stack[i + 1]
    BY <1>1, <1>2
  <1>4. Top = stack[1] /\ 1 \in DOMAIN stack
    BY <1>2 DEF Top
  <1>5. Range(Rest) \subseteq Range(stack) /\ Top \in Range(stack) /\ Top \in FrameType
    BY <1>2, <1>3, <1>4 DEF Range
  <1>6. OneRetrier(stack) => OneRetrier(Rest)
    BY <1>1, <1>2, <1>3 DEF OneRetrier
  <1>7. \A k \in DOMAIN stack : k = 1 \/ (k - 1 \in DOMAIN Rest /\ stack[k] = Rest[k - 1])
    BY <1>1, <1>2
  <1>8. Top.fn # "requeue" => ("requeue" \in Executing(stack) => "requeue" \in Executing(Rest))
    BY <1>4, <1>7 DEF Executing
  <1>9. ASSUME OneRetrier(stack), Top.fn \in Retrier
        PROVE  \A f \in Range(Rest) : f.fn \notin Retrier
    <2>1. Len(stack) = 4
      BY <1>2, <1>4, <1>9 DEF OneRetrier
    <2> SUFFICES ASSUME NEW k \in DOMAIN Rest, Rest[k].fn \in Retrier PROVE FALSE
      BY DEF Range
    <2>2. Len(Rest) - k = 3
      BY <1>6, <1>9 DEF OneRetrier
    <2> QED  BY <1>1, <1>2, <2>1, <2>2
  <1> QED  BY <1>1, <1>5, <1>6, <1>8, <1>9 DEF NothingNew, RetrierStays

\* Calling calm functions brings nothing new, whether one has returned before or not.
LEMMA NewCalls ==
    ASSUME ListInv, NEW pre, Calm(pre)
    PROVE  /\ NothingNew(stack) /\ NothingNew(pre \o stack)
           /\ stack = <<>> => NothingNew(pre)
           /\ stack # <<>> /\ Top.fn # "requeue" => NothingNew(Rest) /\ NothingNew(pre \o Rest)
  <1>1. stack \in Seq(FrameType) /\ NothingNew(stack)
    BY DEF ListInv, TypeOK, StackTypeOK, NothingNew, RetrierStays
  <1>2. NothingNew(pre \o stack)
    BY <1>1, NewPush
  <1>3. ASSUME stack = <<>> PROVE NothingNew(pre)
    <2>1. Executing(stack) = {}
      BY <1>3 DEF Executing
    <2>2. OneRetrier(pre)
      BY DEF Calm, Busy, OneRetrier, Range
    <2> QED  BY <2>1, <2>2 DEF Calm, NothingNew, RetrierStays
  <1>4. stack # <<>> /\ Top.fn # "requeue" => NothingNew(Rest) /\ NothingNew(pre \o Rest)
    BY <1>1, RestProperties, NewPush
  <1> QED  BY <1>1, <1>2, <1>3, <1>4

\* What is taken stays taken while nothing is added to it.
LEMMA TakenKept ==
    ASSUME RequestInv, RetrierStays(stack'), resend' \subseteq resend
    PROVE  RetriesTaken'
  BY DEF RequestInv, RetriesTaken, RetrierStays

\* A frame that holds a request holds one that is held.
LEMMA HeldFrame ==
    ASSUME NEW t \in Seq(FrameType), NEW f \in Range(t)
    PROVE  /\ f \in FrameType
           /\ Held(f) => f.req \in HeldBy(t) /\ f.req \in Req
  <1>1. f \in FrameType
    BY RangeOfSeq
  <1>2. PICK k \in DOMAIN t : t[k] = f
    BY DEF Range
  <1>3. Held(f) => f.req \in HeldBy(t)
    BY <1>2 DEF HeldBy
  <1> QED  BY <1>1, <1>3 DEF FrameType, ReqOrNone

-----------------------------------------------------------------------------
(* Requests a step does not concern.                                       *)

Aside(s) ==
    /\ prof'[s] = prof[s] /\ status'[s] = status[s]
    /\ id'[s] = id[s] /\ current_id'[s] = current_id[s]
    /\ s \in Range(send_queue') <=> s \in Range(send_queue)
    /\ s \in retry' \cup resend' <=> s \in retry \cup resend
    /\ \A i \in Ids : req_table'[i] = s <=> req_table[i] = s
    /\ send_req' = s => send_req = s
    /\ tx' # None /\ tx'.req = s => tx # None /\ tx.req = s
    /\ deadline'[s] => deadline[s]
    /\ replies'[s] = replies[s]

\* Such a request stays where it was.
LEMMA AsidePlaced ==
    ASSUME RequestInv, NEW s \in Req, Aside(s)
    PROVE  /\ Known(s)' <=> Known(s)
           /\ Untimed(s)' <=> Untimed(s)
           /\ OwnIds(s)' = OwnIds(s)
           /\ (Known(s) /\ Untimed(s) => Placed(s))'
           /\ (~Known(s) => send_req # s /\ (tx # None => tx.req # s) /\ replies[s] = 0)'
  <1>1. /\ Known(s)' <=> Known(s)
        /\ Untimed(s)' <=> Untimed(s)
        /\ OwnIds(s)' = OwnIds(s)
        /\ Live(s)' <=> Live(s)
    BY DEF Aside, Known, Untimed, Timed, OwnIds, Live
  <1>2. ASSUME Known(s), Untimed(s) PROVE Placed(s)'
    <2>1. Placed(s)
      BY <1>2 DEF RequestInv
    <2>2. OwnIds(s) \subseteq Ids
      BY <1>2 DEF RequestInv, IdsGiven, ListInv, TypeOK, TableTypeOK, Ids
    <2>3. /\ s \in Range(send_queue') <=> status'[s] = "QUEUED"
          /\ s \in retry' \cup resend' <=> status'[s] = "RETRY"
      BY <2>1 DEF Placed, Aside
    <2>4. status'[s] \in {"QUEUED", "SENDING", "SENT"} =>
            \A i \in OwnIds(s)' : req_table'[i] = s
      BY <1>1, <2>1, <2>2 DEF Placed, Aside
    <2>5. status'[s] \in {"RETRY", "DONE", "CANCELLED"} =>
            \A i \in Ids : req_table'[i] # s
      BY <2>1 DEF Placed, Aside
    <2>6. /\ send_req' = s => status'[s] \in {"SENDING", "CANCELLED"}
          /\ tx' # None /\ tx'.req = s => status'[s] \in {"SENDING", "CANCELLED"}
          /\ deadline'[s] => status'[s] \in {"RETRY", "CANCELLED"}
      BY <2>1 DEF Placed, Aside
    <2>7. Live(s)' => replies'[s] = 0
      BY <1>1, <2>1 DEF Placed, Aside
    <2> QED  BY <2>3, <2>4, <2>5, <2>6, <2>7 DEF Placed
  <1>3. ~Known(s) => send_req' # s /\ (tx' # None => tx'.req # s) /\ replies'[s] = 0
    BY DEF Aside, RequestInv, NewUnknown
  <1> QED  BY <1>1, <1>2, <1>3

\* What a frame says of requests remains true if it remains true of the one request r
\* the step is about.
LEMMA FrameKept ==
    ASSUME RequestInv, NEW r, \A s \in Req \ {r} : Aside(s),
           last_req_id \in Nat, last_req_id' \in Nat, last_req_id' >= last_req_id,
           NEW f \in FrameType, FrameOK(f),
           f.fn \in {"submit", "expire_one"} /\ f.req = r =>
             /\ prof'[r] = prof[r]
             /\ f.fn = "submit" /\ Untimed(r) =>
                  status'[r] \in {"SENDING", "CANCELLED"} /\ (tx' # None => tx'.req # r),
           f.fn = "cancel_table" /\ r \in Req /\ Untimed(r)' /\ status'[r] \in {"QUEUED", "RETRY"}
             => \A i \in f.ids : i \notin OwnIds(r)'
    PROVE  FrameOK(f)'
  <1>1. Held(f) => f.req \in Req
    BY DEF FrameType, ReqOrNone
  <1>2. ASSUME NEW s \in Req \ {r}
        PROVE  /\ Timed(s)' <=> Timed(s)
               /\ OwnIds(s)' = OwnIds(s) /\ status'[s] = status[s]
               /\ tx' # None /\ tx'.req = s => tx # None /\ tx.req = s
    BY <1>2, AsidePlaced DEF Aside, Untimed
  <1>3. f.fn = "expire_one" => Timed(f.req)'
    BY <1>1, <1>2 DEF FrameOK, Held, Timed
  <1>4. ASSUME f.fn = "submit", Untimed(f.req)'
        PROVE  status'[f.req] \in {"SENDING", "CANCELLED"} /\ (tx' # None => tx'.req # f.req)
    <2>1. CASE f.req = r
      BY <1>4, <2>1 DEF Untimed, Timed
    <2>2. CASE f.req # r
      BY <1>1, <1>2, <1>4, <2>2 DEF FrameOK, Held, Untimed
    <2> QED  BY <2>1, <2>2
  <1>5. ASSUME f.fn = "cancel_table", NEW i \in f.ids
        PROVE  /\ i <= last_req_id'
               /\ \A s \in Req : Untimed(s)' /\ status'[s] \in {"QUEUED", "RETRY"}
                                   => i \notin OwnIds(s)'
    <2>1. i \in Int /\ i <= last_req_id
      BY <1>5 DEF FrameType, FrameOK, Ids
    <2>2. ASSUME NEW s \in Req, s # r, Untimed(s)', status'[s] \in {"QUEUED", "RETRY"}
          PROVE  i \notin OwnIds(s)'
      BY <1>2, <1>5, <2>2 DEF FrameOK, Untimed
    <2> QED  BY <1>5, <2>1, <2>2
  <1> QED  BY <1>3, <1>4, <1>5 DEF FrameOK

-----------------------------------------------------------------------------
(* The kinds of steps there are.                                           *)

\* Nothing happens to any request.
Still ==
    /\ UNCHANGED <<prof, status, id, current_id, last_req_id, replies, req_table,
                   send_queue, send_req>>
    /\ retry' \cup resend' = retry \cup resend
    /\ \A r \in Req : deadline'[r] => deadline[r]
    /\ tx' \in {tx, None}
    /\ \A r \in expired' : Timed(r)

\* Such a step keeps RequestInv, if what it calls is called rightly.
LEMMA StillKeeps ==
    ASSUME RequestInv, ListInv', RetriesTaken', Still,
           \A f \in Range(stack') : f \in Range(stack) \/ FrameOK(f)
    PROVE  RequestInv' /\ LifeStep
  <1>1. \A s \in Req : Aside(s)
    BY DEF Still, Aside
  <1>2. ASSUME NEW f \in Range(stack') PROVE FrameOK(f)'
    <2>1. f \in FrameType
      BY HeldFrame DEF ListInv, TypeOK, StackTypeOK
    <2>2. FrameOK(f)
      BY DEF RequestInv
    <2>3. last_req_id \in Nat /\ last_req_id' = last_req_id
      BY DEF Still, RequestInv, ListInv, TypeOK, TableTypeOK
    <2>4. f.fn \in {"submit", "expire_one"} => f.req # None
      BY <2>1 DEF FrameType, Held
    <2>5. None \notin Req
      OBVIOUS
    <2> QED  BY <1>1, <2>1, <2>2, <2>3, <2>4, <2>5, FrameKept
  <1>3. \A s \in Req : /\ Known(s)' <=> Known(s)
                       /\ OwnIds(s)' = OwnIds(s)
                       /\ (Known(s) /\ Untimed(s) => Placed(s))'
                       /\ (~Known(s) => send_req # s /\ (tx # None => tx.req # s) /\ replies[s] = 0)'
    BY <1>1, AsidePlaced
  <1>4. IdsGiven' /\ IdsApart' /\ NewUnknown'
    BY <1>3 DEF RequestInv, IdsGiven, IdsApart, NewUnknown, Still
  <1>5. \A r \in expired' : Timed(r)'
    BY DEF Still, Timed
  <1>6. LifeStep
    BY DEF Still, LifeStep
  <1> QED  BY <1>2, <1>3, <1>4, <1>5, <1>6 DEF RequestInv

\* So does a step that also calls nothing that knows of requests.
LEMMA StillCalm ==
    ASSUME RequestInv, ListInv', Still, NothingNew(stack'), resend' \subseteq resend
    PROVE  RequestInv' /\ LifeStep
  <1>1. \A f \in Range(stack') : f \in Range(stack) \/ FrameOK(f)
    BY DEF NothingNew, FrameOK, Busy
  <1> QED  BY <1>1, TakenKept, StillKeeps DEF NothingNew

\* A step about one request that has its ids already keeps RequestInv if that request is
\* where it belongs afterwards and the functions know.
LEMMA OneMoves ==
    ASSUME RequestInv, ListInv', RetriesTaken', NEW r \in Req, Known(r), Known(r)',
           UNCHANGED <<prof, id, current_id, last_req_id>>,
           \A s \in Req \ {r} : Aside(s),
           Untimed(r) => Placed(r)',
           expired' \subseteq expired,
           \A f \in Range(stack') : f \in Range(stack) \/ FrameOK(f)',
           \A f \in Range(stack') \cap Range(stack) :
             Untimed(r) =>
               /\ f.fn = "submit" /\ f.req = r =>
                    status'[r] \in {"SENDING", "CANCELLED"} /\ (tx' # None => tx'.req # r)
               /\ f.fn = "cancel_table" /\ status'[r] \in {"QUEUED", "RETRY"} =>
                    \A i \in f.ids : i \notin OwnIds(r)
    PROVE  RequestInv'
  <1>1. Untimed(r)' <=> Untimed(r)
    BY DEF Untimed, Timed
  <1>2. OwnIds(r)' = OwnIds(r)
    BY DEF OwnIds
  <1>3. ASSUME NEW f \in Range(stack') PROVE FrameOK(f)'
    <2>1. f \in FrameType
      BY HeldFrame DEF ListInv, TypeOK, StackTypeOK
    <2>2. last_req_id \in Nat /\ last_req_id' = last_req_id
      BY DEF RequestInv, ListInv, TypeOK, TableTypeOK
    <2>3. CASE f \in Range(stack)
      <3>1. FrameOK(f)
        BY <2>3 DEF RequestInv
      <3>2. /\ f.fn = "submit" /\ f.req = r /\ Untimed(r) =>
                 status'[r] \in {"SENDING", "CANCELLED"} /\ (tx' # None => tx'.req # r)
            /\ f.fn = "cancel_table" /\ Untimed(r) /\ status'[r] \in {"QUEUED", "RETRY"} =>
                 \A i \in f.ids : i \notin OwnIds(r)
        BY <2>3
      <3> QED  BY <1>1, <1>2, <2>1, <2>2, <3>1, <3>2, FrameKept
    <2> QED  BY <2>3
  <1>4. \A s \in Req \ {r} :
           /\ Known(s)' <=> Known(s)
           /\ OwnIds(s)' = OwnIds(s)
           /\ (Known(s) /\ Untimed(s) => Placed(s))'
           /\ (~Known(s) => send_req # s /\ (tx # None => tx.req # s) /\ replies[s] = 0)'
    BY AsidePlaced
  <1>5. IdsGiven' /\ IdsApart'
    BY <1>2, <1>4 DEF RequestInv, IdsGiven, IdsApart
  <1>6. NewUnknown'
    BY <1>4 DEF NewUnknown
  <1>7. \A s \in Req : (Known(s) /\ Untimed(s) => Placed(s))'
    BY <1>1, <1>4
  <1>8. \A s \in expired' : Timed(s)'
    BY DEF RequestInv, Timed
  <1> QED  BY <1>3, <1>5, <1>6, <1>7, <1>8 DEF RequestInv

\* The keys of two requests never meet, so taking one off the table leaves the other.
LEMMA TableKeepsOthers ==
    ASSUME RequestInv, NEW r \in Req, Known(r), req_table' = TableWithout(r)
    PROVE  /\ \A s \in Req \ {r}, i \in Ids : req_table'[i] = s <=> req_table[i] = s
           /\ \A i \in Ids : req_table'[i] # r
  <1>1. ASSUME NEW i \in Ids
        PROVE  req_table'[i] = IF i = id[r] \/ i = current_id[r] THEN None ELSE req_table[i]
    BY DEF TableWithout
  <1>2. ASSUME NEW s \in Req, NEW i \in Ids, req_table[i] = s
        PROVE  Known(s) /\ i \in OwnIds(s)
    <2>1. Known(s)
      BY <1>2 DEF RequestInv, ListInv, NewIsNowhere, Known
    <2>2. i \in OwnIds(s)
      BY <1>2 DEF RequestInv, ListInv, TableKeys, OwnIds
    <2> QED  BY <2>1, <2>2
  <1>3. ASSUME NEW s \in Req \ {r}, NEW i \in Ids
        PROVE  req_table'[i] = s <=> req_table[i] = s
    <2>1. CASE i \in OwnIds(r)
      <3>1. req_table'[i] = None
        BY <1>1, <2>1 DEF OwnIds
      <3>2. req_table[i] # s
        BY <1>2, <2>1 DEF RequestInv, IdsApart
      <3> QED  BY <3>1, <3>2
    <2>2. CASE i \notin OwnIds(r)
      BY <1>1, <2>2 DEF OwnIds
    <2> QED  BY <2>1, <2>2
  <1>4. ASSUME NEW i \in Ids PROVE req_table'[i] # r
    BY <1>1, <1>2 DEF OwnIds
  <1> QED  BY <1>3, <1>4

\* The end of a request: it has been answered, or it is cancelled.
LEMMA SettleThen ==
    ASSUME RequestInv, ListInv', NEW r \in Req, NEW final \in {"DONE", "CANCELLED"},
           Complete(r, final), Known(r),
           Untimed(r) => Live(r) /\ (final = "DONE" => status[r] = "SENT"),
           replies' \in {replies, Replied(r)},
           UNCHANGED <<prof, id, current_id, last_req_id, deadline, send_req, tx, expired>>,
           \A s \in Req \ {r} : /\ s \in Range(send_queue') <=> s \in Range(send_queue)
                                /\ s \in retry' \cup resend' <=> s \in retry \cup resend,
           Untimed(r) => r \notin Range(send_queue') \cup retry' \cup resend',
           resend' \subseteq resend, RetrierStays(stack'),
           \A f \in Range(stack') : f \in Range(stack) \/ FrameOK(f)'
    PROVE  RequestInv' /\ LifeStep
  <1>1. status \in [Req -> Statuses] /\ replies \in [Req -> 0 .. 2]
    BY DEF RequestInv, ListInv, TypeOK, RequestTypeOK, EnvTypeOK
  <1>2. status' = [status EXCEPT ![r] = final] /\ req_table' = TableWithout(r)
    BY DEF Complete, RemoveRequest
  <1>3. \A s \in Req \ {r} : status'[s] = status[s] /\ replies'[s] = replies[s]
    BY <1>1, <1>2 DEF Replied
  <1>4. status'[r] = final
    BY <1>1, <1>2
  <1>5. \A s \in Req \ {r} : Aside(s)
    BY <1>2, <1>3, TableKeepsOthers DEF Aside
  <1>6. ASSUME Untimed(r)
        PROVE  /\ Placed(r)'
               /\ \A f \in Range(stack) : f.fn = "submit" /\ f.req = r =>
                    status'[r] \in {"SENDING", "CANCELLED"} /\ (tx' # None => tx'.req # r)
    <2>1. Placed(r)
      BY <1>6 DEF RequestInv
    <2>2. \A i \in Ids : req_table'[i] # r
      BY <1>2, TableKeepsOthers
    <2>3. send_req' = r \/ (tx' # None /\ tx'.req = r) => final = "CANCELLED"
      BY <1>6, <2>1 DEF Placed
    <2>4. deadline'[r] => final = "CANCELLED"
      BY <1>6, <2>1 DEF Placed
    <2>5. Placed(r)'
      BY <1>4, <1>6, <2>2, <2>3, <2>4 DEF Placed, Live
    <2>6. ASSUME NEW f \in Range(stack), f.fn = "submit", f.req = r
          PROVE  status'[r] \in {"SENDING", "CANCELLED"} /\ (tx' # None => tx'.req # r)
      <3>1. status[r] \in {"SENDING", "CANCELLED"} /\ (tx # None => tx.req # r)
        BY <1>6, <2>6 DEF RequestInv, FrameOK
      <3> QED  BY <1>4, <1>6, <3>1
    <2> QED  BY <2>5, <2>6
  <1>7. Known(r)' /\ status'[r] \notin {"QUEUED", "RETRY"}
    BY <1>4 DEF Known
  <1>8. RequestInv'
    BY <1>5, <1>6, <1>7, TakenKept, OneMoves
  <1>9. LifeStep
    <2>1. Untimed(r) => Live(r) /\ replies[r] = 0
      BY DEF RequestInv, Placed
    <2>2. Untimed(r)' <=> Untimed(r)
      BY DEF Untimed, Timed
    <2>3. final = "DONE" /\ Untimed(r) => <<status[r], final>> \in Transitions
      BY DEF Transitions
    <2>4. Moves(r, final)
      BY <1>2, <2>1, <2>2, <2>3 DEF Moves
    <2> QED  BY <2>4 DEF LifeStep, Statuses
  <1> QED  BY <1>8, <1>9

\* Usually it calls nothing that knows of a request.
LEMMA SettleKeeps ==
    ASSUME RequestInv, ListInv', NEW r \in Req, NEW final \in {"DONE", "CANCELLED"},
           Complete(r, final), Known(r),
           Untimed(r) => Live(r) /\ (final = "DONE" => status[r] = "SENT"),
           replies' \in {replies, Replied(r)},
           UNCHANGED <<prof, id, current_id, last_req_id, deadline, send_req, tx, expired>>,
           \A s \in Req \ {r} : /\ s \in Range(send_queue') <=> s \in Range(send_queue)
                                /\ s \in retry' \cup resend' <=> s \in retry \cup resend,
           Untimed(r) => r \notin Range(send_queue') \cup retry' \cup resend',
           resend' \subseteq resend, NothingNew(stack')
    PROVE  RequestInv' /\ LifeStep
  <1>1. RetrierStays(stack') /\ \A f \in Range(stack') : f \in Range(stack) \/ FrameOK(f)'
    BY DEF NothingNew, FrameOK, Busy
  <1> QED  BY <1>1, SettleThen

\* A request is to be tried again, later.
LEMMA RetryKeeps ==
    ASSUME RequestInv, ListInv', NEW r \in Req, ScheduleRetry(r), Known(r),
           Untimed(r) => /\ status[r] = "SENT"
                         /\ \A f \in Range(stack') : f.fn # "cancel_table",
           UNCHANGED <<prof, id, current_id, last_req_id, send_req, tx, expired, resend,
                       send_queue, replies>>,
           NothingNew(stack')
    PROVE  RequestInv' /\ LifeStep
  <1>1. status \in [Req -> Statuses] /\ deadline \in [Req -> BOOLEAN]
    BY DEF RequestInv, ListInv, TypeOK, RequestTypeOK
  <1>2. /\ status' = [status EXCEPT ![r] = "RETRY"] /\ req_table' = TableWithout(r)
        /\ deadline' = [deadline EXCEPT ![r] = TRUE] /\ retry' = retry \cup {r}
    BY DEF ScheduleRetry
  <1>3. /\ \A s \in Req \ {r} : status'[s] = status[s] /\ deadline'[s] = deadline[s]
        /\ status'[r] = "RETRY"
    BY <1>1, <1>2
  <1>4. \A s \in Req \ {r} : Aside(s)
    BY <1>2, <1>3, TableKeepsOthers DEF Aside
  <1>5. ASSUME Untimed(r)
        PROVE  /\ Placed(r)'
               /\ \A f \in Range(stack) : ~(f.fn = "submit" /\ f.req = r)
    <2>1. Placed(r)
      BY <1>5 DEF RequestInv
    <2>2. \A i \in Ids : req_table'[i] # r
      BY <1>2, TableKeepsOthers
    <2>3. Placed(r)'
      BY <1>2, <1>3, <1>5, <2>1, <2>2 DEF Placed, Live
    <2>4. \A f \in Range(stack) : ~(f.fn = "submit" /\ f.req = r)
      BY <1>5 DEF RequestInv, FrameOK
    <2> QED  BY <2>3, <2>4
  <1>6. \A f \in Range(stack') : f \in Range(stack) \/ FrameOK(f)'
    BY DEF NothingNew, FrameOK, Busy
  <1>7. Known(r)'
    BY <1>3 DEF Known
  <1>8. RequestInv'
    BY <1>4, <1>5, <1>6, <1>7, TakenKept, OneMoves DEF NothingNew
  <1>9. LifeStep
    <2>1. Untimed(r)' <=> Untimed(r)
      BY DEF Untimed, Timed
    <2>2. Moves(r, "RETRY")
      BY <1>2, <2>1 DEF Moves, Transitions
    <2> QED  BY <2>2 DEF LifeStep, Statuses
  <1> QED  BY <1>8, <1>9

\* A request is submitted, or is sent to the queue again.
LEMMA EnqueueKeeps ==
    ASSUME RequestInv, ListInv', NEW r \in Req, NEW i \in Ids,
           last_req_id' = i, FreshStep,
           r \notin Range(send_queue) \cup HeldBy(stack) \cup expired,
           status' = [status EXCEPT ![r] = "QUEUED"],
           send_queue' = Append(send_queue, r),
           current_id'[r] = i, id'[r] = i \/ (Known(r) /\ id'[r] = id[r]),
           Known(r) => prof'[r] = prof[r],
           Known(r) /\ Untimed(r) => status[r] = "RETRY",
           \A s \in Req \ {r} :
             /\ prof'[s] = prof[s] /\ id'[s] = id[s] /\ current_id'[s] = current_id[s]
             /\ deadline'[s] => deadline[s]
             /\ s \in retry' \cup resend' <=> s \in retry \cup resend,
           ~deadline'[r], r \notin retry' \cup resend',
           \A j \in Ids : req_table'[j] = IF j \in {id'[r], current_id'[r]} THEN r
                                          ELSE req_table[j],
           UNCHANGED <<send_req, tx, replies, expired>>,
           resend' \subseteq resend, NothingNew(stack')
    PROVE  RequestInv' /\ LifeStep
  <1>1. /\ status \in [Req -> Statuses] /\ send_queue \in Seq(Req)
        /\ last_req_id \in 0 .. IdMax /\ stack \in Seq(FrameType) /\ stack' \in Seq(FrameType)
    BY DEF RequestInv, ListInv, TypeOK, RequestTypeOK, SendTypeOK, TableTypeOK, StackTypeOK
  <1>2. i \in Nat /\ last_req_id \in Nat /\ i > last_req_id
    <2>1. Len(send_queue') > Len(send_queue)
      BY <1>1
    <2> QED  BY <1>1, <2>1 DEF FreshStep, Ids
  <1>3. IsInjective(send_queue)
    BY DEF RequestInv, ListInv, ListIntegrity
  <1>4. Range(send_queue') = Range(send_queue) \cup {r}
    BY <1>1, <1>3, AppendInjection
  <1>5. /\ \A s \in Req \ {r} : status'[s] = status[s]
        /\ status'[r] = "QUEUED"
    BY <1>1
  <1>6. \A s \in Req : Known(s) => i \notin OwnIds(s)
    BY <1>2 DEF RequestInv, IdsGiven
  <1>7. ASSUME NEW s \in Req \ {r}, NEW j \in Ids
        PROVE  req_table'[j] = s <=> req_table[j] = s
    <2>1. CASE req_table[j] # s
      BY <1>7, <2>1
    <2>2. CASE req_table[j] = s
      <3>1. Known(s) /\ j \in OwnIds(s)
        BY <2>2 DEF RequestInv, ListInv, NewIsNowhere, TableKeys, Known, OwnIds
      <3>2. j # i
        BY <1>6, <3>1
      <3>3. Known(r) => j # id[r]
        BY <3>1 DEF RequestInv, IdsApart, OwnIds
      <3> QED  BY <2>2, <3>2, <3>3
    <2> QED  BY <2>1, <2>2
  <1>8. \A s \in Req \ {r} : Aside(s)
    BY <1>4, <1>5, <1>7 DEF Aside
  <1>9. Known(r) => (Untimed(r)' <=> Untimed(r))
    BY DEF Untimed, Timed
  <1>10. OwnIds(r)' \subseteq {i} \cup (IF Known(r) THEN OwnIds(r) ELSE {})
    BY DEF OwnIds
  <1>11. ASSUME NEW f \in Range(stack') PROVE FrameOK(f)'
    <2>1. CASE f \in Range(stack)
      <3>1. /\ f \in FrameType /\ FrameOK(f)
            /\ Held(f) => f.req \in HeldBy(stack)
        BY <1>1, <2>1, HeldFrame DEF RequestInv
      <3>2. f.fn \in {"submit", "expire_one"} => f.req # r
        BY <3>1 DEF Held
      <3>3. ASSUME f.fn = "cancel_table", Untimed(r)'
            PROVE  \A j \in f.ids : j \notin OwnIds(r)'
        <4>1. \A j \in f.ids : j # i
          BY <1>2, <3>1, <3>3 DEF FrameOK, FrameType, Ids
        <4>2. Known(r) => \A j \in f.ids : j \notin OwnIds(r)
          BY <1>9, <3>1, <3>3 DEF FrameOK
        <4> QED  BY <1>10, <4>1, <4>2
      <3> QED  BY <1>2, <1>8, <3>1, <3>2, <3>3, FrameKept
    <2>2. CASE f.fn \notin Busy
      BY <2>2 DEF FrameOK, Busy
    <2> QED  BY <2>1, <2>2 DEF NothingNew
  <1>12. \A s \in Req \ {r} :
           /\ Known(s)' <=> Known(s)
           /\ OwnIds(s)' = OwnIds(s)
           /\ (Known(s) /\ Untimed(s) => Placed(s))'
           /\ (~Known(s) => send_req # s /\ (tx # None => tx.req # s) /\ replies[s] = 0)'
    BY <1>8, AsidePlaced
  <1>13. Known(r)'
    BY <1>5 DEF Known
  <1>14. IdsGiven' /\ IdsApart'
    <2>1. IdsGiven'
      <3> SUFFICES ASSUME NEW s \in Req, Known(s)' PROVE OwnIds(s)' \subseteq 1 .. i
        BY DEF IdsGiven
      <3>1. Known(s) => OwnIds(s) \subseteq 1 .. i
        BY <1>2 DEF RequestInv, IdsGiven
      <3>2. i \in 1 .. i
        BY DEF Ids
      <3> QED  BY <1>10, <1>12, <3>1, <3>2
    <2>2. ASSUME NEW s \in Req \ {r}, Known(s) PROVE OwnIds(s) \cap OwnIds(r)' = {}
      BY <1>6, <1>10, <2>2 DEF RequestInv, IdsApart
    <2>3. IdsApart'
      BY <1>12, <2>2 DEF RequestInv, IdsApart
    <2> QED  BY <2>1, <2>3
  <1>15. ASSUME Untimed(r)' PROVE Placed(r)' /\ status[r] \in {"NEW", "RETRY"}
    <2>1. status[r] \in {"NEW", "RETRY"}
      BY <1>9, <1>15 DEF Known
    <2>2. send_req # r /\ (tx # None => tx.req # r) /\ replies[r] = 0
      <3>1. CASE Known(r)
        BY <1>9, <1>15, <2>1, <3>1 DEF RequestInv, Placed, Live
      <3>2. CASE ~Known(r)
        BY <3>2 DEF RequestInv, NewUnknown
      <3> QED  BY <3>1, <3>2
    <2>3. OwnIds(r)' \subseteq Ids
      <3>1. Known(r) => OwnIds(r) \subseteq Ids
        BY <1>1 DEF RequestInv, IdsGiven, Ids
      <3> QED  BY <1>10, <3>1
    <2>4. \A j \in OwnIds(r)' : req_table'[j] = r
      BY <2>3 DEF OwnIds
    <2> QED  BY <1>4, <1>5, <2>1, <2>2, <2>4 DEF Placed, Live
  <1>16. RequestInv'
    <2>1. NewUnknown'
      BY <1>12, <1>13 DEF NewUnknown
    <2>2. \A s \in Req : (Known(s) /\ Untimed(s) => Placed(s))'
      BY <1>12, <1>15
    <2>3. expired \subseteq Req /\ \A s \in expired : Timed(s)
      BY DEF RequestInv, ListInv, TypeOK, SendTypeOK
    <2>4. \A s \in expired' : Timed(s)'
      BY <2>3 DEF Timed
    <2>5. RetriesTaken'
      BY TakenKept DEF NothingNew
    <2> QED  BY <1>11, <1>14, <2>1, <2>2, <2>4, <2>5 DEF RequestInv
  <1>17. LifeStep
    <2>1. Moves(r, "QUEUED")
      BY <1>15 DEF Moves, Transitions
    <2> QED  BY <2>1 DEF LifeStep, Statuses
  <1> QED  BY <1>16, <1>17

-----------------------------------------------------------------------------
(* Requests come into the send queue.                                      *)

\* grilio_channel_send_request_full keeps RequestInv.
LEMMA SendThroughKeeps ==
    ASSUME RequestInv, FreshStep, NEW r \in Req, NEW p \in Profiles, NEW q \in Queue \cup {None},
           SendThrough(r, p, q)
    PROVE  RequestInv' /\ LifeStep
  <1>1. PICK i \in Ids : /\ id' = [id EXCEPT ![r] = i]
                         /\ current_id' = [current_id EXCEPT ![r] = i]
                         /\ req_table' = [req_table EXCEPT ![i] = r]
                         /\ last_req_id' = i
    BY DEF SendThrough
  <1>2. /\ status[r] = "NEW"
        /\ send_queue' = Append(send_queue, r)
        /\ status' = [status EXCEPT ![r] = "QUEUED"]
        /\ prof' = [prof EXCEPT ![r] = p]
        /\ stack' = <<Write>> \o stack
        /\ UNCHANGED <<deadline, retry, resend, expired, send_req, tx, replies>>
    BY DEF SendThrough, tmoVars, envVars
  <1>3. ListInv' /\ ListInv
    BY SendThroughSound DEF RequestInv
  <1>4. /\ id \in [Req -> 0 .. IdMax] /\ current_id \in [Req -> 0 .. IdMax]
        /\ req_table \in [Ids -> ReqOrNone] /\ prof \in [Req -> Profiles \cup {AckProfile}]
    BY <1>3 DEF ListInv, TypeOK, RequestTypeOK, TableTypeOK
  <1>5. /\ r \notin Range(send_queue) \cup HeldBy(stack) \cup expired
        /\ r \notin retry' \cup resend' /\ ~deadline'[r]
    BY <1>2, <1>3, NewFree
  <1>6. NothingNew(stack')
    BY <1>2, <1>3, CalmCalls, NewCalls
  <1>7. ~Known(r)
    BY <1>2 DEF Known
  <1>8. \A s \in Req \ {r} :
             /\ prof'[s] = prof[s] /\ id'[s] = id[s] /\ current_id'[s] = current_id[s]
             /\ deadline'[s] => deadline[s]
             /\ s \in retry' \cup resend' <=> s \in retry \cup resend
    BY <1>1, <1>2, <1>4
  <1>9. current_id'[r] = i /\ id'[r] = i
    BY <1>1, <1>4
  <1>10. \A j \in Ids : req_table'[j] = IF j \in {id'[r], current_id'[r]} THEN r
                                        ELSE req_table[j]
    BY <1>1, <1>4, <1>9
  <1>11. /\ Known(r) => prof'[r] = prof[r]
         /\ Known(r) /\ Untimed(r) => status[r] = "RETRY"
    BY <1>7, <1>9
  <1>12. r \notin Range(send_queue) \cup HeldBy(stack) \cup expired
    BY <1>5
  <1>13. UNCHANGED <<send_req, tx, replies, expired>>
    BY <1>2
  <1>14. ~deadline'[r] /\ r \notin retry' \cup resend'
    BY <1>5
  <1>15. /\ last_req_id' = i /\ send_queue' = Append(send_queue, r)
         /\ status' = [status EXCEPT ![r] = "QUEUED"]
    BY <1>1, <1>2
  <1>16. resend' \subseteq resend
    BY <1>2
  <1> QED
    BY <1>3, <1>6, <1>8, <1>9, <1>10, <1>11, <1>12, <1>13, <1>14, <1>15, <1>16,
       EnqueueKeeps

\* So does grilio_channel_queue_ack, whose request is one of the channel's own.
LEMMA QueueAckKeeps ==
    ASSUME RequestInv, FreshStep, ListInv', NEW a \in Req, QueueAck(a),
           UNCHANGED <<resend, expired, tx, replies>>, NothingNew(stack')
    PROVE  RequestInv' /\ LifeStep
  <1>1. PICK i \in Ids : /\ id' = [id EXCEPT ![a] = i]
                         /\ current_id' = [current_id EXCEPT ![a] = i]
                         /\ req_table' = [req_table EXCEPT ![i] = a]
                         /\ last_req_id' = i
    BY DEF QueueAck
  <1>2. /\ status[a] = "NEW"
        /\ send_queue' = Append(send_queue, a)
        /\ status' = [status EXCEPT ![a] = "QUEUED"]
        /\ prof' = [prof EXCEPT ![a] = AckProfile]
        /\ UNCHANGED <<deadline, retry, send_req>>
    BY DEF QueueAck
  <1>3. ListInv
    BY DEF RequestInv
  <1>4. /\ id \in [Req -> 0 .. IdMax] /\ current_id \in [Req -> 0 .. IdMax]
        /\ req_table \in [Ids -> ReqOrNone] /\ prof \in [Req -> Profiles \cup {AckProfile}]
    BY <1>3 DEF ListInv, TypeOK, RequestTypeOK, TableTypeOK
  <1>5. /\ a \notin Range(send_queue) \cup HeldBy(stack) \cup expired
        /\ a \notin retry' \cup resend' /\ ~deadline'[a]
    BY <1>2, <1>3, NewFree
  <1>6. ~Known(a)
    BY <1>2 DEF Known
  <1>7. \A s \in Req \ {a} :
             /\ prof'[s] = prof[s] /\ id'[s] = id[s] /\ current_id'[s] = current_id[s]
             /\ deadline'[s] => deadline[s]
             /\ s \in retry' \cup resend' <=> s \in retry \cup resend
    BY <1>1, <1>2, <1>4
  <1>8. current_id'[a] = i /\ id'[a] = i
    BY <1>1, <1>4
  <1>9. \A j \in Ids : req_table'[j] = IF j \in {id'[a], current_id'[a]} THEN a
                                       ELSE req_table[j]
    BY <1>1, <1>4, <1>8
  <1>10. /\ Known(a) => prof'[a] = prof[a]
         /\ Known(a) /\ Untimed(a) => status[a] = "RETRY"
    BY <1>6, <1>8
  <1>11. UNCHANGED <<send_req, tx, replies, expired>>
    BY <1>2
  <1>12. a \notin Range(send_queue) \cup HeldBy(stack) \cup expired
    BY <1>5
  <1>13. ~deadline'[a] /\ a \notin retry' \cup resend'
    BY <1>5
  <1>14. /\ last_req_id' = i /\ send_queue' = Append(send_queue, a)
         /\ status' = [status EXCEPT ![a] = "QUEUED"]
    BY <1>1, <1>2
  <1>15. resend' \subseteq resend
    OBVIOUS
  <1> QED
    BY <1>7, <1>8, <1>9, <1>10, <1>11, <1>12, <1>13, <1>14, <1>15, EnqueueKeeps

\* So does grilio_channel_requeue_request, which gives its request a new serial and
\* leaves it the id the caller has.
LEMMA RequeueKeeps ==
    ASSUME RequestInv, FreshStep, ListInv', NEW r \in retry \cup resend, Requeue(r),
           r \notin retry' \cup resend',
           \A s \in Req \ {r} : s \in retry' \cup resend' <=> s \in retry \cup resend,
           UNCHANGED <<prof, id, send_req, tx, replies, expired>>,
           resend' \subseteq resend, NothingNew(stack')
    PROVE  RequestInv' /\ LifeStep
  <1>1. PICK i \in Ids : /\ current_id' = [current_id EXCEPT ![r] = i]
                         /\ req_table' = [req_table EXCEPT ![id[r]] = r, ![i] = r]
                         /\ last_req_id' = i
    BY DEF Requeue
  <1>2. /\ send_queue' = Append(send_queue, r)
        /\ status' = [status EXCEPT ![r] = "QUEUED"]
        /\ deadline' = [deadline EXCEPT ![r] = FALSE]
    BY DEF Requeue
  <1>3. ListInv
    BY DEF RequestInv
  <1>4. /\ r \in Req /\ current_id \in [Req -> 0 .. IdMax]
        /\ req_table \in [Ids -> ReqOrNone] /\ deadline \in [Req -> BOOLEAN]
    BY <1>3 DEF ListInv, TypeOK, SendTypeOK, RequestTypeOK, TableTypeOK
  <1>5. r \notin Range(send_queue) \cup HeldBy(stack) \cup expired
    BY <1>3 DEF ListInv, ListIntegrity
  <1>6. Known(r) /\ (Untimed(r) => status[r] = "RETRY")
    <2>1. Known(r)
      BY <1>3, <1>4 DEF ListInv, NewIsNowhere, Known
    <2> QED  BY <1>4, <2>1 DEF RequestInv, Placed
  <1>7. \A s \in Req \ {r} :
             /\ prof'[s] = prof[s] /\ id'[s] = id[s] /\ current_id'[s] = current_id[s]
             /\ deadline'[s] => deadline[s]
    BY <1>1, <1>2, <1>4
  <1>8. current_id'[r] = i /\ id'[r] = id[r] /\ prof'[r] = prof[r] /\ ~deadline'[r]
    BY <1>1, <1>2, <1>4
  <1>9. \A j \in Ids : req_table'[j] = IF j \in {id'[r], current_id'[r]} THEN r
                                       ELSE req_table[j]
    BY <1>1, <1>4, <1>8
  <1> QED  BY <1>1, <1>2, <1>4, <1>5, <1>6, <1>7, <1>8, <1>9, EnqueueKeeps

\* grilio_channel_retry_request keeps RequestInv.
LEMMA RetryRequestKeeps ==
    ASSUME RequestInv, FreshStep, NEW i \in Ids, RetryRequest(i)
    PROVE  RequestInv' /\ LifeStep
  <1>1. PICK r \in retry : retry' = retry \ {r} /\ Requeue(r)
    BY DEF RetryRequest
  <1>2. ListInv /\ ListInv'
    BY RetryRequestSound DEF RequestInv
  <1>3. r \notin resend
    BY <1>2 DEF ListInv, ListIntegrity
  <1>4. UNCHANGED <<prof, id, send_req, tx, replies, expired, resend>>
    BY DEF RetryRequest, tmoVars, envVars
  <1>5. NothingNew(stack')
    BY <1>2, CalmCalls, CalmConcat, NewCalls DEF RetryRequest
  <1> QED  BY <1>1, <1>2, <1>3, <1>4, <1>5, RequeueKeeps

\* So does sending one due retry again.
LEMMA RequeueNextKeeps ==
    ASSUME RequestInv, FreshStep, RequeueNext
    PROVE  RequestInv' /\ LifeStep
  <1>1. PICK r \in resend : resend' = resend \ {r} /\ Requeue(r)
    BY DEF RequeueNext
  <1>2. ListInv /\ ListInv'
    BY RequeueNextSound DEF RequestInv
  <1>3. r \notin retry
    BY <1>2 DEF ListInv, ListIntegrity
  <1>4. UNCHANGED <<prof, id, send_req, tx, replies, expired, retry>>
    BY DEF RequeueNext, envVars
  <1>5. NothingNew(stack')
    BY <1>2, CalmCalls, NewCalls DEF RequeueNext
  <1> QED  BY <1>1, <1>2, <1>3, <1>4, <1>5, RequeueKeeps

\* handle_indication of an event to be acknowledged keeps RequestInv.
LEMMA IndicationKeeps ==
    ASSUME RequestInv, FreshStep, NEW a \in Req, Indication(a)
    PROVE  RequestInv' /\ LifeStep
  <1>1. ListInv'
    BY IndicationSound DEF RequestInv
  <1>2. QueueAck(a) /\ UNCHANGED <<resend, expired, tx, replies>>
    BY DEF Indication, tmoVars, envVars
  <1>3. NothingNew(stack')
    BY CalmCalls, CalmConcat, NewCalls DEF Indication, Idle, RequestInv
  <1> QED  BY <1>1, <1>2, <1>3, QueueAckKeeps

\* The arrival of a reply, perhaps with an acknowledgement queued, keeps RequestInv.
LEMMA ResponseKeeps ==
    ASSUME RequestInv, FreshStep, NEW i \in Ids, NEW a \in ReqOrNone, Response(i, a)
    PROVE  RequestInv' /\ LifeStep
  <1> DEFINE f == [Frame("response") EXCEPT !.ids = {i}]
  <1>1. ListInv' /\ ListInv
    BY ResponseSound DEF RequestInv
  <1>2. stack = <<>> /\ stack' = <<f>> /\ UNCHANGED <<expired, resend, tx, replies>>
    BY DEF Response, Idle, tmoVars
  <1>3. NothingNew(stack')
    <2>1. f \in FrameType /\ f.fn = "response"
      BY FrameTyped DEF Frame, Functions
    <2> HIDE DEF f
    <2>2. Calm(<<f>>)
      BY <2>1, CalmFrame DEF Busy, Retrier
    <2> QED  BY <1>1, <1>2, <2>2, NewCalls
  <1> HIDE DEF f
  <1>4. CASE a # None /\ QueueAck(a)
    BY <1>1, <1>2, <1>3, <1>4, QueueAckKeeps DEF ReqOrNone
  <1>5. CASE UNCHANGED <<reqVars, sendVars, tabVars>>
    <2>1. Still
      BY <1>2, <1>5 DEF Still, reqVars, sendVars, tabVars, RequestInv
    <2> QED  BY <1>1, <1>2, <1>3, <2>1, StillCalm
  <1> QED  BY <1>4, <1>5 DEF Response

-----------------------------------------------------------------------------
(* Sending.                                                                *)

\* dequeue_request keeps RequestInv: what it takes is in nobody else's hands.
LEMMA DequeueKeeps ==
    ASSUME RequestInv, Dequeue PROVE RequestInv' /\ LifeStep
  <1>1. PICK k \in DequeueIdx : Dequeue!3!(k)!2
    BY DEF Dequeue
  <1>2. ListInv /\ ListInv' /\ Running("schedule_write") /\ send_req = None
    BY DequeueSound DEF RequestInv, Dequeue, CanSend
  <1>3. /\ send_queue \in Seq(Req) /\ IsInjective(send_queue) /\ k \in DOMAIN send_queue
        /\ stack \in Seq(FrameType) /\ status \in [Req -> Statuses]
    <2>1. /\ send_queue \in Seq(Req) /\ IsInjective(send_queue)
          /\ stack \in Seq(FrameType) /\ status \in [Req -> Statuses]
      BY <1>2 DEF ListInv, TypeOK, SendTypeOK, RequestTypeOK, StackTypeOK, ListIntegrity
    <2>2. k \in DOMAIN send_queue
      BY <2>1 DEF DequeueIdx, OrdinaryIdx, InternalIdx
    <2> QED  BY <2>1, <2>2
  <1>4. PICK r \in Req : r = send_queue[k] /\ r \in Range(send_queue)
    BY <1>3, InDomain
  <1> DEFINE f == [Frame("submit") EXCEPT !.req = r]
             pre == IF last_pending THEN <<>> ELSE Call("pending")
  <1>5. Range(send_queue') = Range(send_queue) \ {r}
    BY <1>1, <1>3, <1>4, RemoveAtInjection
  <1>6. f \in FrameType /\ f.req = r /\ f.fn = "submit"
    BY <1>4, HeldTyped DEF Frame
  <1>7. stack' = <<f>> \o Rest \/ stack' = pre \o <<f>> \o Rest
    BY <1>1, <1>4
  <1>8. /\ status' = [status EXCEPT ![r] = "SENDING"]
        /\ UNCHANGED <<prof, id, current_id, deadline, send_req, retry, resend, req_table,
                       last_req_id, tx, expired, replies>>
    BY <1>1, <1>4 DEF Dequeue, tmoVars, envVars
  <1>9. Calm(pre)
    BY CalmCalls
  <1> HIDE DEF f, pre
  <1>10. /\ Rest \in Seq(FrameType) /\ Range(Rest) \subseteq Range(stack)
         /\ RetrierStays(Rest)
    BY <1>2, <1>3, RestProperties DEF Running, Top, NothingNew
  <1>11. /\ \A g \in Range(stack') : g.fn \notin Busy \/ g = f \/ g \in Range(stack)
         /\ RetrierStays(stack')
    <2>1. <<f>> \in Seq(FrameType)
      BY <1>6
    <2>2. /\ <<f>> \o Rest \in Seq(FrameType)
          /\ Range(<<f>> \o Rest) = {f} \cup Range(Rest)
          /\ RetrierStays(<<f>> \o Rest)
      BY <1>6, <1>10, PushRange DEF Retrier
    <2> DEFINE t == <<f>> \o Rest
    <2>3. t \in Seq(FrameType) /\ RetrierStays(t) /\ Range(t) = {f} \cup Range(Rest)
      BY <2>2
    <2> HIDE DEF t
    <2>4. Range(pre \o t) = Range(pre) \cup Range(t) /\ RetrierStays(pre \o t)
      BY <1>9, <2>3, RangeConcatenation, RetrierPush DEF Calm, Busy
    <2>5. pre \o <<f>> \o Rest = pre \o t
      BY <1>9, <1>10, <2>1, ConcatAssociative DEF Calm, t
    <2>6. stack' = t \/ stack' = pre \o t
      BY <1>7, <2>5 DEF t
    <2> QED  BY <1>9, <1>10, <2>3, <2>4, <2>6 DEF Calm
  <1>12. status'[r] = "SENDING" /\ \A s \in Req \ {r} : status'[s] = status[s]
    BY <1>3, <1>4, <1>8
  <1>13. \A s \in Req \ {r} : Aside(s)
    BY <1>5, <1>8, <1>12 DEF Aside
  <1>14. Known(r) /\ Known(r)'
    BY <1>2, <1>4, <1>12 DEF ListInv, NewIsNowhere, Known
  <1>15. Untimed(r) => status[r] = "QUEUED" /\ Placed(r)
    BY <1>4, <1>14 DEF RequestInv, Placed
  <1>16. ASSUME Untimed(r)
         PROVE  /\ Placed(r)'
                /\ tx' # None => tx'.req # r
    <2>1. OwnIds(r)' = OwnIds(r) /\ Live(r)
      BY <1>8, <1>15, <1>16 DEF OwnIds, Live
    <2>2. tx' # None => tx'.req # r
      BY <1>8, <1>15, <1>16 DEF Placed
    <2>3. /\ r \notin Range(send_queue') /\ r \notin retry' \cup resend'
          /\ \A i \in OwnIds(r)' : req_table'[i] = r
          /\ ~deadline'[r] /\ replies'[r] = 0
      BY <1>5, <1>8, <1>15, <1>16, <2>1 DEF Placed
    <2> QED  BY <1>12, <2>2, <2>3 DEF Placed
  <1>17. ASSUME NEW g \in Range(stack') PROVE g \in Range(stack) \/ FrameOK(g)'
    <2>1. CASE g = f
      <3>1. (g.fn = "submit" /\ Untimed(g.req) =>
               status[g.req] \in {"SENDING", "CANCELLED"} /\ (tx # None => tx.req # g.req))'
        <4>1. Untimed(r)' <=> Untimed(r)
          BY <1>8 DEF Untimed, Timed
        <4> QED  BY <1>6, <1>12, <1>16, <2>1, <4>1
      <3> QED  BY <1>6, <2>1, <3>1 DEF FrameOK
    <2>2. CASE g.fn \notin Busy
      BY <2>2 DEF FrameOK, Busy
    <2> QED  BY <1>11, <2>1, <2>2
  <1>18. RetriesTaken'
    BY <1>8, <1>11, TakenKept
  <1>19. RequestInv'
    BY <1>2, <1>4, <1>8, <1>12, <1>13, <1>14, <1>16, <1>17, <1>18, OneMoves
  <1>20. LifeStep
    <2>1. Untimed(r)' <=> Untimed(r)
      BY <1>8 DEF Untimed, Timed
    <2>2. Moves(r, "SENDING")
      BY <1>8, <1>15, <2>1 DEF Moves, Transitions
    <2> QED  BY <1>4, <2>2 DEF LifeStep, Statuses
  <1> QED  BY <1>19, <1>20

\* So does the rest of send_next_request, whatever the transport answers.
LEMMA SubmitKeeps ==
    ASSUME RequestInv, Submit PROVE RequestInv' /\ LifeStep
  <1>1. ListInv /\ ListInv' /\ Running("submit")
    BY SubmitSound DEF RequestInv, Submit
  <1>2. PICK r \in Req : r = Top.req /\ r \notin HeldBy(Rest) /\ r \in HeldBy(stack)
    BY <1>1, PopSound
  <1>3. PICK outcome \in IF closed THEN {"ERROR"} ELSE SendOutcomes :
          Submit!3!(outcome)
    BY DEF Submit
  <1>4. /\ status \in [Req -> Statuses] /\ deadline \in [Req -> BOOLEAN]
        /\ stack \in Seq(FrameType) /\ stack # <<>> /\ Top.fn = "submit"
        /\ tx \in [req : Req, serial : 0 .. IdMax] \cup {None}
    BY <1>1 DEF ListInv, TypeOK, RequestTypeOK, StackTypeOK, EnvTypeOK, Running, Top
  <1>5. /\ UNCHANGED <<prof, id, current_id, last_req_id, send_queue, retry, resend, expired,
                       req_table, replies>>
    BY DEF Submit, tmoVars
  <1>6. /\ status' = status \/ (status[r] = "SENDING" /\ status' = [status EXCEPT ![r] = "SENT"])
        /\ deadline' = deadline \/ (Timed(r) /\ deadline' = [deadline EXCEPT ![r] = TRUE])
        /\ \/ send_req' = None /\ tx' = tx
           \/ send_req' = r /\ status' = status
              /\ (tx' = tx \/ tx' = [req |-> r, serial |-> current_id[r]])
        /\ stack' = Rest \/ stack' = <<Write>> \o Rest
    BY <1>2, <1>3
  <1>7. /\ Rest \in Seq(FrameType) /\ NothingNew(stack')
        /\ Range(stack') \subseteq Range(Rest) \cup {Write}
    <2>1. Rest \in Seq(FrameType) /\ NothingNew(Rest) /\ NothingNew(<<Write>> \o Rest)
      BY <1>1, <1>4, RestProperties, NewCalls, CalmCalls
    <2>3. Range(<<Write>> \o Rest) = {Write} \cup Range(Rest)
      BY <2>1, ConstFrames, PushRange
    <2> QED  BY <1>6, <2>1, <2>3
  <1>8. \A f \in Range(stack') : f.fn = "submit" => f.req # r
    <2>1. Write.fn # "submit"
      BY DEF Write, Frame
    <2>2. \A f \in Range(Rest) : f.fn = "submit" => f.req # r
      BY <1>2, <1>7, HeldFrame DEF Held
    <2> QED  BY <1>7, <2>1, <2>2
  <1>9. \A s \in Req \ {r} : status'[s] = status[s] /\ deadline'[s] = deadline[s]
    BY <1>4, <1>6
  <1>10. \A s \in Req \ {r} : Aside(s)
    <2>1. \A s \in Req \ {r} : /\ send_req' = s => send_req = s
                               /\ tx' # None /\ tx'.req = s => tx # None /\ tx.req = s
      BY <1>6
    <2> QED  BY <1>5, <1>9, <2>1 DEF Aside
  <1>11. Known(r) /\ Known(r)'
    <2>1. Known(r)
      BY <1>1, <1>2 DEF ListInv, NewIsNowhere, Known
    <2> QED  BY <1>2, <1>4, <1>6, <2>1 DEF Known
  <1>12. ASSUME Untimed(r) PROVE Placed(r)' /\ status'[r] \in {"SENDING", "SENT", "CANCELLED"}
    <2>1. Placed(r)
      BY <1>2, <1>11, <1>12 DEF RequestInv
    <2>2. status[r] \in {"SENDING", "CANCELLED"} /\ (tx # None => tx.req # r)
      <3>1. Top \in Range(stack)
        BY <1>4, RestProperties
      <3>2. FrameOK(Top)
        BY <3>1 DEF RequestInv
      <3> QED  BY <1>2, <1>4, <1>12, <3>2 DEF FrameOK
    <2>3. OwnIds(r)' = OwnIds(r) /\ deadline' = deadline
      BY <1>5, <1>6, <1>12 DEF OwnIds, Untimed
    <2>4. /\ r \notin Range(send_queue') /\ r \notin retry' \cup resend'
          /\ ~deadline[r] \/ status[r] = "CANCELLED"
      BY <1>5, <2>1, <2>2 DEF Placed
    <2>5. CASE status' = status
      <3>1. \/ send_req' = None /\ tx' = tx
            \/ send_req' = r
        BY <1>6
      <3> QED  BY <1>5, <2>1, <2>2, <2>3, <2>4, <2>5 DEF Placed, Live
    <2>6. CASE status[r] = "SENDING" /\ status' = [status EXCEPT ![r] = "SENT"]
      <3>1. status'[r] = "SENT"
        BY <1>2, <1>4, <2>6
      <3>2. send_req' = None /\ tx' = tx
        BY <1>6, <2>6, <3>1
      <3>3. r # None
        BY <1>2
      <3> QED  BY <1>5, <2>1, <2>2, <2>3, <2>4, <2>6, <3>1, <3>2, <3>3 DEF Placed, Live
    <2> QED  BY <1>6, <2>5, <2>6
  <1>13. \A f \in Range(stack') : f \in Range(stack) \/ FrameOK(f)'
    BY <1>7 DEF NothingNew, FrameOK, Busy
  <1>14. RetriesTaken' /\ expired' \subseteq expired
    BY <1>5, <1>7, TakenKept DEF NothingNew
  <1>15. UNCHANGED <<prof, id, current_id, last_req_id>>
    BY <1>5
  <1>16. \A f \in Range(stack') \cap Range(stack) :
             Untimed(r) =>
               /\ f.fn = "submit" /\ f.req = r =>
                    status'[r] \in {"SENDING", "CANCELLED"} /\ (tx' # None => tx'.req # r)
               /\ f.fn = "cancel_table" /\ status'[r] \in {"QUEUED", "RETRY"} =>
                    \A i \in f.ids : i \notin OwnIds(r)
    BY <1>8, <1>12
  <1>17. RequestInv'
    BY <1>1, <1>2, <1>10, <1>11, <1>12, <1>13, <1>14, <1>15, <1>16, OneMoves
  <1>18. LifeStep
    <2>1. CASE status' = status
      BY <1>5, <2>1 DEF LifeStep
    <2>2. CASE status[r] = "SENDING" /\ status' = [status EXCEPT ![r] = "SENT"]
      <3>1. Moves(r, "SENT")
        BY <1>5, <2>2 DEF Moves, Transitions
      <3> QED  BY <1>2, <3>1 DEF LifeStep, Statuses
    <2> QED  BY <1>6, <2>1, <2>2
  <1> QED  BY <1>17, <1>18

\* So does handle_request_sent.
LEMMA RequestSentKeeps ==
    ASSUME RequestInv, RequestSent PROVE RequestInv' /\ LifeStep
  <1>1. ListInv /\ ListInv' /\ stack = <<>> /\ tx # None /\ tx' = None /\ stack' = <<Write>>
    BY RequestSentSound DEF RequestInv, RequestSent, Idle
  <1>2. status \in [Req -> Statuses]
    BY <1>1 DEF ListInv, TypeOK, RequestTypeOK
  <1>3. PICK r \in Req : r = tx.req /\ Known(r)
    BY <1>1 DEF RequestInv, NewUnknown, ListInv, TypeOK, EnvTypeOK
  <1>4. /\ UNCHANGED <<prof, id, current_id, last_req_id, send_queue, retry, resend, expired,
                       req_table, replies, deadline>>
    BY DEF RequestSent, tabVars, tmoVars
  <1>5. /\ status' = IF status[r] = "SENDING" THEN [status EXCEPT ![r] = "SENT"] ELSE status
        /\ send_req' = IF send_req = r THEN None ELSE send_req
    BY <1>3 DEF RequestSent
  <1>6. NothingNew(stack')
    BY <1>1, NewCalls, CalmCalls
  <1>7. \A s \in Req \ {r} : Aside(s)
    <2>1. \A s \in Req \ {r} : status'[s] = status[s]
      BY <1>2, <1>5
    <2> QED  BY <1>1, <1>4, <1>5, <2>1 DEF Aside
  <1>8. Known(r)'
    BY <1>2, <1>5, <1>3 DEF Known
  <1>9. ASSUME Untimed(r) PROVE Placed(r)' /\ status'[r] \in {"SENT", "CANCELLED"}
    <2>1. Placed(r) /\ status[r] \in {"SENDING", "CANCELLED"}
      BY <1>1, <1>3, <1>9 DEF RequestInv, Placed
    <2>2. OwnIds(r)' = OwnIds(r) /\ send_req' # r
      BY <1>2, <1>4, <1>5 DEF OwnIds
    <2>3. status'[r] = IF status[r] = "SENDING" THEN "SENT" ELSE "CANCELLED"
      BY <1>2, <1>5, <2>1
    <2>4. /\ r \notin Range(send_queue') /\ r \notin retry' \cup resend'
          /\ deadline[r] => status[r] = "CANCELLED"
      BY <1>4, <2>1 DEF Placed
    <2> QED  BY <1>1, <1>4, <2>1, <2>2, <2>3, <2>4 DEF Placed, Live
  <1>10. \A f \in Range(stack') : f \in Range(stack) \/ FrameOK(f)'
    BY <1>6 DEF NothingNew, FrameOK, Busy
  <1>11. RetriesTaken' /\ expired' \subseteq expired
    BY <1>4, <1>6, TakenKept DEF NothingNew
  <1>12. UNCHANGED <<prof, id, current_id, last_req_id>>
    BY <1>4
  <1>13. Range(stack) = {}
    BY <1>1 DEF Range
  <1>14. RequestInv'
    BY <1>1, <1>2, <1>3, <1>7, <1>8, <1>9, <1>10, <1>11, <1>12, <1>13, OneMoves
  <1>15. LifeStep
    <2>1. CASE status' = status
      BY <1>4, <2>1 DEF LifeStep
    <2>2. CASE status[r] = "SENDING" /\ status' = [status EXCEPT ![r] = "SENT"]
      <3>1. Moves(r, "SENT")
        BY <1>4, <2>2 DEF Moves, Transitions
      <3> QED  BY <1>2, <3>1 DEF LifeStep, Statuses
    <2> QED  BY <1>5, <2>1, <2>2
  <1> QED  BY <1>14, <1>15

-----------------------------------------------------------------------------
(* Steps that concern no request.                                          *)

\* A function on top that is running is not at the bottom of an empty stack.
LEMMA RunningTop ==
    ASSUME NEW fn, Running(fn)
    PROVE  stack # <<>> /\ Top.fn = fn
  BY DEF Running, Top

\* Functions that return, and do something else than to settle a request.
LEMMA ReturnKeeps ==
    ASSUME RequestInv,
           WriteStop \/ UpdatePending \/ ResetTimeout \/ AppReturns \/ ExpireEnd
             \/ DropPending \/ CancelLoopEnd \/ CancelAllEnd
    PROVE  RequestInv' /\ LifeStep
  <1>1. ListInv /\ ListInv'
    BY WriteStopSound, UpdatePendingSound, ResetTimeoutSound, AppReturnsSound, ExpireEndSound,
       DropPendingSound, CancelLoopEndSound, CancelAllEndSound DEF RequestInv
  <1>2. Still /\ resend' = resend
    <2>1. \A r \in expired : Timed(r)
      BY DEF RequestInv
    <2> QED
      BY <2>1 DEF Still, WriteStop, UpdatePending, ResetTimeout, AppReturns, ExpireEnd,
         DropPending, CancelLoopEnd, CancelAllEnd, reqVars, sendVars, tabVars, tmoVars, envVars
  <1>3. stack # <<>> /\ Top.fn # "requeue"
    BY RunningTop DEF WriteStop, UpdatePending, ResetTimeout, AppReturns, ExpireEnd,
       DropPending, CancelLoopEnd, CancelAllEnd
  <1>4. \E pre : Calm(pre) /\ (stack' = Rest \/ stack' = pre \o Rest)
    <2>1. CASE UpdatePending
      BY <2>1, CalmCalls DEF UpdatePending
    <2>2. CASE DropPending
      BY <2>2, CalmCalls DEF DropPending
    <2>3. CASE ~UpdatePending /\ ~DropPending
      BY <2>3, CalmCalls DEF WriteStop, ResetTimeout, AppReturns, ExpireEnd, CancelLoopEnd,
         CancelAllEnd
    <2> QED  BY <2>1, <2>2, <2>3
  <1>5. NothingNew(stack')
    BY <1>1, <1>3, <1>4, NewCalls
  <1> QED  BY <1>1, <1>2, <1>5, StillCalm

\* All due retries have been sent again.
LEMMA RequeueEndKeeps ==
    ASSUME RequestInv, RequeueEnd PROVE RequestInv' /\ LifeStep
  <1>1. ListInv /\ ListInv' /\ stack # <<>> /\ resend = {} /\ stack' = Rest
    BY RequeueEndSound, RunningTop DEF RequestInv, RequeueEnd
  <1>2. Still /\ resend' = resend
    BY DEF Still, RequestInv, RequeueEnd, reqVars, sendVars, tabVars, tmoVars, envVars
  <1>3. Range(stack') \subseteq Range(stack) /\ OneRetrier(stack')
    BY <1>1, RestProperties DEF RequestInv, RetriesTaken, ListInv, TypeOK, StackTypeOK
  <1>4. RetriesTaken'
    BY <1>1, <1>2, <1>3 DEF RetriesTaken
  <1> QED  BY <1>1, <1>2, <1>3, <1>4, StillKeeps

\* serialize and deserialize.
LEMMA SerializeKeeps ==
    ASSUME RequestInv, Serialize \/ Deserialize PROVE RequestInv' /\ LifeStep
  <1>1. ListInv /\ ListInv'
    BY SerializeSound, DeserializeSound DEF RequestInv
  <1>2. Still /\ resend' = resend
    BY DEF Still, RequestInv, Serialize, Deserialize, reqVars, sendVars, tabVars, tmoVars, envVars
  <1>3. stack' = stack \/ stack' = <<Write>> \o stack
    BY DEF Serialize, Deserialize
  <1> QED  BY <1>1, <1>2, <1>3, CalmCalls, NewCalls, StillCalm

\* The link comes up or is lost: the transport forgets what it was writing, the channel
\* does not.
LEMMA LinkKeeps ==
    ASSUME RequestInv, Connected \/ Disconnected PROVE RequestInv' /\ LifeStep
  <1>1. ListInv /\ ListInv'
    BY ConnectedSound, DisconnectedSound DEF RequestInv
  <1>2. Still /\ resend' = resend
    BY DEF Still, RequestInv, Connected, Disconnected, reqVars, sendVars, tabVars, tmoVars
  <1>3. \/ stack = <<>> /\ stack' = Call("event") \o <<Write>>
        \/ stack' = Call("event") \o stack
    BY DEF Connected, Disconnected, Idle
  <1>4. Calm(Call("event")) /\ Calm(Call("event") \o <<Write>>)
    BY CalmCalls, CalmConcat
  <1> QED  BY <1>1, <1>2, <1>3, <1>4, NewCalls, StillCalm

\* What is pending for too long is forgotten: that concerns block_req only.
LEMMA PendingTimeoutKeeps ==
    ASSUME RequestInv, NEW due \in SUBSET Ids, PendingTimeout(due)
    PROVE  RequestInv' /\ LifeStep
  <1>1. ListInv /\ ListInv'
    BY PendingTimeoutSound DEF RequestInv
  <1>2. Still /\ resend' = resend
    BY DEF Still, RequestInv, PendingTimeout, reqVars, tmoVars, envVars
  <1>3. stack = <<>> /\ stack' = <<Write, PendingUpdate>>
    BY DEF PendingTimeout, Idle
  <1> QED  BY <1>1, <1>2, <1>3, CalmCalls, NewCalls, StillCalm

\* The due retries move from one list to the other; that one is empty.
LEMMA TakeRetriesKeeps ==
    ASSUME RequestInv, TakeRetries PROVE RequestInv' /\ LifeStep
  <1> DEFINE f == Frame("requeue")
  <1>1. ListInv /\ ListInv' /\ stack \in Seq(FrameType) /\ stack # <<>> /\ Top.fn = "retry_due"
    BY TakeRetriesSound, RunningTop
    DEF RequestInv, TakeRetries, ListInv, TypeOK, StackTypeOK
  <1>2. /\ Rest \in Seq(FrameType) /\ Range(Rest) \subseteq Range(stack)
        /\ OneRetrier(Rest) /\ \A g \in Range(Rest) : g.fn \notin Retrier
    BY <1>1, RestProperties DEF RequestInv, RetriesTaken, Retrier
  <1>3. Len(stack) = 4 /\ Len(Rest) = 3
    <2>1. 1 \in DOMAIN stack /\ Top = stack[1] /\ Len(stack) \in Nat
      BY <1>1, LenProperties, EmptySeq DEF Top
    <2>2. Len(stack) - 1 = 3
      BY <1>1, <2>1 DEF RequestInv, RetriesTaken, OneRetrier, Retrier
    <2> QED  BY <1>1, <2>1, <2>2, HeadTailProperties DEF Rest
  <1>4. resend = {}
    <2>1. Executing(stack) = {"retry_due"} \cup Executing(Rest)
      BY <1>1, PopFrame DEF Top, Rest
    <2>2. "requeue" \notin Executing(Rest)
      BY <1>2 DEF Executing, Range, Retrier
    <2> QED  BY <2>1, <2>2 DEF RequestInv, RetriesTaken
  <1>5. f \in FrameType /\ f.fn = "requeue" /\ stack' = <<f>> \o Rest
    BY FrameTyped DEF TakeRetries, Functions, Frame
  <1> HIDE DEF f
  <1>6. Range(stack') = {f} \cup Range(Rest)
    BY <1>2, <1>5, PushRange
  <1>7. RetriesTaken'
    <2> DEFINE t == <<f>> \o Rest
    <2>1. /\ Len(t) = 4 /\ DOMAIN t = 1 .. 4 /\ t[1] = f
          /\ \A k \in 2 .. 4 : t[k] = Rest[k - 1] /\ k - 1 \in DOMAIN Rest
      <3> DEFINE e == <<f>>
      <3>1. e \in Seq(FrameType) /\ Len(e) = 1 /\ e[1] = f
        BY <1>5
      <3> HIDE DEF e
      <3>2. /\ Len(e \o Rest) = 4 /\ DOMAIN (e \o Rest) = 1 .. 4
            /\ \A k \in 1 .. 4 : (e \o Rest)[k] = IF k <= 1 THEN e[k] ELSE Rest[k - 1]
        <4>1. /\ Len(e \o Rest) = Len(e) + Len(Rest)
              /\ e \o Rest \in Seq(FrameType)
              /\ \A k \in 1 .. Len(e) + Len(Rest) :
                   (e \o Rest)[k] = IF k <= Len(e) THEN e[k] ELSE Rest[k - Len(e)]
          BY <1>2, <3>1, ConcatProperties
        <4>2. DOMAIN (e \o Rest) = 1 .. Len(e \o Rest)
          BY <4>1, LenProperties
        <4> QED  BY <1>3, <3>1, <4>1, <4>2
      <3>3. DOMAIN Rest = 1 .. 3
        BY <1>2, <1>3, LenProperties
      <3> QED  BY <3>1, <3>2, <3>3 DEF e
    <2> HIDE DEF t
    <2>2. \A k \in 2 .. 4 : t[k].fn \notin Retrier
      BY <1>2, <2>1 DEF Range
    <2>3. OneRetrier(t)
      BY <2>1, <2>2 DEF OneRetrier
    <2>4. "requeue" \in Executing(t)
      BY <1>5, <2>1 DEF Executing
    <2>5. stack' = t
      BY <1>5 DEF t
    <2> QED  BY <2>3, <2>4, <2>5 DEF RetriesTaken
  <1>8. Still
    BY <1>4 DEF Still, RequestInv, TakeRetries, reqVars, tabVars, envVars
  <1>9. \A g \in Range(stack') : g \in Range(stack) \/ FrameOK(g)
    BY <1>2, <1>5, <1>6 DEF FrameOK
  <1> QED  BY <1>1, <1>7, <1>8, <1>9, StillKeeps

\* grilio_channel_timeout starts: what has expired has a deadline, which no request in
\* the table has that did not ask for one.
LEMMA TimeoutKeeps ==
    ASSUME RequestInv, NEW due \in SUBSET Timeable, NEW again \in SUBSET retry,
           Timeout(due, again)
    PROVE  RequestInv' /\ LifeStep
  <1> DEFINE e == Frame("expire")
             d == [Frame("retry_due") EXCEPT !.reqs = again]
  <1>1. ListInv /\ ListInv'
    BY TimeoutSound DEF RequestInv
  <1>2. stack = <<>> /\ stack' = <<e, d, TimeoutReset, Write, PendingUpdate>>
    BY DEF Timeout, Idle
  <1>3. /\ e.fn = "expire" /\ d.fn = "retry_due" /\ TimeoutReset.fn = "reset_timeout"
        /\ Write.fn = "schedule_write" /\ PendingUpdate.fn = "update_pending"
    BY DEF Frame, TimeoutReset, Write, PendingUpdate
  <1> HIDE DEF e, d
  <1>4. /\ DOMAIN stack' = 1 .. 5 /\ Len(stack') = 5 /\ stack'[1] = e /\ stack'[2] = d
        /\ stack'[3] = TimeoutReset /\ stack'[4] = Write /\ stack'[5] = PendingUpdate
    BY <1>2
  <1>5. \A k \in 1 .. 5 : k = 1 \/ k = 2 \/ k = 3 \/ k = 4 \/ k = 5
    OBVIOUS
  <1>6. OneRetrier(stack')
    BY <1>3, <1>4, <1>5 DEF OneRetrier, Retrier
  <1>7. resend = {} /\ resend' = resend
    BY <1>2 DEF RequestInv, RetriesTaken, Executing, Timeout
  <1>8. RetriesTaken'
    BY <1>6, <1>7 DEF RetriesTaken
  <1>9. \A f \in Range(stack') : FrameOK(f)
    BY <1>3, <1>4, <1>5 DEF FrameOK, Range
  <1>10. ASSUME NEW r \in due PROVE Timed(r)
    <2>1. r \in Req /\ deadline[r] /\ \E i \in Ids : req_table[i] = r
      BY DEF Timeable
    <2>2. Known(r)
      BY <1>1, <2>1 DEF ListInv, NewIsNowhere, Known
    <2>3. Untimed(r) => Placed(r)
      BY <2>1, <2>2 DEF RequestInv
    <2> QED  BY <2>1, <2>3 DEF Placed, Untimed
  <1>11. deadline \in [Req -> BOOLEAN] /\ deadline' = [r \in Req |-> deadline[r] /\ r \notin due]
    BY <1>1 DEF ListInv, TypeOK, RequestTypeOK, Timeout
  <1>12. Still
    BY <1>7, <1>10, <1>11 DEF Still, Timeout, envVars
  <1> QED  BY <1>1, <1>8, <1>9, <1>12, StillKeeps

\* It takes up the next expired request.
LEMMA ExpirePendingKeeps ==
    ASSUME RequestInv, ExpirePending PROVE RequestInv' /\ LifeStep
  <1>1. PICK r \in expired : ExpirePending!2!(r)
    BY DEF ExpirePending
  <1> DEFINE f == [Frame("expire_one") EXCEPT !.req = r]
  <1>2. ListInv /\ ListInv' /\ stack \in Seq(FrameType) /\ r \in Req
    BY ExpirePendingSound DEF RequestInv, ListInv, TypeOK, StackTypeOK, SendTypeOK
  <1>3. f \in FrameType /\ f.req = r /\ f.fn = "expire_one"
    BY <1>2, HeldTyped DEF Frame
  <1>4. \E pre : Calm(pre) /\ stack' = pre \o <<f>> \o stack
    BY <1>1, CalmCalls
  <1> HIDE DEF f
  <1>5. PICK pre : Calm(pre) /\ stack' = pre \o <<f>> \o stack
    BY <1>4
  <1> DEFINE t == <<f>> \o stack
  <1>6. t \in Seq(FrameType) /\ Range(t) = {f} \cup Range(stack) /\ RetrierStays(t)
    BY <1>2, <1>3, PushRange DEF Retrier, RetrierStays
  <1>7. stack' = pre \o t
    <2>1. <<f>> \in Seq(FrameType)
      BY <1>3
    <2> QED  BY <1>2, <1>5, <2>1, ConcatAssociative DEF Calm
  <1> HIDE DEF t
  <1>8. Range(stack') = Range(pre) \cup Range(t) /\ RetrierStays(stack')
    <2>1. pre \in Seq(FrameType) /\ \A g \in Range(pre) : g.fn \notin Retrier
      BY <1>5 DEF Calm, Busy
    <2>2. Range(pre \o t) = Range(pre) \cup Range(t) /\ RetrierStays(pre \o t)
      BY <1>6, <2>1, RangeConcatenation, RetrierPush
    <2> QED  BY <1>7, <2>2
  <1>9. Timed(r)
    BY DEF RequestInv
  <1>10. \A g \in Range(stack') : g \in Range(stack) \/ FrameOK(g)
    BY <1>3, <1>5, <1>6, <1>8, <1>9 DEF Calm, Busy, FrameOK
  <1>11. Still /\ resend' = resend
    BY <1>1 DEF Still, ExpirePending, RequestInv, reqVars, sendVars, envVars
  <1> QED  BY <1>2, <1>8, <1>10, <1>11, TakenKept, StillKeeps

-----------------------------------------------------------------------------
(* Cancellation.                                                           *)

\* What the application is told of a cancellation.
LEMMA CancelTells ==
    ASSUME NEW r, NEW n
    PROVE  CancelReplies(r, n) \in {replies, Replied(r)}
  BY DEF CancelReplies

\* The id the application was given leads to its request and no other, so cancel_request
\* does not take a request out of the table that is still queued.
LEMMA CancelThenKeeps ==
    ASSUME RequestInv, ListInv', NEW i \in KnownIds, NEW n \in BOOLEAN,
           NEW after, after \in Seq(FrameType), NothingNew(after), CancelThen(i, n, after)
    PROVE  RequestInv' /\ LifeStep
  <1> DEFINE Sending  == send_req # None /\ id[send_req] = i
             QueuedAt == {k \in DOMAIN send_queue : id[send_queue[k]] = i}
  <1>1. /\ send_queue \in Seq(Req) /\ IsInjective(send_queue) /\ send_req \in ReqOrNone
        /\ req_table \in [Ids -> ReqOrNone] /\ retry \subseteq Req /\ i \in Ids /\ ListInv
    BY DEF RequestInv, ListInv, TypeOK, SendTypeOK, TableTypeOK, ListIntegrity, KnownIds
  <1>2. UNCHANGED <<prof, id, current_id, last_req_id, deadline, send_req, tx, expired, resend>>
    BY DEF CancelThen, tmoVars, envVars
  <1>3. ASSUME NEW r, NEW more \in {<<Write>>, <<TimeoutReset, Write>>}
        PROVE  NothingNew(Cancelled(r, n) \o more \o after)
    BY CalmCalls, CalmConcat, NewPush
  <1>4. ASSUME NEW r \in Req, Complete(r, "CANCELLED"), replies' = CancelReplies(r, n),
               stack' = Cancelled(r, n) \o <<Write>> \o after
                 \/ stack' = Cancelled(r, n) \o <<TimeoutReset, Write>> \o after,
               Known(r), Untimed(r) => Live(r),
               \A s \in Req \ {r} : s \in Range(send_queue') <=> s \in Range(send_queue),
               retry' = retry \/ retry' = retry \ {r},
               Untimed(r) => r \notin Range(send_queue') \cup retry' \cup resend
        PROVE  RequestInv' /\ LifeStep
    <2>1. NothingNew(stack')
      BY <1>3, <1>4
    <2>2. replies' \in {replies, Replied(r)}
      BY <1>4, CancelTells
    <2>3. /\ \A s \in Req \ {r} : /\ s \in Range(send_queue') <=> s \in Range(send_queue)
                                  /\ s \in retry' \cup resend' <=> s \in retry \cup resend
          /\ Untimed(r) => r \notin Range(send_queue') \cup retry' \cup resend'
          /\ resend' \subseteq resend
      BY <1>2, <1>4
    <2>4. Untimed(r) => Live(r) /\ ("CANCELLED" = "DONE" => status[r] = "SENT")
      BY <1>4
    <2> QED  BY <1>2, <1>4, <2>1, <2>2, <2>3, <2>4, SettleKeeps
  <1>5. CASE /\ Sending /\ status[send_req] # "CANCELLED"
             /\ Complete(send_req, "CANCELLED")
             /\ replies' = CancelReplies(send_req, n)
             /\ stack' = Cancelled(send_req, n) \o <<Write>> \o after
             /\ UNCHANGED <<send_queue, retry>>
    <2>1. PICK r \in Req : r = send_req
      BY <1>1, <1>5 DEF ReqOrNone
    <2>2. Known(r)
      BY <2>1 DEF RequestInv, NewUnknown
    <2>3. Untimed(r) => status[r] = "SENDING" /\ Placed(r)
      BY <1>5, <2>1, <2>2 DEF RequestInv, Placed
    <2>4. Untimed(r) => Live(r) /\ r \notin Range(send_queue') \cup retry' \cup resend
      BY <1>5, <2>3 DEF Placed, Live
    <2> QED  BY <1>4, <1>5, <2>1, <2>2, <2>4
  <1>6. CASE \E k \in QueuedAt :
               /\ Complete(send_queue[k], "CANCELLED")
               /\ replies' = CancelReplies(send_queue[k], n)
               /\ stack' = Cancelled(send_queue[k], n) \o <<Write>> \o after
               /\ send_queue' = RemoveAt(send_queue, k) /\ retry' = retry
    <2>1. PICK k \in DOMAIN send_queue :
               /\ Complete(send_queue[k], "CANCELLED")
               /\ replies' = CancelReplies(send_queue[k], n)
               /\ stack' = Cancelled(send_queue[k], n) \o <<Write>> \o after
               /\ send_queue' = RemoveAt(send_queue, k) /\ retry' = retry
      BY <1>6
    <2>2. PICK r \in Req : r = send_queue[k] /\ r \in Range(send_queue)
      BY <1>1, InDomain
    <2>3. Range(send_queue') = Range(send_queue) \ {r}
      BY <1>1, <2>1, <2>2, RemoveAtInjection
    <2>4. Known(r) /\ r \notin retry \cup resend
      BY <1>1, <2>2 DEF ListInv, NewIsNowhere, ListIntegrity, Known
    <2>5. Untimed(r) => Live(r)
      BY <2>2, <2>4 DEF RequestInv, Placed, Live
    <2>6. /\ Complete(r, "CANCELLED") /\ replies' = CancelReplies(r, n)
          /\ stack' = Cancelled(r, n) \o <<Write>> \o after
      BY <2>1, <2>2
    <2> QED  BY <1>4, <2>1, <2>3, <2>4, <2>5, <2>6
  <1>7. CASE /\ QueuedAt = {} /\ req_table[i] # None
             /\ Complete(req_table[i], "CANCELLED")
             /\ replies' = CancelReplies(req_table[i], n)
             /\ stack' = Cancelled(req_table[i], n) \o <<TimeoutReset, Write>> \o after
             /\ UNCHANGED <<send_queue, retry>>
    <2>1. PICK r \in Req : r = req_table[i]
      BY <1>1, <1>7 DEF ReqOrNone
    <2>2. Known(r) /\ i \in OwnIds(r) /\ r \notin retry \cup resend
      BY <1>1, <2>1 DEF ListInv, NewIsNowhere, TableKeys, Known, OwnIds
    <2>3. PICK x \in Req : id[x] = i /\ Known(x)
      BY DEF KnownIds, Known
    <2>4. x = r
      BY <2>2, <2>3 DEF RequestInv, IdsApart, OwnIds
    <2>5. r \notin Range(send_queue)
      BY <1>7, <2>3, <2>4 DEF Range
    <2>6. Untimed(r) => Live(r)
      <3>1. status \in [Req -> Statuses]
        BY <1>1 DEF ListInv, TypeOK, RequestTypeOK
      <3>2. Untimed(r) => status[r] \notin {"RETRY", "DONE", "CANCELLED"}
        BY <1>1, <2>1, <2>2 DEF RequestInv, Placed
      <3> QED  BY <2>2, <3>1, <3>2 DEF Live, Statuses, Known
    <2> QED  BY <1>4, <1>7, <2>1, <2>2, <2>5, <2>6
  <1>8. CASE \E r \in retry :
               /\ Complete(r, "CANCELLED") /\ replies' = CancelReplies(r, n)
               /\ stack' = Cancelled(r, n) \o <<TimeoutReset, Write>> \o after
               /\ retry' = retry \ {r} /\ send_queue' = send_queue
    <2>1. PICK r \in retry :
               /\ Complete(r, "CANCELLED") /\ replies' = CancelReplies(r, n)
               /\ stack' = Cancelled(r, n) \o <<TimeoutReset, Write>> \o after
               /\ retry' = retry \ {r} /\ send_queue' = send_queue
      BY <1>8
    <2>2. r \in Req /\ Known(r) /\ r \notin Range(send_queue) \cup resend
      BY <1>1 DEF ListInv, NewIsNowhere, ListIntegrity, Known
    <2>3. Untimed(r) => Live(r)
      BY <2>2 DEF RequestInv, Placed, Live
    <2> QED  BY <1>4, <2>1, <2>2, <2>3
  <1>9. CASE /\ stack' = after
             /\ UNCHANGED <<status, queue, req_table, send_queue, retry, replies>>
    <2>1. Still /\ resend' \subseteq resend
      BY <1>2, <1>9 DEF Still, RequestInv
    <2> QED  BY <1>9, <2>1, StillCalm
  <1> QED  BY <1>5, <1>6, <1>7, <1>8, <1>9 DEF CancelThen

\* grilio_channel_cancel_request keeps RequestInv.
LEMMA CancelRequestKeeps ==
    ASSUME RequestInv, NEW i \in KnownIds, NEW n \in BOOLEAN, CancelRequest(i, n)
    PROVE  RequestInv' /\ LifeStep
  <1>1. ListInv /\ ListInv' /\ stack \in Seq(FrameType)
    BY CancelRequestSound DEF RequestInv, KnownIds, ListInv, TypeOK, StackTypeOK
  <1>2. NothingNew(stack)
    BY <1>1, CalmCalls, NewCalls
  <1> QED  BY <1>1, <1>2, CancelThenKeeps DEF CancelRequest

\* So does grilio_channel_drop_request.
LEMMA DropRequestKeeps ==
    ASSUME RequestInv, NEW i \in KnownIds, DropRequest(i)
    PROVE  RequestInv' /\ LifeStep
  <1> DEFINE f   == [Frame("drop") EXCEPT !.ids = {i}]
             pre == <<f>>
  <1>1. ListInv /\ ListInv' /\ stack \in Seq(FrameType) /\ i \in Ids
    BY DropRequestSound DEF RequestInv, KnownIds, ListInv, TypeOK, StackTypeOK
  <1>2. Calm(pre)
    <2>1. f \in FrameType /\ f.fn = "drop"
      BY <1>1, DropTyped
    <2> HIDE DEF f
    <2> QED  BY <2>1, CalmFrame DEF Busy, Retrier
  <1>3. CancelThen(i, FALSE, pre \o stack)
    BY DEF DropRequest
  <1> HIDE DEF pre
  <1>4. NothingNew(pre \o stack) /\ pre \o stack \in Seq(FrameType)
    BY <1>1, <1>2, NewCalls, ConcatProperties DEF Calm
  <1> QED  BY <1>1, <1>3, <1>4, CancelThenKeeps

\* So does the beginning of grilio_channel_cancel_all.
LEMMA CancelAllKeeps ==
    ASSUME RequestInv, NEW n \in BOOLEAN, CancelAll(n)
    PROVE  RequestInv' /\ LifeStep
  <1> DEFINE f == [Frame("cancel_queue") EXCEPT !.notify = n]
             g == [Frame("cancel_retry") EXCEPT !.notify = n]
             h == Frame("cancel_end")
             loops == <<f, g, h>>
  <1>1. ListInv /\ ListInv' /\ stack \in Seq(FrameType) /\ send_req \in ReqOrNone
    BY CancelAllSound DEF RequestInv, ListInv, TypeOK, StackTypeOK, SendTypeOK
  <1>2. Calm(loops)
    <2>1. f \in FrameType /\ g \in FrameType /\ h \in FrameType
      BY FrameTyped DEF Functions
    <2>2. f.fn = "cancel_queue" /\ g.fn = "cancel_retry" /\ h.fn = "cancel_end"
      BY DEF Frame
    <2> HIDE DEF f, g, h
    <2>3. loops \in Seq(FrameType) /\ DOMAIN loops = {1, 2, 3}
          /\ loops[1] = f /\ loops[2] = g /\ loops[3] = h
      BY <2>1
    <2> HIDE DEF loops
    <2> QED  BY <2>2, <2>3 DEF Calm, Range, Busy, Retrier
  <1>3. /\ UNCHANGED <<prof, id, current_id, last_req_id, deadline, send_req, send_queue, retry,
                       tx, expired, resend>>
        /\ \/ /\ send_req # None /\ status[send_req] # "CANCELLED"
              /\ Complete(send_req, "CANCELLED")
              /\ replies' = CancelReplies(send_req, n)
              /\ stack' = Cancelled(send_req, n) \o loops \o stack
           \/ /\ stack' = loops \o stack
              /\ UNCHANGED <<status, queue, req_table, replies>>
    BY DEF CancelAll, tmoVars, envVars
  <1> HIDE DEF loops
  <1>4. CASE /\ send_req # None /\ status[send_req] # "CANCELLED"
             /\ Complete(send_req, "CANCELLED")
             /\ replies' = CancelReplies(send_req, n)
             /\ stack' = Cancelled(send_req, n) \o loops \o stack
    <2>1. PICK r \in Req : r = send_req
      BY <1>1, <1>4 DEF ReqOrNone
    <2>2. Known(r)
      BY <2>1 DEF RequestInv, NewUnknown
    <2>3. Untimed(r) => status[r] = "SENDING" /\ Placed(r)
      BY <1>4, <2>1, <2>2 DEF RequestInv, Placed
    <2>4. Untimed(r) => /\ Live(r) /\ ("CANCELLED" = "DONE" => status[r] = "SENT")
                        /\ r \notin Range(send_queue') \cup retry' \cup resend'
      BY <1>3, <2>3 DEF Placed, Live
    <2>5. NothingNew(stack')
      BY <1>1, <1>2, <1>4, CalmCalls, CalmConcat, NewCalls
    <2>6. replies' \in {replies, Replied(r)} /\ Complete(r, "CANCELLED")
      BY <1>4, <2>1, CancelTells
    <2>7. /\ \A s \in Req \ {r} : /\ s \in Range(send_queue') <=> s \in Range(send_queue)
                                  /\ s \in retry' \cup resend' <=> s \in retry \cup resend
          /\ resend' \subseteq resend
          /\ UNCHANGED <<prof, id, current_id, last_req_id, deadline, send_req, tx, expired>>
      BY <1>3
    <2> QED  BY <1>1, <2>2, <2>4, <2>5, <2>6, <2>7, SettleKeeps
  <1>5. CASE /\ stack' = loops \o stack
             /\ UNCHANGED <<status, queue, req_table, replies>>
    <2>1. Still /\ resend' \subseteq resend
      BY <1>3, <1>5 DEF Still, RequestInv
    <2> QED  BY <1>1, <1>2, <1>5, <2>1, NewCalls, StillCalm
  <1> QED  BY <1>3, <1>4, <1>5

\* So does taking the head of the send queue in it.
LEMMA CancelQueuedKeeps ==
    ASSUME RequestInv, CancelQueued PROVE RequestInv' /\ LifeStep
  <1>1. /\ ListInv /\ ListInv' /\ send_queue \in Seq(Req) /\ IsInjective(send_queue)
        /\ send_queue # <<>>
    BY CancelQueuedSound
    DEF RequestInv, ListInv, TypeOK, SendTypeOK, ListIntegrity, CancelQueued
  <1>2. PICK r \in Req : r = Head(send_queue) /\ r \in Range(send_queue)
    BY <1>1, TailInjection
  <1>3. /\ UNCHANGED <<prof, id, current_id, last_req_id, deadline, send_req, tx, expired,
                       retry, resend>>
        /\ Complete(r, "CANCELLED") /\ replies' = CancelReplies(r, Top.notify)
        /\ stack' = Cancelled(r, Top.notify) \o stack
        /\ send_queue' = Tail(send_queue)
    BY <1>2 DEF CancelQueued, tmoVars, envVars
  <1>4. Range(send_queue') = Range(send_queue) \ {r}
    BY <1>1, <1>2, <1>3, TailInjection
  <1>5. Known(r) /\ r \notin retry \cup resend
    BY <1>1, <1>2 DEF ListInv, NewIsNowhere, ListIntegrity, Known
  <1>6. Untimed(r) => /\ Live(r) /\ ("CANCELLED" = "DONE" => status[r] = "SENT")
                      /\ r \notin Range(send_queue') \cup retry' \cup resend'
    BY <1>2, <1>3, <1>4, <1>5 DEF RequestInv, Placed, Live
  <1>7. NothingNew(stack') /\ replies' \in {replies, Replied(r)}
    BY <1>1, <1>3, CalmCalls, NewCalls, CancelTells
  <1>8. /\ \A s \in Req \ {r} : /\ s \in Range(send_queue') <=> s \in Range(send_queue)
                                /\ s \in retry' \cup resend' <=> s \in retry \cup resend
        /\ resend' \subseteq resend
        /\ UNCHANGED <<prof, id, current_id, last_req_id, deadline, send_req, tx, expired>>
    BY <1>3, <1>4
  <1> QED  BY <1>1, <1>3, <1>5, <1>6, <1>7, <1>8, SettleKeeps

\* So does taking one of the retries.
LEMMA CancelRetryKeeps ==
    ASSUME RequestInv, CancelRetry PROVE RequestInv' /\ LifeStep
  <1>1. ListInv /\ ListInv'
    BY CancelRetrySound DEF RequestInv
  <1>2. PICK r \in retry : /\ Complete(r, "CANCELLED")
                           /\ retry' = retry \ {r}
                           /\ replies' = CancelReplies(r, Top.notify)
                           /\ stack' = Cancelled(r, Top.notify) \o stack
    BY DEF CancelRetry
  <1>3. UNCHANGED <<prof, id, current_id, last_req_id, deadline, send_req, tx, expired,
                    send_queue, resend>>
    BY DEF CancelRetry, tmoVars, envVars
  <1>4. r \in Req /\ Known(r) /\ r \notin Range(send_queue) \cup resend
    BY <1>1 DEF ListInv, TypeOK, SendTypeOK, NewIsNowhere, ListIntegrity, Known
  <1>5. Untimed(r) => /\ Live(r) /\ ("CANCELLED" = "DONE" => status[r] = "SENT")
                      /\ r \notin Range(send_queue') \cup retry' \cup resend'
    BY <1>2, <1>3, <1>4 DEF RequestInv, Placed, Live
  <1>6. NothingNew(stack') /\ replies' \in {replies, Replied(r)}
    BY <1>1, <1>2, CalmCalls, NewCalls, CancelTells
  <1>7. /\ \A s \in Req \ {r} : /\ s \in Range(send_queue') <=> s \in Range(send_queue)
                                /\ s \in retry' \cup resend' <=> s \in retry \cup resend
        /\ resend' \subseteq resend
        /\ UNCHANGED <<prof, id, current_id, last_req_id, deadline, send_req, tx, expired>>
    BY <1>2, <1>3
  <1> QED  BY <1>1, <1>2, <1>4, <1>5, <1>6, <1>7, SettleKeeps

\* When cancel_all has emptied the send queue it collects the keys of the table: neither
\* a request that is queued, nor one to be tried again, has one of them.
LEMMA CancelTableStartKeeps ==
    ASSUME RequestInv, CancelTableStart PROVE RequestInv' /\ LifeStep
  <1> DEFINE keys == {i \in Ids : req_table[i] # None}
             f == [Frame("cancel_table") EXCEPT !.ids = keys, !.notify = Top.notify]
  <1>1. /\ ListInv /\ ListInv' /\ stack \in Seq(FrameType)
        /\ stack # <<>> /\ Top.fn = "cancel_queue"
    BY CancelTableStartSound, RunningTop
    DEF RequestInv, CancelTableStart, ListInv, TypeOK, StackTypeOK
  <1>2. stack' = <<f>> \o Rest /\ send_queue = <<>>
    BY DEF CancelTableStart
  <1>3. f \in FrameType /\ f.fn = "cancel_table" /\ f.ids = keys
    <2>1. Top.notify \in BOOLEAN
      BY <1>1, RestProperties DEF FrameType
    <2>2. keys \in SUBSET Ids
      OBVIOUS
    <2> HIDE DEF keys
    <2> QED  BY <2>1, <2>2, FrameTyped DEF Frame, Functions
  <1> HIDE DEF f
  <1>4. /\ Rest \in Seq(FrameType) /\ Range(Rest) \subseteq Range(stack) /\ RetrierStays(Rest)
    BY <1>1, RestProperties DEF NothingNew
  <1>5. Range(stack') = {f} \cup Range(Rest) /\ RetrierStays(stack')
    BY <1>2, <1>3, <1>4, PushRange DEF Retrier
  <1>6. ASSUME NEW i \in keys
        PROVE  /\ i <= last_req_id
               /\ \A r \in Req : Untimed(r) /\ status[r] \in {"QUEUED", "RETRY"} => i \notin OwnIds(r)
    <2>1. PICK s \in Req : s = req_table[i]
      BY <1>1 DEF ListInv, TypeOK, TableTypeOK, ReqOrNone
    <2>2. Known(s) /\ i \in OwnIds(s)
      BY <1>1, <2>1 DEF ListInv, NewIsNowhere, TableKeys, Known, OwnIds
    <2>3. i <= last_req_id
      BY <1>1, <2>2 DEF RequestInv, IdsGiven, ListInv, TypeOK, TableTypeOK
    <2>4. ASSUME NEW r \in Req, Untimed(r), status[r] \in {"QUEUED", "RETRY"}, i \in OwnIds(r)
          PROVE  FALSE
      <3>1. Known(r) /\ Placed(r)
        BY <2>4 DEF Known, RequestInv
      <3>2. r = s
        BY <2>2, <2>4, <3>1 DEF RequestInv, IdsApart
      <3>3. Range(send_queue) = {}
        BY <1>2 DEF Range
      <3>4. status[r] = "RETRY"
        BY <2>4, <3>1, <3>3 DEF Placed
      <3> QED  BY <2>1, <3>1, <3>2, <3>4 DEF Placed
    <2> QED  BY <2>3, <2>4
  <1>7. FrameOK(f)
    BY <1>3, <1>6 DEF FrameOK
  <1>8. Still /\ resend' = resend
    BY DEF Still, RequestInv, CancelTableStart, reqVars, sendVars, tabVars, tmoVars, envVars
  <1>9. \A g \in Range(stack') : g \in Range(stack) \/ FrameOK(g)
    BY <1>4, <1>5, <1>7
  <1> QED  BY <1>1, <1>5, <1>8, <1>9, TakenKept, StillKeeps

\* So does taking what one of these keys leads to now: that request is not queued.
LEMMA CancelTableKeeps ==
    ASSUME RequestInv, CancelTable PROVE RequestInv' /\ LifeStep
  <1>1. /\ ListInv /\ ListInv' /\ stack \in Seq(FrameType)
        /\ stack # <<>> /\ Top.fn = "cancel_table"
    BY CancelTableSound, RunningTop
    DEF RequestInv, CancelTable, ListInv, TypeOK, StackTypeOK
  <1>2. PICK i \in Top.ids :
          IF req_table[i] # None
          THEN /\ Complete(req_table[i], "CANCELLED")
               /\ replies' = CancelReplies(req_table[i], Top.notify)
               /\ stack' = Cancelled(req_table[i], Top.notify)
                             \o (<<[Top EXCEPT !.ids = @ \ {i}]>> \o Rest)
          ELSE /\ stack' = <<[Top EXCEPT !.ids = @ \ {i}]>> \o Rest
               /\ UNCHANGED <<status, queue, req_table, replies>>
    BY DEF CancelTable
  <1>3. UNCHANGED <<prof, id, current_id, last_req_id, deadline, send_req, send_queue, retry,
                    tx, expired, resend>>
    BY DEF CancelTable, sendVars, tmoVars, envVars
  <1>4. /\ Top \in FrameType /\ Top \in Range(stack) /\ FrameOK(Top)
        /\ Rest \in Seq(FrameType) /\ Range(Rest) \subseteq Range(stack) /\ RetrierStays(Rest)
    BY <1>1, RestProperties DEF NothingNew, RequestInv
  <1>5. PICK f \in FrameType : /\ f = [Top EXCEPT !.ids = @ \ {i}]
                                /\ f.fn = "cancel_table" /\ f.ids = Top.ids \ {i}
    <2>1. PICK t \in FrameType : t = Top /\ t.fn = "cancel_table"
      BY <1>1, <1>4
    <2> DEFINE f == [t EXCEPT !.ids = @ \ {i}]
    <2>2. f \in FrameType /\ f.fn = "cancel_table" /\ f.ids = t.ids \ {i}
      BY <2>1 DEF FrameType, Held
    <2>3. f = [Top EXCEPT !.ids = @ \ {i}] /\ f.ids = Top.ids \ {i}
      BY <2>1
    <2> HIDE DEF f
    <2> QED  BY <2>2, <2>3
  <1>6. FrameOK(f)
    BY <1>1, <1>4, <1>5 DEF FrameOK
  <1> DEFINE loop == <<f>> \o Rest
  <1>7. /\ loop \in Seq(FrameType) /\ Range(loop) = {f} \cup Range(Rest)
        /\ RetrierStays(loop)
    BY <1>4, <1>5, PushRange DEF Retrier
  <1> HIDE DEF loop
  <1>8. CASE /\ req_table[i] # None
             /\ Complete(req_table[i], "CANCELLED")
             /\ replies' = CancelReplies(req_table[i], Top.notify)
             /\ stack' = Cancelled(req_table[i], Top.notify) \o loop
    <2>1. i \in Ids
      BY <1>4 DEF FrameType
    <2>2. PICK r \in Req : r = req_table[i]
      BY <1>1, <1>8, <2>1 DEF ListInv, TypeOK, TableTypeOK, ReqOrNone
    <2>3. Known(r) /\ i \in OwnIds(r) /\ r \notin retry \cup resend
      BY <1>1, <2>1, <2>2 DEF ListInv, NewIsNowhere, TableKeys, Known, OwnIds
    <2>4. ASSUME Untimed(r)
          PROVE  Live(r) /\ r \notin Range(send_queue)
      <3>1. status \in [Req -> Statuses]
        BY <1>1 DEF ListInv, TypeOK, RequestTypeOK
      <3>2. status[r] \notin {"RETRY", "DONE", "CANCELLED"} /\ Placed(r)
        BY <2>1, <2>2, <2>3, <2>4 DEF RequestInv, Placed
      <3>3. status[r] # "QUEUED"
        BY <1>1, <1>4, <2>3, <2>4 DEF FrameOK
      <3> QED  BY <2>3, <3>1, <3>2, <3>3 DEF Placed, Live, Known, Statuses
    <2>5. Complete(r, "CANCELLED") /\ replies' \in {replies, Replied(r)}
      BY <1>8, <2>2, CancelTells
    <2>6. Untimed(r) => /\ Live(r) /\ ("CANCELLED" = "DONE" => status[r] = "SENT")
                        /\ r \notin Range(send_queue') \cup retry' \cup resend'
      BY <1>3, <2>3, <2>4
    <2>7. /\ \A s \in Req \ {r} : /\ s \in Range(send_queue') <=> s \in Range(send_queue)
                                  /\ s \in retry' \cup resend' <=> s \in retry \cup resend
          /\ resend' \subseteq resend
          /\ UNCHANGED <<prof, id, current_id, last_req_id, deadline, send_req, tx, expired>>
      BY <1>3
    <2>8. /\ Calm(Cancelled(r, Top.notify))
          /\ stack' = Cancelled(r, Top.notify) \o loop
      BY <1>8, <2>2, CalmCalls
    <2>9. /\ RetrierStays(stack')
          /\ Range(stack') = Range(Cancelled(r, Top.notify)) \cup {f} \cup Range(Rest)
      BY <1>7, <2>8, RetrierPush, RangeConcatenation DEF Calm, Busy
    <2>10. ASSUME NEW g, g = f PROVE FrameOK(g)'
      <3>1. /\ \A s \in Req : OwnIds(s)' = OwnIds(s) /\ (Untimed(s)' <=> Untimed(s))
            /\ last_req_id' = last_req_id
        BY <1>3 DEF OwnIds, Untimed, Timed
      <3>2. \A s \in Req : status'[s] \in {"QUEUED", "RETRY"} => status[s] \in {"QUEUED", "RETRY"}
        <4>1. status' = [status EXCEPT ![r] = "CANCELLED"] /\ status \in [Req -> Statuses]
          BY <1>1, <2>5 DEF Complete, ListInv, TypeOK, RequestTypeOK
        <4> QED  BY <4>1
      <3> QED  BY <1>5, <1>6, <2>10, <3>1, <3>2 DEF FrameOK
    <2>11. \A g \in Range(stack') : g \in Range(stack) \/ FrameOK(g)'
      <3>1. \A g \in Range(Cancelled(r, Top.notify)) : FrameOK(g)'
        BY <2>8 DEF Calm, Busy, FrameOK
      <3> QED  BY <1>4, <2>9, <2>10, <3>1
    <2> QED  BY <1>1, <2>3, <2>5, <2>6, <2>7, <2>9, <2>11, SettleThen
  <1>9. CASE /\ req_table[i] = None /\ stack' = loop
             /\ UNCHANGED <<status, queue, req_table, replies>>
    <2>1. Still /\ resend' \subseteq resend
      BY <1>3, <1>9 DEF Still, RequestInv
    <2>2. \A g \in Range(stack') : g \in Range(stack) \/ FrameOK(g)
      BY <1>4, <1>6, <1>7, <1>9
    <2>3. RetriesTaken'
      BY <1>7, <1>9, <2>1, TakenKept
    <2> QED  BY <1>1, <2>1, <2>2, <2>3, StillKeeps
  <1> QED  BY <1>2, <1>5, <1>8, <1>9 DEF loop

-----------------------------------------------------------------------------
(* Replies and timeouts.                                                   *)

\* grilio_channel_handle_response keeps RequestInv.
LEMMA HandleResponseKeeps ==
    ASSUME RequestInv, HandleResponse PROVE RequestInv' /\ LifeStep
  <1>1. /\ ListInv /\ ListInv' /\ stack \in Seq(FrameType) /\ Len(stack) = 1
        /\ stack # <<>> /\ Top.fn = "response"
    <2>1. /\ ListInv /\ ListInv' /\ stack \in Seq(FrameType)
          /\ stack # <<>> /\ Top.fn = "response"
      BY HandleResponseSound, RunningTop
      DEF RequestInv, HandleResponse, ListInv, TypeOK, StackTypeOK
    <2>2. Top \in Range(stack)
      BY <2>1, RestProperties
    <2>3. "response" \in Executing(stack)
      BY <2>1, <2>2 DEF Executing, Range
    <2> QED  BY <2>1, <2>3 DEF ListInv, FramesSound
  <1>2. UNCHANGED <<prof, id, current_id, last_req_id, send_req, send_queue, tx, expired, resend>>
    BY DEF HandleResponse, tmoVars, envVars
  <1>3. PICK i \in Top.ids :
          \/ /\ ~Answered(req_table[i])
             /\ stack' = <<Write, PendingUpdate>> \o Rest
             /\ UNCHANGED <<status, deadline, req_table, retry, replies>>
          \/ /\ Answered(req_table[i]) /\ ScheduleRetry(req_table[i])
             /\ stack' = <<Write, PendingUpdate>> \o Rest
             /\ replies' = replies
          \/ /\ Answered(req_table[i]) /\ Complete(req_table[i], "DONE")
             /\ replies' = Replied(req_table[i])
             /\ stack' = Notify(req_table[i]) \o <<Write, PendingUpdate>> \o Rest
             /\ UNCHANGED <<deadline, retry>>
    BY DEF HandleResponse
  <1>4. NothingNew(<<Write, PendingUpdate>> \o Rest)
    BY <1>1, CalmCalls, NewCalls
  <1>5. Top \in FrameType /\ i \in Ids
    BY <1>1, RestProperties DEF FrameType
  <1>6. CASE /\ stack' = <<Write, PendingUpdate>> \o Rest
             /\ UNCHANGED <<status, deadline, req_table, retry, replies>>
    <2>1. Still /\ resend' \subseteq resend
      BY <1>2, <1>6 DEF Still, RequestInv
    <2> QED  BY <1>1, <1>4, <1>6, <2>1, StillCalm
  <1>7. ASSUME Answered(req_table[i])
        PROVE  \E r \in Req : /\ r = req_table[i] /\ status[r] = "SENT" /\ Known(r) /\ Live(r)
                              /\ Untimed(r) => r \notin Range(send_queue) \cup retry \cup resend
    <2>1. PICK r \in Req : r = req_table[i]
      BY <1>1, <1>5, <1>7 DEF ListInv, TypeOK, TableTypeOK, ReqOrNone, Answered
    <2>2. status[r] = "SENT" /\ Known(r) /\ Live(r)
      BY <1>7, <2>1 DEF Answered, Known, Live
    <2>3. Untimed(r) => r \notin Range(send_queue) \cup retry \cup resend
      BY <2>2 DEF RequestInv, Placed
    <2> QED  BY <2>1, <2>2, <2>3
  <1>8. CASE /\ Answered(req_table[i]) /\ ScheduleRetry(req_table[i])
             /\ stack' = <<Write, PendingUpdate>> \o Rest
             /\ replies' = replies
    <2>1. PICK r \in Req : r = req_table[i] /\ status[r] = "SENT" /\ Known(r)
      BY <1>7, <1>8
    <2>2. ScheduleRetry(r) /\ NothingNew(stack')
      BY <1>4, <1>8, <2>1
    <2>3. ASSUME NEW f \in Range(stack') PROVE f.fn # "cancel_table"
      <3>1. f \in Range(stack) \/ f.fn \notin Busy
        BY <2>2 DEF NothingNew
      <3>2. \A g \in Range(stack) : g = Top
        BY <1>1, LenProperties DEF Top, Range
      <3> QED  BY <1>1, <3>1, <3>2 DEF Busy
    <2>4. Untimed(r) => status[r] = "SENT" /\ \A f \in Range(stack') : f.fn # "cancel_table"
      BY <2>1, <2>3
    <2>5. UNCHANGED <<prof, id, current_id, last_req_id, send_req, tx, expired, resend,
                      send_queue, replies>>
      BY <1>2, <1>8
    <2> QED  BY <1>1, <2>1, <2>2, <2>4, <2>5, RetryKeeps
  <1>9. CASE /\ Answered(req_table[i]) /\ Complete(req_table[i], "DONE")
             /\ replies' = Replied(req_table[i])
             /\ stack' = Notify(req_table[i]) \o <<Write, PendingUpdate>> \o Rest
             /\ UNCHANGED <<deadline, retry>>
    <2>1. PICK r \in Req : /\ r = req_table[i] /\ status[r] = "SENT" /\ Known(r) /\ Live(r)
                           /\ Untimed(r) => r \notin Range(send_queue) \cup retry \cup resend
      BY <1>7, <1>9
    <2>2. Complete(r, "DONE") /\ replies' \in {replies, Replied(r)}
      BY <1>9, <2>1
    <2>3. NothingNew(stack')
      <3>1. stack' = Notify(r) \o <<Write, PendingUpdate>> \o Rest
        BY <1>9, <2>1
      <3>2. Calm(Notify(r)) /\ Calm(<<Write, PendingUpdate>>)
            /\ Calm(Notify(r) \o <<Write, PendingUpdate>>)
        BY CalmCalls, CalmConcat
      <3> QED  BY <1>1, <3>1, <3>2, NewCalls
    <2>4. Untimed(r) => /\ Live(r) /\ ("DONE" = "DONE" => status[r] = "SENT")
                        /\ r \notin Range(send_queue') \cup retry' \cup resend'
      BY <1>2, <1>9, <2>1
    <2>5. /\ \A s \in Req \ {r} : /\ s \in Range(send_queue') <=> s \in Range(send_queue)
                                  /\ s \in retry' \cup resend' <=> s \in retry \cup resend
          /\ resend' \subseteq resend
          /\ UNCHANGED <<prof, id, current_id, last_req_id, deadline, send_req, tx, expired>>
      BY <1>2, <1>9
    <2> QED  BY <1>1, <2>1, <2>2, <2>3, <2>4, <2>5, SettleKeeps
  <1> QED  BY <1>3, <1>6, <1>8, <1>9

\* So does taking one request that has expired: it has a deadline of its own.
LEMMA ExpireOneKeeps ==
    ASSUME RequestInv, ExpireOne PROVE RequestInv' /\ LifeStep
  <1>1. /\ ListInv /\ ListInv' /\ stack \in Seq(FrameType)
        /\ stack # <<>> /\ Top.fn = "expire_one"
    BY ExpireOneSound, RunningTop
    DEF RequestInv, ExpireOne, ListInv, TypeOK, StackTypeOK
  <1>2. Top \in FrameType /\ Top \in Range(stack) /\ NothingNew(Rest)
    BY <1>1, RestProperties
  <1>3. PICK r \in Req : r = Top.req
    BY <1>1, <1>2 DEF FrameType, Held, ReqOrNone
  <1>4. Known(r) /\ ~Untimed(r)
    <2>1. r \in HeldBy(stack)
      BY <1>1, <1>2, <1>3, HeldFrame DEF Held
    <2>2. Timed(r)
      BY <1>1, <1>2, <1>3 DEF RequestInv, FrameOK
    <2> QED  BY <1>1, <2>1, <2>2 DEF ListInv, NewIsNowhere, Known, Untimed
  <1>5. /\ UNCHANGED <<prof, id, current_id, last_req_id, send_req, send_queue, tx, expired,
                       resend>>
        /\ \/ ScheduleRetry(r) /\ stack' = Rest /\ replies' = replies
           \/ /\ Complete(r, "DONE") /\ replies' = Replied(r)
              /\ stack' = Notify(r) \o Rest
              /\ UNCHANGED <<deadline, retry>>
    BY <1>3 DEF ExpireOne, envVars
  <1>6. CASE ScheduleRetry(r) /\ stack' = Rest /\ replies' = replies
    <2>1. Untimed(r) => status[r] = "SENT" /\ \A f \in Range(stack') : f.fn # "cancel_table"
      BY <1>4
    <2> QED  BY <1>1, <1>2, <1>4, <1>5, <1>6, <2>1, RetryKeeps
  <1>7. CASE /\ Complete(r, "DONE") /\ replies' = Replied(r)
             /\ stack' = Notify(r) \o Rest
             /\ UNCHANGED <<deadline, retry>>
    <2>1. NothingNew(stack')
      BY <1>1, <1>7, CalmCalls, NewCalls
    <2>2. Untimed(r) => /\ Live(r) /\ ("DONE" = "DONE" => status[r] = "SENT")
                        /\ r \notin Range(send_queue') \cup retry' \cup resend'
      BY <1>4
    <2>3. /\ \A s \in Req \ {r} : /\ s \in Range(send_queue') <=> s \in Range(send_queue)
                                  /\ s \in retry' \cup resend' <=> s \in retry \cup resend
          /\ resend' \subseteq resend
          /\ UNCHANGED <<prof, id, current_id, last_req_id, deadline, send_req, tx, expired>>
      BY <1>5, <1>7
    <2>4. replies' \in {replies, Replied(r)} /\ Complete(r, "DONE")
      BY <1>7
    <2> QED  BY <1>1, <1>4, <2>1, <2>2, <2>3, <2>4, SettleKeeps
  <1> QED  BY <1>5, <1>6, <1>7

-----------------------------------------------------------------------------
(* RequestInv is inductive.                                                *)

\* Before anything happens all requests are new.
LEMMA InitKeeps == Init => RequestInv
  <1> SUFFICES ASSUME Init PROVE RequestInv
    OBVIOUS
  <1>1. ListInv
    BY InitSound
  <1>2. RetriesTaken
    BY DEF Init, RetriesTaken, OneRetrier
  <1>3. \A r \in Req : ~Known(r) /\ replies[r] = 0
    BY DEF Init, Known
  <1>4. send_req = None /\ tx = None /\ expired = {} /\ Range(stack) = {}
    BY DEF Init, Range
  <1>5. IdsGiven /\ IdsApart /\ NewUnknown
    BY <1>3, <1>4 DEF IdsGiven, IdsApart, NewUnknown
  <1> QED  BY <1>1, <1>2, <1>3, <1>4, <1>5 DEF RequestInv

\* Nothing happens.
LEMMA StutterKeeps ==
    ASSUME RequestInv, UNCHANGED vars PROVE RequestInv' /\ LifeStep
  <1>1. /\ ListInv' /\ stack' = stack
        /\ UNCHANGED <<prof, status, id, current_id, last_req_id, deadline, req_table, send_req,
                       send_queue, retry, tx, expired, resend, replies>>
    BY StutterSound DEF RequestInv, vars, reqVars, sendVars, tabVars, tmoVars, envVars
  <1>2. Still
    BY <1>1 DEF Still, RequestInv
  <1>3. RetrierStays(stack')
    BY <1>1 DEF RetrierStays
  <1> QED  BY <1>1, <1>2, <1>3, TakenKept, StillKeeps

\* Every step keeps RequestInv, unless the ids wrap around, and changes the status of one
\* request at most.
LEMMA RequestStep ==
    ASSUME RequestInv, [Next]_vars, [FreshStep]_vars
    PROVE  RequestInv' /\ LifeStep
  <1>1. CASE UNCHANGED vars
    BY <1>1, StutterKeeps
  <1>2. ASSUME FreshStep, AppCall PROVE RequestInv' /\ LifeStep
    BY <1>2, SendThroughKeeps, CancelRequestKeeps, CancelAllKeeps, RetryRequestKeeps,
       DropRequestKeeps, SerializeKeeps, ReturnKeeps
    DEF AppCall, SendRequest, KnownIds
  <1>3. ASSUME FreshStep, Event PROVE RequestInv' /\ LifeStep
    BY <1>3, LinkKeeps, RequestSentKeeps, ResponseKeeps, IndicationKeeps, TimeoutKeeps,
       PendingTimeoutKeeps
    DEF Event
  <1>4. ASSUME FreshStep, Step PROVE RequestInv' /\ LifeStep
    BY <1>4, DequeueKeeps, SubmitKeeps, HandleResponseKeeps, ExpirePendingKeeps,
       ExpireOneKeeps, TakeRetriesKeeps, RequeueNextKeeps, RequeueEndKeeps, ReturnKeeps,
       CancelQueuedKeeps, CancelTableStartKeeps, CancelTableKeeps, CancelRetryKeeps
    DEF Step
  <1>5. CASE FreshStep /\ Next
    BY <1>2, <1>3, <1>4, <1>5 DEF Next
  <1> QED  BY <1>1, <1>5

\* RequestInv is inductive as long as the ids do not wrap around: a request without a
\* deadline is where its status says, whatever happens to the others.
THEOREM RequestInvHolds == Spec /\ FreshIds => []RequestInv
  <1>1. RequestInv /\ [Next]_vars /\ [FreshStep]_vars => RequestInv'
    BY RequestStep
  <1> QED  BY InitKeeps, <1>1, PTL DEF Spec, FreshIds

-----------------------------------------------------------------------------
(* What follows where no request has a deadline.                           *)

\* The application sets no timeout, neither for the channel nor for a request.
NoTimeouts == ~DefaultTimeout /\ \A p \in Profiles : p.timeout # "own"

\* Then no request has a deadline, acknowledgements included.
LEMMA AllUntimed ==
    ASSUME NoTimeouts, RequestInv PROVE \A r \in Req : Untimed(r)
  <1>1. prof \in [Req -> Profiles \cup {AckProfile}]
    BY DEF RequestInv, ListInv, TypeOK, RequestTypeOK
  <1>2. AckProfile.timeout = "default"
    BY DEF AckProfile
  <1> QED  BY <1>1, <1>2 DEF NoTimeouts, Untimed, Timed

\* A request that is over is in no structure that could complete it again.
THEOREM OverForgotten ==
    ASSUME NoTimeouts
    PROVE  Spec /\ FreshIds => []OverIsForgotten
  <1>1. RequestInv => OverIsForgotten
    <2> SUFFICES ASSUME RequestInv, NEW r \in Req, status[r] \in {"DONE", "CANCELLED"}
                 PROVE  /\ \A i \in Ids : req_table[i] # r
                        /\ \A k \in DOMAIN send_queue : send_queue[k] # r
                        /\ r \notin retry
      BY DEF OverIsForgotten
    <2>1. Known(r) /\ Placed(r)
      BY AllUntimed DEF Known, RequestInv
    <2>2. r \notin Range(send_queue) /\ r \notin retry
      BY <2>1 DEF Placed
    <2> QED  BY <2>1, <2>2 DEF Placed, Range
  <1> QED  BY <1>1, RequestInvHolds, PTL

\* The packet that is being written belongs to a request that is being sent, or that was
\* cancelled meanwhile: what grilio_channel_request_sent asserts.
THEOREM WrittenBelongs ==
    ASSUME NoTimeouts
    PROVE  Spec /\ FreshIds => []WrittenIsSending
  <1>1. RequestInv => WrittenIsSending
    <2> SUFFICES ASSUME RequestInv, tx # None PROVE status[tx.req] \in {"SENDING", "CANCELLED"}
      BY DEF WrittenIsSending
    <2>1. tx.req \in Req
      BY DEF RequestInv, ListInv, TypeOK, EnvTypeOK
    <2>2. Known(tx.req)
      BY <2>1 DEF RequestInv, NewUnknown
    <2>3. Placed(tx.req)
      BY <2>1, <2>2, AllUntimed DEF RequestInv
    <2> QED  BY <2>3 DEF Placed
  <1> QED  BY <1>1, RequestInvHolds, PTL

\* A step moves one request from a status to one that may follow it.
LEMMA StatusMoves ==
    ASSUME NoTimeouts, RequestInv, RequestInv', NEW r \in Req, NEW to \in Statuses, Moves(r, to)
    PROVE  /\ status' = [status EXCEPT ![r] = to] /\ status \in [Req -> Statuses]
           /\ <<status[r], to>> \in Transitions \/ (to = "CANCELLED" /\ Live(r))
           /\ \/ replies' = replies
              \/ /\ to \in {"DONE", "CANCELLED"} /\ Live(r) /\ replies[r] = 0
                 /\ replies' = Replied(r)
  <1>1. Untimed(r)'
    <2>1. prof'[r] \in Profiles \cup {AckProfile} /\ AckProfile.timeout = "default"
      BY DEF RequestInv, ListInv, TypeOK, RequestTypeOK, AckProfile
    <2> QED  BY <2>1 DEF NoTimeouts, Untimed, Timed
  <1>2. Untimed(r)
    BY AllUntimed
  <1> QED  BY <1>1, <1>2 DEF Moves, RequestInv, ListInv, TypeOK, RequestTypeOK

\* A request goes through its states in order, and what is over stays over.
THEOREM LifeGoesOn ==
    ASSUME NoTimeouts
    PROVE  Spec /\ FreshIds => LifeCycle
  <1> DEFINE Ordered == \A r \in Req : \/ status'[r] = status[r]
                                       \/ <<status[r], status'[r]>> \in Transitions
                                       \/ status'[r] = "CANCELLED" /\ Live(r)
  <1>1. RequestInv /\ RequestInv' /\ [Next]_vars /\ [FreshStep]_vars => [Ordered]_vars
    <2> SUFFICES ASSUME RequestInv, RequestInv', [Next]_vars, [FreshStep]_vars PROVE Ordered
      OBVIOUS
    <2>1. LifeStep
      BY RequestStep
    <2>2. ASSUME NEW r \in Req, NEW to \in Statuses, Moves(r, to) PROVE Ordered
      BY <2>2, StatusMoves
    <2> QED  BY <2>1, <2>2 DEF LifeStep
  <1> QED  BY <1>1, RequestInvHolds, PTL DEF Spec, FreshIds, LifeCycle

\* What is promised to the one who submits a request is kept: every step settles one
\* request that was waiting, with at most one call of its callback, submits one, or
\* changes nothing the application can see.
THEOREM PromiseKept ==
    ASSUME NoTimeouts
    PROVE  Spec /\ FreshIds => KeepsPromise
  <1>1. Init => Promise!Init
    BY DEF Init, Promise!Init, Phase
  <1>2. RequestInv /\ RequestInv' /\ [Next]_vars /\ [FreshStep]_vars
          => [Promise!Next]_Promise!vars
    <2> SUFFICES ASSUME RequestInv, RequestInv', [Next]_vars, [FreshStep]_vars
                 PROVE  Promise!Next \/ UNCHANGED Promise!vars
      OBVIOUS
    <2> DEFINE phase == [r \in Req |-> Phase(r)]
    <2>1. CASE UNCHANGED <<status, replies>>
      BY <2>1 DEF Promise!vars, Phase
    <2>2. ASSUME NEW r \in Req, NEW to \in Statuses, Moves(r, to)
          PROVE  Promise!Next \/ UNCHANGED Promise!vars
      <3>1. /\ status' = [status EXCEPT ![r] = to] /\ status \in [Req -> Statuses]
            /\ <<status[r], to>> \in Transitions \/ (to = "CANCELLED" /\ Live(r))
            /\ \/ replies' = replies
               \/ /\ to \in {"DONE", "CANCELLED"} /\ Live(r) /\ replies[r] = 0
                  /\ replies' = Replied(r)
        BY <2>2, StatusMoves
      <3>2. \A s \in Req : Phase(s)' = IF s = r THEN Phase(r)' ELSE Phase(s)
        BY <3>1 DEF Phase
      <3>3. phase' = [phase EXCEPT ![r] = Phase(r)']
        BY <3>2
      <3>4. phase[r] = Phase(r)
        OBVIOUS
      <3>5. CASE status[r] = "NEW"
        <4>1. Phase(r) = "new" /\ Phase(r)' = "waiting" /\ replies' = replies
          BY <3>1, <3>5 DEF Phase, Transitions, Live
        <4>2. Promise!Submit(r)
          BY <3>3, <3>4, <4>1 DEF Promise!Submit
        <4> QED  BY <4>2 DEF Promise!Next
      <3>6. CASE to \in {"DONE", "CANCELLED"}
        <4>1. Phase(r) = "waiting"
              /\ Phase(r)' = IF to = "DONE" THEN "answered" ELSE "cancelled"
          BY <3>1, <3>6 DEF Phase, Transitions, Live
        <4>2. replies' = [replies EXCEPT ![r] = @ + 1] \/ replies' = replies
          BY <3>1 DEF Replied
        <4>3. Promise!Settle(r, "answered") \/ Promise!Settle(r, "cancelled")
          BY <3>3, <3>4, <4>1, <4>2 DEF Promise!Settle
        <4> QED  BY <4>3 DEF Promise!Next
      <3>7. CASE status[r] # "NEW" /\ to \notin {"DONE", "CANCELLED"}
        <4>1. Phase(r) = "waiting" /\ Phase(r)' = "waiting" /\ replies' = replies
          BY <3>1, <3>7 DEF Phase, Transitions, Live
        <4>2. phase' = phase
          BY <3>2, <4>1
        <4> QED  BY <4>1, <4>2 DEF Promise!vars
      <3> QED  BY <3>5, <3>6, <3>7
    <2>3. LifeStep
      BY RequestStep
    <2> QED  BY <2>1, <2>2, <2>3 DEF LifeStep
  <1> QED
    BY <1>1, <1>2, RequestInvHolds, PTL DEF Spec, FreshIds, KeepsPromise, Promise!Spec

-----------------------------------------------------------------------------
(* Cancelling by the id works.                                             *)

\* While grilio_channel_timeout has due retries in its hands, it is being executed, or
\* the schedule_write it calls for each of them.
RetriesHidden ==
    resend # {} =>
        \/ Running("requeue")
        \/ /\ Running("schedule_write") \/ Running("submit")
           /\ Rest # <<>> /\ Head(Rest).fn = "requeue"

\* Retries become due in one place only.
LEMMA RetriesComeDue ==
    ASSUME Next, ~TakeRetries PROVE resend' \subseteq resend
  <1>1. CASE AppCall
    BY <1>1
    DEF AppCall, SendRequest, SendThrough, CancelRequest, CancelAll, RetryRequest, DropRequest,
        CancelThen, Serialize, Deserialize, AppReturns, tmoVars
  <1>2. CASE Event
    BY <1>2
    DEF Event, Connected, Disconnected, RequestSent, Response, Indication, Timeout,
        PendingTimeout, tmoVars
  <1>3. CASE Step
    BY <1>3
    DEF Step, WriteStop, Dequeue, Submit, UpdatePending, ResetTimeout, HandleResponse,
        ExpirePending, ExpireOne, ExpireEnd, RequeueNext, RequeueEnd, DropPending,
        CancelQueued, CancelTableStart, CancelTable, CancelRetry, CancelLoopEnd,
        CancelAllEnd, tmoVars
  <1> QED  BY <1>1, <1>2, <1>3 DEF Next

\* While one of these functions is on top nothing else can happen.
LEMMA OnlyTheRetrier ==
    ASSUME Next, Running("requeue") \/ Running("schedule_write") \/ Running("submit")
    PROVE  WriteStop \/ Dequeue \/ Submit \/ RequeueNext \/ RequeueEnd
  <1>1. stack # <<>> /\ ~Running("app")
    BY DEF Running
  <1>2. ~AppCall
    BY <1>1
    DEF AppCall, SendRequest, SendThrough, CancelRequest, CancelAll, RetryRequest, DropRequest,
        Serialize, Deserialize, AppReturns, AppRuns
  <1>3. ~Event
    BY <1>1
    DEF Event, Connected, Disconnected, RequestSent, Response, Indication, Timeout,
        PendingTimeout, Idle, AppRuns
  <1> QED
    BY <1>2, <1>3
    DEF Next, Step, Running, UpdatePending, ResetTimeout, HandleResponse, ExpirePending,
        ExpireOne, ExpireEnd, TakeRetries, DropPending, CancelQueued, CancelTableStart,
        CancelTable, CancelRetry, CancelLoopEnd, CancelAllEnd

\* Every step keeps RetriesHidden, if the application does not handle pending-changed.
LEMMA HiddenStep ==
    ASSUME ListInv, RetriesHidden, [Next]_vars, "pending" \notin Reentrant
    PROVE  RetriesHidden'
  <1>1. CASE UNCHANGED vars
    BY <1>1 DEF vars, tmoVars, RetriesHidden, Running, Rest
  <1> SUFFICES ASSUME Next, resend' # {} PROVE RetriesHidden'
    BY <1>1 DEF RetriesHidden
  <1>2. stack \in Seq(FrameType) /\ (stack # <<>> => Rest \in Seq(FrameType))
    BY RestTyped DEF ListInv, TypeOK, StackTypeOK
  <1>3. Write \in FrameType /\ Write.fn = "schedule_write"
    BY ConstFrames DEF Write, Frame
  <1>4. CASE TakeRetries
    <2> DEFINE f == Frame("requeue")
    <2>1. f \in FrameType /\ f.fn = "requeue"
      BY FrameTyped DEF Functions, Frame
    <2>2. stack' = <<f>> \o Rest /\ stack # <<>>
      BY <1>4 DEF TakeRetries, Running
    <2> HIDE DEF f
    <2> QED  BY <1>2, <2>1, <2>2, PushTop DEF RetriesHidden, Running
  <1>5. CASE ~TakeRetries
    <2>1. resend # {}
      BY <1>5, RetriesComeDue
    <2>2. WriteStop \/ Dequeue \/ Submit \/ RequeueNext \/ RequeueEnd
      BY <2>1, OnlyTheRetrier DEF RetriesHidden
    <2>3. CASE RequeueNext
      <3>1. Running("requeue") /\ stack' = <<Write>> \o stack
        BY <2>3 DEF RequeueNext
      <3> QED  BY <1>2, <1>3, <3>1, PushTop DEF RetriesHidden, Running, Rest
    <2>4. CASE RequeueEnd
      BY <2>1, <2>4 DEF RequeueEnd
    <2>5. ASSUME Running("schedule_write") \/ Running("submit")
          PROVE  Rest # <<>> /\ Head(Rest).fn = "requeue" /\ Rest \in Seq(FrameType)
      BY <1>2, <2>1, <2>5 DEF RetriesHidden, Running
    <2>6. CASE WriteStop
      BY <2>5, <2>6 DEF WriteStop, RetriesHidden, Running
    <2>7. CASE Submit
      <3>1. Running("submit") /\ (stack' = <<Write>> \o Rest \/ stack' = Rest)
        BY <2>7 DEF Submit
      <3>2. ASSUME stack' = <<Write>> \o Rest PROVE RetriesHidden'
        BY <1>3, <2>5, <3>1, <3>2, PushTop DEF RetriesHidden, Running, Rest
      <3>3. ASSUME stack' = Rest PROVE RetriesHidden'
        BY <2>5, <3>1, <3>3 DEF RetriesHidden, Running
      <3> QED  BY <3>1, <3>2, <3>3
    <2>8. CASE Dequeue
      <3>1. PICK k \in DequeueIdx : Dequeue!3!(k)!2
        BY <2>8 DEF Dequeue
      <3> DEFINE f == [Frame("submit") EXCEPT !.req = send_queue[k]]
      <3>2. f \in FrameType /\ f.fn = "submit"
        <4>1. send_queue \in Seq(Req) /\ k \in DOMAIN send_queue
          BY DEF ListInv, TypeOK, SendTypeOK, DequeueIdx, OrdinaryIdx, InternalIdx
        <4> QED  BY <4>1, InDomain, HeldTyped DEF Frame
      <3>3. stack' = <<f>> \o Rest
        <4>1. stack' = <<f>> \o Rest \/ stack' = <<>> \o <<f>> \o Rest
          BY <3>1 DEF Call
        <4>2. <<>> \o <<f>> = <<f>>
          OBVIOUS
        <4> HIDE DEF f
        <4> QED  BY <4>1, <4>2
      <3> HIDE DEF f
      <3>4. Running("schedule_write")
        BY <2>8 DEF Dequeue
      <3> QED  BY <2>5, <3>2, <3>3, <3>4, PushTop DEF RetriesHidden, Running, Rest
    <2> QED  BY <2>2, <2>3, <2>4, <2>6, <2>7, <2>8
  <1> QED  BY <1>4, <1>5

\* A request without a deadline that is alive is what its id leads to.
LEMMA IdLeadsTo ==
    ASSUME RequestInv, resend = {}, NEW r \in Req, Untimed(r), Live(r)
    PROVE  LookUp(id[r]) = r
  <1> DEFINE i == id[r]
             Queued   == {k \in DOMAIN send_queue : id[send_queue[k]] = i}
             Retrying == {s \in retry : id[s] = i}
  <1>1. /\ ListInv /\ send_queue \in Seq(Req) /\ IsInjective(send_queue)
        /\ send_req \in ReqOrNone /\ req_table \in [Ids -> ReqOrNone] /\ retry \subseteq Req
    BY DEF RequestInv, ListInv, TypeOK, SendTypeOK, TableTypeOK, ListIntegrity
  <1>2. Known(r) /\ Placed(r) /\ i \in Ids /\ i \in OwnIds(r)
    <2>1. Known(r) /\ Placed(r) /\ i \in OwnIds(r)
      BY DEF RequestInv, Live, Known, OwnIds
    <2> QED  BY <2>1 DEF RequestInv, IdsGiven, ListInv, TypeOK, TableTypeOK, Ids
  <1>3. \A s \in Req : Known(s) /\ i \in OwnIds(s) => s = r
    BY <1>2 DEF RequestInv, IdsApart
  <1>4. send_req # None /\ id[send_req] = i => send_req = r
    BY <1>1, <1>3 DEF ReqOrNone, RequestInv, NewUnknown, OwnIds
  <1>5. \A k \in Queued : send_queue[k] = r
    <2> TAKE k \in Queued
    <2>1. send_queue[k] \in Req /\ send_queue[k] \in Range(send_queue)
      BY <1>1, InDomain
    <2>2. Known(send_queue[k])
      BY <1>1, <2>1 DEF ListInv, NewIsNowhere, Known
    <2> QED  BY <1>3, <2>1, <2>2 DEF OwnIds
  <1>6. req_table[i] # None => req_table[i] = r
    <2> SUFFICES ASSUME req_table[i] # None PROVE req_table[i] = r
      OBVIOUS
    <2>1. PICK s \in Req : s = req_table[i]
      BY <1>1, <1>2 DEF ReqOrNone
    <2>2. Known(s) /\ i \in OwnIds(s)
      BY <1>1, <1>2, <2>1 DEF ListInv, NewIsNowhere, TableKeys, Known, OwnIds
    <2> QED  BY <1>3, <2>1, <2>2
  <1>7. \A s \in Retrying : s = r
    BY <1>1, <1>3 DEF ListInv, NewIsNowhere, Known, OwnIds
  <1>8. Queued # {} \/ req_table[i] # None \/ Retrying # {}
    <2>1. CASE status[r] = "QUEUED"
      BY <1>2, <2>1 DEF Placed, Range
    <2>2. CASE status[r] \in {"SENDING", "SENT"}
      BY <1>2, <2>2 DEF Placed
    <2>3. CASE status[r] = "RETRY"
      BY <1>2, <2>3 DEF Placed
    <2> QED  BY <2>1, <2>2, <2>3 DEF Live
  <1>9. ASSUME Queued # {}
        PROVE  send_queue[CHOOSE k \in Queued : \A j \in Queued : k <= j] = r
    <2>1. PICK k \in Queued : TRUE
      BY <1>9
    <2>2. \A j \in Queued : k = j /\ k <= j
      <3> TAKE j \in Queued
      <3>1. send_queue[k] = send_queue[j]
        BY <1>5
      <3>2. k = j
        BY <1>1, <3>1 DEF IsInjective
      <3> QED  BY <1>1, <3>2, LenProperties
    <2>3. (CHOOSE n \in Queued : \A j \in Queued : n <= j) \in Queued
      BY <2>1, <2>2
    <2> QED  BY <1>5, <2>3
  <1>10. Retrying # {} => (CHOOSE s \in Retrying : TRUE) = r
    BY <1>7
  <1> HIDE DEF i, Queued, Retrying
  <1>11. LookUp(i) = IF send_req # None /\ id[send_req] = i THEN send_req
           ELSE IF Queued # {} THEN send_queue[CHOOSE k \in Queued : \A j \in Queued : k <= j]
           ELSE IF req_table[i] # None THEN req_table[i]
           ELSE IF Retrying # {} THEN CHOOSE s \in Retrying : TRUE
           ELSE None
    BY DEF LookUp, Queued, Retrying
  <1>12. LookUp(i) = r
    BY <1>4, <1>6, <1>8, <1>9, <1>10, <1>11
  <1> QED  BY <1>12 DEF i

\* Whenever the application can call, the id it was given leads to its request as long
\* as the request is alive: cancelling it works, whatever structure it sits in.
THEOREM CancelFinds ==
    ASSUME NoTimeouts, "pending" \notin Reentrant
    PROVE  Spec /\ FreshIds => []CancelFindsRequest
  <1>1. Init => RetriesHidden
    BY DEF Init, RetriesHidden
  <1>2. RequestInv /\ RetriesHidden /\ [Next]_vars => RetriesHidden'
    BY HiddenStep DEF RequestInv
  <1>3. RequestInv /\ RetriesHidden => CancelFindsRequest
    <2> SUFFICES ASSUME RequestInv, RetriesHidden, Visible, NEW r \in Req, Live(r)
                 PROVE  LookUp(id[r]) = r
      BY DEF CancelFindsRequest
    <2>1. resend = {}
      BY DEF Visible, RetriesHidden, Running
    <2>2. Untimed(r)
      BY AllUntimed
    <2> QED  BY <2>1, <2>2, IdLeadsTo
  <1> QED  BY <1>1, <1>2, <1>3, RequestInvHolds, PTL DEF Spec

-----------------------------------------------------------------------------
(* Tries: what is said of a request under one of its serials.              *)

\* A request that was handed to send_next_request and does not wait for another try.
InFlight(r) == status[r] \in {"SENDING", "SENT", "CANCELLED", "DONE"}

\* If i is an id of a request, it is the serial of the try that is the last one.
LastTry(i) == \A r \in Req : Known(r) /\ i \in OwnIds(r) => InFlight(r) /\ i = current_id[r]

\* What is pending, what is being written, what the daemon has and what it replies to.
TryInv ==
    /\ \A i \in Ids : pending[i] # None => InFlight(pending[i]) /\ i = current_id[pending[i]]
    /\ tx # None => InFlight(tx.req) /\ tx.serial = current_id[tx.req]
    /\ \A i \in rild : i <= last_req_id /\ LastTry(i)
    /\ Running("response") => \A i \in Top.ids : i \notin rild /\ LastTry(i)

\* When dequeue_request has taken a request off the queue no reply is being handled.
LEMMA DequeueBegins ==
    ASSUME ListInv, Dequeue
    PROVE  "response" \in Executing(stack') => "response" \in Executing(stack)
  <1>1. PICK k \in DequeueIdx : Dequeue!3!(k)!2
    BY DEF Dequeue
  <1> DEFINE f == [Frame("submit") EXCEPT !.req = send_queue[k]]
             pre == IF last_pending THEN <<>> ELSE Call("pending")
  <1>2. stack \in Seq(FrameType) /\ send_queue \in Seq(Req) /\ k \in DOMAIN send_queue
    BY DEF ListInv, TypeOK, StackTypeOK, SendTypeOK, DequeueIdx, OrdinaryIdx, InternalIdx
  <1>3. f \in FrameType /\ f.fn = "submit" /\ Held(f)
    BY <1>2, InDomain, HeldTyped DEF Frame, Held
  <1>4. stack' = <<f>> \o Rest \/ stack' = pre \o <<f>> \o Rest
    BY <1>1
  <1>5. Plain(pre)
    BY PlainCalls
  <1>6. Rest \in Seq(FrameType) /\ Executing(stack) = {"schedule_write"} \cup Executing(Rest)
    BY <1>2, RestTyped, PopFrame DEF Dequeue, Running, Rest, ListInv, TypeOK, StackTypeOK
  <1> HIDE DEF f, pre
  <1> DEFINE t == <<f>> \o Rest
  <1>7. t \in Seq(FrameType) /\ Executing(t) = {"submit"} \cup Executing(Rest)
    BY <1>3, <1>6, PushTyped, PushHeldFrame
  <1>8. pre \o <<f>> \o Rest = pre \o t
    <2>1. <<f>> \in Seq(FrameType)
      BY <1>3
    <2> QED  BY <1>5, <1>6, <2>1, ConcatAssociative DEF Plain
  <1> HIDE DEF t
  <1>9. Executing(pre \o t) = Executing(pre) \cup Executing(t)
    BY <1>5, <1>7, PushFrames DEF Plain
  <1>10. stack' = t \/ stack' = pre \o t
    BY <1>4, <1>8 DEF t
  <1> QED  BY <1>5, <1>6, <1>7, <1>9, <1>10, PlainNoSubmit

\* A reply is handled from the moment it arrives, and at once.
LEMMA RepliesArrive ==
    ASSUME PendingInv, ListInv', Next, ~\E i \in Ids, a \in ReqOrNone : Response(i, a)
    PROVE  ~Running("response")'
  <1> SUFFICES ASSUME Running("response")' PROVE FALSE
    OBVIOUS
  <1>1. ListInv /\ stack \in Seq(FrameType) /\ stack' \in Seq(FrameType)
    BY DEF PendingInv, ListInv, TypeOK, StackTypeOK
  <1>2. "response" \in Executing(stack') /\ Len(stack') = 1
    BY <1>1, PopFrame DEF Running, ListInv, FramesSound
  <1>3. "response" \in Executing(stack)
    <2>1. CASE AppCall
      BY <1>1, <1>2, <2>1, AppCallSteady DEF Steady, Flow, NoneBegins
    <2>2. CASE Event
      BY <1>1, <1>2, <2>2, ConnectedSteady, IndicationSteady, TimeoutSteady, LinkKeepsPending,
         PendingTimeoutSettles
      DEF Event, Steady, Settling, Flow, NoneBegins
    <2>3. CASE Step
      <3>1. CASE Dequeue
        BY <1>1, <1>2, <3>1, DequeueBegins
      <3>2. CASE Submit
        BY <1>1, <1>2, <3>2, SubmitKeepsPending DEF Flow, NoneBegins
      <3>3. CASE UpdatePending \/ HandleResponse \/ ExpirePending \/ DropPending
        BY <1>1, <1>2, <3>3, UpdatePendingSettles, HandleResponseSettles,
           ExpirePendingSettles, DropPendingSettles
        DEF Settling, NoneBegins
      <3>4. CASE ~(Dequeue \/ Submit \/ UpdatePending \/ HandleResponse \/ ExpirePending
                     \/ DropPending)
        BY <1>1, <1>2, <2>3, <3>4, StepSteady DEF Steady, Flow, NoneBegins
      <3> QED  BY <3>1, <3>2, <3>3, <3>4
    <2> QED  BY <2>1, <2>2, <2>3 DEF Next
  <1>4. Len(stack) = 1 /\ stack # <<>> /\ Rest = <<>> /\ Top.fn = "response"
    <2>1. Len(stack) = 1
      BY <1>1, <1>3 DEF ListInv, FramesSound
    <2>2. stack # <<>> /\ Rest \in Seq(FrameType) /\ Len(Rest) = 0
      BY <1>1, <2>1, HeadTailProperties DEF Rest
    <2>3. Rest = <<>>
      BY <2>2, EmptySeq
    <2>4. Executing(stack) = {Top.fn} \cup Executing(Rest) /\ Executing(Rest) = {}
      BY <1>1, <2>2, <2>3, PopFrame DEF Top, Rest, Executing
    <2> QED  BY <1>3, <2>1, <2>2, <2>3, <2>4
  <1>5. HandleResponse
    <2>1. ~AppCall
      BY <1>4
      DEF AppCall, SendRequest, SendThrough, CancelRequest, CancelAll, RetryRequest,
          DropRequest, Serialize, Deserialize, AppReturns, AppRuns, Running, Top
    <2>2. ~Event
      BY <1>4
      DEF Event, Connected, Disconnected, RequestSent, Response, Indication, Timeout,
          PendingTimeout, Idle, AppRuns, Running, Top
    <2> QED
      BY <1>4, <2>1, <2>2
      DEF Next, Step, Running, Top, WriteStop, Dequeue, Submit, UpdatePending, ResetTimeout,
          ExpirePending, ExpireOne, ExpireEnd, TakeRetries, RequeueNext, RequeueEnd,
          DropPending, CancelQueued, CancelTableStart, CancelTable, CancelRetry,
          CancelLoopEnd, CancelAllEnd
  <1>6. Len(stack') >= 2
    <2>1. \/ stack' = <<Write, PendingUpdate>> \o <<>>
          \/ \E r : stack' = Notify(r) \o <<Write, PendingUpdate>> \o <<>>
      BY <1>4, <1>5 DEF HandleResponse
    <2>2. <<Write, PendingUpdate>> \in Seq(FrameType) /\ Len(<<Write, PendingUpdate>>) = 2
          /\ <<>> \in Seq(FrameType) /\ Len(<<>>) = 0
      BY ConstFrames
    <2>3. \A r : Notify(r) \in Seq(FrameType)
      BY CalmCalls DEF Calm
    <2> DEFINE wp == <<Write, PendingUpdate>>
    <2>4. wp \in Seq(FrameType) /\ Len(wp) = 2
      BY <2>2
    <2>5. \/ stack' = wp \o <<>>
          \/ \E r : stack' = Notify(r) \o wp \o <<>>
      BY <2>1
    <2> HIDE DEF wp
    <2>6. wp \o <<>> \in Seq(FrameType) /\ Len(wp \o <<>>) = 2
      BY <2>2, <2>4, ConcatProperties
    <2>7. ASSUME NEW pre \in Seq(FrameType) PROVE Len((pre \o wp) \o <<>>) >= 2
      <3>1. pre \o wp \in Seq(FrameType) /\ Len(pre \o wp) = Len(pre) + Len(wp)
        BY <2>4, ConcatProperties
      <3>2. Len(pre) \in Nat
        BY LenProperties
      <3>3. Len((pre \o wp) \o <<>>) = Len(pre \o wp) + Len(<<>>)
        BY <2>2, <3>1, ConcatProperties
      <3> QED  BY <2>2, <2>4, <3>1, <3>2, <3>3
    <2>8. CASE stack' = wp \o <<>>
      BY <2>6, <2>8
    <2>9. CASE \E r : stack' = Notify(r) \o wp \o <<>>
      BY <2>3, <2>7, <2>9
    <2> QED  BY <2>5, <2>8, <2>9
  <1> QED  BY <1>2, <1>6

\* A step that gives nobody a new id, and sends nobody back to the queue, keeps TryInv if
\* what becomes pending, is written, or reaches the daemon is the last try of somebody.
LEMMA FlightKept ==
    ASSUME RequestInv, TryInv, UNCHANGED <<id, current_id, last_req_id>>,
           ~Running("response")',
           \A r \in Req : InFlight(r) => InFlight(r)',
           \A r \in Req : Known(r)' => Known(r),
           \A i \in Ids : \/ pending'[i] \in {pending[i], None}
                          \/ \E s \in Req : pending'[i] = s /\ i = current_id[s] /\ InFlight(s)',
           \A i \in rild' : \/ i \in rild
                            \/ \E s \in Req : Known(s) /\ i = current_id[s] /\ InFlight(s)',
           \/ tx' \in {tx, None}
           \/ \E s \in Req : tx'.req = s /\ tx'.serial = current_id[s] /\ InFlight(s)'
    PROVE  TryInv'
  <1>1. /\ pending \in [Ids -> ReqOrNone] /\ last_req_id \in Nat
        /\ tx # None => tx.req \in Req
    BY DEF RequestInv, ListInv, TypeOK, TableTypeOK, EnvTypeOK
  <1>2. \A i \in Ids : pending'[i] # None =>
          status'[pending'[i]] \in {"SENDING", "SENT", "CANCELLED", "DONE"}
            /\ i = current_id'[pending'[i]]
    BY <1>1 DEF TryInv, InFlight, ReqOrNone
  <1>3. tx' # None => status'[tx'.req] \in {"SENDING", "SENT", "CANCELLED", "DONE"}
                        /\ tx'.serial = current_id'[tx'.req]
    BY <1>1 DEF TryInv, InFlight
  <1>4. ASSUME NEW i \in rild' PROVE i <= last_req_id /\ LastTry(i)'
    <2>1. CASE i \in rild
      BY <2>1 DEF TryInv, LastTry, OwnIds
    <2>2. CASE \E s \in Req : Known(s) /\ i = current_id[s] /\ InFlight(s)'
      <3>1. PICK s \in Req : Known(s) /\ i = current_id[s] /\ InFlight(s)'
        BY <2>2
      <3>2. i <= last_req_id
        BY <1>1, <3>1 DEF RequestInv, IdsGiven, OwnIds
      <3>3. ASSUME NEW r \in Req, Known(r)', i \in OwnIds(r)' PROVE r = s
        <4>1. Known(r) /\ i \in OwnIds(r)
          BY <3>3 DEF OwnIds
        <4> QED  BY <3>1, <4>1 DEF RequestInv, IdsApart, OwnIds
      <3>4. \A r \in Req : Known(r)' /\ i \in OwnIds(r)' => InFlight(r)' /\ i = current_id'[r]
        BY <3>1, <3>3
      <3> QED  BY <3>2, <3>4 DEF LastTry
    <2> QED  BY <2>1, <2>2
  <1> QED  BY <1>2, <1>3, <1>4 DEF TryInv, InFlight

\* What was said of a serial stays true when a request that is not in flight joins the
\* queue under a fresh one.
LEMMA SerialsStay ==
    ASSUME RequestInv, TryInv, NEW r \in Req, status[r] \in {"NEW", "RETRY"},
           NEW n \in Nat, n > last_req_id, last_req_id' = n,
           status' = [status EXCEPT ![r] = "QUEUED"],
           current_id' = [current_id EXCEPT ![r] = n],
           id' = [id EXCEPT ![r] = n] \/ (Known(r) /\ id' = id)
    PROVE  /\ \A s \in Req : InFlight(s) => InFlight(s)' /\ current_id'[s] = current_id[s]
           /\ \A i \in rild : i <= last_req_id' /\ LastTry(i)'
  <1>1. /\ status \in [Req -> Statuses] /\ id \in [Req -> 0 .. IdMax]
        /\ current_id \in [Req -> 0 .. IdMax] /\ last_req_id \in Nat /\ rild \subseteq Int
    BY DEF RequestInv, ListInv, TypeOK, RequestTypeOK, TableTypeOK, EnvTypeOK
  <1>2. /\ \A s \in Req \ {r} : /\ status'[s] = status[s] /\ id'[s] = id[s]
                                /\ current_id'[s] = current_id[s]
        /\ status'[r] = "QUEUED" /\ current_id'[r] = n
        /\ id'[r] = n \/ (Known(r) /\ id'[r] = id[r])
    BY <1>1
  <1>3. \A s \in Req : InFlight(s) => InFlight(s)' /\ current_id'[s] = current_id[s]
    BY <1>2 DEF InFlight
  <1>4. ASSUME NEW i \in rild PROVE i <= last_req_id' /\ LastTry(i)'
    <2>1. i <= last_req_id /\ LastTry(i) /\ i \in Int
      BY <1>1 DEF TryInv
    <2>2. i \notin {current_id'[r], id'[r]}
      <3>1. i # n
        BY <1>1, <2>1
      <3>2. ~(Known(r) /\ i = id[r])
        BY <2>1 DEF LastTry, OwnIds, InFlight
      <3> QED  BY <1>2, <3>1, <3>2
    <2>3. ASSUME NEW s \in Req, Known(s)', i \in OwnIds(s)'
          PROVE  InFlight(s)' /\ i = current_id'[s]
      <3>1. s # r
        BY <2>2, <2>3 DEF OwnIds
      <3>2. Known(s) /\ i \in OwnIds(s)
        BY <1>2, <2>3, <3>1 DEF Known, OwnIds
      <3> QED  BY <1>3, <2>1, <3>2 DEF LastTry
    <2>4. i <= last_req_id'
      BY <1>1, <2>1
    <2> QED  BY <2>3, <2>4 DEF LastTry
  <1> QED  BY <1>3, <1>4

\* So such a step keeps TryInv.
LEMMA QueuedAgain ==
    ASSUME RequestInv, TryInv, NEW r \in Req, status[r] \in {"NEW", "RETRY"},
           NEW n \in Nat, n > last_req_id, last_req_id' = n,
           status' = [status EXCEPT ![r] = "QUEUED"],
           current_id' = [current_id EXCEPT ![r] = n],
           id' = [id EXCEPT ![r] = n] \/ (Known(r) /\ id' = id),
           UNCHANGED <<pending, tx>>, rild' \subseteq rild,
           Running("response")' => \A i \in Top'.ids : i \in rild /\ i \notin rild'
    PROVE  TryInv'
  <1>1. /\ \A s \in Req : InFlight(s) => InFlight(s)' /\ current_id'[s] = current_id[s]
        /\ \A i \in rild : i <= last_req_id' /\ LastTry(i)'
    BY SerialsStay
  <1>2. /\ pending \in [Ids -> ReqOrNone] /\ (tx # None => tx.req \in Req)
    BY DEF RequestInv, ListInv, TypeOK, TableTypeOK, EnvTypeOK
  <1>3. \A i \in Ids : pending'[i] # None =>
          status'[pending'[i]] \in {"SENDING", "SENT", "CANCELLED", "DONE"}
            /\ i = current_id'[pending'[i]]
    BY <1>1, <1>2 DEF TryInv, InFlight, ReqOrNone
  <1>4. tx' # None => status'[tx'.req] \in {"SENDING", "SENT", "CANCELLED", "DONE"}
                        /\ tx'.serial = current_id'[tx'.req]
    BY <1>1, <1>2 DEF TryInv, InFlight
  <1> QED  BY <1>1, <1>3, <1>4 DEF TryInv, InFlight

\* The send queue grows where a request joins it.
LEMMA QueueGrows ==
    ASSUME ListInv, NEW r \in Req, send_queue' = Append(send_queue, r), FreshStep
    PROVE  last_req_id' > last_req_id
  <1>1. send_queue \in Seq(Req)
    BY DEF ListInv, TypeOK, SendTypeOK
  <1>2. Len(send_queue') = Len(send_queue) + 1 /\ Len(send_queue) \in Nat
    BY <1>1, AppendProperties, LenProperties
  <1> QED  BY <1>2 DEF FreshStep

\* A call of send_request_full, or an acknowledgement, keeps TryInv.
LEMMA JoinsTry ==
    ASSUME RequestInv, TryInv, FreshStep, NEW r \in Req, NEW i \in Ids, status[r] = "NEW",
           id' = [id EXCEPT ![r] = i], current_id' = [current_id EXCEPT ![r] = i],
           last_req_id' = i, status' = [status EXCEPT ![r] = "QUEUED"],
           send_queue' = Append(send_queue, r), UNCHANGED <<pending, tx>>, rild' \subseteq rild,
           Running("response")' => \A j \in Top'.ids : j \in rild /\ j \notin rild'
    PROVE  TryInv'
  <1>1. i \in Nat /\ i > last_req_id /\ status[r] \in {"NEW", "RETRY"}
    BY QueueGrows DEF RequestInv, Ids
  <1> QED  BY <1>1, QueuedAgain

\* Another try keeps it.
LEMMA RequeueTry ==
    ASSUME RequestInv, TryInv, FreshStep, NEW r \in retry \cup resend, Untimed(r), Requeue(r),
           UNCHANGED <<id, pending, tx, rild>>, ~Running("response")'
    PROVE  TryInv'
  <1>1. PICK i \in Ids : current_id' = [current_id EXCEPT ![r] = i] /\ last_req_id' = i
    BY DEF Requeue
  <1>2. /\ status' = [status EXCEPT ![r] = "QUEUED"] /\ send_queue' = Append(send_queue, r)
        /\ r \in Req /\ Known(r)
    BY DEF Requeue, RequestInv, ListInv, TypeOK, SendTypeOK, NewIsNowhere, Known
  <1>3. status[r] = "RETRY"
    BY <1>2 DEF RequestInv, Placed
  <1>4. i \in Nat /\ i > last_req_id /\ status[r] \in {"NEW", "RETRY"}
    BY <1>1, <1>2, <1>3, QueueGrows DEF RequestInv, Ids
  <1>5. UNCHANGED <<pending, tx>> /\ rild' \subseteq rild /\ (Known(r) /\ id' = id)
    BY <1>2
  <1> QED  BY <1>1, <1>2, <1>4, <1>5, QueuedAgain

\* Most steps give nobody an id, a packet or a reply: at most they cancel a request.
Quiet == /\ UNCHANGED <<id, current_id, last_req_id>>
         /\ \A r \in Req : status'[r] \in {status[r], "CANCELLED"}
         /\ \A i \in Ids : pending'[i] \in {pending[i], None}
         /\ tx' \in {tx, None} /\ rild' \subseteq rild

\* They keep TryInv.
LEMMA QuietTries ==
    ASSUME NoTimeouts, RequestInv, RequestInv', LifeStep, TryInv, Quiet, ~Running("response")'
    PROVE  TryInv'
  <1>1. status \in [Req -> Statuses]
    BY DEF RequestInv, ListInv, TypeOK, RequestTypeOK
  <1>2. \A r \in Req : InFlight(r) => InFlight(r)'
    BY DEF Quiet, InFlight
  <1>3. \A r \in Req : Known(r)' => Known(r)
    <2>1. CASE UNCHANGED <<status, replies>>
      BY <2>1 DEF Known
    <2>2. ASSUME NEW s \in Req, NEW to \in Statuses, Moves(s, to)
          PROVE  \A r \in Req : Known(r)' => Known(r)
      <3>1. /\ status' = [status EXCEPT ![s] = to]
            /\ <<status[s], to>> \in Transitions \/ (to = "CANCELLED" /\ Live(s))
        BY <2>2, StatusMoves
      <3>2. to \in {status[s], "CANCELLED"}
        BY <1>1, <3>1 DEF Quiet
      <3>3. status[s] # "NEW"
        BY <3>1, <3>2 DEF Transitions, Live
      <3> QED  BY <1>1, <3>1, <3>3 DEF Known
    <2> QED  BY <2>1, <2>2 DEF LifeStep
  <1>4. \A i \in Ids : \/ pending'[i] \in {pending[i], None}
                       \/ \E s \in Req : pending'[i] = s /\ i = current_id[s] /\ InFlight(s)'
    BY DEF Quiet
  <1>5. \A i \in rild' : \/ i \in rild
                         \/ \E s \in Req : Known(s) /\ i = current_id[s] /\ InFlight(s)'
    BY DEF Quiet
  <1>6. \/ tx' \in {tx, None}
        \/ \E s \in Req : tx'.req = s /\ tx'.serial = current_id[s] /\ InFlight(s)'
    BY DEF Quiet
  <1>7. UNCHANGED <<id, current_id, last_req_id>>
    BY DEF Quiet
  <1> QED  BY <1>2, <1>3, <1>4, <1>5, <1>6, <1>7, FlightKept

\* cancel_request is quiet, whatever its caller goes on with.
LEMMA CancelQuiet ==
    ASSUME ListInv, NEW i \in Ids, NEW n \in BOOLEAN, NEW after, CancelThen(i, n, after)
    PROVE  Quiet
  <1>1. status \in [Req -> Statuses]
    BY DEF ListInv, TypeOK, RequestTypeOK
  <1>2. UNCHANGED <<id, current_id, last_req_id, pending, tx, rild>>
    BY DEF CancelThen, envVars
  <1>3. status' = status \/ \E r : status' = [status EXCEPT ![r] = "CANCELLED"]
    BY DEF CancelThen, Complete
  <1> QED  BY <1>1, <1>2, <1>3 DEF Quiet

\* So are the other calls of the application, those that queue a request excepted.
LEMMA CallsQuiet ==
    ASSUME ListInv, AppCall,
           ~\E r \in Req, p \in Profiles : SendRequest(r, p),
           ~\E i \in KnownIds : RetryRequest(i)
    PROVE  Quiet
  <1>1. status \in [Req -> Statuses]
    BY DEF ListInv, TypeOK, RequestTypeOK
  <1>2. ASSUME NEW i \in KnownIds, NEW n \in BOOLEAN, CancelRequest(i, n) PROVE Quiet
    BY <1>2, CancelQuiet DEF CancelRequest, KnownIds
  <1>3. ASSUME NEW i \in KnownIds, DropRequest(i) PROVE Quiet
    BY <1>3, CancelQuiet DEF DropRequest, KnownIds
  <1>4. ASSUME NEW n \in BOOLEAN, CancelAll(n) PROVE Quiet
    <2>1. UNCHANGED <<id, current_id, last_req_id, pending, tx, rild>>
      BY <1>4 DEF CancelAll, envVars
    <2>2. status' = status \/ status' = [status EXCEPT ![send_req] = "CANCELLED"]
      BY <1>4 DEF CancelAll, Complete
    <2> QED  BY <1>1, <2>1, <2>2 DEF Quiet
  <1>5. CASE Serialize \/ Deserialize \/ AppReturns
    BY <1>5 DEF Serialize, Deserialize, AppReturns, Quiet, reqVars, sendVars, tabVars, envVars
  <1> QED  BY <1>2, <1>3, <1>4, <1>5 DEF AppCall

\* The timers, and the coming and going of the link.
LEMMA EventsQuiet ==
    ASSUME ListInv,
           \/ Connected \/ Disconnected
           \/ \E due \in SUBSET Timeable, again \in SUBSET retry : Timeout(due, again)
           \/ \E due \in SUBSET Ids : PendingTimeout(due)
    PROVE  Quiet
  <1>1. CASE Connected \/ Disconnected
    BY <1>1 DEF Connected, Disconnected, Quiet, reqVars, sendVars, tabVars
  <1>2. ASSUME NEW due, NEW again, Timeout(due, again) PROVE Quiet
    BY <1>2 DEF Timeout, Quiet, envVars
  <1>3. ASSUME NEW due, PendingTimeout(due) PROVE Quiet
    <2>1. UNCHANGED <<id, current_id, last_req_id, status, tx, rild>>
      BY <1>3 DEF PendingTimeout, reqVars, envVars
    <2>2. \A i \in Ids : pending'[i] \in {pending[i], None}
      BY <1>3 DEF PendingTimeout
    <2> QED  BY <2>1, <2>2 DEF Quiet
  <1> QED  BY <1>1, <1>2, <1>3

\* The functions that only go on, and the loops of cancel_all.
LEMMA StepsQuiet ==
    ASSUME ListInv, Step, ~(Dequeue \/ Submit \/ HandleResponse \/ ExpireOne \/ RequeueNext)
    PROVE  Quiet
  <1>1. status \in [Req -> Statuses] /\ pending \in [Ids -> ReqOrNone]
    BY DEF ListInv, TypeOK, RequestTypeOK, TableTypeOK
  <1>2. CASE \/ WriteStop \/ UpdatePending \/ ResetTimeout \/ ExpireEnd \/ TakeRetries
             \/ RequeueEnd \/ CancelTableStart \/ CancelLoopEnd \/ CancelAllEnd
    BY <1>2
    DEF WriteStop, UpdatePending, ResetTimeout, ExpireEnd, TakeRetries, RequeueEnd,
        CancelTableStart, CancelLoopEnd, CancelAllEnd, Quiet, reqVars, tabVars, envVars
  <1>3. CASE ExpirePending \/ DropPending
    <2>1. UNCHANGED <<id, current_id, last_req_id, status, tx, rild>>
      BY <1>3 DEF ExpirePending, DropPending, reqVars, envVars
    <2>2. \E i : pending' = [pending EXCEPT ![i] = None]
      BY <1>3 DEF ExpirePending, DropPending, PendingWithout
    <2> QED  BY <1>1, <2>1, <2>2 DEF Quiet
  <1>4. CASE CancelQueued \/ CancelTable \/ CancelRetry
    <2>1. UNCHANGED <<id, current_id, last_req_id, pending, tx, rild>>
      BY <1>4 DEF CancelQueued, CancelTable, CancelRetry, envVars
    <2>2. status' = status \/ \E r : status' = [status EXCEPT ![r] = "CANCELLED"]
      BY <1>4 DEF CancelQueued, CancelTable, CancelRetry, Complete
    <2> QED  BY <1>1, <2>1, <2>2 DEF Quiet
  <1> QED  BY <1>2, <1>3, <1>4 DEF Step

\* What is taken off the queue becomes pending under the serial of the try that begins.
LEMMA DequeueTries ==
    ASSUME NoTimeouts, RequestInv, TryInv, Dequeue, ~Running("response")'
    PROVE  TryInv'
  <1>1. PICK k \in DequeueIdx : Dequeue!3!(k)!2
    BY DEF Dequeue
  <1>2. send_queue \in Seq(Req) /\ k \in DOMAIN send_queue /\ status \in [Req -> Statuses]
        /\ pending \in [Ids -> ReqOrNone]
    BY DEF RequestInv, ListInv, TypeOK, RequestTypeOK, TableTypeOK, SendTypeOK, DequeueIdx,
           OrdinaryIdx, InternalIdx
  <1>3. PICK r \in Req : r = send_queue[k]
    BY <1>2, InDomain
  <1>4. status[r] = "QUEUED"
    <2>1. r \in Range(send_queue)
      BY <1>2, <1>3 DEF Range
    <2>2. Known(r)
      BY <2>1 DEF RequestInv, ListInv, NewIsNowhere, Known
    <2> QED  BY <2>1, <2>2, AllUntimed DEF RequestInv, Placed
  <1>5. /\ status' = [status EXCEPT ![r] = "SENDING"]
        /\ pending' = pending \/ pending' = [pending EXCEPT ![current_id[r]] = r]
    BY <1>1, <1>3
  <1>6. UNCHANGED <<id, current_id, last_req_id, tx, rild>>
    BY DEF Dequeue, envVars
  <1>7. InFlight(r)' /\ Known(r) /\ \A s \in Req \ {r} : status'[s] = status[s]
    BY <1>2, <1>4, <1>5 DEF InFlight, Known
  <1>8. \A s \in Req : InFlight(s) => InFlight(s)'
    BY <1>7 DEF InFlight
  <1>9. \A s \in Req : Known(s)' => Known(s)
    BY <1>7 DEF Known
  <1>10. \A i \in Ids : \/ pending'[i] \in {pending[i], None}
                        \/ \E s \in Req : pending'[i] = s /\ i = current_id[s] /\ InFlight(s)'
    BY <1>2, <1>5, <1>7
  <1>11. \A i \in rild' : \/ i \in rild
                          \/ \E s \in Req : Known(s) /\ i = current_id[s] /\ InFlight(s)'
    BY <1>6
  <1>12. \/ tx' \in {tx, None}
         \/ \E s \in Req : tx'.req = s /\ tx'.serial = current_id[s] /\ InFlight(s)'
    BY <1>6
  <1>13. UNCHANGED <<id, current_id, last_req_id>>
    BY <1>6
  <1> QED  BY <1>8, <1>9, <1>10, <1>11, <1>12, <1>13, FlightKept

\* What is handed to the transport is written, and gets to the daemon, under that serial.
LEMMA SubmitTries ==
    ASSUME NoTimeouts, RequestInv, TryInv, Submit, ~Running("response")'
    PROVE  TryInv'
  <1>1. stack \in Seq(FrameType) /\ status \in [Req -> Statuses]
    BY DEF RequestInv, ListInv, TypeOK, RequestTypeOK, StackTypeOK
  <1>2. PICK r \in Req : r = Top.req
    <2>1. ListInv /\ Running("submit")
      BY DEF RequestInv, Submit
    <2> QED  BY <2>1, PopSound
  <1>3. status[r] \in {"SENDING", "CANCELLED"}
    <2>1. Top \in Range(stack) /\ Top.fn = "submit"
      BY <1>1, RunningTop DEF Submit, Running, Top, Range
    <2> QED  BY <1>2, <2>1, AllUntimed DEF RequestInv, FrameOK
  <1>4. PICK outcome \in IF closed THEN {"ERROR"} ELSE SendOutcomes : Submit!3!(outcome)
    BY DEF Submit
  <1>5. /\ status' = status \/ status' = [status EXCEPT ![r] = "SENT"]
        /\ rild' \subseteq rild \cup {current_id[r]}
        /\ tx' = tx \/ tx' = [req |-> r, serial |-> current_id[r]]
    BY <1>2, <1>4
  <1>6. Known(r) /\ InFlight(r) /\ \A s \in Req : InFlight(s) => InFlight(s)'
    BY <1>1, <1>3, <1>5 DEF Known, InFlight
  <1>7. \A s \in Req : Known(s)' => Known(s)
    BY <1>1, <1>5, <1>6 DEF Known
  <1>8. \A i \in Ids : \/ pending'[i] \in {pending[i], None}
                       \/ \E s \in Req : pending'[i] = s /\ i = current_id[s] /\ InFlight(s)'
    BY DEF Submit
  <1>9. \A i \in rild' : \/ i \in rild
                         \/ \E s \in Req : Known(s) /\ i = current_id[s] /\ InFlight(s)'
    BY <1>5, <1>6
  <1>10. \/ tx' \in {tx, None}
         \/ \E s \in Req : tx'.req = s /\ tx'.serial = current_id[s] /\ InFlight(s)'
    BY <1>5, <1>6
  <1>11. \A s \in Req : InFlight(s) => InFlight(s)'
    BY <1>6
  <1>12. UNCHANGED <<id, current_id, last_req_id>>
    BY DEF Submit
  <1> QED  BY <1>7, <1>8, <1>9, <1>10, <1>11, <1>12, FlightKept

\* So does what the transport has finished writing.
LEMMA RequestSentTries ==
    ASSUME RequestInv, TryInv, RequestSent, ~Running("response")'
    PROVE  TryInv'
  <1>1. status \in [Req -> Statuses]
    BY DEF RequestInv, ListInv, TypeOK, RequestTypeOK
  <1>2. PICK r \in Req : r = tx.req
    BY DEF RequestSent, RequestInv, ListInv, TypeOK, EnvTypeOK
  <1>3. InFlight(r) /\ tx.serial = current_id[r]
    BY <1>2 DEF RequestSent, TryInv
  <1>4. /\ status' = status \/ status' = [status EXCEPT ![r] = "SENT"]
        /\ rild' \subseteq rild \cup {current_id[r]}
        /\ tx' = None
    BY <1>2, <1>3 DEF RequestSent
  <1>5. Known(r) /\ InFlight(r)'
    BY <1>1, <1>3, <1>4 DEF Known, InFlight
  <1>6. \A s \in Req : InFlight(s) => InFlight(s)'
    BY <1>1, <1>4 DEF InFlight
  <1>7. \A s \in Req : Known(s)' => Known(s)
    BY <1>1, <1>4, <1>5 DEF Known
  <1>8. \A i \in Ids : \/ pending'[i] \in {pending[i], None}
                       \/ \E s \in Req : pending'[i] = s /\ i = current_id[s] /\ InFlight(s)'
    BY DEF RequestSent, tabVars
  <1>9. \A i \in rild' : \/ i \in rild
                         \/ \E s \in Req : Known(s) /\ i = current_id[s] /\ InFlight(s)'
    BY <1>4, <1>5
  <1>10. \/ tx' \in {tx, None}
         \/ \E s \in Req : tx'.req = s /\ tx'.serial = current_id[s] /\ InFlight(s)'
    BY <1>4
  <1>11. UNCHANGED <<id, current_id, last_req_id>>
    BY DEF RequestSent, tabVars
  <1> QED  BY <1>6, <1>7, <1>8, <1>9, <1>10, <1>11, FlightKept

\* The daemon replies under a serial it has, and does not reply twice.
LEMMA ResponseTries ==
    ASSUME ~EarlyReplies, RequestInv, TryInv, FreshStep,
           NEW i \in Ids, NEW a \in ReqOrNone, Response(i, a)
    PROVE  TryInv'
  <1>1. i \in rild /\ rild' = rild \ {i} /\ UNCHANGED tx
    BY DEF Response
  <1>2. Top'.ids = {i}
    BY DEF Response, Top, Frame
  <1>3. Running("response")' => \A j \in Top'.ids : j \in rild /\ j \notin rild'
    BY <1>1, <1>2
  <1>4. CASE a # None
    <2>1. QueueAck(a) /\ a \in Req /\ status[a] = "NEW"
      BY <1>4 DEF Response, QueueAck, ReqOrNone
    <2>2. PICK n \in Ids : /\ id' = [id EXCEPT ![a] = n]
                           /\ current_id' = [current_id EXCEPT ![a] = n]
                           /\ last_req_id' = n
      BY <2>1 DEF QueueAck
    <2>3. /\ status' = [status EXCEPT ![a] = "QUEUED"]
          /\ send_queue' = Append(send_queue, a)
          /\ UNCHANGED <<pending, tx>> /\ rild' \subseteq rild
      BY <1>1, <2>1 DEF QueueAck
    <2> QED  BY <1>3, <2>1, <2>2, <2>3, JoinsTry
  <1>5. CASE a = None
    <2>1. UNCHANGED <<id, current_id, last_req_id, status, pending, tx>>
      BY <1>1, <1>5, NoneAssumption DEF Response, reqVars, tabVars
    <2>2. \A j \in rild : j <= last_req_id' /\ LastTry(j)'
      BY <2>1 DEF TryInv, LastTry, Known, OwnIds, InFlight
    <2>3. \A j \in rild' : j <= last_req_id' /\ LastTry(j)'
      BY <1>1, <2>2
    <2>4. Running("response")' => \A j \in Top'.ids : j \notin rild' /\ LastTry(j)'
      BY <1>3, <2>2
    <2>5. /\ \A j \in Ids : pending'[j] # None =>
               InFlight(pending[j])' /\ j = current_id'[pending'[j]]
          /\ tx' # None => InFlight(tx.req)' /\ tx'.serial = current_id'[tx'.req]
      BY <2>1 DEF TryInv, InFlight
    <2> QED  BY <2>1, <2>3, <2>4, <2>5 DEF TryInv, InFlight
  <1> QED  BY <1>4, <1>5

\* A reply ends the last try of the request it answers: if another one is to come, nothing
\* is left of this one.
LEMMA HandleResponseTries ==
    ASSUME NoTimeouts, RequestInv, TryInv, HandleResponse, ~Running("response")'
    PROVE  TryInv'
  <1>1. PICK i \in Top.ids : HandleResponse!2!(i)
    BY DEF HandleResponse
  <1>2. /\ status \in [Req -> Statuses] /\ pending \in [Ids -> ReqOrNone]
        /\ req_table \in [Ids -> ReqOrNone]
    BY DEF RequestInv, ListInv, TypeOK, RequestTypeOK, TableTypeOK
  <1>3. UNCHANGED <<id, current_id, last_req_id, tx, rild>>
    BY DEF HandleResponse, envVars
  <1>4. pending' = [pending EXCEPT ![i] = None]
    BY <1>1 DEF PendingWithout
  <1>5. i \in Ids
    <2>1. ListInv /\ Running("response")
      BY DEF RequestInv, HandleResponse
    <2>2. Top \in FrameType
      BY <2>1, RestTyped DEF ListInv, TypeOK, Running
    <2> QED  BY <2>2 DEF FrameType
  <1>6. CASE /\ \/ status' = status
                \/ \E r \in Req : status[r] = "SENT" /\ status' = [status EXCEPT ![r] = "DONE"]
    <2>1. \A s \in Req : InFlight(s) => InFlight(s)'
      BY <1>2, <1>6 DEF InFlight
    <2>2. \A s \in Req : Known(s)' => Known(s)
      BY <1>2, <1>6 DEF Known
    <2>3. \A j \in Ids : \/ pending'[j] \in {pending[j], None}
                         \/ \E s \in Req : pending'[j] = s /\ j = current_id[s] /\ InFlight(s)'
      BY <1>2, <1>4
    <2>4. \A j \in rild' : \/ j \in rild
                           \/ \E s \in Req : Known(s) /\ j = current_id[s] /\ InFlight(s)'
      BY <1>3
    <2>5. \/ tx' \in {tx, None}
          \/ \E s \in Req : tx'.req = s /\ tx'.serial = current_id[s] /\ InFlight(s)'
      BY <1>3
    <2>6. UNCHANGED <<id, current_id, last_req_id>>
      BY <1>3
    <2> QED  BY <2>1, <2>2, <2>3, <2>4, <2>5, <2>6, FlightKept
  <1>7. ASSUME NEW r \in Req, r = req_table[i], status[r] = "SENT",
               status' = [status EXCEPT ![r] = "RETRY"]
        PROVE  TryInv'
    <2>1. Known(r) /\ i \in OwnIds(r)
      BY <1>5, <1>7, NoneAssumption DEF Known, OwnIds, RequestInv, ListInv, TableKeys
    <2>2. i = current_id[r] /\ i \notin rild
      <3>1. i \notin rild /\ LastTry(i)
        BY DEF TryInv, HandleResponse
      <3> QED  BY <2>1, <3>1 DEF LastTry
    <2>3. \A s \in Req \ {r} : /\ InFlight(s) => InFlight(s)'
                               /\ Known(s)' => Known(s)
      BY <1>2, <1>7 DEF InFlight, Known
    <2>4. ASSUME NEW j \in Ids, pending'[j] # None
          PROVE  InFlight(pending[j])' /\ j = current_id'[pending[j]] /\ pending'[j] = pending[j]
      <3>1. j # i /\ pending'[j] = pending[j] /\ pending[j] \in Req
        BY <1>2, <1>4, <2>4 DEF ReqOrNone
      <3>2. InFlight(pending[j]) /\ j = current_id[pending[j]]
        BY <3>1, <2>4 DEF TryInv
      <3>3. pending[j] # r
        BY <2>2, <3>1, <3>2
      <3> QED  BY <1>3, <2>3, <3>1, <3>2, <3>3
    <2>5. tx' # None => InFlight(tx.req)' /\ tx'.serial = current_id'[tx'.req] /\ tx' = tx
      <3> SUFFICES ASSUME tx # None
                   PROVE  InFlight(tx.req)' /\ tx.serial = current_id[tx.req]
        BY <1>3
      <3>1. tx.req \in Req /\ InFlight(tx.req) /\ tx.serial = current_id[tx.req]
        BY DEF TryInv, RequestInv, ListInv, TypeOK, EnvTypeOK
      <3>2. tx.req # r
        BY <1>7, <2>1, AllUntimed DEF RequestInv, Placed
      <3> QED  BY <1>3, <2>3, <3>1, <3>2 DEF InFlight
    <2>6. \A j \in rild' : j <= last_req_id' /\ LastTry(j)'
      <3> SUFFICES ASSUME NEW j \in rild
                   PROVE  j <= last_req_id' /\ LastTry(j)'
        BY <1>3
      <3>1. j <= last_req_id /\ LastTry(j)
        BY DEF TryInv
      <3>2. ASSUME NEW s \in Req, Known(s)', j \in OwnIds(s)'
            PROVE  InFlight(s)' /\ j = current_id'[s]
        <4>1. j \in OwnIds(s)
          BY <1>3, <3>2 DEF OwnIds
        <4>2. s # r
          BY <2>1, <2>2, <3>1, <4>1 DEF LastTry
        <4> QED  BY <1>3, <2>3, <3>1, <3>2, <4>1, <4>2 DEF LastTry
      <3> QED  BY <1>3, <3>1, <3>2 DEF LastTry
    <2> QED  BY <2>4, <2>5, <2>6 DEF TryInv, InFlight
  <1>8. \/ status' = status
        \/ /\ req_table[i] \in Req /\ status[req_table[i]] = "SENT"
           /\ \/ status' = [status EXCEPT ![req_table[i]] = "DONE"]
              \/ status' = [status EXCEPT ![req_table[i]] = "RETRY"]
    BY <1>1, <1>2, <1>5 DEF Answered, ScheduleRetry, Complete, ReqOrNone
  <1> QED  BY <1>6, <1>7, <1>8

\* Every step keeps TryInv, unless the ids wrap around.
LEMMA TryStep ==
    ASSUME NoTimeouts, ~EarlyReplies, RequestInv, RequestInv', PendingInv, TryInv,
           [Next]_vars, [FreshStep]_vars
    PROVE  TryInv'
  <1>1. CASE UNCHANGED vars
    BY <1>1
    DEF vars, reqVars, tabVars, envVars, TryInv, InFlight, LastTry, Known, OwnIds, Running, Top
  <1>2. ASSUME NEW i \in Ids, NEW a \in ReqOrNone, Response(i, a), FreshStep PROVE TryInv'
    BY <1>2, ResponseTries
  <1>3. CASE Next /\ FreshStep /\ ~\E i \in Ids, a \in ReqOrNone : Response(i, a)
    <2>1. ListInv /\ ListInv' /\ LifeStep
      BY RequestStep DEF RequestInv
    <2>2. ~Running("response")'
      BY <1>3, <2>1, RepliesArrive
    <2>3. CASE Quiet
      BY <2>1, <2>2, <2>3, QuietTries
    <2>4. ASSUME NEW r \in Req, NEW p \in Profiles, SendRequest(r, p) PROVE TryInv'
      <3>1. PICK i \in Ids : /\ id' = [id EXCEPT ![r] = i]
                             /\ current_id' = [current_id EXCEPT ![r] = i]
                             /\ last_req_id' = i
        BY <2>4 DEF SendRequest, SendThrough
      <3>2. /\ status[r] = "NEW" /\ status' = [status EXCEPT ![r] = "QUEUED"]
            /\ send_queue' = Append(send_queue, r)
            /\ UNCHANGED <<pending, tx>> /\ rild' \subseteq rild
        BY <2>4 DEF SendRequest, SendThrough, envVars
      <3>3. Running("response")' => \A j \in Top'.ids : j \in rild /\ j \notin rild'
        BY <2>2
      <3> QED  BY <1>3, <3>1, <3>2, <3>3, JoinsTry
    <2>5. ASSUME NEW a \in Req, Indication(a) PROVE TryInv'
      <3>1. PICK i \in Ids : /\ id' = [id EXCEPT ![a] = i]
                             /\ current_id' = [current_id EXCEPT ![a] = i]
                             /\ last_req_id' = i
        BY <2>5 DEF Indication, QueueAck
      <3>2. /\ status[a] = "NEW" /\ status' = [status EXCEPT ![a] = "QUEUED"]
            /\ send_queue' = Append(send_queue, a)
            /\ UNCHANGED <<pending, tx>> /\ rild' \subseteq rild
        BY <2>5 DEF Indication, QueueAck, envVars
      <3>3. Running("response")' => \A j \in Top'.ids : j \in rild /\ j \notin rild'
        BY <2>2
      <3> QED  BY <1>3, <3>1, <3>2, <3>3, JoinsTry
    <2>6. ASSUME NEW i \in KnownIds, RetryRequest(i) PROVE TryInv'
      <3>1. PICK r \in retry : Requeue(r)
        BY <2>6 DEF RetryRequest
      <3>2. Untimed(r) /\ r \in retry \cup resend
        BY AllUntimed DEF RequestInv, ListInv, TypeOK, SendTypeOK
      <3>3. UNCHANGED <<id, pending, tx, rild>>
        BY <2>6 DEF RetryRequest, envVars
      <3> QED  BY <1>3, <2>2, <3>1, <3>2, <3>3, RequeueTry
    <2>7. CASE RequeueNext
      <3>1. PICK r \in resend : Requeue(r)
        BY <2>7 DEF RequeueNext
      <3>2. Untimed(r) /\ r \in retry \cup resend
        BY AllUntimed DEF RequestInv, ListInv, TypeOK, SendTypeOK
      <3>3. UNCHANGED <<id, pending, tx, rild>>
        BY <2>7 DEF RequeueNext, envVars
      <3> QED  BY <1>3, <2>2, <3>1, <3>2, <3>3, RequeueTry
    <2>8. CASE Dequeue \/ Submit \/ RequestSent \/ HandleResponse
      BY <2>2, <2>8, DequeueTries, SubmitTries, RequestSentTries, HandleResponseTries
    <2>9. ~ExpireOne
      <3> SUFFICES ASSUME ExpireOne PROVE FALSE
        OBVIOUS
      <3>1. PICK r \in Req : r = Top.req
        BY <2>1, PopSound DEF ExpireOne
      <3>2. Top \in Range(stack) /\ Top.fn = "expire_one"
        BY <2>1 DEF ExpireOne, Running, Top, Range, ListInv, TypeOK, StackTypeOK
      <3> QED  BY <3>1, <3>2, AllUntimed DEF RequestInv, FrameOK, Untimed
    <2>10. CASE AppCall
      BY <2>1, <2>3, <2>4, <2>6, <2>10, CallsQuiet
    <2>11. CASE Event
      BY <1>3, <2>1, <2>3, <2>5, <2>8, <2>11, EventsQuiet DEF Event
    <2>12. CASE Step
      BY <2>1, <2>3, <2>7, <2>8, <2>9, <2>12, StepsQuiet
    <2> QED  BY <1>3, <2>10, <2>11, <2>12 DEF Next
  <1> QED  BY <1>1, <1>2, <1>3

\* A request is pending, being written, at the daemon and replied to under the serial of
\* its last try only, and while it waits for another try it is none of that.
THEOREM TryInvHolds ==
    ASSUME NoTimeouts, ~EarlyReplies
    PROVE  Spec /\ FreshIds => []TryInv
  <1>1. Init => TryInv
    BY DEF Init, TryInv, Running
  <1>2. /\ RequestInv /\ RequestInv' /\ PendingInv /\ TryInv /\ [Next]_vars /\ [FreshStep]_vars
        => TryInv'
    BY TryStep
  <1> QED  BY <1>1, <1>2, RequestInvHolds, PendingInvHolds, PTL DEF Spec, FreshIds

\* A live request counts as pending at most under the serial of its last try, and only
\* while that try is in flight.
THEOREM PendingInFlight ==
    ASSUME NoTimeouts, ~EarlyReplies
    PROVE  Spec /\ FreshIds => []PendingIsInFlight
  <1>1. TryInv => PendingIsInFlight
    BY DEF TryInv, InFlight, Live, PendingIsInFlight
  <1> QED  BY <1>1, TryInvHolds, PTL

\* A reply that completes a request, or has it tried again, carries the serial of its last
\* try: what grilio_channel_handle_response asserts.
THEOREM RepliesMatch ==
    ASSUME NoTimeouts, ~EarlyReplies
    PROVE  Spec /\ FreshIds => ReplyIsForLastTry
  <1> DEFINE Match == \A r \in Req : status[r] = "SENT" /\ HandleResponse /\ status'[r] # "SENT"
                                       => current_id[r] \in Top.ids
  <1>1. RequestInv /\ TryInv /\ [Next]_vars => [Match]_vars
    <2> SUFFICES ASSUME RequestInv, TryInv, NEW r \in Req, status[r] = "SENT", HandleResponse,
                        status'[r] # "SENT"
                 PROVE  current_id[r] \in Top.ids
      OBVIOUS
    <2>1. PICK i \in Top.ids : HandleResponse!2!(i)
      BY DEF HandleResponse
    <2>2. i \in Ids /\ LastTry(i)
      <3>1. ListInv /\ Running("response") /\ LastTry(i)
        BY DEF RequestInv, HandleResponse, TryInv
      <3>2. Top \in FrameType
        BY <3>1, RestTyped DEF ListInv, TypeOK, Running
      <3> QED  BY <3>1, <3>2 DEF FrameType
    <2>3. req_table[i] = r
      BY <2>1 DEF ScheduleRetry, Complete, RequestInv, ListInv, TypeOK, RequestTypeOK
    <2>4. Known(r) /\ i \in OwnIds(r)
      BY <2>2, <2>3 DEF Known, OwnIds, RequestInv, ListInv, TableKeys
    <2> QED  BY <2>2, <2>4 DEF LastTry
  <1> QED  BY <1>1, RequestInvHolds, TryInvHolds, PTL DEF Spec, ReplyIsForLastTry

\* Only what waits for another try is tried again.
LEMMA RetriedWaits ==
    ASSUME TypeOK, Next, NEW r \in Req, retry_count'[r] # retry_count[r]
    PROVE  r \in retry \cup resend
  <1>1. retry_count \in [Req -> Nat]
    BY DEF TypeOK, RequestTypeOK
  <1>2. ASSUME NEW s \in retry \cup resend, Requeue(s) PROVE r \in retry \cup resend
    BY <1>1, <1>2 DEF Requeue
  <1>3. CASE AppCall
    BY <1>2, <1>3
    DEF AppCall, SendRequest, SendThrough, CancelRequest, CancelThen, CancelAll, RetryRequest,
        DropRequest, Serialize, Deserialize, AppReturns, reqVars
  <1>4. CASE Event
    BY <1>4
    DEF Event, Connected, Disconnected, RequestSent, Response, Indication, QueueAck, Timeout,
        PendingTimeout, reqVars
  <1>5. CASE Step
    BY <1>2, <1>5
    DEF Step, WriteStop, Dequeue, Submit, UpdatePending, ResetTimeout, HandleResponse,
        ExpirePending, ExpireOne, ExpireEnd, TakeRetries, RequeueNext, RequeueEnd, DropPending,
        CancelQueued, CancelTableStart, CancelTable, CancelRetry, CancelLoopEnd, CancelAllEnd,
        reqVars
  <1> QED  BY <1>3, <1>4, <1>5 DEF Next

\* When a request is to be tried again nobody uses its ids, and nothing is pending for it:
\* what grilio_channel_requeue_request asserts.
THEOREM RetriesFindIdsFree ==
    ASSUME NoTimeouts, ~EarlyReplies
    PROVE  Spec /\ FreshIds => RetryFindsIdsFree
  <1> DEFINE Free == \A r \in Req : retry_count'[r] # retry_count[r] =>
                       \A i \in {id[r], current_id[r]} : req_table[i] = None /\ pending[i] # r
  <1>1. RequestInv /\ TryInv /\ [Next]_vars => [Free]_vars
    <2> SUFFICES ASSUME RequestInv, TryInv, Next, NEW r \in Req,
                        retry_count'[r] # retry_count[r], NEW i \in OwnIds(r)
                 PROVE  req_table[i] = None /\ pending[i] # r
      BY DEF OwnIds, vars, reqVars
    <2>1. r \in retry \cup resend
      BY RetriedWaits DEF RequestInv, ListInv
    <2>2. Known(r)
      BY <2>1 DEF RequestInv, ListInv, NewIsNowhere, Known
    <2>3. Placed(r) /\ status[r] = "RETRY"
      BY <2>1, <2>2, AllUntimed DEF RequestInv, Placed
    <2>4. i \in Ids
      BY <2>2 DEF RequestInv, IdsGiven, ListInv, TypeOK, TableTypeOK, Ids
    <2>5. ASSUME req_table[i] # None PROVE FALSE
      <3>1. PICK s \in Req : s = req_table[i]
        BY <2>4, <2>5 DEF RequestInv, ListInv, TypeOK, TableTypeOK, ReqOrNone
      <3>2. Known(s) /\ i \in OwnIds(s)
        BY <2>4, <2>5, <3>1 DEF RequestInv, ListInv, TableKeys, NewIsNowhere, Known, OwnIds
      <3>3. s = r
        BY <2>2, <3>2 DEF RequestInv, IdsApart
      <3> QED  BY <2>3, <2>4, <3>1, <3>3 DEF Placed
    <2>6. pending[i] # r
      BY <2>3, <2>4 DEF TryInv, InFlight
    <2> QED  BY <2>5, <2>6
  <1> QED  BY <1>1, RequestInvHolds, TryInvHolds, PTL DEF Spec, RetryFindsIdsFree

-----------------------------------------------------------------------------
(* Dropping a request where nothing is tried again.                        *)

\* The application lets no request be tried again.
NoRetries == \A p \in Profiles : p.max_retries = 0

\* Then each request keeps the serial it was given first.
OneSerial ==
    /\ retry = {} /\ resend = {}
    /\ \A r \in Req : current_id[r] = id[r]
    /\ \A i \in Ids : pending[i] # None => Known(pending[i]) /\ id[pending[i]] = i

\* Nothing can be retried, acknowledgements included.
LEMMA NothingRetried ==
    ASSUME NoRetries, ListInv PROVE \A r \in Req : ~CanRetry(r)
  <1>1. /\ prof \in [Req -> Profiles \cup {AckProfile}] /\ retry_count \in [Req -> Nat]
    BY DEF ListInv, TypeOK, RequestTypeOK
  <1>2. \A r \in Req : prof[r].max_retries = 0
    BY <1>1 DEF NoRetries, AckProfile
  <1> QED  BY <1>1, <1>2 DEF CanRetry

\* A step that gives nobody an id, and puts nothing into the retry queue.
LEMMA SerialStays ==
    ASSUME ListInv, OneSerial, UNCHANGED <<id, current_id>>, retry' = {}, resend' = {},
           \A r \in Req : Known(r) => Known(r)',
           \A i \in Ids : \/ pending'[i] \in {pending[i], None}
                          \/ \E s \in Req : pending'[i] = s /\ Known(s) /\ i = current_id[s]
    PROVE  OneSerial'
  <1>1. pending \in [Ids -> ReqOrNone]
    BY DEF ListInv, TypeOK, TableTypeOK
  <1>2. ASSUME NEW i \in Ids, pending'[i] # None
        PROVE  Known(pending[i])' /\ id'[pending'[i]] = i
    <2>1. CASE pending'[i] = pending[i]
      <3>1. pending[i] \in Req /\ Known(pending[i]) /\ id[pending[i]] = i
        BY <1>1, <1>2, <2>1 DEF OneSerial, ReqOrNone
      <3>2. PICK s \in Req : s = pending[i]
        BY <3>1
      <3>3. Known(s)' /\ s = pending'[i]
        BY <2>1, <3>1, <3>2
      <3> QED  BY <3>1, <3>2, <3>3 DEF Known
    <2>2. ASSUME NEW s \in Req, pending'[i] = s, Known(s), i = current_id[s]
          PROVE  Known(pending[i])' /\ id'[pending'[i]] = i
      <3>1. Known(s)' /\ id[s] = i
        BY <2>2 DEF OneSerial
      <3> QED  BY <2>2, <3>1 DEF Known
    <2> QED  BY <1>2, <2>1, <2>2
  <1>3. \A r \in Req : current_id'[r] = id'[r]
    BY DEF OneSerial
  <1> QED  BY <1>2, <1>3 DEF OneSerial

\* A request that joins the queue is given both ids at once.
LEMMA SerialGiven ==
    ASSUME ListInv, OneSerial, NEW r \in Req, NEW i, status[r] = "NEW",
           id' = [id EXCEPT ![r] = i], current_id' = [current_id EXCEPT ![r] = i],
           status' = [status EXCEPT ![r] = "QUEUED"], UNCHANGED <<pending, retry, resend>>
    PROVE  OneSerial'
  <1>1. /\ pending \in [Ids -> ReqOrNone] /\ status \in [Req -> Statuses]
        /\ id \in [Req -> 0 .. IdMax] /\ current_id \in [Req -> 0 .. IdMax]
    BY DEF ListInv, TypeOK, TableTypeOK, RequestTypeOK
  <1>2. \A s \in Req : current_id'[s] = id'[s]
    BY <1>1 DEF OneSerial
  <1>3. ASSUME NEW j \in Ids, pending[j] # None
        PROVE  status'[pending[j]] # "NEW" /\ id'[pending[j]] = j
    <2>1. pending[j] \in Req /\ Known(pending[j]) /\ id[pending[j]] = j
      BY <1>1, <1>3 DEF OneSerial, ReqOrNone
    <2> QED  BY <1>1, <2>1 DEF Known
  <1> QED  BY <1>2, <1>3 DEF OneSerial, Known

\* Nobody but schedule_retry puts anything into the retry queue.
LEMMA RetryStays ==
    ASSUME OneSerial, Next, ~HandleResponse, ~ExpireOne PROVE retry' = {} /\ resend' = {}
  <1>1. CASE AppCall
    BY <1>1
    DEF AppCall, SendRequest, SendThrough, CancelRequest, CancelThen, CancelAll, RetryRequest,
        DropRequest, Serialize, Deserialize, AppReturns, sendVars, tmoVars, OneSerial
  <1>2. CASE Event
    BY <1>2
    DEF Event, Connected, Disconnected, RequestSent, Response, Indication, QueueAck, Timeout,
        PendingTimeout, sendVars, tmoVars, OneSerial
  <1>3. CASE Step
    BY <1>3
    DEF Step, WriteStop, Dequeue, Submit, UpdatePending, ResetTimeout, ExpirePending, ExpireEnd,
        TakeRetries, RequeueNext, RequeueEnd, DropPending, CancelQueued, CancelTableStart,
        CancelTable, CancelRetry, CancelLoopEnd, CancelAllEnd, sendVars, tmoVars, OneSerial
  <1> QED  BY <1>1, <1>2, <1>3 DEF Next

\* Every step keeps OneSerial.
LEMMA OneSerialStep ==
    ASSUME NoRetries, ListInv, OneSerial, [Next]_vars PROVE OneSerial'
  <1>1. CASE UNCHANGED vars
    BY <1>1 DEF vars, reqVars, sendVars, tabVars, tmoVars, OneSerial, Known
  <1>2. status \in [Req -> Statuses] /\ pending \in [Ids -> ReqOrNone]
    BY DEF ListInv, TypeOK, RequestTypeOK, TableTypeOK
  <1>3. ASSUME Quiet, retry' = {}, resend' = {} PROVE OneSerial'
    <2>1. UNCHANGED <<id, current_id>> /\ \A r \in Req : Known(r) => Known(r)'
      BY <1>3 DEF Quiet, Known
    <2>2. \A i \in Ids : \/ pending'[i] \in {pending[i], None}
                         \/ \E s \in Req : pending'[i] = s /\ Known(s) /\ i = current_id[s]
      BY <1>3 DEF Quiet
    <2> QED  BY <1>3, <2>1, <2>2, SerialStays
  <1>4. ASSUME NEW a \in Req, QueueAck(a), UNCHANGED resend PROVE OneSerial'
    <2>1. /\ status[a] = "NEW" /\ status' = [status EXCEPT ![a] = "QUEUED"]
          /\ UNCHANGED <<pending, retry, resend>>
          /\ \E i : id' = [id EXCEPT ![a] = i] /\ current_id' = [current_id EXCEPT ![a] = i]
      BY <1>4 DEF QueueAck
    <2> QED  BY <2>1, SerialGiven
  <1>5. CASE AppCall
    <2>1. ASSUME NEW r \in Req, NEW p \in Profiles, SendRequest(r, p) PROVE OneSerial'
      <3>1. /\ status[r] = "NEW" /\ status' = [status EXCEPT ![r] = "QUEUED"]
            /\ UNCHANGED <<pending, retry, resend>>
            /\ \E i : id' = [id EXCEPT ![r] = i] /\ current_id' = [current_id EXCEPT ![r] = i]
        BY <2>1 DEF SendRequest, SendThrough, tmoVars
      <3> QED  BY <3>1, SerialGiven
    <2>2. ~\E i \in KnownIds : RetryRequest(i)
      BY DEF RetryRequest, OneSerial
    <2>3. (~HandleResponse /\ ~ExpireOne) \/ (retry' = {} /\ resend' = {})
      <3>1. ~Running("response") /\ ~Running("expire_one")
        BY <1>5
        DEF AppCall, SendRequest, SendThrough, CancelRequest, CancelAll, RetryRequest,
            DropRequest, Serialize, Deserialize, AppReturns, AppRuns, Running
      <3> QED  BY <3>1 DEF HandleResponse, ExpireOne
    <2>4. retry' = {} /\ resend' = {}
      BY <1>5, <2>3, RetryStays DEF Next
    <2> QED  BY <1>3, <1>5, <2>1, <2>2, <2>4, CallsQuiet
  <1>6. CASE Event
    <2>1. ~HandleResponse /\ ~ExpireOne
      <3>1. CASE stack = <<>>
        BY <3>1 DEF HandleResponse, ExpireOne, Running
      <3>2. CASE Disconnected
        BY <3>2 DEF Disconnected, AppRuns, HandleResponse, ExpireOne, Running
      <3> QED
        BY <1>6, <3>1, <3>2
        DEF Event, Connected, RequestSent, Response, Indication, Timeout, PendingTimeout, Idle
    <2>2. retry' = {} /\ resend' = {}
      BY <1>6, <2>1, RetryStays DEF Next
    <2>3. ASSUME NEW i \in Ids, NEW a \in ReqOrNone, Response(i, a) PROVE OneSerial'
      <3>1. CASE a # None
        BY <1>4, <2>3, <3>1 DEF Response, QueueAck, ReqOrNone, tmoVars
      <3>2. CASE UNCHANGED <<reqVars, sendVars, tabVars>> /\ UNCHANGED tmoVars
        BY <3>2 DEF reqVars, sendVars, tabVars, tmoVars, OneSerial, Known
      <3> QED  BY <2>3, <3>1, <3>2 DEF Response
    <2>4. ASSUME NEW a \in Req, Indication(a) PROVE OneSerial'
      BY <1>4, <2>4 DEF Indication, tmoVars
    <2>5. CASE RequestSent
      <3>1. UNCHANGED <<id, current_id, pending>> /\ \A r \in Req : Known(r) => Known(r)'
        BY <1>2, <2>5 DEF RequestSent, Known, tabVars
      <3>2. \A i \in Ids : \/ pending'[i] \in {pending[i], None}
                           \/ \E s \in Req : pending'[i] = s /\ Known(s) /\ i = current_id[s]
        BY <3>1
      <3> QED  BY <2>2, <3>1, <3>2, SerialStays
    <2> QED  BY <1>3, <1>6, <2>2, <2>3, <2>4, <2>5, EventsQuiet DEF Event
  <1>7. CASE Dequeue
    <2>1. PICK k \in DequeueIdx : Dequeue!3!(k)!2
      BY <1>7 DEF Dequeue
    <2>2. send_queue \in Seq(Req) /\ k \in DOMAIN send_queue
      BY DEF ListInv, TypeOK, SendTypeOK, DequeueIdx, OrdinaryIdx, InternalIdx
    <2>3. PICK r \in Req : r = send_queue[k]
      BY <2>2, InDomain
    <2>4. Known(r)
      BY <2>2, <2>3 DEF Range, ListInv, NewIsNowhere, Known
    <2>5. /\ status' = [status EXCEPT ![r] = "SENDING"]
          /\ pending' = pending \/ pending' = [pending EXCEPT ![current_id[r]] = r]
      BY <2>1, <2>3
    <2>6. UNCHANGED <<id, current_id>> /\ retry' = {} /\ resend' = {}
      BY <1>7 DEF Dequeue, tmoVars, OneSerial
    <2>7. \A s \in Req : Known(s) => Known(s)'
      BY <1>2, <2>5 DEF Known
    <2>8. \A i \in Ids : \/ pending'[i] \in {pending[i], None}
                         \/ \E s \in Req : pending'[i] = s /\ Known(s) /\ i = current_id[s]
      BY <1>2, <2>4, <2>5
    <2> QED  BY <2>6, <2>7, <2>8, SerialStays
  <1>8. CASE Submit
    <2>1. UNCHANGED <<id, current_id, pending>> /\ retry' = {} /\ resend' = {}
      BY <1>8 DEF Submit, tmoVars, OneSerial
    <2>2. \A r \in Req : Known(r) => Known(r)'
      BY <1>2, <1>8 DEF Submit, Known
    <2>3. \A i \in Ids : \/ pending'[i] \in {pending[i], None}
                         \/ \E s \in Req : pending'[i] = s /\ Known(s) /\ i = current_id[s]
      BY <2>1
    <2> QED  BY <2>1, <2>2, <2>3, SerialStays
  <1>9. CASE HandleResponse
    <2>1. PICK i \in Top.ids : HandleResponse!2!(i)
      BY <1>9 DEF HandleResponse
    <2>2. i \in Ids
      BY <1>9, RestTyped DEF HandleResponse, Running, ListInv, TypeOK, FrameType
    <2>3. req_table[i] = None \/ ~CanRetry(req_table[i])
      BY <2>2, NothingRetried DEF ListInv, TypeOK, TableTypeOK, ReqOrNone
    <2>4. /\ pending' = [pending EXCEPT ![i] = None] /\ retry' = retry
          /\ status' = status \/ \E r : status' = [status EXCEPT ![r] = "DONE"]
      BY <2>1, <2>3 DEF Complete, PendingWithout, Answered
    <2>5. UNCHANGED <<id, current_id>> /\ retry' = {} /\ resend' = {}
      BY <1>9, <2>4 DEF HandleResponse, tmoVars, OneSerial
    <2>6. \A r \in Req : Known(r) => Known(r)'
      BY <1>2, <2>4 DEF Known
    <2>7. \A j \in Ids : \/ pending'[j] \in {pending[j], None}
                         \/ \E s \in Req : pending'[j] = s /\ Known(s) /\ j = current_id[s]
      BY <1>2, <2>4
    <2> QED  BY <2>5, <2>6, <2>7, SerialStays
  <1>10. CASE ExpireOne
    <2>1. PICK r \in Req : r = Top.req
      BY <1>10, PopSound DEF ExpireOne
    <2>2. ~CanRetry(r)
      BY NothingRetried
    <2>3. /\ status' = [status EXCEPT ![r] = "DONE"] /\ retry' = retry
      BY <1>10, <2>1, <2>2 DEF ExpireOne, Complete
    <2>4. UNCHANGED <<id, current_id, pending>> /\ retry' = {} /\ resend' = {}
      BY <1>10, <2>3 DEF ExpireOne, OneSerial
    <2>5. \A s \in Req : Known(s) => Known(s)'
      BY <1>2, <2>3 DEF Known
    <2>6. \A i \in Ids : \/ pending'[i] \in {pending[i], None}
                         \/ \E s \in Req : pending'[i] = s /\ Known(s) /\ i = current_id[s]
      BY <2>4
    <2> QED  BY <2>4, <2>5, <2>6, SerialStays
  <1>11. CASE Step /\ ~(Dequeue \/ Submit \/ HandleResponse \/ ExpireOne)
    <2>1. ~RequeueNext
      BY DEF RequeueNext, OneSerial
    <2> QED  BY <1>3, <1>11, <2>1, RetryStays, StepsQuiet DEF Next
  <1> QED  BY <1>1, <1>5, <1>6, <1>7, <1>8, <1>9, <1>10, <1>11 DEF Next

\* Once a drop is through nothing is pending under the id of the request, unless requests
\* are tried again: what drop_request is for.
THEOREM DropsUnblock ==
    ASSUME NoRetries
    PROVE  Spec => DropUnblocks
  <1> DEFINE Unblocks == \A i \in Ids : DropPending /\ i \in Top.ids =>
                           \A j \in Ids : pending'[j] # None => id[pending'[j]] # i
  <1>1. Init => OneSerial
    BY DEF Init, OneSerial
  <1>2. ListInv /\ OneSerial /\ [Next]_vars => OneSerial'
    BY OneSerialStep
  <1>3. ListInv /\ OneSerial /\ [Next]_vars => [Unblocks]_vars
    <2> SUFFICES ASSUME ListInv, OneSerial, NEW i \in Ids, DropPending, i \in Top.ids,
                        NEW j \in Ids, pending'[j] # None
                 PROVE  id[pending'[j]] # i
      OBVIOUS
    <2>1. PICK n \in Ids : Top.ids = {n}
      BY RestTyped DEF DropPending, Running, Top, ListInv, TypeOK, FrameType
    <2>2. pending' = [pending EXCEPT ![i] = None] /\ pending \in [Ids -> ReqOrNone]
      BY <2>1 DEF DropPending, PendingWithout, ListInv, TypeOK, TableTypeOK
    <2>3. j # i /\ pending'[j] = pending[j]
      BY <2>2
    <2> QED  BY <2>3 DEF OneSerial
  <1> QED  BY <1>1, <1>2, <1>3, ListInvHolds, PTL DEF Spec, DropUnblocks

-----------------------------------------------------------------------------
(* The loop over the request table that is part of cancel_all.             *)

\* The loop over the table is on top before and after its steps.
LEMMA TableFrame ==
    ASSUME TimerInv, "response" \notin Reentrant, CancelTableStart \/ CancelTable
    PROVE  \E f \in FrameType : f.fn = "cancel_table" /\ stack' = <<f>> \o Rest
  <1>1. /\ stack # <<>> /\ Running(Top.fn) /\ Top \in FrameType /\ Rest \in Seq(FrameType)
        /\ Top.fn \in {"cancel_queue", "cancel_table"}
    <2>1. stack # <<>> /\ Running(Top.fn) /\ Top.fn \in {"cancel_queue", "cancel_table"}
      BY DEF CancelTableStart, CancelTable, Running, Top
    <2> QED  BY <2>1, RestTyped DEF TimerInv, ListInv, TypeOK, Top
  <1>2. CASE CancelTableStart
    <2> DEFINE f == [Frame("cancel_table") EXCEPT !.ids = {i \in Ids : req_table[i] # None},
                                                  !.notify = Top.notify]
    <2>1. f \in FrameType /\ f.fn = "cancel_table"
      <3>1. Top.notify \in BOOLEAN
        BY <1>1 DEF FrameType
      <3> QED  BY <3>1, FrameTyped DEF Functions, Frame
    <2>2. stack' = <<f>> \o Rest
      BY <1>2 DEF CancelTableStart
    <2> HIDE DEF f
    <2> QED  BY <2>1, <2>2
  <1>3. CASE CancelTable
    <2>1. PICK i \in Top.ids : CancelTable!2!(i)
      BY <1>3 DEF CancelTable
    <2> DEFINE f == [Top EXCEPT !.ids = @ \ {i}]
               r == req_table[i]
    <2>2. f \in FrameType /\ f.fn = "cancel_table"
      BY <1>1, <1>3 DEF FrameType, Held, CancelTable, Running, Top
    <2>3. stack' = <<f>> \o Rest \/ stack' = Cancelled(r, Top.notify) \o (<<f>> \o Rest)
      BY <2>1
    <2> HIDE DEF f, r
    <2>4. <<f>> \o Rest \in Seq(FrameType)
      BY <1>1, <2>2, PushTop
    <2>5. stack' = <<f>> \o Rest
      BY <2>3, <2>4, QuietStack
    <2> QED  BY <2>2, <2>5
  <1> QED  BY <1>2, <1>3

-----------------------------------------------------------------------------
(* block_req, and what cancel_all does to it.                              *)

\* grilio_channel_cancel_all is being executed.
Cancelling == stack # <<>> /\ Top.fn \in CancelFns

\* It begins where the application calls it.
LEMMA CancelsBegin ==
    ASSUME TimerInv, ListInv', Next, ~Cancelling, Cancelling'
    PROVE  \E n \in BOOLEAN : CancelAll(n)
  <1> SUFFICES ASSUME ~\E n \in BOOLEAN : CancelAll(n) PROVE FALSE
    OBVIOUS
  <1>1. ~NoLoops(stack')
    <2>1. stack' \in Seq(FrameType) /\ stack' # <<>> /\ Head(stack').fn \in CancelFns
      BY DEF ListInv, TypeOK, StackTypeOK, Cancelling, Top
    <2>2. Head(stack').fn \in Executing(stack')
      BY <2>1, PopFrame
    <2> QED  BY <2>1, <2>2 DEF NoLoops
  <1>2. ~GoesOn(stack')
    BY <1>1 DEF GoesOn
  <1>3. ~AppCall
    BY <1>2, SendRequestWaits, CancelRequestWaits, RetryRequestWaits, DropRequestWaits,
       OtherCallsWait
    DEF AppCall, KnownIds
  <1>4. ~Event
    <2>1. ASSUME NEW due \in SUBSET Timeable, NEW again \in SUBSET retry, Timeout(due, again)
          PROVE  FALSE
      <3> DEFINE f == [Frame("retry_due") EXCEPT !.reqs = again]
      <3>1. stack' = <<Frame("expire"), f, TimeoutReset, Write, PendingUpdate>>
        BY <2>1 DEF Timeout
      <3>2. Top'.fn = "expire"
        BY <3>1 DEF Frame, Top
      <3> QED  BY <3>2 DEF Cancelling, CancelFns
    <2> QED  BY <1>2, <2>1, EventWaits DEF Event
  <1>5. ~Step
    <2>1. ~(WriteStop \/ UpdatePending \/ ExpireEnd \/ RequeueEnd \/ DropPending
              \/ TakeRetries \/ Dequeue \/ ExpirePending \/ RequeueNext)
      BY <1>2, EndsWait, DequeueWaits, ExpirePendingWaits, RequeueNextWaits
    <2>2. ~(CancelQueued \/ CancelTableStart \/ CancelTable \/ CancelRetry
              \/ CancelLoopEnd \/ CancelAllEnd)
      BY DEF CancelQueued, CancelTableStart, CancelTable, CancelRetry, CancelLoopEnd,
             CancelAllEnd, Running, Cancelling, Top, CancelFns
    <2>3. ~ResetTimeout
      BY <1>1, GoesOnRest DEF ResetTimeout, Running, Top, CancelFns
    <2>4. ~(Submit \/ HandleResponse \/ ExpireOne)
      <3>1. ASSUME Submit \/ HandleResponse \/ ExpireOne
            PROVE  \/ \E pre : Mild(pre) /\ stack' = pre \o Rest
                   \/ stack' = Rest
        BY <3>1, MildCalls, MildConcat DEF Submit, HandleResponse, ExpireOne
      <3>2. ASSUME Submit \/ HandleResponse \/ ExpireOne
            PROVE  stack # <<>> /\ Top.fn \in {"submit", "response", "expire_one"}
        BY <3>2 DEF Submit, HandleResponse, ExpireOne, Running, Top
      <3> QED  BY <1>2, <3>1, <3>2, GoesOnCalls, MildCalls DEF CancelFns
    <2> QED  BY <2>1, <2>2, <2>3, <2>4 DEF Step
  <1> QED  BY <1>3, <1>4, <1>5 DEF Next

\* Nothing comes between its steps, and it ends when nothing is left in the table.
LEMMA CancelsEnd ==
    ASSUME TimerInv, Next, "response" \notin Reentrant, Cancelling
    PROVE  /\ CancelQueued \/ CancelTableStart \/ CancelTable \/ CancelRetry
                \/ CancelLoopEnd \/ CancelAllEnd
           /\ ~Cancelling' => CancelAllEnd /\ TableLeft' = {}
  <1>1. /\ ~Idle /\ ~AppRuns /\ stack # <<>> /\ stack \in Seq(FrameType)
        /\ \A fn \in Functions \ CancelFns : ~Running(fn)
    BY DEF Cancelling, Idle, AppRuns, Running, Top, CancelFns, Functions, TimerInv, ListInv,
           TypeOK, StackTypeOK
  <1>2. ~AppCall
    BY <1>1
    DEF AppCall, SendRequest, SendThrough, CancelRequest, CancelAll, RetryRequest,
        DropRequest, Serialize, Deserialize, AppReturns, Functions, CancelFns
  <1>3. ~Event
    BY <1>1
    DEF Event, Connected, Disconnected, RequestSent, Response, Indication, Timeout,
        PendingTimeout
  <1>4. CancelQueued \/ CancelTableStart \/ CancelTable \/ CancelRetry
          \/ CancelLoopEnd \/ CancelAllEnd
    BY <1>1, <1>2, <1>3
    DEF Next, Step, WriteStop, Dequeue, Submit, UpdatePending, ResetTimeout, HandleResponse,
        ExpirePending, ExpireOne, ExpireEnd, TakeRetries, RequeueNext, RequeueEnd,
        DropPending, Functions, CancelFns
  <1>5. CASE CancelQueued \/ CancelRetry
    <2>1. \E r, n : stack' = Cancelled(r, n) \o stack
      BY <1>5 DEF CancelQueued, CancelRetry
    <2>2. stack' = stack
      BY <1>1, <2>1, QuietStack
    <2> QED  BY <1>4, <2>2 DEF Cancelling, Top
  <1>6. CASE CancelTableStart \/ CancelTable
    <2>1. PICK f \in FrameType : f.fn = "cancel_table" /\ stack' = <<f>> \o Rest
      BY <1>6, TableFrame
    <2>2. Rest \in Seq(FrameType)
      BY <1>1, LoopOnTop
    <2>3. stack' # <<>> /\ Head(stack') = f
      BY <2>1, <2>2, PushTop
    <2>4. Cancelling'
      BY <2>1, <2>3 DEF Cancelling, Top, CancelFns
    <2> QED  BY <1>4, <2>4
  <1>7. CASE CancelLoopEnd
    <2>1. stack' = Rest /\ Top.fn \in {"cancel_table", "cancel_retry"}
      BY <1>7 DEF CancelLoopEnd, Running, Top
    <2>2. RetryNext(Rest) \/ EndNext(Rest)
      BY <1>1, <2>1, LoopOnTop DEF TableNext, RetryNext, Rest
    <2>3. Cancelling'
      BY <2>1, <2>2 DEF Cancelling, Top, RetryNext, EndNext, CancelFns
    <2> QED  BY <1>4, <2>3
  <1>8. CASE CancelAllEnd
    <2>1. TableLeft = {} /\ req_table' = req_table
      BY <1>8 DEF CancelAllEnd, TimerInv, Emptied
    <2> QED  BY <1>4, <1>8, <2>1 DEF TableLeft
  <1> QED  BY <1>4, <1>5, <1>6, <1>7, <1>8

-----------------------------------------------------------------------------
(* Blocking requests.                                                      *)

Flying(r)     == status[r] \in {"SENDING", "SENT"}
Submitting(r) == Running("submit") /\ Top.req = r

\* A blocking request in flight is the one the channel waits for, or is about to be, and
\* no other pending request is in flight.
Alone(r) == r \in PendingReqs /\ prof[r].blocking /\ Flying(r) =>
    /\ block_req = r \/ Submitting(r)
    /\ \A s \in PendingReqs : Flying(s) => s = r

\* The loops of cancel_all clear block_req before they cancel what it was.
BlockInv ==
    /\ owner = None
    /\ Cancelling => block_req = None
    /\ block_req # None => Flying(block_req)
    /\ \A r \in Req : Submitting(r) =>
         status[r] = "SENDING" /\ (prof[r].internal \/ block_req = None)
    /\ ~Cancelling => \A r \in Req : Alone(r)

\* The channel itself starts no transaction.
LEMMA OwnerStays ==
    ASSUME Next PROVE UNCHANGED owner
  <1>1. CASE AppCall
    BY <1>1
    DEF AppCall, SendRequest, SendThrough, CancelRequest, CancelThen, CancelAll, RetryRequest,
        DropRequest, Serialize, Deserialize, AppReturns, txnVars
  <1>2. CASE Event
    BY <1>2
    DEF Event, Connected, Disconnected, RequestSent, Response, Indication, Timeout,
        PendingTimeout, txnVars
  <1>3. CASE Step
    BY <1>3
    DEF Step, WriteStop, Dequeue, Submit, UpdatePending, ResetTimeout, HandleResponse,
        ExpirePending, ExpireOne, ExpireEnd, TakeRetries, RequeueNext, RequeueEnd,
        DropPending, CancelQueued, CancelTableStart, CancelTable, CancelRetry,
        CancelLoopEnd, CancelAllEnd, txnVars
  <1> QED  BY <1>1, <1>2, <1>3 DEF Next

\* A request keeps what the application has set in it, once it is submitted.
LEMMA ProfilesStay ==
    ASSUME ListInv, Next, NEW r \in Req, Flying(r)
    PROVE  prof'[r] = prof[r]
  <1>1. prof \in [Req -> Profiles \cup {AckProfile}]
    BY DEF ListInv, TypeOK, RequestTypeOK
  <1>2. \/ UNCHANGED prof
        \/ \E s \in Req : status[s] = "NEW" /\ \E p : prof' = [prof EXCEPT ![s] = p]
    <2>1. CASE AppCall
      BY <2>1
      DEF AppCall, SendRequest, SendThrough, CancelRequest, CancelThen, CancelAll,
          RetryRequest, DropRequest, Serialize, Deserialize, AppReturns, reqVars
    <2>2. CASE Event
      <3>1. CASE \E i \in Ids, a \in ReqOrNone : Response(i, a)
        BY <3>1 DEF Response, QueueAck, reqVars, ReqOrNone
      <3>2. CASE ~\E i \in Ids, a \in ReqOrNone : Response(i, a)
        BY <2>2, <3>2
        DEF Event, Connected, Disconnected, RequestSent, Indication, QueueAck, Timeout,
            PendingTimeout, reqVars
      <3> QED  BY <3>1, <3>2
    <2>3. CASE Step
      BY <2>3
      DEF Step, WriteStop, Dequeue, Submit, UpdatePending, ResetTimeout, HandleResponse,
          ExpirePending, ExpireOne, ExpireEnd, TakeRetries, RequeueNext, RequeueEnd,
          DropPending, CancelQueued, CancelTableStart, CancelTable, CancelRetry,
          CancelLoopEnd, CancelAllEnd, reqVars
    <2> QED  BY <2>1, <2>2, <2>3 DEF Next
  <1> QED  BY <1>1, <1>2 DEF Flying

\* Only dequeue_request begins to submit a request.
LEMMA SubmitBegins ==
    ASSUME WriteInv, PendingInv, ListInv', Next, ~Dequeue
    PROVE  ~Running("submit")'
  <1> SUFFICES ASSUME Running("submit")' PROVE FALSE
    OBVIOUS
  <1>1. ListInv /\ stack \in Seq(FrameType) /\ stack' \in Seq(FrameType)
    BY DEF WriteInv, ListInv, TypeOK, StackTypeOK
  <1>2. "submit" \in Executing(stack')
    BY <1>1, PopFrame DEF Running
  <1>3. ~Running("submit") => "submit" \notin Executing(stack)
    <2>1. stack = <<>> => Executing(stack) = {}
      BY DEF Executing
    <2>2. stack # <<>> => Executing(stack) = {Head(stack).fn} \cup Executing(Rest)
      BY <1>1, PopFrame DEF Rest
    <2> QED  BY <2>1, <2>2 DEF WriteInv, SubmitOnTop, Running
  <1>4. CASE AppCall
    BY <1>1, <1>2, <1>3, <1>4, AppCallSteady DEF Steady, Flow, NoneBegins
  <1>5. CASE Event
    <2>1. CASE \E due \in SUBSET Ids : PendingTimeout(due)
      BY <1>1, <1>2, <1>3, <2>1, PendingTimeoutSettles DEF Settling, NoneBegins
    <2>2. CASE Disconnected \/ RequestSent
      BY <1>1, <1>2, <1>3, <2>2, LinkKeepsPending DEF Flow, NoneBegins
    <2>3. CASE \/ Connected
               \/ \E a \in Req : Indication(a)
               \/ \E due \in SUBSET Timeable, again \in SUBSET retry : Timeout(due, again)
      BY <1>1, <1>2, <1>3, <2>3, ConnectedSteady, IndicationSteady, TimeoutSteady
      DEF Steady, Flow, NoneBegins
    <2>4. CASE \E i \in Ids, a \in ReqOrNone : Response(i, a)
      BY <1>1, <1>2, <1>3, <2>4, ResponseArrives
    <2> QED  BY <1>5, <2>1, <2>2, <2>3, <2>4 DEF Event
  <1>6. CASE Step
    <2>1. CASE UpdatePending \/ HandleResponse \/ ExpirePending \/ DropPending
      BY <1>1, <1>2, <1>3, <2>1, UpdatePendingSettles, HandleResponseSettles,
         ExpirePendingSettles, DropPendingSettles
      DEF Settling, NoneBegins
    <2>2. CASE Submit
      <3>1. /\ stack # <<>> /\ Rest \in Seq(FrameType)
            /\ "submit" \notin Executing(Rest)
        <4>1. Running("submit") /\ stack # <<>>
          BY <2>2 DEF Submit, Running
        <4>2. "submit" \notin Executing(Rest)
          BY <4>1 DEF WriteInv, SubmitOnTop
        <4> QED  BY <1>1, <4>1, <4>2, RestTyped DEF ListInv, TypeOK
      <3>2. stack' = <<Write>> \o Rest \/ stack' = Rest
        <4>1. PICK outcome \in IF closed THEN {"ERROR"} ELSE SendOutcomes : Submit!3!(outcome)
          BY <2>2 DEF Submit
        <4> QED  BY <4>1
      <3>3. Executing(<<Write>> \o Rest) = Executing(<<Write>>) \cup Executing(Rest)
        BY <3>1, PlainCalls, PushFrames DEF Plain
      <3> QED  BY <1>2, <3>1, <3>2, <3>3, PlainCalls, PlainNoSubmit
    <2>3. CASE ~(Submit \/ UpdatePending \/ HandleResponse \/ ExpirePending \/ DropPending)
      BY <1>1, <1>2, <1>3, <1>6, <2>3, StepSteady DEF Steady, Flow, NoneBegins
    <2> QED  BY <2>1, <2>2, <2>3
  <1> QED  BY <1>4, <1>5, <1>6 DEF Next

\* What is in flight without a deadline is in the table, so nothing is when that is empty.
LEMMA EmptyTableNoFlightNext ==
    ASSUME NoTimeouts, RequestInv', TableLeft' = {}, NEW r \in Req
    PROVE  ~Flying(r)'
  <1> SUFFICES ASSUME Flying(r)' PROVE FALSE
    OBVIOUS
  <1>1. Known(r)' /\ Untimed(r)'
    <2>1. prof' \in [Req -> Profiles \cup {AckProfile}]
      BY DEF RequestInv, ListInv, TypeOK, RequestTypeOK
    <2>2. AckProfile.timeout = "default"
      BY DEF AckProfile
    <2> QED  BY <2>1, <2>2 DEF NoTimeouts, Untimed, Timed, Flying, Known
  <1>2. id'[r] \in Ids
    <2>1. id'[r] \in 0 .. IdMax /\ id'[r] \in 1 .. last_req_id'
      BY <1>1 DEF RequestInv, IdsGiven, OwnIds, ListInv, TypeOK, RequestTypeOK
    <2> QED  BY <2>1 DEF Ids
  <1>3. req_table'[id'[r]] = r
    BY <1>1 DEF RequestInv, Placed, Flying, OwnIds
  <1> QED  BY <1>2, <1>3 DEF TableLeft

\* Steps that bring nothing new into flight keep BlockInv if block_req goes together with
\* what it stands for.
LEMMA BlockKept ==
    ASSUME NoTimeouts, "response" \notin Reentrant, RequestInv, RequestInv', TimerInv,
           BlockInv, Next, ~Running("submit"), ~Running("submit")',
           \A r \in Req : Flying(r)' => Flying(r),
           PendingReqs' \subseteq PendingReqs,
           block_req' \in {block_req, None},
           block_req' # None => Flying(block_req)',
           block_req # None /\ block_req' = None =>
             \/ block_req \notin PendingReqs' \/ ~(status'[block_req] \in {"SENDING", "SENT"})
             \/ ~prof[block_req].blocking \/ Cancelling'
    PROVE  BlockInv'
  <1>1. owner' = owner /\ ListInv /\ ListInv' /\ \A r \in Req : Flying(r) => prof'[r] = prof[r]
    BY OwnerStays, ProfilesStay DEF RequestInv
  <1>2. ~Cancelling /\ Cancelling' => block_req' = None
    <2>1. ~Cancelling /\ Cancelling' => \E n \in BOOLEAN : CancelAll(n)
      BY <1>1, CancelsBegin
    <2> QED  BY <2>1 DEF CancelAll
  <1>3. Cancelling' => block_req' = None
    BY <1>2 DEF BlockInv
  <1>4. ~Cancelling' => \A r \in Req : Alone(r)'
    <2>1. CASE Cancelling /\ ~Cancelling'
      <3>1. TableLeft' = {}
        BY <2>1, CancelsEnd
      <3>2. \A r \in Req : ~Flying(r)'
        BY <3>1, EmptyTableNoFlightNext
      <3> QED  BY <3>2 DEF Alone
    <2>2. ASSUME ~Cancelling, ~Cancelling', NEW r \in Req,
                 r \in PendingReqs', prof'[r].blocking, Flying(r)'
          PROVE  block_req' = r /\ \A s \in PendingReqs' : Flying(s)' => s = r
      <3>1. Flying(r) /\ prof[r].blocking /\ r \in PendingReqs
        BY <1>1, <2>2
      <3>2. block_req = r /\ \A s \in PendingReqs : Flying(s) => s = r
        BY <2>2, <3>1 DEF BlockInv, Alone, Submitting
      <3>3. r # None
        OBVIOUS
      <3>4. block_req' = r
        BY <2>2, <3>1, <3>2, <3>3 DEF Flying
      <3>5. \A s \in PendingReqs' : s \in Req
        BY <1>1 DEF ListInv, TypeOK, TableTypeOK, PendingReqs, ReqOrNone
      <3> QED  BY <3>2, <3>4, <3>5
    <2> QED  BY <2>1, <2>2 DEF Alone
  <1>5. \A r \in Req : ~Submitting(r)'
    BY DEF Submitting
  <1> QED  BY <1>1, <1>3, <1>4, <1>5 DEF BlockInv
\* Steps that change the status of nothing and leave block_req alone.
LEMMA BlockQuiet ==
    ASSUME NoTimeouts, "response" \notin Reentrant, RequestInv, RequestInv', TimerInv,
           BlockInv, Next, ~Running("submit"), ~Running("submit")',
           Quiet, UNCHANGED <<status, block_req>>
    PROVE  BlockInv'
  <1>1. PendingReqs' \subseteq PendingReqs
    BY DEF Quiet, PendingReqs
  <1>2. \A r \in Req : Flying(r)' => Flying(r)
    BY DEF Flying
  <1>3. block_req' # None => Flying(block_req)'
    BY DEF BlockInv, Flying
  <1>4. block_req' \in {block_req, None}
    OBVIOUS
  <1>5. block_req # None /\ block_req' = None =>
             \/ block_req \notin PendingReqs' \/ ~(status'[block_req] \in {"SENDING", "SENT"})
             \/ ~prof[block_req].blocking \/ Cancelling'
    OBVIOUS
  <1> QED  BY <1>1, <1>2, <1>3, <1>4, <1>5, BlockKept

\* A request joins the queue, for the first time or for another try.
LEMMA BlockQueued ==
    ASSUME NoTimeouts, "response" \notin Reentrant, RequestInv, RequestInv', TimerInv,
           BlockInv, Next, ~Running("submit"), ~Running("submit")',
           NEW r \in Req, status[r] \in {"NEW", "RETRY"},
           status' = [status EXCEPT ![r] = "QUEUED"], UNCHANGED <<pending, block_req>>
    PROVE  BlockInv'
  <1>1. status \in [Req -> Statuses] /\ block_req \in ReqOrNone
    BY DEF RequestInv, ListInv, TypeOK, RequestTypeOK, SendTypeOK
  <1>2. PendingReqs' \subseteq PendingReqs
    BY DEF PendingReqs
  <1>3. \A s \in Req : Flying(s)' => Flying(s)
    BY <1>1 DEF Flying
  <1>4. block_req' # None => Flying(block_req)'
    BY <1>1 DEF BlockInv, Flying, ReqOrNone
  <1>5. block_req' \in {block_req, None}
    OBVIOUS
  <1>6. block_req # None /\ block_req' = None =>
             \/ block_req \notin PendingReqs' \/ ~(status'[block_req] \in {"SENDING", "SENT"})
             \/ ~prof[block_req].blocking \/ Cancelling'
    OBVIOUS
  <1> QED  BY <1>2, <1>3, <1>4, <1>5, <1>6, BlockKept

\* cancel_all has cleared block_req, or does so.
LEMMA BlockCancels ==
    ASSUME NoTimeouts, "response" \notin Reentrant, RequestInv, RequestInv', TimerInv,
           BlockInv, Next, ~Running("submit"), ~Running("submit")',
           Quiet, block_req' = None, block_req = None \/ Cancelling'
    PROVE  BlockInv'
  <1>1. PendingReqs' \subseteq PendingReqs
    BY DEF Quiet, PendingReqs
  <1>2. \A r \in Req : Flying(r)' => Flying(r)
    BY DEF Flying, Quiet
  <1>3. block_req' # None => Flying(block_req)'
    OBVIOUS
  <1>4. block_req' \in {block_req, None}
    OBVIOUS
  <1>5. block_req # None /\ block_req' = None =>
             \/ block_req \notin PendingReqs' \/ ~(status'[block_req] \in {"SENDING", "SENT"})
             \/ ~prof[block_req].blocking \/ Cancelling'
    OBVIOUS
  <1> QED  BY <1>1, <1>2, <1>3, <1>4, <1>5, BlockKept

\* The request a cancellation finds is the only one the id belongs to: if that is the
\* request the channel waits for, it is found and cancelled, and block_req is cleared.
LEMMA CancelUnblocks ==
    ASSUME NoTimeouts, RequestInv, BlockInv, NEW i \in KnownIds, NEW n \in BOOLEAN, NEW after,
           CancelThen(i, n, after), block_req # None
    PROVE  IF id[block_req] = i THEN block_req' = None /\ status'[block_req] = "CANCELLED"
           ELSE block_req' = block_req /\ status'[block_req] = status[block_req]
  <1> DEFINE b == block_req
             QueuedAt == {k \in DOMAIN send_queue : id[send_queue[k]] = i}
  <1>1. /\ status \in [Req -> Statuses] /\ b \in Req /\ i \in Ids
        /\ send_queue \in Seq(Req) /\ send_req \in ReqOrNone /\ retry \subseteq Req
        /\ req_table \in [Ids -> ReqOrNone] /\ ListInv
    BY DEF RequestInv, ListInv, TypeOK, RequestTypeOK, SendTypeOK, TableTypeOK, ReqOrNone,
           KnownIds
  <1>2. Flying(b) /\ Known(b) /\ Placed(b)
    BY <1>1, AllUntimed DEF BlockInv, RequestInv, Flying, Known
  <1>3. block_req' = IF id[b] = i THEN None ELSE b
    BY DEF CancelThen, UnblockedBy
  <1>4. PICK x \in Req : id[x] = i /\ Known(x)
    BY DEF KnownIds, Known
  <1>5. CASE id[b] = i
    <2>1. ASSUME NEW r \in Req, id[r] = i, Known(r) PROVE r = b
      BY <1>1, <1>2, <1>5, <2>1 DEF RequestInv, IdsApart, OwnIds
    <2>2. send_req # None /\ id[send_req] = i => send_req = b
      BY <1>1, <2>1 DEF RequestInv, NewUnknown, ReqOrNone
    <2>3. QueuedAt = {}
      <3> SUFFICES ASSUME NEW k \in DOMAIN send_queue, id[send_queue[k]] = i PROVE FALSE
        OBVIOUS
      <3>1. send_queue[k] \in Req /\ send_queue[k] \in Range(send_queue)
        BY <1>1, InDomain DEF Range
      <3>2. Known(send_queue[k])
        BY <1>1, <3>1 DEF ListInv, NewIsNowhere, Known
      <3>3. send_queue[k] = b
        BY <2>1, <3>1, <3>2
      <3> QED  BY <1>2, <3>1, <3>3 DEF Placed, Flying
    <2>4. req_table[i] = b
      BY <1>2, <1>5 DEF Placed, Flying, OwnIds
    <2>5. \/ /\ send_req # None /\ id[send_req] = i
             /\ Complete(send_req, "CANCELLED")
          \/ Complete(req_table[i], "CANCELLED")
      BY <1>1, <1>2, <2>2, <2>3, <2>4 DEF CancelThen, Flying
    <2>6. status' = [status EXCEPT ![b] = "CANCELLED"]
      BY <2>2, <2>4, <2>5 DEF Complete
    <2> QED  BY <1>1, <1>3, <1>5, <2>6
  <1>6. CASE id[b] # i
    <2>1. ASSUME NEW r \in Req, Complete(r, "CANCELLED"), r # b
          PROVE  status'[b] = status[b]
      BY <1>1, <2>1 DEF Complete
    <2>2. req_table[i] # b
      <3> SUFFICES ASSUME req_table[i] = b PROVE FALSE
        OBVIOUS
      <3>1. i \in OwnIds(b)
        BY <1>1 DEF ListInv, TableKeys, OwnIds
      <3>2. x = b
        BY <1>1, <1>2, <1>4, <3>1 DEF RequestInv, IdsApart, OwnIds
      <3> QED  BY <1>4, <1>6, <3>2
    <2>3. \A k \in DOMAIN send_queue : send_queue[k] \in Req
      BY <1>1, InDomain
    <2>4. \/ status' = status
          \/ send_req # None /\ id[send_req] = i /\ Complete(send_req, "CANCELLED")
          \/ \E k \in QueuedAt : Complete(send_queue[k], "CANCELLED")
          \/ req_table[i] # None /\ Complete(req_table[i], "CANCELLED")
          \/ \E r \in retry : id[r] = i /\ Complete(r, "CANCELLED")
      BY DEF CancelThen
    <2>5. \/ status' = status
          \/ \E r \in Req : r # b /\ Complete(r, "CANCELLED")
      BY <1>1, <1>6, <2>2, <2>3, <2>4 DEF ReqOrNone
    <2> QED  BY <1>3, <1>6, <2>1, <2>5
  <1> QED  BY <1>5, <1>6

\* So cancel_request keeps BlockInv.
LEMMA CancelKeepsBlock ==
    ASSUME NoTimeouts, "response" \notin Reentrant, RequestInv, RequestInv', TimerInv,
           BlockInv, Next, ~Running("submit"), ~Running("submit")',
           NEW i \in KnownIds, NEW n \in BOOLEAN, NEW after, CancelThen(i, n, after)
    PROVE  BlockInv'
  <1>1. Quiet
    BY CancelQuiet DEF RequestInv, KnownIds
  <1>2. CASE block_req = None
    <2>1. block_req' = None
      BY <1>2 DEF CancelThen, UnblockedBy
    <2> QED  BY <1>1, <1>2, <2>1, BlockCancels
  <1>3. CASE block_req # None
    <2>1. IF id[block_req] = i THEN block_req' = None /\ status'[block_req] = "CANCELLED"
          ELSE block_req' = block_req /\ status'[block_req] = status[block_req]
      BY <1>3, CancelUnblocks
    <2>2. PendingReqs' \subseteq PendingReqs
      BY <1>1 DEF Quiet, PendingReqs
    <2>3. \A r \in Req : Flying(r)' => Flying(r)
      BY <1>1 DEF Flying, Quiet
    <2>4. block_req' # None => Flying(block_req)'
      BY <1>3, <2>1 DEF BlockInv, Flying
    <2>5. block_req' \in {block_req, None}
      BY <2>1
    <2>6. block_req # None /\ block_req' = None =>
             \/ block_req \notin PendingReqs' \/ ~(status'[block_req] \in {"SENDING", "SENT"})
             \/ ~prof[block_req].blocking \/ Cancelling'
      BY <2>1
    <2> QED  BY <2>2, <2>3, <2>4, <2>5, <2>6, BlockKept
  <1> QED  BY <1>2, <1>3

\* The end of serialization releases the channel from a request that is not blocking.
LEMMA DeserializeKeepsBlock ==
    ASSUME NoTimeouts, "response" \notin Reentrant, RequestInv, RequestInv', TimerInv,
           BlockInv, Next, ~Running("submit"), ~Running("submit")', Deserialize
    PROVE  BlockInv'
  <1>1. UNCHANGED <<status, pending>>
    BY DEF Deserialize, reqVars, tabVars
  <1>2. block_req' = block_req \/ (block_req' = None /\ ~prof[block_req].blocking)
    BY DEF Deserialize
  <1>3. PendingReqs' \subseteq PendingReqs
    BY <1>1 DEF PendingReqs
  <1>4. \A r \in Req : Flying(r)' => Flying(r)
    BY <1>1 DEF Flying
  <1>5. block_req' # None => Flying(block_req)'
    BY <1>1, <1>2 DEF BlockInv, Flying
  <1>6. block_req' \in {block_req, None}
    BY <1>2
  <1>7. block_req # None /\ block_req' = None =>
             \/ block_req \notin PendingReqs' \/ ~(status'[block_req] \in {"SENDING", "SENT"})
             \/ ~prof[block_req].blocking \/ Cancelling'
    BY <1>2
  <1> QED  BY <1>3, <1>4, <1>5, <1>6, <1>7, BlockKept

\* The rest of a packet is written.
LEMMA RequestSentKeepsBlock ==
    ASSUME NoTimeouts, "response" \notin Reentrant, RequestInv, RequestInv', TimerInv,
           BlockInv, Next, ~Running("submit"), ~Running("submit")', RequestSent
    PROVE  BlockInv'
  <1>1. UNCHANGED <<pending, block_req>>
    BY DEF RequestSent, tabVars
  <1>2. status \in [Req -> Statuses] /\ block_req \in ReqOrNone
    BY DEF RequestInv, ListInv, TypeOK, RequestTypeOK, SendTypeOK
  <1>3. \/ status' = status
        \/ \E s : status[s] = "SENDING" /\ status' = [status EXCEPT ![s] = "SENT"]
    BY DEF RequestSent
  <1>4. PendingReqs' \subseteq PendingReqs
    BY <1>1 DEF PendingReqs
  <1>5. \A r \in Req : Flying(r)' <=> Flying(r)
    BY <1>2, <1>3 DEF Flying
  <1>6. \A r \in Req : Flying(r)' => Flying(r)
    BY <1>5
  <1>7. block_req' # None => Flying(block_req)'
    BY <1>1, <1>2, <1>5 DEF BlockInv, Flying, ReqOrNone
  <1>8. block_req' \in {block_req, None}
    BY <1>1
  <1>9. block_req # None /\ block_req' = None =>
             \/ block_req \notin PendingReqs' \/ ~(status'[block_req] \in {"SENDING", "SENT"})
             \/ ~prof[block_req].blocking \/ Cancelling'
    BY <1>1
  <1> QED  BY <1>4, <1>6, <1>7, <1>8, <1>9, BlockKept

\* What is pending for too long is given up together with block_req.
LEMMA PendingTimeoutKeepsBlock ==
    ASSUME NoTimeouts, "response" \notin Reentrant, RequestInv, RequestInv', TimerInv,
           BlockInv, TryInv, Next, ~Running("submit"), ~Running("submit")',
           NEW due \in SUBSET Ids, PendingTimeout(due)
    PROVE  BlockInv'
  <1>1. /\ status' = status
        /\ pending' = [i \in Ids |-> IF i \in due THEN None ELSE pending[i]]
        /\ block_req' = IF \E i \in due : pending[i] = block_req THEN None ELSE block_req
    BY DEF PendingTimeout, reqVars
  <1>2. PendingReqs' \subseteq PendingReqs
    BY <1>1 DEF PendingReqs
  <1>3. \A r \in Req : Flying(r)' => Flying(r)
    BY <1>1 DEF Flying
  <1>4. block_req' # None => Flying(block_req)'
    BY <1>1 DEF BlockInv, Flying
  <1>5. block_req' \in {block_req, None}
    BY <1>1
  <1>6. block_req # None /\ block_req' = None => block_req \notin PendingReqs'
    <2> SUFFICES ASSUME block_req # None, block_req' = None,
                        NEW j \in Ids, pending'[j] = block_req
                 PROVE  FALSE
      BY DEF PendingReqs
    <2>1. PICK i \in due : pending[i] = block_req
      BY <1>1
    <2>2. i = current_id[block_req]
      BY <2>1 DEF TryInv
    <2>3. j \notin due /\ pending[j] = block_req
      BY <1>1
    <2>4. j = current_id[block_req]
      BY <2>3 DEF TryInv
    <2> QED  BY <2>1, <2>2, <2>3, <2>4
  <1>7. block_req # None /\ block_req' = None =>
             \/ block_req \notin PendingReqs' \/ ~(status'[block_req] \in {"SENDING", "SENT"})
             \/ ~prof[block_req].blocking \/ Cancelling'
    BY <1>6
  <1> QED  BY <1>2, <1>3, <1>4, <1>5, <1>7, BlockKept

\* A reply releases the channel from the request it belongs to.
LEMMA HandleResponseKeepsBlock ==
    ASSUME NoTimeouts, "response" \notin Reentrant, RequestInv, RequestInv', TimerInv,
           BlockInv, TryInv, Next, ~Running("submit"), ~Running("submit")', HandleResponse
    PROVE  BlockInv'
  <1>1. PICK i \in Top.ids : HandleResponse!2!(i)
    BY DEF HandleResponse
  <1>2. /\ status \in [Req -> Statuses] /\ pending \in [Ids -> ReqOrNone]
        /\ req_table \in [Ids -> ReqOrNone] /\ block_req \in ReqOrNone
    BY DEF RequestInv, ListInv, TypeOK, RequestTypeOK, TableTypeOK, SendTypeOK
  <1>3. i \in Ids /\ LastTry(i)
    <2>1. ListInv /\ Running("response") /\ LastTry(i)
      BY DEF RequestInv, HandleResponse, TryInv
    <2>2. Top \in FrameType
      BY <2>1, RestTyped DEF ListInv, TypeOK, Running
    <2> QED  BY <2>1, <2>2 DEF FrameType
  <1>4. /\ pending' = [pending EXCEPT ![i] = None]
        /\ block_req' = IF block_req # None /\ current_id[block_req] = i
                        THEN None ELSE block_req
    BY <1>1 DEF PendingWithout
  <1>5. \/ status' = status
        \/ /\ req_table[i] \in Req
           /\ \/ status' = [status EXCEPT ![req_table[i]] = "DONE"]
              \/ status' = [status EXCEPT ![req_table[i]] = "RETRY"]
    BY <1>1, <1>2, <1>3 DEF Answered, ScheduleRetry, Complete, ReqOrNone
  <1>6. PendingReqs' \subseteq PendingReqs
    BY <1>2, <1>4 DEF PendingReqs
  <1>7. \A r \in Req : Flying(r)' => Flying(r)
    BY <1>2, <1>5 DEF Flying
  <1>8. block_req' # None => Flying(block_req)'
    <2> SUFFICES ASSUME block_req' # None PROVE Flying(block_req)'
      OBVIOUS
    <2>1. block_req' = block_req /\ block_req \in Req /\ current_id[block_req] # i
      BY <1>2, <1>4 DEF ReqOrNone
    <2>2. req_table[i] # block_req
      <3> SUFFICES ASSUME req_table[i] = block_req PROVE FALSE
        OBVIOUS
      <3>1. Known(block_req) /\ i \in OwnIds(block_req)
        BY <1>3, <2>1 DEF Known, OwnIds, RequestInv, ListInv, TableKeys, BlockInv, Flying
      <3> QED  BY <1>3, <2>1, <3>1 DEF LastTry
    <2>3. status'[block_req] = status[block_req]
      BY <1>2, <1>5, <2>1, <2>2
    <2> QED  BY <2>1, <2>3 DEF BlockInv, Flying
  <1>9. block_req' \in {block_req, None}
    BY <1>4
  <1>10. block_req # None /\ block_req' = None => block_req \notin PendingReqs'
    <2> SUFFICES ASSUME block_req # None, block_req' = None,
                        NEW j \in Ids, pending'[j] = block_req
                 PROVE  FALSE
      BY DEF PendingReqs
    <2>1. i = current_id[block_req]
      BY <1>4
    <2>2. j # i /\ pending[j] = block_req
      BY <1>2, <1>3, <1>4
    <2>3. j = current_id[block_req]
      BY <2>2 DEF TryInv
    <2> QED  BY <2>1, <2>2, <2>3
  <1>11. block_req # None /\ block_req' = None =>
             \/ block_req \notin PendingReqs' \/ ~(status'[block_req] \in {"SENDING", "SENT"})
             \/ ~prof[block_req].blocking \/ Cancelling'
    BY <1>10
  <1> QED  BY <1>6, <1>7, <1>8, <1>9, <1>11, BlockKept

\* dequeue_request hands the request it chose to its caller.
LEMMA DequeueHands ==
    ASSUME ListInv, Dequeue, "pending" \notin Reentrant
    PROVE  \E k \in DequeueIdx :
             /\ k \in DOMAIN send_queue /\ send_queue[k] \in Range(send_queue)
             /\ \A j \in DequeueIdx : k <= j
             /\ status' = [status EXCEPT ![send_queue[k]] = "SENDING"]
             /\ pending' = IF prof[send_queue[k]].internal THEN pending
                           ELSE [pending EXCEPT ![current_id[send_queue[k]]] = send_queue[k]]
             /\ stack' # <<>> /\ Top'.fn = "submit" /\ Top'.req = send_queue[k]
  <1>1. PICK k \in DequeueIdx : (\A j \in DequeueIdx : k <= j) /\ Dequeue!3!(k)!2
    BY DEF Dequeue
  <1> DEFINE f == [Frame("submit") EXCEPT !.req = send_queue[k]]
  <1>2. stack \in Seq(FrameType) /\ send_queue \in Seq(Req) /\ k \in DOMAIN send_queue
        /\ Rest \in Seq(FrameType)
    <2>1. stack # <<>>
      BY DEF Dequeue, Running
    <2> QED
      BY <2>1, RestTyped
      DEF ListInv, TypeOK, StackTypeOK, SendTypeOK, DequeueIdx, OrdinaryIdx, InternalIdx
  <1>3. send_queue[k] \in Range(send_queue)
    BY <1>2 DEF Range
  <1>4. f \in FrameType /\ f.fn = "submit" /\ f.req = send_queue[k]
    BY <1>2, InDomain, HeldTyped DEF Frame
  <1>5. stack' = <<f>> \o Rest
    <2>1. \/ stack' = <<f>> \o Rest
          \/ stack' = <<>> \o <<f>> \o Rest
      BY <1>1 DEF Call
    <2>2. <<>> \o <<f>> = <<f>>
      OBVIOUS
    <2> HIDE DEF f
    <2> QED  BY <2>1, <2>2
  <1>6. /\ status' = [status EXCEPT ![send_queue[k]] = "SENDING"]
        /\ pending' = IF prof[send_queue[k]].internal THEN pending
                      ELSE [pending EXCEPT ![current_id[send_queue[k]]] = send_queue[k]]
    BY <1>1
  <1> HIDE DEF f
  <1>7. stack' # <<>> /\ Head(stack') = f
    BY <1>2, <1>4, <1>5, PushTop
  <1>8. Top'.fn = "submit" /\ Top'.req = send_queue[k]
    BY <1>4, <1>7 DEF Top
  <1> QED  BY <1>1, <1>2, <1>3, <1>6, <1>7, <1>8

\* A request that may block is taken off the queue only while nothing else is pending,
\* and no ordinary one is while the channel waits for block_req.
LEMMA DequeueBlocks ==
    ASSUME NEW k \in DequeueIdx, owner = None, ~prof[send_queue[k]].internal
    PROVE  /\ block_req = None
           /\ HasPending => ~prof[send_queue[k]].blocking
  BY DEF DequeueIdx, OrdinaryIdx, InternalIdx

LEMMA DequeueKeepsBlock ==
    ASSUME NoTimeouts, RequestInv, RequestInv', TimerInv, BlockInv, TryInv, Next, Dequeue,
           "pending" \notin Reentrant
    PROVE  BlockInv'
  <1>1. /\ status \in [Req -> Statuses] /\ pending \in [Ids -> ReqOrNone]
        /\ block_req \in ReqOrNone /\ ListInv /\ send_queue \in Seq(Req)
    BY DEF RequestInv, ListInv, TypeOK, RequestTypeOK, TableTypeOK, SendTypeOK
  <1>2. PICK k \in DequeueIdx :
             /\ k \in DOMAIN send_queue /\ send_queue[k] \in Range(send_queue)
             /\ \A j \in DequeueIdx : k <= j
             /\ status' = [status EXCEPT ![send_queue[k]] = "SENDING"]
             /\ pending' = IF prof[send_queue[k]].internal THEN pending
                           ELSE [pending EXCEPT ![current_id[send_queue[k]]] = send_queue[k]]
             /\ stack' # <<>> /\ Top'.fn = "submit" /\ Top'.req = send_queue[k]
    BY <1>1, DequeueHands
  <1>3. PICK r \in Req : r = send_queue[k] /\ r \in Range(send_queue)
    BY <1>1, <1>2, InDomain
  <1>4. status[r] = "QUEUED"
    <2>1. Known(r)
      BY <1>1, <1>3 DEF ListInv, NewIsNowhere, Known
    <2> QED  BY <1>3, <2>1, AllUntimed DEF RequestInv, Placed
  <1>5. UNCHANGED <<prof, block_req>> /\ ~Running("submit") /\ ~Cancelling
    BY DEF Dequeue, Running, Top, Cancelling, CancelFns
  <1>6. owner' = None /\ owner = None
    BY OwnerStays DEF BlockInv
  <1>7. /\ \A s \in Req \ {r} : Flying(s)' <=> Flying(s)
        /\ status'[r] = "SENDING"
    BY <1>1, <1>2, <1>3 DEF Flying
  <1>8. \A s \in PendingReqs' : s # r => s \in PendingReqs
    BY <1>1, <1>2, <1>3 DEF PendingReqs
  <1>9. r \notin PendingReqs
    BY <1>4 DEF PendingReqs, TryInv, InFlight
  <1>10. ~Cancelling'
    BY <1>2 DEF Cancelling, CancelFns
  <1>11. block_req' # None => Flying(block_req)'
    <2> SUFFICES ASSUME block_req # None PROVE Flying(block_req)'
      BY <1>5
    <2>1. block_req \in Req /\ Flying(block_req)
      BY <1>1 DEF BlockInv, ReqOrNone
    <2>2. block_req # r
      BY <1>4, <2>1 DEF Flying
    <2> QED  BY <1>5, <1>7, <2>1, <2>2 DEF Flying
  <1>12. \A s \in Req : Submitting(s)' => s = r
    BY <1>2, <1>3 DEF Submitting
  <1>13. ~prof[r].internal => block_req = None /\ (HasPending => ~prof[r].blocking)
    BY <1>3, <1>6, DequeueBlocks
  <1>14. \A s \in Req : Submitting(s)' =>
            status'[s] = "SENDING" /\ (prof'[s].internal \/ block_req' = None)
    BY <1>5, <1>7, <1>12, <1>13
  <1>15. ASSUME NEW s \in Req, s \in PendingReqs', prof'[s].blocking, Flying(s)'
         PROVE  /\ block_req' = s \/ Submitting(s)'
                /\ \A t \in PendingReqs' : Flying(t)' => t = s
    <2>1. \A t \in PendingReqs' : t \in Req
      BY <1>1, <1>2, <1>3 DEF PendingReqs, ReqOrNone
    <2>2. ASSUME s # r PROVE block_req = s /\ \A t \in PendingReqs : Flying(t) => t = s
      <3>1. s \in PendingReqs /\ Flying(s) /\ prof[s].blocking
        BY <1>5, <1>7, <1>8, <1>15, <2>2
      <3> QED  BY <1>5, <3>1 DEF BlockInv, Alone, Submitting
    <2>3. CASE prof[r].internal
      <3>1. pending' = pending
        BY <1>2, <1>3, <2>3
      <3>2. r \notin PendingReqs'
        BY <1>9, <3>1 DEF PendingReqs
      <3>3. s # r
        BY <1>15, <3>2
      <3> QED  BY <1>5, <1>7, <1>8, <2>1, <2>2, <3>2, <3>3
    <2>4. CASE ~prof[r].internal
      <3>1. s = r
        BY <1>13, <2>2, <2>4
      <3>2. Submitting(s)'
        BY <1>2, <1>3, <3>1 DEF Submitting, Running, Top
      <3>3. ~HasPending
        BY <1>5, <1>13, <1>15, <2>4, <3>1
      <3>4. PendingReqs = {}
        BY <3>3 DEF HasPending, PendingReqs
      <3> QED  BY <1>8, <3>1, <3>2, <3>4
    <2> QED  BY <2>3, <2>4
  <1>16. \A s \in Req : Alone(s)'
    BY <1>15 DEF Alone
  <1> QED  BY <1>6, <1>10, <1>11, <1>14, <1>16 DEF BlockInv

\* send_next_request sets block_req for the request that blocks, which nobody has seen yet.
LEMMA SubmitKeepsBlock ==
    ASSUME NoTimeouts, RequestInv, RequestInv', TimerInv, BlockInv, Next, Submit,
           ~Running("submit")'
    PROVE  BlockInv'
  <1>1. /\ status \in [Req -> Statuses] /\ block_req \in ReqOrNone /\ ListInv /\ ListInv'
        /\ prof \in [Req -> Profiles \cup {AckProfile}]
    BY DEF RequestInv, ListInv, TypeOK, RequestTypeOK, SendTypeOK
  <1>2. PICK r \in Req : r = Top.req
    BY <1>1, PopSound DEF Submit
  <1>3. Submitting(r) /\ UNCHANGED <<prof, pending>> /\ ~Cancelling /\ ~AppRuns
    BY <1>2 DEF Submit, Submitting, Running, Cancelling, Top, CancelFns, AppRuns
  <1>4. status[r] = "SENDING" /\ (prof[r].internal \/ block_req = None)
    BY <1>3 DEF BlockInv
  <1>5. PICK outcome \in IF closed THEN {"ERROR"} ELSE SendOutcomes : Submit!3!(outcome)
    BY DEF Submit
  <1>6. /\ block_req' = IF ~prof[r].internal /\ (prof[r].blocking \/ Serialized)
                        THEN r ELSE block_req
        /\ status' = status \/ status' = [status EXCEPT ![r] = "SENT"]
    BY <1>2, <1>5
  <1>7. \A s \in Req : Flying(s)' <=> Flying(s)
    BY <1>1, <1>4, <1>6 DEF Flying
  <1>8. owner' = None /\ ~Cancelling'
    <2>1. ~\E n \in BOOLEAN : CancelAll(n)
      BY <1>3 DEF CancelAll
    <2> QED  BY <1>1, <1>3, <2>1, OwnerStays, CancelsBegin DEF BlockInv
  <1>9. block_req' # None => Flying(block_req)'
    <2>1. CASE block_req' = r
      <3>1. Flying(r)'
        BY <1>4, <1>7 DEF Flying
      <3> QED  BY <2>1, <3>1 DEF Flying
    <2>2. CASE block_req' = block_req
      BY <1>1, <1>7, <2>2 DEF BlockInv, Flying, ReqOrNone
    <2> QED  BY <1>6, <2>1, <2>2
  <1>10. \A s \in Req : ~Submitting(s)'
    BY DEF Submitting
  <1>11. ASSUME NEW s \in Req, s \in PendingReqs', prof'[s].blocking, Flying(s)'
         PROVE  block_req' = s /\ \A t \in PendingReqs' : Flying(t)' => t = s
    <2>1. s \in PendingReqs /\ prof[s].blocking /\ Flying(s) /\ PendingReqs' = PendingReqs
      BY <1>3, <1>7, <1>11 DEF PendingReqs
    <2>2. block_req = s \/ Submitting(s)
      BY <1>3, <2>1 DEF BlockInv, Alone
    <2>3. \A t \in PendingReqs : Flying(t) => t = s
      BY <1>3, <2>1 DEF BlockInv, Alone
    <2>4. \A t \in PendingReqs : t \in Req
      BY <1>1 DEF ListInv, TypeOK, TableTypeOK, PendingReqs, ReqOrNone
    <2>5. ~prof[s].internal
      <3>1. AckProfile.blocking = FALSE /\ \A p \in Profiles : p.internal = FALSE
        BY ProfileAssumption DEF AckProfile, Profile
      <3>2. prof[s] \in Profiles \cup {AckProfile}
        BY <1>1
      <3> QED  BY <2>1, <3>1, <3>2
    <2>6. block_req' = s
      <3>1. CASE s = r
        BY <1>6, <2>1, <2>5, <3>1
      <3>2. CASE s # r
        <4>1. block_req = s
          BY <1>2, <2>2, <3>2 DEF Submitting
        <4>2. prof[r].internal
          BY <1>4, <4>1
        <4> QED  BY <1>6, <4>1, <4>2
      <3> QED  BY <3>1, <3>2
    <2> QED  BY <1>7, <2>1, <2>3, <2>4, <2>6
  <1>12. \A s \in Req : Alone(s)'
    BY <1>11 DEF Alone
  <1> QED  BY <1>8, <1>9, <1>10, <1>12 DEF BlockInv

\* Nobody but send_next_request runs while it has a request in its hands.
LEMMA OnlySubmit ==
    ASSUME Next, Running("submit") PROVE Submit
  <1>1. stack # <<>> /\ Top.fn = "submit"
    BY DEF Running, Top
  <1>2. ~AppCall
    BY <1>1
    DEF AppCall, SendRequest, SendThrough, CancelRequest, CancelAll, RetryRequest,
        DropRequest, Serialize, Deserialize, AppReturns, AppRuns, Running, Top
  <1>3. ~Event
    BY <1>1
    DEF Event, Connected, Disconnected, RequestSent, Response, Indication, Timeout,
        PendingTimeout, Idle, AppRuns, Running, Top
  <1> QED
    BY <1>1, <1>2, <1>3
    DEF Next, Step, Running, Top, WriteStop, Dequeue, UpdatePending, ResetTimeout,
        HandleResponse, ExpirePending, ExpireOne, ExpireEnd, TakeRetries, RequeueNext,
        RequeueEnd, DropPending, CancelQueued, CancelTableStart, CancelTable, CancelRetry,
        CancelLoopEnd, CancelAllEnd

\* cancel_all goes on with the send queue.
LEMMA CancelAllOnTop ==
    ASSUME ListInv, "response" \notin Reentrant, NEW n \in BOOLEAN, CancelAll(n)
    PROVE  Running("cancel_queue")'
  <1> DEFINE a == [Frame("cancel_queue") EXCEPT !.notify = n]
             b == [Frame("cancel_retry") EXCEPT !.notify = n]
             c == Frame("cancel_end")
  <1>1. /\ a \in FrameType /\ b \in FrameType /\ c \in FrameType
        /\ a.fn = "cancel_queue" /\ stack \in Seq(FrameType)
    BY FrameTyped DEF Frame, Functions, ListInv, TypeOK, StackTypeOK
  <1>2. \/ stack' = <<a, b, c>> \o stack
        \/ \E r : stack' = Cancelled(r, n) \o <<a, b, c>> \o stack
    BY DEF CancelAll
  <1> HIDE DEF a, b, c
  <1>3. stack' = <<a>> \o (<<b>> \o (<<c>> \o stack))
    <2>1. stack' = <<a, b, c>> \o stack \/ stack' = <<>> \o <<a, b, c>> \o stack
      BY <1>2, CancelsQuietly
    <2> QED  BY <1>1, <2>1, ThreeOnTop
  <1>4. PICK t \in Seq(FrameType) : stack' = <<a>> \o t
    BY <1>1, <1>3, PushTop
  <1> QED  BY <1>1, <1>4, PushTop DEF Running

\* The application's calls keep BlockInv.
LEMMA CallsKeepBlock ==
    ASSUME NoTimeouts, "response" \notin Reentrant, RequestInv, RequestInv', TimerInv,
           BlockInv, Next, ~Running("submit"), ~Running("submit")', AppCall
    PROVE  BlockInv'
  <1>1. ASSUME NEW r \in Req, NEW p \in Profiles, SendRequest(r, p) PROVE BlockInv'
    <2>1. /\ status[r] \in {"NEW", "RETRY"} /\ status' = [status EXCEPT ![r] = "QUEUED"]
          /\ UNCHANGED <<pending, block_req>>
      BY <1>1 DEF SendRequest, SendThrough
    <2> QED  BY <2>1, BlockQueued
  <1>2. ASSUME NEW i \in KnownIds, RetryRequest(i) PROVE BlockInv'
    <2>1. PICK r \in retry : Requeue(r)
      BY <1>2 DEF RetryRequest
    <2>2. r \in Req /\ Known(r)
      BY DEF RequestInv, ListInv, TypeOK, SendTypeOK, NewIsNowhere, Known
    <2>3. status[r] \in {"NEW", "RETRY"}
      BY <2>2, AllUntimed DEF RequestInv, Placed
    <2>4. status' = [status EXCEPT ![r] = "QUEUED"] /\ UNCHANGED <<pending, block_req>>
      BY <1>2, <2>1 DEF RetryRequest, Requeue
    <2> QED  BY <2>2, <2>3, <2>4, BlockQueued
  <1>3. ASSUME NEW i \in KnownIds, NEW n \in BOOLEAN, CancelRequest(i, n) PROVE BlockInv'
    BY <1>3, CancelKeepsBlock DEF CancelRequest
  <1>4. ASSUME NEW i \in KnownIds, DropRequest(i) PROVE BlockInv'
    BY <1>4, CancelKeepsBlock DEF DropRequest
  <1>5. CASE Deserialize
    BY <1>5, DeserializeKeepsBlock
  <1>6. CASE ~(\/ \E r \in Req, p \in Profiles : SendRequest(r, p)
               \/ \E i \in KnownIds : RetryRequest(i))
    <2>1. Quiet
      BY <1>6, CallsQuiet DEF RequestInv
    <2>2. ASSUME NEW n \in BOOLEAN, CancelAll(n) PROVE BlockInv'
      <3>1. block_req' = None
        BY <2>2 DEF CancelAll
      <3>2. Cancelling'
        BY <2>2, CancelAllOnTop DEF RequestInv, Cancelling, Running, Top, CancelFns
      <3> QED  BY <2>1, <3>1, <3>2, BlockCancels
    <2>3. CASE Serialize \/ AppReturns
      <3>1. UNCHANGED <<status, block_req>>
        BY <2>3 DEF Serialize, AppReturns, reqVars, sendVars
      <3> QED  BY <2>1, <3>1, BlockQuiet
    <2> QED  BY <1>3, <1>4, <1>5, <1>6, <2>2, <2>3 DEF AppCall
  <1> QED  BY <1>1, <1>2, <1>6

\* So do the events.
LEMMA EventsKeepBlock ==
    ASSUME NoTimeouts, "response" \notin Reentrant, RequestInv, RequestInv', TimerInv,
           BlockInv, TryInv, Next, ~Running("submit"), ~Running("submit")', Event
    PROVE  BlockInv'
  <1>1. status \in [Req -> Statuses] /\ block_req \in ReqOrNone
    BY DEF RequestInv, ListInv, TypeOK, RequestTypeOK, SendTypeOK
  <1>2. CASE Connected \/ Disconnected
    <2>1. Quiet
      BY <1>2, EventsQuiet DEF RequestInv
    <2>2. UNCHANGED <<status, block_req>>
      BY <1>2 DEF Connected, Disconnected, reqVars, sendVars
    <2> QED  BY <2>1, <2>2, BlockQuiet
  <1>3. CASE RequestSent
    BY <1>3, RequestSentKeepsBlock
  <1>4. ASSUME NEW a \in Req, QueueAck(a) PROVE BlockInv'
    <2>1. /\ status[a] \in {"NEW", "RETRY"} /\ status' = [status EXCEPT ![a] = "QUEUED"]
          /\ UNCHANGED <<pending, block_req>>
      BY <1>4 DEF QueueAck
    <2> QED  BY <2>1, BlockQueued
  <1>5. ASSUME NEW i \in Ids, NEW a \in ReqOrNone, Response(i, a) PROVE BlockInv'
    <2>1. CASE a # None /\ QueueAck(a)
      BY <1>4, <2>1 DEF ReqOrNone
    <2>2. CASE UNCHANGED <<reqVars, sendVars, tabVars>>
      <3>1. Quiet
        BY <1>5, <2>2 DEF Response, Quiet, reqVars, sendVars, tabVars
      <3>2. UNCHANGED <<status, block_req>>
        BY <2>2 DEF reqVars, sendVars
      <3> QED  BY <3>1, <3>2, BlockQuiet
    <2> QED  BY <1>5, <2>1, <2>2 DEF Response
  <1>6. ASSUME NEW a \in Req, Indication(a) PROVE BlockInv'
    BY <1>4, <1>6 DEF Indication
  <1>7. ASSUME NEW due \in SUBSET Timeable, NEW again \in SUBSET retry, Timeout(due, again)
        PROVE  BlockInv'
    <2>1. Quiet
      BY <1>7, EventsQuiet DEF RequestInv
    <2>2. block_req \notin due
      <3> SUFFICES ASSUME block_req \in due PROVE FALSE
        OBVIOUS
      <3>1. block_req \in Req /\ deadline[block_req] /\ Flying(block_req)
        BY DEF Timeable, BlockInv
      <3> QED  BY <3>1, AllUntimed DEF RequestInv, Placed, Known, Flying
    <2>3. UNCHANGED <<status, block_req>>
      BY <1>7, <2>2 DEF Timeout
    <2> QED  BY <2>1, <2>3, BlockQuiet
  <1>8. ASSUME NEW due \in SUBSET Ids, PendingTimeout(due) PROVE BlockInv'
    BY <1>8, PendingTimeoutKeepsBlock
  <1> QED  BY <1>2, <1>3, <1>5, <1>6, <1>7, <1>8 DEF Event

\* And the functions that are being executed.
LEMMA StepsKeepBlock ==
    ASSUME NoTimeouts, "response" \notin Reentrant, RequestInv, RequestInv', TimerInv,
           BlockInv, TryInv, Next, ~Running("submit"), ~Running("submit")', Step,
           ~(Dequeue \/ Submit)
    PROVE  BlockInv'
  <1>1. CASE HandleResponse
    BY <1>1, HandleResponseKeepsBlock
  <1>2. ~ExpireOne
    <2> SUFFICES ASSUME ExpireOne PROVE FALSE
      OBVIOUS
    <2>1. PICK r \in Req : r = Top.req
      BY PopSound DEF ExpireOne, RequestInv
    <2>2. Top \in Range(stack) /\ Top.fn = "expire_one"
      BY DEF ExpireOne, Running, Top, Range, RequestInv, ListInv, TypeOK, StackTypeOK
    <2> QED  BY <2>1, <2>2, AllUntimed DEF RequestInv, FrameOK, Untimed
  <1>3. CASE RequeueNext
    <2>1. PICK r \in resend : Requeue(r)
      BY <1>3 DEF RequeueNext
    <2>2. r \in Req /\ Known(r)
      BY DEF RequestInv, ListInv, TypeOK, SendTypeOK, NewIsNowhere, Known
    <2>3. status[r] \in {"NEW", "RETRY"}
      BY <2>2, AllUntimed DEF RequestInv, Placed
    <2>4. status' = [status EXCEPT ![r] = "QUEUED"] /\ UNCHANGED <<pending, block_req>>
      BY <1>3, <2>1 DEF RequeueNext, Requeue
    <2> QED  BY <2>2, <2>3, <2>4, BlockQueued
  <1>4. CASE ~(HandleResponse \/ RequeueNext)
    <2>1. Quiet
      BY <1>2, <1>4, StepsQuiet DEF RequestInv
    <2>2. CASE CancelQueued \/ CancelTable \/ CancelRetry
      <3>1. block_req' = block_req
        BY <2>2 DEF CancelQueued, CancelTable, CancelRetry, sendVars
      <3>2. Cancelling
        BY <2>2 DEF CancelQueued, CancelTable, CancelRetry, Running, Cancelling, Top, CancelFns
      <3>3. block_req = None
        BY <3>2 DEF BlockInv
      <3> QED  BY <2>1, <3>1, <3>3, BlockCancels
    <2>3. CASE ~(CancelQueued \/ CancelTable \/ CancelRetry)
      <3>1. UNCHANGED <<status, block_req>>
        BY <1>2, <1>4, <2>3
        DEF Step, WriteStop, UpdatePending, ResetTimeout, ExpirePending, ExpireEnd,
            TakeRetries, RequeueEnd, DropPending, CancelTableStart, CancelLoopEnd,
            CancelAllEnd, reqVars, sendVars
      <3> QED  BY <2>1, <3>1, BlockQuiet
    <2> QED  BY <2>2, <2>3
  <1> QED  BY <1>1, <1>3, <1>4

\* Every step keeps BlockInv.
LEMMA BlockStep ==
    ASSUME NoTimeouts, "pending" \notin Reentrant, "response" \notin Reentrant,
           RequestInv, RequestInv', PendingInv, WriteInv, TimerInv, TryInv, BlockInv,
           [Next]_vars
    PROVE  BlockInv'
  <1>1. CASE UNCHANGED vars
    <2>1. UNCHANGED <<owner, block_req, status, prof, pending, stack>>
      BY <1>1 DEF vars, reqVars, sendVars, tabVars, txnVars
    <2> QED
      BY <2>1 DEF BlockInv, Cancelling, Flying, Submitting, Alone, Running, Top, PendingReqs
  <1>2. CASE Next /\ Dequeue
    BY <1>2, DequeueKeepsBlock
  <1>3. CASE Next /\ ~Dequeue
    <2>1. ~Running("submit")'
      BY <1>3, SubmitBegins DEF RequestInv
    <2>2. CASE Submit
      BY <1>3, <2>1, <2>2, SubmitKeepsBlock
    <2>3. CASE ~Submit
      <3>1. ~Running("submit")
        BY <1>3, <2>3, OnlySubmit
      <3> QED
        BY <1>3, <2>1, <2>3, <3>1, CallsKeepBlock, EventsKeepBlock, StepsKeepBlock DEF Next
    <2> QED  BY <2>2, <2>3
  <1> QED  BY <1>1, <1>2, <1>3

-----------------------------------------------------------------------------
(* What may be sent is sent.                                               *)

\* These lead to send_next_request, or to an empty send queue.
Senders     == {"schedule_write", "submit", "response", "cancel_queue"}
WillSend(t) == Executing(t) \cap Senders # {}

UnsentInv == CanSend => WillSend(stack)

\* What calls schedule_write, or goes on to where somebody does, will send.
LEMMA SendsOn ==
    ASSUME NEW pre, Plain(pre), NEW s \in Seq(FrameType)
    PROVE  /\ WillSend(s) => WillSend(pre \o s)
           /\ WillSend(<<Write>> \o s) /\ WillSend(pre \o <<Write>> \o s)
           /\ WillSend(<<Write, PendingUpdate>> \o s)
           /\ WillSend(pre \o <<Write, PendingUpdate>> \o s)
           /\ WillSend(<<Write, TimeoutReset>> \o s)
           /\ WillSend(pre \o <<TimeoutReset, Write>> \o s)
  <1>1. ASSUME NEW p, Plain(p)
        PROVE  /\ p \in Seq(FrameType)
               /\ \A t \in Seq(FrameType) : Executing(p \o t) = Executing(p) \cup Executing(t)
    BY <1>1, PushFrames DEF Plain
  <1>2. ASSUME NEW w, Plain(w), "schedule_write" \in Executing(w)
        PROVE  WillSend(w \o s) /\ WillSend(pre \o w \o s)
    <2>1. w \in Seq(FrameType) /\ pre \in Seq(FrameType)
      BY <1>1, <1>2
    <2>2. w \o s \in Seq(FrameType) /\ (pre \o w) \o s = pre \o (w \o s)
      BY <2>1, ConcatProperties, ConcatAssociative
    <2>3. "schedule_write" \in Executing(w \o s)
      BY <1>1, <1>2
    <2>4. "schedule_write" \in Executing(pre \o (w \o s))
      BY <1>1, <2>2, <2>3
    <2> QED  BY <2>2, <2>3, <2>4 DEF WillSend, Senders
  <1>3. /\ "schedule_write" \in Executing(<<Write>>)
        /\ "schedule_write" \in Executing(<<Write, PendingUpdate>>)
        /\ "schedule_write" \in Executing(<<Write, TimeoutReset>>)
        /\ "schedule_write" \in Executing(<<TimeoutReset, Write>>)
    <2>1. ASSUME NEW w, NEW k \in DOMAIN w, w[k] = Write
          PROVE  "schedule_write" \in Executing(w)
      BY <2>1 DEF Executing, Write, Frame
    <2>2. <<Write>>[1] = Write /\ 1 \in DOMAIN <<Write>>
      OBVIOUS
    <2>3. <<Write, PendingUpdate>>[1] = Write /\ 1 \in DOMAIN <<Write, PendingUpdate>>
      OBVIOUS
    <2>4. <<Write, TimeoutReset>>[1] = Write /\ 1 \in DOMAIN <<Write, TimeoutReset>>
      OBVIOUS
    <2>5. <<TimeoutReset, Write>>[2] = Write /\ 2 \in DOMAIN <<TimeoutReset, Write>>
      OBVIOUS
    <2> QED  BY <2>1, <2>2, <2>3, <2>4, <2>5
  <1>4. WillSend(s) => WillSend(pre \o s)
    BY <1>1 DEF WillSend
  <1> QED  BY <1>2, <1>3, <1>4, PlainCalls

\* A function on top that does not send returns to one that does.
LEMMA SendsAfter ==
    ASSUME ListInv, stack # <<>>, Top.fn \notin Senders, WillSend(stack)
    PROVE  WillSend(Rest)
  BY PopFrame DEF ListInv, TypeOK, StackTypeOK, WillSend, Top, Rest

\* What may be sent depends on these only, while there is no transaction.
LEMMA SameToSend ==
    ASSUME owner = None, UNCHANGED <<owner, prof, send_queue, send_req, block_req, pending>>,
           connected' => connected, Serialized => Serialized', CanSend'
    PROVE  CanSend
  <1>1. HasPending' = HasPending /\ InternalIdx' = InternalIdx
    BY DEF HasPending, InternalIdx
  <1>2. OrdinaryIdx' \subseteq OrdinaryIdx
    BY <1>1 DEF OrdinaryIdx
  <1>3. OrdinaryIdx' # {} => OrdinaryIdx' = OrdinaryIdx
    BY <1>1, <1>2 DEF OrdinaryIdx
  <1>4. DequeueIdx' # {} => DequeueIdx # {}
    BY <1>1, <1>2 DEF DequeueIdx
  <1> QED  BY <1>4 DEF CanSend

\* A cancellation that finds something calls schedule_write; one that does not leaves
\* everything alone.
LEMMA CancelThenSends ==
    ASSUME NoTimeouts, RequestInv, BlockInv, NEW i \in KnownIds, NEW n \in BOOLEAN,
           NEW after \in Seq(FrameType), CancelThen(i, n, after)
    PROVE  WillSend(stack') \/ (stack' = after /\ UNCHANGED <<send_queue, block_req>>)
  <1>1. \/ \E r : \/ stack' = Cancelled(r, n) \o <<Write>> \o after
                  \/ stack' = Cancelled(r, n) \o <<TimeoutReset, Write>> \o after
        \/ stack' = after /\ UNCHANGED <<status, send_queue>>
    BY DEF CancelThen
  <1>2. CASE stack' = after /\ UNCHANGED <<status, send_queue>>
    <2>1. CASE block_req = None
      BY <1>2, <2>1 DEF CancelThen, UnblockedBy
    <2>2. CASE block_req # None
      <3>1. id[block_req] # i
        BY <1>2, <2>2, CancelUnblocks DEF BlockInv, Flying
      <3> QED  BY <1>2, <2>2, <3>1, CancelUnblocks
    <2> QED  BY <2>1, <2>2
  <1>3. ASSUME NEW r, \/ stack' = Cancelled(r, n) \o <<Write>> \o after
                      \/ stack' = Cancelled(r, n) \o <<TimeoutReset, Write>> \o after
        PROVE  WillSend(stack')
    BY <1>3, PlainCalls, SendsOn
  <1> QED  BY <1>1, <1>2, <1>3

\* The application's calls.
LEMMA CallsSend ==
    ASSUME NoTimeouts, "response" \notin Reentrant, RequestInv, BlockInv, UnsentInv, AppCall
    PROVE  UnsentInv'
  <1>1. stack \in Seq(FrameType) /\ ListInv /\ owner = None
    BY DEF RequestInv, ListInv, TypeOK, StackTypeOK, BlockInv
  <1>2. ASSUME NEW r \in Req, NEW p \in Profiles, SendRequest(r, p) PROVE WillSend(stack')
    <2>1. stack' = <<Write>> \o stack
      BY <1>2 DEF SendRequest, SendThrough
    <2> QED  BY <1>1, <2>1, PlainCalls, SendsOn
  <1>3. ASSUME NEW i \in KnownIds, RetryRequest(i) PROVE WillSend(stack')
    <2>1. stack' = <<Write, TimeoutReset>> \o stack
      BY <1>3 DEF RetryRequest
    <2> QED  BY <1>1, <2>1, PlainCalls, SendsOn
  <1>4. ASSUME NEW n \in BOOLEAN, CancelAll(n) PROVE WillSend(stack')
    <2>1. Head(stack').fn = "cancel_queue" /\ stack' # <<>> /\ ListInv'
      BY <1>1, <1>4, CancelAllOnTop, AppCallSound DEF Running
    <2>2. stack' \in Seq(FrameType)
      BY <2>1 DEF ListInv, TypeOK, StackTypeOK
    <2> QED  BY <2>1, <2>2, PopFrame DEF WillSend, Senders
  <1>5. ASSUME NEW i \in KnownIds, NEW n \in BOOLEAN, CancelRequest(i, n) PROVE UnsentInv'
    <2>1. WillSend(stack') \/ (stack' = stack /\ UNCHANGED <<send_queue, block_req>>)
      BY <1>1, <1>5, CancelThenSends DEF CancelRequest
    <2>2. UNCHANGED <<owner, prof, send_req, pending, connected, block_ids>>
      BY <1>5 DEF CancelRequest, CancelThen, txnVars, envVars
    <2> QED  BY <1>1, <2>1, <2>2, SameToSend DEF UnsentInv, Serialized
  <1>6. ASSUME NEW i \in KnownIds, DropRequest(i) PROVE UnsentInv'
    <2> DEFINE d == <<[Frame("drop") EXCEPT !.ids = {i}]>>
    <2>1. i \in Ids
      BY DEF KnownIds
    <2>2. Plain(d)
      <3>1. [Frame("drop") EXCEPT !.ids = {i}] \in FrameType
        BY <2>1 DEF Frame, FrameType, Held, Functions, ReqOrNone
      <3>2. [Frame("drop") EXCEPT !.ids = {i}].fn = "drop"
        BY DEF Frame
      <3> QED  BY <3>1, <3>2, PlainFrame
    <2>3. CancelThen(i, FALSE, d \o stack)
      BY <1>6 DEF DropRequest
    <2> HIDE DEF d
    <2>4. d \o stack \in Seq(FrameType) /\ (WillSend(stack) => WillSend(d \o stack))
      <3>1. d \in Seq(FrameType)
        BY <2>2 DEF Plain
      <3> QED  BY <1>1, <2>2, <3>1, SendsOn, ConcatProperties
    <2>5. WillSend(stack') \/ (stack' = d \o stack /\ UNCHANGED <<send_queue, block_req>>)
      BY <2>3, <2>4, CancelThenSends
    <2>6. UNCHANGED <<owner, prof, send_req, pending, connected, block_ids>>
      BY <2>3 DEF CancelThen, txnVars, envVars
    <2> QED  BY <1>1, <2>4, <2>5, <2>6, SameToSend DEF UnsentInv, Serialized
  <1>7. CASE Serialize
    <2>1. /\ UNCHANGED <<owner, prof, send_queue, send_req, block_req, pending, connected, stack>>
          /\ block_ids' = block_ids + 1
      BY <1>7 DEF Serialize, reqVars, sendVars, tabVars, envVars
    <2>2. block_ids \in Nat
      BY <1>1 DEF ListInv, TypeOK, TableTypeOK
    <2> QED  BY <1>1, <2>1, <2>2, SameToSend DEF UnsentInv, Serialized
  <1>8. CASE Deserialize
    <2>1. CASE block_ids = 1
      <3>1. stack' = <<Write>> \o stack
        BY <1>8, <2>1 DEF Deserialize
      <3>2. WillSend(stack')
        BY <1>1, <3>1, PlainCalls, SendsOn
      <3> QED  BY <3>2 DEF UnsentInv
    <2>2. CASE block_ids # 1
      <3>1. /\ UNCHANGED <<owner, prof, send_queue, send_req, block_req, pending, connected,
                           stack>>
            /\ block_ids' = block_ids - 1
        BY <1>8, <2>2 DEF Deserialize, reqVars, tabVars, envVars
      <3>2. block_ids \in Nat
        BY <1>1 DEF ListInv, TypeOK, TableTypeOK
      <3> QED  BY <1>1, <2>2, <3>1, <3>2, SameToSend DEF UnsentInv, Serialized
    <2> QED  BY <2>1, <2>2
  <1>9. CASE AppReturns
    <2>1. UNCHANGED <<owner, prof, send_queue, send_req, block_req, pending, connected, block_ids>>
      BY <1>9 DEF AppReturns, reqVars, sendVars, tabVars, envVars, txnVars
    <2>2. stack' = Rest /\ stack # <<>> /\ Top.fn \notin Senders
      BY <1>9 DEF AppReturns, Running, Top, Senders
    <2> QED  BY <1>1, <2>1, <2>2, SameToSend, SendsAfter DEF UnsentInv, Serialized
  <1> QED
    BY <1>2, <1>3, <1>4, <1>5, <1>6, <1>7, <1>8, <1>9 DEF AppCall, UnsentInv

\* The events call schedule_write, but for the end of the link.
LEMMA EventsSend ==
    ASSUME Event PROVE UnsentInv'
  <1>1. ASSUME NEW k \in DOMAIN stack', stack'[k].fn \in Senders PROVE WillSend(stack')
    BY <1>1 DEF WillSend, Executing
  <1>2. Write.fn \in Senders
    BY DEF Write, Frame, Senders
  <1>3. ASSUME stack' = Call("event") \o <<Write>> PROVE WillSend(stack')
    <2>1. Plain(Call("event")) /\ <<Write>> \in Seq(FrameType)
      BY PlainCalls DEF Plain
    <2>2. Executing(stack') = Executing(Call("event")) \cup Executing(<<Write>>)
      BY <1>3, <2>1, PushFrames DEF Plain
    <2>3. 1 \in DOMAIN <<Write>> /\ <<Write>>[1] = Write
      OBVIOUS
    <2>4. Write.fn \in Executing(<<Write>>)
      BY <2>3 DEF Executing
    <2> QED  BY <1>2, <2>2, <2>4 DEF WillSend
  <1>4. CASE Connected \/ \E a \in Req : Indication(a)
    <2>1. stack' = Call("event") \o <<Write>>
      BY <1>4 DEF Connected, Indication
    <2> QED  BY <1>3, <2>1 DEF UnsentInv
  <1>5. CASE Disconnected
    BY <1>5 DEF Disconnected, UnsentInv, CanSend
  <1>6. CASE RequestSent \/ \E due \in SUBSET Ids : PendingTimeout(due)
    <2>1. stack' = <<Write>> \/ stack' = <<Write, PendingUpdate>>
      BY <1>6 DEF RequestSent, PendingTimeout
    <2>2. 1 \in DOMAIN stack' /\ stack'[1] = Write
      BY <2>1
    <2> QED  BY <1>1, <1>2, <2>2 DEF UnsentInv
  <1>7. ASSUME NEW i \in Ids, NEW a \in ReqOrNone, Response(i, a) PROVE UnsentInv'
    <2> DEFINE f == [Frame("response") EXCEPT !.ids = {i}]
    <2>1. stack' = <<f>> /\ f.fn \in Senders
      BY <1>7 DEF Response, Frame, Senders
    <2> HIDE DEF f
    <2>2. 1 \in DOMAIN stack' /\ stack'[1] = f
      BY <2>1
    <2> QED  BY <1>1, <2>1, <2>2 DEF UnsentInv
  <1>8. ASSUME NEW due, NEW again, Timeout(due, again) PROVE UnsentInv'
    <2> DEFINE e == Frame("expire")
               f == [Frame("retry_due") EXCEPT !.reqs = again]
    <2>1. stack' = <<e, f, TimeoutReset, Write, PendingUpdate>>
      BY <1>8 DEF Timeout
    <2> HIDE DEF e, f
    <2>2. 4 \in DOMAIN stack' /\ stack'[4] = Write
      BY <2>1
    <2> QED  BY <1>1, <1>2, <2>2 DEF UnsentInv
  <1> QED  BY <1>4, <1>5, <1>6, <1>7, <1>8 DEF Event

\* The functions that are being executed.
LEMMA StepsSend ==
    ASSUME NoTimeouts, "pending" \notin Reentrant, "response" \notin Reentrant,
           RequestInv, TimerInv, BlockInv, UnsentInv, Next, Step, ListInv'
    PROVE  UnsentInv'
  <1>1. stack \in Seq(FrameType) /\ ListInv /\ owner = None /\ stack' \in Seq(FrameType)
    BY DEF RequestInv, ListInv, TypeOK, StackTypeOK, BlockInv
  <1>2. /\ stack # <<>> /\ Rest \in Seq(FrameType)
    <2>1. stack # <<>>
      BY DEF Step, WriteStop, Dequeue, Submit, UpdatePending, ResetTimeout, HandleResponse,
             ExpirePending, ExpireOne, ExpireEnd, TakeRetries, RequeueNext, RequeueEnd,
             DropPending, CancelQueued, CancelTableStart, CancelTable, CancelRetry,
             CancelLoopEnd, CancelAllEnd, Running
    <2> QED  BY <1>1, <2>1, RestTyped DEF StackTypeOK
  <1>3. CASE WriteStop
    <2>1. UNCHANGED <<owner, prof, send_queue, send_req, block_req, pending, connected, block_ids>>
      BY <1>3 DEF WriteStop, reqVars, sendVars, tabVars, envVars, txnVars
    <2>2. ~CanSend
      BY <1>3 DEF WriteStop
    <2> QED  BY <1>1, <2>1, <2>2, SameToSend DEF UnsentInv, Serialized
  <1>4. CASE Dequeue
    <2>1. stack' # <<>> /\ Head(stack').fn = "submit"
      BY <1>1, <1>4, DequeueHands DEF Top
    <2> QED  BY <1>1, <2>1, PopFrame DEF UnsentInv, WillSend, Senders
  <1>5. CASE Submit
    <2>1. PICK outcome \in IF closed THEN {"ERROR"} ELSE SendOutcomes : Submit!3!(outcome)
      BY <1>5 DEF Submit
    <2>2. Top.req # None
      BY <1>1, <1>5, PopSound DEF Submit
    <2>3. stack' = <<Write>> \o Rest \/ send_req' = Top.req
      BY <2>1
    <2>4. WillSend(<<Write>> \o Rest)
      BY <1>2, PlainCalls, SendsOn
    <2> QED  BY <2>2, <2>3, <2>4 DEF UnsentInv, CanSend
  <1>6. CASE HandleResponse
    <2>1. \/ stack' = <<Write, PendingUpdate>> \o Rest
          \/ \E r : stack' = Notify(r) \o <<Write, PendingUpdate>> \o Rest
      BY <1>6 DEF HandleResponse
    <2>2. WillSend(<<Write, PendingUpdate>> \o Rest)
          /\ \A r : WillSend(Notify(r) \o <<Write, PendingUpdate>> \o Rest)
      BY <1>2, PlainCalls, SendsOn
    <2> QED  BY <2>1, <2>2 DEF UnsentInv
  <1>7. CASE RequeueNext
    <2>1. stack' = <<Write>> \o stack
      BY <1>7 DEF RequeueNext
    <2> QED  BY <1>1, <2>1, PlainCalls, SendsOn DEF UnsentInv
  <1>8. CASE DropPending
    <2>1. PICK i \in Top.ids :
            /\ pending' = PendingWithout(i)
            /\ stack' = (IF pending[i] # None THEN <<Write, PendingUpdate>> ELSE <<>>) \o Rest
      BY <1>8 DEF DropPending
    <2>2. CASE pending[i] # None
      <3>1. stack' = <<Write, PendingUpdate>> \o Rest
        BY <2>1, <2>2
      <3> QED  BY <1>2, <3>1, PlainCalls, SendsOn DEF UnsentInv
    <2>3. CASE pending[i] = None
      <3>1. pending' = pending
        BY <1>1, <2>1, <2>3 DEF PendingWithout, ListInv, TypeOK, TableTypeOK
      <3>2. UNCHANGED <<owner, prof, send_queue, send_req, block_req, connected, block_ids>>
        BY <1>8 DEF DropPending, reqVars, sendVars, envVars, txnVars
      <3>3. stack' = <<>> \o Rest /\ Top.fn \notin Senders
        BY <1>8, <2>1, <2>3 DEF DropPending, Running, Top, Senders
      <3>4. WillSend(stack) => WillSend(<<>> \o Rest)
        BY <1>1, <1>2, <3>3, SendsAfter, PlainCalls, SendsOn
      <3> QED  BY <1>1, <3>1, <3>2, <3>3, <3>4, SameToSend DEF UnsentInv, Serialized
    <2> QED  BY <2>2, <2>3
  <1>9. ~ExpirePending /\ ~ExpireOne
    <2>1. expired = {}
      BY AllUntimed DEF RequestInv, ListInv, TypeOK, SendTypeOK, Untimed
    <2>2. ~ExpireOne
      <3> SUFFICES ASSUME ExpireOne PROVE FALSE
        OBVIOUS
      <3>1. PICK r \in Req : r = Top.req
        BY <1>1, PopSound DEF ExpireOne
      <3>2. Top \in Range(stack) /\ Top.fn = "expire_one"
        BY <1>1 DEF ExpireOne, Running, Top, Range
      <3> QED  BY <3>1, <3>2, AllUntimed DEF RequestInv, FrameOK, Untimed
    <2> QED  BY <2>1, <2>2 DEF ExpirePending
  <1>10. CASE UpdatePending
    <2>1. UNCHANGED <<owner, prof, send_queue, send_req, block_req, pending, connected, block_ids>>
      BY <1>10 DEF UpdatePending, reqVars, sendVars, envVars, txnVars
    <2>2. Top.fn \notin Senders
      BY <1>10 DEF UpdatePending, Running, Top, Senders
    <2>3. stack' = Call("pending") \o Rest \/ stack' = <<>> \o Rest
      BY <1>10 DEF UpdatePending
    <2>4. WillSend(stack) => WillSend(<<>> \o Rest) /\ WillSend(Call("pending") \o Rest)
      BY <1>1, <1>2, <2>2, SendsAfter, PlainCalls, SendsOn
    <2> QED  BY <1>1, <2>1, <2>3, <2>4, SameToSend DEF UnsentInv, Serialized
  <1>11. CASE ResetTimeout \/ ExpireEnd \/ RequeueEnd \/ CancelLoopEnd \/ CancelAllEnd
    <2>1. UNCHANGED <<owner, prof, send_queue, send_req, block_req, pending, connected, block_ids>>
      BY <1>11
      DEF ResetTimeout, ExpireEnd, RequeueEnd, CancelLoopEnd, CancelAllEnd, reqVars, sendVars,
          tabVars, envVars, txnVars
    <2>2. Top.fn \notin Senders /\ stack' = Rest
      BY <1>11
      DEF ResetTimeout, ExpireEnd, RequeueEnd, CancelLoopEnd, CancelAllEnd, Running, Top, Senders
    <2> QED  BY <1>1, <1>2, <2>1, <2>2, SameToSend, SendsAfter DEF UnsentInv, Serialized
  <1>12. CASE TakeRetries
    <2>1. UNCHANGED <<owner, prof, send_queue, send_req, block_req, pending, connected, block_ids>>
      BY <1>12 DEF TakeRetries, reqVars, tabVars, envVars, txnVars
    <2>2. Top.fn \notin Senders /\ stack' = <<Frame("requeue")>> \o Rest
      BY <1>12 DEF TakeRetries, Running, Top, Senders
    <2>3. Plain(<<Frame("requeue")>>)
      BY PlainCall DEF Functions
    <2>4. WillSend(stack) => WillSend(<<Frame("requeue")>> \o Rest)
      BY <1>1, <1>2, <2>2, <2>3, SendsAfter, SendsOn
    <2> QED  BY <1>1, <2>1, <2>2, <2>4, SameToSend DEF UnsentInv, Serialized
  <1>13. CASE CancelQueued
    <2>1. \E r, n : stack' = Cancelled(r, n) \o stack
      BY <1>13 DEF CancelQueued
    <2>2. stack' = stack /\ Head(stack).fn = "cancel_queue"
      BY <1>1, <1>13, <2>1, QuietStack DEF CancelQueued, Running
    <2>3. "cancel_queue" \in Executing(stack)
      BY <1>1, <1>2, <2>2, PopFrame
    <2>4. WillSend(stack')
      BY <2>2, <2>3 DEF WillSend, Senders
    <2> QED  BY <2>4 DEF UnsentInv
  <1>14. CASE CancelRetry
    <2>1. \E r, n : stack' = Cancelled(r, n) \o stack
      BY <1>14 DEF CancelRetry
    <2>2. stack' = stack
      BY <1>1, <2>1, QuietStack
    <2>3. UNCHANGED <<owner, prof, send_queue, send_req, block_req, pending, connected, block_ids>>
      BY <1>14 DEF CancelRetry, envVars, txnVars
    <2> QED  BY <1>1, <2>2, <2>3, SameToSend DEF UnsentInv, Serialized
  <1>15. CASE CancelTableStart
    <2>1. send_queue' = <<>>
      BY <1>15 DEF CancelTableStart, sendVars
    <2>2. DequeueIdx' = {}
      BY <2>1 DEF DequeueIdx, OrdinaryIdx, InternalIdx
    <2> QED  BY <2>2 DEF UnsentInv, CanSend
  <1>16. CASE CancelTable
    <2>1. PICK f \in FrameType : f.fn = "cancel_table" /\ stack' = <<f>> \o Rest
      BY <1>16, TableFrame
    <2>2. UNCHANGED <<owner, prof, send_queue, send_req, block_req, pending, connected, block_ids>>
      BY <1>16 DEF CancelTable, sendVars, envVars, txnVars
    <2>3. Top.fn \notin Senders
      BY <1>16 DEF CancelTable, Running, Top, Senders
    <2>4. Plain(<<f>>)
      BY <2>1, PlainFrame DEF Functions
    <2>5. WillSend(stack) => WillSend(<<f>> \o Rest)
      BY <1>1, <1>2, <2>3, <2>4, SendsAfter, SendsOn
    <2> QED  BY <1>1, <2>1, <2>2, <2>5, SameToSend DEF UnsentInv, Serialized
  <1> QED
    BY <1>3, <1>4, <1>5, <1>6, <1>7, <1>8, <1>9, <1>10, <1>11, <1>12, <1>13, <1>14, <1>15,
       <1>16
    DEF Step

\* Every step keeps UnsentInv.
LEMMA UnsentStep ==
    ASSUME NoTimeouts, "pending" \notin Reentrant, "response" \notin Reentrant,
           RequestInv, RequestInv', TimerInv, BlockInv, UnsentInv, [Next]_vars
    PROVE  UnsentInv'
  <1>1. CASE UNCHANGED vars
    <2>1. UNCHANGED <<owner, prof, queue, send_queue, send_req, block_req, pending, connected,
                      block_ids, stack>>
      BY <1>1 DEF vars, reqVars, sendVars, tabVars, txnVars, envVars
    <2> QED  BY <2>1, SameToSend DEF UnsentInv, BlockInv, Serialized
  <1>2. ListInv'
    BY DEF RequestInv
  <1> QED  BY <1>1, <1>2, CallsSend, EventsSend, StepsSend DEF Next

-----------------------------------------------------------------------------
\* Blocking: while a request that blocks is in flight the channel waits for it, and while
\* something can be sent somebody is about to send it.
THEOREM BlockInvHolds ==
    ASSUME NoTimeouts, ~EarlyReplies, "pending" \notin Reentrant, "response" \notin Reentrant
    PROVE  Spec /\ FreshIds => [](BlockInv /\ UnsentInv)
  <1>1. Init => BlockInv /\ UnsentInv
    BY DEF Init, BlockInv, UnsentInv, Cancelling, Submitting, Running, Alone, Flying, CanSend
  <1>2. /\ RequestInv /\ RequestInv' /\ PendingInv /\ WriteInv /\ TimerInv /\ TryInv
        /\ BlockInv /\ UnsentInv /\ [Next]_vars
        => BlockInv' /\ UnsentInv'
    BY BlockStep, UnsentStep
  <1> QED
    BY <1>1, <1>2, RequestInvHolds, PendingInvHolds, WriteInvHolds, TimerInvHolds, TryInvHolds,
       PTL
    DEF Spec

\* Whatever the channel waits for can be found in the request table: its reply and its
\* cancellation release the channel.
THEOREM BlockReqFound ==
    ASSUME NoTimeouts, ~EarlyReplies, "pending" \notin Reentrant, "response" \notin Reentrant
    PROVE  Spec /\ FreshIds => []BlockReqInTable
  <1>1. RequestInv /\ BlockInv => BlockReqInTable
    <2> SUFFICES ASSUME RequestInv, BlockInv, block_req # None
                 PROVE  /\ Flying(block_req)
                        /\ \E i \in Ids : i = current_id[block_req] /\ req_table[i] = block_req
      BY DEF BlockReqInTable, Flying
    <2>1. block_req \in Req /\ Flying(block_req) /\ Known(block_req)
      BY DEF RequestInv, ListInv, TypeOK, SendTypeOK, ReqOrNone, BlockInv, Flying, Known
    <2>2. current_id[block_req] \in Ids
      BY <2>1 DEF RequestInv, IdsGiven, OwnIds, ListInv, TypeOK, TableTypeOK, Ids
    <2>3. req_table[current_id[block_req]] = block_req
      BY <2>1, AllUntimed DEF RequestInv, Placed, Flying, OwnIds
    <2> QED  BY <2>1, <2>2, <2>3
  <1> QED  BY <1>1, RequestInvHolds, BlockInvHolds, PTL

\* When the main loop gets control, a blocking request in flight is the only ordinary
\* request in flight.
THEOREM BlockingIsAlone ==
    ASSUME NoTimeouts, ~EarlyReplies, "pending" \notin Reentrant, "response" \notin Reentrant
    PROVE  Spec /\ FreshIds => []BlockingAlone
  <1>1. RequestInv /\ BlockInv => BlockingAlone
    <2> SUFFICES ASSUME RequestInv, BlockInv, stack = <<>>, NEW i \in Ids, NEW j \in Ids,
                        pending[i] # None, pending[j] # None, pending[i] # pending[j],
                        prof[pending[i]].blocking, Flying(pending[i]), Flying(pending[j])
                 PROVE  FALSE
      BY DEF BlockingAlone, Flying
    <2>1. pending[i] \in Req /\ pending[i] \in PendingReqs /\ pending[j] \in PendingReqs
      BY DEF RequestInv, ListInv, TypeOK, TableTypeOK, PendingReqs, ReqOrNone
    <2>2. Alone(pending[i])
      BY <2>1 DEF BlockInv, Cancelling
    <2> QED  BY <2>1, <2>2 DEF Alone
  <1> QED  BY <1>1, RequestInvHolds, BlockInvHolds, PTL

\* When the main loop gets control, nothing that may be sent is left unsent: whoever
\* releases the channel calls schedule_write.
THEOREM NothingUnsent ==
    ASSUME NoTimeouts, ~EarlyReplies, "pending" \notin Reentrant, "response" \notin Reentrant
    PROVE  Spec /\ FreshIds => []NothingLeftUnsent
  <1>1. UnsentInv => NothingLeftUnsent
    BY DEF UnsentInv, NothingLeftUnsent, WillSend, Executing
  <1> QED  BY <1>1, BlockInvHolds, PTL

=============================================================================
