------------------------- MODULE GrilioEvents_proof -------------------------
(***************************************************************************)
(* No injected event is lost, delivered twice or out of order, for any     *)
(* number of events and any calls from the handlers.  The invariant has    *)
(* three parts: what the stack looks like, who will look at the list, and  *)
(* where the events are.                                                   *)
(***************************************************************************)
EXTENDS GrilioEvents, SequenceTheorems, FiniteSetTheorems, TLAPS

-----------------------------------------------------------------------------
(* The inductive invariant.                                                *)

\* Functions that are only called by the main loop: they have nothing below them.
Bottom == {"connect", "process_injects", "inject_loop"}

FrameType == [fn : Bottom \cup {"app", "error", "drop_injects"},
              sig : Signals \cup {"none"}]

StackSound(s) ==
    /\ s \in Seq(FrameType)
    /\ \A k \in 1 .. Len(s) : s[k].fn \in Bottom => k = Len(s)

Has(s, f) == \E k \in 1 .. Len(s) : s[k].fn = f

Types ==
    /\ {connected, process_injects_id, processing_injects} \subseteq BOOLEAN
    /\ link \in {"new", "up", "down"}
    /\ injected \in 0 .. MaxInject
    /\ injects \in Seq(1 .. injected) /\ delivered \in Seq(1 .. injected)
    /\ dropped \subseteq 1 .. injected

\* processing_injects tells whether the loop runs.
FlagSound == processing_injects <=> Has(stack, "inject_loop")

\* Somebody will look at the list: the callback, the loop, or handle_connected.
Watched ==
    connected /\ injects # <<>> =>
        process_injects_id \/ Has(stack, "process_injects") \/ Has(stack, "inject_loop")

Increasing(s) == \A j, k \in 1 .. Len(s) : j < k => s[j] < s[k]

\* What was delivered comes before what is in the list.
Before(s, t) == \A j \in 1 .. Len(s), k \in 1 .. Len(t) : s[j] < t[k]

Accounted ==
    /\ Increasing(delivered) /\ Increasing(injects)
    /\ Before(delivered, injects)
    /\ ToSet(delivered) \cup ToSet(injects) \cup dropped = 1 .. injected
    /\ dropped \cap (ToSet(delivered) \cup ToSet(injects)) = {}

EventsInv ==
    /\ Types
    /\ StackSound(stack) /\ FlagSound
    /\ Watched
    /\ Accounted

-----------------------------------------------------------------------------
(* Stacks.                                                                 *)

\* A frame of this model is typed.
LEMMA FrameTyped ==
    ASSUME NEW f \in Bottom \cup {"app", "error", "drop_injects"},
           NEW s \in Signals \cup {"none"}
    PROVE  Frame(f, s) \in FrameType
  BY DEF Frame, FrameType

\* A stack of one frame.
LEMMA SingleSound ==
    ASSUME NEW f \in FrameType
    PROVE  /\ StackSound(<<f>>)
           /\ \A g : Has(<<f>>, g) <=> f.fn = g
  BY DEF StackSound, Has

\* The empty stack.
LEMMA EmptySound == StackSound(<<>>) /\ \A g : ~Has(<<>>, g)
  BY DEF StackSound, Has

\* A function that is called by another one goes on top.
LEMMA PushSound ==
    ASSUME NEW s, StackSound(s), NEW f \in FrameType, f.fn \notin Bottom
    PROVE  /\ StackSound(<<f>> \o s)
           /\ \A g : Has(<<f>> \o s, g) <=> f.fn = g \/ Has(s, g)
  <1> DEFINE t == <<f>> \o s
  <1>1. /\ t \in Seq(FrameType) /\ Len(t) = Len(s) + 1 /\ Len(s) \in Nat
        /\ t[1] = f /\ \A k \in 1 .. Len(s) : t[k + 1] = s[k]
    BY ConcatProperties, LenProperties, <<f>> \in Seq(FrameType), Len(<<f>>) = 1
    DEF StackSound
  <1> HIDE DEF t
  <1>2. \A k \in 1 .. Len(t) : k = 1 \/ (k - 1 \in 1 .. Len(s) /\ t[k] = s[k - 1])
    BY <1>1
  <1>3. StackSound(t)
    <2>1. ASSUME NEW k \in 1 .. Len(t), t[k].fn \in Bottom  PROVE k = Len(t)
      <3>1. k # 1
        BY <1>1, <2>1
      <3>2. k - 1 \in 1 .. Len(s) /\ s[k - 1].fn \in Bottom
        BY <1>2, <2>1, <3>1
      <3>3. k - 1 = Len(s)
        BY <3>2 DEF StackSound
      <3> QED  BY <1>1, <3>3
    <2> QED  BY <1>1, <2>1 DEF StackSound
  <1>4. ASSUME NEW g  PROVE Has(t, g) <=> f.fn = g \/ Has(s, g)
    <2>1. Has(t, g) => f.fn = g \/ Has(s, g)
      BY <1>1, <1>2 DEF Has
    <2>2. f.fn = g => Has(t, g)
      BY <1>1, 1 \in 1 .. Len(t) DEF Has
    <2>3. Has(s, g) => Has(t, g)
      BY <1>1, \A k \in 1 .. Len(s) : k + 1 \in 1 .. Len(t) DEF Has
    <2> QED  BY <2>1, <2>2, <2>3
  <1> QED  BY <1>3, <1>4 DEF t

\* The function on top returns; if only the main loop calls it, nothing is left.
LEMMA PopSound ==
    ASSUME NEW s, StackSound(s), s # <<>>
    PROVE  /\ Head(s) \in FrameType
           /\ StackSound(Tail(s))
           /\ \A g : Has(s, g) <=> Head(s).fn = g \/ Has(Tail(s), g)
           /\ Head(s).fn \in Bottom => Tail(s) = <<>>
  <1> DEFINE t == Tail(s)
  <1>1. /\ Head(s) \in FrameType /\ Head(s) = s[1]
        /\ t \in Seq(FrameType) /\ Len(t) = Len(s) - 1 /\ Len(s) \in Nat \ {0}
        /\ \A k \in 1 .. Len(t) : t[k] = s[k + 1]
    BY HeadTailProperties, EmptySeq, LenProperties DEF StackSound
  <1> HIDE DEF t
  <1>2. \A k \in 1 .. Len(s) : k = 1 \/ (k - 1 \in 1 .. Len(t) /\ s[k] = t[k - 1])
    BY <1>1
  <1>3. StackSound(t)
    BY <1>1, <1>2 DEF StackSound
  <1>4. ASSUME NEW g  PROVE Has(s, g) <=> Head(s).fn = g \/ Has(t, g)
    <2>1. Has(s, g) => Head(s).fn = g \/ Has(t, g)
      BY <1>1, <1>2 DEF Has
    <2>2. Head(s).fn = g => Has(s, g)
      BY <1>1, 1 \in 1 .. Len(s) DEF Has
    <2>3. Has(t, g) => Has(s, g)
      BY <1>1, \A k \in 1 .. Len(t) : k + 1 \in 1 .. Len(s) DEF Has
    <2> QED  BY <2>1, <2>2, <2>3
  <1>5. Head(s).fn \in Bottom => t = <<>>
    <2>1. Head(s).fn \in Bottom => Len(t) = 0
      BY <1>1, 1 \in 1 .. Len(s) DEF StackSound
    <2> QED  BY <1>1, <2>1, EmptySeq
  <1> QED  BY <1>1, <1>3, <1>4, <1>5 DEF t

-----------------------------------------------------------------------------
(* Sequences of events.                                                    *)

\* What an appended element changes.
LEMMA AppendEvents ==
    ASSUME NEW S, NEW s \in Seq(S), NEW x \in S
    PROVE  /\ Append(s, x) \in Seq(S) /\ Len(s) \in Nat
           /\ Len(Append(s, x)) = Len(s) + 1
           /\ Append(s, x)[Len(s) + 1] = x
           /\ \A k \in 1 .. Len(s) : Append(s, x)[k] = s[k] /\ s[k] \in S
           /\ ToSet(Append(s, x)) = ToSet(s) \cup {x}
  <1>1. /\ Append(s, x) \in Seq(S) /\ Len(s) \in Nat
        /\ Len(Append(s, x)) = Len(s) + 1
        /\ Append(s, x)[Len(s) + 1] = x
        /\ \A k \in 1 .. Len(s) : Append(s, x)[k] = s[k] /\ s[k] \in S
    BY AppendProperties, LenProperties, ElementOfSeq
  <1>2. DOMAIN s = 1 .. Len(s) /\ DOMAIN Append(s, x) = 1 .. Len(s) + 1
    BY <1>1, LenProperties
  <1>3. ToSet(Append(s, x)) = ToSet(s) \cup {x}
    <2>1. 1 .. Len(s) + 1 = 1 .. Len(s) \cup {Len(s) + 1}
      BY <1>1
    <2> QED  BY <1>1, <1>2, <2>1 DEF ToSet
  <1> QED  BY <1>1, <1>3

\* What taking the first element off changes.
LEMMA TailEvents ==
    ASSUME NEW S, NEW s \in Seq(S), s # <<>>
    PROVE  /\ Tail(s) \in Seq(S) /\ Len(s) \in Nat \ {0}
           /\ Len(Tail(s)) = Len(s) - 1
           /\ Head(s) = s[1] /\ Head(s) \in S
           /\ \A k \in 1 .. Len(s) - 1 : Tail(s)[k] = s[k + 1]
           /\ ToSet(s) = ToSet(Tail(s)) \cup {Head(s)}
  <1>1. /\ Tail(s) \in Seq(S) /\ Len(s) \in Nat \ {0}
        /\ Len(Tail(s)) = Len(s) - 1
        /\ Head(s) = s[1] /\ Head(s) \in S
        /\ \A k \in 1 .. Len(s) - 1 : Tail(s)[k] = s[k + 1]
    BY HeadTailProperties, EmptySeq, LenProperties
  <1>2. DOMAIN s = 1 .. Len(s) /\ DOMAIN Tail(s) = 1 .. Len(s) - 1
    BY <1>1, LenProperties
  <1>3. ToSet(s) = ToSet(Tail(s)) \cup {Head(s)}
    <2>1. \A k \in 1 .. Len(s) : k = 1 \/ (k - 1 \in 1 .. Len(s) - 1 /\ s[k] = Tail(s)[k - 1])
      BY <1>1
    <2>2. \A k \in 1 .. Len(s) - 1 : k + 1 \in 1 .. Len(s)
      BY <1>1
    <2>3. ToSet(s) = {s[k] : k \in 1 .. Len(s)}
          /\ ToSet(Tail(s)) = {Tail(s)[k] : k \in 1 .. Len(s) - 1}
      BY <1>2 DEF ToSet
    <2>4. ToSet(s) \subseteq ToSet(Tail(s)) \cup {Head(s)}
      BY <1>1, <2>1, <2>3
    <2>5. ToSet(Tail(s)) \subseteq ToSet(s)
      BY <1>1, <2>2, <2>3
    <2>6. Head(s) \in ToSet(s)
      BY <1>1, <2>3, 1 \in 1 .. Len(s)
    <2> QED  BY <2>4, <2>5, <2>6
  <1> QED  BY <1>1, <1>3

-----------------------------------------------------------------------------
(* One lemma per action.                                                   *)

\* Actions that leave the events where they are.
LEMMA SameEvents ==
    ASSUME EventsInv, UNCHANGED <<injects, injected, delivered, dropped>>
    PROVE  /\ injected' \in 0 .. MaxInject
           /\ injects' \in Seq(1 .. injected') /\ delivered' \in Seq(1 .. injected')
           /\ dropped' \subseteq 1 .. injected'
           /\ Accounted'
  BY DEF EventsInv, Types, Accounted, Increasing, Before, ToSet

\* The initial state.
LEMMA InitEvents == Init => EventsInv
  <1> SUFFICES ASSUME Init  PROVE EventsInv
    OBVIOUS
  <1>1. Types
    <2>1. 0 \in 0 .. MaxInject
      BY InjectAssumption DEF InjectAssumption
    <2>2. <<>> \in Seq(1 .. 0)
      BY EmptySeq
    <2> QED  BY <2>1, <2>2 DEF Init, Types
  <1>2. StackSound(stack) /\ FlagSound
    BY EmptySound DEF Init, FlagSound
  <1>3. Watched /\ Accounted
    BY DEF Init, Watched, Accounted, Increasing, Before, ToSet
  <1> QED  BY <1>1, <1>2, <1>3 DEF EventsInv

\* inject_unsol_event: the new event is the greatest number so far.
LEMMA InjectUnsolEventSound == EventsInv /\ InjectUnsolEvent => EventsInv'
  <1> SUFFICES ASSUME EventsInv, InjectUnsolEvent  PROVE EventsInv'
    OBVIOUS
  <1> DEFINE n == injected + 1
  <1>1. /\ injected \in Nat /\ n \in 0 .. MaxInject /\ injected' = n
        /\ injects' = Append(injects, n)
        /\ delivered' = delivered /\ dropped' = dropped
        /\ injects \in Seq(1 .. injected) /\ delivered \in Seq(1 .. injected)
        /\ (1 .. injected) \cup {n} = 1 .. n
    BY InjectAssumption DEF InjectAssumption, EventsInv, Types, InjectUnsolEvent
  <1>2. Types'
    <2>1. injects' \in Seq(1 .. n)
      BY <1>1, AppendEvents
    <2>2. delivered' \in Seq(1 .. n)
      BY <1>1, SeqMonotonic
    <2>3. process_injects_id' \in BOOLEAN
      BY DEF EventsInv, Types, InjectUnsolEvent, Scheduled
    <2> QED  BY <1>1, <2>1, <2>2, <2>3 DEF EventsInv, Types, InjectUnsolEvent
  <1>3. StackSound(stack)' /\ FlagSound'
    BY DEF EventsInv, InjectUnsolEvent, FlagSound
  <1>4. Watched'
    BY DEF EventsInv, InjectUnsolEvent, Watched, FlagSound, Scheduled
  <1>5. Accounted'
    <2>1. /\ Len(injects) \in Nat
          /\ Len(injects') = Len(injects) + 1
          /\ injects'[Len(injects) + 1] = n
          /\ \A k \in 1 .. Len(injects) :
               injects'[k] = injects[k] /\ injects[k] \in 1 .. injected
          /\ ToSet(injects') = ToSet(injects) \cup {n}
      <3> DEFINE S == 1 .. n
      <3>1. /\ injects \in Seq(S) /\ n \in S /\ injects' = Append(injects, n)
            /\ \A k \in 1 .. Len(injects) : injects[k] \in 1 .. injected
        BY <1>1, SeqMonotonic, ElementOfSeq
      <3> HIDE DEF n, S
      <3> QED  BY <3>1, AppendEvents
    <2>2. /\ Len(delivered) \in Nat
          /\ \A k \in 1 .. Len(delivered) : delivered[k] \in 1 .. injected
      BY <1>1, LenProperties, ElementOfSeq
    <2>3. ToSet(delivered) \subseteq 1 .. injected /\ ToSet(injects) \subseteq 1 .. injected
          /\ dropped \subseteq 1 .. injected
      BY DEF EventsInv, Accounted
    <2>4. Increasing(injects')
      <3>1. ASSUME NEW j \in 1 .. Len(injects'), NEW k \in 1 .. Len(injects'), j < k
            PROVE  injects'[j] < injects'[k]
        <4>1. j \in 1 .. Len(injects) /\ injects'[j] = injects[j]
              /\ injects[j] \in 1 .. injected
          BY <2>1, <3>1
        <4>2. CASE k = Len(injects) + 1
          BY <1>1, <2>1, <4>1, <4>2
        <4>3. CASE k \in 1 .. Len(injects)
          BY <2>1, <3>1, <4>1, <4>3 DEF EventsInv, Accounted, Increasing
        <4> QED  BY <2>1, <4>2, <4>3
      <3> QED  BY <3>1 DEF Increasing
    <2>5. Before(delivered', injects')
      BY <1>1, <2>1, <2>2 DEF EventsInv, Accounted, Before
    <2>6. ToSet(delivered') \cup ToSet(injects') \cup dropped' = 1 .. injected'
      BY <1>1, <2>1 DEF EventsInv, Accounted
    <2>7. n \notin 1 .. injected
      BY <1>1
    <2>8. dropped' \cap (ToSet(delivered') \cup ToSet(injects')) = {}
      BY <1>1, <2>1, <2>3, <2>7 DEF EventsInv, Accounted
    <2> QED  BY <1>1, <2>4, <2>5, <2>6, <2>8 DEF EventsInv, Accounted
  <1> QED  BY <1>2, <1>3, <1>4, <1>5 DEF EventsInv

\* An event goes from the front of the list to the end of what was delivered.
LEMMA DeliverInjectSound == EventsInv /\ DeliverInject => EventsInv'
  <1> SUFFICES ASSUME EventsInv, DeliverInject  PROVE EventsInv'
    OBVIOUS
  <1> DEFINE h == Head(injects)
  <1>1. /\ injected' = injected /\ dropped' = dropped
        /\ injects' = Tail(injects) /\ delivered' = Append(delivered, h)
        /\ injects # <<>>
        /\ injects \in Seq(1 .. injected) /\ delivered \in Seq(1 .. injected)
    BY DEF EventsInv, Types, DeliverInject
  <1>2. /\ injects' \in Seq(1 .. injected) /\ Len(injects) \in Nat \ {0}
        /\ Len(injects') = Len(injects) - 1
        /\ h = injects[1] /\ h \in 1 .. injected
        /\ \A k \in 1 .. Len(injects) - 1 : injects'[k] = injects[k + 1]
        /\ ToSet(injects) = ToSet(injects') \cup {h}
    BY <1>1, TailEvents
  <1>3. /\ delivered' \in Seq(1 .. injected) /\ Len(delivered) \in Nat
        /\ Len(delivered') = Len(delivered) + 1
        /\ delivered'[Len(delivered) + 1] = h
        /\ \A k \in 1 .. Len(delivered) :
             delivered'[k] = delivered[k] /\ delivered[k] \in 1 .. injected
        /\ ToSet(delivered') = ToSet(delivered) \cup {h}
    <2> DEFINE S == 1 .. injected
    <2>1. delivered \in Seq(S) /\ h \in S /\ delivered' = Append(delivered, h)
      BY <1>1, <1>2
    <2> HIDE DEF h, S
    <2>2. /\ delivered' \in Seq(S) /\ Len(delivered) \in Nat
          /\ Len(delivered') = Len(delivered) + 1
          /\ delivered'[Len(delivered) + 1] = h
          /\ \A k \in 1 .. Len(delivered) :
               delivered'[k] = delivered[k] /\ delivered[k] \in S
          /\ ToSet(delivered') = ToSet(delivered) \cup {h}
      BY <2>1, AppendEvents
    <2> QED  BY <2>2 DEF S
  <1>4. Types'
    BY <1>1, <1>2, <1>3 DEF EventsInv, Types, DeliverInject
  <1>5. StackSound(stack)' /\ FlagSound' /\ Has(stack', "inject_loop")
    <2>1. stack' = <<Frame("app", "event")>> \o stack
      BY DEF DeliverInject, Signal
    <2>2. Frame("app", "event") \in FrameType /\ Frame("app", "event").fn = "app"
      BY FrameTyped DEF Signals, Frame
    <2>3. Has(stack, "inject_loop")
      BY PopSound DEF EventsInv, DeliverInject, Running, Top
    <2> QED  BY <2>1, <2>2, <2>3, PushSound DEF EventsInv, DeliverInject, FlagSound, Bottom
  <1>6. Watched'
    BY <1>5 DEF Watched
  <1>7. Accounted'
    <2>1. \A k \in 1 .. Len(delivered) : delivered[k] < h
      BY <1>2, 1 \in 1 .. Len(injects) DEF EventsInv, Accounted, Before
    <2>2. \A k \in 1 .. Len(injects') :
            k + 1 \in 1 .. Len(injects) /\ injects'[k] = injects[k + 1] /\ h < injects'[k]
      BY <1>2, 1 \in 1 .. Len(injects) DEF EventsInv, Accounted, Increasing
    <2>3. Increasing(delivered')
      BY <1>3, <2>1 DEF EventsInv, Accounted, Increasing
    <2>4. Increasing(injects')
      <3>1. ASSUME NEW j \in 1 .. Len(injects'), NEW k \in 1 .. Len(injects'), j < k
            PROVE  injects'[j] < injects'[k]
        <4>1. /\ j + 1 \in 1 .. Len(injects) /\ injects'[j] = injects[j + 1]
              /\ k + 1 \in 1 .. Len(injects) /\ injects'[k] = injects[k + 1]
          BY <2>2
        <4>2. j + 1 < k + 1
          BY <3>1
        <4> QED  BY <4>1, <4>2 DEF EventsInv, Accounted, Increasing
      <3> QED  BY <3>1 DEF Increasing
    <2>5. Before(delivered', injects')
      <3>1. ASSUME NEW j \in 1 .. Len(delivered'), NEW k \in 1 .. Len(injects')
            PROVE  delivered'[j] < injects'[k]
        <4>1. k + 1 \in 1 .. Len(injects) /\ injects'[k] = injects[k + 1] /\ h < injects'[k]
          BY <2>2
        <4>2. CASE j = Len(delivered) + 1
          BY <1>3, <4>1, <4>2
        <4>3. CASE j \in 1 .. Len(delivered)
          BY <1>3, <4>1, <4>3 DEF EventsInv, Accounted, Before
        <4> QED  BY <1>3, <4>2, <4>3
      <3> QED  BY <3>1 DEF Before
    <2>6. ToSet(delivered') \cup ToSet(injects') = ToSet(delivered) \cup ToSet(injects)
      BY <1>2, <1>3
    <2> QED  BY <1>1, <2>3, <2>4, <2>5, <2>6 DEF EventsInv, Accounted
  <1> QED  BY <1>4, <1>5, <1>6, <1>7 DEF EventsInv

\* The list is empty when the loop ends.
LEMMA ProcessEndSound == EventsInv /\ ProcessEnd => EventsInv'
  <1> SUFFICES ASSUME EventsInv, ProcessEnd  PROVE EventsInv'
    OBVIOUS
  <1>1. stack # <<>> /\ Head(stack).fn = "inject_loop" /\ stack' = Tail(stack)
    BY DEF ProcessEnd, Running, Top, Rest
  <1>2. stack' = <<>>
    BY <1>1, PopSound DEF EventsInv, Bottom
  <1>3. StackSound(stack)' /\ FlagSound'
    BY <1>2, EmptySound DEF ProcessEnd, FlagSound
  <1>4. Types' /\ Accounted'
    BY SameEvents DEF EventsInv, Types, ProcessEnd, historyVars
  <1>5. Watched'
    BY DEF ProcessEnd, Watched
  <1> QED  BY <1>3, <1>4, <1>5 DEF EventsInv

\* The idle callback: the loop begins.
LEMMA ProcessInjectsCallbackSound == EventsInv /\ ProcessInjectsCallback => EventsInv'
  <1> SUFFICES ASSUME EventsInv, ProcessInjectsCallback  PROVE EventsInv'
    OBVIOUS
  <1>1. stack' = <<Frame("inject_loop", "none")>>
    BY DEF ProcessInjectsCallback, ProcessInjects, Function
  <1>2. Frame("inject_loop", "none") \in FrameType
        /\ Frame("inject_loop", "none").fn = "inject_loop"
    BY FrameTyped DEF Bottom, Frame
  <1>3. StackSound(stack)' /\ Has(stack', "inject_loop")
    BY <1>1, <1>2, SingleSound
  <1>4. Types' /\ Accounted'
    BY SameEvents DEF EventsInv, Types, ProcessInjectsCallback, ProcessInjects, historyVars
  <1>5. FlagSound' /\ Watched'
    BY <1>3 DEF FlagSound, Watched, ProcessInjectsCallback, ProcessInjects
  <1> QED  BY <1>3, <1>4, <1>5 DEF EventsInv

\* The link goes down: what is to be signalled goes on top of the stack.
LEMMA LinkDownSound ==
    ASSUME EventsInv, NEW after, StackSound(after),
           Has(after, "inject_loop") <=> Has(stack, "inject_loop"),
           Has(stack, "process_injects") => Has(after, "process_injects"),
           LinkDown(after), UNCHANGED <<injectVars, historyVars>>
    PROVE  EventsInv'
  <1> DEFINE f == Frame("app", "eof")
  <1>1. stack' = after \/ stack' = <<f>> \o after
    BY DEF LinkDown, Signal
  <1>2. f \in FrameType /\ f.fn = "app"
    BY FrameTyped DEF Signals, Frame
  <1>3. /\ StackSound(stack')
        /\ Has(stack', "inject_loop") <=> Has(stack, "inject_loop")
        /\ Has(stack, "process_injects") => Has(stack', "process_injects")
    <2>1. CASE stack' = after
      BY <2>1
    <2>2. CASE stack' = <<f>> \o after
      <3>1. /\ StackSound(<<f>> \o after)
            /\ \A g : Has(<<f>> \o after, g) <=> f.fn = g \/ Has(after, g)
        BY <1>2, PushSound, "app" \notin Bottom DEF Bottom
      <3> QED  BY <1>2, <2>2, <3>1
    <2> QED  BY <1>1, <2>1, <2>2
  <1>4. connected' \in BOOLEAN /\ (connected' => connected)
    BY DEF LinkDown, EventsInv, Types
  <1>5. Types' /\ Accounted'
    BY <1>4, SameEvents DEF EventsInv, Types, LinkDown, injectVars, historyVars
  <1>6. FlagSound' /\ Watched'
    BY <1>3, <1>4 DEF EventsInv, FlagSound, Watched, injectVars
  <1> QED  BY <1>3, <1>5, <1>6 DEF EventsInv

\* EOF, at the top of the main loop.
LEMMA HandleDisconnectedSound == EventsInv /\ HandleDisconnected => EventsInv'
  BY LinkDownSound, EmptySound DEF HandleDisconnected, Idle

\* An error, at the top of the main loop.
LEMMA HandleErrorSound == EventsInv /\ HandleError => EventsInv'
  <1> SUFFICES ASSUME EventsInv, HandleError  PROVE EventsInv'
    OBVIOUS
  <1> DEFINE f == Frame("error", "none")
  <1>1. f \in FrameType /\ f.fn = "error" /\ Function("error") = <<f>>
    BY FrameTyped DEF Frame, Function
  <1>2. StackSound(<<f>>) /\ ~Has(<<f>>, "inject_loop")
    BY <1>1, SingleSound
  <1>3. stack = <<>> /\ LinkDown(<<f>>) /\ UNCHANGED <<injectVars, historyVars>>
    BY <1>1 DEF HandleError, Idle
  <1> QED  BY <1>2, <1>3, LinkDownSound, EmptySound

\* Shutdown, from anywhere in the application.
LEMMA ShutdownSound == EventsInv /\ Shutdown => EventsInv'
  <1> SUFFICES ASSUME EventsInv, Shutdown  PROVE EventsInv'
    OBVIOUS
  <1> DEFINE f == Frame("drop_injects", "none")
  <1>1. /\ f \in FrameType /\ f.fn = "drop_injects" /\ f.fn \notin Bottom
        /\ Function("drop_injects") = <<f>>
    BY FrameTyped DEF Frame, Function, Bottom
  <1>2. /\ StackSound(<<f>> \o stack)
        /\ \A g : Has(<<f>> \o stack, g) <=> f.fn = g \/ Has(stack, g)
    BY <1>1, PushSound DEF EventsInv
  <1>3. LinkDown(<<f>> \o stack) /\ UNCHANGED <<injectVars, historyVars>>
    BY <1>1 DEF Shutdown
  <1> QED  BY <1>1, <1>2, <1>3, LinkDownSound

\* Shutdown drops the list: what was in it is accounted for as dropped.
LEMMA ShutdownDropSound == EventsInv /\ ShutdownDrop => EventsInv'
  <1> SUFFICES ASSUME EventsInv, ShutdownDrop  PROVE EventsInv'
    OBVIOUS
  <1>1. stack # <<>> /\ Head(stack).fn = "drop_injects" /\ stack' = Tail(stack)
    BY DEF ShutdownDrop, Running, Top, Rest
  <1>2. StackSound(stack)' /\ FlagSound'
    BY <1>1, PopSound DEF EventsInv, FlagSound, ShutdownDrop
  <1>3. /\ injects' = <<>> /\ dropped' = dropped \cup ToSet(injects)
        /\ injected' = injected /\ delivered' = delivered
        /\ process_injects_id' = FALSE
    BY DEF ShutdownDrop, DropPendingInjects
  <1>4. Types'
    <2>1. dropped' \subseteq 1 .. injected
      BY <1>3 DEF EventsInv, Types, Accounted
    <2>2. injects' \in Seq(1 .. injected)
      BY <1>3
    <2> QED  BY <1>3, <2>1, <2>2 DEF EventsInv, Types, ShutdownDrop
  <1>5. Watched'
    BY <1>3 DEF Watched
  <1>6. Accounted'
    <2>1. ToSet(injects') = {} /\ Len(injects') = 0
      BY <1>3 DEF ToSet
    <2>2. ToSet(delivered) \cap ToSet(injects) = {}
      <3>1. \A j \in DOMAIN delivered, k \in DOMAIN injects : delivered[j] # injects[k]
        <4>1. /\ DOMAIN delivered = 1 .. Len(delivered)
              /\ DOMAIN injects = 1 .. Len(injects)
              /\ \A k \in 1 .. Len(injects) : injects[k] \in 1 .. injected
          BY LenProperties, ElementOfSeq DEF EventsInv, Types
        <4>2. injected \in Nat
          BY DEF EventsInv, Types
        <4> QED  BY <4>1, <4>2 DEF EventsInv, Accounted, Before
      <3> QED  BY <3>1 DEF ToSet
    <2>3. Increasing(injects') /\ Before(delivered', injects')
      BY <2>1 DEF Increasing, Before
    <2> QED  BY <1>3, <2>1, <2>2, <2>3 DEF EventsInv, Accounted, Increasing
  <1> QED  BY <1>2, <1>4, <1>5, <1>6 DEF EventsInv

\* An indication.
LEMMA IndicationSound ==
    ASSUME EventsInv, NEW connects \in BOOLEAN, Indication(connects)
    PROVE  EventsInv'
  <1> DEFINE c == Frame("connect", "none")
             e == Frame("app", "connected_event")
             a == Frame("app", "event")
  <1>1. /\ c \in FrameType /\ e \in FrameType /\ a \in FrameType
        /\ c.fn = "connect" /\ e.fn = "app" /\ a.fn = "app"
    BY FrameTyped DEF Bottom, Signals, Frame
  <1>2. /\ StackSound(<<c>>) /\ StackSound(<<a>>)
        /\ ~Has(<<c>>, "inject_loop") /\ ~Has(<<a>>, "inject_loop")
    BY <1>1, SingleSound
  <1>3. StackSound(<<e>> \o <<c>>) /\ ~Has(<<e>> \o <<c>>, "inject_loop")
    BY <1>1, <1>2, PushSound, "app" \notin Bottom DEF Bottom
  <1>4. stack = <<>> /\ (stack' = <<e>> \o <<c>> \/ stack' = <<a>>)
    BY DEF Indication, Idle, Signal, Function
  <1>5. StackSound(stack)' /\ FlagSound'
    BY <1>2, <1>3, <1>4, EmptySound DEF EventsInv, FlagSound, Indication, injectVars
  <1>6. Types' /\ Accounted'
    BY SameEvents DEF EventsInv, Types, Indication, injectVars, historyVars
  <1>7. Watched'
    BY <1>4, EmptySound DEF EventsInv, Watched, Indication, injectVars
  <1> QED  BY <1>5, <1>6, <1>7 DEF EventsInv

\* The channel is connected, and will look at the list when its signal was emitted.
LEMMA HandleConnectedSound == EventsInv /\ HandleConnected => EventsInv'
  <1> SUFFICES ASSUME EventsInv, HandleConnected  PROVE EventsInv'
    OBVIOUS
  <1> DEFINE p == Frame("process_injects", "none")
             a == Frame("app", "connected")
  <1>1. stack # <<>> /\ Head(stack).fn = "connect" /\ "connect" \in Bottom
    BY DEF HandleConnected, Running, Top, Bottom
  <1>2. Tail(stack) = <<>> /\ ~Has(stack, "inject_loop")
    BY <1>1, PopSound, EmptySound DEF EventsInv
  <1>3. p \in FrameType /\ a \in FrameType /\ p.fn = "process_injects" /\ a.fn = "app"
    BY FrameTyped DEF Bottom, Signals, Frame
  <1>4. stack' = <<a>> \o <<p>>
    <2>1. stack' = <<a>> \o <<p>> \o <<>>
      BY <1>2 DEF HandleConnected, Signal, Function, Rest
    <2>2. <<a>> \o <<p>> \in Seq(FrameType)
      BY <1>3, ConcatProperties, <<a>> \in Seq(FrameType), <<p>> \in Seq(FrameType)
    <2> QED  BY <2>1, <2>2, ConcatEmptySeq
  <1>5. StackSound(<<p>>) /\ Has(<<p>>, "process_injects") /\ ~Has(<<p>>, "inject_loop")
    BY <1>3, SingleSound
  <1>6. /\ StackSound(stack') /\ Has(stack', "process_injects")
        /\ ~Has(stack', "inject_loop")
    BY <1>3, <1>4, <1>5, PushSound, "app" \notin Bottom DEF Bottom
  <1>7. Types' /\ Accounted'
    BY SameEvents DEF EventsInv, Types, HandleConnected, injectVars, historyVars
  <1>8. FlagSound' /\ Watched'
    BY <1>2, <1>6 DEF EventsInv, FlagSound, Watched, HandleConnected, injectVars
  <1> QED  BY <1>6, <1>7, <1>8 DEF EventsInv

\* It does.
LEMMA HandleConnectedInjectsSound == EventsInv /\ HandleConnectedInjects => EventsInv'
  <1> SUFFICES ASSUME EventsInv, HandleConnectedInjects  PROVE EventsInv'
    OBVIOUS
  <1> DEFINE p == Frame("inject_loop", "none")
  <1>1. stack # <<>> /\ Head(stack).fn = "process_injects" /\ "process_injects" \in Bottom
    BY DEF HandleConnectedInjects, Running, Top, Bottom
  <1>2. Tail(stack) = <<>>
    BY <1>1, PopSound DEF EventsInv
  <1>3. p \in FrameType /\ p.fn = "inject_loop"
    BY FrameTyped DEF Bottom, Frame
  <1>4. stack' = <<p>> /\ processing_injects' = TRUE
    <2>1. stack' = <<p>> \o <<>> /\ processing_injects' = TRUE
      BY <1>2 DEF HandleConnectedInjects, ProcessInjects, Function, Rest
    <2> QED  BY <1>3, <2>1, ConcatEmptySeq, <<p>> \in Seq(FrameType)
  <1>5. StackSound(stack') /\ Has(stack', "inject_loop")
    BY <1>3, <1>4, SingleSound
  <1>6. Types' /\ Accounted'
    BY <1>4, SameEvents DEF EventsInv, Types, HandleConnectedInjects, historyVars
  <1>7. FlagSound' /\ Watched'
    BY <1>4, <1>5 DEF FlagSound, Watched
  <1> QED  BY <1>5, <1>6, <1>7 DEF EventsInv

\* Frames that are not the loop nor handle_connected come and go.
LEMMA PopOtherSound ==
    ASSUME EventsInv, stack # <<>>, Head(stack).fn \notin Bottom, stack' = Tail(stack),
           UNCHANGED <<connected, injectVars, link, historyVars>>
    PROVE  EventsInv'
  <1>1. /\ StackSound(stack')
        /\ Has(stack', "inject_loop") <=> Has(stack, "inject_loop")
        /\ Has(stack', "process_injects") <=> Has(stack, "process_injects")
    BY PopSound DEF EventsInv, Bottom
  <1>2. Types' /\ Accounted'
    BY SameEvents DEF EventsInv, Types, injectVars, historyVars
  <1>3. FlagSound' /\ Watched'
    BY <1>1 DEF EventsInv, FlagSound, Watched, injectVars
  <1> QED  BY <1>1, <1>2, <1>3 DEF EventsInv

\* The error is signalled after EOF.
LEMMA ErrorSignalSound == EventsInv /\ ErrorSignal => EventsInv'
  <1> SUFFICES ASSUME EventsInv, ErrorSignal  PROVE EventsInv'
    OBVIOUS
  <1> DEFINE a == Frame("app", "error")
  <1>1. /\ stack # <<>> /\ Head(stack).fn = "error"
        /\ stack' = <<a>> \o Tail(stack)
    BY DEF ErrorSignal, Running, Top, Rest, Signal
  <1>2. a \in FrameType /\ a.fn = "app"
    BY FrameTyped DEF Signals, Frame
  <1>3. /\ StackSound(Tail(stack))
        /\ \A g : Has(stack, g) <=> "error" = g \/ Has(Tail(stack), g)
    BY <1>1, PopSound DEF EventsInv
  <1>4. /\ StackSound(stack')
        /\ \A g : Has(stack', g) <=> "app" = g \/ Has(Tail(stack), g)
    BY <1>1, <1>2, <1>3, PushSound, "app" \notin Bottom DEF Bottom
  <1>5. /\ Has(stack', "inject_loop") <=> Has(stack, "inject_loop")
        /\ Has(stack', "process_injects") <=> Has(stack, "process_injects")
    BY <1>3, <1>4
  <1>6. Types' /\ Accounted'
    BY SameEvents DEF EventsInv, Types, ErrorSignal, injectVars, historyVars
  <1>7. FlagSound' /\ Watched'
    BY <1>5 DEF EventsInv, FlagSound, Watched, ErrorSignal, injectVars
  <1> QED  BY <1>4, <1>6, <1>7 DEF EventsInv

\* A handler returns.
LEMMA AppReturnsSound == EventsInv /\ AppReturns => EventsInv'
  BY PopOtherSound DEF AppReturns, Running, Top, Rest, Bottom

-----------------------------------------------------------------------------
(* The theorems.                                                           *)

\* Nothing changes.
LEMMA StutterSound == EventsInv /\ UNCHANGED vars => EventsInv'
  <1> SUFFICES ASSUME EventsInv, UNCHANGED vars  PROVE EventsInv'
    OBVIOUS
  <1>1. Types' /\ Accounted'
    BY SameEvents DEF EventsInv, Types, vars, injectVars, historyVars
  <1>2. StackSound(stack)' /\ FlagSound' /\ Watched'
    BY DEF EventsInv, FlagSound, Watched, vars, injectVars
  <1> QED  BY <1>1, <1>2 DEF EventsInv

\* Every step keeps the invariant.
LEMMA NextSound == EventsInv /\ [Next]_vars => EventsInv'
  <1> SUFFICES ASSUME EventsInv, [Next]_vars  PROVE EventsInv'
    OBVIOUS
  <1>1. CASE App
    BY <1>1, InjectUnsolEventSound, ShutdownSound DEF App
  <1>2. CASE Event
    BY <1>2, ProcessInjectsCallbackSound, IndicationSound, HandleDisconnectedSound,
       HandleErrorSound DEF Event
  <1>3. CASE Step
    BY <1>3, DeliverInjectSound, ProcessEndSound, HandleConnectedSound,
       HandleConnectedInjectsSound, ErrorSignalSound, ShutdownDropSound, AppReturnsSound
    DEF Step
  <1>4. CASE UNCHANGED vars
    BY <1>4, StutterSound
  <1> QED  BY <1>1, <1>2, <1>3, <1>4 DEF Next

\* The invariant holds in every reachable state.
THEOREM EventsInvHolds == Spec => []EventsInv
  BY InitEvents, NextSound, PTL DEF Spec

\* The channel is well typed, and grilio_channel_process_injects never runs inside itself.
THEOREM TypeCorrect == Spec => []TypeOK
  <1>1. EventsInv => TypeOK
    <2> SUFFICES ASSUME EventsInv  PROVE TypeOK
      OBVIOUS
    <2> DEFINE loops == {k \in DOMAIN stack : stack[k].fn = "inject_loop"}
    <2>1. DOMAIN stack = 1 .. Len(stack) /\ Len(stack) \in Nat
      BY LenProperties DEF EventsInv, StackSound
    <2>2. loops \subseteq {Len(stack)}
      BY <2>1, "inject_loop" \in Bottom DEF EventsInv, StackSound, Bottom
    <2>3. processing_injects <=> loops # {}
      BY <2>1 DEF EventsInv, FlagSound, Has
    <2>4. Cardinality(loops) = IF processing_injects THEN 1 ELSE 0
      <3> HIDE DEF loops
      <3>1. CASE processing_injects
        <4>1. loops = {Len(stack)}
          BY <2>2, <2>3, <3>1
        <4> QED  BY <3>1, <4>1, FS_Singleton
      <3>2. CASE ~processing_injects
        <4>1. loops = {}
          BY <2>3, <3>2
        <4> QED  BY <3>2, <4>1, FS_EmptySet
      <3> QED  BY <3>1, <3>2
    <2> QED  BY <2>4 DEF EventsInv, Types, TypeOK
  <1> QED  BY <1>1, EventsInvHolds, PTL

\* Every injected event is delivered in order and once, is in the list, or was dropped by
\* a shutdown, whatever the handlers of injected events do.
THEOREM InjectsInOrder == Spec => []InjectedInOrder
  <1>1. EventsInv => InjectedInOrder
    <2> SUFFICES ASSUME EventsInv  PROVE InjectedInOrder
      OBVIOUS
    <2>1. DOMAIN delivered = 1 .. Len(delivered)
      BY LenProperties DEF EventsInv, Types
    <2> QED  BY <2>1 DEF EventsInv, Accounted, Increasing, InjectedInOrder
  <1> QED  BY <1>1, EventsInvHolds, PTL

\* No injected event is forgotten: while the channel is connected and idle, the callback
\* is scheduled or the list is empty.
THEOREM InjectsNotForgotten == Spec => []InjectsScheduled
  <1>1. EventsInv => InjectsScheduled
    BY EmptySound DEF EventsInv, Watched, Idle, InjectsScheduled
  <1> QED  BY <1>1, EventsInvHolds, PTL
=============================================================================
