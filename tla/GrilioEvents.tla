---------------------------- MODULE GrilioEvents ----------------------------
(***************************************************************************)
(* How the channel passes on the state of its link and the unsolicited     *)
(* events (grilio_channel.c): the connected, EOF and error signals, and    *)
(* the events that the application injects as if the daemon had sent them. *)
(* What is below the channel is a transport as TransportPromise describes  *)
(* it; what is above it is application code, which may inject more events  *)
(* or shut the channel down from any of these signals.  As in              *)
(* GrilioChannel, the variable stack holds what is left to do in the       *)
(* functions that are being executed.                                      *)
(***************************************************************************)
EXTENDS Integers, Sequences, FiniteSets, SequencesExt

CONSTANTS
    CallsIn,    \* signals from whose handlers the application calls the channel
    MaxInject   \* bound: events the application injects

Signals == {"connected", "eof", "error", "event", "connected_event"}

ASSUME CallsAssumption  == CallsIn \subseteq Signals
ASSUME InjectAssumption == MaxInject \in Nat

VARIABLES
    \* the channel: GRilIoChannel.connected, the list at first_inject, and the rest
    connected, injects, process_injects_id, processing_injects,
    \* the transport: the link as it has told the channel
    link,
    \* what is being executed
    stack,
    \* history: how many events were injected, which were delivered in which order,
    \* and which were dropped by a shutdown
    injected, delivered, dropped

injectVars == <<injects, process_injects_id, processing_injects>>
historyVars == <<injected, delivered, dropped>>
vars == <<connected, injectVars, link, stack, historyVars>>

-----------------------------------------------------------------------------
Frame(f, s) == [fn |-> f, sig |-> s]
Function(f) == <<Frame(f, "none")>>

\* Emits a signal of the channel.
Signal(s) == <<Frame("app", s)>>

Idle       == stack = <<>>
Top        == Head(stack)
Rest       == Tail(stack)
Running(f) == stack # <<>> /\ Top.fn = f
AppRuns    == Idle \/ (Running("app") /\ Top.sig \in CallsIn)

-----------------------------------------------------------------------------
(* Injected events.                                                        *)

\* The callback is scheduled unless process_injects will find the event anyway.
Scheduled == process_injects_id \/ (connected /\ ~processing_injects)

\* grilio_channel_inject_unsol_event.
InjectUnsolEvent ==
    /\ AppRuns
    /\ injected < MaxInject
    /\ injected' = injected + 1
    /\ injects' = Append(injects, injected')
    /\ process_injects_id' = Scheduled
    /\ UNCHANGED <<connected, processing_injects, link, stack, delivered, dropped>>

\* grilio_channel_process_injects, up to its loop.
ProcessInjects(after) ==
    /\ processing_injects' = TRUE
    /\ stack' = Function("inject_loop") \o after

\* The first event is taken off the list and emitted.
DeliverInject ==
    /\ Running("inject_loop")
    /\ injects # <<>>
    /\ injects' = Tail(injects)
    /\ delivered' = Append(delivered, Head(injects))
    /\ stack' = Signal("event") \o stack
    /\ UNCHANGED <<connected, process_injects_id, processing_injects, link, injected,
                   dropped>>

\* Mutant of ProcessEnd: the flag is not reset.
ProcessEndFlagged ==
    /\ Running("inject_loop")
    /\ injects = <<>>
    /\ stack' = Rest
    /\ UNCHANGED <<connected, injectVars, link, historyVars>>

\* The loop ends.
ProcessEnd ==
    /\ Running("inject_loop")
    /\ injects = <<>>
    /\ processing_injects' = FALSE
    /\ stack' = Rest
    /\ UNCHANGED <<connected, injects, process_injects_id, link, historyVars>>

\* grilio_channel_process_injects_cb, the idle callback.
ProcessInjectsCallback ==
    /\ Idle
    /\ process_injects_id
    /\ process_injects_id' = FALSE
    /\ ProcessInjects(<<>>)
    /\ UNCHANGED <<connected, injects, link, historyVars>>

\* Mutant of DropPendingInjects: only the idle callback is removed.
UnscheduleInjects ==
    /\ injects' = injects
    /\ dropped' = dropped \cup ToSet(injects)
    /\ process_injects_id' = FALSE

\* grilio_drop_pending_injects.
DropPendingInjects ==
    /\ injects' = <<>>
    /\ dropped' = dropped \cup ToSet(injects)
    /\ process_injects_id' = FALSE

-----------------------------------------------------------------------------
(* The link.                                                               *)

\* grilio_channel_handle_disconnected, if the transport was not disconnected before.
\* The caller goes on with the frames of after.
LinkDown(after) ==
    /\ link' = "down"
    /\ IF link = "down"
       THEN stack' = after /\ UNCHANGED connected
       ELSE /\ connected' = FALSE
            /\ stack' = Signal("eof") \o after

\* grilio_channel_handle_indication: an event of the daemon; RIL_CONNECTED comes before
\* the transport reports the link as connected.
Indication(connects) ==
    /\ Idle /\ link # "down"
    /\ IF connects THEN link = "new" ELSE link = "up"
    /\ stack' = IF connects THEN Signal("connected_event") \o Function("connect")
                            ELSE Signal("event")
    /\ UNCHANGED <<connected, injectVars, link, historyVars>>

\* grilio_channel_handle_connected, up to its signal.  As TransportPromise has it, the
\* application has not shut the link down meanwhile.
HandleConnected ==
    /\ Running("connect")
    /\ link = "new"
    /\ link' = "up"
    /\ connected' = TRUE
    /\ stack' = Signal("connected") \o Function("process_injects") \o Rest
    /\ UNCHANGED <<injectVars, historyVars>>

\* Mutant of HandleConnectedInjects: what was injected early is left to the callback.
ConnectedIgnoresInjects ==
    /\ Running("process_injects")
    /\ stack' = Rest
    /\ UNCHANGED <<connected, injectVars, link, historyVars>>

\* What follows the signal.
HandleConnectedInjects ==
    /\ Running("process_injects")
    /\ ProcessInjects(Rest)
    /\ UNCHANGED <<connected, injects, process_injects_id, link, historyVars>>

\* EOF.
HandleDisconnected ==
    /\ Idle /\ link # "down"
    /\ LinkDown(<<>>)
    /\ UNCHANGED <<injectVars, historyVars>>

\* grilio_channel_handle_error.  A read error is signalled after the transport has gone
\* down and a write error before that, but this shuts it down: EOF comes first anyway.
HandleError ==
    /\ Idle /\ link # "down"
    /\ LinkDown(Function("error"))
    /\ UNCHANGED <<injectVars, historyVars>>

ErrorSignal ==
    /\ Running("error")
    /\ stack' = Signal("error") \o Rest
    /\ UNCHANGED <<connected, injectVars, link, historyVars>>

\* grilio_channel_shutdown: the transport goes down ...
Shutdown ==
    /\ AppRuns
    /\ ~(\E k \in DOMAIN stack : stack[k].fn = "connect")
    /\ LinkDown(Function("drop_injects") \o stack)
    /\ UNCHANGED <<injectVars, historyVars>>

\* ... and then what was injected is dropped.
ShutdownDrop ==
    /\ Running("drop_injects")
    /\ DropPendingInjects
    /\ stack' = Rest
    /\ UNCHANGED <<connected, processing_injects, link, injected, delivered>>

AppReturns ==
    /\ Running("app")
    /\ stack' = Rest
    /\ UNCHANGED <<connected, injectVars, link, historyVars>>

-----------------------------------------------------------------------------
Init ==
    /\ connected = FALSE /\ link = "new"
    /\ injects = <<>> /\ process_injects_id = FALSE /\ processing_injects = FALSE
    /\ stack = <<>>
    /\ injected = 0 /\ delivered = <<>> /\ dropped = {}

App == InjectUnsolEvent \/ Shutdown

\* What the main loop may dispatch.
Event ==
    \/ ProcessInjectsCallback
    \/ \E connects \in BOOLEAN : Indication(connects)
    \/ HandleDisconnected
    \/ HandleError

\* How the function that is being executed goes on.
Step ==
    \/ DeliverInject
    \/ ProcessEnd
    \/ HandleConnected
    \/ HandleConnectedInjects
    \/ ErrorSignal
    \/ ShutdownDrop
    \/ AppReturns

Next == App \/ Event \/ Step

Spec == Init /\ [][Next]_vars

\* Functions and signal handlers return, and an idle callback is dispatched eventually.
Fairness == WF_vars(Step) /\ SF_vars(ProcessInjectsCallback)

FairSpec == Spec /\ Fairness

-----------------------------------------------------------------------------
\* Type correctness; the flag tells whether the loop runs, and it does not run twice.
TypeOK ==
    /\ Cardinality({k \in DOMAIN stack : stack[k].fn = "inject_loop"})
         = IF processing_injects THEN 1 ELSE 0
    /\ {connected, process_injects_id, processing_injects} \subseteq BOOLEAN
    /\ link \in {"new", "up", "down"}
    /\ injected \in 0 .. MaxInject
    /\ injects \in Seq(1 .. injected) /\ delivered \in Seq(1 .. injected)
    /\ dropped \subseteq 1 .. injected

\* Every injected event is delivered in the order of injection, once, or still in the
\* list, or was dropped by a shutdown, and then it is not delivered any more.
InjectedInOrder ==
    /\ \A j, k \in DOMAIN delivered : j < k => delivered[j] < delivered[k]
    /\ ToSet(delivered) \cup ToSet(injects) \cup dropped = 1 .. injected
    /\ dropped \cap (ToSet(delivered) \cup ToSet(injects)) = {}

\* No injected event is forgotten: when the main loop has control and the channel is
\* connected, the list is empty or the idle callback is scheduled.
InjectsScheduled == Idle /\ connected /\ injects # <<>> => process_injects_id

\* "We should be connected when we are doing this": an injected event is emitted while
\* the channel is connected.
InjectedWhileConnected == [][delivered' # delivered => connected]_vars

\* An injected event does not wait forever while the channel is connected, whatever the
\* handlers of the events before it do.
InjectSettled ==
    \A n \in 1 .. MaxInject :
        n \in ToSet(injects) /\ connected ~> n \notin ToSet(injects) \/ ~connected
=============================================================================
