--------------------------- MODULE ControllerEvents ---------------------------
(***************************************************************************)
(* Event subscription of tosca-controller.                                 *)
(*                                                                         *)
(* The caller of the Controller (one process: every method takes &mut      *)
(* self) discovers devices, starts the fan-in subscriber tasks with        *)
(* Controller::start_event_receivers, starts fan-out subscriptions of      *)
(* single devices, and shuts the Controller down (controller.rs).  Each    *)
(* subscriber task runs concurrently (tokio::spawn) the loop of            *)
(* run_global_event_subscriber or run_event_subscriber (events.rs): a      *)
(* select! between its CancellationToken and the broker event loop, then   *)
(* a send into the bounded mpsc channel (fan-in) or into a broadcast       *)
(* channel (fan-out).  The consumer of the fan-in channel reads or drops   *)
(* its Receiver independently.                                             *)
(*                                                                         *)
(* The data is abstracted: a device is a model value, an event batch is    *)
(* the task's running count of decoded publish packets, a broker packet    *)
(* that parse_event discards changes nothing and is left out.              *)
(***************************************************************************)
EXTENDS Naturals, Sequences, FiniteSets

CONSTANTS
    Devices,        \* the physical devices discovery can find
    EventDevices,   \* those whose description carries an EventsDescription
    Discoverable,   \* the registries Discovery::discover can return
    BufferSizes,    \* buffer_size arguments given to start_event_receivers
    FailingBrokers, \* devices whose broker may refuse the topic subscription
    MaxPolls,       \* bound: decoded publish packets one task receives
    MaxCalls,       \* bound: discover / start / device-subscribe calls
    MaxReceivers    \* bound: broadcast receivers of one fan-out subscription

ASSUME /\ EventDevices \subseteq Devices
       /\ FailingBrokers \subseteq EventDevices
       /\ \A r \in Discoverable : r \in Seq(Devices)
       /\ BufferSizes \subseteq Nat \ {0}
       /\ MaxPolls \in Nat /\ MaxCalls \in Nat /\ MaxReceivers \in Nat \ {0}

VARIABLES
    registry,   \* Devices: the device objects, index = device id
    tokens,     \* number of CancellationTokens created so far (Events::new)
    cancelled,  \* the tokens that have been cancelled
    tasks,      \* the spawned subscriber tasks, in spawn order
    chans,      \* the fan-in mpsc channels, one per start_event_receivers
    ctl,        \* the caller's position inside a Controller method
    calls       \* Controller calls made, for the MaxCalls bound

vars == <<registry, tokens, cancelled, tasks, chans, ctl, calls>>

NoTask == 0     \* Device::event_handle = None

MaxTasks == MaxCalls * Cardinality(Devices)

(* Task loop positions: inside the select!, awaiting sender.send (fan-in), *)
(* in the 100 ms sleep (fan-out), and after the loop.                      *)
TaskStates == {"polling", "sending", "sleeping", "stopped"}

Payload == [task : 1..MaxTasks, id : Nat, seq : 1..MaxPolls]

-----------------------------------------------------------------------------
(* Helpers                                                                 *)

(* The device objects built from a discovered list: each gets its own     *)
(* Events, hence its own fresh CancellationToken; no event task yet.       *)
Fresh(r, base) ==
    [i \in 1..Len(r) |-> [dev |-> r[i], token |-> base + i, handle |-> NoTask]]

NewTask(id, slot, mode, chan, receivers) ==
    [id |-> id, dev |-> slot.dev, token |-> slot.token, mode |-> mode,
     chan |-> chan, pc |-> "polling", polled |-> 0, receivers |-> receivers]

SetPc(t, pc) == tasks' = [tasks EXCEPT ![t].pc = pc]

Idle == ctl.pc = "idle"

RegistryTokens == {registry[i].token : i \in DOMAIN registry}

-----------------------------------------------------------------------------
(* The Controller's methods, called by one caller                          *)

(* Controller::discover: the registry is replaced wholesale. The old      *)
(* device objects, with their tokens, are dropped; running tasks keep      *)
(* their clones of the old tokens.                                         *)
Discover ==
    /\ Idle
    /\ calls < MaxCalls
    /\ \E r \in Discoverable :
          /\ registry' = Fresh(r, tokens)
          /\ tokens' = tokens + Len(r)
    /\ calls' = calls + 1
    /\ UNCHANGED <<cancelled, tasks, chans, ctl>>

(* Mutation: the channel is created one slot smaller than buffer_size,  *)
(* so buffer_size 1 gives mpsc::channel(0), which tokio refuses.           *)
StartEventReceiversSmaller ==
    /\ Idle
    /\ calls < MaxCalls
    /\ \E b \in BufferSizes :
          chans' = Append(chans, [cap |-> b - 1, queue |-> <<>>, rx |-> "held",
                                  got |-> <<>>])
    /\ ctl' = [pc |-> "starting", i |-> 1, chan |-> Len(chans) + 1,
               started |-> 0]
    /\ calls' = calls + 1
    /\ UNCHANGED <<registry, tokens, cancelled, tasks>>

(* start_event_receivers(buffer_size): mpsc::channel(buffer_size), then   *)
(* the loop over the devices in registry order.                            *)
StartEventReceivers ==
    /\ Idle
    /\ calls < MaxCalls
    /\ \E b \in BufferSizes :
          chans' = Append(chans, [cap |-> b, queue |-> <<>>, rx |-> "held",
                                  got |-> <<>>])
    /\ ctl' = [pc |-> "starting", i |-> 1, chan |-> Len(chans) + 1,
               started |-> 0]
    /\ calls' = calls + 1
    /\ UNCHANGED <<registry, tokens, cancelled, tasks>>

Starting == ctl.pc = "starting" /\ ctl.i <= Len(registry)

Advance(started) == ctl' = [ctl EXCEPT !.i = @ + 1, !.started = started]

(* "event receiver already started": device.event_handle.is_some()        *)
StartSkipStarted ==
    /\ Starting
    /\ registry[ctl.i].handle # NoTask
    /\ Advance(ctl.started)
    /\ UNCHANGED <<registry, tokens, cancelled, tasks, chans, calls>>

(* "it does not support events": device.events is None                    *)
StartSkipNoEvents ==
    /\ Starting
    /\ registry[ctl.i].handle = NoTask
    /\ registry[ctl.i].dev \notin EventDevices
    /\ Advance(ctl.started)
    /\ UNCHANGED <<registry, tokens, cancelled, tasks, chans, calls>>

(* EventsRunner::run_global_subscriber succeeds: the task is spawned with *)
(* a clone of tx and of the device's token. The JoinHandle it returns is  *)
(* discarded: device.event_handle stays None.                              *)
StartSpawn ==
    /\ Starting
    /\ registry[ctl.i].handle = NoTask
    /\ registry[ctl.i].dev \in EventDevices
    /\ tasks' = Append(tasks, NewTask(ctl.i, registry[ctl.i], "global",
                                      ctl.chan, 0))
    /\ Advance(ctl.started + 1)
    /\ UNCHANGED <<registry, tokens, cancelled, chans, calls>>

(* EventsRunner::init fails to subscribe: `?` returns the error; rx is    *)
(* dropped, the tasks already spawned keep running.                        *)
StartSubscribeFails ==
    /\ Starting
    /\ registry[ctl.i].handle = NoTask
    /\ registry[ctl.i].dev \in FailingBrokers
    /\ chans' = [chans EXCEPT ![ctl.chan].rx = "dropped",
                              ![ctl.chan].queue = <<>>]
    /\ ctl' = [pc |-> "idle"]
    /\ UNCHANGED <<registry, tokens, cancelled, tasks, calls>>

(* After the loop: no task started is an Events error (rx dropped),       *)
(* otherwise rx is returned to the caller.                                 *)
StartFinish ==
    /\ ctl.pc = "starting"
    /\ ctl.i > Len(registry)
    /\ \/ /\ ctl.started = 0
          /\ chans' = [chans EXCEPT ![ctl.chan].rx = "dropped"]
       \/ /\ ctl.started > 0
          /\ chans' = [chans EXCEPT ![ctl.chan].rx = "returned"]
    /\ ctl' = [pc |-> "idle"]
    /\ UNCHANGED <<registry, tokens, cancelled, tasks, calls>>

(* The per-device subscription of device.rs: EventsRunner::               *)
(* run_device_subscriber with a broadcast channel whose first receiver    *)
(* goes to the caller; its JoinHandle is kept as device.event_handle.      *)
DeviceSubscribe ==
    /\ Idle
    /\ calls < MaxCalls
    /\ \E i \in DOMAIN registry :
          /\ registry[i].dev \in EventDevices
          /\ registry[i].handle = NoTask
          /\ \/ /\ tasks' = Append(tasks, NewTask(i, registry[i], "device",
                                                  0, 1))
                /\ registry' = [registry EXCEPT ![i].handle = Len(tasks) + 1]
             \/ /\ registry[i].dev \in FailingBrokers
                /\ UNCHANGED <<tasks, registry>>
    /\ calls' = calls + 1
    /\ UNCHANGED <<tokens, cancelled, chans, ctl>>

(* Controller::shutdown(self): for each device in registry order, cancel  *)
(* its token if it has events, then await its event_handle if it has one. *)
ShutdownBegin ==
    /\ Idle
    /\ ctl' = [pc |-> "shutdown", i |-> 1, awaiting |-> FALSE]
    /\ UNCHANGED <<registry, tokens, cancelled, tasks, chans, calls>>

(* Mutation: the token is cancelled only for a device whose event_handle *)
(* is set, as if shutdown stopped only the tasks it can await.            *)
ShutdownCancelOnlyAwaited ==
    /\ ctl.pc = "shutdown"
    /\ ctl.i <= Len(registry)
    /\ ~ctl.awaiting
    /\ cancelled' = IF registry[ctl.i].handle # NoTask
                       THEN cancelled \cup {registry[ctl.i].token}
                       ELSE cancelled
    /\ \/ /\ registry[ctl.i].handle = NoTask
          /\ ctl' = [ctl EXCEPT !.i = @ + 1]
       \/ /\ registry[ctl.i].handle # NoTask
          /\ ctl' = [ctl EXCEPT !.awaiting = TRUE]
    /\ UNCHANGED <<registry, tokens, tasks, chans, calls>>

(* Mutation: the order of the loop body swapped: event_handle is awaited *)
(* before the token is cancelled, so only tokens of devices without a      *)
(* handle are cancelled before the await.                                  *)
ShutdownCancelAfterAwait ==
    /\ ctl.pc = "shutdown"
    /\ ctl.i <= Len(registry)
    /\ ~ctl.awaiting
    /\ cancelled' = IF /\ registry[ctl.i].dev \in EventDevices
                          /\ registry[ctl.i].handle = NoTask
                       THEN cancelled \cup {registry[ctl.i].token}
                       ELSE cancelled
    /\ \/ /\ registry[ctl.i].handle = NoTask
          /\ ctl' = [ctl EXCEPT !.i = @ + 1]
       \/ /\ registry[ctl.i].handle # NoTask
          /\ ctl' = [ctl EXCEPT !.awaiting = TRUE]
    /\ UNCHANGED <<registry, tokens, tasks, chans, calls>>

ShutdownCancel ==
    /\ ctl.pc = "shutdown"
    /\ ctl.i <= Len(registry)
    /\ ~ctl.awaiting
    /\ cancelled' = IF registry[ctl.i].dev \in EventDevices
                       THEN cancelled \cup {registry[ctl.i].token}
                       ELSE cancelled
    /\ \/ /\ registry[ctl.i].handle = NoTask
          /\ ctl' = [ctl EXCEPT !.i = @ + 1]
       \/ /\ registry[ctl.i].handle # NoTask
          /\ ctl' = [ctl EXCEPT !.awaiting = TRUE]
    /\ UNCHANGED <<registry, tokens, tasks, chans, calls>>

(* event_handle.await returns once the task has left its loop.             *)
ShutdownAwait ==
    /\ ctl.pc = "shutdown"
    /\ ctl.awaiting
    /\ tasks[registry[ctl.i].handle].pc = "stopped"
    /\ ctl' = [ctl EXCEPT !.i = @ + 1, !.awaiting = FALSE]
    /\ UNCHANGED <<registry, tokens, cancelled, tasks, chans, calls>>

ShutdownDone ==
    /\ ctl.pc = "shutdown"
    /\ ctl.i > Len(registry)
    /\ ctl' = [pc |-> "down"]
    /\ UNCHANGED <<registry, tokens, cancelled, tasks, chans, calls>>

-----------------------------------------------------------------------------
(* The subscriber tasks                                                    *)

(* select!: the cancellation branch is ready; break, drop the client.     *)
TaskCancel(t) ==
    /\ t \in DOMAIN tasks
    /\ tasks[t].pc = "polling"
    /\ tasks[t].token \in cancelled
    /\ SetPc(t, "stopped")
    /\ UNCHANGED <<registry, tokens, cancelled, chans, ctl, calls>>

(* select!: eventloop.poll() yields a publish packet that parse_event     *)
(* decodes; run_global_event_subscriber then awaits sender.send.           *)
TaskPollGlobal(t) ==
    /\ t \in DOMAIN tasks
    /\ tasks[t].mode = "global"
    /\ tasks[t].pc = "polling"
    /\ tasks[t].polled < MaxPolls
    /\ tasks' = [tasks EXCEPT ![t].polled = @ + 1, ![t].pc = "sending"]
    /\ UNCHANGED <<registry, tokens, cancelled, chans, ctl, calls>>

(* Mutation: try_send instead of send(..).await: a batch that finds the  *)
(* channel full is dropped and the loop goes on.                           *)
TaskSendDropWhenFull(t) ==
    /\ t \in DOMAIN tasks
    /\ tasks[t].pc = "sending"
    /\ LET c == tasks[t].chan IN
       \/ /\ chans[c].rx = "dropped"
          /\ SetPc(t, "stopped")
          /\ UNCHANGED chans
       \/ /\ chans[c].rx # "dropped"
          /\ Len(chans[c].queue) >= chans[c].cap
          /\ SetPc(t, "polling")
          /\ UNCHANGED chans
       \/ /\ chans[c].rx # "dropped"
          /\ Len(chans[c].queue) < chans[c].cap
          /\ chans' = [chans EXCEPT ![c].queue =
                 Append(@, [task |-> t, id |-> tasks[t].id,
                            seq |-> tasks[t].polled])]
          /\ SetPc(t, "polling")
    /\ UNCHANGED <<registry, tokens, cancelled, ctl, calls>>

(* sender.send(EventPayload::new(id, events)).await: waits while the      *)
(* channel is full; fails, and the loop breaks, once rx is dropped.        *)
TaskSend(t) ==
    /\ t \in DOMAIN tasks
    /\ tasks[t].pc = "sending"
    /\ LET c == tasks[t].chan IN
       \/ /\ chans[c].rx = "dropped"
          /\ SetPc(t, "stopped")
          /\ UNCHANGED chans
       \/ /\ chans[c].rx # "dropped"
          /\ Len(chans[c].queue) < chans[c].cap
          /\ chans' = [chans EXCEPT ![c].queue =
                 Append(@, [task |-> t, id |-> tasks[t].id,
                            seq |-> tasks[t].polled])]
          /\ SetPc(t, "polling")
    /\ UNCHANGED <<registry, tokens, cancelled, ctl, calls>>

(* run_event_subscriber: the decoded batch goes to sender.send at once    *)
(* (broadcast never waits); an error, i.e. no receiver left, breaks the   *)
(* loop, otherwise the task sleeps 100 ms.                                 *)
TaskPollDevice(t) ==
    /\ t \in DOMAIN tasks
    /\ tasks[t].mode = "device"
    /\ tasks[t].pc = "polling"
    /\ tasks[t].polled < MaxPolls
    /\ tasks' = [tasks EXCEPT ![t].polled = @ + 1,
                    ![t].pc = IF tasks[t].receivers = 0 THEN "stopped"
                                                        ELSE "sleeping"]
    /\ UNCHANGED <<registry, tokens, cancelled, chans, ctl, calls>>

TaskWake(t) ==
    /\ t \in DOMAIN tasks
    /\ tasks[t].pc = "sleeping"
    /\ SetPc(t, "polling")
    /\ UNCHANGED <<registry, tokens, cancelled, chans, ctl, calls>>

-----------------------------------------------------------------------------
(* The consumers                                                           *)

(* Receiver::recv on a returned fan-in receiver.                           *)
Recv(c) ==
    /\ c \in DOMAIN chans
    /\ chans[c].rx = "returned"
    /\ chans[c].queue # <<>>
    /\ chans' = [chans EXCEPT ![c].queue = Tail(@),
                              ![c].got = Append(@, Head(chans[c].queue))]
    /\ UNCHANGED <<registry, tokens, cancelled, tasks, ctl, calls>>

(* Dropping the Receiver closes the channel; buffered payloads are lost.  *)
DropReceiver(c) ==
    /\ c \in DOMAIN chans
    /\ chans[c].rx = "returned"
    /\ chans' = [chans EXCEPT ![c].rx = "dropped", ![c].queue = <<>>]
    /\ UNCHANGED <<registry, tokens, cancelled, tasks, ctl, calls>>

(* Broadcast receivers of a fan-out subscription: resubscribe, drop.      *)
Resubscribe(t) ==
    /\ t \in DOMAIN tasks
    /\ tasks[t].receivers \in 1..(MaxReceivers - 1)
    /\ tasks' = [tasks EXCEPT ![t].receivers = @ + 1]
    /\ UNCHANGED <<registry, tokens, cancelled, chans, ctl, calls>>

DropBroadcastReceiver(t) ==
    /\ t \in DOMAIN tasks
    /\ tasks[t].mode = "device"
    /\ tasks[t].receivers > 0
    /\ tasks' = [tasks EXCEPT ![t].receivers = @ - 1]
    /\ UNCHANGED <<registry, tokens, cancelled, chans, ctl, calls>>

(* shutdown has consumed the Controller: the program may stop here; tasks *)
(* it did not reach wait on their brokers for good.                        *)
Terminated ==
    /\ ctl.pc = "down"
    /\ UNCHANGED vars

-----------------------------------------------------------------------------

Init ==
    \E r \in {<<>>} \cup Discoverable :     \* Controller::new / from_devices
       /\ registry = Fresh(r, 0)
       /\ tokens = Len(r)
       /\ cancelled = {}
       /\ tasks = <<>>
       /\ chans = <<>>
       /\ ctl = [pc |-> "idle"]
       /\ calls = 0

Caller ==
    \/ Discover \/ StartEventReceivers \/ DeviceSubscribe \/ ShutdownBegin
    \/ StartSkipStarted \/ StartSkipNoEvents \/ StartSpawn
    \/ StartSubscribeFails \/ StartFinish
    \/ ShutdownCancel \/ ShutdownAwait \/ ShutdownDone

Task(t) ==
    \/ TaskCancel(t) \/ TaskPollGlobal(t) \/ TaskSend(t)
    \/ TaskPollDevice(t) \/ TaskWake(t)

Consumer ==
    \/ \E c \in DOMAIN chans : Recv(c) \/ DropReceiver(c)
    \/ \E t \in DOMAIN tasks : Resubscribe(t) \/ DropBroadcastReceiver(t)

Next ==
    \/ Caller
    \/ \E t \in DOMAIN tasks : Task(t)
    \/ Consumer
    \/ Terminated

(* tokio::select! picks a random ready branch, so a cancelled token that  *)
(* keeps being ready is eventually chosen: strong fairness on TaskCancel.  *)
(* A send with room, a sleep and the shutdown loop make progress: weak    *)
(* fairness.  The consumer is assumed to keep reading a returned receiver. *)
Fairness ==
    /\ \A t \in 1..MaxTasks :
          /\ SF_vars(TaskCancel(t))
          /\ WF_vars(TaskSend(t))
          /\ WF_vars(TaskWake(t))
    /\ \A c \in 1..MaxCalls : WF_vars(Recv(c))
    /\ WF_vars(ShutdownCancel \/ ShutdownAwait \/ ShutdownDone)

Spec == Init /\ [][Next]_vars /\ Fairness

-----------------------------------------------------------------------------
(* Properties                                                              *)

TypeOK ==
    /\ registry \in Seq([dev : Devices, token : Nat, handle : 0..MaxTasks])
    /\ tokens \in Nat
    /\ cancelled \subseteq 1..tokens
    /\ tasks \in Seq([id : Nat, dev : Devices, token : Nat,
                      mode : {"global", "device"}, chan : Nat,
                      pc : TaskStates, polled : 0..MaxPolls,
                      receivers : 0..MaxReceivers])
    /\ Len(tasks) <= MaxTasks
    /\ chans \in Seq([cap : BufferSizes, queue : Seq(Payload),
                      rx : {"held", "returned", "dropped"},
                      got : Seq(Payload)])
    /\ ctl.pc \in {"idle", "starting", "shutdown", "down"}
    /\ calls \in 0..MaxCalls

(* The payloads of task t that its fan-in channel has accepted, in        *)
(* channel order: those already received, then those still buffered.       *)
Accepted(t) ==
    LET c == chans[tasks[t].chan]
    IN  SelectSeq(c.got \o c.queue, LAMBDA p : p.task = t)

(* Backpressure, not loss: while the consumer holds its receiver, every   *)
(* batch a fan-in task decoded is in the channel (or being sent) exactly  *)
(* once and in broker order, whatever the interleaving of the tasks that  *)
(* share the channel, the consumer and the caller (run_global_event_      *)
(* subscriber's send(..).await into the bounded mpsc channel).             *)
NoLossNoReorder ==
    \A t \in DOMAIN tasks :
       (tasks[t].mode = "global" /\ chans[tasks[t].chan].rx # "dropped") =>
          LET acc == Accepted(t)
              inflight == IF tasks[t].pc = "sending" THEN 1 ELSE 0
          IN  /\ Len(acc) + inflight = tasks[t].polled
              /\ \A k \in DOMAIN acc : acc[k].seq = k

(* Shutdown reaches every subscription of the registry it was given:      *)
(* once shutdown has returned, every task started for a device of that    *)
(* registry eventually leaves its loop (Controller::shutdown cancelling   *)
(* the tokens that the select! of each task watches).                      *)
ShutdownStopsRegistryTasks ==
    \A t \in 1..MaxTasks :
       (/\ ctl.pc = "down"
        /\ t \in DOMAIN tasks
        /\ tasks[t].token \in RegistryTokens)
       ~> (t \in DOMAIN tasks /\ tasks[t].pc = "stopped")

(* Controller::shutdown returns: once the caller has entered it, the     *)
(* loop over the registry reaches its end, although it awaits the          *)
(* event_handle of every per-device subscription, a task that only its     *)
(* own token can stop: the cancel before each await must reach a task     *)
(* that may be sleeping, polling its broker or already stopped.            *)
ShutdownReturns == ctl.pc = "shutdown" ~> ctl.pc = "down"

(* Spec, section 8: shutdown returns only after every subscription task   *)
(* has observed its cancellation.                                          *)
ShutdownJoinsTasks ==
    ctl.pc = "down" => \A t \in DOMAIN tasks : tasks[t].pc = "stopped"

(* Spec, section 4.3: a fan-out task keeps running when its broadcast     *)
(* send fails for lack of receivers; only cancellation stops it            *)
(* (run_event_subscriber).                                                 *)
FanOutStopsOnlyOnCancel ==
    \A t \in DOMAIN tasks :
       (tasks[t].mode = "device" /\ tasks[t].pc = "stopped") =>
          tasks[t].token \in cancelled
=============================================================================
