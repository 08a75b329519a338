------------------------------ MODULE PlanetNode ------------------------------
(***************************************************************************)
(* planet start on one host: the daemon with its goroutines (the start     *)
(* itself, the signal handler, the udev listener, the monitor of the       *)
(* units), the container it runs, and the block devices of the host.       *)
(*                                                                         *)
(* Faults are the events after which the code does not do what the         *)
(* properties below say, each named where it is used.                      *)
(***************************************************************************)
EXTENDS PlanetStart, PlanetBox

CONSTANTS Devices,   \* names of block devices
          Numbers,   \* device numbers a device may get
          MaxPolls,  \* bound: rounds of monitorUnits (30 in the code)
          MaxEvents  \* bound: starts, signals, changes of devices, kills and errors

ASSUME NodeAssumption ==
    /\ {"stop", "listener", "monitor"} \subseteq Commands
    /\ Numbers # {} /\ 0 \notin Numbers /\ {MaxPolls, MaxEvents} \subseteq Nat

VARIABLES
    handler, \* the goroutine of setupSignalHandlers: none, on, stopping, calling, gone
    sig,     \* its channel, of one signal
    told,    \* a signal to stop has been sent to the daemon
    halting, \* systemctl halt has been accepted
    host,    \* the number of a device of the host, 0 if there is none
    node,    \* the number of its node in the container, 0 if there is none
    queue,   \* the events the listener has yet to look at
    job,     \* the event it is working on
    polls,
    events

daemonVars == <<handler, sig, told, halting, polls>>
deviceVars == <<host, node, queue, job>>
nodeVars == <<startVars, boxVars, daemonVars, deviceVars, events>>

Devs == [Devices -> Numbers \cup {0}]
NoDevices == [d \in Devices |-> 0]
NoJob == [act |-> "none"]
Events == [act : {"add", "remove"}, dev : Devices]

NodeTypeOK ==
    /\ StartTypeOK /\ BoxTypeOK
    /\ handler \in {"none", "on", "stopping", "calling", "gone"}
    /\ sig \in {"none", "TERM", "HUP"} /\ {told, halting} \subseteq BOOLEAN
    /\ {host, node} \subseteq Devs
    /\ job.act \in {"none", "add", "remove"} /\ queue \in Seq(Events)
    /\ polls \in 0..MaxPolls /\ events \in 0..MaxEvents

NodeInit ==
    /\ StartInit /\ BoxInit
    /\ handler = "none" /\ sig = "none" /\ told = FALSE /\ halting = FALSE /\ polls = 0
    /\ host \in [Devices -> {0, CHOOSE n \in Numbers : TRUE}] /\ node = NoDevices /\ queue = <<>> /\ job = NoJob
    /\ events = 0

Bounded == events < MaxEvents /\ events' = events + 1

Listening == step \in {"files", "create", "run", "wait"}

Running == own # 0 /\ dir[own] = "running"

-----------------------------------------------------------------------------
(* The daemon. *)

\* The signal handlers are installed first.
Start(c) ==
    /\ Bounded /\ startAndWait(c)
    /\ handler' = "on" /\ sig' = "none" /\ polls' = 0
    /\ UNCHANGED <<boxVars, told, halting, deviceVars>>

Configure ==
    /\ StartStep
    /\ UNCHANGED <<boxVars, daemonVars, deviceVars, events>>

newUdevListener ==
    /\ Becomes("listener", rootfs)
    /\ UNCHANGED <<listen, boxVars, daemonVars, deviceVars, events>>

\* getLibcontainerConfig lists the host's devices for the container to be made with.
Create ==
    /\ Becomes("create", rootfs) /\ CreateContainer /\ node' = host
    /\ UNCHANGED <<listen, daemonVars, host, queue, job, events>>

Run ==
    /\ step = "run" /\ RunContainer
    /\ UNCHANGED <<startVars, daemonVars, deviceVars, events>>

\* container.Status has been read: start() returns, and startAndWait waits.
Started ==
    /\ own # 0 /\ dir[own] \in {"running", "stopped"} /\ Becomes("run", rootfs)
    /\ UNCHANGED <<listen, boxVars, daemonVars, deviceVars, events>>

\* The process ends, and leaves the containers d and the rootfs r.
Exit(d, r) ==
    /\ step # "off" /\ step' = "off" /\ rootfs' = r /\ UNCHANGED <<flags, listen>>
    /\ DaemonGone(d)
    /\ handler' = "none" /\ sig' = "none" /\ told' = FALSE /\ polls' = 0
    /\ queue' = <<>> /\ job' = NoJob
    /\ UNCHANGED host

\* Variant: a container that could not be run is left behind.
StartFailsVariant ==
    /\ Bounded /\ step # "wait" /\ (~Running \/ "statusFails" \in Faults)
    /\ Exit(dir, rootfs)
    /\ UNCHANGED <<node, halting>>

\* start() returns an error: box.Start destroys the container it has created.  That fails if
\* init runs already (Status fails after Run).
StartFails ==
    /\ Bounded /\ step # "wait" /\ (~Running \/ "statusFails" \in Faults)
    /\ Exit(Destroyed, rootfs)
    /\ node' = IF Running THEN node ELSE NoDevices
    /\ UNCHANGED halting

StartRefused == Refused /\ Exit(dir, rootfs) /\ UNCHANGED <<node, halting, events>>

\* Box.Wait returns when init is gone; Close closes the listener and destroys the container.
WaitReturns ==
    /\ step = "wait" /\ dir[own] = "stopped"
    /\ Exit(Destroyed, rootfs) /\ node' = NoDevices
    /\ UNCHANGED <<halting, events>>

\* The daemon is killed, and its container with it; the directory stays.  With the fault
\* killedAlone the container, which nothing ties to its parent, runs on.
Killed ==
    /\ Bounded
    /\ LET down == [d \in Dirs |-> IF d = own /\ dir[d] \in {"created", "running"}
                                   THEN "stopped" ELSE dir[d]]
           left == {down} \cup IF "killedAlone" \in Faults THEN {dir} ELSE {}
       IN \E d \in left, r \in LeftByKill : Exit(d, r)
    /\ node' = NoDevices /\ halting' = FALSE

\* The container's init ends by itself.
InitDies ==
    /\ Bounded /\ Running /\ ContainerStops
    /\ halting' = FALSE /\ node' = NoDevices
    /\ UNCHANGED <<startVars, handler, sig, told, polls, host, queue, job>>

\* systemd halts the container.
Halts ==
    /\ halting /\ ContainerStops
    /\ halting' = FALSE /\ node' = NoDevices
    /\ UNCHANGED <<startVars, handler, sig, told, polls, host, queue, job, events>>

-----------------------------------------------------------------------------
(* Signals. *)

\* A signal reaches the handler's channel and all forwarders.
Arrives(s) ==
    /\ Bounded /\ step # "off"
    /\ sig' = IF sig = "none" THEN s ELSE sig
    /\ told' = (told \/ s = "TERM")
    /\ inbox' = Caught(inbox, s)
    /\ UNCHANGED <<startVars, dir, own, phase, target, process, handler, halting, polls, deviceVars>>

\* A signal to stop; without the faults, one that comes when there is a container to stop,
\* when no other signal waits, and not while the container is being stopped.
Terminate ==
    /\ Running \/ "earlySignal" \in Faults
    /\ sig = "none" \/ "burst" \in Faults
    /\ handler \notin {"stopping", "calling"} \/ "repeatedSignal" \in Faults
    /\ Arrives("TERM")

\* A signal the handler ignores; without the fault, one that no command is there to forward.
Hangup ==
    /\ "hangupForwarded" \in Faults \/ \A c \in Commands : phase[c] \in {"idle", "done", "failed"}
    /\ Arrives("HUP")

\* Variant: the handler returns after any signal.
HandleSignalVariant ==
    /\ handler = "on" /\ sig # "none" /\ sig' = "none"
    /\ handler' = IF sig = "TERM" THEN "stopping" ELSE "gone"
    /\ UNCHANGED <<startVars, boxVars, told, halting, polls, deviceVars, events>>

HandleSignal ==
    /\ handler = "on" /\ sig # "none" /\ sig' = "none"
    /\ handler' = IF sig = "TERM" THEN "stopping" ELSE "on"
    /\ UNCHANGED <<startVars, boxVars, told, halting, polls, deviceVars, events>>

stop ==
    /\ handler = "stopping" /\ handler' = "calling"
    /\ Enter("stop", getContainer)
    /\ UNCHANGED <<startVars, sig, told, halting, polls, deviceVars, events>>

\* systemctl halt has been run.
HaltAccepted ==
    /\ ProcessExits("stop") /\ halting' = (target["stop"] = own)
    /\ UNCHANGED <<startVars, handler, sig, told, polls, deviceVars, events>>

\* The error, if any, is logged, and the handler returns.
StopReturns ==
    /\ handler = "calling" /\ handler' = "gone" /\ Return("stop")
    /\ UNCHANGED <<startVars, sig, told, halting, polls, deviceVars, events>>

-----------------------------------------------------------------------------
(* Block devices. *)

Announce(e) == queue' = IF Listening THEN Append(queue, e) ELSE queue

\* A device comes or goes; without the fault, not between the list of devices and the
\* container's start, when the event may find no container and is dropped.
DeviceChanges(d) ==
    /\ Bounded
    /\ "deviceInWindow" \in Faults \/ step # "run" \/ Running
    /\ \/ host[d] = 0 /\ \E n \in Numbers : host' = [host EXCEPT ![d] = n]
          /\ Announce([act |-> "add", dev |-> d])
       \/ host[d] # 0 /\ host' = [host EXCEPT ![d] = 0] /\ Announce([act |-> "remove", dev |-> d])
    /\ UNCHANGED <<startVars, boxVars, daemonVars, node, job>>

\* The listener's loop takes the next event; for an added device it asks the host for the
\* number, and goes on if the device is gone again.
NextEvent ==
    /\ Listening /\ queue # <<>> /\ queue' = Tail(queue)
    /\ LET e == Head(queue)
       IN IF e.act = "add" /\ host[e.dev] = 0
          THEN phase["listener"] = "idle" /\ UNCHANGED <<boxVars, job>>
          ELSE /\ Enter("listener", getContainer)
               /\ job' = [act |-> e.act, dev |-> e.dev, number |-> host[e.dev]]
    /\ UNCHANGED <<startVars, daemonVars, host, node, events>>

createDevice(d, n) == [node EXCEPT ![d] = IF @ = 0 THEN n ELSE @]

\* Variant: a node is only removed together with its directory.
removeDeviceVariant(d) == node

removeDevice(d) == [node EXCEPT ![d] = 0]

\* planet device add, or remove, has been run in the container.
DeviceDone ==
    /\ ProcessExits("listener")
    /\ node' = CASE target["listener"] # own -> node
                 [] job.act = "add" -> createDevice(job.dev, job.number)
                 [] job.act = "remove" -> removeDevice(job.dev)
    /\ UNCHANGED <<startVars, daemonVars, host, queue, job, events>>

\* An error is logged, and the event is not kept.
ListenerReturns ==
    /\ Return("listener") /\ job' = NoJob
    /\ UNCHANGED <<startVars, daemonVars, host, node, queue, events>>

-----------------------------------------------------------------------------
(* monitorUnits asks for the status of each unit, for a number of rounds. *)

getStatus ==
    /\ step = "wait" /\ polls < MaxPolls /\ Enter("monitor", own)
    /\ UNCHANGED <<startVars, daemonVars, deviceVars, events>>

StatusKnown ==
    /\ ProcessExits("monitor")
    /\ UNCHANGED <<startVars, daemonVars, deviceVars, events>>

\* It ends early when all units are active.
monitorUnits ==
    /\ Return("monitor") /\ polls' \in {polls + 1, MaxPolls}
    /\ UNCHANGED <<startVars, handler, sig, told, halting, deviceVars, events>>

CommandStep ==
    /\ \E c \in Commands : Working(c)
    /\ UNCHANGED <<startVars, daemonVars, deviceVars, events>>

Proceeds ==
    \/ Configure \/ newUdevListener \/ Create \/ Run \/ Started \/ StartRefused \/ WaitReturns
    \/ Halts \/ HandleSignal \/ stop \/ HaltAccepted \/ StopReturns
    \/ NextEvent \/ DeviceDone \/ ListenerReturns
    \/ getStatus \/ StatusKnown \/ monitorUnits \/ CommandStep

NodeNext ==
    \/ Proceeds
    \/ \E c \in Flags : Start(c)
    \/ StartFails \/ Killed \/ InitDies
    \/ Terminate \/ Hangup
    \/ \E d \in Devices : DeviceChanges(d)

\* The host does not stop running the daemon and the container.  Fairness towards each
\* goroutine is not needed: none of them goes on forever within the bounds.
NodeFairness == WF_nodeVars(Proceeds)

NodeSpec == NodeInit /\ [][NodeNext]_nodeVars /\ NodeFairness

-----------------------------------------------------------------------------
(***************************************************************************)
(* A daemon that ends, because start() fails or because its container has  *)
(* stopped, leaves no container running behind it (the deferred Destroy of *)
(* box.Start, Close); directories of killed daemons may stay.              *)
(***************************************************************************)
NothingLeftRunning ==
    step = "off" => \A d \in Dirs : dir[d] \notin {"created", "running"}

(***************************************************************************)
(* A signal to terminate stops the container and ends the daemon, whatever *)
(* other signals have come before it, and although the same signal is also *)
(* forwarded to whatever the daemon is running in the container            *)
(* (setupSignalHandlers).                                                  *)
(***************************************************************************)
StopsWhenTold == told ~> step = "off"

(***************************************************************************)
(* While the container runs, its device nodes become those of the host,    *)
(* names and numbers, through devices that come, go and come back with     *)
(* another number before the listener has looked (udevListener.loop).      *)
(***************************************************************************)
DevicesFollow == (step = "wait" /\ Running) ~> (node = host \/ ~Running)
=============================================================================
