-------------------------------- MODULE LazyVm --------------------------------
(***************************************************************************)
(* One VM started in lazy mode (runv/hypervisor/lazy.go) on the qemu       *)
(* driver (runv/hypervisor/qemu).                                          *)
(*                                                                         *)
(* The VM's state-machine goroutine takes one event at a time from the hub *)
(* and runs the handler of the current state.  In statePreparing a run-pod *)
(* command allocates a PCI address per network and a SCSI id per block     *)
(* device, records each device in the qemu context (LazyAddNic /           *)
(* LazyAddDisk append a command-line entry and an inserted-event           *)
(* callback), launches qemu and arms the start timeout.  The launchQemu    *)
(* goroutine daemonizes qemu and then posts the recorded callbacks into    *)
(* the hub; the qmpHandler goroutine connects to the monitor concurrently. *)
(* A listen-pod command prepares the same devices, starts qemu for an      *)
(* incoming migration and goes straight to stateRunning.                   *)
(*                                                                         *)
(* stateStarting and stateRunning, the hub loop, the id counters and      *)
(* allocateInterface are not in the source tree; they are written from     *)
(* spec 4.5.  The hub carries every event; the pod spec and the devices it *)
(* names are abstracted to network indexes and block-device names.         *)
(***************************************************************************)
EXTENDS Naturals, Sequences, FiniteSets, SequencesExt

CONSTANTS
    NetCount,   \* networks of the pod (ctx.progress.adding.networks)
    Blks        \* block devices of the pod (ctx.progress.adding.blockdevs)

Nets == 0..(NetCount - 1)

Devs == [kind : {"net"}, id : Nets] \cup [kind : {"blk"}, id : Blks]

\* Commands the daemon posts into the hub.  "runPodMismatch" and
\* "listenPodMismatch" are a run-pod and a listen-pod whose spec and
\* container-info lists differ in length.
PodCmds == {"runPod", "runPodMismatch", "listenPod", "listenPodMismatch"}
ClientCmds == PodCmds \cup {"shutdown"}

VARIABLES
    state,      \* the handler installed by ctx.Become ("Init" before the loop)
    hub,        \* ctx.Hub: events in arrival order
    client,     \* responses sent on the client channel
    sent,       \* client commands already posted
    pciAddr,    \* ctx's next PCI address
    scsiId,     \* ctx's next SCSI id
    interfaces, \* qc.interfaces: [net, pci] in append order
    images,     \* qc.images: [blk, scsi] in append order
    callbacks,  \* qc.callbacks: inserted events in append order
    mode,       \* driver entry point called: "none", "run" (LazyLaunch), "listen"
    launcher,   \* launchQemu/listenQemu goroutine: "none", "spawned", "posting", "done"
    posted,     \* callbacks the launcher has posted so far
    qemu,       \* the qemu process: "none", "running", "exited"
    qmpH,       \* qmpHandler goroutine: "none", "init", "ready", "down"
    timer,      \* the start timeout: "off", "armed", "fired"
    inserted    \* devices stateStarting has recorded as inserted

ctxVars == <<pciAddr, scsiId, interfaces, images, callbacks, mode, inserted>>
procVars == <<launcher, posted, qemu, qmpH, timer>>
vars == <<state, hub, client, sent, ctxVars, procVars>>

Ev(type, dev) == [type |-> type, dev |-> dev]
NoDev == [kind |-> "none", id |-> 0]

InsertedEv(d) == Ev("inserted", d)

-----------------------------------------------------------------------------
(* Producers other than the state machine.                                 *)

(* The daemon posts a command: at most one pod command and one shutdown.   *)
ClientSend(c) ==
    /\ c \notin sent
    /\ c \in PodCmds => sent \cap PodCmds = {}
    /\ sent' = sent \cup {c}
    /\ hub' = Append(hub, Ev(c, NoDev))
    /\ UNCHANGED <<state, client, ctxVars, procVars>>

(* LazyVmLoop: InitContext or InitVM fails and E_BAD_REQUEST is returned,  *)
(* or the loop starts in statePreparing.                                   *)
LazyVmLoop ==
    /\ state = "Init"
    /\ \/ /\ state' = "Preparing"
          /\ UNCHANGED client
       \/ /\ state' = "None"
          /\ client' = Append(client, "badRequest")
    /\ UNCHANGED <<hub, sent, ctxVars, procVars>>

(* Faulty variant: the callbacks are posted before the launch outcome is  *)
(* known, and a failed launch posts them too.                              *)
LaunchFailAfterCallbacks ==
    /\ launcher = "spawned"
    /\ launcher' = "done"
    /\ hub' = hub \o callbacks \o << Ev("startFail", NoDev) >>
    /\ UNCHANGED <<state, client, sent, ctxVars, posted, qemu, qmpH, timer>>

(* launchQemu / listenQemu: an empty executable or a failed ExecInDaemon   *)
(* posts VmStartFailEvent and the goroutine returns.                       *)
LaunchFail ==
    /\ launcher = "spawned"
    /\ launcher' = "done"
    /\ hub' = Append(hub, Ev("startFail", NoDev))
    /\ UNCHANGED <<state, client, sent, ctxVars, posted, qemu, qmpH, timer>>

(* ExecInDaemon succeeds: qemu runs with the recorded devices on its       *)
(* command line.                                                           *)
LaunchExec ==
    /\ launcher = "spawned"
    /\ launcher' = "posting"
    /\ qemu' = "running"
    /\ UNCHANGED <<state, hub, client, sent, ctxVars, posted, qmpH, timer>>

(* The launcher posts the recorded callbacks into the hub one by one, then *)
(* watchPid starts the watchdog (os.FindProcess cannot fail on Unix).     *)
PostCallback ==
    /\ launcher = "posting"
    /\ IF posted < Len(callbacks)
         THEN /\ hub' = Append(hub, callbacks[posted + 1])
              /\ posted' = posted + 1
              /\ UNCHANGED launcher
         ELSE /\ launcher' = "done"
              /\ UNCHANGED <<hub, posted>>
    /\ UNCHANGED <<state, client, sent, ctxVars, qemu, qmpH, timer>>

(* qmpHandler connects to the monitor socket of the running qemu.          *)
QmpHandshakeOk ==
    /\ qmpH = "init"
    /\ qemu = "running"
    /\ qmpH' = "ready"
    /\ UNCHANGED <<state, hub, client, sent, ctxVars, launcher, posted, qemu, timer>>

(* The connection or the handshake times out: ERROR_INIT_FAIL.            *)
QmpHandshakeFail ==
    /\ qmpH = "init"
    /\ qmpH' = "down"
    /\ hub' = Append(hub, Ev("initFail", NoDev))
    /\ UNCHANGED <<state, client, sent, ctxVars, launcher, posted, qemu, timer>>

(* qemu exits (guest power-off, crash); a connected handler forwards the   *)
(* SHUTDOWN event as EVENT_VM_EXIT.                                        *)
QemuExit ==
    /\ qemu = "running"
    /\ qemu' = "exited"
    /\ hub' = IF qmpH = "ready" THEN Append(hub, Ev("vmExit", NoDev)) ELSE hub
    /\ UNCHANGED <<state, client, sent, ctxVars, launcher, posted, qmpH, timer>>

(* The monitor socket reaches EOF: ERROR_INTERRUPTED, the handler exits.   *)
QmpEof ==
    /\ qmpH = "ready"
    /\ qemu = "exited"
    /\ qmpH' = "down"
    /\ hub' = Append(hub, Ev("interrupted", NoDev))
    /\ UNCHANGED <<state, client, sent, ctxVars, launcher, posted, qemu, timer>>

(* The timer armed by ctx.setTimeout(60) fires.                            *)
TimerFire ==
    /\ timer = "armed"
    /\ timer' = "fired"
    /\ hub' = Append(hub, Ev("timeout", NoDev))
    /\ UNCHANGED <<state, client, sent, ctxVars, launcher, posted, qemu, qmpH>>

-----------------------------------------------------------------------------
(* Device preparation (lazyPrepareDevice and lazyPrepareDeviceForListen).  *)

\* lazyAllocateNetworks: network i (in index order) gets nextPciAddr()
\* and LazyAddNic appends its command-line entry and its
\* NetDevInsertedEvent callback; NicEntries(k) are the first k of them.
NicEntries(k) == [i \in 1..k |-> [net |-> i - 1, pci |-> pciAddr + i - 1]]
NicCallbacks(k) == [i \in 1..k |-> InsertedEv([kind |-> "net", id |-> i - 1])]

\* lazyAddBlockDevices: the block devices are visited in map order; each
\* gets nextScsiId() and LazyAddDisk appends its image and callback.
BlkEntries(order) == [i \in 1..Len(order) |-> [blk |-> order[i], scsi |-> scsiId + i - 1]]
BlkCallbacks(order) == [i \in 1..Len(order) |-> InsertedEv([kind |-> "blk", id |-> order[i]])]

\* The loop takes the head event of the hub.
Take(type) ==
    /\ hub # << >>
    /\ Head(hub).type \in type
    /\ hub' = Tail(hub)

(* statePreparing, run-pod or listen-pod with mismatched container lists:  *)
(* the spec check of lazyPrepareDevice or lazyPrepareDeviceForListen       *)
(* reports a bad request; the VM becomes None.                             *)
PrepareMismatch ==
    /\ state = "Preparing"
    /\ Take({"runPodMismatch", "listenPodMismatch"})
    /\ client' = Append(client, "badRequest")
    /\ state' = "None"
    /\ UNCHANGED <<sent, ctxVars, procVars>>

(* Faulty variant: the allocation failure returns without reporting.      *)
PrepareNetFailSilent ==
    /\ state = "Preparing"
    /\ Take({"runPod", "listenPod"})
    /\ \E k \in 0..(NetCount - 1) :
          /\ pciAddr' = pciAddr + k + 1
          /\ interfaces' = interfaces \o NicEntries(k)
          /\ callbacks' = callbacks \o NicCallbacks(k)
    /\ state' = "None"
    /\ UNCHANGED <<client, sent, scsiId, images, mode, inserted, procVars>>

(* statePreparing, run-pod or listen-pod: allocateInterface fails for     *)
(* network k; the k NICs already recorded stay in qc,                      *)
(* reportVmFault answers the client and the VM becomes None.               *)
PrepareNetFail ==
    /\ state = "Preparing"
    /\ Take({"runPod", "listenPod"})
    /\ \E k \in 0..(NetCount - 1) :
          /\ pciAddr' = pciAddr + k + 1
          /\ interfaces' = interfaces \o NicEntries(k)
          /\ callbacks' = callbacks \o NicCallbacks(k)
    /\ client' = Append(client, "fault")
    /\ state' = "None"
    /\ UNCHANGED <<sent, scsiId, images, mode, inserted, procVars>>

\* Every network and block device recorded in the qemu context.
PrepareAll ==
    \E bOrd \in SetToSeqs(Blks) :
        /\ pciAddr' = pciAddr + NetCount
        /\ scsiId' = scsiId + Cardinality(Blks)
        /\ interfaces' = interfaces \o NicEntries(NetCount)
        /\ images' = images \o BlkEntries(bOrd)
        /\ callbacks' = callbacks \o NicCallbacks(NetCount) \o BlkCallbacks(bOrd)

(* statePreparing, run-pod: the devices are prepared, LazyLaunch starts    *)
(* launchQemu and qmpHandler, setTimeout(60) arms the timer, and the VM   *)
(* becomes Starting.                                                       *)
PrepareRunPod ==
    /\ state = "Preparing"
    /\ Take({"runPod"})
    /\ PrepareAll
    /\ mode' = "run"
    /\ launcher' = "spawned"
    /\ qmpH' = "init"
    /\ timer' = "armed"
    /\ state' = "Starting"
    /\ UNCHANGED <<client, sent, inserted, posted, qemu>>

(* statePreparing, listen-pod: the devices are prepared, Listen starts     *)
(* listenQemu and qmpHandler, and the VM becomes Running at once.          *)
PrepareListenPod ==
    /\ state = "Preparing"
    /\ Take({"listenPod"})
    /\ PrepareAll
    /\ mode' = "listen"
    /\ launcher' = "spawned"
    /\ qmpH' = "init"
    /\ state' = "Running"
    /\ UNCHANGED <<client, sent, inserted, posted, qemu, timer>>

(* statePreparing, shutdown or release: reportVmShutdown, Become(nil).     *)
PrepareShutdown ==
    /\ state = "Preparing"
    /\ Take({"shutdown"})
    /\ client' = Append(client, "shutdown")
    /\ state' = "None"
    /\ UNCHANGED <<sent, ctxVars, procVars>>

-----------------------------------------------------------------------------
(* stateStarting and stateRunning (spec 4.5).                              *)

(* Starting, a device-inserted event: record the device; once every        *)
(* device of the pod is recorded the VM becomes Running.                   *)
StartingInserted ==
    /\ state = "Starting"
    /\ Take({"inserted"})
    /\ inserted' = inserted \cup {Head(hub).dev}
    /\ state' = IF inserted' = Devs THEN "Running" ELSE "Starting"
    /\ UNCHANGED <<client, sent, pciAddr, scsiId, interfaces, images, callbacks, mode, procVars>>

(* Starting, a start failure, handshake failure or timeout, VM exit or     *)
(* lost monitor: report the fault and become None.                         *)
StartingAbort ==
    /\ state = "Starting"
    /\ Take({"startFail", "initFail", "timeout", "vmExit", "interrupted"})
    /\ client' = Append(client, "fault")
    /\ state' = "None"
    /\ UNCHANGED <<sent, ctxVars, procVars>>

(* Running, shutdown or release: orderly teardown, then None.             *)
RunningShutdown ==
    /\ state = "Running"
    /\ Take({"shutdown"})
    /\ state' = "None"
    /\ UNCHANGED <<client, sent, ctxVars, procVars>>

(* Any other event in Starting or Running is logged as unexpected.        *)
Unexpected ==
    \/ /\ state = "Starting"
       /\ Take({"shutdown"})
    \/ /\ state = "Running"
       /\ Take({"inserted", "startFail", "initFail", "timeout", "vmExit", "interrupted"})

-----------------------------------------------------------------------------

Init ==
    /\ state = "Init"
    /\ hub = << >>
    /\ client = << >>
    /\ sent = {}
    /\ pciAddr = 0
    /\ scsiId = 0
    /\ interfaces = << >>
    /\ images = << >>
    /\ callbacks = << >>
    /\ mode = "none"
    /\ inserted = {}
    /\ launcher = "none"
    /\ posted = 0
    /\ qemu = "none"
    /\ qmpH = "none"
    /\ timer = "off"

\* One step of the state-machine goroutine: one hub event, one handler.
Handle ==
    \/ PrepareMismatch \/ PrepareNetFail \/ PrepareRunPod
    \/ PrepareListenPod \/ PrepareShutdown
    \/ StartingInserted \/ StartingAbort \/ RunningShutdown
    \/ /\ Unexpected
       /\ UNCHANGED <<state, client, sent, ctxVars, procVars>>

Next ==
    \/ \E c \in ClientCmds : ClientSend(c)
    \/ LazyVmLoop \/ Handle
    \/ LaunchFail \/ LaunchExec \/ PostCallback
    \/ QmpHandshakeOk \/ QmpHandshakeFail \/ QemuExit \/ QmpEof
    \/ TimerFire

(* The state-machine, launcher and qmpHandler goroutines run whenever they *)
(* can, the handshake ends by success or timeout, a dead qemu's socket     *)
(* reaches EOF and an armed timer fires.  The daemon's commands and qemu's *)
(* exit need not happen.                                                   *)
Fairness ==
    /\ WF_vars(LazyVmLoop)
    /\ WF_vars(Handle)
    /\ WF_vars(LaunchFail \/ LaunchExec)
    /\ WF_vars(PostCallback)
    /\ WF_vars(QmpHandshakeOk \/ QmpHandshakeFail)
    /\ WF_vars(QmpEof)
    /\ WF_vars(TimerFire)

Spec == Init /\ [][Next]_vars /\ Fairness

-----------------------------------------------------------------------------
(* Properties.                                                             *)

TypeOK ==
    /\ state \in {"Init", "Preparing", "Starting", "Running", "None"}
    /\ hub \in Seq([type : ClientCmds \cup {"inserted", "startFail", "initFail",
                                            "vmExit", "interrupted", "timeout"},
                    dev : Devs \cup {NoDev}])
    /\ client \in Seq({"badRequest", "fault", "shutdown"})
    /\ sent \subseteq ClientCmds
    /\ pciAddr \in Nat /\ scsiId \in Nat
    /\ interfaces \in Seq([net : Nets, pci : Nat])
    /\ images \in Seq([blk : Blks, scsi : Nat])
    /\ callbacks \in Seq([type : {"inserted"}, dev : Devs])
    /\ mode \in {"none", "run", "listen"}
    /\ inserted \subseteq Devs
    /\ launcher \in {"none", "spawned", "posting", "done"}
    /\ posted \in 0..Len(callbacks)
    /\ qemu \in {"none", "running", "exited"}
    /\ qmpH \in {"none", "init", "ready", "down"}
    /\ timer \in {"off", "armed", "fired"}

(* A VM started by run-pod is Running only once qemu was really started   *)
(* and every network and block device of the pod reported inserted: the   *)
(* launcher posts the inserted callbacks only after ExecInDaemon succeeds. *)
RunningHasLaunchedDevices ==
    (state = "Running" /\ mode = "run") => (qemu # "none" /\ inserted = Devs)

\* The daemon's pod command c has been taken from the hub.
Consumed(c) == c \in sent /\ \A i \in DOMAIN hub : hub[i].type # c

\* The VM has been Running (listen-pod goes there at once, run-pod once
\* every device is recorded) or the client has been answered.
StartedOrAnswered == mode = "listen" \/ inserted = Devs \/ client # << >>

(* Every pod command the state machine takes is eventually answered: the  *)
(* VM reaches Running, or the client channel carries a bad-request, fault *)
(* or shutdown report -- whichever of the mismatch check, the network     *)
(* allocation, the launcher, the monitor handshake or the timer decides   *)
(* the start.                                                              *)
PodCmdAnswered ==
    \A c \in PodCmds : Consumed(c) ~> StartedOrAnswered

=============================================================================
