------------------------------ MODULE Migration ------------------------------
(***************************************************************************)
(* Pod migration between two daemons (hyper/daemon/migrate.go).            *)
(*                                                                         *)
(* The source daemon runs MigratePod: it dials ip:port three times         *)
(* (sendMata) to stream the pod id, the pod arguments and the container    *)
(* ids, checks that the pod has a VM, and calls the VM's MigratePod, which *)
(* sends QMP "migrate" to the same ip:port (QemuContext.Migrate).  The     *)
(* destination daemon runs ListenPod: it listens on ip:port, accepts three *)
(* connections (getMata reads each to EOF), rebuilds the pod, creates it   *)
(* and posts listen-pod to a fresh VM, whose loop starts qemu with         *)
(* "-incoming tcp:ip:port" (listenQemu); its own listener is closed only   *)
(* when ListenPod returns.                                                 *)
(*                                                                         *)
(* A connection is one step: sendMata writes its blob and closes, so the   *)
(* destination reads the whole blob.  Accepting is FIFO, as the kernel's   *)
(* accept queue is.  A blob is a model value; the QMP migration stream,    *)
(* when it reaches the daemon's listener, is the blob Stream.              *)
(***************************************************************************)
EXTENDS Naturals, Sequences, SequencesExt

Id == "id"
Args == "args"
Cids == "cids"
Stream == "stream"
Meta == << Id, Args, Cids >>      \* the blobs, in the order sendMata sends them

VARIABLES
    listenFirst,  \* the user started the source only once the destination listened
    spc,        \* MigratePod's position: "idle", "send", "check", "done"
    nsent,      \* sendMata calls made
    srcPod,     \* the pod is in the source's PodList
    srcVm,      \* pod.vm # nil at the source
    lsock,      \* the destination's metadata listener: "none", "open", "closed"
    backlog,    \* connections waiting in the listener's accept queue
    got,        \* the blobs ListenPod has read
    dpc,        \* ListenPod's position: "idle", "accept", "process", "close", "done", "crashed"
    dstPods,    \* pod ids in the destination's PodList
    vmCmd,      \* listen-pod was posted to the destination VM
    qemu        \* destination qemu: "none", "incoming", "exited", "running", "absent"

vars == << listenFirst, spc, nsent, srcPod, srcVm, lsock, backlog, got, dpc,
           dstPods, vmCmd, qemu >>
srcVars == << listenFirst, spc, nsent, srcPod, srcVm >>
dstVars == << listenFirst, dpc, got, dstPods, vmCmd >>

\* A connection to ip:port reaches the daemon's listener while it is open,
\* and is refused otherwise.
Connect(blob) ==
    IF lsock = "open"
    THEN backlog' = Append(backlog, blob)
    ELSE UNCHANGED backlog

-----------------------------------------------------------------------------
(* Source: CmdPodMigrate -> MigratePod (with the PodList lock held).       *)

\* Faulty variant: the vm == nil check made before the metadata is sent.
SrcStartCheckFirst ==
    /\ spc = "idle" /\ srcPod
    /\ (listenFirst => lsock # "none")
    /\ spc' = IF srcVm THEN "send" ELSE "done"
    /\ UNCHANGED << nsent, srcPod, srcVm, lsock, backlog >> /\ UNCHANGED dstVars /\ UNCHANGED qemu

\* PodList.Get finds the pod; GetPodByName and the container-id lookup
\* errors are only logged.
SrcStart ==
    /\ spc = "idle" /\ srcPod
    /\ (listenFirst => lsock # "none")
    /\ spc' = "send"
    /\ UNCHANGED << nsent, srcPod, srcVm, lsock, backlog >> /\ UNCHANGED dstVars /\ UNCHANGED qemu

\* sendMata: dial, write, close; the returned error is ignored.
SendMata ==
    /\ spc = "send"
    /\ Connect(Meta[nsent + 1])
    /\ nsent' = nsent + 1
    /\ spc' = IF nsent + 1 = Len(Meta) THEN "check" ELSE "send"
    /\ UNCHANGED << srcPod, srcVm, lsock >> /\ UNCHANGED dstVars /\ UNCHANGED qemu

\* pod.vm == nil: return E_VM_SHUTDOWN, keeping the pod.
SrcNoVm ==
    /\ spc = "check" /\ ~srcVm
    /\ spc' = "done"
    /\ UNCHANGED << nsent, srcPod, srcVm, lsock, backlog >> /\ UNCHANGED dstVars /\ UNCHANGED qemu

\* vm.MigratePod: QMP migrate to ip:port.  The stream lands in the
\* daemon's listener while it is open, in an incoming qemu otherwise, or is
\* refused.  QemuContext.Migrate returns nothing, so the response does not
\* say whether it worked; on a non-nil response the source deletes the
\* VM-by-pod record, the VM and the pod (DeleteVmByPod, RemoveVm, CleanPod).
SrcMigrate ==
    /\ spc = "check" /\ srcVm
    /\ Connect(Stream)
    /\ qemu' = IF lsock # "open" /\ qemu = "incoming" THEN "running" ELSE qemu
    /\ \E resp \in BOOLEAN : srcPod' = ~resp
    /\ spc' = "done"
    /\ UNCHANGED << nsent, srcVm, lsock >> /\ UNCHANGED dstVars

-----------------------------------------------------------------------------
(* Destination: CmdPodListen -> ListenPod -> Pod.Listen, and the VM loop.  *)

\* net.Listen on ip:port.
Bind ==
    /\ dpc = "idle"
    /\ lsock' = "open"
    /\ dpc' = "accept"
    /\ UNCHANGED << backlog, got, dstPods, vmCmd, qemu >> /\ UNCHANGED srcVars

\* Faulty variant: a fourth connection is read as metadata.
AcceptOffByOne ==
    /\ dpc = "accept"
    /\ backlog # << >>
    /\ got' = Append(got, Head(backlog))
    /\ backlog' = Tail(backlog)
    /\ dpc' = IF Len(got) = Len(Meta) THEN "process" ELSE "accept"
    /\ UNCHANGED << lsock, dstPods, vmCmd, qemu >> /\ UNCHANGED srcVars

\* listener.Accept then getMata, three times: each call blocks until a
\* connection is queued.
Accept ==
    /\ dpc = "accept"
    /\ backlog # << >>
    /\ got' = Append(got, Head(backlog))
    /\ backlog' = Tail(backlog)
    /\ dpc' = IF Len(got) + 1 = Len(Meta) THEN "process" ELSE "accept"
    /\ UNCHANGED << lsock, dstPods, vmCmd, qemu >> /\ UNCHANGED srcVars

\* The listener is closed: queued connections are reset.
CloseListener ==
    /\ lsock' = "closed"
    /\ backlog' = << >>

\* ProcessPodBytes of the second blob fails unless it is the pod arguments;
\* the error is only logged and spec.Containers[0] dereferences the nil
\* spec, so the daemon dies and its sockets close.
ProcessCrash ==
    /\ dpc = "process" /\ got[2] # Args
    /\ dpc' = "crashed"
    /\ CloseListener
    /\ UNCHANGED << got, dstPods, vmCmd, qemu >> /\ UNCHANGED srcVars

\* PodList.Get finds the pod id (read without the PodList lock): ListenPod
\* returns an error and the deferred Close runs.
ProcessExists ==
    /\ dpc = "process" /\ got[2] = Args
    /\ got[1] \in dstPods
    /\ dpc' = "done"
    /\ CloseListener
    /\ UNCHANGED << got, dstPods, vmCmd, qemu >> /\ UNCHANGED srcVars

\* The container is unknown and SendCmdRestore fails: ListenPod returns an
\* error and the deferred Close runs.
RestoreFail ==
    /\ dpc = "process" /\ got[2] = Args
    /\ got[1] \notin dstPods
    /\ dpc' = "done"
    /\ CloseListener
    /\ UNCHANGED << got, dstPods, vmCmd, qemu >> /\ UNCHANGED srcVars

\* Faulty variant: the pod is created whatever ProcessPodBytes returned.
ProcessCreateUnparsed ==
    /\ dpc = "process"
    /\ got[1] \notin dstPods
    /\ dstPods' = dstPods \cup {got[1]}
    /\ vmCmd' \in BOOLEAN
    /\ dpc' = "close"
    /\ UNCHANGED << lsock, backlog, got, qemu >> /\ UNCHANGED srcVars

\* GetPod creates and adds the pod; Pod.Listen gets a VM and posts
\* listen-pod to it (or fails before, leaving the pod added).
ProcessCreate ==
    /\ dpc = "process" /\ got[2] = Args
    /\ got[1] \notin dstPods
    /\ dstPods' = dstPods \cup {got[1]}
    /\ vmCmd' \in BOOLEAN
    /\ dpc' = "close"
    /\ UNCHANGED << lsock, backlog, got, qemu >> /\ UNCHANGED srcVars

\* UpdateVmData and UpdateVmByPod, then ListenPod returns and the
\* deferred listener.Close runs.
ListenReturn ==
    /\ dpc = "close"
    /\ dpc' = "done"
    /\ CloseListener
    /\ UNCHANGED << got, dstPods, vmCmd, qemu >> /\ UNCHANGED srcVars

\* The VM loop handles listen-pod (statePreparing): the device
\* preparation fails, or listenQemu starts qemu with -incoming on ip:port,
\* which exits at once when the daemon's listener still holds the port.
VmListen ==
    /\ vmCmd /\ qemu = "none"
    /\ \/ qemu' = "absent"
       \/ qemu' = IF lsock = "open" THEN "exited" ELSE "incoming"
    /\ UNCHANGED << lsock, backlog >> /\ UNCHANGED dstVars /\ UNCHANGED srcVars

-----------------------------------------------------------------------------
Init ==
    /\ listenFirst \in BOOLEAN
    /\ spc = "idle" /\ nsent = 0 /\ srcPod = TRUE /\ srcVm \in BOOLEAN
    /\ lsock = "none" /\ backlog = << >>
    /\ got = << >> /\ dpc = "idle" /\ dstPods \in {{}, {Id}}
    /\ vmCmd = FALSE /\ qemu = "none"

Source == SrcStart \/ SendMata \/ SrcNoVm \/ SrcMigrate
Destination == Bind \/ Accept \/ ProcessCrash \/ ProcessExists \/ RestoreFail
               \/ ProcessCreate \/ ListenReturn

Next == Source \/ Destination \/ VmListen

\* Each daemon command runs in its own goroutine and the VM loop runs
\* whenever an event is queued.
Spec == Init /\ [][Next]_vars /\ WF_vars(Source) /\ WF_vars(Destination)
        /\ WF_vars(VmListen)

-----------------------------------------------------------------------------
(* Properties.                                                             *)

TypeOK ==
    /\ listenFirst \in BOOLEAN
    /\ spc \in {"idle", "send", "check", "done"} /\ nsent \in 0..Len(Meta)
    /\ srcPod \in BOOLEAN /\ srcVm \in BOOLEAN
    /\ lsock \in {"none", "open", "closed"}
    /\ backlog \in Seq({Id, Args, Cids, Stream})
    /\ got \in Seq({Id, Args, Cids, Stream}) /\ Len(got) <= Len(Meta)
    /\ dpc \in {"idle", "accept", "process", "close", "done", "crashed"}
    /\ dstPods \subseteq {Id, Args, Cids, Stream} /\ vmCmd \in BOOLEAN
    /\ qemu \in {"none", "incoming", "exited", "running", "absent"}

(* ListenPod reads the pod id, the arguments and the container ids, in     *)
(* that order, from the three connections MigratePod's sendMata calls      *)
(* make (spec: "sent/received strictly in that order").                    *)
MetadataIntact ==
    Len(got) = Len(Meta) => got = Meta

(* When the destination listens first, its ListenPod returns: every accept *)
(* it blocks on is eventually served, whatever the source then finds out   *)
(* about its VM.                                                           *)
DstListenReturns ==
    listenFirst => <>(dpc \in {"done", "crashed"})

(* Whatever connections were refused, the destination's PodList holds no *)
(* pod but the migrated one: ListenPod never creates a pod from shifted    *)
(* metadata (a pod id that is not the pod id, arguments that are not the   *)
(* arguments).                                                             *)
OnlyMigratedPodCreated ==
    dstPods \subseteq {Id}

(* Used as intended (destination first), the source deletes a pod with a  *)
(* VM only when the VM arrived in the destination's incoming qemu.         *)
PodNotLost ==
    listenFirst => (srcVm /\ ~srcPod => qemu = "running")

=============================================================================
