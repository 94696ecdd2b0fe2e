---------------------------- MODULE DaemonStore -----------------------------
(***************************************************************************)
(* The hyper daemon's pod and VM records (hyper/daemon/daemon.go, vm.go)   *)
(* and the handlers in the tree that write them: ListenPod and Pod.Listen  *)
(* (the destination of a migration), the source's DeleteVmByPod after a    *)
(* migration, and Restore at start-up.                                     *)
(*                                                                         *)
(* The database (leveldb) keeps "pod-<id>" (the pod's arguments),          *)
(* "vm-<pod>" (the pod's VM id) and "vmdata-<vm>" (the VM's persisted      *)
(* record); every Get, Put and Delete is atomic and may fail.  PodList and *)
(* VmList are in memory and lost when the daemon crashes; at the next      *)
(* start Restore rebuilds PodList from the pod keys before the API is      *)
(* served.  Handlers run as goroutines, one step per database call, so a   *)
(* crash can fall between any two calls and two handlers interleave.       *)
(*                                                                         *)
(* Data is abstracted to what the code tells apart: a pod's arguments are  *)
(* not modelled (CreatePod, which parses them, is not in the tree and may  *)
(* fail), and a VM record is absent or the empty slice Pod.Listen writes.  *)
(* The pod-container-<id> key is written with its error ignored and read   *)
(* by no handler modelled here, so it is left out.                         *)
(***************************************************************************)
EXTENDS Naturals, FiniteSets

CONSTANTS
    Pods,           \* pod ids
    Vms,            \* VM ids NewVm can draw
    Callers,        \* API goroutines
    Restorer,       \* the start-up goroutine running Restore
    NoPod, NoVm,
    MaxCrashes      \* bound on daemon crashes

Procs == Callers \cup {Restorer}

VARIABLES
    \* the database
    podKey,     \* podKey[p]: pod-<p> exists
    vmKey,      \* vmKey[p]: the VM id in vm-<p>, or NoVm
    vmData,     \* vmData[v]: "none" or "empty" (vmdata-<v>)
    \* the daemon's memory
    podList,    \* the ids in PodList
    podVm,      \* podVm[p]: the id of p.vm, or NoVm
    vmList,     \* the ids in VmList
    h,          \* h[c]: the handler c runs: [op, p, pc, v]
    rpc,        \* Restore: "start", "scan", "create", "wait", "assoc", "done"
    pending,    \* Restore's podList: the pod keys it deleted, to recreate
    \* history
    crashes,
    usedVms,    \* VM ids NewVm has drawn (ids are random and not reused)
    acked       \* pods whose ListenPod returned success

vars == << podKey, vmKey, vmData, podList, podVm, vmList, h, rpc, pending,
           crashes, usedVms, acked >>

dbVars == << podKey, vmKey, vmData >>

Idle == [op |-> "idle", p |-> NoPod, pc |-> "none", v |-> NoVm]

\* Handler c moves to step pc.
Goto(c, pc) == h' = [h EXCEPT ![c].pc = pc]
\* Handler c returns.
Return(c) == h' = [h EXCEPT ![c] = Idle]

At(c, pc) == h[c].pc = pc

\* The steps a handler can be at: AddPod's calls, Pod.Listen's,
\* DeleteVmByPod's, CmdVmCreate's and Restore's association.
Steps == {"none", "wget", "wdel", "wput", "ctr", "rb", "vm", "prep", "dput",
          "kdel", "kput", "xget", "xdel", "xdata", "cwait", "assoc"}

-----------------------------------------------------------------------------
(* AddPod (called by GetPod): WritePodToDB, PodList.Put,                   *)
(* WritePodAndContainers; on an error after the first, the deferred        *)
(* functions run last-in first-out: RemovePod, then DeletePodFromDB.       *)

\* A handler that ends AddPod: the caller goes on (ok) or returns; in
\* Restore a failed CreatePod continues with the next pod.
AddPodDone(c, ok) ==
    IF h[c].op = "listen"
    THEN /\ IF ok THEN Goto(c, "vm") ELSE Return(c)
         /\ UNCHANGED rpc
    ELSE /\ IF ok THEN Goto(c, "assoc") ELSE Return(c)
         /\ rpc' = IF ok THEN "assoc" ELSE "create"

\* WritePodToDB: db.Get; an existing key is deleted before the Put.
WriteGet(c) ==
    /\ At(c, "wget")
    /\ Goto(c, IF podKey[h[c].p] THEN "wdel" ELSE "wput")
    /\ UNCHANGED << dbVars, podList, podVm, vmList, rpc, pending, crashes, usedVms, acked >>

WriteDel(c) ==
    /\ At(c, "wdel")
    /\ \/ /\ podKey' = [podKey EXCEPT ![h[c].p] = FALSE]
          /\ Goto(c, "wput")
          /\ UNCHANGED rpc
       \/ /\ AddPodDone(c, FALSE) /\ UNCHANGED podKey
    /\ UNCHANGED << vmKey, vmData, podList, podVm, vmList, pending, crashes, usedVms, acked >>

\* The Put, then PodList.Put.
WritePut(c) ==
    /\ At(c, "wput")
    /\ \/ /\ podKey' = [podKey EXCEPT ![h[c].p] = TRUE]
          /\ podList' = podList \cup {h[c].p}
          /\ Goto(c, "ctr")
          /\ UNCHANGED rpc
       \/ /\ AddPodDone(c, FALSE) /\ UNCHANGED << podKey, podList >>
    /\ UNCHANGED << vmKey, vmData, podVm, vmList, pending, crashes, usedVms, acked >>

\* WritePodAndContainers: the pod must be in PodList; the Put may fail.
WriteContainers(c) ==
    /\ At(c, "ctr")
    /\ \/ /\ h[c].p \in podList
          /\ AddPodDone(c, TRUE)
       \/ /\ Goto(c, "rb")
          /\ UNCHANGED rpc
    /\ UNCHANGED << dbVars, podList, podVm, vmList, pending, crashes, usedVms, acked >>

\* The deferred RemovePod, then DeletePodFromDB (whose error is ignored).
Rollback(c) ==
    /\ At(c, "rb")
    /\ podList' = podList \ {h[c].p}
    /\ \E deleted \in BOOLEAN :
          podKey' = [podKey EXCEPT ![h[c].p] = ~deleted /\ @]
    /\ AddPodDone(c, FALSE)
    /\ UNCHANGED << vmKey, vmData, podVm, vmList, pending, crashes, usedVms, acked >>

-----------------------------------------------------------------------------
(* ListenPod, after the three metadata blobs (modelled in Migration), and  *)
(* Pod.Listen.                                                             *)

\* The API is served once Restore has returned.
Serving == rpc = "done"

\* ListenPod: PodList.Get without the PodList lock; an existing pod is
\* refused.  The container is restored, pod-container-<id> written, and
\* GetPod calls CreatePod, which may fail, then AddPod.
ListenPod(c, p) ==
    /\ Serving /\ h[c] = Idle
    /\ p \notin podList
    /\ \E created \in BOOLEAN :
          h' = [h EXCEPT ![c] = IF created
                                THEN [op |-> "listen", p |-> p, pc |-> "wget", v |-> NoVm]
                                ELSE Idle]
    /\ UNCHANGED << dbVars, podList, podVm, vmList, rpc, pending, crashes, usedVms, acked >>

\* Pod.Listen: GetVM("") starts a VM with a fresh id (StartVm: NewVm,
\* Launch, AddVm); a failed Launch returns the error.
ListenVm(c) ==
    /\ At(c, "vm")
    /\ \/ Return(c) /\ UNCHANGED << podVm, vmList, usedVms >>
       \/ \E v \in Vms \ usedVms :
             /\ h' = [h EXCEPT ![c].pc = "prep", ![c].v = v]
             /\ vmList' = vmList \cup {v}
             /\ podVm' = [podVm EXCEPT ![h[c].p] = v]
             /\ usedVms' = usedVms \cup {v}
    /\ UNCHANGED << dbVars, podList, rpc, pending, crashes, acked >>

\* Pod.Listen's error return after GetVM: the deferred KillVM (vmId is
\* "") kills the VM; KillVm drops it from VmList when vm.Kill succeeds.
ListenFail(c) ==
    /\ \/ /\ At(c, "prep") /\ UNCHANGED vmData
       \/ /\ At(c, "dput") /\ UNCHANGED vmData
       \/ /\ At(c, "kdel") /\ UNCHANGED vmData
       \/ /\ At(c, "kput") /\ UNCHANGED vmData
    /\ \E killed \in BOOLEAN :
          vmList' = IF killed THEN vmList \ {h[c].v} ELSE vmList
    /\ podVm' = [podVm EXCEPT ![h[c].p] = NoVm]
    /\ Return(c)
    /\ UNCHANGED << podKey, vmKey, podList, rpc, pending, crashes, usedVms, acked >>

\* Prepare, startLogging and AttachTtys succeed and vm.ListenPod is sent;
\* UpdateVmData(vm, []byte{}) starts with db.Get, which finds no record
\* for the fresh id, so its delete-then-put branch is not taken.
ListenPrepared(c) ==
    /\ At(c, "prep")
    /\ Goto(c, "dput")
    /\ UNCHANGED << dbVars, podList, podVm, vmList, rpc, pending, crashes, usedVms, acked >>

\* UpdateVmData's Put of the empty record, then UpdateVmByPod's db.Get.
VmDataPut(c) ==
    /\ At(c, "dput")
    /\ vmData' = [vmData EXCEPT ![h[c].v] = "empty"]
    /\ Goto(c, IF vmKey[h[c].p] # NoVm THEN "kdel" ELSE "kput")
    /\ UNCHANGED << podKey, vmKey, podList, podVm, vmList, rpc, pending, crashes, usedVms, acked >>

\* UpdateVmByPod: an existing vm-<pod> is deleted before the Put.
VmKeyDel(c) ==
    /\ At(c, "kdel")
    /\ vmKey' = [vmKey EXCEPT ![h[c].p] = NoVm]
    /\ Goto(c, "kput")
    /\ UNCHANGED << podKey, vmData, podList, podVm, vmList, rpc, pending, crashes, usedVms, acked >>

\* The Put; ListenPod returns success.
VmKeyPut(c) ==
    /\ At(c, "kput")
    /\ vmKey' = [vmKey EXCEPT ![h[c].p] = h[c].v]
    /\ acked' = acked \cup {h[c].p}
    /\ Return(c)
    /\ UNCHANGED << podKey, vmData, podList, podVm, vmList, rpc, pending, crashes, usedVms >>

-----------------------------------------------------------------------------
(* MigratePod on the source, after the VM answered the migration:          *)
(* DeleteVmByPod (its error ignored), RemoveVm, then CleanPod, which is    *)
(* not in the tree and is not modelled.                                    *)

\* A pod with a VM (MigratePod returns early when pod.vm is nil).
MigrateAway(c, p) ==
    /\ Serving /\ h[c] = Idle
    /\ p \in podList /\ podVm[p] # NoVm
    /\ h' = [h EXCEPT ![c] = [op |-> "migrate", p |-> p, pc |-> "xget", v |-> podVm[p]]]
    /\ UNCHANGED << dbVars, podList, podVm, vmList, rpc, pending, crashes, usedVms, acked >>

\* The end of MigratePod: RemoveVm(vmId), the id of pod.vm.
MigrateDone(c) ==
    /\ vmList' = vmList \ {podVm[h[c].p]}
    /\ Return(c)

\* DeleteVmByPod: db.Get of vm-<pod> (an error when absent), then the
\* key is deleted, then vmdata-<vm> of the id it held.
DeleteVmGet(c) ==
    /\ At(c, "xget")
    /\ \/ /\ vmKey[h[c].p] = NoVm
          /\ MigrateDone(c)
       \/ /\ vmKey[h[c].p] # NoVm
          /\ h' = [h EXCEPT ![c].pc = "xdel", ![c].v = vmKey[h[c].p]]
          /\ UNCHANGED vmList
    /\ UNCHANGED << dbVars, podList, podVm, rpc, pending, crashes, usedVms, acked >>

\* Faulty variant: the VM record is deleted before the key.
DeleteVmKeyDataFirst(c) ==
    /\ At(c, "xdel")
    /\ \/ /\ vmData' = [vmData EXCEPT ![h[c].v] = "none"]
          /\ Goto(c, "xdata")
          /\ UNCHANGED << vmKey, vmList >>
       \/ MigrateDone(c) /\ UNCHANGED << vmKey, vmData >>
    /\ UNCHANGED << podKey, podList, podVm, rpc, pending, crashes, usedVms, acked >>

DeleteVmKey(c) ==
    /\ At(c, "xdel")
    /\ \/ /\ vmKey' = [vmKey EXCEPT ![h[c].p] = NoVm]
          /\ Goto(c, "xdata")
          /\ UNCHANGED << vmData, vmList >>
       \/ MigrateDone(c) /\ UNCHANGED << vmKey, vmData >>
    /\ UNCHANGED << podKey, podList, podVm, rpc, pending, crashes, usedVms, acked >>

\* DeleteVmData, which may fail; RemoveVm either way.
DeleteVmData(c) ==
    /\ At(c, "xdata")
    /\ \E deleted \in BOOLEAN :
          vmData' = [vmData EXCEPT ![h[c].v] = IF deleted THEN "none" ELSE @]
    /\ MigrateDone(c)
    /\ UNCHANGED << podKey, vmKey, podList, podVm, rpc, pending, crashes, usedVms, acked >>

-----------------------------------------------------------------------------
(* The vmCreate and vmKill commands: a VM of no pod.                       *)

\* CmdVmCreate: StartVm("") draws a fresh id; a failed Launch returns
\* the error before AddVm.
VmCreate(c) ==
    /\ Serving /\ h[c] = Idle
    /\ \E v \in Vms \ usedVms :
          /\ usedVms' = usedVms \cup {v}
          /\ \/ Return(c) /\ UNCHANGED vmList
             \/ /\ h' = [h EXCEPT ![c] = [op |-> "vmcreate", p |-> NoPod, pc |-> "cwait", v |-> v]]
                /\ vmList' = vmList \cup {v}
    /\ UNCHANGED << dbVars, podList, podVm, rpc, pending, crashes, acked >>

\* Unless async, WaitVmStart; its error makes the deferred cleanup call
\* KillVm, which drops the VM from VmList when vm.Kill succeeds.  An error
\* writing the reply is assigned to a shadowing err and kills nothing.
VmCreateWait(c) ==
    /\ At(c, "cwait")
    /\ \E killed \in BOOLEAN :
          vmList' = IF killed THEN vmList \ {h[c].v} ELSE vmList
    /\ Return(c)
    /\ UNCHANGED << dbVars, podList, podVm, rpc, pending, crashes, usedVms, acked >>

\* CmdVmKill: a VM missing from VmList is refused; KillVm removes the VM
\* when vm.Kill succeeds, whether or not a pod runs on it.
VmKill(v) ==
    /\ Serving /\ v \in vmList
    /\ \E killed \in BOOLEAN :
          vmList' = IF killed THEN vmList \ {v} ELSE vmList
    /\ UNCHANGED << dbVars, podList, podVm, h, rpc, pending, crashes, usedVms, acked >>

-----------------------------------------------------------------------------
(* Restore, run at start-up before the API is served.  daemon.CreatePod    *)
(* is not in the tree: it is modelled as failing, or as AddPod, the one    *)
(* in-tree function that writes pod-<id> and PodList.                       *)

RestoreVars == << podList, podVm, vmList, crashes, usedVms, acked >>

\* GetPodNum() == 0: Restore returns at once.
RestoreStart ==
    /\ rpc = "start"
    /\ rpc' = IF \E p \in Pods : podKey[p] THEN "scan" ELSE "done"
    /\ UNCHANGED << dbVars, h, pending, RestoreVars >>

\* The iterator over "pod-": each key is deleted and remembered; a failed
\* Delete returns the error and the pods not yet recreated stay lost.
RestoreScan(p) ==
    /\ rpc = "scan" /\ podKey[p]
    /\ \/ /\ podKey' = [podKey EXCEPT ![p] = FALSE]
          /\ pending' = pending \cup {p}
          /\ UNCHANGED rpc
       \/ /\ rpc' = "done"
          /\ UNCHANGED << podKey, pending >>
    /\ UNCHANGED << vmKey, vmData, h, RestoreVars >>

RestoreScanDone ==
    /\ rpc = "scan" /\ \A p \in Pods : ~podKey[p]
    /\ rpc' = "create"
    /\ UNCHANGED << dbVars, h, pending, RestoreVars >>

\* One entry of podList: CreatePod fails (continue) or runs AddPod.
RestoreCreate(p) ==
    /\ rpc = "create" /\ p \in pending
    /\ pending' = pending \ {p}
    /\ \/ UNCHANGED << h, rpc >>
       \/ /\ h' = [h EXCEPT ![Restorer] = [op |-> "restore", p |-> p, pc |-> "wget", v |-> NoVm]]
          /\ rpc' = "wait"
    /\ UNCHANGED << dbVars, RestoreVars >>

\* DbGetVmByPod: the id in vm-<pod>, NoVm when the Get fails.
DbGetVmByPod(k) == vmKey[k]

\* GetVmData: the record vmdata-<vm>, "none" when the Get fails.
GetVmData(v) == IF v = NoVm THEN "none" ELSE vmData[v]

\* After a created pod: DbGetVmByPod, then AssociateVm: GetVmData, NewVm
\* and vm.AssociateVm, whose vmDeserialize cannot parse the empty slice
\* Pod.Listen writes.  Every path fails, sets pod.vm back to nil, adds
\* nothing to VmList and continues the loop.  The guard names the two
\* records the lookup can find (no vmdata-<vm>, or Pod.Listen's empty one);
\* a parseable record would leave this step disabled.
RestoreAssociate ==
    /\ rpc = "assoc"
    /\ GetVmData(DbGetVmByPod(h[Restorer].p)) \in {"none", "empty"}
    /\ rpc' = "create"
    /\ Return(Restorer)
    /\ UNCHANGED << dbVars, pending, RestoreVars >>

RestoreDone ==
    /\ rpc = "create" /\ pending = {}
    /\ rpc' = "done"
    /\ UNCHANGED << dbVars, h, pending, RestoreVars >>

-----------------------------------------------------------------------------
(* The daemon process dies between two database calls, or shuts down      *)
(* (shutdown kills every VM in VmList and closes the database under the    *)
(* calls in progress), and is started again: the database survives,       *)
(* everything in memory is lost.                                           *)

Crash ==
    /\ crashes < MaxCrashes
    /\ crashes' = crashes + 1
    /\ podList' = {}
    /\ podVm' = [p \in Pods |-> NoVm]
    /\ vmList' = {}
    /\ h' = [c \in Procs |-> Idle]
    /\ rpc' = "start"
    /\ pending' = {}
    /\ UNCHANGED << dbVars, usedVms, acked >>

-----------------------------------------------------------------------------

Init ==
    /\ podKey = [p \in Pods |-> FALSE]
    /\ vmKey = [p \in Pods |-> NoVm]
    /\ vmData = [v \in Vms |-> "none"]
    /\ podList = {}
    /\ podVm = [p \in Pods |-> NoVm]
    /\ vmList = {}
    /\ h = [c \in Procs |-> Idle]
    /\ rpc = "start"
    /\ pending = {}
    /\ crashes = 0
    /\ usedVms = {}
    /\ acked = {}

\* The AddPod steps, run by an API goroutine or by Restore.
AddPodStep(c) ==
    WriteGet(c) \/ WriteDel(c) \/ WritePut(c) \/ WriteContainers(c) \/ Rollback(c)

\* Restore and the AddPod it runs.
RestoreStep ==
    \/ RestoreStart \/ RestoreScanDone \/ RestoreAssociate \/ RestoreDone
    \/ \E p \in Pods : RestoreScan(p) \/ RestoreCreate(p)
    \/ AddPodStep(Restorer)

\* The steps of an API call in progress.
CallerStep(c) ==
    \/ AddPodStep(c)
    \/ ListenVm(c) \/ ListenFail(c) \/ ListenPrepared(c)
    \/ VmDataPut(c) \/ VmKeyDel(c) \/ VmKeyPut(c)
    \/ DeleteVmGet(c) \/ DeleteVmKey(c) \/ DeleteVmData(c)
    \/ VmCreateWait(c)

Next ==
    \/ RestoreStep
    \/ \E c \in Callers : \E p \in Pods : ListenPod(c, p) \/ MigrateAway(c, p)
    \/ \E c \in Callers : VmCreate(c)
    \/ \E v \in Vms : VmKill(v)
    \/ \E c \in Callers : CallerStep(c)
    \/ Crash

\* Only safety is checked: no fairness is assumed of Restore, the API
\* callers or crashes.
Spec == Init /\ [][Next]_vars

-----------------------------------------------------------------------------

TypeOK ==
    /\ podKey \in [Pods -> BOOLEAN]
    /\ vmKey \in [Pods -> Vms \cup {NoVm}]
    /\ vmData \in [Vms -> {"none", "empty"}]
    /\ podList \subseteq Pods
    /\ podVm \in [Pods -> Vms \cup {NoVm}]
    /\ vmList \subseteq usedVms
    /\ h \in [Procs -> [op : {"idle", "listen", "migrate", "restore", "vmcreate"},
                         p : Pods \cup {NoPod}, pc : Steps, v : Vms \cup {NoVm}]]
    /\ rpc \in {"start", "scan", "create", "wait", "assoc", "done"}
    /\ pending \subseteq Pods
    /\ crashes \in 0..MaxCrashes
    /\ usedVms \subseteq Vms /\ acked \subseteq Pods

\* Every vm-<pod> key names a VM whose vmdata record exists, after any
\* crash: Pod.Listen writes vmdata-<vm> before vm-<pod>, and DeleteVmByPod
\* deletes vm-<pod> before vmdata-<vm>, so Restore's DbGetVmByPod never
\* finds an id whose GetVmData fails.
VmKeyHasData ==
    \A p \in Pods : vmKey[p] # NoVm => vmData[vmKey[p]] # "none"

\* A pod whose ListenPod returned success keeps its pod-<id> record while
\* the daemon serves and no call on it is in progress, so that the next
\* Restore recreates it.
PodDurable ==
    Serving =>
        \A p \in acked : (\A c \in Callers : h[c].p # p) => podKey[p]

=============================================================================
