----------------------------- MODULE QmpSession -----------------------------
(***************************************************************************)
(* The QMP command session queue of one VM and the qemu monitor it drives. *)
(*                                                                         *)
(* Callers (the VM state machine) build sessions with the builders of      *)
(* runv-lazy/hypervisor/qemu/qmp_wrapper.go and send them into the         *)
(* buffered channel qc.qmp.  One qmpHandler goroutine first completes the  *)
(* QMP handshake, then takes one session at a time, writes its commands in *)
(* order, waits for each response, retries an erroring step in place and  *)
(* after QmpRetry consecutive errors gives up; it then calls the session's *)
(* respond callback (defaultRespond), which posts the success event or a   *)
(* DeviceFailed event into the VM hub.  Asynchronous qemu events are       *)
(* forwarded to the hub while a session is in flight.                      *)
(*                                                                         *)
(* qmpHandler itself is not in the source tree: its actions are written    *)
(* from the spec (section 4.2) and the behaviour pinned down by            *)
(* qmp_test.go.  The session builders and defaultRespond are written from  *)
(* qmp_wrapper.go, the command effects from qemu's monitor semantics.      *)
(***************************************************************************)
EXTENDS Naturals, Sequences, FiniteSets

CONSTANTS
    DiskIds,    \* SCSI ids handed to AddDisk (ctx.nextScsiId never reuses one)
    NicIds,     \* guest NIC indexes handed to AddNic
    QmpRetry    \* consecutive errors of one step before the session fails

ASSUME QmpRetry \in Nat \ {0}

VARIABLES
    subs,       \* every session ever sent into qc.qmp, in send order
    qmp,        \* the qc.qmp channel: indexes into subs not yet taken
    conn,       \* qmpHandler: "init" (handshake), "ready", "failed", "closed"
    cur,        \* index of the session in flight, 0 if none
    step,       \* index of the command of cur written to the monitor
    tries,      \* consecutive errors of that command
    resp,       \* the monitor's answer to it: "none", "ok" or "err"
    finished,   \* sessions whose respond callback has run
    hub,        \* events posted into ctx.Hub, in order
    alive,      \* the qemu process is running
    drives,     \* qemu block backends   (drive_add / drive_del)
    scsi,       \* qemu scsi-hd devices  (device_add / device_del)
    fds,        \* fds received by getfd and not yet consumed
    netdevs,    \* qemu tap backends     (netdev_add / netdev_del)
    nics        \* qemu virtio-net-pci devices

qemu == <<alive, drives, scsi, fds, netdevs, nics>>
handler == <<conn, cur, step, tries, resp, finished>>
vars == <<subs, qmp, hub, handler, qemu>>

-----------------------------------------------------------------------------
(* Sessions, as built by qmp_wrapper.go.                                   *)

Ops == [kind : {"diskAdd", "diskDel"}, id : DiskIds]
       \cup [kind : {"netAdd", "netDel"}, id : NicIds]
       \cup {[kind |-> "quit", id |-> 0]}

Cmd(exec, id) == [exec |-> exec, id |-> id]

\* Faulty variant: the session adds the drive but not the scsi-hd device.
DiskAddCmdsNoDevice(id) == << Cmd("drive_add", id) >>

\* newDiskAddSession: drive_add of the backing file, then scsi-hd device_add.
DiskAddCmds(id) == << Cmd("drive_add", id), Cmd("scsi_add", id) >>

\* newDiskDelSession: commands[0] is drive_del, commands[1] is device_del.
DiskDelCmds(id) == << Cmd("drive_del", id), Cmd("scsi_del", id) >>

\* newNetworkAddSession: getfd (with SCM rights), netdev_add, device_add.
NetAddCmds(id) == << Cmd("getfd", id), Cmd("netdev_add", id), Cmd("nic_add", id) >>

\* newNetworkDelSession: device_del, then netdev_del.
NetDelCmds(id) == << Cmd("nic_del", id), Cmd("netdev_del", id) >>

\* qmpQemuQuit: a single quit command.
QuitCmds == << Cmd("quit", 0) >>

Commands(op) ==
    CASE op.kind = "diskAdd" -> DiskAddCmds(op.id)
      [] op.kind = "diskDel" -> DiskDelCmds(op.id)
      [] op.kind = "netAdd"  -> NetAddCmds(op.id)
      [] op.kind = "netDel"  -> NetDelCmds(op.id)
      [] op.kind = "quit"    -> QuitCmds

\* The callback event each builder hands to defaultRespond; "none" is the
\* nil callback of qmpQemuQuit.  RemoveDisk and RemoveNic pass the
\* caller's callback through; it is named after the operation here.
Callback(op) ==
    CASE op.kind = "diskAdd" -> "blockInserted"
      [] op.kind = "diskDel" -> "blockRemoved"
      [] op.kind = "netAdd"  -> "netInserted"
      [] op.kind = "netDel"  -> "netRemoved"
      [] op.kind = "quit"    -> "none"

Ev(type, s) == [type |-> type, sess |-> s]

DefaultRespond(s, ok) ==
    LET cb == Callback(subs[s]) IN
    IF ok THEN IF cb = "none" THEN hub ELSE Append(hub, Ev(cb, s))
          ELSE Append(hub, Ev("deviceFailed", s))

-----------------------------------------------------------------------------
(* The qemu monitor: whether a command can succeed and what it changes.    *)

Applicable(c) ==
    CASE c.exec = "drive_add"  -> c.id \notin drives
      [] c.exec = "scsi_add"   -> c.id \in drives /\ c.id \notin scsi
      [] c.exec = "drive_del"  -> c.id \in drives
      [] c.exec = "scsi_del"   -> c.id \in scsi
      [] c.exec = "getfd"      -> TRUE
      [] c.exec = "netdev_add" -> c.id \in fds /\ c.id \notin netdevs
      [] c.exec = "nic_add"    -> c.id \in netdevs /\ c.id \notin nics
      [] c.exec = "nic_del"    -> c.id \in nics
      [] c.exec = "netdev_del" -> c.id \in netdevs
      [] c.exec = "quit"       -> TRUE

Apply(c) ==
    /\ drives'  = CASE c.exec = "drive_add" -> drives \cup {c.id}
                    [] c.exec = "drive_del" -> drives \ {c.id}
                    [] OTHER -> drives
    /\ scsi'    = CASE c.exec = "scsi_add" -> scsi \cup {c.id}
                    [] c.exec = "scsi_del" -> scsi \ {c.id}
                    [] OTHER -> scsi
    /\ fds'     = CASE c.exec = "getfd"      -> fds \cup {c.id}
                    [] c.exec = "netdev_add" -> fds \ {c.id}
                    [] OTHER -> fds
    /\ netdevs' = CASE c.exec = "netdev_add" -> netdevs \cup {c.id}
                    [] c.exec = "netdev_del" -> netdevs \ {c.id}
                    [] OTHER -> netdevs
    /\ nics'    = CASE c.exec = "nic_add" -> nics \cup {c.id}
                    [] c.exec = "nic_del" -> nics \ {c.id}
                    [] OTHER -> nics
    /\ alive'   = (c.exec # "quit")

CurCmd == Commands(subs[cur])[step]

Submitted(op) == \E i \in DOMAIN subs : subs[i] = op

\* The hub carries the event `type` for a session about device `id`.
Reported(type, id) ==
    \E k \in DOMAIN hub : /\ hub[k].sess # 0
                          /\ hub[k].type = type
                          /\ subs[hub[k].sess].id = id

-----------------------------------------------------------------------------
(* The caller: QemuContext.AddDisk / RemoveDisk / AddNic / RemoveNic /     *)
(* Shutdown, issued from the VM state machine.  Each operation is issued   *)
(* at most once (SCSI ids and NIC indexes are never reused) and a device   *)
(* is removed only after its inserted event reached the hub.               *)
Submit(op) ==
    /\ ~Submitted(op)
    /\ op.kind = "diskDel" => Reported("blockInserted", op.id)
    /\ op.kind = "netDel"  => Reported("netInserted", op.id)
    /\ subs' = Append(subs, op)
    /\ qmp'  = Append(qmp, Len(subs) + 1)
    /\ UNCHANGED <<hub, handler, qemu>>

(* qmpHandler: the handshake (connect, banner, qmp_capabilities) succeeds. *)
HandshakeOk ==
    /\ conn = "init"
    /\ alive
    /\ conn' = "ready"
    /\ UNCHANGED <<subs, qmp, hub, cur, step, tries, resp, finished, qemu>>

(* qmpHandler: connecting, the banner or the capabilities reply times out  *)
(* or answers an error: ERROR_INIT_FAIL is posted and the handler exits.   *)
HandshakeFail ==
    /\ conn = "init"
    /\ conn' = "failed"
    /\ hub' = Append(hub, Ev("initFail", 0))
    /\ UNCHANGED <<subs, qmp, cur, step, tries, resp, finished, qemu>>

(* qmpHandler takes the next session from qc.qmp and writes its first      *)
(* command.                                                                *)
Dequeue ==
    /\ conn = "ready"
    /\ cur = 0
    /\ qmp # << >>
    /\ cur' = Head(qmp)
    /\ qmp' = Tail(qmp)
    /\ step' = 1
    /\ tries' = 0
    /\ resp' = "none"
    /\ UNCHANGED <<subs, hub, conn, finished, qemu>>

(* qemu answers the command in flight: it applies it and returns, or it    *)
(* returns an error and changes nothing.                                   *)
QemuReply ==
    /\ alive
    /\ cur # 0
    /\ resp = "none"
    /\ \/ /\ Applicable(CurCmd)
          /\ Apply(CurCmd)
          /\ resp' = "ok"
       \/ /\ resp' = "err"
          /\ UNCHANGED qemu
    /\ UNCHANGED <<subs, qmp, hub, conn, cur, step, tries, finished>>

(* A return for a step that is not the last: write the next command.      *)
StepDone ==
    /\ conn = "ready"
    /\ cur # 0
    /\ resp = "ok"
    /\ step < Len(Commands(subs[cur]))
    /\ step' = step + 1
    /\ tries' = 0
    /\ resp' = "none"
    /\ UNCHANGED <<subs, qmp, hub, conn, cur, finished, qemu>>

(* A return for the last step: the session succeeded, respond(nil).       *)
SessionDone ==
    /\ conn = "ready"
    /\ cur # 0
    /\ resp = "ok"
    /\ step = Len(Commands(subs[cur]))
    /\ hub' = DefaultRespond(cur, TRUE)
    /\ finished' = finished \cup {cur}
    /\ cur' = 0
    /\ step' = 0
    /\ tries' = 0
    /\ resp' = "none"
    /\ UNCHANGED <<subs, qmp, conn, qemu>>

(* Faulty variants: a retry that does not count the error, and one that    *)
(* ignores the retry limit.                                                *)
RetryUncounted ==
    /\ conn = "ready"
    /\ cur # 0
    /\ resp = "err"
    /\ tries + 1 < QmpRetry
    /\ resp' = "none"
    /\ UNCHANGED <<subs, qmp, hub, conn, cur, step, tries, finished, qemu>>

RetryUnbounded ==
    /\ conn = "ready"
    /\ cur # 0
    /\ resp = "err"
    /\ tries' = tries + 1
    /\ resp' = "none"
    /\ UNCHANGED <<subs, qmp, hub, conn, cur, step, finished, qemu>>

(* An error with retries left: write the same command again.              *)
Retry ==
    /\ conn = "ready"
    /\ cur # 0
    /\ resp = "err"
    /\ tries + 1 < QmpRetry
    /\ tries' = tries + 1
    /\ resp' = "none"
    /\ UNCHANGED <<subs, qmp, hub, conn, cur, step, finished, qemu>>

(* The QmpRetry-th consecutive error: the session failed, respond(err);    *)
(* the later commands of the session are never written.                    *)
SessionFail ==
    /\ conn = "ready"
    /\ cur # 0
    /\ resp = "err"
    /\ tries + 1 = QmpRetry
    /\ hub' = DefaultRespond(cur, FALSE)
    /\ finished' = finished \cup {cur}
    /\ cur' = 0
    /\ step' = 0
    /\ tries' = 0
    /\ resp' = "none"
    /\ UNCHANGED <<subs, qmp, conn, qemu>>

(* The guest powers off: qemu sends a SHUTDOWN event, which the handler    *)
(* forwards as EVENT_VM_EXIT, and the process exits.                       *)
GuestShutdown ==
    /\ alive
    /\ conn = "ready"
    /\ hub' = Append(hub, Ev("vmExit", 0))
    /\ alive' = FALSE
    /\ UNCHANGED <<subs, qmp, handler, drives, scsi, fds, netdevs, nics>>

(* The qemu process dies without an event (killed, crashed).              *)
QemuCrash ==
    /\ alive
    /\ alive' = FALSE
    /\ UNCHANGED <<subs, qmp, hub, handler, drives, scsi, fds, netdevs, nics>>

(* The monitor socket reaches EOF once qemu is gone: the handler posts     *)
(* ERROR_INTERRUPTED and exits; the session in flight and the queued ones  *)
(* are abandoned.                                                          *)
ConnLost ==
    /\ conn = "ready"
    /\ ~alive
    /\ conn' = "closed"
    /\ hub' = Append(hub, Ev("interrupted", 0))
    /\ UNCHANGED <<subs, qmp, cur, step, tries, resp, finished, qemu>>

Init ==
    /\ subs = << >>
    /\ qmp = << >>
    /\ conn = "init"
    /\ cur = 0
    /\ step = 0
    /\ tries = 0
    /\ resp = "none"
    /\ finished = {}
    /\ hub = << >>
    /\ alive = TRUE
    /\ drives = {}
    /\ scsi = {}
    /\ fds = {}
    /\ netdevs = {}
    /\ nics = {}

Next ==
    \/ \E op \in Ops : Submit(op)
    \/ HandshakeOk \/ HandshakeFail
    \/ Dequeue \/ QemuReply
    \/ StepDone \/ SessionDone \/ Retry \/ SessionFail
    \/ GuestShutdown \/ QemuCrash \/ ConnLost

(* The handler goroutine runs whenever it can, the handshake ends by       *)
(* success or timeout, and a live qemu answers every command it is sent.   *)
(* Callers, guest power-off and crashes need not happen.                   *)
Fairness ==
    /\ WF_vars(HandshakeOk \/ HandshakeFail)
    /\ WF_vars(Dequeue)
    /\ WF_vars(QemuReply)
    /\ WF_vars(StepDone \/ SessionDone \/ Retry \/ SessionFail)
    /\ WF_vars(ConnLost)

Spec == Init /\ [][Next]_vars /\ Fairness

-----------------------------------------------------------------------------
(* Properties.                                                             *)

TypeOK ==
    /\ subs \in Seq(Ops)
    /\ qmp \in Seq(1..Len(subs))
    /\ conn \in {"init", "ready", "failed", "closed"}
    /\ cur \in 0..Len(subs)
    /\ step \in 0..3
    /\ tries \in 0..(QmpRetry - 1)
    /\ resp \in {"none", "ok", "err"}
    /\ finished \subseteq 1..Len(subs)
    /\ alive \in BOOLEAN
    /\ drives \cup scsi \subseteq DiskIds
    /\ fds \cup netdevs \cup nics \subseteq NicIds

(* A device whose inserted event reached the hub, and whose removal was    *)
(* never requested, is really present in qemu: for a disk both the drive   *)
(* and the scsi-hd device, for a NIC both the tap backend and the virtio   *)
(* device.  defaultRespond posts the inserted event only when every        *)
(* command of the session returned.                                        *)
InsertedDevicesAttached ==
    /\ \A d \in DiskIds :
          (Reported("blockInserted", d) /\ ~Submitted([kind |-> "diskDel", id |-> d]))
              => d \in drives /\ d \in scsi
    /\ \A n \in NicIds :
          (Reported("netInserted", n) /\ ~Submitted([kind |-> "netDel", id |-> n]))
              => n \in netdevs /\ n \in nics

(* Every session sent is eventually answered through its respond callback, *)
(* however often qemu answers with errors, unless the monitor connection   *)
(* itself failed or was lost.                                              *)
SessionsComplete ==
    \A i \in 1..Cardinality(Ops) :
        (i \in DOMAIN subs) ~> (i \in finished \/ conn \in {"failed", "closed"})

(* The queue implements the abstract session queue of QmpSessionQueue:     *)
(* the session in flight is the head of the abstract queue.                *)
QS == INSTANCE QmpSessionQueue
        WITH queue <- IF cur # 0 THEN << cur >> \o qmp ELSE qmp,
             open  <- CASE conn = "init"  -> "init"
                        [] conn = "ready" -> "open"
                        [] OTHER          -> "shut"

DiskDeviceHasDrive == scsi \subseteq drives

=============================================================================
