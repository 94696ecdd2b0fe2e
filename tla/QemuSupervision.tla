--------------------------- MODULE QemuSupervision ---------------------------
(***************************************************************************)
(* The qemu process supervision of one VM (runv/hypervisor/qemu):          *)
(* launchQemu daemonizes qemu and starts watchDog via watchPid; watchDog   *)
(* reads the control channel qc.wdt and either returns on "quit" or kills  *)
(* the process on "kill" and posts VmKilledEvent{Success}; Kill sends      *)
(* "kill" on qc.wdt (recovering from a send on a closed channel); Close    *)
(* sends "quit", waits on qc.waitQmp, then closes waitQmp, qmp and wdt.    *)
(*                                                                         *)
(* InitContext makes qmp and wdt (capacity 16) but never waitQmp, so       *)
(* waitQmp is the nil channel: a receive from it blocks forever.  The VM   *)
(* state machine that calls Kill and Close is not in the tree; it is an    *)
(* environment that may call Kill (at most MaxKills times) and Close (once) *)
(* at any moment after the launch.  Qemu may exit on its own at any time.  *)
(***************************************************************************)
EXTENDS Naturals, Sequences

CONSTANTS
    MaxKills,       \* bound on the VM's Kill calls
    WdtCap          \* capacity of qc.wdt

VARIABLES
    launcher,   \* the launchQemu goroutine: "idle", "exec", "done"
    proc,       \* the qemu process: "none" (qc.process nil), "alive", "dead"
    dog,        \* the watchDog goroutine: "none", "running", "done"
    wdt,        \* messages queued on qc.wdt
    closer,     \* Close: "idle", "waiting" (blocked on <-qc.waitQmp)
    kills,      \* Kill calls made
    killed      \* the VmKilledEvents posted to the hub, in order

vars == << launcher, proc, dog, wdt, closer, kills, killed >>

\* qc.wdt is closed only by Close after its receive from waitQmp, which
\* never returns.
WdtClosed == FALSE

\* A send on qc.wdt blocks while it is full.
WdtSend(msg) ==
    /\ Len(wdt) < WdtCap
    /\ wdt' = Append(wdt, msg)

-----------------------------------------------------------------------------
(* launchQemu and watchPid.                                                *)

\* LazyLaunch starts the launchQemu goroutine.
Launch ==
    /\ launcher = "idle"
    /\ launcher' = "exec"
    /\ UNCHANGED << proc, dog, wdt, closer, kills, killed >>

\* No executable, or ExecInDaemon fails: VmStartFailEvent, no watchDog.
LaunchFail ==
    /\ launcher = "exec"
    /\ launcher' = "done"
    /\ UNCHANGED << proc, dog, wdt, closer, kills, killed >>

\* ExecInDaemon succeeds, the callbacks are posted, and watchPid sets
\* qc.process (os.FindProcess cannot fail on Unix) and starts watchDog.
LaunchOk ==
    /\ launcher = "exec"
    /\ launcher' = "done"
    /\ proc' = "alive"
    /\ dog' = "running"
    /\ UNCHANGED << wdt, closer, kills, killed >>

\* The guest powers off or qemu crashes; the daemonized process is not
\* the daemon's child, so nothing here notices, and init reaps it.
QemuExit ==
    /\ proc = "alive"
    /\ proc' = "dead"
    /\ UNCHANGED << launcher, dog, wdt, closer, kills, killed >>

-----------------------------------------------------------------------------
(* watchDog.                                                               *)

\* Faulty variant: watchDog returns on any message.
DogQuitAny ==
    /\ dog = "running" /\ wdt # << >>
    /\ dog' = "done"
    /\ wdt' = Tail(wdt)
    /\ UNCHANGED << launcher, proc, closer, kills, killed >>

\* "quit": return.
DogQuit ==
    /\ dog = "running" /\ wdt # << >> /\ Head(wdt) = "quit"
    /\ dog' = "done"
    /\ wdt' = Tail(wdt)
    /\ UNCHANGED << launcher, proc, closer, kills, killed >>

\* "kill": process.Kill succeeds on the live qemu and fails on one that
\* has exited; post VmKilledEvent{Success} and return.
DogKill ==
    /\ dog = "running" /\ wdt # << >> /\ Head(wdt) = "kill"
    /\ proc' = IF proc = "alive" THEN "dead" ELSE proc
    /\ killed' = Append(killed, proc = "alive")
    /\ dog' = "done"
    /\ wdt' = Tail(wdt)
    /\ UNCHANGED << launcher, closer, kills >>

-----------------------------------------------------------------------------
(* QemuContext.Kill and QemuContext.Close, called by the VM.               *)

\* Kill: send "kill" (a send on the closed channel panics and is recovered).
Kill ==
    /\ launcher # "idle"
    /\ kills < MaxKills
    /\ IF WdtClosed THEN UNCHANGED wdt ELSE WdtSend("kill")
    /\ kills' = kills + 1
    /\ UNCHANGED << launcher, proc, dog, closer, killed >>

\* Close: send "quit", then block on <-qc.waitQmp, which is nil.
Close ==
    /\ launcher # "idle"
    /\ closer = "idle"
    /\ WdtSend("quit")
    /\ closer' = "waiting"
    /\ UNCHANGED << launcher, proc, dog, kills, killed >>

Init ==
    /\ launcher = "idle" /\ proc = "none" /\ dog = "none"
    /\ wdt = << >> /\ closer = "idle" /\ kills = 0 /\ killed = << >>

Dog == DogQuit \/ DogKill

Next == Launch \/ LaunchFail \/ LaunchOk \/ QemuExit \/ Dog \/ Kill \/ Close

\* launchQemu and watchDog are goroutines that run while not blocked.
Spec == Init /\ [][Next]_vars /\ WF_vars(LaunchFail \/ LaunchOk) /\ WF_vars(Dog)

-----------------------------------------------------------------------------
(* Properties.                                                             *)

TypeOK ==
    /\ launcher \in {"idle", "exec", "done"}
    /\ proc \in {"none", "alive", "dead"}
    /\ dog \in {"none", "running", "done"}
    /\ wdt \in Seq({"kill", "quit"}) /\ Len(wdt) <= WdtCap
    /\ closer \in {"idle", "waiting"}
    /\ kills \in 0..MaxKills
    /\ killed \in Seq(BOOLEAN)

(* The first Kill of a launched VM made before Close is answered by a      *)
(* VmKilledEvent: watchDog reads the "kill" ahead of any "quit", however   *)
(* the kill races the launch and qemu's own exit.                          *)
FirstKillAnswered ==
    (proc # "none" /\ kills >= 1 /\ closer = "idle") ~> Len(killed) >= 1

=============================================================================
