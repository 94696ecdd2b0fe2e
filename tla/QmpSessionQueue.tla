--------------------------- MODULE QmpSessionQueue ---------------------------
(***************************************************************************)
(* What the command session queue promises its callers (spec 4.2): the     *)
(* sessions sent on one channel complete one at a time, in the order they  *)
(* were sent, each atomically with one outcome -- its success event (none  *)
(* for a nil callback) or DeviceFailed -- until the channel to qemu fails, *)
(* which is reported once and ends the queue.  Asynchronous qemu events    *)
(* may be posted between completions.                                      *)
(***************************************************************************)
EXTENDS Naturals, Sequences

CONSTANTS
    Ops,            \* the operations a session can carry
    Callback(_)     \* the success event type of an operation, or "none"

VARIABLES
    subs,           \* the sessions sent, in order
    queue,          \* indexes of sent sessions not yet completed, in order
    hub,            \* events posted to the VM hub
    open            \* "init", "open" or "shut"

Ev(type, s) == [type |-> type, sess |-> s]

Send(op) ==
    /\ op \in Ops
    /\ subs' = Append(subs, op)
    /\ queue' = Append(queue, Len(subs) + 1)
    /\ UNCHANGED <<hub, open>>

Open ==
    /\ open = "init"
    /\ open' = "open"
    /\ UNCHANGED <<subs, queue, hub>>

\* The head session completes: its success event, or DeviceFailed.
Complete ==
    /\ open = "open"
    /\ queue # << >>
    /\ LET s == Head(queue)
           cb == Callback(subs[s])
       IN  \/ hub' = IF cb = "none" THEN hub ELSE Append(hub, Ev(cb, s))
           \/ hub' = Append(hub, Ev("deviceFailed", s))
    /\ queue' = Tail(queue)
    /\ UNCHANGED <<subs, open>>

AsyncEvent ==
    /\ open = "open"
    /\ hub' = Append(hub, Ev("vmExit", 0))
    /\ UNCHANGED <<subs, queue, open>>

Fail ==
    /\ open # "shut"
    /\ open' = "shut"
    /\ hub' = Append(hub, Ev(IF open = "init" THEN "initFail" ELSE "interrupted", 0))
    /\ UNCHANGED <<subs, queue>>

Init ==
    /\ subs = << >>
    /\ queue = << >>
    /\ hub = << >>
    /\ open = "init"

Next ==
    \/ \E op \in Ops : Send(op)
    \/ Open \/ Complete \/ AsyncEvent \/ Fail

Spec == Init /\ [][Next]_<<subs, queue, hub, open>>

=============================================================================
