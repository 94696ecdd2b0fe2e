------------------------------- MODULE IpPool --------------------------------
(***************************************************************************)
(* What the IP allocator promises its callers, with no scan order and no   *)
(* maps: each network has a pool of addresses it hands out, fixed by the   *)
(* first call that names the network; a grant is an address of the pool   *)
(* no caller holds; "no available addresses" is answered only when every   *)
(* address of the pool is held; a release gives an address back.  Any      *)
(* request may also be refused (a given address that is taken or outside   *)
(* the pool), which changes nothing but fixing the pool.                   *)
(***************************************************************************)
EXTENDS FiniteSets

CONSTANTS
    Nets,       \* the networks
    Addrs       \* the addresses

VARIABLES
    fixed,      \* the networks whose pool can no longer change
    pool,       \* pool[n]: the addresses n hands out
    held,       \* held[n]: the addresses of n handed out and not released
    answer      \* the error the last call returned, "nil" for none

poolVars == << fixed, pool, held, answer >>

PoolTypeOK ==
    /\ fixed \subseteq Nets
    /\ pool \in [Nets -> SUBSET Addrs]
    /\ held \in [Nets -> SUBSET Addrs]

Init ==
    /\ fixed = {}
    /\ pool \in [Nets -> SUBSET Addrs]
    /\ held = [n \in Nets |-> {}]
    /\ answer = "nil"

\* A network not yet named gets a new pool.
Fix(n) ==
    /\ n \notin fixed
    /\ fixed' = fixed \cup {n}
    /\ pool'[n] \subseteq Addrs
    /\ pool' = [pool EXCEPT ![n] = pool'[n]]
    /\ answer' = "nil"
    /\ UNCHANGED held

\* Fixing is refused: nothing changes.
FixRefused(n) ==
    /\ answer' \in {"ErrNetworkAlreadyRegistered", "ErrBadSubnet"}
    /\ UNCHANGED << fixed, pool, held >>

\* A free address of the pool is handed out.
Grant(n) ==
    /\ \E x \in pool[n] \ held[n] : held' = [held EXCEPT ![n] = @ \cup {x}]
    /\ fixed' = fixed \cup {n}
    /\ answer' = "nil"
    /\ UNCHANGED pool

\* Every address of the pool is held.
Exhausted(n) ==
    /\ pool[n] \subseteq held[n]
    /\ fixed' = fixed \cup {n}
    /\ answer' = "ErrNoAvailableIPs"
    /\ UNCHANGED << pool, held >>

\* A request for a given address is refused.
Refused(n) ==
    /\ fixed' = fixed \cup {n}
    /\ answer' \in {"ErrIPAlreadyAllocated", "ErrIPOutOfRange"}
    /\ UNCHANGED << pool, held >>

\* An address goes back to the pool of a named network.
Release(n, x) ==
    /\ held' = IF n \in fixed THEN [held EXCEPT ![n] = @ \ {x}] ELSE held
    /\ answer' = "nil"
    /\ UNCHANGED << fixed, pool >>

Next ==
    \E n \in Nets :
        \/ Fix(n)
        \/ FixRefused(n)
        \/ Grant(n)
        \/ Exhausted(n)
        \/ Refused(n)
        \/ \E x \in Addrs : Release(n, x)

Spec == Init /\ [][Next]_poolVars

=============================================================================
