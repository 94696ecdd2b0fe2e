---------------------------- MODULE IpAllocator -----------------------------
(***************************************************************************)
(* The IP allocator of runv-lazy (hypervisor/network/ipallocator): per     *)
(* network (keyed by network.String()) an allocatedMap holds the set p of  *)
(* addresses handed out, the range [begin, end] it hands out from, and the *)
(* last address getNextIP returned.  RegisterSubnet, RequestIP and         *)
(* ReleaseIP each run under the allocator's mutex, so each is one atomic   *)
(* step; their callers may come in any order.                              *)
(*                                                                         *)
(* Addresses are the integers 0 .. 2^Width - 1 (ipToBigInt and bigIntToIP *)
(* are the identity on them); a network is a pair <<ip, prefix length>>.   *)
(***************************************************************************)
EXTENDS Integers, FiniteSets

LOCAL FSE == INSTANCE FiniteSetsExt

CONSTANTS
    Width,      \* bits of an address
    Nets,       \* the networks callers pass: <<ip, prefix>> with host bits clear
    Subnets,    \* the subnets callers pass to RegisterSubnet
    Probes      \* the addresses callers pass to RequestIP

Addr == 0 .. 2^Width - 1
NoIP == -1

VARIABLES
    registered, \* the keys of allocatedIPs
    alloc,      \* alloc[n]: the allocatedMap of n: [p, last, begin, end]
    result      \* what the last call returned: [ip, err] (nil ip is NoIP)

vars == << registered, alloc, result >>

Errors == {"ErrNoAvailableIPs", "ErrIPAlreadyAllocated", "ErrIPOutOfRange",
           "ErrNetworkAlreadyRegistered", "ErrBadSubnet", "nil"}

Ret(ip, err) == [ip |-> ip, err |-> err]

\* NetworkRange: the first (ip AND mask) and the last (ip OR NOT mask)
\* address of a network.
NetworkRange(net) ==
    LET size == 2^(Width - net[2])
        first == net[1] - (net[1] % size)
    IN  << first, first + size - 1 >>

\* Faulty variant: the network and broadcast addresses are not left out.
NewAllocatedMapWhole(net) ==
    LET r == NetworkRange(net)
    IN  [p |-> {}, begin |-> r[1], end |-> r[2], last |-> r[1] - 1]

\* newAllocatedMap: the network and broadcast addresses are left out, and
\* last is set so that the first address handed out is begin.
NewAllocatedMap(net) ==
    LET r == NetworkRange(net)
    IN  [p |-> {}, begin |-> r[1] + 1, end |-> r[2] - 1, last |-> r[1]]

\* Faulty variant: the scan stops one address early.
RECURSIVE ScanShort(_, _, _)
ScanShort(a, pos, i) ==
    IF i >= a.end - a.begin THEN NoIP
    ELSE LET q == IF pos + 1 > a.end THEN a.begin ELSE pos + 1
         IN  IF q \in a.p THEN ScanShort(a, q, i + 1) ELSE q

\* getNextIP's loop: allRange + 1 candidates after last, wrapping from
\* end to begin; the first one not in p, or NoIP (ErrNoAvailableIPs).
RECURSIVE Scan(_, _, _)
Scan(a, pos, i) ==
    IF i > a.end - a.begin THEN NoIP
    ELSE LET q == IF pos + 1 > a.end THEN a.begin ELSE pos + 1
         IN  IF q \in a.p THEN Scan(a, q, i + 1) ELSE q

GetNextIP(a) == Scan(a, a.last, 0)

\* The map after a grant of ip by getNextIP (p and last) or checkIP (p).
Grant(a, ip, next) ==
    [a EXCEPT !.p = @ \cup {ip}, !.last = IF next THEN ip ELSE @]

-----------------------------------------------------------------------------

\* Faulty variant: the subnet's range is not checked against the network's.
RegisterSubnetUnchecked(net, sub) ==
    LET n == NewAllocatedMap(net)
        s == NewAllocatedMap(sub)
    IN  \/ /\ net \in registered
           /\ result' = Ret(NoIP, "ErrNetworkAlreadyRegistered")
           /\ UNCHANGED << registered, alloc >>
        \/ /\ net \notin registered
           /\ registered' = registered \cup {net}
           /\ alloc' = [alloc EXCEPT ![net] = [n EXCEPT !.begin = s.begin, !.end = s.end,
                                                         !.last = s.begin - 1]]
           /\ result' = Ret(NoIP, "nil")

\* RegisterSubnet: refused for a network already in allocatedIPs, and for a
\* subnet whose usable range is not inside the network's or is not at
\* least two addresses; otherwise the map hands out the subnet's range.
RegisterSubnet(net, sub) ==
    LET n == NewAllocatedMap(net)
        s == NewAllocatedMap(sub)
    IN  \/ /\ net \in registered
           /\ result' = Ret(NoIP, "ErrNetworkAlreadyRegistered")
           /\ UNCHANGED << registered, alloc >>
        \/ /\ net \notin registered
           /\ ~(s.begin >= n.begin /\ s.end <= n.end /\ s.begin < s.end)
           /\ result' = Ret(NoIP, "ErrBadSubnet")
           /\ UNCHANGED << registered, alloc >>
        \/ /\ net \notin registered
           /\ s.begin >= n.begin /\ s.end <= n.end /\ s.begin < s.end
           /\ registered' = registered \cup {net}
           /\ alloc' = [alloc EXCEPT ![net] = [n EXCEPT !.begin = s.begin, !.end = s.end,
                                                         !.last = s.begin - 1]]
           /\ result' = Ret(NoIP, "nil")

\* The map RequestIP works on: an unregistered network gets the full range.
MapOf(net) == IF net \in registered THEN alloc[net] ELSE NewAllocatedMap(net)

\* RequestIP(network, nil): getNextIP.
RequestNextIP(net) ==
    LET a == MapOf(net)
        ip == GetNextIP(a)
    IN  /\ registered' = registered \cup {net}
        /\ alloc' = [alloc EXCEPT ![net] = IF ip = NoIP THEN a ELSE Grant(a, ip, TRUE)]
        /\ result' = IF ip = NoIP THEN Ret(NoIP, "ErrNoAvailableIPs") ELSE Ret(ip, "nil")

\* Faulty variant: checkIP without its range check.
RequestGivenIPNoRange(net, ip) ==
    LET a == MapOf(net)
    IN  /\ registered' = registered \cup {net}
        /\ \/ /\ ip \in a.p
              /\ alloc' = [alloc EXCEPT ![net] = a]
              /\ result' = Ret(NoIP, "ErrIPAlreadyAllocated")
           \/ /\ ip \notin a.p
              /\ alloc' = [alloc EXCEPT ![net] = Grant(a, ip, FALSE)]
              /\ result' = Ret(ip, "nil")

\* RequestIP(network, ip): checkIP refuses an address in p, then one out
\* of [begin, end], and otherwise records it (last is left alone).
RequestGivenIP(net, ip) ==
    LET a == MapOf(net)
    IN  /\ registered' = registered \cup {net}
        /\ \/ /\ ip \in a.p
              /\ alloc' = [alloc EXCEPT ![net] = a]
              /\ result' = Ret(NoIP, "ErrIPAlreadyAllocated")
           \/ /\ ip \notin a.p /\ (ip < a.begin \/ ip > a.end)
              /\ alloc' = [alloc EXCEPT ![net] = a]
              /\ result' = Ret(NoIP, "ErrIPOutOfRange")
           \/ /\ ip \notin a.p /\ a.begin <= ip /\ ip <= a.end
              /\ alloc' = [alloc EXCEPT ![net] = Grant(a, ip, FALSE)]
              /\ result' = Ret(ip, "nil")

\* ReleaseIP: the address leaves p of a known network; nil is returned.
ReleaseIP(net, ip) ==
    /\ alloc' = IF net \in registered THEN [alloc EXCEPT ![net].p = @ \ {ip}] ELSE alloc
    /\ result' = Ret(NoIP, "nil")
    /\ UNCHANGED registered

Init ==
    /\ registered = {}
    /\ alloc = [n \in Nets |-> NewAllocatedMap(n)]
    /\ result = Ret(NoIP, "nil")

Next ==
    \E net \in Nets :
        \/ \E sub \in Subnets : RegisterSubnet(net, sub)
        \/ RequestNextIP(net)
        \/ \E ip \in Probes : RequestGivenIP(net, ip)
        \/ \E ip \in Addr : ReleaseIP(net, ip)

Spec == Init /\ [][Next]_vars

-----------------------------------------------------------------------------

TypeOK ==
    /\ registered \subseteq Nets
    /\ alloc \in [Nets -> [p : SUBSET Addr, last : Addr, begin : Addr, end : Addr]]
    /\ result \in [ip : Addr \cup {NoIP}, err : Errors]

\* The reference for getNextIP: the first free address of [begin, end]
\* after last in address order, else the first free one from begin, else
\* none.
RefNextIP(a) ==
    LET free == (a.begin .. a.end) \ a.p
        after == {x \in free : x > a.last}
    IN  CASE after # {} -> FSE!Min(after)
          [] free # {}  -> FSE!Min(free)
          [] OTHER      -> NoIP

(* getNextIP's wrapping scan from the last address it handed out, through *)
(* releases, explicit requests and registered subnets, returns exactly     *)
(* the next free address in round-robin order, and reports no available   *)
(* address only when every address of the range is taken.                 *)
NextIPIsReference ==
    \A net \in registered : GetNextIP(alloc[net]) = RefNextIP(alloc[net])

(* The allocator implements IpPool: the pool of a network is the range   *)
(* [begin, end] of its map and is fixed once the network is registered or  *)
(* first requested; every address RequestIP hands out, by getNextIP or by  *)
(* checkIP, lies in that range and is held by no caller; RequestIP answers *)
(* ErrNoAvailableIPs only when every address of the range is held; and     *)
(* ReleaseIP only gives an address back.                                   *)
Pool == INSTANCE IpPool WITH
    Addrs  <- Addr,
    fixed  <- registered,
    pool   <- [n \in Nets |-> alloc[n].begin .. alloc[n].end],
    held   <- [n \in Nets |-> alloc[n].p],
    answer <- result.err

PoolSpec == Pool!Spec

(* Every address a network's map holds is a host address of that network: *)
(* neither its network nor its broadcast address, nor one outside it.  It  *)
(* relies on newAllocatedMap leaving out both ends of the range, on       *)
(* RegisterSubnet refusing a subnet whose usable range leaves the          *)
(* network's, and on checkIP refusing a given address out of range, in    *)
(* any order of registrations, requests and releases.                      *)
HostAddressesOnly ==
    \A net \in Nets :
        \A x \in alloc[net].p : NetworkRange(net)[1] < x /\ x < NetworkRange(net)[2]

=============================================================================
