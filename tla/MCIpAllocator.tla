--------------------------- MODULE MCIpAllocator ----------------------------
EXTENDS IpAllocator

\* A 4-bit address space: the network 0/1 (addresses 0..7) and the network
\* 8/2 (addresses 8..11, two usable).
MCWidth == 4
MCNets == {<<0, 1>>, <<8, 2>>}

\* Subnets inside 0/1, each whole network, a /3 with no usable range, and
\* one outside both networks.
MCSubnets == {<<0, 2>>, <<4, 2>>, <<0, 1>>, <<2, 3>>, <<8, 2>>, <<12, 2>>}

\* Addresses a caller may ask for: network, usable and broadcast addresses
\* of both networks.
MCProbes == {0, 1, 3, 6, 7, 9, 11}
=============================================================================
