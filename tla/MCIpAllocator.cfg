CONSTANTS
    Width <- MCWidth
    Nets <- MCNets
    Subnets <- MCSubnets
    Probes <- MCProbes
SPECIFICATION Spec
INVARIANT TypeOK NextIPIsReference HostAddressesOnly
PROPERTY PoolSpec
