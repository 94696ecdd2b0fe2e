CONSTANTS
    Names <- MCNames
    Containers <- MCContainers
    MountPoints <- MCMountPoints
    NicIdx <- MCNicIdx
    MaxId <- MCMaxId
SPECIFICATION Spec
INVARIANT ImagesNicsCountersRoundTrip
\* Only the counter bound MaxId stops the VM from changing its devices.
CHECK_DEADLOCK FALSE
