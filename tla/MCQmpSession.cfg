CONSTANTS
    DiskIds <- MCDiskIds
    NicIds <- MCNicIds
    QmpRetry <- MCQmpRetry

SPECIFICATION Spec

INVARIANT TypeOK

INVARIANT InsertedDevicesAttached

PROPERTY SessionsComplete
 

\* qmpHandler exits once the monitor connection failed or was lost and qemu
\* is gone: those end states have no successor.
CHECK_DEADLOCK FALSE
