\* Whether the source keeps its pod until the VM has arrived.
SPECIFICATION Spec
INVARIANT PodNotLost
CHECK_DEADLOCK FALSE
