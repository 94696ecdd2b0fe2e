\* Pod migration, with the two commands started in either order.
SPECIFICATION Spec
INVARIANT TypeOK OnlyMigratedPodCreated
PROPERTY DstListenReturns
\* Both commands return, or the destination waits for a connection that
\* was refused; the daemons then idle.
CHECK_DEADLOCK FALSE
