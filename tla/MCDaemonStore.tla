--------------------------- MODULE MCDaemonStore ----------------------------
EXTENDS DaemonStore, TLC

CONSTANTS p1, v1, v2, v3, c1, c2

MCPods == {p1}
MCVms == {v1, v2, v3}
MCCallers == {c1, c2}

\* One API goroutine: no two calls race on the unlocked PodList check.
MCOneCaller == {c1}


=============================================================================
