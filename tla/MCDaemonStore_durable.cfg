CONSTANTS
    p1 = p1
    v1 = v1  v2 = v2  v3 = v3
    c1 = c1  c2 = c2
    Pods <- MCPods
    Vms <- MCVms
    Callers <- MCOneCaller
    Restorer = Restorer
    NoPod = NoPod
    NoVm = NoVm
    MaxCrashes = 1
SPECIFICATION Spec
CHECK_DEADLOCK FALSE
INVARIANT PodDurable
