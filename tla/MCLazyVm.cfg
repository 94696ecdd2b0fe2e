CONSTANTS
    NetCount <- MCNetCount
    Blks <- MCBlks
SPECIFICATION Spec
INVARIANT RunningHasLaunchedDevices
PROPERTY PodCmdAnswered
\* The state machine stops for good in None (ctx.Become(nil)).
CHECK_DEADLOCK FALSE
