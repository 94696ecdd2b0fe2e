\* Qemu supervision: launch, watchDog, Kill and Close.
CONSTANTS
    WdtCap <- MCWdtCap
    MaxKills <- MCMaxKills
SPECIFICATION Spec
PROPERTY FirstKillAnswered
\* The VM stops calling the driver; Kill blocks on a full qc.wdt.
CHECK_DEADLOCK FALSE
