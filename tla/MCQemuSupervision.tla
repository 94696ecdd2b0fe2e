------------------------- MODULE MCQemuSupervision -------------------------
EXTENDS QemuSupervision

\* qc.wdt is made with capacity 16 (QemuDriver.InitContext).
MCWdtCap == 16

\* One Kill more than the channel holds once watchDog has returned.
MCMaxKills == MCWdtCap + 2
=============================================================================
