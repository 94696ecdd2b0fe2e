---------------------------- MODULE MCQmpSession ----------------------------
(* Model-checking instance of QmpSession: two SCSI ids, one NIC, and the   *)
(* three attempts per step that qmp_test.go (TestQmpKeepFail) observes.    *)
EXTENDS QmpSession

MCDiskIds == {0}
MCNicIds == {0}
MCQmpRetry == 3

=============================================================================
