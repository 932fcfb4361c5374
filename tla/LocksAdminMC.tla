---------------------------- MODULE LocksAdminMC ----------------------------
(* Instances of LocksAdmin for TLC.                                          *)
EXTENDS LocksAdmin, StaleLocksMC

DefaultLimits == [queue |-> 1, job |-> 1]
PatientLimits == [queue |-> 1, job |-> 2]
BothLimits == {DefaultLimits, PatientLimits}
=============================================================================
