----------------------------- MODULE DlqAdminMC -----------------------------
(* Instances of DlqAdmin for TLC.                                            *)
EXTENDS DlqAdmin

CONSTANTS c1, c2
=============================================================================
