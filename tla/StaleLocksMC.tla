---------------------------- MODULE StaleLocksMC ----------------------------
(* Instances of StaleLocks for TLC.                                          *)
EXTENDS StaleLocks, TLC

CONSTANTS w1, w2, j1, j2, j3, q1

BothSerial == j1 :> q1 @@ j2 :> q1
SerialAndParallel == j1 :> q1 @@ j2 :> q1 @@ j3 :> NoQueue

Symmetry == Permutations(Workers)
=============================================================================
