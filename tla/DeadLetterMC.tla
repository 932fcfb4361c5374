---------------------------- MODULE DeadLetterMC ----------------------------
(* Instances of DeadLetter for TLC.                                          *)
EXTENDS DeadLetterDurable, TLC

CONSTANTS w1, w2, a1, a2, k1, k2

\* Keys of the payloads, in the order they are enqueued.
OneKeyTwice == <<k1, k1>>
KeyAndNone == <<k1, NoKey>>
NoneAndNone == <<NoKey, NoKey>>
TwoKeys == <<k1, k2>>

Symmetry == Permutations(Workers) \cup Permutations(Admins)
=============================================================================
