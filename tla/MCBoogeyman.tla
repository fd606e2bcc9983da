---------------------------- MODULE MCBoogeyman ----------------------------
(* Small instances of the boogeyman for TLC.                               *)
EXTENDS Boogeyman, TLC

CONSTANTS monkey, user

CallerSymmetry == Permutations(Callers)
=============================================================================
