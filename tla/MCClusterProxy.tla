--------------------------- MODULE MCClusterProxy ---------------------------
(* Small instances of the cluster proxy for TLC.                            *)
EXTENDS ClusterProxy, TLC

CONSTANTS c1, c2, c3, c4, c5, m1

\* Builds of a module: with a claim and a config map, with two claims.
Mounted == [volumes |-> 1, files |-> TRUE]
Disk    == [volumes |-> 2, files |-> FALSE]

OnlyMounted == {Mounted}
OnlyDisk    == {Disk}

CallSymmetry == Permutations(Calls)
=============================================================================
