------------------------- MODULE MCRancherProjects -------------------------
(* Small instances of the writing half of the Rancher client for TLC.       *)
EXTENDS RancherProjects, TLC

CONSTANTS c1, c2, c3, p1, p2, a, b, x, d1, d2, s1, s2

Want(d, s) == [details |-> d, policy |-> s]
First == Want(d1, s1)
TwoSettings == {First, Want(d2, s2)}

\* Members wanted: both, or one of them and one that has no type.
Lists == {<<a, b>>, <<b, x>>}

CallSymmetry == Permutations(Calls)
=============================================================================
