----------------------- MODULE MCNamespaceController -----------------------
(* Small instances of the namespace controller for TLC.                    *)
EXTENDS NamespaceController, TLC

CONSTANTS u1, u2, p1, p2, n1, n2, h1, h2, owner, member, noProject, emptyUser

Bind(u, p, r) == [user |-> u, project |-> p, role |-> r]

MCHasPrefix == {<<n1, p1>>, <<n2, p2>>} \cap (Namespaces \X Projects)

\* u1 owns p2 and is a plain member of p1; nobody else is in a project.
Mixed == {Bind(u1, p1, member), Bind(u1, p2, owner)}
\* u1 is a plain member of one project.
One == {Bind(u1, p1, member)}

RaceBindings == {Mixed}
OneBindings  == {One}

Outside     == [n \in Namespaces |-> noProject]
Inside      == [Outside EXCEPT ![n1] = p1]
MCOwners    == {Outside, Inside}
InsideOnly  == {Inside}
OutsideOnly == {Outside}

HandlerSymmetry == Permutations(Handlers)
=============================================================================
