------------------------- MODULE MCSerialController -------------------------
(* Small instances of the serial namespace controller for TLC.             *)
EXTENDS MCNamespaceController, SerialController

CONSTANT manager

\* u1 is a plain member of one project, u2 of two.
OneAndTwo == {Bind(u1, p1, member), Bind(u2, p1, member), Bind(u2, p2, member)}
\* u1 is a plain member of p1, u2 owns p2 and is a member of p1.
MemberAndOwner == {Bind(u1, p1, member), Bind(u2, p2, owner), Bind(u2, p1, member)}
\* Groups are bound to p2, a user only owns p1.
Groups == {Bind(u1, p1, owner), Bind(emptyUser, p2, member), Bind(emptyUser, p1, owner)}

\* u1 is in p2, in two roles.
TwoRoles == {Bind(u1, p2, member), Bind(u1, p2, manager)}

SerialBindings == {{}, OneAndTwo, MemberAndOwner, Groups, TwoRoles}
=============================================================================
