-------------------------- MODULE SerialController --------------------------
(***************************************************************************)
(* The behaviours of the namespace controller in which nothing overlaps:   *)
(* one request at a time, calls that do not fail, and a directory that     *)
(* changes only between requests.  Of these it can be said what the cache  *)
(* is: the directory as it was when the cache was last emptied.            *)
(***************************************************************************)
EXTENDS NamespaceController

VARIABLE picture  \* the bindings there were when the cache was last emptied

serialVars == <<vars, picture>>

\* Between a request and its reply nobody else has one, nothing fails, and the
\* directory stays as it is.
Serially ==
  /\ UNCHANGED faults
  /\ AllIdle \/ \A h \in Handlers : pc[h] = "idle" => pc'[h] = "idle"
  /\ AllIdle \/ UNCHANGED <<bindings, nsOf>>

Empties == \E h \in Handlers : pc[h] = "clear" /\ pc'[h] = "clearSpaces"

SerialInit == Init /\ picture = {}
SerialNext ==
  /\ Next /\ Serially
  /\ picture' = IF Empties THEN bindings ELSE picture

SerialSpec == SerialInit /\ [][SerialNext]_serialVars

-----------------------------------------------------------------------------
(* Properties *)

\* Whenever the controller is idle, OPA has a copy of the cache: a step of an update
\* that comes after the marshalling, or changes one of the maps alone, would leave
\* it behind.
OpaMirrorsCache ==
  AllIdle => opa = [users |-> user2projects, namespaces |-> namespace2project]

\* The controller implements the policy: what it answers, from maps that an update
\* fills entry by entry and from entries that the roles are missing from, follows
\* from whole pictures of the directory.
Rebuilds   == {"clearSpaces", "eachProject", "eachMember", "storeMember",
               "eachNamespace", "put"}
Rebuilding == \E h \in Handlers : pc[h] \in Rebuilds

SpacesSeen == IF Rebuilding THEN nsOf ELSE namespace2project
Asked      == [h \in Handlers |-> IF pc[h] = "idle" THEN NoRequest ELSE req[h]]
PlacedIn   == [h \in Handlers |-> target[h].project]

Policy == INSTANCE AdmissionPolicy
            WITH view <- picture, viewNs <- SpacesSeen,
                 asked <- Asked, placed <- PlacedIn

ImplementsPolicy == Policy!Spec
=============================================================================
