-------------------------- MODULE AdmissionPolicy --------------------------
(***************************************************************************)
(* What the namespace controller promises, without cache, updates or       *)
(* program counters: a namespace is decided by one whole picture of the    *)
(* directory, a pod by one that says which project it is in and one, maybe *)
(* later, that says who is in the project.  A picture may be old, but      *)
(* whoever has no place in it is turned away only when it is the current.  *)
(***************************************************************************)
EXTENDS ProjectDirectory

CONSTANT Handlers

VARIABLES
  bindings, nsOf,   \* the directory
  view, viewNs,     \* the picture of it that decides
  asked,            \* the request each handler is serving
  placed,           \* the project the pod it is serving has been placed in
  reply             \* its last reply

policyVars == <<bindings, nsOf, view, viewNs, asked, placed, reply>>

None == [kind |-> "none"]

Init ==
  /\ bindings \subseteq Binding /\ nsOf \in [Namespaces -> ProjectOrNone]
  /\ view = {} /\ viewNs = [n \in Namespaces |-> NoProject]
  /\ asked = [h \in Handlers |-> None]
  /\ placed = [h \in Handlers |-> NoProject]
  /\ reply = [h \in Handlers |-> NoReply]

Of(u)      == {b \in view : b.user = u}
Members(p) == {b \in view : b.project = p}
Current    == view = bindings /\ viewNs = nsOf

Finish(h, r) ==
  /\ asked' = [asked EXCEPT ![h] = None]
  /\ placed' = [placed EXCEPT ![h] = NoProject]
  /\ reply' = [reply EXCEPT ![h] = r]
  /\ UNCHANGED <<bindings, nsOf, view, viewNs>>

Ask(h) ==
  /\ asked[h] = None
  /\ \E r \in Request : asked' = [asked EXCEPT ![h] = r]
  /\ reply' = [reply EXCEPT ![h] = NoReply]
  /\ UNCHANGED <<bindings, nsOf, view, viewNs, placed>>

\* The directory changes, by hand or because an annotated namespace is created.
Change ==
  /\ bindings' \subseteq Binding /\ nsOf' \in [Namespaces -> ProjectOrNone]
  /\ \E done \in SUBSET Handlers :
       reply' = [h \in Handlers |-> IF h \in done THEN NoReply ELSE reply[h]]
  /\ UNCHANGED <<view, viewNs, asked, placed>>

\* A new picture is taken.
Look ==
  /\ view' = bindings /\ viewNs' = nsOf
  /\ UNCHANGED <<bindings, nsOf, asked, placed, reply>>

\* A user bound exactly once, and not as an owner, creates namespaces in that
\* project, and only under its prefix; everybody else is not interfered with.
DecideNamespace(h) ==
  /\ asked[h].kind = "Namespace"
  /\ Of(asked[h].user) = {} => Current
  /\ \/ /\ ~ \E b \in view : Of(asked[h].user) = {b} /\ b.role # Owner
        /\ Finish(h, Ignore)
     \/ \E b \in view :
          /\ Of(asked[h].user) = {b} /\ b.role # Owner
          /\ Finish(h, [verdict |-> IF <<asked[h].ns, b.project>> \in HasPrefix
                                    THEN "annotate" ELSE "deny",
                        project |-> b.project])

\* A pod's project is its namespace's at some moment of the call; by the time the
\* pod is decided, a new picture may have been taken.
PlacePod(h) ==
  /\ asked[h].kind = "Pod" /\ placed[h] = NoProject
  /\ viewNs[asked[h].ns] # NoProject
  /\ placed' = [placed EXCEPT ![h] = viewNs[asked[h].ns]]
  /\ UNCHANGED <<bindings, nsOf, view, viewNs, asked, reply>>

\* Pods outside every project are not interfered with; in a project, one user
\* speaks for it: limits are checked if that user is not its owner.
IgnorePod(h) ==
  /\ asked[h].kind = "Pod"
  /\ LET p == placed[h] IN
       \/ p = NoProject /\ viewNs[asked[h].ns] = NoProject /\ Current
       \/ p # NoProject /\ Members(p) = {} /\ Current
       \/ p # NoProject /\ \E b \in Members(p) : b.role = Owner
  /\ Finish(h, Ignore)

LimitPod(h) ==
  /\ asked[h].kind = "Pod" /\ placed[h] # NoProject
  /\ LET p == placed[h] IN
       /\ \/ \E b \in Members(p) : b.role # Owner
          \/ Current /\ \E b \in Members(p) : Of(b.user) # {b}
          \/ Current /\ Members(p) = {} /\ Of(EmptyUser) # {}
       /\ Finish(h, [verdict |-> "limit", project |-> p])

Next ==
  \/ \E h \in Handlers : \/ Ask(h) \/ DecideNamespace(h)
                         \/ PlacePod(h) \/ IgnorePod(h) \/ LimitPod(h)
  \/ Change \/ Look

Spec == Init /\ [][Next]_policyVars
=============================================================================
