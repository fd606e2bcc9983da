---------------------------- MODULE CacheHistory ----------------------------
(***************************************************************************)
(* The namespace controller with a memory of what Rancher has held lately. *)
(* The history variables follow the steps and never stop one; they are for *)
(* the one question of how old the entries of the cache can be, whatever   *)
(* updates overlap, calls fail and processes end.                          *)
(***************************************************************************)
EXTENDS NamespaceController

VARIABLES
  \* Every binding, and every place of a namespace, that Rancher has held since
  \* the controller was last at rest
  restBindings, restPlaces,
  \* and since it was at rest before the map of users, or the one of namespaces,
  \* was last emptied
  cacheBindings, cachePlaces

historyVars == <<vars, restBindings, restPlaces, cacheBindings, cachePlaces>>

PlacesHeld == {<<n, nsOf[n]>> : n \in {m \in Namespaces : nsOf[m] # NoProject}}

Moves(h, from, to) == pc[h] = from /\ pc'[h] = to
EmptiesUsers  == \E h \in Handlers : Moves(h, "clear", "clearSpaces")
EmptiesSpaces == \E h \in Handlers : Moves(h, "clearSpaces", "eachProject")

Unless(forgets, old) == IF forgets THEN {} ELSE old

Remember ==
  /\ restBindings' = bindings' \cup Unless(AllIdle, restBindings)
  /\ restPlaces' = PlacesHeld' \cup Unless(AllIdle, restPlaces)
  /\ cacheBindings' = restBindings' \cup Unless(EmptiesUsers, cacheBindings)
  /\ cachePlaces' = restPlaces' \cup Unless(EmptiesSpaces, cachePlaces)

HistoryInit ==
  /\ Init
  /\ restBindings = bindings /\ cacheBindings = bindings
  /\ restPlaces = PlacesHeld /\ cachePlaces = PlacesHeld

HistorySpec == HistoryInit /\ [][Next /\ Remember]_historyVars

\* A handler that can run does run, and Rancher and OPA answer or fail.
FairHistorySpec == HistorySpec /\ \A h \in Handlers : WF_vars(Step(h))

-----------------------------------------------------------------------------
(* Properties *)

EntriesFrom(plist, u, bs) ==
  \A i \in DOMAIN plist : \E b \in bs : b.user = u /\ InfoOf(b) = plist[i]
UsersFrom(lists, bs) == \A u \in Users : EntriesFrom(lists[u], u, bs)
SpacesFrom(projects, places) ==
  \A n \in Namespaces : projects[n] # NoProject => <<n, projects[n]>> \in places

\* What is revoked or moved does not outlive the next rebuild of the cache: an
\* entry is of a binding, or of a place, that Rancher has held since the
\* controller was last at rest before the map was emptied, and a document on its
\* way to OPA has nothing older than the controller's last rest.  Another
\* handler's half-finished append or rebuild brings nothing back that was
\* revoked before it began, and a call that fails leaves nothing old behind.
CacheRecent ==
  /\ UsersFrom(user2projects, cacheBindings)
  /\ SpacesFrom(namespace2project, cachePlaces)
  /\ \A h \in Handlers : pc[h] = "put" =>
       /\ UsersFrom(sent[h].users, restBindings)
       /\ SpacesFrom(sent[h].namespaces, restPlaces)
=============================================================================
