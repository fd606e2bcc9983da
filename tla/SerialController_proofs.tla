----------------------- MODULE SerialController_proofs -----------------------
(***************************************************************************)
(* For every set of handlers, users, projects, roles and namespaces: when  *)
(* requests come one at a time, no call fails and the directory changes    *)
(* between requests, OPA has what the cache has, and the controller        *)
(* implements the policy.                                                  *)
(***************************************************************************)
EXTENDS SerialController, NamespaceController_proofs, FiniteSetTheorems

-----------------------------------------------------------------------------
(* The inductive invariant *)

\* The list has an entry for each of the bindings bs, in some order.
Encodes(plist, bs) == \E e \in [DOMAIN plist -> bs] :
  /\ \A b \in bs : \E i \in DOMAIN plist : e[i] = b
  /\ \A i, j \in DOMAIN plist : e[i] = e[j] => i = j
  /\ \A i \in DOMAIN plist : plist[i] = InfoOf(e[i])
UsersHold(bs) == \A u \in Users : Encodes(user2projects[u], {b \in bs : b.user = u})

Cache == [users |-> user2projects, namespaces |-> namespace2project]

\* One request at a time, and one update.
OneBusy == \A h, k \in Handlers : pc[h] # "idle" /\ pc[k] # "idle" => h = k

\* The locals of an update, from one loop to the next.
Locals(h) ==
  /\ pc[h] \notin Rebuilds \cup {"clear"} => upd[h] = NoUpdate
  /\ pc[h] \in {"clear", "clearSpaces"} => upd[h].todo = Projects
  /\ pc[h] \notin {"eachMember", "storeMember"} => upd[h].members = {}
  /\ pc[h] # "storeMember" => upd[h].item = NoBinding
  /\ pc[h] # "eachNamespace" => upd[h].namespaces = {}
  /\ pc[h] \in {"eachMember", "storeMember"} =>
       /\ upd[h].project \notin upd[h].todo
       /\ upd[h].members \subseteq MembersOf(upd[h].project)
  /\ pc[h] = "eachNamespace" =>
       /\ upd[h].project \notin upd[h].todo
       /\ upd[h].namespaces \subseteq NamespacesOf(upd[h].project)
  /\ pc[h] = "storeMember" =>
       /\ upd[h].item \in MembersOf(upd[h].project) \ upd[h].members
       /\ upd[h].plist = user2projects[upd[h].item.user]
  /\ pc[h] = "put" => upd[h].todo = {} /\ sent[h] = Cache

\* What an update has stored so far.
Listed(f) ==
  {b \in bindings : b.project \notin f.todo /\ b \notin f.members /\ b # f.item}
Placed(h, n) ==
  /\ nsOf[n] \notin upd[h].todo /\ n \notin upd[h].namespaces
  /\ pc[h] \in {"eachMember", "storeMember"} => nsOf[n] # upd[h].project
Rebuilt(h) ==
  /\ pc[h] \in Rebuilds => picture = bindings /\ UsersHold(Listed(upd[h]))
  /\ pc[h] \in Rebuilds \ {"clearSpaces"} =>
       \A n \in Namespaces :
         namespace2project[n] = IF Placed(h, n) THEN nsOf[n] ELSE NoProject

\* After an update, and before the reply, the cache is current; and the user found for
\* a pod is one of its project's.
Fresh(h) ==
  /\ pc[h] \in {"rereadUser", "rereadNamespace", "refindUser", "countProjects"} =>
       picture = bindings /\ namespace2project = nsOf
  /\ pc[h] = "countProjects" =>
       IF UsersOf(target[h].project) = {} THEN target[h].user = EmptyUser
       ELSE target[h].user \in UsersOf(target[h].project)

\* Between updates, what the cache and OPA hold.
AtRest == UsersHold(picture) /\ opa = Cache

SInv == /\ OneBusy
        /\ \A h \in Handlers : Locals(h) /\ Rebuilt(h) /\ Fresh(h)
        /\ Rebuilding \/ AtRest

-----------------------------------------------------------------------------
(* Lists that encode sets of bindings *)

LEMMA EncodesNone == Encodes(<<>>, {})
<1>1. [i \in {} |-> {}] \in [DOMAIN << >> -> {}]
  OBVIOUS
<1> QED
  BY <1>1 DEF Encodes

LEMMA EncodesMore ==
  ASSUME NEW plist \in Seq(UserProjectInfo), NEW bs \in SUBSET Binding,
         Encodes(plist, bs), NEW b \in Binding, b \notin bs
  PROVE  Encodes(Append(plist, InfoOf(b)), bs \cup {b})
<1>1. PICK e \in [DOMAIN plist -> bs] :
        /\ \A c \in bs : \E i \in DOMAIN plist : e[i] = c
        /\ \A i, j \in DOMAIN plist : e[i] = e[j] => i = j
        /\ \A i \in DOMAIN plist : plist[i] = InfoOf(e[i])
  BY DEF Encodes
<1> DEFINE more == Append(plist, InfoOf(b))
           f == [i \in DOMAIN more |-> IF i = Len(plist) + 1 THEN b ELSE e[i]]
<1>2. InfoOf(b) \in UserProjectInfo
  BY InfoType
<1>3. /\ Len(plist) \in Nat /\ DOMAIN plist = 1..Len(plist)
      /\ DOMAIN more = 1..(Len(plist) + 1)
      /\ more[Len(plist) + 1] = InfoOf(b)
      /\ \A i \in DOMAIN plist : more[i] = plist[i]
  BY <1>2
<1> HIDE DEF more
<1>4. /\ f \in [DOMAIN more -> bs \cup {b}] /\ f[Len(plist) + 1] = b
      /\ \A i \in DOMAIN plist : f[i] = e[i] /\ e[i] \in bs /\ i \in DOMAIN more
      /\ Len(plist) + 1 \in DOMAIN more
      /\ \A i \in DOMAIN more : i = Len(plist) + 1 \/ i \in DOMAIN plist
  BY <1>1, <1>3
<1> HIDE DEF f
<1>5. \A c \in bs \cup {b} : \E i \in DOMAIN more : f[i] = c
  BY <1>1, <1>4
<1>6. \A i, j \in DOMAIN more : f[i] = f[j] => i = j
  BY <1>1, <1>4
<1>7. \A i \in DOMAIN more : more[i] = InfoOf(f[i])
  BY <1>1, <1>3, <1>4
<1>8. Encodes(more, bs \cup {b})
  BY <1>4, <1>5, <1>6, <1>7 DEF Encodes
<1> QED
  BY <1>8 DEF more

LEMMA EncodesLen ==
  ASSUME NEW plist \in Seq(UserProjectInfo), NEW bs, Encodes(plist, bs)
  PROVE  Cardinality(bs) = Len(plist)
<1>1. PICK e \in [DOMAIN plist -> bs] :
        /\ \A c \in bs : \E i \in DOMAIN plist : e[i] = c
        /\ \A i, j \in DOMAIN plist : e[i] = e[j] => i = j
  BY DEF Encodes
<1>2. Len(plist) \in Nat /\ DOMAIN plist = 1..Len(plist)
  OBVIOUS
<1>3. e \in Bijection(1..Len(plist), bs)
  BY <1>1, <1>2 DEF Bijection, Injection, Surjection, IsInjective
<1> QED
  BY <1>2, <1>3, FS_CountingElements DEF ExistsBijection

-----------------------------------------------------------------------------
(* Steps *)

\* Requests come one at a time, and so no call fails and no process dies.
LEMMA NoFaults == ASSUME IInv, Serially, Fault PROVE FALSE
BY DEF IInv, TypeOK, Serially, Fault

LEMMA NoReset ==
  ASSUME IInv, OneBusy, Serially, CrashOnMapRace \/ Restart
  PROVE  FALSE
<1>1. ~ Restart
  BY NoFaults DEF Restart
<1>2. \A h \in Handlers :
        /\ WritesUsers(h) \/ WritesSpaces(h) => pc[h] # "idle"
        /\ TouchesUsers(h) \/ TouchesSpaces(h) => pc[h] # "idle"
  BY DEF WritesUsers, WritesSpaces, TouchesUsers, TouchesSpaces, Marshals
<1> QED
  BY <1>1, <1>2 DEF CrashOnMapRace, OneBusy

\* A step of a handler moves nobody else.
LEMMA PcMoves ==
  ASSUME NEW h \in Handlers, ReceiveRequest(h) \/ Step(h) \/ CreateNamespace(h)
  PROVE  \/ UNCHANGED pc
         \/ \E to : pc' = [pc EXCEPT ![h] = to]
<1>1. ASSUME NEW r, Answer(h, r) PROVE \E to : pc' = [pc EXCEPT ![h] = to]
  BY <1>1, Zenon DEF Answer, Goto
<1>2. ASSUME NEW r, CallUpdate(h, r) PROVE \E to : pc' = [pc EXCEPT ![h] = to]
  BY <1>2, Zenon DEF CallUpdate, Goto
<1>3. ASSUME NEW r, UpdateStep(h, r) PROVE \E to : pc' = [pc EXCEPT ![h] = to]
  BY <1>3, Zenon DEF UpdateStep, Goto
<1>4. ASSUME CallFails(h) PROVE \E to : pc' = [pc EXCEPT ![h] = to]
  BY <1>1, <1>4, Zenon DEF CallFails, FailUpdate
<1>5. CASE ReceiveRequest(h)
  BY <1>5, Zenon DEF ReceiveRequest, Goto
<1>6. CASE CreateNamespace(h)
  BY <1>6, Zenon DEF CreateNamespace, SetDirectory
<1>7. CASE LookupUser(h) \/ RereadUser(h) \/ LookupNamespace(h) \/ RereadNamespace(h)
  BY <1>1, <1>2, <1>7, Zenon
  DEF LookupUser, RereadUser, LookupNamespace, RereadNamespace, WithProject, Goto
<1>8. CASE FindUser(h) \/ RefindUser(h) \/ CountProjects(h)
  BY <1>1, <1>2, <1>8, Zenon DEF FindUser, RefindUser, CountProjects, PodReply, Goto
<1>9. CASE GetProjects(h) \/ GetProjectMembers(h) \/ GetProjectNamespaces(h)
  BY <1>3, <1>4, <1>9, Zenon DEF GetProjects, GetProjectMembers, GetProjectNamespaces
<1>10. CASE \/ ClearCache(h) \/ ReadUserProjects(h)
            \/ StoreUserProjects(h) \/ StoreNamespace(h)
  BY <1>3, <1>10, Zenon DEF ClearCache, ReadUserProjects, StoreUserProjects, StoreNamespace
<1>11. CASE MarshalCache(h) \/ PutToOPA(h)
  BY <1>1, <1>11, Zenon DEF MarshalCache, PutToOPA, ReturnFromUpdate, Goto
<1> QED
  BY <1>5, <1>6, <1>7, <1>8, <1>9, <1>10, <1>11, Zenon DEF Step

LEMMA OneBusyStep ==
  ASSUME IInv, OneBusy, [SerialNext]_serialVars
  PROVE  OneBusy'
<1>1. CASE UNCHANGED pc
  BY <1>1 DEF OneBusy
<1>2. CASE SerialNext /\ ~ AllIdle
  BY <1>2 DEF SerialNext, Serially, OneBusy
<1>3. CASE SerialNext /\ AllIdle
  <2>1. ASSUME NEW h \in Handlers, ReceiveRequest(h) \/ Step(h) \/ CreateNamespace(h)
        PROVE  \A k \in Handlers \ {h} : pc'[k] = pc[k]
    <3>1. pc \in [Handlers -> Labels]
      BY DEF IInv, TypeOK, HandlersTyped
    <3> QED
      BY <2>1, <3>1, PcMoves
  <2>2. CASE ChangeDirectory
    BY <1>1, <2>2 DEF ChangeDirectory, SetDirectory
  <2>3. CASE CrashOnMapRace \/ Restart
    BY <1>3, <2>3, NoReset DEF SerialNext
  <2> QED
    BY <1>3, <2>1, <2>2, <2>3 DEF SerialNext, Next, AllIdle, OneBusy
<1> QED
  BY <1>1, <1>2, <1>3 DEF serialVars, vars

\* It suffices to look at the one handler that moves.
LEMMA OneMoves ==
  ASSUME NEW h \in Handlers, \A k \in Handlers : Locals(k),
         \A k \in Handlers \ {h} : pc[k] = "idle" /\ pc'[k] = pc[k] /\ upd'[k] = upd[k],
         (Locals(h) /\ Rebuilt(h) /\ Fresh(h))', pc'[h] \in Rebuilds \/ AtRest'
  PROVE  /\ \A k \in Handlers : (Locals(k) /\ Rebuilt(k) /\ Fresh(k))'
         /\ (Rebuilding \/ AtRest)'
<1>1. ASSUME NEW k \in Handlers \ {h}
      PROVE  (Locals(k) /\ Rebuilt(k) /\ Fresh(k))'
  <2>1. upd[k] = NoUpdate
    BY <1>1 DEF Locals, Rebuilds
  <2>2. Locals(k)'
    BY <2>1 DEF Locals, NoUpdate
  <2>3. Rebuilt(k)' /\ Fresh(k)'
    BY DEF Rebuilt, Fresh, Rebuilds
  <2> QED
    BY <2>2, <2>3
<1>2. (Rebuilding \/ AtRest)'
  BY DEF Rebuilding
<1> QED
  BY <1>1, <1>2

\* The bindings in the cache are taken anew in one step of an update only.
LEMMA PictureStays ==
  ASSUME IInv, SerialNext, NEW h \in Handlers, pc[h] # "clear",
         \A k \in Handlers \ {h} : pc'[k] = pc[k]
  PROVE  UNCHANGED picture
BY DEF SerialNext, Empties

\* Steps that have nothing to do with an update.
LEMMA LookupStep ==
  ASSUME IInv, SInv, SerialNext, NEW h \in Handlers,
         \/ ReceiveRequest(h) \/ LookupUser(h) \/ RereadUser(h) \/ LookupNamespace(h)
         \/ RereadNamespace(h) \/ FindUser(h) \/ RefindUser(h) \/ CountProjects(h)
  PROVE  /\ \A k \in Handlers : (Locals(k) /\ Rebuilt(k) /\ Fresh(k))'
         /\ (Rebuilding \/ AtRest)'
<1>1. /\ pc \in [Handlers -> Labels] /\ upd \in [Handlers -> Update]
      /\ target \in [Handlers -> Target] /\ ret \in [Handlers -> Returns]
  BY DEF IInv, TypeOK, HandlersTyped
<1>2. UNCHANGED <<bindings, nsOf, user2projects, namespace2project, opa>>
  BY Zenon DEF ReceiveRequest, LookupUser, RereadUser, LookupNamespace, RereadNamespace,
               FindUser, RefindUser, CountProjects, directoryVars, cacheVars
<1>3. \A k \in Handlers \ {h} : pc'[k] = pc[k]
  BY <1>1, PcMoves DEF Step
<1>4. \A k \in Handlers \ {h} : pc[k] = "idle"
  <2>1. CASE pc[h] # "idle"
    BY <2>1 DEF SInv, OneBusy
  <2>2. CASE pc[h] = "idle"
    <3>1. ReceiveRequest(h)
      BY <2>2, Zenon DEF LookupUser, RereadUser, LookupNamespace, RereadNamespace,
                         FindUser, RefindUser, CountProjects
    <3>2. pc'[h] # "idle"
      BY <1>1, <3>1 DEF ReceiveRequest, Goto
    <3>3. AllIdle
      BY <2>2, <3>2 DEF SerialNext, Serially
    <3> QED
      BY <3>3 DEF AllIdle
  <2> QED
    BY <2>1, <2>2
<1>5. pc[h] \notin Rebuilds \cup {"clear"}
  BY DEF ReceiveRequest, LookupUser, RereadUser, LookupNamespace, RereadNamespace,
         FindUser, RefindUser, CountProjects, Rebuilds
<1>6. UNCHANGED picture
  BY <1>3, <1>5, PictureStays
<1>7. upd[h] = NoUpdate
  BY <1>5 DEF SInv, Locals
<1>8. /\ pc'[h] \notin Rebuilds \cup {"clear"} \cup Returns
      /\ pc'[h] = "countProjects" => RefindUser(h)
      /\ upd' = [upd EXCEPT ![h] = NoUpdate] \/ upd' = upd
  <2>1. ASSUME NEW r, Answer(h, r)
        PROVE  pc'[h] = "idle" /\ upd' = [upd EXCEPT ![h] = NoUpdate]
    BY <1>1, <2>1 DEF Answer, Goto
  <2>2. ASSUME NEW r, CallUpdate(h, r)
        PROVE  pc'[h] = "getProjects" /\ upd' = upd
    BY <1>1, <2>2 DEF CallUpdate, Goto
  <2>3. CASE ReceiveRequest(h)
    BY <1>1, <2>3 DEF ReceiveRequest, Goto, Rebuilds, Returns
  <2>4. CASE LookupUser(h) \/ RereadUser(h)
    BY <2>1, <2>2, <2>4 DEF LookupUser, RereadUser, Rebuilds, Returns
  <2>5. CASE LookupNamespace(h) \/ RereadNamespace(h)
    BY <1>1, <2>1, <2>2, <2>5
    DEF LookupNamespace, RereadNamespace, WithProject, Goto, Rebuilds, Returns
  <2>6. CASE FindUser(h) \/ CountProjects(h)
    BY <2>1, <2>2, <2>6 DEF FindUser, CountProjects, PodReply, Rebuilds, Returns
  <2>7. CASE RefindUser(h)
    BY <1>1, <2>7 DEF RefindUser, Goto, Rebuilds, Returns
  <2> QED
    BY <2>3, <2>4, <2>5, <2>6, <2>7
<1>9. upd'[h] = NoUpdate /\ \A k \in Handlers \ {h} : upd'[k] = upd[k]
  BY <1>1, <1>7, <1>8
<1>10. Locals(h)' /\ Rebuilt(h)'
  BY <1>8, <1>9 DEF Locals, Rebuilt, NoUpdate, Rebuilds, Returns
<1>11. Fresh(h)'
  <2>1. CASE ~ RefindUser(h)
    BY <1>8, <2>1 DEF Fresh, Returns
  <2>2. CASE RefindUser(h)
    <3>1. PICK u \in IF UsersOf(target[h].project) = {} THEN {EmptyUser}
                     ELSE UsersOf(target[h].project) :
            target' = [target EXCEPT ![h].user = u]
      BY <2>2 DEF RefindUser
    <3>2. target'[h].user = u /\ target'[h].project = target[h].project
      BY <1>1, <3>1 DEF Target
    <3>3. \A p : UsersOf(p)' = UsersOf(p)
      BY <1>2 DEF UsersOf
    <3>4. picture = bindings /\ namespace2project = nsOf
      BY <2>2 DEF RefindUser, SInv, Fresh
    <3>5. LET p == target'[h].project
          IN  IF UsersOf(p) = {} THEN target'[h].user = EmptyUser
              ELSE target'[h].user \in UsersOf(p)
      BY <3>1, <3>2
    <3> QED
      BY <1>2, <1>6, <3>3, <3>4, <3>5 DEF Fresh
  <2> QED
    BY <2>1, <2>2
<1>12. AtRest'
  <2>1. ~ Rebuilding
    BY <1>4, <1>5 DEF Rebuilding, Rebuilds, Returns
  <2> QED
    BY <1>2, <1>6, <2>1 DEF SInv, AtRest, UsersHold, Cache
<1> QED
  BY <1>3, <1>4, <1>9, <1>10, <1>11, <1>12, OneMoves DEF SInv

-----------------------------------------------------------------------------
(* Steps of an update *)

LEMMA Alone ==
  ASSUME IInv, SInv, NEW h \in Handlers, Step(h), pc[h] # "idle"
  PROVE  \A k \in Handlers \ {h} : pc[k] = "idle" /\ pc'[k] = pc[k]
<1>1. pc \in [Handlers -> Labels]
  BY DEF IInv, TypeOK, HandlersTyped
<1> QED
  BY <1>1, PcMoves DEF SInv, OneBusy

LEMMA Types ==
  ASSUME IInv
  PROVE  /\ pc \in [Handlers -> Labels] /\ upd \in [Handlers -> Update]
         /\ ret \in [Handlers -> Returns] /\ sent \in [Handlers -> CacheCopy]
         /\ bindings \subseteq Binding /\ nsOf \in [Namespaces -> ProjectOrNone]
         /\ user2projects \in [Users -> Seq(UserProjectInfo)]
         /\ namespace2project \in [Namespaces -> ProjectOrNone]
         /\ NoProject \notin Projects /\ NoBinding \notin Binding
BY DirectoryAssumption, ControllerAssumption
DEF IInv, TypeOK, DirectoryTyped, CacheTyped, HandlersTyped

LEMMA GetProjectsStep ==
  ASSUME IInv, SInv, SerialNext, NEW h \in Handlers, GetProjects(h)
  PROVE  /\ \A k \in Handlers : (Locals(k) /\ Rebuilt(k) /\ Fresh(k))'
         /\ (Rebuilding \/ AtRest)'
<1>1. \A k \in Handlers \ {h} : pc[k] = "idle" /\ pc'[k] = pc[k]
  BY Alone DEF GetProjects, Step
<1>2. /\ pc[h] = "getProjects" /\ UNCHANGED <<directoryVars, cacheVars, opa>>
      /\ UpdateStep(h, "clear") /\ upd' = [upd EXCEPT ![h].todo = Projects]
  BY NoFaults, Zenon DEF GetProjects, CallFails, Brings, SerialNext
<1>3. UNCHANGED picture
  BY <1>1, <1>2, PictureStays
<1>4. upd[h] = NoUpdate
  BY <1>2 DEF SInv, Locals, Rebuilds
<1>5. /\ pc'[h] = "clear" /\ upd'[h] = [NoUpdate EXCEPT !.todo = Projects]
      /\ \A k \in Handlers \ {h} : upd'[k] = upd[k]
  BY <1>2, <1>4, Types DEF UpdateStep, Goto
<1>6. Locals(h)' /\ Rebuilt(h)' /\ Fresh(h)'
  BY <1>5 DEF Locals, Rebuilt, Fresh, Rebuilds, NoUpdate
<1>7. ~ Rebuilding
  BY <1>1, <1>2 DEF Rebuilding, Rebuilds
<1>8. AtRest'
  BY <1>2, <1>3, <1>7 DEF SInv, AtRest, UsersHold, Cache, cacheVars
<1> QED
  BY <1>1, <1>5, <1>6, <1>8, OneMoves DEF SInv

LEMMA ClearUsersStep ==
  ASSUME IInv, SInv, SerialNext, NEW h \in Handlers, ClearCache(h), pc[h] = "clear"
  PROVE  /\ \A k \in Handlers : (Locals(k) /\ Rebuilt(k) /\ Fresh(k))'
         /\ (Rebuilding \/ AtRest)'
<1>1. \A k \in Handlers \ {h} : pc[k] = "idle" /\ pc'[k] = pc[k]
  BY Alone DEF Step
<1>2. /\ UpdateStep(h, "clearSpaces") /\ user2projects' = ClearedUsers
      /\ UNCHANGED <<bindings, upd>>
  BY DEF ClearCache, directoryVars
<1>3. pc'[h] = "clearSpaces"
  BY <1>2, Types DEF UpdateStep, Goto
<1>4. picture' = bindings
  BY <1>3 DEF SerialNext, Empties
<1>5. upd[h].todo = Projects
  BY DEF SInv, Locals
<1>6. Listed(upd[h])' = {}
  BY <1>2, <1>5, Types DEF Listed, Binding
<1>7. UsersHold(Listed(upd[h]))'
  <2> SUFFICES ASSUME NEW u \in Users
               PROVE  Encodes(user2projects'[u], {b \in Listed(upd[h])' : b.user = u})
    BY DEF UsersHold
  <2>1. user2projects'[u] = <<>> /\ {b \in Listed(upd[h])' : b.user = u} = {}
    BY <1>2, <1>6 DEF ClearedUsers
  <2> QED
    BY <2>1, EncodesNone
<1>8. Locals(h)' /\ Fresh(h)'
  BY <1>2, <1>3 DEF SInv, Locals, Fresh, Rebuilds
<1>9. Rebuilt(h)'
  BY <1>2, <1>3, <1>4, <1>7 DEF Rebuilt
<1> QED
  BY <1>1, <1>2, <1>3, <1>8, <1>9, OneMoves DEF SInv, Rebuilds

LEMMA ClearSpacesStep ==
  ASSUME IInv, SInv, SerialNext, NEW h \in Handlers, ClearCache(h), pc[h] = "clearSpaces"
  PROVE  /\ \A k \in Handlers : (Locals(k) /\ Rebuilt(k) /\ Fresh(k))'
         /\ (Rebuilding \/ AtRest)'
<1>1. \A k \in Handlers \ {h} : pc[k] = "idle" /\ pc'[k] = pc[k]
  BY Alone DEF Step
<1>2. /\ UpdateStep(h, "eachProject") /\ namespace2project' = ClearedSpaces
      /\ UNCHANGED <<bindings, nsOf, upd, user2projects>>
  BY DEF ClearCache, directoryVars
<1>3. pc'[h] = "eachProject"
  BY <1>2, Types DEF UpdateStep, Goto
<1>4. UNCHANGED picture
  BY <1>1, PictureStays
<1>5. UsersHold(Listed(upd[h]))' /\ picture' = bindings'
  BY <1>2, <1>4 DEF SInv, Rebuilt, Rebuilds, UsersHold, Listed
<1>6. \A n \in Namespaces :
        namespace2project'[n] = IF Placed(h, n)' THEN nsOf'[n] ELSE NoProject
  <2>1. upd'[h].todo = Projects
    BY <1>2 DEF SInv, Locals
  <2> QED
    BY <1>2, <2>1, Types DEF Placed, ClearedSpaces, ProjectOrNone
<1>7. Locals(h)' /\ Fresh(h)'
  BY <1>2, <1>3 DEF SInv, Locals, Fresh, Rebuilds
<1>8. Rebuilt(h)'
  BY <1>3, <1>5, <1>6 DEF Rebuilt
<1> QED
  BY <1>1, <1>2, <1>3, <1>7, <1>8, OneMoves DEF SInv, Rebuilds

LEMMA VisitStep ==
  ASSUME IInv, SInv, SerialNext, NEW h \in Handlers, GetProjectMembers(h)
  PROVE  /\ \A k \in Handlers : (Locals(k) /\ Rebuilt(k) /\ Fresh(k))'
         /\ (Rebuilding \/ AtRest)'
<1>1. \A k \in Handlers \ {h} : pc[k] = "idle" /\ pc'[k] = pc[k]
  BY Alone DEF GetProjectMembers, Step
<1>2. PICK p \in upd[h].todo :
        /\ upd' = [upd EXCEPT ![h] = Visit(@, p, MembersOf(p))]
        /\ UpdateStep(h, "eachMember")
  BY NoFaults, Zenon DEF GetProjectMembers, CallFails, Brings, SerialNext
<1>3. /\ pc[h] = "eachProject"
      /\ UNCHANGED <<bindings, nsOf, user2projects, namespace2project>>
  BY Zenon DEF GetProjectMembers, directoryVars, cacheVars
<1>4. UNCHANGED picture
  BY <1>1, <1>3, PictureStays
<1>5. pc'[h] = "eachMember" /\ \A k \in Handlers \ {h} : upd'[k] = upd[k]
  BY <1>2, Types DEF UpdateStep, Goto
<1>6. /\ upd[h].members = {} /\ upd[h].item = NoBinding /\ upd[h].namespaces = {}
  BY <1>3 DEF SInv, Locals
<1>7. /\ upd'[h].todo = upd[h].todo \ {p} /\ upd'[h].project = p
      /\ upd'[h].members = MembersOf(p) /\ upd'[h].item = NoBinding
      /\ upd'[h].namespaces = {}
  BY <1>2, <1>6, Types DEF Visit, Update
<1>8. Listed(upd'[h]) = Listed(upd[h])
  BY <1>3, <1>6, <1>7 DEF Listed, MembersOf
<1>9. \A n \in Namespaces : Placed(h, n)' = Placed(h, n)
  BY <1>3, <1>5, <1>6, <1>7 DEF Placed
<1>10. Locals(h)' /\ Fresh(h)'
  BY <1>3, <1>5, <1>7 DEF Locals, Fresh, Rebuilds, MembersOf
<1>11. Rebuilt(h)'
  BY <1>3, <1>4, <1>5, <1>8, <1>9 DEF SInv, Rebuilt, UsersHold, Rebuilds, Listed
<1> QED
  BY <1>1, <1>5, <1>10, <1>11, OneMoves DEF SInv, Rebuilds

LEMMA TakeStep ==
  ASSUME IInv, SInv, SerialNext, NEW h \in Handlers, ReadUserProjects(h)
  PROVE  /\ \A k \in Handlers : (Locals(k) /\ Rebuilt(k) /\ Fresh(k))'
         /\ (Rebuilding \/ AtRest)'
<1>1. \A k \in Handlers \ {h} : pc[k] = "idle" /\ pc'[k] = pc[k]
  BY Alone DEF ReadUserProjects, Step
<1>2. PICK b \in upd[h].members :
        upd' = [upd EXCEPT ![h] = Take(@, b, user2projects[b.user])]
  BY Zenon DEF ReadUserProjects
<1>3. /\ pc[h] = "eachMember" /\ UpdateStep(h, "storeMember")
      /\ UNCHANGED <<bindings, nsOf, user2projects, namespace2project>>
  BY Zenon DEF ReadUserProjects, directoryVars, cacheVars
<1>4. UNCHANGED picture
  BY <1>1, <1>3, PictureStays
<1>5. /\ pc'[h] = "storeMember" /\ \A k \in Handlers \ {h} : upd'[k] = upd[k]
      /\ upd[h] \in Update
  BY <1>2, <1>3, Types DEF UpdateStep, Goto
<1>6. /\ upd[h].item = NoBinding /\ upd[h].namespaces = {}
      /\ upd[h].project \notin upd[h].todo
      /\ upd[h].members \subseteq MembersOf(upd[h].project)
  BY <1>3 DEF SInv, Locals
<1>7. /\ upd'[h].todo = upd[h].todo /\ upd'[h].project = upd[h].project
      /\ upd'[h].members = upd[h].members \ {b} /\ upd'[h].item = b
      /\ upd'[h].plist = user2projects[b.user] /\ upd'[h].namespaces = {}
  BY <1>2, <1>5, <1>6, Types DEF Take, Update
<1>8. Listed(upd'[h]) = Listed(upd[h])
  BY <1>6, <1>7, Types DEF Listed, MembersOf
<1>9. \A n \in Namespaces : Placed(h, n)' = Placed(h, n)
  BY <1>3, <1>5, <1>6, <1>7 DEF Placed
<1>10. Locals(h)' /\ Fresh(h)'
  BY <1>3, <1>5, <1>6, <1>7 DEF Locals, Fresh, Rebuilds, MembersOf
<1>11. Rebuilt(h)'
  BY <1>3, <1>4, <1>5, <1>8, <1>9 DEF SInv, Rebuilt, UsersHold, Rebuilds, Listed
<1> QED
  BY <1>1, <1>5, <1>10, <1>11, OneMoves DEF SInv, Rebuilds

LEMMA AppendStep ==
  ASSUME IInv, SInv, SerialNext, NEW h \in Handlers, StoreUserProjects(h)
  PROVE  /\ \A k \in Handlers : (Locals(k) /\ Rebuilt(k) /\ Fresh(k))'
         /\ (Rebuilding \/ AtRest)'
<1>1. \A k \in Handlers \ {h} : pc[k] = "idle" /\ pc'[k] = pc[k]
  BY Alone DEF StoreUserProjects, Step
<1> DEFINE b == upd[h].item
<1>2. /\ pc[h] = "storeMember" /\ UpdateStep(h, "eachMember")
      /\ user2projects' = [user2projects EXCEPT
                             ![b.user] = Append(upd[h].plist, InfoOf(b))]
      /\ upd' = [upd EXCEPT ![h] = Stored(@)]
      /\ UNCHANGED <<bindings, nsOf, namespace2project>>
  BY Zenon DEF StoreUserProjects, directoryVars
<1>3. UNCHANGED picture
  BY <1>1, <1>2, PictureStays
<1>4. /\ pc'[h] = "eachMember" /\ \A k \in Handlers \ {h} : upd'[k] = upd[k]
      /\ upd[h] \in Update
  BY <1>2, Types DEF UpdateStep, Goto
<1>5. /\ upd[h].namespaces = {} /\ upd[h].project \notin upd[h].todo
      /\ upd[h].members \subseteq MembersOf(upd[h].project)
      /\ b \in MembersOf(upd[h].project) \ upd[h].members
      /\ upd[h].plist = user2projects[b.user]
  BY <1>2 DEF SInv, Locals
<1>6. /\ upd'[h].todo = upd[h].todo /\ upd'[h].project = upd[h].project
      /\ upd'[h].members = upd[h].members /\ upd'[h].item = NoBinding
      /\ upd'[h].namespaces = {}
  BY <1>2, <1>4, <1>5, Types DEF Stored, Update
<1>7. /\ b \in Binding /\ b \in bindings /\ b.project \notin upd[h].todo
      /\ b.user \in Users
  BY <1>5, Types DEF MembersOf, Binding
<1>8. Listed(upd'[h]) = Listed(upd[h]) \cup {b} /\ b \notin Listed(upd[h])
  BY <1>2, <1>5, <1>6, <1>7, Types DEF Listed
<1>9. \A f : f = upd'[h] => UsersHold(Listed(f))'
  <2> SUFFICES ASSUME NEW u \in Users
               PROVE  Encodes(user2projects'[u], {c \in Listed(upd'[h]) : c.user = u})
    BY <1>2 DEF UsersHold, Listed
  <2>1. Encodes(user2projects[u], {c \in Listed(upd[h]) : c.user = u})
    BY <1>2 DEF SInv, Rebuilt, Rebuilds, UsersHold
  <2>2. CASE u # b.user
    <3>1. user2projects'[u] = user2projects[u]
      BY <1>2, <2>2, Types
    <3>2. {c \in Listed(upd'[h]) : c.user = u} = {c \in Listed(upd[h]) : c.user = u}
      BY <1>8, <2>2
    <3> QED
      BY <2>1, <3>1, <3>2
  <2>3. CASE u = b.user
    <3>1. user2projects'[u] = Append(user2projects[u], InfoOf(b))
      BY <1>2, <1>5, <2>3, Types
    <3>2. /\ {c \in Listed(upd'[h]) : c.user = u}
               = {c \in Listed(upd[h]) : c.user = u} \cup {b}
          /\ b \notin {c \in Listed(upd[h]) : c.user = u}
          /\ {c \in Listed(upd[h]) : c.user = u} \in SUBSET Binding
          /\ user2projects[u] \in Seq(UserProjectInfo)
      BY <1>8, <2>3, Types DEF Listed
    <3> HIDE DEF b
    <3> QED
      BY <1>7, <2>1, <3>1, <3>2, EncodesMore
  <2> QED
    BY <2>2, <2>3
<1>10. \A n \in Namespaces : Placed(h, n)' = Placed(h, n)
  BY <1>2, <1>4, <1>5, <1>6 DEF Placed
<1>11. Locals(h)' /\ Fresh(h)'
  BY <1>2, <1>4, <1>5, <1>6 DEF Locals, Fresh, Rebuilds, MembersOf
<1>12. Rebuilt(h)'
  <2>1. UsersHold(Listed(upd[h]))'
    BY <1>9 DEF UsersHold, Listed
  <2> QED
    BY <1>2, <1>3, <1>4, <1>10, <2>1 DEF SInv, Rebuilt, Rebuilds
<1> QED
  BY <1>1, <1>4, <1>11, <1>12, OneMoves DEF SInv, Rebuilds

LEMMA ListSpacesStep ==
  ASSUME IInv, SInv, SerialNext, NEW h \in Handlers, GetProjectNamespaces(h)
  PROVE  /\ \A k \in Handlers : (Locals(k) /\ Rebuilt(k) /\ Fresh(k))'
         /\ (Rebuilding \/ AtRest)'
<1>1. \A k \in Handlers \ {h} : pc[k] = "idle" /\ pc'[k] = pc[k]
  BY Alone DEF GetProjectNamespaces, Step
<1> DEFINE p  == upd[h].project
           ns == NamespacesOf(p)
<1>2. /\ pc[h] = "eachMember" /\ upd[h].members = {}
      /\ upd' = [upd EXCEPT ![h].namespaces = ns]
      /\ UpdateStep(h, AfterNamespaces(ns))
      /\ UNCHANGED <<bindings, nsOf, user2projects, namespace2project>>
  BY NoFaults, Zenon
  DEF GetProjectNamespaces, CallFails, Brings, SerialNext, directoryVars, cacheVars
<1>3. UNCHANGED picture
  BY <1>1, <1>2, PictureStays
<1>4. /\ pc'[h] = AfterNamespaces(ns) /\ \A k \in Handlers \ {h} : upd'[k] = upd[k]
      /\ upd[h] \in Update
  BY <1>2, Types DEF UpdateStep, Goto
<1>5. /\ upd[h].namespaces = {} /\ upd[h].project \notin upd[h].todo
      /\ upd[h].item = NoBinding
  BY <1>2 DEF SInv, Locals
<1>6. /\ upd'[h].todo = upd[h].todo /\ upd'[h].project = upd[h].project
      /\ upd'[h].members = {} /\ upd'[h].item = NoBinding
      /\ upd'[h].namespaces = ns
  BY <1>2, <1>4, <1>5, Types DEF Update
<1>7. Listed(upd'[h]) = Listed(upd[h])
  BY <1>2, <1>5, <1>6 DEF Listed
<1>8. \A n \in Namespaces : Placed(h, n)' = Placed(h, n)
  BY <1>2, <1>4, <1>5, <1>6 DEF Placed, AfterNamespaces, NamespacesOf
<1>9. Locals(h)' /\ Fresh(h)'
  BY <1>2, <1>4, <1>5, <1>6 DEF Locals, Fresh, Rebuilds, NamespacesOf, AfterNamespaces
<1>10. Rebuilt(h)'
  BY <1>2, <1>3, <1>4, <1>7, <1>8
  DEF SInv, Rebuilt, UsersHold, Rebuilds, Listed, AfterNamespaces
<1> QED
  BY <1>1, <1>4, <1>9, <1>10, OneMoves DEF SInv, Rebuilds, AfterNamespaces

LEMMA PlaceStep ==
  ASSUME IInv, SInv, SerialNext, NEW h \in Handlers, StoreNamespace(h)
  PROVE  /\ \A k \in Handlers : (Locals(k) /\ Rebuilt(k) /\ Fresh(k))'
         /\ (Rebuilding \/ AtRest)'
<1>1. \A k \in Handlers \ {h} : pc[k] = "idle" /\ pc'[k] = pc[k]
  BY Alone DEF StoreNamespace, Step
<1>2. PICK m \in upd[h].namespaces :
        /\ namespace2project' = [namespace2project EXCEPT ![m] = upd[h].project]
        /\ upd' = [upd EXCEPT ![h].namespaces = @ \ {m}]
        /\ UpdateStep(h, AfterNamespaces(upd[h].namespaces \ {m}))
  BY Zenon DEF StoreNamespace
<1>3. pc[h] = "eachNamespace" /\ UNCHANGED <<bindings, nsOf, user2projects>>
  BY Zenon DEF StoreNamespace, directoryVars
<1>4. UNCHANGED picture
  BY <1>1, <1>3, PictureStays
<1>5. /\ pc'[h] = AfterNamespaces(upd[h].namespaces \ {m})
      /\ \A k \in Handlers \ {h} : upd'[k] = upd[k]
      /\ upd[h] \in Update
  BY <1>2, Types DEF UpdateStep, Goto
<1>6. /\ upd[h].members = {} /\ upd[h].item = NoBinding
      /\ upd[h].project \notin upd[h].todo
      /\ upd[h].namespaces \subseteq NamespacesOf(upd[h].project)
  BY <1>3 DEF SInv, Locals
<1>7. /\ upd'[h].todo = upd[h].todo /\ upd'[h].project = upd[h].project
      /\ upd'[h].members = {} /\ upd'[h].item = NoBinding
      /\ upd'[h].namespaces = upd[h].namespaces \ {m}
  BY <1>2, <1>5, <1>6, Types DEF Update
<1>8. Listed(upd'[h]) = Listed(upd[h])
  BY <1>6, <1>7 DEF Listed
<1>9. m \in Namespaces /\ nsOf[m] = upd[h].project
  BY <1>6 DEF NamespacesOf
<1>10. ASSUME NEW n \in Namespaces
       PROVE  namespace2project'[n] = IF Placed(h, n)' THEN nsOf'[n] ELSE NoProject
  <2>1. namespace2project[n] = IF Placed(h, n) THEN nsOf[n] ELSE NoProject
    BY <1>3 DEF SInv, Rebuilt, Rebuilds
  <2>2. CASE n = m
    BY <1>2, <1>3, <1>5, <1>6, <1>7, <1>9, <2>2, Types DEF Placed, AfterNamespaces
  <2>3. CASE n # m
    BY <1>2, <1>3, <1>5, <1>7, <2>1, <2>3, Types DEF Placed, AfterNamespaces
  <2> QED
    BY <2>2, <2>3
<1>11. Locals(h)' /\ Fresh(h)'
  BY <1>3, <1>5, <1>6, <1>7 DEF Locals, Fresh, Rebuilds, NamespacesOf, AfterNamespaces
<1>12. Rebuilt(h)'
  BY <1>3, <1>4, <1>5, <1>8, <1>10
  DEF SInv, Rebuilt, UsersHold, Rebuilds, Listed, AfterNamespaces
<1> QED
  BY <1>1, <1>5, <1>11, <1>12, OneMoves DEF SInv, Rebuilds, AfterNamespaces

LEMMA MarshalStep ==
  ASSUME IInv, SInv, SerialNext, NEW h \in Handlers, MarshalCache(h)
  PROVE  /\ \A k \in Handlers : (Locals(k) /\ Rebuilt(k) /\ Fresh(k))'
         /\ (Rebuilding \/ AtRest)'
<1>1. \A k \in Handlers \ {h} : pc[k] = "idle" /\ pc'[k] = pc[k]
  BY Alone DEF MarshalCache, Step
<1>2. /\ pc[h] = "eachProject" /\ upd[h].todo = {}
      /\ sent' = [sent EXCEPT ![h] = Cache] /\ Goto(h, "put")
      /\ UNCHANGED <<bindings, nsOf, user2projects, namespace2project, upd>>
  BY Zenon DEF MarshalCache, directoryVars, cacheVars, Cache
<1>3. UNCHANGED picture
  BY <1>1, <1>2, PictureStays
<1>4. pc'[h] = "put" /\ sent'[h] = Cache /\ Cache' = Cache
  BY <1>2, Types DEF Goto, Cache
<1>5. \A n \in Namespaces : Placed(h, n)' = Placed(h, n)
  BY <1>2, <1>4 DEF Placed
<1>6. Locals(h)' /\ Fresh(h)'
  BY <1>2, <1>4 DEF SInv, Locals, Fresh, Rebuilds
<1>7. Rebuilt(h)'
  BY <1>2, <1>3, <1>4, <1>5 DEF SInv, Rebuilt, UsersHold, Rebuilds, Listed
<1> QED
  BY <1>1, <1>2, <1>4, <1>6, <1>7, OneMoves DEF SInv, Rebuilds

\* When the update ends, the cache is the directory.
LEMMA UpToDate ==
  ASSUME IInv, SInv, NEW h \in Handlers, pc[h] = "put"
  PROVE  /\ namespace2project = nsOf /\ Listed(upd[h]) = bindings
         /\ picture = bindings /\ UsersHold(picture) /\ sent[h] = Cache
<1>1. /\ upd[h].todo = {} /\ upd[h].members = {} /\ upd[h].item = NoBinding
      /\ upd[h].namespaces = {} /\ sent[h] = Cache
  BY DEF SInv, Locals
<1>2. \A n \in Namespaces : Placed(h, n)
  BY <1>1 DEF Placed
<1>3. \A n \in Namespaces : namespace2project[n] = nsOf[n]
  BY <1>2 DEF SInv, Rebuilt, Rebuilds
<1>4. namespace2project = nsOf
  BY <1>3, Types
<1>5. Listed(upd[h]) = bindings
  BY <1>1, Types DEF Listed
<1> QED
  BY <1>1, <1>4, <1>5 DEF SInv, Rebuilt, Rebuilds

LEMMA PutStep ==
  ASSUME IInv, SInv, SerialNext, NEW h \in Handlers, PutToOPA(h)
  PROVE  /\ \A k \in Handlers : (Locals(k) /\ Rebuilt(k) /\ Fresh(k))'
         /\ (Rebuilding \/ AtRest)'
<1>1. \A k \in Handlers \ {h} : pc[k] = "idle" /\ pc'[k] = pc[k]
  BY Alone DEF PutToOPA, Step
<1>2. /\ pc[h] = "put" /\ opa' = sent[h] /\ ReturnFromUpdate(h)
      /\ UNCHANGED <<bindings, nsOf, user2projects, namespace2project>>
  BY NoFaults, Zenon DEF PutToOPA, SerialNext, directoryVars, cacheVars
<1>3. UNCHANGED picture
  BY <1>1, <1>2, PictureStays
<1>4. /\ pc'[h] = ret[h] /\ ret[h] \in Returns /\ upd'[h] = NoUpdate
      /\ \A k \in Handlers \ {h} : upd'[k] = upd[k]
  BY <1>2, Types DEF ReturnFromUpdate, Goto
<1>5. /\ namespace2project = nsOf /\ picture = bindings
      /\ UsersHold(picture) /\ sent[h] = Cache
  BY <1>2, UpToDate
<1>6. Locals(h)' /\ Rebuilt(h)' /\ Fresh(h)'
  BY <1>2, <1>3, <1>4, <1>5 DEF Locals, Rebuilt, Fresh, Returns, Rebuilds, NoUpdate
<1>7. AtRest'
  BY <1>2, <1>3, <1>5 DEF AtRest, UsersHold, Cache
<1> QED
  BY <1>1, <1>4, <1>6, <1>7, OneMoves DEF SInv

-----------------------------------------------------------------------------
(* The invariant *)

LEMMA SerialInitially == SerialInit => SInv
<1> SUFFICES ASSUME SerialInit PROVE SInv
  OBVIOUS
<1>1. /\ AllIdle /\ upd = [h \in Handlers |-> NoUpdate]
      /\ pc = [h \in Handlers |-> "idle"]
      /\ picture = {} /\ user2projects = ClearedUsers /\ opa = Cache
  BY DEF SerialInit, Init, AllIdle, Cache, ClearedCopy
<1>2. UsersHold(picture)
  <2> SUFFICES ASSUME NEW u \in Users
               PROVE  Encodes(user2projects[u], {b \in picture : b.user = u})
    BY DEF UsersHold
  <2>1. user2projects[u] = <<>> /\ {b \in picture : b.user = u} = {}
    BY <1>1 DEF ClearedUsers
  <2> QED
    BY <2>1, EncodesNone
<1> QED
  BY <1>1, <1>2
  DEF SInv, OneBusy, AllIdle, Locals, Rebuilt, Fresh, AtRest, NoUpdate, Rebuilds

LEMMA UpdateStepInv ==
  ASSUME IInv, SInv, SerialNext, NEW h \in Handlers, ReceiveRequest(h) \/ Step(h)
  PROVE  /\ \A k \in Handlers : (Locals(k) /\ Rebuilt(k) /\ Fresh(k))'
         /\ (Rebuilding \/ AtRest)'
<1>1. CASE \/ ReceiveRequest(h) \/ LookupUser(h) \/ RereadUser(h) \/ LookupNamespace(h)
           \/ RereadNamespace(h) \/ FindUser(h) \/ RefindUser(h) \/ CountProjects(h)
  BY <1>1, LookupStep
<1>2. CASE GetProjects(h)
  BY <1>2, GetProjectsStep
<1>3. CASE ClearCache(h)
  <2>1. pc[h] = "clear" \/ pc[h] = "clearSpaces"
    BY <1>3 DEF ClearCache
  <2> QED
    BY <1>3, <2>1, ClearUsersStep, ClearSpacesStep
<1>4. CASE GetProjectMembers(h)
  BY <1>4, VisitStep
<1>5. CASE ReadUserProjects(h)
  BY <1>5, TakeStep
<1>6. CASE StoreUserProjects(h)
  BY <1>6, AppendStep
<1>7. CASE GetProjectNamespaces(h)
  BY <1>7, ListSpacesStep
<1>8. CASE StoreNamespace(h)
  BY <1>8, PlaceStep
<1>9. CASE MarshalCache(h)
  BY <1>9, MarshalStep
<1>10. CASE PutToOPA(h)
  BY <1>10, PutStep
<1> QED
  BY <1>1, <1>2, <1>3, <1>4, <1>5, <1>6, <1>7, <1>8, <1>9, <1>10, Zenon DEF Step

\* The directory changes, which matters only while nobody looks.
LEMMA ChangeStep ==
  ASSUME IInv, SInv, SerialNext,
         ChangeDirectory \/ \E h \in Handlers : CreateNamespace(h)
  PROVE  /\ \A k \in Handlers : (Locals(k) /\ Rebuilt(k) /\ Fresh(k))'
         /\ (Rebuilding \/ AtRest)'
<1>1. UNCHANGED <<cacheVars, opa, pc, localVars>>
  BY Zenon DEF ChangeDirectory, CreateNamespace, SetDirectory
<1>2. UNCHANGED <<user2projects, namespace2project, opa, pc, upd, target, sent>>
  BY <1>1 DEF cacheVars, localVars
<1>3. UNCHANGED picture
  BY <1>2 DEF SerialNext, Empties
<1>4. CASE UNCHANGED <<bindings, nsOf>>
  <2>1. ASSUME NEW k \in Handlers PROVE (Locals(k) /\ Rebuilt(k) /\ Fresh(k))'
    <3>1. Locals(k)'
      BY <1>2, <1>4 DEF SInv, Locals, MembersOf, NamespacesOf, Cache
    <3>2. Rebuilt(k)'
      BY <1>2, <1>3, <1>4 DEF SInv, Rebuilt, UsersHold, Listed, Placed
    <3>3. Fresh(k)'
      BY <1>2, <1>3, <1>4 DEF SInv, Fresh, UsersOf
    <3> QED
      BY <3>1, <3>2, <3>3
  <2> QED
    BY <1>2, <1>3, <2>1 DEF SInv, Rebuilding, AtRest, UsersHold, Cache
<1>5. CASE AllIdle
  <2>1. ASSUME NEW k \in Handlers PROVE (Locals(k) /\ Rebuilt(k) /\ Fresh(k))'
    BY <1>2, <1>5 DEF SInv, AllIdle, Locals, Rebuilt, Fresh, Rebuilds, NoUpdate
  <2>2. ~ Rebuilding
    BY <1>5 DEF AllIdle, Rebuilding, Rebuilds
  <2> QED
    BY <1>2, <1>3, <2>1, <2>2 DEF SInv, AtRest, UsersHold, Cache
<1> QED
  BY <1>4, <1>5 DEF SerialNext, Serially

LEMMA SerialStep ==
  ASSUME IInv, SInv, [SerialNext]_serialVars
  PROVE  SInv'
<1>1. OneBusy'
  BY OneBusyStep DEF SInv
<1>2. CASE UNCHANGED serialVars
  <2>1. /\ UNCHANGED <<bindings, nsOf, user2projects, namespace2project, opa, pc>>
        /\ UNCHANGED <<upd, target, sent, picture>>
    BY <1>2 DEF serialVars, vars, directoryVars, cacheVars, localVars
  <2>2. ASSUME NEW k \in Handlers PROVE (Locals(k) /\ Rebuilt(k) /\ Fresh(k))'
    <3>1. Locals(k)'
      BY <2>1 DEF SInv, Locals, MembersOf, NamespacesOf, Cache
    <3>2. Rebuilt(k)'
      BY <2>1 DEF SInv, Rebuilt, UsersHold, Listed, Placed
    <3>3. Fresh(k)'
      BY <2>1 DEF SInv, Fresh, UsersOf
    <3> QED
      BY <3>1, <3>2, <3>3
  <2> QED
    BY <1>1, <2>1, <2>2 DEF SInv, Rebuilding, AtRest, UsersHold, Cache
<1>3. CASE SerialNext
  <2>1. ~ (CrashOnMapRace \/ Restart)
    BY <1>3, NoReset DEF SerialNext, SInv
  <2> QED
    BY <1>1, <1>3, <2>1, UpdateStepInv, ChangeStep DEF SInv, SerialNext, Next
<1> QED
  BY <1>2, <1>3

\* A behaviour of the serial controller is one of the controller.
LEMMA SerialIsController == SerialSpec => Spec
<1>1. SerialInit => Init
  BY DEF SerialInit
<1>2. [SerialNext]_serialVars => [Next]_vars
  BY DEF SerialNext, serialVars
<1> QED
  BY <1>1, <1>2, PTL DEF SerialSpec, Spec

\* Between requests every list of the cache has one entry for each binding that its
\* user had when the cache was last emptied; during an update, one for each that the
\* update has come to.
THEOREM SerialInvariance == SerialSpec => []SInv
<1>1. IInv /\ SInv /\ [SerialNext]_serialVars => SInv'
  BY SerialStep
<1> QED
  BY <1>1, SerialInitially, SerialIsController, Invariance, PTL DEF SerialSpec

\* Whenever no request is served, what OPA has is what the cache has.
THEOREM OpaHasTheCache == SerialSpec => []OpaMirrorsCache
<1>1. SInv => OpaMirrorsCache
  <2> SUFFICES ASSUME SInv, AllIdle PROVE opa = Cache
    BY DEF OpaMirrorsCache, Cache
  <2>1. ~ Rebuilding
    BY DEF AllIdle, Rebuilding, Rebuilds
  <2> QED
    BY <2>1 DEF SInv, AtRest
<1> QED
  BY <1>1, SerialInvariance, PTL
=============================================================================
