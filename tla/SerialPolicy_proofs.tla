------------------------- MODULE SerialPolicy_proofs -------------------------
(***************************************************************************)
(* For every set of handlers, users, projects, roles and namespaces: the   *)
(* serial controller implements the policy.  What is looked up entry by    *)
(* entry in a cache that an update empties and fills again is what the     *)
(* policy reads off one picture of the directory.                          *)
(***************************************************************************)
EXTENDS SerialController_proofs

-----------------------------------------------------------------------------
(* Pods that have no project yet *)

\* A project is noted only for the search of a user who is in it.
Unplaced(h) == target[h].project # NoProject =>
  \/ pc[h] \in {"findUser", "refindUser", "countProjects"}
  \/ pc[h] \in Updating /\ ret[h] = "refindUser"

LEMMA UnplacedMove ==
  ASSUME IInv, NEW h \in Handlers, Unplaced(h), ReceiveRequest(h) \/ Step(h)
  PROVE  Unplaced(h)'
<1>1. /\ pc \in [Handlers -> Labels] /\ target \in [Handlers -> Target]
      /\ ret \in [Handlers -> Returns]
  BY DEF IInv, TypeOK, HandlersTyped
<1>2. ASSUME NEW r, Answer(h, r) PROVE Unplaced(h)'
  BY <1>1, <1>2 DEF Answer, Unplaced, NoTarget
<1>3. ASSUME NEW r, CallUpdate(h, r), UNCHANGED target,
             target[h].project # NoProject => r = "refindUser"
      PROVE  Unplaced(h)'
  BY <1>1, <1>3 DEF CallUpdate, Goto, Unplaced, Updating
<1>4. ASSUME NEW r \in Updating, UpdateStep(h, r), pc[h] \in Updating
      PROVE  Unplaced(h)'
  BY <1>1, <1>4 DEF UpdateStep, Goto, Unplaced, Updating
<1>5. ASSUME CallFails(h) PROVE Unplaced(h)'
  BY <1>2, <1>5 DEF CallFails, FailUpdate
<1>6. CASE ReceiveRequest(h)
  BY <1>1, <1>6 DEF ReceiveRequest, Goto, Unplaced, Updating
<1>7. CASE LookupUser(h) \/ RereadUser(h)
  BY <1>2, <1>3, <1>7 DEF LookupUser, RereadUser, Unplaced, Updating
<1>8. CASE LookupNamespace(h) \/ RereadNamespace(h)
  <2>1. target[h].project = NoProject
    BY <1>8 DEF LookupNamespace, RereadNamespace, Unplaced, Updating
  <2>2. ASSUME NEW p, WithProject(h, p) PROVE Unplaced(h)'
    BY <1>1, <1>2, <2>2 DEF WithProject, Goto, Unplaced
  <2> QED
    BY <1>3, <1>8, <2>1, <2>2 DEF LookupNamespace, RereadNamespace
<1>9. CASE FindUser(h) \/ CountProjects(h)
  BY <1>2, <1>3, <1>9 DEF FindUser, CountProjects, PodReply
<1>10. CASE RefindUser(h)
  BY <1>1, <1>10 DEF RefindUser, Goto, Unplaced
<1>11. CASE GetProjects(h) \/ ClearCache(h) \/ GetProjectMembers(h) \/ ReadUserProjects(h)
  BY <1>4, <1>5, <1>11
  DEF GetProjects, ClearCache, GetProjectMembers, ReadUserProjects, Updating
<1>12. CASE StoreUserProjects(h) \/ GetProjectNamespaces(h) \/ StoreNamespace(h)
  BY <1>4, <1>5, <1>12
  DEF StoreUserProjects, GetProjectNamespaces, StoreNamespace, AfterNamespaces, Updating
<1>13. CASE MarshalCache(h)
  BY <1>1, <1>13 DEF MarshalCache, Goto, Unplaced, Updating
<1>14. CASE PutToOPA(h)
  <2>1. CASE ReturnFromUpdate(h)
    BY <1>1, <1>14, <2>1 DEF PutToOPA, ReturnFromUpdate, Goto, Unplaced
  <2> QED
    BY <1>2, <1>14, <2>1 DEF PutToOPA
<1> QED
  BY <1>6, <1>7, <1>8, <1>9, <1>10, <1>11, <1>12, <1>13, <1>14, Zenon DEF Step

\* Nobody but the handler that moves changes where a pod is.
LEMMA TargetMoves ==
  ASSUME NEW h \in Handlers, ReceiveRequest(h) \/ Step(h)
  PROVE  /\ UNCHANGED target \/ \E t : target' = [target EXCEPT ![h] = t]
         /\ UNCHANGED ret \/ \E r : ret' = [ret EXCEPT ![h] = r]
         /\ UNCHANGED req \/ \E r : ReceiveRequest(h) /\ req' = [req EXCEPT ![h] = r]
<1> DEFINE Moved ==
      /\ UNCHANGED target \/ \E t : target' = [target EXCEPT ![h] = t]
      /\ UNCHANGED ret \/ \E r : ret' = [ret EXCEPT ![h] = r]
      /\ UNCHANGED req \/ \E r : ReceiveRequest(h) /\ req' = [req EXCEPT ![h] = r]
<1>1. ASSUME NEW r, Answer(h, r) PROVE Moved
  BY <1>1, Zenon DEF Answer
<1>2. ASSUME NEW r, CallUpdate(h, r), UNCHANGED target PROVE Moved
  BY <1>2, Zenon DEF CallUpdate
<1>3. ASSUME NEW r, UpdateStep(h, r) PROVE Moved
  BY <1>3, Zenon DEF UpdateStep
<1>4. ASSUME CallFails(h) PROVE Moved
  BY <1>1, <1>4, Zenon DEF CallFails, FailUpdate
<1>5. CASE ReceiveRequest(h)
  BY <1>5, Zenon DEF ReceiveRequest
<1>6. CASE LookupUser(h) \/ RereadUser(h) \/ FindUser(h) \/ CountProjects(h)
  BY <1>1, <1>2, <1>6, Zenon DEF LookupUser, RereadUser, FindUser, CountProjects, PodReply
<1>7. CASE LookupNamespace(h) \/ RereadNamespace(h)
  <2>1. ASSUME NEW p, WithProject(h, p) PROVE Moved
    BY <1>1, <2>1, Zenon DEF WithProject
  <2> QED
    BY <1>2, <1>7, <2>1, Zenon DEF LookupNamespace, RereadNamespace
<1>8. CASE RefindUser(h) \/ MarshalCache(h)
  BY <1>8, Zenon DEF RefindUser, MarshalCache
<1>9. CASE GetProjects(h) \/ GetProjectMembers(h) \/ GetProjectNamespaces(h)
  BY <1>3, <1>4, <1>9, Zenon DEF GetProjects, GetProjectMembers, GetProjectNamespaces
<1>10. CASE \/ ClearCache(h) \/ ReadUserProjects(h)
            \/ StoreUserProjects(h) \/ StoreNamespace(h)
  BY <1>3, <1>10, Zenon DEF ClearCache, ReadUserProjects, StoreUserProjects, StoreNamespace
<1>11. CASE PutToOPA(h)
  BY <1>1, <1>11, Zenon DEF PutToOPA, ReturnFromUpdate
<1> QED
  BY <1>5, <1>6, <1>7, <1>8, <1>9, <1>10, <1>11, Zenon DEF Step

LEMMA UnplacedStep ==
  ASSUME IInv, SInv, \A h \in Handlers : Unplaced(h), [SerialNext]_serialVars
  PROVE  \A h \in Handlers : Unplaced(h)'
<1> SUFFICES ASSUME NEW k \in Handlers PROVE Unplaced(k)'
  OBVIOUS
<1>1. CASE UNCHANGED <<pc, ret, target>>
  BY <1>1 DEF Unplaced
<1>2. CASE \E h \in Handlers : ReceiveRequest(h) \/ Step(h)
  <2>1. PICK h \in Handlers : ReceiveRequest(h) \/ Step(h)
    BY <1>2
  <2>2. CASE k = h
    BY <2>1, <2>2, UnplacedMove
  <2>3. CASE k # h
    <3>1. /\ pc \in [Handlers -> Labels] /\ target \in [Handlers -> Target]
          /\ ret \in [Handlers -> Returns]
      BY DEF IInv, TypeOK, HandlersTyped
    <3>2. pc'[k] = pc[k]
      BY <2>1, <2>3, <3>1, PcMoves
    <3>3. target'[k] = target[k] /\ ret'[k] = ret[k]
      BY <2>1, <2>3, <3>1, TargetMoves
    <3> QED
      BY <3>2, <3>3 DEF Unplaced
  <2> QED
    BY <2>2, <2>3
<1>3. CASE SerialNext /\ (ChangeDirectory \/ \E h \in Handlers : CreateNamespace(h))
  <2>1. UNCHANGED <<pc, localVars>>
    BY <1>3, Zenon DEF ChangeDirectory, CreateNamespace, SetDirectory
  <2> QED
    BY <1>1, <2>1 DEF localVars
<1>4. CASE SerialNext /\ (CrashOnMapRace \/ Restart)
  BY <1>4, NoReset DEF SerialNext, SInv
<1>5. CASE UNCHANGED serialVars
  BY <1>1, <1>5 DEF serialVars, vars, localVars
<1> QED
  BY <1>2, <1>3, <1>4, <1>5, Zenon DEF SerialNext, Next

LEMMA PodsUnplaced == SerialSpec => [](\A h \in Handlers : Unplaced(h))
<1>1. SerialInit => \A h \in Handlers : Unplaced(h)
  BY DEF SerialInit, Init, Unplaced, NoTarget
<1>2. /\ IInv /\ SInv /\ (\A h \in Handlers : Unplaced(h)) /\ [SerialNext]_serialVars
      => (\A h \in Handlers : Unplaced(h))'
  BY UnplacedStep
<1> QED
  BY <1>1, <1>2, SerialInvariance, SerialIsController, Invariance, PTL DEF SerialSpec

-----------------------------------------------------------------------------
(* What a list of the cache says, and the bindings it encodes *)

\* The reply that follows from a user's list is the one that the policy gives who has
\* the bindings bs.
ReplyFollows(plist, bs, n) ==
  \/ /\ ~ \E b \in bs : bs = {b} /\ b.role # Owner
     /\ NamespaceReply(plist, n) = Ignore
  \/ \E b \in bs :
       /\ bs = {b} /\ b.role # Owner
       /\ NamespaceReply(plist, n) =
            [verdict |-> IF <<n, b.project>> \in HasPrefix THEN "annotate" ELSE "deny",
             project |-> b.project]

LEMMA ReplyIsPolicy ==
  ASSUME NEW plist \in Seq(UserProjectInfo), NEW bs \in SUBSET Binding,
         Encodes(plist, bs), NEW n
  PROVE  ReplyFollows(plist, bs, n)
<1>1. PICK e \in [DOMAIN plist -> bs] :
        /\ \A b \in bs : \E i \in DOMAIN plist : e[i] = b
        /\ \A i, j \in DOMAIN plist : e[i] = e[j] => i = j
        /\ \A i \in DOMAIN plist : plist[i] = InfoOf(e[i])
  BY DEF Encodes
<1>2. Len(plist) \in Nat /\ DOMAIN plist = 1..Len(plist)
  OBVIOUS
<1>3. CASE Len(plist) = 1
  <2>1. 1 \in DOMAIN plist /\ e[1] \in bs /\ plist[1] = InfoOf(e[1])
    BY <1>1, <1>2, <1>3
  <2>2. bs = {e[1]}
    BY <1>1, <1>2, <1>3, <2>1
  <2>3. plist[1].isOwner = (e[1].role = Owner) /\ plist[1].project = e[1].project
    BY <2>1 DEF InfoOf
  <2>4. CASE e[1].role = Owner
    BY <2>2, <2>3, <2>4 DEF NamespaceReply, ReplyFollows
  <2>5. CASE e[1].role # Owner
    BY <1>3, <2>1, <2>2, <2>3, <2>5 DEF NamespaceReply, ReplyFollows
  <2> QED
    BY <2>4, <2>5
<1>4. CASE Len(plist) # 1
  <2>1. ASSUME NEW b \in bs, bs = {b} PROVE FALSE
    <3>1. CASE Len(plist) = 0
      BY <1>1, <1>2, <3>1
    <3>2. CASE 2 <= Len(plist)
      <4>1. 1 \in DOMAIN plist /\ 2 \in DOMAIN plist
        BY <1>2, <3>2
      <4>2. e[1] = b /\ e[2] = b
        BY <1>1, <2>1, <4>1
      <4> QED
        BY <1>1, <4>1, <4>2
    <3> QED
      BY <1>2, <1>4, <3>1, <3>2
  <2> QED
    BY <1>4, <2>1 DEF NamespaceReply, ReplyFollows
<1> QED
  BY <1>3, <1>4

LEMMA EntryIsBinding ==
  ASSUME NEW plist \in Seq(UserProjectInfo), NEW bs, Encodes(plist, bs),
         NEW i \in DOMAIN plist
  PROVE  \E b \in bs : b.project = plist[i].project /\ plist[i].isOwner = (b.role = Owner)
BY DEF Encodes, InfoOf

LEMMA BindingHasEntry ==
  ASSUME NEW plist \in Seq(UserProjectInfo), NEW bs, Encodes(plist, bs), NEW b \in bs
  PROVE  \E i \in DOMAIN plist : plist[i].project = b.project
BY DEF Encodes, InfoOf

LEMMA EmptyList ==
  ASSUME NEW plist \in Seq(UserProjectInfo), NEW bs, Encodes(plist, bs)
  PROVE  plist = <<>> <=> bs = {}
<1>1. Len(plist) \in Nat /\ DOMAIN plist = 1..Len(plist)
  OBVIOUS
<1>2. plist = <<>> <=> DOMAIN plist = {}
  <2>1. Len(plist) = 0 => plist = <<>>
    OBVIOUS
  <2>2. DOMAIN plist = {} => Len(plist) = 0
    BY <1>1
  <2>3. DOMAIN <<>> = {}
    OBVIOUS
  <2> QED
    BY <2>1, <2>2, <2>3
<1>3. PICK e \in [DOMAIN plist -> bs] : \A b \in bs : \E i \in DOMAIN plist : e[i] = b
  BY DEF Encodes
<1>4. \A i \in DOMAIN plist : e[i] \in bs
  BY <1>3
<1>5. DOMAIN plist = {} <=> bs = {}
  BY <1>3, <1>4, Zenon
<1> QED
  BY <1>2, <1>5, Zenon

-----------------------------------------------------------------------------
(* What a step leaves alone *)

LEMMA PolicyWords ==
  /\ Policy!None = NoRequest /\ Policy!NoReply = NoReply /\ Policy!Ignore = Ignore
  /\ Policy!Request = Request /\ Policy!Binding = Binding
  /\ Policy!ProjectOrNone = ProjectOrNone
BY DEF Policy!None, NoRequest, Policy!NoReply, NoReply, Policy!Ignore, Ignore, Policy!Says,
       Says, Policy!Request, Request, Policy!NamespaceRequest, NamespaceRequest,
       Policy!PodRequest, PodRequest, Policy!Binding, Binding,
       Policy!ProjectOrNone, ProjectOrNone

\* The steps that look something up, or ask Rancher for the projects.
Looks(h) == \/ LookupUser(h) \/ RereadUser(h) \/ GetProjects(h)
            \/ LookupNamespace(h) \/ RereadNamespace(h)
            \/ FindUser(h) \/ RefindUser(h) \/ CountProjects(h)

\* The steps in the middle of an update.
Refills(h) == \/ ClearCache(h) /\ pc[h] = "clearSpaces"
              \/ GetProjectMembers(h) \/ ReadUserProjects(h) \/ StoreUserProjects(h)
              \/ GetProjectNamespaces(h) \/ StoreNamespace(h) \/ MarshalCache(h)

LEMMA LooksMoves ==
  ASSUME IInv, NEW h \in Handlers, Looks(h)
  PROVE  /\ pc[h] \notin Rebuilds \cup {"clear", "idle"} /\ pc'[h] \notin Rebuilds
         /\ UNCHANGED <<bindings, nsOf, namespace2project>>
<1>1. /\ pc[h] \notin Rebuilds \cup {"clear", "idle"}
  BY DEF Looks, LookupUser, RereadUser, LookupNamespace, RereadNamespace, GetProjects,
         FindUser, RefindUser, CountProjects, Rebuilds
<1>2. UNCHANGED <<bindings, nsOf, namespace2project>>
  BY Zenon DEF Looks, LookupUser, RereadUser, LookupNamespace, RereadNamespace, FindUser,
               RefindUser, CountProjects, GetProjects, directoryVars, cacheVars
<1>3. ASSUME NEW r, Answer(h, r) PROVE pc'[h] \notin Rebuilds
  BY <1>3, Types DEF Answer, Goto, Rebuilds
<1>4. ASSUME NEW r, CallUpdate(h, r) PROVE pc'[h] \notin Rebuilds
  BY <1>4, Types DEF CallUpdate, Goto, Rebuilds
<1>5. CASE LookupUser(h) \/ RereadUser(h) \/ FindUser(h) \/ CountProjects(h)
  BY <1>1, <1>2, <1>3, <1>4, <1>5, Zenon
  DEF LookupUser, RereadUser, FindUser, CountProjects, PodReply
<1>6. CASE LookupNamespace(h) \/ RereadNamespace(h)
  <2>1. ASSUME NEW p, WithProject(h, p) PROVE pc'[h] \notin Rebuilds
    BY <1>3, <2>1, Types DEF WithProject, Goto, Rebuilds
  <2> QED
    BY <1>1, <1>2, <1>4, <1>6, <2>1, Zenon DEF LookupNamespace, RereadNamespace
<1>7. CASE GetProjects(h)
  BY <1>1, <1>2, <1>3, <1>7, Types
  DEF GetProjects, CallFails, FailUpdate, UpdateStep, Goto, Rebuilds
<1>8. CASE RefindUser(h)
  BY <1>1, <1>2, <1>8, Types DEF RefindUser, Goto, Rebuilds
<1> QED
  BY <1>1, <1>2, <1>5, <1>6, <1>7, <1>8 DEF Looks

LEMMA RefillsMoves ==
  ASSUME IInv, SerialNext, NEW h \in Handlers, Refills(h)
  PROVE  /\ pc[h] \in Rebuilds /\ pc'[h] \in Rebuilds
         /\ UNCHANGED <<bindings, nsOf, req, target, reply>>
<1>1. /\ pc[h] \in Rebuilds
  BY DEF Refills, GetProjectMembers, ReadUserProjects, StoreUserProjects,
         GetProjectNamespaces, StoreNamespace, MarshalCache, Rebuilds
<1>2. UNCHANGED <<bindings, nsOf>>
  BY Zenon DEF Refills, ClearCache, GetProjectMembers, ReadUserProjects, StoreUserProjects,
               GetProjectNamespaces, StoreNamespace, MarshalCache, directoryVars
<1>3. ASSUME NEW r \in Rebuilds, UpdateStep(h, r)
      PROVE  pc'[h] \in Rebuilds /\ UNCHANGED <<req, target, reply>>
  BY <1>3, Types DEF UpdateStep, Goto
<1>4. ~ CallFails(h)
  BY NoFaults DEF CallFails, SerialNext
<1>5. CASE ClearCache(h) /\ pc[h] = "clearSpaces"
  BY <1>1, <1>2, <1>3, <1>5 DEF ClearCache, Rebuilds
<1>6. CASE GetProjectMembers(h) \/ ReadUserProjects(h) \/ StoreUserProjects(h)
  BY <1>1, <1>2, <1>3, <1>4, <1>6
  DEF GetProjectMembers, ReadUserProjects, StoreUserProjects, Rebuilds
<1>7. CASE GetProjectNamespaces(h) \/ StoreNamespace(h)
  BY <1>1, <1>2, <1>3, <1>4, <1>7
  DEF GetProjectNamespaces, StoreNamespace, AfterNamespaces, Rebuilds
<1>8. CASE MarshalCache(h)
  BY <1>1, <1>2, <1>8, Types DEF MarshalCache, Goto, Rebuilds
<1> QED
  BY <1>1, <1>2, <1>5, <1>6, <1>7, <1>8 DEF Refills

\* The picture that decides stays, except when the cache is emptied.
LEMMA SameView ==
  ASSUME IInv, SInv, SerialNext, NEW h \in Handlers, Looks(h) \/ Refills(h) \/ PutToOPA(h)
  PROVE  UNCHANGED <<bindings, nsOf, picture, SpacesSeen>>
<1>1. pc[h] \notin {"idle", "clear"}
  BY LooksMoves, RefillsMoves DEF PutToOPA, Rebuilds
<1>2. \A k \in Handlers \ {h} : pc[k] = "idle" /\ pc'[k] = pc[k]
  BY <1>1, Alone DEF Looks, Refills, Step
<1>3. UNCHANGED picture
  BY <1>1, <1>2, PictureStays
<1>4. \A k \in Handlers \ {h} : pc[k] \notin Rebuilds /\ pc'[k] \notin Rebuilds
  BY <1>2 DEF Rebuilds
<1>5. CASE Looks(h)
  <2>1. ~ Rebuilding /\ ~ Rebuilding'
    BY <1>4, <1>5, LooksMoves DEF Rebuilding
  <2> QED
    BY <1>3, <1>5, <2>1, LooksMoves DEF SpacesSeen
<1>6. CASE Refills(h)
  <2>1. Rebuilding /\ Rebuilding'
    BY <1>6, RefillsMoves DEF Rebuilding
  <2> QED
    BY <1>3, <1>6, <2>1, RefillsMoves DEF SpacesSeen
<1>7. CASE PutToOPA(h)
  <2>1. /\ pc[h] = "put" /\ ReturnFromUpdate(h)
        /\ UNCHANGED <<bindings, nsOf, namespace2project>>
    BY <1>7, NoFaults, Zenon DEF PutToOPA, SerialNext, directoryVars, cacheVars
  <2>2. pc'[h] \notin Rebuilds
    BY <2>1, Types DEF ReturnFromUpdate, Goto, Returns, Rebuilds
  <2>3. Rebuilding /\ ~ Rebuilding'
    BY <1>4, <2>1, <2>2 DEF Rebuilding, Rebuilds
  <2>4. namespace2project = nsOf
    BY <2>1, UpToDate
  <2> QED
    BY <1>3, <2>1, <2>3, <2>4 DEF SpacesSeen
<1> QED
  BY <1>5, <1>6, <1>7

\* A reply ends a request of the policy.
LEMMA Finishes ==
  ASSUME IInv, SInv, SerialNext, NEW h \in Handlers, Looks(h), NEW r, Answer(h, r)
  PROVE  Policy!Finish(h, r)
<1>1. UNCHANGED <<bindings, nsOf, picture, SpacesSeen>>
  BY SameView
<1>2. /\ pc \in [Handlers -> Labels] /\ req \in [Handlers -> Request \cup {NoRequest}]
      /\ target \in [Handlers -> Target]
  BY DEF IInv, TypeOK, HandlersTyped
<1>3. Asked' = [Asked EXCEPT ![h] = NoRequest]
  <2>1. req' = req /\ pc' = [pc EXCEPT ![h] = "idle"]
    BY DEF Answer, Goto
  <2> QED
    BY <1>2, <2>1 DEF Asked
<1>4. PlacedIn' = [PlacedIn EXCEPT ![h] = NoProject]
  <2>1. target' = [target EXCEPT ![h] = NoTarget]
    BY DEF Answer
  <2> QED
    BY <1>2, <2>1 DEF PlacedIn, NoTarget
<1>5. reply' = [reply EXCEPT ![h] = r]
  BY DEF Answer
<1> QED
  BY <1>1, <1>3, <1>4, <1>5, PolicyWords DEF Policy!Finish

\* A step of the handler that does not reply is not seen in its request.
LEMMA Asking ==
  ASSUME IInv, NEW h \in Handlers, Step(h), pc[h] # "idle", pc'[h] # "idle"
  PROVE  Asked' = Asked
<1>1. pc \in [Handlers -> Labels] /\ req \in [Handlers -> Request \cup {NoRequest}]
  BY DEF IInv, TypeOK, HandlersTyped
<1>2. \A k \in Handlers \ {h} : pc'[k] = pc[k]
  BY <1>1, PcMoves
<1>3. req' = req
  <2>1. ~ ReceiveRequest(h)
    BY DEF ReceiveRequest
  <2> QED
    BY <2>1, TargetMoves
<1> QED
  BY <1>2, <1>3 DEF Asked

\* Such a step, when it does not place a pod, is not seen at all.
LEMMA Unseen ==
  ASSUME IInv, SInv, SerialNext, NEW h \in Handlers,
         Looks(h) \/ Refills(h) \/ PutToOPA(h), pc'[h] # "idle", UNCHANGED reply, target'[h].project = target[h].project
  PROVE  UNCHANGED Policy!policyVars
<1>1. pc[h] # "idle" /\ Step(h)
  BY LooksMoves, RefillsMoves DEF Looks, Refills, Step, PutToOPA, Rebuilds
<1>2. UNCHANGED PlacedIn
  <2>1. \A k \in Handlers \ {h} : target'[k] = target[k]
    <3>1. target \in [Handlers -> Target]
      BY DEF IInv, TypeOK, HandlersTyped
    <3> QED
      BY <1>1, <3>1, TargetMoves
  <2> QED
    BY <2>1 DEF PlacedIn
<1> QED
  BY <1>1, <1>2, Asking, SameView DEF Policy!policyVars

LEMMA CallUnseen ==
  ASSUME IInv, SInv, SerialNext, NEW h \in Handlers, Looks(h), UNCHANGED target,
         NEW r, CallUpdate(h, r)
  PROVE  UNCHANGED Policy!policyVars
<1>1. pc'[h] # "idle" /\ UNCHANGED reply
  BY Types DEF CallUpdate, Goto
<1> QED
  BY <1>1, Unseen

\* Between updates the cache has, for each user, the bindings of the picture.
LEMMA ListOfUser ==
  ASSUME IInv, SInv, NEW h \in Handlers, pc[h] \notin Rebuilds \cup {"idle"},
         NEW u \in Users
  PROVE  /\ user2projects[u] \in Seq(UserProjectInfo)
         /\ Policy!Of(u) = {b \in picture : b.user = u}
         /\ Encodes(user2projects[u], Policy!Of(u))
         /\ SpacesSeen = namespace2project
<1>1. \A k \in Handlers : pc[k] \notin Rebuilds
  BY DEF SInv, OneBusy, Rebuilds
<1>2. UsersHold(picture) /\ SpacesSeen = namespace2project
  BY <1>1 DEF SInv, Rebuilding, AtRest, SpacesSeen
<1> QED
  BY <1>2, Types DEF UsersHold, Policy!Of

\* The picture holds bindings.
PictureOK == picture \subseteq Binding

-----------------------------------------------------------------------------
(* Namespaces *)

LEMMA DecidesNamespace ==
  ASSUME IInv, SInv, SerialNext, PictureOK, NEW h \in Handlers, Looks(h),
         pc[h] \in {"lookupUser", "rereadUser"},
         NEW u, u = req[h].user,
         Answer(h, NamespaceReply(user2projects[u], req[h].ns)),
         user2projects[u] = <<>> => pc[h] = "rereadUser"
  PROVE  Policy!DecideNamespace(h)
<1>1. /\ Asked[h] = req[h] /\ req[h].kind = "Namespace" /\ u \in Users
  BY DirectoryAssumption DEF IInv, ControlOK, Asked, NamespaceRequest
<1>2. /\ user2projects[u] \in Seq(UserProjectInfo)
      /\ Policy!Of(u) = {b \in picture : b.user = u}
      /\ Encodes(user2projects[u], Policy!Of(u))
      /\ SpacesSeen = namespace2project
  BY <1>1, ListOfUser DEF Rebuilds
<1>3. Policy!Of(u) = {} => Policy!Current
  <2>1. Policy!Of(u) = {} => pc[h] = "rereadUser"
    BY <1>2, EmptyList
  <2> QED
    BY <1>2, <2>1 DEF SInv, Fresh, Policy!Current
<1>4. Policy!Of(u) \in SUBSET Binding
  BY <1>2 DEF PictureOK
<1>5. CASE /\ ~ \E b \in Policy!Of(u) : Policy!Of(u) = {b} /\ b.role # Owner
           /\ NamespaceReply(user2projects[u], req[h].ns) = Ignore
  <2>1. ~ \E b \in picture : Policy!Of(u) = {b} /\ b.role # Owner
    BY <1>5
  <2>2. Policy!Finish(h, Policy!Ignore)
    BY <1>5, Finishes, PolicyWords
  <2> QED
    BY <1>1, <1>3, <2>1, <2>2 DEF Policy!DecideNamespace
<1>6. ASSUME NEW b \in Policy!Of(u), Policy!Of(u) = {b}, b.role # Owner,
             NamespaceReply(user2projects[u], req[h].ns) =
               [verdict |-> IF <<req[h].ns, b.project>> \in HasPrefix
                            THEN "annotate" ELSE "deny",
                project |-> b.project]
      PROVE  Policy!DecideNamespace(h)
  <2>1. Policy!Finish(h, [verdict |-> IF <<req[h].ns, b.project>> \in HasPrefix
                                      THEN "annotate" ELSE "deny",
                          project |-> b.project])
    BY <1>6, Finishes
  <2>2. b \in picture
    BY <1>2, <1>6
  <2> QED
    BY <1>1, <1>3, <1>6, <2>1, <2>2 DEF Policy!DecideNamespace
<1>7. ReplyFollows(user2projects[u], Policy!Of(u), req[h].ns)
  BY <1>2, <1>4, ReplyIsPolicy
<1> QED
  BY <1>5, <1>6, <1>7 DEF ReplyFollows

LEMMA NamespaceSteps ==
  ASSUME IInv, SInv, SerialNext, PictureOK, NEW h \in Handlers,
         LookupUser(h) \/ RereadUser(h)
  PROVE  Policy!Next \/ UNCHANGED Policy!policyVars
<1> DEFINE plist == user2projects[req[h].user]
<1>1. Looks(h)
  BY DEF Looks
<1>2. CASE LookupUser(h) /\ plist = <<>>
  <2>1. CallUpdate(h, "rereadUser") /\ UNCHANGED target
    BY <1>2 DEF LookupUser
  <2> QED
    BY <1>1, <2>1, CallUnseen
<1>3. CASE ~ (LookupUser(h) /\ plist = <<>>)
  <2>1. /\ Answer(h, NamespaceReply(plist, req[h].ns))
        /\ pc[h] \in {"lookupUser", "rereadUser"}
        /\ plist = <<>> => pc[h] = "rereadUser"
    BY <1>3 DEF LookupUser, RereadUser
  <2>2. Policy!DecideNamespace(h)
    BY <1>1, <2>1, DecidesNamespace
  <2> QED
    BY <2>2 DEF Policy!Next
<1> QED
  BY <1>2, <1>3

-----------------------------------------------------------------------------
(* Pods *)

LEMMA PodAsked ==
  ASSUME IInv, SInv, NEW h \in Handlers, pc[h] \in PodLabels
  PROVE  /\ Asked[h] = req[h] /\ req[h].kind = "Pod" /\ req[h].ns \in Namespaces
         /\ PlacedIn[h] = target[h].project /\ SpacesSeen = namespace2project
<1>1. Asked[h] = req[h] /\ req[h].kind = "Pod" /\ req[h].ns \in Namespaces
  BY DEF IInv, ControlOK, Asked, PodRequest, PodLabels
<1>2. \A k \in Handlers : pc[k] \notin Rebuilds
  BY DEF SInv, OneBusy, Rebuilds, PodLabels
<1> QED
  BY <1>1, <1>2 DEF PlacedIn, SpacesSeen, Rebuilding

LEMMA Places ==
  ASSUME IInv, SInv, SerialNext, NEW h \in Handlers, Unplaced(h),
         LookupNamespace(h) \/ RereadNamespace(h),
         namespace2project[req[h].ns] # NoProject
  PROVE  Policy!PlacePod(h)
<1> DEFINE p == namespace2project[req[h].ns]
<1>1. /\ WithProject(h, p) /\ pc[h] \in {"lookupNamespace", "rereadNamespace"} /\ Looks(h)
  BY DEF LookupNamespace, RereadNamespace, Looks
<1>2. /\ Asked[h] = req[h] /\ req[h].kind = "Pod" /\ req[h].ns \in Namespaces
      /\ PlacedIn[h] = NoProject /\ SpacesSeen = namespace2project
  <2>1. target[h].project = NoProject
    BY <1>1 DEF Unplaced, Updating
  <2> QED
    BY <1>1, <2>1, PodAsked DEF PodLabels
<1>3. /\ target' = [target EXCEPT ![h].project = p] /\ Goto(h, "findUser")
      /\ UNCHANGED reply
  BY <1>1 DEF WithProject
<1>4. UNCHANGED <<bindings, nsOf, picture, SpacesSeen>>
  BY <1>1, SameView
<1>5. UNCHANGED Asked
  <2>1. pc'[h] # "idle" /\ pc[h] # "idle" /\ Step(h)
    BY <1>1, <1>3, Types DEF Goto, Step
  <2> QED
    BY <2>1, Asking
<1>6. PlacedIn' = [PlacedIn EXCEPT ![h] = p]
  <2>1. target \in [Handlers -> Target]
    BY DEF IInv, TypeOK, HandlersTyped
  <2> QED
    BY <1>3, <2>1 DEF PlacedIn, Target
<1> QED
  BY <1>2, <1>3, <1>4, <1>5, <1>6 DEF Policy!PlacePod

LEMMA PlaceSteps ==
  ASSUME IInv, SInv, SerialNext, NEW h \in Handlers, Unplaced(h),
         LookupNamespace(h) \/ RereadNamespace(h)
  PROVE  Policy!Next \/ UNCHANGED Policy!policyVars
<1>1. Looks(h)
  BY DEF Looks
<1>2. CASE namespace2project[req[h].ns] # NoProject
  BY <1>2, Places DEF Policy!Next
<1>3. CASE LookupNamespace(h) /\ namespace2project[req[h].ns] = NoProject
  <2>1. CallUpdate(h, "rereadNamespace") /\ UNCHANGED target
    BY <1>3 DEF LookupNamespace
  <2> QED
    BY <1>1, <2>1, CallUnseen
<1>4. CASE RereadNamespace(h) /\ namespace2project[req[h].ns] = NoProject
  <2>1. pc[h] = "rereadNamespace" /\ Answer(h, Ignore)
    BY <1>4 DEF RereadNamespace, WithProject
  <2>2. /\ Asked[h] = req[h] /\ req[h].kind = "Pod"
        /\ PlacedIn[h] = NoProject /\ SpacesSeen = namespace2project
    BY <2>1, PodAsked DEF Unplaced, Updating, PodLabels
  <2>3. Policy!Current
    BY <2>1, <2>2 DEF SInv, Fresh, Policy!Current
  <2>4. Policy!Finish(h, Policy!Ignore)
    BY <1>1, <2>1, Finishes, PolicyWords
  <2>5. Policy!IgnorePod(h)
    BY <1>4, <2>2, <2>3, <2>4 DEF Policy!IgnorePod
  <2> QED
    BY <2>5 DEF Policy!Next
<1> QED
  BY <1>2, <1>3, <1>4

\* An entry of a user's list, and the binding of the picture that it is there for.
LEMMA EntryInPicture ==
  ASSUME IInv, SInv, NEW h \in Handlers, pc[h] \in {"findUser", "countProjects"},
         NEW p, NEW u \in Users, NEW i \in DOMAIN user2projects[u],
         user2projects[u][i].project = p
  PROVE  \E b \in Policy!Members(p) :
           b.user = u /\ user2projects[u][i].isOwner = (b.role = Owner)
<1>1. /\ user2projects[u] \in Seq(UserProjectInfo)
      /\ Policy!Of(u) = {b \in picture : b.user = u}
      /\ Encodes(user2projects[u], Policy!Of(u))
  BY ListOfUser DEF Rebuilds
<1>2. PICK b \in Policy!Of(u) :
        /\ b.project = user2projects[u][i].project
        /\ user2projects[u][i].isOwner = (b.role = Owner)
  BY <1>1, EntryIsBinding
<1> QED
  BY <1>1, <1>2 DEF Policy!Members

LEMMA FindSteps ==
  ASSUME IInv, SInv, SerialNext, NEW h \in Handlers, FindUser(h)
  PROVE  Policy!Next \/ UNCHANGED Policy!policyVars
<1> DEFINE p == target[h].project
<1>1. Looks(h) /\ pc[h] = "findUser"
  BY DEF Looks, FindUser
<1>2. /\ Asked[h] = req[h] /\ req[h].kind = "Pod" /\ PlacedIn[h] = p /\ p # NoProject
  BY <1>1, PodAsked, Types DEF PodLabels, IInv, ControlOK
<1>3. ASSUME NEW u \in UsersOf(p), NEW i \in DOMAIN user2projects[u],
             IsFirstEntry(u, p, i), PodReply(h, user2projects[u][i].isOwner)
      PROVE  Policy!Next
  <2>1. u \in Users /\ user2projects[u][i].project = p
    BY <1>3 DEF UsersOf, IsFirstEntry
  <2>2. PICK b \in Policy!Members(p) :
          user2projects[u][i].isOwner = (b.role = Owner)
    BY <1>1, <2>1, EntryInPicture
  <2>3. CASE b.role = Owner
    <3>1. Policy!Finish(h, Policy!Ignore)
      BY <1>1, <1>3, <2>2, <2>3, Finishes, PolicyWords DEF PodReply
    <3>2. Policy!IgnorePod(h)
      BY <1>2, <2>2, <2>3, <3>1 DEF Policy!IgnorePod
    <3> QED
      BY <3>2 DEF Policy!Next
  <2>4. CASE b.role # Owner
    <3>1. Policy!Finish(h, [verdict |-> "limit", project |-> p])
      BY <1>1, <1>3, <2>2, <2>4, Finishes DEF PodReply
    <3>2. Policy!LimitPod(h)
      BY <1>2, <2>2, <2>4, <3>1 DEF Policy!LimitPod
    <3> QED
      BY <3>2 DEF Policy!Next
  <2> QED
    BY <2>3, <2>4
<1>4. CASE CallUpdate(h, "refindUser") /\ UNCHANGED target
  BY <1>1, <1>4, CallUnseen
<1> QED
  BY <1>3, <1>4 DEF FindUser

LEMMA RefindUnseen ==
  ASSUME IInv, SInv, SerialNext, NEW h \in Handlers, RefindUser(h)
  PROVE  UNCHANGED Policy!policyVars
<1>1. Looks(h) /\ pc'[h] # "idle" /\ UNCHANGED reply
  BY Types DEF Looks, RefindUser, Goto
<1>2. target'[h].project = target[h].project
  <2>1. PICK u : target' = [target EXCEPT ![h].user = u]
    BY DEF RefindUser
  <2>2. target \in [Handlers -> Target]
    BY DEF IInv, TypeOK, HandlersTyped
  <2> QED
    BY <2>1, <2>2 DEF Target
<1> QED
  BY <1>1, <1>2, Unseen

LEMMA CountSteps ==
  ASSUME IInv, SInv, SerialNext, PictureOK, NEW h \in Handlers, CountProjects(h)
  PROVE  Policy!Next
<1> DEFINE p == target[h].project
           u == target[h].user
           plist == ListOf(u)
<1>1. Looks(h) /\ pc[h] = "countProjects"
  BY DEF Looks, CountProjects
<1>2. /\ Asked[h] = req[h] /\ req[h].kind = "Pod" /\ PlacedIn[h] = p /\ p # NoProject
      /\ SpacesSeen = namespace2project
  BY <1>1, PodAsked, Types DEF PodLabels, IInv, ControlOK
<1>3. Policy!Current
  BY <1>1, <1>2 DEF SInv, Fresh, Policy!Current
<1>4. IF UsersOf(p) = {} THEN u = EmptyUser ELSE u \in UsersOf(p)
  BY <1>1 DEF SInv, Fresh
<1>5. \A v \in Users : /\ user2projects[v] \in Seq(UserProjectInfo)
                       /\ Policy!Of(v) = {b \in picture : b.user = v}
                       /\ Encodes(user2projects[v], Policy!Of(v))
  BY <1>1, ListOfUser DEF Rebuilds
<1>6. ASSUME Policy!IgnorePod(h) \/ Policy!LimitPod(h) PROVE Policy!Next
  BY <1>6 DEF Policy!Next
<1>7. CASE UsersOf(p) = {}
  <2>1. Policy!Members(p) = {}
    <3> SUFFICES ASSUME NEW b \in picture, b.project = p PROVE FALSE
      BY DEF Policy!Members
    <3>1. b.user \in Users
      BY DEF PictureOK, Binding
    <3>2. b \in Policy!Of(b.user)
      BY <1>5, <3>1
    <3>3. \E i \in DOMAIN user2projects[b.user] :
            user2projects[b.user][i].project = p
      BY <1>5, <3>1, <3>2, BindingHasEntry
    <3> QED
      BY <1>7, <3>1, <3>3 DEF UsersOf
  <2>2. CASE Answer(h, Ignore)
    <3>1. Policy!Finish(h, Policy!Ignore)
      BY <1>1, <2>2, Finishes, PolicyWords
    <3>2. Policy!IgnorePod(h)
      BY <1>2, <1>3, <2>1, <3>1 DEF Policy!IgnorePod
    <3> QED
      BY <1>6, <3>2
  <2>3. CASE plist # <<>> /\ Answer(h, [verdict |-> "limit", project |-> p])
    <3>1. Policy!Finish(h, [verdict |-> "limit", project |-> p])
      BY <1>1, <2>3, Finishes
    <3>2. EmptyUser \in Users /\ user2projects[EmptyUser] # <<>>
      BY <1>4, <1>7, <2>3 DEF ListOf
    <3>3. Policy!Of(EmptyUser) # {}
      BY <1>5, <3>2, EmptyList
    <3>4. Policy!LimitPod(h)
      BY <1>2, <1>3, <2>1, <3>1, <3>3 DEF Policy!LimitPod
    <3> QED
      BY <1>6, <3>4
  <2> QED
    BY <2>2, <2>3 DEF CountProjects, PodReply
<1>8. CASE UsersOf(p) # {}
  <2>1. u \in Users /\ plist = user2projects[u]
    BY <1>4, <1>8 DEF UsersOf, ListOf
  <2>2. PICK i \in DOMAIN user2projects[u] : user2projects[u][i].project = p
    BY <1>4, <1>8 DEF UsersOf
  <2>3. PICK b \in Policy!Members(p) :
          b.user = u /\ user2projects[u][i].isOwner = (b.role = Owner)
    BY <1>1, <2>1, <2>2, EntryInPicture
  <2>4. /\ Len(user2projects[u]) \in Nat /\ Len(user2projects[u]) >= 1
        /\ Len(user2projects[u]) = 1 => i = 1
    BY <1>5, <2>1, <2>2
  <2>5. CASE Len(plist) = 1 /\ plist[1].isOwner
    <3>1. b.role = Owner
      BY <2>1, <2>3, <2>4, <2>5
    <3>2. Answer(h, Ignore)
      BY <2>5 DEF CountProjects, PodReply
    <3>3. Policy!Finish(h, Policy!Ignore)
      BY <1>1, <3>2, Finishes, PolicyWords
    <3>4. Policy!IgnorePod(h)
      BY <1>2, <2>3, <3>1, <3>3 DEF Policy!IgnorePod
    <3> QED
      BY <1>6, <3>4
  <2>6. CASE ~ (Len(plist) = 1 /\ plist[1].isOwner)
    <3>1. plist # <<>>
      BY <2>1, <2>4
    <3>2. Answer(h, [verdict |-> "limit", project |-> p])
      BY <2>6, <3>1 DEF CountProjects, PodReply
    <3>3. Policy!Finish(h, [verdict |-> "limit", project |-> p])
      BY <1>1, <3>2, Finishes
    <3>4. b.role # Owner \/ (Policy!Current /\ Policy!Of(b.user) # {b})
      <4>1. CASE Len(plist) = 1
        BY <2>1, <2>3, <2>4, <2>6, <4>1
      <4>2. CASE Len(plist) # 1
        <5>1. Cardinality(Policy!Of(u)) = Len(user2projects[u])
          BY <1>5, <2>1, EncodesLen
        <5>2. Cardinality({b}) = 1
          BY FS_Singleton
        <5> QED
          BY <1>3, <2>1, <2>3, <4>2, <5>1, <5>2
      <4> QED
        BY <4>1, <4>2
    <3>5. Policy!LimitPod(h)
      BY <1>2, <3>3, <3>4 DEF Policy!LimitPod
    <3> QED
      BY <1>6, <3>5
  <2> QED
    BY <2>5, <2>6
<1> QED
  BY <1>7, <1>8

-----------------------------------------------------------------------------
(* The refinement *)

LEMMA AskStep ==
  ASSUME IInv, SInv, SerialNext, NEW h \in Handlers, ReceiveRequest(h)
  PROVE  Policy!Next
<1>1. PICK r \in Request :
        /\ req' = [req EXCEPT ![h] = r]
        /\ Goto(h, IF r.kind = "Namespace" THEN "lookupUser" ELSE "lookupNamespace")
  BY DEF ReceiveRequest
<1>2. /\ pc[h] = "idle" /\ reply' = [reply EXCEPT ![h] = NoReply]
      /\ UNCHANGED <<bindings, nsOf, namespace2project, target>>
  BY Zenon DEF ReceiveRequest, directoryVars, cacheVars
<1>3. /\ pc \in [Handlers -> Labels] /\ req \in [Handlers -> Request \cup {NoRequest}]
  BY DEF IInv, TypeOK, HandlersTyped
<1>4. /\ pc'[h] \in {"lookupUser", "lookupNamespace"}
      /\ \A k \in Handlers \ {h} : pc'[k] = pc[k]
  BY <1>1, <1>3 DEF Goto
<1>5. UNCHANGED <<picture, SpacesSeen>>
  <2>1. UNCHANGED picture
    BY <1>2, <1>4, PictureStays
  <2>2. Rebuilding' = Rebuilding
    BY <1>2, <1>4 DEF Rebuilding, Rebuilds
  <2> QED
    BY <1>2, <2>1, <2>2 DEF SpacesSeen
<1>6. Asked[h] = NoRequest /\ Asked' = [Asked EXCEPT ![h] = r]
  BY <1>1, <1>2, <1>3, <1>4 DEF Asked
<1>7. UNCHANGED PlacedIn
  BY <1>2 DEF PlacedIn
<1>8. Policy!Ask(h)
  BY <1>2, <1>5, <1>6, <1>7, PolicyWords DEF Policy!Ask
<1> QED
  BY <1>8 DEF Policy!Next

LEMMA LookStep ==
  ASSUME IInv, SInv, SerialNext, NEW h \in Handlers, ClearCache(h), pc[h] = "clear"
  PROVE  Policy!Next
<1>1. \A k \in Handlers \ {h} : pc[k] = "idle" /\ pc'[k] = pc[k]
  BY Alone DEF Step
<1>2. UpdateStep(h, "clearSpaces") /\ UNCHANGED <<bindings, nsOf, reply, target>>
  BY DEF ClearCache, directoryVars, UpdateStep
<1>3. pc'[h] = "clearSpaces"
  BY <1>2, Types DEF UpdateStep, Goto
<1>4. picture' = bindings
  BY <1>3 DEF SerialNext, Empties
<1>5. SpacesSeen' = nsOf
  BY <1>2, <1>3 DEF SpacesSeen, Rebuilding, Rebuilds
<1>6. UNCHANGED Asked
  BY <1>3, Asking DEF Step
<1>7. UNCHANGED PlacedIn
  BY <1>2 DEF PlacedIn
<1> QED
  BY <1>2, <1>4, <1>5, <1>6, <1>7 DEF Policy!Look, Policy!Next

LEMMA DirectoryStep ==
  ASSUME IInv, IInv', SInv, SerialNext,
         ChangeDirectory \/ \E h \in Handlers : CreateNamespace(h)
  PROVE  Policy!Next
<1>1. UNCHANGED <<cacheVars, opa, pc, localVars>>
  BY Zenon DEF ChangeDirectory, CreateNamespace, SetDirectory
<1>2. UNCHANGED <<namespace2project, pc, req, target>>
  BY <1>1 DEF cacheVars, localVars
<1>3. UNCHANGED <<picture, SpacesSeen>>
  <2>1. UNCHANGED picture
    BY <1>2 DEF SerialNext, Empties
  <2>2. Rebuilding' = Rebuilding
    BY <1>2 DEF Rebuilding
  <2>3. Rebuilding => UNCHANGED nsOf
    BY DEF SerialNext, Serially, Rebuilding, AllIdle, Rebuilds
  <2> QED
    BY <1>2, <2>1, <2>2, <2>3 DEF SpacesSeen
<1>4. UNCHANGED <<Asked, PlacedIn>>
  BY <1>2 DEF Asked, PlacedIn
<1>5. bindings' \subseteq Binding /\ nsOf' \in [Namespaces -> ProjectOrNone]
  BY DEF IInv, TypeOK, DirectoryTyped
<1>6. \E done \in SUBSET Handlers :
        reply' = [h \in Handlers |-> IF h \in done THEN NoReply ELSE reply[h]]
  <2>1. reply \in [Handlers -> Reply]
    BY DEF IInv, TypeOK, HandlersTyped
  <2>2. CASE UNCHANGED reply
    <3>1. reply' = [h \in Handlers |-> IF h \in {} THEN NoReply ELSE reply[h]]
      BY <2>1, <2>2
    <3>2. {} \in SUBSET Handlers
      OBVIOUS
    <3> QED
      BY <3>1, <3>2
  <2>3. ASSUME NEW h \in Handlers, reply' = [reply EXCEPT ![h] = NoReply]
        PROVE  \E done \in SUBSET Handlers :
                 reply' = [k \in Handlers |-> IF k \in done THEN NoReply ELSE reply[k]]
    <3>1. reply' = [k \in Handlers |-> IF k \in {h} THEN NoReply ELSE reply[k]]
      BY <2>1, <2>3
    <3>2. {h} \in SUBSET Handlers
      OBVIOUS
    <3> QED
      BY <3>1, <3>2
  <2> QED
    BY <2>2, <2>3 DEF ChangeDirectory, CreateNamespace
<1> QED
  BY <1>3, <1>4, <1>5, <1>6, PolicyWords DEF Policy!Change, Policy!Next

LEMMA HandlerSteps ==
  ASSUME IInv, SInv, SerialNext, PictureOK, NEW h \in Handlers, Unplaced(h),
         ReceiveRequest(h) \/ Step(h)
  PROVE  Policy!Next \/ UNCHANGED Policy!policyVars
<1>1. CASE ReceiveRequest(h)
  BY <1>1, AskStep
<1>2. CASE LookupUser(h) \/ RereadUser(h)
  BY <1>2, NamespaceSteps
<1>3. CASE LookupNamespace(h) \/ RereadNamespace(h)
  BY <1>3, PlaceSteps
<1>4. CASE FindUser(h)
  BY <1>4, FindSteps
<1>5. CASE RefindUser(h)
  BY <1>5, RefindUnseen
<1>6. CASE CountProjects(h)
  BY <1>6, CountSteps
<1>7. CASE GetProjects(h)
  <2>1. /\ UpdateStep(h, "clear") /\ Looks(h)
    BY <1>7, NoFaults, Zenon DEF GetProjects, CallFails, SerialNext, Looks
  <2>2. pc'[h] # "idle" /\ UNCHANGED <<reply, target>>
    BY <2>1, Types DEF UpdateStep, Goto
  <2> QED
    BY <2>1, <2>2, Unseen
<1>8. CASE ClearCache(h) /\ pc[h] = "clear"
  BY <1>8, LookStep
<1>9. CASE Refills(h)
  <2>1. pc'[h] # "idle" /\ UNCHANGED <<reply, target>>
    BY <1>9, RefillsMoves DEF Rebuilds
  <2> QED
    BY <1>9, <2>1, Unseen
<1>10. CASE PutToOPA(h)
  <2>1. ReturnFromUpdate(h)
    BY <1>10, NoFaults, Zenon DEF PutToOPA, SerialNext
  <2>2. pc'[h] # "idle" /\ UNCHANGED <<reply, target>>
    BY <2>1, Types DEF ReturnFromUpdate, Goto, Returns
  <2> QED
    BY <1>10, <2>2, Unseen
<1>11. Step(h) => \/ LookupUser(h) \/ RereadUser(h)
                  \/ LookupNamespace(h) \/ RereadNamespace(h)
                  \/ FindUser(h) \/ RefindUser(h) \/ CountProjects(h) \/ GetProjects(h)
                  \/ ClearCache(h) /\ pc[h] = "clear"
                  \/ Refills(h) \/ PutToOPA(h)
  BY DEF Step, Refills, ClearCache
<1> QED
  BY <1>1, <1>2, <1>3, <1>4, <1>5, <1>6, <1>7, <1>8, <1>9, <1>10, <1>11

\* Every step of the serial controller is a step of the policy, or none.
LEMMA PolicyStep ==
  ASSUME IInv, IInv', SInv, PictureOK, \A h \in Handlers : Unplaced(h),
         [SerialNext]_serialVars
  PROVE  [Policy!Next]_(Policy!policyVars)
<1>1. CASE UNCHANGED serialVars
  BY <1>1 DEF serialVars, vars, directoryVars, cacheVars, localVars, Policy!policyVars,
              SpacesSeen, Rebuilding, Asked, PlacedIn
<1>2. CASE SerialNext
  <2>1. ~ (CrashOnMapRace \/ Restart)
    BY <1>2, NoReset DEF SerialNext, SInv
  <2>2. \/ \E h \in Handlers : ReceiveRequest(h) \/ Step(h)
        \/ ChangeDirectory \/ \E h \in Handlers : CreateNamespace(h)
    BY <1>2, <2>1 DEF SerialNext, Next
  <2> QED
    BY <1>2, <2>2, HandlerSteps, DirectoryStep
<1> QED
  BY <1>1, <1>2

LEMMA PolicyInitially == SerialInit => Policy!Init
<1> SUFFICES ASSUME SerialInit PROVE Policy!Init
  OBVIOUS
<1>1. /\ bindings \subseteq Binding /\ nsOf \in [Namespaces -> ProjectOrNone]
  BY ControllerAssumption DEF SerialInit, Init
<1>2. /\ picture = {} /\ reply = [h \in Handlers |-> NoReply]
      /\ pc = [h \in Handlers |-> "idle"] /\ target = [h \in Handlers |-> NoTarget]
      /\ namespace2project = ClearedSpaces
  BY DEF SerialInit, Init
<1>3. SpacesSeen = [n \in Namespaces |-> NoProject]
  BY <1>2 DEF SpacesSeen, Rebuilding, Rebuilds, ClearedSpaces
<1>4. Asked = [h \in Handlers |-> NoRequest] /\ PlacedIn = [h \in Handlers |-> NoProject]
  BY <1>2 DEF Asked, PlacedIn, NoTarget
<1> QED
  BY <1>1, <1>2, <1>3, <1>4, PolicyWords DEF Policy!Init

\* The picture was taken of the directory.
LEMMA PicturesTyped == SerialSpec => []PictureOK
<1>1. SerialInit => PictureOK
  BY DEF SerialInit, PictureOK
<1>2. IInv /\ PictureOK /\ [SerialNext]_serialVars => PictureOK'
  BY Types DEF PictureOK, SerialNext, serialVars
<1> QED
  BY <1>1, <1>2, SerialIsController, Invariance, PTL DEF SerialSpec

\* What the serial controller answers, from a cache that an update empties and fills
\* entry by entry and whose entries say of a role only whether it is the owner's, is
\* what the policy answers from pictures of the directory.
THEOREM ControllerImplementsPolicy == SerialSpec => ImplementsPolicy
<1>1. /\ IInv /\ IInv' /\ SInv /\ PictureOK /\ (\A h \in Handlers : Unplaced(h))
      /\ [SerialNext]_serialVars
      => [Policy!Next]_(Policy!policyVars)
  BY PolicyStep
<1> QED
  BY <1>1, PolicyInitially, SerialIsController, Invariance, SerialInvariance,
     PicturesTyped, PodsUnplaced, PTL
  DEF SerialSpec, ImplementsPolicy, Policy!Spec
=============================================================================
