--------------------- MODULE NamespaceController_proofs ---------------------
(***************************************************************************)
(* For every set of handlers, users, projects and namespaces: the type     *)
(* invariant of the namespace controller, and that what it does to a       *)
(* namespace or a pod is backed by something the Rancher server held.      *)
(***************************************************************************)
EXTENDS CacheHistory, TLAPS

-----------------------------------------------------------------------------
(* The inductive invariant *)

Updating == {"getProjects", "clear", "clearSpaces", "eachProject",
             "eachMember", "storeMember", "eachNamespace", "put"}
PodLabels == {"lookupNamespace", "rereadNamespace", "findUser", "refindUser",
              "countProjects"}

\* Program counter, request and return point agree.
ControlOK == \A h \in Handlers :
  /\ pc[h] \in {"lookupUser", "rereadUser"} => req[h] \in NamespaceRequest
  /\ pc[h] \in PodLabels => req[h] \in PodRequest
  /\ pc[h] \in Updating =>
       IF ret[h] = "rereadUser" THEN req[h] \in NamespaceRequest
       ELSE req[h] \in PodRequest
  /\ \/ pc[h] \in {"findUser", "refindUser", "countProjects"}
     \/ pc[h] \in Updating /\ ret[h] = "refindUser"
     => target[h].project \in Projects
  /\ pc[h] \in {"eachMember", "storeMember", "eachNamespace"} =>
       upd[h].project \in Projects
  /\ pc[h] = "storeMember" => upd[h].item \in Binding
  /\ reply[h].verdict = "annotate" => req[h] \in NamespaceRequest
  /\ reply[h].verdict = "limit" => req[h] \in PodRequest
  /\ pc[h] # "idle" => reply[h] = NoReply

\* Every copy of the place of a namespace, on its way from Rancher to a reply, is
\* a copy of one that Rancher held.
SpacesBacked ==
  /\ \A n \in Namespaces : nsOf[n] # NoProject => <<n, nsOf[n]>> \in everIn
  /\ \A n \in Namespaces : namespace2project[n] # NoProject =>
       <<n, namespace2project[n]>> \in everIn
  /\ \A h \in Handlers :
       /\ pc[h] = "eachNamespace" =>
            \A n \in upd[h].namespaces : <<n, upd[h].project>> \in everIn
       /\ target[h].project # NoProject =>
            <<req[h].ns, target[h].project>> \in everIn
       /\ pc[h] = "idle" => target[h] = NoTarget

IInv == TypeOK /\ ControlOK /\ SpacesBacked /\ LimitBacked

-----------------------------------------------------------------------------
(* Types *)

\* The entry made for a binding is a UserProjectInfo.
LEMMA InfoType == \A b \in Binding : InfoOf(b) \in UserProjectInfo
BY DEF Binding, InfoOf, UserProjectInfo

\* NamespaceReply and the fixed replies are replies.
LEMMA ReplyType ==
  /\ Ignore \in Reply /\ Error \in Reply /\ NoReply \in Reply
  /\ \A plist \in Seq(UserProjectInfo), n \in Namespaces :
       NamespaceReply(plist, n) \in Reply
  /\ \A p \in ProjectOrNone : [verdict |-> "limit", project |-> p] \in Reply
<1>1. Ignore \in Reply /\ Error \in Reply /\ NoReply \in Reply
  BY DEF Ignore, Error, NoReply, Says, Reply, Verdicts, ProjectOrNone
<1>2. ASSUME NEW plist \in Seq(UserProjectInfo), NEW n \in Namespaces
      PROVE  NamespaceReply(plist, n) \in Reply
  <2>1. CASE Len(plist) # 1 \/ plist[1].isOwner
    BY <1>1, <2>1 DEF NamespaceReply
  <2>2. CASE ~ (Len(plist) # 1 \/ plist[1].isOwner)
    <3>1. plist[1] \in UserProjectInfo
      BY <2>2
    <3>2. plist[1].project \in ProjectOrNone
      BY <3>1 DEF UserProjectInfo, ProjectOrNone
    <3>. QED BY <2>2, <3>2 DEF NamespaceReply, Reply, Verdicts
  <2>. QED BY <2>1, <2>2
<1>. QED BY <1>1, <1>2 DEF Reply, Verdicts, ProjectOrNone

\* An empty cache, and an empty copy of it, have their types.
LEMMA ClearedType ==
  /\ ClearedUsers \in [Users -> Seq(UserProjectInfo)]
  /\ ClearedSpaces \in [Namespaces -> ProjectOrNone]
  /\ ClearedCopy \in CacheCopy
  /\ NoUpdate \in Update
  /\ NoTarget \in Target
BY DEF ClearedUsers, ClearedSpaces, ClearedCopy, CacheCopy, NoUpdate, Update,
       NoTarget, Target, ProjectOrNone

\* The locals of UpdateCache keep their type when a project is visited ...
LEMMA VisitType ==
  ASSUME NEW f \in Update, NEW p \in Projects, NEW ms \in SUBSET Binding
  PROVE  /\ Visit(f, p, ms) \in Update
         /\ Visit(f, p, ms).project = p /\ Visit(f, p, ms).members = ms
         /\ Visit(f, p, ms).namespaces = f.namespaces
BY DEF Update, Visit, ProjectOrNone

\* ... when a member is taken with the list of its user ...
LEMMA TakeType ==
  ASSUME NEW f \in Update, NEW b \in Binding, NEW plist \in Seq(UserProjectInfo)
  PROVE  /\ Take(f, b, plist) \in Update
         /\ Take(f, b, plist).project = f.project
         /\ Take(f, b, plist).members = f.members \ {b}
         /\ Take(f, b, plist).item = b /\ Take(f, b, plist).plist = plist
         /\ Take(f, b, plist).namespaces = f.namespaces
BY DEF Update, Take

\* ... and when the longer list has been stored.
LEMMA StoredType ==
  ASSUME NEW f \in Update
  PROVE  /\ Stored(f) \in Update
         /\ Stored(f).project = f.project /\ Stored(f).members = f.members
         /\ Stored(f).namespaces = f.namespaces
<1>1. <<>> \in Seq(UserProjectInfo)
  OBVIOUS
<1>2. Stored(f) \in Update
  BY <1>1 DEF Update, Stored
<1>3. Stored(f).project = f.project /\ Stored(f).members = f.members
  BY DEF Update, Stored
<1>4. Stored(f).namespaces = f.namespaces
  BY DEF Update, Stored
<1>. QED BY <1>2, <1>3, <1>4

\* The initial states have their types.
LEMMA InitTyping == Init => TypeOK /\ ControlOK
<1>. SUFFICES ASSUME Init PROVE TypeOK /\ ControlOK
  OBVIOUS
<1>. USE ControllerAssumption, ClearedType, ReplyType
<1>1. TypeOK
  BY DEF Init, TypeOK, DirectoryTyped, CacheTyped, HandlersTyped, Labels, Returns, ProjectOrNone
<1>2. ControlOK
  BY DEF Init, ControlOK, PodLabels, Updating, NoReply, Says
<1>. QED BY <1>1, <1>2

\* The ways in which a step of a handler moves its own variables.

\* A handler that writes a reply of the right kind keeps types and control.
LEMMA AnswerTyping ==
  ASSUME HandlersTyped, ControlOK, NEW h \in Handlers, NEW r \in Reply,
         Answer(h, r),
         r.verdict = "annotate" => req[h] \in NamespaceRequest,
         r.verdict = "limit" => req[h] \in PodRequest
  PROVE  HandlersTyped' /\ ControlOK'
<1>1. HandlersTyped'
  BY ClearedType DEF HandlersTyped, Answer, Goto, Labels, Returns
<1>2. ControlOK'
  BY DEF HandlersTyped, ControlOK, Answer, Goto, PodLabels, Updating
<1>. QED BY <1>1, <1>2

\* So does a cache miss that calls UpdateCache,
LEMMA CallUpdateTyping ==
  ASSUME HandlersTyped, ControlOK, NEW h \in Handlers, NEW r \in Returns,
         CallUpdate(h, r), UNCHANGED target, reply[h] = NoReply,
         IF r = "rereadUser" THEN req[h] \in NamespaceRequest
         ELSE req[h] \in PodRequest,
         r = "refindUser" => target[h].project \in Projects
  PROVE  HandlersTyped' /\ ControlOK'
<1>1. HandlersTyped'
  BY DEF HandlersTyped, CallUpdate, Goto, Labels
<1>2. ControlOK'
  BY DEF HandlersTyped, ControlOK, CallUpdate, Goto, PodLabels, Updating, Returns
<1>. QED BY <1>1, <1>2

\* an UpdateCache that returns nil,
LEMMA ReturnTyping ==
  ASSUME HandlersTyped, ControlOK, NEW h \in Handlers, pc[h] \in Updating,
         ReturnFromUpdate(h)
  PROVE  HandlersTyped' /\ ControlOK'
<1>1. HandlersTyped'
  BY ClearedType DEF HandlersTyped, ReturnFromUpdate, Goto, Labels, Returns
<1>2. ControlOK'
  BY DEF HandlersTyped, ControlOK, ReturnFromUpdate, Goto, PodLabels, Updating, Returns
<1>. QED BY <1>1, <1>2

\* A step inside UpdateCache.
LEMMA UpdateStepTyping ==
  ASSUME HandlersTyped, ControlOK, NEW h \in Handlers, pc[h] \in Updating,
         NEW to \in Updating, UpdateStep(h, to), upd' \in [Handlers -> Update],
         \A k \in Handlers \ {h} : upd'[k] = upd[k],
         to \in {"eachMember", "storeMember", "eachNamespace"} =>
           upd'[h].project \in Projects,
         to = "storeMember" => upd'[h].item \in Binding
  PROVE  HandlersTyped' /\ ControlOK'
<1>1. HandlersTyped'
  BY DEF HandlersTyped, UpdateStep, Goto, Labels, Updating
<1>2. ControlOK'
  BY DEF HandlersTyped, ControlOK, UpdateStep, Goto, PodLabels, Updating
<1>. QED BY <1>1, <1>2

\* and an UpdateCache that returns an error.
LEMMA FailTyping ==
  ASSUME HandlersTyped, ControlOK, NEW h \in Handlers, FailUpdate(h)
  PROVE  HandlersTyped' /\ ControlOK'
<1>1. PICK r \in {Ignore, Error} : Answer(h, r)
  BY DEF FailUpdate
<1>2. r \in Reply /\ r.verdict \notin {"annotate", "limit"}
  BY <1>1, ReplyType DEF Ignore, Error, Says
<1>. QED BY <1>1, <1>2, AnswerTyping

-----------------------------------------------------------------------------
(* Every step preserves the types and ControlOK *)

Typed == DirectoryTyped /\ CacheTyped /\ HandlersTyped /\ ControlOK

\* The two lookups of a namespace request keep types and control.
LEMMA NamespaceStepTyping ==
  ASSUME Typed, NEW h \in Handlers,
         LookupUser(h) \/ RereadUser(h)
  PROVE  HandlersTyped' /\ ControlOK'
<1>. USE DEF Typed
<1>1. req[h] \in NamespaceRequest /\ reply[h] = NoReply
  BY DEF LookupUser, RereadUser, ControlOK
<1>2. /\ user2projects[req[h].user] \in Seq(UserProjectInfo)
      /\ req[h].ns \in Namespaces
  BY <1>1, DirectoryAssumption DEF CacheTyped, NamespaceRequest
<1>3. ASSUME NEW r \in Reply, Answer(h, r), r.verdict # "limit"
      PROVE  HandlersTyped' /\ ControlOK'
  BY <1>1, <1>3, AnswerTyping
<1>4. NamespaceReply(user2projects[req[h].user], req[h].ns).verdict # "limit"
  BY DEF NamespaceReply, Ignore, Says
<1>5. CASE Answer(h, NamespaceReply(user2projects[req[h].user], req[h].ns))
  BY <1>2, <1>3, <1>4, <1>5, ReplyType
<1>6. CASE CallUpdate(h, "rereadUser") /\ UNCHANGED target
  BY <1>1, <1>6, CallUpdateTyping DEF Returns
<1>. QED BY <1>5, <1>6 DEF LookupUser, RereadUser

\* So do the calls of UpdateCache to Rancher,
LEMMA RancherStepTyping ==
  ASSUME Typed, NEW h \in Handlers,
         GetProjects(h) \/ GetProjectMembers(h) \/ GetProjectNamespaces(h)
  PROVE  HandlersTyped' /\ ControlOK'
<1>. USE DEF Typed
<1>1. pc[h] \in Updating /\ upd[h] \in Update
  BY DEF GetProjects, GetProjectMembers, GetProjectNamespaces, Updating, HandlersTyped
<1>2. CASE CallFails(h)
  BY <1>2, FailTyping DEF CallFails
<1>3. ASSUME NEW ps \in {Projects, {}}, UpdateStep(h, "clear"),
             upd' = [upd EXCEPT ![h].todo = ps]
      PROVE  HandlersTyped' /\ ControlOK'
  <2>1. upd' \in [Handlers -> Update]
    BY <1>3 DEF HandlersTyped, Update
  <2>. QED BY <1>1, <1>3, <2>1, UpdateStepTyping DEF HandlersTyped, Updating
<1>4. ASSUME NEW p \in upd[h].todo, NEW ms \in SUBSET bindings,
             UpdateStep(h, "eachMember"),
             upd' = [upd EXCEPT ![h] = Visit(@, p, ms)]
      PROVE  HandlersTyped' /\ ControlOK'
  <2>1. p \in Projects /\ ms \in SUBSET Binding
    BY <1>1 DEF Update, DirectoryTyped
  <2>2. Visit(upd[h], p, ms) \in Update /\ Visit(upd[h], p, ms).project = p
    BY <1>1, <2>1, VisitType
  <2>3. upd' \in [Handlers -> Update] /\ upd'[h].project = p
    BY <1>4, <2>2 DEF HandlersTyped
  <2>. QED BY <1>1, <1>4, <2>1, <2>3, UpdateStepTyping DEF HandlersTyped, Updating
<1>5. ASSUME pc[h] = "eachMember",
             NEW ns \in SUBSET Namespaces, UpdateStep(h, AfterNamespaces(ns)),
             upd' = [upd EXCEPT ![h].namespaces = ns]
      PROVE  HandlersTyped' /\ ControlOK'
  <2>1. upd' \in [Handlers -> Update]
    BY <1>5 DEF HandlersTyped, Update
  <2>2. upd'[h].project \in Projects
    BY <1>5 DEF HandlersTyped, Update, ControlOK
  <2>. QED BY <1>1, <1>5, <2>1, <2>2, UpdateStepTyping
           DEF HandlersTyped, Updating, AfterNamespaces
<1>. QED BY <1>2, <1>3, <1>4, <1>5
         DEF GetProjects, GetProjectMembers, GetProjectNamespaces

\* its accesses to the maps of the cache,
LEMMA CacheStepTyping ==
  ASSUME Typed, NEW h \in Handlers,
         ClearCache(h) \/ ReadUserProjects(h) \/ StoreUserProjects(h) \/ StoreNamespace(h)
  PROVE  CacheTyped' /\ HandlersTyped' /\ ControlOK'
<1>. USE DEF Typed
<1>1. pc[h] \in Updating /\ upd[h] \in Update
  BY DEF ClearCache, ReadUserProjects, StoreUserProjects, StoreNamespace,
         Updating, HandlersTyped
<1>2. CASE ClearCache(h)
  <2>1. CacheTyped'
    BY <1>2, ClearedType DEF ClearCache, CacheTyped
  <2>2. PICK to \in {"clearSpaces", "eachProject"} : UpdateStep(h, to)
    BY <1>2 DEF ClearCache
  <2>. QED BY <1>1, <1>2, <2>1, <2>2, UpdateStepTyping
           DEF ClearCache, HandlersTyped, Updating
<1>3. CASE ReadUserProjects(h)
  <2>1. PICK b \in upd[h].members :
          upd' = [upd EXCEPT ![h] = Take(@, b, user2projects[b.user])]
    BY <1>3 DEF ReadUserProjects
  <2>2. b \in Binding /\ user2projects[b.user] \in Seq(UserProjectInfo)
    BY <1>1 DEF Update, Binding, CacheTyped
  <2>3. LET f == Take(upd[h], b, user2projects[b.user]) IN
        f \in Update /\ f.project = upd[h].project /\ f.item = b
    BY <1>1, <2>2, TakeType
  <2>4. /\ upd' \in [Handlers -> Update]
        /\ upd'[h].project \in Projects /\ upd'[h].item \in Binding
    BY <1>3, <2>1, <2>2, <2>3 DEF HandlersTyped, ControlOK, ReadUserProjects
  <2>5. CacheTyped'
    BY <1>3 DEF ReadUserProjects, CacheTyped, cacheVars
  <2>. QED BY <1>1, <1>3, <2>1, <2>4, <2>5, UpdateStepTyping
           DEF ReadUserProjects, HandlersTyped, Updating
<1>4. CASE StoreUserProjects(h)
  <2>1. upd[h].item \in Binding /\ upd[h].project \in Projects
    BY <1>4 DEF StoreUserProjects, ControlOK
  <2>2. Append(upd[h].plist, InfoOf(upd[h].item)) \in Seq(UserProjectInfo)
    BY <1>1, <2>1, InfoType DEF Update
  <2>3. CacheTyped'
    BY <1>4, <2>2 DEF StoreUserProjects, CacheTyped
  <2>4. upd' \in [Handlers -> Update] /\ upd'[h].project = upd[h].project
    BY <1>1, <1>4, StoredType DEF StoreUserProjects, HandlersTyped
  <2>. QED BY <1>1, <1>4, <2>1, <2>3, <2>4, UpdateStepTyping
           DEF StoreUserProjects, HandlersTyped, Updating
<1>5. CASE StoreNamespace(h)
  <2>1. PICK n \in upd[h].namespaces :
          /\ namespace2project' = [namespace2project EXCEPT ![n] = upd[h].project]
          /\ upd' = [upd EXCEPT ![h].namespaces = @ \ {n}]
    BY <1>5 DEF StoreNamespace
  <2>2. CacheTyped'
    BY <1>1, <1>5, <2>1 DEF StoreNamespace, CacheTyped, Update
  <2>3. upd' \in [Handlers -> Update] /\ upd'[h].project = upd[h].project
    BY <2>1 DEF HandlersTyped, Update
  <2>4. upd[h].project \in Projects
    BY <1>5 DEF StoreNamespace, ControlOK
  <2>5. PICK to \in Updating : UpdateStep(h, to) /\ to # "storeMember"
    BY <1>5, <2>1 DEF StoreNamespace, AfterNamespaces, Updating
  <2>. QED BY <1>1, <2>1, <2>2, <2>3, <2>4, <2>5, UpdateStepTyping DEF HandlersTyped
<1>. QED BY <1>2, <1>3, <1>4, <1>5

\* and the upload to OPA.
LEMMA OpaStepTyping ==
  ASSUME Typed, NEW h \in Handlers, opa \in CacheCopy,
         MarshalCache(h) \/ PutToOPA(h)
  PROVE  HandlersTyped' /\ ControlOK' /\ opa' \in CacheCopy
<1>. USE DEF Typed
<1>1. CASE MarshalCache(h)
  <2>1. [users |-> user2projects, namespaces |-> namespace2project] \in CacheCopy
    BY DEF CacheTyped, CacheCopy
  <2>2. HandlersTyped'
    BY <1>1, <2>1 DEF MarshalCache, HandlersTyped, Goto, Labels
  <2>3. ControlOK'
    BY <1>1 DEF MarshalCache, HandlersTyped, ControlOK, Goto, PodLabels, Updating
  <2>. QED BY <1>1, <2>2, <2>3 DEF MarshalCache
<1>2. CASE PutToOPA(h)
  <2>1. opa' \in CacheCopy
    BY <1>2 DEF PutToOPA, HandlersTyped
  <2>2. CASE ReturnFromUpdate(h)
    BY <1>2, <2>1, <2>2, ReturnTyping DEF PutToOPA, Updating
  <2>3. CASE Answer(h, Error)
    BY <2>1, <2>3, ReplyType, AnswerTyping DEF Error, Says
  <2>. QED BY <1>2, <2>2, <2>3 DEF PutToOPA
<1>. QED BY <1>1, <1>2

\* So do the steps of a pod request,
LEMMA PodStepTyping ==
  ASSUME Typed, NEW h \in Handlers,
         \/ LookupNamespace(h) \/ RereadNamespace(h)
         \/ FindUser(h) \/ RefindUser(h) \/ CountProjects(h)
  PROVE  HandlersTyped' /\ ControlOK'
<1>. USE DEF Typed
<1>1. /\ req[h] \in PodRequest /\ reply[h] = NoReply
      /\ pc[h] \in PodLabels
  BY DEF LookupNamespace, RereadNamespace, FindUser, RefindUser, CountProjects,
         ControlOK, PodLabels
<1>2. ASSUME NEW r \in Reply, Answer(h, r), r.verdict # "annotate"
      PROVE  HandlersTyped' /\ ControlOK'
  BY <1>1, <1>2, AnswerTyping
<1>3. CASE Answer(h, Ignore)
  BY <1>2, <1>3, ReplyType DEF Ignore, Says
<1>4. ASSUME NEW isOwner, PodReply(h, isOwner)
      PROVE  HandlersTyped' /\ ControlOK'
  <2>1. target[h].project \in ProjectOrNone
    BY DEF HandlersTyped, Target
  <2>2. [verdict |-> "limit", project |-> target[h].project] \in Reply
    BY <2>1, ReplyType
  <2>. QED BY <1>2, <1>3, <1>4, <2>2 DEF PodReply
<1>5. ASSUME NEW p \in ProjectOrNone, WithProject(h, p)
      PROVE  HandlersTyped' /\ ControlOK'
  <2>1. CASE p = NoProject
    BY <1>3, <1>5, <2>1 DEF WithProject
  <2>2. CASE p # NoProject
    <3>. /\ p \in Projects
         /\ target' = [target EXCEPT ![h].project = p]
         /\ Goto(h, "findUser")
         /\ UNCHANGED <<req, ret, upd, sent, reply>>
      BY <1>5, <2>2 DEF WithProject, ProjectOrNone
    <3>1. HandlersTyped'
      BY DEF HandlersTyped, Goto, Labels, Target
    <3>2. target'[h].project = p /\ \A k \in Handlers \ {h} : target'[k] = target[k]
      BY DEF HandlersTyped, Target
    <3>3. ControlOK'
      BY <1>1, <3>2 DEF HandlersTyped, ControlOK, Goto, PodLabels, Updating
    <3>. QED BY <3>1, <3>3
  <2>. QED BY <2>1, <2>2
<1>6. req[h].ns \in Namespaces
  BY <1>1 DEF PodRequest
<1>7. CASE LookupNamespace(h)
  BY <1>1, <1>5, <1>6, <1>7, CallUpdateTyping DEF LookupNamespace, CacheTyped, Returns
<1>8. CASE RereadNamespace(h)
  BY <1>5, <1>6, <1>8 DEF RereadNamespace, CacheTyped
<1>9. CASE FindUser(h)
  <2>1. target[h].project \in Projects
    BY <1>9 DEF FindUser, ControlOK
  <2>2. CASE CallUpdate(h, "refindUser") /\ UNCHANGED target
    BY <1>1, <2>1, <2>2, CallUpdateTyping DEF Returns
  <2>. QED BY <1>4, <1>9, <2>2 DEF FindUser
<1>10. CASE RefindUser(h)
  <2>1. PICK u \in Users \cup {EmptyUser} : target' = [target EXCEPT ![h].user = u]
    BY <1>10 DEF RefindUser, UsersOf
  <2>2. /\ target' \in [Handlers -> Target]
        /\ \A k \in Handlers : target'[k].project = target[k].project
    BY <2>1 DEF HandlersTyped, Target
  <2>3. HandlersTyped'
    BY <1>10, <2>2 DEF RefindUser, HandlersTyped, Goto, Labels
  <2>4. ControlOK'
    BY <1>10, <2>2 DEF RefindUser, HandlersTyped, ControlOK, Goto, PodLabels, Updating
  <2>. QED BY <2>3, <2>4
<1>11. CASE CountProjects(h)
  BY <1>3, <1>4, <1>11 DEF CountProjects
<1>. QED BY <1>7, <1>8, <1>9, <1>10, <1>11

\* the arrival of a request,
LEMMA RequestTyping ==
  ASSUME Typed, NEW h \in Handlers, ReceiveRequest(h)
  PROVE  HandlersTyped' /\ ControlOK'
<1>. USE DEF Typed
<1>1. PICK r \in Request :
        /\ req' = [req EXCEPT ![h] = r]
        /\ Goto(h, IF r.kind = "Namespace" THEN "lookupUser" ELSE "lookupNamespace")
  BY DEF ReceiveRequest
<1>2. IF r.kind = "Namespace" THEN r \in NamespaceRequest ELSE r \in PodRequest
  BY DEF Request, NamespaceRequest, PodRequest
<1>3. HandlersTyped'
  BY <1>1, ReplyType DEF ReceiveRequest, HandlersTyped, Goto, Labels
<1>4. ControlOK'
  BY <1>1, <1>2 DEF ReceiveRequest, HandlersTyped, ControlOK, Goto, PodLabels,
                    Updating, NoReply, Says
<1>. QED BY <1>3, <1>4

\* a change of the directory, seen from the handlers,
LEMMA SetDirectoryTyping ==
  ASSUME Typed, NEW b \in SUBSET Binding, NEW n \in [Namespaces -> ProjectOrNone],
         SetDirectory(b, n)
  PROVE  DirectoryTyped'
BY DEF Typed, DirectoryTyped, SetDirectory, ProjectOrNone

\* a change of the directory, by hand or by a created namespace,
LEMMA DirectoryStepTyping ==
  ASSUME Typed,
         ChangeDirectory \/ \E h \in Handlers : CreateNamespace(h)
  PROVE  DirectoryTyped' /\ HandlersTyped' /\ ControlOK'
<1>. USE DEF Typed
<1>1. CASE ChangeDirectory
  <2>1. PICK b \in SUBSET Binding, n \in [Namespaces -> ProjectOrNone] : SetDirectory(b, n)
    BY <1>1 DEF ChangeDirectory, DirectoryTyped
  <2>2. HandlersTyped' /\ ControlOK'
    BY <1>1, <2>1 DEF ChangeDirectory, SetDirectory, HandlersTyped, ControlOK, localVars
  <2>. QED BY <2>1, <2>2, SetDirectoryTyping
<1>2. ASSUME NEW h \in Handlers, CreateNamespace(h)
      PROVE  DirectoryTyped' /\ HandlersTyped' /\ ControlOK'
  <2>1. reply[h].project \in ProjectOrNone
    BY DEF HandlersTyped, Reply
  <2>2. [nsOf EXCEPT ![req[h].ns] = reply[h].project] \in [Namespaces -> ProjectOrNone]
    BY <2>1 DEF DirectoryTyped
  <2>3. DirectoryTyped'
    BY <1>2, <2>2, SetDirectoryTyping DEF CreateNamespace, DirectoryTyped
  <2>4. HandlersTyped'
    BY <1>2, ReplyType DEF CreateNamespace, SetDirectory, HandlersTyped, localVars
  <2>5. ControlOK'
    BY <1>2 DEF CreateNamespace, SetDirectory, HandlersTyped, ControlOK, localVars,
                NoReply, Says
  <2>. QED BY <2>3, <2>4, <2>5
<1>. QED BY <1>1, <1>2

\* and a crash of the process.
LEMMA ResetTyping ==
  ASSUME Typed, Reset
  PROVE  CacheTyped' /\ HandlersTyped' /\ ControlOK'
<1>. USE DEF Typed
<1>1. CacheTyped'
  BY ClearedType DEF Reset, CacheTyped
<1>2. HandlersTyped'
  BY ClearedType, ReplyType DEF Reset, HandlersTyped, Labels, Returns
<1>3. ControlOK'
  BY DEF Reset, HandlersTyped, ControlOK, PodLabels, Updating, Error, Says
<1>. QED BY <1>1, <1>2, <1>3

\* Every step keeps types and control.
LEMMA StepTyping ==
  ASSUME TypeOK, ControlOK, [Next]_vars
  PROVE  TypeOK' /\ ControlOK'
<1>. USE DEF TypeOK
<1>. Typed
  BY DEF Typed
<1>1. CASE UNCHANGED vars
  BY <1>1 DEF vars, directoryVars, cacheVars, localVars, ControlOK,
              DirectoryTyped, CacheTyped, HandlersTyped
<1>2. ASSUME NEW h \in Handlers, ReceiveRequest(h)
      PROVE  TypeOK' /\ ControlOK'
  <2>1. /\ UNCHANGED <<directoryVars, cacheVars, opa, faults>>
        /\ received' = received + 1
    BY <1>2 DEF ReceiveRequest
  <2>. QED BY <1>2, <2>1, RequestTyping
           DEF directoryVars, cacheVars, DirectoryTyped, CacheTyped
<1>3. ASSUME NEW h \in Handlers, Step(h)
      PROVE  TypeOK' /\ ControlOK'
  <2>. DEFINE Frame == /\ UNCHANGED <<directoryVars, received>>
                       /\ faults' \in Nat
  <2>1. CASE LookupUser(h) \/ RereadUser(h)
    <3>1. Frame /\ UNCHANGED <<cacheVars, opa>>
      BY <2>1 DEF LookupUser, RereadUser
    <3>. QED BY <2>1, <3>1, NamespaceStepTyping
             DEF directoryVars, cacheVars, DirectoryTyped, CacheTyped
  <2>2. CASE GetProjects(h) \/ GetProjectMembers(h) \/ GetProjectNamespaces(h)
    <3>1. Frame /\ UNCHANGED <<cacheVars, opa>>
      BY <2>2 DEF GetProjects, GetProjectMembers, GetProjectNamespaces, Brings,
                  CallFails, Fault
    <3>. QED BY <2>2, <3>1, RancherStepTyping
             DEF directoryVars, cacheVars, DirectoryTyped, CacheTyped
  <2>3. CASE \/ ClearCache(h) \/ ReadUserProjects(h)
             \/ StoreUserProjects(h) \/ StoreNamespace(h)
    <3>1. Frame /\ UNCHANGED opa
      BY <2>3 DEF ClearCache, ReadUserProjects, StoreUserProjects, StoreNamespace
    <3>. QED BY <2>3, <3>1, CacheStepTyping DEF directoryVars, DirectoryTyped
  <2>4. CASE MarshalCache(h) \/ PutToOPA(h)
    <3>1. Frame /\ UNCHANGED cacheVars
      BY <2>4 DEF MarshalCache, PutToOPA, Fault
    <3>. QED BY <2>4, <3>1, OpaStepTyping
             DEF directoryVars, cacheVars, DirectoryTyped, CacheTyped
  <2>5. CASE \/ LookupNamespace(h) \/ RereadNamespace(h)
             \/ FindUser(h) \/ RefindUser(h) \/ CountProjects(h)
    <3>1. Frame /\ UNCHANGED <<cacheVars, opa>>
      BY <2>5 DEF LookupNamespace, RereadNamespace, FindUser, RefindUser, CountProjects
    <3>. QED BY <2>5, <3>1, PodStepTyping
             DEF directoryVars, cacheVars, DirectoryTyped, CacheTyped
  <2>. QED BY <1>3, <2>1, <2>2, <2>3, <2>4, <2>5 DEF Step
<1>4. CASE ChangeDirectory \/ \E h \in Handlers : CreateNamespace(h)
  <2>1. UNCHANGED <<cacheVars, opa, received, faults>> /\ changes' \in Nat
    BY <1>4 DEF ChangeDirectory, CreateNamespace, SetDirectory
  <2>. QED BY <1>4, <2>1, DirectoryStepTyping DEF cacheVars, CacheTyped
<1>5. CASE CrashOnMapRace \/ Restart
  <2>1. Reset /\ faults' \in Nat
    BY <1>5 DEF CrashOnMapRace, Restart, Fault
  <2>2. UNCHANGED <<directoryVars, opa, received>>
    BY <2>1 DEF Reset
  <2>. QED BY <2>1, <2>2, ResetTyping DEF directoryVars, DirectoryTyped
<1>. QED BY <1>1, <1>2, <1>3, <1>4, <1>5 DEF Next

\* The variables of the namespace controller have their types.
THEOREM TypeCorrect == Spec => []TypeOK
<1>1. Init => TypeOK /\ ControlOK
  BY InitTyping
<1>2. TypeOK /\ ControlOK /\ [Next]_vars => (TypeOK /\ ControlOK)'
  BY StepTyping
<1>. QED BY <1>1, <1>2, PTL DEF Spec

-----------------------------------------------------------------------------
(* Every copy of the place of a namespace is backed *)

\* A handler that answers drops its locals, and nobody else's change.
LEMMA AnswerFrame ==
  ASSUME HandlersTyped, NEW h \in Handlers, NEW r, Answer(h, r)
  PROVE  /\ upd'[h] = NoUpdate /\ pc'[h] = "idle" /\ reply'[h] = r
         /\ target'[h] = NoTarget
         /\ UNCHANGED req
         /\ \A k \in Handlers \ {h} :
              /\ upd'[k] = upd[k] /\ pc'[k] = pc[k]
              /\ reply'[k] = reply[k] /\ target'[k] = target[k]
BY DEF HandlersTyped, Answer, Goto

\* Steps that touch no copy of the place of a namespace keep these backed.
LEMMA SpacesFrame ==
  ASSUME SpacesBacked, everIn \subseteq everIn',
         \A n \in Namespaces : nsOf'[n] # NoProject => <<n, nsOf'[n]>> \in everIn',
         UNCHANGED namespace2project,
         \A k \in Handlers :
           /\ pc'[k] = "eachNamespace" => pc[k] = "eachNamespace" /\ upd'[k] = upd[k]
           /\ \/ target'[k] = NoTarget
              \/ /\ target'[k].project = target[k].project /\ req'[k] = req[k]
                 /\ pc'[k] # "idle"
  PROVE  SpacesBacked'
<1>1. \A n \in Namespaces : namespace2project'[n] # NoProject =>
        <<n, namespace2project'[n]>> \in everIn'
  BY DEF SpacesBacked
<1>2. ASSUME NEW k \in Handlers, pc'[k] = "eachNamespace"
      PROVE  \A n \in upd'[k].namespaces : <<n, upd'[k].project>> \in everIn'
  BY <1>2 DEF SpacesBacked
<1>3. ASSUME NEW k \in Handlers
      PROVE  /\ target'[k].project # NoProject =>
                  <<req'[k].ns, target'[k].project>> \in everIn'
             /\ pc'[k] = "idle" => target'[k] = NoTarget
  <2>1. CASE target'[k] = NoTarget
    BY <2>1 DEF NoTarget
  <2>2. CASE target'[k].project = target[k].project /\ req'[k] = req[k] /\ pc'[k] # "idle"
    BY <2>2 DEF SpacesBacked
  <2>. QED BY <2>1, <2>2
<1>. QED BY <1>1, <1>2, <1>3 DEF SpacesBacked

\* Every step keeps all copies of the places of namespaces backed.
LEMMA SpacesStep ==
  ASSUME Typed, SpacesBacked, [Next]_vars
  PROVE  SpacesBacked'
<1>. USE DEF Typed
<1>0. ASSUME NEW h \in Handlers, NEW r, Answer(h, r),
             UNCHANGED <<directoryVars, namespace2project>>
      PROVE  SpacesBacked'
  <2>1. /\ UNCHANGED <<nsOf, everIn, namespace2project, req>>
        /\ pc'[h] = "idle" /\ target'[h] = NoTarget
        /\ \A k \in Handlers \ {h} :
             upd'[k] = upd[k] /\ pc'[k] = pc[k] /\ target'[k] = target[k]
    BY <1>0, AnswerFrame DEF directoryVars
  <2>. QED BY <2>1, SpacesFrame DEF SpacesBacked
<1>1. CASE UNCHANGED vars
  BY <1>1, SpacesFrame DEF vars, directoryVars, cacheVars, localVars, SpacesBacked
<1>2. ASSUME NEW h \in Handlers, ReceiveRequest(h)
      PROVE  SpacesBacked'
  <2>1. /\ UNCHANGED <<nsOf, everIn, namespace2project, upd, target>>
        /\ target[h] = NoTarget
        /\ \A k \in Handlers \ {h} : req'[k] = req[k] /\ pc'[k] = pc[k]
        /\ pc'[h] # "eachNamespace"
    BY <1>2 DEF ReceiveRequest, directoryVars, cacheVars, HandlersTyped, Goto, SpacesBacked
  <2>. QED BY <2>1, SpacesFrame DEF SpacesBacked
<1>3. ASSUME NEW h \in Handlers, LookupUser(h) \/ RereadUser(h)
      PROVE  SpacesBacked'
  <2>1. CASE \E r : Answer(h, r)
    BY <1>0, <1>3, <2>1 DEF LookupUser, RereadUser, cacheVars
  <2>2. CASE CallUpdate(h, "rereadUser") /\ UNCHANGED target
    BY <1>3, <2>2, SpacesFrame
       DEF LookupUser, RereadUser, CallUpdate, Goto, directoryVars, cacheVars,
           HandlersTyped, SpacesBacked
  <2>. QED BY <1>3, <2>1, <2>2 DEF LookupUser, RereadUser
<1>4. ASSUME NEW h \in Handlers, LookupNamespace(h) \/ RereadNamespace(h)
      PROVE  SpacesBacked'
  <2>1. req[h] \in PodRequest /\ req[h].ns \in Namespaces
    BY <1>4 DEF LookupNamespace, RereadNamespace, ControlOK, PodLabels, PodRequest
  <2>2. CASE \E r : Answer(h, r)
    BY <1>0, <1>4, <2>2 DEF LookupNamespace, RereadNamespace, cacheVars
  <2>3. CASE CallUpdate(h, "rereadNamespace") /\ UNCHANGED target
    BY <1>4, <2>3, SpacesFrame
       DEF LookupNamespace, RereadNamespace, CallUpdate, Goto, directoryVars,
           cacheVars, HandlersTyped, SpacesBacked
  <2>4. CASE WithProject(h, namespace2project[req[h].ns]) /\ ~ \E r : Answer(h, r)
    <3>. DEFINE p == namespace2project[req[h].ns]
    <3>1. /\ target' = [target EXCEPT ![h].project = p]
          /\ pc' = [pc EXCEPT ![h] = "findUser"]
          /\ UNCHANGED <<req, upd>> /\ p # NoProject
      BY <2>4 DEF WithProject, Goto
    <3>2. UNCHANGED <<directoryVars, namespace2project>>
      BY <1>4 DEF LookupNamespace, RereadNamespace, cacheVars
    <3>3. target'[h].project = p /\ \A k \in Handlers \ {h} : target'[k] = target[k]
      BY <3>1 DEF HandlersTyped, Target
    <3>4. <<req[h].ns, p>> \in everIn
      BY <2>1, <3>1 DEF SpacesBacked
    <3>. QED BY <3>1, <3>2, <3>3, <3>4 DEF directoryVars, HandlersTyped, SpacesBacked
  <2>. QED BY <1>4, <2>2, <2>3, <2>4 DEF LookupNamespace, RereadNamespace
<1>5. ASSUME NEW h \in Handlers, FindUser(h) \/ CountProjects(h)
      PROVE  SpacesBacked'
  <2>1. CASE \E r : Answer(h, r)
    BY <1>0, <1>5, <2>1 DEF FindUser, CountProjects, cacheVars
  <2>2. CASE CallUpdate(h, "refindUser") /\ UNCHANGED target
    BY <1>5, <2>2, SpacesFrame
       DEF FindUser, CountProjects, CallUpdate, Goto, directoryVars, cacheVars,
           HandlersTyped, SpacesBacked
  <2>. QED BY <1>5, <2>1, <2>2 DEF FindUser, CountProjects, PodReply
<1>6. ASSUME NEW h \in Handlers, RefindUser(h)
      PROVE  SpacesBacked'
  <2>1. PICK u : target' = [target EXCEPT ![h].user = u]
    BY <1>6 DEF RefindUser
  <2>2. \A k \in Handlers : target'[k].project = target[k].project
                            /\ (k # h => target'[k] = target[k])
    BY <2>1 DEF HandlersTyped, Target
  <2>. QED BY <1>6, <2>2, SpacesFrame
           DEF RefindUser, Goto, directoryVars, cacheVars, HandlersTyped, SpacesBacked
<1>7. ASSUME NEW h \in Handlers,
             \/ ClearCache(h) \/ ReadUserProjects(h) \/ StoreUserProjects(h)
             \/ MarshalCache(h)
      PROVE  SpacesBacked'
  <2>1. /\ UNCHANGED <<nsOf, everIn, req, target>>
        /\ pc[h] # "idle" /\ pc'[h] \notin {"idle", "eachNamespace"}
        /\ \A k \in Handlers \ {h} : pc'[k] = pc[k] /\ upd'[k] = upd[k]
    BY <1>7 DEF ClearCache, ReadUserProjects, StoreUserProjects, MarshalCache,
                UpdateStep, Goto, directoryVars, HandlersTyped
  <2>2. namespace2project' \in {namespace2project, ClearedSpaces}
    BY <1>7 DEF ClearCache, ReadUserProjects, StoreUserProjects, MarshalCache, cacheVars
  <2>3. \A n \in Namespaces : namespace2project'[n] # NoProject =>
          <<n, namespace2project'[n]>> \in everIn'
    BY <2>1, <2>2 DEF ClearedSpaces, SpacesBacked
  <2>. QED BY <2>1, <2>3 DEF SpacesBacked
<1>8. ASSUME NEW h \in Handlers, PutToOPA(h)
      PROVE  SpacesBacked'
  <2>1. CASE ReturnFromUpdate(h)
    <3>1. /\ UNCHANGED <<nsOf, everIn, namespace2project, req, target>>
          /\ pc[h] # "idle" /\ pc'[h] \notin {"idle", "eachNamespace"}
          /\ \A k \in Handlers \ {h} : pc'[k] = pc[k] /\ upd'[k] = upd[k]
      BY <1>8, <2>1 DEF PutToOPA, ReturnFromUpdate, Goto, directoryVars, cacheVars,
                        HandlersTyped, Returns
    <3>. QED BY <3>1, SpacesFrame DEF SpacesBacked
  <2>. QED BY <1>0, <1>8, <2>1 DEF PutToOPA, cacheVars
<1>9. ASSUME NEW h \in Handlers,
             GetProjects(h) \/ GetProjectMembers(h) \/ GetProjectNamespaces(h)
      PROVE  SpacesBacked'
  <2>1. UNCHANGED <<directoryVars, cacheVars>> /\ upd[h] \in Update
    BY <1>9 DEF GetProjects, GetProjectMembers, GetProjectNamespaces, HandlersTyped
  <2>2. CASE CallFails(h)
    BY <1>0, <2>1, <2>2 DEF CallFails, FailUpdate, cacheVars
  <2>3. CASE (GetProjects(h) \/ GetProjectMembers(h)) /\ ~ CallFails(h)
    <3>1. /\ UNCHANGED <<req, target>>
          /\ pc[h] # "idle" /\ pc'[h] \notin {"idle", "eachNamespace"}
          /\ \A k \in Handlers \ {h} : pc'[k] = pc[k] /\ upd'[k] = upd[k]
      BY <2>3 DEF GetProjects, GetProjectMembers, UpdateStep, Goto, HandlersTyped
    <3>. QED BY <2>1, <3>1, SpacesFrame DEF directoryVars, cacheVars, SpacesBacked
  <2>4. CASE GetProjectNamespaces(h) /\ ~ CallFails(h)
    <3>1. PICK ns \in SUBSET Namespaces :
            /\ Brings(NamespacesOf(upd[h].project), ns)
            /\ upd' = [upd EXCEPT ![h].namespaces = ns]
            /\ UpdateStep(h, AfterNamespaces(ns))
      BY <2>4 DEF GetProjectNamespaces
    <3>2. upd[h].project \in Projects
      BY <2>4 DEF GetProjectNamespaces, ControlOK
    <3>3. \A n \in ns : <<n, upd[h].project>> \in everIn
      BY <3>1, <3>2, DirectoryAssumption DEF Brings, NamespacesOf, SpacesBacked
    <3>4. upd'[h].namespaces = ns /\ upd'[h].project = upd[h].project
      BY <2>1, <3>1 DEF HandlersTyped, Update
    <3>5. /\ UNCHANGED <<req, target>>
          /\ pc[h] # "idle" /\ pc'[h] # "idle"
          /\ \A k \in Handlers \ {h} : pc'[k] = pc[k] /\ upd'[k] = upd[k]
      BY <2>4, <3>1 DEF GetProjectNamespaces, UpdateStep, Goto, AfterNamespaces, HandlersTyped
    <3>. QED BY <2>1, <3>3, <3>4, <3>5 DEF directoryVars, cacheVars, SpacesBacked
  <2>. QED BY <1>9, <2>2, <2>3, <2>4
<1>10. ASSUME NEW h \in Handlers, StoreNamespace(h)
       PROVE  SpacesBacked'
  <2>1. PICK n \in upd[h].namespaces :
          /\ namespace2project' = [namespace2project EXCEPT ![n] = upd[h].project]
          /\ upd' = [upd EXCEPT ![h].namespaces = @ \ {n}]
    BY <1>10 DEF StoreNamespace
  <2>2. <<n, upd[h].project>> \in everIn
    BY <1>10, <2>1 DEF StoreNamespace, SpacesBacked
  <2>3. \A m \in Namespaces : namespace2project'[m] # NoProject =>
          <<m, namespace2project'[m]>> \in everIn
    BY <2>1, <2>2 DEF CacheTyped, SpacesBacked
  <2>4. upd'[h].namespaces \subseteq upd[h].namespaces /\ upd'[h].project = upd[h].project
    BY <2>1 DEF HandlersTyped, Update
  <2>5. /\ UNCHANGED <<nsOf, everIn, req, target>>
        /\ pc[h] = "eachNamespace" /\ pc'[h] # "idle"
        /\ \A k \in Handlers \ {h} : pc'[k] = pc[k] /\ upd'[k] = upd[k]
    BY <1>10, <2>1 DEF StoreNamespace, UpdateStep, Goto, AfterNamespaces,
                       directoryVars, HandlersTyped
  <2>. QED BY <2>3, <2>4, <2>5 DEF SpacesBacked
<1>11. CASE ChangeDirectory \/ \E h \in Handlers : CreateNamespace(h)
  <2>1. PICK b, n : SetDirectory(b, n)
    BY <1>11 DEF ChangeDirectory, CreateNamespace
  <2>2. /\ \A m \in Namespaces : nsOf'[m] # NoProject => <<m, nsOf'[m]>> \in everIn'
        /\ everIn \subseteq everIn'
        /\ UNCHANGED <<namespace2project, pc, upd, req, target>>
    BY <2>1 DEF SetDirectory, cacheVars, localVars
  <2>. QED BY <2>2, SpacesFrame DEF SpacesBacked
<1>12. CASE CrashOnMapRace \/ Restart
  BY <1>12 DEF CrashOnMapRace, Restart, Reset, directoryVars, ClearedSpaces, NoTarget,
               SpacesBacked
<1>. QED BY <1>1, <1>2, <1>3, <1>4, <1>5, <1>6, <1>7, <1>8, <1>9, <1>10, <1>11, <1>12
         DEF Next, Step

-----------------------------------------------------------------------------
(* Replies *)

\* A step in which no handler starts to say "limit".
LEMMA RepliesFrame ==
  ASSUME LimitBacked, everIn \subseteq everIn',
         \A k \in Handlers :
           \/ reply'[k].verdict # "limit"
           \/ reply'[k] = reply[k] /\ req'[k] = req[k]
  PROVE  LimitBacked'
BY DEF LimitBacked

\* Every step keeps all replies about limits backed.
LEMMA RepliesStep ==
  ASSUME Typed, SpacesBacked, LimitBacked, [Next]_vars
  PROVE  LimitBacked'
<1>. USE DEF Typed
<1>0. ASSUME NEW h \in Handlers, NEW r, Answer(h, r), UNCHANGED directoryVars,
             r.verdict # "limit"
      PROVE  LimitBacked'
  BY <1>0, AnswerFrame, RepliesFrame DEF directoryVars
<1>1. CASE UNCHANGED <<directoryVars, req, reply>>
  BY <1>1, RepliesFrame DEF directoryVars
<1>2. ASSUME NEW h \in Handlers, ReceiveRequest(h)
      PROVE  LimitBacked'
  BY <1>2, RepliesFrame DEF ReceiveRequest, directoryVars, HandlersTyped, NoReply, Says
<1>3. ASSUME NEW h \in Handlers, LookupUser(h) \/ RereadUser(h)
      PROVE  LimitBacked'
  <2>. DEFINE r == NamespaceReply(user2projects[req[h].user], req[h].ns)
  <2>0. r.verdict # "limit"
    BY DEF NamespaceReply, Ignore, Says
  <2>1. CASE Answer(h, r)
    BY <1>0, <1>3, <2>0, <2>1 DEF LookupUser, RereadUser
  <2>2. CASE CallUpdate(h, "rereadUser") /\ LookupUser(h)
    BY <1>1, <2>2 DEF LookupUser, CallUpdate
  <2>. QED BY <1>3, <2>1, <2>2 DEF LookupUser, RereadUser
<1>4. ASSUME NEW h \in Handlers, FindUser(h) \/ CountProjects(h)
      PROVE  LimitBacked'
  <2>1. UNCHANGED directoryVars
    BY <1>4 DEF FindUser, CountProjects
  <2>2. CASE Answer(h, Ignore)
    BY <1>0, <2>1, <2>2 DEF Ignore, Says
  <2>3. CASE CallUpdate(h, "refindUser")
    BY <1>1, <2>1, <2>3 DEF CallUpdate
  <2>4. CASE Answer(h, [verdict |-> "limit", project |-> target[h].project])
    <3>1. target[h].project \in Projects
      BY <1>4 DEF FindUser, CountProjects, ControlOK
    <3>2. <<req[h].ns, target[h].project>> \in everIn
      BY <3>1, DirectoryAssumption DEF SpacesBacked
    <3>3. /\ reply'[h].verdict = "limit" /\ reply'[h].project = target[h].project
          /\ UNCHANGED <<req, everIn>>
          /\ \A k \in Handlers \ {h} : reply'[k] = reply[k]
      BY <2>1, <2>4, AnswerFrame DEF directoryVars
    <3>. QED BY <3>2, <3>3 DEF LimitBacked
  <2>. QED BY <1>4, <2>2, <2>3, <2>4 DEF FindUser, CountProjects, PodReply
<1>5. ASSUME NEW h \in Handlers, LookupNamespace(h) \/ RereadNamespace(h)
      PROVE  LimitBacked'
  BY <1>0, <1>1, <1>5
     DEF LookupNamespace, RereadNamespace, WithProject, CallUpdate, Ignore, Says
<1>6. ASSUME NEW h \in Handlers,
             GetProjects(h) \/ GetProjectMembers(h) \/ GetProjectNamespaces(h)
      PROVE  LimitBacked'
  BY <1>0, <1>1, <1>6
     DEF GetProjects, GetProjectMembers, GetProjectNamespaces, UpdateStep,
         CallFails, FailUpdate, Ignore, Error, Says
<1>7. ASSUME NEW h \in Handlers,
             \/ ClearCache(h) \/ ReadUserProjects(h) \/ StoreUserProjects(h)
             \/ StoreNamespace(h) \/ MarshalCache(h) \/ RefindUser(h)
      PROVE  LimitBacked'
  BY <1>1, <1>7
     DEF ClearCache, ReadUserProjects, StoreUserProjects, StoreNamespace,
         MarshalCache, RefindUser, UpdateStep
<1>8. ASSUME NEW h \in Handlers, PutToOPA(h)
      PROVE  LimitBacked'
  BY <1>0, <1>1, <1>8 DEF PutToOPA, ReturnFromUpdate, Error, Says
<1>9. CASE ChangeDirectory \/ \E h \in Handlers : CreateNamespace(h)
  BY <1>9, RepliesFrame
     DEF ChangeDirectory, CreateNamespace, SetDirectory, localVars, HandlersTyped,
         NoReply, Says
<1>10. CASE CrashOnMapRace \/ Restart
  BY <1>10, RepliesFrame
     DEF CrashOnMapRace, Restart, Reset, directoryVars, Error, Says
<1>11. CASE UNCHANGED vars
  BY <1>1, <1>11 DEF vars, localVars
<1>. QED BY <1>2, <1>3, <1>4, <1>5, <1>6, <1>7, <1>8, <1>9, <1>10, <1>11 DEF Next, Step

-----------------------------------------------------------------------------
(* The theorems *)

\* In the initial states nothing is copied yet but what Rancher holds.
LEMMA InitBacked == Init => SpacesBacked /\ LimitBacked
BY DEF Init, SpacesBacked, LimitBacked, ClearedSpaces, NoTarget, NoReply, Says

\* The inductive invariant holds in every reachable state.
THEOREM Invariance == Spec => []IInv
<1>1. Init => IInv
  BY InitTyping, InitBacked DEF IInv
<1>2. IInv /\ [Next]_vars => IInv'
  <2>. SUFFICES ASSUME IInv, [Next]_vars PROVE IInv'
    OBVIOUS
  <2>1. Typed /\ SpacesBacked /\ LimitBacked
    BY DEF IInv, TypeOK, Typed
  <2>2. (TypeOK /\ ControlOK)'
    BY StepTyping DEF IInv
  <2>. QED BY <2>1, <2>2, SpacesStep, RepliesStep DEF IInv
<1>. QED BY <1>1, <1>2, PTL DEF Spec

\* A pod's limits are checked only if its namespace was once in the project that
\* is the reason for it.
THEOREM LimitsAreBacked == Spec => []LimitBacked
<1>1. IInv => LimitBacked
  BY DEF IInv
<1>. QED BY <1>1, Invariance, PTL

-----------------------------------------------------------------------------
(* The history of the cache *)

\* In the middle of an update, after the map of users, and that of namespaces,
\* has been emptied.
FillingSpaces == {"eachProject", "eachMember", "storeMember", "eachNamespace", "put"}
FillingUsers  == FillingSpaces \cup {"clearSpaces"}

\* The histories contain the present, and while an update goes on that has emptied
\* a map, what the map may hold is no older than the controller's last rest.
AgesOrdered ==
  /\ bindings \subseteq restBindings /\ restBindings \subseteq cacheBindings
  /\ PlacesHeld \subseteq restPlaces /\ restPlaces \subseteq cachePlaces
  /\ \A h \in Handlers :
       /\ pc[h] \in FillingUsers => cacheBindings \subseteq restBindings
       /\ pc[h] \in FillingSpaces => cachePlaces \subseteq restPlaces

\* What an update has in hand is no older than that either.
LocalsRecent(h) ==
  /\ pc[h] \in {"eachMember", "storeMember"} => upd[h].members \subseteq restBindings
  /\ pc[h] = "storeMember" =>
       /\ upd[h].item \in restBindings
       /\ EntriesFrom(upd[h].plist, upd[h].item.user, restBindings)
  /\ pc[h] = "eachNamespace" =>
       \A n \in upd[h].namespaces : <<n, upd[h].project>> \in restPlaces

HInv == AgesOrdered /\ CacheRecent /\ \A h \in Handlers : LocalsRecent(h)

\* What is from a set is from every larger one.
LEMMA FromMore ==
  ASSUME NEW bs, NEW cs, bs \subseteq cs
  PROVE  /\ \A plist, u : EntriesFrom(plist, u, bs) => EntriesFrom(plist, u, cs)
         /\ \A lists : UsersFrom(lists, bs) => UsersFrom(lists, cs)
         /\ \A projects : SpacesFrom(projects, bs) => SpacesFrom(projects, cs)
<1>1. \A plist, u : EntriesFrom(plist, u, bs) => EntriesFrom(plist, u, cs)
  BY DEF EntriesFrom
<1>2. \A lists : UsersFrom(lists, bs) => UsersFrom(lists, cs)
  BY <1>1 DEF UsersFrom
<1>3. \A projects : SpacesFrom(projects, bs) => SpacesFrom(projects, cs)
  BY DEF SpacesFrom
<1>. QED BY <1>1, <1>2, <1>3

\* The entry of one of a set's bindings can be appended to a list from the set.
LEMMA AppendFrom ==
  ASSUME NEW bs, NEW b \in bs, b \in Binding, NEW plist \in Seq(UserProjectInfo),
         EntriesFrom(plist, b.user, bs)
  PROVE  EntriesFrom(Append(plist, InfoOf(b)), b.user, bs)
<1>. DEFINE long == Append(plist, InfoOf(b))
<1>1. InfoOf(b) \in UserProjectInfo
  BY InfoType
<1>2. ASSUME NEW i \in DOMAIN long
      PROVE  \E c \in bs : c.user = b.user /\ InfoOf(c) = long[i]
  <2>1. CASE i \in DOMAIN plist
    BY <1>1, <2>1 DEF EntriesFrom
  <2>2. CASE i \notin DOMAIN plist
    BY <1>1, <2>2
  <2>. QED BY <2>1, <2>2
<1>. QED BY <1>2 DEF EntriesFrom

\* An empty cache is from every set.
LEMMA ClearedFrom ==
  \A bs : UsersFrom(ClearedUsers, bs) /\ SpacesFrom(ClearedSpaces, bs)
BY DEF UsersFrom, EntriesFrom, SpacesFrom, ClearedUsers, ClearedSpaces

-----------------------------------------------------------------------------
(* Which step moves a handler *)

\* A handler is moved by a step of its own, or by the end of the process.
LEMMA OwnStep ==
  ASSUME HandlersTyped, [Next]_vars, NEW h \in Handlers,
         pc'[h] # pc[h] \/ upd'[h] # upd[h] \/ sent'[h] # sent[h]
  PROVE  \/ ReceiveRequest(h) \/ Step(h)
         \/ pc'[h] = "idle"
<1>. USE DEF HandlersTyped
<1>1. ASSUME NEW k \in Handlers \ {h}, ReceiveRequest(k) \/ Step(k)
      PROVE  FALSE
  <2>1. CASE \E r : Answer(k, r)
    BY <2>1 DEF Answer, Goto
  <2>2. CASE \E to : Goto(k, to) /\ UNCHANGED <<upd, sent>>
    BY <2>2 DEF Goto
  <2>3. CASE \E to, f : Goto(k, to) /\ upd' = [upd EXCEPT ![k] = f] /\ UNCHANGED sent
    BY <2>3 DEF Goto
  <2>4. CASE ReturnFromUpdate(k)
    BY <2>4 DEF ReturnFromUpdate, Goto
  <2>5. CASE \E to, s : Goto(k, to) /\ sent' = [sent EXCEPT ![k] = s] /\ UNCHANGED upd
    BY <2>5 DEF Goto
  <2>6. ASSUME ReceiveRequest(k) PROVE \E to : Goto(k, to) /\ UNCHANGED <<upd, sent>>
    BY <2>6 DEF ReceiveRequest
  <2>7. ASSUME LookupUser(k) \/ RereadUser(k) \/ LookupNamespace(k) \/ RereadNamespace(k)
               \/ FindUser(k) \/ RefindUser(k) \/ CountProjects(k)
        PROVE  (\E r : Answer(k, r)) \/ \E to : Goto(k, to) /\ UNCHANGED <<upd, sent>>
    BY <2>7 DEF LookupUser, RereadUser, LookupNamespace, RereadNamespace, FindUser,
                RefindUser, CountProjects, PodReply, WithProject, CallUpdate
  <2>8. ASSUME \/ GetProjects(k) \/ GetProjectMembers(k) \/ GetProjectNamespaces(k)
        PROVE  \/ \E r : Answer(k, r)
               \/ \E to, f : Goto(k, to) /\ upd' = [upd EXCEPT ![k] = f] /\ UNCHANGED sent
    BY <2>8 DEF GetProjects, GetProjectMembers, GetProjectNamespaces, UpdateStep,
                CallFails, FailUpdate
  <2>9. ASSUME \/ ClearCache(k) \/ ReadUserProjects(k) \/ StoreUserProjects(k)
               \/ StoreNamespace(k)
        PROVE  \/ \E to : Goto(k, to) /\ UNCHANGED <<upd, sent>>
               \/ \E to, f : Goto(k, to) /\ upd' = [upd EXCEPT ![k] = f] /\ UNCHANGED sent
    BY <2>9 DEF ClearCache, ReadUserProjects, StoreUserProjects, StoreNamespace, UpdateStep
  <2>10. ASSUME MarshalCache(k)
         PROVE  \E to, s : Goto(k, to) /\ sent' = [sent EXCEPT ![k] = s] /\ UNCHANGED upd
    BY <2>10 DEF MarshalCache
  <2>11. ASSUME PutToOPA(k) PROVE (\E r : Answer(k, r)) \/ ReturnFromUpdate(k)
    BY <2>11 DEF PutToOPA
  <2>. QED BY <1>1, <2>1, <2>2, <2>3, <2>4, <2>5, <2>6, <2>7, <2>8, <2>9, <2>10, <2>11
           DEF Step
<1>2. CASE ChangeDirectory \/ \E k \in Handlers : CreateNamespace(k)
  BY <1>2 DEF ChangeDirectory, CreateNamespace, SetDirectory, localVars
<1>3. CASE CrashOnMapRace \/ Restart
  BY <1>3 DEF CrashOnMapRace, Restart, Reset
<1>4. CASE UNCHANGED vars
  BY <1>4 DEF vars, localVars
<1>. QED BY <1>1, <1>2, <1>3, <1>4 DEF Next

\* What a handler's own step does to its program counter.
LEMMA OwnMoves ==
  ASSUME HandlersTyped, NEW h \in Handlers, ReceiveRequest(h) \/ Step(h)
  PROVE  /\ pc[h] = "clear" => ClearCache(h)
         /\ pc[h] = "clearSpaces" => ClearCache(h)
         /\ pc'[h] \in FillingSpaces =>
              pc[h] \in FillingSpaces \/ Moves(h, "clearSpaces", "eachProject")
         /\ pc'[h] = "clearSpaces" => Moves(h, "clear", "clearSpaces")
         /\ pc'[h] = "eachMember" =>
              GetProjectMembers(h) \/ StoreUserProjects(h)
         /\ pc'[h] = "storeMember" => ReadUserProjects(h)
         /\ pc'[h] = "eachNamespace" => GetProjectNamespaces(h) \/ StoreNamespace(h)
         /\ pc'[h] = "put" => MarshalCache(h)
<1>. USE DEF HandlersTyped, FillingSpaces, Moves
<1>1. CASE \E r : Answer(h, r) /\ pc[h] \notin {"clear", "clearSpaces"}
  BY <1>1 DEF Answer, Goto
<1>2. ASSUME NEW to \in {"lookupUser", "lookupNamespace", "rereadUser",
                         "rereadNamespace", "findUser", "refindUser",
                         "countProjects", "getProjects", "clear"},
             Goto(h, to), pc[h] \notin {"clear", "clearSpaces"}
      PROVE  /\ pc[h] \notin {"clear", "clearSpaces"}
             /\ pc'[h] \notin FillingSpaces \cup {"clearSpaces"}
  BY <1>2 DEF Goto
<1>3. CASE ReceiveRequest(h)
  BY <1>2, <1>3 DEF ReceiveRequest
<1>4. CASE LookupUser(h) \/ RereadUser(h)
  BY <1>1, <1>2, <1>4 DEF LookupUser, RereadUser, CallUpdate
<1>5. CASE LookupNamespace(h) \/ RereadNamespace(h)
  BY <1>1, <1>2, <1>5 DEF LookupNamespace, RereadNamespace, WithProject, CallUpdate
<1>6. CASE FindUser(h) \/ RefindUser(h) \/ CountProjects(h)
  BY <1>1, <1>2, <1>6 DEF FindUser, RefindUser, CountProjects, PodReply, CallUpdate
<1>7. CASE GetProjects(h)
  BY <1>1, <1>2, <1>7 DEF GetProjects, UpdateStep, CallFails, FailUpdate
<1>8. CASE PutToOPA(h)
  BY <1>1, <1>2, <1>8 DEF PutToOPA, ReturnFromUpdate, Returns
<1>9. CASE ClearCache(h)
  BY <1>9 DEF ClearCache, UpdateStep, Goto
<1>10. CASE GetProjectMembers(h)
  BY <1>1, <1>10 DEF GetProjectMembers, UpdateStep, Goto, CallFails, FailUpdate
<1>11. CASE GetProjectNamespaces(h)
  BY <1>1, <1>11 DEF GetProjectNamespaces, UpdateStep, Goto, CallFails, FailUpdate,
                     AfterNamespaces
<1>12. CASE ReadUserProjects(h) \/ StoreUserProjects(h) \/ MarshalCache(h)
  BY <1>12 DEF ReadUserProjects, StoreUserProjects, MarshalCache, UpdateStep, Goto
<1>13. CASE StoreNamespace(h)
  BY <1>13 DEF StoreNamespace, UpdateStep, Goto, AfterNamespaces
<1>. QED BY <1>3, <1>4, <1>5, <1>6, <1>7, <1>8, <1>9, <1>10, <1>11, <1>12, <1>13 DEF Step

\* Emptying a map empties it; else it is kept, emptied by the end of the process,
\* or written by a store.
LEMMA MapSteps ==
  ASSUME HandlersTyped, [Next]_vars
  PROVE  /\ EmptiesUsers => user2projects' = ClearedUsers
         /\ EmptiesSpaces => namespace2project' = ClearedSpaces
         /\ \/ user2projects' \in {user2projects, ClearedUsers}
            \/ \E h \in Handlers : StoreUserProjects(h)
         /\ \/ namespace2project' \in {namespace2project, ClearedSpaces}
            \/ \E h \in Handlers : StoreNamespace(h)
<1>1. EmptiesUsers => user2projects' = ClearedUsers
  <2>1. ASSUME NEW h \in Handlers, Moves(h, "clear", "clearSpaces")
        PROVE  user2projects' = ClearedUsers
    <3>1. ReceiveRequest(h) \/ Step(h)
      BY <2>1, OwnStep DEF Moves
    <3>2. ClearCache(h)
      BY <2>1, <3>1, OwnMoves DEF Moves
    <3>. QED BY <2>1, <3>2 DEF Moves, ClearCache
  <2>. QED BY <2>1 DEF EmptiesUsers
<1>2. EmptiesSpaces => namespace2project' = ClearedSpaces
  <2>1. ASSUME NEW h \in Handlers, Moves(h, "clearSpaces", "eachProject")
        PROVE  namespace2project' = ClearedSpaces
    <3>1. ReceiveRequest(h) \/ Step(h)
      BY <2>1, OwnStep DEF Moves
    <3>2. ClearCache(h)
      BY <2>1, <3>1, OwnMoves DEF Moves
    <3>. QED BY <2>1, <3>2 DEF Moves, ClearCache
  <2>. QED BY <2>1 DEF EmptiesSpaces
<1>3. CASE UNCHANGED cacheVars
  BY <1>1, <1>2, <1>3 DEF cacheVars
<1>4. ASSUME NEW h \in Handlers,
             ClearCache(h) \/ StoreUserProjects(h) \/ StoreNamespace(h)
      PROVE  /\ \/ user2projects' \in {user2projects, ClearedUsers}
                \/ StoreUserProjects(h)
             /\ \/ namespace2project' \in {namespace2project, ClearedSpaces}
                \/ StoreNamespace(h)
  BY <1>4 DEF ClearCache, StoreUserProjects, StoreNamespace
<1>5. ASSUME NEW h \in Handlers, ReceiveRequest(h) \/ Step(h)
      PROVE  \/ UNCHANGED cacheVars
             \/ ClearCache(h) \/ StoreUserProjects(h) \/ StoreNamespace(h)
  BY <1>5 DEF ReceiveRequest, Step, LookupUser, RereadUser, GetProjects,
              GetProjectMembers, ReadUserProjects, GetProjectNamespaces, MarshalCache,
              PutToOPA, LookupNamespace, RereadNamespace, FindUser, RefindUser,
              CountProjects
<1>6. CASE ChangeDirectory \/ \E h \in Handlers : CreateNamespace(h)
  BY <1>3, <1>6 DEF ChangeDirectory, CreateNamespace, SetDirectory
<1>7. CASE CrashOnMapRace \/ Restart
  BY <1>1, <1>2, <1>7 DEF CrashOnMapRace, Restart, Reset
<1>8. CASE UNCHANGED vars
  BY <1>3, <1>8 DEF vars
<1>. QED BY <1>1, <1>2, <1>3, <1>4, <1>5, <1>6, <1>7, <1>8 DEF Next

-----------------------------------------------------------------------------
(* Every step keeps the history *)

\* What a step does to the histories.
LEMMA HistorySteps ==
  ASSUME AgesOrdered, Remember
  PROVE  /\ bindings' \subseteq restBindings' /\ restBindings' \subseteq cacheBindings'
         /\ PlacesHeld' \subseteq restPlaces' /\ restPlaces' \subseteq cachePlaces'
         /\ ~ AllIdle => restBindings \subseteq restBindings' /\ restPlaces \subseteq restPlaces'
         /\ ~ EmptiesUsers => cacheBindings \subseteq cacheBindings'
         /\ ~ EmptiesSpaces => cachePlaces \subseteq cachePlaces'
         /\ EmptiesUsers => cacheBindings' = restBindings'
         /\ EmptiesSpaces => cachePlaces' = restPlaces'
         /\ cacheBindings' \subseteq restBindings' \cup cacheBindings
         /\ cachePlaces' \subseteq restPlaces' \cup cachePlaces
BY DEF AgesOrdered, Remember, Unless

\* The order of the ages is kept.
LEMMA AgesStep ==
  ASSUME HandlersTyped, AgesOrdered, [Next]_vars, Remember
  PROVE  AgesOrdered'
<1>1. ASSUME NEW h \in Handlers, pc'[h] \in FillingUsers
      PROVE  cacheBindings' \subseteq restBindings'
  <2>1. pc[h] \in FillingUsers \/ Moves(h, "clear", "clearSpaces")
    <3>1. CASE pc'[h] = pc[h]
      BY <1>1, <3>1
    <3>2. CASE pc'[h] # pc[h]
      BY <1>1, <3>2, OwnStep, OwnMoves DEF FillingUsers, FillingSpaces, Moves
    <3>. QED BY <3>1, <3>2
  <2>2. CASE Moves(h, "clear", "clearSpaces")
    BY <2>2, HistorySteps DEF EmptiesUsers
  <2>3. CASE pc[h] \in FillingUsers
    <3>1. ~ AllIdle /\ cacheBindings \subseteq restBindings
      BY <2>3 DEF AllIdle, FillingUsers, FillingSpaces, AgesOrdered
    <3>. QED BY <3>1, HistorySteps
  <2>. QED BY <2>1, <2>2, <2>3
<1>2. ASSUME NEW h \in Handlers, pc'[h] \in FillingSpaces
      PROVE  cachePlaces' \subseteq restPlaces'
  <2>1. pc[h] \in FillingSpaces \/ Moves(h, "clearSpaces", "eachProject")
    <3>1. CASE pc'[h] = pc[h]
      BY <1>2, <3>1
    <3>2. CASE pc'[h] # pc[h]
      BY <1>2, <3>2, OwnStep, OwnMoves DEF FillingSpaces, Moves
    <3>. QED BY <3>1, <3>2
  <2>2. CASE Moves(h, "clearSpaces", "eachProject")
    BY <2>2, HistorySteps DEF EmptiesSpaces
  <2>3. CASE pc[h] \in FillingSpaces
    <3>1. ~ AllIdle /\ cachePlaces \subseteq restPlaces
      BY <2>3 DEF AllIdle, FillingSpaces, AgesOrdered
    <3>. QED BY <3>1, HistorySteps
  <2>. QED BY <2>1, <2>2, <2>3
<1>. QED BY <1>1, <1>2, HistorySteps DEF AgesOrdered

\* The map of users is recent.
LEMMA UsersStep ==
  ASSUME TypeOK, ControlOK, HInv, [Next]_vars, Remember
  PROVE  UsersFrom(user2projects', cacheBindings')
<1>. USE DEF TypeOK, HInv
<1>1. CASE user2projects' = ClearedUsers
  BY <1>1, ClearedFrom
<1>2. CASE ~ EmptiesUsers /\ user2projects' = user2projects
  BY <1>2, HistorySteps, FromMore DEF CacheRecent
<1>3. ASSUME ~ EmptiesUsers, NEW h \in Handlers, StoreUserProjects(h)
      PROVE  UsersFrom(user2projects', cacheBindings')
  <2>. DEFINE b == upd[h].item
              long == Append(upd[h].plist, InfoOf(b))
  <2>1. pc[h] = "storeMember" /\ ~ AllIdle /\ upd[h] \in Update
    BY <1>3 DEF StoreUserProjects, AllIdle, HandlersTyped
  <2>2. /\ b \in Binding /\ b \in restBindings
        /\ EntriesFrom(upd[h].plist, b.user, restBindings)
    BY <2>1 DEF LocalsRecent, ControlOK
  <2>3. restBindings \subseteq cacheBindings'
    BY <2>1, HistorySteps
  <2>4. b \in cacheBindings' /\ EntriesFrom(upd[h].plist, b.user, cacheBindings')
    BY <2>2, <2>3, FromMore
  <2>5. /\ upd[h].plist \in Seq(UserProjectInfo)
        /\ user2projects' = [user2projects EXCEPT ![b.user] = long]
    BY <1>3, <2>1 DEF StoreUserProjects, Update
  <2>6. EntriesFrom(long, b.user, cacheBindings')
    BY <2>2, <2>4, <2>5, AppendFrom
  <2>7. UsersFrom(user2projects, cacheBindings')
    BY <1>3, HistorySteps, FromMore DEF CacheRecent
  <2>. QED BY <2>5, <2>6, <2>7 DEF UsersFrom, CacheTyped
<1>. QED BY <1>1, <1>2, <1>3, MapSteps

\* So is the map of namespaces.
LEMMA PlacesStep ==
  ASSUME TypeOK, HInv, [Next]_vars, Remember
  PROVE  SpacesFrom(namespace2project', cachePlaces')
<1>. USE DEF TypeOK, HInv
<1>1. CASE namespace2project' = ClearedSpaces
  BY <1>1, ClearedFrom
<1>2. CASE ~ EmptiesSpaces /\ namespace2project' = namespace2project
  BY <1>2, HistorySteps, FromMore DEF CacheRecent
<1>3. ASSUME ~ EmptiesSpaces, NEW h \in Handlers, StoreNamespace(h)
      PROVE  SpacesFrom(namespace2project', cachePlaces')
  <2>1. PICK n \in upd[h].namespaces :
          namespace2project' = [namespace2project EXCEPT ![n] = upd[h].project]
    BY <1>3 DEF StoreNamespace
  <2>2. pc[h] = "eachNamespace" /\ ~ AllIdle
    BY <1>3 DEF StoreNamespace, AllIdle
  <2>3. <<n, upd[h].project>> \in restPlaces
    BY <2>1, <2>2 DEF LocalsRecent
  <2>4. <<n, upd[h].project>> \in cachePlaces'
    BY <2>2, <2>3, HistorySteps
  <2>5. SpacesFrom(namespace2project, cachePlaces')
    BY <1>3, HistorySteps, FromMore DEF CacheRecent
  <2>. QED BY <2>1, <2>4, <2>5 DEF SpacesFrom, CacheTyped
<1>. QED BY <1>1, <1>2, <1>3, MapSteps

\* So is what is on its way to OPA.
LEMMA SentStep ==
  ASSUME TypeOK, HInv, [Next]_vars, Remember, NEW h \in Handlers, pc'[h] = "put"
  PROVE  /\ UsersFrom(sent'[h].users, restBindings')
         /\ SpacesFrom(sent'[h].namespaces, restPlaces')
<1>. USE DEF TypeOK, HInv
<1>1. CASE pc[h] = "put" /\ sent'[h] = sent[h]
  <2>1. ~ AllIdle
    BY <1>1 DEF AllIdle
  <2>. QED BY <1>1, <2>1, HistorySteps, FromMore DEF CacheRecent
<1>2. CASE MarshalCache(h)
  <2>1. sent'[h] = [users |-> user2projects, namespaces |-> namespace2project]
    BY <1>2 DEF MarshalCache, HandlersTyped
  <2>2. ~ AllIdle /\ pc[h] = "eachProject"
    BY <1>2 DEF AllIdle, MarshalCache
  <2>3. cacheBindings \subseteq restBindings' /\ cachePlaces \subseteq restPlaces'
    BY <2>2, HistorySteps DEF AgesOrdered, FillingUsers, FillingSpaces
  <2>4. UsersFrom(user2projects, restBindings')
    BY <2>3, FromMore DEF CacheRecent
  <2>5. SpacesFrom(namespace2project, restPlaces')
    BY <2>3, FromMore DEF CacheRecent
  <2>. QED BY <2>1, <2>4, <2>5
<1>3. CASE pc'[h] # pc[h] \/ sent'[h] # sent[h]
  <2>1. ReceiveRequest(h) \/ Step(h)
    BY <1>3, OwnStep
  <2>. QED BY <1>2, <2>1, OwnMoves
<1>. QED BY <1>1, <1>3

\* So is what an update has in hand.
LEMMA LocalsStep ==
  ASSUME TypeOK, ControlOK, HInv, [Next]_vars, Remember, NEW h \in Handlers
  PROVE  LocalsRecent(h)'
<1>. USE DEF TypeOK, HInv
<1>0. ASSUME ~ AllIdle
      PROVE  restBindings \subseteq restBindings' /\ restPlaces \subseteq restPlaces'
  BY <1>0, HistorySteps
<1>1. CASE pc'[h] = pc[h] /\ upd'[h] = upd[h]
  <2>1. CASE AllIdle
    BY <1>1, <2>1 DEF AllIdle, LocalsRecent
  <2>2. CASE ~ AllIdle
    BY <1>0, <1>1, <2>2, FromMore DEF LocalsRecent
  <2>. QED BY <2>1, <2>2
<1>2. CASE pc'[h] \notin {"eachMember", "storeMember", "eachNamespace"}
  BY <1>2 DEF LocalsRecent
<1>3. CASE GetProjectMembers(h) /\ pc'[h] = "eachMember"
  <2>1. PICK p \in upd[h].todo, ms \in SUBSET bindings :
          upd' = [upd EXCEPT ![h] = Visit(@, p, ms)]
    BY <1>3, AnswerFrame DEF GetProjectMembers, CallFails, FailUpdate
  <2>2. upd[h] \in Update /\ p \in Projects /\ ms \in SUBSET Binding
    BY <2>1 DEF HandlersTyped, Update, DirectoryTyped
  <2>3. upd'[h].members = ms
    BY <2>1, <2>2, VisitType DEF HandlersTyped
  <2>4. ~ AllIdle
    BY <1>3 DEF AllIdle, GetProjectMembers
  <2>5. ms \subseteq restBindings'
    BY <1>0, <2>1, <2>4 DEF AgesOrdered
  <2>. QED BY <1>3, <2>3, <2>5 DEF LocalsRecent
<1>4. CASE StoreUserProjects(h)
  <2>1. /\ pc[h] = "storeMember" /\ pc'[h] = "eachMember"
        /\ upd[h] \in Update /\ upd'[h] = Stored(upd[h])
    BY <1>4 DEF StoreUserProjects, UpdateStep, Goto, HandlersTyped
  <2>2. upd'[h].members = upd[h].members
    BY <2>1, StoredType
  <2>. QED BY <1>0, <2>1, <2>2 DEF LocalsRecent, AllIdle
<1>5. CASE ReadUserProjects(h)
  <2>1. PICK b \in upd[h].members :
          upd' = [upd EXCEPT ![h] = Take(@, b, user2projects[b.user])]
    BY <1>5 DEF ReadUserProjects
  <2>2. /\ pc[h] = "eachMember" /\ pc'[h] = "storeMember" /\ ~ AllIdle
        /\ upd[h] \in Update
    BY <1>5 DEF ReadUserProjects, UpdateStep, Goto, HandlersTyped, AllIdle
  <2>3. b \in Binding /\ b.user \in Users /\ user2projects[b.user] \in Seq(UserProjectInfo)
    BY <2>1, <2>2 DEF Update, Binding, CacheTyped
  <2>4. /\ upd'[h].members = upd[h].members \ {b}
        /\ upd'[h].item = b /\ upd'[h].plist = user2projects[b.user]
    BY <2>1, <2>2, <2>3, TakeType DEF HandlersTyped
  <2>5. upd[h].members \subseteq restBindings'
    BY <1>0, <2>2 DEF LocalsRecent
  <2>6. cacheBindings \subseteq restBindings'
    BY <1>0, <2>2 DEF AgesOrdered, FillingUsers, FillingSpaces
  <2>7. EntriesFrom(user2projects[b.user], b.user, cacheBindings)
    BY <2>3 DEF CacheRecent, UsersFrom
  <2>8. EntriesFrom(user2projects[b.user], b.user, restBindings')
    BY <2>6, <2>7, FromMore
  <2>. QED BY <2>1, <2>2, <2>4, <2>5, <2>8 DEF LocalsRecent
<1>6. CASE GetProjectNamespaces(h) /\ pc'[h] = "eachNamespace"
  <2>1. PICK ns \in SUBSET Namespaces :
          /\ Brings(NamespacesOf(upd[h].project), ns)
          /\ upd' = [upd EXCEPT ![h].namespaces = ns]
    BY <1>6, AnswerFrame DEF GetProjectNamespaces, CallFails, FailUpdate
  <2>2. /\ pc[h] = "eachMember" /\ ~ AllIdle
        /\ upd[h] \in Update /\ upd[h].project \in Projects
    BY <1>6 DEF GetProjectNamespaces, AllIdle, HandlersTyped, ControlOK
  <2>3. upd'[h].namespaces = ns /\ upd'[h].project = upd[h].project
    BY <2>1, <2>2 DEF HandlersTyped, Update
  <2>4. \A n \in ns : <<n, upd[h].project>> \in PlacesHeld
    BY <2>1, <2>2, DirectoryAssumption DEF Brings, NamespacesOf, PlacesHeld
  <2>5. PlacesHeld \subseteq restPlaces'
    BY <1>0, <2>2 DEF AgesOrdered
  <2>. QED BY <1>6, <2>3, <2>4, <2>5 DEF LocalsRecent
<1>7. CASE StoreNamespace(h)
  <2>1. PICK n \in upd[h].namespaces : upd' = [upd EXCEPT ![h].namespaces = @ \ {n}]
    BY <1>7 DEF StoreNamespace
  <2>2. /\ pc[h] = "eachNamespace" /\ ~ AllIdle
        /\ pc'[h] \in {"eachNamespace", "eachProject"}
    BY <1>7 DEF StoreNamespace, AllIdle, UpdateStep, Goto, AfterNamespaces, HandlersTyped
  <2>3. /\ upd'[h].namespaces \subseteq upd[h].namespaces
        /\ upd'[h].project = upd[h].project
    BY <2>1 DEF HandlersTyped, Update
  <2>. QED BY <1>0, <2>2, <2>3 DEF LocalsRecent
<1>8. CASE pc'[h] # pc[h] \/ upd'[h] # upd[h]
  <2>1. CASE pc'[h] = "idle"
    BY <1>2, <2>1
  <2>2. CASE ReceiveRequest(h) \/ Step(h)
    BY <1>2, <1>3, <1>4, <1>5, <1>6, <1>7, <2>2, OwnMoves
  <2>. QED BY <1>8, <2>1, <2>2, OwnStep
<1>. QED BY <1>1, <1>8

\* The controller with its history is the controller.
LEMMA HistoryAdds == HistorySpec => Spec
<1>1. HistoryInit => Init
  BY DEF HistoryInit
<1>2. [Next /\ Remember]_historyVars => [Next]_vars
  BY DEF historyVars
<1>. QED BY <1>1, <1>2, PTL DEF HistorySpec, Spec

\* The strengthened invariant of the history holds in every reachable state.
THEOREM HistoryInvariance == HistorySpec => []HInv
<1>1. HistoryInit => HInv
  <2>. SUFFICES ASSUME HistoryInit PROVE HInv
    OBVIOUS
  <2>1. AgesOrdered /\ \A h \in Handlers : LocalsRecent(h) /\ pc[h] = "idle"
    BY DEF HistoryInit, Init, AgesOrdered, FillingUsers, FillingSpaces, LocalsRecent
  <2>2. CacheRecent
    BY <2>1, ClearedFrom DEF HistoryInit, Init, CacheRecent
  <2>. QED BY <2>1, <2>2 DEF HInv
<1>2. IInv /\ HInv /\ [Next /\ Remember]_historyVars => HInv'
  <2>. SUFFICES ASSUME IInv, HInv, [Next /\ Remember]_historyVars PROVE HInv'
    OBVIOUS
  <2>1. CASE UNCHANGED historyVars
    BY <2>1 DEF historyVars, vars, directoryVars, cacheVars, localVars, HInv,
                AgesOrdered, PlacesHeld, CacheRecent, UsersFrom, EntriesFrom, SpacesFrom,
                LocalsRecent
  <2>2. CASE Next /\ Remember
    <3>1. TypeOK /\ ControlOK /\ HandlersTyped /\ AgesOrdered
      BY DEF IInv, TypeOK, HInv
    <3>2. AgesOrdered'
      BY <2>2, <3>1, AgesStep
    <3>3. /\ UsersFrom(user2projects', cacheBindings')
          /\ SpacesFrom(namespace2project', cachePlaces')
      BY <2>2, <3>1, UsersStep, PlacesStep
    <3>4. \A h \in Handlers : pc'[h] = "put" =>
            /\ UsersFrom(sent'[h].users, restBindings')
            /\ SpacesFrom(sent'[h].namespaces, restPlaces')
      BY <2>2, <3>1, SentStep
    <3>5. CacheRecent'
      BY <3>3, <3>4 DEF CacheRecent, UsersFrom, EntriesFrom, SpacesFrom
    <3>6. \A h \in Handlers : LocalsRecent(h)'
      BY <2>2, <3>1, LocalsStep
    <3>. QED BY <3>2, <3>5, <3>6 DEF HInv
  <2>. QED BY <2>1, <2>2
<1>. QED BY <1>1, <1>2, HistoryAdds, Invariance, PTL DEF HistorySpec

\* What is revoked or moved does not outlive the next rebuild of the cache, however
\* updates overlap and whichever calls fail.
THEOREM CacheIsRecent == HistorySpec => []CacheRecent
<1>1. HInv => CacheRecent
  BY DEF HInv
<1>. QED BY <1>1, HistoryInvariance, PTL
=============================================================================
