------------------------ MODULE NamespaceController ------------------------
(***************************************************************************)
(* The namespace controller: a mutating admission webhook whose HTTP       *)
(* handlers run concurrently and share one unlocked cache of the Rancher   *)
(* directory.  Every handler is a process; a step is one call to Rancher   *)
(* or OPA, or one access to the cache (a lookup, a search, a store, the    *)
(* emptying of one map, marshalling), since nothing in the code makes a    *)
(* longer stretch atomic.  An append to a user's list is a read followed   *)
(* by a write (project_resolver.go, lines 150 and 156).                    *)
(***************************************************************************)
EXTENDS ProjectDirectory

CONSTANTS
  Handlers,         \* goroutines of net/http serving a request
  InitialBindings,  \* the directories the model starts from
  InitialOwners,    \* and the projects the namespaces start in
  MaxRequests,      \* bound: requests received
  MaxChanges,       \* bound: changes to the directory
  MaxFaults,        \* bound: calls to Rancher or OPA that fail
  NoBinding         \* no element of the member list is being appended

ASSUME ControllerAssumption ==
  /\ InitialBindings \subseteq SUBSET Binding
  /\ InitialOwners \subseteq [Namespaces -> ProjectOrNone]
  /\ MaxRequests \in Nat /\ MaxChanges \in Nat /\ MaxFaults \in Nat
  /\ NoBinding \notin Binding

VARIABLES
  \* The Rancher server (external), with every place a namespace ever had
  bindings, nsOf, everIn,
  \* ProjectResolverCache and the copy of it that OPA holds
  user2projects, namespace2project, opa,
  \* The handlers: program counter, request, where UpdateCache returns to,
  \* project of the pod's namespace, locals of UpdateCache, last reply
  pc, req, ret, target, upd, sent, reply,
  \* Counters behind the bounds
  received, changes, faults

directoryVars == <<bindings, nsOf, everIn, changes>>
cacheVars     == <<user2projects, namespace2project>>
localVars     == <<req, ret, target, upd, sent>>
vars == <<directoryVars, cacheVars, opa, pc, localVars, reply, received, faults>>

Labels == {"idle", "lookupUser", "lookupNamespace", "findUser",
           "getProjects", "clear", "clearSpaces", "eachProject", "eachMember",
           "storeMember", "eachNamespace", "put",
           "rereadUser", "rereadNamespace", "refindUser", "countProjects"}
Returns == {"rereadUser", "rereadNamespace", "refindUser"}

CacheCopy == [users : [Users -> Seq(UserProjectInfo)],
              namespaces : [Namespaces -> ProjectOrNone]]

\* Locals of UpdateCache: projects not yet visited, the project being
\* visited, its members not yet appended, the member being appended with the
\* list read for it, and the project's namespaces not yet stored.
Update == [todo : SUBSET Projects, project : ProjectOrNone,
           members : SUBSET Binding, item : Binding \cup {NoBinding},
           plist : Seq(UserProjectInfo), namespaces : SUBSET Namespaces]

NoUpdate == [todo |-> {}, project |-> NoProject, members |-> {},
             item |-> NoBinding, plist |-> <<>>, namespaces |-> {}]

\* What a pod request has resolved: the project of its namespace, then a user.
Target   == [project : ProjectOrNone, user : Users \cup {EmptyUser}]
NoTarget == [project |-> NoProject, user |-> EmptyUser]

NoRequest     == [kind |-> "none"]
ClearedUsers  == [u \in Users |-> <<>>]
ClearedSpaces == [n \in Namespaces |-> NoProject]
ClearedCopy   == [users |-> ClearedUsers, namespaces |-> ClearedSpaces]

DirectoryTyped ==
  /\ bindings \subseteq Binding
  /\ nsOf \in [Namespaces -> ProjectOrNone]
  /\ everIn \subseteq Namespaces \X Projects
CacheTyped ==
  /\ user2projects \in [Users -> Seq(UserProjectInfo)]
  /\ namespace2project \in [Namespaces -> ProjectOrNone]
HandlersTyped ==
  /\ pc \in [Handlers -> Labels]
  /\ req \in [Handlers -> Request \cup {NoRequest}]
  /\ ret \in [Handlers -> Returns]
  /\ target \in [Handlers -> Target]
  /\ upd \in [Handlers -> Update]
  /\ sent \in [Handlers -> CacheCopy]
  /\ reply \in [Handlers -> Reply]
TypeOK ==
  /\ DirectoryTyped /\ CacheTyped /\ HandlersTyped
  /\ opa \in CacheCopy
  /\ received \in Nat /\ changes \in Nat /\ faults \in Nat

Init ==
  /\ bindings \in InitialBindings
  /\ nsOf \in InitialOwners
  /\ everIn = {<<n, nsOf[n]>> : n \in {m \in Namespaces : nsOf[m] # NoProject}}
  /\ user2projects = ClearedUsers
  /\ namespace2project = ClearedSpaces
  /\ opa = ClearedCopy
  /\ pc = [h \in Handlers |-> "idle"]
  /\ req = [h \in Handlers |-> NoRequest]
  /\ ret = [h \in Handlers |-> "rereadUser"]
  /\ target = [h \in Handlers |-> NoTarget]
  /\ upd = [h \in Handlers |-> NoUpdate]
  /\ sent = [h \in Handlers |-> ClearedCopy]
  /\ reply = [h \in Handlers |-> NoReply]
  /\ received = 0 /\ changes = 0 /\ faults = 0

-----------------------------------------------------------------------------
(* Control *)

Goto(h, to) == pc' = [pc EXCEPT ![h] = to]

\* The controller is at rest: no request is being served.
AllIdle == \A h \in Handlers : pc[h] = "idle"

\* The handler writes its reply; its locals are dead and are dropped.
Answer(h, r) ==
  /\ Goto(h, "idle")
  /\ reply' = [reply EXCEPT ![h] = r]
  /\ ret' = [ret EXCEPT ![h] = "rereadUser"]
  /\ target' = [target EXCEPT ![h] = NoTarget]
  /\ upd' = [upd EXCEPT ![h] = NoUpdate]
  /\ sent' = [sent EXCEPT ![h] = ClearedCopy]
  /\ UNCHANGED req

\* A cache miss: call UpdateCache, and go on at r when it returns.
CallUpdate(h, r) ==
  /\ Goto(h, "getProjects")
  /\ ret' = [ret EXCEPT ![h] = r]
  /\ UNCHANGED <<req, upd, sent, reply>>

\* UpdateCache returns nil.
ReturnFromUpdate(h) ==
  /\ Goto(h, ret[h])
  /\ upd' = [upd EXCEPT ![h] = NoUpdate]
  /\ sent' = [sent EXCEPT ![h] = ClearedCopy]
  /\ UNCHANGED <<req, ret, target, reply>>

\* UpdateCache returns an error: status 500 for a namespace, while the pod
\* branch drops the error and lets the pod through.
FailUpdate(h) == Answer(h, IF req[h].kind = "Namespace" THEN Error ELSE Ignore)

Fault == faults < MaxFaults /\ faults' = faults + 1

\* A call to Rancher for a list brings the list; or, since the client never
\* looks at the status, a body without "data" that reads as the empty list; or
\* a transport error, which ends the update.
Brings(list, got) ==
  \/ got = list /\ UNCHANGED faults
  \/ got = {} /\ Fault
CallFails(h) == FailUpdate(h) /\ Fault

UpdateStep(h, to) ==
  Goto(h, to) /\ UNCHANGED <<req, ret, target, sent, reply>>

-----------------------------------------------------------------------------
(* DoServeAdmitFunc, "Namespace" *)

ReceiveRequest(h) ==
  /\ pc[h] = "idle" /\ received < MaxRequests
  /\ \E r \in Request :
       /\ req' = [req EXCEPT ![h] = r]
       /\ Goto(h, IF r.kind = "Namespace" THEN "lookupUser" ELSE "lookupNamespace")
  /\ reply' = [reply EXCEPT ![h] = NoReply]
  /\ received' = received + 1
  /\ UNCHANGED <<directoryVars, cacheVars, opa, ret, target, upd, sent, faults>>

\* ResolveProjectsByUser, first read: a non-empty list is never refreshed.
LookupUser(h) ==
  /\ pc[h] = "lookupUser"
  /\ LET plist == user2projects[req[h].user] IN
       \/ plist # <<>> /\ Answer(h, NamespaceReply(plist, req[h].ns))
       \/ plist = <<>> /\ CallUpdate(h, "rereadUser") /\ UNCHANGED target
  /\ UNCHANGED <<directoryVars, cacheVars, opa, received, faults>>

\* ResolveProjectsByUser, second read.
RereadUser(h) ==
  /\ pc[h] = "rereadUser"
  /\ Answer(h, NamespaceReply(user2projects[req[h].user], req[h].ns))
  /\ UNCHANGED <<directoryVars, cacheVars, opa, received, faults>>

-----------------------------------------------------------------------------
(* UpdateCache *)

GetProjects(h) ==
  /\ pc[h] = "getProjects"
  /\ \/ \E ps \in {Projects, {}} :
          /\ Brings(Projects, ps)
          /\ upd' = [upd EXCEPT ![h].todo = ps]
          /\ UpdateStep(h, "clear")
     \/ CallFails(h)
  /\ UNCHANGED <<directoryVars, cacheVars, opa, received>>

\* Mutant of ClearCache: only the map of users is emptied.
ClearUsersOnly(h) ==
  /\ \/ /\ pc[h] = "clear" /\ UpdateStep(h, "clearSpaces")
        /\ user2projects' = ClearedUsers
     \/ /\ pc[h] = "clearSpaces" /\ UpdateStep(h, "eachProject")
        /\ UNCHANGED user2projects
  /\ UNCHANGED <<directoryVars, namespace2project, opa, upd, received, faults>>

\* Mutant of ClearCache: only the map of namespaces is emptied.
ClearSpacesOnly(h) ==
  /\ \/ /\ pc[h] = "clear" /\ UpdateStep(h, "clearSpaces")
        /\ UNCHANGED namespace2project
     \/ /\ pc[h] = "clearSpaces" /\ UpdateStep(h, "eachProject")
        /\ namespace2project' = ClearedSpaces
  /\ UNCHANGED <<directoryVars, user2projects, opa, upd, received, faults>>

\* One map is emptied after the other.
ClearCache(h) ==
  /\ \/ /\ pc[h] = "clear" /\ UpdateStep(h, "clearSpaces")
        /\ user2projects' = ClearedUsers /\ UNCHANGED namespace2project
     \/ /\ pc[h] = "clearSpaces" /\ UpdateStep(h, "eachProject")
        /\ namespace2project' = ClearedSpaces /\ UNCHANGED user2projects
  /\ UNCHANGED <<directoryVars, opa, upd, received, faults>>

\* How the locals change when a project is visited, when a member is taken with
\* the list its user has at that time, and when the longer list is stored.
Visit(f, p, ms)    == [f EXCEPT !.todo = @ \ {p}, !.project = p, !.members = ms]
Take(f, b, plist)  == [f EXCEPT !.members = @ \ {b}, !.item = b, !.plist = plist]
Stored(f)          == [f EXCEPT !.item = NoBinding, !.plist = <<>>]

\* What Rancher lists for a project.
MembersOf(p) == {b \in bindings : b.project = p}

\* Mutant of NamespacesOf: the list is not confined to the project.
AllNamespaces(p) == Namespaces

NamespacesOf(p) == {n \in Namespaces : nsOf[n] = p}

GetProjectMembers(h) ==
  /\ pc[h] = "eachProject"
  /\ \E p \in upd[h].todo :
       \/ \E ms \in SUBSET bindings :
            /\ Brings(MembersOf(p), ms)
            /\ upd' = [upd EXCEPT ![h] = Visit(@, p, ms)]
            /\ UpdateStep(h, "eachMember")
       \/ CallFails(h)
  /\ UNCHANGED <<directoryVars, cacheVars, opa, received>>

ReadUserProjects(h) ==
  /\ pc[h] = "eachMember"
  /\ \E b \in upd[h].members :
       upd' = [upd EXCEPT ![h] = Take(@, b, user2projects[b.user])]
  /\ UpdateStep(h, "storeMember")
  /\ UNCHANGED <<directoryVars, cacheVars, opa, received, faults>>

StoreUserProjects(h) ==
  /\ pc[h] = "storeMember"
  /\ LET b == upd[h].item IN
       user2projects' = [user2projects EXCEPT
                           ![b.user] = Append(upd[h].plist, InfoOf(b))]
  /\ upd' = [upd EXCEPT ![h] = Stored(@)]
  /\ UpdateStep(h, "eachMember")
  /\ UNCHANGED <<directoryVars, namespace2project, opa, received, faults>>

\* Mutant of AfterNamespaces: an empty list does not end the loop.
AlwaysNamespaces(ns) == "eachNamespace"

\* The loop over namespaces ends, and with it the project's turn.
AfterNamespaces(ns) == IF ns = {} THEN "eachProject" ELSE "eachNamespace"

GetProjectNamespaces(h) ==
  /\ pc[h] = "eachMember" /\ upd[h].members = {}
  /\ \/ \E ns \in SUBSET Namespaces :
          /\ Brings(NamespacesOf(upd[h].project), ns)
          /\ upd' = [upd EXCEPT ![h].namespaces = ns]
          /\ UpdateStep(h, AfterNamespaces(ns))
     \/ CallFails(h)
  /\ UNCHANGED <<directoryVars, cacheVars, opa, received>>

StoreNamespace(h) ==
  /\ pc[h] = "eachNamespace"
  /\ \E n \in upd[h].namespaces :
       /\ namespace2project' = [namespace2project EXCEPT ![n] = upd[h].project]
       /\ upd' = [upd EXCEPT ![h].namespaces = @ \ {n}]
       /\ UpdateStep(h, AfterNamespaces(upd[h].namespaces \ {n}))
  /\ UNCHANGED <<directoryVars, user2projects, opa, received, faults>>

\* Mutant of MarshalCache: the document sent has only the map of users.
MarshalUsersOnly(h) ==
  /\ pc[h] = "eachProject" /\ upd[h].todo = {}
  /\ sent' = [sent EXCEPT ![h] = [users |-> user2projects,
                                  namespaces |-> ClearedSpaces]]
  /\ Goto(h, "put")
  /\ UNCHANGED <<directoryVars, cacheVars, opa, req, ret, target, upd, reply,
                 received, faults>>

MarshalCache(h) ==
  /\ pc[h] = "eachProject" /\ upd[h].todo = {}
  /\ sent' = [sent EXCEPT ![h] = [users |-> user2projects,
                                  namespaces |-> namespace2project]]
  /\ Goto(h, "put")
  /\ UNCHANGED <<directoryVars, cacheVars, opa, req, ret, target, upd, reply,
                 received, faults>>

\* The PUT reaches OPA and UpdateCache returns; or sending it fails and the
\* handler panics, which net/http turns into a broken connection.
PutToOPA(h) ==
  /\ pc[h] = "put"
  /\ \/ opa' = sent[h] /\ ReturnFromUpdate(h) /\ UNCHANGED faults
     \/ Answer(h, Error) /\ Fault /\ UNCHANGED opa
  /\ UNCHANGED <<directoryVars, cacheVars, received>>

-----------------------------------------------------------------------------
(* DoServeAdmitFunc, "Pod" *)

\* Mutant of WithProject: the user is searched for by the namespace's name.
WithNamespace(h, p) ==
  IF p = NoProject THEN Answer(h, Ignore)
  ELSE /\ target' = [target EXCEPT ![h].project = req[h].ns]
       /\ Goto(h, "findUser")
       /\ UNCHANGED <<req, ret, upd, sent, reply>>

\* The project of the pod's namespace is known, or is "".
WithProject(h, p) ==
  IF p = NoProject THEN Answer(h, Ignore)
  ELSE /\ target' = [target EXCEPT ![h].project = p]
       /\ Goto(h, "findUser")
       /\ UNCHANGED <<req, ret, upd, sent, reply>>

LookupNamespace(h) ==
  /\ pc[h] = "lookupNamespace"
  /\ LET p == namespace2project[req[h].ns] IN
       \/ p # NoProject /\ WithProject(h, p)
       \/ p = NoProject /\ CallUpdate(h, "rereadNamespace") /\ UNCHANGED target
  /\ UNCHANGED <<directoryVars, cacheVars, opa, received, faults>>

RereadNamespace(h) ==
  /\ pc[h] = "rereadNamespace"
  /\ WithProject(h, namespace2project[req[h].ns])
  /\ UNCHANGED <<directoryVars, cacheVars, opa, received, faults>>

PodReply(h, isOwner) ==
  Answer(h, IF isOwner THEN Ignore
            ELSE [verdict |-> "limit", project |-> target[h].project])

\* findUserByProject: Go ranges over the map in any order and stops at the
\* first user with an entry of the project, taking the user's first such entry.
UsersOf(p) == {u \in Users : \E i \in DOMAIN user2projects[u] :
                               user2projects[u][i].project = p}
IsFirstEntry(u, p, i) ==
  /\ i \in DOMAIN user2projects[u]
  /\ user2projects[u][i].project = p
  /\ \A j \in 1..(i - 1) : user2projects[u][j].project # p

\* FindUserByProject, first search: the entry found decides.
FindUser(h) ==
  /\ pc[h] = "findUser"
  /\ \/ \E u \in UsersOf(target[h].project) : \E i \in DOMAIN user2projects[u] :
          /\ IsFirstEntry(u, target[h].project, i)
          /\ PodReply(h, user2projects[u][i].isOwner)
     \/ /\ UsersOf(target[h].project) = {}
        /\ CallUpdate(h, "refindUser") /\ UNCHANGED target
  /\ UNCHANGED <<directoryVars, cacheVars, opa, received, faults>>

\* FindUserByProject, second search: the error of the search is overwritten, so
\* when nobody is found the list of user "" is counted.
RefindUser(h) ==
  /\ pc[h] = "refindUser"
  /\ \E u \in IF UsersOf(target[h].project) = {} THEN {EmptyUser}
               ELSE UsersOf(target[h].project) :
       target' = [target EXCEPT ![h].user = u]
  /\ Goto(h, "countProjects")
  /\ UNCHANGED <<directoryVars, cacheVars, opa, req, ret, upd, sent, reply,
                 received, faults>>

\* FindUserByProject, lines 122-130: the user found decides by its whole list.
ListOf(u) == IF u \in Users THEN user2projects[u] ELSE <<>>

CountProjects(h) ==
  /\ pc[h] = "countProjects"
  /\ LET plist == ListOf(target[h].user) IN
       IF plist = <<>> THEN Answer(h, Ignore)
       ELSE PodReply(h, Len(plist) = 1 /\ plist[1].isOwner)
  /\ UNCHANGED <<directoryVars, cacheVars, opa, received, faults>>

-----------------------------------------------------------------------------
(* The Rancher server, and the process itself *)

SetDirectory(b, n) ==
  /\ bindings' = b /\ nsOf' = n
  /\ everIn' = everIn \cup {<<m, n[m]>> : m \in {k \in Namespaces : n[k] # NoProject}}
  /\ UNCHANGED <<cacheVars, opa, pc, localVars, received, faults>>

\* An administrator grants or revokes a binding, or moves a namespace.
ChangeDirectory ==
  /\ changes < MaxChanges /\ changes' = changes + 1
  /\ \/ \E b \in Binding :
          SetDirectory(IF b \in bindings THEN bindings \ {b} ELSE bindings \cup {b}, nsOf)
     \/ \E m \in Namespaces, p \in ProjectOrNone :
          nsOf[m] # p /\ SetDirectory(bindings, [nsOf EXCEPT ![m] = p])
  /\ UNCHANGED reply

\* The API server creates the annotated namespace, and Rancher puts it into
\* the project that the annotation names.
CreateNamespace(h) ==
  /\ pc[h] = "idle" /\ reply[h].verdict = "annotate"
  /\ nsOf[req[h].ns] = NoProject
  /\ SetDirectory(bindings, [nsOf EXCEPT ![req[h].ns] = reply[h].project])
  /\ reply' = [reply EXCEPT ![h] = NoReply]
  /\ UNCHANGED changes

\* The process dies and is restarted with an empty cache; connections break.
Reset ==
  /\ user2projects' = ClearedUsers /\ namespace2project' = ClearedSpaces
  /\ pc' = [h \in Handlers |-> "idle"]
  /\ ret' = [h \in Handlers |-> "rereadUser"]
  /\ target' = [h \in Handlers |-> NoTarget]
  /\ upd' = [h \in Handlers |-> NoUpdate]
  /\ sent' = [h \in Handlers |-> ClearedCopy]
  /\ reply' = [h \in Handlers |-> IF pc[h] = "idle" THEN reply[h] ELSE Error]
  /\ UNCHANGED <<directoryVars, opa, req, received>>

WritesUsers(h)  == pc[h] \in {"clear", "storeMember"}
WritesSpaces(h) == pc[h] \in {"clearSpaces", "eachNamespace"}
Marshals(h)     == pc[h] = "eachProject" /\ upd[h].todo = {}
TouchesUsers(h) ==
  \/ WritesUsers(h) \/ Marshals(h)
  \/ pc[h] = "eachMember" /\ upd[h].members # {}
  \/ pc[h] \in {"lookupUser", "rereadUser", "findUser", "refindUser", "countProjects"}
TouchesSpaces(h) ==
  \/ WritesSpaces(h) \/ Marshals(h)
  \/ pc[h] \in {"lookupNamespace", "rereadNamespace"}

\* The Go runtime stops the process when it notices that a map is written while
\* another goroutine reads or writes it; it may also fail to notice.
CrashOnMapRace ==
  /\ \E h, k \in Handlers :
       /\ h # k
       /\ \/ WritesUsers(h) /\ TouchesUsers(k)
          \/ WritesSpaces(h) /\ TouchesSpaces(k)
  /\ Reset /\ UNCHANGED faults

\* The pod is killed, for whatever reason.
Restart == Fault /\ Reset

-----------------------------------------------------------------------------
Step(h) ==
  \/ LookupUser(h) \/ RereadUser(h)
  \/ GetProjects(h) \/ ClearCache(h) \/ GetProjectMembers(h)
  \/ ReadUserProjects(h) \/ StoreUserProjects(h)
  \/ GetProjectNamespaces(h) \/ StoreNamespace(h)
  \/ MarshalCache(h) \/ PutToOPA(h)
  \/ LookupNamespace(h) \/ RereadNamespace(h)
  \/ FindUser(h) \/ RefindUser(h) \/ CountProjects(h)

Next ==
  \/ \E h \in Handlers : ReceiveRequest(h) \/ Step(h) \/ CreateNamespace(h)
  \/ ChangeDirectory \/ CrashOnMapRace \/ Restart

Spec == Init /\ [][Next]_vars

-----------------------------------------------------------------------------
(* Properties *)

\* The resource limits of a pod are checked only if its namespace was, at some
\* time, in the project that the reply was found for: half-written cache maps
\* never pair a namespace with a project Rancher did not put it into.
LimitBacked ==
  \A h \in Handlers : reply[h].verdict = "limit" =>
    <<req[h].ns, reply[h].project>> \in everIn

\* Every request is answered, and its handler idle again: none is left in the
\* middle of an update by a failing call, by another handler clearing the maps,
\* or by a restart.
EveryRequestAnswered == \A h \in Handlers : []<>(pc[h] = "idle")

-----------------------------------------------------------------------------
(* What the README says, and the code does not keep *)

\* README: the controller will automatically annotate namespaces with the
\* correct project id.  A request that is answered from the cache while no
\* other is being served is not left without an annotation when its user is
\* bound exactly once, and not as an owner.
SoleMember(u) ==
  \E b \in bindings : b.role # Owner /\ {c \in bindings : c.user = u} = {b}
SoleMemberAnnotated ==
  [][\A h \in Handlers :
       /\ pc[h] = "lookupUser" /\ pc'[h] = "idle"
       /\ \A k \in Handlers \ {h} : pc[k] = "idle"
       /\ SoleMember(req[h].user)
       => reply'[h].verdict # "ignore"]_vars

\* README: a namespace create request will not be annotated if the user is member
\* of multiple projects, or if the user is a project owner of a project.  Stated of
\* a directory that has not changed, so that no answer is out of date.
ProjectsOf(u) == {b.project : b \in {c \in bindings : c.user = u}}
SeveralNotAnnotated ==
  \A h \in Handlers : changes = 0 /\ reply[h].verdict = "annotate" =>
    /\ Cardinality(ProjectsOf(req[h].user)) = 1
    /\ \A b \in bindings : b.user = req[h].user => b.role # Owner
=============================================================================
