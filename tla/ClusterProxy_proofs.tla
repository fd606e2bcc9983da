------------------------ MODULE ClusterProxy_proofs ------------------------
(***************************************************************************)
(* Theorems about the cluster proxy, for any number of calls, modules,     *)
(* volumes, faults and timeouts: what a deployment mounts, and what a      *)
(* successful run or dispose says about the objects of its module.         *)
(***************************************************************************)
EXTENDS ClusterProxy, TLAPS

-----------------------------------------------------------------------------
(* The inductive invariant: control *)

Deleting == {"deleteDeployment", "deleteService", "deleteVolumes"}
Deployment(m) == Named(m, "deployment")
Service(m)    == Named(m, "service")

\* Where a call is agrees with what it asks for.
Control(c) ==
  /\ pc[c] = "new" => req[c] = NoRequest /\ ~ cancelled[c]
  /\ pc[c] = "create" => req[c].op = "RunBalticModule"
  /\ pc[c] \in {"get"} \cup Deleting => req[c].op = "DisposeBalticModule"
  /\ pc[c] = "ask" => req[c].op \in WorkspaceOps \cup {"CheckBalticModuleStatus"}
  /\ pc[c] \in {"new", "create", "get"} => ~ failed[c]
  /\ pc[c] # "done" => ~ reply[c].err

\* What RunBalticModule has still to create is a part of what it creates, with the
\* deployment at the end; what DisposeBalticModule has still to delete is volumes,
\* each of them once.
Work(c) ==
  /\ pc[c] = "create" =>
       /\ left[c] # <<>>
       /\ Members(left[c]) \subseteq Members(ObjectsFor(req[c].module, req[c].build))
       /\ \A i \in DOMAIN left[c] : left[c][i].kind = "deployment" => i = Len(left[c])
  /\ pc[c] \in Deleting =>
       /\ \A o \in Members(left[c]) :
            o.module = req[c].module /\ o.kind \in {"pvc", "configmap"}
       /\ \A i, j \in DOMAIN left[c] : left[c][i] = left[c][j] => i = j
  /\ pc[c] \notin {"create"} \cup Deleting => left[c] = <<>>

\* An object was made by a run of its module, and a deployment by one that has
\* returned and whose volumes it has.
MadeByRun(o) ==
  creator[o] # Nobody =>
    LET r == req[creator[o]] IN
    /\ r.op = "RunBalticModule" /\ r.module = o.module
    /\ o \in Members(ObjectsFor(r.module, r.build))
    /\ o.kind = "deployment" =>
         pc[creator[o]] = "done" /\ volumesOf[r.module] = VolumesFor(r.module, r.build)

BasicInv ==
  TypeOK /\ (\A c \in Calls : Control(c) /\ Work(c)) /\ \A o \in Object : MadeByRun(o)

-----------------------------------------------------------------------------
(* The inductive invariant: what calls do to each other *)

OnModule(c, m) == req[c].op \in ModuleOps /\ req[c].module = m

\* The manager waits for one call on a module at a time.
Exclusive ==
  \A c, d \in Calls, m \in Modules :
    c # d /\ OnModule(c, m) /\ OnModule(d, m) => Settled(c) \/ Settled(d)

OnePrepare ==
  \A c, d \in Calls :
    req[c].op = "PrepareWorkspace" /\ req[d].op = "PrepareWorkspace" => c = d

\* Until the workspace has been prepared there is nothing in it.
Unprepared == \A c \in Calls : req[c].op = "PrepareWorkspace" => pc[c] = "ask"
NothingBefore ==
  Unprepared =>
    /\ namespace = "absent" /\ \A o \in Object : ~ Exists(o)
    /\ \A c \in Calls : left[c] =
         IF pc[c] = "create" THEN ObjectsFor(req[c].module, req[c].build) ELSE <<>>

\* A run has made, or has still to make, each of the objects os.
Makes(c, os) == \A o \in os : o \in Members(left[c]) \/ creator[o] = c

\* While the manager waits for a run, nothing that it made disappears.
RunWhole ==
  \A c \in Calls :
    pc[c] = "create" /\ ~ cancelled[c] /\ namespace = "active"
      => Makes(c, Members(ObjectsFor(req[c].module, req[c].build)))

\* A module of which no dispose has failed, in a workspace that is not ending:
\* nobody deletes a volume of a run that goes on, or of a deployment that is there,
\* except a dispose that is going to report an error.
Deletes(d, m) == pc[d] \in Deleting /\ req[d].module = m
VolumesKept(m) ==
  NoDisposeFailed(m) /\ namespace = "active" =>
    /\ \A c \in Calls : pc[c] = "create" /\ req[c].module = m
         => Makes(c, Members(VolumesFor(m, req[c].build)))
    /\ \A d \in Calls : Deletes(d, m) => \A o \in Members(left[d]) :
         creator[o] # Nobody /\ pc[creator[o]] = "done"
    /\ Exists(Deployment(m)) /\ (\A d \in Calls : Deletes(d, m) => ~ failed[d])
         => \A o \in Members(volumesOf[m]) : creator[o] = creator[Deployment(m)]
    /\ \A d \in Calls : Deletes(d, m) /\ pc[d] # "deleteDeployment" /\ ~ failed[d]
         /\ Exists(Deployment(m))
         => \A o \in Members(left[d]) : creator[o] # creator[Deployment(m)]

\* An object that a successful run made.
Good(o) == Exists(o) /\ ~ Failed(creator[o]) /\ pc[creator[o]] = "done"

\* What a dispose that has met no error has still to delete.
Remaining(d) ==
  Members(left[d])
    \cup (IF pc[d] = "deleteVolumes" THEN {} ELSE {Service(req[d].module)})
    \cup (IF pc[d] = "deleteDeployment" THEN {Deployment(req[d].module)} ELSE {})

\* A module of which no dispose has failed: what a successful run made is still
\* to be found through its deployment, or the workspace is ending; a dispose that
\* has begun has still to delete it, or is going to report an error.
GoodFound(m) ==
  NoDisposeFailed(m) =>
    /\ (\A d \in Calls : ~ Deletes(d, m)) => \A o \in OfModule(m) : Good(o) =>
         \/ creator[Deployment(m)] = creator[o]
         \/ ~ Exists(Deployment(m)) /\ namespace = "terminating"
    /\ \A d \in Calls : Deletes(d, m) /\ ~ failed[d] =>
         \A o \in OfModule(m) : Good(o) => o \in Remaining(d)

IInv ==
  /\ BasicInv /\ Exclusive /\ OnePrepare /\ NothingBefore /\ RunWhole
  /\ \A m \in Modules : VolumesKept(m) /\ GoodFound(m)

-----------------------------------------------------------------------------
(* The objects of a module *)

LEMMA VolumesForm ==
  ASSUME NEW m \in Modules, NEW b \in Builds
  PROVE  /\ VolumesFor(m, b) \in Seq(Object)
         /\ \A o \in Members(VolumesFor(m, b)) :
              o.module = m /\ o.kind \in {"pvc", "configmap"}
         /\ \A i, j \in DOMAIN VolumesFor(m, b) :
              VolumesFor(m, b)[i] = VolumesFor(m, b)[j] => i = j
<1> DEFINE claims == [i \in 1..b.volumes |-> Volume(m, i - 1)]
<1>1. b.volumes \in Nat /\ b.volumes <= MaxVolumes /\ MaxVolumes \in Nat
  BY ProxyAssumption DEF Build
<1>2. \A i \in 1..b.volumes : Volume(m, i - 1) \in Object
  BY <1>1 DEF Volume, Object, Kinds
<1>3. claims \in Seq(Object) /\ Len(claims) = b.volumes
      /\ \A i \in 1..b.volumes : claims[i] = Volume(m, i - 1)
  BY <1>1, <1>2
<1>4. Named(m, "configmap") \in Object
  BY ProxyAssumption DEF Named, Object, Kinds
<1>5. \A i, j \in 1..b.volumes : Volume(m, i - 1) = Volume(m, j - 1) => i = j
  <2> SUFFICES ASSUME NEW i \in 1..b.volumes, NEW j \in 1..b.volumes,
                      Volume(m, i - 1) = Volume(m, j - 1)
               PROVE  i = j
    OBVIOUS
  <2>1. Volume(m, i - 1).idx = i - 1 /\ Volume(m, j - 1).idx = j - 1
    BY DEF Volume
  <2> QED
    BY <2>1, <1>1
<1>6. \A i \in 1..b.volumes : Volume(m, i - 1).kind = "pvc" /\ Volume(m, i - 1).module = m
  BY DEF Volume
<1>7. Named(m, "configmap").kind = "configmap" /\ Named(m, "configmap").module = m
  BY DEF Named
<1> HIDE DEF claims
<1>8. CASE b.files
  <2>1. VolumesFor(m, b) = claims \o <<Named(m, "configmap")>>
    BY <1>8 DEF VolumesFor, claims
  <2>2. /\ VolumesFor(m, b) \in Seq(Object)
        /\ DOMAIN VolumesFor(m, b) = 1..(b.volumes + 1)
        /\ \A i \in 1..b.volumes : VolumesFor(m, b)[i] = Volume(m, i - 1)
        /\ VolumesFor(m, b)[b.volumes + 1] = Named(m, "configmap")
    BY <2>1, <1>1, <1>3, <1>4
  <2>3. \A i \in 1..b.volumes : VolumesFor(m, b)[i] # VolumesFor(m, b)[b.volumes + 1]
    BY <2>2, <1>6, <1>7
  <2>4. \A i \in DOMAIN VolumesFor(m, b) : i \in 1..b.volumes \/ i = b.volumes + 1
    BY <2>2, <1>1
  <2>5. \A o \in Members(VolumesFor(m, b)) :
          o.module = m /\ o.kind \in {"pvc", "configmap"}
    BY <2>2, <2>4, <1>6, <1>7 DEF Members
  <2> QED
    BY <2>2, <2>3, <2>4, <2>5, <1>5
<1>9. CASE ~ b.files
  <2>1. VolumesFor(m, b) = claims
    BY <1>9, <1>3 DEF VolumesFor, claims
  <2>2. DOMAIN VolumesFor(m, b) = 1..b.volumes
    BY <2>1, <1>3, <1>1
  <2>3. \A o \in Members(VolumesFor(m, b)) :
          o.module = m /\ o.kind \in {"pvc", "configmap"}
    BY <2>1, <2>2, <1>3, <1>6 DEF Members
  <2> QED
    BY <2>1, <2>2, <2>3, <1>3, <1>5
<1> QED
  BY <1>8, <1>9

LEMMA ObjectsForm ==
  ASSUME NEW m \in Modules, NEW b \in Builds
  PROVE  /\ ObjectsFor(m, b) \in Seq(Object) /\ ObjectsFor(m, b) # <<>>
         /\ Members(ObjectsFor(m, b)) =
              Members(VolumesFor(m, b)) \cup {Service(m), Deployment(m)}
         /\ \A i \in DOMAIN ObjectsFor(m, b) :
              ObjectsFor(m, b)[i].kind = "deployment" => i = Len(ObjectsFor(m, b))
<1> DEFINE vs == VolumesFor(m, b)
           os == ObjectsFor(m, b)
<1>1. vs \in Seq(Object) /\ \A i \in 1..Len(vs) : vs[i].kind # "deployment"
  BY VolumesForm DEF Members
<1>2. Service(m) \in Object /\ Deployment(m) \in Object
  BY ProxyAssumption DEF Service, Deployment, Named, Object, Kinds
<1>3. os = vs \o <<Service(m), Deployment(m)>>
  BY DEF ObjectsFor, Service, Deployment
<1> HIDE DEF vs, os
<1>4. /\ os \in Seq(Object) /\ Len(os) = Len(vs) + 2 /\ DOMAIN os = 1..(Len(vs) + 2)
      /\ \A i \in 1..Len(vs) : os[i] = vs[i]
      /\ os[Len(vs) + 1] = Service(m) /\ os[Len(vs) + 2] = Deployment(m)
  BY <1>1, <1>2, <1>3
<1>5. Members(os) = Members(vs) \cup {Service(m), Deployment(m)}
  <2>1. DOMAIN vs = 1..Len(vs) /\ Len(vs) \in Nat
    BY <1>1
  <2> QED
    BY <1>4, <2>1 DEF Members
<1>6. \A i \in DOMAIN os : os[i].kind = "deployment" => i = Len(os)
  <2>1. Service(m).kind # "deployment"
    BY DEF Service, Named
  <2> QED
    BY <1>1, <1>4, <2>1
<1> QED
  BY <1>4, <1>5, <1>6 DEF vs, os

\* Taking the head off a sequence.
LEMMA TailForm ==
  ASSUME NEW s \in Seq(Object), s # <<>>
  PROVE  /\ Head(s) \in Object /\ Tail(s) \in Seq(Object)
         /\ Members(s) = {Head(s)} \cup Members(Tail(s))
         /\ Len(Tail(s)) = Len(s) - 1
         /\ \A i \in DOMAIN Tail(s) : i + 1 \in DOMAIN s /\ Tail(s)[i] = s[i + 1]
         /\ Head(s) = s[1] /\ 1 \in DOMAIN s
<1>1. Len(s) \in Nat \ {0} /\ DOMAIN s = 1..Len(s)
  OBVIOUS
<1>2. /\ Head(s) = s[1] /\ Head(s) \in Object /\ Tail(s) \in Seq(Object)
      /\ Len(Tail(s)) = Len(s) - 1 /\ DOMAIN Tail(s) = 1..(Len(s) - 1)
      /\ \A i \in 1..(Len(s) - 1) : Tail(s)[i] = s[i + 1]
  BY <1>1
<1>3. \A i \in DOMAIN Tail(s) : i + 1 \in DOMAIN s /\ Tail(s)[i] = s[i + 1]
  BY <1>1, <1>2
<1>4. \A i \in DOMAIN s : i = 1 \/ (i - 1 \in DOMAIN Tail(s) /\ s[i] = Tail(s)[i - 1])
  BY <1>1, <1>2
<1>5. Members(s) = {Head(s)} \cup Members(Tail(s))
  BY <1>1, <1>2, <1>3, <1>4 DEF Members
<1> QED
  BY <1>1, <1>2, <1>3, <1>5
-----------------------------------------------------------------------------
(* Types, and the control of a call *)

Types ==
  /\ namespace \in {"absent", "active", "terminating"}
  /\ creator \in [Object -> Calls \cup {Nobody}]
  /\ volumesOf \in [Modules -> Seq(Object)]
  /\ available \in [Modules -> {"none", "True", "False"}]
  /\ pc \in [Calls -> Labels]
  /\ req \in [Calls -> Request \cup {NoRequest}]
  /\ left \in [Calls -> Seq(Object)]
  /\ faults \in Nat /\ timeouts \in Nat
Truths ==
  /\ quotaValid \in BOOLEAN /\ cancelled \in [Calls -> BOOLEAN]
  /\ failed \in [Calls -> BOOLEAN] /\ reply \in [Calls -> Reply]

LEMMA TypeSplit == TypeOK <=> Types /\ Truths
BY Zenon DEF TypeOK, Types, Truths

LEMMA TypeInit == Init => TypeOK
<1> SUFFICES ASSUME Init PROVE Types /\ Truths
  BY TypeSplit
<1>1. Types
  BY DEF Init, Types, Labels
<1>2. Truths
  <2>1. NoReply \in Reply
    BY Zenon DEF NoReply, Reply, Statuses
  <2> QED
    BY <2>1, Zenon DEF Init, Truths
<1> QED
  BY <1>1, <1>2

\* What is asked for.
LEMMA RequestForm ==
  ASSUME NEW r \in Request \cup {NoRequest}
  PROVE  /\ r.op \in ModuleOps => r.module \in Modules /\ r.build \in Builds
         /\ r.op \in ModuleOps \cup WorkspaceOps \cup {"none"}
         /\ r \in Request => r.op \in ModuleOps \cup WorkspaceOps
         /\ NoRequest.op = "none"
BY DEF Request, ModuleRequest, WorkspaceRequest, NoRequest, ModuleOps, WorkspaceOps

\* What the requests of a call may do to Kubernetes, and what the call does then.
LEMMA CreateForm ==
  ASSUME NEW c \in Calls, CreateObject(c)
  PROVE  /\ pc[c] = "create" /\ timeouts' = timeouts
         /\ \/ /\ namespace = "active" /\ ~ Exists(Head(left[c]))
               /\ CreateReaches(c, Head(left[c]))
               /\ Put(Head(left[c]), c)
               /\ \/ Created(c) /\ faults' = faults
                  \/ RunFails(c, Head(left[c])) /\ Fault
            \/ /\ UNCHANGED kubeVars
               /\ RunFails(c, Head(left[c])) /\ (faults' = faults \/ Fault)
BY Zenon DEF CreateObject, CreateAccepted

LEMMA DeleteForm ==
  ASSUME NEW c \in Calls, NEW o, NEW to, DeleteObject(c, o, to)
  PROVE  /\ faults' = faults \/ Fault
         /\ \/ /\ ~ cancelled[c] /\ Exists(o) /\ Put(o, Nobody)
               /\ Proceed(c, to, FALSE) \/ Proceed(c, to, TRUE)
            \/ UNCHANGED kubeVars /\ Proceed(c, to, TRUE)
BY Zenon DEF DeleteObject

Asks(c) == \/ PrepareWorkspace(c) \/ CheckWorkspaceStatus(c)
           \/ PurgeWorkspace(c) \/ CheckBalticModuleStatus(c)

LEMMA AskForm ==
  ASSUME Types, NEW c \in Calls, Asks(c)
  PROVE  /\ pc[c] = "ask" /\ UNCHANGED <<creator, volumesOf, available, quotaValid, timeouts>>
         /\ faults' = faults \/ Fault
         /\ \E s \in Statuses, e \in BOOLEAN : Return(c, s, e)
         /\ \/ namespace' = namespace
            \/ /\ req[c].op = "PrepareWorkspace"
               /\ namespace = "absent" /\ namespace' = "active"
            \/ /\ req[c].op = "PurgeWorkspace"
               /\ namespace # "absent" /\ namespace' = "terminating"
<1>1. CASE PrepareWorkspace(c)
  BY <1>1, Zenon DEF PrepareWorkspace, AskFails, Statuses
<1>2. CASE CheckWorkspaceStatus(c)
  BY <1>2, Zenon DEF CheckWorkspaceStatus, AskFails, Statuses, kubeVars
<1>3. CASE PurgeWorkspace(c)
  BY <1>3, Zenon DEF PurgeWorkspace, AskFails, Statuses
<1>4. CASE CheckBalticModuleStatus(c)
  <2>1. ModuleStatus(req[c].module) \in Statuses
    BY Zenon DEF ModuleStatus, Statuses
  <2> QED
    BY <1>4, <2>1, Zenon DEF CheckBalticModuleStatus, AskFails, Statuses, kubeVars
<1> QED
  BY <1>1, <1>2, <1>3, <1>4 DEF Asks

LEMMA ReturnForm ==
  ASSUME NEW c \in Calls, NEW s, NEW e, Return(c, s, e)
  PROVE  /\ pc' = [pc EXCEPT ![c] = "done"] /\ left' = [left EXCEPT ![c] = <<>>]
         /\ req' = req /\ cancelled' = cancelled
BY Zenon DEF Return

LEMMA CreatedForm ==
  ASSUME NEW c \in Calls, Created(c) \/ RunFails(c, Head(left[c]))
  PROVE  /\ \/ pc' = [pc EXCEPT ![c] = "done"] /\ left' = [left EXCEPT ![c] = <<>>]
            \/ pc' = pc /\ left' = [left EXCEPT ![c] = Tail(@)] /\ Tail(left[c]) # <<>>
         /\ req' = req /\ cancelled' = cancelled
BY ReturnForm, Zenon DEF Created, RunFails

LEMMA ProceedForm ==
  ASSUME NEW c \in Calls, NEW to, NEW e, Proceed(c, to, e)
  PROVE  pc' = [pc EXCEPT ![c] = to] /\ req' = req /\ cancelled' = cancelled
BY Zenon DEF Proceed

LEMMA PutTypes ==
  ASSUME Types, NEW o \in Object, NEW c \in Calls \cup {Nobody},
         c \in Calls => req[c].build \in Builds, Put(o, c)
  PROVE  /\ namespace' \in {"absent", "active", "terminating"}
         /\ creator' \in [Object -> Calls \cup {Nobody}]
         /\ volumesOf' \in [Modules -> Seq(Object)]
         /\ available' \in [Modules -> {"none", "True", "False"}]
<1>1. o.module \in Modules
  BY DEF Object
<1>2. (IF c = Nobody THEN <<>> ELSE VolumesFor(o.module, req[c].build)) \in Seq(Object)
  BY <1>1, VolumesForm
<1> QED
  BY <1>1, <1>2 DEF Put, Types

LEMMA RunType ==
  ASSUME Types, NEW c \in Calls, Control(c), Work(c),
         pc[c] \in {"create", "get"} \cup Deleting
  PROVE  /\ req[c].module \in Modules /\ req[c].build \in Builds /\ left[c] \in Seq(Object)
         /\ pc[c] = "create" => req[c].op = "RunBalticModule"
         /\ pc[c] # "create" => req[c].op = "DisposeBalticModule"
<1>1. req[c].op \in ModuleOps
  BY DEF Control, ModuleOps
<1> QED
  BY <1>1, RequestForm DEF Types, Control, Deleting

LEMMA NamedType ==
  ASSUME NEW m \in Modules, NEW k \in Kinds
  PROVE  Named(m, k) \in Object
BY ProxyAssumption DEF Named, Object

\* The steps of a dispose after it has read the deployment.
DeletesNow(c) ==
  \E o \in Object, to \in Deleting :
    /\ pc[c] \in Deleting /\ to # "deleteDeployment"
    /\ \/ o = Deployment(req[c].module) /\ pc[c] = "deleteDeployment"
          /\ to = "deleteService" /\ left' = left
       \/ o = Service(req[c].module) /\ pc[c] = "deleteService"
          /\ to = "deleteVolumes" /\ left' = left
       \/ o = Head(left[c]) /\ left[c] # <<>> /\ pc[c] = "deleteVolumes"
          /\ to = "deleteVolumes" /\ left' = [left EXCEPT ![c] = Tail(@)]
    /\ DeleteObject(c, o, to) /\ timeouts' = timeouts

LEMMA DeleteSteps ==
  ASSUME Types, NEW c \in Calls, Control(c), Work(c),
         DeleteDeployment(c) \/ DeleteService(c) \/ DeleteVolume(c)
  PROVE  DeletesNow(c)
<1>1. pc[c] \in Deleting
  BY DEF DeleteDeployment, DeleteService, DeleteVolume, Deleting
<1>2. req[c].module \in Modules /\ left[c] \in Seq(Object)
  BY <1>1, RunType
<1>3. Deployment(req[c].module) \in Object /\ Service(req[c].module) \in Object
  BY <1>2, NamedType DEF Deployment, Service, Kinds
<1>4. left[c] # <<>> => Head(left[c]) \in Object
  BY <1>2, TailForm
<1>5. CASE DeleteDeployment(c)
  BY <1>1, <1>3, <1>5 DEF DeletesNow, DeleteDeployment, Deployment, Deleting
<1>6. CASE DeleteService(c)
  BY <1>1, <1>3, <1>6 DEF DeletesNow, DeleteService, Service, Deleting
<1>7. CASE DeleteVolume(c)
  BY <1>1, <1>4, <1>7 DEF DeletesNow, DeleteVolume, Deleting
<1> QED
  BY <1>5, <1>6, <1>7

\* A step of a call is one of five.
LEMMA StepKinds ==
  ASSUME Types, NEW c \in Calls, Control(c), Work(c), Step(c)
  PROVE  CreateObject(c) \/ GetDeployment(c) \/ DeletesNow(c) \/ DisposeReturns(c) \/ Asks(c)
BY DeleteSteps DEF Step, Asks

LEMMA FaultType == faults \in Nat /\ (faults' = faults \/ Fault) => faults' \in Nat
BY ProxyAssumption DEF Fault

LEMMA StepTypes ==
  ASSUME Types, NEW c \in Calls, Control(c), Work(c), Step(c)
  PROVE  Types'
<1> USE DEF Types, Labels, Deleting
<1>1. CASE CreateObject(c)
  <2>1. /\ req[c].module \in Modules /\ req[c].build \in Builds
        /\ left[c] \in Seq(Object) /\ left[c] # <<>>
    BY <1>1, RunType, CreateForm DEF Work
  <2>2. Head(left[c]) \in Object /\ Tail(left[c]) \in Seq(Object)
    BY <2>1, TailForm
  <2>3. /\ namespace' \in {"absent", "active", "terminating"}
        /\ creator' \in [Object -> Calls \cup {Nobody}]
        /\ volumesOf' \in [Modules -> Seq(Object)]
        /\ available' \in [Modules -> {"none", "True", "False"}]
    BY <1>1, <2>1, <2>2, CreateForm, PutTypes DEF kubeVars
  <2>4. /\ pc' \in [Calls -> Labels] /\ left' \in [Calls -> Seq(Object)] /\ req' = req
    <3>1. Created(c) \/ RunFails(c, Head(left[c]))
      BY <1>1, CreateForm, Zenon
    <3>2. /\ req' = req
          /\ \/ pc' = [pc EXCEPT ![c] = "done"] /\ left' = [left EXCEPT ![c] = <<>>]
             \/ pc' = pc /\ left' = [left EXCEPT ![c] = Tail(@)]
      BY <3>1, CreatedForm, Zenon
    <3>3. pc' \in [Calls -> Labels]
      BY <3>2
    <3>4. <<>> \in Seq(Object)
      OBVIOUS
    <3>5. left' = [left EXCEPT ![c] = <<>>] \/ left' = [left EXCEPT ![c] = Tail(left[c])]
      BY <3>2
    <3>6. left' \in [Calls -> Seq(Object)]
      BY <2>2, <3>4, <3>5
    <3> QED
      BY <3>2, <3>3, <3>6
  <2>5. faults' \in Nat /\ timeouts' \in Nat
    BY <1>1, CreateForm, FaultType
  <2> QED
    BY <2>3, <2>4, <2>5
<1>2. CASE GetDeployment(c)
  <2>1. req[c].module \in Modules
    BY <1>2, RunType DEF GetDeployment
  <2>2. faults' = faults \/ Fault
    BY <1>2, Zenon DEF GetDeployment
  <2>3. pc' \in [Calls -> Labels] /\ left' \in [Calls -> Seq(Object)] /\ req' = req
    BY <1>2, <2>1 DEF GetDeployment, Proceed, ToDelete
  <2> QED
    BY <1>2, <2>2, <2>3, FaultType DEF GetDeployment, kubeVars
<1>3. CASE DeletesNow(c)
  <2>1. PICK o \in Object, to \in Deleting :
          /\ left' = left \/ (left[c] # <<>> /\ left' = [left EXCEPT ![c] = Tail(@)])
          /\ DeleteObject(c, o, to) /\ timeouts' = timeouts
    BY <1>3, Zenon DEF DeletesNow
  <2>2. left' \in [Calls -> Seq(Object)]
    <3>1. left[c] # <<>> => Tail(left[c]) \in Seq(Object)
      BY TailForm
    <3> QED
      BY <2>1, <3>1
  <2>3. pc' \in [Calls -> Labels] /\ req' = req
    <3>1. Proceed(c, to, TRUE) \/ Proceed(c, to, FALSE)
      BY <2>1, DeleteForm, Zenon
    <3>2. pc' = [pc EXCEPT ![c] = to] /\ req' = req
      BY <3>1, ProceedForm, Zenon
    <3> QED
      BY <3>2
  <2>4. /\ namespace' \in {"absent", "active", "terminating"}
        /\ creator' \in [Object -> Calls \cup {Nobody}]
        /\ volumesOf' \in [Modules -> Seq(Object)]
        /\ available' \in [Modules -> {"none", "True", "False"}]
    BY <2>1, DeleteForm, PutTypes, ProxyAssumption DEF kubeVars
  <2>5. faults' \in Nat /\ timeouts' \in Nat
    BY <2>1, DeleteForm, FaultType
  <2> QED
    BY <2>2, <2>3, <2>4, <2>5
<1>4. CASE DisposeReturns(c)
  BY <1>4 DEF DisposeReturns, Return, kubeVars
<1>5. CASE Asks(c)
  <2>1. pc' \in [Calls -> Labels] /\ left' \in [Calls -> Seq(Object)] /\ req' = req
    <3>1. \E s \in Statuses, e \in BOOLEAN : Return(c, s, e)
      BY <1>5, AskForm, Zenon
    <3>2. req' = req /\ pc' = [pc EXCEPT ![c] = "done"] /\ left' = [left EXCEPT ![c] = <<>>]
      BY <3>1, ReturnForm, Zenon
    <3> QED
      BY <3>2
  <2> QED
    BY <1>5, <2>1, AskForm, FaultType
<1> QED
  BY <1>1, <1>2, <1>3, <1>4, <1>5, StepKinds

-----------------------------------------------------------------------------
(* What a step of a call changes *)

Same(d) ==
  /\ pc'[d] = pc[d] /\ left'[d] = left[d]
  /\ req'[d] = req[d] /\ cancelled'[d] = cancelled[d]
  /\ failed'[d] = failed[d] /\ reply'[d] = reply[d]

LEMMA ReturnStep ==
  ASSUME Types, Truths, NEW c \in Calls, NEW s, NEW e, Return(c, s, e)
  PROVE  /\ pc'[c] = "done" /\ left'[c] = <<>> /\ reply'[c].err = e
         /\ req' = req /\ cancelled' = cancelled /\ failed' = failed
         /\ \A d \in Calls \ {c} : Same(d)
<1>1. pc'[c] = "done" /\ left'[c] = <<>> /\ reply'[c] = [status |-> s, err |-> e]
  BY Zenon DEF Return, Types, Truths
<1>2. reply'[c].err = e
  BY <1>1
<1>3. \A d \in Calls \ {c} : Same(d)
  BY Zenon DEF Return, Types, Truths, Same
<1> QED
  BY <1>1, <1>2, <1>3, Zenon DEF Return

LEMMA ProceedStep ==
  ASSUME Types, Truths, NEW c \in Calls, NEW to, NEW e, Proceed(c, to, e)
  PROVE  /\ pc'[c] = to /\ failed'[c] = (failed[c] \/ e)
         /\ req' = req /\ cancelled' = cancelled /\ reply' = reply
         /\ \A d \in Calls \ {c} :
              /\ pc'[d] = pc[d] /\ req'[d] = req[d] /\ cancelled'[d] = cancelled[d]
              /\ failed'[d] = failed[d] /\ reply'[d] = reply[d]
BY Zenon DEF Proceed, Types, Truths

LEMMA CreatedStep ==
  ASSUME Types, Truths, NEW c \in Calls, CreateObject(c)
  PROVE  /\ pc[c] = "create" /\ req' = req /\ cancelled' = cancelled /\ failed' = failed
         /\ \A d \in Calls \ {c} : Same(d)
         /\ \/ pc'[c] = "create" /\ left'[c] = Tail(left[c]) /\ Tail(left[c]) # <<>>
               /\ reply' = reply
            \/ pc'[c] = "done" /\ left'[c] = <<>>
<1>1. pc[c] = "create" /\ (Created(c) \/ RunFails(c, Head(left[c])))
  BY CreateForm, Zenon
<1>2. ASSUME NEW s, NEW e, Return(c, s, e)
      PROVE  /\ pc'[c] = "done" /\ left'[c] = <<>> /\ req' = req /\ cancelled' = cancelled
             /\ failed' = failed /\ \A d \in Calls \ {c} : Same(d)
  BY <1>2, ReturnStep
<1>3. CASE RunFails(c, Head(left[c]))
  BY <1>1, <1>2, <1>3, Zenon DEF RunFails
<1>4. CASE Created(c) /\ Tail(left[c]) = <<>>
  BY <1>1, <1>2, <1>4, Zenon DEF Created
<1>5. CASE Created(c) /\ Tail(left[c]) # <<>>
  BY <1>1, <1>5, Zenon DEF Created, Same, Types
<1> QED
  BY <1>1, <1>3, <1>4, <1>5

LEMMA GetStep ==
  ASSUME Types, Truths, NEW c \in Calls, GetDeployment(c)
  PROVE  /\ pc[c] = "get" /\ pc'[c] = "deleteDeployment" /\ UNCHANGED kubeVars
         /\ req' = req /\ cancelled' = cancelled /\ reply' = reply
         /\ \A d \in Calls \ {c} : Same(d)
         /\ \/ /\ Exists(Deployment(req[c].module)) /\ left'[c] = volumesOf[req[c].module]
               /\ failed'[c] = failed[c]
            \/ left'[c] = left[c] /\ failed'[c] = TRUE
<1>1. /\ pc[c] = "get" /\ UNCHANGED kubeVars
      /\ Proceed(c, "deleteDeployment", FALSE) \/ Proceed(c, "deleteDeployment", TRUE)
      /\ left' = left \/ left' = [left EXCEPT ![c] = volumesOf[req[c].module]]
  BY Zenon DEF GetDeployment, ToDelete
<1>2. /\ pc'[c] = "deleteDeployment" /\ req' = req /\ cancelled' = cancelled
      /\ reply' = reply
      /\ \A d \in Calls \ {c} :
              /\ pc'[d] = pc[d] /\ req'[d] = req[d] /\ cancelled'[d] = cancelled[d]
              /\ failed'[d] = failed[d] /\ reply'[d] = reply[d]
  BY <1>1, ProceedStep, Zenon
<1>3. \A d \in Calls \ {c} : Same(d)
  BY <1>1, <1>2, Zenon DEF Same, Types
<1>4. \/ /\ Exists(Deployment(req[c].module)) /\ left'[c] = volumesOf[req[c].module]
         /\ failed'[c] = failed[c]
      \/ left'[c] = left[c] /\ failed'[c] = TRUE
  <2>1. ASSUME Proceed(c, "deleteDeployment", TRUE) PROVE failed'[c] = TRUE
    BY <2>1, ProceedStep, Zenon
  <2>2. ASSUME Proceed(c, "deleteDeployment", FALSE) PROVE failed'[c] = failed[c]
    <3>1. failed'[c] = (failed[c] \/ FALSE) /\ failed[c] \in BOOLEAN
      BY <2>2, ProceedStep, Zenon DEF Truths
    <3> QED
      BY <3>1
  <2> QED
    BY <2>1, <2>2, Zenon DEF GetDeployment, ToDelete, Types, Deployment
<1> QED
  BY <1>1, <1>2, <1>3, <1>4

LEMMA DeletesStep ==
  ASSUME Types, Truths, NEW c \in Calls, DeletesNow(c)
  PROVE  \E o \in Object, to \in Deleting :
    /\ pc[c] \in Deleting /\ pc'[c] = to
    /\ \/ o = Deployment(req[c].module) /\ pc[c] = "deleteDeployment"
          /\ to = "deleteService" /\ left' = left
       \/ o = Service(req[c].module) /\ pc[c] = "deleteService"
          /\ to = "deleteVolumes" /\ left' = left
       \/ o = Head(left[c]) /\ left[c] # <<>> /\ pc[c] = "deleteVolumes"
          /\ to = "deleteVolumes" /\ left' = [left EXCEPT ![c] = Tail(@)]
    /\ \A d \in Calls \ {c} : Same(d)
    /\ req' = req /\ cancelled' = cancelled /\ reply' = reply
    /\ \/ /\ ~ cancelled[c] /\ Exists(o) /\ Put(o, Nobody)
       \/ UNCHANGED kubeVars /\ failed'[c] = TRUE
    /\ failed[c] => failed'[c] = TRUE
<1>1. PICK o \in Object, to \in Deleting :
    /\ pc[c] \in Deleting
    /\ \/ o = Deployment(req[c].module) /\ pc[c] = "deleteDeployment"
          /\ to = "deleteService" /\ left' = left
       \/ o = Service(req[c].module) /\ pc[c] = "deleteService"
          /\ to = "deleteVolumes" /\ left' = left
       \/ o = Head(left[c]) /\ left[c] # <<>> /\ pc[c] = "deleteVolumes"
          /\ to = "deleteVolumes" /\ left' = [left EXCEPT ![c] = Tail(@)]
    /\ DeleteObject(c, o, to)
  BY Zenon DEF DeletesNow
<1>2. \E e \in BOOLEAN :
        /\ Proceed(c, to, e)
        /\ \/ /\ ~ cancelled[c] /\ Exists(o) /\ Put(o, Nobody)
           \/ UNCHANGED kubeVars /\ e = TRUE
  BY <1>1, DeleteForm, Zenon
<1>3. PICK e \in BOOLEAN :
        /\ Proceed(c, to, e)
        /\ \/ /\ ~ cancelled[c] /\ Exists(o) /\ Put(o, Nobody)
           \/ UNCHANGED kubeVars /\ e = TRUE
  BY <1>2
<1>4. /\ pc'[c] = to /\ failed'[c] = (failed[c] \/ e)
      /\ req' = req /\ cancelled' = cancelled /\ reply' = reply
      /\ \A d \in Calls \ {c} :
              /\ pc'[d] = pc[d] /\ req'[d] = req[d] /\ cancelled'[d] = cancelled[d]
              /\ failed'[d] = failed[d] /\ reply'[d] = reply[d]
  BY <1>3, ProceedStep, Zenon
<1>5. left' = left \/ left' = [left EXCEPT ![c] = Tail(left[c])]
  BY <1>1, Zenon
<1>6. \A d \in Calls \ {c} : Same(d)
  BY <1>4, <1>5, Zenon DEF Same, Types
<1>7. (e = TRUE => failed'[c] = TRUE) /\ (failed[c] => failed'[c] = TRUE)
  BY <1>4, Zenon
<1>8. \/ /\ ~ cancelled[c] /\ Exists(o) /\ Put(o, Nobody)
      \/ UNCHANGED kubeVars /\ failed'[c] = TRUE
  BY <1>3, <1>7, Zenon
<1> QED
  BY <1>1, <1>4, <1>6, <1>7, <1>8, Zenon

LEMMA DisposeStep ==
  ASSUME Types, Truths, NEW c \in Calls, DisposeReturns(c)
  PROVE  /\ pc[c] = "deleteVolumes" /\ left[c] = <<>> /\ UNCHANGED kubeVars
         /\ pc'[c] = "done" /\ left'[c] = <<>> /\ reply'[c].err = failed[c]
         /\ req' = req /\ cancelled' = cancelled /\ failed' = failed
         /\ \A d \in Calls \ {c} : Same(d)
<1>1. PICK s : Return(c, s, failed[c])
  BY Zenon DEF DisposeReturns
<1> QED
  BY <1>1, ReturnStep, Zenon DEF DisposeReturns

LEMMA AskStep ==
  ASSUME Types, Truths, NEW c \in Calls, Asks(c)
  PROVE  /\ pc[c] = "ask" /\ UNCHANGED <<creator, volumesOf>>
         /\ pc'[c] = "done" /\ left'[c] = <<>>
         /\ req' = req /\ cancelled' = cancelled /\ failed' = failed
         /\ \A d \in Calls \ {c} : Same(d)
         /\ \/ namespace' = namespace
            \/ /\ req[c].op = "PrepareWorkspace"
               /\ namespace = "absent" /\ namespace' = "active"
            \/ /\ req[c].op = "PurgeWorkspace"
               /\ namespace # "absent" /\ namespace' = "terminating"
<1>1. PICK s \in Statuses, e \in BOOLEAN : Return(c, s, e)
  BY AskForm, Zenon
<1> QED
  BY <1>1, ReturnStep, AskForm, Zenon

-----------------------------------------------------------------------------
(* BasicInv is kept *)

LEMMA PutStep ==
  ASSUME Types, NEW o \in Object, NEW c, Put(o, c)
  PROVE  /\ creator'[o] = c /\ \A p \in Object \ {o} : creator'[p] = creator[p]
         /\ namespace' = namespace
         /\ o.kind = "deployment" /\ c # Nobody =>
              volumesOf'[o.module] = VolumesFor(o.module, req[c].build)
         /\ \A m \in Modules : o.kind # "deployment" \/ o.module # m =>
              volumesOf'[m] = volumesOf[m]
<1>1. o.module \in Modules
  BY DEF Object
<1>2. creator'[o] = c /\ \A p \in Object \ {o} : creator'[p] = creator[p]
  BY DEF Put, Types
<1>3. namespace' = namespace
  BY Zenon DEF Put
<1>4. o.kind = "deployment" /\ c # Nobody =>
        volumesOf'[o.module] = VolumesFor(o.module, req[c].build)
  BY <1>1, Zenon DEF Put, Types
<1>5. \A m \in Modules : o.kind # "deployment" \/ o.module # m =>
        volumesOf'[m] = volumesOf[m]
  BY <1>1, Zenon DEF Put, Types
<1> QED
  BY <1>2, <1>3, <1>4, <1>5

LEMMA OneDeployment ==
  ASSUME NEW m \in Modules, NEW b \in Builds,
         NEW o \in Members(ObjectsFor(m, b)), o.kind = "deployment"
  PROVE  o = Deployment(m)
<1>1. \A v \in Members(VolumesFor(m, b)) : v.kind # "deployment"
  BY VolumesForm
<1>2. Service(m).kind # "deployment"
  BY DEF Service, Named
<1> QED
  BY <1>1, <1>2, ObjectsForm

\* Who made an object.
LEMMA Maker ==
  ASSUME Types, NEW o \in Object, MadeByRun(o), Exists(o)
  PROVE  /\ creator[o] \in Calls /\ o.module \in Modules
         /\ req[creator[o]].op = "RunBalticModule" /\ req[creator[o]].module = o.module
         /\ req[creator[o]].build \in Builds
         /\ o \in Members(ObjectsFor(o.module, req[creator[o]].build))
         /\ o.kind = "deployment" =>
              /\ o = Deployment(o.module) /\ pc[creator[o]] = "done"
              /\ volumesOf[o.module] = VolumesFor(o.module, req[creator[o]].build)
<1>1. creator[o] \in Calls
  BY DEF Types, Exists
<1>2. /\ req[creator[o]].op = "RunBalticModule" /\ req[creator[o]].module = o.module
      /\ o \in Members(ObjectsFor(o.module, req[creator[o]].build))
      /\ o.kind = "deployment" => pc[creator[o]] = "done"
           /\ volumesOf[o.module] = VolumesFor(o.module, req[creator[o]].build)
  BY DEF MadeByRun, Exists
<1>3. o.module \in Modules /\ req[creator[o]].build \in Builds
  BY <1>1, <1>2, RequestForm DEF Types, Object, ModuleOps
<1> QED
  BY <1>1, <1>2, <1>3, OneDeployment

LEMMA CallOKSame ==
  ASSUME NEW d \in Calls, Control(d), Work(d), Same(d)
  PROVE  Control(d)' /\ Work(d)'
<1>1. Control(d)'
  BY Zenon DEF Control, Same
<1>2. Work(d)'
  BY Zenon DEF Work, Same
<1> QED
  BY <1>1, <1>2

LEMMA StepWork ==
  ASSUME Types, Truths, \A o \in Object : MadeByRun(o),
         NEW c \in Calls, Control(c), Work(c), Step(c)
  PROVE  Work(c)'
<1>1. CASE CreateObject(c)
  <2>1. /\ pc[c] = "create" /\ left[c] \in Seq(Object) /\ left[c] # <<>>
        /\ Members(left[c]) \subseteq Members(ObjectsFor(req[c].module, req[c].build))
        /\ \A i \in DOMAIN left[c] : left[c][i].kind = "deployment" => i = Len(left[c])
    BY <1>1, CreatedStep DEF Work, Types
  <2>2. CASE pc'[c] = "done" /\ left'[c] = <<>>
    BY <2>2 DEF Work, Deleting
  <2>3. CASE pc'[c] = "create" /\ left'[c] = Tail(left[c]) /\ Tail(left[c]) # <<>>
    <3>1. Members(Tail(left[c])) \subseteq Members(left[c])
      BY <2>1, TailForm
    <3>2. \A i \in DOMAIN Tail(left[c]) :
            Tail(left[c])[i].kind = "deployment" => i = Len(Tail(left[c]))
      <4>1. DOMAIN Tail(left[c]) \subseteq Nat /\ Len(left[c]) \in Nat
        BY <2>1, TailForm
      <4> QED
        BY <2>1, <4>1, TailForm
    <3>3. req' = req
      BY <1>1, CreatedStep
    <3>4. ObjectsFor(req[c].module, req[c].build)' = ObjectsFor(req[c].module, req[c].build)
      BY <3>3
    <3>5. Members(left[c])' = Members(Tail(left[c]))
      BY <2>3
    <3> QED
      BY <2>1, <2>3, <3>1, <3>2, <3>3, <3>4, <3>5, Zenon DEF Work, Deleting
  <2> QED
    BY <1>1, <2>2, <2>3, CreatedStep, Zenon
<1>2. CASE GetDeployment(c)
  <2>1. /\ pc'[c] = "deleteDeployment" /\ req' = req
        /\ req[c].module \in Modules
    BY <1>2, GetStep, RunType
  <2>2. CASE Exists(Deployment(req[c].module)) /\ left'[c] = volumesOf[req[c].module]
    <3>1. Deployment(req[c].module) \in Object
          /\ Deployment(req[c].module).module = req[c].module
          /\ Deployment(req[c].module).kind = "deployment"
      BY <2>1, NamedType DEF Deployment, Named, Kinds
    <3>2. PICK b \in Builds : volumesOf[req[c].module] = VolumesFor(req[c].module, b)
      BY <2>2, <3>1, Maker
    <3>3. left'[c] = VolumesFor(req[c].module, b)
      BY <2>2, <3>2
    <3> QED
      BY <2>1, <3>3, VolumesForm DEF Work, Members, Deleting
  <2>3. CASE left'[c] = left[c]
    <3>1. left'[c] = <<>>
      BY <1>2, <2>3, GetStep DEF Work, Deleting
    <3> QED
      BY <2>1, <3>1 DEF Work, Members, Deleting
  <2> QED
    BY <1>2, <2>2, <2>3, GetStep, Zenon
<1>3. CASE DeletesNow(c)
  <2>1. /\ pc[c] \in Deleting /\ pc'[c] \in Deleting /\ req' = req
        /\ left' = left \/ (left[c] # <<>> /\ left' = [left EXCEPT ![c] = Tail(left[c])])
    BY <1>3, DeletesStep, Zenon
  <2>2. /\ \A o \in Members(left[c]) :
             o.module = req[c].module /\ o.kind \in {"pvc", "configmap"}
        /\ \A i, j \in DOMAIN left[c] : left[c][i] = left[c][j] => i = j
        /\ left[c] \in Seq(Object)
    BY <2>1 DEF Work, Types
  <2>3. CASE left' = left
    BY <2>1, <2>2, <2>3 DEF Work, Deleting
  <2>4. CASE left[c] # <<>> /\ left' = [left EXCEPT ![c] = Tail(left[c])]
    <3>1. left'[c] = Tail(left[c])
      BY <2>4 DEF Types
    <3>2. Members(Tail(left[c])) \subseteq Members(left[c])
      BY <2>2, <2>4, TailForm
    <3>3. \A i, j \in DOMAIN Tail(left[c]) : Tail(left[c])[i] = Tail(left[c])[j] => i = j
      <4>1. DOMAIN Tail(left[c]) \subseteq Nat
        BY <2>2, <2>4, TailForm
      <4> QED
        BY <2>2, <2>4, <4>1, TailForm
    <3>4. Members(left[c])' = Members(Tail(left[c]))
      BY <3>1
    <3> QED
      BY <2>1, <2>2, <3>1, <3>2, <3>3, <3>4 DEF Work, Deleting
  <2> QED
    BY <2>1, <2>3, <2>4
<1>4. CASE DisposeReturns(c) \/ Asks(c)
  <2>1. pc'[c] = "done" /\ left'[c] = <<>>
    BY <1>4, DisposeStep, AskStep
  <2> QED
    BY <2>1 DEF Work, Deleting
<1> QED
  BY <1>1, <1>2, <1>3, <1>4, StepKinds

LEMMA StepControl ==
  ASSUME Types, Truths, NEW c \in Calls, Control(c), Work(c), Step(c)
  PROVE  Control(c)'
<1>1. CASE CreateObject(c)
  <2>1. /\ pc[c] = "create" /\ req' = req /\ cancelled' = cancelled /\ failed' = failed
        /\ (pc'[c] = "create" /\ reply' = reply) \/ pc'[c] = "done"
    BY <1>1, CreatedStep, Zenon
  <2> QED
    BY <2>1, Zenon DEF Control, Deleting
<1>2. CASE GetDeployment(c)
  <2>1. /\ pc[c] = "get" /\ pc'[c] = "deleteDeployment"
        /\ req' = req /\ reply' = reply
    BY <1>2, GetStep, Zenon
  <2> QED
    BY <2>1, Zenon DEF Control, Deleting
<1>3. CASE DeletesNow(c)
  <2>1. /\ pc[c] \in Deleting /\ pc'[c] \in Deleting /\ req' = req /\ reply' = reply
    BY <1>3, DeletesStep, Zenon
  <2> QED
    BY <2>1, Zenon DEF Control, Deleting
<1>4. CASE DisposeReturns(c) \/ Asks(c)
  <2>1. pc'[c] = "done"
    BY <1>4, DisposeStep, AskStep
  <2> QED
    BY <2>1, Zenon DEF Control, Deleting
<1> QED
  BY <1>1, <1>2, <1>3, <1>4, StepKinds

LEMMA NoLength == ASSUME NEW s \in Seq(Object), Len(s) = 0 PROVE s = <<>>
OBVIOUS

LEMMA StepMade ==
  ASSUME Types, Truths, \A o \in Object : MadeByRun(o),
         NEW c \in Calls, Control(c), Work(c), Step(c)
  PROVE  \A o \in Object : MadeByRun(o)'
<1> SUFFICES ASSUME NEW o \in Object, creator'[o] # Nobody PROVE MadeByRun(o)'
  BY Zenon DEF MadeByRun
<1>1. /\ req' = req /\ pc[c] # "done"
      /\ \A d \in Calls : pc[d] = "done" => pc'[d] = "done"
  <2>1. CASE CreateObject(c)
    BY <2>1, CreatedStep, Zenon DEF Same
  <2>2. CASE GetDeployment(c)
    BY <2>2, GetStep, Zenon DEF Same
  <2>3. CASE DeletesNow(c)
    BY <2>3, DeletesStep, Zenon DEF Same, Deleting
  <2>4. CASE DisposeReturns(c)
    BY <2>4, DisposeStep, Zenon DEF Same
  <2>5. CASE Asks(c)
    BY <2>5, AskStep, Zenon DEF Same
  <2> QED
    BY <2>1, <2>2, <2>3, <2>4, <2>5, StepKinds
<1>2. ASSUME creator'[o] = creator[o],
             o.kind = "deployment" => volumesOf'[o.module] = volumesOf[o.module]
      PROVE  MadeByRun(o)'
  <2>1. Exists(o)
    BY <1>2 DEF Exists
  <2>2. creator[o] \in Calls /\ req[creator[o]].module = o.module
    BY <2>1, Maker
  <2> QED
    BY <1>1, <1>2, <2>1, <2>2, Zenon DEF MadeByRun, Exists
<1>3. CASE UNCHANGED kubeVars \/ UNCHANGED <<creator, volumesOf>>
  BY <1>2, <1>3 DEF kubeVars
<1>4. ASSUME NEW p \in Object, NEW d, Put(p, d), o # p,
             p.kind = "deployment" => p = Deployment(p.module)
      PROVE  MadeByRun(o)'
  <2>1. creator'[o] = creator[o]
    BY <1>4, PutStep
  <2>2. o.kind = "deployment" => o = Deployment(o.module) /\ o.module \in Modules
    BY <2>1, Maker DEF Exists
  <2>3. o.kind = "deployment" => p.kind # "deployment" \/ p.module # o.module
    BY <2>2, <1>4
  <2>4. o.kind = "deployment" => volumesOf'[o.module] = volumesOf[o.module]
    BY <1>4, <2>2, <2>3, PutStep
  <2> QED
    BY <1>2, <2>1, <2>4
<1>5. CASE CreateObject(c) /\ ~ UNCHANGED kubeVars
  <2> DEFINE h == Head(left[c])
  <2>1. Put(h, c) /\ ~ Exists(h) /\ pc[c] = "create"
    BY <1>5, CreateForm, Zenon
  <2>2. /\ req[c].module \in Modules /\ req[c].build \in Builds
        /\ req[c].op = "RunBalticModule"
        /\ left[c] \in Seq(Object) /\ left[c] # <<>>
        /\ h \in Members(ObjectsFor(req[c].module, req[c].build))
        /\ h \in Object
        /\ h.kind = "deployment" => Tail(left[c]) = <<>>
    <3>1. /\ left[c] \in Seq(Object) /\ left[c] # <<>>
          /\ Members(left[c]) \subseteq Members(ObjectsFor(req[c].module, req[c].build))
          /\ \A i \in DOMAIN left[c] : left[c][i].kind = "deployment" => i = Len(left[c])
      BY <2>1 DEF Work, Types
    <3>2. h.kind = "deployment" => Len(Tail(left[c])) = 0
      <4>1. h = left[c][1] /\ 1 \in DOMAIN left[c] /\ Len(Tail(left[c])) = Len(left[c]) - 1
        BY <3>1, TailForm
      <4>2. h.kind = "deployment" => 1 = Len(left[c])
        BY <3>1, <4>1, Zenon
      <4> HIDE DEF h
      <4> QED
        BY <4>1, <4>2
    <3>3. Tail(left[c]) \in Seq(Object) /\ h \in Members(left[c]) /\ h \in Object
      BY <3>1, TailForm
    <3>4. h.kind = "deployment" => Tail(left[c]) = <<>>
      BY <3>2, <3>3, NoLength
    <3> QED
      BY <2>1, <3>1, <3>3, <3>4, RunType
  <2> HIDE DEF h
  <2>3. h.kind = "deployment" => h = Deployment(req[c].module)
    BY <2>2, OneDeployment
  <2>4. h.module = req[c].module
    <3>1. \A v \in Members(VolumesFor(req[c].module, req[c].build)) : v.module = req[c].module
      BY <2>2, VolumesForm
    <3>2. Service(req[c].module).module = req[c].module
          /\ Deployment(req[c].module).module = req[c].module
      BY DEF Service, Deployment, Named
    <3> QED
      BY <2>2, <3>1, <3>2, ObjectsForm
  <2>5. CASE o # h
    BY <1>4, <2>1, <2>2, <2>3, <2>4, <2>5
  <2>6. CASE o = h
    <3>1. creator'[o] = c
      BY <2>1, <2>2, <2>6, PutStep
    <3>2. o.kind = "deployment" =>
            /\ pc'[c] = "done"
            /\ volumesOf'[req[c].module] = VolumesFor(req[c].module, req[c].build)
      <4>1. o.kind = "deployment" => pc'[c] = "done"
        BY <1>5, <2>2, <2>6, CreatedStep
      <4>2. c # Nobody
        BY ProxyAssumption
      <4> QED
        BY <2>1, <2>2, <2>4, <2>6, <4>1, <4>2, PutStep
    <3> QED
      BY <1>1, <2>2, <2>4, <2>6, <3>1, <3>2, Zenon DEF MadeByRun
  <2> QED
    BY <2>5, <2>6
<1>6. CASE DeletesNow(c) /\ ~ UNCHANGED kubeVars
  <2>1. PICK p \in Object : Put(p, Nobody) /\ Exists(p)
    BY <1>6, DeletesStep, Zenon
  <2>2. p.kind = "deployment" => p = Deployment(p.module)
    BY <2>1, Maker
  <2>3. o # p
    BY <2>1, PutStep
  <2> QED
    BY <1>4, <2>1, <2>2, <2>3
<1> QED
  <2>1. CASE GetDeployment(c)
    BY <1>3, <2>1, GetStep
  <2>2. CASE DisposeReturns(c)
    BY <1>3, <2>2, DisposeStep
  <2>3. CASE Asks(c)
    BY <1>3, <2>3, AskStep
  <2> QED
    BY <1>3, <1>5, <1>6, <2>1, <2>2, <2>3, StepKinds

-----------------------------------------------------------------------------
(* The steps of the manager and of Kubernetes *)

LEMMA StartStep ==
  ASSUME Types, Truths, NEW c \in Calls, StartCall(c)
  PROVE  /\ pc[c] = "new" /\ MayAsk(req'[c]) /\ req'[c] \in Request
         /\ pc'[c] = FirstLabel(req'[c].op)
         /\ left'[c] = IF req'[c].op = "RunBalticModule"
                       THEN ObjectsFor(req'[c].module, req'[c].build) ELSE <<>>
         /\ UNCHANGED <<kubeVars, cancelled, failed, reply>>
         /\ \A d \in Calls \ {c} : Same(d)
<1>1. PICK r \in Request :
        /\ pc[c] = "new" /\ MayAsk(r) /\ req' = [req EXCEPT ![c] = r]
        /\ pc' = [pc EXCEPT ![c] = FirstLabel(r.op)]
        /\ left' = [left EXCEPT ![c] = IF r.op = "RunBalticModule"
                                       THEN ObjectsFor(r.module, r.build) ELSE <<>>]
        /\ UNCHANGED <<kubeVars, cancelled, failed, reply>>
  BY Zenon DEF StartCall
<1>2. req'[c] = r
  BY <1>1, Zenon DEF Types
<1>3. pc'[c] = FirstLabel(r.op)
  BY <1>1, Zenon DEF Types
<1>4. left'[c] = IF r.op = "RunBalticModule" THEN ObjectsFor(r.module, r.build) ELSE <<>>
  BY <1>1, Zenon DEF Types
<1>5. \A d \in Calls \ {c} : Same(d)
  BY <1>1, Zenon DEF Types, Same
<1> QED
  BY <1>1, <1>2, <1>3, <1>4, <1>5, Zenon

\* The first label of a call.
LEMMA FirstForm ==
  ASSUME NEW r \in Request
  PROVE  /\ r.op = "RunBalticModule" => FirstLabel(r.op) = "create"
         /\ r.op = "DisposeBalticModule" => FirstLabel(r.op) = "get"
         /\ r.op \notin {"RunBalticModule", "DisposeBalticModule"} =>
              FirstLabel(r.op) = "ask" /\ r.op \in WorkspaceOps \cup {"CheckBalticModuleStatus"}
         /\ FirstLabel(r.op) \in {"create", "get", "ask"}
BY RequestForm DEF FirstLabel, ModuleOps, WorkspaceOps

LEMMA StartTypes ==
  ASSUME Types, Truths, NEW c \in Calls, StartCall(c)
  PROVE  Types'
<1>1. PICK r \in Request :
        /\ pc[c] = "new" /\ req' = [req EXCEPT ![c] = r]
        /\ pc' = [pc EXCEPT ![c] = FirstLabel(r.op)]
        /\ left' = [left EXCEPT ![c] = IF r.op = "RunBalticModule"
                                       THEN ObjectsFor(r.module, r.build) ELSE <<>>]
        /\ UNCHANGED <<kubeVars, faults, timeouts>>
  BY Zenon DEF StartCall
<1>2. (IF r.op = "RunBalticModule" THEN ObjectsFor(r.module, r.build) ELSE <<>>)
        \in Seq(Object)
  <2>1. CASE r.op = "RunBalticModule"
    <3>1. r.module \in Modules /\ r.build \in Builds
      BY <2>1, RequestForm DEF ModuleOps
    <3> QED
      BY <2>1, <3>1, ObjectsForm
  <2>2. CASE r.op # "RunBalticModule"
    BY <2>2
  <2> QED
    BY <2>1, <2>2
<1>3. FirstLabel(r.op) \in Labels
  BY FirstForm DEF Labels
<1>4. req' \in [Calls -> Request \cup {NoRequest}]
  BY <1>1, Zenon DEF Types
<1>5. pc' \in [Calls -> Labels] /\ left' \in [Calls -> Seq(Object)]
  BY <1>1, <1>2, <1>3 DEF Types
<1> QED
  BY <1>1, <1>4, <1>5, Zenon DEF Types, kubeVars

LEMMA StartCallOK ==
  ASSUME Types, Truths, NEW c \in Calls, Control(c), Work(c), StartCall(c)
  PROVE  Control(c)' /\ Work(c)'
<1> DEFINE r == req'[c]
<1>1. /\ pc[c] = "new" /\ r \in Request /\ pc'[c] = FirstLabel(r.op)
      /\ left'[c] = IF r.op = "RunBalticModule"
                    THEN ObjectsFor(r.module, r.build) ELSE <<>>
      /\ UNCHANGED <<cancelled, failed, reply>>
  BY StartStep, Zenon
<1> HIDE DEF r
<1>2. Control(c)'
  <2>1. ~ failed'[c] /\ ~ reply'[c].err
    BY <1>1, Zenon DEF Control
  <2>2. /\ pc'[c] \in {"create", "get", "ask"}
        /\ pc'[c] = "create" => r.op = "RunBalticModule"
        /\ pc'[c] = "get" => r.op = "DisposeBalticModule"
        /\ pc'[c] = "ask" => r.op \in WorkspaceOps \cup {"CheckBalticModuleStatus"}
    BY <1>1, FirstForm
  <2>3. pc'[c] # "new" /\ pc'[c] \notin Deleting
    BY <2>2 DEF Deleting
  <2> QED
    BY <2>1, <2>2, <2>3, Zenon DEF Control, r
<1>3. Work(c)'
  <2>1. CASE r.op = "RunBalticModule"
    <3>1. pc'[c] = "create" /\ left'[c] = ObjectsFor(r.module, r.build)
      BY <1>1, <2>1, FirstForm
    <3>2. r.module \in Modules /\ r.build \in Builds
      BY <1>1, <2>1, RequestForm DEF ModuleOps
    <3>3. /\ left'[c] # <<>>
          /\ \A i \in DOMAIN left'[c] : left'[c][i].kind = "deployment" => i = Len(left'[c])
      BY <3>1, <3>2, ObjectsForm
    <3>4. Members(left[c])' \subseteq Members(ObjectsFor(req[c].module, req[c].build))'
      BY <3>1 DEF r
    <3> QED
      BY <3>1, <3>3, <3>4, Zenon DEF Work, Deleting
  <2>2. CASE r.op # "RunBalticModule"
    <3>1. left'[c] = <<>> /\ pc'[c] \in {"get", "ask"}
      BY <1>1, <2>2, FirstForm
    <3> QED
      BY <3>1 DEF Work, Deleting
  <2> QED
    BY <2>1, <2>2
<1> QED
  BY <1>2, <1>3

LEMMA TimeoutStep ==
  ASSUME Types, Truths, NEW c \in Calls, Timeout(c)
  PROVE  /\ pc[c] \notin {"new", "done"} /\ cancelled'[c] = TRUE /\ timeouts' \in Nat
         /\ UNCHANGED <<kubeVars, pc, req, left, failed, reply, faults>>
         /\ \A d \in Calls \ {c} : Same(d)
<1>1. timeouts' \in Nat
  BY DEF Timeout, Types
<1>2. /\ pc[c] \notin {"new", "done"} /\ cancelled'[c] = TRUE
      /\ UNCHANGED <<kubeVars, pc, req, left, failed, reply, faults>>
  BY Zenon DEF Timeout, Truths
<1>3. \A d \in Calls \ {c} : Same(d)
  BY Zenon DEF Timeout, Truths, Same
<1> QED
  BY <1>1, <1>2, <1>3

LEMMA KubeStep ==
  ASSUME Types, Kube
  PROVE  /\ UNCHANGED <<callVars, faults, timeouts>>
         /\ \/ UNCHANGED <<creator, volumesOf, namespace>>
            \/ /\ namespace = "terminating"
               /\ \E o \in Object : Exists(o) /\ Put(o, Nobody)
            \/ /\ namespace = "terminating" /\ \A o \in Object : ~ Exists(o)
               /\ namespace' = "absent" /\ UNCHANGED <<creator, volumesOf>>
         /\ available' \in [Modules -> {"none", "True", "False"}]
<1>1. CASE \E m \in Modules : ReportAvailable(m)
  <2>1. PICK m \in Modules, a \in {"True", "False"} :
          available' = [available EXCEPT ![m] = a]
    BY <1>1, Zenon DEF ReportAvailable
  <2>2. available' \in [Modules -> {"none", "True", "False"}]
    BY <2>1 DEF Types
  <2> QED
    BY <1>1, <2>2, Zenon DEF ReportAvailable
<1>2. CASE RejectQuota
  BY <1>2, Zenon DEF RejectQuota, Types
<1>3. CASE CollectObject
  <2>1. PICK o \in Object : Exists(o) /\ Put(o, Nobody)
    BY <1>3, Zenon DEF CollectObject
  <2>2. available' \in [Modules -> {"none", "True", "False"}]
    BY <2>1, PutTypes, ProxyAssumption
  <2> QED
    BY <1>3, <2>2, Zenon DEF CollectObject
<1>4. CASE RemoveNamespace
  BY <1>4, Zenon DEF RemoveNamespace, Types
<1> QED
  BY <1>1, <1>2, <1>3, <1>4 DEF Kube

LEMMA KubeTypes == ASSUME Types, Kube PROVE Types'
<1>1. /\ UNCHANGED <<pc, req, left, faults, timeouts>>
      /\ available' \in [Modules -> {"none", "True", "False"}]
  BY KubeStep DEF callVars
<1>2. /\ namespace' \in {"absent", "active", "terminating"}
      /\ creator' \in [Object -> Calls \cup {Nobody}]
      /\ volumesOf' \in [Modules -> Seq(Object)]
  <2>1. CASE UNCHANGED <<creator, volumesOf>> /\ namespace' \in {"absent", namespace}
    BY <2>1 DEF Types
  <2>2. CASE \E o \in Object : Put(o, Nobody)
    BY <2>2, PutTypes, ProxyAssumption
  <2> QED
    BY <2>1, <2>2, KubeStep
<1> QED
  BY <1>1, <1>2, Zenon DEF Types

LEMMA TruthsStep == Types /\ Truths /\ [Next]_vars => Truths'
<1> SUFFICES ASSUME Types, Truths, [Next]_vars PROVE Truths'
  OBVIOUS
<1>1. ASSUME NEW c \in Calls, NEW s \in Statuses, NEW e \in BOOLEAN, Return(c, s, e)
      PROVE  cancelled' = cancelled /\ failed' = failed /\ reply' \in [Calls -> Reply]
  <2>1. [status |-> s, err |-> e] \in Reply
    BY Zenon DEF Reply
  <2> QED
    BY <1>1, <2>1, Zenon DEF Return, Truths
<1>2. ASSUME NEW c \in Calls, NEW to, NEW e \in BOOLEAN, Proceed(c, to, e)
      PROVE  /\ cancelled' = cancelled /\ reply' = reply
             /\ failed' \in [Calls -> BOOLEAN]
  BY <1>2, Zenon DEF Proceed, Truths
<1>3. ASSUME NEW o, NEW c, Put(o, c) PROVE quotaValid' = quotaValid
  BY <1>3, Zenon DEF Put
<1>4. CASE Kube
  <2>1. quotaValid' \in BOOLEAN
    BY <1>3, <1>4, Zenon DEF Kube, ReportAvailable, RejectQuota, CollectObject,
       RemoveNamespace, Truths
  <2> QED
    BY <1>4, <2>1, KubeStep, Zenon DEF Truths, callVars
<1>5. ASSUME NEW c \in Calls, StartCall(c) PROVE Truths'
  BY <1>5, Zenon DEF StartCall, Truths, kubeVars
<1>6. ASSUME NEW c \in Calls, Timeout(c) PROVE Truths'
  BY <1>6, Zenon DEF Timeout, Truths, kubeVars
<1>7. ASSUME NEW c \in Calls, CreateObject(c) PROVE Truths'
  <2>1. quotaValid' = quotaValid
    BY <1>3, <1>7, CreateForm, Zenon DEF kubeVars
  <2>2. ASSUME RunFails(c, Head(left[c])) PROVE Truths'
    <3>1. PICK s \in Statuses : Return(c, s, TRUE)
      BY <2>2, Zenon DEF RunFails, Statuses
    <3> QED
      BY <1>1, <2>1, <3>1, Zenon DEF Truths
  <2>3. ASSUME Created(c) PROVE Truths'
    <3>1. CASE Tail(left[c]) = <<>>
      <4>1. Return(c, "PENDING", FALSE) /\ "PENDING" \in Statuses
        BY <2>3, <3>1, Zenon DEF Created, Statuses
      <4> QED
        BY <1>1, <2>1, <4>1, Zenon DEF Truths
    <3>2. CASE Tail(left[c]) # <<>>
      BY <2>1, <2>3, <3>2, Zenon DEF Created, Truths
    <3> QED
      BY <3>1, <3>2
  <2> QED
    BY <1>7, <2>2, <2>3, CreateForm, Zenon
<1>8. ASSUME NEW c \in Calls, GetDeployment(c) PROVE Truths'
  BY <1>2, <1>8, Zenon DEF GetDeployment, Truths, kubeVars
<1>9. ASSUME NEW c \in Calls,
             DeleteDeployment(c) \/ DeleteService(c) \/ DeleteVolume(c)
      PROVE  Truths'
  <2>1. PICK o, to : DeleteObject(c, o, to)
    BY <1>9, Zenon DEF DeleteDeployment, DeleteService, DeleteVolume
  <2> QED
    BY <1>2, <1>3, <2>1, DeleteForm, Zenon DEF Truths, kubeVars
<1>10. ASSUME NEW c \in Calls, DisposeReturns(c) PROVE Truths'
  <2>1. PICK s \in Statuses : Return(c, s, failed[c])
    BY <1>10, Zenon DEF DisposeReturns, Statuses
  <2>2. failed[c] \in BOOLEAN
    BY Zenon DEF Truths
  <2> QED
    BY <1>1, <1>10, <2>1, <2>2, Zenon DEF DisposeReturns, Truths, kubeVars
<1>11. ASSUME NEW c \in Calls, Asks(c) PROVE Truths'
  BY <1>1, <1>11, AskForm, Zenon DEF Truths
<1>12. CASE UNCHANGED vars
  BY <1>12, Zenon DEF vars, kubeVars, callVars, Truths
<1> QED
  BY <1>4, <1>5, <1>6, <1>7, <1>8, <1>9, <1>10, <1>11, <1>12 DEF Next, Step, Asks

LEMMA MadeFrame ==
  ASSUME Types, NEW o \in Object, MadeByRun(o), \A d \in Calls : Control(d),
         creator'[o] \in {creator[o], Nobody},
         \A d \in Calls : pc[d] = "new" \/ req'[d] = req[d],
         \A d \in Calls : pc[d] = "done" => pc'[d] = "done",
         creator'[o] # Nobody /\ o.kind = "deployment" =>
           volumesOf'[o.module] = volumesOf[o.module]
  PROVE  MadeByRun(o)'
<1> SUFFICES ASSUME creator'[o] # Nobody PROVE MadeByRun(o)'
  BY Zenon DEF MadeByRun
<1>1. Exists(o) /\ creator'[o] = creator[o]
  BY DEF Exists
<1>2. /\ creator[o] \in Calls /\ req[creator[o]].module = o.module
      /\ req[creator[o]].op = "RunBalticModule"
  BY <1>1, Maker
<1>3. pc[creator[o]] # "new"
  <2>1. ASSUME pc[creator[o]] = "new" PROVE FALSE
    <3>1. req[creator[o]] = NoRequest
      BY <1>2, <2>1, Zenon DEF Control
    <3> QED
      BY <1>2, <3>1, RequestForm
  <2> QED
    BY <2>1
<1>4. req'[creator[o]] = req[creator[o]]
  BY <1>2, <1>3
<1> QED
  BY <1>1, <1>2, <1>4, Zenon DEF MadeByRun, Exists

LEMMA OthersMade ==
  ASSUME Types, Truths, \A d \in Calls : Control(d) /\ Work(d),
         \A o \in Object : MadeByRun(o),
         Kube \/ \E c \in Calls : StartCall(c) \/ Timeout(c)
  PROVE  \A o \in Object : MadeByRun(o)'
<1> SUFFICES ASSUME NEW o \in Object PROVE MadeByRun(o)'
  OBVIOUS
<1>1. CASE \E c \in Calls : StartCall(c) \/ Timeout(c)
  <2>1. PICK c \in Calls : StartCall(c) \/ Timeout(c)
    BY <1>1
  <2>2. UNCHANGED kubeVars
    BY <2>1, StartStep, TimeoutStep
  <2>3. \A d \in Calls : pc[d] = "new" \/ req'[d] = req[d]
    BY <2>1, StartStep, TimeoutStep, Zenon DEF Same
  <2>4. \A d \in Calls : pc[d] = "done" => pc'[d] = "done"
    <3>1. CASE StartCall(c)
      <4>1. pc[c] # "done" /\ \A d \in Calls \ {c} : Same(d)
        BY <3>1, StartStep
      <4> QED
        BY <4>1, Zenon DEF Same
    <3>2. CASE Timeout(c)
      BY <3>2, TimeoutStep
    <3> QED
      BY <2>1, <3>1, <3>2
  <2> QED
    BY <2>2, <2>3, <2>4, MadeFrame DEF kubeVars
<1>2. CASE Kube
  <2>1. /\ \A d \in Calls : pc[d] = "new" \/ req'[d] = req[d]
        /\ \A d \in Calls : pc[d] = "done" => pc'[d] = "done"
    BY <1>2, KubeStep DEF callVars
  <2>2. CASE UNCHANGED <<creator, volumesOf>>
    BY <2>1, <2>2, MadeFrame
  <2>3. CASE \E p \in Object : Exists(p) /\ Put(p, Nobody)
    <3>1. PICK p \in Object : Exists(p) /\ Put(p, Nobody)
      BY <2>3
    <3>2. creator'[o] \in {creator[o], Nobody}
      BY <3>1, PutStep
    <3>3. ASSUME creator'[o] # Nobody, o.kind = "deployment"
          PROVE  volumesOf'[o.module] = volumesOf[o.module]
      <4>1. o # p /\ creator'[o] = creator[o] /\ Exists(o)
        BY <3>1, <3>3, PutStep DEF Exists
      <4>2. o = Deployment(o.module) /\ o.module \in Modules
        BY <3>3, <4>1, Maker
      <4>3. p.kind = "deployment" => p = Deployment(p.module)
        BY <3>1, Maker
      <4> QED
        BY <3>1, <4>1, <4>2, <4>3, PutStep
    <3> QED
      BY <2>1, <3>2, <3>3, MadeFrame
  <2> QED
    BY <1>2, <2>2, <2>3, KubeStep
<1> QED
  BY <1>1, <1>2

LEMMA BasicInit == Init => BasicInv
<1> SUFFICES ASSUME Init PROVE BasicInv
  OBVIOUS
<1>1. TypeOK
  BY TypeInit
<1>2. ASSUME NEW c \in Calls PROVE Control(c) /\ Work(c)
  <2>1. pc[c] = "new" /\ req[c] = NoRequest /\ left[c] = <<>>
    BY DEF Init
  <2>2. ~ cancelled[c] /\ ~ failed[c] /\ ~ reply[c].err
    BY Zenon DEF Init, NoReply
  <2>3. Control(c)
    BY <2>1, <2>2, Zenon DEF Control, Deleting
  <2>4. Work(c)
    BY <2>1 DEF Work, Deleting
  <2> QED
    BY <2>3, <2>4
<1>3. ASSUME NEW o \in Object PROVE MadeByRun(o)
  BY DEF Init, MadeByRun
<1> QED
  BY <1>1, <1>2, <1>3 DEF BasicInv

\* A step of a call, with what is known of the state before.
LEMMA StepSame ==
  ASSUME Types, Truths, NEW c \in Calls, Control(c), Work(c), Step(c)
  PROVE  /\ \A d \in Calls \ {c} : Same(d)
         /\ req' = req /\ cancelled' = cancelled /\ pc[c] \notin {"new", "done"}
         /\ pc'[c] # "new"
<1>1. CASE CreateObject(c)
  BY <1>1, CreatedStep, Zenon
<1>2. CASE GetDeployment(c)
  BY <1>2, GetStep, Zenon
<1>3. CASE DeletesNow(c)
  BY <1>3, DeletesStep, Zenon DEF Deleting
<1>4. CASE DisposeReturns(c)
  BY <1>4, DisposeStep, Zenon
<1>5. CASE Asks(c)
  BY <1>5, AskStep, Zenon
<1> QED
  BY <1>1, <1>2, <1>3, <1>4, <1>5, StepKinds

LEMMA BasicStep == BasicInv /\ [Next]_vars => BasicInv'
<1> SUFFICES ASSUME BasicInv, [Next]_vars PROVE BasicInv'
  OBVIOUS
<1>1. /\ Types /\ Truths /\ \A o \in Object : MadeByRun(o)
      /\ \A c \in Calls : Control(c) /\ Work(c)
  BY TypeSplit, Zenon DEF BasicInv
<1>2. Truths'
  BY <1>1, TruthsStep
<1>3. SUFFICES /\ Types' /\ \A o \in Object : MadeByRun(o)'
               /\ \A c \in Calls : Control(c)' /\ Work(c)'
  BY <1>2, Zenon DEF BasicInv, TypeOK, Types, Truths
<1>4. ASSUME NEW c \in Calls, Step(c)
      PROVE  /\ Types' /\ \A o \in Object : MadeByRun(o)'
             /\ \A d \in Calls : Control(d)' /\ Work(d)'
  <2>1. Types' /\ (\A o \in Object : MadeByRun(o)') /\ Control(c)' /\ Work(c)'
    BY <1>1, <1>4, StepTypes, StepMade, StepControl, StepWork
  <2>2. \A d \in Calls \ {c} : Control(d)' /\ Work(d)'
    BY <1>1, <1>4, StepSame, CallOKSame
  <2> QED
    BY <2>1, <2>2
<1>5. ASSUME NEW c \in Calls, StartCall(c)
      PROVE  /\ Types' /\ \A o \in Object : MadeByRun(o)'
             /\ \A d \in Calls : Control(d)' /\ Work(d)'
  <2>1. Types' /\ (\A o \in Object : MadeByRun(o)') /\ Control(c)' /\ Work(c)'
    BY <1>1, <1>5, StartTypes, OthersMade, StartCallOK
  <2>2. \A d \in Calls \ {c} : Control(d)' /\ Work(d)'
    BY <1>1, <1>5, StartStep, CallOKSame
  <2> QED
    BY <2>1, <2>2
<1>6. ASSUME NEW c \in Calls, Timeout(c)
      PROVE  /\ Types' /\ \A o \in Object : MadeByRun(o)'
             /\ \A d \in Calls : Control(d)' /\ Work(d)'
  <2>1. /\ timeouts' \in Nat /\ pc[c] # "new"
        /\ UNCHANGED <<kubeVars, pc, req, left, failed, reply, faults>>
    BY <1>1, <1>6, TimeoutStep
  <2>2. Types'
    BY <1>1, <2>1, Zenon DEF Types, kubeVars
  <2>3. Control(c)' /\ Work(c)'
    BY <1>1, <2>1, Zenon DEF Control, Work
  <2>4. \A d \in Calls \ {c} : Control(d)' /\ Work(d)'
    BY <1>1, <1>6, TimeoutStep, CallOKSame
  <2> QED
    BY <1>1, <1>6, <2>2, <2>3, <2>4, OthersMade
<1>7. CASE Kube
  <2>1. UNCHANGED callVars
    BY <1>1, <1>7, KubeStep
  <2>2. \A d \in Calls : Control(d)' /\ Work(d)'
    BY <1>1, <2>1, CallOKSame, Zenon DEF Same, callVars
  <2> QED
    BY <1>1, <1>7, <2>2, KubeTypes, OthersMade
<1>8. CASE UNCHANGED vars
  <2>1. Types'
    BY <1>1, <1>8, Zenon DEF Types, vars, kubeVars, callVars
  <2>2. \A d \in Calls : Control(d)' /\ Work(d)'
    BY <1>1, <1>8, CallOKSame, Zenon DEF Same, vars, callVars
  <2>3. \A o \in Object : MadeByRun(o)'
    BY <1>1, <1>8, Zenon DEF MadeByRun, vars, kubeVars, callVars
  <2> QED
    BY <2>1, <2>2, <2>3
<1> QED
  BY <1>4, <1>5, <1>6, <1>7, <1>8 DEF Next

\* The type invariant of the proxy and of the objects of the workspace.
THEOREM TypeCorrect == Spec => []TypeOK
<1>1. BasicInv => TypeOK
  BY DEF BasicInv
<1> QED
  BY <1>1, BasicInit, BasicStep, PTL DEF Spec

-----------------------------------------------------------------------------
(* What happens to an object, and to what a call asks for *)

LEMMA BasicParts ==
  ASSUME BasicInv
  PROVE  /\ Types /\ Truths /\ \A o \in Object : MadeByRun(o)
         /\ \A c \in Calls : Control(c) /\ Work(c)
BY TypeSplit, Zenon DEF BasicInv

\* The dispose d deletes the object o in this step.
Removes(d, o) ==
  /\ Step(d) /\ DeletesNow(d) /\ pc[d] \in Deleting /\ pc'[d] \in Deleting
  /\ ~ cancelled[d] /\ o.module = req[d].module
  /\ \/ pc[d] = "deleteDeployment" /\ o = Deployment(req[d].module) /\ left' = left
     \/ pc[d] = "deleteService" /\ o = Service(req[d].module) /\ left' = left
     \/ pc[d] = "deleteVolumes" /\ left[d] # <<>> /\ o = Head(left[d])
        /\ left' = [left EXCEPT ![d] = Tail(@)]

LEMMA RemovesForm ==
  ASSUME BasicInv, NEW d \in Calls, Step(d), DeletesNow(d)
  PROVE  /\ pc[d] \in Deleting /\ pc'[d] \in {"deleteService", "deleteVolumes"}
         /\ \/ UNCHANGED kubeVars /\ failed'[d] = TRUE
            \/ \E o \in Object : Exists(o) /\ Put(o, Nobody) /\ Removes(d, o)
<1>0. Types /\ Truths /\ Control(d) /\ Work(d)
  BY BasicParts
<1>1. PICK o \in Object, to \in Deleting :
    /\ pc[d] \in Deleting /\ pc'[d] = to
    /\ \/ o = Deployment(req[d].module) /\ pc[d] = "deleteDeployment"
          /\ to = "deleteService" /\ left' = left
       \/ o = Service(req[d].module) /\ pc[d] = "deleteService"
          /\ to = "deleteVolumes" /\ left' = left
       \/ o = Head(left[d]) /\ left[d] # <<>> /\ pc[d] = "deleteVolumes"
          /\ to = "deleteVolumes" /\ left' = [left EXCEPT ![d] = Tail(@)]
    /\ \/ /\ ~ cancelled[d] /\ Exists(o) /\ Put(o, Nobody)
       \/ UNCHANGED kubeVars /\ failed'[d] = TRUE
  BY <1>0, DeletesStep, Zenon
<1>2. o.module = req[d].module
  <2>1. CASE o = Deployment(req[d].module) \/ o = Service(req[d].module)
    BY <2>1 DEF Deployment, Service, Named
  <2>2. CASE o = Head(left[d]) /\ left[d] # <<>>
    <3>1. left[d] \in Seq(Object) /\ pc[d] \in Deleting
      BY <1>0, <1>1 DEF Types
    <3>2. o \in Members(left[d])
      BY <2>2, <3>1, TailForm
    <3> QED
      BY <1>0, <3>1, <3>2 DEF Work
  <2> QED
    BY <1>1, <2>1, <2>2
<1>3. pc'[d] \in {"deleteService", "deleteVolumes"}
  BY <1>1
<1> QED
  BY <1>1, <1>2, <1>3, Zenon DEF Removes

\* The run d makes the object o in this step.
MakesNow(d, o) ==
  /\ Step(d) /\ CreateObject(d) /\ pc[d] = "create" /\ namespace = "active"
  /\ CreateReaches(d, o)
  /\ left[d] # <<>> /\ o = Head(left[d]) /\ o \in Members(left[d])
  /\ o \in Members(ObjectsFor(req[d].module, req[d].build))
  /\ o.module = req[d].module

LEMMA MakesForm ==
  ASSUME BasicInv, NEW d \in Calls, Step(d), CreateObject(d)
  PROVE  \/ UNCHANGED kubeVars /\ RunFails(d, Head(left[d]))
         \/ \E o \in Object : ~ Exists(o) /\ Put(o, d) /\ MakesNow(d, o)
<1>0. Types /\ Truths /\ Control(d) /\ Work(d) /\ pc[d] = "create"
  BY BasicParts, CreateForm
<1>1. /\ req[d].module \in Modules /\ req[d].build \in Builds
      /\ left[d] \in Seq(Object) /\ left[d] # <<>>
      /\ Members(left[d]) \subseteq Members(ObjectsFor(req[d].module, req[d].build))
  BY <1>0, RunType DEF Work
<1>2. Head(left[d]) \in Object /\ Head(left[d]) \in Members(left[d])
  BY <1>1, TailForm
<1>3. Head(left[d]).module = req[d].module
  <2>1. \A v \in Members(VolumesFor(req[d].module, req[d].build)) : v.module = req[d].module
    BY <1>1, VolumesForm
  <2>2. Service(req[d].module).module = req[d].module
        /\ Deployment(req[d].module).module = req[d].module
    BY DEF Service, Deployment, Named
  <2> QED
    BY <1>1, <1>2, <2>1, <2>2, ObjectsForm
<1> QED
  BY <1>0, <1>1, <1>2, <1>3, CreateForm, Zenon DEF MakesNow

\* An object appears only by a run, and disappears only by a dispose or with the
\* workspace.
LEMMA ObjectStep ==
  ASSUME BasicInv, [Next]_vars, NEW o \in Object, creator'[o] # creator[o]
  PROVE  /\ namespace' = namespace
         /\ \/ ~ Exists(o) /\ \E d \in Calls : creator'[o] = d /\ Put(o, d) /\ MakesNow(d, o)
            \/ /\ Exists(o) /\ creator'[o] = Nobody
               /\ \/ namespace = "terminating" /\ Kube /\ Put(o, Nobody)
                  \/ \E d \in Calls : Put(o, Nobody) /\ Removes(d, o)
<1>0. /\ Types /\ Truths /\ \A p \in Object : MadeByRun(p)
      /\ \A c \in Calls : Control(c) /\ Work(c)
  BY BasicParts
<1>1. ASSUME NEW p \in Object, NEW c, Put(p, c)
      PROVE  o = p /\ creator'[o] = c /\ namespace' = namespace
  BY <1>0, <1>1, PutStep
<1>2. CASE \E c \in Calls : StartCall(c) \/ Timeout(c)
  BY <1>0, <1>2, StartStep, TimeoutStep DEF kubeVars
<1>3. CASE Kube
  BY <1>0, <1>1, <1>3, KubeStep
<1>4. ASSUME NEW d \in Calls, Step(d)
      PROVE  /\ namespace' = namespace
             /\ \/ ~ Exists(o) /\ creator'[o] = d /\ Put(o, d) /\ MakesNow(d, o)
                \/ Exists(o) /\ creator'[o] = Nobody /\ Put(o, Nobody) /\ Removes(d, o)
  <2>1. CASE CreateObject(d)
    <3>1. PICK p \in Object : ~ Exists(p) /\ Put(p, d) /\ MakesNow(d, p)
      BY <1>4, <2>1, MakesForm DEF kubeVars
    <3>2. o = p /\ creator'[o] = d /\ namespace' = namespace
      BY <1>1, <3>1
    <3> QED
      BY <3>1, <3>2
  <2>2. CASE DeletesNow(d)
    <3>1. PICK p \in Object : Exists(p) /\ Put(p, Nobody) /\ Removes(d, p)
      BY <1>4, <2>2, RemovesForm DEF kubeVars
    <3>2. o = p /\ creator'[o] = Nobody /\ namespace' = namespace
      BY <1>1, <3>1
    <3> QED
      BY <3>1, <3>2
  <2>3. CASE GetDeployment(d)
    BY <1>0, <2>3, GetStep DEF kubeVars
  <2>4. CASE DisposeReturns(d)
    BY <1>0, <2>4, DisposeStep DEF kubeVars
  <2>5. CASE Asks(d)
    BY <1>0, <2>5, AskStep
  <2> QED
    BY <1>0, <1>4, <2>1, <2>2, <2>3, <2>4, <2>5, StepKinds
<1>5. CASE UNCHANGED vars
  BY <1>5 DEF vars, kubeVars
<1> QED
  BY <1>2, <1>3, <1>4, <1>5 DEF Next

\* Where the other calls are, and what they ask for.
LEMMA CallsStep ==
  ASSUME BasicInv, [Next]_vars, NEW d \in Calls
  PROVE  /\ pc[d] # "new" => req'[d] = req[d]
         /\ req'[d] # req[d] => StartCall(d)
         /\ pc[d] = "done" => pc'[d] = "done" /\ reply'[d] = reply[d]
         /\ cancelled[d] => cancelled'[d] = TRUE
         /\ pc[d] = "new" => req[d] = NoRequest
         /\ Same(d) \/ Step(d) \/ StartCall(d) \/ Timeout(d)
<1>0. /\ Types /\ Truths /\ Control(d) /\ Work(d)
      /\ \A c \in Calls : Control(c) /\ Work(c)
  BY BasicParts
<1>1. pc[d] = "new" => req[d] = NoRequest
  BY <1>0, Zenon DEF Control
<1>2. CASE Same(d)
  BY <1>1, <1>2, Zenon DEF Same
<1>3. CASE Step(d)
  BY <1>0, <1>1, <1>3, StepSame, Zenon
<1>4. CASE StartCall(d)
  BY <1>0, <1>1, <1>4, StartStep, Zenon
<1>5. CASE Timeout(d)
  BY <1>0, <1>1, <1>5, TimeoutStep, Zenon
<1>6. Same(d) \/ Step(d) \/ StartCall(d) \/ Timeout(d)
  <2>1. ASSUME NEW c \in Calls, c # d, Step(c) \/ StartCall(c) \/ Timeout(c)
        PROVE  Same(d)
    BY <1>0, <2>1, StepSame, StartStep, TimeoutStep
  <2>2. CASE Kube
    BY <1>0, <2>2, KubeStep, Zenon DEF callVars, Same
  <2>3. CASE UNCHANGED vars
    BY <2>3, Zenon DEF vars, callVars, Same
  <2> QED
    BY <2>1, <2>2, <2>3 DEF Next
<1> QED
  BY <1>2, <1>3, <1>4, <1>5, <1>6

-----------------------------------------------------------------------------
(* The manager's discipline is kept *)

LEMMA SettledStays ==
  ASSUME BasicInv, [Next]_vars, NEW d \in Calls, Settled(d)
  PROVE  Settled(d)'
<1>1. (pc[d] = "done" => pc'[d] = "done") /\ (cancelled[d] => cancelled'[d] = TRUE)
  BY CallsStep, Zenon
<1> QED
  BY <1>1, Zenon DEF Settled

LEMMA ExclusiveStep == BasicInv /\ Exclusive /\ [Next]_vars => Exclusive'
<1> SUFFICES ASSUME BasicInv, Exclusive, [Next]_vars,
                    NEW c \in Calls, NEW d \in Calls, NEW m \in Modules, c # d,
                    OnModule(c, m)', OnModule(d, m)'
             PROVE  Settled(c)' \/ Settled(d)'
  BY Zenon DEF Exclusive
<1>0. Types /\ Truths
  BY BasicParts
<1>1. CASE req'[c] = req[c] /\ req'[d] = req[d]
  <2>1. OnModule(c, m) /\ OnModule(d, m)
    BY <1>1, Zenon DEF OnModule
  <2> QED
    BY <2>1, SettledStays, Zenon DEF Exclusive
<1>2. ASSUME NEW a \in Calls, NEW b \in Calls, a # b, StartCall(a),
             OnModule(a, m)', OnModule(b, m)'
      PROVE  Settled(b)'
  <2>1. MayAsk(req'[a]) /\ Same(b)
    BY <1>0, <1>2, StartStep
  <2>2. req'[a].op \in ModuleOps /\ req'[a].module = m /\ OnModule(b, m)
    BY <1>2, <2>1, Zenon DEF OnModule, Same
  <2>3. Settled(b)
    BY <2>1, <2>2, Zenon DEF MayAsk, OnModule
  <2> QED
    BY <2>3, SettledStays
<1>3. CASE req'[c] # req[c]
  BY <1>2, <1>3, CallsStep
<1>4. CASE req'[d] # req[d]
  BY <1>2, <1>4, CallsStep
<1> QED
  BY <1>1, <1>3, <1>4

LEMMA OnePrepareStep == BasicInv /\ OnePrepare /\ [Next]_vars => OnePrepare'
<1> SUFFICES ASSUME BasicInv, OnePrepare, [Next]_vars,
                    NEW c \in Calls, NEW d \in Calls, c # d,
                    req'[c].op = "PrepareWorkspace", req'[d].op = "PrepareWorkspace"
             PROVE  FALSE
  BY Zenon DEF OnePrepare
<1>0. Types /\ Truths
  BY BasicParts
<1>1. CASE req'[c] = req[c] /\ req'[d] = req[d]
  BY <1>1, Zenon DEF OnePrepare
<1>2. ASSUME NEW a \in Calls, NEW b \in Calls, a # b, StartCall(a),
             req'[a].op = "PrepareWorkspace", req'[b].op = "PrepareWorkspace"
      PROVE  FALSE
  <2>1. MayAsk(req'[a]) /\ req'[b] = req[b]
    BY <1>0, <1>2, StartStep, Zenon DEF Same
  <2>2. req'[a].op \notin ModuleOps
    BY <1>2 DEF ModuleOps
  <2>3. req[b].op \notin {"PrepareWorkspace", "PurgeWorkspace"}
    BY <1>2, <2>1, <2>2, Zenon DEF MayAsk
  <2> QED
    BY <1>2, <2>1, <2>3
<1>3. CASE req'[c] # req[c]
  BY <1>2, <1>3, CallsStep
<1>4. CASE req'[d] # req[d]
  BY <1>2, <1>4, CallsStep
<1> QED
  BY <1>1, <1>3, <1>4

-----------------------------------------------------------------------------
(* Until the workspace has been prepared there is nothing in it *)

LEMMA UnpreparedBefore ==
  ASSUME BasicInv, [Next]_vars, Unprepared'
  PROVE  /\ Unprepared
         /\ \A c \in Calls : Step(c) => req[c].op # "PrepareWorkspace"
<1>0. /\ Types /\ Truths /\ \A c \in Calls : Control(c) /\ Work(c)
  BY BasicParts
<1>1. ASSUME NEW c \in Calls, Step(c), req[c].op = "PrepareWorkspace" PROVE FALSE
  <2>1. pc'[c] = "ask"
    <3>1. req' = req
      BY <1>0, <1>1, StepSame
    <3> QED
      BY <1>1, <3>1, Zenon DEF Unprepared
  <2>2. CASE CreateObject(c)
    BY <1>0, <2>1, <2>2, CreatedStep
  <2>3. CASE GetDeployment(c)
    BY <1>0, <2>1, <2>3, GetStep
  <2>4. CASE DeletesNow(c)
    BY <1>0, <1>1, <2>1, <2>4, RemovesForm
  <2>5. CASE DisposeReturns(c) \/ Asks(c)
    BY <1>0, <2>1, <2>5, DisposeStep, AskStep
  <2> QED
    BY <1>0, <1>1, <2>2, <2>3, <2>4, <2>5, StepKinds
<1>2. ASSUME NEW c \in Calls, req[c].op = "PrepareWorkspace" PROVE pc[c] = "ask"
  <2>1. pc[c] # "new"
    BY <1>2, CallsStep, RequestForm
  <2>2. req'[c] = req[c] /\ pc'[c] = "ask"
    <3>1. req'[c] = req[c]
      BY <2>1, CallsStep
    <3> QED
      BY <1>2, <3>1, Zenon DEF Unprepared
  <2>3. CASE Same(c)
    BY <2>2, <2>3, Zenon DEF Same
  <2>4. CASE StartCall(c)
    BY <1>0, <2>1, <2>4, StartStep
  <2>5. CASE Timeout(c)
    BY <1>0, <2>2, <2>5, TimeoutStep
  <2> QED
    BY <1>1, <1>2, <2>3, <2>4, <2>5, CallsStep
<1> QED
  BY <1>1, <1>2 DEF Unprepared

LEMMA NothingStep == BasicInv /\ NothingBefore /\ [Next]_vars => NothingBefore'
<1> SUFFICES ASSUME BasicInv, NothingBefore, [Next]_vars, Unprepared'
             PROVE  /\ namespace' = "absent" /\ \A o \in Object : ~ Exists(o)'
                    /\ \A c \in Calls : left'[c] =
                         IF pc'[c] = "create"
                         THEN ObjectsFor(req'[c].module, req'[c].build) ELSE <<>>
  BY Zenon DEF NothingBefore
<1>0. /\ Types /\ Truths /\ \A c \in Calls : Control(c) /\ Work(c)
  BY BasicParts
<1>1. /\ namespace = "absent" /\ \A o \in Object : ~ Exists(o)
      /\ \A c \in Calls : left[c] =
           IF pc[c] = "create" THEN ObjectsFor(req[c].module, req[c].build) ELSE <<>>
  BY UnpreparedBefore, Zenon DEF NothingBefore
<1>2. \A o \in Object : ~ Exists(o)'
  <2> SUFFICES ASSUME NEW o \in Object, creator'[o] # creator[o] PROVE FALSE
    BY <1>1, Zenon DEF Exists
  <2> QED
    BY <1>1, ObjectStep DEF MakesNow
<1>3. namespace' = "absent"
  <2>1. CASE \E c \in Calls : StartCall(c) \/ Timeout(c)
    BY <1>0, <1>1, <2>1, StartStep, TimeoutStep DEF kubeVars
  <2>2. CASE Kube
    BY <1>0, <1>1, <2>2, KubeStep
  <2>3. CASE UNCHANGED vars
    BY <1>1, <2>3 DEF vars, kubeVars
  <2>4. ASSUME NEW d \in Calls, Step(d) PROVE namespace' = "absent"
    <3>1. CASE CreateObject(d)
      BY <1>1, <2>4, <3>1, MakesForm DEF kubeVars, MakesNow
    <3>2. CASE GetDeployment(d)
      BY <1>0, <1>1, <3>2, GetStep DEF kubeVars
    <3>3. CASE DeletesNow(d)
      BY <1>1, <2>4, <3>3, RemovesForm DEF kubeVars
    <3>4. CASE DisposeReturns(d)
      BY <1>0, <1>1, <3>4, DisposeStep DEF kubeVars
    <3>5. CASE Asks(d)
      BY <1>0, <1>1, <2>4, <3>5, AskStep, UnpreparedBefore
    <3> QED
      BY <1>0, <2>4, <3>1, <3>2, <3>3, <3>4, <3>5, StepKinds
  <2> QED
    BY <2>1, <2>2, <2>3, <2>4 DEF Next
<1>4. ASSUME NEW c \in Calls
      PROVE  left'[c] = IF pc'[c] = "create"
                        THEN ObjectsFor(req'[c].module, req'[c].build) ELSE <<>>
  <2>1. CASE Same(c)
    BY <1>1, <2>1, Zenon DEF Same
  <2>2. CASE StartCall(c)
    <3>1. /\ req'[c] \in Request /\ pc'[c] = FirstLabel(req'[c].op)
          /\ left'[c] = IF req'[c].op = "RunBalticModule"
                        THEN ObjectsFor(req'[c].module, req'[c].build) ELSE <<>>
      BY <1>0, <2>2, StartStep
    <3>2. pc'[c] = "create" <=> req'[c].op = "RunBalticModule"
      BY <3>1, FirstForm
    <3> QED
      BY <3>1, <3>2, Zenon
  <2>3. CASE Timeout(c)
    BY <1>0, <1>1, <2>3, TimeoutStep, Zenon
  <2>4. CASE Step(c)
    <3>1. CASE CreateObject(c)
      <4>1. UNCHANGED kubeVars /\ RunFails(c, Head(left[c]))
        BY <1>1, <2>4, <3>1, MakesForm DEF MakesNow
      <4>2. pc'[c] = "done" /\ left'[c] = <<>>
        BY <1>0, <4>1, ReturnStep, Zenon DEF RunFails
      <4> QED
        BY <4>2
    <3>2. CASE GetDeployment(c)
      <4>1. /\ pc[c] = "get" /\ pc'[c] = "deleteDeployment" /\ left'[c] = left[c]
        <5>1. req[c].module \in Modules
          BY <1>0, <3>2, GetStep, RunType
        <5>2. Deployment(req[c].module) \in Object
          BY <5>1, NamedType DEF Deployment, Kinds
        <5> QED
          BY <1>0, <1>1, <3>2, <5>2, GetStep
      <4> QED
        BY <1>1, <4>1
    <3>3. CASE DeletesNow(c)
      <4>1. pc[c] \in Deleting /\ pc'[c] \in Deleting
        BY <2>4, <3>3, RemovesForm DEF Deleting
      <4>2. left[c] = <<>>
        BY <1>1, <4>1 DEF Deleting
      <4>3. left' = left
        BY <1>0, <3>3, <4>2, DeletesStep, Zenon
      <4> QED
        BY <4>1, <4>2, <4>3 DEF Deleting
    <3>4. CASE DisposeReturns(c) \/ Asks(c)
      BY <1>0, <3>4, DisposeStep, AskStep
    <3> QED
      BY <1>0, <2>4, <3>1, <3>2, <3>3, <3>4, StepKinds
  <2> QED
    BY <2>1, <2>2, <2>3, <2>4, CallsStep
<1> QED
  BY <1>2, <1>3, <1>4

\* The workspace is made only by the one request that prepares it.
LEMMA BecomesActive ==
  ASSUME BasicInv, OnePrepare, NothingBefore, [Next]_vars,
         namespace' = "active", namespace # "active"
  PROVE  /\ \A o \in Object : ~ Exists(o)
         /\ \A c \in Calls : left[c] =
              IF pc[c] = "create" THEN ObjectsFor(req[c].module, req[c].build) ELSE <<>>
         /\ UNCHANGED <<creator, volumesOf>>
         /\ \A c \in Calls : \/ Same(c)
                             \/ pc[c] = "ask" /\ Step(c) /\ pc'[c] = "done" /\ left'[c] = <<>>
<1>0. /\ Types /\ Truths /\ \A c \in Calls : Control(c) /\ Work(c)
  BY BasicParts
<1>1. CASE \E c \in Calls : StartCall(c) \/ Timeout(c)
  BY <1>0, <1>1, StartStep, TimeoutStep DEF kubeVars
<1>2. CASE Kube
  <2>1. \A o \in Object : Put(o, Nobody) => namespace' = namespace
    BY <1>0, PutStep
  <2> QED
    BY <1>0, <1>2, <2>1, KubeStep
<1>3. CASE UNCHANGED vars
  BY <1>3 DEF vars, kubeVars
<1>4. ASSUME NEW d \in Calls, Step(d)
      PROVE  /\ Asks(d) /\ req[d].op = "PrepareWorkspace"
  <2>1. ASSUME NEW o \in Object, NEW c, Put(o, c) PROVE namespace' = namespace
    BY <1>0, <2>1, PutStep
  <2>2. CASE CreateObject(d)
    BY <1>4, <2>1, <2>2, MakesForm DEF kubeVars
  <2>3. CASE GetDeployment(d)
    BY <1>0, <2>3, GetStep DEF kubeVars
  <2>4. CASE DeletesNow(d)
    BY <1>4, <2>1, <2>4, RemovesForm DEF kubeVars
  <2>5. CASE DisposeReturns(d)
    BY <1>0, <2>5, DisposeStep DEF kubeVars
  <2>6. CASE Asks(d)
    BY <1>0, <2>6, AskStep
  <2> QED
    BY <1>0, <1>4, <2>2, <2>3, <2>4, <2>5, <2>6, StepKinds
<1>5. CASE \E d \in Calls : Step(d)
  <2>1. PICK d \in Calls : Step(d)
    BY <1>5
  <2>2. Asks(d) /\ req[d].op = "PrepareWorkspace" /\ pc[d] = "ask"
    BY <1>0, <1>4, <2>1, AskStep
  <2>3. Unprepared
    BY <2>2, Zenon DEF Unprepared, OnePrepare
  <2>4. /\ UNCHANGED <<creator, volumesOf>> /\ pc'[d] = "done" /\ left'[d] = <<>>
        /\ \A c \in Calls \ {d} : Same(c)
    BY <1>0, <2>2, AskStep
  <2> QED
    BY <2>1, <2>2, <2>3, <2>4, Zenon DEF NothingBefore
<1> QED
  BY <1>1, <1>2, <1>3, <1>5 DEF Next

-----------------------------------------------------------------------------
(* A run that the manager waits for *)

LEMMA Creating ==
  ASSUME BasicInv, [Next]_vars, NEW c \in Calls, pc'[c] = "create"
  PROVE  \/ /\ StartCall(c) /\ req'[c] \in Request /\ req'[c].op = "RunBalticModule"
            /\ left'[c] = ObjectsFor(req'[c].module, req'[c].build)
         \/ pc[c] = "create" /\ req'[c] = req[c]
<1>0. Types /\ Truths /\ Control(c) /\ Work(c)
  BY BasicParts
<1>1. CASE StartCall(c)
  BY <1>0, <1>1, StartStep, FirstForm
<1>2. CASE Same(c) \/ Timeout(c)
  BY <1>0, <1>2, TimeoutStep, CallsStep DEF Same
<1>3. CASE Step(c)
  <2>1. pc[c] # "new" /\ req'[c] = req[c]
    BY <1>0, <1>3, StepSame
  <2>2. CASE CreateObject(c)
    BY <1>0, <2>1, <2>2, CreatedStep
  <2>3. CASE GetDeployment(c) \/ DisposeReturns(c) \/ Asks(c)
    BY <1>0, <2>3, GetStep, DisposeStep, AskStep
  <2>4. CASE DeletesNow(c)
    BY <1>3, <2>4, RemovesForm
  <2> QED
    BY <1>0, <1>3, <2>2, <2>3, <2>4, StepKinds
<1> QED
  BY <1>1, <1>2, <1>3, CallsStep

\* A run that goes on makes the object that it passes by.
LEMMA MakesStep ==
  ASSUME BasicInv, [Next]_vars, NEW c \in Calls, pc[c] = "create", pc'[c] = "create",
         NEW o \in Object, o \in Members(left[c])
  PROVE  o \in Members(left'[c]) \/ creator'[o] = c
<1>0. /\ Types /\ Truths /\ Control(c) /\ Work(c) /\ left[c] # <<>>
      /\ left[c] \in Seq(Object)
  BY BasicParts, RunType DEF Work
<1>1. CASE Same(c) \/ StartCall(c) \/ Timeout(c)
  BY <1>0, <1>1, StartStep, TimeoutStep, Zenon DEF Same
<1>2. CASE Step(c)
  <2>1. CreateObject(c)
    <3>1. ~ (GetDeployment(c) \/ DisposeReturns(c) \/ Asks(c))
      BY <1>0, GetStep, DisposeStep, AskStep
    <3>2. ~ DeletesNow(c)
      BY <1>2, RemovesForm
    <3> QED
      BY <1>0, <1>2, <3>1, <3>2, StepKinds
  <2>2. left'[c] = Tail(left[c])
    BY <1>0, <2>1, CreatedStep
  <2>3. creator'[Head(left[c])] = c
    <3>1. ~ RunFails(c, Head(left[c]))
      <4> SUFFICES ASSUME RunFails(c, Head(left[c])) PROVE FALSE
        OBVIOUS
      <4> QED
        BY <1>0, ReturnStep DEF RunFails
    <3>2. PICK p \in Object : ~ Exists(p) /\ Put(p, c) /\ MakesNow(c, p)
      BY <1>2, <2>1, <3>1, MakesForm
    <3> QED
      BY <1>0, <3>2, PutStep DEF MakesNow
  <2> QED
    BY <1>0, <2>2, <2>3, TailForm
<1> QED
  BY <1>1, <1>2, CallsStep

\* What the manager waits for is not removed.
LEMMA NotRemoved ==
  ASSUME BasicInv, Exclusive, [Next]_vars, NEW c \in Calls, ~ Settled(c),
         NEW o \in Object, creator[o] = c, namespace' = "active"
  PROVE  creator'[o] = c
<1> SUFFICES ASSUME creator'[o] # creator[o] PROVE FALSE
  OBVIOUS
<1>0. Types /\ Truths /\ MadeByRun(o)
  BY BasicParts
<1>1. Exists(o)
  BY ProxyAssumption DEF Exists
<1>2. namespace # "terminating"
  BY ObjectStep
<1>3. PICK d \in Calls : Removes(d, o)
  BY <1>1, <1>2, ObjectStep
<1>4. OnModule(c, o.module) /\ o.module \in Modules
  BY <1>0, <1>1, Maker DEF OnModule, ModuleOps
<1>5. Control(d) /\ pc[d] \in Deleting /\ ~ cancelled[d] /\ o.module = req[d].module
  BY <1>3, BasicParts DEF Removes
<1>6. OnModule(d, o.module) /\ ~ Settled(d) /\ req[d].op = "DisposeBalticModule"
  BY <1>5 DEF Control, OnModule, ModuleOps, Settled, Deleting
<1>7. c # d
  BY <1>0, <1>1, <1>6, Maker
<1> QED
  BY <1>4, <1>6, <1>7 DEF Exclusive

LEMMA RunWholeStep ==
  BasicInv /\ Exclusive /\ OnePrepare /\ NothingBefore /\ RunWhole /\ [Next]_vars
    => RunWhole'
<1> SUFFICES ASSUME BasicInv, Exclusive, OnePrepare, NothingBefore, RunWhole, [Next]_vars,
                    NEW c \in Calls, pc'[c] = "create", ~ cancelled'[c],
                    namespace' = "active",
                    NEW o \in Members(ObjectsFor(req'[c].module, req'[c].build))
             PROVE  o \in Members(left'[c]) \/ creator'[o] = c
  BY Zenon DEF RunWhole, Makes
<1>0. Types /\ Truths /\ Control(c) /\ Work(c)
  BY BasicParts
<1>1. CASE StartCall(c)
  <2>1. pc[c] = "new"
    BY <1>0, <1>1, StartStep
  <2>2. left'[c] = ObjectsFor(req'[c].module, req'[c].build)
    BY <2>1, Creating
  <2> QED
    BY <2>2
<1>2. CASE ~ StartCall(c)
  <2>1. pc[c] = "create" /\ req'[c] = req[c] /\ ~ cancelled[c]
    BY <1>2, Creating, CallsStep
  <2>2. o \in Object
    BY <1>0, <2>1, RunType, ObjectsForm DEF Members
  <2>3. o \in Members(left[c]) \/ creator[o] = c
    <3>1. CASE namespace = "active"
      BY <2>1, <3>1, Zenon DEF RunWhole, Makes
    <3>2. CASE namespace # "active"
      BY <2>1, <3>2, BecomesActive
    <3> QED
      BY <3>1, <3>2
  <2> QED
    BY <2>1, <2>2, <2>3, MakesStep, NotRemoved DEF Settled
<1> QED
  BY <1>1, <1>2

\* The last object of a successful run is the deployment.
LEMMA SuccessStep ==
  ASSUME BasicInv, RunWhole, [Next]_vars, NEW c \in Calls, ~ cancelled[c],
         pc[c] = "create", pc'[c] = "done", ~ reply'[c].err
  PROVE  /\ Step(c) /\ creator'[Deployment(req[c].module)] = c
         /\ \A o \in Object \ {Deployment(req[c].module)} : creator'[o] = creator[o]
         /\ \A o \in Members(ObjectsFor(req[c].module, req[c].build)) : creator'[o] = c
<1> DEFINE dep == Deployment(req[c].module)
<1>0. /\ Types /\ Truths /\ Control(c) /\ Work(c) /\ left[c] # <<>>
      /\ left[c] \in Seq(Object) /\ req[c].module \in Modules /\ req[c].build \in Builds
  BY BasicParts, RunType DEF Work
<1>1. Step(c) /\ CreateObject(c)
  <2>1. ~ (Same(c) \/ StartCall(c) \/ Timeout(c))
    BY <1>0, StartStep, TimeoutStep DEF Same
  <2>2. Step(c)
    BY <2>1, CallsStep
  <2>3. ~ (GetDeployment(c) \/ DisposeReturns(c) \/ Asks(c))
    BY <1>0, GetStep, DisposeStep, AskStep
  <2>4. ~ DeletesNow(c)
    BY <2>2, RemovesForm
  <2> QED
    BY <1>0, <2>2, <2>3, <2>4, StepKinds
<1>2. ~ RunFails(c, Head(left[c]))
  <2> SUFFICES ASSUME RunFails(c, Head(left[c])) PROVE FALSE
    OBVIOUS
  <2> QED
    BY <1>0, ReturnStep DEF RunFails
<1>3. PICK p \in Object : ~ Exists(p) /\ Put(p, c) /\ MakesNow(c, p)
  BY <1>1, <1>2, MakesForm
<1>4. p = Head(left[c]) /\ namespace = "active"
  BY <1>3 DEF MakesNow
<1>5. Created(c)
  BY <1>1, <1>2, <1>3, CreateForm DEF kubeVars, Exists
<1>6. Tail(left[c]) = <<>>
  <2> SUFFICES ASSUME Tail(left[c]) # <<>> PROVE FALSE
    OBVIOUS
  <2>1. pc' = pc
    BY <1>5, Zenon DEF Created
  <2> QED
    BY <2>1
<1>7. Members(left[c]) = {p}
  <2>1. Members(<<>>) = {}
    BY DEF Members
  <2> QED
    BY <1>0, <1>4, <1>6, <2>1, TailForm
<1>8. \A o \in Members(ObjectsFor(req[c].module, req[c].build)) : o = p \/ creator[o] = c
  BY <1>4, <1>7, Zenon DEF RunWhole, Makes
<1>9. dep \in Members(ObjectsFor(req[c].module, req[c].build)) /\ dep \in Object
      /\ dep.kind = "deployment"
  BY <1>0, ObjectsForm, NamedType DEF Deployment, Kinds, Named
<1>10. dep = p
  <2> SUFFICES ASSUME creator[dep] = c PROVE FALSE
    BY <1>8, <1>9
  <2>1. MadeByRun(dep) /\ Exists(dep)
    BY <1>9, BasicParts, ProxyAssumption DEF Exists
  <2> QED
    BY <1>0, <1>9, <2>1, Maker
<1>11. creator'[p] = c /\ \A o \in Object \ {p} : creator'[o] = creator[o]
  BY <1>0, <1>3, PutStep
<1>12. Members(ObjectsFor(req[c].module, req[c].build)) \subseteq Object
  BY <1>0, ObjectsForm DEF Members
<1> QED
  BY <1>1, <1>8, <1>10, <1>11, <1>12

-----------------------------------------------------------------------------
(* A module of which no dispose has failed *)

LEMMA NoneFailedBefore ==
  ASSUME BasicInv, [Next]_vars, NEW m \in Modules, NoDisposeFailed(m)'
  PROVE  NoDisposeFailed(m)
<1> SUFFICES ASSUME NEW c \in Calls, req[c].op = "DisposeBalticModule", Failed(c),
                    req[c].module = m
             PROVE  FALSE
  BY Zenon DEF NoDisposeFailed
<1>0. Control(c)
  BY BasicParts
<1>1. pc[c] # "new"
  BY <1>0 DEF Control, NoRequest
<1>2. req'[c] = req[c]
  BY <1>1, CallsStep
<1>3. Failed(c)'
  <2>1. CASE cancelled[c]
    <3>1. cancelled'[c] = TRUE
      BY <2>1, CallsStep
    <3> QED
      BY <3>1, Zenon DEF Failed
  <2>2. CASE reply[c].err
    <3>1. pc[c] = "done"
      BY <1>0, <2>2, Zenon DEF Control
    <3>2. reply'[c] = reply[c]
      BY <3>1, CallsStep
    <3> QED
      BY <2>2, <3>2, Zenon DEF Failed
  <2> QED
    BY <2>1, <2>2, Zenon DEF Failed
<1> QED
  BY <1>2, <1>3, Zenon DEF NoDisposeFailed

\* Such a dispose, while it goes on, is not disturbed by another call.
LEMMA Alone ==
  ASSUME BasicInv, Exclusive, NEW m \in Modules, NoDisposeFailed(m),
         NEW d \in Calls, pc[d] \in {"get"} \cup Deleting, req[d].module = m,
         NEW e \in Calls, OnModule(e, m), e # d
  PROVE  /\ OnModule(d, m) /\ ~ Settled(d) /\ Settled(e)
         /\ req[e].op = "DisposeBalticModule" => pc[e] = "done"
<1>1. Control(d)
  BY BasicParts
<1>2. req[d].op = "DisposeBalticModule" /\ pc[d] # "done"
  BY <1>1 DEF Control, Deleting
<1>3. OnModule(d, m)
  BY <1>2 DEF OnModule, ModuleOps
<1>4. ~ Settled(d)
  BY <1>2, Zenon DEF NoDisposeFailed, Failed, Settled
<1>5. Settled(e)
  BY <1>3, <1>4, Zenon DEF Exclusive
<1> QED
  BY <1>3, <1>4, <1>5, Zenon DEF NoDisposeFailed, Failed, Settled, OnModule

\* Who removes an object from an active workspace.
LEMMA RemovedBy ==
  ASSUME BasicInv, [Next]_vars, namespace' = "active", NEW o \in Object,
         Exists(o), creator'[o] # creator[o]
  PROVE  /\ creator'[o] = Nobody
         /\ \E d \in Calls :
              /\ Put(o, Nobody) /\ Removes(d, o) /\ Deletes(d, o.module)
              /\ OnModule(d, o.module) /\ req[d].op = "DisposeBalticModule"
              /\ pc'[d] \in Deleting /\ req'[d] = req[d]
<1>1. namespace # "terminating" /\ creator'[o] = Nobody
  BY ObjectStep
<1>2. PICK d \in Calls : Put(o, Nobody) /\ Removes(d, o)
  BY <1>1, ObjectStep
<1>3. Control(d) /\ pc[d] \in Deleting /\ pc'[d] \in Deleting /\ o.module = req[d].module
  BY <1>2, BasicParts DEF Removes
<1>4. req[d].op = "DisposeBalticModule" /\ pc[d] # "new"
  BY <1>3 DEF Control, Deleting
<1> QED
  BY <1>1, <1>2, <1>3, <1>4, CallsStep DEF Deletes, OnModule, ModuleOps

\* How a dispose comes to delete.
LEMMA DeletingStep ==
  ASSUME BasicInv, [Next]_vars, NEW d \in Calls, pc'[d] \in Deleting
  PROVE  /\ req'[d] = req[d] /\ req[d].module \in Modules
         /\ \/ GetDeployment(d) /\ Step(d)
            \/ pc[d] \in Deleting /\ (failed[d] => failed'[d] = TRUE)
               /\ \/ Same(d) \/ Timeout(d)
                  \/ Step(d) /\ DeletesNow(d)
<1>0. Types /\ Truths /\ Control(d) /\ Work(d)
  BY BasicParts
<1>1. ~ StartCall(d)
  BY <1>0, StartStep, FirstForm DEF Deleting
<1>2. CASE Same(d) \/ Timeout(d)
  <2>1. pc[d] \in Deleting /\ req'[d] = req[d] /\ failed'[d] = failed[d]
    BY <1>0, <1>2, TimeoutStep DEF Same
  <2>2. req[d].module \in Modules
    BY <1>0, <2>1, RunType
  <2>3. failed[d] => failed'[d] = TRUE
    BY <1>0, <2>1, Zenon DEF Truths
  <2> QED
    BY <1>2, <2>1, <2>2, <2>3
<1>3. CASE Step(d)
  <2>0. req'[d] = req[d]
    BY <1>0, <1>3, StepSame
  <2>1. CASE GetDeployment(d)
    BY <1>0, <1>3, <2>0, <2>1, GetStep, RunType
  <2>2. CASE DeletesNow(d)
    BY <1>0, <1>3, <2>0, <2>2, DeletesStep, RunType
  <2>3. ~ (CreateObject(d) \/ DisposeReturns(d) \/ Asks(d))
    BY <1>0, CreatedStep, DisposeStep, AskStep DEF Deleting
  <2> QED
    BY <1>0, <1>3, <2>1, <2>2, <2>3, StepKinds
<1> QED
  BY <1>1, <1>2, <1>3, CallsStep

\* A dispose that has met an error reports it.
LEMMA FailedStays ==
  ASSUME BasicInv, [Next]_vars, NEW m \in Modules, NoDisposeFailed(m)',
         NEW d \in Calls, Deletes(d, m), failed[d]
  PROVE  Deletes(d, m)' /\ failed'[d] = TRUE
<1>0. /\ Types /\ Truths /\ Control(d) /\ Work(d) /\ pc[d] \in Deleting
      /\ req[d].module = m /\ req[d].op = "DisposeBalticModule" /\ req'[d] = req[d]
  BY BasicParts, RunType, CallsStep DEF Deletes, Deleting
<1>1. CASE pc'[d] \in Deleting
  BY <1>0, <1>1, DeletingStep, GetStep DEF Deletes, Deleting
<1>2. CASE pc'[d] \notin Deleting
  <2>1. ~ (Same(d) \/ StartCall(d) \/ Timeout(d))
    BY <1>0, <1>2, StartStep, TimeoutStep DEF Same, Deleting
  <2>2. Step(d)
    BY <2>1, CallsStep
  <2>3. ~ (CreateObject(d) \/ GetDeployment(d) \/ Asks(d))
    BY <1>0, CreatedStep, GetStep, AskStep DEF Deleting
  <2>4. ~ DeletesNow(d)
    BY <1>2, <2>2, RemovesForm DEF Deleting
  <2>5. DisposeReturns(d)
    BY <1>0, <2>2, <2>3, <2>4, StepKinds
  <2>6. reply'[d].err = failed[d]
    BY <1>0, <2>5, DisposeStep
  <2>7. Failed(d)'
    BY <2>6, Zenon DEF Failed
  <2> QED
    BY <1>0, <2>7, Zenon DEF NoDisposeFailed
<1> QED
  BY <1>1, <1>2

-----------------------------------------------------------------------------
(* The volumes of a deployment are kept *)

\* What the proofs below say of the state before a step and of the step.
Context == /\ BasicInv /\ Exclusive /\ OnePrepare /\ NothingBefore /\ RunWhole
           /\ [Next]_vars
Quiet(m) == NoDisposeFailed(m)' /\ namespace' = "active" /\ VolumesKept(m)

LEMMA VolumesObjects ==
  ASSUME NEW m \in Modules, NEW b \in Builds, NEW o \in Members(VolumesFor(m, b))
  PROVE  /\ o \in Object /\ o.module = m /\ o.kind \in {"pvc", "configmap"}
         /\ o \in Members(ObjectsFor(m, b)) /\ o # Deployment(m) /\ o # Service(m)
BY VolumesForm, ObjectsForm DEF Members, Deployment, Service, Named

\* A run still has its volumes to make, or has them.
LEMMA KeptByRun ==
  ASSUME Context, NEW m \in Modules, Quiet(m), NEW c \in Calls,
         pc'[c] = "create", req'[c].module = m
  PROVE  Makes(c, Members(VolumesFor(m, req[c].build)))'
<1>0. Types /\ Truths /\ Control(c) /\ Work(c) /\ BasicInv /\ [Next]_vars
  BY BasicParts DEF Context
<1> SUFFICES ASSUME NEW o \in Members(VolumesFor(m, req'[c].build))
             PROVE  o \in Members(left'[c]) \/ creator'[o] = c
  BY Zenon DEF Makes
<1>1. CASE StartCall(c)
  <2>1. req'[c].build \in Builds /\ left'[c] = ObjectsFor(m, req'[c].build)
    BY <1>0, <1>1, StartStep, Creating, RequestForm DEF ModuleOps
  <2> QED
    BY <2>1, VolumesObjects
<1>2. CASE ~ StartCall(c)
  <2>1. pc[c] = "create" /\ req'[c] = req[c] /\ req[c].build \in Builds
    BY <1>0, <1>2, Creating, RunType
  <2>2. o \in Object /\ o.module = m /\ o # Deployment(m) /\ o # Service(m)
        /\ o \in Members(ObjectsFor(m, req[c].build))
    BY <2>1, VolumesObjects
  <2>3. CASE o \in Members(left[c])
    BY <1>0, <2>1, <2>2, <2>3, MakesStep
  <2>4. CASE namespace # "active"
    <3>1. left[c] = ObjectsFor(req[c].module, req[c].build)
      BY <1>0, <2>1, <2>4, BecomesActive DEF Context, Quiet
    <3> QED
      BY <2>1, <2>2, <2>3, <3>1
  <2>5. CASE namespace = "active" /\ o \notin Members(left[c])
    <3>1. NoDisposeFailed(m)
      BY <1>0, NoneFailedBefore DEF Quiet
    <3>2. creator[o] = c
      BY <2>1, <2>5, <3>1, Zenon DEF Quiet, VolumesKept, Makes
    <3>3. creator'[o] = creator[o]
      <4> SUFFICES ASSUME creator'[o] # creator[o] PROVE FALSE
        OBVIOUS
      <4>1. Exists(o)
        BY <3>2, ProxyAssumption DEF Exists
      <4>2. PICK d \in Calls : Removes(d, o) /\ Deletes(d, m)
        BY <1>0, <2>2, <4>1, RemovedBy DEF Quiet
      <4>3. o = Head(left[d]) /\ left[d] # <<>>
        BY <2>2, <4>2 DEF Removes, Deletes
      <4>4. left[d] \in Seq(Object)
        BY <1>0, Zenon DEF Types
      <4>5. o \in Members(left[d])
        BY <4>3, <4>4, TailForm
      <4>6. pc[creator[o]] = "done"
        BY <2>5, <3>1, <4>2, <4>5, Zenon DEF Quiet, VolumesKept
      <4> QED
        BY <2>1, <3>2, <4>6
    <3> QED
      BY <3>2, <3>3
  <2> QED
    BY <2>3, <2>4, <2>5
<1> QED
  BY <1>1, <1>2

\* When a dispose reads the deployment, its volumes are still those it mounts.
LEMMA ReadByDispose ==
  ASSUME Context, NEW m \in Modules, Quiet(m), NEW d \in Calls,
         GetDeployment(d), Step(d), req[d].module = m, NEW o \in Members(left'[d])
  PROVE  /\ Exists(o) /\ pc[creator[o]] = "done" /\ creator'[o] = creator[o]
         /\ pc'[creator[o]] = "done"
<1>0. /\ Types /\ Truths /\ Control(d) /\ Work(d) /\ BasicInv /\ [Next]_vars
      /\ \A p \in Object : MadeByRun(p)
  BY BasicParts DEF Context
<1>1. /\ pc[d] = "get" /\ UNCHANGED kubeVars /\ left[d] = <<>>
      /\ \A e \in Calls \ {d} : Same(e)
      /\ req[d].op = "DisposeBalticModule"
  BY <1>0, GetStep DEF Work, Deleting, Control
<1>2. Members(<<>>) = {}
  BY DEF Members
<1>3. Exists(Deployment(m)) /\ o \in Members(volumesOf[m])
  BY <1>0, <1>1, <1>2, GetStep
<1>4. Deployment(m) \in Object /\ Deployment(m).kind = "deployment"
      /\ Deployment(m).module = m
  BY NamedType DEF Deployment, Kinds, Named
<1>5. NoDisposeFailed(m) /\ namespace = "active"
  BY <1>0, <1>1, NoneFailedBefore DEF Quiet, kubeVars
<1>6. ASSUME NEW e \in Calls, Deletes(e, m) PROVE FALSE
  <2>1. OnModule(e, m) /\ pc[e] # "done" /\ req[e].op = "DisposeBalticModule" /\ e # d
    <3>1. Control(e)
      BY BasicParts DEF Context
    <3> QED
      BY <1>1, <1>6, <3>1 DEF Control, Deletes, Deleting, OnModule, ModuleOps
  <2> QED
    BY <1>0, <1>1, <1>5, <2>1, Alone DEF Context
<1>7. creator[o] = creator[Deployment(m)]
  BY <1>3, <1>5, <1>6, Zenon DEF Quiet, VolumesKept
<1>8. creator[o] \in Calls /\ pc[creator[o]] = "done"
  BY <1>0, <1>3, <1>4, <1>7, Maker
<1>9. pc'[creator[o]] = "done"
  BY <1>0, <1>8, CallsStep
<1> QED
  BY <1>1, <1>8, <1>9, ProxyAssumption DEF Exists, kubeVars

\* What a dispose deletes next is not among what it deletes later.
LEMMA DeletedOnce ==
  ASSUME BasicInv, NEW d \in Calls, Step(d), DeletesNow(d)
  PROVE  /\ Members(left'[d]) \subseteq Members(left[d])
         /\ \A o \in Object : Removes(d, o) => o \notin Members(left'[d])
         /\ left[d] \in Seq(Object) /\ Members(left[d]) \subseteq Object
<1>0. Types /\ Truths /\ Control(d) /\ Work(d) /\ pc[d] \in Deleting
  BY BasicParts, RemovesForm
<1>1. left[d] \in Seq(Object) /\ Members(left[d]) \subseteq Object
      /\ left \in [Calls -> Seq(Object)]
  BY <1>0, RunType DEF Members, Types
<1>2. ASSUME NEW o \in Object, Removes(d, o)
      PROVE  o \notin Members(left'[d])
  <2>1. CASE pc[d] = "deleteVolumes"
    <3>1. left[d] # <<>> /\ o = Head(left[d]) /\ left' = [left EXCEPT ![d] = Tail(@)]
      BY <1>2, <2>1 DEF Removes
    <3>2. left'[d] = Tail(left[d])
      BY <1>1, <3>1
    <3>3. \A i, j \in DOMAIN left[d] : left[d][i] = left[d][j] => i = j
      BY <1>0, Zenon DEF Work
    <3>4. ASSUME NEW i \in DOMAIN Tail(left[d]), Tail(left[d])[i] = o PROVE FALSE
      <4>1. /\ i + 1 \in DOMAIN left[d] /\ left[d][i + 1] = o
            /\ 1 \in DOMAIN left[d] /\ left[d][1] = o
        BY <1>1, <3>1, <3>4, TailForm
      <4>2. i + 1 = 1
        BY <3>3, <4>1
      <4>3. i \in 1..Len(Tail(left[d]))
        BY <1>1, <3>1, TailForm
      <4> QED
        BY <4>2, <4>3
    <3> QED
      BY <3>2, <3>4, Zenon DEF Members
  <2>2. CASE pc[d] # "deleteVolumes"
    <3>1. left' = left /\ o \in {Deployment(req[d].module), Service(req[d].module)}
      BY <1>2, <2>2, Zenon DEF Removes
    <3>2. o.kind \in {"deployment", "service"}
      BY <3>1 DEF Deployment, Service, Named
    <3>3. \A p \in Members(left[d]) : p.kind \in {"pvc", "configmap"}
      BY <1>0, Zenon DEF Work
    <3> QED
      BY <3>1, <3>2, <3>3
  <2> QED
    BY <2>1, <2>2
<1>3. Members(left'[d]) \subseteq Members(left[d])
  <2>1. left' = left \/ (left[d] # <<>> /\ left'[d] = Tail(left[d]))
    BY <1>0, <1>1, DeletesStep
  <2> QED
    BY <1>1, <2>1, TailForm
<1> QED
  BY <1>1, <1>2, <1>3

\* What a deployment mounts changes only with the deployment.
LEMMA VolumesChange ==
  ASSUME BasicInv, [Next]_vars, NEW m \in Modules, Exists(Deployment(m)),
         creator'[Deployment(m)] = creator[Deployment(m)]
  PROVE  volumesOf'[m] = volumesOf[m]
<1> DEFINE dep == Deployment(m)
<1>0. /\ Types /\ Truths /\ \A c \in Calls : Control(c) /\ Work(c)
      /\ \A o \in Object : MadeByRun(o)
      /\ dep \in Object /\ dep.kind = "deployment" /\ dep.module = m
  BY BasicParts, NamedType DEF Deployment, Kinds, Named
<1>1. ASSUME NEW o \in Object, NEW c, Put(o, c), o = dep => c # creator[dep],
             o.kind = "deployment" => o = Deployment(o.module)
      PROVE  volumesOf'[m] = volumesOf[m]
  <2>1. o # dep
    BY <1>0, <1>1, PutStep
  <2>2. o.kind # "deployment" \/ o.module # m
    BY <1>1, <2>1
  <2> QED
    BY <1>0, <1>1, <2>2, PutStep
<1>2. ASSUME NEW o \in Object, Exists(o), Put(o, Nobody)
      PROVE  volumesOf'[m] = volumesOf[m]
  BY <1>0, <1>1, <1>2, Maker DEF Exists
<1>3. ASSUME NEW d \in Calls, Step(d) PROVE volumesOf'[m] = volumesOf[m]
  <2>1. CASE CreateObject(d)
    <3>1. CASE \E o \in Object : ~ Exists(o) /\ Put(o, d) /\ MakesNow(d, o)
      <4>1. PICK o \in Object : ~ Exists(o) /\ Put(o, d) /\ MakesNow(d, o)
        BY <3>1
      <4>2. req[d].module \in Modules /\ req[d].build \in Builds
        BY <1>0, <4>1, RunType DEF MakesNow
      <4>3. o.kind = "deployment" => o = Deployment(o.module)
        BY <4>1, <4>2, OneDeployment DEF MakesNow
      <4> QED
        BY <1>1, <4>1, <4>3
    <3> QED
      BY <1>3, <2>1, <3>1, MakesForm DEF kubeVars
  <2>2. CASE DeletesNow(d)
    BY <1>2, <1>3, <2>2, RemovesForm DEF kubeVars
  <2>3. CASE GetDeployment(d) \/ DisposeReturns(d) \/ Asks(d)
    BY <1>0, <2>3, GetStep, DisposeStep, AskStep DEF kubeVars
  <2> QED
    BY <1>0, <1>3, <2>1, <2>2, <2>3, StepKinds
<1>4. CASE \E c \in Calls : StartCall(c) \/ Timeout(c)
  BY <1>0, <1>4, StartStep, TimeoutStep DEF kubeVars
<1>5. CASE Kube
  BY <1>0, <1>2, <1>5, KubeStep
<1>6. CASE UNCHANGED vars
  BY <1>6 DEF vars, kubeVars
<1> QED
  BY <1>3, <1>4, <1>5, <1>6 DEF Next

\* A workspace that has just been made has no deployments, and nobody deletes.
LEMMA KeptFromStart ==
  ASSUME Context, NEW m \in Modules, namespace' = "active", namespace # "active"
  PROVE  /\ ~ Exists(Deployment(m))'
         /\ \A d \in Calls : Deletes(d, m)' => Members(left'[d]) = {}
<1>0. /\ \A o \in Object : ~ Exists(o)
      /\ \A c \in Calls : left[c] =
           IF pc[c] = "create" THEN ObjectsFor(req[c].module, req[c].build) ELSE <<>>
      /\ UNCHANGED <<creator, volumesOf>>
      /\ \A c \in Calls : \/ Same(c)
                          \/ pc[c] = "ask" /\ Step(c) /\ pc'[c] = "done" /\ left'[c] = <<>>
  BY BecomesActive DEF Context
<1>1. Deployment(m) \in Object
  BY NamedType DEF Deployment, Kinds
<1>2. Members(<<>>) = {}
  BY DEF Members
<1>3. ASSUME NEW d \in Calls, Deletes(d, m)' PROVE left'[d] = <<>>
  <2>1. pc'[d] \in Deleting
    BY <1>3 DEF Deletes
  <2>2. Same(d)
    BY <1>0, <2>1 DEF Deleting
  <2>3. pc[d] # "create" /\ left'[d] = left[d]
    BY <2>1, <2>2 DEF Same, Deleting
  <2> QED
    BY <1>0, <2>3
<1> QED
  BY <1>0, <1>1, <1>2, <1>3 DEF Exists

\* What a dispose has still to delete was made by runs that have returned.
LEMMA KeptForDispose ==
  ASSUME Context, NEW m \in Modules, Quiet(m), NEW d \in Calls, Deletes(d, m)',
         NEW o \in Members(left'[d])
  PROVE  creator'[o] # Nobody /\ pc'[creator'[o]] = "done"
<1>0. /\ Types /\ Truths /\ Control(d) /\ Work(d) /\ BasicInv /\ [Next]_vars
      /\ pc'[d] \in Deleting /\ req'[d] = req[d] /\ req[d].module = m
      /\ NoDisposeFailed(m)
  BY BasicParts, DeletingStep, NoneFailedBefore DEF Context, Deletes, Quiet
<1>1. CASE namespace # "active"
  BY <1>1, KeptFromStart DEF Quiet
<1>2. CASE namespace = "active" /\ GetDeployment(d) /\ Step(d)
  BY <1>0, <1>2, ReadByDispose DEF Exists
<1>3. CASE namespace = "active" /\ pc[d] \in Deleting
  <2>1. /\ o \in Members(left[d]) /\ o \in Object
        /\ \A p \in Object : Removes(d, p) => p \notin Members(left'[d])
    <3>1. CASE Same(d) \/ Timeout(d)
      <4>1. left'[d] = left[d] /\ pc'[d] = pc[d] /\ left[d] \in Seq(Object)
        BY <1>0, <1>3, <3>1, RunType, TimeoutStep DEF Same
      <4>2. ASSUME NEW p \in Object, Removes(d, p)
            PROVE  p \notin Members(left'[d])
        BY <4>2, <1>0, DeletedOnce DEF Removes
      <4> QED
        BY <4>1, <4>2 DEF Members
    <3>2. CASE Step(d) /\ DeletesNow(d)
      BY <1>0, <3>2, DeletedOnce
    <3>3. CASE Step(d) /\ GetDeployment(d)
      BY <1>0, <1>3, <3>3, GetStep DEF Deleting
    <3> QED
      BY <1>0, <3>1, <3>2, <3>3, DeletingStep
  <2>2. creator[o] # Nobody /\ pc[creator[o]] = "done"
    BY <1>0, <1>3, <2>1, Zenon DEF Quiet, VolumesKept, Deletes
  <2>3. creator[o] \in Calls /\ o.module = m
    <3>1. MadeByRun(o)
      BY <2>1, BasicParts DEF Context
    <3>2. o.module = req[d].module
      BY <1>0, <1>3, <2>1, Zenon DEF Work
    <3> QED
      BY <1>0, <2>1, <2>2, <3>1, <3>2, Maker DEF Exists
  <2>4. creator'[o] = creator[o]
    <3> SUFFICES ASSUME creator'[o] # creator[o] PROVE FALSE
      OBVIOUS
    <3>1. PICK e \in Calls : /\ Removes(e, o) /\ Deletes(e, m) /\ OnModule(e, m)
                             /\ req[e].op = "DisposeBalticModule"
      BY <1>0, <2>1, <2>2, <2>3, RemovedBy DEF Quiet, Exists
    <3>2. e = d
      <4> SUFFICES ASSUME e # d PROVE FALSE
        OBVIOUS
      <4>1. pc[e] = "done"
        BY <1>0, <1>3, <3>1, Alone DEF Context
      <4> QED
        BY <3>1, <4>1 DEF Deletes, Deleting
    <3> QED
      BY <2>1, <3>1, <3>2
  <2>5. pc'[creator[o]] = "done"
    BY <1>0, <2>2, <2>3, CallsStep
  <2> QED
    BY <2>2, <2>4, <2>5
<1> QED
  BY <1>0, <1>1, <1>2, <1>3, DeletingStep

\* A deployment that is made has the volumes that it mounts.
LEMMA MadeWhole ==
  ASSUME BasicInv, [Next]_vars, NEW m \in Modules, NoDisposeFailed(m), VolumesKept(m),
         ~ Exists(Deployment(m)), NEW c \in Calls, creator'[Deployment(m)] = c
  PROVE  /\ pc[c] = "create" /\ namespace = "active"
         /\ volumesOf'[m] = VolumesFor(m, req[c].build)
         /\ \A o \in Object \ {Deployment(m)} : creator'[o] = creator[o]
         /\ \A o \in Members(VolumesFor(m, req[c].build)) : creator'[o] = c
<1> DEFINE dep == Deployment(m)
<1>0. /\ Types /\ Truths /\ Control(c) /\ Work(c)
      /\ dep \in Object /\ dep.kind = "deployment" /\ dep.module = m
  BY BasicParts, NamedType DEF Deployment, Kinds, Named
<1>1. Put(dep, c) /\ MakesNow(c, dep)
  <2>1. creator'[dep] # creator[dep]
    BY ProxyAssumption DEF Exists
  <2>2. PICK e \in Calls : creator'[dep] = e /\ Put(dep, e) /\ MakesNow(e, dep)
    BY <1>0, <2>1, ObjectStep
  <2> QED
    BY <2>2
<1>2. /\ pc[c] = "create" /\ namespace = "active" /\ req[c].module = m
      /\ left[c] # <<>> /\ Head(left[c]) = dep
  BY <1>0, <1>1 DEF MakesNow
<1>3. /\ volumesOf'[m] = VolumesFor(m, req[c].build)
      /\ \A o \in Object \ {dep} : creator'[o] = creator[o]
  BY <1>0, <1>1, PutStep, ProxyAssumption
<1>4. left[c] \in Seq(Object) /\ req[c].build \in Builds
  BY <1>0, <1>2, RunType
<1>5. Members(left[c]) = {dep}
  <2>1. 1 = Len(left[c])
    BY <1>0, <1>2, <1>4, TailForm DEF Work
  <2>2. Tail(left[c]) = <<>>
    BY <1>2, <1>4, <2>1, TailForm, NoLength
  <2>3. Members(<<>>) = {}
    BY DEF Members
  <2> QED
    BY <1>2, <1>4, <2>2, <2>3, TailForm
<1>6. ASSUME NEW o \in Members(VolumesFor(m, req[c].build))
      PROVE  creator'[o] = c
  <2>1. o \in Object /\ o # dep
    BY <1>4, VolumesObjects
  <2>2. o \in Members(left[c]) \/ creator[o] = c
    BY <1>2, Zenon DEF VolumesKept, Makes
  <2> QED
    BY <1>3, <1>5, <2>1, <2>2
<1> QED
  BY <1>2, <1>3, <1>6

\* Nobody deletes a volume of a deployment, but a dispose that deleted it first.
LEMMA KeptByDeployment ==
  ASSUME Context, NEW m \in Modules, Quiet(m), Exists(Deployment(m))',
         \A d \in Calls : Deletes(d, m)' => ~ failed'[d],
         NEW o \in Members(volumesOf'[m])
  PROVE  creator'[o] = creator'[Deployment(m)]
<1> DEFINE dep == Deployment(m)
<1>0. /\ Types /\ Truths /\ BasicInv /\ [Next]_vars /\ NoDisposeFailed(m)
      /\ \A p \in Object : MadeByRun(p)
      /\ dep \in Object /\ dep.kind = "deployment" /\ dep.module = m
  BY BasicParts, NoneFailedBefore, NamedType DEF Context, Quiet, Deployment, Kinds, Named
<1>1. CASE namespace # "active"
  BY <1>1, KeptFromStart DEF Quiet
<1>2. CASE ~ Exists(dep)
  <2>1. PICK c \in Calls : creator'[dep] = c
    BY <1>0, <1>2, ObjectStep DEF Exists
  <2> QED
    BY <1>0, <1>2, <2>1, MadeWhole DEF Quiet
<1>3. CASE namespace = "active" /\ Exists(dep)
  <2>1. creator'[dep] = creator[dep] /\ creator[dep] \in Calls
        /\ volumesOf[m] = VolumesFor(m, req[creator[dep]].build)
        /\ req[creator[dep]].build \in Builds
    <3>1. creator'[dep] = creator[dep]
      BY <1>0, <1>3, RemovedBy DEF Quiet, Exists
    <3> QED
      BY <1>0, <1>3, <3>1, Maker
  <2>2. volumesOf'[m] = volumesOf[m]
    BY <1>0, <1>3, <2>1, VolumesChange
  <2>3. o \in Object /\ o.module = m /\ o.kind \in {"pvc", "configmap"}
    BY <2>1, <2>2, VolumesObjects
  <2>4. \A d \in Calls : Deletes(d, m) => ~ failed[d]
    BY <1>0, FailedStays DEF Quiet
  <2>5. creator[o] = creator[dep]
    BY <1>0, <1>3, <2>2, <2>4, Zenon DEF Quiet, VolumesKept
  <2>6. creator'[o] = creator[o]
    <3> SUFFICES ASSUME creator'[o] # creator[o] PROVE FALSE
      OBVIOUS
    <3>1. PICK e \in Calls : Removes(e, o) /\ Deletes(e, m)
      BY <1>0, <1>3, <2>3, <2>5, RemovedBy DEF Quiet, Exists
    <3>2. /\ pc[e] = "deleteVolumes" /\ o = Head(left[e]) /\ left[e] # <<>>
      BY <2>3, <3>1 DEF Removes, Deployment, Service, Named
    <3>3. o \in Members(left[e])
      BY <1>0, <3>2, TailForm, Zenon DEF Types
    <3>4. creator[o] # creator[dep]
      <4>1. pc[e] # "deleteDeployment" /\ ~ failed[e]
        BY <2>4, <3>1, <3>2
      <4> QED
        BY <1>0, <1>3, <3>1, <3>3, <4>1, Zenon DEF Quiet, VolumesKept
    <3> QED
      BY <2>5, <3>4
  <2> QED
    BY <2>1, <2>5, <2>6
<1> QED
  BY <1>1, <1>2, <1>3

\* A dispose that is past the deployment deletes no volume of a later one.
LEMMA KeptFromDispose ==
  ASSUME Context, NEW m \in Modules, Quiet(m), NEW d \in Calls, Deletes(d, m)',
         pc'[d] # "deleteDeployment", ~ failed'[d], Exists(Deployment(m))',
         NEW o \in Members(left'[d])
  PROVE  creator'[o] # creator'[Deployment(m)]
<1> DEFINE dep == Deployment(m)
<1>0. /\ Types /\ Truths /\ Control(d) /\ Work(d) /\ BasicInv /\ [Next]_vars
      /\ pc'[d] \in Deleting /\ req'[d] = req[d] /\ req[d].module = m
      /\ NoDisposeFailed(m) /\ \A p \in Object : MadeByRun(p)
      /\ dep \in Object /\ dep.kind = "deployment" /\ dep.module = m
  BY BasicParts, DeletingStep, NoneFailedBefore, NamedType
  DEF Context, Deletes, Quiet, Deployment, Kinds, Named
<1>1. CASE namespace # "active"
  BY <1>1, KeptFromStart DEF Quiet
<1>2. CASE namespace = "active"
  <2>1. pc[d] \in Deleting /\ ~ failed[d]
    <3>1. ~ GetDeployment(d)
      BY <1>0, GetStep
    <3> QED
      BY <1>0, <3>1, DeletingStep
  <2>2. /\ o \in Members(left[d]) /\ o \in Object
    <3>1. left[d] \in Seq(Object)
      BY <1>0, <2>1, RunType
    <3>2. CASE Same(d) \/ Timeout(d)
      <4>1. left'[d] = left[d]
        BY <1>0, <3>2, TimeoutStep DEF Same
      <4> QED
        BY <3>1, <4>1 DEF Members
    <3>3. CASE Step(d) /\ DeletesNow(d)
      BY <1>0, <3>3, DeletedOnce
    <3>4. ~ GetDeployment(d)
      BY <1>0, GetStep
    <3> QED
      BY <1>0, <3>2, <3>3, <3>4, DeletingStep
  <2>3. pc[d] # "deleteDeployment"
    <3> SUFFICES ASSUME pc[d] = "deleteDeployment" PROVE FALSE
      OBVIOUS
    <3>1. Step(d) /\ DeletesNow(d)
      <4>1. ~ (Same(d) \/ Timeout(d))
        BY <1>0, TimeoutStep DEF Same
      <4>2. ~ GetDeployment(d)
        BY <1>0, GetStep
      <4> QED
        BY <1>0, <4>1, <4>2, DeletingStep
    <3>2. PICK p \in Object : Put(p, Nobody) /\ Removes(d, p)
      BY <1>0, <3>1, RemovesForm
    <3>3. p = dep
      BY <1>0, <3>2 DEF Removes
    <3> QED
      BY <1>0, <3>2, <3>3, PutStep DEF Exists
  <2>4. creator[o] # Nobody /\ pc[creator[o]] = "done"
    BY <1>0, <1>2, <2>1, <2>2, Zenon DEF Quiet, VolumesKept, Deletes
  <2>5. CASE Exists(dep)
    <3>1. creator'[dep] = creator[dep]
      BY <1>0, <2>5, RemovedBy DEF Quiet, Exists
    <3>2. creator[o] # creator[dep]
      BY <1>0, <1>2, <2>1, <2>2, <2>3, <2>5, Zenon DEF Quiet, VolumesKept, Deletes
    <3>3. creator'[o] = creator[o] \/ creator'[o] = Nobody
      BY <1>0, <2>2, <2>4, RemovedBy DEF Quiet, Exists
    <3> QED
      BY <3>1, <3>2, <3>3 DEF Exists
  <2>6. CASE ~ Exists(dep)
    <3>1. PICK c \in Calls : creator'[dep] = c
      BY <1>0, <2>6, ObjectStep DEF Exists
    <3>2. /\ pc[c] = "create"
          /\ \A p \in Object \ {dep} : creator'[p] = creator[p]
      BY <1>0, <2>6, <3>1, MadeWhole DEF Quiet
    <3>3. o # dep
      BY <2>4, <2>6 DEF Exists
    <3> QED
      BY <2>2, <2>4, <3>1, <3>2, <3>3
  <2> QED
    BY <2>5, <2>6
<1> QED
  BY <1>1, <1>2

LEMMA VolumesKeptStep ==
  ASSUME Context, NEW m \in Modules, VolumesKept(m)
  PROVE  VolumesKept(m)'
<1> SUFFICES ASSUME NoDisposeFailed(m)', namespace' = "active"
             PROVE  VolumesKept(m)'
  BY Zenon DEF VolumesKept
<1>0. Quiet(m)
  BY DEF Quiet
<1>1. \A c \in Calls : pc'[c] = "create" /\ req'[c].module = m
        => Makes(c, Members(VolumesFor(m, req[c].build)))'
  BY <1>0, KeptByRun
<1>2. \A d \in Calls : Deletes(d, m)' => \A o \in Members(left'[d]) :
        creator'[o] # Nobody /\ pc'[creator'[o]] = "done"
  BY <1>0, KeptForDispose
<1>3. Exists(Deployment(m))' /\ (\A d \in Calls : Deletes(d, m)' => ~ failed'[d])
        => \A o \in Members(volumesOf'[m]) : creator'[o] = creator'[Deployment(m)]
  BY <1>0, KeptByDeployment
<1>4. \A d \in Calls : Deletes(d, m)' /\ pc'[d] # "deleteDeployment" /\ ~ failed'[d]
        /\ Exists(Deployment(m))'
        => \A o \in Members(left'[d]) : creator'[o] # creator'[Deployment(m)]
  BY <1>0, KeptFromDispose
<1> QED
  BY <1>1, <1>2, <1>3, <1>4, Zenon DEF VolumesKept

-----------------------------------------------------------------------------
(* The end of the workspace *)

LEMMA StaysTerminating ==
  ASSUME BasicInv, [Next]_vars, namespace = "terminating",
         NEW o \in Object, Exists(o)
  PROVE  namespace' = "terminating"
<1>0. Types /\ Truths /\ \A c \in Calls : Control(c) /\ Work(c)
  BY BasicParts
<1>1. ASSUME NEW p \in Object, NEW c, Put(p, c) PROVE namespace' = namespace
  BY <1>0, <1>1, PutStep
<1>2. ASSUME NEW d \in Calls, Step(d) PROVE namespace' = "terminating"
  <2>1. CASE CreateObject(d)
    BY <1>1, <1>2, <2>1, MakesForm DEF kubeVars
  <2>2. CASE DeletesNow(d)
    BY <1>1, <1>2, <2>2, RemovesForm DEF kubeVars
  <2>3. CASE GetDeployment(d) \/ DisposeReturns(d)
    BY <1>0, <2>3, GetStep, DisposeStep DEF kubeVars
  <2>4. CASE Asks(d)
    BY <1>0, <2>4, AskStep
  <2> QED
    BY <1>0, <1>2, <2>1, <2>2, <2>3, <2>4, StepKinds
<1>3. CASE \E c \in Calls : StartCall(c) \/ Timeout(c)
  BY <1>0, <1>3, StartStep, TimeoutStep DEF kubeVars
<1>4. CASE Kube
  BY <1>0, <1>1, <1>4, KubeStep
<1>5. CASE UNCHANGED vars
  BY <1>5 DEF vars, kubeVars
<1> QED
  BY <1>2, <1>3, <1>4, <1>5 DEF Next

-----------------------------------------------------------------------------
(* What a successful run made is found by the dispose *)

\* It becomes good in the last step of the run, which makes the deployment.
LEMMA NewGood ==
  ASSUME Context, NEW o \in Object, Good(o)', ~ Good(o)
  PROVE  \E c \in Calls :
           /\ creator'[o] = c /\ creator'[Deployment(o.module)] = c
           /\ ~ Settled(c) /\ OnModule(c, o.module) /\ pc[c] = "create"
<1>0. /\ Types /\ Truths /\ MadeByRun(o) /\ \A c \in Calls : Control(c)
      /\ BasicInv /\ [Next]_vars
  BY BasicParts DEF Context
<1>1. ASSUME NEW c \in Calls, creator'[o] = c, pc[c] = "create",
             req[c].module = o.module
      PROVE  /\ creator'[Deployment(o.module)] = c
             /\ ~ Settled(c) /\ OnModule(c, o.module)
  <2>1. pc'[c] = "done" /\ ~ reply'[c].err /\ ~ cancelled'[c]
    BY <1>1, Zenon DEF Good, Failed
  <2>2. ~ cancelled[c]
    BY <1>0, <2>1, CallsStep
  <2>3. req[c].op = "RunBalticModule"
    BY <1>0, <1>1 DEF Control
  <2> QED
    BY <1>0, <1>1, <2>1, <2>2, <2>3, SuccessStep
    DEF Context, Settled, OnModule, ModuleOps
<1>2. CASE creator'[o] = creator[o]
  <2> DEFINE c == creator[o]
  <2>1. Exists(o)
    BY <1>2 DEF Good, Exists
  <2>2. c \in Calls /\ req[c].op = "RunBalticModule" /\ req[c].module = o.module
    BY <1>0, <2>1, Maker
  <2>3. pc'[c] = "done" /\ ~ reply'[c].err /\ ~ cancelled'[c]
    BY <1>2, Zenon DEF Good, Failed
  <2>4. ~ cancelled[c]
    BY <1>0, <2>2, <2>3, CallsStep
  <2>5. pc[c] # "done"
    <3> SUFFICES ASSUME pc[c] = "done" PROVE FALSE
      OBVIOUS
    <3>1. reply'[c] = reply[c]
      BY <1>0, <2>2, CallsStep
    <3>2. ~ reply[c].err
      BY <2>3, <3>1
    <3> QED
      BY <2>1, <2>4, <3>2, Zenon DEF Good, Failed
  <2>6. pc[c] = "create"
    <3>1. pc[c] \in Labels /\ Control(c)
      BY <1>0, <2>2 DEF Types
    <3> QED
      BY <2>2, <2>5, <3>1
      DEF Labels, Control, Deleting, WorkspaceOps, NoRequest
  <2> QED
    BY <1>1, <1>2, <2>2, <2>6
<1>3. CASE creator'[o] # creator[o]
  <2>1. PICK c \in Calls : creator'[o] = c /\ MakesNow(c, o)
    BY <1>0, <1>3, ObjectStep DEF Good, Exists
  <2> QED
    BY <1>1, <2>1 DEF MakesNow
<1> QED
  BY <1>2, <1>3

\* Without a dispose, the deployment leads to it, or the workspace is ending.
LEMMA FoundByDeployment ==
  ASSUME Context, NEW m \in Modules, NoDisposeFailed(m)', GoodFound(m),
         \A d \in Calls : ~ Deletes(d, m)', NEW o \in OfModule(m), Good(o)'
  PROVE  \/ creator'[Deployment(m)] = creator'[o]
         \/ ~ Exists(Deployment(m))' /\ namespace' = "terminating"
<1> DEFINE dep == Deployment(m)
<1>0. /\ Types /\ Truths /\ BasicInv /\ [Next]_vars /\ NoDisposeFailed(m)
      /\ o \in Object /\ o.module = m /\ \A d \in Calls : Control(d) /\ Work(d)
      /\ dep \in Object /\ dep.kind = "deployment" /\ dep.module = m
  BY BasicParts, NoneFailedBefore, NamedType
  DEF Context, OfModule, Deployment, Kinds, Named
<1>1. CASE ~ Good(o)
  BY <1>0, <1>1, NewGood
<1>2. CASE Good(o) /\ \A d \in Calls : ~ Deletes(d, m)
  <2>1. creator'[o] = creator[o] /\ Exists(o)
    BY <1>0, <1>2, ObjectStep DEF Good, Exists
  <2>2. CASE creator[dep] = creator[o]
    <3> SUFFICES ASSUME creator'[dep] # creator[dep]
                 PROVE  ~ Exists(dep)' /\ namespace' = "terminating"
      BY <2>1, <2>2
    <3>1. Exists(dep)
      BY <2>1, <2>2 DEF Exists
    <3>2. ASSUME NEW d \in Calls, Removes(d, dep) PROVE FALSE
      BY <1>0, <1>2, <3>2 DEF Removes, Deletes
    <3> QED
      BY <1>0, <3>1, <3>2, ObjectStep DEF Exists
  <2>3. CASE ~ Exists(dep) /\ namespace = "terminating"
    <3>1. ~ Exists(dep)'
      BY <1>0, <2>3, ObjectStep DEF Exists, MakesNow
    <3>2. namespace' = "terminating"
      BY <1>0, <2>1, <2>3, StaysTerminating
    <3> QED
      BY <3>1, <3>2
  <2> QED
    BY <1>0, <1>2, <2>2, <2>3, Zenon DEF GoodFound
<1>3. CASE Good(o) /\ \E d \in Calls : Deletes(d, m)
  <2>1. PICK d \in Calls : Deletes(d, m)
    BY <1>3
  <2>2. ~ failed[d]
    BY <1>0, <2>1, FailedStays
  <2>3. o \in Remaining(d)
    BY <1>0, <1>3, <2>1, <2>2, Zenon DEF GoodFound
  <2>4. pc[d] = "deleteVolumes" /\ left[d] = <<>>
    <3>1. pc[d] \in Deleting /\ pc'[d] \notin Deleting
      <4>1. pc[d] \in Deleting /\ req[d].module = m
        BY <2>1 DEF Deletes
      <4>2. req'[d] = req[d]
        BY <1>0, <4>1, CallsStep DEF Deleting
      <4> QED
        BY <4>1, <4>2 DEF Deletes
    <3>2. ~ (Same(d) \/ StartCall(d) \/ Timeout(d))
      BY <1>0, <3>1, StartStep, TimeoutStep DEF Same, Deleting
    <3>3. Step(d)
      BY <1>0, <3>2, CallsStep
    <3>4. ~ (CreateObject(d) \/ GetDeployment(d) \/ Asks(d))
      BY <1>0, <3>1, CreatedStep, GetStep, AskStep DEF Deleting
    <3>5. ~ DeletesNow(d)
      BY <1>0, <3>1, <3>3, RemovesForm DEF Deleting
    <3> QED
      BY <1>0, <3>3, <3>4, <3>5, StepKinds, DisposeStep
  <2> QED
    BY <2>3, <2>4 DEF Remaining, Members
<1> QED
  BY <1>1, <1>2, <1>3

\* A dispose that has begun, and has met no error, has still to delete it.
LEMMA FoundByDispose ==
  ASSUME Context, Exclusive', NEW m \in Modules, NoDisposeFailed(m)', GoodFound(m),
         NEW d \in Calls, Deletes(d, m)', ~ failed'[d], NEW o \in OfModule(m), Good(o)'
  PROVE  o \in Remaining(d)'
<1> DEFINE dep == Deployment(m)
<1>0. /\ Types /\ Truths /\ BasicInv /\ [Next]_vars /\ NoDisposeFailed(m)
      /\ o \in Object /\ o.module = m /\ Control(d) /\ Work(d) /\ MadeByRun(o)
      /\ pc'[d] \in Deleting /\ req'[d] = req[d] /\ req[d].module = m
      /\ dep \in Object /\ dep.kind = "deployment" /\ dep.module = m /\ MadeByRun(dep)
      /\ Exclusive
  BY BasicParts, NoneFailedBefore, NamedType, DeletingStep
  DEF Context, OfModule, Deployment, Kinds, Named, Deletes
<1>1. pc[d] \in {"get"} \cup Deleting
  BY <1>0, DeletingStep, GetStep
<1>2. Good(o)
  <2> SUFFICES ASSUME ~ Good(o) PROVE FALSE
    OBVIOUS
  <2>1. PICK c \in Calls : ~ Settled(c) /\ OnModule(c, m) /\ pc[c] = "create"
    BY <1>0, NewGood
  <2> QED
    BY <1>0, <1>1, <2>1, Alone DEF Deleting
<1>3. creator'[o] = creator[o] /\ Exists(o)
  BY <1>0, <1>2, ObjectStep DEF Good, Exists
<1>4. CASE GetDeployment(d)
  <2>1. /\ Exists(dep) /\ left'[d] = volumesOf[m] /\ pc'[d] = "deleteDeployment"
        /\ pc[d] = "get" /\ req[d].op = "DisposeBalticModule"
    BY <1>0, <1>4, GetStep DEF Control
  <2>2. ASSUME NEW e \in Calls, Deletes(e, m) PROVE FALSE
    <3>1. /\ OnModule(e, m) /\ pc[e] # "done" /\ e # d
          /\ req[e].op = "DisposeBalticModule"
      <4>1. Control(e)
        BY BasicParts DEF Context
      <4> QED
        BY <2>1, <2>2, <4>1 DEF Control, Deletes, Deleting, OnModule, ModuleOps
    <3> QED
      BY <1>0, <1>1, <3>1, Alone
  <2>3. creator[dep] = creator[o]
    BY <1>0, <1>2, <2>1, <2>2, Zenon DEF GoodFound
  <2>4. /\ o \in Members(ObjectsFor(m, req[creator[o]].build))
        /\ volumesOf[m] = VolumesFor(m, req[creator[o]].build)
        /\ req[creator[o]].build \in Builds
    BY <1>0, <1>3, <2>1, <2>3, Maker
  <2>5. o \in Members(volumesOf[m]) \cup {Service(m), Deployment(m)}
    BY <2>4, ObjectsForm
  <2>6. o \in Members(left'[d]) \cup {Service(req'[d].module), Deployment(req'[d].module)}
    BY <1>0, <2>1, <2>5
  <2> QED
    BY <2>1, <2>6 DEF Remaining
<1>5. CASE pc[d] \in Deleting /\ ~ failed[d]
  <2>1. o \in Remaining(d)
    BY <1>0, <1>2, <1>5, Zenon DEF GoodFound, Deletes
  <2>2. CASE Same(d) \/ Timeout(d)
    <3>1. pc'[d] = pc[d] /\ left'[d] = left[d]
      BY <1>0, <2>2, TimeoutStep DEF Same
    <3> QED
      BY <1>0, <2>1, <3>1 DEF Remaining
  <2>3. CASE Step(d) /\ DeletesNow(d)
    <3>1. PICK p \in Object : Put(p, Nobody) /\ Removes(d, p)
      BY <1>0, <2>3, RemovesForm
    <3>2. o # p
      BY <1>0, <1>3, <3>1, PutStep DEF Exists
    <3>3. pc'[d] \in {"deleteService", "deleteVolumes"}
      BY <1>0, <2>3, RemovesForm
    <3>4. CASE pc[d] = "deleteDeployment"
      <4>1. p = dep /\ left' = left /\ pc'[d] = "deleteService"
        BY <1>0, <2>3, <3>1, <3>4, DeletesStep DEF Removes
      <4> QED
        BY <1>0, <2>1, <3>2, <3>4, <4>1 DEF Remaining
    <3>5. CASE pc[d] = "deleteService"
      <4>1. p = Service(m) /\ left' = left /\ pc'[d] = "deleteVolumes"
        BY <1>0, <2>3, <3>1, <3>5, DeletesStep DEF Removes
      <4> QED
        BY <1>0, <2>1, <3>2, <3>5, <4>1 DEF Remaining
    <3>6. CASE pc[d] = "deleteVolumes"
      <4>1. /\ left[d] # <<>> /\ p = Head(left[d]) /\ left' = [left EXCEPT ![d] = Tail(@)]
            /\ pc'[d] = "deleteVolumes"
        BY <1>0, <2>3, <3>1, <3>6, DeletesStep DEF Removes
      <4>2. left \in [Calls -> Seq(Object)]
        BY <1>0 DEF Types
      <4>3. left'[d] = Tail(left[d]) /\ left[d] \in Seq(Object)
        BY <4>1, <4>2
      <4>4. o \in Members(left[d])
        BY <2>1, <3>6 DEF Remaining
      <4>5. o \in Members(left'[d])
        BY <3>2, <4>1, <4>3, <4>4, TailForm
      <4> QED
        BY <4>5 DEF Remaining
    <3> QED
      BY <1>5, <3>4, <3>5, <3>6 DEF Deleting
  <2>4. CASE Step(d) /\ GetDeployment(d)
    BY <1>4, <2>4
  <2> QED
    BY <1>0, <2>2, <2>3, <2>4, DeletingStep
<1> QED
  BY <1>0, <1>4, <1>5, DeletingStep

LEMMA GoodFoundStep ==
  ASSUME Context, Exclusive', NEW m \in Modules, GoodFound(m)
  PROVE  GoodFound(m)'
<1> SUFFICES ASSUME NoDisposeFailed(m)' PROVE GoodFound(m)'
  BY Zenon DEF GoodFound
<1>1. (\A d \in Calls : ~ Deletes(d, m)') => \A o \in OfModule(m) : Good(o)' =>
         \/ creator'[Deployment(m)] = creator'[o]
         \/ ~ Exists(Deployment(m))' /\ namespace' = "terminating"
  BY FoundByDeployment
<1>2. \A d \in Calls : Deletes(d, m)' /\ ~ failed'[d] =>
         \A o \in OfModule(m) : Good(o)' => o \in Remaining(d)'
  BY FoundByDispose
<1> QED
  BY <1>1, <1>2, Zenon DEF GoodFound

-----------------------------------------------------------------------------
(* Theorems *)

LEMMA InvInit == Init => IInv
<1> SUFFICES ASSUME Init PROVE IInv
  OBVIOUS
<1>1. BasicInv
  BY BasicInit
<1>2. /\ namespace = "absent" /\ \A o \in Object : ~ Exists(o)
      /\ \A c \in Calls : pc[c] = "new" /\ req[c].op = "none" /\ left[c] = <<>>
  BY DEF Init, Exists, NoRequest
<1>3. Exclusive /\ OnePrepare /\ RunWhole
  BY <1>2 DEF Exclusive, OnModule, ModuleOps, OnePrepare, RunWhole
<1>4. NothingBefore
  BY <1>2, Zenon DEF NothingBefore
<1>5. \A m \in Modules : VolumesKept(m)
  BY <1>2 DEF VolumesKept
<1>6. \A m \in Modules : GoodFound(m)
  <2>1. \A m \in Modules : \A o \in OfModule(m) : ~ Good(o)
    BY <1>2 DEF OfModule, Good
  <2>2. \A m \in Modules, d \in Calls : ~ Deletes(d, m)
    BY <1>2 DEF Deletes, Deleting
  <2> QED
    BY <2>1, <2>2, Zenon DEF GoodFound
<1> QED
  BY <1>1, <1>3, <1>4, <1>5, <1>6 DEF IInv

LEMMA InvStep == IInv /\ [Next]_vars => IInv'
<1> SUFFICES ASSUME IInv, [Next]_vars PROVE IInv'
  OBVIOUS
<1>1. Context /\ \A m \in Modules : VolumesKept(m) /\ GoodFound(m)
  BY DEF IInv, Context
<1>2. BasicInv' /\ Exclusive' /\ OnePrepare'
  BY <1>1, BasicStep, ExclusiveStep, OnePrepareStep DEF Context
<1>3. NothingBefore' /\ RunWhole'
  BY <1>1, NothingStep, RunWholeStep DEF Context
<1>4. \A m \in Modules : VolumesKept(m)' /\ GoodFound(m)'
  BY <1>1, <1>2, VolumesKeptStep, GoodFoundStep
<1> QED
  BY <1>2, <1>3, <1>4 DEF IInv

\* The inductive invariant holds of every reachable state.
THEOREM Invariance == Spec => []IInv
<1> QED
  BY InvInit, InvStep, PTL DEF Spec

\* RunReportsWhole: a RunBalticModule that returns without an error to a manager
\* that still waits has made every object of the module, and all of them are
\* still there, whatever other calls and the end of the workspace do meanwhile.
THEOREM RunComplete == Spec => RunReportsWhole
<1> DEFINE Whole(c) == Succeeds(c, "RunBalticModule") =>
             \A o \in Members(ObjectsFor(req[c].module, req[c].build)) : creator'[o] = c
<1>1. IInv /\ [Next]_vars => [\A c \in Calls : Whole(c)]_vars
  <2> SUFFICES ASSUME IInv, [Next]_vars, NEW c \in Calls, Succeeds(c, "RunBalticModule")
               PROVE  \A o \in Members(ObjectsFor(req[c].module, req[c].build)) :
                        creator'[o] = c
    BY Zenon
  <2>1. /\ BasicInv /\ RunWhole /\ Types /\ Control(c)
        /\ req[c].op = "RunBalticModule" /\ pc[c] # "done" /\ pc'[c] = "done"
        /\ ~ cancelled[c] /\ ~ reply'[c].err
    BY BasicParts DEF IInv, Succeeds, Returns
  <2>2. pc[c] = "create"
    BY <2>1 DEF Types, Labels, Control, Deleting, WorkspaceOps, NoRequest
  <2> QED
    BY <2>1, <2>2, SuccessStep
<1> QED
  BY <1>1, Invariance, PTL DEF Spec, RunReportsWhole

\* DeploymentWhole: a deployment is created only with all its volumes and its
\* config map in place, made by the same call, while no DisposeBalticModule of
\* the module has failed or timed out.
THEOREM DeploymentsWhole == Spec => DeploymentWhole
<1> DEFINE Whole(c, m) ==
             /\ NoDisposeFailed(m)
             /\ creator[Deployment(m)] = Nobody
             /\ creator'[Deployment(m)] = c
             => \A o \in Members(VolumesFor(m, req[c].build)) : creator'[o] = c
<1>1. IInv /\ [Next]_vars => [\A c \in Calls, m \in Modules : Whole(c, m)]_vars
  <2> SUFFICES ASSUME IInv, [Next]_vars, NEW c \in Calls, NEW m \in Modules,
                      NoDisposeFailed(m), creator[Deployment(m)] = Nobody,
                      creator'[Deployment(m)] = c
               PROVE  \A o \in Members(VolumesFor(m, req[c].build)) : creator'[o] = c
    BY Zenon
  <2>1. BasicInv /\ VolumesKept(m) /\ ~ Exists(Deployment(m))
    BY DEF IInv, Exists
  <2> QED
    BY <2>1, MadeWhole
<1> QED
  BY <1>1, Invariance, PTL DEF Spec, DeploymentWhole, Deployment

\* DisposeLeavesOnlyFailed: while no DisposeBalticModule of a module has failed or
\* timed out, one that returns without an error leaves nothing of the module but
\* what was made by calls that failed or timed out.
THEOREM DisposeComplete == Spec => DisposeLeavesOnlyFailed
<1> DEFINE Left(d) ==
             Succeeds(d, "DisposeBalticModule") /\ NoDisposeFailed(req[d].module)
             => \A o \in OfModule(req[d].module) :
                  creator'[o] # Nobody => Failed(creator'[o])
<1>1. IInv /\ [Next]_vars => [\A d \in Calls : Left(d)]_vars
  <2> SUFFICES ASSUME IInv, [Next]_vars, NEW d \in Calls,
                      Succeeds(d, "DisposeBalticModule"),
                      NoDisposeFailed(req[d].module),
                      NEW o \in OfModule(req[d].module),
                      creator'[o] # Nobody, ~ Failed(creator'[o])
               PROVE  FALSE
    BY Zenon
  <2> DEFINE m == req[d].module
  <2>1. /\ BasicInv /\ Exclusive /\ Types /\ Truths /\ Control(d) /\ Work(d)
        /\ req[d].op = "DisposeBalticModule" /\ pc[d] # "done" /\ pc'[d] = "done"
        /\ ~ cancelled[d] /\ ~ reply'[d].err
        /\ o \in Object /\ o.module = m /\ MadeByRun(o)
    BY BasicParts DEF IInv, Succeeds, Returns, OfModule
  <2>2. DisposeReturns(d)
    <3>1. ~ (Same(d) \/ StartCall(d) \/ Timeout(d))
      BY <2>1, StartStep, TimeoutStep, FirstForm DEF Same
    <3>2. Step(d)
      BY <2>1, <3>1, CallsStep
    <3>3. ~ (CreateObject(d) \/ GetDeployment(d) \/ Asks(d))
      BY <2>1, CreatedStep, GetStep, AskStep DEF Control, WorkspaceOps
    <3>4. ~ DeletesNow(d)
      BY <2>1, <3>2, RemovesForm
    <3> QED
      BY <2>1, <3>2, <3>3, <3>4, StepKinds
  <2>3. /\ pc[d] = "deleteVolumes" /\ left[d] = <<>> /\ creator' = creator
        /\ ~ failed[d]
    BY <2>1, <2>2, DisposeStep DEF kubeVars
  <2>4. Remaining(d) = {}
    BY <2>3 DEF Remaining, Members
  <2>5. m \in Modules
    BY <2>1, <2>3, RunType DEF Deleting
  <2>6. ~ Good(o)
    <3>1. GoodFound(m) /\ Deletes(d, m)
      BY <2>3, <2>5 DEF IInv, Deletes, Deleting
    <3> QED
      BY <2>3, <2>4, <3>1, Zenon DEF GoodFound
  <2>7. Exists(o) /\ pc[creator[o]] # "done"
    BY <2>3, <2>6 DEF Good, Exists
  <2>8. /\ creator[o] \in Calls /\ OnModule(creator[o], m) /\ creator[o] # d
        /\ ~ Settled(creator[o])
    <3>1. /\ creator[o] \in Calls /\ req[creator[o]].op = "RunBalticModule"
          /\ req[creator[o]].module = m
      BY <2>1, <2>7, Maker
    <3>2. ~ cancelled[creator[o]]
      BY <2>3, Zenon DEF Failed
    <3> QED
      BY <2>1, <2>7, <3>1, <3>2 DEF OnModule, ModuleOps, Settled
  <2> QED
    BY <2>1, <2>3, <2>5, <2>8, Alone DEF Deleting
<1> QED
  BY <1>1, Invariance, PTL DEF Spec, DisposeLeavesOnlyFailed
=============================================================================
