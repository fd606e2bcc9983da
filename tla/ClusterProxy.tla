---------------------------- MODULE ClusterProxy ----------------------------
(***************************************************************************)
(* The cluster proxy: a gRPC server without state of its own that carries  *)
(* out the calls of a batch manager on the objects of one workspace (a     *)
(* Kubernetes namespace).  A call is a process; a step is one request to   *)
(* the Kubernetes API server, which may fail before or after it took       *)
(* effect.  The manager waits for a call on a module to return, or to time *)
(* out, before it sends the next one on that module; a call that timed out *)
(* goes on in the proxy, where only some of its requests carry the         *)
(* cancelled context.                                                      *)
(***************************************************************************)
EXTENDS Integers, Sequences

CONSTANTS
  Calls,        \* bound: the calls the manager makes, each made once
  Modules,      \* module IDs within the batch
  Builds,       \* what the manager may ask a module to be run with
  MaxVolumes,   \* bound: volumes of a build, of which there may be one at least
  MaxFaults,    \* bound: requests to Kubernetes that fail
  MaxTimeouts,  \* bound: calls whose context is cancelled
  Nobody        \* no call: the creator of an object that does not exist

\* XBalticModuleBuild: how many volumes, and whether there are config files.
Build == [volumes : 0..MaxVolumes, files : BOOLEAN]

ASSUME ProxyAssumption ==
  /\ MaxVolumes \in Nat \ {0} /\ MaxFaults \in Nat /\ MaxTimeouts \in Nat
  /\ Builds \subseteq Build
  /\ Nobody \notin Calls

VARIABLES
  \* The Kubernetes API server (external): the namespace, whether Rancher
  \* accepted its quota, the call that created each object, the volumes of
  \* each deployment, and its condition "Available"
  namespace, quotaValid, creator, volumesOf, available,
  \* The calls: where they are, what they ask for, whether the context is
  \* cancelled, objects still to be created or deleted, retErr, the reply
  pc, req, cancelled, left, failed, reply,
  faults, timeouts

kubeVars == <<namespace, quotaValid, creator, volumesOf, available>>
callVars == <<pc, req, cancelled, left, failed, reply>>
vars == <<kubeVars, callVars, faults, timeouts>>

Kinds == {"pvc", "configmap", "service", "deployment"}
Object == [module : Modules, kind : Kinds, idx : 0..(MaxVolumes - 1)]

\* Objects are named after the module; volumes have an index as well.
Named(m, kind)  == [module |-> m, kind |-> kind, idx |-> 0]
Volume(m, i)    == [module |-> m, kind |-> "pvc", idx |-> i]

VolumesFor(m, b) ==
  [i \in 1..b.volumes |-> Volume(m, i - 1)]
    \o (IF b.files THEN <<Named(m, "configmap")>> ELSE <<>>)

\* The order in which RunBalticModule creates the objects of a module.
ObjectsFor(m, b) ==
  VolumesFor(m, b) \o <<Named(m, "service"), Named(m, "deployment")>>

ModuleOps    == {"RunBalticModule", "CheckBalticModuleStatus", "DisposeBalticModule"}
WorkspaceOps == {"PrepareWorkspace", "CheckWorkspaceStatus", "PurgeWorkspace"}
ModuleRequest    == [op : ModuleOps, module : Modules, build : Builds]
WorkspaceRequest == [op : WorkspaceOps]
Request == ModuleRequest \cup WorkspaceRequest
NoRequest == [op |-> "none"]

Labels == {"new", "ask", "create", "get", "deleteDeployment", "deleteService",
           "deleteVolumes", "done"}
Statuses == {"PENDING", "ACTIVE", "NOT_FOUND", "ERROR"}
Reply == [status : Statuses, err : BOOLEAN]
NoReply == [status |-> "PENDING", err |-> FALSE]

TypeOK ==
  /\ namespace \in {"absent", "active", "terminating"} /\ quotaValid \in BOOLEAN
  /\ creator \in [Object -> Calls \cup {Nobody}]
  /\ volumesOf \in [Modules -> Seq(Object)]
  /\ available \in [Modules -> {"none", "True", "False"}]
  /\ pc \in [Calls -> Labels]
  /\ req \in [Calls -> Request \cup {NoRequest}]
  /\ cancelled \in [Calls -> BOOLEAN]
  /\ left \in [Calls -> Seq(Object)]
  /\ failed \in [Calls -> BOOLEAN]
  /\ reply \in [Calls -> Reply]
  /\ faults \in Nat /\ timeouts \in Nat

Init ==
  /\ namespace = "absent" /\ quotaValid = TRUE
  /\ creator = [o \in Object |-> Nobody]
  /\ volumesOf = [m \in Modules |-> <<>>]
  /\ available = [m \in Modules |-> "none"]
  /\ pc = [c \in Calls |-> "new"]
  /\ req = [c \in Calls |-> NoRequest]
  /\ cancelled = [c \in Calls |-> FALSE]
  /\ left = [c \in Calls |-> <<>>]
  /\ failed = [c \in Calls |-> FALSE]
  /\ reply = [c \in Calls |-> NoReply]
  /\ faults = 0 /\ timeouts = 0

-----------------------------------------------------------------------------
(* The batch manager (external) *)

Settled(c) == pc[c] = "done" \/ cancelled[c]

\* The manager waits for a call on the same module, or for every call if it asks
\* about the workspace.  The workspace is prepared once: a batch ID is unique.
MayAsk(r) ==
  IF r.op \in ModuleOps
  THEN \A d \in Calls : req[d].op \in ModuleOps /\ req[d].module = r.module => Settled(d)
  ELSE /\ \A d \in Calls : pc[d] # "new" => Settled(d)
       /\ r.op = "PrepareWorkspace" => \A d \in Calls :
            req[d].op \notin {"PrepareWorkspace", "PurgeWorkspace"}

FirstLabel(op) ==
  IF op = "RunBalticModule" THEN "create"
  ELSE IF op = "DisposeBalticModule" THEN "get" ELSE "ask"

StartCall(c) ==
  /\ pc[c] = "new"
  /\ \E r \in Request :
       /\ MayAsk(r)
       /\ req' = [req EXCEPT ![c] = r]
       /\ pc' = [pc EXCEPT ![c] = FirstLabel(r.op)]
       /\ left' = [left EXCEPT ![c] = IF r.op = "RunBalticModule"
                                      THEN ObjectsFor(r.module, r.build) ELSE <<>>]
  /\ UNCHANGED <<kubeVars, cancelled, failed, reply, faults, timeouts>>

\* The manager stops waiting, and gRPC cancels the context of the call.
Timeout(c) ==
  /\ pc[c] \notin {"new", "done"} /\ ~ cancelled[c]
  /\ timeouts < MaxTimeouts /\ timeouts' = timeouts + 1
  /\ cancelled' = [cancelled EXCEPT ![c] = TRUE]
  /\ UNCHANGED <<kubeVars, pc, req, left, failed, reply, faults>>

-----------------------------------------------------------------------------
(* Requests to Kubernetes *)

Fault == faults < MaxFaults /\ faults' = faults + 1
Exists(o) == creator[o] # Nobody

Return(c, status, err) ==
  /\ pc' = [pc EXCEPT ![c] = "done"]
  /\ reply' = [reply EXCEPT ![c] = [status |-> status, err |-> err]]
  /\ left' = [left EXCEPT ![c] = <<>>]
  /\ UNCHANGED <<req, cancelled, failed>>

\* Object o comes into being for call c, or disappears.
Put(o, c) ==
  /\ creator' = [creator EXCEPT ![o] = c]
  /\ IF o.kind = "deployment"
     THEN /\ volumesOf' = [volumesOf EXCEPT ![o.module] =
               IF c = Nobody THEN <<>> ELSE VolumesFor(o.module, req[c].build)]
          /\ available' = [available EXCEPT ![o.module] = "none"]
     ELSE UNCHANGED <<volumesOf, available>>
  /\ UNCHANGED <<namespace, quotaValid>>

-----------------------------------------------------------------------------
(* RunBalticModule *)

\* Only the requests for volumes carry the context of the call.
CreateReaches(c, o) == ~ (cancelled[c] /\ o.kind = "pvc")
CreateAccepted(o)   == namespace = "active" /\ ~ Exists(o)

\* Mutant of RunFails: an error at a config map is logged and passed over.
PassOverConfigMap(c, o) ==
  IF o.kind = "configmap"
  THEN /\ left' = [left EXCEPT ![c] = Tail(@)]
       /\ UNCHANGED <<pc, req, cancelled, failed, reply>>
  ELSE Return(c, IF o.kind = "deployment" THEN "PENDING" ELSE "ERROR", TRUE)

\* The reply after an error at object o.  Nothing that was created is undone.
RunFails(c, o) ==
  Return(c, IF o.kind = "deployment" THEN "PENDING" ELSE "ERROR", TRUE)

Created(c) ==
  IF Tail(left[c]) = <<>> THEN Return(c, "PENDING", FALSE)
  ELSE /\ left' = [left EXCEPT ![c] = Tail(@)]
       /\ UNCHANGED <<pc, req, cancelled, failed, reply>>

CreateObject(c) ==
  /\ pc[c] = "create"
  /\ LET o == Head(left[c]) IN
       \/ /\ CreateReaches(c, o) /\ CreateAccepted(o)
          /\ Put(o, c) /\ Created(c) /\ UNCHANGED faults
       \/ /\ ~ (CreateReaches(c, o) /\ CreateAccepted(o))
          /\ RunFails(c, o) /\ UNCHANGED <<kubeVars, faults>>
       \/ /\ Fault /\ RunFails(c, o)
          /\ \/ UNCHANGED kubeVars
             \/ CreateReaches(c, o) /\ CreateAccepted(o) /\ Put(o, c)
  /\ UNCHANGED timeouts

-----------------------------------------------------------------------------
(* DisposeBalticModule *)

\* An error is kept for the reply, and the call goes on.
Proceed(c, to, err) ==
  /\ pc' = [pc EXCEPT ![c] = to]
  /\ failed' = [failed EXCEPT ![c] = @ \/ err]
  /\ UNCHANGED <<req, cancelled, reply>>

\* Mutant of ToDelete: the volumes that are config maps are forgotten.
ClaimsOnly(m) == SelectSeq(volumesOf[m], LAMBDA o : o.kind = "pvc")

\* Mutant of ToDelete: the claims' names are made up again, counted from one.
CountedFromOne(m) ==
  [i \in DOMAIN volumesOf[m] |->
     IF volumesOf[m][i].kind = "pvc" THEN Volume(m, i) ELSE volumesOf[m][i]]

ToDelete(m) == volumesOf[m]

\* The volumes to be deleted are those of the deployment read here: none if it
\* cannot be read.
GetDeployment(c) ==
  /\ pc[c] = "get"
  /\ LET d == Named(req[c].module, "deployment") IN
       \/ /\ ~ cancelled[c] /\ Exists(d)
          /\ left' = [left EXCEPT ![c] = ToDelete(req[c].module)]
          /\ Proceed(c, "deleteDeployment", FALSE) /\ UNCHANGED faults
       \/ /\ cancelled[c] \/ ~ Exists(d)
          /\ Proceed(c, "deleteDeployment", TRUE) /\ UNCHANGED <<left, faults>>
       \/ Fault /\ Proceed(c, "deleteDeployment", TRUE) /\ UNCHANGED left
  /\ UNCHANGED <<kubeVars, timeouts>>

\* Mutant of DeleteObject: the request does not carry the context of the call.
DeleteWithoutContext(c, o, to) ==
  \/ Exists(o) /\ Put(o, Nobody) /\ Proceed(c, to, FALSE) /\ UNCHANGED faults
  \/ ~ Exists(o) /\ Proceed(c, to, TRUE) /\ UNCHANGED <<kubeVars, faults>>
  \/ Fault /\ Proceed(c, to, TRUE) /\ UNCHANGED kubeVars

DeleteObject(c, o, to) ==
  \/ /\ ~ cancelled[c] /\ Exists(o)
     /\ Put(o, Nobody) /\ Proceed(c, to, FALSE) /\ UNCHANGED faults
  \/ /\ cancelled[c] \/ ~ Exists(o)
     /\ Proceed(c, to, TRUE) /\ UNCHANGED <<kubeVars, faults>>
  \/ /\ Fault /\ Proceed(c, to, TRUE)
     /\ \/ UNCHANGED kubeVars
        \/ ~ cancelled[c] /\ Exists(o) /\ Put(o, Nobody)

DeleteDeployment(c) ==
  /\ pc[c] = "deleteDeployment"
  /\ DeleteObject(c, Named(req[c].module, "deployment"), "deleteService")
  /\ UNCHANGED <<left, timeouts>>

DeleteService(c) ==
  /\ pc[c] = "deleteService"
  /\ DeleteObject(c, Named(req[c].module, "service"), "deleteVolumes")
  /\ UNCHANGED <<left, timeouts>>

DeleteVolume(c) ==
  /\ pc[c] = "deleteVolumes" /\ left[c] # <<>>
  /\ DeleteObject(c, Head(left[c]), "deleteVolumes")
  /\ left' = [left EXCEPT ![c] = Tail(@)]
  /\ UNCHANGED timeouts

DisposeReturns(c) ==
  /\ pc[c] = "deleteVolumes" /\ left[c] = <<>>
  /\ Return(c, IF failed[c] THEN "ERROR" ELSE "PENDING", failed[c])
  /\ UNCHANGED <<kubeVars, faults, timeouts>>

-----------------------------------------------------------------------------
(* The calls that make one request *)

\* The request of c for op fails.
AskFails(c) == Return(c, "ERROR", TRUE)

PrepareWorkspace(c) ==
  /\ pc[c] = "ask" /\ req[c].op = "PrepareWorkspace"
  /\ \/ /\ namespace = "absent" /\ namespace' = "active"
        /\ \/ Return(c, "ACTIVE", FALSE) /\ UNCHANGED faults
           \/ AskFails(c) /\ Fault
     \/ namespace # "absent" /\ AskFails(c) /\ UNCHANGED <<namespace, faults>>
     \/ AskFails(c) /\ Fault /\ UNCHANGED namespace
  /\ UNCHANGED <<quotaValid, creator, volumesOf, available, timeouts>>

CheckWorkspaceStatus(c) ==
  /\ pc[c] = "ask" /\ req[c].op = "CheckWorkspaceStatus"
  /\ \/ namespace = "absent" /\ AskFails(c) /\ UNCHANGED faults
     \/ /\ namespace = "active" /\ UNCHANGED faults
        /\ Return(c, IF quotaValid THEN "ACTIVE" ELSE "ERROR", FALSE)
     \/ namespace = "terminating" /\ Return(c, "PENDING", FALSE) /\ UNCHANGED faults
     \/ AskFails(c) /\ Fault
  /\ UNCHANGED <<kubeVars, timeouts>>

PurgeWorkspace(c) ==
  /\ pc[c] = "ask" /\ req[c].op = "PurgeWorkspace"
  /\ \/ /\ namespace # "absent" /\ namespace' = "terminating"
        /\ \/ Return(c, "NOT_FOUND", FALSE) /\ UNCHANGED faults
           \/ AskFails(c) /\ Fault
     \/ namespace = "absent" /\ AskFails(c) /\ UNCHANGED <<namespace, faults>>
     \/ AskFails(c) /\ Fault /\ UNCHANGED namespace
  /\ UNCHANGED <<quotaValid, creator, volumesOf, available, timeouts>>

\* The condition "Available" of the deployment, if it has one.
ModuleStatus(m) ==
  IF available[m] = "none" THEN "PENDING"
  ELSE IF available[m] = "False" THEN "ERROR" ELSE "ACTIVE"

\* Of the objects of the module, only the deployment is looked at.
CheckBalticModuleStatus(c) ==
  /\ pc[c] = "ask" /\ req[c].op = "CheckBalticModuleStatus"
  /\ LET m == req[c].module
         read == ~ cancelled[c] /\ Exists(Named(m, "deployment"))
     IN
       \/ ~ read /\ AskFails(c) /\ UNCHANGED faults
       \/ read /\ Return(c, ModuleStatus(m), FALSE) /\ UNCHANGED faults
       \/ AskFails(c) /\ Fault
  /\ UNCHANGED <<kubeVars, timeouts>>

-----------------------------------------------------------------------------
(* Kubernetes and Rancher (external) *)

\* The deployment controller reports on a deployment.
ReportAvailable(m) ==
  /\ Exists(Named(m, "deployment"))
  /\ \E a \in {"True", "False"} : available' = [available EXCEPT ![m] = a]
  /\ UNCHANGED <<namespace, quotaValid, creator, volumesOf, callVars, faults, timeouts>>

RejectQuota ==
  /\ namespace = "active" /\ quotaValid /\ quotaValid' = FALSE
  /\ UNCHANGED <<namespace, creator, volumesOf, available, callVars, faults, timeouts>>

\* A terminating namespace loses its objects, and then goes.
CollectObject ==
  /\ namespace = "terminating"
  /\ \E o \in Object : Exists(o) /\ Put(o, Nobody)
  /\ UNCHANGED <<callVars, faults, timeouts>>

RemoveNamespace ==
  /\ namespace = "terminating" /\ \A o \in Object : ~ Exists(o)
  /\ namespace' = "absent"
  /\ UNCHANGED <<quotaValid, creator, volumesOf, available, callVars, faults, timeouts>>

-----------------------------------------------------------------------------
Step(c) ==
  \/ CreateObject(c)
  \/ GetDeployment(c) \/ DeleteDeployment(c) \/ DeleteService(c)
  \/ DeleteVolume(c) \/ DisposeReturns(c)
  \/ PrepareWorkspace(c) \/ CheckWorkspaceStatus(c) \/ PurgeWorkspace(c)
  \/ CheckBalticModuleStatus(c)

Kube == \/ \E m \in Modules : ReportAvailable(m)
        \/ RejectQuota \/ CollectObject \/ RemoveNamespace

Next == Kube \/ \E c \in Calls : StartCall(c) \/ Timeout(c) \/ Step(c)

Spec == Init /\ [][Next]_vars

-----------------------------------------------------------------------------
(* Properties *)

\* Call c on a module, which the manager still waits for, returns in this step.
Returns(c, op) ==
  /\ req[c].op = op /\ pc[c] # "done" /\ pc'[c] = "done" /\ ~ cancelled[c]
Succeeds(c, op) == Returns(c, op) /\ ~ reply'[c].err

OfModule(m) == {o \in Object : o.module = m}
Members(s) == {s[i] : i \in DOMAIN s}

Failed(c) == cancelled[c] \/ reply[c].err

NoDisposeFailed(m) ==
  \A c \in Calls : req[c].op = "DisposeBalticModule" /\ Failed(c)
                   => req[c].module # m

\* While no DisposeBalticModule of a module has failed or timed out, its
\* deployment is created only with all its volumes and its config map in place,
\* made by the same call: neither a call that timed out and goes on alongside
\* its retry, nor one that disposes of the module, nor the end of the workspace
\* lets a deployment mount what another build left behind.
DeploymentWhole ==
  [][\A c \in Calls, m \in Modules :
       /\ NoDisposeFailed(m)
       /\ creator[Named(m, "deployment")] = Nobody
       /\ creator'[Named(m, "deployment")] = c
       => \A o \in Members(VolumesFor(m, req[c].build)) : creator'[o] = c]_vars

\* RunBalticModule returns without an error to a manager that still waits only
\* if every object of the module exists and this very call made it.
RunReportsWhole ==
  [][\A c \in Calls : Succeeds(c, "RunBalticModule") =>
       \A o \in Members(ObjectsFor(req[c].module, req[c].build)) :
          creator'[o] = c]_vars

\* While no DisposeBalticModule of a module has failed or timed out, one that
\* returns without an error leaves nothing of the module but what was made by
\* calls that failed or timed out.
DisposeLeavesOnlyFailed ==
  [][\A d \in Calls :
       Succeeds(d, "DisposeBalticModule") /\ NoDisposeFailed(req[d].module)
       => \A o \in OfModule(req[d].module) :
            creator'[o] # Nobody => Failed(creator'[o])]_vars

-----------------------------------------------------------------------------
(* What the README says, and the code does not keep *)

\* README: dispose runs delete on all created by RunBalticModule.  With requests
\* that do not fail, nothing of the module is left when a call that the manager
\* waits for returns, unless another call on the module is still going on.
DisposeRemovesAll ==
  [][\A d \in Calls :
       /\ Returns(d, "DisposeBalticModule")
       /\ \A c \in Calls \ {d} :
            req[c].op = "RunBalticModule" /\ req[c].module = req[d].module
              => pc[c] = "done"
       => \A o \in OfModule(req[d].module) : creator'[o] = Nobody]_vars
=============================================================================
