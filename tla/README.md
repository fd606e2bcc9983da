# A formal model of the BalticLSC platform

TLA+ modules, TLC configurations and TLAPS proofs for the programs of this
repository that work on state they share with concurrent requests or with their
own earlier lives: the **namespace controller** (a Kubernetes admission webhook),
the **cluster proxy** (a gRPC server that runs modules of a batch in a Kubernetes
namespace and describes the cluster), the **Rancher client** (a library whose
calls are sequences of requests), the **driver installer** (a script that is run
again whenever it fails) and the **boogeyman** (the chaos tests of the platform's
storage).

Paths below are relative to the repository; line numbers are those of the
modelled commit. `PROJECT.json` lists every definition with the lines it stands
for, every run, every mutant (a plausible bug that a property must catch),
the hazards, the findings and the theorems.

## 1. Inventory

### 1.1 Namespace controller (`namespace-controller/`)

* **State.** One process, with one `ProjectResolver` shared by all requests. Its
  cache is two Go maps without a lock: `User2projects` (user ID to a list of
  `{IsOwner, ProjectID, ProjectName}`) and `Namespace2ProjectID`. Open Policy
  Agent holds a copy of it under `/v1/data/rancher`. Rancher holds the truth:
  projects, their role bindings, and which project a namespace belongs to.
* **Operations.** `DoServeAdmitFunc` answers a *Namespace* request from the
  list of projects of its user (annotate, deny, or leave alone), and a *Pod*
  request from the project of its namespace and some user of that project
  (check resource limits, or leave alone). A miss calls `UpdateCache`: list
  projects, clear both maps, for every project list members (append to each
  user's list) and namespaces (store), then PUT the maps to OPA.
* **Interactions.** The API server calls the webhook; `net/http` runs a goroutine
  per request; the controller calls Rancher and OPA.
* **Hard.** Everything in `UpdateCache` interleaves with every other handler.
  Lists are read (line 150) and written (156) in separate steps. A call that
  fails leaves the cache cleared and half full. The Go runtime stops the
  process when it notices a map race. Rancher's HTTP status is never looked at.
  The deployed webhook is `v1beta1` without a `failurePolicy`, that is *Ignore*:
  an empty body, a status 500 or a broken connection lets the object through
  unchanged.
* **Correct** if nothing that was revoked or moved outlives the next rebuild of the
  cache, every request is answered, and, one request at a time, the answers follow
  from whole pictures of the directory. Its README promises more (the correct
  project, and no annotation for members of several projects or owners). Where
  the code does not keep that is shown by `doubled_entry` and `half_rebuilt`, and
  said in 3.1.

### 1.2 Cluster proxy (`cluster-proxy/server`)

* **State.** None of its own: it carries out calls on a Kubernetes namespace per
  batch (*workspace*). Objects are named after the module, volumes with an index.
* **Operations.** `PrepareWorkspace`, `CheckWorkspaceStatus`, `PurgeWorkspace`
  (one request each); `RunBalticModule` (claims, config map, service, deployment,
  one request each, stopping at the first error); `CheckBalticModuleStatus` (one
  read); `DisposeBalticModule` (read the deployment, delete it, delete the
  service, delete the volumes it had, going on after errors);
  `GetClusterDescription` (quotas from Rancher, the list of nodes, and a read per
  node; what fails is logged and stays empty).
* **Interactions.** A batch manager calls over gRPC and waits with a timeout
  (5 s in `client/main.go:246`); the proxy calls the API server, with the
  context of the call in some requests (215, 428, 469-505) and without in
  others (105, 130, 170, 264, 305, 404).
* **Hard.** Partial failure without undo, retries that find objects of an earlier
  attempt, calls that go on after their caller gave up, namespaces that end while
  a call is at work. A description is put together from several reads while
  nodes and workspaces come and go, and its numbers are rounded.
* **Correct** if a reported success means what it says about the objects of the
  module, no deployment mounts what another attempt left, and a description says
  of each node what was true of it at one moment, and of quotas no more than is
  free.

### 1.3 Boogeyman (`tests/boogeyman`)

* **State.** Three maps of the deployments, claims and pods believed to exist,
  written by one goroutine, `masterWorker`, and read by others without a lock.
* **Operations.** Public methods send commands over an unbuffered channel; three
  watchers send events over the same channel; the worker carries out one at a
  time. `Cleanup` (Ctrl+C) ranges over the maps on a goroutine of its own.
  Chaos monkeys call `DeleteRandomPod` or `DeleteRandomDeployment` at random
  times. TestSmoke4 deploys again when the map is too small.
* **Hard.** The maps lag behind the cluster; a watch that ends is never restarted;
  `rand.Intn(0)` panics; Cleanup races with the worker.
* **Correct** if the maps are exactly the cluster minus the events on their way,
  a claim exists before the deployment that mounts it, and TestSmoke4 gets its
  deployments back.

### 1.4 Rancher client (`upstream/rancher-go/client`)

* **State.** None: an HTTP client. Rancher holds projects, their settings and
  their role bindings.
* **Operations.** `CreateProject` (make the project, add its members, set its
  policy), `UpdateProject` (read the members and the project, write the details,
  write the policy if it differs from the one read, add the members wanted and
  not read, delete those read and not wanted), `AddProjectMember`,
  `DeleteProject`; reads for the other programs.
* **Interactions.** The caller of the library; Rancher's REST interface.
* **Hard.** A call is a sequence of requests that other calls interleave with:
  differences are computed from an earlier read. Errors of members are logged and
  not returned; the status of the list of members, of the PUT and of the policy is
  not looked at, so that a refusal reads as success or as an empty list.
* **Correct** if, when all has come to rest, a project is as the calls that had the
  last word said, whatever earlier calls left half done; and if an error means
  that no member was touched.

### 1.5 Driver installer (`nvidia-drivers/build/entrypoint.sh`)

* **State.** In a directory of the host: what the NVIDIA installer has built, and a
  cache file that says for which kernel and driver. In the kernel: the loaded
  modules.
* **Operations.** `main`: believe the cache file if it names the running kernel
  and the wanted driver and load what is in the directory; otherwise install anew
  and write the cache file; then verify.
* **Interactions.** The kubelet starts it again after every failure, boot and
  update of the DaemonSet.
* **Hard.** It can be killed between any two steps. The old cache file stays while
  the directory is overwritten, and the new one is written before the
  installation has been verified.
* **Correct** if success means that the wanted driver runs, and if it succeeds in
  the end.

### 1.6 The other parts

| part | state and operations | status |
|---|---|---|
| `upstream/rancher-go/client`: users, tokens, lists | one request each, of which nothing else here depends on; parsing of names | not modelled |
| admission check of a container's limits (`admission_controller.go:163-203`) | pure | one verdict in the model |
| `ingress-rule-conflict-controller` | 25 lines of Rego without state of their own; the inventory and its synchronisation are Gatekeeper's | not modelled: a model would be one of Gatekeeper |
| `tests/boogeyman/producer`, `consumer` | containers that write and read files | not modelled: pure I/O |
| `cluster-proxy/client` | a script of calls | only as the environment of the proxy |
| `deployment`, `resource-monitoring`, `docs` | playbooks, configuration, queries, pictures | not modelled: no state machine |

## 2. Modules

| module | what it is |
|---|---|
| `ProjectDirectory` | vocabulary of the namespace controller: bindings, cache entries, requests, replies, and the decision on a resolved list |
| `NamespaceController` | the webhook: one action per call or cache access of a handler, Rancher's changes, crash and restart |
| `CacheHistory` | the webhook with a memory of what Rancher has held lately, and the property that bounds the age of the cache's entries |
| `SerialController` | the webhook while requests come one at a time, no call fails and the directory changes between requests |
| `AdmissionPolicy` | the abstract specification: answers decided by whole, possibly old pictures of the directory |
| `NamespaceController_proofs`, `SerialController_proofs`, `SerialPolicy_proofs` | the theorems of the three, and the refinement of the policy |
| `ClusterProxy`, `ClusterProxy_proofs` | the proxy and the objects of one workspace, and its theorems |
| `ClusterDescription`, `ClusterDescription_proofs` | `GetClusterDescription`, with nodes and workspaces that change meanwhile, and its theorems |
| `RancherProjects`, `RancherProjects_proofs` | the calls of the Rancher client that write projects and members, and their theorems |
| `DriverInstaller`, `DriverInstaller_proofs` | the installer, what outlives it, and the kubelet; its theorems |
| `Boogeyman`, `Boogeyman_proofs` | worker, watches, callers, TestSmoke3 and 4, Cleanup, and the API server as far as they see it; its theorems |
| `MCNamespaceController`, `MCCacheHistory`, `MCSerialController`, `MCClusterProxy`, `MCClusterDescription`, `MCRancherProjects`, `MCBoogeyman` | small instances for TLC |

`NamespaceController` extends `ProjectDirectory`; `CacheHistory` and
`SerialController` extend `NamespaceController`, and `SerialController` instantiates
`AdmissionPolicy` with a refinement mapping.
The other components meet only in
Kubernetes and Rancher, each of which is modelled as far as the component sees it:
`ClusterDescription` has the quotas that `PrepareWorkspace` writes, and the
client's reads are part of `NamespaceController`.

### 2.1 NamespaceController

| code | model |
|---|---|
| `ProjectResolverCache` | `user2projects`, `namespace2project`; a missing key is `<<>>`, or `NoProject` for `""` |
| OPA's document | `opa` |
| Rancher | `bindings`, `nsOf`; `everIn` remembers every project a namespace was ever in |
| a goroutine's position, locals and answer | `pc`, `req`, `ret`, `target`, `upd`, `sent`, `reply` |
| `ResolveProjectsByUser` 65-79 | `LookupUser`, `RereadUser` |
| `ResolveProjectIdbyNamespace` 81-95 | `LookupNamespace`, `RereadNamespace` |
| `FindUserByProject` 110-131 | `FindUser`, `RefindUser`, `CountProjects` |
| `UpdateCache` 133-188, `ClearCache` 207-215 | `GetProjects`, `ClearCache` (two steps), `GetProjectMembers`, `ReadUserProjects`/`StoreUserProjects` (the two halves of an append), `GetProjectNamespaces`, `StoreNamespace`, `MarshalCache`, `PutToOPA` |
| the API server and administrators | `ReceiveRequest`, `CreateNamespace`, `ChangeDirectory` |
| the Go runtime, Kubernetes | `CrashOnMapRace`, `Restart` |

A map access is one step, and so are marshalling the cache and searching it: a
search that meets a concurrent write may crash the process, which is a step of
the model, or sees the map before or after it. The members of a project, its
namespaces and the projects are visited in any order, which includes the order
of Rancher's list. A call to Rancher may bring an empty list instead of an
error (`Brings`), since the client does not check the status. Group bindings
have the user ID `""`, the constant `EmptyUser`, which no requester has. The
limits check of a pod is one verdict, `limit`. Decoding errors are left out. Those
of the request (`admission_controller.go:54-79`) are answered before any state is
touched. Those of the object in it (116-120, 146-150) come later: the pod's is
found before its resolvers are called, but the namespace's after its own, which
may have rebuilt the cache. The reply is an error then, and the cache stays
rebuilt, as after any other request that missed it.

`CacheHistory` adds four variables that follow the steps and stop none of them.
`restBindings` and `restPlaces` are what Rancher has held since the controller was
last at rest, that is since no request was being served; `cacheBindings` and
`cachePlaces` are what it has held since it was at rest before the map of users,
or of namespaces, was last emptied.

### 2.2 ClusterProxy

Every call of the manager is a process that is used once; a step is one request
to Kubernetes, which is accepted, refused (the namespace is missing or ending,
or the object exists or does not), or fails for another reason before or after
it took effect (`Fault`). `creator` says for each object which call made it.
`Timeout` cancels the context of a call; `CreateReaches`, `GetDeployment` and
`DeleteObject` say which requests notice. A request in flight when the
context is cancelled is a fault followed by the timeout. The manager does not
send a call on a module while it waits for another on it, and it prepares a
workspace once, since a batch ID is unique (`proto/clusterproxy.proto:56`).
Deleting an object is immediate: finalizers (a claim still mounted) delay the
disappearance and are left out, as are the contents of the objects except the
volumes that the deployment lists.

### 2.3 Boogeyman

`view` is the three maps, `cluster` and `terminating` the API server's objects,
`stream` the events that a watch has still to hand over, `offer` the command a
caller is blocked on at the channel. `ReceiveCommand` and `ReceiveEvent` are
enabled only when the worker is at its `select`; `CreatePVC`,
`CreateDeployment` and `DeleteNext` are one request each. `Interrupt`,
`CleanNext` and `CleanDone` are `HandleCtrlC` and `Cleanup`, with Go's rules for
ranging over a changing map. Deletion is in the foreground (`terminating`, later
`Gone`). A deployment made by `Deploy` and its own claim have the same number;
0 is the shared claim.

### 2.4 ClusterDescription

| code | model |
|---|---|
| the namespaces' quotas, as `PrepareWorkspace` writes them (83-95) | `workspaces`, `QuotaOf`; Rancher sums them in `Used` |
| the nodes in Kubernetes (external) | `nodes`, changed by `ChangeNode` |
| the locals of `GetClusterDescription` (586-637) | `pc`, `toGet`, `answer` |
| the call to Rancher, `formatQuotas` 557-584 | `GetProjectQuotas`, `FormatQuotas` |
| the list of nodes, and the read of each (603-636) | `ListNodes`, `GetNode` |
| `cond2status`, `resource2capacity` 519-555 | `NodeStatus`, `EntryOf` |

A description takes several reads; nodes and workspaces may change between any two.
A failing read is logged, and the answer lacks its part; Rancher's status is not
looked at, so that a refusal gives quotas of nothing. `seen` and `free` remember,
for the properties, what each node has been since the call began and what was
free when the quotas were read. Quantities are numbers in a unit that makes them
whole; what Kubernetes' `Value` and `AsInt64` do to them (round up, and 0 for a
fraction) is modelled. Names, labels and versions of nodes are copied without
being looked at and are left out. Two calls share nothing, so there is one.

### 2.5 RancherProjects

A call is a process that is used once, and a step is one request. `Sends` says what
may become of a request: it is accepted; refused because what it is about does
not exist; refused for another reason; or the connection breaks before or
after it took effect. The client's reaction to each is the arguments of `Sends`:
`MemberDone` logs an error (340-345, 407-410), `AfterPut` and `AfterPolicy` do
not look at the status, `ReadMembers` reads a refusal as an empty list,
`ReadProject` looks at the status. `toAdd` and `toDelete` are what the two loops
of 406-418 have still to do. A binding has an ID, which tells two bindings of the
same member apart: `made` counts how many a member was given, over all
projects. A member whose type is neither User nor Group (`Untyped`) is an error
before any request. `before` remembers which calls had returned when a call started,
`intact` whether a request of it failed, `touched` whether it changed a binding:
these are read by the properties only. Names, descriptions and quotas are one
value, `details`; the cluster's default policy is that of `FirstSetting`.

### 2.6 DriverInstaller

Each function of the script is an action, and the two that can be interrupted half
way are several: the installer writes the parts of the directory one after the
other (`RunInstaller`), and the redirection empties the cache file before
the text is written (`OpenCacheFile`, `WriteCacheFile`). `Fails` is a command that
fails and ends the script (`errexit`); a failing `apt-get update` in the
middle of an `&&` list does not, and leaves the container without the headers.
`Kill`, `Boot` and `UpdateDaemonSet` may come at any point, and start over with an
empty container, the directory as it is and, after a boot, no module loaded.
`CanLoad` and `Verifies` say what `insmod`, `nvidia-smi` and `nvidia-modprobe`
depend on (external). Versions are numbers: with `Rollbacks = FALSE` they only
grow.

## 3. Runs

All runs have `CHECK_DEADLOCK FALSE`: requests, calls and commands are bounded,
so every instance comes to a stop when they are used up.

| run | checks | instance |
|---|---|---|
| `admission_serial` | `ImplementsPolicy`, `OpaMirrorsCache` | 2 handlers, 2 requests one after the other, 1 change of the directory between requests, 5 starting directories x 2 placements (nobody; plain, double and owning members, groups, a user in two roles) |
| `admission_race` | `TypeOK`, `LimitBacked`, `CacheRecent`, `EveryRequestAnswered` | 2 handlers, 3 requests, 1 change of the directory and 1 fault or restart at any point, 1 user, 1 project, 1 namespace that is in no project at first, both roles |
| `doubled_entry` | violates `SoleMemberAnnotated` | 2 handlers, 3 requests |
| `half_rebuilt` | violates `SeveralNotAnnotated` | 2 handlers, 2 requests of a user who is a member of one project and owns another, 1 fault, no change |
| `proxy_calls` | `TypeOK`, `DeploymentWhole`, `RunReportsWhole`, `DisposeLeavesOnlyFailed` | 5 calls, 1 module with a claim and a config map, 1 fault, 1 timeout |
| `dispose_leak` | violates `DisposeRemovesAll` | 3 calls, two claims, 1 timeout, no fault |
| `cluster_description` | `TypeOK`, `NodesAsTheyWere`, `FreeIsFree` | 2 nodes with 3 states (ready, under pressure with part of a core, not ready), 2 workspaces with 2 quotas, limits that are no whole cores, Mi or Gi, 3 changes of nodes, 1 fault, any number of calls |
| `project_updates` | `TypeOK`, `MembersSettle`, `SettingsSettle`, `ErrorMeansUntouched` | 3 calls of all kinds, 2 projects of which one exists, 3 members of which one has no type, 2 lists, 2 settings, 1 fault |
| `driver_install` | `TypeOK`, `RequestedDriverRuns`, `GetsInstalled` | 2 kernels, 3 drivers, 3 kills or failures, 2 boots, 2 updates, no rollbacks |
| `boogeyman_commands` | `ViewLagsByStream`, `ClaimFirst` | all methods, 3 commands, 1 pod, 1 fault or ended watch, Ctrl+C |
| `boogeyman_recreate` | `TypeOK`, `WorkUndone` | 2 wanted deployments, 2 deletions, names enough |
| `boogeyman_cleanup` | violates `AllDeletedOnExit` | 1 deployment, Ctrl+C |

**Why these bounds are enough.** A race on the cache needs two handlers; a third
request reads what the race left behind. One request at a time, two are enough:
one fills the cache, and after a change of the directory the other finds it old.
`admission_race` has changes, faults and two handlers at once, with one project and
one namespace: what it asks is whether something comes back that was revoked, or a
namespace is placed where it never was, and for that one binding that goes and one
namespace outside the project are enough. A user with two projects is in
`admission_serial`, `doubled_entry` and `half_rebuilt`; the theorems about these
properties have no such bounds. Five calls of
the proxy hold the longest pattern of interest: prepare, a run that times out, a
retry or a dispose beside it, a second run, and a purge or a status check; one
module is enough, since calls on different modules share nothing but the
namespace. The boogeyman's maps are per kind and per name; one object of each
kind and three commands let a create, a delete and a third command overlap with
every event of the first. Three calls on a project are two that overlap and one
that finds what they left, or has left what they find; two projects, because a
binding's ID must not be taken for another project's. A description with two
nodes has one read while the other changes; three changes take a node away, back
and into another state within a call. Three kills of the installer can hit an
installation, the retry and the retry after the next boot or update; two boots
and two updates go through all versions. `boogeyman_recreate` has `MaxNames` =
`Wanted` + `MaxCalls`, so that the test is never kept from deploying by the
bound. Symmetry is used where the processes are interchangeable, and only in
runs without liveness.

**Fairness.** `admission_race` assumes weak fairness of a handler's steps: Go
schedules every goroutine, and Rancher and OPA answer or fail. The HTTP clients
have no timeout (`resty`, `&http.Client{}`), so this is an assumption on the
servers and not on the code. The run's invariants hold without it.
`boogeyman_recreate` assumes weak fairness of the worker's own steps, of the test's loop (it wakes up every second) and of the end
of deletions in the API server, and strong fairness of the hand-over at the
channel, whose blocked senders Go serves in their order. `driver_install` assumes
weak fairness of the script's next step and of the kubelet's restart of a failed
init container, which is what the restart policy of a DaemonSet's pods says; kills,
boots and updates are bounded and not fair. The other runs check safety only.

**What the passing runs show.**

* *ImplementsPolicy*: with one request at a time, the controller's answers are
  those of `AdmissionPolicy`. An entry of the cache says of a binding's role only
  whether it is the owner's, so that the picture cannot be read off the
  cache; the history variable `picture` of `SerialController` has the bindings there
  were when the cache was last emptied. The namespaces' part of it is the cache's
  map, and Rancher's while that map is being rebuilt: `ClearCache` is the abstract
  step that takes a new picture. The policy keeps what is odd in the code: after a
  miss a pod is judged by all projects of the user found, group bindings speak
  for projects without members (`LimitPod`), and a pod may be judged by two
  pictures. A user with two roles in one project has two equal entries and is
  treated like a member of several projects, which the controller's README does not
  mention. A pod's project is read from the cache as it was; when nobody is found in
  that project, the cache is rebuilt, and by then the namespace may be in another
  one. So the policy has a step of its own for the pod's project (`PlacePod`).
* *OpaMirrorsCache*: OPA has what the cache has whenever no request is served.
* *LimitBacked*: whatever the handlers do to each other's updates, no pod is judged by
  a project that its namespace was never in.
* *CacheRecent*: no entry of the cache is older than the controller's last rest before
  the cache was emptied, and no document on its way to OPA older than its last rest. An
  append begun before another handler's `ClearCache` (150-156) stores a list of
  the old cache into the new one; a call that fails leaves the cache half filled; a
  late `StoreNamespace` puts a namespace where it no longer is. All of that comes to
  an end: what such a handler brings back it took while it was at work, so that
  nothing revoked before it began returns. That the cache is emptied before it
  is filled is what it rests on. It says nothing of how long a hit may be
  answered from a cache that nobody empties (3.1), of entries that are missing or
  doubled (`half_rebuilt`, `doubled_entry`), or of the order in which documents
  reach OPA.
* *EveryRequestAnswered*: clears, crashes and panics never leave a request hanging.
* *DeploymentWhole*: as long as no dispose of the module has failed, a deployment
  never mounts a claim or config map that another attempt left behind or that is
  being removed. This rests on details: an existing object is an error and not a
  success, and claims, which come first, are the requests that notice the
  cancellation. The premise is needed: when a dispose could not delete the
  deployment but deleted the rest, a second dispose learns the volumes from that
  old deployment and can remove a claim under a run that timed out and goes on,
  which then creates its deployment without it.
* *RunReportsWhole*: success of a run, for a manager that still waits, means that
  all objects exist and are its own, even beside an earlier run that goes on.
* *DisposeLeavesOnlyFailed*: a successful dispose leaves nothing of successful
  runs, provided no dispose of the module failed before (the deployment goes
  first, and with it the list of volumes).
* *ViewLagsByStream*: replaying the undelivered events on the maps gives the
  cluster, until a watch ends.
* *WorkUndone*: TestSmoke4 ends with at least as many deployments as wanted.
* *NodesAsTheyWere*: an answer's entry for a node is of one state the node had
  during the call, and of that state alone: its cores if none is divided, and its
  last true condition; a node that was there all the time is not left out unless a
  request failed. Nothing is said of memory, and nothing of cores that are
  divided, where the code and the interface disagree (3.1).
* *FreeIsFree*: the difference of limit and used is not more than was free, except
  for CPU: limit and used are rounded up to cores, each on its own, and the
  difference can be too large by almost a core. The property states that bound;
  the interface speaks of thousandths of a core (3.1).
* *MembersSettle*, *SettingsSettle*: when all calls on a project have returned and no
  request of those that had the last word failed, it has what they agree on and
  nothing that none of them wanted. Bindings entered twice by two updates, and
  whatever earlier calls left half done, are put right by the next update, because
  it compares members and deletes by ID. Where two updates overlap, either may
  win, member by member. A failed request of a last call is excluded: its error
  may only have been logged.
* *ErrorMeansUntouched*: an `UpdateProject` that returns an error can be repeated as
  if it had not been made, as far as members are concerned.
* *RequestedDriverRuns*: a cache file that is believed unseen tells the truth after
  any sequence of kills, failures, boots and updates. That rests on versions that
  only grow: with `Rollbacks = TRUE` TLC finds the directory overwritten by a
  killed installation of another version, and the first version asked for again,
  whose cache file is still there.
* *GetsInstalled*: every failure is repaired by a later start. The premise excludes
  a kill between the two halves of writing the cache file: an empty file leaves its
  variables unbound, and with `set -u` every later start fails.

**What the violating runs show** is listed under `findings`, each with the line
of the repository that says otherwise:

1. `doubled_entry`: two updates at once enter a sole project twice; the list of two
   is never refreshed, and the user counts as a member of several projects until
   some other request misses the cache.
2. `half_rebuilt`: a user of two projects, of which they own one, asks while another
   handler rebuilds the cache. The list has one entry so far, a plain member's, and
   the namespace is annotated, though the controller's README says that such a
   user's never is. No call fails on the way. The same list is left behind, even with
   a single handler, when the members of the second project cannot be read (145):
   the cache stays half filled, and the next request is a hit.
3. `dispose_leak`: a run that ended between two claims leaves the first, and
   dispose, which goes by the deployment, cannot find it.
4. `boogeyman_cleanup`: Ctrl+C misses what is not yet observed or still being
   created.

### 3.1 Where documents and code differ without a run

Some disagreements are read off a line of the code and need no search; no
property above relies on either side of them.

* *Units of memory and storage.* `resource2capacity` divides by 1024 twice, so that
  an answer is in Mi (`main.go:540`, `543`). The protocol
  (`proto/clusterproxy.proto:151-152`) and the proxy's README (385-386) say Ki.
* *Divided cores.* A node with 7910 thousandths of a core is said to have none, as
  `AsInt64` gives no integer for it and its second result is dropped
  (`main.go:537`); the protocol (150) has the node's cores there.
* *Quotas of CPU.* Limit and used are rounded up to cores (`main.go:561`, `565`),
  where the protocol (158-159) speaks of thousandths: of 2500, 3 are left, and
  a used 1250 is 2.
* *A user who was moved.* A list that is not empty is never refreshed
  (`project_resolver.go:67`), so that a user taken out of one project and put into
  another gets the old one until somebody else misses the cache. The controller's
  README (3) says the correct project.

## 4. Proofs

The theorems hold for every value of the constants that meets the module's
assumption (`DirectoryAssumption` and `ControllerAssumption`,
`ProjectsAssumption`, `InstallerAssumption`, `ProxyAssumption`,
`BoogeymanAssumption`, `DescriptionAssumption`): any number of handlers, calls,
users, projects, members, modules, volumes, nodes, callers, kills, and any
bounds. Liveness (`EveryRequestAnswered`, `WorkUndone`, `GetsInstalled`) stays
with TLC: it needs fairness and ENABLED, which the prover does not handle.

### 4.1 NamespaceController_proofs

| theorem | statement |
|---|---|
| `TypeCorrect` | `Spec => []TypeOK` |
| `Invariance` | `Spec => []IInv` |
| `LimitsAreBacked` | `Spec => []LimitBacked` |
| `HistoryInvariance` | `HistorySpec => []HInv` |
| `CacheIsRecent` | `HistorySpec => []CacheRecent` |

`LimitBacked` is not inductive: a verdict is written from a handler's locals, these
from the cache, the cache from another handler's locals, and those from Rancher.
`IInv` follows the copies: `SpacesBacked` says of every one of them that it comes from
`everIn`, which only grows, so that a step of one handler cannot spoil what
another holds, and no lock is needed. `ControlOK` ties program counter, request
and return point together, since the same `UpdateCache` serves both kinds of
requests. Type correctness is proved first (with `ControlOK`, one lemma per group of
actions), then each part of `IInv` for every action, and the temporal theorems
combine them.

`CacheRecent` needs more, because its histories shrink: when the cache is emptied,
`cacheBindings` is cut down to `restBindings`, and an entry that another handler is
about to store has to be in the smaller set already. `HInv` says why it is.
`AgesOrdered` puts the histories in order, present within rest within cache, and adds
that during an update that has emptied a map the last two are equal: whatever
that handler finds in the map, its own leftovers or another's, is no older than the
controller's last rest. `LocalsRecent` says the same of the handler's locals, the
list read for an append among them. While a handler is at work the controller
is not at rest, so that `restBindings` only grows under it; when it is at
rest nobody has locals. `HistorySteps` sums up what a step does to the histories,
`OwnStep` and `MapSteps` what it does to locals and maps, and each part of `HInv`
is proved from these.

### 4.2 RancherProjects_proofs

| theorem | statement |
|---|---|
| `TypeCorrect` | `Spec => []TypeOK` |
| `ErrorsUntouched` | `Spec => []ErrorMeansUntouched` |
| `Invariance` | `Spec => []IInv` |
| `MembersSettled` | `Spec => []MembersSettle` |
| `SettingsSettled` | `Spec => []SettingsSettle` |

`MembersSettle` speaks of the moment when all calls have returned; `IInv` says why
they get there. `Speaking(p)` holds while the calls with the last word on `p` have
met no failure, and then `Said(p)`: each member they all want is there or one of them
will still add it (`WillAdd`: it has yet to read, or has read a list without
it, or has it on its list); each binding there is wanted by one of them, or was
added beside them, or one of them will still delete it; details and policy are
one of theirs or will be written. An update that starts supersedes all
that had returned, and as it has everything still to do, `Said` holds for it at
once. `SameLast` and `RunsLast` say that a running call has the last word
and keeps it until another starts after it has returned. A step of a last writer turns
"will" into "is" (`Progress`, `CompareGoes`); what another last writer undoes it
does not want, so that not all of them want it (`MembersForm`).
Type correctness needs `CallOK`, which ties the place in the code to the
request and to what is still to be done.

### 4.3 DriverInstaller_proofs

| theorem | statement |
|---|---|
| `TypeCorrect` | `Spec => []TypeOK` |
| `Invariance` | without rollbacks, `Spec => []IInv` |
| `InstalledAsRequested` | without rollbacks, `Spec => []RequestedDriverRuns` |

`IInv` says that the cache file is never ahead of what is asked for (`CacheIsPast`),
that a file that agrees with what is asked for tells the truth about the
directory (`CacheTells`), and what holds at each place of the script
(`PlaceTells`). While versions only grow, the pair that is asked for never comes
back, so that a file left by an earlier version cannot agree again after the
directory was overwritten: this is where `~ Rollbacks` is used, and it is an
assumption of the theorems and not of the module.

### 4.4 ClusterProxy_proofs

| theorem | statement |
|---|---|
| `TypeCorrect` | `Spec => []TypeOK` |
| `Invariance` | `Spec => []IInv` |
| `RunComplete` | `Spec => RunReportsWhole` |
| `DeploymentsWhole` | `Spec => DeploymentWhole` |
| `DisposeComplete` | `Spec => DisposeLeavesOnlyFailed` |

`ProxyAssumption` asks for room for one volume at least; a module may have none.

The three properties speak of one step each, the last of a run, of a deployment or
of a dispose; why they hold lies in everything that calls did to each other
before. `IInv` says it in layers.

* `BasicInv`: types; where a call is agrees with what it asks for (`Control`);
  what is left of a run is a part of its objects with the deployment at the end,
  and what is left of a dispose is volumes, each once (`Work`); every object was
  made by a run of its module, a deployment by one that has returned and whose
  volumes it mounts (`MadeByRun`).
* `Exclusive`, from the manager: of two calls on a module it waits for one at
  most. A dispose that deletes an object has not timed out, since its requests
  carry the context, so that nothing a run has made disappears while the manager
  waits for the run (`RunWhole`), unless the workspace ends, and then the run
  cannot make its deployment. The one request that makes the workspace comes before
  everything in it (`OnePrepare`, `NothingBefore`).
* `VolumesKept(m)`, while no dispose of `m` has failed: a run goes on after it timed
  out, and a dispose can begin beside it. What this dispose has read are the
  volumes of a deployment, whose maker has returned; so none of them is the other
  run's, and the other run's deployment can be made while the dispose goes on
  without losing a volume to it. A dispose that could not delete the deployment
  still deletes its volumes, and is then bound to report an error.
* `GoodFound(m)`, likewise: whatever a successful run has made, the deployment
  made by that run leads to it, or the workspace is ending; once a dispose has
  read the deployment it has all of it still to delete (`Remaining`).

`ObjectStep` and `CallsStep` reduce a step of the specification to who made or
removed an object and what became of a call; the lemmas on the parts of `IInv`
are proved from these two. That no dispose has failed is assumed by the last two
theorems because the code does not keep them otherwise: after an error the
deployment can be gone, and with it the list of the volumes to be deleted, so that
a second dispose has nothing to go by.

### 4.5 Boogeyman_proofs

| theorem | statement |
|---|---|
| `TypeCorrect` | `Spec => []TypeOK` |
| `Invariance` | `Spec => []IInv` |
| `ClaimsFirst` | `Spec => ClaimFirst` |
| `MapsLagByEvents` | `Spec => []ViewLagsByStream` |

`ClaimFirst` is about the step that creates a deployment: its claim is there. The
worker made it one request earlier, but a request to create an object that exists is
refused, and what exists may be on its way out. So `IInv` has to know that
nobody made a claim of that name before: `OffersFresh` says that commands that wait
at the channel have names of their own, which no claim bears, and `ClaimFresh`
that the command whose claim comes next has one too. Names are counted, so that
they are above all names in use (`ClaimsNamed`), and no name comes back. A claim
that is new is not among those being deleted (`HasClaim`), and only the
worker itself or Cleanup could ask for its deletion. Without a fault it
therefore stays until the deployment is there. `Quiet` collects what most steps
have in common: they make no claim, take no command, and remove at most
claims that were being deleted.

`ViewLagsByStream` folds the events of a stream over a map. An induction over
the stream cannot be had from the prover, but a minimal counterexample can:
`LastWins` is the closed form of the fold (an object is there if the last event
of its name says so, or if none names it and it was there before),
`LastWinsStep` shows that it obeys the recursion of the fold, over sets of
positions, and of the sets on which the two differ there would be one that
contains no other, which is the contradiction. With the closed form it is seen
that an event put at the end of the stream is applied last, and one taken from
its head may be applied to the map first; each step of a watch or of the API
server is one of the two.

### 4.6 ClusterDescription_proofs

| theorem | statement |
|---|---|
| `Invariance` | `Spec => []IInv` |
| `NodesDescribed` | `Spec => []NodesAsTheyWere` |
| `TypeCorrect` | `Spec => []TypeOK` |
| `QuotaInvariance` | `Spec => []QuotaInv` |
| `LeftWasFree` | `Spec => []FreeIsFree` |

`EntriesTell` says of every entry written so far that it tells a state the node
had during the call (`StateIsSeen`: its present state is one of them), or is
empty because the node had gone or a read failed. `NoneForgotten` says that
without a failure every node that was there all the time has an entry or is on the
list still to be read. `EntryWithin` is the lemma about the conversions: the cores of an entry are
those of the node if none is divided, and its status that of the last condition
that is true, or READY if there is none.

The quotas are about sums over the workspaces. `QuotaInv` says that what the
workspaces use stays within the limits and that each sum is a whole number of
the units that a quota comes in (`Usage`), and that an answer's limit and used
were converted from the quotas of one moment (`Answered`). That a sum grows by
what a workspace adds is proved by counting: `SumForm` shows that the sum of a
resource is the number of elements of the set `Units`, which has as many pairs
for each workspace as its quota has units, again by a least set of workspaces
for which it is not. From there the library's theorems on cardinalities do what
an induction would (`SumMore`, `SumLess`). `LeftWasFree` follows by arithmetic
on the conversions.

### 4.7 SerialController_proofs

| theorem | statement |
|---|---|
| `SerialInvariance` | `SerialSpec => []SInv` |
| `OpaHasTheCache` | `SerialSpec => []OpaMirrorsCache` |

A behaviour of the serial controller is one of the controller, so that `IInv` of
4.1 is at hand. `SInv` says what a list of the cache is: it has one entry for each
binding of a set, in some order (`Encodes`, a bijection between positions and
bindings, because two roles in one project give two equal entries). Between
updates the set is what the user had in `picture` (`AtRest`); during an update it
is `Listed`, the bindings of the projects done with, and those of the present
project that have been appended. An append adds one binding to it
(`EncodesMore`). `Rebuilt` says the same of the map of namespaces, `Locals` what
the handler's locals have to do with it, and `Fresh` that after an update, and
before the reply, the cache is current. At the end nothing is left to do, so that
`Listed` is the whole directory (`UpToDate`). The document is marshalled when the
last project is done, nothing is stored after it, and nobody else is at work: that
is why OPA has the cache.

### 4.8 SerialPolicy_proofs

| theorem | statement |
|---|---|
| `ControllerImplementsPolicy` | `SerialSpec => ImplementsPolicy` |

Initial states map to initial states, and each step to a step of the policy or to
none. A request is asked when it is received. The lookups that miss, the call for
the projects, every step of an update but the first and the PUT change nothing
the policy has (`Unseen`); the first step of `ClearCache` takes the picture. What
remains are the answers. `ReplyIsPolicy` turns a user's list into the set of the user's
bindings: the list has one entry that is no owner's exactly if the set has one
binding that is no owner's. `EntryIsBinding` and `BindingHasEntry` do the same for
the search for a project's user. That a picture without the user, or without
members, is current when somebody is turned away comes from `Fresh`, and that a
pod is placed only once from `Unplaced`.

### 4.9 Only model-checked

Liveness: `EveryRequestAnswered`, `WorkUndone` and `GetsInstalled` need fairness
and ENABLED. Every invariant and action property of the passing runs, and the
refinement, is stated by a theorem.

## 5. Not modelled

The API server's timeout for webhooks (a late answer is not read); TLS, tokens and
decoding; the containers' check and its JSON patch; contents of objects,
finalizers; the numbers of a volume's size (32 bits, units) and of a workspace's
quota beyond the sums of `ClusterDescription`; several workspaces (they share
nothing but the quotas); re-preparation of a workspace; several descriptions at
once; names, labels and versions of nodes; users, tokens and kubeconfigs of
the Rancher client; periods of waiting (the orders they allow are all there).
Whole parts left out are in 1.6.

Some of what the code is exposed to has no property, because the code promises
nothing about it: they are the hazards of `PROJECT.json` with a note.

## 6. What could be added

* The check of a pod's limits as operators, compared with Kubernetes' own rules
  for quantities; its JSON patch is a hazard without a property.
* A manager that purges a workspace and prepares it again under the same ID, and
  quotas of several workspaces on the nodes that they share.
