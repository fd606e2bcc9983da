------------------------- MODULE ClusterDescription -------------------------
(***************************************************************************)
(* GetClusterDescription of the cluster proxy: the project's quotas from   *)
(* Rancher, then the list of nodes and one request per node to Kubernetes. *)
(* Workspaces come and go meanwhile, and so do nodes and their conditions. *)
(* A request that fails is logged, and its part of the answer stays empty. *)
(* Quantities are counted in units so small that they are whole: CPU in    *)
(* thousandths of a core, memory in Ki, storage in Mi.                     *)
(***************************************************************************)
EXTENDS Integers, Sequences, FiniteSetsExt

CONSTANTS
  Nodes,           \* names of nodes
  NodeStates,      \* what Kubernetes may say of a node
  FirstNodes,      \* the nodes at first: a function from Nodes
  Missing,         \* in place of a node's state, or of quotas: there is none
  Batches,         \* the workspaces that may be prepared
  WorkspaceQuotas, \* the quotas that they are prepared with
  Project,         \* the limits of the Rancher project
  MaxChanges,      \* bound: changes of nodes
  MaxFaults        \* bound: requests that fail or that Rancher refuses

Resources == {"cpu", "memory", "storage", "claims"}
Nothing   == [r \in Resources |-> 0]

\* Types of conditions of a node, apart from Ready, with the status each gives.
StatusOf == [NetworkUnavailable |-> "NETWORK_UNAVAILABLE",
             MemoryPressure |-> "MEMORY_PRESSURE", DiskPressure |-> "DISK_PRESSURE",
             PIDPressure |-> "PID_PRESSURE", Ready |-> "READY"]

\* What of a node the answer depends on: the types of its conditions that are
\* true, in the order Kubernetes lists them, and its capacity.
NodeState == [true : Seq(DOMAIN StatusOf), cpu : Nat, memory : Nat]

ASSUME DescriptionAssumption ==
  /\ NodeStates \subseteq NodeState /\ Missing \notin NodeStates
  /\ FirstNodes \in [Nodes -> NodeStates \cup {Missing}]
  /\ WorkspaceQuotas \subseteq [cpus : Nat, memory : Nat, storage : Nat]
  /\ Project \in [Resources -> Nat]
  /\ MaxChanges \in Nat /\ MaxFaults \in Nat

VARIABLES
  nodes,      \* the nodes in Kubernetes
  workspaces, \* the workspaces there are: a function from batches to quotas
  pc,         \* the call: its next request, or "idle"
  toGet,      \* nodes that were listed and are still to be read
  answer,     \* what the call has put together
  \* For the properties: states each node has had since the call began, what was
  \* free when the quotas were read, whether a request of the call has failed
  seen, free, failed,
  changes, faults

callVars == <<pc, toGet, answer>>
vars == <<nodes, workspaces, callVars, seen, free, failed, changes, faults>>

\* An entry of the answer's list of nodes.
Entry == [status : {StatusOf[t] : t \in DOMAIN StatusOf}, cpus : Nat, memory : Nat]

\* Of a node that could not be read: the zero value of everything.
EmptyEntry == [status |-> "READY", cpus |-> 0, memory |-> 0]

Quota == [Resources -> Int]

TypeOK ==
  /\ nodes \in [Nodes -> NodeStates \cup {Missing}]
  /\ DOMAIN workspaces \subseteq Batches
  /\ \A b \in DOMAIN workspaces : workspaces[b] \in WorkspaceQuotas
  /\ pc \in {"idle", "quotas", "list", "get"}
  /\ toGet \subseteq Nodes
  /\ answer.limit \in Quota \cup {Missing} /\ answer.used \in Quota \cup {Missing}
  /\ DOMAIN answer.nodes \subseteq Nodes
  /\ \A n \in DOMAIN answer.nodes : answer.nodes[n] \in Entry
  /\ seen \in [Nodes -> SUBSET (NodeStates \cup {Missing})]
  /\ free \in Quota /\ failed \in BOOLEAN
  /\ changes \in Nat /\ faults \in Nat

NoNodes  == [n \in {} |-> EmptyEntry]
NoAnswer == [limit |-> Missing, used |-> Missing, nodes |-> NoNodes]

Init ==
  /\ nodes = FirstNodes /\ workspaces = [b \in {} |-> 0]
  /\ pc = "idle" /\ toGet = {} /\ answer = NoAnswer
  /\ seen = [n \in Nodes |-> {}] /\ free = Nothing /\ failed = FALSE
  /\ changes = 0 /\ faults = 0
-----------------------------------------------------------------------------
(* Workspaces and their quotas *)

\* PrepareWorkspace writes cpus in "m", memory in "Mi" and storage in "Gi".
QuotaOf(w) == [cpu |-> w.cpus, memory |-> w.memory * 1024,
               storage |-> w.storage * 1024, claims |-> 10]

Used == [r \in Resources |->
           MapThenSumSet(LAMBDA b : QuotaOf(workspaces[b])[r], DOMAIN workspaces)]
Free == [r \in Resources |-> Project[r] - Used[r]]

\* Rancher grants a workspace's quota if the project's limits leave room for it.
PrepareWorkspace ==
  /\ \E b \in Batches \ DOMAIN workspaces, w \in WorkspaceQuotas :
       /\ \A r \in Resources : QuotaOf(w)[r] <= Free[r]
       /\ workspaces' = [c \in DOMAIN workspaces \cup {b} |->
                           IF c = b THEN w ELSE workspaces[c]]
  /\ UNCHANGED <<nodes, callVars, seen, free, failed, changes, faults>>

PurgeWorkspace ==
  /\ \E b \in DOMAIN workspaces :
       workspaces' = [c \in DOMAIN workspaces \ {b} |-> workspaces[c]]
  /\ UNCHANGED <<nodes, callVars, seen, free, failed, changes, faults>>

\* A node joins, leaves, or reports another state.
ChangeNode ==
  /\ changes < MaxChanges /\ changes' = changes + 1
  /\ \E n \in Nodes, s \in NodeStates \cup {Missing} :
       /\ s # nodes[n]
       /\ nodes' = [nodes EXCEPT ![n] = s]
       /\ seen' = IF pc = "idle" THEN seen ELSE [seen EXCEPT ![n] = @ \cup {s}]
  /\ UNCHANGED <<workspaces, callVars, free, failed, faults>>

-----------------------------------------------------------------------------
(* Conversions *)

\* Quantity.Value rounds up to the next whole number.
Value(thousandths) == (thousandths + 999) \div 1000

\* Mutant of FormatQuotas: memory and storage are rounded up, as CPU is.
RoundedUp(q) == [cpu |-> Value(q.cpu) * 1000, memory |-> (q.memory + 1023) \div 1024,
                 storage |-> (q.storage + 1023) \div 1024, claims |-> q.claims]

FormatQuotas(q) == [cpu |-> Value(q.cpu) * 1000, memory |-> q.memory \div 1024,
                    storage |-> q.storage \div 1024, claims |-> q.claims]

\* Quantity.AsInt64 of a number that is not whole is 0.
AsInt64(thousandths) == IF thousandths % 1000 = 0 THEN thousandths \div 1000 ELSE 0

\* The status of the last true condition in the list, Ready if there is none.
NodeStatus(true) == IF true = <<>> THEN "READY" ELSE StatusOf[true[Len(true)]]

\* Mutant of EntryOf: the bytes of the memory are narrowed to 32 bits before they
\* are divided, not after it.
Narrowed(ki) == ((ki + 2097152) % 4194304) - 2097152
NarrowedFirst(s) == [status |-> NodeStatus(s.true), cpus |-> AsInt64(s.cpu),
                     memory |-> Narrowed(s.memory) \div 1024]

\* A capacity: cores, and the memory in Mi.
EntryOf(s) == [status |-> NodeStatus(s.true), cpus |-> AsInt64(s.cpu),
               memory |-> s.memory \div 1024]

-----------------------------------------------------------------------------
(* GetClusterDescription *)

Fault == faults < MaxFaults /\ faults' = faults + 1 /\ failed' = TRUE
NoFault == UNCHANGED <<faults, failed>>

Call ==
  /\ pc = "idle"
  /\ pc' = "quotas" /\ toGet' = {} /\ answer' = NoAnswer
  /\ seen' = [n \in Nodes |-> {nodes[n]}] /\ failed' = FALSE
  /\ UNCHANGED <<nodes, workspaces, free, changes, faults>>

\* What Rancher's client returns.  It does not look at the status of the answer:
\* a body without quotas gives quotas of nothing.
ProjectQuotas == [limit |-> Project, used |-> Used]
NoQuotas      == [limit |-> Nothing, used |-> Nothing]

GetProjectQuotas ==
  /\ pc = "quotas"
  /\ \/ \E q \in {ProjectQuotas, NoQuotas} :
          /\ answer' = [answer EXCEPT !.limit = FormatQuotas(q.limit),
                                      !.used = FormatQuotas(q.used)]
          /\ IF q = ProjectQuotas THEN NoFault ELSE Fault
     \/ UNCHANGED answer /\ Fault
  /\ free' = Free
  /\ pc' = "list"
  /\ UNCHANGED <<nodes, workspaces, toGet, seen, changes>>

\* The call ends with the last node that was listed.
AfterNodes(left) == IF left = {} THEN "idle" ELSE "get"

Present == {n \in Nodes : nodes[n] # Missing}

ListNodes ==
  /\ pc = "list"
  /\ \/ toGet' = Present /\ NoFault
     \/ toGet' = {} /\ Fault
  /\ pc' = AfterNodes(toGet')
  /\ UNCHANGED <<nodes, workspaces, answer, seen, free, changes>>

\* Mutant of Described: every node read gives the entry of the last one.
SameEntry(n, e) == [m \in DOMAIN answer.nodes \cup {n} |-> e]

Described(n, e) == [m \in DOMAIN answer.nodes \cup {n} |->
                      IF m = n THEN e ELSE answer.nodes[m]]

\* A node that has gone, or cannot be read, is described all the same.
GetNode ==
  /\ pc = "get"
  /\ \E n \in toGet :
       /\ toGet' = toGet \ {n}
       /\ \/ /\ nodes[n] # Missing /\ NoFault
             /\ answer' = [answer EXCEPT !.nodes = Described(n, EntryOf(nodes[n]))]
          \/ /\ nodes[n] = Missing /\ NoFault
             /\ answer' = [answer EXCEPT !.nodes = Described(n, EmptyEntry)]
          \/ Fault /\ answer' = [answer EXCEPT !.nodes = Described(n, EmptyEntry)]
  /\ pc' = AfterNodes(toGet')
  /\ UNCHANGED <<nodes, workspaces, seen, free, changes>>

-----------------------------------------------------------------------------
Next ==
  \/ Call \/ GetProjectQuotas \/ ListNodes \/ GetNode
  \/ PrepareWorkspace \/ PurgeWorkspace \/ ChangeNode

Spec == Init /\ [][Next]_vars

-----------------------------------------------------------------------------
(* Properties *)

\* The entry tells the state: its cores, if none of them is divided, and the
\* pressure that no later true condition overrides, or Ready.  Of the memory, and
\* of divided cores, it says nothing: the interface promises Ki and a number of
\* cores, and the code gives Mi and 0.
Within(e, s) ==
  /\ s.cpu % 1000 = 0 => e.cpus * 1000 = s.cpu
  /\ \/ s.true = <<>> /\ e.status = "READY"
     \/ \E i \in DOMAIN s.true : /\ StatusOf[s.true[i]] = e.status
                                 /\ \A j \in DOMAIN s.true : j <= i

\* However nodes come, go and change between the requests of a call, the answer
\* describes each by one state it had during the call, or, when it had gone or
\* could not be read, as empty; and a call without a failure leaves out none
\* that was there all the time.
NodesAsTheyWere ==
  pc = "idle" =>
    /\ \A n \in DOMAIN answer.nodes :
         \/ \E s \in seen[n] \ {Missing} : Within(answer.nodes[n], s)
         \/ answer.nodes[n] = EmptyEntry /\ (failed \/ Missing \in seen[n])
    /\ ~ failed => \A n \in Nodes : Missing \in seen[n] \/ seen[n] = {}
                                      \/ n \in DOMAIN answer.nodes

\* What limit and used of the answer leave free was free when the quotas were
\* read, for the quotas that PrepareWorkspace writes: exactly so for claims, to
\* the Mi and Gi for memory and storage, and to less than a core for CPU, of
\* which limit and used are each rounded up.
FreeIsFree ==
  answer.limit # Missing =>
    LET left(r) == answer.limit[r] - answer.used[r] IN
    /\ left("claims") <= free["claims"]
    /\ left("memory") * 1024 <= free["memory"]
    /\ left("storage") * 1024 <= free["storage"]
    /\ left("cpu") < free["cpu"] + 1000
=============================================================================
