---------------------- MODULE ClusterDescription_proofs ----------------------
(***************************************************************************)
(* Theorems about the description of the cluster, for any nodes, states of *)
(* nodes, workspaces, quotas, changes and faults: what an answer says of   *)
(* nodes was so at some moment of the call, and what its quotas leave was  *)
(* free when they were read.                                               *)
(***************************************************************************)
EXTENDS ClusterDescription, FiniteSetTheorems, WellFoundedInduction, TLAPS

-----------------------------------------------------------------------------
(* The inductive invariant *)

Types ==
  /\ nodes \in [Nodes -> NodeStates \cup {Missing}]
  /\ seen \in [Nodes -> SUBSET (NodeStates \cup {Missing})]
  /\ pc \in {"idle", "quotas", "list", "get"}
  /\ toGet \subseteq Nodes
  /\ DOMAIN answer = {"limit", "used", "nodes"}
  /\ DOMAIN answer.nodes \subseteq Nodes

\* While a call goes on, a node's state now is one that it had during the call.
StateIsSeen == pc # "idle" => \A n \in Nodes : nodes[n] \in seen[n]

\* The entry e tells one of the states a node had during the call, or it is empty
\* because the node had gone or could not be read.
Tells(e, states, unread) ==
  \/ \E s \in states \ {Missing} : Within(e, s)
  \/ e = EmptyEntry /\ (unread \/ Missing \in states)
EntriesTell ==
  \A n \in DOMAIN answer.nodes : Tells(answer.nodes[n], seen[n], failed)

\* Without a failure, a node that was there all the time has been described, or
\* was listed and is still to be read.
NoneForgotten ==
  /\ ~ failed /\ pc \in {"idle", "get"} =>
       \A n \in Nodes : Missing \in seen[n] \/ seen[n] = {}
                          \/ n \in DOMAIN answer.nodes \cup toGet
  /\ pc = "idle" => toGet = {}

IInv == Types /\ StateIsSeen /\ EntriesTell /\ NoneForgotten

-----------------------------------------------------------------------------
(* Conversions *)

\* Undivided cores are counted, and the status is that of the last condition reported.
LEMMA EntryWithin ==
  ASSUME NEW s \in NodeStates
  PROVE  Within(EntryOf(s), s)
<1>1. s.true \in Seq(DOMAIN StatusOf) /\ s.cpu \in Nat /\ s.memory \in Nat
  BY DescriptionAssumption DEF NodeState
<1>2. s.cpu % 1000 = 0 => AsInt64(s.cpu) * 1000 = s.cpu
  BY <1>1 DEF AsInt64
<1>3. \/ s.true = <<>> /\ NodeStatus(s.true) = "READY"
      \/ \E i \in DOMAIN s.true : /\ StatusOf[s.true[i]] = NodeStatus(s.true)
                                  /\ \A j \in DOMAIN s.true : j <= i
  <2>1. CASE s.true = <<>>
    BY <2>1 DEF NodeStatus
  <2>2. CASE s.true # <<>>
    <3>1. /\ Len(s.true) \in DOMAIN s.true
          /\ \A j \in DOMAIN s.true : j <= Len(s.true)
      BY <1>1, <2>2
    <3>2. NodeStatus(s.true) = StatusOf[s.true[Len(s.true)]]
      BY <2>2, Zenon DEF NodeStatus
    <3> QED
      BY <3>1, <3>2
  <2> QED
    BY <2>1, <2>2
<1>4. EntryOf(s).cpus = AsInt64(s.cpu) /\ EntryOf(s).status = NodeStatus(s.true)
  BY DEF EntryOf
<1> QED
  BY <1>2, <1>3, <1>4 DEF Within

LEMMA EntryType ==
  ASSUME NEW s \in NodeStates
  PROVE  EntryOf(s) \in Entry
<1>1. s.true \in Seq(DOMAIN StatusOf) /\ s.cpu \in Nat /\ s.memory \in Nat
  BY DescriptionAssumption DEF NodeState
<1>2. AsInt64(s.cpu) \in Nat /\ s.memory \div 1024 \in Nat
  BY <1>1 DEF AsInt64
<1>3. NodeStatus(s.true) \in {StatusOf[t] : t \in DOMAIN StatusOf}
  <2>1. CASE s.true = <<>>
    BY <2>1 DEF NodeStatus, StatusOf
  <2>2. CASE s.true # <<>>
    <3>1. s.true[Len(s.true)] \in DOMAIN StatusOf
      BY <1>1, <2>2
    <3> QED
      BY <2>2, <3>1, Zenon DEF NodeStatus
  <2> QED
    BY <2>1, <2>2
<1> QED
  BY <1>2, <1>3 DEF EntryOf, Entry

-----------------------------------------------------------------------------
(* The inductive invariant holds *)

LEMMA InvInit == Init => IInv
<1> SUFFICES ASSUME Init PROVE IInv
  OBVIOUS
<1>1. Types
  BY DescriptionAssumption DEF Init, Types, NoAnswer, NoNodes
<1>2. StateIsSeen /\ EntriesTell /\ NoneForgotten
  BY DEF Init, StateIsSeen, EntriesTell, NoneForgotten, NoAnswer, NoNodes
<1> QED
  BY <1>1, <1>2 DEF IInv

LEMMA CallStep == IInv /\ Call => IInv'
<1> SUFFICES ASSUME IInv, Call PROVE IInv'
  OBVIOUS
<1>1. Types'
  BY DEF IInv, Call, Types, NoAnswer, NoNodes
<1>2. StateIsSeen'
  BY DEF IInv, Call, Types, StateIsSeen
<1>3. EntriesTell' /\ NoneForgotten'
  BY DEF IInv, Call, EntriesTell, NoneForgotten, NoAnswer, NoNodes
<1> QED
  BY <1>1, <1>2, <1>3 DEF IInv

\* A failure, or one more state, only allows more.
LEMMA TellsStill ==
  ASSUME NEW e, NEW states, NEW more, states \subseteq more,
         NEW f, NEW g, f => g, Tells(e, states, f)
  PROVE  Tells(e, more, g)
BY Zenon DEF Tells

LEMMA FaultStep == Fault \/ NoFault => (failed => failed')
BY Zenon DEF Fault, NoFault

LEMMA QuotasStep == IInv /\ GetProjectQuotas => IInv'
<1> SUFFICES ASSUME IInv, GetProjectQuotas PROVE IInv'
  OBVIOUS
<1>1. /\ pc = "quotas" /\ pc' = "list" /\ UNCHANGED <<nodes, toGet, seen>>
      /\ Fault \/ NoFault
  BY Zenon DEF GetProjectQuotas
<1>2. DOMAIN answer' = DOMAIN answer /\ answer'.nodes = answer.nodes
  BY DEF IInv, Types, GetProjectQuotas
<1>3. Types' /\ StateIsSeen'
  BY <1>1, <1>2 DEF IInv, Types, StateIsSeen
<1>4. EntriesTell'
  BY <1>1, <1>2, FaultStep, Zenon DEF IInv, EntriesTell, Tells
<1>5. NoneForgotten'
  BY <1>1 DEF NoneForgotten
<1> QED
  BY <1>3, <1>4, <1>5 DEF IInv

LEMMA ListStep == IInv /\ ListNodes => IInv'
<1> SUFFICES ASSUME IInv, ListNodes PROVE IInv'
  OBVIOUS
<1>1. /\ pc = "list" /\ pc' = AfterNodes(toGet') /\ UNCHANGED <<nodes, answer, seen>>
      /\ \/ toGet' = Present /\ NoFault
         \/ toGet' = {} /\ Fault
  BY Zenon DEF ListNodes
<1>2. pc' = IF toGet' = {} THEN "idle" ELSE "get"
  BY <1>1, Zenon DEF AfterNodes
<1>3. Types' /\ StateIsSeen'
  BY <1>1, <1>2 DEF IInv, Types, StateIsSeen, Present
<1>4. EntriesTell'
  BY <1>1, FaultStep, Zenon DEF IInv, EntriesTell, Tells
<1>5. NoneForgotten'
  <2>1. ASSUME ~ failed', NEW n \in Nodes
        PROVE  Missing \in seen[n] \/ n \in toGet'
    <3>1. toGet' = Present
      BY <1>1, <2>1, Zenon DEF Fault
    <3>2. nodes[n] \in seen[n]
      BY <1>1 DEF IInv, StateIsSeen
    <3> QED
      BY <3>1, <3>2 DEF Present
  <2> QED
    BY <1>1, <1>2, <2>1 DEF NoneForgotten
<1> QED
  BY <1>3, <1>4, <1>5 DEF IInv

LEMMA GetStep == IInv /\ GetNode => IInv'
<1> SUFFICES ASSUME IInv, GetNode PROVE IInv'
  OBVIOUS
<1>1. PICK n \in toGet :
        /\ toGet' = toGet \ {n}
        /\ \/ /\ nodes[n] # Missing /\ NoFault
              /\ answer' = [answer EXCEPT !.nodes = Described(n, EntryOf(nodes[n]))]
           \/ /\ nodes[n] = Missing /\ NoFault
              /\ answer' = [answer EXCEPT !.nodes = Described(n, EmptyEntry)]
           \/ Fault /\ answer' = [answer EXCEPT !.nodes = Described(n, EmptyEntry)]
  BY Zenon DEF GetNode
<1>2. /\ pc = "get" /\ pc' = AfterNodes(toGet') /\ UNCHANGED <<nodes, seen>>
  BY Zenon DEF GetNode
<1>3. pc' = IF toGet' = {} THEN "idle" ELSE "get"
  BY <1>2, Zenon DEF AfterNodes
<1>4. n \in Nodes /\ nodes[n] \in seen[n] /\ nodes[n] \in NodeStates \cup {Missing}
  BY <1>1, <1>2 DEF IInv, Types, StateIsSeen
<1>5. \E e : answer'.nodes = Described(n, e) /\ DOMAIN answer' = DOMAIN answer
               /\ Tells(e, seen'[n], failed')
  <2>1. CASE nodes[n] # Missing /\ answer' =
               [answer EXCEPT !.nodes = Described(n, EntryOf(nodes[n]))]
    <3>1. Within(EntryOf(nodes[n]), nodes[n])
      BY <1>4, <2>1, EntryWithin
    <3>2. Tells(EntryOf(nodes[n]), seen'[n], failed')
      BY <1>2, <1>4, <2>1, <3>1, Zenon DEF Tells
    <3> QED
      BY <2>1, <3>2 DEF IInv, Types
  <2>2. CASE answer' = [answer EXCEPT !.nodes = Described(n, EmptyEntry)]
             /\ (nodes[n] = Missing \/ Fault)
    <3>1. Tells(EmptyEntry, seen'[n], failed')
      BY <1>2, <1>4, <2>2, Zenon DEF Tells, Fault
    <3> QED
      BY <2>2, <3>1 DEF IInv, Types
  <2> QED
    BY <1>1, <2>1, <2>2, Zenon
<1>6. PICK e : answer'.nodes = Described(n, e) /\ DOMAIN answer' = DOMAIN answer
               /\ Tells(e, seen'[n], failed')
  BY <1>5
<1>7. /\ DOMAIN answer'.nodes = DOMAIN answer.nodes \cup {n}
      /\ answer'.nodes[n] = e
      /\ \A m \in DOMAIN answer.nodes \ {n} : answer'.nodes[m] = answer.nodes[m]
  BY <1>6 DEF Described
<1>8. Types' /\ StateIsSeen'
  BY <1>1, <1>2, <1>3, <1>4, <1>6, <1>7 DEF IInv, Types, StateIsSeen
<1>9. EntriesTell'
  <2> SUFFICES ASSUME NEW m \in DOMAIN answer.nodes \cup {n}
               PROVE  Tells(answer'.nodes[m], seen'[m], failed')
    BY <1>7, Zenon DEF EntriesTell
  <2>1. CASE m = n
    BY <1>6, <1>7, <2>1
  <2>2. CASE m # n
    <3>1. m \in DOMAIN answer.nodes /\ answer'.nodes[m] = answer.nodes[m]
      BY <1>7, <2>2
    <3>2. Tells(answer.nodes[m], seen[m], failed)
      BY <3>1, Zenon DEF IInv, EntriesTell
    <3>3. failed => failed'
      BY <1>1, FaultStep
    <3>4. Tells(answer.nodes[m], seen'[m], failed')
      BY <1>2, <3>2, <3>3, TellsStill
    <3> QED
      BY <3>1, <3>4
  <2> QED
    BY <2>1, <2>2
<1>10. NoneForgotten'
  <2>1. ASSUME ~ failed', NEW m \in Nodes
        PROVE  Missing \in seen[m] \/ seen[m] = {}
                 \/ m \in DOMAIN answer'.nodes \cup toGet'
    <3>1. ~ failed
      BY <1>1, <2>1, FaultStep
    <3> QED
      BY <1>1, <1>2, <1>7, <3>1 DEF IInv, NoneForgotten
  <2> QED
    BY <1>2, <1>3, <2>1 DEF NoneForgotten
<1> QED
  BY <1>8, <1>9, <1>10 DEF IInv

LEMMA ChangeStep == IInv /\ ChangeNode => IInv'
<1> SUFFICES ASSUME IInv, ChangeNode PROVE IInv'
  OBVIOUS
<1>1. /\ UNCHANGED <<pc, toGet, answer>> /\ failed' = failed
  BY Zenon DEF ChangeNode, callVars
<1>2. PICK n \in Nodes, s \in NodeStates \cup {Missing} :
        /\ nodes' = [nodes EXCEPT ![n] = s]
        /\ seen' = IF pc = "idle" THEN seen ELSE [seen EXCEPT ![n] = @ \cup {s}]
  BY Zenon DEF ChangeNode
<1>3. /\ \A m \in Nodes : seen[m] \subseteq seen'[m]
      /\ pc # "idle" => s \in seen'[n]
      /\ pc = "idle" => seen' = seen
  BY <1>2 DEF IInv, Types
<1>4. Types' /\ StateIsSeen'
  BY <1>1, <1>2, <1>3 DEF IInv, Types, StateIsSeen
<1>5. EntriesTell'
  <2> SUFFICES ASSUME NEW m \in DOMAIN answer.nodes
               PROVE  Tells(answer.nodes[m], seen'[m], failed')
    BY <1>1, Zenon DEF EntriesTell
  <2>1. Tells(answer.nodes[m], seen[m], failed) /\ m \in Nodes
    BY DEF IInv, EntriesTell, Types
  <2> QED
    BY <1>1, <1>3, <2>1, TellsStill
<1>6. NoneForgotten'
  <2>1. CASE pc = "idle"
    BY <1>1, <1>3, <2>1, Zenon DEF IInv, NoneForgotten
  <2>2. CASE pc # "idle"
    <3>1. \A m \in Nodes : nodes[m] \in seen[m] /\ seen[m] \subseteq seen'[m]
      BY <1>3, <2>2 DEF IInv, StateIsSeen
    <3> QED
      BY <1>1, <2>2, <3>1 DEF IInv, NoneForgotten
  <2> QED
    BY <2>1, <2>2
<1> QED
  BY <1>4, <1>5, <1>6 DEF IInv

LEMMA InvStep == IInv /\ [Next]_vars => IInv'
<1> SUFFICES ASSUME IInv, [Next]_vars PROVE IInv'
  OBVIOUS
<1>1. CASE PrepareWorkspace \/ PurgeWorkspace \/ UNCHANGED vars
  <2>1. UNCHANGED <<nodes, pc, toGet, answer, seen, failed>>
    BY <1>1, Zenon DEF PrepareWorkspace, PurgeWorkspace, vars, callVars
  <2> QED
    BY <2>1, Zenon
    DEF IInv, Types, StateIsSeen, EntriesTell, Tells, NoneForgotten
<1> QED
  BY <1>1, CallStep, QuotasStep, ListStep, GetStep, ChangeStep, Zenon DEF Next

-----------------------------------------------------------------------------
(* Theorems about nodes *)

\* The inductive invariant holds of every reachable state.
THEOREM Invariance == Spec => []IInv
BY InvInit, InvStep, PTL DEF Spec

\* NodesAsTheyWere: what an answer says of a node was so at some moment of the
\* call, and a call without a failure leaves out no node that was there all the
\* time.
THEOREM NodesDescribed == Spec => []NodesAsTheyWere
<1>1. IInv => NodesAsTheyWere
  <2> SUFFICES ASSUME IInv, pc = "idle" PROVE NodesAsTheyWere
    BY Zenon DEF NodesAsTheyWere
  <2>1. \A n \in DOMAIN answer.nodes :
          \/ \E s \in seen[n] \ {Missing} : Within(answer.nodes[n], s)
          \/ answer.nodes[n] = EmptyEntry /\ (failed \/ Missing \in seen[n])
    BY Zenon DEF IInv, EntriesTell, Tells
  <2>2. ~ failed => \A n \in Nodes : Missing \in seen[n] \/ seen[n] = {}
                                       \/ n \in DOMAIN answer.nodes
    BY DEF IInv, NoneForgotten
  <2> QED
    BY <2>1, <2>2, Zenon DEF NodesAsTheyWere
<1> QED
  BY <1>1, Invariance, PTL

-----------------------------------------------------------------------------
(* What the workspaces use: the sum in its closed form *)

\* What the recursion of the fold asks of a function on sets of batches.
IsSum(f, ws, r) ==
  f = [s \in SUBSET DOMAIN ws |->
         IF s = {} THEN 0
         ELSE QuotaOf(ws[CHOOSE b \in s : TRUE])[r] + f[s \ {CHOOSE b \in s : TRUE}]]

SumOf(ws, r) == (CHOOSE f : IsSum(f, ws, r))[DOMAIN ws]

LEMMA UsedIsSum == \A r \in Resources : Used[r] = SumOf(workspaces, r)
BY Zenon DEF Used, MapThenSumSet, MapThenFoldSet, SumOf, IsSum

LEMMA UsedIsSumAfter == \A r \in Resources : Used'[r] = SumOf(workspaces', r)
BY Zenon DEF Used, MapThenSumSet, MapThenFoldSet, SumOf, IsSum

\* A pair for each unit of the resource r that one of the workspaces s has.
Units(ws, r, s) == UNION {{b} \X (1 .. QuotaOf(ws[b])[r]) : b \in s}

LEMMA QuotaType ==
  ASSUME NEW w \in WorkspaceQuotas, NEW r \in Resources
  PROVE  QuotaOf(w)[r] \in Nat
BY DescriptionAssumption DEF QuotaOf, Resources

LEMMA UnitsOfOne ==
  ASSUME NEW b, NEW n \in Nat
  PROVE  IsFiniteSet({b} \X (1..n)) /\ Cardinality({b} \X (1..n)) = n
<1>1. IsFiniteSet({b}) /\ Cardinality({b}) = 1
  BY FS_Singleton
<1>2. IsFiniteSet(1..n) /\ Cardinality(1..n) = n
  BY FS_Interval
<1>3. /\ IsFiniteSet({b} \X (1..n))
      /\ Cardinality({b} \X (1..n)) = Cardinality({b}) * Cardinality(1..n)
  BY <1>1, <1>2, FS_Product
<1> QED
  BY <1>1, <1>2, <1>3

LEMMA UnitsFinite ==
  ASSUME NEW ws, NEW r \in Resources, NEW s, IsFiniteSet(s),
         \A b \in s : ws[b] \in WorkspaceQuotas
  PROVE  IsFiniteSet(Units(ws, r, s))
<1> DEFINE column(b) == {b} \X (1 .. QuotaOf(ws[b])[r])
           T == {column(b) : b \in s}
           f == [b \in s |-> column(b)]
<1>1. \A b \in s : IsFiniteSet(column(b))
  BY QuotaType, UnitsOfOne
<1> HIDE DEF column
<1>2. f \in Surjection(s, T)
  BY DEF Surjection
<1>3. IsFiniteSet(T)
  BY <1>2, FS_Surjection, Zenon
<1>4. IsFiniteSet(UNION T)
  BY <1>1, <1>3, FS_UNION
<1> QED
  BY <1>4 DEF Units, column

LEMMA UnitsStep ==
  ASSUME NEW ws, NEW r \in Resources, NEW s, IsFiniteSet(s), NEW b \in s,
         \A c \in s : ws[c] \in WorkspaceQuotas
  PROVE  /\ Cardinality(Units(ws, r, s \ {b})) \in Nat
         /\ Cardinality(Units(ws, r, s)) =
              QuotaOf(ws[b])[r] + Cardinality(Units(ws, r, s \ {b}))
<1> DEFINE C == {b} \X (1 .. QuotaOf(ws[b])[r])
           R == Units(ws, r, s \ {b})
<1>1. QuotaOf(ws[b])[r] \in Nat
  BY QuotaType
<1>2. IsFiniteSet(C) /\ Cardinality(C) = QuotaOf(ws[b])[r]
  BY <1>1, UnitsOfOne
<1>3. IsFiniteSet(s \ {b})
  BY FS_RemoveElement
<1>4. IsFiniteSet(R)
  BY <1>3, UnitsFinite
<1>5. Units(ws, r, s) = C \cup R /\ C \cap R = {}
  BY DEF Units
<1>6. Cardinality(C \cup R) = Cardinality(C) + Cardinality(R) - Cardinality(C \cap R)
  BY <1>2, <1>4, FS_Union
<1>7. Cardinality(C \cap R) = 0 /\ Cardinality(R) \in Nat
  BY <1>4, <1>5, FS_EmptySet, FS_CardinalityType
<1> QED
  BY <1>1, <1>2, <1>5, <1>6, <1>7

\* The sum counts the units: the one function that the recursion allows does.
LEMMA SumForm ==
  ASSUME NEW ws, NEW r \in Resources, IsFiniteSet(DOMAIN ws),
         \A b \in DOMAIN ws : ws[b] \in WorkspaceQuotas
  PROVE  SumOf(ws, r) = Cardinality(Units(ws, r, DOMAIN ws))
<1> DEFINE D == DOMAIN ws
           S == SUBSET D
           any(s) == CHOOSE b \in s : TRUE
           g == [s \in S |-> Cardinality(Units(ws, r, s))]
           f == CHOOSE h : IsSum(h, ws, r)
<1>1. \A s \in S : s # {} => any(s) \in s
  OBVIOUS
<1>2. \A s \in S : IsFiniteSet(s)
  BY FS_Subset
<1>3. \A s \in S : s # {} => g[s] = QuotaOf(ws[any(s)])[r] + g[s \ {any(s)}]
  <2> SUFFICES ASSUME NEW s \in S, s # {}
               PROVE  g[s] = QuotaOf(ws[any(s)])[r] + g[s \ {any(s)}]
    OBVIOUS
  <2>1. any(s) \in s /\ s \ {any(s)} \in S /\ IsFiniteSet(s)
    BY <1>1, <1>2
  <2> HIDE DEF any
  <2>2. Cardinality(Units(ws, r, s)) =
          QuotaOf(ws[any(s)])[r] + Cardinality(Units(ws, r, s \ {any(s)}))
    BY <2>1, UnitsStep
  <2> QED
    BY <2>1, <2>2
<1>4. g[{}] = 0
  <2>1. Units(ws, r, {}) = {}
    BY DEF Units
  <2> QED
    BY <2>1, FS_EmptySet
<1>5. IsSum(g, ws, r)
  <2> HIDE DEF g
  <2>1. g = [s \in S |-> g[s]]
    BY DEF g
  <2> QED
    BY <1>3, <1>4, <2>1 DEF IsSum
<1>6. IsSum(f, ws, r)
  BY <1>5, Zenon
<1> HIDE DEF f, g
<1>7. f[{}] = 0 /\ \A s \in S : s # {} => f[s] = QuotaOf(ws[any(s)])[r] + f[s \ {any(s)}]
  BY <1>6 DEF IsSum
<1>8. \A s \in S : f[s] = g[s]
  <2> DEFINE T == {s \in S : f[s] # g[s]}
  <2> SUFFICES ASSUME T # {} PROVE FALSE
    OBVIOUS
  <2>1. IsWellFoundedOn(StrictSubsetOrdering(D), S)
    BY FS_FiniteSubsetsOfFinite, FS_StrictSubsetOrderingWellFounded
  <2>2. PICK s \in T : \A u \in T : <<u, s>> \notin StrictSubsetOrdering(D)
    BY <2>1, WFMin, Zenon
  <2>3. s # {}
    BY <1>4, <1>7, <2>2
  <2>4. any(s) \in s
    BY <1>1, <2>2, <2>3
  <2> HIDE DEF any
  <2>5. s \ {any(s)} \in S /\ <<s \ {any(s)}, s>> \in StrictSubsetOrdering(D)
    BY <2>2, <2>4 DEF StrictSubsetOrdering
  <2>6. f[s \ {any(s)}] = g[s \ {any(s)}]
    BY <2>2, <2>5
  <2> QED
    BY <1>3, <1>7, <2>2, <2>3, <2>6
<1>9. f[D] = Cardinality(Units(ws, r, D))
  BY <1>8 DEF g
<1> QED
  BY <1>9 DEF SumOf, f

\* A workspace more makes it more by what the workspace has.
LEMMA SumMore ==
  ASSUME NEW ws, NEW r \in Resources, IsFiniteSet(DOMAIN ws),
         \A c \in DOMAIN ws : ws[c] \in WorkspaceQuotas,
         NEW more, NEW b, b \notin DOMAIN ws, DOMAIN more = DOMAIN ws \cup {b},
         more[b] \in WorkspaceQuotas, \A c \in DOMAIN ws : more[c] = ws[c]
  PROVE  /\ SumOf(ws, r) \in Nat
         /\ SumOf(more, r) = SumOf(ws, r) + QuotaOf(more[b])[r]
<1>1. DOMAIN more \ {b} = DOMAIN ws
  OBVIOUS
<1>2. \A c \in DOMAIN more : more[c] \in WorkspaceQuotas
  BY <1>1
<1>3. IsFiniteSet(DOMAIN more)
  BY <1>1, FS_AddElement
<1>4. Units(more, r, DOMAIN ws) = Units(ws, r, DOMAIN ws)
  BY <1>1 DEF Units
<1>5. /\ Cardinality(Units(more, r, DOMAIN more \ {b})) \in Nat
      /\ Cardinality(Units(more, r, DOMAIN more)) =
           QuotaOf(more[b])[r] + Cardinality(Units(more, r, DOMAIN more \ {b}))
  BY <1>1, <1>2, <1>3, UnitsStep
<1>6. QuotaOf(more[b])[r] \in Nat
  BY QuotaType
<1>7. /\ SumOf(ws, r) = Cardinality(Units(ws, r, DOMAIN ws))
      /\ SumOf(more, r) = Cardinality(Units(more, r, DOMAIN more))
  BY <1>2, <1>3, SumForm
<1> QED
  BY <1>1, <1>4, <1>5, <1>6, <1>7
-----------------------------------------------------------------------------
(* What is used, and what an answer says is left *)

Usage ==
  /\ IsFiniteSet(DOMAIN workspaces)
  /\ workspaces \in [DOMAIN workspaces -> WorkspaceQuotas]
  /\ \A r \in Resources : Used[r] \in Nat /\ Used[r] <= Project[r]
  /\ \A r \in {"memory", "storage"} : Used[r] % 1024 = 0

\* The answer's quotas are those of some moment, converted, and leave no more than
\* was free at that moment.
Told(limit, used, left) ==
  \E l, u \in [Resources -> Nat] :
    /\ limit = FormatQuotas(l) /\ used = FormatQuotas(u)
    /\ \A r \in Resources : l[r] - u[r] <= left[r]
    /\ \A r \in {"memory", "storage"} : u[r] % 1024 = 0
NotYet == answer.limit = Missing /\ answer.used = Missing
Answered == /\ NotYet \/ Told(answer.limit, answer.used, free)
            /\ pc = "quotas" => NotYet

QuotaInv == TypeOK /\ Usage /\ Answered

\* PrepareWorkspace writes memory in Mi and storage in Gi: multiples of the units
\* that an answer counts in.
LEMMA QuotaMultiple ==
  ASSUME NEW w \in WorkspaceQuotas, NEW r \in {"memory", "storage"}
  PROVE  r \in Resources /\ \E k \in Nat : QuotaOf(w)[r] = k * 1024
BY DescriptionAssumption DEF QuotaOf, Resources

\* A workspace less makes it less by what the workspace has.
LEMMA SumLess ==
  ASSUME NEW ws, NEW r \in Resources, IsFiniteSet(DOMAIN ws),
         \A c \in DOMAIN ws : ws[c] \in WorkspaceQuotas, NEW b \in DOMAIN ws,
         NEW less, DOMAIN less = DOMAIN ws \ {b},
         \A c \in DOMAIN less : less[c] = ws[c]
  PROVE  /\ SumOf(less, r) \in Nat
         /\ SumOf(ws, r) = SumOf(less, r) + QuotaOf(ws[b])[r]
<1>1. IsFiniteSet(DOMAIN less)
  BY FS_RemoveElement
<1>2. /\ b \notin DOMAIN less /\ DOMAIN ws = DOMAIN less \cup {b}
      /\ \A c \in DOMAIN less : ws[c] = less[c] /\ less[c] \in WorkspaceQuotas
  OBVIOUS
<1>3. ASSUME NEW s, IsFiniteSet(DOMAIN s),
             DOMAIN ws = DOMAIN s \cup {b}, b \notin DOMAIN s,
             \A c \in DOMAIN s : s[c] \in WorkspaceQuotas, ws[b] \in WorkspaceQuotas,
             \A c \in DOMAIN s : ws[c] = s[c]
      PROVE  /\ SumOf(s, r) \in Nat
             /\ SumOf(ws, r) = SumOf(s, r) + QuotaOf(ws[b])[r]
  BY <1>3, SumMore
<1>4. ws[b] \in WorkspaceQuotas
  OBVIOUS
<1> QED
  BY <1>1, <1>2, <1>3, <1>4, Zenon

LEMMA PrepareUsage ==
  ASSUME Usage, PrepareWorkspace
  PROVE  Usage'
<1>1. PICK b \in Batches \ DOMAIN workspaces, w \in WorkspaceQuotas :
        /\ \A r \in Resources : QuotaOf(w)[r] <= Free[r]
        /\ workspaces' = [c \in DOMAIN workspaces \cup {b} |->
                            IF c = b THEN w ELSE workspaces[c]]
  BY Zenon DEF PrepareWorkspace
<1>2. /\ IsFiniteSet(DOMAIN workspaces)
      /\ \A c \in DOMAIN workspaces : workspaces[c] \in WorkspaceQuotas
  BY DEF Usage
<1>3. \A r \in Resources : Used'[r] = Used[r] + QuotaOf(w)[r]
  <2> SUFFICES ASSUME NEW r \in Resources PROVE Used'[r] = Used[r] + QuotaOf(w)[r]
    OBVIOUS
  <2>1. SumOf(workspaces', r) = SumOf(workspaces, r) + QuotaOf(w)[r]
    <3>1. /\ DOMAIN workspaces' = DOMAIN workspaces \cup {b} /\ workspaces'[b] = w
          /\ \A c \in DOMAIN workspaces : workspaces'[c] = workspaces[c]
      BY <1>1
    <3> QED
      BY <1>1, <1>2, <3>1, SumMore
  <2> QED
    BY <2>1, UsedIsSum, UsedIsSumAfter
<1>4. /\ IsFiniteSet(DOMAIN workspaces')
      /\ workspaces' \in [DOMAIN workspaces' -> WorkspaceQuotas]
  <2>1. DOMAIN workspaces' = DOMAIN workspaces \cup {b}
    BY <1>1
  <2>2. IsFiniteSet(DOMAIN workspaces \cup {b})
    BY <1>2, FS_AddElement
  <2> QED
    BY <1>1, <1>2, <2>1, <2>2
<1>5. \A r \in Resources : Used'[r] \in Nat /\ Used'[r] <= Project[r]
  <2> SUFFICES ASSUME NEW r \in Resources PROVE Used'[r] \in Nat /\ Used'[r] <= Project[r]
    OBVIOUS
  <2>1. Used[r] \in Nat /\ QuotaOf(w)[r] \in Nat /\ Project[r] \in Nat
    BY QuotaType, DescriptionAssumption DEF Usage
  <2>2. QuotaOf(w)[r] <= Project[r] - Used[r]
    BY <1>1, Zenon DEF Free
  <2> QED
    BY <1>3, <2>1, <2>2
<1>6. \A r \in {"memory", "storage"} : Used'[r] % 1024 = 0
  <2> SUFFICES ASSUME NEW r \in {"memory", "storage"} PROVE Used'[r] % 1024 = 0
    OBVIOUS
  <2>1. r \in Resources
    BY QuotaMultiple
  <2>2. PICK k \in Nat : QuotaOf(w)[r] = k * 1024
    BY QuotaMultiple
  <2>3. Used[r] \in Nat /\ Used[r] % 1024 = 0 /\ Used'[r] = Used[r] + QuotaOf(w)[r]
    BY <1>3, <2>1 DEF Usage
  <2> QED
    BY <2>2, <2>3
<1> QED
  BY <1>4, <1>5, <1>6 DEF Usage

LEMMA PurgeUsage ==
  ASSUME Usage, PurgeWorkspace
  PROVE  Usage'
<1>1. PICK b \in DOMAIN workspaces :
        workspaces' = [c \in DOMAIN workspaces \ {b} |-> workspaces[c]]
  BY Zenon DEF PurgeWorkspace
<1>2. /\ IsFiniteSet(DOMAIN workspaces)
      /\ workspaces = [c \in DOMAIN workspaces |-> workspaces[c]]
      /\ \A c \in DOMAIN workspaces : workspaces[c] \in WorkspaceQuotas
  BY DEF Usage
<1>3. /\ DOMAIN workspaces' = DOMAIN workspaces \ {b}
      /\ \A c \in DOMAIN workspaces' : workspaces'[c] \in WorkspaceQuotas
      /\ workspaces' \in [DOMAIN workspaces' -> WorkspaceQuotas]
      /\ \A c \in DOMAIN workspaces' : workspaces'[c] = workspaces[c]
  BY <1>1, <1>2
<1>4. IsFiniteSet(DOMAIN workspaces')
  BY <1>2, <1>3, FS_RemoveElement
<1>5. workspaces[b] \in WorkspaceQuotas
  BY <1>1, <1>2
<1>6. \A r \in Resources : /\ Used'[r] \in Nat
                           /\ Used[r] = Used'[r] + QuotaOf(workspaces[b])[r]
  <2> SUFFICES ASSUME NEW r \in Resources
               PROVE  /\ Used'[r] \in Nat
                      /\ Used[r] = Used'[r] + QuotaOf(workspaces[b])[r]
    OBVIOUS
  <2>1. /\ SumOf(workspaces', r) \in Nat
        /\ SumOf(workspaces, r) = SumOf(workspaces', r) + QuotaOf(workspaces[b])[r]
    <3>1. b \in DOMAIN workspaces
      OBVIOUS
    <3>2. \A less : /\ DOMAIN less = DOMAIN workspaces \ {b}
                    /\ \A c \in DOMAIN less : less[c] = workspaces[c]
            => /\ SumOf(less, r) \in Nat
               /\ SumOf(workspaces, r) = SumOf(less, r) + QuotaOf(workspaces[b])[r]
      BY <1>2, <3>1, SumLess
    <3> QED
      BY <1>3, <3>2, Zenon
  <2> QED
    BY <2>1, UsedIsSum, UsedIsSumAfter
<1>7. \A r \in Resources : Used'[r] \in Nat /\ Used'[r] <= Project[r]
  <2> SUFFICES ASSUME NEW r \in Resources PROVE Used'[r] <= Project[r]
    BY <1>6
  <2>1. /\ Used[r] \in Nat /\ Used[r] <= Project[r]
        /\ QuotaOf(workspaces[b])[r] \in Nat /\ Project[r] \in Nat
    BY <1>5, QuotaType, DescriptionAssumption DEF Usage
  <2> QED
    BY <1>6, <2>1
<1>8. \A r \in {"memory", "storage"} : Used'[r] % 1024 = 0
  <2> SUFFICES ASSUME NEW r \in {"memory", "storage"} PROVE Used'[r] % 1024 = 0
    OBVIOUS
  <2>1. r \in Resources
    BY <1>5, QuotaMultiple
  <2>2. PICK k \in Nat : QuotaOf(workspaces[b])[r] = k * 1024
    BY <1>5, QuotaMultiple
  <2>3. /\ Used[r] \in Nat /\ Used[r] % 1024 = 0
        /\ Used'[r] \in Nat /\ Used[r] = Used'[r] + QuotaOf(workspaces[b])[r]
    BY <1>6, <2>1 DEF Usage
  <2> QED
    BY <2>2, <2>3
<1> QED
  BY <1>3, <1>4, <1>7, <1>8 DEF Usage

LEMMA UsageStep ==
  ASSUME Usage, [Next]_vars
  PROVE  Usage'
<1>1. CASE UNCHANGED workspaces
  <2>1. \A r \in Resources : Used'[r] = Used[r]
    BY <1>1, UsedIsSum, UsedIsSumAfter
  <2>2. "memory" \in Resources /\ "storage" \in Resources
    BY DEF Resources
  <2> QED
    BY <1>1, <2>1, <2>2 DEF Usage
<1>2. CASE ~ UNCHANGED workspaces
  <2>1. PrepareWorkspace \/ PurgeWorkspace
    BY <1>2, Zenon DEF Next, vars, Call, GetProjectQuotas, ListNodes, GetNode, ChangeNode
  <2> QED
    BY <2>1, PrepareUsage, PurgeUsage
<1> QED
  BY <1>1, <1>2

LEMMA AnsweredStep ==
  ASSUME IInv, Usage, Answered, [Next]_vars
  PROVE  Answered'
<1>0. DOMAIN answer = {"limit", "used", "nodes"}
  BY DEF IInv, Types
<1>1. CASE Call
  BY <1>1 DEF Call, NoAnswer, Answered, NotYet
<1>2. CASE GetProjectQuotas
  <2>1. free' = Free /\ pc = "quotas" /\ pc' = "list"
    BY <1>2, Zenon DEF GetProjectQuotas
  <2>2. CASE \E q \in {ProjectQuotas, NoQuotas} :
               answer' = [answer EXCEPT !.limit = FormatQuotas(q.limit),
                                        !.used = FormatQuotas(q.used)]
    <3>1. PICK q \in {ProjectQuotas, NoQuotas} :
               answer' = [answer EXCEPT !.limit = FormatQuotas(q.limit),
                                        !.used = FormatQuotas(q.used)]
      BY <2>2
    <3>2. answer'.limit = FormatQuotas(q.limit) /\ answer'.used = FormatQuotas(q.used)
      <4>1. \A l, u : LET a == [answer EXCEPT !.limit = l, !.used = u]
                      IN  a.limit = l /\ a.used = u
        BY <1>0
      <4> QED
        BY <3>1, <4>1
    <3>3. \A r \in Resources : /\ Free[r] = Project[r] - Used[r] /\ Project[r] \in Nat
                               /\ Used[r] \in Nat /\ Used[r] <= Project[r]
      BY DescriptionAssumption DEF Free, Usage
    <3>4. q.limit \in [Resources -> Nat] /\ q.used \in [Resources -> Nat]
      <4>1. Used \in [Resources -> Nat]
        BY <3>3 DEF Used
      <4> QED
        BY <4>1, DescriptionAssumption DEF ProjectQuotas, NoQuotas, Nothing
    <3>5. \A r \in Resources : q.limit[r] - q.used[r] <= Free[r]
      BY <3>3 DEF ProjectQuotas, NoQuotas, Nothing
    <3>6. \A r \in {"memory", "storage"} : q.used[r] % 1024 = 0
      BY DEF ProjectQuotas, NoQuotas, Nothing, Usage, Resources
    <3>7. Told(answer'.limit, answer'.used, Free)
      BY <3>2, <3>4, <3>5, <3>6 DEF Told
    <3> QED
      BY <2>1, <3>7 DEF Answered
  <2>3. CASE UNCHANGED answer
    BY <2>1, <2>3 DEF Answered, NotYet
  <2> QED
    BY <1>2, <2>2, <2>3, Zenon DEF GetProjectQuotas
<1>3. CASE UNCHANGED <<answer, free>> /\ (pc' = pc \/ pc' \in {"get", "idle"})
  BY <1>3 DEF Answered, NotYet
<1>4. CASE GetNode
  <2>1. \E ns : answer' = [answer EXCEPT !.nodes = ns]
    BY <1>4, Zenon DEF GetNode
  <2>2. answer'.limit = answer.limit /\ answer'.used = answer.used
    BY <1>0, <2>1
  <2>3. UNCHANGED free /\ pc' \in {"get", "idle"}
    BY <1>4 DEF GetNode, AfterNodes
  <2> QED
    BY <2>2, <2>3 DEF Answered, NotYet
<1>5. CASE ListNodes
  BY <1>3, <1>5 DEF ListNodes, AfterNodes
<1>6. CASE PrepareWorkspace \/ PurgeWorkspace \/ ChangeNode \/ UNCHANGED vars
  BY <1>3, <1>6 DEF PrepareWorkspace, PurgeWorkspace, ChangeNode, vars, callVars
<1> QED
  BY <1>1, <1>2, <1>4, <1>5, <1>6, Zenon DEF Next

LEMMA TypeStep ==
  ASSUME IInv, Usage, Answered, TypeOK, [Next]_vars
  PROVE  TypeOK'
<1>0. DOMAIN answer = {"limit", "used", "nodes"}
  BY DEF IInv, Types
<1>1. Types'
  BY InvStep DEF IInv
<1>2. /\ DOMAIN workspaces' \subseteq Batches
      /\ \A b \in DOMAIN workspaces' : workspaces'[b] \in WorkspaceQuotas
  <2>1. CASE UNCHANGED workspaces
    BY <2>1 DEF TypeOK
  <2>2. CASE ~ UNCHANGED workspaces
    <3>1. PrepareWorkspace \/ PurgeWorkspace
      BY <2>2, Zenon
      DEF Next, vars, Call, GetProjectQuotas, ListNodes, GetNode, ChangeNode
    <3> QED
      BY <3>1 DEF PrepareWorkspace, PurgeWorkspace, TypeOK
  <2> QED
    BY <2>1, <2>2
<1>3. answer'.limit \in Quota \cup {Missing} /\ answer'.used \in Quota \cup {Missing}
  <2>1. Answered'
    BY AnsweredStep
  <2>2. \A l \in [Resources -> Nat] : FormatQuotas(l) \in Quota
    BY DEF FormatQuotas, Value, Quota, Resources
  <2> QED
    BY <2>1, <2>2 DEF Answered, NotYet, Told
<1>4. \A n \in DOMAIN answer'.nodes : answer'.nodes[n] \in Entry
  <2>1. CASE Call
    BY <2>1 DEF Call, NoAnswer, NoNodes
  <2>2. CASE GetNode
    <3>0. PICK n \in toGet :
            \/ /\ nodes[n] # Missing
               /\ answer' = [answer EXCEPT !.nodes = Described(n, EntryOf(nodes[n]))]
            \/ answer' = [answer EXCEPT !.nodes = Described(n, EmptyEntry)]
      BY <2>2, Zenon DEF GetNode
    <3>1. EmptyEntry \in Entry
      BY DEF EmptyEntry, Entry, StatusOf
    <3>2. nodes[n] # Missing => EntryOf(nodes[n]) \in Entry
      BY <3>0, EntryType DEF TypeOK
    <3>3. PICK e \in Entry : answer' = [answer EXCEPT !.nodes = Described(n, e)]
      BY <3>0, <3>1, <3>2, Zenon
    <3>4. answer'.nodes = Described(n, e)
      BY <1>0, <3>3
    <3> QED
      BY <3>4 DEF Described, TypeOK
  <2>3. CASE answer'.nodes = answer.nodes
    BY <2>3 DEF TypeOK
  <2>4. CASE GetProjectQuotas
    <3>1. answer'.nodes = answer.nodes
      BY <1>0, <2>4 DEF GetProjectQuotas
    <3> QED
      BY <2>3, <3>1
  <2> QED
    BY <2>1, <2>2, <2>3, <2>4
    DEF Next, vars, callVars, ListNodes, PrepareWorkspace, PurgeWorkspace, ChangeNode
<1>5. free' \in Quota
  <2>1. Free \in Quota
    BY DescriptionAssumption DEF Free, Quota, Usage
  <2>2. free' = free \/ free' = Free
    BY Zenon DEF Next, vars, Call, GetProjectQuotas, ListNodes, GetNode, ChangeNode,
                 PrepareWorkspace, PurgeWorkspace
  <2> QED
    BY <2>1, <2>2 DEF TypeOK
<1>6. failed' \in BOOLEAN /\ changes' \in Nat /\ faults' \in Nat
  <2>1. /\ failed' = failed \/ failed' = TRUE \/ failed' = FALSE
        /\ changes' = changes \/ changes' = changes + 1
        /\ faults' = faults \/ faults' = faults + 1
    BY Zenon DEF Next, vars, Call, GetProjectQuotas, ListNodes, GetNode, ChangeNode,
                 PrepareWorkspace, PurgeWorkspace, Fault, NoFault
  <2>2. changes \in Nat /\ faults \in Nat
    BY DEF TypeOK
  <2>3. failed \in BOOLEAN
    BY Zenon DEF TypeOK
  <2>4. failed' \in BOOLEAN
    BY <2>1, <2>3, Zenon
  <2> QED
    BY <2>1, <2>2, <2>4
<1> QED
  BY <1>1, <1>2, <1>3, <1>4, <1>5, <1>6, Zenon DEF Types, TypeOK

-----------------------------------------------------------------------------
(* Theorems about quotas *)

LEMMA QuotaInit == Init => QuotaInv
<1> SUFFICES ASSUME Init PROVE QuotaInv
  OBVIOUS
<1>1. DOMAIN workspaces = {}
  BY DEF Init
<1>2. \A r \in Resources : Used[r] = 0
  <2> SUFFICES ASSUME NEW r \in Resources PROVE Used[r] = 0
    OBVIOUS
  <2>1. IsFiniteSet({}) /\ Cardinality({}) = 0
    BY FS_EmptySet
  <2>2. SumOf(workspaces, r) = Cardinality(Units(workspaces, r, {}))
    BY <1>1, <2>1, SumForm
  <2>3. Units(workspaces, r, {}) = {}
    BY DEF Units
  <2> QED
    BY <2>1, <2>2, <2>3, UsedIsSum
<1>3. Usage
  <2>1. IsFiniteSet({})
    BY FS_EmptySet
  <2>2. \A r \in Resources : Project[r] \in Nat
    BY DescriptionAssumption
  <2>3. "memory" \in Resources /\ "storage" \in Resources
    BY DEF Resources
  <2> QED
    BY <1>1, <1>2, <2>1, <2>2, <2>3 DEF Usage, Init
<1>4. Answered
  BY DEF Init, Answered, NotYet, NoAnswer
<1>5. TypeOK
  <2>1. Types
    BY InvInit DEF IInv
  <2>2. free \in Quota /\ changes \in Nat /\ faults \in Nat
    BY DEF Init, Nothing, Quota
  <2>3. failed \in BOOLEAN
    BY Zenon DEF Init
  <2>4. answer.limit = Missing /\ answer.used = Missing /\ DOMAIN answer.nodes = {}
    BY DEF Init, NoAnswer, NoNodes
  <2> QED
    BY <1>1, <2>1, <2>2, <2>3, <2>4, Zenon DEF Types, TypeOK
<1> QED
  BY <1>3, <1>4, <1>5 DEF QuotaInv

LEMMA QuotaStep == IInv /\ QuotaInv /\ [Next]_vars => QuotaInv'
BY UsageStep, AnsweredStep, TypeStep DEF QuotaInv

\* What is used stays within the project's limits, and an answer holds the quotas of
\* one moment, converted.
THEOREM QuotaInvariance == Spec => []QuotaInv
BY QuotaInit, QuotaStep, Invariance, PTL DEF Spec

\* TypeOK, with sums of any number of workspaces' quotas and quotas converted from
\* any limits.
THEOREM TypeCorrect == Spec => []TypeOK
<1>1. QuotaInv => TypeOK
  BY DEF QuotaInv
<1> QED
  BY <1>1, QuotaInvariance, PTL

\* FreeIsFree: what limit and used of an answer leave free was free when the quotas
\* were read.
THEOREM LeftWasFree == Spec => []FreeIsFree
<1>1. QuotaInv => FreeIsFree
  <2> SUFFICES ASSUME QuotaInv, answer.limit # Missing PROVE FreeIsFree
    BY DEF FreeIsFree
  <2>1. PICK l \in [Resources -> Nat], u \in [Resources -> Nat] :
          /\ answer.limit = FormatQuotas(l) /\ answer.used = FormatQuotas(u)
          /\ \A r \in Resources : l[r] - u[r] <= free[r]
          /\ \A r \in {"memory", "storage"} : u[r] % 1024 = 0
    BY DEF QuotaInv, Answered, NotYet, Told
  <2>2. /\ answer.limit["claims"] = l["claims"] /\ answer.used["claims"] = u["claims"]
        /\ answer.limit["memory"] = l["memory"] \div 1024
        /\ answer.used["memory"] = u["memory"] \div 1024
        /\ answer.limit["storage"] = l["storage"] \div 1024
        /\ answer.used["storage"] = u["storage"] \div 1024
        /\ answer.limit["cpu"] = Value(l["cpu"]) * 1000
        /\ answer.used["cpu"] = Value(u["cpu"]) * 1000
    BY <2>1 DEF FormatQuotas
  <2>3. \A r \in Resources : l[r] \in Nat /\ u[r] \in Nat /\ free[r] \in Int
    BY DEF QuotaInv, TypeOK, Quota
  <2>4. /\ "claims" \in Resources /\ "memory" \in Resources
        /\ "storage" \in Resources /\ "cpu" \in Resources
    BY DEF Resources
  <2>5. \A x, y \in Nat, z \in Int :
          x - y <= z /\ y % 1024 = 0 => (x \div 1024 - y \div 1024) * 1024 <= z
    OBVIOUS
  <2>6. \A x, y \in Nat, z \in Int :
          x - y <= z => Value(x) * 1000 - Value(y) * 1000 < z + 1000
    BY DEF Value
  <2> QED
    BY <2>1, <2>2, <2>3, <2>4, <2>5, <2>6 DEF FreeIsFree
<1> QED
  BY <1>1, QuotaInvariance, PTL
=============================================================================
