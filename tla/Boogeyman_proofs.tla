-------------------------- MODULE Boogeyman_proofs --------------------------
(***************************************************************************)
(* Theorems about the boogeyman, for any number of callers, commands,      *)
(* deployments, pods and faults: its type invariant, that a deployment     *)
(* never comes before the claim that its pods mount, and that the worker's *)
(* maps lag behind the cluster by the events on their way.                 *)
(***************************************************************************)
EXTENDS Boogeyman, FiniteSetTheorems, WellFoundedInduction, TLAPS

-----------------------------------------------------------------------------
(* The type invariant in parts *)

ClusterOK ==
  /\ cluster \in [Kinds -> SUBSET Names] /\ terminating \in [Kinds -> SUBSET Names]
  /\ stream \in [Kinds -> Seq(Event)] /\ open \in [Kinds -> BOOLEAN]
ViewOK == view \in [Kinds -> SUBSET Names]
WorkerOK ==
  /\ worker \in {"select", "claim", "deployment", "delete", "crashed"}
  /\ cmd \in Command \cup {NoCommand}
  /\ todo \in [Kinds -> SUBSET Names]
SendersOK ==
  offer \in [Senders -> Command \cup {NoCommand}] /\ started \in 0..Wanted
CleanupOK ==
  /\ cleanup \in {"no", "deployment", "pvc", "exited"}
  /\ must \subseteq Names /\ seen \subseteq Names
CountersOK ==
  /\ names \in 0..MaxNames /\ pods \in 0..MaxPods
  /\ calls \in 0..MaxCalls /\ faults \in 0..MaxFaults

LEMMA TypeSplit ==
  TypeOK <=> ClusterOK /\ ViewOK /\ WorkerOK /\ SendersOK /\ CleanupOK /\ CountersOK
BY Zenon DEF TypeOK, ClusterOK, ViewOK, WorkerOK, SendersOK, CleanupOK, CountersOK

LEMMA TypeJoin ==
  ClusterOK' /\ ViewOK' /\ WorkerOK' /\ SendersOK' /\ CleanupOK' /\ CountersOK' => TypeOK'
BY Zenon DEF TypeOK, ClusterOK, ViewOK, WorkerOK, SendersOK, CleanupOK, CountersOK

LEMMA SameTypes ==
  /\ ClusterOK /\ UNCHANGED clusterVars => ClusterOK'
  /\ ViewOK /\ UNCHANGED view => ViewOK'
  /\ WorkerOK /\ UNCHANGED workerVars => WorkerOK'
  /\ SendersOK /\ UNCHANGED <<offer, started>> => SendersOK'
  /\ CleanupOK /\ UNCHANGED cleanupVars => CleanupOK'
  /\ CountersOK /\ UNCHANGED counters => CountersOK'
BY Zenon DEF ClusterOK, ViewOK, WorkerOK, SendersOK, CleanupOK, CountersOK,
             clusterVars, workerVars, cleanupVars, counters

-----------------------------------------------------------------------------
(* Types of what the actions are made of *)

LEMMA NotifyTypes ==
  ASSUME ClusterOK, NEW k \in Kinds, NEW t \in {"Added", "Deleted"}, NEW n \in Names,
         Notify(k, t, n)
  PROVE  stream' \in [Kinds -> Seq(Event)]
<1>1. [type |-> t, name |-> n] \in Event
  BY DEF Event
<1>2. Append(stream[k], [type |-> t, name |-> n]) \in Seq(Event)
  BY <1>1 DEF ClusterOK
<1>3. CASE stream' = stream
  BY <1>3 DEF ClusterOK
<1>4. CASE stream' = [stream EXCEPT ![k] = Append(@, [type |-> t, name |-> n])]
  BY <1>2, <1>4 DEF ClusterOK
<1> QED
  BY <1>3, <1>4, Zenon DEF Notify

LEMMA CreateTypes ==
  ASSUME ClusterOK, NEW k \in Kinds, NEW n \in Names, Create(k, n)
  PROVE  ClusterOK'
<1>1. stream' \in [Kinds -> Seq(Event)]
  BY NotifyTypes DEF Create
<1>2. cluster' \in [Kinds -> SUBSET Names]
  BY DEF Create, ClusterOK
<1> QED
  BY <1>1, <1>2, Zenon DEF Create, ClusterOK

LEMMA FaultTypes == CountersOK /\ Fault => faults' \in 0..MaxFaults
BY BoogeymanAssumption DEF CountersOK, Fault

LEMMA CreateRequestTypes ==
  ASSUME ClusterOK, CountersOK, NEW k \in Kinds, NEW n \in Names, CreateRequest(k, n)
  PROVE  ClusterOK' /\ faults' \in 0..MaxFaults
<1>1. CASE Create(k, n) /\ UNCHANGED faults
  BY <1>1, CreateTypes DEF CountersOK
<1>2. CASE UNCHANGED clusterVars /\ (Fault \/ UNCHANGED faults)
  BY <1>2, SameTypes, FaultTypes DEF CountersOK
<1> QED
  BY <1>1, <1>2, Zenon DEF CreateRequest

LEMMA DeleteRequestTypes ==
  ASSUME ClusterOK, CountersOK, NEW k \in Kinds, NEW n \in Names, DeleteRequest(k, n)
  PROVE  ClusterOK' /\ faults' \in 0..MaxFaults
<1>1. CASE /\ terminating' = [terminating EXCEPT ![k] = @ \cup ({n} \cap cluster[k])]
           /\ UNCHANGED <<cluster, stream, open, faults>>
  <2>1. terminating' \in [Kinds -> SUBSET Names]
    BY <1>1 DEF ClusterOK
  <2>2. faults' \in 0..MaxFaults
    BY <1>1 DEF CountersOK
  <2> QED
    BY <1>1, <2>1, <2>2, Zenon DEF ClusterOK
<1>2. CASE Fault /\ UNCHANGED clusterVars
  BY <1>2, SameTypes, FaultTypes
<1> QED
  BY <1>1, <1>2, Zenon DEF DeleteRequest

LEMMA SharedName == Shared \in Names
BY BoogeymanAssumption DEF Shared, Names

LEMMA SendForm ==
  ASSUME SendersOK, CountersOK, NEW s \in Senders, NEW m \in Methods, Send(s, m)
  PROVE  /\ names' \in 0..MaxNames /\ names' \in {names, names + 1}
         /\ Fresh(m) => names' = names + 1
         /\ \E c \in Command :
              /\ offer' = [offer EXCEPT ![s] = c]
              /\ c.op = m /\ c.name = IF Fresh(m) THEN names' ELSE Shared
<1>1. /\ names' \in 0..MaxNames /\ names' \in {names, names + 1}
      /\ Fresh(m) => names' = names + 1
  <2>1. names' = IF Fresh(m) THEN names + 1 ELSE names
    BY Zenon DEF Send
  <2>2. Fresh(m) => names < MaxNames
    BY Zenon DEF Send
  <2> QED
    BY <2>1, <2>2, BoogeymanAssumption DEF CountersOK
<1>2. PICK i \in IF m = "DeleteRandomPod" THEN 0..MaxPods ELSE {0} :
        offer' = [offer EXCEPT ![s] = [op |-> m, instances |-> i,
                                       name |-> IF Fresh(m) THEN names' ELSE Shared]]
  BY Zenon DEF Send
<1> DEFINE c == [op |-> m, instances |-> i,
                 name |-> IF Fresh(m) THEN names' ELSE Shared]
<1>3. names' \in Names /\ i \in 0..MaxPods
  BY <1>1, <1>2, BoogeymanAssumption DEF Names
<1>4. c \in Command /\ c.op = m /\ c.name = IF Fresh(m) THEN names' ELSE Shared
  BY <1>3, SharedName DEF Command
<1> HIDE DEF c
<1> QED
  BY <1>1, <1>2, <1>4 DEF c

LEMMA ToDeleteTypes ==
  ASSUME ViewOK, NEW m, NEW t \in ToDelete(m)
  PROVE  t \in [Kinds -> SUBSET Names]
<1>1. \A k \in Kinds, set \in SUBSET Names : Only(k, set) \in [Kinds -> SUBSET Names]
  BY DEF Only, Nothing
<1>2. \A k \in Kinds : view[k] \subseteq Names
  BY DEF ViewOK
<1>3. "pod" \in Kinds /\ "deployment" \in Kinds
  BY DEF Kinds
<1>4. [view EXCEPT !["pod"] = {}] \in [Kinds -> SUBSET Names]
  BY DEF ViewOK
<1>5. \/ t = Only("pod", view["pod"]) \/ t = [view EXCEPT !["pod"] = {}]
      \/ \E n \in view["pod"] : t = Only("pod", {n})
      \/ \E n \in view["deployment"] : t = Only("deployment", {n})
  BY Zenon DEF ToDelete
<1>6. \A k \in Kinds : \A n \in view[k] : Only(k, {n}) \in [Kinds -> SUBSET Names]
  BY <1>1, <1>2
<1>7. Only("pod", view["pod"]) \in [Kinds -> SUBSET Names]
  BY <1>1, <1>2, <1>3
<1>8. CASE \E n \in view["pod"] : t = Only("pod", {n})
  BY <1>3, <1>6, <1>8
<1>9. CASE \E n \in view["deployment"] : t = Only("deployment", {n})
  BY <1>3, <1>6, <1>9
<1> QED
  BY <1>4, <1>5, <1>7, <1>8, <1>9

-----------------------------------------------------------------------------
(* Type correctness *)

LEMMA TypeInit == Init => TypeOK
<1> SUFFICES ASSUME Init PROVE TypeOK
  OBVIOUS
<1>1. ClusterOK
  BY DEF Init, ClusterOK, Nothing
<1>2. ViewOK /\ WorkerOK /\ CleanupOK
  BY DEF Init, ViewOK, WorkerOK, CleanupOK, Nothing
<1>3. SendersOK /\ CountersOK
  BY BoogeymanAssumption DEF Init, SendersOK, CountersOK
<1> QED
  BY <1>1, <1>2, <1>3, TypeSplit

\* The API server and the watches.
LEMMA ClusterTypes ==
  ASSUME TypeOK,
         (\E k \in Kinds : EndWatch(k) \/ \E n \in Names : Gone(k, n)) \/ StartPod \/ EndPod
  PROVE  TypeOK'
<1>0. ClusterOK /\ ViewOK /\ WorkerOK /\ SendersOK /\ CleanupOK /\ CountersOK
  BY TypeSplit
<1>1. ASSUME NEW k \in Kinds, NEW n \in Names, Gone(k, n) PROVE TypeOK'
  <2>1. stream' \in [Kinds -> Seq(Event)]
    BY <1>0, <1>1, NotifyTypes DEF Gone
  <2>2. cluster' \in [Kinds -> SUBSET Names] /\ terminating' \in [Kinds -> SUBSET Names]
    BY <1>0, <1>1 DEF Gone, ClusterOK
  <2>3. ClusterOK'
    BY <1>0, <1>1, <2>1, <2>2, Zenon DEF Gone, ClusterOK
  <2> QED
    BY <1>0, <1>1, <2>3, SameTypes, TypeJoin, Zenon DEF Gone
<1>2. ASSUME NEW k \in Kinds, EndWatch(k) PROVE TypeOK'
  <2>1. open' \in [Kinds -> BOOLEAN]
    BY <1>0, <1>2, Zenon DEF EndWatch, ClusterOK
  <2>2. ClusterOK'
    BY <1>0, <1>2, <2>1, Zenon DEF EndWatch, ClusterOK
  <2>3. CountersOK'
    BY <1>0, <1>2, FaultTypes, Zenon DEF EndWatch, CountersOK
  <2> QED
    BY <1>0, <1>2, <2>2, <2>3, SameTypes, TypeJoin, Zenon DEF EndWatch
<1>3. CASE StartPod
  <2>1. pods' \in 0..MaxPods /\ MaxNames + pods' \in Names
    BY <1>0, <1>3, BoogeymanAssumption DEF StartPod, CountersOK, Names
  <2>2. ClusterOK'
    BY <1>0, <1>3, <2>1, CreateTypes DEF StartPod, Kinds
  <2>3. CountersOK'
    BY <1>0, <1>3, <2>1, Zenon DEF StartPod, CountersOK
  <2> QED
    BY <1>0, <1>3, <2>2, <2>3, SameTypes, TypeJoin, Zenon DEF StartPod
<1>4. CASE EndPod
  <2>1. terminating' \in [Kinds -> SUBSET Names]
    BY <1>0, <1>4 DEF EndPod, ClusterOK
  <2>2. ClusterOK'
    BY <1>0, <1>4, <2>1, Zenon DEF EndPod, ClusterOK
  <2> QED
    BY <1>0, <1>4, <2>2, SameTypes, TypeJoin, Zenon DEF EndPod
<1> QED
  BY <1>1, <1>2, <1>3, <1>4

\* Those who send commands.
LEMMA SenderTypes ==
  ASSUME TypeOK, (\E c \in Callers : Call(c)) \/ StartDeployments \/ Recreate
  PROVE  TypeOK'
<1>0. ClusterOK /\ ViewOK /\ WorkerOK /\ SendersOK /\ CleanupOK /\ CountersOK
  BY TypeSplit
<1>1. ASSUME NEW s \in Senders, NEW m \in Methods, Send(s, m)
      PROVE  /\ offer' \in [Senders -> Command \cup {NoCommand}]
             /\ names' \in 0..MaxNames
  BY <1>0, <1>1, SendForm DEF SendersOK
<1>2. "Deploy" \in Methods /\ Test \in Senders /\ Callers \subseteq Senders
      /\ Offered \subseteq Methods
  BY BoogeymanAssumption DEF Methods, Creating, Senders
<1>3. ASSUME NEW c \in Callers, Call(c) PROVE TypeOK'
  <2>1. /\ offer' \in [Senders -> Command \cup {NoCommand}] /\ names' \in 0..MaxNames
    BY <1>1, <1>2, <1>3, Zenon DEF Call
  <2>2. calls' \in 0..MaxCalls
    BY <1>0, <1>3, BoogeymanAssumption DEF Call, CountersOK
  <2>3. SendersOK' /\ CountersOK'
    BY <1>0, <1>3, <2>1, <2>2, Zenon DEF Call, SendersOK, CountersOK
  <2> QED
    BY <1>0, <1>3, <2>3, SameTypes, TypeJoin, Zenon DEF Call
<1>4. CASE StartDeployments
  <2>1. /\ offer' \in [Senders -> Command \cup {NoCommand}] /\ names' \in 0..MaxNames
    BY <1>1, <1>2, <1>4, Zenon DEF StartDeployments
  <2>2. started' \in 0..Wanted
    BY <1>0, <1>4, BoogeymanAssumption DEF StartDeployments, MoreToStart, SendersOK
  <2>3. SendersOK' /\ CountersOK'
    BY <1>0, <1>4, <2>1, <2>2, Zenon DEF StartDeployments, SendersOK, CountersOK
  <2> QED
    BY <1>0, <1>4, <2>3, SameTypes, TypeJoin, Zenon DEF StartDeployments
<1>5. CASE Recreate
  <2>1. /\ offer' \in [Senders -> Command \cup {NoCommand}] /\ names' \in 0..MaxNames
    BY <1>1, <1>2, <1>5, Zenon DEF Recreate
  <2>2. SendersOK' /\ CountersOK'
    BY <1>0, <1>5, <2>1, Zenon DEF Recreate, SendersOK, CountersOK
  <2> QED
    BY <1>0, <1>5, <2>2, SameTypes, TypeJoin, Zenon DEF Recreate
<1> QED
  BY <1>3, <1>4, <1>5

LEMMA BeginTypes ==
  ASSUME TypeOK, NEW c \in Command, Begin(c)
  PROVE  WorkerOK'
<1>0. ViewOK /\ WorkerOK
  BY TypeSplit
<1>1. /\ worker' \in {"select", "claim", "deployment", "delete", "crashed"}
      /\ cmd' \in {cmd, c}
      /\ todo' = todo \/ todo' \in ToDelete(c.op)
  BY <1>0 DEF Begin, FirstRequest, workerVars, WorkerOK
<1>2. todo' \in [Kinds -> SUBSET Names]
  BY <1>0, <1>1, ToDeleteTypes DEF WorkerOK
<1> QED
  BY <1>0, <1>1, <1>2 DEF WorkerOK

LEMMA ApplyTypes ==
  ASSUME NEW set \in SUBSET Names, NEW e \in Event
  PROVE  Apply(set, e) \in SUBSET Names
BY DEF Apply, Event

LEMMA FirstTaken ==
  ASSUME NEW s \in Seq(Event), s # <<>>
  PROVE  s[1] \in Event /\ RemoveAt(s, 1) \in Seq(Event)
<1>1. SubSeq(s, 1, 1 - 1) \in Seq(Event) /\ SubSeq(s, 1 + 1, Len(s)) \in Seq(Event)
  OBVIOUS
<1>2. RemoveAt(s, 1) = SubSeq(s, 1, 1 - 1) \o SubSeq(s, 1 + 1, Len(s))
  BY Zenon DEF RemoveAt
<1> QED
  BY <1>1, <1>2

\* masterWorker.
LEMMA WorkTypes ==
  ASSUME TypeOK, Work \/ CrashOnMapRace
  PROVE  TypeOK'
<1>0. ClusterOK /\ ViewOK /\ WorkerOK /\ SendersOK /\ CleanupOK /\ CountersOK
  BY TypeSplit
<1>1. ASSUME NEW k \in Kinds, ReceiveEvent(k) PROVE TypeOK'
  <2>1. stream[k] \in Seq(Event) /\ stream[k] # <<>> /\ view[k] \in SUBSET Names
    BY <1>0, <1>1 DEF ReceiveEvent, ClusterOK, ViewOK
  <2>2. stream[k][1] \in Event /\ RemoveAt(stream[k], 1) \in Seq(Event)
    BY <2>1, FirstTaken
  <2>3. /\ view' = [view EXCEPT ![k] = Apply(view[k], stream[k][1])]
        /\ stream' = [stream EXCEPT ![k] = RemoveAt(stream[k], 1)]
    BY <1>1, Zenon DEF ReceiveEvent, Arriving
  <2>4. view' \in [Kinds -> SUBSET Names]
    BY <1>0, <2>1, <2>2, <2>3, ApplyTypes DEF ViewOK
  <2>5. stream' \in [Kinds -> Seq(Event)]
    BY <1>0, <2>2, <2>3 DEF ClusterOK
  <2>6. ClusterOK' /\ ViewOK'
    BY <1>0, <1>1, <2>4, <2>5, Zenon DEF ReceiveEvent, ClusterOK, ViewOK
  <2> QED
    BY <1>0, <1>1, <2>6, SameTypes, TypeJoin, Zenon DEF ReceiveEvent
<1>2. ASSUME NEW s \in Senders, ReceiveCommand(s) PROVE TypeOK'
  <2>1. offer[s] \in Command
    BY <1>0, <1>2 DEF ReceiveCommand, SendersOK
  <2>2. WorkerOK'
    BY <1>2, <2>1, BeginTypes DEF ReceiveCommand
  <2>3. SendersOK'
    BY <1>0, <1>2 DEF ReceiveCommand, SendersOK
  <2> QED
    BY <1>0, <1>2, <2>2, <2>3, SameTypes, TypeJoin, Zenon DEF ReceiveCommand
<1>3. ASSUME worker \in {"claim", "deployment"} PROVE cmd.name \in Names
  BY <1>0, SharedName DEF WorkerOK, Command, NoCommand, Shared
<1>4. CASE CreatePVC
  <2>1. "pvc" \in Kinds /\ worker = "claim"
    BY <1>4 DEF CreatePVC, Kinds
  <2>2. ClusterOK' /\ faults' \in 0..MaxFaults
    BY <1>0, <1>3, <1>4, <2>1, CreateRequestTypes DEF CreatePVC
  <2>3. WorkerOK' /\ CountersOK'
    BY <1>0, <1>4, <2>2 DEF CreatePVC, Done, WorkerOK, CountersOK
  <2> QED
    BY <1>0, <1>4, <2>2, <2>3, SameTypes, TypeJoin, Zenon DEF CreatePVC
<1>5. CASE CreateDeployment
  <2>1. "deployment" \in Kinds /\ worker = "deployment"
    BY <1>5 DEF CreateDeployment, Kinds
  <2>2. ClusterOK' /\ faults' \in 0..MaxFaults
    BY <1>0, <1>3, <1>5, <2>1, CreateRequestTypes DEF CreateDeployment
  <2>3. WorkerOK' /\ CountersOK'
    BY <1>0, <1>5, <2>2 DEF CreateDeployment, Done, WorkerOK, CountersOK
  <2> QED
    BY <1>0, <1>5, <2>2, <2>3, SameTypes, TypeJoin, Zenon DEF CreateDeployment
<1>6. CASE DeleteNext
  <2>1. PICK k \in Kinds : \E n \in todo[k] :
          DeleteRequest(k, n) /\ todo' = [todo EXCEPT ![k] = @ \ {n}]
    BY <1>6, Zenon DEF DeleteNext
  <2>2. PICK n \in todo[k] :
          DeleteRequest(k, n) /\ todo' = [todo EXCEPT ![k] = @ \ {n}]
    BY <2>1
  <2>3. n \in Names
    BY <1>0, <2>1, <2>2 DEF WorkerOK
  <2>4. ClusterOK' /\ faults' \in 0..MaxFaults
    BY <1>0, <2>2, <2>3, DeleteRequestTypes
  <2>5. WorkerOK' /\ CountersOK'
    BY <1>0, <1>6, <2>2, <2>4 DEF DeleteNext, WorkerOK, CountersOK
  <2> QED
    BY <1>0, <1>6, <2>4, <2>5, SameTypes, TypeJoin, Zenon DEF DeleteNext
<1>7. CASE DeleteDone
  <2>1. cmd' \in Command \cup {NoCommand} /\ worker' \in {worker, "select"}
    <3>1. CASE cmd.instances > 1
      <4>1. cmd \in Command /\ cmd.instances \in 0..MaxPods
        BY <1>0, <3>1 DEF WorkerOK, NoCommand, Command
      <4>2. cmd.instances - 1 \in 0..MaxPods
        BY <3>1, <4>1, BoogeymanAssumption
      <4> QED
        BY <1>7, <3>1, <4>1, <4>2 DEF DeleteDone, Command
    <3>2. CASE ~ (cmd.instances > 1)
      BY <1>7, <3>2, Zenon DEF DeleteDone, Done
    <3> QED
      BY <3>1, <3>2
  <2>2. todo' \in [Kinds -> SUBSET Names]
    BY <1>0, <1>7, ToDeleteTypes, Zenon DEF DeleteDone, WorkerOK
  <2>3. WorkerOK'
    BY <1>0, <2>1, <2>2 DEF WorkerOK
  <2> QED
    BY <1>0, <1>7, <2>3, SameTypes, TypeJoin, Zenon DEF DeleteDone
<1>8. CASE CrashOnMapRace
  <2>1. WorkerOK'
    BY <1>0, <1>8 DEF CrashOnMapRace, WorkerOK
  <2> QED
    BY <1>0, <1>8, <2>1, SameTypes, TypeJoin, Zenon DEF CrashOnMapRace
<1> QED
  BY <1>1, <1>2, <1>4, <1>5, <1>6, <1>7, <1>8 DEF Work

\* HandleCtrlC and Cleanup.
LEMMA CleanupTypes ==
  ASSUME TypeOK, Interrupt \/ CleanNext \/ CleanDone
  PROVE  TypeOK'
<1>0. ClusterOK /\ ViewOK /\ WorkerOK /\ SendersOK /\ CleanupOK /\ CountersOK
  BY TypeSplit
<1>1. ASSUME NEW k \in {"deployment", "pvc"}, RangeOver(k) PROVE CleanupOK'
  BY <1>0, <1>1 DEF RangeOver, ViewOK, CleanupOK, Kinds
<1>2. CASE Interrupt
  <2>1. CleanupOK'
    BY <1>1, <1>2 DEF Interrupt
  <2> QED
    BY <1>0, <1>2, <2>1, SameTypes, TypeJoin, Zenon DEF Interrupt
<1>3. CASE CleanNext
  <2>1. PICK n \in view[cleanup] : DeleteRequest(cleanup, n) /\ seen' = seen \cup {n}
    BY <1>3, Zenon DEF CleanNext
  <2>2. cleanup \in Kinds /\ n \in Names
    BY <1>0, <1>3, <2>1 DEF CleanNext, Kinds, ViewOK
  <2>3. ClusterOK' /\ faults' \in 0..MaxFaults
    BY <1>0, <2>1, <2>2, DeleteRequestTypes
  <2>4. CleanupOK' /\ CountersOK'
    BY <1>0, <1>3, <2>1, <2>2, <2>3 DEF CleanNext, CleanupOK, CountersOK
  <2> QED
    BY <1>0, <1>3, <2>3, <2>4, SameTypes, TypeJoin, Zenon DEF CleanNext
<1>4. CASE CleanDone
  <2>1. CleanupOK'
    <3>1. CASE RangeOver("pvc")
      BY <1>1, <3>1
    <3>2. CASE cleanup' = "exited" /\ must' = {} /\ seen' = {}
      BY <3>2 DEF CleanupOK
    <3> QED
      BY <1>4, <3>1, <3>2, Zenon DEF CleanDone
  <2> QED
    BY <1>0, <1>4, <2>1, SameTypes, TypeJoin, Zenon DEF CleanDone
<1> QED
  BY <1>2, <1>3, <1>4

LEMMA TypeStep == TypeOK /\ [Next]_vars => TypeOK'
<1> SUFFICES ASSUME TypeOK, [Next]_vars PROVE TypeOK'
  OBVIOUS
<1>1. CASE UNCHANGED vars
  <2>1. UNCHANGED <<clusterVars, view, workerVars, offer, started, cleanupVars, counters>>
    BY <1>1, Zenon DEF vars
  <2> QED
    BY <2>1, TypeSplit, SameTypes, TypeJoin, Zenon
<1> QED
  BY <1>1, ClusterTypes, SenderTypes, WorkTypes, CleanupTypes, Zenon DEF Next

\* TypeOK: maps, streams, commands and what is to be deleted stay what they are
\* taken for, and every name is one of those made up.
THEOREM TypeCorrect == Spec => []TypeOK
BY TypeInit, TypeStep, PTL DEF Spec

-----------------------------------------------------------------------------
(* The claim comes first: the inductive invariant *)

\* Names are made up by counting, and claims have no others.
ClaimsNamed ==
  /\ cluster["pvc"] \subseteq 0..names
  /\ terminating["pvc"] \subseteq cluster["pvc"]

\* Nobody has yet made the claim n, which was asked for; nor after a step.
Unmade(n) == n \in 1..names /\ n \notin cluster["pvc"]
UnmadeAfter(n) == n \in 1..names' /\ n \notin cluster'["pvc"]

Deploys(c)    == c.op = "Deploy"
MakesClaim(c) == c.op = "CreatePersistentVolumeClaim"

\* A deployment that is asked for with a claim of its own has a name of its own.
OffersFresh ==
  /\ \A s \in Senders :
       /\ Deploys(offer[s]) => Unmade(offer[s].name)
       /\ MakesClaim(offer[s]) => offer[s].name = Shared
  /\ \A s, t \in Senders :
       s # t /\ Deploys(offer[s]) /\ Deploys(offer[t]) => offer[s].name # offer[t].name

\* So has the one whose claim the worker makes next.
ClaimFresh ==
  worker = "claim" =>
    IF Deploys(cmd)
    THEN Unmade(cmd.name) /\ \A s \in Senders : Deploys(offer[s]) => offer[s].name # cmd.name
    ELSE cmd.name = Shared

\* When the worker goes on to the deployment, its claim is there to stay, unless
\* a request has failed or Cleanup has run.
HasClaim ==
  worker = "deployment" /\ Deploys(cmd) /\ faults = 0 /\ cleanup = "no"
    => cmd.name \in cluster["pvc"] \ terminating["pvc"]

IInv == TypeOK /\ ClaimsNamed /\ OffersFresh /\ ClaimFresh /\ HasClaim

LEMMA InvInit == Init => IInv
<1> SUFFICES ASSUME Init PROVE IInv
  OBVIOUS
<1>1. ClaimsNamed
  BY DEF Init, ClaimsNamed, Nothing, Kinds
<1>2. OffersFresh
  BY DEF Init, OffersFresh, Deploys, MakesClaim, NoCommand
<1>3. ClaimFresh /\ HasClaim
  BY DEF Init, ClaimFresh, HasClaim
<1> QED
  BY <1>1, <1>2, <1>3, TypeInit DEF IInv

-----------------------------------------------------------------------------
(* Steps that make no claim, and neither send nor take up a command *)

Quiet ==
  /\ cluster'["pvc"] \subseteq cluster["pvc"]
  /\ terminating'["pvc"] \subseteq cluster'["pvc"]
  /\ UNCHANGED <<offer, names>>
  /\ UNCHANGED <<worker, cmd>> \/ worker' \notin {"claim", "deployment"}
  /\ worker' = "deployment" /\ faults' = 0 /\ cleanup' = "no"
     => /\ faults = 0 /\ cleanup = "no"
        /\ cluster["pvc"] \ terminating["pvc"] \subseteq cluster'["pvc"] \ terminating'["pvc"]

LEMMA QuietKeeps ==
  ASSUME IInv, Quiet
  PROVE  ClaimsNamed' /\ OffersFresh' /\ ClaimFresh' /\ HasClaim'
<1>1. ClaimsNamed'
  BY DEF IInv, ClaimsNamed, Quiet
<1>2. \A n : Unmade(n) => UnmadeAfter(n)
  BY DEF Quiet, Unmade, UnmadeAfter
<1>3. offer' = offer
  BY DEF Quiet
<1>4. OffersFresh'
  BY <1>2, <1>3 DEF IInv, OffersFresh, Deploys, MakesClaim, Unmade, UnmadeAfter
<1>5. ClaimFresh'
  BY <1>2, <1>3 DEF IInv, ClaimFresh, Deploys, Quiet, Unmade, UnmadeAfter
<1>6. HasClaim'
  BY DEF IInv, HasClaim, Deploys, Quiet
<1> QED
  BY <1>1, <1>4, <1>5, <1>6

LEMMA NoFaultBefore ==
  /\ CountersOK /\ Fault => faults' # 0
  /\ CountersOK /\ CleanupOK => faults \in Nat
BY BoogeymanAssumption DEF CountersOK, Fault

\* Asking for a deletion marks objects that exist, and removes none.
LEMMA DeleteRequestForm ==
  ASSUME ClusterOK, terminating["pvc"] \subseteq cluster["pvc"],
         NEW k \in Kinds, NEW n \in Names, DeleteRequest(k, n)
  PROVE  cluster' = cluster /\ terminating'["pvc"] \subseteq cluster'["pvc"]
<1>1. CASE /\ terminating' = [terminating EXCEPT ![k] = @ \cup ({n} \cap cluster[k])]
           /\ UNCHANGED <<cluster, stream, open, faults>>
  BY <1>1 DEF ClusterOK, Kinds
<1>2. CASE Fault /\ UNCHANGED clusterVars
  BY <1>2 DEF clusterVars
<1> QED
  BY <1>1, <1>2, Zenon DEF DeleteRequest

\* Creating something else leaves the claims as they are.
LEMMA CreateForm ==
  ASSUME ClusterOK, NEW k \in {"deployment", "pod"}, NEW n, Create(k, n)
  PROVE  cluster'["pvc"] = cluster["pvc"] /\ terminating' = terminating
BY DEF Create, ClusterOK, Kinds

LEMMA ClusterQuiet ==
  ASSUME IInv,
         (\E k \in Kinds : EndWatch(k) \/ \E n \in Names : Gone(k, n)) \/ StartPod \/ EndPod
  PROVE  Quiet
<1>0. ClusterOK /\ CountersOK /\ ClaimsNamed
  BY TypeSplit DEF IInv
<1>1. ASSUME NEW k \in Kinds, NEW n \in Names, Gone(k, n) PROVE Quiet
  <2>1. /\ UNCHANGED <<workerVars, offer, cleanupVars, counters>>
        /\ n \in terminating[k]
        /\ cluster' = [cluster EXCEPT ![k] = @ \ {n}]
        /\ terminating' = [terminating EXCEPT ![k] = @ \ {n}]
    BY <1>1, Zenon DEF Gone
  <2>2. CASE k = "pvc"
    BY <1>0, <2>1, <2>2
      DEF Quiet, ClusterOK, ClaimsNamed, Kinds, workerVars, cleanupVars, counters
  <2>3. CASE k # "pvc"
    BY <1>0, <2>1, <2>3
      DEF Quiet, ClusterOK, ClaimsNamed, Kinds, workerVars, cleanupVars, counters
  <2> QED
    BY <2>2, <2>3
<1>2. ASSUME NEW k \in Kinds, EndWatch(k) PROVE Quiet
  BY <1>0, <1>2, NoFaultBefore
    DEF EndWatch, Quiet, ClaimsNamed, workerVars, cleanupVars
<1>3. CASE StartPod
  <2>1. Create("pod", MaxNames + pods')
    BY <1>3 DEF StartPod
  <2> QED
    BY <1>0, <1>3, <2>1, CreateForm
      DEF StartPod, Quiet, ClaimsNamed, workerVars, cleanupVars
<1>4. CASE EndPod
  BY <1>0, <1>4
    DEF EndPod, Quiet, ClusterOK, ClaimsNamed, Kinds, workerVars, cleanupVars, counters
<1> QED
  BY <1>1, <1>2, <1>3, <1>4

LEMMA WorkQuiet ==
  ASSUME IInv,
         \/ \E k \in Kinds : ReceiveEvent(k)
         \/ CreateDeployment \/ DeleteNext \/ DeleteDone \/ CrashOnMapRace
  PROVE  Quiet
<1>0. ClusterOK /\ CountersOK /\ WorkerOK /\ ClaimsNamed
  BY TypeSplit DEF IInv
<1>1. ASSUME NEW k \in Kinds, ReceiveEvent(k) PROVE Quiet
  BY <1>0, <1>1
    DEF ReceiveEvent, Quiet, ClaimsNamed, workerVars, cleanupVars, counters
<1>2. CASE CreateDeployment
  <2>1. cluster'["pvc"] = cluster["pvc"] /\ terminating' = terminating
    <3>1. CASE Create("deployment", cmd.name)
      BY <1>0, <3>1, CreateForm
    <3>2. CASE UNCHANGED clusterVars
      BY <3>2 DEF clusterVars
    <3> QED
      BY <1>2, <3>1, <3>2, Zenon DEF CreateDeployment, CreateRequest
  <2>2. worker' = "select" /\ UNCHANGED <<offer, names>>
    BY <1>2 DEF CreateDeployment, Done
  <2> QED
    BY <1>0, <2>1, <2>2 DEF Quiet, ClaimsNamed
<1>3. CASE DeleteNext
  <2>1. PICK k \in Kinds : \E n \in todo[k] : DeleteRequest(k, n)
    BY <1>3, Zenon DEF DeleteNext
  <2>2. PICK n \in todo[k] : DeleteRequest(k, n)
    BY <2>1
  <2>3. n \in Names
    BY <1>0, <2>1, <2>2 DEF WorkerOK
  <2>4. cluster' = cluster /\ terminating'["pvc"] \subseteq cluster'["pvc"]
    BY <1>0, <2>2, <2>3, DeleteRequestForm DEF ClaimsNamed
  <2> QED
    BY <1>3, <2>4 DEF DeleteNext, Quiet
<1>4. CASE DeleteDone
  <2>1. worker' \in {"delete", "select"}
    BY <1>4, Zenon DEF DeleteDone, Done
  <2> QED
    BY <1>0, <1>4, <2>1 DEF DeleteDone, Quiet, ClaimsNamed, clusterVars, counters
<1>5. CASE CrashOnMapRace
  BY <1>0, <1>5
    DEF CrashOnMapRace, Quiet, ClaimsNamed, clusterVars, counters
<1> QED
  BY <1>1, <1>2, <1>3, <1>4, <1>5

LEMMA CleanupQuiet ==
  ASSUME IInv, Interrupt \/ CleanNext \/ CleanDone
  PROVE  Quiet
<1>0. ClusterOK /\ ViewOK /\ ClaimsNamed
  BY TypeSplit DEF IInv
<1>1. CASE Interrupt
  BY <1>0, <1>1
    DEF Interrupt, RangeOver, Quiet, ClaimsNamed, clusterVars, workerVars, counters
<1>2. CASE CleanNext
  <2>1. PICK n \in view[cleanup] : DeleteRequest(cleanup, n)
    BY <1>2, Zenon DEF CleanNext
  <2>2. cleanup \in Kinds /\ n \in Names
    BY <1>0, <1>2, <2>1 DEF CleanNext, Kinds, ViewOK
  <2>3. cluster' = cluster /\ terminating'["pvc"] \subseteq cluster'["pvc"]
    BY <1>0, <2>1, <2>2, DeleteRequestForm DEF ClaimsNamed
  <2> QED
    BY <1>2, <2>3 DEF CleanNext, Quiet, workerVars
<1>3. CASE CleanDone
  <2>1. cleanup' \in {"pvc", "exited"}
    BY <1>3, Zenon DEF CleanDone, RangeOver
  <2> QED
    BY <1>0, <1>3, <2>1
      DEF CleanDone, Quiet, ClaimsNamed, clusterVars, workerVars, counters
<1> QED
  BY <1>1, <1>2, <1>3

-----------------------------------------------------------------------------
(* The other steps *)

\* A command is sent: a name that is made up is larger than all before it.
LEMMA SendKeeps ==
  ASSUME IInv, (\E c \in Callers : Call(c)) \/ StartDeployments \/ Recreate
  PROVE  ClaimsNamed' /\ OffersFresh' /\ ClaimFresh' /\ HasClaim'
<1>0. SendersOK /\ CountersOK /\ ClaimsNamed /\ OffersFresh /\ ClaimFresh /\ HasClaim
  BY TypeSplit DEF IInv
<1>1. "Deploy" \in Methods /\ Test \in Senders /\ Callers \subseteq Senders
      /\ Offered \subseteq Methods
  BY BoogeymanAssumption DEF Methods, Creating, Senders
<1>2. UNCHANGED <<clusterVars, workerVars, cleanup, faults>>
  BY DEF Call, StartDeployments, Recreate, cleanupVars
<1>3. PICK s \in Senders : \E m \in Methods : Send(s, m)
  BY <1>1 DEF Call, StartDeployments, Recreate
<1>4. PICK m \in Methods : Send(s, m)
  BY <1>3
<1>5. /\ names' \in 0..MaxNames /\ names' \in {names, names + 1}
      /\ Fresh(m) => names' = names + 1
      /\ \E c \in Command :
           /\ offer' = [offer EXCEPT ![s] = c]
           /\ c.op = m /\ c.name = IF Fresh(m) THEN names' ELSE Shared
  BY <1>0, <1>4, SendForm
<1>6. PICK c \in Command :
        /\ offer' = [offer EXCEPT ![s] = c]
        /\ c.op = m /\ c.name = IF Fresh(m) THEN names' ELSE Shared
  BY <1>5
<1>7. names \in Nat /\ names <= names'
  BY <1>0, <1>5 DEF CountersOK
<1>8. ClaimsNamed'
  BY <1>0, <1>2, <1>5, <1>7 DEF ClaimsNamed, clusterVars
<1>9. \A n : Unmade(n) => UnmadeAfter(n) /\ n <= names
  BY <1>2, <1>5, <1>7 DEF Unmade, UnmadeAfter, clusterVars
<1>10. Deploys(c) => c.name = names + 1 /\ names' = names + 1 /\ UnmadeAfter(c.name)
  <2> SUFFICES ASSUME Deploys(c)
               PROVE  c.name = names + 1 /\ names' = names + 1 /\ UnmadeAfter(c.name)
    OBVIOUS
  <2>1. c.name = names + 1 /\ names' = names + 1
    BY <1>5, <1>6 DEF Deploys, Fresh
  <2>2. names + 1 \notin cluster["pvc"]
    BY <1>0, <1>7 DEF ClaimsNamed
  <2> QED
    BY <1>2, <1>7, <2>1, <2>2 DEF Unmade, UnmadeAfter, clusterVars
<1>11. MakesClaim(c) => c.name = Shared
  BY <1>6 DEF MakesClaim, Fresh
<1>12. \A t \in Senders : offer'[t] = IF t = s THEN c ELSE offer[t]
  BY <1>0, <1>6 DEF SendersOK
<1>13. \A t \in Senders : Deploys(offer[t]) => Unmade(offer[t].name)
  BY <1>0 DEF OffersFresh
<1>14. OffersFresh'
  <2>1. ASSUME NEW t \in Senders
        PROVE  /\ Deploys(offer'[t]) => UnmadeAfter(offer'[t].name)
               /\ MakesClaim(offer'[t]) => offer'[t].name = Shared
    BY <1>0, <1>9, <1>10, <1>11, <1>12, <1>13 DEF OffersFresh
  <2>2. ASSUME NEW t \in Senders, NEW u \in Senders, t # u,
               Deploys(offer'[t]), Deploys(offer'[u])
        PROVE  offer'[t].name # offer'[u].name
    <3>1. CASE t # s /\ u # s
      BY <1>0, <1>12, <2>2, <3>1 DEF OffersFresh
    <3>2. CASE t = s
      <4>1. Unmade(offer'[u].name) /\ offer'[u].name <= names
        BY <1>9, <1>12, <1>13, <2>2, <3>2
      <4>2. offer'[t].name = names + 1
        BY <1>10, <1>12, <2>2, <3>2
      <4>3. offer'[u].name \in Nat
        BY <4>1, <1>7 DEF Unmade
      <4> QED
        BY <1>7, <4>1, <4>2, <4>3
    <3>3. CASE u = s
      <4>1. Unmade(offer'[t].name) /\ offer'[t].name <= names
        BY <1>9, <1>12, <1>13, <2>2, <3>3
      <4>2. offer'[u].name = names + 1
        BY <1>10, <1>12, <2>2, <3>3
      <4>3. offer'[t].name \in Nat
        BY <4>1, <1>7 DEF Unmade
      <4> QED
        BY <1>7, <4>1, <4>2, <4>3
    <3> QED
      BY <3>1, <3>2, <3>3
  <2> QED
    BY <2>1, <2>2 DEF OffersFresh, Deploys, MakesClaim, Unmade, UnmadeAfter
<1>15. ClaimFresh'
  <2> SUFFICES ASSUME worker' = "claim"
               PROVE  IF Deploys(cmd)
                      THEN UnmadeAfter(cmd.name)
                           /\ \A t \in Senders :
                                Deploys(offer'[t]) => offer'[t].name # cmd.name
                      ELSE cmd.name = Shared
    BY <1>2 DEF ClaimFresh, Deploys, Unmade, UnmadeAfter, workerVars
  <2>1. worker = "claim"
    BY <1>2 DEF workerVars
  <2>2. CASE Deploys(cmd)
    <3>1. Unmade(cmd.name) /\ \A t \in Senders : Deploys(offer[t]) => offer[t].name # cmd.name
      BY <1>0, <2>1, <2>2 DEF ClaimFresh
    <3>2. cmd.name \in Nat /\ cmd.name <= names
      BY <3>1, <1>7 DEF Unmade
    <3>3. cmd.name # names + 1
      BY <1>7, <3>2
    <3>4. \A t \in Senders : Deploys(offer'[t]) => offer'[t].name # cmd.name
      BY <1>10, <1>12, <3>1, <3>3
    <3> QED
      BY <1>9, <2>2, <3>1, <3>4
  <2>3. CASE ~ Deploys(cmd)
    BY <1>0, <2>1, <2>3 DEF ClaimFresh
  <2> QED
    BY <2>2, <2>3
<1>16. HasClaim'
  BY <1>0, <1>2 DEF HasClaim, Deploys, clusterVars, workerVars
<1> QED
  BY <1>8, <1>14, <1>15, <1>16

\* The worker takes up a command: the name leaves the offers.
LEMMA ReceiveKeeps ==
  ASSUME IInv, NEW s \in Senders, ReceiveCommand(s)
  PROVE  ClaimsNamed' /\ OffersFresh' /\ ClaimFresh' /\ HasClaim'
<1>0. SendersOK /\ WorkerOK /\ ClaimsNamed /\ OffersFresh
  BY TypeSplit DEF IInv
<1>1. /\ UNCHANGED <<cluster, terminating, names>>
      /\ offer' = [offer EXCEPT ![s] = NoCommand] /\ Begin(offer[s])
      /\ worker = "select"
  BY DEF ReceiveCommand, AtSelect, clusterVars, counters
<1>2. \A t \in Senders : offer'[t] = IF t = s THEN NoCommand ELSE offer[t]
  BY <1>0, <1>1 DEF SendersOK
<1>3. ~ Deploys(NoCommand) /\ ~ MakesClaim(NoCommand)
  BY DEF Deploys, MakesClaim, NoCommand
<1>4. ClaimsNamed'
  BY <1>0, <1>1 DEF ClaimsNamed
<1>5. \A n : Unmade(n) => UnmadeAfter(n)
  BY <1>1 DEF Unmade, UnmadeAfter
<1>6. \A t \in Senders :
        /\ Deploys(offer'[t]) => t # s /\ offer'[t] = offer[t]
        /\ MakesClaim(offer'[t]) => t # s /\ offer'[t] = offer[t]
  BY <1>2, <1>3
<1>7. OffersFresh'
  <2>1. \A t \in Senders :
          /\ Deploys(offer'[t]) => UnmadeAfter(offer'[t].name)
          /\ MakesClaim(offer'[t]) => offer'[t].name = Shared
    BY <1>0, <1>5, <1>6 DEF OffersFresh
  <2>2. \A t, u \in Senders :
          t # u /\ Deploys(offer'[t]) /\ Deploys(offer'[u])
            => offer'[t].name # offer'[u].name
    BY <1>0, <1>6 DEF OffersFresh
  <2> QED
    BY <2>1, <2>2 DEF OffersFresh, Deploys, MakesClaim, Unmade, UnmadeAfter
<1>8. /\ worker' = "claim" => cmd' = offer[s] /\ (Deploys(offer[s]) \/ MakesClaim(offer[s]))
      /\ worker' = "deployment" => cmd' = offer[s] /\ ~ Deploys(offer[s])
  BY <1>1 DEF Begin, FirstRequest, Creating, Deploys, MakesClaim, workerVars
<1>9. ClaimFresh'
  <2> SUFFICES ASSUME worker' = "claim"
               PROVE  IF Deploys(cmd')
                      THEN UnmadeAfter(cmd'.name)
                           /\ \A t \in Senders :
                                Deploys(offer'[t]) => offer'[t].name # cmd'.name
                      ELSE cmd'.name = Shared
    BY DEF ClaimFresh, Deploys, Unmade, UnmadeAfter
  <2>1. cmd' = offer[s] /\ (Deploys(offer[s]) \/ MakesClaim(offer[s]))
    BY <1>8
  <2>2. CASE Deploys(offer[s])
    <3>1. UnmadeAfter(offer[s].name)
      BY <1>0, <1>5, <2>2 DEF OffersFresh, Unmade, UnmadeAfter
    <3>2. \A t \in Senders : Deploys(offer'[t]) => offer'[t].name # offer[s].name
      BY <1>0, <1>6, <2>2 DEF OffersFresh
    <3> QED
      BY <1>0, <1>1, <1>5, <2>1, <2>2, <3>2 DEF OffersFresh, Unmade, UnmadeAfter
  <2>3. CASE ~ Deploys(offer[s])
    BY <1>0, <2>1, <2>3 DEF OffersFresh
  <2> QED
    BY <2>2, <2>3
<1>10. HasClaim'
  BY <1>8 DEF HasClaim, Deploys
<1> QED
  BY <1>4, <1>7, <1>9, <1>10

\* The claim is made: nobody else was going to make it.
LEMMA ClaimKeeps ==
  ASSUME IInv, CreatePVC
  PROVE  ClaimsNamed' /\ OffersFresh' /\ ClaimFresh' /\ HasClaim'
<1>0. /\ ClusterOK /\ CountersOK /\ WorkerOK
      /\ ClaimsNamed /\ OffersFresh /\ ClaimFresh
  BY TypeSplit DEF IInv
<1>1. /\ UNCHANGED <<offer, names, cleanup>> /\ worker = "claim"
      /\ worker' \in {"deployment", "select"}
      /\ worker' = "deployment" => Deploys(cmd) /\ cmd' = cmd
  BY DEF CreatePVC, Done, Deploys, cleanupVars
<1>2. /\ cluster'["pvc"] \subseteq cluster["pvc"] \cup {cmd.name}
      /\ terminating' = terminating
      /\ cluster["pvc"] \subseteq cluster'["pvc"]
      /\ faults' = 0 /\ cmd.name \notin cluster["pvc"] => cmd.name \in cluster'["pvc"]
  <2>1. CASE cmd.name \notin cluster["pvc"] /\ Create("pvc", cmd.name) /\ UNCHANGED faults
    BY <1>0, <2>1 DEF Create, ClusterOK, Kinds
  <2>2. CASE cmd.name \in cluster["pvc"] /\ UNCHANGED <<clusterVars, faults>>
    BY <2>2 DEF clusterVars
  <2>3. CASE Fault /\ UNCHANGED clusterVars
    BY <1>0, <2>3, NoFaultBefore DEF clusterVars
  <2> QED
    BY <2>1, <2>2, <2>3, Zenon DEF CreatePVC, CreateRequest
<1>3. names \in Nat
  BY <1>0 DEF CountersOK
<1>4. cmd.name \in 0..names /\ (Deploys(cmd) => Unmade(cmd.name))
      /\ (~ Deploys(cmd) => cmd.name = 0)
  BY <1>0, <1>1, <1>3 DEF ClaimFresh, Unmade, Shared
<1>5. ClaimsNamed'
  BY <1>0, <1>1, <1>2, <1>4 DEF ClaimsNamed
<1>6. \A t \in Senders : Deploys(offer[t]) => UnmadeAfter(offer[t].name)
  <2> SUFFICES ASSUME NEW t \in Senders, Deploys(offer[t])
               PROVE  offer[t].name \in 1..names /\ offer[t].name \notin cluster'["pvc"]
    BY <1>1 DEF Unmade, UnmadeAfter
  <2>1. offer[t].name \in 1..names /\ offer[t].name \notin cluster["pvc"]
    BY <1>0 DEF OffersFresh, Unmade
  <2>2. offer[t].name # cmd.name
    BY <1>0, <1>1, <1>4, <2>1 DEF ClaimFresh
  <2> QED
    BY <1>2, <2>1, <2>2
<1>7. OffersFresh'
  BY <1>0, <1>1, <1>6 DEF OffersFresh, Deploys, MakesClaim, Unmade, UnmadeAfter
<1>8. ClaimFresh'
  BY <1>1 DEF ClaimFresh
<1>9. HasClaim'
  <2> SUFFICES ASSUME worker' = "deployment", faults' = 0
               PROVE  cmd'.name \in cluster'["pvc"] \ terminating'["pvc"]
    BY DEF HasClaim
  <2>1. Unmade(cmd.name) /\ cmd' = cmd
    BY <1>1, <1>4
  <2>2. cmd.name \notin cluster["pvc"] /\ cmd.name \notin terminating["pvc"]
    BY <1>0, <2>1 DEF Unmade, ClaimsNamed
  <2> QED
    BY <1>2, <2>1, <2>2
<1> QED
  BY <1>5, <1>7, <1>8, <1>9

-----------------------------------------------------------------------------
LEMMA InvStep == IInv /\ [Next]_vars => IInv'
<1> SUFFICES ASSUME IInv, [Next]_vars PROVE IInv'
  OBVIOUS
<1>1. TypeOK'
  BY TypeStep DEF IInv
<1>2. CASE UNCHANGED vars
  <2>1. Quiet
    BY <1>2
      DEF IInv, ClaimsNamed, vars, clusterVars, workerVars, cleanupVars, counters, Quiet
  <2> QED
    BY <1>1, <2>1, QuietKeeps DEF IInv
<1>3. CASE Next
  <2>1. CASE \/ (\E k \in Kinds : EndWatch(k) \/ \E n \in Names : Gone(k, n))
             \/ StartPod \/ EndPod
    BY <1>1, <2>1, ClusterQuiet, QuietKeeps DEF IInv
  <2>2. CASE \/ \E k \in Kinds : ReceiveEvent(k)
             \/ CreateDeployment \/ DeleteNext \/ DeleteDone \/ CrashOnMapRace
    BY <1>1, <2>2, WorkQuiet, QuietKeeps DEF IInv
  <2>3. CASE Interrupt \/ CleanNext \/ CleanDone
    BY <1>1, <2>3, CleanupQuiet, QuietKeeps DEF IInv
  <2>4. CASE (\E c \in Callers : Call(c)) \/ StartDeployments \/ Recreate
    BY <1>1, <2>4, SendKeeps DEF IInv
  <2>5. CASE \E s \in Senders : ReceiveCommand(s)
    BY <1>1, <2>5, ReceiveKeeps DEF IInv
  <2>6. CASE CreatePVC
    BY <1>1, <2>6, ClaimKeeps DEF IInv
  <2> QED
    BY <1>3, <2>1, <2>2, <2>3, <2>4, <2>5, <2>6, Zenon DEF Next, Work
<1> QED
  BY <1>2, <1>3, Zenon

\* The inductive invariant: names that are made up are never made up again, and
\* the claim of a deployment to be created is there.
THEOREM Invariance == Spec => []IInv
BY InvInit, InvStep, PTL DEF Spec

\* Only masterWorker creates deployments, and only the one it has just made the
\* claim for.
LEMMA ClaimFirstStep ==
  ASSUME IInv, [Next]_vars
  PROVE  [\A n \in Names :
            n \in cluster'["deployment"] \ cluster["deployment"]
              /\ cmd.op = "Deploy" /\ faults = 0 /\ cleanup = "no"
            => n \in cluster["pvc"]]_vars
<1> SUFFICES ASSUME Next, NEW n \in Names,
                    n \in cluster'["deployment"] \ cluster["deployment"],
                    cmd.op = "Deploy", faults = 0, cleanup = "no"
             PROVE  n \in cluster["pvc"]
  OBVIOUS
<1>0. ClusterOK /\ ViewOK /\ WorkerOK /\ ClaimsNamed /\ HasClaim
  BY TypeSplit DEF IInv
<1>1. CASE CreateDeployment
  <2>1. worker = "deployment" /\ cmd.name \in cluster["pvc"]
    BY <1>0, <1>1 DEF CreateDeployment, HasClaim, Deploys
  <2>2. n = cmd.name
    <3>1. CASE Create("deployment", cmd.name)
      BY <1>0, <3>1 DEF Create, ClusterOK, Kinds
    <3>2. CASE UNCHANGED clusterVars
      BY <3>2 DEF clusterVars
    <3> QED
      BY <1>1, <3>1, <3>2, Zenon DEF CreateDeployment, CreateRequest
  <2> QED
    BY <2>1, <2>2
<1>2. CASE CreatePVC
  <2>1. CASE Create("pvc", cmd.name)
    BY <1>0, <2>1 DEF Create, ClusterOK, Kinds
  <2>2. CASE UNCHANGED clusterVars
    BY <2>2 DEF clusterVars
  <2> QED
    BY <1>2, <2>1, <2>2, Zenon DEF CreatePVC, CreateRequest
<1>3. CASE StartPod
  <2>1. Create("pod", MaxNames + pods')
    BY <1>3 DEF StartPod
  <2> QED
    BY <1>0, <2>1 DEF Create, ClusterOK, Kinds
<1>4. ASSUME NEW k \in Kinds, NEW m \in Names, Gone(k, m) PROVE FALSE
  <2>1. cluster' = [cluster EXCEPT ![k] = @ \ {m}]
    BY <1>4, Zenon DEF Gone
  <2> QED
    BY <1>0, <2>1 DEF ClusterOK, Kinds
<1>5. CASE DeleteNext \/ CleanNext
  <2>1. ASSUME NEW k, NEW m, DeleteRequest(k, m) PROVE cluster' = cluster
    BY <2>1 DEF DeleteRequest, clusterVars
  <2>2. cluster' = cluster
    BY <1>5, <2>1 DEF DeleteNext, CleanNext
  <2> QED
    BY <2>2
<1>6. CASE \/ \E k \in Kinds : ReceiveEvent(k) \/ EndWatch(k)
           \/ \E s \in Senders : ReceiveCommand(s)
           \/ \E c \in Callers : Call(c)
           \/ DeleteDone \/ CrashOnMapRace \/ StartDeployments \/ Recreate
           \/ Interrupt \/ CleanDone \/ EndPod
  <2>1. cluster' = cluster
    BY <1>6 DEF ReceiveEvent, EndWatch, ReceiveCommand, Call, DeleteDone, CrashOnMapRace,
                StartDeployments, Recreate, Interrupt, CleanDone, EndPod, clusterVars
  <2> QED
    BY <2>1
<1> QED
  BY <1>1, <1>2, <1>3, <1>4, <1>5, <1>6, Zenon DEF Next, Work

\* ClaimFirst: however commands, events, monkeys and the end of claims interleave,
\* no deployment is created before the claim that its pods mount, unless a request
\* has failed or Cleanup has run.
THEOREM ClaimsFirst == Spec => ClaimFirst
BY Invariance, ClaimFirstStep, PTL DEF Spec, ClaimFirst

-----------------------------------------------------------------------------
(* Replaying events: the fold in its closed form *)

\* What the recursion of the fold asks of a function on sets of positions.
IsReplay(f, set, es) ==
  f = [t \in SUBSET DOMAIN es |->
         IF t = {} THEN set ELSE Apply(f[t \ {Max(t)}], es[Max(t)])]

LEMMA ReplayedIsFold ==
  ASSUME NEW set, NEW es
  PROVE  Replayed(set, es) = (CHOOSE f : IsReplay(f, set, es))[DOMAIN es]
BY Zenon DEF Replayed, FoldLeft, MapThenFoldSet, IsReplay

LEMMA LeastNatural ==
  ASSUME NEW T \in SUBSET Nat, T # {}
  PROVE  \E m \in T : \A k \in T : m <= k
<1>1. PICK m \in T : \A k \in T : <<k, m>> \notin OpToRel(<, Nat)
  BY WFMin, NatLessThanWellFounded, Zenon
<1>2. \A k \in T : ~ (k < m)
  BY <1>1 DEF OpToRel
<1> QED
  BY <1>2

LEMMA MaxOf ==
  ASSUME NEW n \in Nat, NEW t \in SUBSET (1..n), t # {}
  PROVE  Max(t) \in t /\ \A i \in t : i <= Max(t)
<1> DEFINE T == {k \in Nat : \E i \in t : k = n - i}
<1>0. PICK i \in t : TRUE
  OBVIOUS
<1>1. n - i \in T
  BY <1>0
<1>2. PICK m \in T : \A k \in T : m <= k
  BY <1>1, LeastNatural
<1>3. PICK j \in t : m = n - j
  BY <1>2
<1>4. \A k \in t : n - k \in T
  OBVIOUS
<1>5. ASSUME NEW k \in t PROVE j >= k
  <2>1. j \in Int /\ k \in Int
    OBVIOUS
  <2>2. n - j <= n - k
    BY <1>2, <1>3, <1>4
  <2> QED
    BY <2>1, <2>2
<1>6. \E x \in t : \A y \in t : x >= y
  BY <1>5
<1> HIDE DEF T
<1>7. Max(t) \in t /\ \A k \in t : Max(t) >= k
  BY <1>6, Zenon DEF Max
<1> QED
  BY <1>7

\* The names that are there when the events at the positions t have been taken: the
\* last event of a name decides.
LastWins(set, es, t) ==
  {n \in set \cup {es[i].name : i \in DOMAIN es} :
     \/ n \in set /\ \A i \in t : es[i].name # n
     \/ \E i \in t : /\ es[i] = [type |-> "Added", name |-> n]
                     /\ \A j \in t : j > i => es[j].name # n}

LEMMA LastWinsStep ==
  ASSUME NEW set, NEW es \in Seq(Event), NEW t \in SUBSET DOMAIN es, t # {}
  PROVE  LastWins(set, es, t) = Apply(LastWins(set, es, t \ {Max(t)}), es[Max(t)])
<1>1. Len(es) \in Nat /\ DOMAIN es = 1..Len(es) /\ \A i \in DOMAIN es : es[i] \in Event
  OBVIOUS
<1>2. Max(t) \in t /\ \A i \in t : i <= Max(t)
  BY <1>1, MaxOf
<1> DEFINE m == Max(t)
<1> HIDE DEF m
<1>3. m \in t /\ m \in DOMAIN es /\ t \subseteq DOMAIN es /\ \A i \in t : i \in Int /\ i <= m
  BY <1>1, <1>2 DEF m
<1>4. es[m] = [type |-> es[m].type, name |-> es[m].name] /\ es[m].type \in {"Added", "Deleted"}
  BY <1>1, <1>3 DEF Event
<1>5. ASSUME NEW n, n # es[m].name
      PROVE  n \in LastWins(set, es, t) <=> n \in LastWins(set, es, t \ {m})
  BY <1>3, <1>5 DEF LastWins
<1>6. es[m].name \in LastWins(set, es, t) <=> es[m].type = "Added"
  <2>1. ASSUME es[m].type = "Added" PROVE es[m].name \in LastWins(set, es, t)
    BY <1>3, <1>4, <2>1 DEF LastWins
  <2>2. ASSUME es[m].name \in LastWins(set, es, t) PROVE es[m].type = "Added"
    BY <1>3, <1>4, <2>2 DEF LastWins
  <2> QED
    BY <2>1, <2>2
<1>7. Apply(LastWins(set, es, t \ {m}), es[m]) =
        IF es[m].type = "Added" THEN LastWins(set, es, t \ {m}) \cup {es[m].name}
        ELSE LastWins(set, es, t \ {m}) \ {es[m].name}
  BY DEF Apply
<1>8. LastWins(set, es, t) = Apply(LastWins(set, es, t \ {m}), es[m])
  BY <1>5, <1>6, <1>7
<1> QED
  BY <1>8 DEF m

LEMMA ReplayedForm ==
  ASSUME NEW set, NEW es \in Seq(Event)
  PROVE  Replayed(set, es) = LastWins(set, es, DOMAIN es)
<1> DEFINE D == DOMAIN es
           g == [t \in SUBSET D |-> LastWins(set, es, t)]
           f == CHOOSE h : IsReplay(h, set, es)
<1>1. Len(es) \in Nat /\ D = 1..Len(es)
  OBVIOUS
<1>2. LastWins(set, es, {}) = set
  BY DEF LastWins
<1>3. \A t \in SUBSET D : t # {} => g[t] = Apply(g[t \ {Max(t)}], es[Max(t)])
  BY LastWinsStep
<1>4. g[{}] = set
  BY <1>2
<1>5. IsReplay(g, set, es)
  BY <1>3, <1>4 DEF IsReplay
<1>6. IsReplay(f, set, es)
  BY <1>5, Zenon
<1> HIDE DEF f, g
<1>7. f[{}] = set /\ \A t \in SUBSET D : t # {} => f[t] = Apply(f[t \ {Max(t)}], es[Max(t)])
  BY <1>6 DEF IsReplay
<1>8. \A t \in SUBSET D : f[t] = g[t]
  <2> DEFINE S == SUBSET D
             T == {t \in S : f[t] # g[t]}
  <2> SUFFICES ASSUME T # {} PROVE FALSE
    OBVIOUS
  <2>1. IsWellFoundedOn(StrictSubsetOrdering(D), S)
    <3>1. IsFiniteSet(D)
      BY <1>1, FS_Interval
    <3>2. FiniteSubsetsOf(D) = S
      BY <3>1, FS_FiniteSubsetsOfFinite
    <3> QED
      BY <3>2, FS_StrictSubsetOrderingWellFounded
  <2>2. PICK t \in T : \A u \in T : <<u, t>> \notin StrictSubsetOrdering(D)
    BY <2>1, WFMin, Zenon
  <2>3. t # {}
    BY <1>4, <1>7, <2>2
  <2>4. Max(t) \in t
    BY <1>1, <2>2, <2>3, MaxOf
  <2>5. t \ {Max(t)} \in S /\ <<t \ {Max(t)}, t>> \in StrictSubsetOrdering(D)
    BY <2>2, <2>4 DEF StrictSubsetOrdering
  <2>6. f[t \ {Max(t)}] = g[t \ {Max(t)}]
    BY <2>2, <2>5
  <2> QED
    BY <1>3, <1>7, <2>2, <2>3, <2>6
<1>9. f[D] = LastWins(set, es, D)
  BY <1>8 DEF g
<1> QED
  BY <1>9, ReplayedIsFold DEF f

LEMMA ReplayedAppend ==
  ASSUME NEW set, NEW es \in Seq(Event), NEW e \in Event
  PROVE  Replayed(set, Append(es, e)) = Apply(Replayed(set, es), e)
<1> DEFINE fs == Append(es, e)
<1>1. /\ fs \in Seq(Event) /\ Len(es) \in Nat /\ DOMAIN es = 1..Len(es)
      /\ DOMAIN fs = 1..(Len(es) + 1) /\ fs[Len(es) + 1] = e
      /\ \A i \in DOMAIN es : fs[i] = es[i]
  OBVIOUS
<1> HIDE DEF fs
<1>2. Max(DOMAIN fs) = Len(es) + 1
  BY <1>1 DEF Max
<1>3. LastWins(set, fs, DOMAIN fs) = Apply(LastWins(set, fs, DOMAIN es), e)
  <2>1. DOMAIN fs \ {Len(es) + 1} = DOMAIN es /\ DOMAIN fs # {}
    BY <1>1
  <2> QED
    BY <1>1, <1>2, <2>1, LastWinsStep
<1>4. Apply(LastWins(set, fs, DOMAIN es), e) = Apply(LastWins(set, es, DOMAIN es), e)
  <2>1. ASSUME NEW n
        PROVE  n \in LastWins(set, fs, DOMAIN es) <=> n \in LastWins(set, es, DOMAIN es)
    BY <1>1 DEF LastWins
  <2>2. LastWins(set, fs, DOMAIN es) = LastWins(set, es, DOMAIN es)
    BY <2>1 DEF LastWins
  <2> QED
    BY <2>2
<1> QED
  BY <1>1, <1>3, <1>4, ReplayedForm DEF fs

LEMMA ReplayedFirst ==
  ASSUME NEW set, NEW es \in Seq(Event), es # <<>>
  PROVE  Replayed(Apply(set, es[1]), RemoveAt(es, 1)) = Replayed(set, es)
<1> DEFINE fs == RemoveAt(es, 1)
<1>1. /\ Len(es) \in Nat /\ DOMAIN es = 1..Len(es) /\ 1 \in DOMAIN es
      /\ \A i \in DOMAIN es : es[i] \in Event
  OBVIOUS
<1>2. fs = SubSeq(es, 1, 1 - 1) \o SubSeq(es, 1 + 1, Len(es))
  BY Zenon DEF RemoveAt
<1>3. /\ fs \in Seq(Event) /\ DOMAIN fs = 1..(Len(es) - 1)
      /\ \A i \in DOMAIN fs : fs[i] = es[i + 1]
  BY <1>2
<1> HIDE DEF fs
<1>4. \A i \in DOMAIN es : i # 1 => i - 1 \in DOMAIN fs /\ fs[i - 1] = es[i]
  BY <1>1, <1>3
<1>5. es[1] = [type |-> es[1].type, name |-> es[1].name] /\ es[1].type \in {"Added", "Deleted"}
  BY <1>1 DEF Event
<1> DEFINE A == Apply(set, es[1])
<1>6. \A n : n \in A <=> IF n = es[1].name THEN es[1].type = "Added" ELSE n \in set
  BY <1>5 DEF Apply
<1> HIDE DEF A
<1>7. ASSUME NEW n, n \in LastWins(A, fs, DOMAIN fs)
      PROVE  n \in LastWins(set, es, DOMAIN es)
  <2>1. CASE n \in A /\ \A i \in DOMAIN fs : fs[i].name # n
    <3>1. \A i \in DOMAIN es : i # 1 => es[i].name # n
      BY <1>4, <2>1
    <3> QED
      BY <1>1, <1>5, <1>6, <2>1, <3>1 DEF LastWins
  <2>2. CASE \E i \in DOMAIN fs : /\ fs[i] = [type |-> "Added", name |-> n]
                                  /\ \A j \in DOMAIN fs : j > i => fs[j].name # n
    <3>1. PICK i \in DOMAIN fs : /\ fs[i] = [type |-> "Added", name |-> n]
                                 /\ \A j \in DOMAIN fs : j > i => fs[j].name # n
      BY <2>2
    <3>2. i + 1 \in DOMAIN es /\ es[i + 1] = [type |-> "Added", name |-> n]
      BY <1>1, <1>3, <3>1
    <3>3. ASSUME NEW j \in DOMAIN es, j > i + 1 PROVE es[j].name # n
      <4>1. j - 1 \in DOMAIN fs /\ j - 1 > i /\ fs[j - 1] = es[j]
        BY <1>1, <1>3, <1>4, <3>3
      <4> QED
        BY <3>1, <4>1
    <3> QED
      BY <3>2, <3>3 DEF LastWins
  <2> QED
    BY <1>7, <2>1, <2>2 DEF LastWins
<1>8. ASSUME NEW n, n \in LastWins(set, es, DOMAIN es)
      PROVE  n \in LastWins(A, fs, DOMAIN fs)
  <2>1. CASE n \in set /\ \A i \in DOMAIN es : es[i].name # n
    <3>1. n \in A
      BY <1>1, <1>6, <2>1
    <3>2. \A i \in DOMAIN fs : fs[i].name # n
      BY <1>1, <1>3, <2>1
    <3> QED
      BY <3>1, <3>2 DEF LastWins
  <2>2. CASE \E i \in DOMAIN es : /\ es[i] = [type |-> "Added", name |-> n]
                                  /\ \A j \in DOMAIN es : j > i => es[j].name # n
    <3>1. PICK i \in DOMAIN es : /\ es[i] = [type |-> "Added", name |-> n]
                                 /\ \A j \in DOMAIN es : j > i => es[j].name # n
      BY <2>2
    <3>2. ASSUME NEW j \in DOMAIN fs, j > i - 1 PROVE fs[j].name # n
      <4>1. j + 1 \in DOMAIN es /\ j + 1 > i
        BY <1>1, <1>3, <3>2
      <4> QED
        BY <1>3, <3>1, <4>1
    <3>3. CASE i = 1
      <4>1. n \in A
        BY <1>6, <3>1, <3>3
      <4>2. \A j \in DOMAIN fs : fs[j].name # n
        BY <1>1, <1>3, <3>2, <3>3
      <4> QED
        BY <4>1, <4>2 DEF LastWins
    <3>4. CASE i # 1
      <4>1. i - 1 \in DOMAIN fs /\ fs[i - 1] = [type |-> "Added", name |-> n]
        BY <1>4, <3>1, <3>4
      <4>2. n = fs[i - 1].name
        BY <4>1
      <4> QED
        BY <3>2, <4>1, <4>2 DEF LastWins
    <3> QED
      BY <3>3, <3>4
  <2> QED
    BY <1>8, <2>1, <2>2 DEF LastWins
<1>9. LastWins(A, fs, DOMAIN fs) = LastWins(set, es, DOMAIN es)
  BY <1>7, <1>8 DEF LastWins
<1> QED
  BY <1>3, <1>9, ReplayedForm DEF A, fs

-----------------------------------------------------------------------------
(* The maps lag behind the cluster by the events on their way *)

\* An object that comes or goes is the next event of its watch.
LEMMA NotifyLags ==
  ASSUME ClusterOK, ViewLagsByStream, UNCHANGED <<open, view>>,
         NEW k \in Kinds, NEW t \in {"Added", "Deleted"}, NEW n \in Names,
         Notify(k, t, n),
         cluster' = [cluster EXCEPT ![k] = Apply(@, [type |-> t, name |-> n])]
  PROVE  ViewLagsByStream'
<1> DEFINE e == [type |-> t, name |-> n]
<1>1. e \in Event
  BY DEF Event
<1>2. stream' = IF open[k] THEN [stream EXCEPT ![k] = Append(@, e)] ELSE stream
  BY Zenon DEF Notify
<1>3. cluster' = [cluster EXCEPT ![k] = Apply(@, e)]
  OBVIOUS
<1> HIDE DEF e
<1> SUFFICES ASSUME NEW j \in Kinds, open[j]
             PROVE  Replayed(view[j], stream'[j]) = cluster'[j]
  BY DEF ViewLagsByStream, Replayed
<1>4. Replayed(view[j], stream[j]) = cluster[j]
  BY DEF ViewLagsByStream
<1>5. CASE j = k
  <2>1. stream'[k] = Append(stream[k], e) /\ stream[k] \in Seq(Event)
    BY <1>2, <1>5 DEF ClusterOK
  <2>2. cluster'[k] = Apply(cluster[k], e)
    BY <1>3 DEF ClusterOK
  <2> QED
    BY <1>1, <1>4, <1>5, <2>1, <2>2, ReplayedAppend
<1>6. CASE j # k
  BY <1>2, <1>3, <1>4, <1>6 DEF ClusterOK
<1> QED
  BY <1>5, <1>6

LEMMA CreateLags ==
  ASSUME ClusterOK, ViewLagsByStream, UNCHANGED view,
         NEW k \in Kinds, NEW n \in Names, Create(k, n)
  PROVE  ViewLagsByStream'
<1>1. Apply(cluster[k], [type |-> "Added", name |-> n]) = cluster[k] \cup {n}
  BY DEF Apply
<1>2. cluster' = [cluster EXCEPT ![k] = Apply(@, [type |-> "Added", name |-> n])]
  BY <1>1, Zenon DEF Create
<1>3. Notify(k, "Added", n) /\ UNCHANGED open
  BY DEF Create
<1> QED
  BY <1>2, <1>3, NotifyLags

\* What leaves the objects, the events and the maps alone.
LEMMA SameLag ==
  ASSUME ViewLagsByStream, UNCHANGED <<cluster, stream, view>>,
         \A k \in Kinds : open'[k] => open[k]
  PROVE  ViewLagsByStream'
BY Zenon DEF ViewLagsByStream, Replayed

LEMMA CreateRequestLags ==
  ASSUME ClusterOK, ViewLagsByStream, UNCHANGED view,
         NEW k \in Kinds, NEW n \in Names, CreateRequest(k, n)
  PROVE  ViewLagsByStream'
<1>1. CASE UNCHANGED clusterVars
  BY <1>1, SameLag DEF clusterVars
<1> QED
  BY <1>1, CreateLags, Zenon DEF CreateRequest

LEMMA LagStep ==
  ASSUME TypeOK, ViewLagsByStream, [Next]_vars
  PROVE  ViewLagsByStream'
<1>0. ClusterOK /\ ViewOK /\ WorkerOK /\ CountersOK
  BY TypeSplit
<1>1. ASSUME NEW k \in Kinds, ReceiveEvent(k) PROVE ViewLagsByStream'
  <2>1. /\ stream[k] # <<>> /\ stream[k] \in Seq(Event)
        /\ view' = [view EXCEPT ![k] = Apply(view[k], stream[k][1])]
        /\ stream' = [stream EXCEPT ![k] = RemoveAt(stream[k], 1)]
        /\ UNCHANGED <<cluster, open>>
    BY <1>0, <1>1, Zenon DEF ReceiveEvent, Arriving, ClusterOK
  <2> SUFFICES ASSUME NEW j \in Kinds, open[j]
               PROVE  Replayed(view'[j], stream'[j]) = cluster[j]
    BY <2>1 DEF ViewLagsByStream, Replayed
  <2>2. Replayed(view[j], stream[j]) = cluster[j]
    BY DEF ViewLagsByStream
  <2>3. CASE j = k
    <3>1. view'[k] = Apply(view[k], stream[k][1]) /\ stream'[k] = RemoveAt(stream[k], 1)
      BY <1>0, <2>1 DEF ClusterOK, ViewOK
    <3> QED
      BY <2>1, <2>2, <2>3, <3>1, ReplayedFirst
  <2>4. CASE j # k
    BY <1>0, <2>1, <2>2, <2>4 DEF ClusterOK, ViewOK
  <2> QED
    BY <2>3, <2>4
<1>2. ASSUME NEW k \in Kinds, NEW n \in Names, Gone(k, n) PROVE ViewLagsByStream'
  <2>1. Apply(cluster[k], [type |-> "Deleted", name |-> n]) = cluster[k] \ {n}
    BY DEF Apply
  <2>2. /\ cluster' = [cluster EXCEPT ![k] = Apply(@, [type |-> "Deleted", name |-> n])]
        /\ Notify(k, "Deleted", n) /\ UNCHANGED <<open, view>>
    BY <1>2, <2>1, Zenon DEF Gone
  <2> QED
    BY <1>0, <2>2, NotifyLags
<1>3. ASSUME NEW k \in Kinds, EndWatch(k) PROVE ViewLagsByStream'
  <2>1. \A j \in Kinds : open'[j] => open[j]
    BY <1>0, <1>3, Zenon DEF EndWatch, ClusterOK
  <2> QED
    BY <1>3, <2>1, SameLag DEF EndWatch
<1>4. CASE StartPod
  <2>1. MaxNames + pods' \in Names /\ "pod" \in Kinds
    BY <1>0, <1>4, BoogeymanAssumption DEF StartPod, CountersOK, Names, Kinds
  <2> QED
    BY <1>0, <1>4, <2>1, CreateLags DEF StartPod
<1>5. ASSUME worker \in {"claim", "deployment"} PROVE cmd.name \in Names
  BY <1>0, SharedName DEF WorkerOK, Command, NoCommand, Shared
<1>6. CASE CreatePVC
  <2>1. cmd.name \in Names /\ "pvc" \in Kinds
    BY <1>5, <1>6 DEF CreatePVC, Kinds
  <2> QED
    BY <1>0, <1>6, <2>1, CreateRequestLags DEF CreatePVC
<1>7. CASE CreateDeployment
  <2>1. cmd.name \in Names /\ "deployment" \in Kinds
    BY <1>5, <1>7 DEF CreateDeployment, Kinds
  <2> QED
    BY <1>0, <1>7, <2>1, CreateRequestLags DEF CreateDeployment
<1>8. CASE DeleteNext \/ CleanNext
  <2>1. ASSUME NEW k, NEW n, DeleteRequest(k, n) PROVE UNCHANGED <<cluster, stream, open>>
    BY <2>1 DEF DeleteRequest, clusterVars
  <2>2. UNCHANGED <<cluster, stream, open, view>>
    BY <1>8, <2>1 DEF DeleteNext, CleanNext
  <2> QED
    BY <2>2, SameLag
<1>9. CASE \/ \E s \in Senders : ReceiveCommand(s)
           \/ \E c \in Callers : Call(c)
           \/ DeleteDone \/ CrashOnMapRace \/ StartDeployments \/ Recreate
           \/ Interrupt \/ CleanDone \/ EndPod \/ UNCHANGED vars
  <2>1. UNCHANGED <<cluster, stream, open, view>>
    BY <1>9 DEF ReceiveCommand, Call, DeleteDone, CrashOnMapRace, StartDeployments,
                Recreate, Interrupt, CleanDone, EndPod, clusterVars, vars
  <2> QED
    BY <2>1, SameLag
<1> QED
  BY <1>1, <1>2, <1>3, <1>4, <1>6, <1>7, <1>8, <1>9, Zenon DEF Next, Work

\* ViewLagsByStream: the worker's maps differ from the cluster by exactly the events
\* that are on their way, in their order, as long as a watch has not ended.
THEOREM MapsLagByEvents == Spec => []ViewLagsByStream
<1>1. Init => ViewLagsByStream
  <2>1. \A k \in Kinds : Nothing[k] = {}
    BY DEF Nothing
  <2>2. /\ <<>> \in Seq(Event)
        /\ DOMAIN << >> = {}
    OBVIOUS
  <2>3. LastWins({}, <<>>, {}) = {}
    BY DEF LastWins
  <2>4. Replayed({}, <<>>) = LastWins({}, <<>>, DOMAIN << >>)
    BY <2>2, ReplayedForm
  <2>5. Replayed({}, <<>>) = {}
    BY <2>2, <2>3, <2>4, Zenon
  <2> QED
    BY <2>1, <2>5 DEF Init, ViewLagsByStream
<1> QED
  BY <1>1, LagStep, TypeCorrect, PTL DEF Spec
=============================================================================
