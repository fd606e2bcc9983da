----------------------------- MODULE Boogeyman -----------------------------
(***************************************************************************)
(* The boogeyman of the storage tests: one goroutine, masterWorker, serves *)
(* an unbuffered channel that carries both the commands of the tests and   *)
(* of the chaos monkeys, and the events of three watches on the cluster,   *)
(* and it alone writes the maps of what is believed to exist.  Handing a   *)
(* command over is one step, taken when the worker is back at its select;  *)
(* a request to the API server is another.  An interrupt makes Cleanup     *)
(* walk through the same maps beside the worker.                           *)
(***************************************************************************)
EXTENDS Naturals, SequencesExt

CONSTANTS
  Callers,      \* goroutines that call the public methods
  Offered,      \* the methods they call
  Wanted,       \* numberOfDeployments of TestSmoke3 and TestSmoke4
  MaxNames,     \* bound: names made up for deployments
  MaxPods,      \* bound: pods ever started
  MaxCalls,     \* bound: commands of the callers
  MaxFaults,    \* bound: requests that fail and watches that end
  Interrupts    \* TRUE: Ctrl+C may be pressed

Kinds   == {"deployment", "pvc", "pod"}
Creating == {"Deploy", "DeploySharedPVC", "CreatePersistentVolumeClaim"}
Deleting == {"DeleteRandomPod", "DeleteAllPods", "DeleteRandomDeployment",
             "DeleteAllDeployments"}
Methods == Creating \cup Deleting

ASSUME BoogeymanAssumption ==
  /\ Offered \subseteq Methods /\ Interrupts \in BOOLEAN
  /\ Wanted \in Nat /\ MaxNames \in Nat /\ MaxPods \in Nat
  /\ MaxCalls \in Nat /\ MaxFaults \in Nat

\* A deployment made by Deploy has a claim of its own, numbered like it; 0 is
\* the shared claim.
Names  == 0..(MaxNames + MaxPods)
Shared == 0

VARIABLES
  \* The API server (external): objects, those being deleted, what each watch
  \* has still to deliver, the watches that have not ended
  cluster, terminating, stream, open,
  \* The maps deployments, pvcs and pods
  view,
  \* masterWorker: where it is, its command, the objects still to be deleted
  worker, cmd, todo,
  \* The commands that callers and the test are blocked on; deployments the test
  \* has asked for at its start
  offer, started,
  \* Cleanup: the map it ranges over, what it must still see, what it has seen
  cleanup, must, seen,
  names, pods, calls, faults

clusterVars == <<cluster, terminating, stream, open>>
workerVars  == <<worker, cmd, todo>>
cleanupVars == <<cleanup, must, seen>>
counters    == <<names, pods, calls, faults>>
vars == <<clusterVars, view, workerVars, offer, started, cleanupVars, counters>>

Test    == "test"
Senders == Callers \cup {Test}
Command == [op : Methods, name : Names, instances : 0..MaxPods]
NoCommand == [op |-> "none", name |-> 0, instances |-> 0]
Event == [type : {"Added", "Deleted"}, name : Names]

TypeOK ==
  /\ cluster \in [Kinds -> SUBSET Names] /\ terminating \in [Kinds -> SUBSET Names]
  /\ stream \in [Kinds -> Seq(Event)] /\ open \in [Kinds -> BOOLEAN]
  /\ view \in [Kinds -> SUBSET Names]
  /\ worker \in {"select", "claim", "deployment", "delete", "crashed"}
  /\ cmd \in Command \cup {NoCommand}
  /\ todo \in [Kinds -> SUBSET Names]
  /\ offer \in [Senders -> Command \cup {NoCommand}] /\ started \in 0..Wanted
  /\ cleanup \in {"no", "deployment", "pvc", "exited"}
  /\ must \subseteq Names /\ seen \subseteq Names
  /\ names \in 0..MaxNames /\ pods \in 0..MaxPods
  /\ calls \in 0..MaxCalls /\ faults \in 0..MaxFaults

Nothing == [k \in Kinds |-> {}]

Init ==
  /\ cluster = Nothing /\ terminating = Nothing
  /\ stream = [k \in Kinds |-> <<>>] /\ open = [k \in Kinds |-> TRUE]
  /\ view = Nothing
  /\ worker = "select" /\ cmd = NoCommand /\ todo = Nothing
  /\ offer = [s \in Senders |-> NoCommand] /\ started = 0
  /\ cleanup = "no" /\ must = {} /\ seen = {}
  /\ names = 0 /\ pods = 0 /\ calls = 0 /\ faults = 0

\* The process is there: no goroutine has panicked, and it has not exited.
Running == worker # "crashed" /\ cleanup # "exited"

Fault == faults < MaxFaults /\ faults' = faults + 1

-----------------------------------------------------------------------------
(* The API server (external) *)

Notify(k, type, n) ==
  stream' = IF open[k] THEN [stream EXCEPT ![k] = Append(@, [type |-> type, name |-> n])]
            ELSE stream

Create(k, n) ==
  /\ cluster' = [cluster EXCEPT ![k] = @ \cup {n}]
  /\ Notify(k, "Added", n)
  /\ UNCHANGED <<terminating, open>>

\* A request to create an object that exists is refused.
CreateRequest(k, n) ==
  \/ n \notin cluster[k] /\ Create(k, n) /\ UNCHANGED faults
  \/ n \in cluster[k] /\ UNCHANGED <<clusterVars, faults>>
  \/ Fault /\ UNCHANGED clusterVars

\* Deletion in the foreground: the object goes when what depends on it is gone.
DeleteRequest(k, n) ==
  \/ /\ terminating' = [terminating EXCEPT ![k] = @ \cup ({n} \cap cluster[k])]
     /\ UNCHANGED <<cluster, stream, open, faults>>
  \/ Fault /\ UNCHANGED clusterVars

Gone(k, n) ==
  /\ n \in terminating[k]
  /\ cluster' = [cluster EXCEPT ![k] = @ \ {n}]
  /\ terminating' = [terminating EXCEPT ![k] = @ \ {n}]
  /\ Notify(k, "Deleted", n)
  /\ UNCHANGED <<open, view, workerVars, offer, started, cleanupVars, counters>>

\* Deployments start pods, and pods come to an end.
StartPod ==
  /\ cluster["deployment"] # {} /\ pods < MaxPods /\ pods' = pods + 1
  /\ Create("pod", MaxNames + pods')
  /\ UNCHANGED <<view, workerVars, offer, started, cleanupVars, names, calls, faults>>

EndPod ==
  /\ \E n \in cluster["pod"] \ terminating["pod"] :
       terminating' = [terminating EXCEPT !["pod"] = @ \cup {n}]
  /\ UNCHANGED <<cluster, stream, open, view, workerVars, offer, started, cleanupVars,
                 counters>>

\* The server ends a watch: the watcher's loop over the channel ends, and is
\* not started again.
EndWatch(k) ==
  /\ open[k] /\ Fault
  /\ open' = [open EXCEPT ![k] = FALSE]
  /\ UNCHANGED <<cluster, terminating, stream, view, workerVars, offer, started,
                 cleanupVars, names, pods, calls>>

-----------------------------------------------------------------------------
(* The callers, and the test *)

Fresh(m) == m \in {"Deploy", "DeploySharedPVC"}

Send(s, m) ==
  /\ Fresh(m) => names < MaxNames
  /\ names' = IF Fresh(m) THEN names + 1 ELSE names
  /\ \E i \in IF m = "DeleteRandomPod" THEN 0..MaxPods ELSE {0} :
       offer' = [offer EXCEPT ![s] = [op |-> m, instances |-> i,
                                      name |-> IF Fresh(m) THEN names' ELSE Shared]]

\* A chaos monkey or a test calls a public method.
Call(c) ==
  /\ Running /\ offer[c] = NoCommand
  /\ calls < MaxCalls /\ calls' = calls + 1
  /\ \E m \in Offered : Send(c, m)
  /\ UNCHANGED <<clusterVars, view, workerVars, started, cleanupVars, pods, faults>>

\* Mutant of MoreToStart: the loop runs once too often.
OneMoreToStart == started <= Wanted

MoreToStart == started < Wanted

\* TestSmoke3 and TestSmoke4 deploy what they want.
StartDeployments ==
  /\ Running /\ offer[Test] = NoCommand
  /\ MoreToStart /\ started' = started + 1
  /\ Send(Test, "Deploy")
  /\ UNCHANGED <<clusterVars, view, workerVars, cleanupVars, pods, calls, faults>>

\* Mutant of TooFew: one deployment may be missing.
OneMissing == Cardinality(view["deployment"]) + 1 < Wanted

TooFew == Cardinality(view["deployment"]) < Wanted

\* TestSmoke4 then goes by the size of the map, every second.
Recreate ==
  /\ Running /\ offer[Test] = NoCommand /\ started = Wanted /\ TooFew
  /\ Send(Test, "Deploy")
  /\ UNCHANGED <<clusterVars, view, workerVars, started, cleanupVars, pods, calls, faults>>

-----------------------------------------------------------------------------
(* masterWorker *)

AtSelect == Running /\ worker = "select"

\* What a map holds after an event.
Apply(set, e) == IF e.type = "Added" THEN set \cup {e.name} ELSE set \ {e.name}

\* Mutant of Arriving: events wait for the worker side by side, the last wins.
LastArriving(k) == Len(stream[k])

\* A watcher hands over the events of its watch one by one, in their order.
Arriving(k) == 1

ReceiveEvent(k) ==
  /\ AtSelect /\ stream[k] # <<>>
  /\ view' = [view EXCEPT ![k] = Apply(@, stream[k][Arriving(k)])]
  /\ stream' = [stream EXCEPT ![k] = RemoveAt(@, Arriving(k))]
  /\ UNCHANGED <<cluster, terminating, open, workerVars, offer, started, cleanupVars,
                 counters>>

Only(k, set) == [Nothing EXCEPT ![k] = set]

\* What a command deletes: all objects of its maps, or a random one.
ToDelete(m) ==
  IF m = "DeleteAllPods" THEN {Only("pod", view["pod"])}
  ELSE IF m = "DeleteAllDeployments" THEN {[view EXCEPT !["pod"] = {}]}
  ELSE IF m = "DeleteRandomPod" THEN {Only("pod", {n}) : n \in view["pod"]}
  ELSE {Only("deployment", {n}) : n \in view["deployment"]}

\* Mutant of FirstRequest: the test for a shared claim is turned around.
ClaimWhenShared(m) == IF m = "Deploy" THEN "deployment" ELSE "claim"

\* Without a shared claim, a deployment gets one of its own first.
FirstRequest(m) == IF m = "DeploySharedPVC" THEN "deployment" ELSE "claim"

\* The worker takes up command c; rand.Intn(0) panics.
Begin(c) ==
  \/ /\ c.op \in Creating
     /\ worker' = FirstRequest(c.op) /\ cmd' = c /\ UNCHANGED todo
  \/ /\ c.op = "DeleteRandomPod" /\ c.instances = 0
     /\ UNCHANGED workerVars
  \/ /\ c.op \notin Creating /\ (c.op = "DeleteRandomPod" => c.instances > 0)
     /\ todo' \in ToDelete(c.op) /\ worker' = "delete" /\ cmd' = c
  \/ /\ c.op \notin Creating /\ (c.op = "DeleteRandomPod" => c.instances > 0)
     /\ ToDelete(c.op) = {} /\ worker' = "crashed" /\ UNCHANGED <<cmd, todo>>

ReceiveCommand(s) ==
  /\ AtSelect /\ offer[s] # NoCommand
  /\ Begin(offer[s])
  /\ offer' = [offer EXCEPT ![s] = NoCommand]
  /\ UNCHANGED <<clusterVars, view, started, cleanupVars, counters>>

Done == worker' = "select" /\ cmd' = NoCommand

\* A claim that cannot be created does not keep the deployment from being so.
CreatePVC ==
  /\ Running /\ worker = "claim"
  /\ CreateRequest("pvc", cmd.name)
  /\ IF cmd.op = "Deploy" THEN worker' = "deployment" /\ UNCHANGED cmd ELSE Done
  /\ UNCHANGED <<view, todo, offer, started, cleanupVars, names, pods, calls>>

CreateDeployment ==
  /\ Running /\ worker = "deployment"
  /\ CreateRequest("deployment", cmd.name) /\ Done
  /\ UNCHANGED <<view, todo, offer, started, cleanupVars, names, pods, calls>>

\* Claims are deleted after deployments.
DeleteNext ==
  /\ Running /\ worker = "delete"
  /\ \E k \in Kinds : \E n \in todo[k] :
       /\ k = "pvc" => todo["deployment"] = {}
       /\ DeleteRequest(k, n)
       /\ todo' = [todo EXCEPT ![k] = @ \ {n}]
  /\ UNCHANGED <<view, worker, cmd, offer, started, cleanupVars, names, pods, calls>>

\* The loop ends; or a random pod is to be deleted once more, drawn anew.
DeleteDone ==
  /\ Running /\ worker = "delete" /\ todo = Nothing
  /\ IF cmd.instances > 1
     THEN /\ cmd' = [cmd EXCEPT !.instances = @ - 1]
          /\ todo' \in ToDelete(cmd.op) /\ UNCHANGED worker
     ELSE Done /\ UNCHANGED todo
  /\ UNCHANGED <<clusterVars, view, offer, started, cleanupVars, counters>>

-----------------------------------------------------------------------------
(* HandleCtrlC and Cleanup *)

RangeOver(k) == cleanup' = k /\ must' = view[k] /\ seen' = {}

Interrupt ==
  /\ Interrupts /\ Running /\ cleanup = "no"
  /\ RangeOver("deployment")
  /\ UNCHANGED <<clusterVars, view, workerVars, offer, started, counters>>

\* Go's range over a map that changes: an entry that is removed before its turn
\* is not seen, and one that is added may be.
CleanNext ==
  /\ Running /\ cleanup \in {"deployment", "pvc"}
  /\ \E n \in view[cleanup] \ seen :
       DeleteRequest(cleanup, n) /\ seen' = seen \cup {n}
  /\ UNCHANGED <<view, workerVars, offer, started, cleanup, must, names, pods, calls>>

CleanDone ==
  /\ Running /\ cleanup \in {"deployment", "pvc"}
  /\ must \cap view[cleanup] \subseteq seen
  /\ \/ cleanup = "deployment" /\ RangeOver("pvc")
     \/ cleanup = "pvc" /\ cleanup' = "exited" /\ must' = {} /\ seen' = {}
  /\ UNCHANGED <<clusterVars, view, workerVars, offer, started, counters>>

\* The Go runtime may notice that the worker writes the map Cleanup ranges over.
CrashOnMapRace ==
  /\ AtSelect /\ cleanup \in {"deployment", "pvc"} /\ stream[cleanup] # <<>>
  /\ worker' = "crashed"
  /\ UNCHANGED <<clusterVars, view, cmd, todo, offer, started, cleanupVars, counters>>

-----------------------------------------------------------------------------
Work == \/ \E k \in Kinds : ReceiveEvent(k)
        \/ \E s \in Senders : ReceiveCommand(s)
        \/ CreatePVC \/ CreateDeployment \/ DeleteNext \/ DeleteDone

Next ==
  \/ Work \/ CrashOnMapRace
  \/ \E c \in Callers : Call(c)
  \/ StartDeployments \/ Recreate
  \/ Interrupt \/ CleanNext \/ CleanDone
  \/ \E k \in Kinds : EndWatch(k) \/ \E n \in Names : Gone(k, n)
  \/ StartPod \/ EndPod

Spec == Init /\ [][Next]_vars

\* The goroutines run, a channel serves its senders in turn, and what is being
\* deleted goes in the end.
FairSpec ==
  /\ Spec
  /\ WF_vars(CreatePVC) /\ WF_vars(CreateDeployment)
  /\ WF_vars(DeleteNext) /\ WF_vars(DeleteDone)
  /\ \A k \in Kinds : SF_vars(ReceiveEvent(k))
  /\ \A s \in Senders : SF_vars(ReceiveCommand(s))
  /\ WF_vars(StartDeployments) /\ WF_vars(Recreate)
  /\ \A k \in Kinds, n \in Names : WF_vars(Gone(k, n))

-----------------------------------------------------------------------------
(* Properties *)

\* The map that a watch leads to once everything it has still to deliver has
\* been taken from it in its order.
Replayed(set, events) == FoldLeft(Apply, set, events)

\* Whatever the worker does between two events, and however long it does not
\* come back to its select, the maps lag behind the cluster by exactly the
\* events on their way, as long as the watch has not ended.
ViewLagsByStream ==
  \A k \in Kinds : open[k] => Replayed(view[k], stream[k]) = cluster[k]

\* No deployment is created before the claim that its pods mount, unless a
\* request has failed or Cleanup has run.
ClaimFirst ==
  [][\A n \in Names :
       n \in cluster'["deployment"] \ cluster["deployment"]
         /\ cmd.op = "Deploy" /\ faults = 0 /\ cleanup = "no"
       => n \in cluster["pvc"]]_vars

\* TestSmoke4 undoes the work of the monkey: in the end there are as many
\* deployments as the test wants, unless the process has died.
WorkUndone ==
  <>[](Running => Cardinality(cluster["deployment"]) >= Wanted)

-----------------------------------------------------------------------------
(* What comments say, and the code does not keep *)

\* HandleCtrlC: all created resources are deleted when Ctrl+C is pressed.
AllDeletedOnExit ==
  cleanup = "exited" => \A k \in {"deployment", "pvc"} : cluster[k] \subseteq terminating[k]
=============================================================================
