----------------------- MODULE RancherProjects_proofs -----------------------
(***************************************************************************)
(* Theorems about the calls that write projects, for any number of calls,  *)
(* projects, members and faults: what the last of them say comes true, and *)
(* an update that fails has changed no member.                             *)
(***************************************************************************)
EXTENDS RancherProjects, TLAPS

-----------------------------------------------------------------------------
(* The type invariant in parts: what is a truth value, and the rest, which *)
(* is what Rancher holds, where the calls are, and two variables more.     *)

Types ==
  /\ live \subseteq given /\ given \subseteq ProjectIDs
  /\ setting \in [ProjectIDs -> Setting]
  /\ bindings \subseteq Binding /\ made \in [Members -> Nat]
  /\ pc \in [Calls -> Labels] /\ req \in [Calls -> Request \cup {NoRequest}]
  /\ project \in [Calls -> ProjectIDs \cup {NoProject}]
  /\ old \in [Calls -> Detail]
  /\ toAdd \in [Calls -> SUBSET Nat] /\ toDelete \in [Calls -> SUBSET Binding]
  /\ before \in [Calls -> SUBSET Calls]
  /\ faults \in Nat
Truths ==
  /\ reply \in [Calls -> Reply]
  /\ intact \in [Calls -> BOOLEAN] /\ touched \in [Calls -> BOOLEAN]

RancherTypes ==
  /\ live \subseteq given /\ given \subseteq ProjectIDs
  /\ setting \in [ProjectIDs -> Setting]
  /\ bindings \subseteq Binding /\ made \in [Members -> Nat]
CallTypes ==
  /\ pc \in [Calls -> Labels] /\ req \in [Calls -> Request \cup {NoRequest}]
  /\ project \in [Calls -> ProjectIDs \cup {NoProject}]
  /\ old \in [Calls -> Detail]
  /\ toAdd \in [Calls -> SUBSET Nat] /\ toDelete \in [Calls -> SUBSET Binding]

-----------------------------------------------------------------------------
(* The inductive invariant *)

Reading == {"readMembers", "readProject", "put", "setPolicy"}

\* Where a call is agrees with what it asks for.
Control(c) ==
  /\ pc[c] = "new" => req[c] = NoRequest
  /\ pc[c] = "post" => req[c].op = "CreateProject"
  /\ pc[c] \in Reading => req[c].op = "UpdateProject"
  /\ pc[c] = "deleteProject" => req[c].op = "DeleteProject"
  /\ pc[c] = "members" =>
       req[c].op \in {"CreateProject", "UpdateProject", "AddProjectMember"}

\* It works on a project that has been given.
Place(c) ==
  /\ project[c] # NoProject => project[c] \in given
  /\ pc[c] \in {"new", "post"} => project[c] = NoProject
  /\ pc[c] \in Reading \cup {"members", "deleteProject"} => project[c] \in given

\* What is still to be done is a part of what is asked for, and only what is not
\* wanted is deleted.
Work(c) ==
  /\ pc[c] = "members" =>
       /\ toAdd[c] \subseteq DOMAIN req[c].members
       /\ \A b \in toDelete[c] : \A i \in DOMAIN req[c].members :
            req[c].members[i] # b.member
  /\ toDelete[c] # {} => pc[c] = "members" /\ req[c].op = "UpdateProject"

\* Until the members are compared, none is touched.
Errors(c) ==
  /\ pc[c] \in Reading \cup {"new"} => ~ touched[c]
  /\ req[c].op = "UpdateProject" /\ pc[c] = "done" /\ reply[c].err => ~ touched[c]

CallOK(c) == Control(c) /\ Place(c) /\ Work(c) /\ Errors(c)

BasicInv == TypeOK /\ \A c \in Calls : CallOK(c)

\* The members read, and to be deleted, are members of its project.
ReadOK(c) ==
  /\ \A b \in old[c].members \cup toDelete[c] : b.project = project[c]
  /\ pc[c] \in {"new", "post"} => old[c].members = {}

\* Members are entered with a type, and in projects that have been given.
BindingsOK == \A b \in bindings : b.project \in given /\ b.member \notin Untyped

\* Only calls that have returned are superseded.
BeforeOK == \A c, d \in Calls : d \in before[c] => pc[d] = "done" /\ pc[c] # "new"

\* The last word on a project is being said, and nothing has failed in saying it.
Speaking(p) ==
  p \in live /\ LastWriters(p) # {} /\ \A c \in LastWriters(p) : intact[c]

\* The call c has still to look for m and enter it, ...
WillAdd(c, m) ==
  \/ pc[c] = "readMembers"
  \/ pc[c] \in {"readProject", "put", "setPolicy"}
     /\ \A b \in old[c].members : b.member # m
  \/ pc[c] = "members" /\ \E i \in toAdd[c] : req[c].members[i] = m

\* ... to look for the binding b and delete it, ...
WillDelete(c, b) ==
  \/ pc[c] = "readMembers"
  \/ pc[c] \in {"readProject", "put", "setPolicy"} /\ b \in old[c].members
  \/ pc[c] = "members" /\ b \in toDelete[c]

\* ... to write the details, and the policy.
WillPut(c) == pc[c] \in {"readMembers", "readProject", "put"}

WillSetPolicy(c) ==
  \/ pc[c] \in {"readMembers", "readProject", "setPolicy"}
  \/ pc[c] = "put" /\ PolicyChanged(c)
  \/ pc[c] = "members" /\ req[c].op = "CreateProject"

MembersCome(p) == \A m \in Members :
  (\A c \in LastWriters(p) : m \in Wanted(c)) =>
    m \in Bound(p) \/ \E c \in LastWriters(p) : WillAdd(c, m)

MembersGo(p) == \A b \in BindingsOf(p) :
  \/ \E c \in LastWriters(p) \cup LastAdders(p) : b.member \in Wanted(c)
  \/ \E c \in LastWriters(p) : WillDelete(c, b)

DetailsCome(p) == \E c \in LastWriters(p) :
  setting[p].details = req[c].want.details \/ WillPut(c)

PolicyComes(p) == \E c \in LastWriters(p) :
  setting[p].policy = req[c].want.policy \/ WillSetPolicy(c)

Said(p) == MembersCome(p) /\ MembersGo(p) /\ DetailsCome(p) /\ PolicyComes(p)

IInv ==
  /\ BasicInv /\ (\A c \in Calls : ReadOK(c)) /\ BindingsOK /\ BeforeOK
  /\ \A p \in ProjectIDs : Speaking(p) => Said(p)

-----------------------------------------------------------------------------
(* Types are kept *)

LEMMA TypeSplit == TypeOK <=> Types /\ Truths
BY Zenon DEF TypeOK, Types, Truths

LEMMA TypeInit == Init => TypeOK
<1> SUFFICES ASSUME Init PROVE Types /\ Truths
  BY TypeSplit
<1> USE ProjectsAssumption DEF Init
<1>1. Types
  <2>1. bindings \subseteq Binding
    BY DEF Binding
  <2>2. old \in [Calls -> Detail]
    BY DEF NoDetail, Detail, Setting
  <2> QED
    BY <2>1, <2>2 DEF Types, Labels
<1>2. Truths
  BY DEF Truths, Reply, NoReply
<1> QED
  BY <1>1, <1>2

\* What a request looks like.
LEMMA RequestForm ==
  ASSUME NEW r \in Request
  PROVE  /\ r # NoRequest /\ r.op \in Ops
         /\ r.op = "CreateProject" =>
              r.want \in Settings /\ r.members \in MemberLists
         /\ r.op = "UpdateProject" =>
              r.want \in Settings /\ r.members \in MemberLists /\ r.project \in ProjectIDs
         /\ r.op = "DeleteProject" => r.project \in ProjectIDs
         /\ r.op = "AddProjectMember" =>
              r.project \in ProjectIDs /\ \E m \in Members : r.members = <<m>>
BY DEF Request, NoRequest, Ops

LEMMA CallForm ==
  ASSUME Types, NEW c \in Calls,
         req[c].op \in {"CreateProject", "UpdateProject", "AddProjectMember"}
  PROVE  /\ req[c] \in Request
         /\ req[c].members \in Seq(Members)
         /\ DOMAIN req[c].members \subseteq Nat
         /\ \A i \in DOMAIN req[c].members : req[c].members[i] \in Members
         /\ req[c].op # "AddProjectMember" => req[c].want \in Setting
<1>1. req[c] \in Request
  <2>1. req[c] \in Request \cup {NoRequest}
    BY DEF Types
  <2>2. NoRequest.op = "none"
    BY DEF NoRequest
  <2> QED
    BY <2>1, <2>2
<1>2. req[c].members \in Seq(Members)
  <2>1. CASE req[c].op = "AddProjectMember"
    <3>1. PICK m \in Members : req[c].members = <<m>>
      BY <1>1, <2>1, RequestForm
    <3> QED
      BY <3>1
  <2>2. CASE req[c].op # "AddProjectMember"
    <3>1. req[c].members \in MemberLists
      BY <1>1, <2>2, RequestForm
    <3> QED
      BY <3>1, ProjectsAssumption
  <2> QED
    BY <2>1, <2>2
<1>3. req[c].op # "AddProjectMember" => req[c].want \in Setting
  BY <1>1, RequestForm, ProjectsAssumption
<1> QED
  BY <1>1, <1>2, <1>3

LEMMA TypesParts == 
  Types <=> RancherTypes /\ CallTypes /\ before \in [Calls -> SUBSET Calls] /\ faults \in Nat
BY DEF Types, RancherTypes, CallTypes

LEMMA NoDetailType == NoDetail \in Detail
BY ProjectsAssumption DEF NoDetail, Detail, Setting

LEMMA ReturnTypes ==
  ASSUME CallTypes, NEW c \in Calls, NEW id, NEW err, Return(c, id, err)
  PROVE  CallTypes'
BY NoDetailType DEF CallTypes, Return, Labels

LEMMA GotoTypes ==
  ASSUME CallTypes, NEW c \in Calls, NEW to \in Labels, Goto(c, to)
  PROVE  /\ pc' \in [Calls -> Labels] /\ req' \in [Calls -> Request \cup {NoRequest}]
         /\ project' \in [Calls -> ProjectIDs \cup {NoProject}]
BY DEF CallTypes, Goto

LEMMA MemberDoneTypes ==
  ASSUME CallTypes, NEW c \in Calls, NEW i, NEW err, MemberDone(c, i, err)
  PROVE  CallTypes'
<1>1. CASE Return(c, NoProject, err)
  BY <1>1, ReturnTypes
<1>2. CASE /\ toAdd' = [toAdd EXCEPT ![c] = @ \ {i}]
           /\ Goto(c, "members") /\ UNCHANGED <<old, toDelete>>
  BY <1>2, GotoTypes DEF CallTypes, Labels
<1> QED
  BY <1>1, <1>2 DEF MemberDone

LEMMA CompareTypes ==
  ASSUME Types, NEW c \in Calls, CompareMembers(c),
         req[c].op \in {"CreateProject", "UpdateProject", "AddProjectMember"}
  PROVE  CallTypes'
<1>1. Difference(req[c].members, old[c].members).new \subseteq Nat
  BY CallForm DEF Difference
<1>2. Difference(req[c].members, old[c].members).unwanted \subseteq Binding
  BY DEF Difference, Types, Detail
<1>3. CallTypes
  BY TypesParts
<1> QED
  BY <1>1, <1>2, <1>3, GotoTypes, NoDetailType DEF CompareMembers, CallTypes, Labels

LEMMA TypesStep == Types /\ (\A c \in Calls : CallOK(c)) /\ [Next]_vars => Types'
<1> SUFFICES ASSUME Types, \A c \in Calls : CallOK(c), [Next]_vars PROVE Types'
  OBVIOUS
<1>0. /\ RancherTypes /\ CallTypes /\ before \in [Calls -> SUBSET Calls] /\ faults \in Nat
  BY TypesParts
<1>p. RancherTypes' /\ CallTypes' /\ before' \in [Calls -> SUBSET Calls] /\ faults' \in Nat
        => Types'
  BY DEF Types, RancherTypes, CallTypes
<1>1. ASSUME UNCHANGED rancherVars PROVE RancherTypes'
  BY <1>0, <1>1 DEF rancherVars, RancherTypes
<1>2. ASSUME NEW c \in Calls, Fault(c) \/ NoFault PROVE faults' \in Nat
  BY <1>0, <1>2 DEF Fault, NoFault
<1>3. ASSUME before' = before PROVE before' \in [Calls -> SUBSET Calls]
  BY <1>0, <1>3
<1>4. ASSUME NEW c \in Calls, StartCall(c) PROVE Types'
  <2>1. PICK r \in Request :
       /\ req' = [req EXCEPT ![c] = r]
       /\ pc' = [pc EXCEPT ![c] = FirstLabel(r.op)]
       /\ project' = [project EXCEPT ![c] =
                        IF r.op = "CreateProject" THEN NoProject ELSE r.project]
       /\ toAdd' = [toAdd EXCEPT ![c] = IF r.op = "AddProjectMember" THEN {1} ELSE {}]
    BY <1>4 DEF StartCall
  <2>2. UNCHANGED <<rancherVars, old, toDelete, faults>> /\ before' \in [Calls -> SUBSET Calls]
    BY <1>0, <1>4 DEF StartCall
  <2>3. FirstLabel(r.op) \in Labels
    BY DEF FirstLabel, Labels
  <2>4. r.op # "CreateProject" => r.project \in ProjectIDs
    BY RequestForm DEF Ops
  <2>5. req' \in [Calls -> Request \cup {NoRequest}]
    BY <1>0, <2>1 DEF CallTypes
  <2>6. project' \in [Calls -> ProjectIDs \cup {NoProject}]
    BY <1>0, <2>1, <2>4 DEF CallTypes
  <2>7. toAdd' \in [Calls -> SUBSET Nat] /\ pc' \in [Calls -> Labels]
    BY <1>0, <2>1, <2>3 DEF CallTypes
  <2>8. CallTypes'
    BY <1>0, <2>2, <2>5, <2>6, <2>7 DEF CallTypes
  <2> QED
    BY <1>0, <1>1, <1>p, <2>2, <2>8
<1>5. ASSUME NEW c \in Calls, AddMember(c) PROVE Types'
  <2>1. PICK i \in toAdd[c] :
          IF req[c].members[i] \in Untyped
          THEN MemberDone(c, i, TRUE) /\ NoFault /\ UNCHANGED <<rancherVars, touched>>
          ELSE Sends(c, project[c] \in live, BindMember(c, req[c].members[i]),
                     MemberDone(c, i, FALSE), MemberDone(c, i, TRUE),
                     MemberDone(c, i, TRUE))
    BY <1>5 DEF AddMember
  <2>2. MemberDone(c, i, TRUE) \/ MemberDone(c, i, FALSE)
    BY <2>1 DEF Sends
  <2>3. CallTypes'
    BY <1>0, <2>2, MemberDoneTypes
  <2>4. req[c].members[i] \in Members
    <3>1. pc[c] = "members"
      BY <1>5 DEF AddMember
    <3>2. req[c].op \in {"CreateProject", "UpdateProject", "AddProjectMember"}
      BY <3>1 DEF CallOK, Control
    <3>3. i \in DOMAIN req[c].members
      BY <3>1 DEF CallOK, Work
    <3> QED
      BY <3>2, <3>3, CallForm
  <2>5. RancherTypes'
    <3>1. CASE UNCHANGED rancherVars
      BY <1>1, <3>1
    <3>2. CASE BindMember(c, req[c].members[i]) /\ project[c] \in live
      <4>1. project[c] \in ProjectIDs
        BY <1>0, <3>2 DEF RancherTypes
      <4>2. [id |-> made[req[c].members[i]] + 1, project |-> project[c],
             member |-> req[c].members[i]] \in Binding
        BY <1>0, <2>4, <4>1 DEF RancherTypes, Binding
      <4> QED
        BY <1>0, <2>4, <3>2, <4>2 DEF BindMember, RancherTypes
    <3> QED
      BY <2>1, <3>1, <3>2 DEF Sends
  <2>6. before' = before /\ faults' \in Nat
    BY <1>2, <1>5, <2>1 DEF AddMember, Sends
  <2> QED
    BY <1>p, <1>3, <2>3, <2>5, <2>6
<1>6. ASSUME NEW c \in Calls, PostProject(c) PROVE Types'
  <2>1. PICK p \in ProjectIDs \ given :
          Sends(c, TRUE, MakeProject(c, p),
                /\ project' = [project EXCEPT ![c] = p]
                /\ toAdd' = [toAdd EXCEPT ![c] = DOMAIN req[c].members]
                /\ pc' = [pc EXCEPT ![c] = "members"]
                /\ UNCHANGED <<req, old, toDelete, reply>>,
                Return(c, NoProject, TRUE), Return(c, NoProject, TRUE))
    BY <1>6 DEF PostProject
  <2>2. DOMAIN req[c].members \subseteq Nat /\ req[c].want \in Setting
    BY <1>6, CallForm DEF CallOK, Control, PostProject
  <2>3. CallTypes'
    <3>1. CASE Return(c, NoProject, TRUE)
      BY <1>0, <3>1, ReturnTypes
    <3>2. CASE /\ project' = [project EXCEPT ![c] = p]
               /\ toAdd' = [toAdd EXCEPT ![c] = DOMAIN req[c].members]
               /\ pc' = [pc EXCEPT ![c] = "members"]
               /\ UNCHANGED <<req, old, toDelete, reply>>
      BY <1>0, <2>2, <3>2 DEF CallTypes, Labels
    <3> QED
      BY <2>1, <3>1, <3>2 DEF Sends
  <2>4. RancherTypes'
    <3>1. CASE MakeProject(c, p)
      <4>1. [details |-> req[c].want.details, policy |-> FirstSetting.policy] \in Setting
        BY <2>2, ProjectsAssumption DEF Setting
      <4> QED
        BY <1>0, <3>1, <4>1 DEF MakeProject, RancherTypes
    <3> QED
      BY <1>1, <2>1, <3>1 DEF Sends
  <2>5. before' = before /\ faults' \in Nat
    BY <1>2, <1>6, <2>1 DEF PostProject, Sends
  <2> QED
    BY <1>p, <1>3, <2>3, <2>4, <2>5
<1>7. ASSUME NEW c \in Calls, ReadMembers(c) PROVE Types'
  <2>1. CallTypes'
    <3>1. CASE Return(c, NoProject, TRUE)
      BY <1>0, <3>1, ReturnTypes
    <3>2. ASSUME NEW ms \in {BindingsOf(project[c]), {}},
                 /\ old' = [old EXCEPT ![c].members = ms]
                 /\ Goto(c, "readProject") /\ UNCHANGED <<toAdd, toDelete>>
          PROVE  CallTypes'
      <4>1. ms \subseteq Binding
        BY <1>0, <3>2 DEF BindingsOf, RancherTypes
      <4>2. old' \in [Calls -> Detail]
        BY <1>0, <3>2, <4>1 DEF CallTypes, Detail
      <4> QED
        BY <1>0, <3>2, <4>2, GotoTypes DEF CallTypes, Labels
    <3> QED
      BY <1>7, <3>1, <3>2 DEF ReadMembers
  <2>2. UNCHANGED rancherVars /\ before' = before /\ faults' \in Nat
    BY <1>2, <1>7 DEF ReadMembers
  <2> QED
    BY <1>p, <1>1, <1>3, <2>1, <2>2
<1>8. ASSUME NEW c \in Calls, ReadProject(c) PROVE Types'
  <2>1. CallTypes'
    <3>1. CASE Return(c, NoProject, TRUE)
      BY <1>0, <3>1, ReturnTypes
    <3>2. CASE /\ project[c] \in live
               /\ old' = [old EXCEPT ![c].policy = setting[project[c]].policy]
               /\ Goto(c, "put") /\ UNCHANGED <<toAdd, toDelete>>
      <4>1. setting[project[c]].policy \in Policies
        BY <1>0, <3>2 DEF RancherTypes, Setting
      <4>2. old' \in [Calls -> Detail]
        BY <1>0, <3>2, <4>1 DEF CallTypes, Detail
      <4> QED
        BY <1>0, <3>2, <4>2, GotoTypes DEF CallTypes, Labels
    <3> QED
      BY <1>8, <3>1, <3>2 DEF ReadProject
  <2>2. UNCHANGED rancherVars /\ before' = before /\ faults' \in Nat
    BY <1>2, <1>8 DEF ReadProject
  <2> QED
    BY <1>p, <1>1, <1>3, <2>1, <2>2
<1>9. ASSUME NEW c \in Calls, PutProject(c) PROVE Types'
  <2>1. req[c].op = "UpdateProject" /\ req[c].want \in Setting
    BY <1>9, CallForm DEF PutProject, CallOK, Control, Reading
  <2>2. CallTypes'
    <3>1. CASE Return(c, NoProject, TRUE)
      BY <1>0, <3>1, ReturnTypes
    <3>2. CASE CompareMembers(c)
      BY <2>1, <3>2, CompareTypes
    <3>3. CASE Goto(c, "setPolicy") /\ UNCHANGED <<old, toAdd, toDelete>>
      BY <1>0, <3>3, GotoTypes DEF CallTypes, Labels
    <3> QED
      BY <1>9, <3>1, <3>2, <3>3 DEF PutProject, Sends, AfterPut
  <2>3. RancherTypes'
    <3>1. CASE WriteDetails(c)
      BY <1>0, <2>1, <3>1 DEF WriteDetails, RancherTypes, Setting
    <3> QED
      BY <1>1, <1>9, <3>1 DEF PutProject, Sends
  <2>4. before' = before /\ faults' \in Nat
    BY <1>2, <1>9 DEF PutProject, Sends
  <2> QED
    BY <1>p, <1>3, <2>2, <2>3, <2>4
<1>10. ASSUME NEW c \in Calls, SetProjectPSP(c) PROVE Types'
  <2>1. req[c].op \in {"CreateProject", "UpdateProject"} /\ req[c].want \in Setting
    BY <1>10, CallForm DEF SetProjectPSP, CallOK, Control, Reading
  <2>2. CallTypes'
    <3>1. ASSUME NEW id, NEW err, Return(c, id, err) PROVE CallTypes'
      BY <1>0, <3>1, ReturnTypes
    <3>2. CASE CompareMembers(c)
      BY <2>1, <3>2, CompareTypes
    <3> QED
      BY <1>10, <3>1, <3>2 DEF SetProjectPSP, Sends, AfterPolicy
  <2>3. RancherTypes'
    <3>1. CASE WritePolicy(c)
      BY <1>0, <2>1, <3>1 DEF WritePolicy, RancherTypes, Setting
    <3> QED
      BY <1>1, <1>10, <3>1 DEF SetProjectPSP, Sends
  <2>4. before' = before /\ faults' \in Nat
    BY <1>2, <1>10 DEF SetProjectPSP, Sends
  <2> QED
    BY <1>p, <1>3, <2>2, <2>3, <2>4
<1>11. ASSUME NEW c \in Calls, DeleteMember(c) PROVE Types'
  <2>1. CallTypes'
    BY <1>0, <1>11, GotoTypes DEF DeleteMember, CallTypes, Labels
  <2>2. RancherTypes'
    <3>1. ASSUME NEW b, Unbind(c, b) PROVE RancherTypes'
      BY <1>0, <3>1 DEF Unbind, RancherTypes
    <3> QED
      BY <1>1, <1>11, <3>1 DEF DeleteMember, Sends
  <2>3. before' = before /\ faults' \in Nat
    BY <1>2, <1>11 DEF DeleteMember, Sends
  <2> QED
    BY <1>p, <1>3, <2>1, <2>2, <2>3
<1>12. ASSUME NEW c \in Calls, UpdateReturns(c) PROVE Types'
  BY <1>0, <1>p, <1>1, <1>2, <1>3, <1>12, ReturnTypes DEF UpdateReturns
<1>13. ASSUME NEW c \in Calls, DeleteProject(c) PROVE Types'
  <2>1. CallTypes'
    BY <1>0, <1>13, ReturnTypes DEF DeleteProject, Sends
  <2>2. RancherTypes'
    <3>1. CASE RemoveProject(project[c])
      BY <1>0, <3>1 DEF RemoveProject, RancherTypes
    <3> QED
      BY <1>1, <1>13, <3>1 DEF DeleteProject, Sends
  <2>3. before' = before /\ faults' \in Nat
    BY <1>2, <1>13 DEF DeleteProject, Sends
  <2> QED
    BY <1>p, <1>3, <2>1, <2>2, <2>3
<1>14. CASE UNCHANGED vars
  BY <1>14 DEF vars, rancherVars, callVars, Types
<1> QED
  BY <1>4, <1>5, <1>6, <1>7, <1>8, <1>9, <1>10, <1>11, <1>12, <1>13, <1>14 DEF Next, Step


\* What all steps of a call have in common.
LEMMA StepForm ==
  ASSUME Types, NEW c \in Calls, Step(c)
  PROVE  /\ Fault(c) \/ NoFault
         /\ touched' \in {touched, [touched EXCEPT ![c] = TRUE]}
         /\ UNCHANGED <<req, before>>
         /\ \/ reply' = reply
            \/ \E id \in ProjectIDs \cup {NoProject} : \E err \in BOOLEAN :
                 Return(c, id, err)
<1>1. project[c] \in ProjectIDs \cup {NoProject}
  BY DEF Types
<1>2. CASE AddMember(c)
  BY <1>2 DEF AddMember, Sends, BindMember, MemberDone, Return, Goto
<1>3. CASE PostProject(c)
  BY <1>3 DEF PostProject, Sends, MakeProject, Return
<1>4. CASE ReadMembers(c)
  BY <1>4 DEF ReadMembers, Return, Goto
<1>5. CASE ReadProject(c)
  BY <1>5 DEF ReadProject, Return, Goto
<1>6. CASE PutProject(c)
  BY <1>6 DEF PutProject, Sends, WriteDetails, AfterPut, CompareMembers, Return, Goto
<1>7. CASE SetProjectPSP(c)
  BY <1>1, <1>7
  DEF SetProjectPSP, Sends, WritePolicy, AfterPolicy, CompareMembers, Return, Goto
<1>8. CASE DeleteMember(c)
  BY <1>8 DEF DeleteMember, Sends, Unbind, Goto
<1>9. CASE UpdateReturns(c)
  BY <1>9 DEF UpdateReturns, Return
<1>10. CASE DeleteProject(c)
  BY <1>10 DEF DeleteProject, Sends, RemoveProject, Return
<1> QED
  BY <1>2, <1>3, <1>4, <1>5, <1>6, <1>7, <1>8, <1>9, <1>10 DEF Step

LEMMA ReturnTruths ==
  ASSUME Truths, NEW c \in Calls, NEW id \in ProjectIDs \cup {NoProject},
         NEW err \in BOOLEAN, Return(c, id, err)
  PROVE  reply' \in [Calls -> Reply]
<1>1. [id |-> id, err |-> err] \in Reply
  BY DEF Reply
<1> QED
  BY <1>1 DEF Return, Truths

LEMMA RequestTruths ==
  ASSUME Truths, NEW c \in Calls
  PROVE  /\ Fault(c) \/ NoFault => intact' \in [Calls -> BOOLEAN]
         /\ touched' \in {touched, [touched EXCEPT ![c] = TRUE]} =>
              touched' \in [Calls -> BOOLEAN]
BY DEF Truths, Fault, NoFault

LEMMA TruthsStep == Types /\ Truths /\ [Next]_vars => Truths'
<1> SUFFICES ASSUME Types, Truths, [Next]_vars PROVE Truths'
  OBVIOUS
<1>1. ASSUME NEW c \in Calls, StartCall(c) PROVE Truths'
  BY Zenon, <1>1 DEF StartCall, Truths
<1>2. CASE UNCHANGED vars
  BY Zenon, <1>2 DEF vars, callVars, Truths
<1> QED
  BY <1>1, <1>2, StepForm, ReturnTruths, RequestTruths DEF Next, Truths

LEMMA TypeStep == TypeOK /\ (\A c \in Calls : CallOK(c)) /\ [Next]_vars => TypeOK'
<1>1. TypeOK' <=> Types' /\ Truths'
  BY Zenon DEF TypeOK, Types, Truths
<1> QED
  BY <1>1, TypeSplit, TypesStep, TruthsStep

-----------------------------------------------------------------------------
(* The calls themselves *)

\* The other calls stay as they are.
Frame(c) == \A d \in Calls \ {c} :
  /\ pc'[d] = pc[d] /\ project'[d] = project[d] /\ old'[d] = old[d]
  /\ toAdd'[d] = toAdd[d] /\ toDelete'[d] = toDelete[d] /\ reply'[d] = reply[d]
  /\ intact'[d] = intact[d] /\ touched'[d] = touched[d]

\* The call returns.
Ends(c) ==
  /\ pc'[c] = "done" /\ project'[c] = project[c]
  /\ toAdd'[c] = {} /\ toDelete'[c] = {}

LEMMA ReturnForm ==
  ASSUME Types, Truths, NEW c \in Calls, NEW id, NEW err, Return(c, id, err)
  PROVE  Ends(c) /\ reply'[c].err = err
BY DEF Types, Truths, Return, Ends

LEMMA StepFrame ==
  ASSUME Types, Truths, NEW c \in Calls, Step(c)
  PROVE  Frame(c)
<1> SUFFICES ASSUME NEW d \in Calls \ {c}
             PROVE  /\ pc'[d] = pc[d] /\ project'[d] = project[d] /\ old'[d] = old[d]
                    /\ toAdd'[d] = toAdd[d] /\ toDelete'[d] = toDelete[d]
                    /\ reply'[d] = reply[d]
                    /\ intact'[d] = intact[d] /\ touched'[d] = touched[d]
  BY DEF Frame
<1> USE DEF Goto, Return
<1>1. intact'[d] = intact[d] /\ touched'[d] = touched[d]
  BY StepForm DEF Fault, NoFault, Truths
<1>2. CASE AddMember(c)
  BY <1>1, <1>2 DEF AddMember, Sends, MemberDone, Types, Truths
<1>3. CASE PostProject(c)
  BY <1>1, <1>3 DEF PostProject, Sends, Types, Truths
<1>4. CASE ReadMembers(c)
  BY <1>1, <1>4 DEF ReadMembers, Types, Truths
<1>5. CASE ReadProject(c)
  BY <1>1, <1>5 DEF ReadProject, Types, Truths
<1>6. CASE PutProject(c)
  BY <1>1, <1>6 DEF PutProject, Sends, AfterPut, CompareMembers, Types, Truths
<1>7. CASE SetProjectPSP(c)
  BY <1>1, <1>7 DEF SetProjectPSP, Sends, AfterPolicy, CompareMembers, Types, Truths
<1>8. CASE DeleteMember(c)
  BY <1>1, <1>8 DEF DeleteMember, Sends, Types, Truths
<1>9. CASE UpdateReturns(c)
  BY <1>1, <1>9 DEF UpdateReturns, Types, Truths
<1>10. CASE DeleteProject(c)
  BY <1>1, <1>10 DEF DeleteProject, Sends, Types, Truths
<1> QED
  BY <1>2, <1>3, <1>4, <1>5, <1>6, <1>7, <1>8, <1>9, <1>10 DEF Step

\* Comparing the members makes work of both kinds.
LEMMA CompareForm ==
  ASSUME Types, NEW c \in Calls, CompareMembers(c)
  PROVE  /\ pc'[c] = "members" /\ UNCHANGED <<req, project, reply>>
         /\ toAdd'[c] = {i \in DOMAIN req[c].members :
                           \A b \in old[c].members : b.member # req[c].members[i]}
         /\ toDelete'[c] = {b \in old[c].members :
                              \A i \in DOMAIN req[c].members : req[c].members[i] # b.member}
BY DEF CompareMembers, Difference, Goto, Types

\* IDs are given once and for all.
LEMMA GivenGrows ==
  ASSUME Types, NEW c \in Calls, Step(c)
  PROVE  given \subseteq given'
BY DEF Step, AddMember, PostProject, ReadMembers, ReadProject, PutProject, SetProjectPSP,
   DeleteMember, UpdateReturns, DeleteProject, Sends, BindMember, MakeProject,
   WriteDetails, WritePolicy, Unbind, RemoveProject, rancherVars

LEMMA CallStep ==
  ASSUME Types, Truths, NEW c \in Calls, CallOK(c), Step(c)
  PROVE  CallOK(c)'
<1> USE DEF CallOK, Control, Place, Work, Errors
<1>1. given \subseteq given' /\ req' = req
  BY GivenGrows, StepForm
<1>2. touched' = touched \/ pc[c] = "members"
  BY DEF Step, AddMember, PostProject, ReadMembers, ReadProject, PutProject,
     SetProjectPSP, DeleteMember, UpdateReturns, DeleteProject, Sends,
     MakeProject, WriteDetails, WritePolicy, RemoveProject, NoFault, Fault
<1>3. ASSUME NEW id, NEW err, Return(c, id, err),
             \/ ~ err \/ req[c].op # "UpdateProject"
             \/ touched' = touched /\ pc[c] \in Reading
      PROVE  CallOK(c)'
  <2>1. Ends(c) /\ reply'[c].err = err
    BY <1>3, ReturnForm
  <2>2. req[c].op = "UpdateProject" /\ reply'[c].err => ~ touched'[c]
    BY <1>3, <2>1
  <2> QED
    BY <1>1, <2>1, <2>2 DEF Ends, Reading
<1>4. ASSUME CompareMembers(c), req[c].op = "UpdateProject", project[c] \in given
      PROVE  CallOK(c)'
  BY <1>1, <1>4, CompareForm DEF Reading
<1>5. CASE AddMember(c)
  <2>1. PICK i \in toAdd[c] : MemberDone(c, i, TRUE) \/ MemberDone(c, i, FALSE)
    BY <1>5 DEF AddMember, Sends
  <2>2. pc[c] = "members"
    BY <1>5 DEF AddMember
  <2>3. CASE req[c].op = "AddProjectMember"
    BY <1>3, <2>1, <2>3 DEF MemberDone
  <2>4. CASE req[c].op # "AddProjectMember"
    BY <1>1, <2>1, <2>2, <2>4 DEF MemberDone, Goto, Types, Reading
  <2> QED
    BY <2>3, <2>4
<1>6. CASE PostProject(c)
  <2>1. CASE Return(c, NoProject, TRUE)
    BY <1>3, <1>6, <2>1 DEF PostProject
  <2>2. ASSUME NEW p \in ProjectIDs \ given, MakeProject(c, p),
               /\ project' = [project EXCEPT ![c] = p]
               /\ toAdd' = [toAdd EXCEPT ![c] = DOMAIN req[c].members]
               /\ pc' = [pc EXCEPT ![c] = "members"]
               /\ UNCHANGED <<req, old, toDelete, reply>>
        PROVE  CallOK(c)'
    BY <1>1, <1>6, <2>2 DEF PostProject, MakeProject, Types, Reading
  <2> QED
    BY <1>6, <2>1, <2>2 DEF PostProject, Sends
<1>7. CASE ReadMembers(c)
  BY <1>1, <1>2, <1>3, <1>7 DEF ReadMembers, Goto, Types, Reading
<1>8. CASE ReadProject(c)
  BY <1>1, <1>2, <1>3, <1>8 DEF ReadProject, Goto, Types, Reading
<1>9. CASE PutProject(c)
  <2>1. pc[c] = "put" /\ req[c].op = "UpdateProject" /\ project[c] \in given
    BY <1>9 DEF PutProject, Reading
  <2>2. touched' = touched
    BY <1>2, <2>1
  <2>3. CASE Return(c, NoProject, TRUE)
    BY <1>3, <2>1, <2>2, <2>3 DEF Reading
  <2>4. CASE CompareMembers(c)
    BY <1>4, <2>1, <2>4
  <2>5. CASE Goto(c, "setPolicy") /\ UNCHANGED <<old, toAdd, toDelete>>
    BY <1>1, <2>1, <2>2, <2>5 DEF Goto, Types, Reading
  <2> QED
    BY <1>9, <2>3, <2>4, <2>5 DEF PutProject, Sends, AfterPut
<1>10. CASE SetProjectPSP(c)
  <2>1. /\ req[c].op # "CreateProject" => pc[c] = "setPolicy" /\ touched' = touched
        /\ req[c].op = "UpdateProject" \/ req[c].op = "CreateProject"
        /\ pc[c] = "setPolicy" => project[c] \in given
    BY <1>2, <1>10 DEF SetProjectPSP, Reading
  <2>2. ASSUME NEW id, NEW err, Return(c, id, err) PROVE CallOK(c)'
    BY <1>3, <2>1, <2>2 DEF Reading
  <2>3. CASE req[c].op = "UpdateProject" /\ CompareMembers(c)
    BY <1>4, <2>1, <2>3
  <2> QED
    BY <1>10, <2>1, <2>2, <2>3 DEF SetProjectPSP, Sends, AfterPolicy
<1>11. CASE DeleteMember(c)
  <2>1. /\ pc[c] = "members" /\ pc'[c] = "members" /\ toAdd' = toAdd /\ project' = project
        /\ toDelete'[c] \subseteq toDelete[c]
    BY <1>11 DEF DeleteMember, Goto, Types
  <2> QED
    BY <1>1, <2>1 DEF Reading
<1>12. CASE UpdateReturns(c)
  <2>1. Return(c, NoProject, FALSE)
    BY <1>12 DEF UpdateReturns
  <2>2. Ends(c) /\ reply'[c].err = FALSE
    BY <2>1, ReturnForm
  <2> QED
    BY <1>1, <2>2 DEF Ends, Reading
<1>13. CASE DeleteProject(c)
  BY <1>3, <1>13 DEF DeleteProject, Sends
<1> QED
  BY <1>5, <1>6, <1>7, <1>8, <1>9, <1>10, <1>11, <1>12, <1>13 DEF Step

\* A call starts with a request of one of the four operations.
LEMMA StartForm ==
  ASSUME Types, NEW c \in Calls, StartCall(c)
  PROVE  /\ pc[c] = "new"
         /\ \E r \in Request :
              /\ r.op # "CreateProject" => r.project \in given
              /\ req' = [req EXCEPT ![c] = r] /\ pc' = [pc EXCEPT ![c] = FirstLabel(r.op)]
              /\ project' = [project EXCEPT ![c] =
                               IF r.op = "CreateProject" THEN NoProject ELSE r.project]
              /\ toAdd' = [toAdd EXCEPT ![c] =
                             IF r.op = "AddProjectMember" THEN {1} ELSE {}]
         /\ before' = [before EXCEPT ![c] = {d \in Calls : pc[d] = "done"}]
         /\ UNCHANGED <<rancherVars, old, toDelete, reply, intact, touched, faults>>
BY DEF StartCall

LEMMA StartFrame ==
  ASSUME Types, NEW c \in Calls, StartCall(c)
  PROVE  /\ Frame(c)
         /\ \A d \in Calls \ {c} : req'[d] = req[d] /\ before'[d] = before[d]
BY StartForm DEF Frame, Types

LEMMA StartCallOK ==
  ASSUME Types, NEW c \in Calls, CallOK(c), StartCall(c)
  PROVE  CallOK(c)'
<1>1. PICK r \in Request :
        /\ r.op # "CreateProject" => r.project \in given
        /\ req' = [req EXCEPT ![c] = r] /\ pc' = [pc EXCEPT ![c] = FirstLabel(r.op)]
        /\ project' = [project EXCEPT ![c] =
                         IF r.op = "CreateProject" THEN NoProject ELSE r.project]
        /\ toAdd' = [toAdd EXCEPT ![c] = IF r.op = "AddProjectMember" THEN {1} ELSE {}]
  BY StartForm
<1>2. pc[c] = "new" /\ UNCHANGED <<given, toDelete, reply, touched>>
  BY StartForm DEF rancherVars
<1>3. ~ touched[c] /\ toDelete[c] = {}
  BY <1>2 DEF CallOK, Errors, Work
<1>4. /\ req'[c] = r /\ pc'[c] = FirstLabel(r.op) /\ toDelete'[c] = {} /\ ~ touched'[c]
      /\ project'[c] = IF r.op = "CreateProject" THEN NoProject ELSE r.project
      /\ toAdd'[c] = IF r.op = "AddProjectMember" THEN {1} ELSE {}
  BY <1>1, <1>2, <1>3 DEF Types
<1>5. \/ r.op = "CreateProject" /\ pc'[c] = "post"
      \/ r.op = "UpdateProject" /\ pc'[c] = "readMembers"
      \/ r.op = "DeleteProject" /\ pc'[c] = "deleteProject"
      \/ r.op = "AddProjectMember" /\ pc'[c] = "members" /\ 1 \in DOMAIN r.members
  <2>1. r.op \in Ops
    BY RequestForm
  <2>2. ASSUME r.op = "AddProjectMember" PROVE 1 \in DOMAIN r.members
    <3>1. PICK m \in Members : r.members = <<m>>
      BY <2>2, RequestForm
    <3> QED
      BY <3>1
  <2>3. r.op \in {"CreateProject", "UpdateProject", "DeleteProject", "AddProjectMember"}
    BY <2>1 DEF Ops
  <2> HIDE DEF Ops
  <2>4. pc'[c] = FirstLabel(r.op)
    BY <1>4
  <2> QED
    BY <2>2, <2>3, <2>4, Zenon DEF FirstLabel
<1>6. given' = given /\ NoProject \notin ProjectIDs /\ given \subseteq ProjectIDs
  BY <1>2, ProjectsAssumption DEF Types
<1> QED
  BY <1>1, <1>4, <1>5, <1>6 DEF CallOK, Control, Place, Work, Errors, Reading

LEMMA CallsStep ==
  ASSUME TypeOK, \A c \in Calls : CallOK(c), [Next]_vars
  PROVE  (\A c \in Calls : CallOK(c))'
<1>1. Types /\ Truths
  BY TypeSplit
<1>2. ASSUME NEW c \in Calls, Frame(c), given \subseteq given', CallOK(c)',
             \A d \in Calls \ {c} : req'[d] = req[d]
      PROVE  (\A d \in Calls : CallOK(d))'
  BY <1>2 DEF Frame, CallOK, Control, Place, Work, Errors
<1>3. ASSUME NEW c \in Calls, StartCall(c) PROVE (\A d \in Calls : CallOK(d))'
  <2>1. given' = given
    BY <1>3, <1>1, StartForm DEF rancherVars
  <2> QED
    BY <1>1, <1>2, <1>3, <2>1, StartFrame, StartCallOK
<1>4. ASSUME NEW c \in Calls, Step(c) PROVE (\A d \in Calls : CallOK(d))'
  BY <1>1, <1>2, <1>4, StepFrame, GivenGrows, CallStep, StepForm
<1>5. CASE UNCHANGED vars
  BY <1>5 DEF vars, rancherVars, callVars, CallOK, Control, Place, Work, Errors
<1> QED
  BY <1>3, <1>4, <1>5 DEF Next

LEMMA BasicInit == Init => BasicInv
<1> SUFFICES ASSUME Init PROVE \A c \in Calls : CallOK(c)
  BY TypeInit DEF BasicInv
<1> QED
  BY DEF Init, CallOK, Control, Place, Work, Errors, NoRequest, Reading

LEMMA BasicStep == BasicInv /\ [Next]_vars => BasicInv'
BY TypeStep, CallsStep DEF BasicInv

\* The type invariant of the calls and of what Rancher holds.
THEOREM TypeCorrect == Spec => []TypeOK
<1>1. BasicInv => TypeOK
  BY DEF BasicInv
<1> QED
  BY <1>1, BasicInit, BasicStep, PTL DEF Spec

\* An UpdateProject that returns an error has changed no member, however the
\* calls overlap and whichever requests fail.
THEOREM ErrorsUntouched == Spec => []ErrorMeansUntouched
<1>1. BasicInv => ErrorMeansUntouched
  BY DEF BasicInv, CallOK, Errors, ErrorMeansUntouched
<1> QED
  BY <1>1, BasicInit, BasicStep, PTL DEF Spec

-----------------------------------------------------------------------------
(* The last word *)

LEMMA ReadStep ==
  ASSUME Types, Truths, NEW c \in Calls, CallOK(c), ReadOK(c), Step(c)
  PROVE  ReadOK(c)'
<1> USE DEF ReadOK
<1>1. toDelete[c] # {} => pc[c] = "members"
  BY DEF CallOK, Work
<1>2. ASSUME NEW id, NEW err, Return(c, id, err) PROVE ReadOK(c)'
  BY <1>2 DEF Return, NoDetail, Types
<1>3. ASSUME CompareMembers(c) PROVE ReadOK(c)'
  <2>1. old'[c].members = {}
    BY <1>3 DEF CompareMembers, NoDetail, Types
  <2> QED
    BY <1>3, <2>1, CompareForm
<1>4. CASE AddMember(c)
  <2>1. PICK i \in toAdd[c] : MemberDone(c, i, TRUE) \/ MemberDone(c, i, FALSE)
    BY <1>4 DEF AddMember, Sends
  <2>2. CASE Return(c, NoProject, TRUE) \/ Return(c, NoProject, FALSE)
    BY <1>2, <2>2
  <2>3. CASE Goto(c, "members") /\ UNCHANGED <<old, toDelete>>
    BY <2>3 DEF Goto, Types
  <2> QED
    BY <2>1, <2>2, <2>3 DEF MemberDone
<1>5. CASE PostProject(c)
  <2>1. pc[c] = "post"
    BY <1>5 DEF PostProject
  <2>2. CASE UNCHANGED <<old, toDelete>> /\ pc' = [pc EXCEPT ![c] = "members"]
    BY <1>1, <2>1, <2>2 DEF Types
  <2> QED
    BY <1>2, <1>5, <2>2 DEF PostProject, Sends
<1>6. CASE ReadMembers(c)
  <2>1. pc[c] = "readMembers" /\ toDelete[c] = {}
    BY <1>1, <1>6 DEF ReadMembers
  <2>2. ASSUME NEW ms \in {BindingsOf(project[c]), {}},
               /\ old' = [old EXCEPT ![c].members = ms]
               /\ Goto(c, "readProject") /\ UNCHANGED <<toAdd, toDelete>>
        PROVE  ReadOK(c)'
    <3>1. old'[c].members = ms /\ project' = project /\ pc'[c] = "readProject"
      BY <2>2 DEF Types, Detail, Goto
    <3> QED
      BY <2>1, <2>2, <3>1 DEF BindingsOf
  <2> QED
    BY <1>2, <1>6, <2>2 DEF ReadMembers
<1>7. CASE ReadProject(c)
  <2>1. ASSUME /\ old' = [old EXCEPT ![c].policy = setting[project[c]].policy]
               /\ Goto(c, "put") /\ UNCHANGED <<toAdd, toDelete>>
        PROVE  ReadOK(c)'
    <3>1. old'[c].members = old[c].members /\ project' = project /\ pc'[c] = "put"
      BY <2>1 DEF Types, Detail, Goto
    <3> QED
      BY <2>1, <3>1
  <2> QED
    BY <1>2, <1>7, <2>1 DEF ReadProject
<1>8. CASE PutProject(c)
  <2>1. CASE Goto(c, "setPolicy") /\ UNCHANGED <<old, toAdd, toDelete>>
    BY <2>1 DEF Goto, Types
  <2> QED
    BY <1>2, <1>3, <1>8, <2>1 DEF PutProject, Sends, AfterPut
<1>9. CASE SetProjectPSP(c)
  BY <1>2, <1>3, <1>9 DEF SetProjectPSP, Sends, AfterPolicy
<1>10. CASE DeleteMember(c)
  BY <1>10 DEF DeleteMember, Goto, Types
<1>11. CASE UpdateReturns(c)
  BY <1>2, <1>11 DEF UpdateReturns
<1>12. CASE DeleteProject(c)
  BY <1>2, <1>12 DEF DeleteProject, Sends
<1> QED
  BY <1>4, <1>5, <1>6, <1>7, <1>8, <1>9, <1>10, <1>11, <1>12 DEF Step

LEMMA ReadsStep ==
  ASSUME BasicInv, \A c \in Calls : ReadOK(c), [Next]_vars
  PROVE  (\A c \in Calls : ReadOK(c))'
<1>1. Types /\ Truths /\ \A c \in Calls : CallOK(c)
  BY TypeSplit DEF BasicInv
<1>2. ASSUME NEW c \in Calls, Frame(c), ReadOK(c)' PROVE (\A d \in Calls : ReadOK(d))'
  BY <1>2 DEF Frame, ReadOK
<1>3. ASSUME NEW c \in Calls, StartCall(c) PROVE (\A d \in Calls : ReadOK(d))'
  <2>1. pc[c] = "new" /\ UNCHANGED <<old, toDelete>>
    BY <1>1, <1>3, StartForm
  <2>2. old[c].members = {} /\ toDelete[c] = {}
    BY <1>1, <2>1 DEF ReadOK, CallOK, Work
  <2>3. ReadOK(c)'
    BY <2>1, <2>2 DEF ReadOK
  <2> QED
    BY <1>1, <1>2, <1>3, <2>3, StartFrame
<1>4. ASSUME NEW c \in Calls, Step(c) PROVE (\A d \in Calls : ReadOK(d))'
  BY <1>1, <1>2, <1>4, StepFrame, ReadStep
<1>5. CASE UNCHANGED vars
  BY <1>5 DEF vars, rancherVars, callVars, ReadOK
<1> QED
  BY <1>3, <1>4, <1>5 DEF Next

\* What a step does to the bindings.
LEMMA BindingsForm ==
  ASSUME BasicInv, NEW c \in Calls, ReadOK(c), Step(c)
  PROVE  \/ UNCHANGED <<bindings, made>>
         \/ pc[c] = "members" /\ \E i \in toAdd[c] :
              req[c].members[i] \in Members \ Untyped /\ project[c] \in live
                /\ BindMember(c, req[c].members[i])
         \/ pc[c] = "members" /\ \E b \in toDelete[c] : Unbind(c, b)
         \/ pc[c] = "deleteProject" /\ RemoveProject(project[c])
<1> USE DEF rancherVars
<1>1. Types /\ CallOK(c)
  BY TypeSplit DEF BasicInv
<1>2. CASE AddMember(c)
  <2>1. \A i \in toAdd[c] : req[c].members[i] \in Members
    <3>1. pc[c] = "members"
      BY <1>2 DEF AddMember
    <3>2. req[c].op \in {"CreateProject", "UpdateProject", "AddProjectMember"}
      BY <1>1, <3>1 DEF CallOK, Control
    <3>3. toAdd[c] \subseteq DOMAIN req[c].members
      BY <1>1, <3>1 DEF CallOK, Work
    <3> QED
      BY <1>1, <3>2, <3>3, CallForm
  <2> QED
    BY <1>2, <2>1 DEF AddMember, Sends
<1>3. CASE PostProject(c) \/ PutProject(c) \/ SetProjectPSP(c)
  BY <1>3 DEF PostProject, PutProject, SetProjectPSP, Sends, MakeProject, WriteDetails,
     WritePolicy
<1>4. CASE ReadMembers(c) \/ ReadProject(c) \/ UpdateReturns(c)
  BY <1>4 DEF ReadMembers, ReadProject, UpdateReturns
<1>5. CASE DeleteMember(c)
  BY <1>5 DEF DeleteMember, Sends
<1>6. CASE DeleteProject(c)
  BY <1>6 DEF DeleteProject, Sends
<1> QED
  BY <1>2, <1>3, <1>4, <1>5, <1>6 DEF Step

LEMMA BindingsStep ==
  ASSUME BasicInv, \A c \in Calls : ReadOK(c), BindingsOK, [Next]_vars
  PROVE  BindingsOK'
<1>1. Types
  BY TypeSplit DEF BasicInv
<1>2. CASE UNCHANGED vars
  BY <1>2 DEF vars, rancherVars, BindingsOK
<1>3. ASSUME NEW c \in Calls, StartCall(c) PROVE BindingsOK'
  BY <1>1, <1>3, StartForm DEF rancherVars, BindingsOK
<1>4. ASSUME NEW c \in Calls, Step(c) PROVE BindingsOK'
  <2>1. given \subseteq given' /\ live \subseteq given
    BY <1>1, <1>4, GivenGrows DEF Types
  <2> QED
    BY <1>4, <2>1, BindingsForm DEF BindingsOK, BindMember, Unbind, RemoveProject
<1> QED
  BY <1>2, <1>3, <1>4 DEF Next

LEMMA StepRuns == ASSUME NEW c \in Calls, Step(c) PROVE pc[c] \notin {"new", "done"}
BY DEF Step, AddMember, PostProject, ReadMembers, ReadProject, PutProject, SetProjectPSP,
   DeleteMember, UpdateReturns, DeleteProject

\* Nor does a call become new again.
LEMMA NeverNew ==
  ASSUME BasicInv, NEW c \in Calls, Step(c)
  PROVE  pc'[c] # "new"
<1>1. Types /\ Truths /\ pc \in [Calls -> Labels]
  BY TypeSplit DEF BasicInv, Types
<1>2. ASSUME NEW id, NEW err, Return(c, id, err) PROVE pc'[c] # "new"
  BY <1>1, <1>2, ReturnForm DEF Ends
<1>3. CASE CompareMembers(c)
  BY <1>1, <1>3, CompareForm
<1> QED
  BY <1>1, <1>2, <1>3 DEF Step, AddMember, PostProject, ReadMembers, ReadProject,
     PutProject, SetProjectPSP, DeleteMember, UpdateReturns, DeleteProject, Sends,
     MemberDone, AfterPut, AfterPolicy, Goto

LEMMA BeforeStep ==
  ASSUME BasicInv, BeforeOK, [Next]_vars
  PROVE  BeforeOK'
<1>1. Types /\ Truths
  BY TypeSplit DEF BasicInv
<1>2. CASE UNCHANGED vars
  BY <1>2 DEF vars, callVars, BeforeOK
<1>3. ASSUME NEW c \in Calls, StartCall(c) PROVE BeforeOK'
  <2>1. /\ pc[c] = "new" /\ before' = [before EXCEPT ![c] = {d \in Calls : pc[d] = "done"}]
        /\ \A d \in Calls \ {c} : pc'[d] = pc[d]
    BY <1>1, <1>3, StartForm, StartFrame DEF Frame
  <2>2. pc'[c] # "new"
    BY <1>1, <1>3, StartForm DEF FirstLabel, Types
  <2> QED
    BY <1>1, <2>1, <2>2 DEF BeforeOK, Types
<1>4. ASSUME NEW c \in Calls, Step(c) PROVE BeforeOK'
  BY <1>1, <1>4, StepFrame, StepRuns, NeverNew, StepForm DEF Frame, BeforeOK
<1> QED
  BY <1>2, <1>3, <1>4 DEF Next

\* Who has the last word on p only changes when calls start or projects are made.
LEMMA SameLast ==
  ASSUME NEW p \in ProjectIDs, UNCHANGED <<req, before>>,
         \A d \in Calls : project'[d] = p <=> project[d] = p
  PROVE  /\ LastWriters(p)' = LastWriters(p) /\ LastAdders(p)' = LastAdders(p)
         /\ \A d \in Calls : Wanted(d)' = Wanted(d)
<1>1. \A d \in Calls : project[d] = p => (Superseded(d)' <=> Superseded(d))
  BY DEF Superseded
<1> QED
  BY <1>1 DEF LastWriters, LastAdders, Writers, Adders, Wanted

\* A call that runs has the last word, alone or with others.
LEMMA RunsLast ==
  ASSUME BeforeOK, NEW c \in Calls, pc[c] # "done", NEW p \in ProjectIDs, project[c] = p
  PROVE  /\ req[c].op \in {"CreateProject", "UpdateProject"} => c \in LastWriters(p)
         /\ req[c].op = "AddProjectMember" => c \in LastAdders(p)
BY DEF BeforeOK, LastWriters, LastAdders, Writers, Adders, Superseded

\* What a step of c has to keep, and to do before it no longer means to do it,
\* for what the last word on p says to come true.
MembersKept(p) ==
  \A m \in Bound(p) : (\A d \in LastWriters(p) : m \in Wanted(d)) => m \in Bound(p)'
MembersBacked(p) ==
  \A b \in BindingsOf(p)' : b \in BindingsOf(p)
    \/ \E d \in LastWriters(p) \cup LastAdders(p) : b.member \in Wanted(d)
Adds(c, p) ==
  \A m \in Wanted(c) : WillAdd(c, m) => WillAdd(c, m)' \/ m \in Bound(p)'
Deletes(c, p) ==
  \A b \in BindingsOf(p)' : WillDelete(c, b) => WillDelete(c, b)' \/ b.member \in Wanted(c)
WrittenDetailsWanted(p) ==
  setting'[p].details = setting[p].details
    \/ \E d \in LastWriters(p) : setting'[p].details = req[d].want.details
Puts(c, p) ==
  WillPut(c) => WillPut(c)' \/ setting'[p].details = req[c].want.details
WrittenPolicyWanted(p) ==
  setting'[p].policy = setting[p].policy
    \/ \E d \in LastWriters(p) : setting'[p].policy = req[d].want.policy
SetsPolicy(c, p) ==
  WillSetPolicy(c) => WillSetPolicy(c)' \/ setting'[p].policy = req[c].want.policy

LEMMA OthersGoOn ==
  ASSUME NEW c \in Calls, NEW d \in Calls \ {c}, Frame(c), req' = req
  PROVE  /\ \A m : WillAdd(d, m)' <=> WillAdd(d, m)
         /\ \A b : WillDelete(d, b)' <=> WillDelete(d, b)
         /\ WillPut(d)' <=> WillPut(d)
         /\ WillSetPolicy(d)' <=> WillSetPolicy(d)
BY DEF Frame, WillAdd, WillDelete, WillPut, WillSetPolicy, PolicyChanged

LEMMA Progress ==
  ASSUME NEW p \in ProjectIDs, NEW c \in Calls, Frame(c), UNCHANGED <<req, before>>,
         \A d \in Calls : project'[d] = p <=> project[d] = p, Said(p),
         MembersKept(p), MembersBacked(p), WrittenDetailsWanted(p), WrittenPolicyWanted(p),
         c \in LastWriters(p) => Adds(c, p) /\ Deletes(c, p) /\ Puts(c, p) /\ SetsPolicy(c, p)
  PROVE  Said(p)'
<1> DEFINE W == LastWriters(p)  A == LastAdders(p)
<1>1. /\ LastWriters(p)' = W /\ LastAdders(p)' = A
      /\ \A d \in Calls : Wanted(d)' = Wanted(d)
  BY SameLast
<1>2. W \subseteq Calls /\ A \subseteq Calls
  BY DEF LastWriters, LastAdders, Writers, Adders
<1>3. MembersCome(p)'
  <2> SUFFICES ASSUME NEW m \in Members, \A d \in W : m \in Wanted(d)
               PROVE  m \in Bound(p)' \/ \E d \in W : WillAdd(d, m)'
    BY <1>1, <1>2 DEF MembersCome
  <2>1. CASE m \in Bound(p)
    BY <2>1 DEF MembersKept
  <2>2. ASSUME NEW d \in W, WillAdd(d, m) PROVE m \in Bound(p)' \/ \E e \in W : WillAdd(e, m)'
    <3>1. CASE d = c
      BY <2>2, <3>1 DEF Adds
    <3>2. CASE d # c
      BY <1>2, <2>2, <3>2, OthersGoOn
    <3> QED
      BY <3>1, <3>2
  <2> QED
    BY <2>1, <2>2 DEF Said, MembersCome
<1>4. MembersGo(p)'
  <2> SUFFICES ASSUME NEW b \in BindingsOf(p)',
                      \A d \in W \cup A : b.member \notin Wanted(d)
               PROVE  \E d \in W : WillDelete(d, b)'
    BY <1>1, <1>2 DEF MembersGo
  <2>1. b \in BindingsOf(p)
    BY DEF MembersBacked
  <2>2. PICK d \in W : WillDelete(d, b)
    BY <2>1 DEF Said, MembersGo
  <2>3. CASE d = c
    BY <2>2, <2>3 DEF Deletes
  <2>4. CASE d # c
    BY <1>2, <2>2, <2>4, OthersGoOn
  <2> QED
    BY <2>3, <2>4
<1>5. DetailsCome(p)'
  <2>1. PICK d \in W : setting[p].details = req[d].want.details \/ WillPut(d)
    BY DEF Said, DetailsCome
  <2>2. CASE \E e \in W : setting'[p].details = req[e].want.details
    BY <1>1, <2>2 DEF DetailsCome
  <2>3. CASE setting'[p].details = setting[p].details /\ WillPut(d)
    <3>1. WillPut(d)' \/ setting'[p].details = req[d].want.details
      BY <1>2, <2>3, OthersGoOn DEF Puts
    <3> QED
      BY <1>1, <3>1 DEF DetailsCome
  <2> QED
    BY <2>1, <2>2, <2>3 DEF WrittenDetailsWanted
<1>6. PolicyComes(p)'
  <2>1. PICK d \in W : setting[p].policy = req[d].want.policy \/ WillSetPolicy(d)
    BY DEF Said, PolicyComes
  <2>2. CASE \E e \in W : setting'[p].policy = req[e].want.policy
    BY <1>1, <2>2 DEF PolicyComes
  <2>3. CASE setting'[p].policy = setting[p].policy /\ WillSetPolicy(d)
    <3>1. WillSetPolicy(d)' \/ setting'[p].policy = req[d].want.policy
      BY <1>2, <2>3, OthersGoOn DEF SetsPolicy
    <3> QED
      BY <1>1, <3>1 DEF PolicyComes
  <2> QED
    BY <2>1, <2>2, <2>3 DEF WrittenPolicyWanted
<1> QED
  BY <1>3, <1>4, <1>5, <1>6 DEF Said

\* What the request of a step does when the connection and the server keep up
\* and the project stays.
LEMMA CompareGoes ==
  ASSUME Types, BindingsOK, NEW c \in Calls, NEW p \in ProjectIDs, CompareMembers(c),
         pc[c] \in {"put", "setPolicy"}, req[c].op = "UpdateProject",
         UNCHANGED bindings
  PROVE  Adds(c, p) /\ Deletes(c, p)
<1>1. pc'[c] = "members" /\ req' = req
  BY CompareForm
<1>2. /\ toAdd'[c] = {i \in DOMAIN req[c].members :
                        \A b \in old[c].members : b.member # req[c].members[i]}
      /\ toDelete'[c] = {b \in old[c].members :
                           \A i \in DOMAIN req[c].members : req[c].members[i] # b.member}
  BY CompareForm
<1>3. Adds(c, p)
  <2> SUFFICES ASSUME NEW m \in Wanted(c), WillAdd(c, m) PROVE WillAdd(c, m)'
    BY DEF Adds
  <2>1. \A b \in old[c].members : b.member # m
    BY DEF WillAdd
  <2>2. PICK i \in DOMAIN req[c].members : req[c].members[i] = m
    BY DEF Wanted
  <2>3. i \in toAdd'[c]
    BY <1>2, <2>1, <2>2
  <2> QED
    BY <1>1, <2>2, <2>3 DEF WillAdd
<1>4. Deletes(c, p)
  <2> SUFFICES ASSUME NEW b \in BindingsOf(p)', WillDelete(c, b), b.member \notin Wanted(c)
               PROVE  WillDelete(c, b)'
    BY DEF Deletes
  <2>1. b \in old[c].members
    BY DEF WillDelete
  <2>2. b.member \notin Untyped
    BY DEF BindingsOf, BindingsOK
  <2>3. \A i \in DOMAIN req[c].members : req[c].members[i] # b.member
    BY <2>2 DEF Wanted
  <2> QED
    BY <1>1, <1>2, <2>1, <2>3 DEF WillDelete
<1> QED
  BY <1>3, <1>4

LEMMA Goes ==
  ASSUME BasicInv, BindingsOK, NEW c \in Calls, ReadOK(c), Step(c),
         NEW p \in ProjectIDs, project[c] = p, p \in live', intact'[c],
         req[c].op \in {"CreateProject", "UpdateProject"}
  PROVE  Adds(c, p) /\ Deletes(c, p) /\ Puts(c, p) /\ SetsPolicy(c, p)
<1>1. Types /\ Truths /\ CallOK(c)
  BY TypeSplit DEF BasicInv
<1>2. req' = req /\ Wanted(c)' = Wanted(c) /\ NoProject \notin ProjectIDs
  BY <1>1, StepForm, ProjectsAssumption DEF Wanted
<1>3. ~ Fault(c)
  BY <1>1 DEF Fault, Truths
<1> USE DEF Adds, Deletes, Puts, SetsPolicy
<1>4. CASE AddMember(c)
  <2>1. PICK i \in toAdd[c] :
          IF req[c].members[i] \in Untyped
          THEN MemberDone(c, i, TRUE) /\ NoFault /\ UNCHANGED <<rancherVars, touched>>
          ELSE Sends(c, project[c] \in live, BindMember(c, req[c].members[i]),
                     MemberDone(c, i, FALSE), MemberDone(c, i, TRUE),
                     MemberDone(c, i, TRUE))
    BY <1>4 DEF AddMember
  <2>2. MemberDone(c, i, TRUE) \/ MemberDone(c, i, FALSE)
    BY <2>1 DEF Sends
  <2>3. /\ pc[c] = "members" /\ pc'[c] = "members"
        /\ toAdd'[c] = toAdd[c] \ {i} /\ toDelete'[c] = toDelete[c]
    BY <1>1, <1>4, <2>2 DEF AddMember, MemberDone, Goto, Types
  <2>4. req[c].members[i] \in Untyped \/ BindMember(c, req[c].members[i])
    BY <1>3, <2>1 DEF Sends, rancherVars
  <2>5. ASSUME BindMember(c, req[c].members[i]) PROVE req[c].members[i] \in Bound(p)'
    <3> DEFINE b == [id |-> made[req[c].members[i]] + 1, project |-> p,
                     member |-> req[c].members[i]]
    <3>1. b \in bindings' /\ b.project = p
      BY <2>5 DEF BindMember
    <3>2. b \in BindingsOf(p)' /\ b.member = req[c].members[i]
      BY <3>1 DEF BindingsOf
    <3> HIDE DEF b
    <3> QED
      BY <3>2 DEF Bound
  <2>6. Adds(c, p)
    <3> SUFFICES ASSUME NEW m \in Wanted(c), WillAdd(c, m), m \notin Bound(p)'
                 PROVE  WillAdd(c, m)'
      OBVIOUS
    <3>1. PICK j \in toAdd[c] : req[c].members[j] = m
      BY <2>3 DEF WillAdd
    <3>2. m \notin Untyped
      BY DEF Wanted
    <3> QED
      BY <1>2, <2>3, <2>4, <2>5, <3>1, <3>2 DEF WillAdd
  <2>7. Deletes(c, p)
    BY <2>3 DEF WillDelete
  <2>8. Puts(c, p) /\ SetsPolicy(c, p)
    BY <1>2, <2>3 DEF WillPut, WillSetPolicy
  <2> QED
    BY <2>6, <2>7, <2>8
<1>5. CASE PostProject(c)
  BY <1>1, <1>2, <1>5 DEF PostProject, CallOK, Place
<1>6. CASE ReadMembers(c)
  <2>0. /\ old' = [old EXCEPT ![c].members = BindingsOf(p)] /\ Goto(c, "readProject")
        /\ pc[c] = "readMembers" /\ UNCHANGED rancherVars
    BY <1>3, <1>6 DEF ReadMembers
  <2>1. /\ pc[c] = "readMembers" /\ pc'[c] = "readProject" /\ bindings' = bindings
        /\ old'[c].members = BindingsOf(p)
    BY <1>1, <2>0 DEF Goto, Types, Detail, rancherVars
  <2>2. Adds(c, p) /\ Deletes(c, p)
    BY <2>1 DEF WillAdd, WillDelete, Bound, BindingsOf
  <2>3. Puts(c, p) /\ SetsPolicy(c, p)
    BY <2>1 DEF WillPut, WillSetPolicy
  <2> QED
    BY <2>2, <2>3
<1>7. CASE ReadProject(c)
  <2>1. /\ pc[c] = "readProject" /\ pc'[c] = "put" /\ setting' = setting
        /\ old'[c].members = old[c].members /\ old'[c].policy = setting[p].policy
    BY <1>1, <1>3, <1>7 DEF ReadProject, Goto, Types, Detail, rancherVars
  <2>2. Adds(c, p) /\ Deletes(c, p)
    BY <2>1 DEF WillAdd, WillDelete
  <2>3. Puts(c, p) /\ SetsPolicy(c, p)
    BY <1>2, <2>1 DEF WillPut, WillSetPolicy, PolicyChanged
  <2> QED
    BY <2>2, <2>3
<1>8. CASE PutProject(c)
  <2>1. pc[c] = "put" /\ WriteDetails(c) /\ AfterPut(c)
    BY <1>3, <1>8 DEF PutProject, Sends, rancherVars
  <2>2. req[c].op = "UpdateProject" /\ bindings' = bindings
        /\ setting'[p].details = req[c].want.details
    BY <1>1, <2>1 DEF WriteDetails, CallOK, Control, Reading, Types, Setting
  <2>3. CASE PolicyChanged(c) /\ Goto(c, "setPolicy") /\ UNCHANGED <<old, toAdd, toDelete>>
    <3>1. pc'[c] = "setPolicy"
      BY <1>1, <2>3 DEF Goto, Types
    <3>2. Adds(c, p) /\ Deletes(c, p)
      BY <2>1, <2>3, <3>1 DEF WillAdd, WillDelete
    <3>3. WillSetPolicy(c)'
      BY <3>1 DEF WillSetPolicy
    <3> QED
      BY <2>2, <3>2, <3>3
  <2>4. CASE ~ PolicyChanged(c) /\ CompareMembers(c)
    <3>1. ~ WillSetPolicy(c)
      BY <2>1, <2>4 DEF WillSetPolicy
    <3> QED
      BY <1>1, <2>1, <2>2, <2>4, <3>1, CompareGoes
  <2> QED
    BY <2>1, <2>3, <2>4 DEF AfterPut
<1>9. CASE SetProjectPSP(c)
  <2>1. WritePolicy(c) /\ AfterPolicy(c)
    BY <1>3, <1>9 DEF SetProjectPSP, Sends, rancherVars
  <2>2. bindings' = bindings /\ setting'[p].policy = req[c].want.policy
    BY <1>1, <2>1 DEF WritePolicy, Types, Setting
  <2>3. pc[c] \in {"setPolicy", "members"}
    BY <1>9 DEF SetProjectPSP
  <2>4. ~ WillPut(c)
    BY <2>3 DEF WillPut
  <2>5. CASE req[c].op = "CreateProject"
    <3>1. pc[c] = "members" /\ toAdd[c] = {} /\ toDelete[c] = {}
      BY <1>1, <1>9, <2>5 DEF SetProjectPSP, CallOK, Control, Work, Reading
    <3>2. \A m : ~ WillAdd(c, m)
      BY <3>1 DEF WillAdd
    <3>3. \A b : ~ WillDelete(c, b)
      BY <3>1 DEF WillDelete
    <3> QED
      BY <2>2, <2>4, <3>2, <3>3
  <2>6. CASE req[c].op = "UpdateProject"
    <3>1. pc[c] = "setPolicy" /\ CompareMembers(c)
      BY <1>9, <2>1, <2>6 DEF SetProjectPSP, AfterPolicy
    <3> QED
      BY <1>1, <2>2, <2>4, <2>6, <3>1, CompareGoes
  <2> QED
    BY <2>5, <2>6
<1>10. CASE DeleteMember(c)
  <2>1. PICK b \in toDelete[c] :
          /\ Sends(c, b \in bindings, Unbind(c, b), TRUE, TRUE, TRUE)
          /\ toDelete' = [toDelete EXCEPT ![c] = @ \ {b}]
    BY <1>10 DEF DeleteMember
  <2>2. /\ pc[c] = "members" /\ pc'[c] = "members" /\ toAdd[c] = {} /\ toAdd' = toAdd
        /\ toDelete'[c] = toDelete[c] \ {b}
    BY <1>1, <1>10, <2>1 DEF DeleteMember, Goto, Types
  <2>3. b \notin bindings'
    BY <1>3, <2>1 DEF Sends, Unbind, rancherVars
  <2>4. Adds(c, p)
    BY <2>2 DEF WillAdd
  <2>5. Deletes(c, p)
    BY <2>2, <2>3 DEF WillDelete, BindingsOf
  <2>6. Puts(c, p) /\ SetsPolicy(c, p)
    BY <1>2, <2>2 DEF WillPut, WillSetPolicy
  <2> QED
    BY <2>4, <2>5, <2>6
<1>11. CASE UpdateReturns(c)
  BY <1>11 DEF UpdateReturns, WillAdd, WillDelete, WillPut, WillSetPolicy
<1>12. CASE DeleteProject(c)
  BY <1>1, <1>12 DEF DeleteProject, CallOK, Control
<1> QED
  BY <1>4, <1>5, <1>6, <1>7, <1>8, <1>9, <1>10, <1>11, <1>12 DEF Step

\* What a step does to the settings.
LEMMA SettingForm ==
  ASSUME BasicInv, NEW c \in Calls, Step(c)
  PROVE  \/ UNCHANGED setting
         \/ req[c].op \in {"CreateProject", "UpdateProject"} /\ pc[c] # "done"
            /\ (WriteDetails(c) \/ WritePolicy(c))
         \/ \E p \in ProjectIDs \ given : MakeProject(c, p)
<1>1. CallOK(c)
  BY DEF BasicInv
<1>2. CASE PutProject(c)
  BY <1>1, <1>2 DEF PutProject, Sends, rancherVars, CallOK, Control, Reading
<1>3. CASE SetProjectPSP(c)
  BY <1>1, <1>3 DEF SetProjectPSP, Sends, rancherVars, CallOK, Control, Reading
<1>4. CASE PostProject(c)
  BY <1>4 DEF PostProject, Sends, rancherVars
<1> QED
  BY <1>2, <1>3, <1>4 DEF Step, AddMember, ReadMembers, ReadProject, DeleteMember,
     UpdateReturns, DeleteProject, Sends, BindMember, Unbind, RemoveProject, rancherVars

\* Only a project that is made comes to live, and only then a call gets its project.
LEMMA ProjectForm ==
  ASSUME Types, NEW c \in Calls, Step(c)
  PROVE  \/ project' = project /\ live' \subseteq live
         \/ pc[c] = "post" /\ \E q \in ProjectIDs \ given :
              /\ MakeProject(c, q)
              /\ \/ project' = project
                 \/ /\ project' = [project EXCEPT ![c] = q]
                    /\ toAdd' = [toAdd EXCEPT ![c] = DOMAIN req[c].members]
                    /\ pc' = [pc EXCEPT ![c] = "members"]
<1>1. CASE PostProject(c)
  <2>1. pc[c] = "post"
    BY <1>1 DEF PostProject
  <2>2. PICK q \in ProjectIDs \ given :
          Sends(c, TRUE, MakeProject(c, q),
                /\ project' = [project EXCEPT ![c] = q]
                /\ toAdd' = [toAdd EXCEPT ![c] = DOMAIN req[c].members]
                /\ pc' = [pc EXCEPT ![c] = "members"]
                /\ UNCHANGED <<req, old, toDelete, reply>>,
                Return(c, NoProject, TRUE), Return(c, NoProject, TRUE))
    BY <1>1 DEF PostProject
  <2>3. Return(c, NoProject, TRUE) => project' = project
    BY DEF Return
  <2>4. UNCHANGED rancherVars => live' \subseteq live
    BY DEF rancherVars
  <2> QED
    BY <2>1, <2>2, <2>3, <2>4 DEF Sends
<1>2. CASE AddMember(c)
  BY <1>2 DEF AddMember, Sends, MemberDone, BindMember, Goto, Return, rancherVars
<1>3. CASE ReadMembers(c) \/ ReadProject(c) \/ UpdateReturns(c)
  BY <1>3 DEF ReadMembers, ReadProject, UpdateReturns, Goto, Return, rancherVars
<1>4. CASE PutProject(c)
  BY <1>4 DEF PutProject, Sends, WriteDetails, AfterPut, CompareMembers, Goto, Return,
     rancherVars
<1>5. CASE SetProjectPSP(c)
  BY <1>5 DEF SetProjectPSP, Sends, WritePolicy, AfterPolicy, CompareMembers, Goto, Return,
     rancherVars
<1>6. CASE DeleteMember(c)
  BY <1>6 DEF DeleteMember, Sends, Unbind, Goto, rancherVars
<1>7. CASE DeleteProject(c)
  BY <1>7 DEF DeleteProject, Sends, RemoveProject, Return, rancherVars
<1> QED
  BY <1>1, <1>2, <1>3, <1>4, <1>5, <1>6, <1>7 DEF Step

\* Members that all who have the last word want are deleted by none, and none
\* enters a member that it does not want.
LEMMA MembersForm ==
  ASSUME BasicInv, BeforeOK, NEW c \in Calls, ReadOK(c), Step(c),
         NEW p \in ProjectIDs, p \in live'
  PROVE  MembersKept(p) /\ MembersBacked(p)
<1>1. Types /\ CallOK(c)
  BY TypeSplit DEF BasicInv
<1>2. CASE UNCHANGED bindings
  BY <1>2 DEF MembersKept, MembersBacked, Bound, BindingsOf
<1>3. ASSUME pc[c] = "members", NEW i \in toAdd[c],
             req[c].members[i] \in Members \ Untyped,
             BindMember(c, req[c].members[i])
      PROVE  MembersKept(p) /\ MembersBacked(p)
  <2>1. bindings \subseteq bindings'
    BY <1>3 DEF BindMember
  <2>2. MembersKept(p)
    BY <2>1 DEF MembersKept, Bound, BindingsOf
  <2>3. req[c].op \in {"CreateProject", "UpdateProject", "AddProjectMember"}
    BY <1>1, <1>3 DEF CallOK, Control
  <2>4. project[c] = p => c \in LastWriters(p) \cup LastAdders(p)
    BY <1>3, <2>3, RunsLast
  <2>5. i \in DOMAIN req[c].members
    BY <1>1, <1>3 DEF CallOK, Work
  <2>6. req[c].members[i] \in Wanted(c)
    BY <1>3, <2>5 DEF Wanted
  <2>7. \A b \in bindings' \ bindings :
          b.project = project[c] /\ b.member = req[c].members[i]
    BY <1>3 DEF BindMember
  <2>8. MembersBacked(p)
    BY <2>4, <2>6, <2>7 DEF MembersBacked, BindingsOf
  <2> QED
    BY <2>2, <2>8
<1>4. ASSUME pc[c] = "members", NEW b \in toDelete[c], Unbind(c, b)
      PROVE  MembersKept(p) /\ MembersBacked(p)
  <2>1. bindings' = bindings \ {b}
    BY <1>4 DEF Unbind
  <2>2. MembersBacked(p)
    BY <2>1 DEF MembersBacked, BindingsOf
  <2>3. project[c] = p => c \in LastWriters(p)
    BY <1>1, <1>4, RunsLast DEF CallOK, Work
  <2>4. b.project = project[c] /\ b.member \notin Wanted(c)
    BY <1>1, <1>4 DEF ReadOK, CallOK, Work, Wanted
  <2>5. MembersKept(p)
    <3> SUFFICES ASSUME NEW m \in Bound(p), \A d \in LastWriters(p) : m \in Wanted(d)
                 PROVE  m \in Bound(p)'
      BY DEF MembersKept
    <3>1. PICK e \in bindings : e.project = p /\ e.member = m
      BY DEF Bound, BindingsOf
    <3>2. e # b
      BY <2>3, <2>4, <3>1
    <3>3. e \in BindingsOf(p)'
      BY <2>1, <3>1, <3>2 DEF BindingsOf
    <3> QED
      BY <3>1, <3>3 DEF Bound
  <2> QED
    BY <2>2, <2>5
<1>5. CASE RemoveProject(project[c])
  <2>1. live' = live \ {project[c]} /\ bindings' = bindings \ BindingsOf(project[c])
    BY <1>5 DEF RemoveProject
  <2>2. project[c] # p
    BY <2>1
  <2>3. BindingsOf(p)' = BindingsOf(p)
    BY <2>1, <2>2 DEF BindingsOf
  <2> QED
    BY <2>3 DEF MembersKept, MembersBacked, Bound
<1> QED
  BY <1>2, <1>3, <1>4, <1>5, BindingsForm

LEMMA SaidStep ==
  ASSUME IInv, NEW c \in Calls, Step(c), NEW p \in ProjectIDs, Speaking(p)'
  PROVE  Said(p)'
<1>1. /\ BasicInv /\ Types /\ Truths /\ CallOK(c) /\ ReadOK(c) /\ BindingsOK /\ BeforeOK
      /\ Speaking(p) => Said(p)
  BY TypeSplit DEF IInv, BasicInv
<1>2. Frame(c) /\ UNCHANGED <<req, before>> /\ p \in live'
  BY <1>1, StepFrame, StepForm DEF Speaking
<1>3. ASSUME \A d \in Calls : project'[d] = p <=> project[d] = p
      PROVE  /\ LastWriters(p)' = LastWriters(p)
             /\ p \in live => Said(p)
  <2>1. LastWriters(p)' = LastWriters(p)
    BY <1>2, <1>3, SameLast
  <2>2. \A d \in Calls : intact'[d] => intact[d]
    BY <1>1, StepForm DEF Fault, NoFault, Truths
  <2> QED
    BY <1>1, <2>1, <2>2 DEF Speaking, LastWriters, Writers
<1>4. CASE project' = project /\ live' \subseteq live
  <2>1. Said(p) /\ MembersKept(p) /\ MembersBacked(p)
    BY <1>1, <1>2, <1>3, <1>4, MembersForm
  <2>2. ~ \E q \in ProjectIDs \ given : MakeProject(c, q)
    BY <1>1, <1>4 DEF MakeProject, Types
  <2>3. \/ setting'[p] = setting[p]
        \/ c \in LastWriters(p) /\ (WriteDetails(c) \/ WritePolicy(c)) /\ project[c] = p
    <3>1. CASE UNCHANGED setting
      BY <3>1
    <3>2. CASE /\ req[c].op \in {"CreateProject", "UpdateProject"} /\ pc[c] # "done"
               /\ WriteDetails(c) \/ WritePolicy(c)
      <4>1. CASE project[c] = p
        BY <1>1, <3>2, <4>1, RunsLast
      <4>2. CASE project[c] # p
        BY <1>1, <3>2, <4>2 DEF WriteDetails, WritePolicy, Types
      <4> QED
        BY <4>1, <4>2
    <3> QED
      BY <1>1, <2>2, <3>1, <3>2, SettingForm
  <2>4. WrittenDetailsWanted(p) /\ WrittenPolicyWanted(p)
    BY <1>1, <2>3
    DEF WrittenDetailsWanted, WrittenPolicyWanted, WriteDetails, WritePolicy, Types, Setting
  <2>5. ASSUME c \in LastWriters(p)
        PROVE  Adds(c, p) /\ Deletes(c, p) /\ Puts(c, p) /\ SetsPolicy(c, p)
    <3>1. project[c] = p /\ req[c].op \in {"CreateProject", "UpdateProject"}
      BY <2>5 DEF LastWriters, Writers
    <3>2. intact'[c]
      BY <1>3, <1>4, <2>5 DEF Speaking
    <3> QED
      BY <1>1, <1>2, <3>1, <3>2, Goes
  <2> QED
    BY <1>2, <1>4, <2>1, <2>4, <2>5, Progress
<1>5. ASSUME pc[c] = "post", NEW q \in ProjectIDs \ given, MakeProject(c, q),
             \/ project' = project
             \/ /\ project' = [project EXCEPT ![c] = q]
                /\ toAdd' = [toAdd EXCEPT ![c] = DOMAIN req[c].members]
                /\ pc' = [pc EXCEPT ![c] = "members"]
      PROVE  Said(p)'
  <2>1. /\ project[c] = NoProject /\ NoProject \notin ProjectIDs
        /\ \A d \in Calls : project[d] # q
    BY <1>1, <1>5, ProjectsAssumption DEF CallOK, Place, IInv, BasicInv
  <2>2. CASE p # q
    <3>1. \A d \in Calls : project'[d] = p <=> project[d] = p
      <4>1. CASE project' = project
        BY <4>1
      <4>2. CASE project' = [project EXCEPT ![c] = q]
        BY <1>1, <2>1, <2>2, <4>2 DEF Types
      <4> QED
        BY <1>5, <4>1, <4>2
    <3>2. p \in live /\ setting'[p] = setting[p] /\ bindings' = bindings
      BY <1>1, <1>2, <1>5, <2>2 DEF MakeProject, Types
    <3>3. Said(p)
      BY <1>3, <3>1, <3>2
    <3>4. /\ MembersKept(p) /\ MembersBacked(p)
          /\ WrittenDetailsWanted(p) /\ WrittenPolicyWanted(p)
      BY <3>2 DEF MembersKept, MembersBacked, Bound, BindingsOf, WrittenDetailsWanted,
                  WrittenPolicyWanted
    <3>5. c \notin LastWriters(p)
      BY <2>1 DEF LastWriters, Writers
    <3> QED
      BY <1>2, <3>1, <3>3, <3>4, <3>5, Progress
  <2>3. CASE p = q /\ project' = project
    <3>1. LastWriters(p)' = {}
      BY <2>1, <2>3 DEF LastWriters, Writers
    <3> QED
      BY <3>1 DEF Speaking
  <2>4. CASE /\ p = q
             /\ project' = [project EXCEPT ![c] = q]
             /\ toAdd' = [toAdd EXCEPT ![c] = DOMAIN req[c].members]
             /\ pc' = [pc EXCEPT ![c] = "members"]
    <3>1. req[c].op = "CreateProject"
      BY <1>1, <1>5 DEF CallOK, Control
    <3>2. project'[c] = p /\ pc'[c] = "members" /\ toAdd'[c] = DOMAIN req[c].members
          /\ \A d \in Calls \ {c} : project'[d] # p
      BY <1>1, <2>1, <2>4 DEF Types
    <3>3. LastWriters(p)' = {c}
      <4>1. Writers(p)' = {c}
        BY <1>2, <3>1, <3>2 DEF Writers
      <4>2. ~ Superseded(c)'
        BY <1>2, <1>1, <3>1, <3>2 DEF Superseded
      <4> QED
        BY <4>1, <4>2 DEF LastWriters
    <3>4. MembersCome(p)'
      <4>1. \A m \in Wanted(c)' : WillAdd(c, m)'
        BY <1>2, <3>2 DEF Wanted, WillAdd
      <4> QED
        BY <3>3, <4>1 DEF MembersCome
    <3>5. BindingsOf(p)' = {}
      BY <1>1, <1>5, <2>4 DEF MakeProject, BindingsOf, BindingsOK
    <3>6. setting'[p].details = req[c].want.details
      BY <1>1, <1>5, <2>4 DEF MakeProject, Types
    <3>7. WillSetPolicy(c)'
      BY <1>2, <3>1, <3>2 DEF WillSetPolicy
    <3> QED
      BY <1>2, <3>3, <3>4, <3>5, <3>6, <3>7 DEF Said, MembersGo, DetailsCome, PolicyComes
  <2> QED
    BY <1>5, <2>2, <2>3, <2>4
<1> QED
  BY <1>1, <1>4, <1>5, ProjectForm

\* A call that starts either says the last word itself, or changes nothing in it.
LEMMA SaidStart ==
  ASSUME IInv, NEW c \in Calls, StartCall(c), NEW p \in ProjectIDs, Speaking(p)'
  PROVE  Said(p)'
<1>1. /\ Types /\ CallOK(c) /\ BeforeOK
      /\ Speaking(p) => Said(p)
  BY TypeSplit DEF IInv, BasicInv
<1>2. PICK r \in Request :
        /\ req' = [req EXCEPT ![c] = r] /\ pc' = [pc EXCEPT ![c] = FirstLabel(r.op)]
        /\ project' = [project EXCEPT ![c] =
                         IF r.op = "CreateProject" THEN NoProject ELSE r.project]
  BY <1>1, StartForm
<1>3. /\ pc[c] = "new" /\ project[c] = NoProject /\ NoProject \notin ProjectIDs
      /\ before' = [before EXCEPT ![c] = {d \in Calls : pc[d] = "done"}]
      /\ UNCHANGED <<live, setting, bindings, intact>>
  BY <1>1, StartForm, ProjectsAssumption DEF CallOK, Place, rancherVars
<1>4. /\ req'[c] = r /\ pc'[c] = FirstLabel(r.op)
      /\ project'[c] = IF r.op = "CreateProject" THEN NoProject ELSE r.project
      /\ c \notin before'[c] /\ \A d \in Calls : c \notin before'[d]
  BY <1>1, <1>2, <1>3 DEF Types, BeforeOK
<1>5. Frame(c) /\ \A d \in Calls \ {c} : req'[d] = req[d] /\ before'[d] = before[d]
  BY <1>1, StartFrame
<1>6. CASE r.op = "UpdateProject" /\ r.project = p
  <2>1. c \in LastWriters(p)'
    BY <1>4, <1>6 DEF LastWriters, Writers, Superseded
  <2>2. pc'[c] = "readMembers"
    BY <1>4, <1>6 DEF FirstLabel
  <2> QED
    BY <2>1, <2>2 DEF Said, MembersCome, MembersGo, DetailsCome, PolicyComes,
                      WillAdd, WillDelete, WillPut, WillSetPolicy
<1>7. CASE ~ (r.op = "UpdateProject" /\ r.project = p)
  <2>1. \A d \in Calls \ {c} : project[d] = p => (Superseded(d)' <=> Superseded(d))
    BY <1>3, <1>4, <1>5, <1>7 DEF Superseded, Frame
  <2>2. LastWriters(p)' = LastWriters(p) /\ c \notin LastWriters(p)
    <3>1. c \notin Writers(p) /\ c \notin Writers(p)'
      BY <1>3, <1>4, <1>7 DEF Writers
    <3> QED
      BY <1>5, <2>1, <3>1 DEF LastWriters, Writers, Frame
  <2>3. LastAdders(p) \subseteq LastAdders(p)' /\ c \notin LastAdders(p)
    <3>1. c \notin Adders(p)
      BY <1>3 DEF Adders
    <3> QED
      BY <1>5, <2>1, <3>1 DEF LastAdders, Adders, Frame
  <2>4. Said(p)
    BY <1>1, <1>3, <2>2 DEF Speaking
  <2>5. \A d \in LastWriters(p) :
          /\ Wanted(d)' = Wanted(d) /\ req'[d] = req[d]
          /\ \A m : WillAdd(d, m)' <=> WillAdd(d, m)
          /\ \A b : WillDelete(d, b)' <=> WillDelete(d, b)
          /\ WillPut(d)' <=> WillPut(d)
          /\ WillSetPolicy(d)' <=> WillSetPolicy(d)
    BY <1>5, <2>2 DEF LastWriters, Writers, Frame, Wanted, WillAdd, WillDelete, WillPut,
                      WillSetPolicy, PolicyChanged
  <2>6. \A d \in LastAdders(p) : Wanted(d)' = Wanted(d)
    BY <1>5, <2>3 DEF LastAdders, Adders, Wanted
  <2>7. Bound(p)' = Bound(p) /\ BindingsOf(p)' = BindingsOf(p) /\ setting' = setting
    BY <1>3 DEF Bound, BindingsOf
  <2>8. MembersCome(p)'
    BY <2>2, <2>4, <2>5, <2>7 DEF Said, MembersCome
  <2>9. MembersGo(p)'
    BY <2>2, <2>3, <2>4, <2>5, <2>6, <2>7 DEF Said, MembersGo
  <2>10. DetailsCome(p)' /\ PolicyComes(p)'
    BY <2>2, <2>4, <2>5, <2>7 DEF Said, DetailsCome, PolicyComes
  <2> QED
    BY <2>8, <2>9, <2>10 DEF Said
<1> QED
  BY <1>6, <1>7

LEMMA InvInit == Init => IInv
<1> SUFFICES ASSUME Init PROVE IInv
  OBVIOUS
<1>1. \A c \in Calls : ReadOK(c)
  BY DEF Init, ReadOK, NoDetail
<1>2. BindingsOK
  BY ProjectsAssumption DEF Init, BindingsOK
<1>3. BeforeOK
  BY DEF Init, BeforeOK
<1>4. ASSUME NEW p \in ProjectIDs PROVE ~ Speaking(p)
  BY ProjectsAssumption DEF Init, Speaking, LastWriters, Writers
<1> QED
  BY <1>1, <1>2, <1>3, <1>4, BasicInit DEF IInv

LEMMA InvStep == IInv /\ [Next]_vars => IInv'
<1> SUFFICES ASSUME IInv, [Next]_vars PROVE IInv'
  OBVIOUS
<1>1. BasicInv' /\ (\A c \in Calls : ReadOK(c))' /\ BindingsOK' /\ BeforeOK'
  BY BasicStep, ReadsStep, BindingsStep, BeforeStep DEF IInv
<1>2. ASSUME NEW p \in ProjectIDs, Speaking(p)' PROVE Said(p)'
  <2>1. CASE UNCHANGED vars
    <3>1. Speaking(p) /\ Said(p)
      BY <1>2, <2>1 DEF IInv, vars, rancherVars, callVars, Speaking, LastWriters, Writers,
         Superseded
    <3> QED
      BY <2>1, <3>1 DEF vars, rancherVars, callVars, Said, MembersCome, MembersGo,
         DetailsCome, PolicyComes, LastWriters, LastAdders, Writers, Adders, Superseded,
         Bound, BindingsOf, Wanted, WillAdd, WillDelete, WillPut, WillSetPolicy,
         PolicyChanged
  <2> QED
    BY <1>2, <2>1, SaidStart, SaidStep DEF Next
<1> QED
  BY <1>1, <1>2 DEF IInv

\* While the last word on a project is said without a failure, what it says is
\* there, or one of those who say it has still to put it there.
THEOREM Invariance == Spec => []IInv
BY InvInit, InvStep, PTL DEF Spec

\* When the calls that have the last word on a project have returned and none of
\* their requests has failed, it has every member that they all want, and only
\* members that one of them wants or has added.
THEOREM MembersSettled == Spec => []MembersSettle
<1>1. IInv => MembersSettle
  <2> SUFFICES ASSUME IInv, NEW p \in ProjectIDs, Settled(p)
               PROVE  /\ \A m \in Members :
                           (\A c \in LastWriters(p) : m \in Wanted(c)) => m \in Bound(p)
                      /\ \A m \in Bound(p) :
                           \E c \in LastWriters(p) \cup LastAdders(p) : m \in Wanted(c)
    BY DEF MembersSettle
  <2>1. Said(p)
    BY DEF IInv, Settled, Speaking
  <2>2. \A c \in LastWriters(p) : pc[c] = "done"
    BY DEF Settled, LastWriters
  <2>3. \A c \in LastWriters(p) : \A m : ~ WillAdd(c, m)
    BY <2>2 DEF WillAdd
  <2>4. \A c \in LastWriters(p) : \A b : ~ WillDelete(c, b)
    BY <2>2 DEF WillDelete
  <2>5. \A m \in Bound(p) : \E b \in BindingsOf(p) : b.member = m
    BY DEF Bound
  <2> QED
    BY <2>1, <2>3, <2>4, <2>5 DEF Said, MembersCome, MembersGo
<1> QED
  BY <1>1, Invariance, PTL

\* Its details and its policy are each what one of them wants.
THEOREM SettingsSettled == Spec => []SettingsSettle
<1>1. IInv => SettingsSettle
  <2> SUFFICES ASSUME IInv, NEW p \in ProjectIDs, Settled(p)
               PROVE  /\ \E c \in LastWriters(p) : setting[p].details = req[c].want.details
                      /\ \E c \in LastWriters(p) : setting[p].policy = req[c].want.policy
    BY DEF SettingsSettle
  <2>1. Said(p)
    BY DEF IInv, Settled, Speaking
  <2>2. \A c \in LastWriters(p) : ~ WillPut(c) /\ ~ WillSetPolicy(c)
    BY DEF Settled, LastWriters, WillPut, WillSetPolicy
  <2> QED
    BY <2>1, <2>2 DEF Said, DetailsCome, PolicyComes
<1> QED
  BY <1>1, Invariance, PTL
=============================================================================
