-------------------------- MODULE RancherProjects --------------------------
(***************************************************************************)
(* The writing half of the Rancher client: creating, updating and deleting *)
(* projects and adding members.  The client has no state and no locks; a   *)
(* call is a process, and a step is one request to Rancher.  UpdateProject *)
(* reads the project, writes its settings, and turns the difference of the *)
(* members read and the members wanted into one request per member, while  *)
(* other calls do the same.  Rancher may refuse a request with a status    *)
(* that the client does not look at, or the connection may break before or *)
(* after the request took effect.                                          *)
(***************************************************************************)
EXTENDS Naturals, Sequences

CONSTANTS
  Calls,        \* bound: the calls made, each made once
  ProjectIDs,   \* IDs that Rancher gives to projects
  Existing,     \* the projects that are there at first
  Members,      \* type, principal and role of a member: what Compare looks at
  Untyped,      \* the members whose type is neither User nor Group
  FirstMembers, \* the members of the existing projects
  MemberLists,  \* lists of members that projects are wanted with
  Details,      \* name, description and quotas
  Policies,     \* pod security policies
  Settings,     \* the settings that projects are wanted with
  FirstSetting, \* the settings of the existing projects
  Operations,   \* the calls that are made
  MaxFaults,    \* bound: requests that are refused or whose connection breaks
  NoProject     \* the project ID ""

Setting == [details : Details, policy : Policies]
Ops == {"CreateProject", "UpdateProject", "DeleteProject", "AddProjectMember"}

ASSUME ProjectsAssumption ==
  /\ Existing \subseteq ProjectIDs /\ NoProject \notin ProjectIDs
  /\ Untyped \subseteq Members /\ FirstMembers \subseteq Members \ Untyped
  /\ MemberLists \subseteq Seq(Members)
  /\ Settings \subseteq Setting /\ FirstSetting \in Setting
  /\ Operations \subseteq Ops
  /\ MaxFaults \in Nat

VARIABLES
  \* The Rancher server (external): the projects with their settings, the IDs
  \* given so far, the role bindings, and how many each member was ever given
  live, setting, given, bindings, made,
  \* The calls: where they are, what they ask for, the project they work on,
  \* what they read of it, places in the list of the members still to be added,
  \* bindings still to be deleted, the reply
  pc, req, project, old, toAdd, toDelete, reply,
  \* For the properties: the calls that had returned when a call started, those
  \* no request of which has failed, and those that changed a binding
  before, intact, touched,
  faults

rancherVars == <<live, setting, given, bindings, made>>
callVars    == <<pc, req, project, old, toAdd, toDelete, reply>>
vars == <<rancherVars, callVars, before, intact, touched, faults>>

\* A projectroletemplatebinding.  Compare does not look at the ID, which tells
\* bindings of the same member apart and is never given again.
Binding == [id : Nat, project : ProjectIDs, member : Members]

Request ==
  [op : {"CreateProject"}, want : Settings, members : MemberLists]
    \cup [op : {"UpdateProject"}, project : ProjectIDs, want : Settings,
          members : MemberLists]
    \cup [op : {"DeleteProject"}, project : ProjectIDs]
    \cup [op : {"AddProjectMember"}, project : ProjectIDs,
          members : {<<m>> : m \in Members}]
NoRequest == [op |-> "none"]

\* What GetProjectDetail returns: the members with their IDs, and the policy.
Detail == [members : SUBSET Binding, policy : Policies]
NoDetail == [members |-> {}, policy |-> FirstSetting.policy]

Labels == {"new", "post", "readMembers", "readProject", "put", "setPolicy",
           "members", "deleteProject", "done"}
Reply == [id : ProjectIDs \cup {NoProject}, err : BOOLEAN]
NoReply == [id |-> NoProject, err |-> FALSE]

TypeOK ==
  /\ live \subseteq given /\ given \subseteq ProjectIDs
  /\ setting \in [ProjectIDs -> Setting]
  /\ bindings \subseteq Binding /\ made \in [Members -> Nat]
  /\ pc \in [Calls -> Labels] /\ req \in [Calls -> Request \cup {NoRequest}]
  /\ project \in [Calls -> ProjectIDs \cup {NoProject}]
  /\ old \in [Calls -> Detail]
  /\ toAdd \in [Calls -> SUBSET Nat] /\ toDelete \in [Calls -> SUBSET Binding]
  /\ reply \in [Calls -> Reply]
  /\ before \in [Calls -> SUBSET Calls]
  /\ intact \in [Calls -> BOOLEAN] /\ touched \in [Calls -> BOOLEAN]
  /\ faults \in Nat

Init ==
  /\ live = Existing /\ given = Existing
  /\ setting = [p \in ProjectIDs |-> FirstSetting]
  /\ bindings = {[id |-> 0, project |-> p, member |-> m] :
                   p \in Existing, m \in FirstMembers}
  /\ made = [m \in Members |-> 0]
  /\ pc = [c \in Calls |-> "new"] /\ req = [c \in Calls |-> NoRequest]
  /\ project = [c \in Calls |-> NoProject]
  /\ old = [c \in Calls |-> NoDetail]
  /\ toAdd = [c \in Calls |-> {}] /\ toDelete = [c \in Calls |-> {}]
  /\ reply = [c \in Calls |-> NoReply]
  /\ before = [c \in Calls |-> {}]
  /\ intact = [c \in Calls |-> TRUE] /\ touched = [c \in Calls |-> FALSE]
  /\ faults = 0
-----------------------------------------------------------------------------
(* Requests *)

Fault(c) ==
  /\ faults < MaxFaults /\ faults' = faults + 1
  /\ intact' = [intact EXCEPT ![c] = FALSE]
NoFault == UNCHANGED <<faults, intact>>

\* A request of c is accepted and takes effect, or is refused; or the server
\* refuses it for another reason; or the connection breaks before or after that.
Sends(c, accepted, effect, ok, refused, broken) ==
  \/ accepted /\ effect /\ ok /\ NoFault
  \/ ~ accepted /\ UNCHANGED <<rancherVars, touched>> /\ refused /\ NoFault
  \/ UNCHANGED <<rancherVars, touched>> /\ (refused \/ broken) /\ Fault(c)
  \/ accepted /\ effect /\ broken /\ Fault(c)

Goto(c, to) ==
  /\ pc' = [pc EXCEPT ![c] = to]
  /\ UNCHANGED <<req, project, reply>>

Return(c, id, err) ==
  /\ pc' = [pc EXCEPT ![c] = "done"]
  /\ reply' = [reply EXCEPT ![c] = [id |-> id, err |-> err]]
  /\ old' = [old EXCEPT ![c] = NoDetail]
  /\ toAdd' = [toAdd EXCEPT ![c] = {}] /\ toDelete' = [toDelete EXCEPT ![c] = {}]
  /\ UNCHANGED <<req, project>>

FirstLabel(op) ==
  IF op = "CreateProject" THEN "post"
  ELSE IF op = "UpdateProject" THEN "readMembers"
  ELSE IF op = "DeleteProject" THEN "deleteProject" ELSE "members"

StartCall(c) ==
  /\ pc[c] = "new"
  /\ \E r \in Request :
       /\ r.op \in Operations
       /\ IF r.op = "CreateProject" THEN given # ProjectIDs ELSE r.project \in given
       /\ req' = [req EXCEPT ![c] = r]
       /\ pc' = [pc EXCEPT ![c] = FirstLabel(r.op)]
       /\ project' = [project EXCEPT ![c] =
                        IF r.op = "CreateProject" THEN NoProject ELSE r.project]
       /\ toAdd' = [toAdd EXCEPT ![c] = IF r.op = "AddProjectMember" THEN {1} ELSE {}]
  /\ before' = [before EXCEPT ![c] = {d \in Calls : pc[d] = "done"}]
  /\ UNCHANGED <<rancherVars, old, toDelete, reply, intact, touched, faults>>

-----------------------------------------------------------------------------
(* AddProjectMember, also for the members of CreateProject and UpdateProject *)

BindMember(c, m) ==
  /\ bindings' = bindings \cup
       {[id |-> made[m] + 1, project |-> project[c], member |-> m]}
  /\ made' = [made EXCEPT ![m] = @ + 1]
  /\ touched' = [touched EXCEPT ![c] = TRUE]
  /\ UNCHANGED <<live, setting, given>>

\* Mutant of MemberDone: an error ends UpdateProject as well.
MemberErrorEnds(c, i, err) ==
  IF req[c].op = "AddProjectMember" \/ (req[c].op = "UpdateProject" /\ err) THEN Return(c, NoProject, err)
  ELSE /\ toAdd' = [toAdd EXCEPT ![c] = @ \ {i}]
       /\ Goto(c, "members") /\ UNCHANGED <<old, toDelete>>

\* An error is the reply of AddProjectMember, and is only logged by the others.
MemberDone(c, i, err) ==
  IF req[c].op = "AddProjectMember" THEN Return(c, NoProject, err)
  ELSE /\ toAdd' = [toAdd EXCEPT ![c] = @ \ {i}]
       /\ Goto(c, "members") /\ UNCHANGED <<old, toDelete>>

\* The members are added in the order of the list.
AddMember(c) ==
  /\ pc[c] = "members"
  /\ \E i \in toAdd[c] :
       /\ \A j \in toAdd[c] : i <= j
       /\ IF req[c].members[i] \in Untyped
          THEN MemberDone(c, i, TRUE) /\ NoFault /\ UNCHANGED <<rancherVars, touched>>
          ELSE Sends(c, project[c] \in live, BindMember(c, req[c].members[i]),
                     MemberDone(c, i, FALSE), MemberDone(c, i, TRUE),
                     MemberDone(c, i, TRUE))
  /\ UNCHANGED before

-----------------------------------------------------------------------------
(* CreateProject *)

\* Rancher makes the project p; its policy is set by a request of its own.
MakeProject(c, p) ==
  /\ live' = live \cup {p} /\ given' = given \cup {p}
  /\ setting' = [setting EXCEPT ![p] = [details |-> req[c].want.details,
                                        policy |-> FirstSetting.policy]]
  /\ UNCHANGED <<bindings, made, touched>>

PostProject(c) ==
  /\ pc[c] = "post"
  /\ \E p \in ProjectIDs \ given :
       Sends(c, TRUE, MakeProject(c, p),
             /\ project' = [project EXCEPT ![c] = p]
             /\ toAdd' = [toAdd EXCEPT ![c] = DOMAIN req[c].members]
             /\ pc' = [pc EXCEPT ![c] = "members"]
             /\ UNCHANGED <<req, old, toDelete, reply>>,
             Return(c, NoProject, TRUE), Return(c, NoProject, TRUE))
  /\ UNCHANGED before

-----------------------------------------------------------------------------
(* UpdateProject *)

BindingsOf(p) == {b \in bindings : b.project = p}

\* The status of the answer is not looked at: an error reads as no members.
ReadMembers(c) ==
  /\ pc[c] = "readMembers"
  /\ \/ \E ms \in {BindingsOf(project[c]), {}} :
          /\ old' = [old EXCEPT ![c].members = ms]
          /\ Goto(c, "readProject") /\ UNCHANGED <<toAdd, toDelete>>
          /\ \/ ms = BindingsOf(project[c]) /\ NoFault
             \/ ms = {} /\ Fault(c)
     \/ Return(c, NoProject, TRUE) /\ Fault(c)
  /\ UNCHANGED <<rancherVars, before, touched>>

\* Here the status is looked at.
ReadProject(c) ==
  /\ pc[c] = "readProject"
  /\ \/ /\ project[c] \in live /\ NoFault
        /\ old' = [old EXCEPT ![c].policy = setting[project[c]].policy]
        /\ Goto(c, "put") /\ UNCHANGED <<toAdd, toDelete>>
     \/ project[c] \notin live /\ Return(c, NoProject, TRUE) /\ NoFault
     \/ Return(c, NoProject, TRUE) /\ Fault(c)
  /\ UNCHANGED <<rancherVars, before, touched>>

\* Mutant of Difference: the lists are compared the wrong way round.
Reversed(wanted, read) ==
  [new |-> {i \in DOMAIN wanted : \E b \in read : b.member = wanted[i]},
   unwanted |-> {b \in read : \E i \in DOMAIN wanted : wanted[i] = b.member}]

\* Mutant of Difference: members are to be deleted by what they are, not by ID.
DeletedByMember(wanted, read) ==
  [new |-> {i \in DOMAIN wanted : \A b \in read : b.member # wanted[i]},
   unwanted |-> {b.member : b \in read} \ {wanted[i] : i \in DOMAIN wanted}]

\* hasMember: members wanted and not read are new, and read and not wanted are
\* to be deleted.
Difference(wanted, read) ==
  [new |-> {i \in DOMAIN wanted : \A b \in read : b.member # wanted[i]},
   unwanted |-> {b \in read : \A i \in DOMAIN wanted : wanted[i] # b.member}]

CompareMembers(c) ==
  LET d == Difference(req[c].members, old[c].members) IN
  /\ toAdd' = [toAdd EXCEPT ![c] = d.new]
  /\ toDelete' = [toDelete EXCEPT ![c] = d.unwanted]
  /\ old' = [old EXCEPT ![c] = NoDetail]
  /\ Goto(c, "members")

\* Mutant of PolicyChanged: the comparison is turned around.
PolicyKept(c) == old[c].policy = req[c].want.policy

\* The policy is written only if it is not the one that was read.
PolicyChanged(c) == old[c].policy # req[c].want.policy

\* The status of the answer is not looked at.
AfterPut(c) ==
  IF PolicyChanged(c)
  THEN Goto(c, "setPolicy") /\ UNCHANGED <<old, toAdd, toDelete>>
  ELSE CompareMembers(c)

WriteDetails(c) ==
  /\ setting' = [setting EXCEPT ![project[c]].details = req[c].want.details]
  /\ UNCHANGED <<live, given, bindings, made, touched>>

PutProject(c) ==
  /\ pc[c] = "put"
  /\ Sends(c, project[c] \in live, WriteDetails(c),
           AfterPut(c), AfterPut(c), Return(c, NoProject, TRUE))
  /\ UNCHANGED before

\* SetProjectPSP: the last request of CreateProject, and one of UpdateProject.
\* The status of the answer is not looked at.
AfterPolicy(c) ==
  IF req[c].op = "CreateProject" THEN Return(c, project[c], FALSE)
  ELSE CompareMembers(c)

WritePolicy(c) ==
  /\ setting' = [setting EXCEPT ![project[c]].policy = req[c].want.policy]
  /\ UNCHANGED <<live, given, bindings, made, touched>>

SetProjectPSP(c) ==
  /\ \/ pc[c] = "setPolicy"
     \/ pc[c] = "members" /\ toAdd[c] = {} /\ req[c].op = "CreateProject"
  /\ Sends(c, project[c] \in live, WritePolicy(c),
           AfterPolicy(c), AfterPolicy(c),
           Return(c, IF req[c].op = "CreateProject" THEN project[c] ELSE NoProject, TRUE))
  /\ UNCHANGED before

\* DeleteProjectMember: an error is only logged.
Unbind(c, b) ==
  /\ bindings' = bindings \ {b}
  /\ touched' = [touched EXCEPT ![c] = TRUE]
  /\ UNCHANGED <<live, setting, given, made>>

DeleteMember(c) ==
  /\ pc[c] = "members" /\ toAdd[c] = {}
  /\ \E b \in toDelete[c] :
       /\ Sends(c, b \in bindings, Unbind(c, b), TRUE, TRUE, TRUE)
       /\ toDelete' = [toDelete EXCEPT ![c] = @ \ {b}]
  /\ Goto(c, "members") /\ UNCHANGED <<old, toAdd, before>>

UpdateReturns(c) ==
  /\ pc[c] = "members" /\ toAdd[c] = {} /\ toDelete[c] = {}
  /\ req[c].op = "UpdateProject"
  /\ Return(c, NoProject, FALSE) /\ NoFault
  /\ UNCHANGED <<rancherVars, before, touched>>

-----------------------------------------------------------------------------
(* DeleteProject: Rancher removes the project and its bindings *)

RemoveProject(p) ==
  /\ live' = live \ {p}
  /\ bindings' = bindings \ BindingsOf(p)
  /\ UNCHANGED <<setting, given, made, touched>>

DeleteProject(c) ==
  /\ pc[c] = "deleteProject"
  /\ Sends(c, project[c] \in live, RemoveProject(project[c]),
           Return(c, NoProject, FALSE), Return(c, NoProject, TRUE),
           Return(c, NoProject, TRUE))
  /\ UNCHANGED before

-----------------------------------------------------------------------------
Step(c) ==
  \/ AddMember(c) \/ PostProject(c)
  \/ ReadMembers(c) \/ ReadProject(c) \/ PutProject(c) \/ SetProjectPSP(c)
  \/ DeleteMember(c) \/ UpdateReturns(c)
  \/ DeleteProject(c)

Next == \E c \in Calls : StartCall(c) \/ Step(c)

Spec == Init /\ [][Next]_vars

-----------------------------------------------------------------------------
(* Properties *)

Writers(p) == {c \in Calls : project[c] = p
                 /\ req[c].op \in {"CreateProject", "UpdateProject"}}
Adders(p)  == {c \in Calls : project[c] = p /\ req[c].op = "AddProjectMember"}

\* A later update has read all that c did.
Superseded(c) == \E d \in Calls :
  req[d].op = "UpdateProject" /\ project[d] = project[c] /\ c \in before[d]

\* The calls that have the last word on a project: one, or some that overlap.
LastWriters(p) == {c \in Writers(p) : ~ Superseded(c)}
LastAdders(p)  == {c \in Adders(p) : ~ Superseded(c)}

Settled(p) ==
  /\ p \in live
  /\ \A c \in Writers(p) \cup Adders(p) : pc[c] = "done"
  /\ LastWriters(p) # {} /\ \A c \in LastWriters(p) : intact[c]

Wanted(c) == {req[c].members[i] : i \in DOMAIN req[c].members} \ Untyped
Bound(p)  == {b.member : b \in BindingsOf(p)}

\* When all calls on a project have returned, and no request of the last of them
\* has failed, it has every member that all of them wanted and no member that
\* none of them wanted: updates may undo each other's members, but not those
\* they agree on, and what earlier calls left half done, or entered twice, is
\* set right.
MembersSettle ==
  \A p \in ProjectIDs : Settled(p) =>
    /\ \A m \in Members :
         (\A c \in LastWriters(p) : m \in Wanted(c)) => m \in Bound(p)
    /\ \A m \in Bound(p) :
         \E c \in LastWriters(p) \cup LastAdders(p) : m \in Wanted(c)

\* Likewise the details and the policy are each what one of the last calls wanted,
\* although the policy is compared with one that was read before and may have
\* been written since.
SettingsSettle ==
  \A p \in ProjectIDs : Settled(p) =>
    /\ \E c \in LastWriters(p) : setting[p].details = req[c].want.details
    /\ \E c \in LastWriters(p) : setting[p].policy = req[c].want.policy

\* An UpdateProject that returns an error has changed no member: everything it
\* reports errors of comes before the first of them.
ErrorMeansUntouched ==
  \A c \in Calls :
    req[c].op = "UpdateProject" /\ pc[c] = "done" /\ reply[c].err => ~ touched[c]
=============================================================================
