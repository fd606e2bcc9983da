-------------------------- MODULE ProjectDirectory --------------------------
(***************************************************************************)
(* The vocabulary of the namespace controller: who may be bound to which   *)
(* Rancher project in which role, what one entry of the controller's cache *)
(* holds, and what a list of such entries decides about a namespace.       *)
(* A project's ID and name always travel together, so one model value      *)
(* stands for both, and the string test strings.HasPrefix(name, project)   *)
(* is the constant relation HasPrefix.                                     *)
(***************************************************************************)
EXTENDS Naturals, Sequences, FiniteSets

CONSTANTS
  Users,        \* user IDs that bindings have
  Requesters,   \* the users who send requests
  Projects,     \* the projects of the cluster
  Namespaces,   \* the names that namespaces are created under
  Roles,        \* role templates
  Owner,        \* the role template "project-owner"
  HasPrefix,    \* <<n, p>> in HasPrefix: n starts with the name of project p
  NoProject,    \* the project ID ""
  EmptyUser     \* the user ID "": the bindings of groups are cached under it

ASSUME DirectoryAssumption ==
  /\ Requesters \subseteq Users \ {EmptyUser}
  /\ Owner \in Roles
  /\ HasPrefix \subseteq Namespaces \X Projects
  /\ NoProject \notin Projects

\* One projectroletemplatebinding of the Rancher server.
Binding == [user : Users, project : Projects, role : Roles]

\* type UserProjectInfo: one element of a list of the cache.
UserProjectInfo == [isOwner : BOOLEAN, project : Projects]

\* The element that UpdateCache appends for a binding.
InfoOf(b) == [isOwner |-> b.role = Owner, project |-> b.project]

ProjectOrNone == Projects \cup {NoProject}

(***************************************************************************)
(* Replies of the webhook.                                                 *)
(*   annotate : the namespace is patched with field.cattle.io/projectId    *)
(*   deny     : allowed = false                                            *)
(*   limit    : the pod's containers are checked against their limits      *)
(*   ignore   : the object is left as it was sent (for a namespace, an     *)
(*              empty body, which the API server passes over)              *)
(*   error    : status 500 or a broken connection                          *)
(***************************************************************************)
Verdicts == {"none", "annotate", "deny", "limit", "ignore", "error"}
Reply == [verdict : Verdicts, project : ProjectOrNone]

Says(v) == [verdict |-> v, project |-> NoProject]
NoReply == Says("none")
Ignore  == Says("ignore")
Error   == Says("error")

\* The "Namespace" case of DoServeAdmitFunc, from the resolved list on.  The object
\* is decoded here (line 117): the API server sends one that can be.
NamespaceReply(plist, ns) ==
  IF Len(plist) # 1 \/ plist[1].isOwner THEN Ignore
  ELSE [verdict |-> IF <<ns, plist[1].project>> \in HasPrefix
                    THEN "annotate" ELSE "deny",
        project |-> plist[1].project]

\* Requests of the API server to the webhook.
NamespaceRequest == [kind : {"Namespace"}, user : Requesters, ns : Namespaces]
PodRequest       == [kind : {"Pod"}, user : {EmptyUser}, ns : Namespaces]
Request          == NamespaceRequest \cup PodRequest
=============================================================================
