----------------------------- MODULE Workspaces -----------------------------
(***************************************************************************)
(* Workspaces and their members (api/workspaces.go,                        *)
(* store/workspace_memberships.sql.go), and the check of the routes        *)
(* (requireWorkspaceRole, api/middleware.go).                              *)
(*                                                                         *)
(* The table of memberships has no organisation of its own and no trigger: *)
(* only the handlers keep the users of one organisation out of the         *)
(* workspaces of another.  They check, and write in a later statement: a   *)
(* call is between the two in a slot of Calls.  A refusal changes nothing  *)
(* and is the step not taken, or Drop when it comes late.                  *)
(***************************************************************************)
EXTENDS Naturals

CONSTANTS
    People, Spaces, Calls,
    OrgOf,          \* the organisation of a user or a workspace
    OrgAdmins,      \* users whose token has the role admin
    Names           \* names of workspaces

NoName == "none"

\* No workspace is called what stands for none.
ASSUME NamesAssumption == NoName \notin Names

VARIABLES
    space,      \* rows of workspaces: the name, or none
    made,       \* workspaces that were ever created: an id is used once
    member,     \* rows of workspace_memberships
    call        \* the calls that are authorised and have not written yet

spaceVars == <<space, made, member, call>>

MemberRoles == {"workspace_member", "workspace_admin"}

NoCall == [op |-> "none"]

Live(s) == space[s] # NoName

\* UNIQUE (org_id, name).
NameFree(s, n) == \A t \in Spaces : OrgOf[t] = OrgOf[s] => space[t] # n

\* CreateWorkspace: the group, the workspace and the creator's membership
\* are one transaction.
CreateWorkspace(u, s, n) ==
    /\ u \in OrgAdmins /\ OrgOf[u] = OrgOf[s]
    /\ s \notin made /\ NameFree(s, n)
    /\ space' = [space EXCEPT ![s] = n]
    /\ made' = made \cup {s}
    /\ member' = [member EXCEPT ![s][u] = "workspace_admin"]
    /\ UNCHANGED call

\* DeleteWorkspace: the cascade takes the memberships.
DeleteWorkspace(u, s) ==
    /\ u \in OrgAdmins /\ OrgOf[u] = OrgOf[s]
    /\ Live(s)
    /\ space' = [space EXCEPT ![s] = NoName]
    /\ member' = [member EXCEPT ![s] = [v \in People |-> "none"]]
    /\ UNCHANGED <<made, call>>

\* requireWorkspaceRole: an administrator of the workspace's organisation,
\* or a member of it, of the caller's own organisation, with the role.
requireWorkspaceRole(u, s) ==
    /\ Live(s) /\ OrgOf[u] = OrgOf[s]
    /\ u \in OrgAdmins \/ member[s][u] = "workspace_admin"

\* The caller is let by to a handler.
Begin(c, u, s, op, v, role) ==
    /\ call[c] = NoCall
    /\ requireWorkspaceRole(u, s)
    /\ call' = [call EXCEPT ![c] = [op |-> op, caller |-> u, space |-> s, user |-> v, role |-> role]]
    /\ UNCHANGED <<space, made, member>>

\* AddWorkspaceMember: the user and the workspace are both of the caller's
\* organisation.
userOrgMatches_SpaceOnly(d) == Live(d.space) /\ OrgOf[d.space] = OrgOf[d.caller]

userOrgMatches(d) ==
    /\ Live(d.space) /\ OrgOf[d.space] = OrgOf[d.caller]
    /\ OrgOf[d.user] = OrgOf[d.space]

CheckUser(c) ==
    /\ call[c].op = "add"
    /\ userOrgMatches(call[c])
    /\ call' = [call EXCEPT ![c].op = "insert"]
    /\ UNCHANGED <<space, made, member>>

\* AddWorkspaceMember, the INSERT: the primary key and the reference to the
\* workspace may refuse it.
AddWorkspaceMember(c) ==
    /\ call[c].op = "insert"
    /\ Live(call[c].space) /\ member[call[c].space][call[c].user] = "none"
    /\ member' = [member EXCEPT ![call[c].space][call[c].user] = call[c].role]
    /\ call' = [call EXCEPT ![c] = NoCall]
    /\ UNCHANGED <<space, made>>

\* The rows of the caller's organisation that an UPDATE or DELETE matches.
InOrg(d) == OrgOf[d.space] = OrgOf[d.caller] /\ member[d.space][d.user] # "none"

UpdateWorkspaceMemberRole(c) ==
    /\ call[c].op = "update"
    /\ InOrg(call[c])
    /\ member' = [member EXCEPT ![call[c].space][call[c].user] = call[c].role]
    /\ call' = [call EXCEPT ![c] = NoCall]
    /\ UNCHANGED <<space, made>>

RemoveWorkspaceMember(c) ==
    /\ call[c].op = "remove"
    /\ InOrg(call[c])
    /\ member' = [member EXCEPT ![call[c].space][call[c].user] = "none"]
    /\ call' = [call EXCEPT ![c] = NoCall]
    /\ UNCHANGED <<space, made>>

\* A name, through the same check: one statement, scoped to the organisation.
UpdateWorkspace(c, n) ==
    /\ call[c].op = "rename"
    /\ Live(call[c].space) /\ OrgOf[call[c].space] = OrgOf[call[c].caller]
    /\ NameFree(call[c].space, n) \/ space[call[c].space] = n
    /\ space' = [space EXCEPT ![call[c].space] = n]
    /\ call' = [call EXCEPT ![c] = NoCall]
    /\ UNCHANGED <<made, member>>

\* The handler refuses, matches no row or fails.
Drop(c) ==
    /\ call[c] # NoCall
    /\ call' = [call EXCEPT ![c] = NoCall]
    /\ UNCHANGED <<space, made, member>>

SpacesInit ==
    /\ space = [s \in Spaces |-> NoName] /\ made = {}
    /\ member = [s \in Spaces |-> [u \in People |-> "none"]]
    /\ call = [c \in Calls |-> NoCall]

SpacesNext ==
    \/ \E u \in People, s \in Spaces :
          \/ \E n \in Names : CreateWorkspace(u, s, n)
          \/ DeleteWorkspace(u, s)
          \/ \E c \in Calls, op \in {"add", "update"}, v \in People, role \in MemberRoles :
                Begin(c, u, s, op, v, role)
          \/ \E c \in Calls, v \in People : Begin(c, u, s, "remove", v, "none")
          \/ \E c \in Calls : Begin(c, u, s, "rename", u, "none")
    \/ \E c \in Calls :
          \/ CheckUser(c)
          \/ AddWorkspaceMember(c)
          \/ UpdateWorkspaceMemberRole(c)
          \/ RemoveWorkspaceMember(c)
          \/ \E n \in Names : UpdateWorkspace(c, n)
          \/ Drop(c)

-----------------------------------------------------------------------------
(* Correctness.                                                            *)

\* A membership joins a user to a live workspace of the same organisation:
\* no call of an administrator of either organisation, however it races
\* with a deletion, gives a user of one a place in the other, or leaves a
\* membership of a workspace that is gone (workspaces.go:443-450).
MembershipsWithinOrg ==
    \A s \in Spaces, u \in People :
        member[s][u] # "none" => Live(s) /\ OrgOf[u] = OrgOf[s]

\* A call between its checks and its write.
WorkspaceCalls ==
    [op : {"add", "insert", "update", "remove", "rename"}, caller : People, space : Spaces,
     user : People, role : MemberRoles \cup {"none"}]

\* What makes MembershipsWithinOrg stay true: an insert that is under way has
\* had its user checked, and nothing a call names changes organisation.
SpacesInv ==
    /\ space \in [Spaces -> Names \cup {NoName}]
    /\ member \in [Spaces -> [People -> MemberRoles \cup {"none"}]]
    /\ call \in [Calls -> WorkspaceCalls \cup {NoCall}]
    /\ \A c \in Calls : call[c].op = "insert" => OrgOf[call[c].user] = OrgOf[call[c].space]
    /\ MembershipsWithinOrg

=============================================================================
