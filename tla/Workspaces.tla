----------------------------- MODULE Workspaces -----------------------------
(***************************************************************************)
(* The workspaces of one organisation and who gets into them: backend/app/  *)
(* services/workspace_service.py, its endpoints, switch-workspace, and the   *)
(* dependencies of api/deps.py that authorise a request.                    *)
(*                                                                         *)
(* Three things with lives of their own let a user into a workspace: the    *)
(* organisation membership, the workspace membership, which no foreign key   *)
(* ties to the former, and the claim of an access token, which outlives      *)
(* both.  A workspace is its slug, unique in the organisation.  Workspaces    *)
(* are neither deleted nor deactivated by any handler.                      *)
(***************************************************************************)
EXTENDS Naturals, FiniteSets, OrgRequests

CONSTANTS Owner, Slugs, Default,
          NoWorkspace   \* the claim of a token without a workspace

ASSUME WorkspacesAssumption ==
    Owner \in Users /\ Default \in Slugs /\ NoWorkspace \notin Slugs

VARIABLES
    role,       \* organisation_memberships: what the org_role of each user permits
    workspaces, \* slugs of the committed workspaces
    wsMember,   \* workspace_memberships: pairs of a workspace and a user
    tokens      \* access tokens with a workspace claim, as pairs of a user and a workspace

vars == <<role, workspaces, wsMember, tokens, req>>

\* "absent": no row.  "bare": no named role, or auditor.  "reader": a role with
\* KNOWLEDGE_READ.  "manager": owner and administrator, who may do everything here.
Roles == {"absent", "bare", "reader", "manager"}

\* pc: "context" has passed get_validated_workspace_context, "member" has found the
\*     organisation membership, "inside" has been let into ws;
\*     "authorised" has passed get_current_membership, with role may;
\*     "create", "add", "remove" have read what they are about to change, the last
\*     two for user target.
RequestStates ==
    [pc : {"idle"}]
        \cup [pc : {"context", "member", "inside"}, user : Users, ws : Slugs]
        \cup [pc : {"authorised"}, user : Users, may : Roles]
        \cup [pc : {"create"}, user : Users, ws : Slugs]
        \cup [pc : {"add", "remove"}, user : Users, ws : Slugs, target : Users]

Claims(u) == {NoWorkspace} \cup {w \in Slugs : <<u, w>> \in tokens}

-----------------------------------------------------------------------------
(* The way into a workspace: every knowledge endpoint depends on these. *)

\* get_validated_workspace_context: the path names the workspace of the token, and
\* the workspace membership is live.
EnterContext(r, u, w) ==
    /\ Idle(r) /\ w \in Claims(u) \ {NoWorkspace} /\ <<w, u>> \in wsMember
    /\ Goto(r, [pc |-> "context", user |-> u, ws |-> w])
    /\ UNCHANGED <<role, workspaces, wsMember, tokens>>

\* Mutant: the workspace membership is taken to imply the organisation membership.
EnterMemberUnchecked(r) ==
    /\ req[r].pc = "context"
    /\ req' = [req EXCEPT ![r].pc = "member"]
    /\ UNCHANGED <<role, workspaces, wsMember, tokens>>

\* get_current_membership, first statement; the role it finds is the one that
\* RequirePermission asks for KNOWLEDGE_READ.
EnterMember(r) ==
    /\ req[r].pc = "context" /\ role[req[r].user] \in {"reader", "manager"}
    /\ req' = [req EXCEPT ![r].pc = "member"]
    /\ UNCHANGED <<role, workspaces, wsMember, tokens>>

\* Mutant: the second look at the workspace membership is left out as redundant.
EnterInsideUnchecked(r) ==
    /\ req[r].pc = "member"
    /\ req' = [req EXCEPT ![r].pc = "inside"]
    /\ UNCHANGED <<role, workspaces, wsMember, tokens>>

\* get_current_membership, second statement, for the claim of the token.
EnterInside(r) ==
    /\ req[r].pc = "member" /\ <<req[r].ws, req[r].user>> \in wsMember
    /\ req' = [req EXCEPT ![r].pc = "inside"]
    /\ UNCHANGED <<role, workspaces, wsMember, tokens>>

-----------------------------------------------------------------------------
(* Requests outside of a workspace *)

\* get_current_membership with either kind of token.  Its two statements are one
\* step here; the last of them is the one that EnterInside sets apart.
Authorise(r, u, claim) ==
    /\ Idle(r) /\ claim \in Claims(u)
    /\ role[u] # "absent" /\ (claim # NoWorkspace => <<claim, u>> \in wsMember)
    /\ Goto(r, [pc |-> "authorised", user |-> u, may |-> role[u]])
    /\ UNCHANGED <<role, workspaces, wsMember, tokens>>

\* Mutant: the identifier that the client sent is signed as it is, since every
\* request that uses the token looks the membership up anyway.
SwitchWorkspaceAsSent(r, w) ==
    /\ req[r].pc = "authorised"
    /\ tokens' = tokens \cup {<<req[r].user, w>>}
    /\ Finish(r)
    /\ UNCHANGED <<role, workspaces, wsMember>>

\* switch_workspace: the workspace exists and the user is a member; a new token.
SwitchWorkspace(r, w) ==
    LET u == req[r].user IN
    /\ req[r].pc = "authorised" /\ w \in workspaces /\ <<w, u>> \in wsMember
    /\ tokens' = tokens \cup {<<u, w>>}
    /\ Finish(r)
    /\ UNCHANGED <<role, workspaces, wsMember>>

\* create_workspace: the slug is free so far.
CreateCheck(r, w) ==
    /\ req[r].pc = "authorised" /\ req[r].may = "manager" /\ w \notin workspaces
    /\ Goto(r, [pc |-> "create", user |-> req[r].user, ws |-> w])
    /\ UNCHANGED <<role, workspaces, wsMember, tokens>>

\* The workspace and its creator's membership, in one commit.  If the slug has been
\* taken meanwhile, uq_workspaces_org_slug ends the request as in End.
CreateWrite(r) ==
    /\ req[r].pc = "create" /\ req[r].ws \notin workspaces
    /\ workspaces' = workspaces \cup {req[r].ws}
    /\ wsMember' = wsMember \cup {<<req[r].ws, req[r].user>>}
    /\ Finish(r)
    /\ UNCHANGED <<role, tokens>>

\* add_member: v is in the organisation, the workspace exists, v is not in it.
AddCheck(r, w, v) ==
    /\ req[r].pc = "authorised" /\ req[r].may = "manager"
    /\ role[v] # "absent" /\ w \in workspaces /\ <<w, v>> \notin wsMember
    /\ Goto(r, [pc |-> "add", user |-> req[r].user, ws |-> w, target |-> v])
    /\ UNCHANGED <<role, workspaces, wsMember, tokens>>

\* The INSERT.  A second row of the pair violates uq_workspace_memberships_ws_user, a
\* row of no workspace fk_ws_memberships_workspace_org, and ends the request as in
\* End; v may have left the organisation meanwhile.
AddWrite(r) ==
    /\ req[r].pc = "add" /\ <<req[r].ws, req[r].target>> \notin wsMember
    /\ req[r].ws \in workspaces
    /\ wsMember' = wsMember \cup {<<req[r].ws, req[r].target>>}
    /\ Finish(r)
    /\ UNCHANGED <<role, workspaces, tokens>>

\* remove_member: the row of the pair, then its DELETE, which may find it gone.
RemoveCheck(r, w, v) ==
    /\ req[r].pc = "authorised" /\ req[r].may = "manager" /\ <<w, v>> \in wsMember
    /\ Goto(r, [pc |-> "remove", user |-> req[r].user, ws |-> w, target |-> v])
    /\ UNCHANGED <<role, workspaces, wsMember, tokens>>

RemoveWrite(r) ==
    /\ req[r].pc = "remove"
    /\ wsMember' = wsMember \ {<<req[r].ws, req[r].target>>}
    /\ Finish(r)
    /\ UNCHANGED <<role, workspaces, tokens>>

-----------------------------------------------------------------------------
\* The response, a refusal by a check that does not hold, an integrity error or a
\* lost connection: nothing that is not committed remains.
End(r) ==
    /\ ~Idle(r)
    /\ Finish(r)
    /\ UNCHANGED <<role, workspaces, wsMember, tokens>>

\* OrgService.add_member, change_member_role and remove_member; none of them looks
\* at workspace memberships.  The owner stays (OrgMembership).
ChangeMembership(v, to) ==
    /\ v # Owner /\ to # role[v]
    /\ role' = [role EXCEPT ![v] = to]
    /\ UNCHANGED <<workspaces, wsMember, tokens, req>>

\* InvitationService.accept (Invitations) inserts the organisation membership if it
\* has found none, and the membership of the workspace that the invitation names.
\* A membership that it has found may be gone when it commits.
AcceptInvitation(v, to, w) ==
    /\ v # Owner /\ w \in workspaces
    /\ \/ role[v] = "absent" /\ role' = [role EXCEPT ![v] = to]
       \/ to = role[v] /\ UNCHANGED role
    /\ wsMember' = wsMember \cup {<<w, v>>}
    /\ UNCHANGED <<workspaces, tokens, req>>

\* register: organisation, owner, default workspace and its membership in one commit.
Init ==
    /\ role = [u \in Users |-> IF u = Owner THEN "manager" ELSE "absent"]
    /\ workspaces = {Default} /\ wsMember = {<<Default, Owner>>}
    /\ tokens = {}
    /\ req = [r \in Requests |-> IdleRequest]

Next ==
    \/ \E r \in Requests :
          \/ \E u \in Users, w \in Slugs : \/ EnterContext(r, u, w)
                                           \/ AddCheck(r, w, u)
                                           \/ RemoveCheck(r, w, u)
          \/ \E u \in Users, claim \in Slugs \cup {NoWorkspace} : Authorise(r, u, claim)
          \/ \E w \in Slugs : SwitchWorkspace(r, w) \/ CreateCheck(r, w)
          \/ EnterMember(r) \/ EnterInside(r)
          \/ CreateWrite(r) \/ AddWrite(r) \/ RemoveWrite(r) \/ End(r)
    \/ \E v \in Users, to \in Roles : \/ ChangeMembership(v, to)
                                        \/ \E w \in Slugs : AcceptInvitation(v, to, w)

Spec == Init /\ [][Next]_vars

-----------------------------------------------------------------------------
\* Rows and requests keep their types.  Members are members of workspaces that exist,
\* by the foreign key; so are the workspaces that tokens name, by no constraint but
\* by what switch_workspace looks up before it signs.
TypeOK ==
    /\ role \in [Users -> Roles]
    /\ workspaces \subseteq Slugs /\ wsMember \subseteq workspaces \X Users
    /\ tokens \subseteq Users \X workspaces
    /\ req \in [Requests -> RequestStates]

\* Nothing of user u has got past the organisation check.
ShutOut(u) ==
    /\ role[u] = "absent"
    /\ \A r \in Requests : req[r].pc \notin {"idle", "context"} => req[r].user # u

\* "A revoked membership takes effect immediately, not at token expiry" (deps.py):
\* someone outside the organisation of whom no request has been authorised gets
\* nowhere until the organisation takes him back, whatever tokens and workspace
\* memberships he has kept.
RemovalFromOrgTakesEffect ==
    [][\A u \in Users : ShutOut(u) => ShutOut(u)' \/ role'[u] # "absent"]_vars

\* Nobody of that name is inside workspace w.
Locked(w, u) ==
    /\ <<w, u>> \notin wsMember
    /\ \A r \in Requests : req[r].pc = "inside" => req[r].user # u \/ req[r].ws # w

\* "Removing a WorkspaceMembership row takes effect on the NEXT request" (deps.py):
\* once the row is gone no request enters the workspace, not even one that had
\* passed the first check, until the row is there again.
RemovalFromWorkspaceTakesEffect ==
    [][\A w \in Slugs, u \in Users :
          Locked(w, u) => Locked(w, u)' \/ <<w, u>> \in wsMember']_vars
=============================================================================
