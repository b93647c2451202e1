------------------------------- MODULE Teams -------------------------------
(***************************************************************************)
(* The teams of one organisation: backend/app/services/team_service.py, its *)
(* endpoints, and the constraints of migration 0002.                        *)
(*                                                                         *)
(* The requests here are those of members whom RequirePermission has let    *)
(* pass (see Workspaces).  Each reads, checks, and writes with its commit;   *)
(* only the constraints of the tables see what other requests did between.  *)
(***************************************************************************)
EXTENDS Naturals, FiniteSets, OrgRequests

CONSTANTS TeamIds, Names,
          Scopes,    \* the workspaces that teams may be given
          OrgWide    \* workspace_id NULL

ASSUME TeamsAssumption == OrgWide \notin Scopes

VARIABLES
    member,      \* users with an organisation membership
    team,        \* teams: a function from the ids used so far to [scope, name, exists]
    teamMember   \* team_memberships: pairs of a team and a user

teamVars == <<member, team, teamMember, req>>

\* No foreign key ties the scope to a workspace that exists.
TeamRows == [scope : Scopes \cup {OrgWide}, name : Names, exists : BOOLEAN]

\* pc: "create" has found the name free, "rename" and "delete" have loaded the team,
\*     "add" and "remove" have found out what they need of team and user.
TeamRequestStates ==
    [pc : {"idle"}]
        \cup [pc : {"create"}, scope : Scopes \cup {OrgWide}, name : Names]
        \cup [pc : {"rename"}, team : TeamIds, was : Names]
        \cup [pc : {"delete"}, team : TeamIds]
        \cup [pc : {"add", "remove"}, team : TeamIds, user : Users]

Exists(t) == t \in DOMAIN team /\ team[t].exists
Named(s, n) == {t \in DOMAIN team : team[t].exists /\ team[t].scope = s /\ team[t].name = n}

\* uq_teams_org_workspace_name lets a team of scope s be called n.  NULLs differ
\* from each other, so that organisation-wide teams never violate it.
NameAllowed(s, n) == s = OrgWide \/ Named(s, n) = {}

-----------------------------------------------------------------------------
\* create: the name is free in its scope.  One team of the name is reported as a
\* duplicate, two make scalar_one_or_none raise.
TeamCreateCheck(r, s, n) ==
    /\ Idle(r) /\ Named(s, n) = {}
    /\ Goto(r, [pc |-> "create", scope |-> s, name |-> n])
    /\ UNCHANGED <<member, team, teamMember>>

\* Mutant: without the constraint there is only the check.
TeamCreateUnchecked(r, t) ==
    /\ req[r].pc = "create" /\ t \notin DOMAIN team
    /\ team' = [x \in DOMAIN team \cup {t} |->
                   IF x = t THEN [scope |-> req[r].scope, name |-> req[r].name, exists |-> TRUE]
                   ELSE team[x]]
    /\ Finish(r)
    /\ UNCHANGED <<member, teamMember>>

TeamCreateWrite(r, t) ==
    /\ req[r].pc = "create" /\ t \notin DOMAIN team
    /\ NameAllowed(req[r].scope, req[r].name)
    /\ team' = [x \in DOMAIN team \cup {t} |->
                   IF x = t THEN [scope |-> req[r].scope, name |-> req[r].name, exists |-> TRUE]
                   ELSE team[x]]
    /\ Finish(r)
    /\ UNCHANGED <<member, teamMember>>

\* update loads the team; the new name is not looked for.
RenameRead(r, t) ==
    /\ Idle(r) /\ Exists(t)
    /\ Goto(r, [pc |-> "rename", team |-> t, was |-> team[t].name])
    /\ UNCHANGED <<member, team, teamMember>>

\* Mutant: the team is stored as it was loaded, whether or not it is still there.
RenameWriteUpserts(r, n) ==
    LET t == req[r].team IN
    /\ req[r].pc = "rename" /\ (NameAllowed(team[t].scope, n) \/ team[t].name = n)
    /\ team' = [team EXCEPT ![t].name = n, ![t].exists = TRUE]
    /\ Finish(r)
    /\ UNCHANGED <<member, teamMember>>

\* The UPDATE names the name only if it differs from the one that was read.  A team
\* that is gone, or a name that the constraint refuses, ends the request as in Fail.
RenameWrite(r, n) ==
    LET t == req[r].team IN
    /\ req[r].pc = "rename" /\ Exists(t)
    /\ IF n = req[r].was THEN UNCHANGED team
       ELSE /\ NameAllowed(team[t].scope, n) \/ team[t].name = n
            /\ team' = [team EXCEPT ![t].name = n]
    /\ Finish(r)
    /\ UNCHANGED <<member, teamMember>>

DeleteRead(r, t) ==
    /\ Idle(r) /\ Exists(t)
    /\ Goto(r, [pc |-> "delete", team |-> t])
    /\ UNCHANGED <<member, team, teamMember>>

\* Mutant: the memberships stay.
DeleteWriteOnly(r) ==
    /\ req[r].pc = "delete"
    /\ team' = [team EXCEPT ![req[r].team].exists = FALSE]
    /\ Finish(r)
    /\ UNCHANGED <<member, teamMember>>

\* The DELETE and its cascade to the memberships; it may find the row gone.
DeleteWrite(r) ==
    /\ req[r].pc = "delete"
    /\ team' = [team EXCEPT ![req[r].team].exists = FALSE]
    /\ teamMember' = {m \in teamMember : m[1] # req[r].team}
    /\ Finish(r)
    /\ UNCHANGED member

-----------------------------------------------------------------------------
\* add_member: the team exists, the user is in the organisation and not in the team.
TeamAddCheck(r, t, u) ==
    /\ Idle(r) /\ Exists(t) /\ u \in member /\ <<t, u>> \notin teamMember
    /\ Goto(r, [pc |-> "add", team |-> t, user |-> u])
    /\ UNCHANGED <<member, team, teamMember>>

\* The INSERT, which fk_team_memberships_team_id and uq_team_memberships_team_user
\* let pass; the user may have left the organisation meanwhile.
TeamAddWrite(r) ==
    /\ req[r].pc = "add" /\ Exists(req[r].team)
    /\ <<req[r].team, req[r].user>> \notin teamMember
    /\ teamMember' = teamMember \cup {<<req[r].team, req[r].user>>}
    /\ Finish(r)
    /\ UNCHANGED <<member, team>>

TeamRemoveCheck(r, t, u) ==
    /\ Idle(r) /\ Exists(t) /\ <<t, u>> \in teamMember
    /\ Goto(r, [pc |-> "remove", team |-> t, user |-> u])
    /\ UNCHANGED <<member, team, teamMember>>

TeamRemoveWrite(r) ==
    /\ req[r].pc = "remove"
    /\ teamMember' = teamMember \ {<<req[r].team, req[r].user>>}
    /\ Finish(r)
    /\ UNCHANGED <<member, team>>

-----------------------------------------------------------------------------
\* A constraint that does not hold, a row that is gone, a lost connection: the
\* session is rolled back.
Fail(r) ==
    /\ ~Idle(r)
    /\ Finish(r)
    /\ UNCHANGED <<member, team, teamMember>>

\* OrgService.add_member and remove_member, which leave team memberships alone.
ChangeMember(u) ==
    /\ member' = IF u \in member THEN member \ {u} ELSE member \cup {u}
    /\ UNCHANGED <<team, teamMember, req>>

TeamInit ==
    /\ member \in SUBSET Users
    /\ team = <<>> /\ teamMember = {}
    /\ req = [r \in Requests |-> IdleRequest]

TeamNext ==
    \/ \E r \in Requests :
          \/ \E n \in Names : \/ \E s \in Scopes \cup {OrgWide} : TeamCreateCheck(r, s, n)
                              \/ RenameWrite(r, n)
          \/ \E t \in TeamIds : \/ TeamCreateWrite(r, t) \/ RenameRead(r, t) \/ DeleteRead(r, t)
                                \/ \E u \in Users : \/ TeamAddCheck(r, t, u)
                                                    \/ TeamRemoveCheck(r, t, u)
          \/ DeleteWrite(r) \/ TeamAddWrite(r) \/ TeamRemoveWrite(r) \/ Fail(r)
    \/ \E u \in Users : ChangeMember(u)

TeamSpec == TeamInit /\ [][TeamNext]_teamVars

-----------------------------------------------------------------------------
\* Rows and requests keep their types, and the memberships are those of teams that
\* exist: the cascade takes them along with the team.
TeamTypeOK ==
    /\ member \subseteq Users
    /\ DOMAIN team \subseteq TeamIds /\ team \in [DOMAIN team -> TeamRows]
    /\ teamMember \subseteq TeamIds \X Users /\ \A m \in teamMember : Exists(m[1])
    /\ req \in [Requests -> TeamRequestStates]

\* Two teams of one workspace never have the same name, however creations and
\* renamings overlap; the check of create alone does not ensure it, and update has
\* none.  (The organisation-wide teams do not have this property.)
ScopedNamesUnique ==
    \A s \in Scopes, n \in Names : Cardinality(Named(s, n)) <= 1

\* delete is final: a request that had loaded the team before, to rename it or to
\* add somebody, brings back neither the team nor a membership.
DeletionIsFinal ==
    [][\A t \in DOMAIN team :
          ~Exists(t) => ~Exists(t)' /\ \A u \in Users : <<t, u>> \notin teamMember']_teamVars
=============================================================================
