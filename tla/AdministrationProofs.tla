------------------------ MODULE AdministrationProofs ------------------------
(***************************************************************************)
(* Proofs about the administration of an organisation: Workspaces, type     *)
(* correctness and its two properties on removals, and Teams, for every set *)
(* of users, workspaces, teams, names and concurrent requests.  The two      *)
(* specifications share the requests of OrgRequests and nothing else.       *)
(***************************************************************************)
EXTENDS Workspaces, Teams, FiniteSetTheorems, TLAPS

-----------------------------------------------------------------------------
(* What requests are *)

LEMMA StateFacts ==
    ASSUME NEW s \in RequestStates
    PROVE  /\ s.pc \in {"context", "member", "inside"} =>
                 s \in [pc : {"context", "member", "inside"}, user : Users, ws : Slugs]
           /\ s.pc = "authorised" => s \in [pc : {"authorised"}, user : Users, may : Roles]
           /\ s.pc = "create" => s \in [pc : {"create"}, user : Users, ws : Slugs]
           /\ s.pc \in {"add", "remove"} =>
                 s \in [pc : {"add", "remove"}, user : Users, ws : Slugs, target : Users]
BY DEF RequestStates

\* A request that goes on stays a request, and no other changes.
LEMMA GotoTyped ==
    ASSUME req \in [Requests -> RequestStates], NEW r \in Requests,
           NEW s \in RequestStates, Goto(r, s)
    PROVE  /\ req' \in [Requests -> RequestStates]
           /\ req'[r] = s
           /\ \A q \in Requests \ {r} : req'[q] = req[q]
BY DEF Goto

LEMMA FinishTyped ==
    ASSUME req \in [Requests -> RequestStates], NEW r \in Requests, Finish(r)
    PROVE  /\ req' \in [Requests -> RequestStates]
           /\ req'[r] = IdleRequest
           /\ \A q \in Requests \ {r} : req'[q] = req[q]
<1>1. IdleRequest \in RequestStates
  BY DEF IdleRequest, RequestStates
<1>2. QED
  BY <1>1, GotoTyped DEF Finish

\* EnterMember and EnterInside change pc alone.
LEMMA StepInTyped ==
    ASSUME req \in [Requests -> RequestStates], NEW r \in Requests,
           NEW to \in {"member", "inside"}, req[r].pc \in {"context", "member"},
           req' = [req EXCEPT ![r].pc = to]
    PROVE  /\ req' \in [Requests -> RequestStates]
           /\ req'[r].pc = to /\ req'[r].user = req[r].user /\ req'[r].ws = req[r].ws
           /\ \A q \in Requests \ {r} : req'[q] = req[q]
<1>1. req[r] \in [pc : {"context", "member", "inside"}, user : Users, ws : Slugs]
  BY StateFacts
<1>2. [req[r] EXCEPT !.pc = to] \in [pc : {"context", "member", "inside"}, user : Users, ws : Slugs]
  BY <1>1
<1>3. [req[r] EXCEPT !.pc = to] \in RequestStates
  BY <1>2 DEF RequestStates
<1>4. req' = [req EXCEPT ![r] = [req[r] EXCEPT !.pc = to]]
  OBVIOUS
<1>5. QED
  BY <1>1, <1>3, <1>4

-----------------------------------------------------------------------------
(* The invariant *)

LEMMA InitTypeOK == Init => TypeOK
BY WorkspacesAssumption
   DEF Init, TypeOK, Roles, RequestStates, IdleRequest

\* Every step of request r leads to a request; a row or a token is written only for a
\* workspace that the same step finds.
LEMMA NextTypeOK == TypeOK /\ [Next]_vars => TypeOK'
<1> SUFFICES ASSUME TypeOK, [Next]_vars PROVE TypeOK'
  OBVIOUS
<1> USE DEF TypeOK
<1>1. ASSUME NEW r \in Requests, NEW u \in Users, NEW w \in Slugs, EnterContext(r, u, w)
      PROVE  TypeOK'
  <2>1. [pc |-> "context", user |-> u, ws |-> w] \in RequestStates
    BY DEF RequestStates
  <2>2. QED
    BY <1>1, <2>1, GotoTyped DEF EnterContext
<1>2. ASSUME NEW r \in Requests, NEW u \in Users, NEW w \in Slugs, AddCheck(r, w, u)
      PROVE  TypeOK'
  <2>1. req[r].user \in Users
    BY <1>2, StateFacts DEF AddCheck
  <2>2. [pc |-> "add", user |-> req[r].user, ws |-> w, target |-> u] \in RequestStates
    BY <2>1 DEF RequestStates
  <2>3. QED
    BY <1>2, <2>2, GotoTyped DEF AddCheck
<1>3. ASSUME NEW r \in Requests, NEW u \in Users, NEW w \in Slugs, RemoveCheck(r, w, u)
      PROVE  TypeOK'
  <2>1. req[r].user \in Users
    BY <1>3, StateFacts DEF RemoveCheck
  <2>2. [pc |-> "remove", user |-> req[r].user, ws |-> w, target |-> u] \in RequestStates
    BY <2>1 DEF RequestStates
  <2>3. QED
    BY <1>3, <2>2, GotoTyped DEF RemoveCheck
<1>4. ASSUME NEW r \in Requests, NEW u \in Users, NEW claim \in Slugs \cup {NoWorkspace},
             Authorise(r, u, claim)
      PROVE  TypeOK'
  <2>1. [pc |-> "authorised", user |-> u, may |-> role[u]] \in RequestStates
    BY DEF RequestStates
  <2>2. QED
    BY <1>4, <2>1, GotoTyped DEF Authorise
<1>5. ASSUME NEW r \in Requests, NEW w \in Slugs, SwitchWorkspace(r, w)
      PROVE  TypeOK'
  <2>1. req[r].user \in Users
    BY <1>5, StateFacts DEF SwitchWorkspace
  <2>2. QED
    BY <1>5, <2>1, FinishTyped DEF SwitchWorkspace, IdleRequest
<1>6. ASSUME NEW r \in Requests, NEW w \in Slugs, CreateCheck(r, w)
      PROVE  TypeOK'
  <2>1. req[r].user \in Users
    BY <1>6, StateFacts DEF CreateCheck
  <2>2. [pc |-> "create", user |-> req[r].user, ws |-> w] \in RequestStates
    BY <2>1 DEF RequestStates
  <2>3. QED
    BY <1>6, <2>2, GotoTyped DEF CreateCheck
<1>7. ASSUME NEW r \in Requests, EnterMember(r) \/ EnterInside(r)
      PROVE  TypeOK'
  BY <1>7, StepInTyped DEF EnterMember, EnterInside
<1>8. ASSUME NEW r \in Requests, CreateWrite(r)
      PROVE  TypeOK'
  <2>1. req[r].user \in Users /\ req[r].ws \in Slugs
    BY <1>8, StateFacts DEF CreateWrite
  <2>2. QED
    BY <1>8, <2>1, FinishTyped DEF CreateWrite, IdleRequest
<1>9. ASSUME NEW r \in Requests, AddWrite(r)
      PROVE  TypeOK'
  <2>1. req[r].target \in Users /\ req[r].ws \in workspaces
    BY <1>9, StateFacts DEF AddWrite
  <2>2. QED
    BY <1>9, <2>1, FinishTyped DEF AddWrite, IdleRequest
<1>10. ASSUME NEW r \in Requests, RemoveWrite(r) \/ End(r)
       PROVE  TypeOK'
  BY <1>10, FinishTyped DEF RemoveWrite, End, IdleRequest
<1>11. ASSUME NEW v \in Users, NEW to \in Roles, ChangeMembership(v, to)
       PROVE  TypeOK'
  BY <1>11 DEF ChangeMembership
<1>12. ASSUME NEW v \in Users, NEW to \in Roles, NEW w \in Slugs, AcceptInvitation(v, to, w)
       PROVE  TypeOK'
  BY <1>12 DEF AcceptInvitation
<1>13. CASE UNCHANGED vars
  BY <1>13 DEF vars
<1>14. QED
  BY <1>1, <1>2, <1>3, <1>4, <1>5, <1>6, <1>7, <1>8, <1>9, <1>10, <1>11, <1>12, <1>13 DEF Next

\* Rows, tokens and requests keep their types; a membership and a token name a
\* workspace that exists.
THEOREM TypeCorrect == Spec => []TypeOK
BY InitTypeOK, NextTypeOK, PTL DEF Spec

-----------------------------------------------------------------------------
(* Removals *)

\* Who is shut out stays so while he has no organisation membership: the requests
\* that go on are others', and his own get no further than the context.
LEMMA ShutOutStays ==
    ASSUME TypeOK, [Next]_vars, NEW u \in Users, ShutOut(u), role'[u] = "absent"
    PROVE  ShutOut(u)'
<1> USE DEF TypeOK, ShutOut
<1>1. ASSUME NEW r \in Requests, NEW v \in Users, NEW w \in Slugs, EnterContext(r, v, w)
      PROVE  ShutOut(u)'
  <2>1. [pc |-> "context", user |-> v, ws |-> w] \in RequestStates
    BY DEF RequestStates
  <2>2. QED
    BY <1>1, <2>1, GotoTyped DEF EnterContext
<1>2. ASSUME NEW r \in Requests, NEW v \in Users, NEW w \in Slugs, AddCheck(r, w, v)
      PROVE  ShutOut(u)'
  <2>1. req[r].user \in Users
    BY <1>2, StateFacts DEF AddCheck
  <2>2. [pc |-> "add", user |-> req[r].user, ws |-> w, target |-> v] \in RequestStates
    BY <2>1 DEF RequestStates
  <2>3. QED
    BY <1>2, <2>2, GotoTyped DEF AddCheck
<1>3. ASSUME NEW r \in Requests, NEW v \in Users, NEW w \in Slugs, RemoveCheck(r, w, v)
      PROVE  ShutOut(u)'
  <2>1. req[r].user \in Users
    BY <1>3, StateFacts DEF RemoveCheck
  <2>2. [pc |-> "remove", user |-> req[r].user, ws |-> w, target |-> v] \in RequestStates
    BY <2>1 DEF RequestStates
  <2>3. QED
    BY <1>3, <2>2, GotoTyped DEF RemoveCheck
<1>4. ASSUME NEW r \in Requests, NEW v \in Users, NEW claim \in Slugs \cup {NoWorkspace},
             Authorise(r, v, claim)
      PROVE  ShutOut(u)'
  <2>1. [pc |-> "authorised", user |-> v, may |-> role[v]] \in RequestStates
    BY DEF RequestStates
  <2>2. QED
    BY <1>4, <2>1, GotoTyped DEF Authorise
<1>5. ASSUME NEW r \in Requests, NEW w \in Slugs, CreateCheck(r, w)
      PROVE  ShutOut(u)'
  <2>1. req[r].user \in Users
    BY <1>5, StateFacts DEF CreateCheck
  <2>2. [pc |-> "create", user |-> req[r].user, ws |-> w] \in RequestStates
    BY <2>1 DEF RequestStates
  <2>3. QED
    BY <1>5, <2>2, GotoTyped DEF CreateCheck
<1>6. ASSUME NEW r \in Requests, EnterMember(r)
      PROVE  ShutOut(u)'
  BY <1>6, StepInTyped DEF EnterMember
<1>7. ASSUME NEW r \in Requests, EnterInside(r)
      PROVE  ShutOut(u)'
  BY <1>7, StepInTyped DEF EnterInside
<1>8. ASSUME NEW r \in Requests, Finish(r)
      PROVE  ShutOut(u)'
  BY <1>8, FinishTyped DEF IdleRequest
<1>9. ASSUME UNCHANGED req
      PROVE  ShutOut(u)'
  BY <1>9
<1>10. QED
  BY <1>1, <1>2, <1>3, <1>4, <1>5, <1>6, <1>7, <1>8, <1>9
     DEF Next, vars, SwitchWorkspace, CreateWrite, AddWrite, RemoveWrite, End,
         ChangeMembership, AcceptInvitation

\* A removal from the organisation takes effect at the next authorisation
\* (get_current_membership), for any number of requests in progress.
THEOREM OrgRemovals == Spec => RemovalFromOrgTakesEffect
<1>1. TypeOK /\ [Next]_vars =>
         [\A u \in Users : ShutOut(u) => ShutOut(u)' \/ role'[u] # "absent"]_vars
  BY ShutOutStays
<1>2. QED
  BY <1>1, TypeCorrect, PTL DEF Spec, RemovalFromOrgTakesEffect

\* Without the membership row nobody comes to be inside: EnterInside reads the row
\* after every other check, and no other step leads there.
LEMMA LockedStays ==
    ASSUME TypeOK, [Next]_vars, NEW w \in Slugs, NEW u \in Users, Locked(w, u),
           <<w, u>> \notin wsMember'
    PROVE  Locked(w, u)'
<1> USE DEF TypeOK, Locked
<1>1. ASSUME NEW r \in Requests, NEW s \in RequestStates, Goto(r, s), s.pc # "inside"
      PROVE  Locked(w, u)'
  BY <1>1, GotoTyped
<1>2. ASSUME NEW r \in Requests, EnterMember(r)
      PROVE  Locked(w, u)'
  BY <1>2, StepInTyped DEF EnterMember
<1>3. ASSUME NEW r \in Requests, EnterInside(r)
      PROVE  Locked(w, u)'
  BY <1>3, StepInTyped DEF EnterInside
<1>4. ASSUME NEW r \in Requests, Finish(r)
      PROVE  Locked(w, u)'
  BY <1>4, FinishTyped DEF IdleRequest
<1>5. ASSUME UNCHANGED req
      PROVE  Locked(w, u)'
  BY <1>5
<1>6. ASSUME NEW r \in Requests, NEW v \in Users, NEW x \in Slugs,
             EnterContext(r, v, x) \/ AddCheck(r, x, v) \/ RemoveCheck(r, x, v)
      PROVE  Locked(w, u)'
  <2>1. AddCheck(r, x, v) \/ RemoveCheck(r, x, v) => req[r].user \in Users
    BY StateFacts DEF AddCheck, RemoveCheck
  <2>2. QED
    BY <1>1, <1>6, <2>1 DEF EnterContext, AddCheck, RemoveCheck, RequestStates
<1>7. ASSUME NEW r \in Requests, NEW v \in Users, NEW claim \in Slugs \cup {NoWorkspace},
             Authorise(r, v, claim)
      PROVE  Locked(w, u)'
  BY <1>1, <1>7 DEF Authorise, RequestStates
<1>8. ASSUME NEW r \in Requests, NEW x \in Slugs, CreateCheck(r, x)
      PROVE  Locked(w, u)'
  <2>1. req[r].user \in Users
    BY <1>8, StateFacts DEF CreateCheck
  <2>2. QED
    BY <1>1, <1>8, <2>1 DEF CreateCheck, RequestStates
<1>9. QED
  BY <1>2, <1>3, <1>4, <1>5, <1>6, <1>7, <1>8
     DEF Next, vars, SwitchWorkspace, CreateWrite, AddWrite, RemoveWrite, End,
         ChangeMembership, AcceptInvitation

\* A removal from the workspace takes effect on every request that has not yet passed
\* the last check, for any number of requests in progress.
THEOREM WorkspaceRemovals == Spec => RemovalFromWorkspaceTakesEffect
<1>1. TypeOK /\ [Next]_vars =>
         [\A w \in Slugs, u \in Users :
             Locked(w, u) => Locked(w, u)' \/ <<w, u>> \in wsMember']_vars
  BY LockedStays
<1>2. QED
  BY <1>1, TypeCorrect, PTL DEF Spec, RemovalFromWorkspaceTakesEffect

-----------------------------------------------------------------------------
(* Teams *)

\* ScopedNamesUnique without cardinalities, as the unique constraint enforces it.
NamesUnique ==
    \A t, x \in DOMAIN team :
        (/\ team[t].exists /\ team[x].exists
         /\ team[t].scope = team[x].scope /\ team[t].name = team[x].name
         /\ team[t].scope \in Scopes) => t = x

TeamIInv == TeamTypeOK /\ NamesUnique

LEMMA TeamStateFacts ==
    ASSUME TeamTypeOK, NEW r \in Requests
    PROVE  /\ req[r].pc = "create" =>
                 req[r].scope \in Scopes \cup {OrgWide} /\ req[r].name \in Names
           /\ req[r].pc \in {"rename", "delete", "add", "remove"} => req[r].team \in TeamIds
           /\ req[r].pc \in {"add", "remove"} => req[r].user \in Users
BY DEF TeamTypeOK, TeamRequestStates

\* A request goes on or ends; the others are left alone.
LEMMA TeamGotoTyped ==
    ASSUME TeamTypeOK, NEW r \in Requests, NEW s \in TeamRequestStates, Goto(r, s)
    PROVE  req' \in [Requests -> TeamRequestStates]
BY DEF TeamTypeOK, Goto

LEMMA TeamFinishTyped ==
    ASSUME TeamTypeOK, NEW r \in Requests, Finish(r)
    PROVE  req' \in [Requests -> TeamRequestStates]
<1>1. IdleRequest \in TeamRequestStates
  BY DEF IdleRequest, TeamRequestStates
<1>2. QED
  BY <1>1, TeamGotoTyped DEF Finish

\* Steps that leave the rows of teams alone.
LEMMA SameRowsIInv ==
    ASSUME TeamIInv, UNCHANGED team, member' \subseteq Users,
           teamMember' \subseteq TeamIds \X Users, \A m \in teamMember' : Exists(m[1]),
           req' \in [Requests -> TeamRequestStates]
    PROVE  TeamIInv'
BY DEF TeamIInv, TeamTypeOK, Exists, NamesUnique

LEMMA ReadsIInv ==
    ASSUME TeamIInv, UNCHANGED <<member, team, teamMember>>,
           req' \in [Requests -> TeamRequestStates]
    PROVE  TeamIInv'
BY SameRowsIInv DEF TeamIInv, TeamTypeOK

\* The constraint refuses a second name in a workspace, whatever create had found.
LEMMA CreateIInv ==
    ASSUME TeamIInv, NEW r \in Requests, NEW t \in TeamIds, TeamCreateWrite(r, t)
    PROVE  TeamIInv'
<1> DEFINE n == [scope |-> req[r].scope, name |-> req[r].name, exists |-> TRUE]
<1> USE DEF TeamIInv
<1>1. n \in TeamRows
  BY TeamStateFacts DEF TeamCreateWrite, TeamRows
<1>2. /\ DOMAIN team' = DOMAIN team \cup {t} /\ team'[t] = n /\ t \notin DOMAIN team
      /\ \A x \in DOMAIN team : team'[x] = team[x]
      /\ team' \in [DOMAIN team' -> TeamRows]
      /\ UNCHANGED <<member, teamMember>> /\ Finish(r)
      /\ NameAllowed(req[r].scope, req[r].name)
  BY <1>1 DEF TeamCreateWrite, TeamTypeOK
<1>3. n.scope = req[r].scope /\ n.name = req[r].name
  OBVIOUS
<1> HIDE DEF n
<1>4. TeamTypeOK'
  BY <1>2, TeamFinishTyped DEF TeamTypeOK, Exists
<1>5. NamesUnique'
  BY <1>2, <1>3, TeamsAssumption DEF NamesUnique, NameAllowed, Named
<1>6. QED
  BY <1>4, <1>5

\* An UPDATE of the name alone, to one the constraint allows, of a team that exists.
LEMMA RenameIInv ==
    ASSUME TeamIInv, NEW r \in Requests, NEW n \in Names, RenameWrite(r, n)
    PROVE  TeamIInv'
<1> USE DEF TeamIInv
<1>1. PICK t \in DOMAIN team : t = req[r].team /\ team[t].exists
  BY DEF RenameWrite, Exists
<1>2. req' \in [Requests -> TeamRequestStates] /\ UNCHANGED <<member, teamMember>>
  BY TeamFinishTyped DEF RenameWrite
<1>3. CASE n = req[r].was
  BY <1>2, <1>3, ReadsIInv DEF RenameWrite
<1>4. CASE n # req[r].was
  <2>1. /\ team' = [team EXCEPT ![t].name = n] /\ team[t] \in TeamRows
        /\ NameAllowed(team[t].scope, n) \/ team[t].name = n
    BY <1>1, <1>4 DEF RenameWrite, TeamTypeOK
  <2>2. /\ team' \in [DOMAIN team -> TeamRows]
        /\ team'[t].name = n /\ team'[t].scope = team[t].scope /\ team'[t].exists = team[t].exists
        /\ \A x \in DOMAIN team : x # t => team'[x] = team[x]
    BY <2>1 DEF TeamTypeOK, TeamRows
  <2>3. TeamTypeOK'
    BY <1>1, <1>2, <2>2 DEF TeamTypeOK, Exists
  <2>4. NamesUnique'
    BY <1>1, <2>1, <2>2, TeamsAssumption DEF NamesUnique, NameAllowed, Named
  <2>5. QED
    BY <2>3, <2>4
<1>5. QED
  BY <1>3, <1>4

\* The DELETE takes the memberships along.
LEMMA DeleteIInv ==
    ASSUME TeamIInv, NEW r \in Requests, DeleteWrite(r)
    PROVE  TeamIInv'
<1> USE DEF TeamIInv
<1>1. PICK t : t = req[r].team
  OBVIOUS
<1>2. /\ team' = [team EXCEPT ![t].exists = FALSE]
      /\ teamMember' = {m \in teamMember : m[1] # t}
      /\ UNCHANGED member /\ req' \in [Requests -> TeamRequestStates]
  BY <1>1, TeamFinishTyped DEF DeleteWrite
<1>3. /\ team' \in [DOMAIN team -> TeamRows]
      /\ \A x \in DOMAIN team : /\ team'[x].scope = team[x].scope /\ team'[x].name = team[x].name
                                /\ team'[x].exists => team[x].exists
                                /\ x # t => team'[x] = team[x]
  BY <1>2 DEF TeamTypeOK, TeamRows
<1>4. TeamTypeOK'
  BY <1>2, <1>3 DEF TeamTypeOK, Exists
<1>5. NamesUnique'
  BY <1>3 DEF NamesUnique
<1>6. QED
  BY <1>4, <1>5

LEMMA TeamNextIInv == TeamIInv /\ [TeamNext]_teamVars => TeamIInv'
<1> SUFFICES ASSUME TeamIInv, [TeamNext]_teamVars PROVE TeamIInv'
  OBVIOUS
<1> USE DEF TeamIInv
<1>1. ASSUME NEW r \in Requests, NEW s \in TeamRequestStates, Goto(r, s),
             UNCHANGED <<member, team, teamMember>>
      PROVE  TeamIInv'
  BY <1>1, TeamGotoTyped, ReadsIInv
<1>2. ASSUME NEW r \in Requests, NEW n \in Names, NEW s \in Scopes \cup {OrgWide},
             TeamCreateCheck(r, s, n)
      PROVE  TeamIInv'
  <2>1. [pc |-> "create", scope |-> s, name |-> n] \in TeamRequestStates
    BY DEF TeamRequestStates
  <2>2. QED
    BY <1>1, <1>2, <2>1 DEF TeamCreateCheck
<1>3. ASSUME NEW r \in Requests, NEW t \in TeamIds, RenameRead(r, t) \/ DeleteRead(r, t)
      PROVE  TeamIInv'
  <2>1. t \in DOMAIN team /\ team[t].name \in Names
    BY <1>3 DEF RenameRead, DeleteRead, Exists, TeamTypeOK, TeamRows
  <2>2. /\ [pc |-> "rename", team |-> t, was |-> team[t].name] \in TeamRequestStates
        /\ [pc |-> "delete", team |-> t] \in TeamRequestStates
    BY <2>1 DEF TeamRequestStates
  <2>3. QED
    BY <1>1, <1>3, <2>2 DEF RenameRead, DeleteRead
<1>4. ASSUME NEW r \in Requests, NEW t \in TeamIds, NEW u \in Users,
             TeamAddCheck(r, t, u) \/ TeamRemoveCheck(r, t, u)
      PROVE  TeamIInv'
  <2>1. /\ [pc |-> "add", team |-> t, user |-> u] \in TeamRequestStates
        /\ [pc |-> "remove", team |-> t, user |-> u] \in TeamRequestStates
    BY DEF TeamRequestStates
  <2>2. QED
    BY <1>1, <1>4, <2>1 DEF TeamAddCheck, TeamRemoveCheck
<1>5. ASSUME NEW r \in Requests, TeamAddWrite(r) \/ TeamRemoveWrite(r) PROVE TeamIInv'
  <2>1. /\ UNCHANGED <<member, team>> /\ req' \in [Requests -> TeamRequestStates]
        /\ req[r].team \in TeamIds /\ req[r].user \in Users
    BY <1>5, TeamStateFacts, TeamFinishTyped DEF TeamAddWrite, TeamRemoveWrite
  <2>2. teamMember' \subseteq TeamIds \X Users /\ \A m \in teamMember' : Exists(m[1])
    BY <1>5, <2>1 DEF TeamAddWrite, TeamRemoveWrite, TeamTypeOK
  <2>3. QED
    BY <2>1, <2>2, SameRowsIInv DEF TeamTypeOK
<1>6. ASSUME NEW r \in Requests, Fail(r) PROVE TeamIInv'
  BY <1>6, TeamFinishTyped, ReadsIInv DEF Fail
<1>7. ASSUME NEW u \in Users, ChangeMember(u) PROVE TeamIInv'
  BY <1>7, SameRowsIInv DEF ChangeMember, TeamTypeOK
<1>8. CASE UNCHANGED teamVars
  BY <1>8, ReadsIInv DEF teamVars, TeamTypeOK
<1>9. QED
  BY <1>2, <1>3, <1>4, <1>5, <1>6, <1>7, <1>8, CreateIInv, RenameIInv, DeleteIInv
     DEF TeamNext

\* The inductive invariant of teams under concurrent requests.
THEOREM TeamSafetyInductive == TeamSpec => []TeamIInv
<1>1. TeamInit => TeamIInv
  <2> SUFFICES ASSUME TeamInit PROVE TeamIInv
    OBVIOUS
  <2>1. DOMAIN team = {} /\ team \in [{} -> TeamRows]
    BY DEF TeamInit
  <2>2. req \in [Requests -> TeamRequestStates]
    BY DEF TeamInit, TeamRequestStates, IdleRequest
  <2>3. QED
    BY <2>1, <2>2 DEF TeamInit, TeamIInv, TeamTypeOK, NamesUnique
<1>2. QED
  BY <1>1, TeamNextIInv, PTL DEF TeamSpec

\* Rows and requests keep their types, and the memberships are those of teams that exist.
THEOREM TeamTypeCorrect == TeamSpec => []TeamTypeOK
<1>1. TeamIInv => TeamTypeOK
  BY DEF TeamIInv
<1>2. QED
  BY <1>1, TeamSafetyInductive, PTL

LEMMA UniqueIsOne == TeamIInv => ScopedNamesUnique
<1> SUFFICES ASSUME TeamIInv, NEW s \in Scopes, NEW n \in Names
             PROVE  Cardinality(Named(s, n)) <= 1
  BY DEF ScopedNamesUnique
<1>1. CASE Named(s, n) = {}
  BY <1>1, FS_EmptySet
<1>2. CASE Named(s, n) # {}
  <2>1. PICK t : t \in Named(s, n)
    BY <1>2
  <2>2. Named(s, n) = {t}
    BY <2>1 DEF TeamIInv, NamesUnique, Named
  <2>3. Cardinality(Named(s, n)) = 1
    BY <2>2, FS_Singleton
  <2>4. QED
    BY <2>3
<1>3. QED
  BY <1>1, <1>2

\* However creations and renamings overlap, no two teams of a workspace have one name.
THEOREM NamesInOneWorkspace == TeamSpec => []ScopedNamesUnique
BY UniqueIsOne, TeamSafetyInductive, PTL

\* No step brings a deleted team or its memberships back.
LEMMA DeletedStep ==
    ASSUME TeamIInv, [TeamNext]_teamVars, NEW t \in DOMAIN team, ~Exists(t)
    PROVE  ~Exists(t)' /\ \A u \in Users : <<t, u>> \notin teamMember'
<1>1. \A u \in Users : <<t, u>> \notin teamMember
  BY DEF TeamIInv, TeamTypeOK
<1>2. ASSUME NEW u \in Users, <<t, u>> \in teamMember' PROVE FALSE
  <2>1. PICK r \in Requests : TeamAddWrite(r)
    BY <1>1, <1>2 DEF TeamNext, teamVars, TeamCreateCheck, TeamCreateWrite, RenameRead, RenameWrite,
       DeleteRead, DeleteWrite, TeamAddCheck, TeamRemoveCheck, TeamRemoveWrite, Fail,
       ChangeMember
  <2>2. QED
    BY <1>1, <1>2, <2>1 DEF TeamAddWrite
<1>3. ~Exists(t)'
  <2>1. CASE UNCHANGED team
    BY <2>1 DEF Exists
  <2>2. ASSUME NEW r \in Requests, NEW x \in TeamIds, TeamCreateWrite(r, x) PROVE ~Exists(t)'
    BY <2>2 DEF TeamCreateWrite, Exists
  <2>3. ASSUME NEW r \in Requests, NEW n \in Names, RenameWrite(r, n) PROVE ~Exists(t)'
    BY <2>1, <2>3 DEF RenameWrite, Exists, TeamIInv, TeamTypeOK
  <2>4. ASSUME NEW r \in Requests, DeleteWrite(r) PROVE ~Exists(t)'
    BY <2>4 DEF DeleteWrite, Exists, TeamIInv, TeamTypeOK, TeamRows
  <2>5. QED
    BY <2>1, <2>2, <2>3, <2>4 DEF TeamNext, teamVars, TeamCreateCheck, RenameRead, DeleteRead,
       TeamAddCheck, TeamAddWrite, TeamRemoveCheck, TeamRemoveWrite, Fail, ChangeMember
<1>4. QED
  BY <1>2, <1>3

\* A request that had loaded a team before its deletion brings back neither the team nor a
\* membership.
THEOREM DeletedForGood == TeamSpec => DeletionIsFinal
<1>1. TeamIInv /\ [TeamNext]_teamVars =>
         [\A t \in DOMAIN team :
             ~Exists(t) => ~Exists(t)' /\ \A u \in Users : <<t, u>> \notin teamMember']_teamVars
  BY DeletedStep
<1>2. QED
  BY <1>1, TeamSafetyInductive, PTL DEF TeamSpec, DeletionIsFinal
=============================================================================
