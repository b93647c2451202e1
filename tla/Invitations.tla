---------------------------- MODULE Invitations ----------------------------
(***************************************************************************)
(* Invitations to one organisation: backend/app/services/                  *)
(* invitation_service.py, its endpoints and the partial unique index of     *)
(* migration 0002.                                                         *)
(*                                                                         *)
(* Every handler reads the invitation without a lock and writes it by       *)
(* primary key later, so that a request is split between its reads and its  *)
(* flush and commit.  A user is identified with his e-mail address.  The     *)
(* members that administrators add and remove without an invitation are     *)
(* here too, since an acceptance that is under way meets their rows.        *)
(***************************************************************************)
EXTENDS Naturals, FiniteSets

CONSTANTS Users, InvIds,
          Requests   \* HTTP requests that can be in progress at once

ASSUME InvitationsAssumption == Users # {} /\ InvIds # {}

VARIABLES
    invited,   \* invitations: a function from the committed ids to the invited user
    accepted,  \* ids with accepted_at set
    revoked,   \* ids with revoked_at set
    expired,   \* ids whose expires_at has passed
    toWs,      \* ids that also grant a role in the workspace
    member,    \* organisation_memberships
    wsMember,  \* workspace_memberships of the one workspace
    audit,     \* audit_events about invitations
    req        \* what each request is doing; see RequestStates

rows == <<invited, accepted, revoked, expired, toWs>>
members == <<member, wsMember>>
vars == <<rows, members, audit, req>>

\* pc:  "insert" has found no active invitation for usr; "member" has found
\*      invitation id acceptable; "accept" has looked usr's membership up;
\*      "revoke" has found id revocable; "addWs" has found usr a member of the
\*      organisation and not of the workspace;
\* join, joinWs: whether accept is going to insert a membership of the
\*      organisation, and of the workspace.
RequestStates ==
    [pc : {"idle", "insert", "member", "accept", "revoke", "addWs"},
     usr : Users, id : InvIds, join : BOOLEAN, joinWs : BOOLEAN]

IdleRequest == [pc |-> "idle", usr |-> CHOOSE u \in Users : TRUE,
                id |-> CHOOSE i \in InvIds : TRUE, join |-> FALSE, joinWs |-> FALSE]

Idle(r) == req[r].pc = "idle"
Finish(r) == req' = [req EXCEPT ![r] = IdleRequest]

Exists(i) == i \in DOMAIN invited
\* The rows of the index uq_invitations_active_email_org.
Open(u) == {i \in DOMAIN invited : invited[i] = u /\ i \notin accepted \cup revoked}
\* What _find_active_by_email_org looks for.
Active(u) == Open(u) \ expired

-----------------------------------------------------------------------------
(* create *)

FindActive(r, u) ==
    /\ Idle(r) /\ Active(u) = {}
    /\ req' = [req EXCEPT ![r].pc = "insert", ![r].usr = u]
    /\ UNCHANGED <<rows, members, audit>>

\* Mutant: no index; the duplicate check alone.
CreateUnindexed(r, i, w) ==
    /\ req[r].pc = "insert" /\ ~Exists(i)
    /\ invited' = [j \in DOMAIN invited \cup {i} |-> IF j = i THEN req[r].usr ELSE invited[j]]
    /\ toWs' = IF w THEN toWs \cup {i} ELSE toWs
    /\ audit' = audit \cup {<<"invitation.created", i>>}
    /\ Finish(r)
    /\ UNCHANGED <<accepted, revoked, expired, members>>

\* INSERT and commit.  The index refuses a second open row (IntegrityError,
\* which nobody handles); a concurrent INSERT waits for the first to commit.
Create(r, i, w) ==
    /\ req[r].pc = "insert" /\ ~Exists(i)
    /\ IF Open(req[r].usr) = {}
       THEN /\ invited' = [j \in DOMAIN invited \cup {i} |->
                              IF j = i THEN req[r].usr ELSE invited[j]]
            /\ toWs' = IF w THEN toWs \cup {i} ELSE toWs
            /\ audit' = audit \cup {<<"invitation.created", i>>}
       ELSE UNCHANGED <<invited, toWs, audit>>
    /\ Finish(r)
    /\ UNCHANGED <<accepted, revoked, expired, members>>

-----------------------------------------------------------------------------
(* accept *)

\* Mutant: the e-mail address is not compared.
FindByTokenAnyUser(r, i) ==
    /\ Idle(r) /\ Exists(i)
    /\ i \notin expired \cup revoked \cup accepted
    /\ \E u \in Users : req' = [req EXCEPT ![r].pc = "member", ![r].usr = u, ![r].id = i]
    /\ UNCHANGED <<rows, members, audit>>

\* Mutant: revoked_at is not looked at.
FindByTokenRevoked(r, i) ==
    /\ Idle(r) /\ Exists(i)
    /\ i \notin expired \cup accepted
    /\ req' = [req EXCEPT ![r].pc = "member", ![r].usr = invited[i], ![r].id = i]
    /\ UNCHANGED <<rows, members, audit>>

\* The invitation is read and found acceptable for the user.
FindByToken(r, i) ==
    /\ Idle(r) /\ Exists(i)
    /\ i \notin expired \cup revoked \cup accepted
    /\ req' = [req EXCEPT ![r].pc = "member", ![r].usr = invited[i], ![r].id = i]
    /\ UNCHANGED <<rows, members, audit>>

\* It has expired: the audit event is committed in a session of its own.
FindExpired(i) ==
    /\ Exists(i) /\ i \in expired
    /\ audit' = audit \cup {<<"invitation.expired", i>>}
    /\ UNCHANGED <<rows, members, req>>

LookUpMembership(r) ==
    /\ req[r].pc = "member"
    /\ req' = [req EXCEPT ![r].pc = "accept",
                           ![r].join = req[r].usr \notin member,
                           ![r].joinWs = req[r].id \in toWs /\ req[r].usr \notin wsMember]
    /\ UNCHANGED <<rows, members, audit>>

\* The UPDATE of accepted_at and the INSERTs of the memberships, flushed and
\* committed together; the unique constraint of a membership that is there by
\* now rolls all of it back.
Accept(r) ==
    LET u == req[r].usr IN
    /\ req[r].pc = "accept"
    /\ IF (req[r].join /\ u \in member) \/ (req[r].joinWs /\ u \in wsMember)
       THEN UNCHANGED <<accepted, members, audit>>
       ELSE /\ accepted' = accepted \cup {req[r].id}
            /\ member' = IF req[r].join THEN member \cup {u} ELSE member
            /\ wsMember' = IF req[r].joinWs THEN wsMember \cup {u} ELSE wsMember
            /\ audit' = audit \cup {<<"invitation.accepted", req[r].id>>}
    /\ Finish(r)
    /\ UNCHANGED <<invited, revoked, expired, toWs>>

-----------------------------------------------------------------------------
(* revoke *)

\* Mutant: an invitation that is not found is revoked.
FindRevocableMissing(r, i) ==
    /\ Idle(r) /\ i \notin revoked \cup accepted
    /\ req' = [req EXCEPT ![r].pc = "revoke", ![r].id = i]
    /\ UNCHANGED <<rows, members, audit>>

FindRevocable(r, i) ==
    /\ Idle(r) /\ Exists(i) /\ i \notin revoked \cup accepted
    /\ req' = [req EXCEPT ![r].pc = "revoke", ![r].id = i]
    /\ UNCHANGED <<rows, members, audit>>

Revoke(r) ==
    /\ req[r].pc = "revoke"
    /\ revoked' = revoked \cup {req[r].id}
    /\ audit' = audit \cup {<<"invitation.revoked", req[r].id>>}
    /\ Finish(r)
    /\ UNCHANGED <<invited, accepted, expired, toWs, members>>

-----------------------------------------------------------------------------
\* Time passes expires_at.
Expire(i) ==
    /\ Exists(i) /\ i \notin expired
    /\ expired' = expired \cup {i}
    /\ UNCHANGED <<invited, accepted, revoked, toWs, members, audit, req>>

\* add_member and remove_member of the organisation service, whose own races are in
\* OrgMembership; neither touches workspace_memberships.
AddMember(u) ==
    /\ u \notin member
    /\ member' = member \cup {u}
    /\ UNCHANGED <<rows, wsMember, audit, req>>

RemoveMember(u) ==
    /\ u \in member
    /\ member' = member \ {u}
    /\ UNCHANGED <<rows, wsMember, audit, req>>

\* add_member of the workspace service: its reads, and its INSERT, which only the unique
\* constraint of workspace_memberships refuses, not a membership of the organisation
\* that is gone by now.
FindForWorkspace(r, u) ==
    /\ Idle(r) /\ u \in member /\ u \notin wsMember
    /\ req' = [req EXCEPT ![r].pc = "addWs", ![r].usr = u]
    /\ UNCHANGED <<rows, members, audit>>

AddWorkspaceMember(r) ==
    /\ req[r].pc = "addWs" /\ req[r].usr \notin wsMember
    /\ wsMember' = wsMember \cup {req[r].usr}
    /\ Finish(r)
    /\ UNCHANGED <<rows, member, audit>>

\* remove_member of the workspace service.
RemoveWorkspaceMember(u) ==
    /\ u \in wsMember
    /\ wsMember' = wsMember \ {u}
    /\ UNCHANGED <<rows, member, audit, req>>

\* The session is rolled back on an exception or a lost connection.
Fail(r) ==
    /\ ~Idle(r)
    /\ Finish(r)
    /\ UNCHANGED <<rows, members, audit>>

Init ==
    /\ invited = <<>>
    /\ accepted = {} /\ revoked = {} /\ expired = {}
    /\ toWs = {}
    /\ member = {} /\ wsMember = {}
    /\ audit = {}
    /\ req = [r \in Requests |-> IdleRequest]

Next ==
    \/ \E r \in Requests :
          \/ \E u \in Users : FindActive(r, u) \/ FindForWorkspace(r, u)
          \/ \E i \in InvIds, w \in BOOLEAN : Create(r, i, w)
          \/ \E i \in InvIds : FindByToken(r, i) \/ FindRevocable(r, i)
          \/ LookUpMembership(r) \/ Accept(r) \/ Revoke(r) \/ AddWorkspaceMember(r) \/ Fail(r)
    \/ \E i \in InvIds : FindExpired(i) \/ Expire(i)
    \/ \E u \in Users : AddMember(u) \/ RemoveMember(u) \/ RemoveWorkspaceMember(u)

Spec == Init /\ [][Next]_vars

-----------------------------------------------------------------------------
(* Properties *)

\* The types of the rows and requests.
TypeOK ==
    /\ DOMAIN invited \subseteq InvIds /\ \A i \in DOMAIN invited : invited[i] \in Users
    /\ accepted \cup revoked \cup expired \cup toWs \subseteq DOMAIN invited
    /\ member \subseteq Users /\ wsMember \subseteq Users
    /\ req \in [Requests -> RequestStates]

\* "Duplicate active invitations for the same email+org are prevented": two
\* administrators who invite a user at once leave one open invitation.
OneOpenInvitation == \A u \in Users : Cardinality(Open(u)) <= 1

\* Request r accepts invitation i in this step: marks it, with an audit event.
Accepts(r, i) ==
    /\ Accept(r) /\ req[r].id = i
    /\ i \in accepted' /\ <<"invitation.accepted", i>> \in audit'

\* Whom no administrator adds joins by an invitation made out to him, for the workspace
\* if it is the workspace he joins, which the step that adds him marks accepted:
\* whatever was revoked, removed, added, expired or accepted while the request ran.
JoinsByOwnInvitation ==
    [][\A u \in (member' \ member) \cup (wsMember' \ wsMember) :
          \/ AddMember(u)
          \/ \E r \in Requests : AddWorkspaceMember(r) /\ req[r].usr = u
          \/ \E r \in Requests, i \in DOMAIN invited :
                /\ Accepts(r, i) /\ invited[i] = u
                /\ u \in wsMember' \ wsMember => i \in toWs]_vars

\* Invitation i is accepted, revoked or expired, and no request found it before.
Closed(i) ==
    /\ Exists(i) /\ i \in accepted \cup revoked \cup expired
    /\ \A r \in Requests : req[r].pc \in {"member", "accept"} => req[r].id # i

\* "Expired, revoked, and already-accepted invitations are all rejected" (header of
\* invitation_service.py): once closed, with no acceptance under way that had found
\* it open, an invitation is never used again, whatever revocations, removals and
\* new invitations of the same user follow.
ClosedStaysClosed == [][\A i \in InvIds : Closed(i) => Closed(i)']_vars
=============================================================================
