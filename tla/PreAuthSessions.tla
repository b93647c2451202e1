-------------------------- MODULE PreAuthSessions --------------------------
(***************************************************************************)
(* The two-step login: backend/app/auth/pre_auth.py with login_step1 and   *)
(* select_organisation of backend/app/services/auth_service.py.            *)
(*                                                                         *)
(* Step 1 checks the password and leaves a pre-auth session; step 2        *)
(* exchanges it, once, for a refresh-token family in an organisation of    *)
(* the user.  Step 2 reads the session without a lock, consumes it with a  *)
(* conditional UPDATE (which waits for the row lock of a concurrent one),  *)
(* verifies the membership and commits; any refusal rolls the consumption  *)
(* back.                                                                   *)
(***************************************************************************)
EXTENDS Naturals, FiniteSets

CONSTANTS Users, Orgs,
          Requests,     \* select-organisation requests in progress at once
          PreAuthIds,   \* rows of pre_auth_sessions
          NoOne         \* the holder of a free row lock

ASSUME ConstantsAssumption ==
    NoOne \notin Requests /\ Users # {} /\ Orgs # {} /\ PreAuthIds # {}

VARIABLES
    row,      \* pre_auth_sessions: "absent", "open" or "consumed", committed
    owner,    \* user_id of a row
    expired,  \* rows whose expires_at has passed
    lock,     \* the request whose uncommitted UPDATE consumed the row
    member,   \* organisation_memberships
    families, \* refresh-token families opened: [by: row, user, org]
    opened,   \* how many families each row was exchanged for
    audit,    \* audit_events of the login flow
    req       \* [pc, id, org] of each request

vars == <<row, owner, expired, lock, member, families, opened, audit, req>>

RequestStates == [pc : {"idle", "consume", "verify"}, id : PreAuthIds, org : Orgs]
IdleRequest == CHOOSE q \in RequestStates : q.pc = "idle"

Idle(r) == req[r].pc = "idle"
Finish(r) == req' = [req EXCEPT ![r] = IdleRequest]

-----------------------------------------------------------------------------
(* Step 1 *)

\* login_step1 with the right password: a pre-auth session is committed.
LoginStep1(u, p) ==
    /\ row[p] = "absent"
    /\ row' = [row EXCEPT ![p] = "open"]
    /\ owner' = [owner EXCEPT ![p] = u]
    /\ UNCHANGED <<expired, lock, member, families, opened, audit, req>>

\* login_step1 with an unknown e-mail address or a wrong password: only the
\* audit event is committed.
LoginFailed ==
    /\ audit' = audit \cup {<<"auth.login_failed", NoOne>>}
    /\ UNCHANGED <<row, owner, expired, lock, member, families, opened, req>>

-----------------------------------------------------------------------------
(* Step 2 *)

\* consume, first statement: an unlocked read of the row.  A consumed row is a
\* replay, which is audited and committed; an expired one is refused.
LookUp(r, p, o) ==
    /\ Idle(r) /\ row[p] # "absent"
    /\ \/ /\ row[p] = "consumed"
          /\ audit' = audit \cup {<<"auth.pre_auth_session_reused", p>>}
          /\ UNCHANGED req
       \/ /\ row[p] = "open" /\ p \notin expired
          /\ req' = [req EXCEPT ![r] = [pc |-> "consume", id |-> p, org |-> o]]
          /\ UNCHANGED audit
    /\ UNCHANGED <<row, owner, expired, lock, member, families, opened>>

\* Mutant: the UPDATE has no WHERE consumed_at IS NULL.
ConsumeAgain(r) ==
    /\ req[r].pc = "consume"
    /\ lock[req[r].id] = NoOne
    /\ lock' = [lock EXCEPT ![req[r].id] = r]
    /\ req' = [req EXCEPT ![r].pc = "verify"]
    /\ UNCHANGED <<row, owner, expired, member, families, opened, audit>>

\* Mutant: a lock that is taken counts as a replay (NOWAIT).
ConsumeNoWait(r) ==
    LET p == req[r].id IN
    /\ req[r].pc = "consume"
    /\ \/ /\ row[p] = "open" /\ lock[p] = NoOne
          /\ lock' = [lock EXCEPT ![p] = r]
          /\ req' = [req EXCEPT ![r].pc = "verify"]
          /\ UNCHANGED audit
       \/ /\ row[p] = "consumed" \/ lock[p] # NoOne
          /\ audit' = audit \cup {<<"auth.pre_auth_session_reused", p>>}
          /\ Finish(r)
          /\ UNCHANGED lock
    /\ UNCHANGED <<row, owner, expired, member, families, opened>>

\* consume, second statement: UPDATE ... WHERE consumed_at IS NULL RETURNING.
Consume(r) ==
    LET p == req[r].id IN
    /\ req[r].pc = "consume"
    /\ lock[p] = NoOne
    /\ \/ /\ row[p] = "open"
          /\ lock' = [lock EXCEPT ![p] = r]
          /\ req' = [req EXCEPT ![r].pc = "verify"]
          /\ UNCHANGED audit
       \/ /\ row[p] = "consumed"
          /\ audit' = audit \cup {<<"auth.pre_auth_session_reused", p>>}
          /\ Finish(r)
          /\ UNCHANGED lock
    /\ UNCHANGED <<row, owner, expired, member, families, opened>>

\* Mutant: the user is taken from the request instead of the row.
SelectOrganisationUserOfRequest(r) ==
    LET p == req[r].id IN
    /\ req[r].pc = "verify"
    /\ \E u \in Users :
          /\ <<u, req[r].org>> \in member
          /\ families' = families \cup {[by |-> p, user |-> u, org |-> req[r].org]}
    /\ row' = [row EXCEPT ![p] = "consumed"]
    /\ opened' = [opened EXCEPT ![p] = @ + 1]
    /\ audit' = audit \cup {<<"org.organisation_selected", p>>}
    /\ lock' = [lock EXCEPT ![p] = NoOne]
    /\ Finish(r)
    /\ UNCHANGED <<owner, expired, member>>

\* The membership is there: the family is created with the user of the row and
\* everything commits.
SelectOrganisation(r) ==
    LET p == req[r].id IN
    /\ req[r].pc = "verify"
    /\ <<owner[p], req[r].org>> \in member
    /\ row' = [row EXCEPT ![p] = "consumed"]
    /\ opened' = [opened EXCEPT ![p] = @ + 1]
    /\ families' = families \cup {[by |-> p, user |-> owner[p], org |-> req[r].org]}
    /\ audit' = audit \cup {<<"org.organisation_selected", p>>}
    /\ lock' = [lock EXCEPT ![p] = NoOne]
    /\ Finish(r)
    /\ UNCHANGED <<owner, expired, member>>

\* The membership is not there (OrgSelectionError becomes a 401), or the
\* transaction fails: get_raw_session rolls back, the consumption included.
Refuse(r) ==
    /\ \/ req[r].pc = "consume"
       \/ req[r].pc = "verify"
    /\ lock' = [p \in PreAuthIds |-> IF lock[p] = r THEN NoOne ELSE lock[p]]
    /\ Finish(r)
    /\ UNCHANGED <<row, owner, expired, member, families, opened, audit>>

-----------------------------------------------------------------------------
Expire(p) ==
    /\ row[p] = "open" /\ p \notin expired
    /\ expired' = expired \cup {p}
    /\ UNCHANGED <<row, owner, lock, member, families, opened, audit, req>>

\* add_member / remove_member of the organisation service.
ChangeMembership(u, o) ==
    /\ member' = IF <<u, o>> \in member THEN member \ {<<u, o>>}
                                        ELSE member \cup {<<u, o>>}
    /\ UNCHANGED <<row, owner, expired, lock, families, opened, audit, req>>

Init ==
    /\ row = [p \in PreAuthIds |-> "absent"]
    /\ owner = [p \in PreAuthIds |-> CHOOSE u \in Users : TRUE]
    /\ expired = {}
    /\ lock = [p \in PreAuthIds |-> NoOne]
    /\ member = Users \X Orgs
    /\ families = {}
    /\ opened = [p \in PreAuthIds |-> 0]
    /\ audit = {}
    /\ req = [r \in Requests |-> IdleRequest]

Next ==
    \/ \E r \in Requests :
          \/ \E p \in PreAuthIds, o \in Orgs : LookUp(r, p, o)
          \/ Consume(r) \/ SelectOrganisation(r) \/ Refuse(r)
    \/ \E u \in Users, p \in PreAuthIds : LoginStep1(u, p)
    \/ LoginFailed
    \/ \E p \in PreAuthIds : Expire(p)
    \/ \E u \in Users, o \in Orgs : ChangeMembership(u, o)

Spec == Init /\ [][Next]_vars

-----------------------------------------------------------------------------
(* Properties *)

\* The types of the rows, locks and requests.  "user_id is sourced ONLY from the
\* pre-auth session row": the user of a family is the user of the row that it was
\* exchanged for.
TypeOK ==
    /\ row \in [PreAuthIds -> {"absent", "open", "consumed"}]
    /\ owner \in [PreAuthIds -> Users]
    /\ expired \subseteq PreAuthIds
    /\ lock \in [PreAuthIds -> Requests \cup {NoOne}]
    /\ member \subseteq Users \X Orgs
    /\ families \subseteq [by : PreAuthIds, user : Users, org : Orgs]
    /\ \A f \in families : f.user = owner[f.by]
    /\ opened \in [PreAuthIds -> Nat]
    /\ req \in [Requests -> RequestStates]

\* "exactly one successful consumption even under concurrent requests": a
\* pre-auth session is exchanged for exactly one family if it is consumed and
\* for none if it is not, for any interleaving of requests and rollbacks.
ExchangedOnce ==
    \A p \in PreAuthIds : opened[p] = IF row[p] = "consumed" THEN 1 ELSE 0

\* A replay is put on record only for a session that really was exchanged; a
\* request that lost the race to one that is rolled back is no replay.
NoFalseReplay ==
    \A p \in PreAuthIds :
        <<"auth.pre_auth_session_reused", p>> \in audit => row[p] = "consumed"
=============================================================================
