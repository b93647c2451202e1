--------------------------- MODULE RefreshTokens ---------------------------
(***************************************************************************)
(* Refresh-token families: backend/app/auth/refresh.py, the operations of  *)
(* backend/app/services/auth_service.py that use it, and the endpoints of  *)
(* backend/app/api/v1/endpoints/auth.py and selector.py around them.       *)
(*                                                                         *)
(* Every request runs its statements in PostgreSQL transactions at READ    *)
(* COMMITTED: a SELECT ... FOR UPDATE or an UPDATE waits for the row lock  *)
(* of a concurrent writer and then re-evaluates the row, but the SET of    *)
(* rows an UPDATE looks at is fixed by the snapshot taken when it starts.  *)
(* A request is therefore split where another transaction can come         *)
(* between: at the row lock, at the snapshot, at each row of an UPDATE and *)
(* at the commit.                                                          *)
(*                                                                         *)
(* A family is named by the id of the token that opened it.  Ids grow in   *)
(* insertion order, which is the order in which an UPDATE visits rows.     *)
(***************************************************************************)
EXTENDS Naturals, FiniteSets

CONSTANTS Users, Orgs,
          Requests,   \* HTTP requests that can be in progress at once
          MaxTokens,  \* bound on the rows of refresh_tokens
          NoOne       \* the holder of a free row lock

ASSUME ConstantsAssumption ==
    /\ MaxTokens \in Nat \ {0}
    /\ Users # {} /\ Orgs # {}
    /\ NoOne \notin Requests

TokenIds == 1..MaxTokens

VARIABLES
    st,        \* refresh_tokens rows: "pending" is inserted, not committed
    fam,       \* family_id of a row
    session,   \* [user, org] a family was opened for
    expired,   \* rows whose expires_at has passed
    lock,      \* the transaction that holds a row's lock
    member,    \* organisation_memberships
    delivered, \* raw refresh tokens that reached a client
    access,    \* access tokens (their claims) that reached a client
    req        \* what each request is doing; see RequestStates

rows == <<st, fam, session, expired>>
vars == <<rows, lock, member, delivered, access, req>>

RowStates == {"absent", "pending", "active", "inactive"}
Sessions == [user : Users, org : Orgs]
Claims == [user : Users, org : Orgs, fid : TokenIds]
AnySession == CHOOSE s \in Sessions : TRUE   \* of rows not yet inserted

\* pc:   "rotating" and "expiring" hold the row lock of token tk, "minting" has
\*       committed the rotation of tk into nw, "revoke" is about to start the
\*       UPDATE that ends a family or all sessions, "revoking" is inside it;
\* why:  which handler runs the UPDATE;
\* ctx:  the user and organisation set as the transaction's RLS context;
\* scan: rows of the UPDATE's snapshot not yet visited;
\* hit:  rows it has written.
RequestStates ==
    [pc   : {"idle", "rotating", "expiring", "minting", "revoke", "revoking"},
     why  : {"none", "reuse", "logout", "logout_all"},
     ctx  : Sessions,
     tk   : TokenIds,
     nw   : TokenIds,
     scan : SUBSET TokenIds,
     hit  : SUBSET TokenIds]

IdleRequest == [pc |-> "idle", why |-> "none", ctx |-> AnySession,
                tk |-> 1, nw |-> 1, scan |-> {}, hit |-> {}]

\* The rows of family f that a statement run now can see.
Committed(f) == {t \in TokenIds : st[t] \in {"active", "inactive"} /\ fam[t] = f}
Active(f) == {t \in Committed(f) : st[t] = "active"}

-----------------------------------------------------------------------------
(* Steps shared by the handlers *)

Idle(r) == req[r].pc = "idle"
Finish(r) == req' = [req EXCEPT ![r] = IdleRequest]
Free(t, r) == lock[t] \in {NoOne, r}
ReleaseLocks(r) == lock' = [t \in TokenIds |-> IF lock[t] = r THEN NoOne ELSE lock[t]]
NextId(t) == st[t] = "absent" /\ \A s \in TokenIds : st[s] = "absent" => t <= s

\* get_current_membership: the membership named by the access token is looked
\* up in the live table before any authenticated handler runs.
Authenticated(a) == a \in access /\ <<a.user, a.org>> \in member

-----------------------------------------------------------------------------
(* Login step 2, organisation switch and membership administration *)

\* select_organisation after the pre-auth session is consumed: a live member
\* gets the first token of a new family and an access token with its fid.
SelectOrganisation(u, o, t) ==
    /\ NextId(t)
    /\ <<u, o>> \in member
    /\ st' = [st EXCEPT ![t] = "active"]
    /\ fam' = [fam EXCEPT ![t] = t]
    /\ session' = [session EXCEPT ![t] = [user |-> u, org |-> o]]
    /\ delivered' = delivered \cup {t}
    /\ access' = access \cup {[user |-> u, org |-> o, fid |-> t]}
    /\ UNCHANGED <<expired, lock, member, req>>

\* switch_org: a new access token for another organisation of the user, with
\* the same fid; the refresh token is neither rotated nor looked at.
SwitchOrg(a, o) ==
    /\ Authenticated(a)
    /\ o # a.org
    /\ <<a.user, o>> \in member
    /\ access' = access \cup {[a EXCEPT !.org = o]}
    /\ UNCHANGED <<rows, lock, member, delivered, req>>

\* add_member / remove_member of the organisation service, as seen from here:
\* remove_member deletes the membership row and leaves refresh_tokens alone.
ChangeMembership(u, o) ==
    /\ member' = IF <<u, o>> \in member THEN member \ {<<u, o>>}
                                        ELSE member \cup {<<u, o>>}
    /\ UNCHANGED <<rows, lock, delivered, access, req>>

\* Time passes a row's expires_at, which is read for active rows only.
Expire(t) ==
    /\ st[t] = "active" /\ t \notin expired
    /\ expired' = expired \cup {t}
    /\ UNCHANGED <<st, fam, session, lock, member, delivered, access, req>>

-----------------------------------------------------------------------------
(* POST /auth/refresh *)

\* Mutant: rotate without FOR UPDATE.
RotateActiveUnlocked(r, t, n) ==
    /\ Idle(r) /\ t \in delivered
    /\ st[t] = "active" /\ t \notin expired
    /\ NextId(n)
    /\ st' = [st EXCEPT ![n] = "pending"]
    /\ fam' = [fam EXCEPT ![n] = fam[t]]
    /\ req' = [req EXCEPT ![r] = [@ EXCEPT !.pc = "rotating", !.tk = t, !.nw = n]]
    /\ UNCHANGED <<session, expired, lock, member, delivered, access>>

\* Mutant: rotate that does not look at is_active.
RotateActiveUnchecked(r, t, n) ==
    /\ Idle(r) /\ t \in delivered
    /\ Free(t, r)
    /\ st[t] \in {"active", "inactive"} /\ t \notin expired
    /\ NextId(n)
    /\ lock' = [lock EXCEPT ![t] = r]
    /\ st' = [st EXCEPT ![n] = "pending"]
    /\ fam' = [fam EXCEPT ![n] = fam[t]]
    /\ req' = [req EXCEPT ![r] = [@ EXCEPT !.pc = "rotating", !.tk = t, !.nw = n]]
    /\ UNCHANGED <<session, expired, member, delivered, access>>

\* rotate: SELECT ... FOR UPDATE on the presented token, which waits while the
\* row is locked, and the branch on what the locked row says.  The writes of
\* the branch are not visible to others before the commit.
\* The presented row is active: deactivate it and insert its successor.
RotateActive(r, t, n) ==
    /\ Idle(r) /\ t \in delivered
    /\ Free(t, r)
    /\ st[t] = "active" /\ t \notin expired
    /\ NextId(n)
    /\ lock' = [lock EXCEPT ![t] = r]
    /\ st' = [st EXCEPT ![n] = "pending"]
    /\ fam' = [fam EXCEPT ![n] = fam[t]]
    /\ req' = [req EXCEPT ![r] = [@ EXCEPT !.pc = "rotating", !.tk = t, !.nw = n]]
    /\ UNCHANGED <<session, expired, member, delivered, access>>

\* The presented row is active but expired: deactivate it, return None.
RotateExpired(r, t) ==
    /\ Idle(r) /\ t \in delivered
    /\ Free(t, r)
    /\ st[t] = "active" /\ t \in expired
    /\ lock' = [lock EXCEPT ![t] = r]
    /\ req' = [req EXCEPT ![r] = [@ EXCEPT !.pc = "expiring", !.tk = t]]
    /\ UNCHANGED <<rows, member, delivered, access>>

\* The presented row is inactive: reuse.  The UPDATE over the family follows,
\* in the tenant context of the presented token.
RotateReused(r, t) ==
    /\ Idle(r) /\ t \in delivered
    /\ Free(t, r)
    /\ st[t] = "inactive"
    /\ lock' = [lock EXCEPT ![t] = r]
    /\ req' = [req EXCEPT ![r] = [@ EXCEPT !.pc = "revoke", !.why = "reuse",
                                           !.tk = t, !.ctx = session[fam[t]]]]
    /\ UNCHANGED <<rows, member, delivered, access>>

\* refresh_tokens commits the rotation.
CommitRotation(r) ==
    /\ req[r].pc = "rotating"
    /\ st' = [st EXCEPT ![req[r].tk] = "inactive", ![req[r].nw] = "active"]
    /\ ReleaseLocks(r)
    /\ req' = [req EXCEPT ![r] = [@ EXCEPT !.pc = "minting"]]
    /\ UNCHANGED <<fam, session, expired, member, delivered, access>>

\* Mutant: the deactivation of an expired token is never committed.
CommitExpiredKeepsLock(r) ==
    /\ req[r].pc = "expiring"
    /\ Finish(r)
    /\ UNCHANGED <<rows, lock, member, delivered, access>>

\* refresh_tokens commits the deactivation of an expired token; 401.
CommitExpired(r) ==
    /\ req[r].pc = "expiring"
    /\ st' = [st EXCEPT ![req[r].tk] = "inactive"]
    /\ ReleaseLocks(r)
    /\ Finish(r)
    /\ UNCHANGED <<fam, session, expired, member, delivered, access>>

\* Mutant: the new access token does not name its family.
MintAccessTokenNoFamily(r) ==
    LET s == session[fam[req[r].nw]] IN
    /\ req[r].pc = "minting"
    /\ <<s.user, s.org>> \in member
    /\ delivered' = delivered \cup {req[r].nw}
    /\ access' = access \cup {[user |-> s.user, org |-> s.org]}
    /\ Finish(r)
    /\ UNCHANGED <<rows, lock, member>>

\* The endpoint, in a new transaction, looks the membership up: a member gets
\* the new cookie and an access token; otherwise 401 and the new raw token is
\* dropped, although its row stays active.
MintAccessToken(r) ==
    LET s == session[fam[req[r].nw]] IN
    /\ req[r].pc = "minting"
    /\ \/ /\ <<s.user, s.org>> \in member
          /\ delivered' = delivered \cup {req[r].nw}
          /\ access' = access \cup {[user |-> s.user, org |-> s.org, fid |-> fam[req[r].nw]]}
       \/ /\ <<s.user, s.org>> \notin member
          /\ UNCHANGED <<delivered, access>>
    /\ Finish(r)
    /\ UNCHANGED <<rows, lock, member>>

\* The server stops, or the response is lost, after the rotation committed.
LoseResponse(r) ==
    /\ req[r].pc = "minting"
    /\ Finish(r)
    /\ UNCHANGED <<rows, lock, member, delivered, access>>

-----------------------------------------------------------------------------
(* POST /auth/logout and /auth/logout-all *)

\* logout: find_active_by_raw_token reads, without a lock, the presented
\* token; when it is active and not expired, revoke_family follows in the
\* tenant context of the ACCESS token.  Otherwise only cookies are cleared.
LogoutFind(r, a, t) ==
    /\ Idle(r) /\ t \in delivered
    /\ Authenticated(a)
    /\ st[t] = "active" /\ t \notin expired
    /\ req' = [req EXCEPT ![r] = [@ EXCEPT !.pc = "revoke", !.why = "logout", !.tk = t,
                                           !.ctx = [user |-> a.user, org |-> a.org]]]
    /\ UNCHANGED <<rows, lock, member, delivered, access>>

\* logout_all: revoke_all_for_user_org for the user and organisation of the
\* access token.
LogoutAll(r, a) ==
    /\ Idle(r)
    /\ Authenticated(a)
    /\ req' = [req EXCEPT ![r] = [@ EXCEPT !.pc = "revoke", !.why = "logout_all",
                                           !.ctx = [user |-> a.user, org |-> a.org]]]
    /\ UNCHANGED <<rows, lock, member, delivered, access>>

-----------------------------------------------------------------------------
(* The revoking UPDATE *)

\* Mutant: the UPDATE runs outside row-level security.
SelectedAnywhere(r) ==
    {t \in TokenIds :
        /\ st[t] = "active"
        /\ IF req[r].why = "logout_all" THEN session[fam[t]].user = req[r].ctx.user
                                     ELSE fam[t] = fam[req[r].tk]}

\* Rows the UPDATE of request r selects in a snapshot taken now: active,
\* visible under the row-level-security policy (the organisation of the
\* transaction's context) and matching its WHERE clause.
Selected(r) ==
    {t \in TokenIds :
        /\ st[t] = "active"
        /\ session[fam[t]].org = req[r].ctx.org
        /\ IF req[r].why = "logout_all" THEN session[fam[t]].user = req[r].ctx.user
                                     ELSE fam[t] = fam[req[r].tk]}

StartUpdate(r) ==
    /\ req[r].pc = "revoke"
    /\ req' = [req EXCEPT ![r] = [@ EXCEPT !.scan = Selected(r), !.pc = "revoking"]]
    /\ UNCHANGED <<rows, lock, member, delivered, access>>

\* Mutant: the UPDATE does not wait for the row lock.
UpdateRowAtOnce(r, t) ==
    /\ req[r].pc = "revoking"
    /\ t \in req[r].scan /\ \A s \in req[r].scan : t <= s
    /\ req' = [req EXCEPT ![r] = [@ EXCEPT !.scan = req[r].scan \ {t}, !.hit = req[r].hit \cup {t}]]
    /\ UNCHANGED <<rows, lock, member, delivered, access>>

\* The UPDATE reaches its next row: it waits for the row lock and writes the
\* row if it is still active; a row deactivated meanwhile is skipped.
UpdateRow(r, t) ==
    /\ req[r].pc = "revoking"
    /\ t \in req[r].scan /\ \A s \in req[r].scan : t <= s
    /\ Free(t, r)
    /\ \/ /\ st[t] = "active"
          /\ lock' = [lock EXCEPT ![t] = r]
          /\ req' = [req EXCEPT ![r] = [@ EXCEPT !.scan = req[r].scan \ {t}, !.hit = req[r].hit \cup {t}]]
       \/ /\ st[t] # "active"
          /\ req' = [req EXCEPT ![r] = [@ EXCEPT !.scan = req[r].scan \ {t}]]
          /\ UNCHANGED lock
    /\ UNCHANGED <<rows, member, delivered, access>>

\* The handler commits, with its audit event, which is left out here.
CommitRevocation(r) ==
    /\ req[r].pc = "revoking" /\ req[r].scan = {}
    /\ st' = [t \in TokenIds |-> IF t \in req[r].hit THEN "inactive" ELSE st[t]]
    /\ ReleaseLocks(r)
    /\ Finish(r)
    /\ UNCHANGED <<fam, session, expired, member, delivered, access>>

-----------------------------------------------------------------------------
(* get_raw_session rolls the transaction back on an exception, and the      *)
(* database does when the connection is lost.                               *)
Rollback(r) ==
    /\ req[r].pc \in {"rotating", "expiring", "revoke", "revoking"}
    /\ IF req[r].pc = "rotating"
       THEN /\ st' = [st EXCEPT ![req[r].nw] = "absent"]
            /\ fam' = [fam EXCEPT ![req[r].nw] = req[r].nw]
       ELSE UNCHANGED <<st, fam>>
    /\ ReleaseLocks(r)
    /\ Finish(r)
    /\ UNCHANGED <<session, expired, member, delivered, access>>

-----------------------------------------------------------------------------
Init ==
    /\ st = [t \in TokenIds |-> "absent"]
    /\ fam = [t \in TokenIds |-> t]
    /\ session = [t \in TokenIds |-> AnySession]
    /\ expired = {}
    /\ lock = [t \in TokenIds |-> NoOne]
    /\ member = Users \X Orgs
    /\ delivered = {}
    /\ access = {}
    /\ req = [r \in Requests |-> IdleRequest]

RequestStep(r) ==
    \/ \E t \in TokenIds : \/ RotateExpired(r, t)
                          \/ RotateReused(r, t)
                          \/ \E n \in TokenIds : RotateActive(r, t, n)
                          \/ \E a \in access : LogoutFind(r, a, t)
                          \/ UpdateRow(r, t)
    \/ \E a \in access : LogoutAll(r, a)
    \/ CommitRotation(r) \/ CommitExpired(r) \/ MintAccessToken(r)
    \/ StartUpdate(r) \/ CommitRevocation(r)
    \/ LoseResponse(r) \/ Rollback(r)

Next ==
    \/ \E r \in Requests : RequestStep(r)
    \/ \E u \in Users, o \in Orgs :
          \/ \E t \in TokenIds : SelectOrganisation(u, o, t)
          \/ ChangeMembership(u, o)
    \/ \E a \in access, o \in Orgs : SwitchOrg(a, o)
    \/ \E t \in TokenIds : Expire(t)

Spec == Init /\ [][Next]_vars

\* Once a handler has begun, the database serves its next statement, and the
\* queue of a row lock is first-in first-out: a waiting UPDATE gets its row even
\* if other transactions take the lock again and again.
Progress(r) ==
    \/ CommitRotation(r) \/ CommitExpired(r) \/ MintAccessToken(r)
    \/ StartUpdate(r) \/ CommitRevocation(r)

FairSpec ==
    Spec /\ \A r \in Requests : /\ WF_vars(Progress(r))
                                /\ SF_vars(\E t \in TokenIds : UpdateRow(r, t))

-----------------------------------------------------------------------------
(* Properties *)

\* The types of the rows, locks and requests.
TypeOK ==
    /\ st \in [TokenIds -> RowStates]
    /\ fam \in [TokenIds -> TokenIds]
    /\ session \in [TokenIds -> Sessions]
    /\ expired \subseteq TokenIds
    /\ lock \in [TokenIds -> Requests \cup {NoOne}]
    /\ member \subseteq Users \X Orgs
    /\ delivered \subseteq TokenIds
    /\ access \subseteq Claims
    /\ req \in [Requests -> RequestStates]

\* rotate takes the row lock before it reads is_active, so that two requests
\* never both exchange one token: a family has at most one live token, however
\* refreshes, replays, logouts and failures interleave.
OneActivePerFamily ==
    \A t1, t2 \in TokenIds :
        (st[t1] = "active" /\ st[t2] = "active" /\ fam[t1] = fam[t2]) => t1 = t2

\* A family all of whose rows are inactive, with no rotation in flight.
Ended(f) ==
    /\ Committed(f) # {}
    /\ \A t \in TokenIds : fam[t] = f => st[t] \in {"absent", "inactive"}

\* An ended family is never revived: neither a rotation that was waiting for
\* the lock, nor a rollback, nor a later login brings a live token back.
EndedIsForever == [][\A f \in TokenIds : Ended(f) => Ended(f)']_vars

\* The UPDATE of revoke_family, of revoke_all_for_user_org and of reuse
\* detection ends every family it wrote a row of: having written the live row
\* it leaves no rotation of the family in flight, at its commit.
RevocationEndsFamilies ==
    [][\A r \in Requests :
          CommitRevocation(r) => \A t \in req[r].hit : Ended(fam[t])']_vars

\* A revocation reaches only the sessions it is entitled to: a reuse or logout
\* the family of the presented token, a logout_all the user's own sessions, and
\* every one of them only sessions of the organisation in the RLS context.
RevocationStaysInTenant ==
    [][\A r \in Requests, t \in TokenIds :
          (CommitRevocation(r) /\ st[t] = "active" /\ st'[t] = "inactive")
             => /\ session[fam[t]].org = req[r].ctx.org
                /\ \/ fam[t] = fam[req[r].tk]
                   \/ req[r].why = "logout_all" /\ session[fam[t]] = req[r].ctx]_vars

\* No request waits forever: the row locks of rotations and of revoking
\* UPDATEs never form a cycle.
RequestsFinish == \A r \in Requests : ~Idle(r) ~> Idle(r)

\* Stated by RefreshTokenReuseError ("The entire token family has already been
\* revoked at the point this exception is raised"): when the reuse is
\* recorded, no token of the family is live.
ReuseEndsFamily ==
    [][\A r \in Requests, f \in TokenIds :
          (CommitRevocation(r) /\ req[r].why = "reuse" /\ f = fam[req[r].tk])
             => Active(f)' = {}]_vars
=============================================================================
