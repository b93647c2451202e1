--------------------------- MODULE OrgMembership ---------------------------
(***************************************************************************)
(* The members of one organisation and their roles:                        *)
(* backend/app/services/org_service.py, its endpoints, the permission check *)
(* of backend/app/api/deps.py and the two guards of migration 0001, the     *)
(* partial unique index on owners and the deferred trigger that counts them. *)
(*                                                                         *)
(* Each request is one READ COMMITTED transaction: it reads its actor's     *)
(* role, then the target's row, both without a lock, then writes rows by    *)
(* primary key, runs the deferred trigger and commits.  Others may commit   *)
(* between any two of these steps.  The audit event each handler adds to    *)
(* its transaction is left out: it is written with the rows or not at all.  *)
(***************************************************************************)
EXTENDS Naturals, FiniteSets

CONSTANTS Users,
          Founder,   \* who registered the organisation
          Requests,  \* transactions that can be open at once
          MaxJoins,  \* bound on how often a user's row is inserted
          Ops        \* the operations that clients call

Operations == {"add", "remove", "change", "transfer"}

ASSUME MembershipAssumption ==
    /\ Founder \in Users /\ MaxJoins \in Nat \ {0}
    /\ Ops \subseteq Operations

VARIABLES
    role,  \* committed organisation_memberships.org_role; "none": no row
    inc,   \* how many rows a user has had: stands for the row's primary key
    req    \* the transaction of each request; see Transactions

vars == <<role, inc, req>>

\* "null" stands for a NULL role and for every role that grants nothing here.
Roles == {"none", "null", "administrator", "owner"}
Unwritten == "unwritten"

\* op and pc of a transaction, its actor, target and requested role, the row
\* keys it has read and the rows it has written.
Transactions ==
    [pc : {"idle", "read", "write", "promote", "index", "trigger", "commit"},
     op : Operations,
     actor : Users, target : Users, new : Roles,
     seen : [Users -> 0..MaxJoins],
     wr : [Users -> Roles \cup {Unwritten}]]

NoWrites == [u \in Users |-> Unwritten]
IdleRequest == [pc |-> "idle", op |-> "add", actor |-> Founder, target |-> Founder,
                new |-> "null", seen |-> [u \in Users |-> 0], wr |-> NoWrites]

Idle(r) == req[r].pc = "idle"

\* Mutant: the session goes back to the pool without a rollback.
AbortKeepsLocks(r) ==
    /\ req' = [req EXCEPT ![r] = [IdleRequest EXCEPT !.wr = req[r].wr]]
    /\ UNCHANGED <<role, inc>>

Abort(r) == req' = [req EXCEPT ![r] = IdleRequest] /\ UNCHANGED <<role, inc>>

\* What the transaction of r sees: the committed rows under its own writes.
View(r) == [u \in Users |-> IF req[r].wr[u] = Unwritten THEN role[u] ELSE req[r].wr[u]]
Owners(f) == {u \in Users : f[u] = "owner"}

\* Nobody else has an uncommitted write of u's row.
RowFree(r, u) == \A q \in Requests \ {r} : req[q].wr[u] = Unwritten

\* The index on owners makes others wait for q, which has an uncommitted write of the
\* owner's row, or has entered an owner of its own.
HoldsIndex(q) ==
    \E u \in Users : /\ req[q].wr[u] # Unwritten
                     /\ role[u] = "owner" \/ (req[q].wr[u] = "owner" /\ req[q].pc # "index")
IndexFree(r) == \A q \in Requests \ {r} : ~HoldsIndex(q)

Unique(r, u) == Owners(View(r)) \subseteq {u}

-----------------------------------------------------------------------------
(* RequirePermission, on the role that get_current_membership reads *)
Permitted(op, rl) ==
    IF op = "transfer" THEN rl = "owner" ELSE rl \in {"owner", "administrator"}

\* Only transfer_ownership goes on to use the actor.
Authorise(r, op, a, u, n) ==
    /\ Idle(r) /\ op \in Ops
    /\ Permitted(op, role[a])
    /\ req' = [req EXCEPT ![r] = [IdleRequest EXCEPT !.pc = "read", !.op = op, !.target = u, !.new = n,
                                      !.actor = IF op = "transfer" THEN a ELSE Founder]]
    /\ UNCHANGED <<role, inc>>

\* The handler's checks: add_member wants no row, remove_member and
\* change_member_role a row that is not the owner's, transfer_ownership that
\* the actor is the owner and the target another member.
Acceptable(r) ==
    LET q == req[r] IN
    CASE q.op = "add"      -> role[q.target] = "none"
      [] q.op = "remove"   -> role[q.target] \notin {"none", "owner"}
      [] q.op = "change"   -> role[q.target] \notin {"none", "owner", q.new}
      [] q.op = "transfer" -> /\ q.actor # q.target
                              /\ role[q.actor] = "owner" /\ role[q.target] # "none"

Read(r) ==
    /\ req[r].pc = "read"
    /\ IF Acceptable(r)
       THEN req' = [req EXCEPT ![r].pc = "write", ![r].seen = inc] /\ UNCHANGED <<role, inc>>
       ELSE Abort(r)

-----------------------------------------------------------------------------
(* The flushes.  A statement first has its row, waiting for whoever has written it,
   and then, holding the row, enters an owner in the index.                       *)

Put(r, u, rl, p) ==
    /\ req' = [req EXCEPT ![r].wr[u] = rl, ![r].pc = p]
    /\ UNCHANGED <<role, inc>>

\* INSERT, under unique(organisation_id, user_id).  At the bound MaxJoins it fails like a
\* duplicate.
Insert(r) ==
    LET u == req[r].target IN
    /\ req[r].pc = "write" /\ req[r].op = "add"
    /\ RowFree(r, u)
    /\ IF role[u] = "none" /\ inc[u] < MaxJoins
       THEN Put(r, u, req[r].new, IF req[r].new = "owner" THEN "index" ELSE "trigger")
       ELSE Abort(r)

\* DELETE by primary key: when the row is gone the statement matches nothing,
\* which is no error, and the transaction commits without a row written.
Delete(r) ==
    LET u == req[r].target IN
    /\ req[r].pc = "write" /\ req[r].op = "remove"
    /\ RowFree(r, u)
    /\ IF role[u] # "none" /\ inc[u] = req[r].seen[u]
       THEN Put(r, u, "none", "trigger")
       ELSE Abort(r)

\* UPDATE by primary key: a row that is gone raises StaleDataError.
Update(r, u, rl, p) ==
    /\ RowFree(r, u)
    /\ IF role[u] # "none" /\ inc[u] = req[r].seen[u]
       THEN Put(r, u, rl, IF rl = "owner" THEN "index" ELSE p)
       ELSE Abort(r)

ChangeRole(r) ==
    /\ req[r].pc = "write" /\ req[r].op = "change"
    /\ Update(r, req[r].target, req[r].new, "trigger")

\* transfer_ownership: the old owner is demoted before the new one is promoted.
Demote(r) ==
    /\ req[r].pc = "write" /\ req[r].op = "transfer"
    /\ Update(r, req[r].actor, "administrator", "promote")

Promote(r) ==
    /\ req[r].pc = "promote"
    /\ Update(r, req[r].target, "owner", "trigger")

\* uq_org_memberships_one_owner: the entry waits for every transaction that may still
\* add or remove one, and a second entry is an IntegrityError.
EnterIndex(r) ==
    /\ req[r].pc = "index"
    /\ IndexFree(r)
    /\ IF Unique(r, req[r].target)
       THEN req' = [req EXCEPT ![r].pc = "trigger"] /\ UNCHANGED <<role, inc>>
       ELSE Abort(r)

-----------------------------------------------------------------------------
\* Mutant: no deferred trigger.
TriggerAbsent(r) ==
    /\ req[r].pc = "trigger"
    /\ req' = [req EXCEPT ![r].pc = "commit"]
    /\ UNCHANGED <<role, inc>>

\* Mutant: a trigger that only refuses a second owner.
TriggerAtMostOne(r) ==
    /\ req[r].pc = "trigger"
    /\ IF Cardinality(Owners(View(r))) <= 1
       THEN req' = [req EXCEPT ![r].pc = "commit"] /\ UNCHANGED <<role, inc>>
       ELSE Abort(r)

\* check_exactly_one_owner, deferred to the commit: it sees what is committed
\* by now and the transaction's own rows.
Trigger(r) ==
    /\ req[r].pc = "trigger"
    /\ IF Cardinality(Owners(View(r))) = 1
       THEN req' = [req EXCEPT ![r].pc = "commit"] /\ UNCHANGED <<role, inc>>
       ELSE Abort(r)

\* Mutant: a role change inserts the row anew.
CommitReinserts(r) ==
    /\ req[r].pc = "commit"
    /\ role' = View(r)
    /\ inc' = [u \in Users |-> IF req[r].wr[u] # Unwritten THEN inc[u] + 1 ELSE inc[u]]
    /\ req' = [req EXCEPT ![r] = IdleRequest]

Commit(r) ==
    /\ req[r].pc = "commit"
    /\ role' = View(r)
    /\ inc' = [u \in Users |-> IF role[u] = "none" /\ View(r)[u] # "none" THEN inc[u] + 1 ELSE inc[u]]
    /\ req' = [req EXCEPT ![r] = IdleRequest]

\* The connection is lost before the commit.
Fail(r) == ~Idle(r) /\ Abort(r)

\* r waits for q: for a row that q has written, or for q's part in the index.
WaitsFor(r, q) ==
    LET row == IF req[r].pc = "write" /\ req[r].op = "transfer" THEN req[r].actor ELSE req[r].target
    IN  \/ req[r].pc \in {"write", "promote"} /\ req[q].wr[row] # Unwritten
        \/ req[r].pc = "index" /\ HoldsIndex(q)

\* r is in a cycle of transactions that wait for each other: PostgreSQL cancels one of
\* them.
Deadlocked(r) ==
    \E S \in SUBSET Requests :
        /\ r \in S
        /\ \A s \in S : /\ \E q \in S \ {s} : WaitsFor(s, q)
                        /\ \E q \in S \ {s} : WaitsFor(q, s)
DeadlockVictim(r) == Deadlocked(r) /\ Abort(r)

-----------------------------------------------------------------------------
Init ==
    /\ role = [u \in Users |-> IF u = Founder THEN "owner" ELSE "none"]
    /\ inc = [u \in Users |-> IF u = Founder THEN 1 ELSE 0]
    /\ req = [r \in Requests |-> IdleRequest]

Progress(r) ==
    \/ Read(r) \/ Insert(r) \/ Delete(r) \/ ChangeRole(r) \/ Demote(r) \/ Promote(r)
    \/ EnterIndex(r) \/ Trigger(r) \/ Commit(r)

Next ==
    \E r \in Requests :
        \/ Progress(r) \/ DeadlockVictim(r) \/ Fail(r)
        \/ \E a, u \in Users :
              \/ \E n \in Roles \ {"none"}, op \in {"add", "change"} : Authorise(r, op, a, u, n)
              \/ \E op \in {"remove", "transfer"} : Authorise(r, op, a, u, "null")

Spec == Init /\ [][Next]_vars

\* PostgreSQL runs the next statement of an open transaction, serves a row's
\* waiters in turn and breaks deadlocks.
FairSpec ==
    Spec /\ \A r \in Requests : SF_vars(Progress(r)) /\ WF_vars(DeadlockVictim(r))

-----------------------------------------------------------------------------
(* Properties *)

\* The types of the rows and transactions.
TypeOK ==
    /\ role \in [Users -> Roles]
    /\ inc \in [Users -> 0..MaxJoins]
    /\ req \in [Requests -> Transactions]

\* "Exactly one membership per organisation must have role='owner'": at every
\* commit, for any interleaving of transfers, removals and role changes.
ExactlyOneOwner == \E u \in Users : Owners(role) = {u}

\* The owner is deposed only by his own transfer: not by an administrator whose
\* removal or role change read the row before it became the owner's.
OwnerDeposedOnlyBySelf ==
    [][\A u \in Users :
          (role[u] = "owner" /\ role'[u] # "owner")
             => \E r \in Requests : /\ Commit(r)
                                    /\ req[r].op = "transfer" /\ req[r].actor = u]_vars

\* Every request gets an answer: waiting for rows, and for the index on owners while
\* holding a row, never lasts forever.
RequestsFinish == \A r \in Requests : ~Idle(r) ~> Idle(r)
=============================================================================
