------------------------ MODULE OrgMembershipProofs ------------------------
(***************************************************************************)
(* One owner, deposed by nobody else: the safety of OrgMembership for every  *)
(* set of users and any number of open transactions.                        *)
(***************************************************************************)
EXTENDS OrgMembership, FiniteSetTheorems, TLAPS

Written(r, u) == req[r].wr[u] # Unwritten

\* Row locks: an uncommitted row version has one writer.
RowsExclusive ==
    \A r, q \in Requests : \A u \in Users : Written(r, u) /\ Written(q, u) => r = q

\* Which rows a transaction has written, and with what, by the point it has reached.
WritesOf(r) ==
    /\ req[r].pc \in {"idle", "read", "write"} => \A u \in Users : ~Written(r, u)
    /\ req[r].pc = "promote" => req[r].op = "transfer" /\ ~Written(r, req[r].target)
    /\ req[r].pc = "index" => req[r].wr[req[r].target] = "owner"
    /\ \A u \in Users : Written(r, u) =>
          \/ u = req[r].target
          \/ req[r].op = "transfer" /\ u = req[r].actor
    /\ req[r].op = "transfer" /\ req[r].pc \notin {"idle", "read"} =>
          /\ req[r].actor # req[r].target
          /\ req[r].wr[req[r].actor] \in {Unwritten, "administrator"}
          /\ req[r].wr[req[r].target] \in {Unwritten, "owner"}

WritesInv == \A r \in Requests : WritesOf(r)

\* Whoever has entered an owner in the index has locked the row of the present one: the
\* index accepts no other.
OwnerRowHeld ==
    \A r \in Requests : \A u \in Users :
        req[r].wr[u] = "owner" /\ req[r].pc # "index" => \E o \in Users : role[o] = "owner" /\ Written(r, o)

\* The verdict of the deferred trigger stands until the commit.
TriggerStands ==
    \A r \in Requests : req[r].pc = "commit" => \E u \in Users : Owners(View(r)) = {u}

\* A row that is about to appear is within the bound on insertions.
JoinsBounded ==
    \A r \in Requests : \A u \in Users :
        role[u] = "none" /\ req[r].wr[u] \notin {Unwritten, "none"} => inc[u] < MaxJoins

IInv == /\ TypeOK /\ RowsExclusive /\ WritesInv /\ OwnerRowHeld /\ TriggerStands
        /\ JoinsBounded /\ ExactlyOneOwner

-----------------------------------------------------------------------------
(* How transactions change *)

LEMMA IdleFacts ==
    /\ IdleRequest \in Transactions
    /\ IdleRequest.pc = "idle" /\ \A u \in Users : IdleRequest.wr[u] = Unwritten
BY MembershipAssumption
   DEF IdleRequest, NoWrites, Transactions, Operations, Roles, Unwritten

\* The record that Authorise starts from.
LEMMA AuthoriseFacts ==
    ASSUME req \in [Requests -> Transactions], NEW r \in Requests,
           NEW op \in Operations, NEW a \in Users, NEW u \in Users, NEW n \in Roles,
           Authorise(r, op, a, u, n)
    PROVE  /\ req' \in [Requests -> Transactions]
           /\ req'[r].pc = "read" /\ \A v \in Users : req'[r].wr[v] = Unwritten
           /\ \A q \in Requests : q # r => req'[q] = req[q]
<1> DEFINE b == IF op = "transfer" THEN a ELSE Founder
           t == [IdleRequest EXCEPT !.pc = "read", !.op = op, !.target = u, !.new = n, !.actor = b]
<1>0. b \in Users
  BY MembershipAssumption
<1> HIDE DEF b
<1>1. t \in Transactions /\ t.pc = "read" /\ t.wr = IdleRequest.wr
  BY <1>0, IdleFacts DEF Transactions
<1>2. req' = [req EXCEPT ![r] = t]
  BY DEF Authorise, b
<1> HIDE DEF t
<1>3. QED
  BY <1>1, <1>2, IdleFacts

\* A step that writes no row changes pc and seen alone.
LEMMA PcFacts ==
    ASSUME req \in [Requests -> Transactions], NEW r \in Requests,
           NEW p \in {"write", "trigger", "commit"}, NEW s \in [Users -> 0..MaxJoins],
           req' = [req EXCEPT ![r] = [req[r] EXCEPT !.pc = p, !.seen = s]]
    PROVE  /\ req' \in [Requests -> Transactions]
           /\ req'[r].pc = p
           /\ req'[r].op = req[r].op /\ req'[r].actor = req[r].actor
           /\ req'[r].target = req[r].target /\ req'[r].wr = req[r].wr
           /\ \A q \in Requests : q # r => req'[q] = req[q]
BY DEF Transactions

LEMMA PutFacts ==
    ASSUME req \in [Requests -> Transactions], NEW r \in Requests, NEW u \in Users,
           NEW rl \in Roles, NEW p \in {"promote", "index", "trigger"}, Put(r, u, rl, p)
    PROVE  /\ req' \in [Requests -> Transactions]
           /\ req'[r].pc = p
           /\ req'[r].op = req[r].op /\ req'[r].actor = req[r].actor
           /\ req'[r].target = req[r].target
           /\ req'[r].wr = [req[r].wr EXCEPT ![u] = rl]
           /\ \A q \in Requests : q # r => req'[q] = req[q]
<1> DEFINE t == [req[r] EXCEPT !.wr = [req[r].wr EXCEPT ![u] = rl], !.pc = p]
<1>1. req' = [req EXCEPT ![r] = t]
  BY DEF Put, Transactions
<1>2. [req[r].wr EXCEPT ![u] = rl] \in [Users -> Roles \cup {Unwritten}]
  BY DEF Transactions
<1>3. /\ t \in Transactions /\ t.pc = p
      /\ t.op = req[r].op /\ t.actor = req[r].actor /\ t.target = req[r].target
      /\ t.wr = [req[r].wr EXCEPT ![u] = rl]
  BY <1>2 DEF Transactions
<1> HIDE DEF t
<1>4. QED
  BY <1>1, <1>3

LEMMA AbortFacts ==
    ASSUME req \in [Requests -> Transactions], NEW r \in Requests,
           req' = [req EXCEPT ![r] = IdleRequest]
    PROVE  /\ req' \in [Requests -> Transactions]
           /\ req'[r].pc = "idle" /\ \A u \in Users : req'[r].wr[u] = Unwritten
           /\ \A q \in Requests : q # r => req'[q] = req[q]
BY IdleFacts

-----------------------------------------------------------------------------
(* The invariant *)

\* The rows of a user are the committed ones under the transaction's own.
LEMMA OwnersOfView ==
    ASSUME NEW r, NEW u \in Users
    PROVE  u \in Owners(View(r)) <=>
              IF req[r].wr[u] = Unwritten THEN role[u] = "owner" ELSE req[r].wr[u] = "owner"
BY DEF Owners, View

LEMMA InitIInv == Init => IInv
<1> SUFFICES ASSUME Init PROVE IInv
  OBVIOUS
<1>1. \A r \in Requests :
          /\ req[r] \in Transactions
          /\ req[r].pc = "idle" /\ \A u \in Users : req[r].wr[u] = Unwritten
  BY IdleFacts DEF Init
<1>2. TypeOK
  BY <1>1, MembershipAssumption DEF Init, TypeOK, Roles
<1>3. RowsExclusive /\ WritesInv /\ TriggerStands
  BY <1>1 DEF RowsExclusive, WritesInv, WritesOf, TriggerStands, Written
<1>4. OwnerRowHeld /\ JoinsBounded
  BY <1>1 DEF OwnerRowHeld, JoinsBounded, Unwritten
<1>5. ExactlyOneOwner
  BY MembershipAssumption DEF Init, ExactlyOneOwner, Owners
<1>6. QED
  BY <1>2, <1>3, <1>4, <1>5 DEF IInv

\* A transaction that has no row after the step, while the committed rows stay.
LEMMA NoRowsIInv ==
    ASSUME IInv, NEW r \in Requests, UNCHANGED <<role, inc>>,
           req' \in [Requests -> Transactions],
           req'[r].pc \in {"idle", "read"}, \A u \in Users : req'[r].wr[u] = Unwritten,
           \A q \in Requests : q # r => req'[q] = req[q]
    PROVE  IInv'
<1> USE DEF IInv
<1>1. TypeOK'
  BY DEF TypeOK
<1>2. RowsExclusive' /\ WritesInv'
  BY DEF RowsExclusive, WritesInv, WritesOf, Written
<1>3. OwnerRowHeld' /\ JoinsBounded'
  BY DEF OwnerRowHeld, JoinsBounded, Written, Unwritten
<1>4. TriggerStands'
  <2>1. \A q \in Requests : q # r => View(q)' = View(q)
    BY DEF View
  <2>2. QED
    BY <2>1 DEF TriggerStands, Owners
<1>5. ExactlyOneOwner'
  BY DEF ExactlyOneOwner, Owners
<1>6. QED
  BY <1>1, <1>2, <1>3, <1>4, <1>5

LEMMA AbortIInv ==
    ASSUME IInv, NEW r \in Requests, Abort(r)
    PROVE  IInv'
BY AbortFacts, NoRowsIInv DEF Abort, IInv, TypeOK

LEMMA AuthoriseIInv ==
    ASSUME IInv, NEW r \in Requests, NEW op \in Operations, NEW a \in Users, NEW u \in Users,
           NEW n \in Roles, Authorise(r, op, a, u, n)
    PROVE  IInv'
<1>1. UNCHANGED <<role, inc>>
  BY DEF Authorise
<1>2. QED
  BY <1>1, AuthoriseFacts, NoRowsIInv DEF IInv, TypeOK

\* Read, EnterIndex and Trigger, which write no row.  Where the index lets an owner pass
\* it has found no other in what the transaction sees, so that the present owner's row is
\* among those the transaction has written; the trigger lets one owner pass.
LEMMA PcIInv ==
    ASSUME IInv, NEW r \in Requests, NEW p \in {"write", "trigger", "commit"},
           NEW s \in [Users -> 0..MaxJoins],
           req' = [req EXCEPT ![r] = [req[r] EXCEPT !.pc = p, !.seen = s]],
           UNCHANGED <<role, inc>>,
           p = "write" => /\ req[r].pc = "read"
                          /\ req[r].op = "transfer" => req[r].actor # req[r].target,
           p = "trigger" => req[r].pc = "index" /\ Unique(r, req[r].target),
           p = "commit" => req[r].pc = "trigger" /\ \E u \in Users : Owners(View(r)) = {u}
    PROVE  IInv'
<1> USE DEF IInv
<1>1. /\ req' \in [Requests -> Transactions]
      /\ req'[r].pc = p
      /\ req'[r].op = req[r].op /\ req'[r].actor = req[r].actor
      /\ req'[r].target = req[r].target /\ req'[r].wr = req[r].wr
      /\ \A q \in Requests : q # r => req'[q] = req[q]
  BY PcFacts DEF TypeOK
<1>2. TypeOK'
  BY <1>1 DEF TypeOK
<1>3. RowsExclusive'
  BY <1>1 DEF RowsExclusive, Written
<1>4. WritesInv'
  <2>1. req[r].actor \in Users /\ req[r].target \in Users
    BY DEF TypeOK, Transactions
  <2>2. QED
    BY <1>1, <2>1 DEF WritesInv, WritesOf, Written
<1>a. p = "trigger" => \E o \in Users : role[o] = "owner" /\ Written(r, o)
  <2>1. PICK o \in Users : role[o] = "owner"
    BY DEF ExactlyOneOwner, Owners
  <2>2. p = "trigger" => Written(r, req[r].target)
    BY DEF WritesInv, WritesOf, Written, Unwritten
  <2>3. QED
    BY <2>1, <2>2, OwnersOfView DEF Unique, Written
<1>5. OwnerRowHeld' /\ JoinsBounded'
  BY <1>1, <1>a DEF OwnerRowHeld, JoinsBounded, Written
<1>6. \A q \in Requests : View(q)' = View(q)
  BY <1>1 DEF View
<1>7. TriggerStands'
  BY <1>1, <1>6 DEF TriggerStands, Owners
<1>8. ExactlyOneOwner'
  BY DEF ExactlyOneOwner, Owners
<1>9. QED
  BY <1>2, <1>3, <1>4, <1>5, <1>7, <1>8

LEMMA ReadIInv ==
    ASSUME IInv, NEW r \in Requests, Read(r)
    PROVE  IInv'
<1>1. CASE Acceptable(r)
  <2>1. req' = [req EXCEPT ![r] = [req[r] EXCEPT !.pc = "write", !.seen = inc]]
    BY <1>1 DEF Read, IInv, TypeOK, Transactions
  <2>2. req[r].op = "transfer" => req[r].actor # req[r].target
    BY <1>1 DEF Acceptable
  <2>3. QED
    BY <1>1, <2>1, <2>2, PcIInv DEF Read, IInv, TypeOK
<1>2. CASE ~Acceptable(r)
  BY <1>2, AbortIInv DEF Read
<1>3. QED
  BY <1>1, <1>2

\* The write of one row, under its lock.  Where it makes an owner, the index comes next.
LEMMA PutIInv ==
    ASSUME IInv, NEW r \in Requests, NEW u \in Users, NEW rl \in Roles,
           NEW p \in {"promote", "index", "trigger"}, Put(r, u, rl, p),
           req[r].pc \in {"write", "promote"}, RowFree(r, u), rl = "owner" <=> p = "index",
           role[u] = "none" /\ rl # "none" => inc[u] < MaxJoins,
           IF req[r].op = "transfer"
           THEN (u = req[r].actor /\ rl = "administrator") \/ (u = req[r].target /\ rl = "owner")
           ELSE u = req[r].target,
           p = "promote" => req[r].pc = "write" /\ req[r].op = "transfer" /\ u = req[r].actor
    PROVE  IInv'
<1> USE DEF IInv
<1>1. /\ req' \in [Requests -> Transactions]
      /\ req'[r].pc = p
      /\ req'[r].op = req[r].op /\ req'[r].actor = req[r].actor
      /\ req'[r].target = req[r].target
      /\ req'[r].wr = [req[r].wr EXCEPT ![u] = rl]
      /\ \A q \in Requests : q # r => req'[q] = req[q]
  BY PutFacts DEF TypeOK
<1>2. UNCHANGED <<role, inc>>
  BY DEF Put
<1>3. /\ req[r].actor \in Users /\ req[r].target \in Users
      /\ req[r].wr \in [Users -> Roles \cup {Unwritten}]
  BY DEF TypeOK, Transactions
<1>4. rl # Unwritten
  BY DEF Roles, Unwritten
<1>5. \A v \in Users : req'[r].wr[v] = IF v = u THEN rl ELSE req[r].wr[v]
  BY <1>1, <1>3
<1>6. TypeOK'
  BY <1>1, <1>2 DEF TypeOK
<1>7. RowsExclusive'
  <2>1. \A q \in Requests : \A v \in Users : Written(q, v)' => Written(q, v) \/ (q = r /\ v = u)
    BY <1>1, <1>5 DEF Written
  <2>2. \A q \in Requests : q # r => ~Written(q, u)
    BY DEF RowFree, Written
  <2>3. QED
    BY <2>1, <2>2 DEF RowsExclusive
<1>8. WritesInv'
  <2>1. ASSUME NEW q \in Requests, q # r
        PROVE  req'[q] = req[q]
    BY <1>1, <2>1
  <2>2. req[r].op = "transfer" => req[r].actor # req[r].target
    BY DEF WritesInv, WritesOf
  <2>3. p = "promote" => req[r].op = "transfer" /\ ~Written(r, req[r].target)'
    BY <1>1, <1>3, <1>5, <2>2 DEF WritesInv, WritesOf, Written
  <2>4. \A v \in Users : Written(r, v)' =>
              v = req[r].target \/ (req[r].op = "transfer" /\ v = req[r].actor)
    BY <1>5 DEF WritesInv, WritesOf, Written
  <2>5. req[r].op = "transfer" =>
              /\ req'[r].wr[req[r].actor] \in {Unwritten, "administrator"}
              /\ req'[r].wr[req[r].target] \in {Unwritten, "owner"}
    BY <1>3, <1>5, <2>2 DEF WritesInv, WritesOf
  <2>a. p = "index" => req'[r].wr[req[r].target] = "owner"
    BY <1>3, <1>5
  <2>6. WritesOf(r)'
    BY <1>1, <2>2, <2>3, <2>4, <2>5, <2>a DEF WritesOf
  <2>7. \A q \in Requests : q # r => WritesOf(q)'
    BY <2>1 DEF WritesInv, WritesOf, Written
  <2>8. QED
    BY <2>6, <2>7 DEF WritesInv
<1>9. JoinsBounded'
  BY <1>1, <1>2, <1>5 DEF JoinsBounded
<1>10. OwnerRowHeld'
  <2>1. ASSUME NEW v \in Users, p # "index"
        PROVE  req'[r].wr[v] # "owner"
    BY <2>1, <1>3, <1>5 DEF WritesInv, WritesOf, Written, Unwritten
  <2>2. ASSUME NEW q \in Requests, q # r, NEW v \in Users, req'[q].wr[v] = "owner", req'[q].pc # "index"
        PROVE  \E o \in Users : role'[o] = "owner" /\ Written(q, o)'
    <3>1. req'[q] = req[q]
      BY <1>1, <2>2
    <3>2. PICK o \in Users : role[o] = "owner" /\ Written(q, o)
      BY <2>2, <3>1 DEF OwnerRowHeld
    <3>3. QED
      BY <1>2, <3>1, <3>2 DEF Written
  <2>3. QED
    BY <1>1, <2>1, <2>2 DEF OwnerRowHeld
<1>11. TriggerStands'
  <2>1. \A q \in Requests : q # r => View(q)' = View(q)
    BY <1>1, <1>2 DEF View
  <2>2. QED
    BY <1>1, <2>1 DEF TriggerStands, Owners
<1>12. ExactlyOneOwner'
  BY <1>2 DEF ExactlyOneOwner, Owners
<1>13. QED
  BY <1>6, <1>7, <1>8, <1>9, <1>10, <1>11, <1>12

LEMMA InsertIInv ==
    ASSUME IInv, NEW r \in Requests, Insert(r)
    PROVE  IInv'
<1>1. req[r].target \in Users /\ req[r].new \in Roles
  BY DEF IInv, TypeOK, Transactions
<1>2. QED
  BY <1>1, PutIInv, AbortIInv DEF Insert

LEMMA DeleteIInv ==
    ASSUME IInv, NEW r \in Requests, Delete(r)
    PROVE  IInv'
<1>1. req[r].target \in Users /\ "none" \in Roles
  BY DEF IInv, TypeOK, Transactions, Roles
<1>2. QED
  BY <1>1, PutIInv, AbortIInv DEF Delete

LEMMA ChangeRoleIInv ==
    ASSUME IInv, NEW r \in Requests, ChangeRole(r)
    PROVE  IInv'
<1>1. req[r].target \in Users /\ req[r].new \in Roles
  BY DEF IInv, TypeOK, Transactions
<1>2. QED
  BY <1>1, PutIInv, AbortIInv DEF ChangeRole, Update

LEMMA DemoteIInv ==
    ASSUME IInv, NEW r \in Requests, Demote(r)
    PROVE  IInv'
<1>1. req[r].actor \in Users /\ "administrator" \in Roles
  BY DEF IInv, TypeOK, Transactions, Roles
<1>2. QED
  BY <1>1, PutIInv, AbortIInv DEF Demote, Update

LEMMA PromoteIInv ==
    ASSUME IInv, NEW r \in Requests, Promote(r)
    PROVE  IInv'
<1>1. req[r].target \in Users /\ "owner" \in Roles /\ req[r].op = "transfer"
  BY DEF IInv, TypeOK, Transactions, Roles, WritesInv, WritesOf, Promote
<1>2. QED
  BY <1>1, PutIInv, AbortIInv DEF Promote, Update

LEMMA EnterIndexIInv ==
    ASSUME IInv, NEW r \in Requests, EnterIndex(r)
    PROVE  IInv'
<1>1. CASE Unique(r, req[r].target)
  <2>1. req' = [req EXCEPT ![r] = [req[r] EXCEPT !.pc = "trigger", !.seen = req[r].seen]]
    BY <1>1 DEF EnterIndex, IInv, TypeOK, Transactions
  <2>2. req[r].seen \in [Users -> 0..MaxJoins] /\ req[r].pc = "index"
    BY DEF EnterIndex, IInv, TypeOK, Transactions
  <2>3. UNCHANGED <<role, inc>>
    BY <1>1 DEF EnterIndex
  <2>4. QED
    BY <1>1, <2>1, <2>2, <2>3, PcIInv
<1>2. CASE ~Unique(r, req[r].target)
  BY <1>2, AbortIInv DEF EnterIndex
<1>3. QED
  BY <1>1, <1>2

\* The trigger counts; what it counts is finite, because a transaction writes two rows at
\* most and one owner is committed.
LEMMA TriggerIInv ==
    ASSUME IInv, NEW r \in Requests, Trigger(r)
    PROVE  IInv'
<1>1. CASE Cardinality(Owners(View(r))) = 1
  <2>1. req' = [req EXCEPT ![r] = [req[r] EXCEPT !.pc = "commit", !.seen = req[r].seen]]
    BY <1>1 DEF Trigger, IInv, TypeOK, Transactions
  <2>2. PICK o \in Users : Owners(role) = {o}
    BY DEF IInv, ExactlyOneOwner
  <2>3. Owners(View(r)) \subseteq {o, req[r].target, req[r].actor}
    <3>1. SUFFICES ASSUME NEW u \in Owners(View(r))
                   PROVE  u \in {o, req[r].target, req[r].actor}
      OBVIOUS
    <3>2. u \in Users
      BY DEF Owners
    <3>3. QED
      BY <2>2, <3>2, OwnersOfView DEF Owners, IInv, WritesInv, WritesOf, Written
  <2>4. IsFiniteSet({o, req[r].target, req[r].actor})
    <3>1. IsFiniteSet({o})
      BY FS_Singleton
    <3>2. IsFiniteSet({o} \cup {req[r].target})
      BY <3>1, FS_AddElement
    <3>3. IsFiniteSet(({o} \cup {req[r].target}) \cup {req[r].actor})
      BY <3>2, FS_AddElement
    <3>4. {o, req[r].target, req[r].actor} = ({o} \cup {req[r].target}) \cup {req[r].actor}
      OBVIOUS
    <3>5. QED
      BY <3>3, <3>4
  <2>5. IsFiniteSet(Owners(View(r)))
    BY <2>3, <2>4, FS_Subset
  <2>6. PICK x : Owners(View(r)) = {x}
    BY <1>1, <2>5, FS_Singleton
  <2>7. x \in Users
    BY <2>6 DEF Owners
  <2>8. req[r].seen \in [Users -> 0..MaxJoins] /\ req[r].pc = "trigger"
    BY DEF Trigger, IInv, TypeOK, Transactions
  <2>9. UNCHANGED <<role, inc>>
    BY <1>1 DEF Trigger
  <2>10. QED
    BY <2>1, <2>6, <2>7, <2>8, <2>9, PcIInv
<1>2. CASE Cardinality(Owners(View(r))) # 1
  BY <1>2, AbortIInv DEF Trigger
<1>3. QED
  BY <1>1, <1>2

\* What the commit of r does to the committed rows.
LEMMA CommitRows ==
    ASSUME IInv, NEW r \in Requests, Commit(r), NEW u \in Users
    PROVE  /\ role'[u] = IF Written(r, u) THEN req[r].wr[u] ELSE role[u]
           /\ ~Written(r, u) => inc'[u] = inc[u]
BY DEF Commit, View, Written, IInv, TypeOK

\* What another transaction sees keeps one owner when r commits: either it has locked the
\* owner's row, and then r has neither changed the owner nor made one, or it has written
\* nothing that concerns owners.
LEMMA CommitIInv ==
    ASSUME IInv, NEW r \in Requests, Commit(r)
    PROVE  IInv'
<1> USE DEF IInv
<1>1. /\ req' \in [Requests -> Transactions]
      /\ req'[r].pc = "idle" /\ \A u \in Users : req'[r].wr[u] = Unwritten
      /\ \A q \in Requests : q # r => req'[q] = req[q]
  BY AbortFacts DEF Commit, TypeOK
<1>2. \A u \in Users : role'[u] = IF Written(r, u) THEN req[r].wr[u] ELSE role[u]
  BY CommitRows
<1>3. PICK o \in Users : Owners(role) = {o}
  BY DEF ExactlyOneOwner
<1>4. PICK n \in Users : Owners(View(r)) = {n}
  BY DEF Commit, TriggerStands
<1>5. Owners(role') = {n}
  BY <1>4 DEF Commit
<1>6. TypeOK'
  <2>1. role' \in [Users -> Roles]
    BY DEF Commit, View, TypeOK, Transactions, Unwritten, Roles
  <2>2. inc' \in [Users -> 0..MaxJoins]
    <3>1. ASSUME NEW u \in Users, role[u] = "none", View(r)[u] # "none"
          PROVE  inc[u] + 1 \in 0..MaxJoins
      <4>1. inc[u] < MaxJoins
        BY <3>1 DEF JoinsBounded, View
      <4>2. QED
        BY <4>1, MembershipAssumption DEF TypeOK
    <3>2. QED
      BY <3>1 DEF Commit, TypeOK
  <2>3. QED
    BY <1>1, <2>1, <2>2 DEF TypeOK
<1>7. RowsExclusive' /\ WritesInv'
  BY <1>1 DEF RowsExclusive, WritesInv, WritesOf, Written
<1>8. \A q \in Requests : \A u \in Users :
          q # r /\ Written(q, u) => ~Written(r, u) /\ role'[u] = role[u] /\ inc'[u] = inc[u]
  BY CommitRows DEF RowsExclusive
<1>9. ASSUME NEW q \in Requests, q # r, Written(q, o)
      PROVE  n = o /\ \A u \in Users : role'[u] = "owner" <=> role[u] = "owner"
  <2>1. ~Written(r, o)
    BY <1>8, <1>9
  <2>2. \A u \in Users : req[r].wr[u] # "owner"
    BY <1>3, <2>1 DEF OwnerRowHeld, Owners, Commit
  <2>3. QED
    BY <1>2, <1>3, <1>5, <2>1, <2>2 DEF Owners
<1>10. ASSUME NEW q \in Requests, q # r, req[q].pc # "index", ~Written(q, o)
       PROVE  ~Written(q, n) /\ \A u \in Users : req[q].wr[u] # "owner"
  <2>1. \A u \in Users : req[q].wr[u] # "owner"
    BY <1>3, <1>10 DEF OwnerRowHeld, Owners
  <2>2. ~Written(q, n)
    BY <1>2, <1>3, <1>5, <1>8, <1>10 DEF Owners
  <2>3. QED
    BY <2>1, <2>2
<1>11. OwnerRowHeld'
  BY <1>1, <1>3, <1>9, <1>10 DEF OwnerRowHeld, Written, Owners, Unwritten
<1>12. TriggerStands'
  <2>1. SUFFICES ASSUME NEW q \in Requests, q # r, req[q].pc = "commit"
                 PROVE  \E u \in Users : Owners(View(q))' = {u}
    BY <1>1 DEF TriggerStands
  <2>2. \A u \in Users : View(q)'[u] = IF Written(q, u) THEN req[q].wr[u] ELSE role'[u]
    BY <1>1, <2>1 DEF View, Written
  <2>3. Owners(View(q))' = {u \in Users : View(q)'[u] = "owner"}
    BY DEF Owners
  <2>4. CASE Written(q, o)
    <3>1. Owners(View(q))' = Owners(View(q))
      BY <1>9, <2>1, <2>2, <2>3, <2>4, OwnersOfView DEF Written, Owners
    <3>2. QED
      BY <2>1, <3>1 DEF TriggerStands
  <2>5. CASE ~Written(q, o)
    <3>1. Owners(View(q))' = {n}
      BY <1>5, <1>10, <2>1, <2>2, <2>3, <2>5 DEF Owners
    <3>2. QED
      BY <3>1
  <2>6. QED
    BY <2>4, <2>5
<1>13. JoinsBounded'
  BY <1>1, <1>8 DEF JoinsBounded, Written
<1>14. ExactlyOneOwner'
  BY <1>5 DEF ExactlyOneOwner, Owners
<1>15. QED
  BY <1>6, <1>7, <1>11, <1>12, <1>13, <1>14

LEMMA NextIInv == IInv /\ [Next]_vars => IInv'
<1> SUFFICES ASSUME IInv, [Next]_vars PROVE IInv'
  OBVIOUS
<1>1. ASSUME NEW r \in Requests, Progress(r) PROVE IInv'
  BY <1>1, ReadIInv, InsertIInv, DeleteIInv, ChangeRoleIInv, DemoteIInv, PromoteIInv,
     EnterIndexIInv, TriggerIInv, CommitIInv DEF Progress
<1>2. ASSUME NEW r \in Requests, DeadlockVictim(r) \/ Fail(r) PROVE IInv'
  BY <1>2, AbortIInv DEF DeadlockVictim, Fail
<1>3. ASSUME NEW r \in Requests, NEW a \in Users, NEW u \in Users,
             \/ \E n \in Roles \ {"none"}, op \in {"add", "change"} : Authorise(r, op, a, u, n)
             \/ \E op \in {"remove", "transfer"} : Authorise(r, op, a, u, "null")
      PROVE  IInv'
  BY <1>3, AuthoriseIInv DEF Operations, Roles
<1>4. CASE UNCHANGED vars
  <2>1. UNCHANGED <<role, inc, req>>
    BY <1>4 DEF vars
  <2>2. TypeOK' /\ RowsExclusive' /\ WritesInv'
    BY <2>1 DEF IInv, TypeOK, RowsExclusive, WritesInv, WritesOf, Written
  <2>3. OwnerRowHeld' /\ JoinsBounded'
    BY <2>1 DEF IInv, OwnerRowHeld, JoinsBounded, Written
  <2>4. \A q \in Requests : View(q)' = View(q)
    BY <2>1 DEF View
  <2>5. TriggerStands' /\ ExactlyOneOwner'
    BY <2>1, <2>4 DEF IInv, TriggerStands, ExactlyOneOwner, Owners
  <2>6. QED
    BY <2>2, <2>3, <2>5 DEF IInv
<1>5. QED
  BY <1>1, <1>2, <1>3, <1>4 DEF Next

\* The inductive invariant of concurrent changes of membership.
THEOREM SafetyInductive == Spec => []IInv
BY InitIInv, NextIInv, PTL DEF Spec

\* Rows and transactions keep their types.
THEOREM TypeCorrect == Spec => []TypeOK
<1>1. IInv => TypeOK
  BY DEF IInv
<1>2. QED
  BY <1>1, SafetyInductive, PTL

\* For any number of concurrent transfers, removals, additions and role changes there is
\* exactly one committed owner.
THEOREM OneOwner == Spec => []ExactlyOneOwner
<1>1. IInv => ExactlyOneOwner
  BY DEF IInv
<1>2. QED
  BY <1>1, SafetyInductive, PTL

\* Only a commit changes roles, and a commit that takes the role from its owner gives it
\* to another: it has written two rows, and so is a transfer, whose actor is not the new
\* owner.
LEMMA DeposedBySelf ==
    ASSUME IInv, [Next]_vars, NEW u \in Users, role[u] = "owner", role'[u] # "owner"
    PROVE  \E r \in Requests : Commit(r) /\ req[r].op = "transfer" /\ req[r].actor = u
<1> USE DEF IInv
<1>1. PICK r \in Requests : Commit(r)
  BY DEF Next, Progress, vars, Read, Insert, Delete, ChangeRole, Demote, Promote, Update, Put,
         EnterIndex, Trigger, DeadlockVictim, Fail, Abort, Authorise
<1>2. req[r].pc = "commit" /\ Written(r, u) /\ req[r].wr[u] # "owner"
  BY <1>1, CommitRows DEF Commit
<1>3. PICK n \in Users : Owners(View(r)) = {n}
  BY <1>2 DEF TriggerStands
<1>4. n # u /\ role[n] # "owner"
  BY <1>2, <1>3, OwnersOfView DEF Written, ExactlyOneOwner, Owners
<1>5. Written(r, n) /\ req[r].wr[n] = "owner"
  BY <1>3, <1>4, OwnersOfView DEF Written
<1>6. req[r].op = "transfer" /\ req[r].actor = u
  BY <1>2, <1>4, <1>5 DEF WritesInv, WritesOf, Written
<1>7. QED
  BY <1>1, <1>6

\* Nobody but the owner takes the role from the owner, whatever the other transactions
\* had read before.
THEOREM DeposedOnlyBySelf == Spec => OwnerDeposedOnlyBySelf
<1>1. IInv /\ [Next]_vars =>
         [\A u \in Users :
             (role[u] = "owner" /\ role'[u] # "owner")
                => \E r \in Requests : /\ Commit(r)
                                       /\ req[r].op = "transfer" /\ req[r].actor = u]_vars
  BY DeposedBySelf
<1>2. QED
  BY <1>1, SafetyInductive, PTL DEF Spec, OwnerDeposedOnlyBySelf
=============================================================================
