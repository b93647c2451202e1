------------------------- MODULE InvitationsProofs -------------------------
(***************************************************************************)
(* Proofs about Invitations for any number of users, invitations and       *)
(* concurrent requests.                                                    *)
(***************************************************************************)
EXTENDS Invitations, FiniteSetTheorems, TLAPS

\* OneOpenInvitation without cardinalities, as the unique index enforces it.
OpenUnique ==
    \A i, j \in DOMAIN invited :
        (invited[i] = invited[j] /\ {i, j} \cap (accepted \cup revoked) = {}) => i = j

\* What a request has read of its invitation still holds when it writes: rows are
\* never deleted, nor made out to another user or for another workspace.
Found(r) ==
    /\ req[r].pc \in {"member", "accept", "revoke"} => Exists(req[r].id)
    /\ req[r].pc \in {"member", "accept"} => invited[req[r].id] = req[r].usr
    /\ req[r].pc = "accept" /\ req[r].joinWs => req[r].id \in toWs

FoundInv == \A r \in Requests : Found(r)

IInv ==
    /\ TypeOK
    /\ OpenUnique
    /\ FoundInv

-----------------------------------------------------------------------------
LEMMA IdleFacts == IdleRequest \in RequestStates /\ IdleRequest.pc = "idle"
<1>1. (CHOOSE u \in Users : TRUE) \in Users /\ (CHOOSE i \in InvIds : TRUE) \in InvIds
  BY InvitationsAssumption
<1>2. QED
  BY <1>1 DEF IdleRequest, RequestStates

\* A request that ends leaves the others as they are.
LEMMA FinishFacts ==
    ASSUME TypeOK, NEW r \in Requests, Finish(r)
    PROVE  /\ req' \in [Requests -> RequestStates]
           /\ req'[r].pc = "idle"
           /\ \A q \in Requests : q # r => req'[q] = req[q]
BY IdleFacts DEF Finish, TypeOK

LEMMA InitIInv == Init => IInv
<1> SUFFICES ASSUME Init PROVE IInv
  OBVIOUS
<1>1. DOMAIN invited = {}
  BY DEF Init
<1>2. req \in [Requests -> RequestStates] /\ \A r \in Requests : req[r].pc = "idle"
  BY IdleFacts DEF Init
<1>3. TypeOK
  BY <1>1, <1>2 DEF Init, TypeOK
<1>4. QED
  BY <1>1, <1>2, <1>3 DEF IInv, OpenUnique, FoundInv, Found

\* Steps that write at most the memberships, which no conjunct but TypeOK speaks of.
LEMMA SameRowsIInv ==
    ASSUME IInv, UNCHANGED rows, member' \subseteq Users, wsMember' \subseteq Users,
           req' \in [Requests -> RequestStates],
           \A r \in Requests : req'[r] = req[r] \/ Found(r)'
    PROVE  IInv'
<1> USE DEF IInv, rows
<1>1. TypeOK' /\ OpenUnique'
  BY DEF TypeOK, OpenUnique
<1>2. ASSUME NEW r \in Requests PROVE Found(r)'
  BY DEF FoundInv, Found, Exists
<1>3. QED
  BY <1>1, <1>2 DEF FoundInv

\* A request that ends, fails or reads, and writes nothing.
LEMMA ReadsIInv ==
    ASSUME IInv, NEW r \in Requests, UNCHANGED <<rows, members>>,
           \/ Finish(r)
           \/ \E u \in Users : FindActive(r, u) \/ FindForWorkspace(r, u)
           \/ \E i \in InvIds : FindByToken(r, i) \/ FindRevocable(r, i)
           \/ LookUpMembership(r)
    PROVE  IInv'
<1> USE DEF IInv
<1>1. member' \subseteq Users /\ wsMember' \subseteq Users /\ UNCHANGED rows
  BY DEF TypeOK, members
<1>2. CASE Finish(r)
  BY <1>1, <1>2, FinishFacts, SameRowsIInv DEF Found
<1>3. CASE \E u \in Users : FindActive(r, u) \/ FindForWorkspace(r, u)
  <2>1. PICK u \in Users : FindActive(r, u) \/ FindForWorkspace(r, u)
    BY <1>3
  <2>2. /\ req' \in [Requests -> RequestStates] /\ req'[r].pc \in {"insert", "addWs"}
        /\ \A q \in Requests : q # r => req'[q] = req[q]
    BY <2>1 DEF FindActive, FindForWorkspace, TypeOK, RequestStates
  <2>3. QED
    BY <1>1, <2>2, SameRowsIInv DEF Found
<1>4. CASE \E i \in InvIds : FindByToken(r, i)
  <2>1. PICK i \in InvIds : FindByToken(r, i)
    BY <1>4
  <2>2. /\ req' \in [Requests -> RequestStates]
        /\ req'[r].pc = "member" /\ req'[r].usr = invited[i] /\ req'[r].id = i
        /\ \A q \in Requests : q # r => req'[q] = req[q]
    BY <2>1 DEF FindByToken, Exists, TypeOK, RequestStates
  <2>3. Found(r)'
    BY <1>1, <2>1, <2>2 DEF Found, FindByToken, Exists, rows
  <2>4. QED
    BY <1>1, <2>2, <2>3, SameRowsIInv
<1>5. CASE \E i \in InvIds : FindRevocable(r, i)
  <2>1. PICK i \in InvIds : FindRevocable(r, i)
    BY <1>5
  <2>2. /\ req' \in [Requests -> RequestStates]
        /\ req'[r].pc = "revoke" /\ req'[r].id = i
        /\ \A q \in Requests : q # r => req'[q] = req[q]
    BY <2>1 DEF FindRevocable, TypeOK, RequestStates
  <2>3. Found(r)'
    BY <1>1, <2>1, <2>2 DEF Found, FindRevocable, Exists, rows
  <2>4. QED
    BY <1>1, <2>2, <2>3, SameRowsIInv
<1>6. CASE LookUpMembership(r)
  <2> DEFINE j == req[r].usr \notin member
             w == req[r].id \in toWs /\ req[r].usr \notin wsMember
  <2>1. /\ req' \in [Requests -> RequestStates]
        /\ req'[r].pc = "accept" /\ req'[r].usr = req[r].usr /\ req'[r].id = req[r].id
        /\ req'[r].joinWs => req[r].id \in toWs
        /\ \A q \in Requests : q # r => req'[q] = req[q]
    <3>1. j \in BOOLEAN /\ w \in BOOLEAN /\ (w => req[r].id \in toWs)
      OBVIOUS
    <3>2. req' = [req EXCEPT ![r].pc = "accept", ![r].join = j, ![r].joinWs = w]
      BY <1>6 DEF LookUpMembership
    <3> HIDE DEF j, w
    <3>3. QED
      BY <3>1, <3>2 DEF TypeOK, RequestStates
  <2>2. Found(r)'
    BY <1>1, <1>6, <2>1 DEF LookUpMembership, FoundInv, Found, Exists, rows
  <2>3. QED
    BY <1>1, <2>1, <2>2, SameRowsIInv
<1>7. QED
  BY <1>2, <1>3, <1>4, <1>5, <1>6

\* An administrator's INSERT of a workspace membership.
LEMMA AddWorkspaceMemberIInv ==
    ASSUME IInv, NEW r \in Requests, AddWorkspaceMember(r)
    PROVE  IInv'
<1>1. Finish(r) /\ UNCHANGED rows /\ member' \subseteq Users /\ wsMember' \subseteq Users
  BY DEF AddWorkspaceMember, IInv, TypeOK, RequestStates
<1>2. QED
  BY <1>1, FinishFacts, SameRowsIInv DEF IInv, Found

\* The index refuses a second open row, whatever the service had read before.
LEMMA CreateIInv ==
    ASSUME IInv, NEW r \in Requests, NEW i \in InvIds, NEW w \in BOOLEAN, Create(r, i, w)
    PROVE  IInv'
<1> USE DEF IInv
<1>1. /\ Finish(r) /\ i \notin DOMAIN invited
      /\ UNCHANGED <<accepted, revoked, expired, member, wsMember>>
  BY DEF Create, members, Exists
<1>2. CASE Open(req[r].usr) # {}
  BY <1>1, <1>2, ReadsIInv DEF Create, rows, members
<1>3. CASE Open(req[r].usr) = {}
  <2>1. /\ DOMAIN invited' = DOMAIN invited \cup {i}
        /\ invited'[i] = req[r].usr
        /\ \A j \in DOMAIN invited : j # i /\ invited'[j] = invited[j]
        /\ toWs \subseteq toWs' /\ toWs' \subseteq toWs \cup {i}
    BY <1>1, <1>3 DEF Create
  <2>2. req[r].usr \in Users
    BY DEF TypeOK, RequestStates
  <2>3. TypeOK'
    BY <1>1, <2>1, <2>2, FinishFacts DEF TypeOK
  <2>4. OpenUnique'
    BY <1>1, <1>3, <2>1 DEF OpenUnique, Open, TypeOK
  <2>5. ASSUME NEW q \in Requests PROVE Found(q)'
    BY <1>1, <2>1, FinishFacts DEF FoundInv, Found, Exists
  <2>6. QED
    BY <2>3, <2>4, <2>5 DEF FoundInv
<1>4. QED
  BY <1>2, <1>3

\* Closing more invitations keeps the open ones distinct.
LEMMA CloseIInv ==
    ASSUME IInv, NEW r \in Requests, Accept(r) \/ Revoke(r)
    PROVE  IInv'
<1> USE DEF IInv
<1>1. /\ Finish(r) /\ Exists(req[r].id) /\ req[r].usr \in Users
      /\ UNCHANGED <<invited, expired, toWs>>
      /\ accepted' \in {accepted, accepted \cup {req[r].id}}
      /\ revoked' \in {revoked, revoked \cup {req[r].id}}
  BY DEF Accept, Revoke, members, FoundInv, Found, TypeOK, RequestStates
<1>2. member' \subseteq Users /\ wsMember' \subseteq Users
  BY <1>1 DEF Accept, Revoke, members, TypeOK
<1>3. TypeOK'
  BY <1>1, <1>2, FinishFacts DEF TypeOK, Exists
<1>4. OpenUnique'
  BY <1>1 DEF OpenUnique
<1>5. ASSUME NEW q \in Requests PROVE Found(q)'
  BY <1>1, FinishFacts DEF FoundInv, Found, Exists
<1>6. QED
  BY <1>3, <1>4, <1>5 DEF FoundInv

LEMMA ExpireIInv ==
    ASSUME IInv, NEW i \in InvIds, Expire(i)
    PROVE  IInv'
BY DEF IInv, Expire, Exists, members, TypeOK, OpenUnique, FoundInv, Found

LEMMA NextIInv == IInv /\ [Next]_vars => IInv'
<1> SUFFICES ASSUME IInv, [Next]_vars PROVE IInv'
  OBVIOUS
<1>1. ASSUME NEW r \in Requests, NEW u \in Users, FindActive(r, u) \/ FindForWorkspace(r, u)
      PROVE  IInv'
  BY <1>1, ReadsIInv DEF FindActive, FindForWorkspace
<1>2. ASSUME NEW r \in Requests, NEW i \in InvIds, NEW w \in BOOLEAN, Create(r, i, w) PROVE IInv'
  BY <1>2, CreateIInv
<1>3. ASSUME NEW r \in Requests, NEW i \in InvIds, FindByToken(r, i) \/ FindRevocable(r, i)
      PROVE  IInv'
  BY <1>3, ReadsIInv DEF FindByToken, FindRevocable
<1>4. ASSUME NEW r \in Requests, LookUpMembership(r) \/ Fail(r) PROVE IInv'
  BY <1>4, ReadsIInv DEF LookUpMembership, Fail
<1>5. ASSUME NEW r \in Requests, Accept(r) \/ Revoke(r) PROVE IInv'
  BY <1>5, CloseIInv
<1>6. ASSUME NEW i \in InvIds, Expire(i) PROVE IInv'
  BY <1>6, ExpireIInv
<1>7. ASSUME UNCHANGED <<rows, req>>, member' \subseteq Users, wsMember' \subseteq Users
      PROVE  IInv'
  BY <1>7, SameRowsIInv DEF IInv, TypeOK
<1>8. ASSUME NEW i \in InvIds, FindExpired(i) PROVE IInv'
  BY <1>7, <1>8 DEF FindExpired, IInv, TypeOK, members
<1>9. ASSUME NEW u \in Users, AddMember(u) \/ RemoveMember(u) \/ RemoveWorkspaceMember(u)
      PROVE  IInv'
  BY <1>7, <1>9 DEF AddMember, RemoveMember, RemoveWorkspaceMember, IInv, TypeOK
<1>10. CASE UNCHANGED vars
  BY <1>7, <1>10 DEF vars, IInv, TypeOK, members
<1>11. QED
  BY <1>1, <1>2, <1>3, <1>4, <1>5, <1>6, <1>8, <1>9, <1>10, AddWorkspaceMemberIInv DEF Next

\* The inductive invariant of inviting, accepting and revoking at once.
THEOREM SafetyInductive == Spec => []IInv
BY InitIInv, NextIInv, PTL DEF Spec

\* Rows and requests keep their types, and no mark is set on a missing row.
THEOREM TypeCorrect == Spec => []TypeOK
<1>1. IInv => TypeOK
  BY DEF IInv
<1>2. QED
  BY <1>1, SafetyInductive, PTL

LEMMA UniqueIsOne == IInv => OneOpenInvitation
<1> SUFFICES ASSUME IInv, NEW u \in Users PROVE Cardinality(Open(u)) <= 1
  BY DEF OneOpenInvitation
<1>1. CASE Open(u) = {}
  BY <1>1, FS_EmptySet
<1>2. CASE Open(u) # {}
  <2>1. PICK i : i \in Open(u)
    BY <1>2
  <2>2. Open(u) = {i}
    BY <2>1 DEF IInv, OpenUnique, Open
  <2>3. Cardinality(Open(u)) = 1
    BY <2>2, FS_Singleton
  <2>4. QED
    BY <2>3
<1>3. QED
  BY <1>1, <1>2

\* However many administrators invite a user at once, one open invitation is left.
THEOREM InvitedOnce == Spec => []OneOpenInvitation
BY UniqueIsOne, SafetyInductive, PTL

\* Accept adds the user the invitation was made out to when it was read, and still is,
\* and marks it.
LEMMA AcceptingStep ==
    ASSUME IInv, NEW r \in Requests, Accept(r),
           NEW u \in (member' \ member) \cup (wsMember' \ wsMember)
    PROVE  \E i \in DOMAIN invited : /\ Accepts(r, i) /\ invited[i] = u
                                     /\ u \in wsMember' \ wsMember => i \in toWs
<1>1. /\ u = req[r].usr
      /\ u \in wsMember' \ wsMember => req[r].joinWs
      /\ req[r].id \in accepted'
      /\ <<"invitation.accepted", req[r].id>> \in audit'
      /\ req[r].pc = "accept"
  BY DEF Accept, members
<1>2. req[r].id \in DOMAIN invited /\ invited[req[r].id] = u
  BY <1>1 DEF IInv, FoundInv, Found, Exists
<1>3. Accepts(r, req[r].id)
  BY <1>1 DEF Accepts
<1>4. QED
  BY <1>1, <1>2, <1>3 DEF IInv, FoundInv, Found

\* Other steps add nobody, but for those of the administrators.
LEMMA JoiningStep ==
    ASSUME IInv, [Next]_vars, NEW u \in (member' \ member) \cup (wsMember' \ wsMember)
    PROVE  \/ AddMember(u)
           \/ \E r \in Requests : AddWorkspaceMember(r) /\ req[r].usr = u
           \/ \E r \in Requests, i \in DOMAIN invited :
                 /\ Accepts(r, i) /\ invited[i] = u
                 /\ u \in wsMember' \ wsMember => i \in toWs
<1>1. CASE \E r \in Requests : Accept(r)
  BY <1>1, AcceptingStep
<1>2. CASE \E r \in Requests : AddWorkspaceMember(r)
  BY <1>2 DEF AddWorkspaceMember
<1>3. CASE \E v \in Users : AddMember(v)
  <2>1. PICK v \in Users : AddMember(v)
    BY <1>3
  <2>2. u = v
    BY <2>1 DEF AddMember
  <2>3. QED
    BY <2>1, <2>2
<1>4. QED
  BY <1>1, <1>2, <1>3
     DEF Next, vars, members, FindActive, Create, FindByToken, FindRevocable, LookUpMembership,
         Revoke, Fail, FindExpired, Expire, RemoveMember, RemoveWorkspaceMember, FindForWorkspace

\* Whom no administrator adds joins by an invitation of his own, which the step that adds
\* him marks accepted.
THEOREM JoinsAreInvited == Spec => JoinsByOwnInvitation
<1>1. IInv /\ [Next]_vars =>
         [\A u \in (member' \ member) \cup (wsMember' \ wsMember) :
             \/ AddMember(u)
             \/ \E r \in Requests : AddWorkspaceMember(r) /\ req[r].usr = u
             \/ \E r \in Requests, i \in DOMAIN invited :
                   /\ Accepts(r, i) /\ invited[i] = u
                   /\ u \in wsMember' \ wsMember => i \in toWs]_vars
  BY JoiningStep
<1>2. QED
  BY <1>1, SafetyInductive, PTL DEF Spec, JoinsByOwnInvitation

\* No mark is ever taken off, and no step finds a closed invitation acceptable.
LEMMA ClosedStep ==
    ASSUME IInv, [Next]_vars, NEW i \in InvIds, Closed(i)
    PROVE  Closed(i)'
<1>1. /\ DOMAIN invited \subseteq DOMAIN invited'
      /\ accepted \subseteq accepted' /\ revoked \subseteq revoked' /\ expired \subseteq expired'
  BY DEF Next, vars, rows, FindActive, Create, FindByToken, FindRevocable, LookUpMembership,
         Accept, Revoke, Fail, FindExpired, Expire, AddMember, RemoveMember,
         FindForWorkspace, AddWorkspaceMember, RemoveWorkspaceMember
<1>2. ASSUME NEW r \in Requests, req'[r].pc \in {"member", "accept"} PROVE req'[r].id # i
  <2>1. ASSUME req'[r] = req[r] PROVE req'[r].id # i
    BY <1>2, <2>1 DEF Closed
  <2>2. ASSUME NEW q \in Requests, Finish(q) PROVE req'[r].id # i
    BY <1>2, <2>1, <2>2, FinishFacts DEF IInv
  <2>3. ASSUME NEW q \in Requests, NEW u \in Users, FindActive(q, u) \/ FindForWorkspace(q, u)
        PROVE  req'[r].id # i
    BY <1>2, <2>1, <2>3 DEF FindActive, FindForWorkspace, IInv, TypeOK, RequestStates
  <2>4. ASSUME NEW q \in Requests, NEW j \in InvIds, FindRevocable(q, j) PROVE req'[r].id # i
    BY <1>2, <2>1, <2>4 DEF FindRevocable, IInv, TypeOK, RequestStates
  <2>5. ASSUME NEW q \in Requests, NEW j \in InvIds, FindByToken(q, j) PROVE req'[r].id # i
    BY <2>1, <2>5 DEF FindByToken, Closed, IInv, TypeOK, RequestStates
  <2>6. ASSUME NEW q \in Requests, LookUpMembership(q) PROVE req'[r].id # i
    BY <2>1, <2>6 DEF LookUpMembership, Closed, IInv, TypeOK, RequestStates
  <2>7. ASSUME NEW q \in Requests, NEW j \in InvIds, NEW w \in BOOLEAN, Create(q, j, w)
        PROVE  req'[r].id # i
    BY <2>2, <2>7 DEF Create
  <2>8. ASSUME NEW q \in Requests, Accept(q) \/ Revoke(q) \/ AddWorkspaceMember(q) \/ Fail(q)
        PROVE  req'[r].id # i
    BY <2>2, <2>8 DEF Accept, Revoke, AddWorkspaceMember, Fail
  <2>9. ASSUME UNCHANGED req PROVE req'[r].id # i
    BY <2>1, <2>9
  <2>10. QED
    BY <2>3, <2>4, <2>5, <2>6, <2>7, <2>8, <2>9
    DEF Next, vars, FindExpired, Expire, AddMember, RemoveMember, RemoveWorkspaceMember
<1>3. QED
  BY <1>1, <1>2 DEF Closed, Exists

\* An invitation that is closed with no acceptance under way is never accepted again.
THEOREM ClosedForGood == Spec => ClosedStaysClosed
<1>1. IInv /\ [Next]_vars => [\A i \in InvIds : Closed(i) => Closed(i)']_vars
  BY ClosedStep
<1>2. QED
  BY <1>1, SafetyInductive, PTL DEF Spec, ClosedStaysClosed
=============================================================================
