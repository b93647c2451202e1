------------------------ MODULE RefreshTokensProofs ------------------------
(***************************************************************************)
(* Proofs about RefreshTokens for any number of users, organisations,      *)
(* requests and tokens.                                                    *)
(***************************************************************************)
EXTENDS RefreshTokens, TLAPS

-----------------------------------------------------------------------------
(* The inductive invariant *)

\* A rotation in flight holds the lock of the live row it will deactivate, and
\* its successor is inserted, uncommitted, in the same family.
RotatingHoldsLock ==
    \A r \in Requests : req[r].pc = "rotating" =>
        /\ lock[req[r].tk] = r
        /\ st[req[r].tk] = "active"
        /\ st[req[r].nw] = "pending"
        /\ fam[req[r].nw] = fam[req[r].tk]

ExpiringHoldsLock ==
    \A r \in Requests : req[r].pc = "expiring" =>
        lock[req[r].tk] = r /\ st[req[r].tk] = "active"

\* Every uncommitted row belongs to a rotation in flight, to one only.
PendingHasRotation ==
    /\ \A t \in TokenIds : st[t] = "pending" =>
          \E r \in Requests : req[r].pc = "rotating" /\ req[r].nw = t
    /\ \A r, s \in Requests :
          (req[r].pc = "rotating" /\ req[s].pc = "rotating" /\ req[r].nw = req[s].nw) => r = s

\* A row a revoking UPDATE has written is live until its commit, and locked.
HitIsLocked ==
    \A r \in Requests : \A t \in req[r].hit :
        req[r].pc = "revoking" /\ lock[t] = r /\ st[t] = "active"

\* The token that opened a family was committed with it.
RootCommitted ==
    \A t \in TokenIds : st[t] # "absent" => st[fam[t]] \in {"active", "inactive"}

\* A revoking request knows which handler it serves.
WhyKnown ==
    \A r \in Requests : req[r].pc \in {"revoke", "revoking"} => req[r].why # "none"

IInv ==
    /\ TypeOK
    /\ OneActivePerFamily
    /\ RotatingHoldsLock
    /\ ExpiringHoldsLock
    /\ PendingHasRotation
    /\ HitIsLocked
    /\ RootCommitted
    /\ WhyKnown

-----------------------------------------------------------------------------
\* Rows not yet inserted carry a well-typed session.
LEMMA AnySessionType == AnySession \in Sessions
<1>1. PICK u \in Users, o \in Orgs : TRUE
  BY ConstantsAssumption
<1>2. [user |-> u, org |-> o] \in Sessions
  BY <1>1 DEF Sessions
<1> QED
  BY <1>2 DEF AnySession

\* A request that has ended, and one not begun, has a well-typed state.
LEMMA IdleRequestType == IdleRequest \in RequestStates
  BY AnySessionType, ConstantsAssumption DEF IdleRequest, RequestStates, TokenIds

\* Initially there are no rows and no request is in progress.
LEMMA InitIInv == Init => IInv
<1> SUFFICES ASSUME Init PROVE IInv
  OBVIOUS
<1>1. TypeOK
  BY AnySessionType, IdleRequestType, ConstantsAssumption
  DEF Init, TypeOK, RowStates
<1> QED
  BY <1>1, IdleRequestType DEF Init, IInv, OneActivePerFamily, RotatingHoldsLock,
     ExpiringHoldsLock, PendingHasRotation, HitIsLocked, RootCommitted, WhyKnown, IdleRequest

-----------------------------------------------------------------------------
(* Each action preserves the invariant *)

\* The snapshot of a revoking UPDATE holds rows of refresh_tokens.
LEMMA SelectedType == \A r \in Requests : Selected(r) \subseteq TokenIds
  BY DEF Selected

\* Login: the new row opens a family of its own, whose name no row uses yet.
LEMMA SelectOrganisationStep ==
    ASSUME IInv, NEW u \in Users, NEW o \in Orgs, NEW t \in TokenIds, SelectOrganisation(u, o, t)
    PROVE  IInv'
<1> USE ConstantsAssumption, AnySessionType, IdleRequestType
    DEF IInv, TypeOK, SelectOrganisation, NextId, rows, RequestStates
<1>1. TypeOK'
  BY DEF RowStates, Sessions, Claims, WhyKnown
<1>2. OneActivePerFamily'
  BY <1>1 DEF OneActivePerFamily, RotatingHoldsLock, RootCommitted, PendingHasRotation
<1>3. RotatingHoldsLock'
  BY <1>1 DEF RotatingHoldsLock, ExpiringHoldsLock, PendingHasRotation, HitIsLocked, OneActivePerFamily
<1>4. ExpiringHoldsLock'
  BY <1>1 DEF ExpiringHoldsLock, RotatingHoldsLock, HitIsLocked
<1>5. PendingHasRotation'
  BY <1>1 DEF PendingHasRotation, RotatingHoldsLock, HitIsLocked
<1>6. HitIsLocked'
  BY <1>1 DEF HitIsLocked, RotatingHoldsLock, ExpiringHoldsLock
<1>7. RootCommitted'
  BY <1>1 DEF RootCommitted, RotatingHoldsLock, ExpiringHoldsLock, PendingHasRotation, HitIsLocked
<1>8. WhyKnown'
  BY <1>1 DEF WhyKnown
<1> QED
  BY <1>1, <1>2, <1>3, <1>4, <1>5, <1>6, <1>7, <1>8

\* A rotation takes the lock of a free live row; the row it inserts is new.
LEMMA RotateActiveStep ==
    ASSUME IInv, NEW r \in Requests, NEW t \in TokenIds, NEW n \in TokenIds, RotateActive(r, t, n)
    PROVE  IInv'
<1> USE ConstantsAssumption, AnySessionType, IdleRequestType
    DEF IInv, TypeOK, RotateActive, NextId, Idle, Free, rows, RequestStates
<1>1. TypeOK'
  BY DEF RowStates, Sessions, Claims, WhyKnown
<1>2. OneActivePerFamily'
  BY <1>1 DEF OneActivePerFamily, RotatingHoldsLock, RootCommitted, PendingHasRotation
<1>3. RotatingHoldsLock'
  BY <1>1 DEF RotatingHoldsLock, ExpiringHoldsLock, PendingHasRotation, HitIsLocked, OneActivePerFamily
<1>4. ExpiringHoldsLock'
  BY <1>1 DEF ExpiringHoldsLock, RotatingHoldsLock, HitIsLocked
<1>5. PendingHasRotation'
  BY <1>1 DEF PendingHasRotation, RotatingHoldsLock, HitIsLocked
<1>6. HitIsLocked'
  BY <1>1 DEF HitIsLocked, RotatingHoldsLock, ExpiringHoldsLock
<1>7. RootCommitted'
  BY <1>1 DEF RootCommitted, RotatingHoldsLock, ExpiringHoldsLock, PendingHasRotation, HitIsLocked
<1>8. WhyKnown'
  BY <1>1 DEF WhyKnown
<1> QED
  BY <1>1, <1>2, <1>3, <1>4, <1>5, <1>6, <1>7, <1>8

\* Presenting an expired token takes the lock of a free live row.
LEMMA RotateExpiredStep ==
    ASSUME IInv, NEW r \in Requests, NEW t \in TokenIds, RotateExpired(r, t)
    PROVE  IInv'
<1> USE ConstantsAssumption, AnySessionType, IdleRequestType
    DEF IInv, TypeOK, RotateExpired, Idle, Free, rows, RequestStates
<1>1. TypeOK'
  BY DEF RowStates, Sessions, Claims, WhyKnown
<1>2. OneActivePerFamily'
  BY <1>1 DEF OneActivePerFamily, RotatingHoldsLock, RootCommitted, PendingHasRotation
<1>3. RotatingHoldsLock'
  BY <1>1 DEF RotatingHoldsLock, ExpiringHoldsLock, PendingHasRotation, HitIsLocked, OneActivePerFamily
<1>4. ExpiringHoldsLock'
  BY <1>1 DEF ExpiringHoldsLock, RotatingHoldsLock, HitIsLocked
<1>5. PendingHasRotation'
  BY <1>1 DEF PendingHasRotation, RotatingHoldsLock, HitIsLocked
<1>6. HitIsLocked'
  BY <1>1 DEF HitIsLocked, RotatingHoldsLock, ExpiringHoldsLock
<1>7. RootCommitted'
  BY <1>1 DEF RootCommitted, RotatingHoldsLock, ExpiringHoldsLock, PendingHasRotation, HitIsLocked
<1>8. WhyKnown'
  BY <1>1 DEF WhyKnown
<1> QED
  BY <1>1, <1>2, <1>3, <1>4, <1>5, <1>6, <1>7, <1>8

\* Presenting an inactive token takes the lock of a row no rotation holds.
LEMMA RotateReusedStep ==
    ASSUME IInv, NEW r \in Requests, NEW t \in TokenIds, RotateReused(r, t)
    PROVE  IInv'
<1> USE ConstantsAssumption, AnySessionType, IdleRequestType
    DEF IInv, TypeOK, RotateReused, Idle, Free, rows, RequestStates
<1>1. TypeOK'
  BY DEF RowStates, Sessions, Claims, WhyKnown
<1>2. OneActivePerFamily'
  BY <1>1 DEF OneActivePerFamily, RotatingHoldsLock, RootCommitted, PendingHasRotation
<1>3. RotatingHoldsLock'
  BY <1>1 DEF RotatingHoldsLock, ExpiringHoldsLock, PendingHasRotation, HitIsLocked, OneActivePerFamily
<1>4. ExpiringHoldsLock'
  BY <1>1 DEF ExpiringHoldsLock, RotatingHoldsLock, HitIsLocked
<1>5. PendingHasRotation'
  BY <1>1 DEF PendingHasRotation, RotatingHoldsLock, HitIsLocked
<1>6. HitIsLocked'
  BY <1>1 DEF HitIsLocked, RotatingHoldsLock, ExpiringHoldsLock
<1>7. RootCommitted'
  BY <1>1 DEF RootCommitted, RotatingHoldsLock, ExpiringHoldsLock, PendingHasRotation, HitIsLocked
<1>8. WhyKnown'
  BY <1>1 DEF WhyKnown
<1> QED
  BY <1>1, <1>2, <1>3, <1>4, <1>5, <1>6, <1>7, <1>8

\* The commit of a rotation swaps the live row of its family for its successor.
LEMMA CommitRotationStep ==
    ASSUME IInv, NEW r \in Requests, CommitRotation(r)
    PROVE  IInv'
<1> USE ConstantsAssumption, AnySessionType, IdleRequestType
    DEF IInv, TypeOK, CommitRotation, ReleaseLocks, rows, RequestStates
<1>1. TypeOK'
  BY DEF RowStates, Sessions, Claims, WhyKnown
<1>2. OneActivePerFamily'
  BY <1>1 DEF OneActivePerFamily, RotatingHoldsLock, RootCommitted, PendingHasRotation
<1>3. RotatingHoldsLock'
  BY <1>1 DEF RotatingHoldsLock, ExpiringHoldsLock, PendingHasRotation, HitIsLocked, OneActivePerFamily
<1>4. ExpiringHoldsLock'
  BY <1>1 DEF ExpiringHoldsLock, RotatingHoldsLock, HitIsLocked
<1>5. PendingHasRotation'
  BY <1>1 DEF PendingHasRotation, RotatingHoldsLock, HitIsLocked
<1>6. HitIsLocked'
  BY <1>1 DEF HitIsLocked, RotatingHoldsLock, ExpiringHoldsLock
<1>7. RootCommitted'
  BY <1>1 DEF RootCommitted, RotatingHoldsLock, ExpiringHoldsLock, PendingHasRotation, HitIsLocked
<1>8. WhyKnown'
  BY <1>1 DEF WhyKnown
<1> QED
  BY <1>1, <1>2, <1>3, <1>4, <1>5, <1>6, <1>7, <1>8

\* The commit that deactivates an expired token leaves its family without a live row.
LEMMA CommitExpiredStep ==
    ASSUME IInv, NEW r \in Requests, CommitExpired(r)
    PROVE  IInv'
<1> USE ConstantsAssumption, AnySessionType, IdleRequestType
    DEF IInv, TypeOK, CommitExpired, ReleaseLocks, Finish, IdleRequest, rows, RequestStates
<1>1. TypeOK'
  BY DEF RowStates, Sessions, Claims, WhyKnown
<1>2. OneActivePerFamily'
  BY <1>1 DEF OneActivePerFamily, RotatingHoldsLock, RootCommitted, PendingHasRotation
<1>3. RotatingHoldsLock'
  BY <1>1 DEF RotatingHoldsLock, ExpiringHoldsLock, PendingHasRotation, HitIsLocked, OneActivePerFamily
<1>4. ExpiringHoldsLock'
  BY <1>1 DEF ExpiringHoldsLock, RotatingHoldsLock, HitIsLocked
<1>5. PendingHasRotation'
  BY <1>1 DEF PendingHasRotation, RotatingHoldsLock, HitIsLocked
<1>6. HitIsLocked'
  BY <1>1 DEF HitIsLocked, RotatingHoldsLock, ExpiringHoldsLock
<1>7. RootCommitted'
  BY <1>1 DEF RootCommitted, RotatingHoldsLock, ExpiringHoldsLock, PendingHasRotation, HitIsLocked
<1>8. WhyKnown'
  BY <1>1 DEF WhyKnown
<1> QED
  BY <1>1, <1>2, <1>3, <1>4, <1>5, <1>6, <1>7, <1>8

\* Answering a refresh changes no row, no lock and no other request.
LEMMA MintAccessTokenStep ==
    ASSUME IInv, NEW r \in Requests, MintAccessToken(r)
    PROVE  IInv'
<1> USE ConstantsAssumption, AnySessionType, IdleRequestType
    DEF IInv, TypeOK, MintAccessToken, Finish, IdleRequest, rows, RequestStates
<1>1. TypeOK'
  BY DEF RowStates, Sessions, Claims, WhyKnown
<1> QED
  BY <1>1 DEF OneActivePerFamily, RotatingHoldsLock, ExpiringHoldsLock, PendingHasRotation, HitIsLocked, RootCommitted, WhyKnown

\* Losing the answer of a refresh changes no row and no lock.
LEMMA LoseResponseStep ==
    ASSUME IInv, NEW r \in Requests, LoseResponse(r)
    PROVE  IInv'
<1> USE ConstantsAssumption, AnySessionType, IdleRequestType
    DEF IInv, TypeOK, LoseResponse, Finish, IdleRequest, rows, RequestStates
<1>1. TypeOK'
  BY DEF RowStates, Sessions, Claims, WhyKnown
<1> QED
  BY <1>1 DEF OneActivePerFamily, RotatingHoldsLock, ExpiringHoldsLock, PendingHasRotation, HitIsLocked, RootCommitted, WhyKnown

\* The unlocked read of logout changes its own request only.
LEMMA LogoutFindStep ==
    ASSUME IInv, NEW r \in Requests, NEW t \in TokenIds, NEW a \in access, LogoutFind(r, a, t)
    PROVE  IInv'
<1> USE ConstantsAssumption, AnySessionType, IdleRequestType
    DEF IInv, TypeOK, LogoutFind, Idle, Authenticated, rows, RequestStates
<1>1. TypeOK'
  BY DEF RowStates, Sessions, Claims, WhyKnown
<1> QED
  BY <1>1 DEF OneActivePerFamily, RotatingHoldsLock, ExpiringHoldsLock, PendingHasRotation, HitIsLocked, RootCommitted, WhyKnown

\* The start of logout_all changes its own request only.
LEMMA LogoutAllStep ==
    ASSUME IInv, NEW r \in Requests, NEW a \in access, LogoutAll(r, a)
    PROVE  IInv'
<1> USE ConstantsAssumption, AnySessionType, IdleRequestType
    DEF IInv, TypeOK, LogoutAll, Idle, Authenticated, rows, RequestStates
<1>1. TypeOK'
  BY DEF RowStates, Sessions, Claims, WhyKnown
<1> QED
  BY <1>1 DEF OneActivePerFamily, RotatingHoldsLock, ExpiringHoldsLock, PendingHasRotation, HitIsLocked, RootCommitted, WhyKnown

\* The snapshot of a revoking UPDATE changes its own request only.
LEMMA StartUpdateStep ==
    ASSUME IInv, NEW r \in Requests, StartUpdate(r)
    PROVE  IInv'
<1> USE ConstantsAssumption, AnySessionType, IdleRequestType
    DEF IInv, TypeOK, StartUpdate, rows, RequestStates
<1>1. TypeOK'
  BY SelectedType DEF RowStates, Sessions, Claims, WhyKnown
<1> QED
  BY <1>1, SelectedType DEF OneActivePerFamily, RotatingHoldsLock, ExpiringHoldsLock, PendingHasRotation, HitIsLocked, RootCommitted, WhyKnown

\* A revoking UPDATE writes a row only while it is live and the lock is its own.
LEMMA UpdateRowStep ==
    ASSUME IInv, NEW r \in Requests, NEW t \in TokenIds, UpdateRow(r, t)
    PROVE  IInv'
<1> USE DEF IInv, TypeOK
<1>1. UNCHANGED <<st, fam, session, expired, member, delivered, access>>
  BY DEF UpdateRow, rows
<1>2. /\ lock' \in [TokenIds -> Requests \cup {NoOne}]
      /\ \A x \in TokenIds : lock'[x] = lock[x] \/ (x = t /\ lock[x] = NoOne)
  BY DEF UpdateRow, Free
<1>3. /\ req' \in [Requests -> RequestStates]
      /\ \A s \in Requests : s # r => req'[s] = req[s]
      /\ req'[r].pc = req[r].pc /\ req'[r].why = req[r].why
      /\ req'[r].tk = req[r].tk /\ req'[r].nw = req[r].nw
      /\ \A x \in req'[r].hit : x \in req[r].hit \/ (x = t /\ st[t] = "active" /\ lock'[t] = r)
  <2>1. CASE st[t] = "active"
    <3> DEFINE q == [req[r] EXCEPT !.scan = req[r].scan \ {t}, !.hit = req[r].hit \cup {t}]
    <3>1. req' = [req EXCEPT ![r] = q] /\ lock' = [lock EXCEPT ![t] = r]
      BY <2>1 DEF UpdateRow
    <3>2. q \in RequestStates /\ q.pc = req[r].pc /\ q.why = req[r].why
          /\ q.tk = req[r].tk /\ q.nw = req[r].nw /\ q.hit = req[r].hit \cup {t}
      BY DEF RequestStates
    <3> QED
      BY <2>1, <3>1, <3>2
  <2>2. CASE st[t] # "active"
    <3> DEFINE q == [req[r] EXCEPT !.scan = req[r].scan \ {t}]
    <3>1. req' = [req EXCEPT ![r] = q]
      BY <2>2 DEF UpdateRow
    <3>2. q \in RequestStates /\ q.pc = req[r].pc /\ q.why = req[r].why
          /\ q.tk = req[r].tk /\ q.nw = req[r].nw /\ q.hit = req[r].hit
      BY DEF RequestStates
    <3> QED
      BY <3>1, <3>2
  <2> QED
    BY <2>1, <2>2
<1>4. TypeOK'
  BY <1>1, <1>2, <1>3
<1>5. \A s \in Requests : req[s].tk \in TokenIds /\ req[s].nw \in TokenIds /\ req[s].hit \subseteq TokenIds
  BY DEF RequestStates
<1>6. OneActivePerFamily' /\ RootCommitted' /\ WhyKnown'
  BY <1>1, <1>3 DEF OneActivePerFamily, RootCommitted, WhyKnown
<1>7. RotatingHoldsLock' /\ ExpiringHoldsLock'
  BY <1>1, <1>2, <1>3, <1>5, ConstantsAssumption DEF RotatingHoldsLock, ExpiringHoldsLock
<1>8. PendingHasRotation'
  BY <1>1, <1>3 DEF PendingHasRotation
<1>9. HitIsLocked'
  <2>1. req[r].pc = "revoking"
    BY DEF UpdateRow
  <2> QED
    BY <1>1, <1>2, <1>3, <1>5, <2>1, ConstantsAssumption DEF HitIsLocked
<1> QED
  BY <1>4, <1>6, <1>7, <1>8, <1>9

\* The commit of a revocation deactivates rows that no rotation has locked.
LEMMA CommitRevocationStep ==
    ASSUME IInv, NEW r \in Requests, CommitRevocation(r)
    PROVE  IInv'
<1> USE ConstantsAssumption, AnySessionType, IdleRequestType
    DEF IInv, TypeOK, CommitRevocation, ReleaseLocks, Finish, IdleRequest, rows, RequestStates
<1>1. TypeOK'
  BY DEF RowStates, Sessions, Claims, WhyKnown
<1>2. OneActivePerFamily'
  BY <1>1 DEF OneActivePerFamily, RotatingHoldsLock, RootCommitted, PendingHasRotation
<1>3. RotatingHoldsLock'
  BY <1>1 DEF RotatingHoldsLock, ExpiringHoldsLock, PendingHasRotation, HitIsLocked, OneActivePerFamily
<1>4. ExpiringHoldsLock'
  BY <1>1 DEF ExpiringHoldsLock, RotatingHoldsLock, HitIsLocked
<1>5. PendingHasRotation'
  BY <1>1 DEF PendingHasRotation, RotatingHoldsLock, HitIsLocked
<1>6. HitIsLocked'
  BY <1>1 DEF HitIsLocked, RotatingHoldsLock, ExpiringHoldsLock
<1>7. RootCommitted'
  BY <1>1 DEF RootCommitted, RotatingHoldsLock, ExpiringHoldsLock, PendingHasRotation, HitIsLocked
<1>8. WhyKnown'
  BY <1>1 DEF WhyKnown
<1> QED
  BY <1>1, <1>2, <1>3, <1>4, <1>5, <1>6, <1>7, <1>8

\* A rollback removes the row its rotation inserted and gives back its locks.
LEMMA RollbackStep ==
    ASSUME IInv, NEW r \in Requests, Rollback(r)
    PROVE  IInv'
<1> USE ConstantsAssumption, AnySessionType, IdleRequestType
    DEF IInv, TypeOK, Rollback, ReleaseLocks, Finish, IdleRequest, rows, RequestStates
<1>1. TypeOK'
  BY DEF RowStates, Sessions, Claims, WhyKnown
<1>2. OneActivePerFamily'
  BY <1>1 DEF OneActivePerFamily, RotatingHoldsLock, RootCommitted, PendingHasRotation
<1>3. RotatingHoldsLock'
  BY <1>1 DEF RotatingHoldsLock, ExpiringHoldsLock, PendingHasRotation, HitIsLocked, OneActivePerFamily
<1>4. ExpiringHoldsLock'
  BY <1>1 DEF ExpiringHoldsLock, RotatingHoldsLock, HitIsLocked
<1>5. PendingHasRotation'
  BY <1>1 DEF PendingHasRotation, RotatingHoldsLock, HitIsLocked
<1>6. HitIsLocked'
  BY <1>1 DEF HitIsLocked, RotatingHoldsLock, ExpiringHoldsLock
<1>7. RootCommitted'
  BY <1>1 DEF RootCommitted, RotatingHoldsLock, ExpiringHoldsLock, PendingHasRotation, HitIsLocked
<1>8. WhyKnown'
  BY <1>1 DEF WhyKnown
<1> QED
  BY <1>1, <1>2, <1>3, <1>4, <1>5, <1>6, <1>7, <1>8

\* Steps that touch neither the rows' state nor the requests.
LEMMA OtherStep ==
    ASSUME IInv,
           \/ \E u \in Users, o \in Orgs : ChangeMembership(u, o)
           \/ \E a \in access, o \in Orgs : SwitchOrg(a, o)
           \/ \E t \in TokenIds : Expire(t)
           \/ UNCHANGED vars
    PROVE  IInv'
<1> USE DEF IInv, TypeOK, vars, rows
<1>1. TypeOK'
  <2>1. CASE \E u \in Users, o \in Orgs : ChangeMembership(u, o)
    BY <2>1 DEF ChangeMembership
  <2>2. CASE \E a \in access, o \in Orgs : SwitchOrg(a, o)
    BY <2>2 DEF SwitchOrg, Authenticated, Claims
  <2>3. CASE \E t \in TokenIds : Expire(t)
    BY <2>3 DEF Expire
  <2> QED
    BY <2>1, <2>2, <2>3
<1>2. UNCHANGED <<st, fam, lock, req>>
  BY DEF ChangeMembership, SwitchOrg, Expire
<1> QED
  BY <1>1, <1>2 DEF OneActivePerFamily, RotatingHoldsLock, ExpiringHoldsLock,
     PendingHasRotation, HitIsLocked, RootCommitted, WhyKnown

\* Every step of the system preserves the inductive invariant.
LEMMA NextIInv == IInv /\ [Next]_vars => IInv'
  BY SelectOrganisationStep, RotateActiveStep, RotateExpiredStep, RotateReusedStep,
     CommitRotationStep, CommitExpiredStep, MintAccessTokenStep, LoseResponseStep,
     LogoutFindStep, LogoutAllStep, StartUpdateStep, UpdateRowStep,
     CommitRevocationStep, RollbackStep, OtherStep
  DEF Next, RequestStep

\* The inductive invariant holds in every reachable state.
THEOREM SafetyInductive == Spec => []IInv
  BY InitIInv, NextIInv, PTL DEF Spec

\* The rows, locks and requests keep their types.
THEOREM TypeCorrect == Spec => []TypeOK
  BY SafetyInductive, PTL DEF IInv

\* Two requests never both exchange one refresh token: for any number of
\* concurrent requests, a family has at most one live token.
THEOREM AtMostOneLiveToken == Spec => []OneActivePerFamily
  BY SafetyInductive, PTL DEF IInv

-----------------------------------------------------------------------------
(* What a step may never do *)

\* A family none of whose rows is live or in flight stays so: the root of a new
\* family is a fresh id, and a rotation starts from a live row.
LEMMA EndedStep == ASSUME IInv, [Next]_vars, NEW f \in TokenIds, Ended(f)
                   PROVE  Ended(f)'
<1>1. PICK c \in TokenIds : st[c] \in {"active", "inactive"} /\ fam[c] = f
  BY DEF Ended, Committed
<1>2. st[c] = "inactive"
  BY <1>1 DEF Ended
<1>3. /\ st'[c] = "inactive" /\ fam'[c] = f
      /\ \A t \in TokenIds : fam'[t] = f => st'[t] \in {"absent", "inactive"}
  <2> USE <1>1, <1>2 DEF IInv, TypeOK, Ended, RootCommitted, rows, RequestStates
  <2>1. CASE \E u \in Users, o \in Orgs, t \in TokenIds : SelectOrganisation(u, o, t)
    BY <2>1 DEF SelectOrganisation, NextId
  <2>2. CASE \E r \in Requests, t \in TokenIds, n \in TokenIds : RotateActive(r, t, n)
    BY <2>2 DEF RotateActive, NextId
  <2>3. CASE \E r \in Requests : CommitRotation(r) \/ CommitExpired(r)
    BY <2>3 DEF CommitRotation, CommitExpired, RotatingHoldsLock, ExpiringHoldsLock
  <2>4. CASE \E r \in Requests : CommitRevocation(r)
    BY <2>4 DEF CommitRevocation, HitIsLocked
  <2>5. CASE \E r \in Requests : Rollback(r)
    <3>1. PICK r \in Requests : Rollback(r)
      BY <2>5
    <3>2. CASE req[r].pc = "rotating"
      BY <3>1, <3>2 DEF Rollback, RotatingHoldsLock
    <3>3. CASE req[r].pc # "rotating"
      BY <3>1, <3>3 DEF Rollback
    <3> QED
      BY <3>2, <3>3
  <2>6. CASE UNCHANGED <<st, fam>>
    BY <2>6
  <2>7. ASSUME NEW r \in Requests, RequestStep(r)
        PROVE  \/ \E t, n \in TokenIds : RotateActive(r, t, n)
               \/ CommitRotation(r) \/ CommitExpired(r) \/ CommitRevocation(r) \/ Rollback(r)
               \/ UNCHANGED <<st, fam>>
    BY <2>7 DEF RequestStep, RotateExpired, RotateReused, MintAccessToken, LoseResponse,
                LogoutFind, LogoutAll, StartUpdate, UpdateRow
  <2>8. ASSUME ~ \E r \in Requests : RequestStep(r)
        PROVE  \/ \E u \in Users, o \in Orgs, t \in TokenIds : SelectOrganisation(u, o, t)
               \/ UNCHANGED <<st, fam>>
    BY <2>8 DEF Next, ChangeMembership, SwitchOrg, Expire, vars
  <2> QED
    BY <2>1, <2>2, <2>3, <2>4, <2>5, <2>6, <2>7, <2>8
<1> QED
  BY <1>3 DEF Ended, Committed

\* A session that has ended is never revived, whatever was waiting for a lock.
THEOREM EndedSessionsStayEnded == Spec => EndedIsForever
<1>1. IInv /\ [Next]_vars => [\A f \in TokenIds : Ended(f) => Ended(f)']_vars
  BY EndedStep
<1> QED
  BY <1>1, SafetyInductive, PTL DEF Spec, EndedIsForever

\* A revoking UPDATE that wrote the live row of a family holds its lock, so that
\* no rotation of the family is in flight when it commits.
LEMMA RevocationStep ==
    ASSUME IInv, NEW r \in Requests, CommitRevocation(r), NEW t \in req[r].hit
    PROVE  Ended(fam[t])'
<1> USE DEF IInv, TypeOK, RequestStates
<1>1. t \in TokenIds /\ st[t] = "active" /\ lock[t] = r /\ req[r].pc = "revoking"
  BY DEF HitIsLocked
<1>2. ASSUME NEW x \in TokenIds, fam[x] = fam[t] PROVE st'[x] \in {"absent", "inactive"}
  <2>1. st[x] # "pending"
    BY <1>1, <1>2 DEF PendingHasRotation, RotatingHoldsLock, OneActivePerFamily
  <2> QED
    BY <1>1, <1>2, <2>1 DEF CommitRevocation, OneActivePerFamily, RowStates
<1>3. st'[t] = "inactive" /\ fam' = fam
  BY <1>1 DEF CommitRevocation
<1> QED
  BY <1>1, <1>2, <1>3 DEF Ended, Committed

\* A revocation that reached the live token of a family ends the family.
THEOREM RevocationsEndFamilies == Spec => RevocationEndsFamilies
<1>1. IInv /\ [Next]_vars =>
      [\A r \in Requests : CommitRevocation(r) => \A t \in req[r].hit : Ended(fam[t])']_vars
  BY RevocationStep
<1> QED
  BY <1>1, SafetyInductive, PTL DEF Spec, RevocationEndsFamilies

-----------------------------------------------------------------------------
(* How far a revocation reaches *)

\* Row t is one that the revoking UPDATE of request r is entitled to write.
Entitled(r, t) ==
    /\ session[fam[t]].org = req[r].ctx.org
    /\ IF req[r].why = "logout_all" THEN session[fam[t]] = req[r].ctx
                                    ELSE fam[t] = fam[req[r].tk]

\* What request r has put in its snapshot or written is committed and within its
\* reach, and stays so: a committed row keeps its family, and the family its session.
ScopeOf(r) ==
    /\ req[r].pc # "revoking" => req[r].scan = {} /\ req[r].hit = {}
    /\ req[r].pc \in {"revoke", "revoking"} /\ req[r].why # "logout_all" =>
          st[req[r].tk] \in {"active", "inactive"}
    /\ \A t \in req[r].scan \cup req[r].hit :
          st[t] \in {"active", "inactive"} /\ Entitled(r, t)

ScopeInv == \A r \in Requests : ScopeOf(r)

\* A committed row stays, in its family and with its session, whatever step is taken.
LEMMA CommittedStays ==
    ASSUME IInv, [Next]_vars, NEW t \in TokenIds, st[t] \in {"active", "inactive"}
    PROVE  /\ st'[t] \in {"active", "inactive"} /\ fam'[t] = fam[t]
           /\ session'[fam[t]] = session[fam[t]]
<1> USE DEF IInv, TypeOK, RootCommitted, rows, RequestStates
<1>1. CASE \E u \in Users, o \in Orgs, n \in TokenIds : SelectOrganisation(u, o, n)
  BY <1>1 DEF SelectOrganisation, NextId
<1>2. CASE \E r \in Requests, x \in TokenIds, n \in TokenIds : RotateActive(r, x, n)
  BY <1>2 DEF RotateActive, NextId
<1>3. CASE \E r \in Requests : CommitRotation(r) \/ CommitExpired(r) \/ CommitRevocation(r)
  BY <1>3 DEF CommitRotation, CommitExpired, CommitRevocation
<1>4. CASE \E r \in Requests : Rollback(r)
  <2>1. PICK r \in Requests : Rollback(r)
    BY <1>4
  <2>2. CASE req[r].pc = "rotating"
    BY <2>1, <2>2 DEF Rollback, RotatingHoldsLock
  <2>3. CASE req[r].pc # "rotating"
    BY <2>1, <2>3 DEF Rollback
  <2> QED
    BY <2>2, <2>3
<1>5. CASE UNCHANGED <<st, fam, session>>
  BY <1>5
<1>6. ASSUME NEW r \in Requests, RequestStep(r)
      PROVE  \/ \E x, n \in TokenIds : RotateActive(r, x, n)
             \/ CommitRotation(r) \/ CommitExpired(r) \/ CommitRevocation(r) \/ Rollback(r)
             \/ UNCHANGED <<st, fam, session>>
  BY <1>6 DEF RequestStep, RotateExpired, RotateReused, MintAccessToken, LoseResponse,
              LogoutFind, LogoutAll, StartUpdate, UpdateRow
<1>7. ASSUME ~ \E r \in Requests : RequestStep(r)
      PROVE  \/ \E u \in Users, o \in Orgs, n \in TokenIds : SelectOrganisation(u, o, n)
             \/ UNCHANGED <<st, fam, session>>
  BY <1>7 DEF Next, ChangeMembership, SwitchOrg, Expire, vars
<1> QED
  BY <1>1, <1>2, <1>3, <1>4, <1>5, <1>6, <1>7

\* A request that goes on with the same rows and reach keeps within it.
LEMMA ScopeKept ==
    ASSUME IInv, ScopeInv, [Next]_vars, NEW r \in Requests,
           req'[r].scan \cup req'[r].hit \subseteq req[r].scan \cup req[r].hit,
           req'[r].pc # "revoking" => req'[r].scan = {} /\ req'[r].hit = {},
           req'[r].pc \in {"revoke", "revoking"} =>
              /\ req[r].pc \in {"revoke", "revoking"}
              /\ req'[r].tk = req[r].tk /\ req'[r].ctx = req[r].ctx /\ req'[r].why = req[r].why
    PROVE  ScopeOf(r)'
<1>1. req[r].tk \in TokenIds /\ req[r].scan \cup req[r].hit \subseteq TokenIds
  BY DEF IInv, TypeOK, RequestStates
<1>2. ScopeOf(r)
  BY DEF ScopeInv
<1>3. CASE req'[r].pc \notin {"revoke", "revoking"}
  BY <1>3 DEF ScopeOf
<1>4. CASE req'[r].pc \in {"revoke", "revoking"}
  <2>1. req[r].why # "logout_all" => /\ st'[req[r].tk] \in {"active", "inactive"}
                                     /\ fam'[req[r].tk] = fam[req[r].tk]
    BY <1>1, <1>2, <1>4, CommittedStays DEF ScopeOf
  <2>2. ASSUME NEW t \in req'[r].scan \cup req'[r].hit
        PROVE  st'[t] \in {"active", "inactive"} /\ Entitled(r, t)'
    <3>1. /\ t \in TokenIds /\ st[t] \in {"active", "inactive"} /\ Entitled(r, t)
          /\ st'[t] \in {"active", "inactive"}
          /\ fam'[t] = fam[t] /\ session'[fam[t]] = session[fam[t]]
      BY <1>1, <1>2, <2>2, CommittedStays DEF ScopeOf
    <3>2. CASE req[r].why # "logout_all"
      BY <1>4, <2>1, <3>1, <3>2 DEF Entitled
    <3>3. CASE req[r].why = "logout_all"
      BY <1>4, <3>1, <3>3 DEF Entitled
    <3> QED
      BY <3>1, <3>2, <3>3
  <2> QED
    BY <1>4, <2>1, <2>2 DEF ScopeOf
<1> QED
  BY <1>3, <1>4

\* A request ends, or changes its record to s, and leaves the others alone.
LEMMA FinishScope ==
    ASSUME IInv, ScopeInv, [Next]_vars, NEW r \in Requests, NEW q \in Requests, Finish(q)
    PROVE  ScopeOf(r)'
<1>1. /\ r = q => req'[r].pc = "idle" /\ req'[r].scan = {} /\ req'[r].hit = {}
      /\ r # q => req'[r] = req[r]
  BY DEF Finish, IdleRequest, IInv, TypeOK
<1>2. ScopeOf(r)
  BY DEF ScopeInv
<1> QED
  BY <1>1, <1>2, ScopeKept DEF ScopeOf

\* The snapshot of the UPDATE holds the rows of its WHERE clause that the row-level
\* security policy shows.
LEMMA SelectedEntitled ==
    ASSUME IInv, NEW r \in Requests, NEW t \in Selected(r)
    PROVE  t \in TokenIds /\ st[t] = "active" /\ Entitled(r, t)
<1>1. t \in TokenIds /\ fam[t] \in TokenIds
  BY DEF Selected, IInv, TypeOK
<1>2. session[fam[t]] \in Sessions /\ req[r].ctx \in Sessions
  BY <1>1 DEF IInv, TypeOK, RequestStates
<1> QED
  BY <1>1, <1>2 DEF Selected, Entitled, Sessions

LEMMA NextScope == IInv /\ ScopeInv /\ [Next]_vars => ScopeInv'
<1> SUFFICES ASSUME IInv, ScopeInv, [Next]_vars, NEW r \in Requests PROVE ScopeOf(r)'
  BY DEF ScopeInv
<1>1. ScopeOf(r) /\ req[r] \in RequestStates
  BY DEF ScopeInv, IInv, TypeOK
<1>2. ASSUME req'[r] = req[r] PROVE ScopeOf(r)'
  BY <1>1, <1>2, ScopeKept DEF ScopeOf
<1>3. ASSUME NEW q \in Requests,
             \/ CommitRotation(q)
             \/ \E t \in TokenIds : RotateExpired(q, t) \/ \E n \in TokenIds : RotateActive(q, t, n)
      PROVE  ScopeOf(r)'
  <2>1. PICK p \in {"rotating", "expiring", "minting"}, t \in TokenIds, n \in TokenIds :
           /\ req[q].pc # "revoking"
           /\ req' = [req EXCEPT ![q] = [req[q] EXCEPT !.pc = p, !.tk = t, !.nw = n]]
    <3>1. req[q].tk \in TokenIds /\ req[q].nw \in TokenIds
      BY DEF IInv, TypeOK, RequestStates
    <3>2. CASE CommitRotation(q)
      <4>1. req' = [req EXCEPT ![q] = [req[q] EXCEPT !.pc = "minting", !.tk = req[q].tk,
                                                     !.nw = req[q].nw]]
        BY <3>2 DEF CommitRotation, IInv, TypeOK, RequestStates
      <4> QED
        BY <3>1, <3>2, <4>1 DEF CommitRotation
    <3>3. ASSUME NEW t \in TokenIds, RotateExpired(q, t)
          PROVE  req' = [req EXCEPT ![q] = [req[q] EXCEPT !.pc = "expiring", !.tk = t,
                                                          !.nw = req[q].nw]]
      BY <3>3 DEF RotateExpired, IInv, TypeOK, RequestStates
    <3>4. ASSUME NEW t \in TokenIds, NEW n \in TokenIds, RotateActive(q, t, n)
          PROVE  req' = [req EXCEPT ![q] = [req[q] EXCEPT !.pc = "rotating", !.tk = t, !.nw = n]]
      BY <3>4 DEF RotateActive
    <3>5. CASE \E t \in TokenIds : RotateExpired(q, t)
      BY <3>1, <3>3, <3>5 DEF RotateExpired, Idle
    <3>6. CASE \E t, n \in TokenIds : RotateActive(q, t, n)
      <4>1. PICK t \in TokenIds, n \in TokenIds : RotateActive(q, t, n)
        BY <3>6
      <4>2. req[q].pc # "revoking"
        BY <4>1 DEF RotateActive, Idle
      <4>3. req' = [req EXCEPT ![q] = [req[q] EXCEPT !.pc = "rotating", !.tk = t, !.nw = n]]
        BY <3>4, <4>1
      <4> QED
        BY <4>2, <4>3
    <3> QED
      BY <1>3, <3>2, <3>5, <3>6
  <2>2. \/ req'[r] = req[r]
        \/ /\ req[r].pc # "revoking" /\ req'[r].pc \notin {"revoke", "revoking"}
           /\ req'[r].scan = req[r].scan /\ req'[r].hit = req[r].hit
    BY <1>1, <2>1 DEF IInv, TypeOK, RequestStates
  <2> QED
    BY <1>1, <1>2, <2>2, ScopeKept DEF ScopeOf
<1>4. ASSUME NEW q \in Requests,
             \/ \E t \in TokenIds : RotateReused(q, t) \/ \E a \in access : LogoutFind(q, a, t)
             \/ \E a \in access : LogoutAll(q, a)
      PROVE  ScopeOf(r)'
  <2>1. /\ q # r => req'[r] = req[r]
        /\ q = r => /\ req[r].pc = "idle" /\ req'[r].pc = "revoke"
                    /\ req'[r].scan = req[r].scan /\ req'[r].hit = req[r].hit
                    /\ req'[r].why # "logout_all" => st[req'[r].tk] \in {"active", "inactive"}
        /\ UNCHANGED st
    <3> USE <1>1 DEF Idle, IInv, TypeOK, RequestStates, rows
    <3>1. CASE \E t \in TokenIds : RotateReused(q, t)
      BY <3>1 DEF RotateReused
    <3>2. CASE \E t \in TokenIds, a \in access : LogoutFind(q, a, t)
      BY <3>2 DEF LogoutFind
    <3>3. CASE \E a \in access : LogoutAll(q, a)
      BY <3>3 DEF LogoutAll
    <3> QED
      BY <1>4, <3>1, <3>2, <3>3
  <2> QED
    BY <1>1, <1>2, <2>1 DEF ScopeOf
<1>5. ASSUME NEW q \in Requests, StartUpdate(q) PROVE ScopeOf(r)'
  <2>1. CASE q # r
    BY <1>2, <1>5, <2>1 DEF StartUpdate, IInv, TypeOK
  <2>2. CASE q = r
    <3>1. /\ req[r].pc = "revoke" /\ req'[r].pc = "revoking"
          /\ req'[r].scan = Selected(r) /\ req'[r].hit = req[r].hit
          /\ req'[r].tk = req[r].tk /\ req'[r].ctx = req[r].ctx /\ req'[r].why = req[r].why
          /\ UNCHANGED <<st, fam, session>>
      BY <1>1, <1>5, <2>2 DEF StartUpdate, rows, IInv, TypeOK, RequestStates
    <3>2. \A t \in Selected(r) : st[t] = "active" /\ Entitled(r, t)'
      BY <3>1, SelectedEntitled DEF Entitled
    <3> QED
      BY <1>1, <3>1, <3>2 DEF ScopeOf
  <2> QED
    BY <2>1, <2>2
<1>6. ASSUME NEW q \in Requests, NEW t \in TokenIds, UpdateRow(q, t) PROVE ScopeOf(r)'
  <2>1. CASE q # r
    BY <1>2, <1>6, <2>1 DEF UpdateRow, IInv, TypeOK
  <2>2. CASE q = r
    <3>1. /\ req[r].pc = "revoking" /\ req'[r].pc = "revoking"
          /\ req'[r].scan \cup req'[r].hit \subseteq req[r].scan \cup req[r].hit
          /\ req'[r].tk = req[r].tk /\ req'[r].ctx = req[r].ctx /\ req'[r].why = req[r].why
      <4> USE <1>1, <2>2 DEF UpdateRow, IInv, TypeOK, RequestStates
      <4>1. CASE st[t] = "active"
        <5>1. /\ req[r].pc = "revoking" /\ t \in req[r].scan
              /\ req' = [req EXCEPT ![r] = [req[r] EXCEPT !.scan = req[r].scan \ {t},
                                                          !.hit = req[r].hit \cup {t}]]
          BY <1>6, <4>1
        <5>2. /\ req'[r].pc = "revoking"
              /\ req'[r].scan = req[r].scan \ {t} /\ req'[r].hit = req[r].hit \cup {t}
              /\ req'[r].tk = req[r].tk /\ req'[r].ctx = req[r].ctx /\ req'[r].why = req[r].why
          BY <5>1
        <5> QED
          BY <5>1, <5>2
      <4>2. CASE st[t] # "active"
        BY <1>6, <4>2
      <4> QED
        BY <4>1, <4>2
    <3> QED
      BY <3>1, ScopeKept
  <2> QED
    BY <2>1, <2>2
<1>7. ASSUME NEW q \in Requests,
             \/ CommitExpired(q) \/ MintAccessToken(q) \/ CommitRevocation(q)
             \/ LoseResponse(q) \/ Rollback(q)
      PROVE  ScopeOf(r)'
  BY <1>7, FinishScope DEF CommitExpired, MintAccessToken, CommitRevocation, LoseResponse, Rollback
<1>8. ASSUME NEW q \in Requests, RequestStep(q) PROVE ScopeOf(r)'
  BY <1>3, <1>4, <1>5, <1>6, <1>7, <1>8 DEF RequestStep
<1>9. ASSUME UNCHANGED req PROVE ScopeOf(r)'
  BY <1>2, <1>9
<1> QED
  BY <1>8, <1>9 DEF Next, vars, SelectOrganisation, ChangeMembership, SwitchOrg, Expire

\* A revocation commits what its UPDATE has written, and that is within its reach.
LEMMA TenantStep ==
    ASSUME IInv, ScopeInv, NEW r \in Requests, NEW t \in TokenIds, CommitRevocation(r),
           st[t] = "active", st'[t] = "inactive"
    PROVE  /\ session[fam[t]].org = req[r].ctx.org
           /\ \/ fam[t] = fam[req[r].tk]
              \/ req[r].why = "logout_all" /\ session[fam[t]] = req[r].ctx
<1>1. t \in req[r].hit
  BY DEF CommitRevocation
<1> QED
  BY <1>1 DEF ScopeInv, ScopeOf, Entitled

\* No revocation ends a session of another organisation than its context's, nor, but for
\* a logout of all the user's sessions, one of another family: although rows are inserted,
\* rotated and deactivated between its snapshot and its commit.
THEOREM RevocationsStayInTenant == Spec => RevocationStaysInTenant
<1>1. Init => ScopeInv
  BY DEF Init, ScopeInv, ScopeOf, IdleRequest
<1>2. Spec => []ScopeInv
  BY <1>1, NextScope, SafetyInductive, PTL DEF Spec
<1>3. IInv /\ ScopeInv /\ [Next]_vars =>
         [\A r \in Requests, t \in TokenIds :
             (CommitRevocation(r) /\ st[t] = "active" /\ st'[t] = "inactive")
                => /\ session[fam[t]].org = req[r].ctx.org
                   /\ \/ fam[t] = fam[req[r].tk]
                      \/ req[r].why = "logout_all" /\ session[fam[t]] = req[r].ctx]_vars
  BY TenantStep
<1> QED
  BY <1>2, <1>3, SafetyInductive, PTL DEF Spec, RevocationStaysInTenant
=============================================================================
