----------------------- MODULE PreAuthSessionsProofs -----------------------
(***************************************************************************)
(* Proofs about PreAuthSessions for any number of users, organisations,    *)
(* pre-auth sessions and concurrent requests.                              *)
(***************************************************************************)
EXTENDS PreAuthSessions, TLAPS

\* A request past its conditional UPDATE holds the lock of a row that is still
\* unconsumed for everyone else.
VerifyingHoldsLock ==
    \A r \in Requests : req[r].pc = "verify" =>
        lock[req[r].id] = r /\ row[req[r].id] = "open"

\* A request only looks at rows that exist.
ConsumingExists ==
    \A r \in Requests : req[r].pc # "idle" => row[req[r].id] # "absent"

\* A family is exchanged for a row that exists, whose user no login changes.
FamilyRowExists == \A f \in families : row[f.by] # "absent"

IInv ==
    /\ TypeOK
    /\ ExchangedOnce
    /\ NoFalseReplay
    /\ VerifyingHoldsLock
    /\ ConsumingExists
    /\ FamilyRowExists

\* The request record a finished request is reset to is a request record.
LEMMA IdleRequestType == IdleRequest \in RequestStates /\ IdleRequest.pc = "idle"
<1>1. PICK p \in PreAuthIds, o \in Orgs : TRUE
  BY ConstantsAssumption
<1>2. [pc |-> "idle", id |-> p, org |-> o] \in RequestStates
  BY <1>1 DEF RequestStates
<1> QED
  BY <1>2 DEF IdleRequest

\* With no rows and no request in progress the invariant holds.
LEMMA InitIInv == Init => IInv
<1> SUFFICES ASSUME Init PROVE IInv
  OBVIOUS
<1>1. (CHOOSE u \in Users : TRUE) \in Users
  BY ConstantsAssumption
<1>2. TypeOK
  BY <1>1, IdleRequestType DEF Init, TypeOK
<1> QED
  BY <1>2, IdleRequestType DEF Init, IInv, TypeOK, ExchangedOnce, NoFalseReplay,
     VerifyingHoldsLock, ConsumingExists, FamilyRowExists

\* A new pre-auth session has been exchanged for nothing.
LEMMA LoginStep1Step ==
    ASSUME IInv, NEW u \in Users, NEW p \in PreAuthIds, LoginStep1(u, p) PROVE IInv'
  BY DEF IInv, LoginStep1, TypeOK, ExchangedOnce, NoFalseReplay, VerifyingHoldsLock,
     ConsumingExists, FamilyRowExists, RequestStates

\* The unlocked read audits a replay only of a committed consumption.
LEMMA LookUpStep ==
    ASSUME IInv, NEW r \in Requests, NEW p \in PreAuthIds, NEW o \in Orgs, LookUp(r, p, o)
    PROVE  IInv'
  BY DEF IInv, LookUp, Idle, TypeOK, ExchangedOnce, NoFalseReplay, VerifyingHoldsLock,
     ConsumingExists, FamilyRowExists, RequestStates

\* The conditional UPDATE gets the row lock only while nobody holds it.
LEMMA ConsumeStep == ASSUME IInv, NEW r \in Requests, Consume(r) PROVE IInv'
<1> USE IdleRequestType DEF IInv, Consume, Finish, TypeOK, RequestStates
<1>1. TypeOK'
  OBVIOUS
<1>2. ExchangedOnce' /\ NoFalseReplay'
  BY DEF ExchangedOnce, NoFalseReplay
<1>3. VerifyingHoldsLock' /\ ConsumingExists' /\ FamilyRowExists'
  BY ConstantsAssumption DEF VerifyingHoldsLock, ConsumingExists, FamilyRowExists
<1> QED
  BY <1>1, <1>2, <1>3

\* The commit consumes a row that was unconsumed and counts one exchange.
LEMMA SelectOrganisationStep ==
    ASSUME IInv, NEW r \in Requests, SelectOrganisation(r) PROVE IInv'
<1> USE IdleRequestType DEF IInv, SelectOrganisation, Finish, TypeOK, RequestStates
<1>1. TypeOK'
  OBVIOUS
<1>2. ExchangedOnce'
  BY DEF ExchangedOnce, VerifyingHoldsLock
<1>3. NoFalseReplay'
  BY DEF NoFalseReplay
<1>4. VerifyingHoldsLock' /\ ConsumingExists' /\ FamilyRowExists'
  BY ConstantsAssumption DEF VerifyingHoldsLock, ConsumingExists, FamilyRowExists
<1> QED
  BY <1>1, <1>2, <1>3, <1>4

\* A refusal or failure gives the row back unconsumed.
LEMMA RefuseStep == ASSUME IInv, NEW r \in Requests, Refuse(r) PROVE IInv'
  BY IdleRequestType, ConstantsAssumption
  DEF IInv, Refuse, Finish, TypeOK, ExchangedOnce, NoFalseReplay, VerifyingHoldsLock,
      ConsumingExists, FamilyRowExists, RequestStates

\* Steps outside select-organisation leave rows and requests alone.
LEMMA OtherStep ==
    ASSUME IInv,
           \/ LoginFailed
           \/ \E p \in PreAuthIds : Expire(p)
           \/ \E u \in Users, o \in Orgs : ChangeMembership(u, o)
           \/ UNCHANGED vars
    PROVE  IInv'
<1>1. UNCHANGED <<row, owner, lock, families, opened, req>>
  BY DEF LoginFailed, Expire, ChangeMembership, vars
<1>2. TypeOK' /\ NoFalseReplay'
  <2> USE DEF IInv, TypeOK, NoFalseReplay
  <2>1. CASE LoginFailed
    BY <1>1, <2>1 DEF LoginFailed
  <2>2. CASE \E p \in PreAuthIds : Expire(p)
    BY <1>1, <2>2 DEF Expire
  <2>3. CASE \E u \in Users, o \in Orgs : ChangeMembership(u, o)
    BY <1>1, <2>3 DEF ChangeMembership
  <2>4. CASE UNCHANGED vars
    BY <1>1, <2>4 DEF vars
  <2> QED
    BY <2>1, <2>2, <2>3, <2>4
<1> QED
  BY <1>1, <1>2 DEF IInv, ExchangedOnce, VerifyingHoldsLock, ConsumingExists, FamilyRowExists

\* The inductive invariant holds in every reachable state.
THEOREM SafetyInductive == Spec => []IInv
<1>1. IInv /\ [Next]_vars => IInv'
  BY LoginStep1Step, LookUpStep, ConsumeStep, SelectOrganisationStep, RefuseStep,
     OtherStep DEF Next
<1> QED
  BY InitIInv, <1>1, PTL DEF Spec

\* A pre-auth session opens exactly one session if it is consumed and none
\* otherwise, for any number of concurrent select-organisation requests.
THEOREM ConsumedExactlyOnce == Spec => []ExchangedOnce
  BY SafetyInductive, PTL DEF IInv

\* A replay is reported only when the session has really been exchanged.
THEOREM ReplaysAreReal == Spec => []NoFalseReplay
  BY SafetyInductive, PTL DEF IInv

\* Rows, locks and requests keep their types, and a family is its row's user's.
THEOREM TypeCorrect == Spec => []TypeOK
  BY SafetyInductive, PTL DEF IInv
=============================================================================
