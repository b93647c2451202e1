--------------------------- MODULE ApiKeysProofs ---------------------------
(***************************************************************************)
(* Proofs about ApiKeys for any number of organisations, accounts, keys and *)
(* concurrent requests.                                                    *)
(***************************************************************************)
EXTENDS ApiKeys, FiniteSetTheorems, TLAPS

\* A request writes rows that are still there, for no row is ever deleted.
Holds(r) ==
    /\ req[r].pc \in {"disable", "enable", "insert"} => req[r].acc \in DOMAIN account
    /\ req[r].pc \in {"revoke", "rotate", "account", "authenticated"} => req[r].key \in DOMAIN key

HoldsInv == \A r \in Requests : Holds(r)

\* The key that create_api_key made is still there under its prefix, so that a free
\* prefix begins a lineage of its own.
RootsExist == \A k \in DOMAIN key : key[k].root \in DOMAIN key

\* OneLiveKeyPerLineage without cardinalities.
LineageUnique ==
    \A j, k \in DOMAIN key :
        (/\ key[j].root = key[k].root /\ ~key[j].revoked /\ ~key[k].revoked
         /\ \A l \in DOMAIN key : key[l].root = key[k].root => l \notin raced) => j = k

IInv ==
    /\ TypeOK
    /\ HoldsInv
    /\ RootsExist
    /\ LineageUnique

-----------------------------------------------------------------------------
\* A request that ends leaves the others as they are.
LEMMA FinishFacts ==
    ASSUME TypeOK, NEW r \in Requests, Finish(r)
    PROVE  /\ req' \in [Requests -> RequestStates]
           /\ req'[r].pc = "idle"
           /\ \A q \in Requests : q # r => req'[q] = req[q]
BY DEF Finish, TypeOK, RequestStates, IdleRequest

\* What the pc of a request says about its other fields.
LEMMA RequestFacts ==
    ASSUME TypeOK, NEW r \in Requests
    PROVE  /\ req[r].pc \in {"disable", "enable"} =>
                 req[r] \in [pc : {"disable", "enable"}, acc : Accounts, was : AccountRows]
           /\ req[r].pc = "insert" => req[r] \in [pc : {"insert"}, acc : Accounts]
           /\ req[r].pc \in {"revoke", "rotate", "account", "authenticated"} =>
                 req[r] \in [pc : {"revoke", "rotate", "account", "authenticated"}, key : Prefixes]
BY DEF TypeOK, RequestStates

LEMMA InitIInv == Init => IInv
<1> SUFFICES ASSUME Init PROVE IInv
  OBVIOUS
<1>1. DOMAIN account = {} /\ DOMAIN key = {} /\ account \in [{} -> AccountRows]
      /\ key \in [{} -> KeyRows]
  BY DEF Init
<1>2. req \in [Requests -> RequestStates] /\ \A r \in Requests : req[r].pc = "idle"
  BY DEF Init, RequestStates, IdleRequest
<1>3. TypeOK
  BY <1>1, <1>2 DEF Init, TypeOK, ColumnsAgree
<1>4. QED
  BY <1>1, <1>2, <1>3 DEF IInv, HoldsInv, Holds, RootsExist, LineageUnique

\* Steps that write no row.
LEMMA SameRowsIInv ==
    ASSUME IInv, UNCHANGED <<account, key, passed, raced>>,
           req' \in [Requests -> RequestStates],
           \A r \in Requests : req'[r] = req[r] \/ Holds(r)'
    PROVE  IInv'
<1> USE DEF IInv
<1>1. TypeOK' /\ RootsExist' /\ LineageUnique'
  BY DEF TypeOK, RootsExist, LineageUnique, ColumnsAgree
<1>2. ASSUME NEW r \in Requests PROVE Holds(r)'
  BY DEF HoldsInv, Holds
<1>3. QED
  BY <1>1, <1>2 DEF HoldsInv

LEMMA EndIInv ==
    ASSUME IInv, NEW r \in Requests, Finish(r), UNCHANGED <<account, key, passed, raced>>
    PROVE  IInv'
BY FinishFacts, SameRowsIInv DEF IInv, Holds

\* A request that has read a row begins with a new request record.
LEMMA BeginIInv ==
    ASSUME IInv, NEW r \in Requests, NEW s \in RequestStates, req' = [req EXCEPT ![r] = s],
           s.pc \in {"disable", "enable", "insert"} => s.acc \in DOMAIN account,
           s.pc \in {"revoke", "rotate", "account", "authenticated"} => s.key \in DOMAIN key,
           UNCHANGED <<account, key, passed, raced>>
    PROVE  IInv'
<1>1. /\ req' \in [Requests -> RequestStates] /\ req'[r] = s
      /\ \A q \in Requests : q # r => req'[q] = req[q]
  BY DEF IInv, TypeOK
<1>2. Holds(r)'
  BY <1>1 DEF Holds
<1>3. QED
  BY <1>1, <1>2, SameRowsIInv

LEMMA ReadAccountIInv ==
    ASSUME IInv, NEW r \in Requests, NEW o \in Orgs, NEW a \in Accounts,
           NEW op \in {"disable", "enable"}, ReadAccount(r, o, a, op)
    PROVE  IInv'
<1> DEFINE s == [pc |-> op, acc |-> a, was |-> account[a]]
<1>1. a \in DOMAIN account /\ account[a] \in AccountRows
  BY DEF ReadAccount, VisibleAccounts, IInv, TypeOK
<1>2. s \in RequestStates /\ s.pc = op /\ s.acc = a
  BY <1>1 DEF RequestStates
<1>3. req' = [req EXCEPT ![r] = s] /\ UNCHANGED <<account, key, passed, raced>>
  BY DEF ReadAccount
<1> HIDE DEF s
<1>4. QED
  BY <1>1, <1>2, <1>3, BeginIInv

LEMMA ReadForKeyIInv ==
    ASSUME IInv, NEW r \in Requests, NEW o \in Orgs, NEW a \in Accounts, ReadForKey(r, o, a)
    PROVE  IInv'
<1> DEFINE s == [pc |-> "insert", acc |-> a]
<1>1. a \in DOMAIN account
  BY DEF ReadForKey, VisibleAccounts
<1>2. s \in RequestStates /\ s.pc = "insert" /\ s.acc = a
  BY DEF RequestStates
<1>3. req' = [req EXCEPT ![r] = s] /\ UNCHANGED <<account, key, passed, raced>>
  BY DEF ReadForKey
<1> HIDE DEF s
<1>4. QED
  BY <1>1, <1>2, <1>3, BeginIInv

LEMMA ReadKeyIInv ==
    ASSUME IInv, NEW r \in Requests, NEW o \in Orgs, NEW k \in Prefixes,
           NEW op \in {"revoke", "rotate", "account"},
           ReadKey(r, o, k, op) \/ (op = "account" /\ FindValidKey(r, o, k))
    PROVE  IInv'
<1> DEFINE s == [pc |-> op, key |-> k]
<1>1. k \in DOMAIN key
  BY DEF ReadKey, FindValidKey, VisibleKeys
<1>2. s \in RequestStates /\ s.pc = op /\ s.key = k
  BY DEF RequestStates
<1>3. req' = [req EXCEPT ![r] = s] /\ UNCHANGED <<account, key, passed, raced>>
  BY DEF ReadKey, FindValidKey
<1> HIDE DEF s
<1>4. QED
  BY <1>1, <1>2, <1>3, BeginIInv

\* The request that finds the account active goes on with the same key.
LEMMA LoadAccountFacts ==
    ASSUME TypeOK, NEW r \in Requests, LoadAccount(r)
    PROVE  /\ req' \in [Requests -> RequestStates]
           /\ req'[r].pc = "authenticated" /\ req'[r].key = req[r].key
           /\ \A q \in Requests : q # r => req'[q] = req[q]
<1>1. req[r] \in [pc : {"revoke", "rotate", "account", "authenticated"}, key : Prefixes]
  BY RequestFacts DEF LoadAccount
<1>2. [req[r] EXCEPT !.pc = "authenticated"] \in
         [pc : {"revoke", "rotate", "account", "authenticated"}, key : Prefixes]
  BY <1>1
<1>3. req' = [req EXCEPT ![r] = [req[r] EXCEPT !.pc = "authenticated"]]
  BY DEF LoadAccount
<1>4. QED
  BY <1>1, <1>2, <1>3 DEF TypeOK, RequestStates

LEMMA LoadAccountIInv ==
    ASSUME IInv, NEW r \in Requests, LoadAccount(r)
    PROVE  IInv'
<1>1. Holds(r)'
  BY LoadAccountFacts DEF IInv, HoldsInv, Holds, LoadAccount
<1>2. QED
  BY <1>1, LoadAccountFacts, SameRowsIInv DEF IInv, LoadAccount

-----------------------------------------------------------------------------
\* Steps that write accounts.
LEMMA AccountsIInv ==
    ASSUME IInv, UNCHANGED <<key, passed>>,
           DOMAIN account \subseteq DOMAIN account', DOMAIN account' \subseteq Accounts,
           account' \in [DOMAIN account' -> AccountRows],
           raced \subseteq raced', raced' \subseteq raced \cup DOMAIN account',
           req' \in [Requests -> RequestStates],
           \A r \in Requests : req'[r] = req[r] \/ req'[r].pc = "idle",
           ColumnsAgree'
    PROVE  IInv'
<1> USE DEF IInv
<1>1. TypeOK' /\ RootsExist' /\ LineageUnique'
  BY DEF TypeOK, RootsExist, LineageUnique
<1>2. ASSUME NEW r \in Requests PROVE Holds(r)'
  BY DEF HoldsInv, Holds
<1>3. QED
  BY <1>1, <1>2 DEF HoldsInv

LEMMA CreateAccountIInv ==
    ASSUME IInv, NEW a \in Accounts, CreateAccount(a)
    PROVE  IInv'
<1> DEFINE n == [active |-> TRUE, disabledAt |-> FALSE]
<1>1. n \in AccountRows /\ n.active /\ ~n.disabledAt
  BY DEF AccountRows
<1>2. /\ DOMAIN account' = DOMAIN account \cup {a} /\ account'[a] = n /\ a \notin DOMAIN account
      /\ \A b \in DOMAIN account : account'[b] = account[b]
      /\ account' \in [DOMAIN account' -> AccountRows]
      /\ UNCHANGED <<key, passed, raced, req>>
  BY <1>1 DEF CreateAccount, IInv, TypeOK
<1> HIDE DEF n
<1>3. ColumnsAgree'
  BY <1>1, <1>2 DEF IInv, TypeOK, ColumnsAgree
<1>4. DOMAIN account' \subseteq Accounts /\ req' \in [Requests -> RequestStates]
  BY <1>2 DEF IInv, TypeOK
<1>5. QED
  BY <1>2, <1>3, <1>4, AccountsIInv

\* The UPDATE of one account: if the writer had read the row it writes over, the columns
\* agree afterwards.
LEMMA WriteAccountIInv ==
    ASSUME IInv, NEW r \in Requests, NEW a \in DOMAIN account,
           account' \in [DOMAIN account -> AccountRows],
           \A b \in DOMAIN account : b # a => account'[b] = account[b],
           \/ raced' = raced \cup {a}
           \/ raced' = raced /\ account'[a].active = ~account'[a].disabledAt,
           Finish(r), UNCHANGED <<key, passed>>
    PROVE  IInv'
<1>1. account'[a].active \in BOOLEAN /\ account'[a].disabledAt \in BOOLEAN
  BY DEF AccountRows
<1>2. ColumnsAgree'
  BY <1>1 DEF IInv, TypeOK, ColumnsAgree
<1>3. DOMAIN account' \subseteq Accounts
  BY DEF IInv, TypeOK
<1>4. QED
  BY <1>2, <1>3, FinishFacts, AccountsIInv DEF IInv

\* What an UPDATE of both columns of account a leaves.
LEMMA ColumnsWritten ==
    ASSUME TypeOK, NEW a \in DOMAIN account, NEW v \in BOOLEAN, NEW w \in BOOLEAN,
           account' = [account EXCEPT ![a].active = v, ![a].disabledAt = w]
    PROVE  /\ account' \in [DOMAIN account -> AccountRows]
           /\ account'[a].active = v /\ account'[a].disabledAt = w
           /\ \A b \in DOMAIN account : b # a => account'[b] = account[b]
<1>1. account[a] \in AccountRows
  BY DEF TypeOK
<1>2. QED
  BY <1>1 DEF TypeOK, AccountRows

LEMMA WriteDisabledIInv ==
    ASSUME IInv, NEW r \in Requests, WriteDisabled(r)
    PROVE  IInv'
<1> DEFINE a == req[r].acc
           v == account[a].active /\ ~req[r].was.active
           w == TRUE
<1>1. a \in DOMAIN account
  BY DEF WriteDisabled, IInv, HoldsInv, Holds
<1>2. /\ v \in BOOLEAN /\ w \in BOOLEAN
      /\ account[a] = req[r].was => v = ~w
  OBVIOUS
<1>3. account' = [account EXCEPT ![a].active = v, ![a].disabledAt = w]
  BY DEF WriteDisabled
<1>4. /\ raced' = raced \cup {a} \/ (raced' = raced /\ account[a] = req[r].was)
      /\ Finish(r) /\ UNCHANGED <<key, passed>>
  BY DEF WriteDisabled
<1> HIDE DEF a, v, w
<1>5. /\ account' \in [DOMAIN account -> AccountRows]
      /\ account'[a].active = v /\ account'[a].disabledAt = w
      /\ \A b \in DOMAIN account : b # a => account'[b] = account[b]
  BY <1>1, <1>2, <1>3, ColumnsWritten DEF IInv
<1>6. \/ raced' = raced \cup {a}
      \/ raced' = raced /\ account'[a].active = ~account'[a].disabledAt
  BY <1>2, <1>4, <1>5
<1>7. QED
  BY <1>1, <1>4, <1>5, <1>6, WriteAccountIInv

LEMMA WriteEnabledIInv ==
    ASSUME IInv, NEW r \in Requests, WriteEnabled(r)
    PROVE  IInv'
<1> DEFINE a == req[r].acc
           v == account[a].active \/ ~req[r].was.active
           w == account[a].disabledAt /\ ~req[r].was.disabledAt
<1>1. a \in DOMAIN account
  BY DEF WriteEnabled, IInv, HoldsInv, Holds
<1>2. /\ v \in BOOLEAN /\ w \in BOOLEAN
      /\ account[a] = req[r].was => v = ~w
  OBVIOUS
<1>3. account' = [account EXCEPT ![a].active = v, ![a].disabledAt = w]
  BY DEF WriteEnabled
<1>4. /\ raced' = raced \cup {a} \/ (raced' = raced /\ account[a] = req[r].was)
      /\ Finish(r) /\ UNCHANGED <<key, passed>>
  BY DEF WriteEnabled
<1> HIDE DEF a, v, w
<1>5. /\ account' \in [DOMAIN account -> AccountRows]
      /\ account'[a].active = v /\ account'[a].disabledAt = w
      /\ \A b \in DOMAIN account : b # a => account'[b] = account[b]
  BY <1>1, <1>2, <1>3, ColumnsWritten DEF IInv
<1>6. \/ raced' = raced \cup {a}
      \/ raced' = raced /\ account'[a].active = ~account'[a].disabledAt
  BY <1>2, <1>4, <1>5
<1>7. QED
  BY <1>1, <1>4, <1>5, <1>6, WriteAccountIInv

-----------------------------------------------------------------------------
\* Steps that write keys.
LEMMA KeysIInv ==
    ASSUME IInv, UNCHANGED <<account, passed>>,
           DOMAIN key \subseteq DOMAIN key', DOMAIN key' \subseteq Prefixes,
           key' \in [DOMAIN key' -> KeyRows],
           \A k \in DOMAIN key' : key'[k].acc \in DOMAIN account,
           raced \subseteq raced', raced' \subseteq raced \cup DOMAIN key',
           NEW r \in Requests, Finish(r),
           RootsExist', LineageUnique'
    PROVE  IInv'
<1> USE DEF IInv
<1>1. ColumnsAgree'
  BY DEF TypeOK, ColumnsAgree
<1>2. TypeOK'
  BY <1>1, FinishFacts DEF TypeOK
<1>3. ASSUME NEW q \in Requests PROVE Holds(q)'
  BY FinishFacts DEF HoldsInv, Holds
<1>4. QED
  BY <1>1, <1>2, <1>3 DEF HoldsInv

\* A free prefix is nobody's root, and so begins a lineage of its own.
LEMMA InsertKeyIInv ==
    ASSUME IInv, NEW r \in Requests, NEW p \in Prefixes, InsertKey(r, p)
    PROVE  IInv'
<1> DEFINE n == [acc |-> req[r].acc, root |-> p, revoked |-> FALSE]
<1>1. req[r].acc \in DOMAIN account /\ n \in KeyRows
  BY DEF InsertKey, IInv, HoldsInv, Holds, TypeOK, KeyRows
<1>2. /\ DOMAIN key' = DOMAIN key \cup {p} /\ key'[p] = n /\ p \notin DOMAIN key
      /\ \A k \in DOMAIN key : key'[k] = key[k]
      /\ key' \in [DOMAIN key' -> KeyRows]
      /\ UNCHANGED <<account, passed, raced>> /\ Finish(r)
  BY <1>1 DEF InsertKey, IInv, TypeOK
<1>3. n.acc = req[r].acc /\ n.root = p
  OBVIOUS
<1> HIDE DEF n
<1>4. RootsExist'
  BY <1>2, <1>3 DEF IInv, RootsExist
<1>5. LineageUnique'
  BY <1>2, <1>3 DEF IInv, RootsExist, LineageUnique
<1>6. DOMAIN key' \subseteq Prefixes /\ \A k \in DOMAIN key' : key'[k].acc \in DOMAIN account
  BY <1>1, <1>2, <1>3 DEF IInv, TypeOK
<1>7. QED
  BY <1>2, <1>4, <1>5, <1>6, KeysIInv

LEMMA WriteRevokedIInv ==
    ASSUME IInv, NEW r \in Requests, WriteRevoked(r)
    PROVE  IInv'
<1>1. PICK k \in DOMAIN key : k = req[r].key
  BY DEF WriteRevoked, IInv, HoldsInv, Holds
<1>2. key[k] \in KeyRows
  BY DEF IInv, TypeOK
<1>3. /\ DOMAIN key' = DOMAIN key
      /\ key'[k].revoked /\ key'[k].root = key[k].root /\ key'[k].acc = key[k].acc
      /\ \A j \in DOMAIN key : j # k => key'[j] = key[j]
      /\ key' \in [DOMAIN key' -> KeyRows]
  BY <1>1, <1>2 DEF WriteRevoked, IInv, TypeOK, KeyRows
<1>4. /\ raced \subseteq raced' /\ raced' \subseteq raced \cup {k}
      /\ UNCHANGED <<account, passed>> /\ Finish(r)
  BY <1>1 DEF WriteRevoked
<1>5. RootsExist'
  BY <1>3 DEF IInv, RootsExist
<1>6. LineageUnique'
  BY <1>3, <1>4 DEF IInv, LineageUnique
<1>7. DOMAIN key' \subseteq Prefixes /\ \A j \in DOMAIN key' : key'[j].acc \in DOMAIN account
  BY <1>3 DEF IInv, TypeOK
<1>8. QED
  BY <1>3, <1>4, <1>5, <1>6, <1>7, KeysIInv

\* If the old key is revoked already, the lineage is one of the exceptions; if not, it
\* was the lineage's only unrevoked key, and its successor takes its place.
LEMMA WriteRotatedIInv ==
    ASSUME IInv, NEW r \in Requests, NEW p \in Prefixes, WriteRotated(r, p)
    PROVE  IInv'
<1>1. PICK k \in DOMAIN key : k = req[r].key
  BY DEF WriteRotated, IInv, HoldsInv, Holds
<1>2. key[k] \in KeyRows /\ p \notin DOMAIN key /\ p # k
  BY DEF IInv, TypeOK, WriteRotated
<1>3. /\ DOMAIN key' = DOMAIN key \cup {p}
      /\ key'[p] = [key[k] EXCEPT !.revoked = FALSE]
      /\ key'[k] = [key[k] EXCEPT !.revoked = TRUE]
      /\ \A j \in DOMAIN key : j # k => key'[j] = key[j]
  BY <1>1, <1>2 DEF WriteRotated
<1>4. /\ key'[k] \in KeyRows /\ key'[p] \in KeyRows
      /\ key'[k].revoked /\ key'[k].root = key[k].root /\ key'[k].acc = key[k].acc
      /\ key'[p].root = key[k].root /\ key'[p].acc = key[k].acc
  BY <1>2, <1>3 DEF KeyRows
<1>5. key' \in [DOMAIN key' -> KeyRows]
  <2>1. key' = [j \in DOMAIN key \cup {p} |-> key'[j]]
    BY <1>1 DEF WriteRotated
  <2>2. \A j \in DOMAIN key \cup {p} : key'[j] \in KeyRows
    BY <1>3, <1>4 DEF IInv, TypeOK
  <2>3. QED
    BY <1>3, <2>1, <2>2
<1>6. /\ raced \subseteq raced' /\ raced' \subseteq raced \cup {k}
      /\ key[k].revoked => k \in raced'
      /\ UNCHANGED <<account, passed>> /\ Finish(r)
  BY <1>1 DEF WriteRotated
<1>7. RootsExist'
  BY <1>3, <1>4 DEF IInv, RootsExist
<1>8. LineageUnique'
  <2> SUFFICES ASSUME NEW i \in DOMAIN key', NEW j \in DOMAIN key', key'[i].root = key'[j].root,
                      ~key'[i].revoked, ~key'[j].revoked,
                      \A l \in DOMAIN key' : key'[l].root = key'[j].root => l \notin raced'
               PROVE  i = j
    BY DEF LineageUnique
  <2>1. \A l \in DOMAIN key : key'[l].root = key[l].root
    BY <1>3, <1>4
  <2>2. i # k /\ j # k
    BY <1>4
  <2>3. CASE i # p /\ j # p
    BY <1>3, <1>6, <2>1, <2>2, <2>3 DEF IInv, LineageUnique
  <2>4. ASSUME NEW l \in DOMAIN key, l # k, key[l].root = key[k].root, ~key[l].revoked,
               key'[j].root = key[k].root
        PROVE  FALSE
    <3>1. ~key[k].revoked
      BY <1>3, <1>4, <1>6, <2>4
    <3>2. \A m \in DOMAIN key : key[m].root = key[k].root => m \notin raced
      BY <1>3, <1>6, <2>1, <2>4
    <3>3. QED
      BY <2>4, <3>1, <3>2 DEF IInv, LineageUnique
  <2>5. QED
    BY <1>3, <1>4, <2>2, <2>3, <2>4
<1>9. DOMAIN key' \subseteq Prefixes /\ \A j \in DOMAIN key' : key'[j].acc \in DOMAIN account
  BY <1>3, <1>4 DEF IInv, TypeOK
<1>10. QED
  BY <1>3, <1>5, <1>6, <1>7, <1>8, <1>9, KeysIInv

\* Time passes only for a root, which is there.
LEMMA ExpireIInv ==
    ASSUME IInv, NEW p \in Prefixes, Expire(p)
    PROVE  IInv'
<1> USE DEF IInv
<1>1. p \in DOMAIN key /\ passed' = passed \cup {p} /\ UNCHANGED <<account, key, raced, req>>
  BY DEF Expire, RootsExist
<1>2. TypeOK'
  BY <1>1 DEF TypeOK, ColumnsAgree
<1>3. HoldsInv'
  BY <1>1 DEF HoldsInv, Holds
<1>4. RootsExist' /\ LineageUnique'
  BY <1>1 DEF RootsExist, LineageUnique
<1>5. QED
  BY <1>2, <1>3, <1>4

LEMMA NextIInv == IInv /\ [Next]_vars => IInv'
<1> SUFFICES ASSUME IInv, [Next]_vars PROVE IInv'
  OBVIOUS
<1>1. ASSUME NEW a \in Accounts, CreateAccount(a) PROVE IInv'
  BY <1>1, CreateAccountIInv
<1>2. ASSUME NEW r \in Requests, NEW o \in Orgs, NEW a \in Accounts,
             ReadAccount(r, o, a, "disable") \/ ReadAccount(r, o, a, "enable")
      PROVE  IInv'
  BY <1>2, ReadAccountIInv
<1>3. ASSUME NEW r \in Requests, NEW o \in Orgs, NEW a \in Accounts, ReadForKey(r, o, a)
      PROVE  IInv'
  BY <1>3, ReadForKeyIInv
<1>4. ASSUME NEW r \in Requests, NEW o \in Orgs, NEW k \in Prefixes,
             ReadKey(r, o, k, "revoke") \/ ReadKey(r, o, k, "rotate") \/ FindValidKey(r, o, k)
      PROVE  IInv'
  BY <1>4, ReadKeyIInv
<1>5. ASSUME NEW r \in Requests, NEW p \in Prefixes,
             InsertKey(r, p) \/ WriteRotated(r, p) \/ PrefixCollision(r, p)
      PROVE  IInv'
  BY <1>5, InsertKeyIInv, WriteRotatedIInv, EndIInv DEF PrefixCollision
<1>6. ASSUME NEW r \in Requests, WriteDisabled(r) \/ WriteEnabled(r) \/ WriteRevoked(r)
      PROVE  IInv'
  BY <1>6, WriteDisabledIInv, WriteEnabledIInv, WriteRevokedIInv
<1>7. ASSUME NEW r \in Requests, LoadAccount(r) \/ Serve(r) \/ Fail(r) PROVE IInv'
  BY <1>7, LoadAccountIInv, EndIInv DEF Serve, Fail
<1>8. ASSUME NEW p \in Prefixes, Expire(p) PROVE IInv'
  BY <1>8, ExpireIInv
<1>9. CASE UNCHANGED vars
  BY <1>9, SameRowsIInv DEF vars, IInv, TypeOK
<1>10. QED
  BY <1>1, <1>2, <1>3, <1>4, <1>5, <1>6, <1>7, <1>8, <1>9 DEF Next

\* The inductive invariant of accounts and keys under concurrent requests.
THEOREM SafetyInductive == Spec => []IInv
BY InitIInv, NextIInv, PTL DEF Spec

\* Rows and requests keep their types, every key keeps its account, and the two columns
\* of an account that nobody wrote over agree.
THEOREM TypeCorrect == Spec => []TypeOK
<1>1. IInv => TypeOK
  BY DEF IInv
<1>2. QED
  BY <1>1, SafetyInductive, PTL

LEMMA UniqueIsOne == IInv => OneLiveKeyPerLineage
<1> SUFFICES ASSUME IInv, NEW p \in Prefixes,
                    {k \in DOMAIN key : key[k].root = p} \cap raced = {}
             PROVE  Cardinality({k \in {l \in DOMAIN key : key[l].root = p} : ~key[k].revoked}) <= 1
  BY DEF OneLiveKeyPerLineage
<1> DEFINE L == {k \in {l \in DOMAIN key : key[l].root = p} : ~key[k].revoked}
<1>1. \A i, j \in L : i = j
  BY DEF IInv, LineageUnique
<1> HIDE DEF L
<1>2. CASE L = {}
  BY <1>2, FS_EmptySet DEF L
<1>3. CASE L # {}
  <2>1. PICK i : i \in L
    BY <1>3
  <2>2. L = {i}
    BY <1>1, <2>1
  <2>3. Cardinality(L) = 1
    BY <2>2, FS_Singleton
  <2>4. QED
    BY <2>3 DEF L
<1>4. QED
  BY <1>2, <1>3

\* Whatever is rotated and revoked at once, a lineage none of whose keys was written
\* over has one unrevoked key at most.
THEOREM RotationReplaces == Spec => []OneLiveKeyPerLineage
BY UniqueIsOne, SafetyInductive, PTL

\* LoadAccount is the only step that authenticates, and reads is_active.
LEMMA RefusedStep ==
    ASSUME IInv, [Next]_vars, NEW r \in Requests,
           req[r].pc = "account", req'[r].pc = "authenticated",
           key[req[r].key].acc \notin raced
    PROVE  ~account[key[req[r].key].acc].disabledAt
<1>1. LoadAccount(r)
  <2>1. ASSUME NEW q \in Requests, Finish(q) PROVE FALSE
    BY <2>1, FinishFacts DEF IInv
  <2>2. ASSUME NEW q \in Requests, NEW s, req' = [req EXCEPT ![q] = s], s.pc # "authenticated"
        PROVE  FALSE
    BY <2>2 DEF IInv, TypeOK
  <2>3. ASSUME NEW q \in Requests, NEW o \in Orgs, NEW a \in Accounts,
               \/ ReadAccount(q, o, a, "disable") \/ ReadAccount(q, o, a, "enable")
               \/ ReadForKey(q, o, a)
        PROVE  FALSE
    BY <2>2, <2>3 DEF ReadAccount, ReadForKey
  <2>4. ASSUME NEW q \in Requests, NEW o \in Orgs, NEW k \in Prefixes,
               \/ ReadKey(q, o, k, "revoke") \/ ReadKey(q, o, k, "rotate")
               \/ FindValidKey(q, o, k)
        PROVE  FALSE
    BY <2>2, <2>4 DEF ReadKey, FindValidKey
  <2>5. ASSUME NEW q \in Requests, NEW p \in Prefixes,
               InsertKey(q, p) \/ WriteRotated(q, p) \/ PrefixCollision(q, p)
        PROVE  FALSE
    BY <2>1, <2>5 DEF InsertKey, WriteRotated, PrefixCollision
  <2>6. ASSUME NEW q \in Requests,
               WriteDisabled(q) \/ WriteEnabled(q) \/ WriteRevoked(q) \/ Serve(q) \/ Fail(q)
        PROVE  FALSE
    BY <2>1, <2>6 DEF WriteDisabled, WriteEnabled, WriteRevoked, Serve, Fail
  <2>7. ASSUME NEW q \in Requests, LoadAccount(q) PROVE q = r
    BY <2>7, LoadAccountFacts DEF IInv
  <2>8. QED
    BY <2>3, <2>4, <2>5, <2>6, <2>7 DEF Next, vars, CreateAccount, Expire
<1>2. key[req[r].key].acc \in DOMAIN account
  BY DEF IInv, HoldsInv, Holds, TypeOK
<1>3. QED
  BY <1>1, <1>2 DEF LoadAccount, IInv, TypeOK, ColumnsAgree

\* Nobody is authenticated by a key of an account that shows a disabled_at, unless the
\* account was written over by a request that had read an older version.
THEOREM DisabledIsRefused == Spec => DisabledAccountsAreRefused
<1>1. IInv /\ [Next]_vars =>
         [\A r \in Requests :
             (req[r].pc = "account" /\ req'[r].pc = "authenticated") =>
                 LET a == key[req[r].key].acc IN ~account[a].disabledAt \/ a \in raced]_vars
  BY RefusedStep
<1>2. QED
  BY <1>1, SafetyInductive, PTL DEF Spec, DisabledAccountsAreRefused

\* A step brings no key back: revoked_at is never reset, and time never goes back.
LEMMA DeadStep ==
    ASSUME IInv, [Next]_vars, NEW k \in DOMAIN key, ~Live(k)
    PROVE  k \in DOMAIN key' /\ ~Live(k)'
<1>1. ASSUME k \in DOMAIN key', key[k].revoked => key'[k].revoked, key'[k].root = key[k].root,
             passed \subseteq passed'
      PROVE  k \in DOMAIN key' /\ ~Live(k)'
  BY <1>1 DEF Live, Expired
<1>2. CASE UNCHANGED key
  <2>1. passed \subseteq passed'
    BY <1>2 DEF Next, vars, CreateAccount, ReadAccount, ReadForKey, ReadKey, FindValidKey,
       InsertKey, WriteRotated, PrefixCollision, WriteDisabled, WriteEnabled, WriteRevoked,
       LoadAccount, Serve, Fail, Expire
  <2>2. QED
    BY <1>1, <1>2, <2>1
<1>3. ASSUME NEW r \in Requests, NEW p \in Prefixes, InsertKey(r, p)
      PROVE  k \in DOMAIN key' /\ ~Live(k)'
  BY <1>1, <1>3 DEF InsertKey
<1>4. ASSUME NEW r \in Requests, NEW p \in Prefixes, WriteRotated(r, p)
      PROVE  k \in DOMAIN key' /\ ~Live(k)'
  <2>1. key[k] \in KeyRows /\ k # p
    BY <1>4 DEF IInv, TypeOK, WriteRotated
  <2>2. k \in DOMAIN key' /\ key'[k] \in {key[k], [key[k] EXCEPT !.revoked = TRUE]}
    BY <1>4, <2>1 DEF WriteRotated
  <2>3. QED
    BY <1>1, <1>4, <2>1, <2>2 DEF WriteRotated, KeyRows
<1>5. ASSUME NEW r \in Requests, WriteRevoked(r)
      PROVE  k \in DOMAIN key' /\ ~Live(k)'
  <2>1. key[k] \in KeyRows
    BY DEF IInv, TypeOK
  <2>2. k \in DOMAIN key' /\ key'[k] \in {key[k], [key[k] EXCEPT !.revoked = TRUE]}
    BY <1>5, <2>1 DEF WriteRevoked, IInv, TypeOK
  <2>3. QED
    BY <1>1, <1>5, <2>1, <2>2 DEF WriteRevoked, KeyRows
<1>6. QED
  BY <1>2, <1>3, <1>4, <1>5 DEF Next, vars, CreateAccount, ReadAccount, ReadForKey, ReadKey,
     FindValidKey, PrefixCollision, WriteDisabled, WriteEnabled, LoadAccount, Serve, Fail, Expire

\* Only a live key is found valid, and a request keeps the key it has found.
LEMMA NoNewUser ==
    ASSUME IInv, [Next]_vars, NEW k \in Prefixes, Retired(k), NEW r \in Requests,
           req'[r].pc \in {"account", "authenticated"}
    PROVE  req'[r].key # k
<1>1. ASSUME req'[r] = req[r] PROVE req'[r].key # k
  BY <1>1 DEF Retired
<1>2. ASSUME NEW q \in Requests, Finish(q) PROVE req'[r].key # k
  BY <1>1, <1>2, FinishFacts DEF IInv
<1>3. ASSUME NEW q \in Requests, NEW s, req' = [req EXCEPT ![q] = s],
             s.pc \notin {"account", "authenticated"}
      PROVE  req'[r].key # k
  BY <1>1, <1>3 DEF IInv, TypeOK
<1>4. ASSUME NEW q \in Requests, NEW o \in Orgs, NEW a \in Accounts,
             \/ ReadAccount(q, o, a, "disable") \/ ReadAccount(q, o, a, "enable")
             \/ ReadForKey(q, o, a)
      PROVE  req'[r].key # k
  BY <1>3, <1>4 DEF ReadAccount, ReadForKey
<1>5. ASSUME NEW q \in Requests, NEW o \in Orgs, NEW j \in Prefixes,
             ReadKey(q, o, j, "revoke") \/ ReadKey(q, o, j, "rotate")
      PROVE  req'[r].key # k
  BY <1>3, <1>5 DEF ReadKey
<1>6. ASSUME NEW q \in Requests, NEW o \in Orgs, NEW j \in Prefixes, FindValidKey(q, o, j)
      PROVE  req'[r].key # k
  <2>1. j # k
    BY <1>6 DEF FindValidKey, Retired
  <2>2. QED
    BY <1>1, <1>6, <2>1 DEF FindValidKey, IInv, TypeOK
<1>7. ASSUME NEW q \in Requests, NEW p \in Prefixes,
             InsertKey(q, p) \/ WriteRotated(q, p) \/ PrefixCollision(q, p)
      PROVE  req'[r].key # k
  BY <1>2, <1>7 DEF InsertKey, WriteRotated, PrefixCollision
<1>8. ASSUME NEW q \in Requests,
             WriteDisabled(q) \/ WriteEnabled(q) \/ WriteRevoked(q) \/ Serve(q) \/ Fail(q)
      PROVE  req'[r].key # k
  BY <1>2, <1>8 DEF WriteDisabled, WriteEnabled, WriteRevoked, Serve, Fail
<1>9. ASSUME NEW q \in Requests, LoadAccount(q) PROVE req'[r].key # k
  BY <1>1, <1>9, LoadAccountFacts DEF LoadAccount, Retired, IInv
<1>10. QED
  BY <1>1, <1>4, <1>5, <1>6, <1>7, <1>8, <1>9 DEF Next, vars, CreateAccount, Expire

\* A dead key that authenticates nobody now never authenticates anybody again.
THEOREM DeadForGood == Spec => DeadKeysStayDead
<1>1. ASSUME IInv, [Next]_vars, NEW k \in Prefixes, Retired(k) PROVE Retired(k)'
  <2>1. k \in DOMAIN key' /\ ~Live(k)'
    BY <1>1, DeadStep DEF Retired
  <2>2. QED
    BY <1>1, <2>1, NoNewUser DEF Retired
<1>2. IInv /\ [Next]_vars => [\A k \in Prefixes : Retired(k) => Retired(k)']_vars
  BY <1>1
<1>3. QED
  BY <1>2, SafetyInductive, PTL DEF Spec, DeadKeysStayDead
=============================================================================
