------------------------------ MODULE ApiKeys ------------------------------
(***************************************************************************)
(* Service accounts and their API keys: backend/app/services/              *)
(* service_account_service.py, its endpoints, and the unique keys and       *)
(* policies of migration 0002.                                             *)
(*                                                                         *)
(* Every handler reads the row without a lock, checks it, and writes it     *)
(* with its commit later.  The UPDATE of the object-relational mapper names *)
(* the columns whose value differs from the one that was read, no others.   *)
(* An account is its organisation and its name.  A key is its prefix, by    *)
(* which authenticate_api_key looks it up.                                  *)
(* The requests are those that RequirePermission has let pass.  No endpoint *)
(* calls authenticate_api_key yet, only scripts and tests do.               *)
(***************************************************************************)
EXTENDS Naturals, FiniteSets

CONSTANTS Orgs, Names,
          Prefixes,  \* what token_hex(4) may return
          Requests   \* HTTP requests that can be in progress at once

ASSUME ApiKeysAssumption == Orgs # {} /\ Names # {} /\ Prefixes # {}

VARIABLES
    account,   \* service_accounts: a function from the committed rows to [active, disabledAt]
    key,       \* api_keys: a function from the committed prefixes to [acc, root, revoked]
    passed,    \* roots of keys whose expires_at has passed
    raced,     \* history: rows written by a request that had read an older version
    req        \* what each request is doing; see RequestStates

vars == <<account, key, passed, raced, req>>

Accounts == Orgs \X Names
OrgOf(a) == a[1]

\* disabledAt: whether disabled_at is set.
AccountRows == [active : BOOLEAN, disabledAt : BOOLEAN]
\* root: the key that create_api_key made and of which this is the rotated
\* successor; expires_at is copied along, so that it is the root's.
KeyRows == [acc : Accounts, root : Prefixes, revoked : BOOLEAN]

\* pc: "disable", "enable" have read account acc as was; "insert" has found acc
\*     active; "revoke", "rotate" have found key unrevoked; "account" has found
\*     key valid; "authenticated" has found its account active too.
RequestStates ==
    [pc : {"idle"}]
        \cup [pc : {"disable", "enable"}, acc : Accounts, was : AccountRows]
        \cup [pc : {"insert"}, acc : Accounts]
        \cup [pc : {"revoke", "rotate", "account", "authenticated"}, key : Prefixes]

IdleRequest == [pc |-> "idle"]

Idle(r) == req[r].pc = "idle"
Finish(r) == req' = [req EXCEPT ![r] = IdleRequest]

\* The rows the row-level-security policies and the WHERE clauses leave to a
\* request of organisation o.
VisibleAccounts(o) == {a \in DOMAIN account : OrgOf(a) = o}
VisibleKeys(o) == {k \in DOMAIN key : OrgOf(key[k].acc) = o}

Expired(k) == key[k].root \in passed
Live(k) == ~key[k].revoked /\ ~Expired(k)

-----------------------------------------------------------------------------
(* Service accounts *)

\* INSERT and commit.  A second row of the name violates the unique constraint
\* and is reported as a duplicate.
CreateAccount(a) ==
    /\ a \notin DOMAIN account
    /\ account' = [b \in DOMAIN account \cup {a} |->
                      IF b = a THEN [active |-> TRUE, disabledAt |-> FALSE] ELSE account[b]]
    /\ UNCHANGED <<key, passed, raced, req>>

\* get_service_account of disable_service_account and enable_service_account.
ReadAccount(r, o, a, op) ==
    /\ Idle(r) /\ a \in VisibleAccounts(o)
    /\ req' = [req EXCEPT ![r] = [pc |-> op, acc |-> a, was |-> account[a]]]
    /\ UNCHANGED <<account, key, passed, raced>>

\* Mutant: only disabled_at is written.
WriteDisabledTimestamp(r) ==
    LET a == req[r].acc IN
    /\ req[r].pc = "disable"
    /\ account' = [account EXCEPT ![a].disabledAt = TRUE]
    /\ raced' = IF account[a] = req[r].was THEN raced ELSE raced \cup {a}
    /\ Finish(r)
    /\ UNCHANGED <<key, passed>>

\* is_active and disabled_at are assigned; the UPDATE sets the ones that differ
\* from what was read.  The new disabled_at is a new time and always differs.
WriteDisabled(r) ==
    LET a == req[r].acc IN
    /\ req[r].pc = "disable"
    /\ account' = [account EXCEPT ![a].active = @ /\ ~req[r].was.active,
                                  ![a].disabledAt = TRUE]
    /\ raced' = IF account[a] = req[r].was THEN raced ELSE raced \cup {a}
    /\ Finish(r)
    /\ UNCHANGED <<key, passed>>

\* Mutant: disabled_at is not reset.
WriteEnabledFlag(r) ==
    LET a == req[r].acc IN
    /\ req[r].pc = "enable"
    /\ account' = [account EXCEPT ![a].active = @ \/ ~req[r].was.active]
    /\ raced' = IF account[a] = req[r].was THEN raced ELSE raced \cup {a}
    /\ Finish(r)
    /\ UNCHANGED <<key, passed>>

\* is_active and disabled_at again, the latter to NULL.
WriteEnabled(r) ==
    LET a == req[r].acc IN
    /\ req[r].pc = "enable"
    /\ account' = [account EXCEPT ![a].active = @ \/ ~req[r].was.active,
                                  ![a].disabledAt = @ /\ ~req[r].was.disabledAt]
    /\ raced' = IF account[a] = req[r].was THEN raced ELSE raced \cup {a}
    /\ Finish(r)
    /\ UNCHANGED <<key, passed>>

-----------------------------------------------------------------------------
(* API keys *)

\* create_api_key loads the account and refuses a disabled one.
ReadForKey(r, o, a) ==
    /\ Idle(r) /\ a \in VisibleAccounts(o) /\ account[a].active
    /\ req' = [req EXCEPT ![r] = [pc |-> "insert", acc |-> a]]
    /\ UNCHANGED <<account, key, passed, raced>>

\* The INSERT finds its prefix free, and the account still there
\* (fk_api_keys_service_account_id), and commits.
InsertKey(r, p) ==
    /\ req[r].pc = "insert" /\ p \notin DOMAIN key /\ req[r].acc \in DOMAIN account
    /\ key' = [k \in DOMAIN key \cup {p} |->
                  IF k = p THEN [acc |-> req[r].acc, root |-> p, revoked |-> FALSE] ELSE key[k]]
    /\ Finish(r)
    /\ UNCHANGED <<account, passed, raced>>

\* get_api_key of revoke_api_key and rotate_api_key, which refuse a revoked key.
\* Neither looks at the account, nor does rotate_api_key look at expires_at.
ReadKey(r, o, k, op) ==
    /\ Idle(r) /\ k \in VisibleKeys(o) /\ ~key[k].revoked
    /\ req' = [req EXCEPT ![r] = [pc |-> op, key |-> k]]
    /\ UNCHANGED <<account, key, passed, raced>>

WriteRevoked(r) ==
    LET k == req[r].key IN
    /\ req[r].pc = "revoke"
    /\ key' = [key EXCEPT ![k].revoked = TRUE]
    /\ raced' = IF key[k].revoked THEN raced \cup {k} ELSE raced
    /\ Finish(r)
    /\ UNCHANGED <<account, passed>>

\* Mutant: the successor is committed before the old key is revoked.
WriteRotatedFirst(r, p) ==
    LET k == req[r].key IN
    /\ req[r].pc = "rotate" /\ p \notin DOMAIN key
    /\ key' = [j \in DOMAIN key \cup {p} |-> IF j = p THEN [key[k] EXCEPT !.revoked = FALSE]
                                             ELSE key[j]]
    /\ req' = [req EXCEPT ![r].pc = "revoke"]
    /\ UNCHANGED <<account, passed, raced>>

\* The INSERT of the successor and the UPDATE of the old key, in one commit.
WriteRotated(r, p) ==
    LET k == req[r].key IN
    /\ req[r].pc = "rotate" /\ p \notin DOMAIN key
    /\ key' = [j \in DOMAIN key \cup {p} |->
                  CASE j = p -> [key[k] EXCEPT !.revoked = FALSE]
                    [] j = k -> [key[k] EXCEPT !.revoked = TRUE]
                    [] OTHER -> key[j]]
    /\ raced' = IF key[k].revoked THEN raced \cup {k} ELSE raced
    /\ Finish(r)
    /\ UNCHANGED <<account, passed>>

\* The prefix is taken, by a key of whatever organisation.  The rollback ends the
\* transaction that held the row-level-security setting and expires the account
\* object, so that the second round of create_api_key's loop cannot read it: both
\* handlers end with an error and leave nothing behind.
PrefixCollision(r, p) ==
    /\ req[r].pc \in {"insert", "rotate"} /\ p \in DOMAIN key
    /\ Finish(r)
    /\ UNCHANGED <<account, key, passed, raced>>

-----------------------------------------------------------------------------
(* authenticate_api_key *)

\* Mutant: revoked_at is not looked at.
FindValidKeyRevoked(r, o, k) ==
    /\ Idle(r) /\ k \in VisibleKeys(o) /\ ~Expired(k)
    /\ req' = [req EXCEPT ![r] = [pc |-> "account", key |-> k]]
    /\ UNCHANGED <<account, key, passed, raced>>

\* The first statement: the row of the prefix, under the organisation that the raw
\* key names; the whole raw key is hashed and compared.
FindValidKey(r, o, k) ==
    /\ Idle(r) /\ k \in VisibleKeys(o) /\ Live(k)
    /\ req' = [req EXCEPT ![r] = [pc |-> "account", key |-> k]]
    /\ UNCHANGED <<account, key, passed, raced>>

\* The second statement.  The scopes are compared next; a key that lacks one ends
\* as in Fail.  last_used_at is written by the caller's commit.
LoadAccount(r) ==
    /\ req[r].pc = "account" /\ account[key[req[r].key].acc].active
    /\ req' = [req EXCEPT ![r].pc = "authenticated"]
    /\ UNCHANGED <<account, key, passed, raced>>

Serve(r) ==
    /\ req[r].pc = "authenticated"
    /\ Finish(r)
    /\ UNCHANGED <<account, key, passed, raced>>

-----------------------------------------------------------------------------
\* The handler raises, or the connection is lost: the session is rolled back.
Fail(r) ==
    /\ ~Idle(r)
    /\ Finish(r)
    /\ UNCHANGED <<account, key, passed, raced>>

\* Time passes the expires_at of a key that has one, and so of the successors it
\* was copied to.
Expire(p) ==
    /\ p \in {key[k].root : k \in DOMAIN key} \ passed
    /\ passed' = passed \cup {p}
    /\ UNCHANGED <<account, key, raced, req>>

Init ==
    /\ account = <<>> /\ key = <<>>
    /\ passed = {} /\ raced = {}
    /\ req = [r \in Requests |-> IdleRequest]

Next ==
    \/ \E a \in Accounts : CreateAccount(a)
    \/ \E r \in Requests :
          \/ \E o \in Orgs : \/ \E a \in Accounts : \/ ReadAccount(r, o, a, "disable")
                                                   \/ ReadAccount(r, o, a, "enable")
                                                   \/ ReadForKey(r, o, a)
                             \/ \E k \in Prefixes : \/ ReadKey(r, o, k, "revoke")
                                                   \/ ReadKey(r, o, k, "rotate")
                                                   \/ FindValidKey(r, o, k)
          \/ \E p \in Prefixes : \/ InsertKey(r, p)
                                 \/ WriteRotated(r, p)
                                 \/ PrefixCollision(r, p)
          \/ WriteDisabled(r) \/ WriteEnabled(r) \/ WriteRevoked(r)
          \/ LoadAccount(r) \/ Serve(r) \/ Fail(r)
    \/ \E p \in Prefixes : Expire(p)

Spec == Init /\ [][Next]_vars

-----------------------------------------------------------------------------
\* is_active and disabled_at say the same of every account that no handler has
\* written over an older version of.
ColumnsAgree ==
    \A a \in DOMAIN account \ raced : account[a].disabledAt <=> ~account[a].active

\* Rows and requests keep their types; every key has its account, which the foreign
\* key enforces; and the two columns of an account agree, which nothing enforces:
\* disable_service_account and enable_service_account have to write both.
TypeOK ==
    /\ DOMAIN account \subseteq Accounts /\ account \in [DOMAIN account -> AccountRows]
    /\ DOMAIN key \subseteq Prefixes /\ key \in [DOMAIN key -> KeyRows]
    /\ passed \subseteq DOMAIN key
    /\ raced \subseteq DOMAIN account \cup DOMAIN key
    /\ req \in [Requests -> RequestStates]
    /\ \A k \in DOMAIN key : key[k].acc \in DOMAIN account
    /\ ColumnsAgree

\* rotate_api_key replaces a key: of a key and its rotated successors one at most
\* is unrevoked.  The exception is a lineage with a key that was revoked or rotated
\* while another request that had found it unrevoked was about to do the same.
OneLiveKeyPerLineage ==
    \A p \in Prefixes :
        LET lineage == {k \in DOMAIN key : key[k].root = p}
        IN  lineage \cap raced = {} =>
                Cardinality({k \in lineage : ~key[k].revoked}) <= 1

Retired(k) ==
    /\ k \in DOMAIN key /\ ~Live(k)
    /\ \A r \in Requests : req[r].pc \in {"account", "authenticated"} => req[r].key # k

\* A key that is revoked or expired while nobody is being authenticated by it never
\* authenticates anybody again: no enabling of its account, no rotation and no late
\* write of another request brings it back.
DeadKeysStayDead == [][\A k \in Prefixes : Retired(k) => Retired(k)']_vars

\* "Disable a service account (all its keys stop working immediately)": nobody is
\* authenticated by a key of an account that shows a disabled_at.  is_active and
\* disabled_at are two columns for one fact, and a handler leaves out the column it
\* believes unchanged; so the exception is an account that was written by a handler
\* which had read an older version of it.
DisabledAccountsAreRefused ==
    [][\A r \in Requests :
          (req[r].pc = "account" /\ req'[r].pc = "authenticated") =>
              LET a == key[req[r].key].acc IN ~account[a].disabledAt \/ a \in raced]_vars
=============================================================================
