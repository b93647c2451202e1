# Verification of AtlasCore

AtlasCore is a multi-tenant knowledge service: a FastAPI backend over
PostgreSQL with row-level security, in which users log in in two steps, belong
to organisations, upload documents that are chunked and embedded, and ask
questions that are answered from those documents with citations. This project
models the parts of the backend in which requests, transactions and failures
interleave, checks them with TLC on small instances, and proves the central
safety properties with TLAPS for every number of requests, tokens, users and
words.

## 1. The system

| Component | State | Operations | What makes it correct |
|---|---|---|---|
| Refresh tokens (`auth/refresh.py`, `services/auth_service.py`, `endpoints/auth.py`, `endpoints/selector.py`) | rows of `refresh_tokens` in families, access-token claims | issue at organisation selection, rotate, detect reuse, expire, logout, logout-all, switch organisation | one live token per family, an ended session never revives, a revocation ends what it is meant to end and nothing of another tenant |
| Two-step login (`auth/pre_auth.py`) | `pre_auth_sessions` | password step, organisation selection | a pre-auth session is exchanged once; a replay is reported only for a real one |
| Organisation membership (`services/org_service.py`, migration 0001) | `organisation_memberships` | add, remove, change role, transfer ownership | always exactly one owner, deposed only by an own transfer |
| Invitations (`services/invitation_service.py`, migration 0002) | `invitations` and the memberships that come of them | create, accept, revoke, expiry | one open invitation per address, joining by oneself only by an own invitation, a closed invitation is never used again |
| Knowledge ingestion (`services/knowledge_service.py`, `knowledge/blob_store.py`, migration 0003) | jobs, chunks, embeddings, blobs | upload, run, retry | one job per idempotency key, a job has its blob, chunks of a version come from one run, status follows the declared transitions, jobs settle |
| Knowledge sources and documents (`services/knowledge_service.py`) | `knowledge_sources`, `knowledge_documents` | archive a document, switch a source off and on | what is archived or switched off is not found; part of `GroundedAnswering` |
| Hybrid retrieval (`retrieval/`) | none between requests | search | fusion respects both rankings; only searchable chunks are found |
| Grounded answering (`answering/`) | none between requests | answer | weak evidence is not put to a provider, labels name the chunk that was cited |
| Service accounts and API keys (`services/service_account_service.py`) | `service_accounts`, `api_keys` | create, disable, enable, create key, revoke, rotate, authenticate | one live key per lineage, a dead key stays dead, a disabled account is refused |
| Workspaces (`services/workspace_service.py`, `api/deps.py`, `endpoints/selector.py`) | `workspaces`, `workspace_memberships`, workspace claims of access tokens | create, add and remove members, switch workspace, enter | a removal, from the organisation or from the workspace, takes effect although tokens and rows of the other kind survive it |
| Teams (`services/team_service.py`) | `teams`, `team_memberships` | create, rename, delete, add and remove members | names unique in a workspace, a deletion is final |
| Registration (`services/auth_service.py`) | users, an organisation with its owner and default workspace | register | one commit; the initial state of `OrgMembership` and `Workspaces` |
| Tenant context (`db/engine.py`, policies of the migrations) | transaction-local settings of a connection | open a scoped session, commit, roll back | no statement runs under another tenant's settings |
| Chunker (`knowledge/chunker.py`) | none | chunk | no word is lost, neighbours share the overlap configured, the loop ends |
| Audit, passwords, JWT, CSRF, parsers, embeddings, configuration, observability, evaluations, scripts, frontend | own tables or none | | see section 7 |

The components meet in the database. Every HTTP request opens its own
transactions at READ COMMITTED and reads without locks, except for the
`SELECT ... FOR UPDATE` of a token rotation, so that what a handler has checked
may have changed when it writes. What protects the data then is an `UPDATE` with
a condition, a unique index, a trigger or a row lock; the models put a step
boundary at each of these points. Other shared state: the blob store, which is
written outside the transaction, and the clients' cookies, which hold the
tokens the server committed, or did not receive.

What is hard here: concurrent presentations of one token; `UPDATE`s whose
snapshot is older than the rows they should have seen; checks on unlocked
reads; commits in the middle of a request (ingestion has four) with a crash
between two of them; retries by clients; a transaction-local tenant context
that has to be set again after every commit; and the arithmetic that decides
whether evidence is sufficient. The `hazards` of `PROJECT.json` list these at
their lines, each with the property that would catch it or the reason there is none.

## 2. Modules

| Module | Models | State and actions |
|---|---|---|
| `RefreshTokens` | token families | A row is absent, pending (inserted by an open transaction), active or inactive; `lock` is the row lock. A rotation is `RotateActive` (the locking `SELECT`, deactivation and insertion) and `CommitRotation`, then `MintAccessToken` or `LoseResponse`. A revocation is `StartUpdate` (snapshot), `UpdateRow` for each row (lock, re-check, write) and `CommitRevocation`. `Rollback` may end any transaction. |
| `PreAuthSessions` | pre-auth sessions | `LookUp`, `Consume` (waits for a concurrent consumer), `SelectOrganisation` or `Refuse` |
| `OrgMembership` | members and owner of one organisation | `Authorise`, `Read`, a write of a row, which takes its lock, then `EnterIndex` for a row that makes an owner, which may wait with the row locked, the deferred trigger, `Commit`, `DeadlockVictim` |
| `Invitations` | invitations of one organisation | read and write steps of create, accept and revoke, expiry; additions and removals of members by administrators |
| `KnowledgeIngestion` | upload, ingestion, retry | one action per committed phase, failures of the pipeline, retries, also of a job that another request works on, faults |
| `JobLifecycle` | the declared job transitions (`INGESTION_JOB_TRANSITIONS`, `transition_to`) | abstract specification, implemented by `KnowledgeIngestion`; the service never calls `transition_to`, and a contested job, one that several clients work on, is free of the table |
| `Evidence` | fusion, band, sufficiency, citations | operators only; sorting and filtering are functions from positions (`InOrder`, `Keep`), without recursion |
| `GroundedAnswering` | `/search` and `/answer` | the request split at its awaits, over `Evidence` |
| `ApiKeys` | service accounts and their keys | every handler is a read (`ReadAccount`, `ReadForKey`, `ReadKey`) and a later write (`WriteDisabled`, `WriteEnabled`, `InsertKey`, `WriteRevoked`, `WriteRotated`, `PrefixCollision`); authentication is two statements, `FindValidKey` and `LoadAccount` |
| `OrgRequests` | users and requests of one organisation | the step of a request, extended by the next two |
| `Workspaces` | who gets into a workspace | `EnterContext`, `EnterMember`, `EnterInside` are the three live checks in front of a knowledge endpoint; `Authorise` stands before the other requests, each a check and a write; `ChangeMembership` and `AcceptInvitation` are what `OrgMembership` and `Invitations` do to the rows |
| `Teams` | teams of one organisation | a check and a write per operation, the constraints in the guards of the writes |
| `Chunker` | the loop of `TextChunker.chunk` | one action per round |
| `RefreshTokensProofs`, `PreAuthSessionsProofs`, `KnowledgeIngestionProofs` (with the chunker's), `OrgMembershipProofs`, `InvitationsProofs`, `ApiKeysProofs`, `AdministrationProofs` (of `Workspaces` and `Teams`), `GroundedAnsweringProofs` | theorems | |
| `MC...` | instances for TLC | |

`map` in `PROJECT.json` names the lines behind every definition.

Abstractions common to the modules. Ids, hashes and names are model values or
small numbers; a token is the row it hashes to. Audit events are left out where
they are written with the rows of the transaction (ingestion keeps their kinds, by
which `NoneAbandoned` tells how a job came to be where it is). The user and organisation flags `is_active` are never
set to false by the code and are left out. Expiry is a step that may happen at any time,
once. PostgreSQL is external: row locks with re-evaluation after a wait,
statement snapshots, unique indexes in which a conflicting insert waits for the
other transaction, deferred triggers at commit, and a deadlock detector.

Abstractions of single modules. `RefreshTokens`: rows are visited by an `UPDATE` in
insertion order, and the families of a user are opened by
`SelectOrganisation` alone. `OrgMembership`: roles that grant nothing in the
handlers are one role. `KnowledgeIngestion`: a document has one version and one
job, as `upload_document` always makes them; the flush of the final phase and
its commit are one step; `overlapped` (documents that several requests work on) and
`interrupted` (documents a request for which was cut short) are history variables
that no guard reads. `GroundedAnswering`: a search statement returns any list
of chunks of searchable documents (ranking functions are not modelled); scores are
integers, in billionths for fusion and in millionths for the band, rounded
down; no score of the instance lies within the rounding error of a threshold, and
the theorems rest on margins far above it (section 5).
`ApiKeys`: a key is its prefix and an account its name; the expiry of a
lineage, copied at each rotation, may pass at any time; an `UPDATE` sets the
columns that differ from what was read, as the object-relational mapper does;
`raced` is a history variable that no guard reads. `Workspaces`: roles are grouped by
what they permit here (none, bare membership, reading, managing), a workspace is its
slug, and the role of a workspace membership is left out, because no permission check
looks at it. `Teams`: requests have been authorised, as in `Workspaces`; the
description of a team is left out, and its workspace is any of `Scopes`, since no
foreign key ties it to one.

## 3. Runs

| Run | Instance | Shows |
|---|---|---|
| `refresh_rotation` | 1 user, 1 organisation, 2 requests, 3 tokens, symmetric requests | one live token per family, ended families stay ended, a revocation that wrote the live row ends the family |
| `refresh_liveness` | 2 organisations, 2 requests, 2 tokens | revocations stay in the tenant; requests end |
| `reuse_race` | 2 requests, 3 tokens | violation: see section 6 |
| `pre_auth_exchange` | 2 users, 2 sessions, 3 requests | a session is exchanged once, no false replay |
| `ingestion` | 2 documents, 2 keys, 2 requests, up to 2 chunks, any number of faults and of retries, overlapping or not | one job per key, blobs, chunks of one run; a succeeded job is searchable, or about to run again, or a request was cut short; what abandons a job; jobs settle; implements `JobLifecycle` |
| `retry_race` | 1 document, 2 requests, 1 chunk | violation: see section 6 |
| `org_ownership` | 3 users, 2 transactions, 1 (re)insertion | exactly one owner, deposed by an own transfer only, transactions end, deadlocks included |
| `invitations` | 2 users, 2 invitations, 2 requests | one open invitation per address, joining by an own invitation unless added, closed ones stay closed |
| `grounded_answering` | 3 chunks in 1 to 3 documents, limits 2 and 3, 2 markers, 1 retry, 2 changes | fusion, sufficiency, citations |
| `api_keys` | 1 organisation, 1 account, 4 prefixes, 2 requests, symmetric prefixes and requests | one live key per lineage and disabled accounts refused, but for rows written over each other; dead keys stay dead always |
| `workspaces` | an owner and a user, 2 workspaces, 2 requests, symmetric requests | removals take effect |
| `teams` | 2 users, 3 teams, 2 names, 1 workspace, 2 requests, all symmetric | names unique in a workspace, deletions final |

Why these bounds are enough for the questions. A race over a token needs the
racing requests and the rows they fight for: two requests, each
any of a rotation, a replay, a logout or a revocation again and again, interleave at
every step, and three tokens make a family of two generations next to a second
family, or one of three (any number of each is covered by the theorems). Two organisations are what a switch needs. A
second session of a second user shows that consumptions do not interfere. Ingestion
needs two requests at once, be they uploads with one key, a run and a retry or two
retries, two chunks to tell a partial set from a whole one, and a second document for
what must not be touched; how often requests are cut short is not bounded. Ownership
needs an owner, a successor and a bystander, and two transactions for every pair
of operations to overlap and for the deadlocks there are, between two transfers or
a transfer and a change of role to owner; the detector of the model breaks cycles of any length. With
three chunks the fused list can be cut off by the limit, documents can share chunks, and
every combination of two rankings of up to three occurs; packets of five and more
items, in which the shares of the band saturate, are covered by the theorems.
Four prefixes make a lineage of three generations beside another key, and a
collision. The other user of `workspaces` takes every role in turn, so that
readers, managers and people who left all meet the owner's requests; any number
of users, workspaces and requests is covered by the theorems, as are all values of
the constants for the safety properties of every other run. Three teams are two of one name and a
bystander, or one that is deleted while another takes its name.

`CHECK_DEADLOCK` is off in the two ingestion runs, in which nothing is left to do
once every document of the instance is uploaded and no job has failed, and on in all
others, where requests can always be made.

## 4. Fairness

`RefreshTokens`, `OrgMembership` and `KnowledgeIngestion` have a `FairSpec`: weak
fairness of the steps of a request that has begun. A handler is a coroutine that
the event loop resumes when its statement returns, and a statement that does not wait
for a lock returns. In `RefreshTokens` and `OrgMembership` the steps that wait
for a row lock or an index entry have strong fairness (in `OrgMembership` all steps of a
transaction): others may take and release
the lock again and again, but PostgreSQL queues the waiters of a row or of a transaction
and serves them in turn. It also breaks a deadlock by aborting a victim.
Nothing is assumed of clients, expiry, membership changes or faults.

The wait of a rotation for its own `SELECT ... FOR UPDATE` is outside of `RequestsFinish`
of `RefreshTokens`: such a request is idle in the model until the row is granted, and
whatever holds the row ends, by the same property.

`JobsSettle` ends in a settled or an abandoned job: after a crash nothing in the code
resumes a queued or running job. `NoneAbandoned` says what else abandons one.

## 5. Proofs

`RefreshTokensProofs` proves, for every set of users, organisations and requests
and every `MaxTokens` (assumption `ConstantsAssumption`):

- `SafetyInductive`: `Spec => []IInv`. The properties are not inductive: a
  family with one live token can gain a second when two rotations are in
  progress, unless it is known that a rotation or revocation in flight holds the
  lock of the row it replaces or has written, that a row has one holder, and that
  a pending row is the successor of exactly one rotation in the same family.
  `IInv` adds these facts on locks, pending rows and the rows an `UPDATE` has hit.
- `TypeCorrect`, `AtMostOneLiveToken` (`OneActivePerFamily`),
  `EndedSessionsStayEnded` (`EndedIsForever`) and `RevocationsEndFamilies`
  (`RevocationEndsFamilies`) follow from it.
- `RevocationsStayInTenant` (`RevocationStaysInTenant`) needs `ScopeInv` on top: every
  row in the snapshot of an `UPDATE`, and every row it has written, was committed
  and in reach of the request when it was selected. It stays so, because a committed row
  never changes its family, nor a family its session (`CommittedStays`).

`PreAuthSessionsProofs` proves `TypeCorrect`, `ConsumedExactlyOnce` (`ExchangedOnce`)
and `ReplaysAreReal` (`NoFalseReplay`) from an invariant that ties a consumed session to the one
request that holds its row lock or has committed. That a family belongs to the user of its
session (part of `TypeOK`) needs `FamilyRowExists`: a row that was exchanged is there,
so that no login makes it again for another user.

`KnowledgeIngestionProofs` proves, for every set of documents, keys and requests and
any number of chunks, with retries that overlap as they like and requests cut short anywhere
(assumption `IngestionAssumption`):

- `TypeCorrect`, `KeysAreUnique` (`OneJobPerKey`), `JobsHaveBlobs` (`JobHasBlob`)
  and `ChunksAreWhole` (`ChunksOfOneRun`). The inductive
  invariant adds what a request knows of its document (`RequestInv`: its blob is there, its job
  absent, pending or committed, by the point reached), that one request
  uploads a document (`UploadInv`: the blob, written first, keeps others off), and that
  chunks belong to committed jobs (`ChunkInv`).
- `SuccessIsSearchable` (`SucceededIsSearchable`), `AbandonmentExplained`
  (`NoneAbandoned`) and `Refinement` (`ImplementsLifecycle`), from `DocsInductive`. Its
  invariant `DocInv` is of one document. While no requests overlap on it there is one
  request at most (`Alone`), and the job is in the status this request left it in
  (`InStep`); so the moves are the declared ones. While they do overlap nothing of the
  kind holds, and what remains has to be said without it: a run that conflicts with
  chunks has a retry before it, and the chunks a success (`Trail`, on the audit
  events); a succeeded job without its chunks has a run about to start, for
  whoever deleted them starts next (`Success`).
- `ChunksAreRight` (`ChunksFit`, `NoWordLost`, `OverlapExact`) and `LoopMovesOn`
  (`Progress`) about `Chunker`, the first stage of the pipeline, for every number of words and all
  settings the constructor accepts. The invariant: as long as the loop runs, the
  last chunk ends at `start + overlap`, short of the last word, and all words
  before that are covered. The loop is sequential and its inputs are unbounded,
  so this component has a proof and no run.

`OrgMembershipProofs` proves, for every set of users and open transactions and every
`MaxJoins` (assumption `MembershipAssumption`),
`TypeCorrect`, `OneOwner` (`ExactlyOneOwner`) and `DeposedOnlyBySelf`
(`OwnerDeposedOnlyBySelf`). That there is one owner after a commit does not follow
from there being one before: the trigger counted owners earlier, in its own view, and
another transaction may have committed since. The invariant closes the gap. A row has
one uncommitted version (`RowsExclusive`), and a transaction wrote only what its point
allows (`WritesInv`). Whoever writes an owner has written the present
owner's row too, since the index accepts no other (`OwnerRowHeld`); so no other transaction can
change who owns, and the verdict of the trigger stands until the commit
(`TriggerStands`).

`InvitationsProofs` proves `TypeCorrect`, `InvitedOnce` (`OneOpenInvitation`),
`JoinsAreInvited` (`JoinsByOwnInvitation`) and `ClosedForGood`
(`ClosedStaysClosed`) for any number of users, invitations and requests, with members
added and removed by others meanwhile. The invariant says that what a request found still holds when it writes (`FoundInv`): rows
are not deleted, nor made out to someone else. Marks may have been set in
between; the properties survive that.

`ApiKeysProofs` proves `TypeCorrect`, `RotationReplaces` (`OneLiveKeyPerLineage`),
`DisabledIsRefused` (`DisabledAccountsAreRefused`) and `DeadForGood`
(`DeadKeysStayDead`) for any number of organisations, accounts, keys and requests. The first two
except rows that a request wrote over after another had changed them (`raced`); the
last has no exception. The invariant: rows read are still there (`HoldsInv`), a lineage
keeps its first prefix occupied, so that no other lineage takes it
(`RootsExist`), a lineage has one live key (`LineageUnique`), and, as a part of
`TypeOK`, `is_active` and `disabled_at` agree (`ColumnsAgree`), which is what makes the
check of one of them enough.

`AdministrationProofs` proves of `Workspaces`, for every set of users, workspaces and requests
(assumption `WorkspacesAssumption`), `TypeCorrect`, `OrgRemovals`
(`RemovalFromOrgTakesEffect`) and `WorkspaceRemovals`
(`RemovalFromWorkspaceTakesEffect`). `TypeOK` is inductive: every step that writes a
membership or signs a token finds the workspace in the same step, by the foreign key
or by a read. The action properties then follow from the types, by a case per way in which a request changes.

Of `Teams` it proves `TeamTypeCorrect` (`TeamTypeOK`), `NamesInOneWorkspace` (`ScopedNamesUnique`)
and `DeletedForGood` (`DeletionIsFinal`) for every set of users, teams, names,
workspaces and requests. A deleted team stays deleted although a
request that read it before goes on to write: an `UPDATE` or `INSERT` for a missing
team ends the request, and a second `DELETE` changes nothing.

`GroundedAnsweringProofs` proves, for any number of chunks, markers, retries and changes of
the store, all limits the endpoints accept (1 to 50) and all settings (assumption
`AnsweringAssumption`):

- `SafetyInductive`, `Spec => []IInv`. The properties of the response and of the
  provider call need what the request had found when it stood earlier:
  `FoundInv` (lists of at most 150 entries, items out of these lists, and, for an
  answer, only chunks of documents in `seen`, to which every change of the store adds)
  and `PacketInv` (the band is the one computed from these very items and lists,
  and the policy let the provider be called).
- `TypeCorrect`: fused list, packet and citations hold no chunk twice, and the
  retry loop stops. The lists are built by `InOrder`: the element at a position is the one
  with so many predecessors. `InOrderSorts` shows that this sorts: the number of
  predecessors grows along a strict total order (`PlaceRises`), so it is an injection of
  a finite set into as many places, and therefore a bijection. The pigeonhole theorem of
  the library thus takes the place of an induction over the list. `KeepFilters` says the same of filtering.
- `FusionRespectsDominance` (`DominanceRespected`): a better rank
  contributes strictly more, after rounding down, for all ranks up to 150, the most
  that `FetchLimit` asks for (`ContributionFalls`); hence a higher score, hence an
  earlier place (`FuseOrders`), which the limit cannot cut off. Neighbouring
  ranks differ by more than 22,000 billionths, so that floating point makes no tie either.
- `WeakIsNotTrusted` (`WeakEvidenceIsNotTrusted`): a packet without a chunk that both
  channels found scores below 0.7, and below 0.45 if it is of one document
  (`ScoreWithoutAgreement`), for any number of items and flags. The largest such scores
  are about 0.6 and 0.43; the penalty for suspicious items only lowers them.
- `LabelsAreRight` (`LabelsNameTheirSource`): the n-th kept marker of any text
  is the n-th number of the answer, and that is the position of its citation
  (`RewriteLabels`, `ValidateKnows`).
- `CitationsWereSearchable` (`CitedWasSearchable`) from `FoundInv`.

One step is proved per action, the lemmas above it say what an action leaves
alone. A property that counts (`Cardinality(...) <= 1`) is proved from its form with
two elements that must be equal, which is the inductive one.

Only model-checked is liveness (`RequestsFinish` of `RefreshTokens` and of
`OrgMembership`, `JobsSettle`): fairness needs `ENABLED`, which is out of the prover's reach.

## 6. Where the code and its documentation disagree

Two runs end in a violation of what the repository says of itself; the lines
are in `findings`.

- `reuse_race`: a replay that is detected while the family's live token is being rotated
  leaves the successor live.
- `retry_race`: of two retries of one failed job the second puts a job that the first has
  brought to succeeded back to queued, although "succeeded and cancelled jobs are
  terminal" (`knowledge_service.py:757-758`), and deletes its chunks. The run
  `ingestion` has these retries too and checks what is left then: `SucceededIsSearchable`,
  `NoneAbandoned` and `ImplementsLifecycle` name the overlap as the exception it is.

Behaviours the models have, or that were read off the code while modelling, and that
no run is spent on:

- after `switch_org` a logout runs under the other organisation's row-level
  security, revokes nothing and is reported as done (`endpoints/auth.py:369`);
- after overlapping retries the second run may meet the first one's chunks; its commit
  fails outside of the `try` that would mark the job failed, and the job stays
  running for good (`knowledge_service.py:697`; the exception in `NoneAbandoned`);
- an acceptance and a revocation of one invitation may both commit (the exception in
  `ClosedStaysClosed`);
- two rotations of one key, or a rotation and a revocation, that both found it unrevoked
  leave two live successors, or a live successor of a revoked key
  (`service_account_service.py:341-356`, "Cannot rotate a revoked API key."); the exception in
  `OneLiveKeyPerLineage` is this one;
- a disabling that read the account as disabled, while another request enables
  it, writes `disabled_at` only: the account stays active and shows a disabling time
  ("all its keys stop working immediately", `endpoints/service_accounts.py:214`); the exception in
  `DisabledAccountsAreRefused`;
- a collision of key prefixes is meant to be retried
  (`service_account_service.py:277-279`), but the rollback ends the transaction that held the
  tenant setting and expires the account object, so that the second round fails;
- `rotate_api_key` accepts a key of a disabled account and an expired key; an authentication may
  find the key live and then the account active at moments that never coincided;
- update of a service account emits an event type the audit service rejects;
- names of organisation-wide teams are not unique (`NULL`s differ in the
  unique constraint; `db/models/team.py:27` says they must be), and once two
  exist a creation of that name raises `MultipleResultsFound`; `teams.workspace_id` has no foreign key;
- two creations of one workspace slug end in an unhandled integrity error;
- registration looks for a taken slug without a tenant setting, and so sees none;
- workspace and team memberships survive the removal from the organisation and revive
  when the user returns;
- an upload that loses the race for an idempotency key leaves its blob
  (`knowledge_service.py:505`; lines 26-27 promise a clean-up);
- an expired invitation stays in the unique index and blocks the next one
  (migration 0002, lines 83-91, whose comment excludes expired ones);
- an answer may come without a citation: when the provider cites an unknown id all its
  citations are dropped and the text is returned (`answering/service.py:333-343`,
  while the endpoint promises "a cited answer, abstention message, or safe failure response");
- `GroundedAnswerService.answer` says it never raises, and lets database errors through;
- the header of `answering/evidence.py` describes the band high by three documents; a
  single chunk ranked first by both channels scores 0.711 and is high;
- `archive_document` calls itself "reversible via update"; nothing un-archives.

## 7. Not modelled

Prompt text, passwords, JWT signatures, CSRF comparison, parsers and embeddings are conversions of
single values without state. Audit rows decide nothing. Registration is one
transaction; what it commits is the initial state of two modules. Operations that
write display names and descriptions only (organisation, workspace, knowledge source)
are left out, as is `update_service_account`, which always fails. Evaluations and scripts are sequential. Configuration enters as
CONSTANTS. The frontend is pages over the API; its single-flight refresh
(`frontend/src/lib/api.ts`) would be the client side of `RefreshTokens`. The
ranking functions of PostgreSQL and the providers are external.

The connection pool's side of the tenant context is left out: settings are local to a
transaction (`set_config(..., true)`), so that a pooled connection carries none over; what a
commit or rollback in mid-request loses is modelled where a handler meets it
(`ApiKeys`).

## 8. Plan

Done: `RefreshTokens`, `PreAuthSessions`, `KnowledgeIngestion` implementing
`JobLifecycle`, `OrgMembership`, `Invitations`, `Evidence`,
`GroundedAnswering`, `ApiKeys`, `Workspaces`, `Teams`, `Chunker`.

Every safety property that a run checks is also proved, except those of
`reuse_race` and `retry_race`, which the code does not have. Left: the client's single-flight
refresh (`frontend/src/lib/api.ts`) composed with `RefreshTokens`.
