# A TLA+ verification project for the Observer Protocol / AT repository

This directory models the stateful part of the repository: the API server
(`api/api-server-v2.py` and the routers it mounts), the payment rails behind it
(`rails/`), the database triggers it relies on (`migrations/`) and the ERC-8004
indexer (`rails/erc8004/indexer.py`). The modules are checked with TLC on small
instances; every safety property and action property is also proved with TLAPS, for
every size of the parameters. Only liveness is left to TLC alone (section 5).

Contents: 1 inventory, 2 modules, 3 runs, 4 fairness, 5 proofs, 6 disagreements
between code and documents, 7 what is not modelled, 8 plan.

## 1. Inventory

The server is one FastAPI process (`README.md` and `auto-restart.sh` start
uvicorn without workers; the latter kills and restarts it). Endpoints written as
`def` run in threads and interleave at every database statement; endpoints
written as `async def` run on the event loop and give it up only at an `await`.
State is in PostgreSQL; a few things are in memory (key cache, rate limiter, the
reference engine's log, pending SAML requests and their replay cache). Chains, DID
hosts, webhook receivers and policy engines are external.

| component | state | operations | what is hard | correct when |
|---|---|---|---|---|
| status lists (`status_list_store/routes`, `bitstring_status_list`) | `vac_revocation_registry` rows | create, allocate index, signed update, GET | allocation by several processes, validation before an unlocked write, crashes | an index is given once; revocation is terminal; the rows implement the registry verifiers see |
| credential cache (`cache_invalidation`, `status_checker`, attestation endpoints) | cached credentials with `revoked_at`, `suspended_at`, `last_verified_at` | cache, store, read with re-check | snapshot / fetch / write-back of concurrent reads, lists that change or fail in between | staleness is bounded; a revocation seen is kept |
| magic links (`remediation_routes`) and the demo merchant (`demo_neuralbridge`) | `magic_link_tokens` | generate, open, store, decline, poll, purchase | two tabs, two expiry tests, decline against approve | one verdict per link; no purchase after a decline; polling ends |
| agent identity (`api-server-v2`, `crypto_verification`) | agents, `public_keys`, key cache, challenges | register, rotate, challenge, verify, restart | three copies of a key, keys that change owner, failing key writes | an agent is verified only by its own key |
| ERC-8004 indexer | event tables, one cursor per registry | poll, fetch, store, advance | rows and cursor are two transactions; errors of the node | nothing behind a cursor is missing; it catches up |
| policy consultation (`policy_client`, `policy_engine_store`, `at_policy_engine`, `_consult_policy`) | engine row, rate limiter, log | register, deactivate, consult | engine on the same event loop, swallowed exceptions, racing limiter | what is committed was permitted and logged |
| TRON receipts, counterparties, trust score (`submit_tron_receipt`, `rails/tron`, migrations 008/009/014, `counterparty_*`, `trust_score`) | `tron_receipts`, `agent_transactions`, `counterparties` | submit, bridge (trigger), observe (trigger), accept, revoke | listener against receipt, operator against trigger, a small thread pool | counts and links agree with what is stored; a receipt never lowers the score; submissions end |
| audit trail (`audit_*`), Merkle tree (`merkle_tree`) | activities, receipts, requests, acknowledgments, anomalies, coverage rollup | ingest, match, report, compute coverage | any order of arrival, replays, broken-off ingests, read skew | every receipt is linked or reported once; a root binds its entries |
| authentication (SIWW, onboarding, login, SSO) | challenges, users, memberships, invitations, sessions, SAML caches | challenge, verify, onboard, log in, add wallet, SAML start and callback, administration | check-then-mark of challenges, three commits of the callback, unique violations that are passed over, restarts | sessions and roles are those the invitations and bound wallets give |
| delegation requests (`api-server-v2`) | `delegation_requests`, agent row | request, approve, revoke | approve against revoke, overlapping approvals | the agent's VC is of a request of its own; bonuses are backed by approvals |
| VAC and presentations (`vac_generator`, `vp_reconstructor`, `vc_verifier`, `/vac`, `/vp`) | `vac_credentials`, `vac_revocation_registry` | generate, refresh, submit, read, revoke | a read that decides on one SELECT and answers from another, upserts, replaced tables | a revoked credential is never active again; what is served is live |
| events (`submit_transaction`, `audit_verified_event`, `rails/x402`, `rails/solana`) | `verified_events`, credentials | submit, audit, verify a payment | check-then-insert, two sources that disagree, fallbacks | one payment counts once; an unmarked payment is on the chain |
| chain verification (`verify_endpoints`, `*_adapter`) | `chain_verifications` | verify | retries, writes by receipt and not by row, crashes | the adapter is asked once; a verified row has the evidence of its tier |
| VAC extensions (`vac_extensions`) | `vac_extension_registry`, tagged attestations | register, attest | look-then-insert without a unique namespace | credentials come from the registrant |
| webhooks, partners, organisations, DID documents, `main.py`, SDKs, demos | registries and documents | see section 7 | — | — |

Calls between them: the write paths (`approve_delegation`, `rotate_agent_key`,
`submit_transaction`, `submit_tron_receipt`) consult the policy engine before
they commit; the credential cache reads status lists over HTTP; the merchant
generates magic links and accepts the credentials stored under them; Delegation
VCs may be submitted as presentations; receipts reach counterparties and scores
through triggers.

## 2. Modules

| module | models | how |
|---|---|---|
| `StatusRegistry` | what hosted status lists promise | abstract specification: a list gets a purpose once, publishes bits, and never clears a revocation bit |
| `StatusLists` | store and endpoints | `CreateList`, `AllocateSelect`/`AllocateCommit` (the two halves of `allocate_index` around its row lock), `UpdateValidate`/`UpdateApply` (the validation against a plain SELECT, the write), `Crash`. `handedOut` is a history variable: how often each index was returned |
| `StatusListsProofs` | — | theorems about `StatusLists` |
| `CredentialCache` | cache and re-check | extends `StatusRegistry` (the issuer's side is its `RegNext`). A read is `ReadCached`, or `ReadStart`, one `CheckEntry` per `credentialStatus` entry, `WriteBack`. `since` and `checkedBy` are history variables for the staleness property |
| `CredentialCacheProofs` | — | theorems about `CredentialCache` |
| `Clock` | — | the time, and the bound on it, of the four modules that extend it (`MagicLinks`, `PolicyGate`, `Ledger`, `AuditTrail`) |
| `MagicLinks` | magic links and purchases | a page (browser tab) opens a link, stores (`StoreSelect`, `StoreUpdate`) or declines; agents `Poll` and `Purchase`. `JwtValid` and `ColumnExpired` differ in the second of the expiry, as in the code. `told`, `got`, `bought` record what clients were given |
| `PaymentProofs` | — | theorems about `Ledger` and `MagicLinks` |
| `AgentIdentity` | registration, keys, verification | an agent is named by its first key, since `agent_id` is its hash. Register and rotate commit the agent row first, then `PersistPublicKey` and `CachePublicKey`; `Restart` loads any of an agent's key rows (no ORDER BY). `bound` and `proved` are history variables |
| `AgentIdentityProofs` | — | theorems about `AgentIdentity` |
| `Indexer` | event indexer | one polling loop with a program counter; `StoreRows` and `AdvanceCursor` are separate transactions. `GetLogsError` is an error answer, `RecordError` a caught exception, `Crash` everything that ends a cycle. `lost` records refused ranges |
| `IndexerProofs` | — | theorems about `Indexer` |
| `PolicyGate` | policy consultation | requests of threads and of one coroutine endpoint, which holds `loop` from `Arrive` to its reply; the reference engine answers only when `loop` is free. `InfrastructureFails` is the swallowed exception |
| `AuditProofs` | — | theorems about `AuditTrail`, `MerkleTree` and `PolicyGate` |
| `TronRail`, `TrustScore` | `rails/tron` verification, `compute_tron_trust_score` | operators: what a receipt must claim to be verified against a transfer; the five weighted parts of the score in hundredths |
| `Ledger` | receipts, triggers, listener, counterparties | a submission is `SubmitReceipt`, the rail's run on the thread pool (`RailStart`, `RailAnswers`, `RailTimeout`) and `PersistReceipt`, which includes both triggers (`InsertRow`); the listener enriches and inserts in two steps; `AcceptSelect`/`AcceptWrite`, `RevokeCounterparty`, `Restart` |
| `MerkleTree` | `merkle_tree.py` | the three loops (the levels of `build_tree`, the index of `generate_proof`, the hash of `verify_proof`) as recursive functions; the hashes of entries (`LeafHash`) and of pairs (`HashPair`) are free constructors |
| `AuditTrail` | Spec 3.4 ingest and coverage | an ingest holds the event loop and commits row, link and anomaly one by one; it may break off between commits; threads compute coverage between them. `abandoned` is a history variable |
| `EnterpriseAuth` | wallet sign-in, onboarding, login, SSO, administration | `/auth/verify` (threads) reads, marks and commits in three steps; the SAML callback has three commits; the other endpoints are one step, because they run on the event loop without an await |
| `EnterpriseAuthProofs` | — | theorems about `EnterpriseAuth` |
| `ApiRequests` | — | what the next modules share: the agents, and a bound on the requests of each service |
| `Delegations` | delegation requests | `ApproveSelect`, `ApproveIssue`, `ApproveCommit` or `ApproveFails`; `RevokeDelegation` in between |
| `Vac` | credentials and presentations | extends `Delegations`, because a Delegation VC may be submitted as a presentation. A GET is a decision and a second read; `schema` is the last migration of the database, since 003 and 006 replace tables this code uses |
| `PaymentRails` | x402, Solana, Lightning, TRON, Stacks checks | operators over `Chain`, what the ledger says; the answers of services are arguments |
| `Events` | the four writers of `verified_events` | check and insert are two steps; `seen` remembers what was committed at the check |
| `ChainVerify` | `POST /v1/chain/verify` | select, delete of a failed row, insert of the pending row, record by receipt; `VerifyBreaksOff` leaves the pending row. `everFailed` is a history variable |
| `Extensions` | VAC extension registry | look and insert are two steps for both endpoints; `seen` as in `Events` |
| `AgentRecords` | — | composes `Delegations`, `Vac`, `Events`, `ChainVerify` and `Extensions` |
| `AgentRecordsProofs` | — | theorems about `AgentRecords` and the five services it composes |

Abstractions: signatures and tokens are guards; a bitstring is the set of its set
bits; a timestamp is a clock tick; a credential is named by where it was signed.
Every module keeps the order of database statements, the guards and the early
returns. A rejected request that changes nothing has no action of its own.
Each `MC*` module only names the model values of its instances. Definitions
introduced by a comment "Mutant" are wrong variants of the definition that
follows them; no specification uses them. Each is a plausible programming error
that the named property detects.

## 3. Runs

| run | instance | shows |
|---|---|---|
| `status_single` | 1 process, 2 lists, 2 owners, capacity 2 | types; revocation bits never clear; refinement of `StatusRegistry` |
| `status_two` | 2 processes, 1 list, capacity 3 | an index is handed out once; `next_available_index` is an exact high-water mark, through crashes and up to the full list |
| `cache_reads` | 1 credential with a revocation and a suspension entry, 2 readers, 4 instants | `revoked_at` is never cleared; a read that looks upstream reports what was revoked before it began; a row that a status check wrote is stale for at most the re-check age plus one request |
| `links_flow` | 2 links, 2 tabs, expiry after 1 tick, 4 instants | no agent is told both verdicts; a credential is delivered only for the link it was stored for and settles only if that link was not declined; polling ends |
| `links_singleuse` | as above | the disagreement of section 6 |
| `identity_verify` | 2 keys, 2 threads, 1 challenge per agent | only a key that is bound to an agent verifies it |
| `indexer_cache` | 3 blocks, batches of at most 2, 2 faults | nothing behind a cursor is missing but what the node refused; owners are those of the chain; duplicates are bounded by the failures; every cursor catches up |
| `policy_gate` | 1 thread, 1 coroutine, limit 1 per second, 2 seconds | what is committed was permitted by the engine that was asked and logged; refusals are logged; every request ends |
| `ledger_book` | 2 transfers, 5 receipts (two of one transfer, one without an agent, one for an unknown agent, one without an amount), 2 submissions on a pool of 1 | counterparty counts equal the stored transactions; receipts and transactions are linked in whichever order they came; at one moment a receipt never lowers a score; every submission ends |
| `audit_trail` | 9 credentials of all four types, one broken-off ingest, Merkle batches of up to 5 entries | links agree with what was logged; a receipt is linked or reported once and never both; the rollup counts activities; roots bind their entries and proofs prove exactly theirs |
| `auth_flows` | 2 people, 3 organisations (one created in the run), 2 wallets, 1 challenge, 2 invitations, 1 SAML request and 2 responses, 2 threads | roles are the granted ones; a challenge is spent exactly with a session; a session belongs to the wallet's user, or to the organisation whose provider signed the response; an AuthnRequest yields one session |
| `records` | the loads below | delegations: the agent's VC is of its own request, scores are backed. VACs: rows are of issued VCs and revoked exactly when listed, a revocation is for good, what is served is live. Events: repeats only by races, credentials have events, unmarked payments are on the chain. Chain verification: one dispatch without a failure, verified rows are backed. Extensions: a namespace is shared only by a race, credentials are the registrant's |

Why the bounds are enough. Two processes, tabs, readers or threads are what a
race between a test and a write needs. Capacity 2 and 3 reach the full list in
both status runs. Two bits are needed because the first list an issuer can
publish must differ from the zeroed one. Two keys let a key change hands between
agents and an agent have two key rows. Three blocks with batches of two give a
backlog that takes more than one cycle and a replayed batch that has grown; two
faults allow a crash in the replay of a batch that failed. One call per second
makes the second of two requests meet a full window, and the next second opens a
new one. A pool of one thread makes the second submission wait. In `ledger_book`
the caps of the score are 1, so that the second receipt meets them. Receipts of
`audit_trail` lie at the tolerance and one tick beyond it; batches of five entries
have an odd level at two heights. In `auth_flows` every time to live is one tick,
so that each of them is met, just passed and not yet reached.

`records` starts from one of several loads (`Loads`), which bound the requests of
each service: 5 delegation calls; 2 delegation calls with 3 VAC calls, because a
Delegation VC can be submitted as a presentation; 4 VAC calls; 2 events; 3 chain
verifications, so that two retries can race after a failure; 3 extension calls, so
that two registrations can race and a third call can use the outcome. The other
services share no tables, so no property relates them and they are loaded one at
a time. Interchangeable call ids and VC ids are symmetric.

`CHECK_DEADLOCK FALSE` is used where users may simply stop or a bound is used up;
the indexer and the identity endpoints always have a step and are checked for
deadlock.

## 4. Fairness

* `MagicLinks`: weak fairness of the clock and of each agent's polling, which is
  what the soft-reject answer tells the agent to do. Nothing is assumed of the human.
* `Indexer`: weak fairness of the loop's own steps (`run_forever` catches every
  exception and sleeps); the chain need not grow. `CatchesUp` relies on faults
  being finitely many.
* `PolicyGate`: weak fairness of each request: a thread runs, the event loop
  serves what waits for it, and a call ends by its timeout at the latest.
  Administrators and the database need do nothing.
* `Ledger`: strong fairness of what the server does for a submission: the pool's
  queue and the event loop are first-in first-out, so a submission for which a
  thread or the loop is free again and again gets it, and the subprocess ends by
  its timeout. `accept_counterparty` finishes what it has begun. Nothing is assumed
  of the chain, the listener, TronGrid or the operators.
* The other modules are checked for safety only.

## 5. Proofs

Every theorem below holds for all values of the constants that satisfy the named
assumptions of the module. Hardly any property of section 3 is inductive, as most
relate what a request read to what it writes later; each proof therefore rests on
an invariant that says what every program counter implies for the tables. Each of
these invariants was checked with TLC on the instances of section 3 before it was
proved, and each has one lemma for its initial states, one step or lemma per action, and
a temporal conclusion. Where a proof module holds two components, they share only
the clock, and each theorem is about the specification of one of them.

| module | inductive invariant | beyond the types it says |
|---|---|---|
| `StatusListsProofs` | `AllocInv`, `ValidatedUpdateIsCurrent` | the worker in the middle of an allocation is the only holder of the row, has read the current column, and the list has room; with one process, what a worker is about to write is still a legal change |
| `CredentialCacheProofs` | `CacheInv` | a bit that a read found clear and that is set now was set since the read began; a revocation served at its beginning has been found once its list was read |
| `PaymentProofs` | `LedgerInv` | a listener between its two steps shows a stored receipt of its own transaction; only rows that are present show a receipt, and finitely many are present; a counterparty without a row has count 0 |
| `PaymentProofs` | `ScoredInv` | `LedgerInv`, and: what is stored, or verified and about to be, has been validated by the rail, so that its amount and its time are numbers; the stored receipts are finitely many |
| `PaymentProofs` | `LinkInv` | what polls returned is still what the row says; a stored credential is of a page whose store request for this link was accepted |
| `AgentIdentityProofs` | `KeyInv` | the agent row, the key table and the key cache hold only keys bound to their agent, and requests in progress keep to theirs |
| `AuditProofs` | `AuditInv` | the running ingest has stored its credential and has neither linked nor reported it; nothing is linked or reported that is not stored; what a thread received is bounded by the activities there are, which only grow |
| `AuditProofs` | `GateInv` | who is asked is the engine the request came in under; nothing is logged before the consultation ends; the loop is held only in the middle of a handler |
| `IndexerProofs` | `IndexInv` | a batch starts right above its cursor; its logs are all there are in its range, or the range is recorded as lost; no agent's row is ahead of a replayed batch |
| `EnterpriseAuthProofs` | `AuthInv` | a marked challenge has its session; a spent AuthnRequest stays spent and the callback holds the one session still to come; the account a callback committed stays |
| `AgentRecordsProofs` | `AgentInv` | `DelegationInv`: scores about to be written hold one bonus more at most than approvals went through. `VacInv`: what a call remembers as revoked is listed. `EventInv`: what a call saw is no duplicate of its own. `ChainInv`: unless its receipt has failed, a call that asks the adapter owns the pending row. `ExtensionInv`: what a registration saw in its namespace is its own |

What is proved of each:

* Status lists: `IndicesAreUnique`, `HighWaterMark` for any number of processes;
  `StoreImplementsRegistry` and `RevocationIsTerminal` assuming `SingleWorker`. With
  two workers `ValidatedUpdateIsCurrent` is false, as the row is validated without
  a lock. `StepRefines` maps every step to one of `StatusRegistry` or a stutter.
* Credential cache: `UpstreamReadsReport`, `CheckedRowsAreFresh`, and the action
  property `RevocationSticks`. Uniqueness of entries is not needed: a credential may
  have any sequence of status entries (`EntriesAssumption`).
* Magic links: `VerdictsNeverConflict`, `DeliveriesWereApproved`.
* Agent identity: `OnlyBoundKeysVerify`.
* Transactions and counterparties: `TransactionsAreCountedOnce`: however listeners,
  submissions and acceptances interleave, a counterparty's count is the number of
  rows; `ReceiptsReachTheBook`.
* Trust score: the action property `ReceiptsNeverLowerScore`. The view aggregates in
  five ways, and each has its lemma: cardinalities, a maximum (`GreatestNumber`) and two
  sums (`VolumeGrows`: the fold takes the receipts in an arbitrary order, and
  `SumInAnyOrder` shows that the order does not matter). `ScoreGrows` carries this
  through the caps, divisions and weights. `LedgerAssumption` says that a receipt that
  validates has an amount in digits and a date, which `validateTronReceiptData` tests.
* Audit trail: `LinkedReceiptsAgree`, `ReceiptsAreClassifiedOnce`, `RollupIsBounded`.
* Merkle tree: `RootsKeepTheirMeaning`, for batches of any length, from `RootsBind` and
  `ProofsConvinceOfTheirEntry`; and `AcceptedMeansIncluded`, which TLC could only sample:
  no proof, of whatever length and hashes, convinces `verify_proof` of an entry that is
  not in the batch. The argument goes level by level: a level is half as long as the one
  below (`LevelsShrink`), so there is a root (`HeightIs`); a node and its sibling make
  their parent (`SiblingsMakeParent`), going up; the nodes of a level are the parts of
  the pairs above it (`NodesArePaired`), going down; and a leaf is no pair
  (`LeafIsNoPair`), so two trees with one root have one height. What is assumed of
  SHA-256 is that different arguments have different hashes; in the code an entry is
  hashed as JSON text and a pair as 64 bytes, hence the two constructors.
* Policy consultation: `OutcomesStandInTheLog`, for any rate limit above zero
  (`GateAssumption`).
* Indexer: `OwnersFollow`, `CursorMeansIndexed`, `FaultsBoundDuplicates`, for any batch
  size. The least and greatest element of a set of numbers (`MinIsLeast`,
  `MaxIsGreatest`) come from the well-foundedness of inclusion on finite sets.
* Authentication: `RolesAreGranted`, `ChallengesAreSpentOnSessions`, `SessionsBelong`,
  `ResponsesAreNotReplayed`. The proof is in two halves: `StepOK` says what a step may
  do to the tables, `InvKept` that this keeps the invariant, and one lemma per action
  that the action is such a step. `NamesAssumption` only says that the markers
  for "none" are no ids and that nonces and AuthnRequest ids differ.
* Agent records: `VcsMatchTheirRequests`, `ScoresAreEarnedByApprovals`,
  `CredentialRowsAreTrue`, `ServedPresentationsAreLive`, the action property
  `RevocationIsForGood`, `RepeatsAreRaces`, `CredentialsHaveTheirEvents`,
  `AdapterIsAskedOnce`, `VerifiedMeansBacked`, `NamespacesAreHeldOnce`. The theorems
  are about the composition, so they say also that no service disturbs
  another: `AgentSteps` has one case per service. `ScoresAreEarnedByApprovals` needs that finitely
  many approvals went through, which is part of `DelegationInv`.
* Each module proves the types of its components (`TypeCorrect`, and `LedgerTypeCorrect`,
  `LinkTypeCorrect`, `GateTypeCorrect`); only that of the status lists, which
  bounds `next_available_index` by the capacity, is also a property of a run.

Only model-checked:

* Liveness: `PollingEnds`, `CatchesUp`, `RequestsEnd`, `SubmissionsEnd`. The prover has
  no rule for fairness.
* The absence of deadlock in the runs that check it, which is about `ENABLED`.

Induction. The library's induction theorems take the statement as an operator, which
no installed prover can instantiate. The proofs about loops and folds use a set
instead: `LeastNumber` (a set of numbers that is not empty has a least element) follows
from the well-foundedness of inclusion on finite sets, and `CountingUp` from it (a set
that holds 0 and with each `k` below `n` also `k + 1` holds all up to `n`); the set is
then the one of the numbers whose statement is true. A recursive function is a `CHOOSE`
of a solution of its equation, so that each proof starts with a lemma that there
is one (`SumExists`, `LevelsExist`, `AncestorsExist`, `RecomputedExist`), built up in
the same way.

## 6. Disagreements between code and documents

Kept as a run that ends in a counterexample: `links_singleuse`. Two store requests
for one link both succeed (`remediation_routes.py:286-303`), although line 165 and
migration 016 speak of single use.

Seen while modelling, without a run of their own. The models reproduce these
behaviours, and the properties say what holds in spite of them.

Status and cache
* A revocation list that cannot be fetched sets the terminal `revoked_at`
  (`cache_invalidation.py:143`, `status_checker.py:158`); migration 005:46 calls the
  column "Timestamp when credential was detected as revoked".
* A re-check that finds a revocation and a lifted suspension at once answers
  `revoked` and `is_valid` (`cache_invalidation.py:165-168`).
* Caching a credential again postpones its status check (`api-server-v2.py:6638`),
  hence the condition on `by` in `CheckedRowIsFresh`.
* A fresh list refuses the all-zero list that the end-to-end test's header calls
  its first publication (`bitstring_status_list.py:207`).

Links, identity, indexer, policy
* A link that was declined still accepts a credential
  (`remediation_routes.py:285-303`); polls keep answering `declined`, so
  `SettledWasApproved` holds. A one-time credential buys any number of times
  (`demo_neuralbridge.py:367`).
* After a rotation the retired key can be the one signatures are checked against
  (`crypto_verification.py:291-381`): its row is kept, and neither loader orders
  the rows. One signed challenge can be accepted by two concurrent requests
  (`api-server-v2.py:1512-1588`).
* An error answer of the node is indexed as an empty range (`indexer.py:110`) and
  never read again; replayed reputation batches store feedback twice
  (`indexer.py:205`).
* A denied action is committed when its log entry cannot be written
  (`api-server-v2.py:210`), although `docs/AIP_v0.5.md:294` says "Fail-closed".
  The rate limiter's read and write are not atomic (`policy_client.py:70-77`).
  `submit_tron_receipt` blocks the event loop that the reference engine needs
  (`api-server-v2.py:6153`); `RequestsEnd` shows that this is only a timeout.

Ledger
* A receipt dated in the future gives a score above the 100 of the response model.
  The volume treats raw token units as dollars.
* The AFTER UPDATE trigger of migration 008 never fires, since receipts are
  inserted as verified. Receipts without an agent are not bridged; the second
  receipt of a transaction for another agent changes only metadata.
* Native TRX receipts cannot verify (a `require` in an ES module), and
  `createTronReceiptPayload` emits an issuer that `validateTronReceiptData` refuses.
* The INSERT of `accept_counterparty` fails when a payment's trigger wins.

Audit
* An ingest that breaks off leaves a receipt neither linked nor reported, and a
  replay does not make up for it (the exception in `ClassifiedOnce`). An activity
  that arrives after its receipt is never linked; a receipt without a reference is
  never flagged. The rollup can receive more than it expects, because the two
  counts are separate statements.

Authentication
* The parameters of `CreateAdminOrg`'s INSERT are shifted, so the duplicate check
  of the slug is void and login by domain does not find such organisations.
* `accepted_at` and `used_at` of an invitation are independent: one invitation can
  create several accounts. Two concurrent requests can turn one challenge into two
  sessions. Chain-aware nonces are never looked up.
* The session answers the invitation's organisation, validation the account's; the
  organisation of a pending SSO request is not compared; unsolicited responses skip
  the replay cache. A unique violation that is passed over leaves the transaction
  aborted, and the request ends in an error.

Delegations
* A revocation between the SELECT and the UPDATE of `approve_delegation` is undone
  (`api-server-v2.py:4344`); overlapping approvals lose a bonus; revoking leaves the
  agent's VC and bonus. `get_delegation` fetches a second row and so always answers
  404 for agents of the caller's own organisation.

VACs and presentations
* Migration 003 breaks `generate_vac` with its default arguments, 006 `revoke_vac`.
* `refresh` leaves the old rows active, so revoking the newest credential makes an
  older one the one that is served; the docstring says "A new credential must be
  issued". `submit` compares no agent with the VC's subject, and a Delegation VC
  without an expiry gets seven days at every submission.
* `GET /vac/revocations` cannot be reached behind `/vac/{agent_id}`. The signature
  of `issue_attestation` covers the server's time and cannot verify; its effect is
  a new VAC. `refresh_all_vacs` has no caller.

Events and chain verification
* `submit_transaction` accepts an invalid signature with a warning. The metadata of
  an audited event may overwrite `receipt_reference`, and its idempotency with it.
* x402 and Solana have no duplicate check; the body of the facilitator's answer is
  not read, nor the recipient of an x402 payment; an RPC error of the first Solana
  node is not caught, so the fallback is not asked.
* After a failure two retries of a chain verification can race: a late DELETE or
  UPDATE hits another call's row, and `failed` can overwrite `verified`, although
  migration 015:85 calls the receipt "the idempotency key". A call broken off
  leaves `pending` for ever. The TRON adapter's receipt lacks fields that its
  verification requires; Stacks is a stub.

Extensions
* Two integrators can hold versions of one namespace after a race; an integrator
  without a domain may register any namespace; an unparsable version counts as 1;
  `attest` answers "stored" also when `ON CONFLICT DO NOTHING` kept another row.

## 7. Not modelled

* Webhook delivery: reading a subscription calls `json.loads` on a column the driver
  has decoded already, which raises for every matching row, and the callers swallow
  it. The deliverer with its retries and its shared signer cannot be reached.
* `main.py`: superseded by `api-server-v2.py`. Its tables are not those of the
  migrations (no unique domain for its ON CONFLICT, `agent_keys` and `attestations`
  created nowhere), its checks are mocks.
* Partner and organisation registries: single INSERTs behind unique keys, one-way
  status changes. Only `issue_attestation`, which generates a VAC, is modelled.
* DID documents: built and fetched, without state that others race on.
* `append_response`, `validator` and the last three steps of the indexer's cycle
  start from columns that nothing in the repository writes.
* Codecs, document building, rendering, listings, SDKs and demos (pure formatting
  or I/O); cryptography (a guard).

## 8. Plan

The modules, runs and theorems of the plan are in place. What would come next:

1. If the organisation and partner registries grow operations that race, a module
   for them.
2. If webhook subscriptions become readable (section 7), a module for the deliverer
   with its retries and the signer it shares.
