# A TLA+ model of the asset registry

The modules here model the parts of the registry where the order of things
matters: signed actions that several workers handle over the same PostgreSQL
rows, registration against a chain and a second registry, icons and their
reviewers, the governance of admin keys, conditional reads and the audit log,
the limits on what the registry fetches and accepts, and how a domain's proof
is fetched and judged. TLC checks them on small instances (the `.cfg` files)
and TLAPS proves the invariants for every value of the constants (the `*Proofs`
modules). `PROJECT.json` maps every definition to the source lines it stands
for. Paths below are relative to `src/registry_api/` unless they start with
`src/`.

## Inventory

| Component | State | Operations | What is hard | Correct when | Modelled in |
|---|---|---|---|---|---|
| Issuer actions (`issuer_actions.py`, `action_writer.py`) | `assets`, `actions`, `issuer_pubkey_history`, tag/venue/custom rows | `submit_issuer_action`: edits, rotation, deregistration | eight statements of checks that lock nothing; repeated delivery; a crash after commit | a nonce is used once; one open key interval; alone, the effect of a ledger | `AssetStore`, `IssuerActions`, `AssetActions`, `AssetLedger`, `AssetRefinement` |
| Legacy deregistration, migration (`legacy_assets.py`, `migration.py`) | the same rows | `deregister_legacy_asset`, `migrate_legacy_asset_to_v2` | take locks in another order; no nonce | handlers end | `LegacyLifecycle`, `AssetActions` |
| Serialized fragments (`serialized_fragments.py`) | `asset_serialized_fragments` | refresh and delete within each writer | rendered from what a session read | the fragment is what the rows render to | `AssetStore`, and in `IconReview` and `Registration` for their columns |
| Registration (`v2_assets.py`, `registration.py`, `chain.py`, `issuance.py`) | new rows | chain check, domain check, insert | nothing is locked while the network is asked | one active row for an asset id and a namespace | `Registration` |
| Legacy API, shadow writes (`api/legacy.py`, `shadow.py`) | this and the original registry | local commit, forwarded write | one of two writes fails, or its answer is lost | a success was carried out somewhere | `Registration` |
| Issuance backfill (`issuance_backfill.py`) | issuance columns | page, ask the chain, recheck, write | the chain is asked outside the transaction; rows have random ids | never overwrites; misses no row | `Registration` |
| Legacy imports (`legacy_import.py`, `legacy_icon_import.py`) | the same rows, icon proposals | skip or insert an item | a registration commits in between | as for registration and icons | `Registration`, `IconReview` |
| Domain proofs (`http_clients.py`, `domain_verification.py`, `v2_assets.py`) | one fetch with a deadline | resolve, connect, read, compare | the domain changes meanwhile; attempts share the budget; records in any order | the peer was checked; an accepted proof was shown; a bound proof decides | `DomainProof` |
| Proof fetch policy (`http_clients.py`) | per-domain records, counters, a daemon per fetch | `admit`, `mark_failed`, `release`, `configure`, `_run_bounded` | deadlines that race the end of a fetch; pruning; stalled resolvers | the counters count; a permit comes back once; quota and cooldown hold | `ProofFetchPolicy` |
| Icons (`icons.py`) | proposals, stored bytes, current icon | propose, review, assign, import, obsolete | shared bytes; review against deregistration; lock orders | one pending proposal; one decision; a rejected icon is not served | `IconReview` |
| Admin asset actions (`admin.py`) | `actions`, annotations, delisting | signed admin actions on assets | the same rows as reviews | the listing shows the delisting | `IconReview` |
| Admin governance (`admin_actions.py`) | `admin_keys`, `admin_permissions`, `admin_actions` | bootstrap, add, permissions, rename, remove | permission and last-root checks without locks; DELETE then INSERT | nonces once; root is inherited; a root remains | `AdminGovernance` |
| Audit log (`audit.py`) | reads `actions`, `admin_actions` | pages by audit id | two statements a page; ids commit out of order | what had committed is delivered, in order | `AuditCursor` |
| Conditional reads (`api/asset_cache.py`, migration 0015) | `asset_registry_version`; each client's last response | deferred trigger bump; `prepare_asset_read` | commits while a body is built; a clock set back | a 304 never keeps a stale body; 304s resume | `RegistryVersion` |
| Rate limiting (`rate_limit.py`, `client_address.py`) | a window per client | `allow`, called by the event loop only | table bound, pruning | sliding limit; bounded table; refusals have a cause | `RateLimiter` |
| Client SDK (`src/sdk`) | retry counter | retry loop | which calls are safe to send again | | what it sends again are the repeated deliveries the models allow |
| Formats (`canonical_json.py`, `signatures.py`, `schemas.py`, `contracts.py`, …), listings, service shell, schema migrations | none, or one offline transaction | | | | not modelled, see below |

A request reaches a handler in a thread pool with a session of its own. The
handlers meet only in PostgreSQL: they run at READ COMMITTED (`db.py`), so each
statement sees what has committed when it starts, row locks last until the end
of the transaction, and unique indexes decide. The fetch policy is shared memory
behind one lock, used by the request threads and the daemons they start; the
rate limiter is shared memory of the event loop. The deferred trigger that bumps
the registry version runs inside every writer's commit and is how writers and
conditional readers meet. Registrations and the backfill ask the chain and the
domain between transactions, and the legacy endpoint asks the original registry
after its own.

## Modules

**`AssetStore`** holds one registration of one asset: the asset row, its
`actions`, key history, child rows and fragment, the audit sequence, and `tx[w]`,
the uncommitted work of each worker. It has the statements all writers share:
`InsertAction` (the flush of the action row and its nonce index), `Flush` (the
flush of everything else, where the asset row is locked), `WriteFragment`,
`Commit`, and the ways to fail (`LockTimeout`, a 503 in `main.py`; `Crash`, which
is also the deadlock victim's 500). **`IssuerActions`** adds
`submit_issuer_action`, one action per statement: `ReadAsset`, `CheckNonce`,
`CheckChain`, `CheckFresh`, `CheckNoOp`, the DELETE of an edit in its two
halves, `ReadOpenKey`. **`LegacyLifecycle`** adds the two legacy endpoints.
**`AssetActions`** composes them and states the properties; `MCAssetActions`
gives the requests. **`AssetLedger`** is the abstract specification: requests
take effect one at a time, judged by the state the earlier ones left.
**`AssetRefinement`** maps the committed rows to it: the ledger is the requests of
the action rows in audit order, the head is the row nothing follows.

What decides the interleavings, and how the code was read:

- Sessions have `autoflush=False`, so the DELETE of an edit runs before the
  asset row is updated; the unit of work flushes the action before the asset,
  the asset before its children, updates before inserts of the history.
- A DELETE has a snapshot and then waits for rows other transactions are
  deleting: `DeleteChildren` and `LockChildren`. It does not see their inserts.
- The signature is verified with the key `ReadAsset` loaded; nothing reads it again.
- The timestamp of a legacy deregistration is NULL, which sorts first in the
  freshness query, so that every timestamp is then new enough.
- Every edit is a pair: the names it deletes (`clears`) and the rows it inserts
  (`puts`). The three child tables are one. A request stands for its hash.
- Left out: the optional expected schema version of an edit, positions of tags,
  venues' details. The obsoletion of icon proposals is in `IconReview`.

**`Registration`** is how rows come to be: both registration endpoints, the
import of the legacy listing, the legacy deletion and the backfill of issuance
references, as handlers over all assets at once. Each statement and each call
to the network is an action, with no transaction open during a call:
`AskEsplora`, `AskStatus` and `VerifyDomain` before `Insert`, whose unique
indexes wait for undecided transactions (`Undecided`); `Forward` after `Commit`
or `Conflict`; `ReadPage`, `ReadContract`, `Recheck` of a backfill. An Esplora
server may name any transaction; what it names must prove the asset
(`Proves`) and be confirmed, and `Reorganise` swaps a confirmed transaction for
another that issues the same. A forwarded request that fails or is not answered
may have been carried out all the same. `MCRegistration` has the requests and
the rows older versions left.

**`IconReview`** is `icons.py` on one asset: `propose`, the admin's decisions,
the assignment of an icon, the legacy icon import, forced delisting, and both
deregistrations, which make proposals obsolete. An action is a statement or a
lock; `holds` and `rows` are the locks on the asset and on proposals, and a
session keeps the columns it loaded (`stale`, `pointer`). A hash stands for its
bytes; `bytes` says that a proposal's row still has them.

**`DomainProof`** is one verification at a time: `Resolve` checks and orders the
addresses once, `Connect` and `NoConnection` spend the budget over them,
`ReadHead`, `ReadBody` and `Verify` follow. `Publish` changes the domain's
addresses, pages and records at any moment. TXT records are in the order the
resolver returned. Time is what the verification has spent.

**`ProofFetchPolicy`** is `_ProofFetchPolicy` and `_run_bounded`, what all
verifications share: each locked method is an action, and so is each step of the
request thread and of the daemon between them. A `Timeout` may come whenever the
operation runs. `log` is history: the admissions and failures `SlidingQuota` and
`CooldownHeld` speak of. `Reset` is what tests call.

**`AdminGovernance`** is `submit_admin_lifecycle_action` from the bootstrap of
the genesis key to the commit, one action per group of statements between which
another commit matters: the actor, the nonce, the no-op check, the insert, the
target, the permission check, the other roots, the DELETE's two halves, the
commit. The log is in commit order. Two facts of the session are modelled
because they change the outcome: the actor's row, once loaded, stays as active
as it was, and a status read as `removed` is not written again. The window
around the server's clock can refuse any request, which `Abandon` stands for.

**`AuditCursor`** has writers that draw an audit id when they insert and commit
it later or never, and a follower that resumes at `next_since_audit_id`. A page
is two statements, one for each table, between which rows may commit, then a
merge and a cut. The follower's filter and the order of its pages are any. `ORDER
BY` and `LIMIT` are a row's `Rank` (how many rows of the set come before it) and
the rows of least rank (`First`); `Sorted` puts the row of rank i - 1 at place i.

**`RegistryVersion`** has the version row, writers whose deferred trigger adds a
second or catches up with the clock, and clients that send the date they hold
back. Times are whole seconds; the clock may jump either way. A body is built
from statements after the check, so it may hold more than its date says.

**`RateLimiter`** is `allow` with its pruning and its bounded table behind the
middleware. The middleware runs on the event loop and awaits nothing inside
`allow`, so a call is one step. `admitted` is history.

## Runs

All finish within three minutes with two workers of TLC.

| Run | Instance | Shows |
|---|---|---|
| `AssetConcurrent` | 2 handlers on a v0 asset; 8 requests: edits signed by the first and by the rotated key, rotations, a reused nonce, both deregistrations, a migration; audit numbers to 5 | `TypeOK`, `FragmentCurrent`, `AcceptedOnce`, `OneOpenKey`, `ActionsVerifiable`; `HandlersEnd`, although the two kinds of writer lock in opposite orders |
| `AssetSerial` | 1 handler; 9 requests, chained and mischained; clock 0..2, window 1; audit numbers to 6 | `ImplementsLedger` across crashes and repeated deliveries |
| `Registration` | 2 handlers; both registrations, an import, a deletion, a backfill of pages of 1; 2 rows, 3 chain transactions, two of which issue the same asset | `OneActive`, `AcceptedIsDone`, `BackfillCovers`, `ListedReferences`, `ReferencesKept`, `RequestsEnd` |
| `IconReview` | 2 handlers; 10 requests over 2 hashes; 3 accepted actions | `OnePending`, `DecidedOnce`, `RejectedNotServed`, `ListedIconCurrent`, `PublishedStays`, `ReviewsEnd` |
| `DomainProof` | 6 requests of both endpoints and methods; 4 zones of up to 3 addresses, answering, silent, closed and internal; budget 5, 2 an attempt, 3 addresses | `PeerWasChecked`, `AcceptedIsProved`, `BoundNotBypassed`, `SlowAddressesLeaveTime` |
| `ProofFetchPolicy` | 2 fetches, 2 domains, every limit 1, table of 1, clock 0..2, 1 reset | `PermitsCounted`, `WorkersBounded`, `SlidingQuota`, `CooldownHeld`, `RequestReturns`, `PermitReturns` |
| `AdminGovernance` | 2 handlers; 3 keys, 8 requests; 4 accepted actions | `AdminNonceOnce`, `RootFromGenesis`, `LastRootKept` |
| `AuditCursor` | 2 writers, ids to 3, pages of 1 or 2, every filter | `FollowedInOrder`, `PageHasNoHole`, `CommittedIsDelivered` |
| `RegistryVersion` | 2 writers, 1 client; clock 1..4, 3 commits | `KeptIsCurrent`, `NotModifiedResumes` |
| `RateLimiter` | 3 interchangeable clients; limit 2, window 2, prune every 3, table of 2, clock 0..5 | `SlidingLimit`, `TableBounded`, `RefusedForCause` |
| `AssetFork` | violation of `ChainIsLinear` | two handlers check the head before either inserts |
| `AdminLastRoot` | violation of `ActiveRootRemains` | two roots remove each other |

The two violations are disagreements of the code with a sentence of the
repository's documents; `PROJECT.json` quotes each under `findings`. Each needs
two requests at once. What holds of the same promise without a race is checked
too: the ledger refinement for the chain, `LastRootKept` for roots (no action
removes the last root unless another committed while it ran). And what is left
of the chain under a race: `ActionsVerifiable` says that the fork is a tree, whose
actions each follow an earlier row and are signed by a published key.

Other outcomes of races that the models reach, which no document forbids in so
many words: an action signed with the old key is accepted when a rotation
commits after its key was read (`ActionsVerifiable` bounds it: the history still
publishes that key, from before the action); two replacements at once leave the
union of their rows, of an asset's attributes as of an admin's permissions; two
migrations, or two deliveries of one admin asset action, both commit; a
deregistration sent again after its answer was lost is told that the asset is
not found, because the asset is looked up before the nonce; a follower of the
audit log is not shown a row that commits after a later id was read.
`FollowedInOrder`, `PageHasNoHole` and `CommittedIsDelivered` say what a
follower can count on: rows that had committed when a page was read are never
skipped.

Bounds. The database properties relate at most two transactions, and a third
that commits between their steps can be played by a worker that has ended and
begun again, so two workers show the races; the sequence and log bounds leave
room for the accepted actions of a race after those that set it up. The serial
run has longer chains instead. Two rows and a batch of one make the backfill's
cursor meet rows before and after it, in either order of ids. Two
silent addresses before one that answers, and a budget of two attempts and a
half, make every address count. Four seconds are enough for a version two bumps ahead of the clock, a clock set
back, and a client whose date lies between. One permit and a table of one record
make the limit, the quota and eviction bind at once; two fetches are then a
running and an arriving one. Three clients for a table of two make it full; five
units of time are two windows and a prune. Deadlock checking is off for the asset
runs and `IconReview`, where an exhausted sequence or an ended registration stops
the run.

Fairness. `AssetActions`, `Registration` and `IconReview`: strong fairness of
each handler's own steps, because PostgreSQL queues lock waiters and calls to the
network time out, and weak fairness of `LockTimeout`, because a statement that
keeps waiting is cancelled (`database_lock_timeout_seconds`, 5 by default; 0
would turn it off). No client need send, no crash need happen, the clock need not
move. `AuditCursor`: a follower asks again, whatever other pages are asked for in
between, and a page that was asked for is answered. `RegistryVersion`: clients
that revalidate do so again. `ProofFetchPolicy`: threads that can run do and
deadlines pass; nothing makes an operation end.

## Proofs

| Module | Theorem | For every |
|---|---|---|
| `AssetActionsProofs` | `TypeCorrect`, `NonceUsedOnce`, `KeyHistoryHasOneOpen`, `FragmentNeverStale` | set of workers and requests, keys, names, window |
| | `ActionsStayVerifiable` | the same |
| | `SerialImplementsLedger`, `SerialChainIsLinear` (under `[]OneAtATime`), `OneHandlerImplementsLedger` | the same; one handler, no assumption |
| `RegistrationProofs` | `OneActiveRow`, `ListingsShowReferences`, `BackfillCoversRows`, `ReferencesStay`, `AcceptedMeansDone` | set of workers, requests, chain, batch size, initial rows the indexes allow |
| `IconReviewProofs` | `OneProposalPends`, `OneReviewerDecides`, `RejectedStaysUnserved`, `ListingIsCurrent`, `BytesStayPublished` | set of workers, requests, hashes |
| `DomainProofProofs` | `PeerIsChecked`, `AcceptedWasShown`, `BoundProofDecides`, `AttemptsLeaveTime` | zones, pages, records, budget, limits |
| `ProofFetchProofs` | `PermitsAreCounted`, `PermitReleasedOnce`, `StalledWorkersBounded`, `FailuresCoolDown`, `QuotaSlides` | finite set of fetches, set of domains, limits |
| `AdminGovernanceProofs` | `GovernanceTypes`, `NonceAcceptedOnce`, `RootIsInherited`, `LastRootStays` | set of workers, keys and requests |
| `PublicReadProofs` | `NotModifiedIsTrue` | number of writers and clients, movement of the clock |
| | `FollowerNeverGoesBack`, `MergedPageIsWhole`, `FollowerPassesNothing` | set of writers and assets, filter, page sizes, order |
| `RateLimiterProofs` | `WindowHoldsLimit`, `TableStaysBounded`, `RefusalHasCause` | finite set of clients, limit, window, table |

Each rests on an inductive invariant, with one lemma per group of actions, and
only on the named `ASSUME`s of the module it extends (types of the constants,
hashes that differ from each other, an initial key, indexes that hold of the
initial rows).

- *Nonces.* `AcceptedOnce` is not inductive: two uncommitted rows with one nonce
  would break it at the second commit. `NonceInv` says what the index says: a
  nonce is held by one row, committed or not. `Alone` does the same for admins.
- *Key history.* A rotation reads the open interval long before it writes.
  `KeyInv` adds that one transaction at a time is past its flush (`OneHolder`)
  and that a rotation past its flush is about to close the interval that is open
  now (`RotationsClose`): the partial unique index turns away one that read
  another.
- *Fragment.* `FragmentInv` carries what each transaction about to commit will
  leave: a fragment rendered from the rows it will commit. It survives the other
  handlers because none commits while the asset row is held; the legacy
  deletion, which drops the fragment first, is the case that takes thought.
- *Refinement.* `SerialInv` is what a single handler may rely on. Its reads
  still hold when it commits (`AllJudged`): at each point of a handler, what it
  has checked of the request is true of the committed rows, since nobody else
  commits meanwhile. The rows are written in the order of their ids
  (`RowsOrdered`), and a transaction's own copies of the asset and the child rows
  are the ones its action calls for (`RowsTell`). `LedgerHolds` says that the
  committed asset is what the ledger tells. A commit then appends to the ledger
  (`CommitAppends`), makes the new hash the head (`CommitHead`), and what was
  judged is what `AssetLedger` calls acceptable (`CommitAcceptable`); every other
  step leaves the mapped state alone. `OneAtATime` is a hypothesis on the whole
  behaviour, and one handler satisfies it by itself. Under concurrency the
  refinement is false: `AssetFork` shows the fork. `ChainInv` adds that nothing
  committed follows the head, which a new action does only if it read it; so a
  fork takes two handlers at once.
- *Chain under concurrency.* `TreeInv` carries what a handler goes on from
  (`Traced`): the row it found at the head and an interval of the key it read are
  committed, with smaller audit ids than the one it draws. No commit takes them
  away: actions stay, and a rotation closes an interval but leaves its key and
  its beginning (`HistoryStays`). That ids grow with each draw (`Drawn`) makes
  the links point backwards, also when a later id commits first.
- *Registration.* `OneActive` needs that two insertions past the index do not
  meet (`Meets`) and that each meets no committed row (`Sound`), which the
  others' commits keep because they change a row only in what it lacked or end
  it (`Continues`). For the backfill, `Covering` says that every row it still
  owes comes after its page, or after its cursor: a page is the least of what
  remains, in the order of random ids, and a new row is nobody's debt.
  References are compared again under the row's lock, which `Free` gives to one.
- *Icons.* `Sound` ties what a handler read to the locks that keep it true until
  its commit; `Settled` says that what was decided, or published, stays so.
- *Proof fetches.* `PermitInv` adds where a request and its daemon can be
  together (`Shape`), from which exactly one of them releases; the counts follow
  by finite-set cardinality. `CooldownInv` says that a failure that still counts
  is noted in a record, and that pruning and eviction drop only records without
  one. `QuotaInv` divides a domain's admissions into those its record counts and
  those of windows that have lapsed; two windows meet in any one, hence twice
  the quota.
- *Domain proof.* What was shown only grows while a verification runs, the
  addresses left are among those that were checked, and the time of the attempts
  is at most the attempts times their limit.
- *Root.* `RootFromGenesis` needs that root rows were earned (`RootRows`), and
  that a handler past the permission check still has an actor that earned root,
  however the rows change before it commits (`Sound`): what was granted in the
  log stays granted in the log. `RootInv` adds, for the last root, that a handler
  no commit has overtaken still sees the roots it read (`UpToDate`).
- *304.* `VersionInv`: no date that was given out is past the version, the
  version itself was given out only with the body of now, and a bump in flight
  is past both, so a commit always leaves a version no client holds.
- *Audit pages.* The ranks of a finite set of rows with different ids are the
  numbers below its size, each once (`RankBijection`, from the pigeonhole
  principle), so `Sorted` lists the set and `First` has the size of the limit.
  `AuditInv` says that an id is drawn once (`IdsOnce`), that a half-read page
  holds the first rows of what had committed when it began (`FirstRead`), and
  that the cursor is past all that was received. A row the merge leaves out has
  a full page before it (`NoneLeftOut`): its own statement returned it, or
  returned a full page instead that is part of the merge. `FollowerPassesNothing`
  is the safety half of `CommittedIsDelivered`: between pages ids may commit out
  of order, and only those that commit after the page began can be missed.
- *Rate limit.* `Faithful`: a client's entries are the end of its history from
  the first admission that still counts (`EndOf`), so that a client the table
  forgot had none left.

Every invariant and action property that a passing run checks is a theorem, and
so is the refinement. Model-checked only: the liveness properties (`HandlersEnd`,
`RequestsEnd`, `ReviewsEnd`, `CommittedIsDelivered`, `NotModifiedResumes`,
`RequestReturns`, `PermitReturns`), which TLAPS does not reach.

## Not modelled

- *Listing and search queries* (`listings`, `/assets` filters): reads that build
  SQL; what they stream is the fragment, and their dates are `RegistryVersion`'s.
- *Formats and verification of data*: pure functions from an input to an answer,
  with no state; in the models a request stands for its hash, a key for its
  signatures, a chain transaction for what its input proves.
- *Service shell*: configuration, logging, the wording of errors. The lock
  timeout that `main.py` answers is `LockTimeout`.
- *Schema migrations*: run while nothing else does; what they leave are the
  initial states (rows without references, a v0 asset).
- *Client SDK*: it sends again only signed actions, never registrations. The
  models deliver every request any number of times, at once or later.
- Within modelled components: the signature of a migration, the admin's searches
  of icons, the checks of a PNG, annotations other than delisting, `.onion`
  hosts and TLS, the dry run and limit of a backfill. `PROJECT.json` names them
  at each component.

## What could come next

The issuer actions of a registration together with its icons and its backfill,
now three modules over the same row, which meet only through the lock on it. A
ledger that forks, as an abstract specification of the effects of overlapping
handlers as well as of their order, which `ActionsVerifiable` covers.
