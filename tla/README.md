# A TLA+ verification of stellar-confidential

The repository is an indexer and a client for confidential tokens on Stellar. An
*ingestion pipeline* follows a node's RPC and commits contract events, ledger headers and a
checkpoint to an *event store*. An *archive API* serves pages of events, and Merkle *digests*
over ranges of them through a *cache*. A *recovery client* downloads an account's events,
checks them against the digests, decrypts and folds them into a balance, and compares the
result with the chain. A hosted *recovery service* coordinates such recoveries.

Every module is translated from the code under `src/`; where a doc and the code differ, the
model follows the code and the difference is listed under *Divergences*. Paths below are
relative to `src/`.

## Inventory

### Components, their state and their operations

| Component | State | Operations that change it | Modelled by |
|---|---|---|---|
| Ingestion pipeline, `packages/indexer/src/pipeline.ts` | locals of a pass: range, window, events, headers, suspect ledger | `runOnce`, `ingestWindow`, `findForkPoint`, `rewindTo`, `verifyConfirmationWindow`, `follow`, `prune` | `Ingest` |
| Event store, `packages/indexer/src/store-memory.ts` (and `store.ts`) | events by cursor, headers by ledger, checkpoints by name | `append`, `rollbackTo`, `prune` | `Ingest` |
| The node, as `packages/indexer/src/testing/synthetic.ts` stands in for it | ledgers, oldest retained ledger, epoch | `appendLedger`, `reorgFrom`, `setOldestRetained` | `Chain` |
| Recovery session, `packages/recovery/src/{recover,replay,checkpoint,verify}.ts` | replay state, page and digest in hand, attempts, stored checkpoint | `sync`, its requests and retries, the fold, `verify`, checkpoints | `Recovery` |
| Integrity service and cache, `packages/indexer/src/{integrity,cache}.ts` | digests by account and range, with a time to live | `digest`, expiry, eviction, losing Redis | `ArchiveApi` (freshness), `Recovery` (contents) |
| Redis client, `packages/indexer/src/cache.ts` | socket, pending calls, receive buffer | `command`, `onData`, `failAll`, `close` and the socket's events | `RedisCache` |
| Digests, `packages/core/src/digest.ts` | none: functions of a list of events | `merkleRoot`, `computeRangeDigest`, `verifyAgainstDigest` | `Digest` |
| Recovery service, `services/recovery/src/server.ts` | sessions by id, locals of each handler | `createSession`, the status handler, `expire` | `RecoveryServer` |
| Postgres store, `packages/indexer/src/db` | the same as the memory store; each connection's open transaction | the same, several statements in one transaction each; `streamRange` in pages | `PostgresStore`, against `AtomicStore` |
| RPC client, `packages/indexer/src/rpc.ts` | next slot; attempt, pause and timer of each call | `call`, `throttle` | `RpcClient` |
| Contract adapter, `packages/indexer/src/adapters/reference.ts`, `scval.ts`, `pipeline.ts` (`decodeEvents`) | the events of a window, decoded so far | `recognises`, `decode`, `partiesFor`, sorting | `Adapter` |
| Archive API, `services/indexer/src` | rate limiter's windows | `check`; the routes only read | `ArchiveApi` |
| Migrations, `packages/indexer/src/db` | recorded versions, the advisory lock, where each starting instance is | `migrate` | `Migrations` |
| Amounts, `packages/crypto/src/{amount,dlog,elgamal}.ts` | the contract's ciphertext, the account's events | credits, debits, rollovers, key rotations; decryption, verification and replay of them | `Amounts` |
| Cursors, `packages/core/src/cursor.ts`, `packages/indexer/src/toid.ts` | none | encoding, packing and limits of positions | `Adapter`; positions elsewhere |
| Keys, vectors, header XDR, errors, JSON, logging, entry points, site | none | parsing, cryptography, wiring | not modelled |

### How they interact

* The pipeline calls the node (`getLedgerRange`, `getEvents`, `getLedgers`; each through the
  client's slots, timers and retries) and the store, one `await` at a time. The node moves between
  any two of them.
* Several pipelines may commit to one database under different checkpoint names; they share
  the headers.
* The archive API reads the store that ingestion writes. A digest is answered from the cache
  when it is there, and is otherwise computed and then cached while the store moves on.
* A session asks for a page and then, in a second request, for the digest of the range it
  chose. After the last page it reads the chain's balance, the chain's ledger and the
  archive's status at once, and judges.
* The recovery service's handlers interleave at their awaits of the store; a session object
  outlives its place in the map while a handler holds it.
* Every service runs the migrations before it serves, on a database it may share with instances
  of other builds that start at the same time.

### What is hard, and what is to be kept

* **Ingestion**: reorgs between and inside windows, node retention, crashes between any two
  awaits or transactions, pages full of failed calls, pruning beside a pass. Nothing missing,
  invented, orphaned or unlinked at or below the checkpoint, nothing above it; a rewind
  restores agreement with the node; the archive converges.
* **Several pipelines**: commits and rewinds of one between the steps of the other.
* **Recovery**: a provider that withholds, an archive that grows or is rolled back between a
  page and its digest, stale digests, failures at any request, stored checkpoints that outlive
  a reorg, three reads at three instants. What was consumed is exactly history, the plaintext
  is the fold of exactly that, and a wallet that keeps trying gets there.
* **Digests**: lists of odd length, repeated tails, reorderings, and digests that agree with a
  lie. Only the list itself passes.
* **Postgres**: statements of different transactions interleave, wait for each other and fail in
  the middle, and rows are locked one by one. The tables change by whole operations only, counts
  agree with rows, only a rewind and a prune of the same ledgers wait for each other, and a streamed
  range loses nothing.
* **RPC client**: late timers, slots read before a sleep and taken after it, failures at the
  headers or in the body. Requests stay spaced, a call ends within a bound and with the last thing
  it heard.
* **Decoding**: indices folded and packed into narrow fields, transfers to oneself, failed calls,
  events of other contracts. Every party of every event once, in the order of the chain.
* **Amounts**: limbs run over and borrow without carries, the search is bounded, the key may be
  wrong or rotated. A number that comes out is the right one.
* **Redis**: replies matched by order alone, out of chunks that end anywhere, on a connection
  that may die at any point. Each call gets its own reply or an error, and gets one.
* **Recovery service**: creations that race for the last place, overlapping reports.
  The limit holds, and "complete" is not said of a range whose end was not reported.
* **Archive API**: a shared cache of digests that overlapping requests fill with what they read at
  different times, under keys joined of whatever names the requests hold, and a limiter whose windows
  start with any client's request. An answer is for the range and the ordinary account or contract
  asked for, and no staler than its time to live; what gets through in a window is bounded.
* **Starting**: instances of several builds at once, dying in the middle of a migration. Each
  migration once, in order, before the service that needs it.

`PROJECT.json` lists each of these hazards at its line, with the properties aimed at it.

## Modules

`Chain` — the node. `chain` holds every ledger as hash, parent hash and body; one ledger of a
sequence is closed per epoch, so that the epoch stands for the hash (two hashes of one sequence
are equal exactly when the epochs are, as in `SyntheticChain`, whose hash is computed from
sequence, epoch and parent). A body is a sequence of events, each with its contract and with
whether the call that emitted it succeeded. `GetEvents` answers one page: the first events
after a position, up to an end ledger, of the contracts asked for.

`Ingest` — one pipeline and its store on that node. `pc` is the await the pipeline is at and
`pass` the locals that are alive there; a thrown call or a killed process loses `pass` and
nothing else (`Abort`).

| Action | Code (`pipeline.ts`) |
|---|---|
| `ReadRange`, `Resume`, `RefuseEvicted` | the head of `runOnce`: latest and oldest ledger, `resumeLedger`, `RETENTION_EVICTED` |
| `OpenWindow` | the loop's bounds, or the end of the pass |
| `FetchEvents` | one page of `fetchWindowEvents`: a short page ends the loop, failed calls count for its length and are dropped |
| `FetchHeaders` | one `getLedgers` call per contiguous run of touched ledgers, the window's end included |
| `DetectReorg`, `FindForkPoint` | `detectReorg` by hash and by parent, then one step down per turn |
| `RollbackTo`, `RewriteCheckpoint`, `ResumeAfterRewind` | `rewindTo`: one transaction, then a second one, then the loop goes on |
| `AppendWindow`, `LedgerGap` | `append`, or the throw for an event without its header |
| `VerifyConfirmationWindow`, `Sleep` | what `follow` does after a pass |
| `PruneRead`, `PruneDelete` | the two awaits of `prune` |

`ReorgPoints` and `EvictPoints` say at which `pc`s the node may rewrite or drop ledgers: runs
that ask what survives anything set them to every `pc`, runs about a promise the code makes only
for reorgs between passes set them to `idle`.

`Archive` — what ingestion promises its readers, without windows, headers, awaits or crashes:
a prefix of one branch that is extended only while it agrees with the node and gives up only
ledgers the node no longer has. `Ingest!Archived` is the refinement mapping.

`SharedStore` — two instances of `Ingest` with their own locals and names on one database.

`Recovery` — one account's session against an archive that ingestion extends and rolls back.
A ledger has at most one event of the account, so a cursor is a ledger. An event is a delta
(credit, debit, replacement by a rollover or key rotation, or none) and an amount; decryption
is taken to be right, so the plaintext fold `Values` is the whole of `replayEvents`. A digest,
and the rolling digest inside a replay state, are represented by the set of events they commit
to (`Digest` is where the hash tree itself is examined). `Served` is the page the provider
answers: the honest one, or with `Withholding` any part of it with any `hasMore`. `DigestHit`,
`DigestMiss` and `PublishDigest` are `IntegrityService.digest`, with its await between reading
the archive and writing the cache. `FailRequest` is `withRetry`; `FailSync` covers what is not
retried; `Crash` loses all but the stored checkpoint.

`Digest` — leaves, nodes with promotion of an odd last one, range digests and
`verifyAgainstDigest`, over a list that a provider drops from, repeats in, swaps, re-encodes or
alters step by step. Hashes are terms: SHA-256 is taken as injective, and the leaf and node
prefixes as separating.

`RedisCache` — calls written to one socket, replies matched by order. A reply is two halves, so
that a chunk may end inside one and contain several.

`AtomicStore` — what the `EventStore` interface promises: `append`, `rollbackTo` and `prune`
happen at one instant and keep events, headers and checkpoints in step.

`PostgresStore` — the same three methods as the transactions of `postgres-store.ts`, one
statement per action, under READ COMMITTED (the code sets no other level). A statement sees
what is committed when it starts and what its own transaction wrote, and waits for a row that
another open transaction wrote, keeping the rows it has. A `DELETE` finds its rows when it starts
and takes them one by one, in any order, a row that is removed meanwhile excepted (`StillThere`);
the foreign key's cascade then takes, one by one and with the ledgers held, the events that were
committed in between (`CascadeEvent`). `Abandon` is the `ROLLBACK` of a failed statement, of a
transaction Postgres aborts to end a deadlock, or of a dead process. `streamRange` is
one query per page. `ImplementsAtomicStore` shows `PostgresStore` to implement `AtomicStore`
without a refinement mapping: the committed tables are the abstract ones.

| Action | Code (`postgres-store.ts`) |
|---|---|
| `BeginAppend`, `UpsertLedger`, `InsertEvents` | `append`, `appendInTransaction` |
| `BeginRollback`, `ScanEvents`, `DeleteEvent`, `ScanLedgers`, `DeleteLedger`, `CascadeEvent`, `EndRemoval` | `rollbackTo`, and `prune` after `BeginPrune`; the cascade is the schema's (`migrations.ts:31`) |
| `Commit`, `Abandon` | the checkpoint statement and `COMMIT`, or `ROLLBACK` |
| `OpenStream`, `ReadPage`, `CloseStream` | `streamRange` over `getEvents` |

`Amounts` — ciphertexts by the discrete logarithms of their points: a limb is
`m + r * key` beside `r`, with the scalars drawn given as a constant, so that sums, unmasking
and the bounded search are integer arithmetic. Weights, splits and joins are functions on the limbs. `log` is the account's events, `balance` the
ciphertext the contract holds, and `total` what it stands for. `Replay` folds a history under a
key as `replay.ts` does, error codes included; `Verdict` is the part of `verifyState` that
compares with a chain balance. This is the module where a key may be wrong: `Recovery` takes
decryption to be right and looks at requests instead.

`RpcClient` — the calls of several callers between their awaits, in discrete time. `Attempt` is
the head of the retry loop with `throttle()` up to its sleep, `Send` the rest of it and the
request; `Respond` and `ReadBody` are the two stages of an answer, `LoseRequest` and `TimeOut` its
failures, and `Failed` the catch block, which decides between `Settle` and a pause. `Tick` lets
time pass, but no further than `Lateness` beyond a timer that is due. In the service only the
pipeline calls, one call at a time; two callers show what the class keeps of its promise when it
is shared.

`Adapter` — `decodeEvents` and the reference adapter. The node gives a window's events in any
order (`Receive`, with the filter on failed calls), headers are fetched, events are decoded one by
one (`DecodeNext`), and the result is sorted, stably, by giving every event its rank (`Sort`, `Rank`).
Positions are packed into TOIDs of `TxSlots` by `OpSlots` and into cursors; the run's fields have a few
values, so that every field has a full one. An event's shape says what the
codec and the adapter find in it; ciphertexts are passed on unread and left out.

`ServedArchive` — what the two HTTP services read: an archive that ingestion extends and rolls back
between any two reads of a handler, the clock, and the handlers themselves, each at the await it
is at with its locals. `changedAt` says when each version of the archive was committed.

`ArchiveApi` — the archive's API. `Check` and `RateLimited` are the limiter; `CacheKey`, `AfterGet`
and `AfterSet` the cache; `GetDigest`, `GetFromRedis`, `ReadPage`, `SetDigest`, `SetInRedis` and
`SendDigest` are `IntegrityService.digest` between its awaits, over the map of the process or
over Redis. A digest is its request, the version its first page was read from, and its age when it
was cached, so that staleness can be told; what a digest commits to is `Recovery`'s and `Digest`'s
subject. A request is its range, whether the lower bound is exclusive, and the account or the contract
it names, whichever its route takes (`Routed`). Since `cacheKey` joins all of it with colons, a name is
the sequence of the pieces its own colons divide it into, an absent one is written `"*"` (`Written`), and
the key is the range beside the concatenation of both: two requests may well have one key.

`RecoveryServer` — the coordination service: `Post`, `ReadSummary`, `CountExpected` and `Open` or
`Refuse` are `createSession` from await to await; `GetStatus`, `Report`, `CountReported` and
`Finish` the status route. A session that has left the map lives on in the handlers that hold it.

`Migrations` — `migrate()` of the Postgres store, statement by statement, by instances whose builds
know more or fewer migrations. Rows of an uncommitted transaction are not in `applied`.

`Services` composes the three with the moving archive. None of them reads what another one
writes — the services share the store only, and only read it — so they are taken one at a time:
`service` is chosen once, in `Init`.

`MC*` modules give the constants their values. The theorems are in `IngestProofs`, `SharedStoreProofs`,
`RecoveryProofs`, `PostgresStoreProofs`, `AmountsProofs`, `DigestProofs` (of `Digest` and of `RedisCache`),
`NodeProofs` (of `Adapter` and of `RpcClient`) and `ServicesProofs` (with those of `ArchiveApi`). `Digest`
and `Adapter` call their specifications `DigestSpec` and `WindowSpec`, to be extended beside another one.

## Runs

| Run | Instance | Distinct states | What it shows |
|---|---|---|---|
| `hostile` | windows of 2, one event per page, failed calls in every page, retention 2; reorg and fault at any await, eviction between passes | 1.4 M | types; what is stored is linked, proven by its header and bounded by the checkpoint; nothing missing or invented below the checkpoint until history is rewritten |
| `settled` | windows of 1, a confirmation window of 1, two reorgs of any depth between passes, the whole history included, one crash | 0.3 M | the checkpoint is anchored; a verified pass leaves the chain, parent links carrying it through reorgs below the confirmation window; the pipeline implements `Archive`; the archive converges |
| `shared_pipelines` | two pipelines, two contracts, one store | 1.7 M | neither misses an event until history is rewritten |
| `recovery_withheld` | a withholding source, one rewrite of history | 2.6 M | consumed is history, nothing withheld unseen, honest disagreements explained; the fold holds through reorgs |
| `recovery_live` | a caching archive, one fault | 0.2 M | only final pages of an honest archive are refused; the wallet gets there |
| `digest_tampered` | lists of up to 3 events, 2 tampering steps | 0.1 M | the root binds the list and exactly tampering is noticed; a consistent lie is still in order and range |
| `redis_client` | 4 calls | 15 k | each call gets its own reply, and each settles |
| `postgres_store` | 2 ledgers of up to 2 events, an ingester, a pruner, a reader, 4 transactions | 0.5 M | whole operations only; counts and hashes agree; nobody waits but a rewind and a prune of the same ledgers; complete streams |
| `amounts` | amounts of 2 base-3 limbs, a bound of 3 full-width additions, 2 keys, histories of 5 | 10 k | verification, decryption, replay and verdicts are exact or refuse |
| `rpc_calls` | 2 callers, 3 calls of 2 attempts, timers late by one unit | 2.3 M | spacing, duration and outcome of calls |
| `adapter_window` | windows of 3 events of 8 shapes at 4 positions of 2 ledgers | 1.4 M | every party once, in chain order and inside its ledger's bounds |
| `services` | 2 handlers, 3 requests of 2 clients, 5 digests (the whole archive's, an account's with either bound, account `*`'s, a contract's of a closed range), one change of the archive, a cache of one entry, a limit of one session; 2 builds, 4 starts, 2 statements per migration | 4.2 M | answers for the range and the name asked for, freshness, the rate, the limit of sessions, completion by report, migrations once and in order |

**Why these bounds suffice.** Four ledgers and windows of two give a window inside, at the edge
of and across every stretch the pipeline distinguishes, an empty ledger between two busy ones,
and a rewind of more than one ledger; a page of one event makes every window take several pages.
One reorg and one fault already meet at every pair of awaits; the runs that promise something
after reorgs take two. (`MirrorsWhenSynced` and `Converges` also hold with windows of two and a confirmation
window of four, which `ImplementsArchive`, about windows of one, leaves no room for in that run.)
In `Recovery` three ledgers and pages of two give a full page, a final
page and a page after a checkpoint. `MaxAttempts = 2` distinguishes a retry from an exhausted
budget. In `RedisCache` four calls put an answered, a half-read, a queued and a failed one in
flight together. In `PostgresStore` four transactions are an append, a rollback, a second append
and a prune, statement by statement, with a page size of one. In `Amounts` the tolerance is three
additions and a history has five, so limbs leave the bound as well as stay in it; the values are
chosen so that subtraction borrows, and the search bound is not of the form *table times n
minus 1*, so that the last value needs the last giant step. The scalars drawn are far above the
bound and their weighted signed sums do not cancel, as random ones do not. In `RpcClient` two
callers can sleep towards one slot while a third call follows, and two attempts have a pause
between them. In `Adapter` two neighbouring events collide if an index is folded wrongly, the last
admissible event index fills the last cursor exactly, and one lies beyond it. In `Services` two
handlers overlap at every pair of awaits while a third request follows either; one entry, one
session and one request per window put every limit within reach of two clients; the clock reaches
the end of a window and of both times to live; and of two builds the newer has a migration more,
with two statements between which it may die, and enough starts for either to come back.

`CHECK_DEADLOCK FALSE` is given where the system stops: a tampered list with no tampering left
(`DigestTampered.cfg`), a Redis connection that is closed with every call made
(`RedisClient.cfg`), a history at its bound (`Amounts.cfg`), a client with every call made
(`RpcCalls.cfg`), and services with every request and start made (`Services.cfg`). All other runs check for deadlock.

The symmetry of `RpcCalls.cfg` is over callers, that of `Services.cfg` over handlers and
clients, all of which are interchangeable; no liveness is checked in either.

### Fairness

* *Pipeline* (`FairSpec` of `Ingest`): the event loop keeps running the pipeline's next step —
  its calls end within a bound (`CallsBounded`), and `follow` catches what they throw — and the network
  keeps closing ledgers. Nothing is assumed of reorgs, evictions, prunes and faults.
* *Recovery*: ingestion follows the network, cache entries reach their time to live, and the
  wallet keeps syncing; requests have a timeout (`source.ts`). Nothing is assumed of reorgs and
  faults.
* *Redis*: replies arrive and are delivered, and a lost connection is reported by its close
  event, which the platform guarantees. The client sets no timeout of its own, so a Redis that
  accepts a command and stays silent is outside the assumption.

## Proofs

`IngestProofs` — for every value of the constants, every reorg, eviction, fault and prune at
every await:

* `TypeCorrect` — `TypeOK` is an invariant of `Spec`.
* `Inductive`, and from it `ProvenanceHolds`, `ArchiveLinked` and `BoundaryCommitted`. None of
  the three is inductive alone. An append keeps the headers linked only because its window links
  to the stored header below it, and that header is the one below it only because the window lies
  wholly above the checkpoint and everything stored at or below it. `IInv` says that of each
  await: the window, what was fetched of it and the headers lie above the checkpoint; headers
  fetched in one run link to each other, and runs are apart; after detection the window links to
  the store; a rewind aims at or below the checkpoint. One lemma per action carries it over.
  `IInv` is about a store with one pipeline (`Solo` states that the other names are unused, which
  `Init` gives).

  These theorems cover evictions in the middle of a pass too, which no run of `Ingest` includes.

`RecoveryProofs` — `HistoryApplied`: until history is rewritten, a session and the stored
checkpoint have consumed exactly the archive's history up to their cursors, for any withholding
source, any cache, any failures and crashes and any constants. The invariant, under `epoch = 0`:
the archive is a prefix of the chain; the state, the checkpoint, every cached digest and the
digest in hand are *stretches* of history (all events between two cursors); and the digest in
hand starts at the session's cursor. Growth keeps stretches (`HistoryKept`), two stretches that
meet join (`StretchesJoin`), and a page equal to its digest extends the state by one.

Four more theorems say what a session's numbers are worth and when its doubts are founded:

* `BalanceIsFold` — through reorgs, failed syncs and stored checkpoints, the plaintext and the commitment
  of a state are of the same events, one per cursor (`FoldInv`). That folding a page onto a state is
  folding their union (`FoldsCompose`) is shown cursor by cursor, from the fold's equations at each cursor
  (`ValuesUnfold`) and set induction up to the last one (`UpTo`).
* `TailNoticed` — a session that reaches its verification has consumed all that the archive held when
  its last page was asked for. Its last digest is that of the range up to the end (`TailInv`, `Gathered`).
  The hypothesis excludes only a source that withholds *and* answers digests from a cache: the two together
  can hide the events added since the entry was made, for as long as it lives.
* `HonestPagesTaken` — while history is not rewritten (`MaxEpoch = 0`), an honest source is refused at
  most over a final page, whose digest may see a later archive.
* `DisagreementExplained` — until history is rewritten, a chain that holds less than the session means
  a debit beyond its cursor, one that holds more a credit, whatever the three reads caught (`Followed`).

The second half of `IngestProofs` is about what is committed being complete, for any windows, pages,
contracts and faults.

* `NothingMissing` — until history is rewritten, no event at or below the checkpoint is missing and none
  is invented. The invariant (`GapInv`): the store is true to the chain and full up to the checkpoint;
  a pass holds all the events of its window up to the position of its last page, and a header for each of
  their ledgers; and a prune's cutoff stays behind. Hypotheses: the node drops ledgers between passes only
  (a page over dropped ledgers is short and read as the window's end), and a start ledger is set if it drops any.
* `CheckpointHeldAtFirst` — as long, the checkpoint's own header is stored.
* `CheckpointHeld` — with any number of rewrites between passes it is too (`AnchorInv`: a rewind ends at a
  ledger that is stored or at none, and every window brings the header of its end). Each hypothesis
  is needed, as TLC showed on instances without it: a ledger that is no longer served has no header to fetch,
  a rewrite in the middle of a pass may leave its last ledgers without one, and a prune whose cutoff a
  rewind has overtaken takes the checkpoint's.

Its last part is about a node that rewrites its history between passes, to any depth and any number of
times, while the pipeline commits ledger by ledger (`WindowSize = 1`), nothing is evicted and nothing pruned.

* `SyncedIsMirrored` — a pass whose confirmation window was verified leaves exactly the node's chain up to
  the checkpoint (`MirrorsWhenSynced`), for any start ledger, contracts, pages and faults, and any
  confirmation window but the empty one, however far below it the rewrites reach.
* `IngestionIsAnArchive` — with all contracts from the first ledger, the pipeline implements `Archive`
  (`ImplementsArchive`): a commit is `Extend` (`AppendExtends`), a rollback `Truncate` or nothing
  (`RollbackTruncates`), the node's moves are `Network`, every other step stutters.

  The invariant (`FollowInv`) is that *agreement is closed downwards*: a stored ledger that the node still has
  is exact, and the node has every stored ledger below it (`OneBranch`). A commit keeps that because its ledger
  links to the one before, which therefore is agreed about (`NextLedger`); a rewrite and what is closed after it
  keep it because a ledger's hash names the history it was closed in, so that nothing stored comes to be
  agreed about again (`Dated`, `StillAgreed`). With it, one ledger answers for all: a rewind that stops at the
  first ledger the node agrees about has cut nothing the node has (`CutBack`) and left nothing it has not.
  Outside a rewind the window in flight is the node's (`PassGap`, as for `NothingMissing`). TLC finds
  `MirrorsWhenSynced` violated with commits of two ledgers and a confirmation window of one, with an empty one,
  with evictions and with prunes; `ImplementsArchive` also with a start above the first ledger, about which
  `Archive` says nothing.

`SharedStoreProofs` — `NeitherHasGaps`: two pipelines under two names on one database, for any windows,
pages, contracts and faults; until history is rewritten, neither misses an event of its contracts at or
below its checkpoint. Each pipeline is an instance of `Ingest` with its own proof: a step keeps the
pipeline's own completeness (`Sharing`, in `IngestProofs`) and, of what the two share, only adds to the store
(`Adds`): with no rewrite no comparison of hashes ever fails, so nothing is rolled back. What is left is
that adding true rows leaves the other's completeness true, and that neither writes the other's
checkpoint, which is where the two names have to differ.

`PostgresStoreProofs` — for any ledgers, batches, pages and number of transactions:

* `StreamsAreComplete`, with any number of writers. Two invariants: an event has one row, and what a
  transaction is about to insert has none yet, in the table or in another transaction (`IdInv`: its ledger's
  row is locked by then); the stream has all that stayed up to the position it has reached and nothing
  from beyond it (`StreamInv`), because a page is the first rows after the position, and its last row the
  new one.
* `CountsAgree`, `CommitsAreNotHeldUp` and `StoreIsAtomic` (the refinement of `AtomicStore`), with one
  writer beside the prune, which is how the service runs. The invariant (`SoleInv`) says of the tables that
  the events of a ledger are numbered from 1 to its count, carry its hash and lie at or below the
  checkpoint; of an open append that its window lies above the checkpoint, so that its upserts are inserts;
  of a rewind that it has everything above its fork point, as nobody inserts while it runs; of a prune
  only that it takes a ledger with all of its events, through the cascade, because ledgers may be
  rolled back and appended behind its back; and that two transactions never delete or write one row. With two
  writers the three are false (*Divergences*).

`ServicesProofs` — for any number of requests, sessions, instances and builds:

* `MigratedInStep`. Committing a migration twice is excluded only by what an instance knows while
  it holds the lock: between `BEGIN` and `COMMIT` it is the only one, everything below its migration
  is applied, and what it found not applied stays so until its own commit (`Progress`).
* `SessionLimitKept` and `CompletionReported`, from one invariant: the calls in progress hold
  numbers and known sessions, and one that has written a cursor belongs to a session that has
  heard of that cursor (`CallOf`), which overlapping calls cannot take back because what a session
  has heard only grows.

Of the archive's API, for any ranges, names, times to live, cache size and number of requests: `DigestsKept`
and `AnswersFresh`, and for any limit, window and clients `RateBounded`. What is inductive is not
how old an answer is but since when it is complete: `Since(v, t)` says that version `v` of the
archive misses nothing committed before `t`. An entry says so of the instant its own fields tell
(`EntryOk`), a call in progress of one no earlier than it was asked (`CallOk`); the archive and the
clock only move forward (`SinceKept`), and a hit is good for now because its entry has not expired
(`GotOk`). The entry found has the key of the request, and that is all: the key tells the range
(`KeyTellsRange`), and the names when they are of one piece each, since a key whose names are two pieces
was joined of one and one (`KeyTellsNames`). For
`RateBounded`, of the requests of a client that were let in last, those counted since the current
window began are the last ones, the others are no later than its start, and those a window's worth
further back end a whole window before it (`Windowed`): a new window only starts that long after the
last one did.

`AmountsProofs` — for every base, number of limbs, search bound, table, set of keys and history:

* `AmountVerifiedExactly` — the weighted check accepts a balance's value and nothing else. The balance's
  limbs, unmasked under its key, are integers that weigh up to its value (`Worth`) whatever carries are
  missing: the sum of two ciphertexts weighs what the two do, because a weighted sum is linear
  (`SumLinear`), and the split of an amount weighs the amount (`Split`, by telescoping the
  remainders).
* `OwnKeyOpensTheBalance` — the search finds every limb up to its bound, in both signs and for every size
  of the table (`Stepping`: a number is so many giant steps and a baby step), and limbs stay within
  the bound while `width` counts no more additions than it tolerates (`Narrow`).
* `NoWrongNumber`, `ReplayEndsWhereTheChainIs`, `VerdictsAreRight` — under another key a limb is off by the
  difference of the keys times a signed sum of the scalars drawn (`Masked`). `DrawsAssumption` says of
  the draws that no such sum is smaller than anything a balance can hold, which of uniform draws out of
  2^252 scalars fails with negligible probability; it idealises chance and is the one thing here that is not
  about the code. So a limb leaves the bound or the key is right. Replay keeps, event by event, that what
  it has accumulated is what the contract did (`Exact`), and every refusal has its reason (`Accepted`).

`DigestProofs` — for lists of any length and any number of tamperings:

* `TamperingIsNoticed` — two lists of events with one root bind the same leaves (`RootDetermines`), so that the
  archive's own digest exposes exactly the changes that matter. Of two lists of one length the levels
  agree from the root down (`OneLevelUnder`), as pairing is injective. Of two lengths the trees differ
  in shape: a node that is not the last of its level has the full height of that level, and nothing on a
  lower level of the other tree is as high (`TooHigh`), so that the shorter tree's root is not the longer's.
* `EvenLiesAreHistories` — what passes under any digest a provider may publish is in strict order and in range.

Of the Redis client, for any number of calls: `RepliesMatched`. While the connection is up, the calls
pending are the halves of replies on their way or in the buffer, in order, followed by the requests the
server has yet to answer (`OrderInv`), so that the reply taken off the buffer is that of the call at the head; and a
connection that is down delivers nothing any more.

`NodeProofs` — of the canonical events of a window, for every node, order of its answers, field widths and fan-out:

* `NoPartyLost` — the invariant (`AdapterInv`) accounts for each successful confidential event of the node: it
  waits in the queue, once, or each of its parties was entered, once; nothing is both, and nothing else is
  either. The sort moves every entry and loses none, because a rank in a linear order is a bijection
  (`Ranks`, from the cardinalities of initial segments).
* `BatchInChainOrder` — entries of different events or parties have different cursors (`OwnCursor`: an index
  folded by the fan-out and a position packed into slots can be told apart again, `Packed`,
  `ToidRoundTrip`), so the stable sort is strict; the order of cursors is lexicographic and the chain's
  (`ChainOrder`); and the bounds of a ledger hold its cursors only (`LedgerBounds`).

Of the client of the node, for any callers, attempts and delays: `AnswersAreFinal` (a call ends with the last
thing it heard), `NodeIsSpared` (starts are an interval apart but for callers that wake together or
oversleep) and `CallsEnd` (a call ends within its bound). `AnswerInv` ties a call's outcome to what it has heard, `SpaceInv` bounds
how far the next slot is ahead of the callers that sleep towards one and of the requests sent, and `TimeInv` says
by when each stage of each attempt is left. `NodeIsSpared` was false as first stated: a timer later than the interval lets a caller
start beside the next slot's owner. `RequestsSpaced` says so now; `rpc_calls`, whose timers are late by less,
shows it without that allowance.

The assumptions are the named `ASSUME`s on the constants; no other axiom is used. Every run
whose module extends a module with an assumption evaluates it.

**Induction.** The library's induction theorems take an operator as a parameter, which the installed
provers do not instantiate. Where a proof needs induction over a position, a level or a rank, it takes the
least element of a set of numbers instead (`UpTo`), over the bounded range the model's functions have; that
a recursive function on such a range exists and satisfies its equations is shown the same way
(`Defined`).

**Only model-checked**: liveness (`Converges`, `EventuallyCurrent`, `EveryCallSettles`), which
the prover's temporal backend does not do under fairness. Every other property of a run is
stated by a theorem; where a theorem has hypotheses that its run does not need, or holds for part of what the
property says, the paragraph above about it says so.

## Divergences

What the code does and a reader might not expect, met while modelling. None of the checked
properties claims otherwise; each was seen as a counterexample of a property or read off the code.

*Ingestion*
* `ingestWindow` reads the events of a window (`pipeline.ts:206`) and then the headers of their
  ledgers (`:212`). A node that rewrites a ledger in between has an event of the abandoned branch
  stored under the hash of the new ledger, and no later comparison of hashes can notice.
  `packages/indexer/test/pipeline.test.ts:253` says of a reorg "Orphaned events are gone: nothing
  from the abandoned branch survives." `Provenance` claims no more than that the ledger's header is
  stored beside it.
* Several runs of headers (`pipeline.ts:295`) are several calls: a reorg between them leaves
  two branches' headers in one window, unlinked only where they are neighbours.
* An event dropped by a reorg behind a window without stored neighbours (`:207`) is only found
  if its ledger's header, or the one after it, is looked at again; the confirmation window is
  what looks. With quiet ledgers and windows wider than one, reorgs below it stay unnoticed
  (`settled` therefore has windows of one; with windows of two it needs a confirmation window as
  long as the chain).
* `findForkPoint` (`:348`) that finds no common ledger returns 0, and the pipeline resumes at
  ledger 1 although `startLedger` or the node's retention lie above it: with retention, every
  later pass throws `RETENTION_EVICTED`. Without it the pass goes on from there (`settled` rewrites the
  whole history too). A node that has dropped ledgers is taken to keep one at least when it rewrites:
  the stand-in, emptied, would begin again at its first sequence (`synthetic.ts:90`).
* `rewindTo` (`:355`) of one pipeline rolls back the headers and events of all of them. The
  others' checkpoints are clamped with them, and a pipeline between two passes ingests again what
  was its own. One that has fetched a window by then does not: its append (`:253`) moves the
  checkpoint to the window's end over ledgers whose events are gone, nothing stored below the
  window is left to disagree with it, and they stay lost. `MirrorsWhenSynced` of either pipeline
  fails so in `SharedPipelines.cfg` (with a confirmation window as long as the chain).
  `pipeline.ts:40` says that the name "lets several pipelines share one database", and `:246` that
  the checkpoint means "every ledger through here is fully ingested"; `NoGapsForEither` says that
  this is kept until history is rewritten.
* `decodeEvents` runs the codec over an event's topics and body (`:392`) before it asks the adapter
  whether the event is its own (`:396`). An event of another contract that the codec cannot decode
  throws `ADAPTER_DECODE`, and so does every later pass over the same window.
  `packages/core/src/adapter.ts:39` says "Events that are not recognised are skipped, not an
  error." The service uses the codec of `scval.ts`, which decodes JSON only, and asks for all
  contracts when none is configured (`services/indexer/src/config.ts:40`).
* Two ingesters on one checkpoint name (`:253`): a window in flight commits after the other's
  rollback, and the checkpoint passes over ledgers that were rolled back.
  `docs/operations.md:128` warns against the setup and adds that "the writes stay correct,
  because appends are atomic and idempotent". On Postgres they do not: with `Writers` of two
  sessions and one name, `RowsAgree` fails (both append one window, and `event_count` is added
  twice, `postgres-store.ts:154`, while the events are skipped), `ImplementsAtomicStore` fails,
  and so does `OnlyDeepRewindsWait` (an append holds ledgers and waits for events, a rollback the other
  way round). `StreamComplete` still holds.
* A rewind and a prune may deadlock on Postgres, with one ingester. The prune's first `DELETE` (`:362`) finds
  no events; a window with an event in ledger 1 is committed; `rollbackTo(0)` deletes that event (`:297`);
  the prune deletes ledger 1 (`:365`) and its cascade waits for the event; the rollback waits for ledger 1
  (`:300`). The deletes of the same events in two orders do as well. Postgres aborts one of the two: the
  pass or the prune ends with `STORAGE_FAILURE` and the tables show none of it (`ImplementsAtomicStore`).
  It takes a rewind below the prune's cutoff, hence a cutoff computed before history was rewritten or
  rolled back (`pipeline.ts:409`). `OnlyDeepRewindsWait` says that nothing else ever waits.
* `migrations.ts:27` says that a rollback or a prune "is a single DELETE on ledgers", the events following
  by cascade; both delete events first, in a statement of their own, and count what that one removes.
* Two pipelines on Postgres with different names: the checkpoint statement of a rollback may see
  an append that was committed after its deletes, and clamp a checkpoint whose rows survive
  above it.
* The two stores differ when a ledger is appended again: memory replaces its header,
  count included (`store-memory.ts:52`), Postgres keeps the hash and adds the count
  (`postgres-store.ts:154`).

*Recovery*
* An honest archive that ingests between a final page and its digest is refused with
  `INTEGRITY_FAILURE` (`recover.ts:141`), as is one whose open-range digest is served from the
  cache (`integrity.ts:65`), until the entry expires. A sync that is tried again gets through
  (`EventuallyCurrent`).
* A checkpoint that outlived a reorg (`checkpoint.ts:56`) carries orphaned events on; nothing
  compares its rolling digest with the archive. Only the comparison with the chain can notice,
  if the balances differ.
* A debit that lies beyond the cursor makes an archive that merely lags within the tolerance
  look like `BALANCE_MISMATCH`, "duplicated or forged" (`verify.ts:193`); the lag is only
  consulted for a shortfall. `VerdictsExplained` says what the verdict does mean.
* A right key is told `WRONG_KEY` (`verify.ts:155`) when a limb of the chain's balance has left
  the search bound and the replayed value does not match; `VerdictsRight` allows exactly that.
  Such a balance cannot be rolled over by `rolloverAmount` either, which decrypts it first.
* After a key rotation no key replays the whole history: the new one does not open the first
  event (`WRONG_KEY`), the old one not the last ones. `docs/events.md:206` lists it as open.

*Services*
* A lost Redis connection is never reopened: from then on `command` rejects (`cache.ts:155`),
  and `IntegrityService` does not catch it, so digests asked for through the cache fail; the
  comment at `cache.ts:201` says that losing the cache must not take the service down, and the
  code keeps to it at the start only. The callback of a failed write takes the last pending call
  off the list, whichever that is (`cache.ts:163`).
* `broadcast` (`services/indexer/src/server.ts:83`) is said to be called by the ingestion loop after
  a window commits; nothing in the repository calls it, and subscribers receive no events.
* The client spaces requests but for one per caller (`rpc.ts:149`): callers that sleep at the same
  time wake at the same slot, and one whose timer is later than the interval starts beside the owner of
  the next slot. `RequestsSpaced` says how much that can be.
* `createSession` reads summary and count at two instants (`services/recovery/src/server.ts:145`):
  `eventsExpected` may count events beyond `toCursor`.
* A closed range's digest stays cached for an hour (`integrity.ts:23`) also when its upper bound lies
  beyond the tip, or when a rollback rewrites the range; `cache.ts:10` says that an entry "can never
  go stale in a way that returns wrong history". `DigestsFresh` promises the time to live, and the
  time the digest took.
* The cache's key does not tell every two requests apart (`integrity.ts:54`): no account is written `*`, the
  account of a path is whatever is there (`services/indexer/src/server.ts:217`), and so `/digest` and
  `/accounts/*/digest` of one range share an entry, as do an account `*:x` and a contract `x:*`; whichever
  is asked for first answers both until it expires. `integrity.ts:18` says that "the digest is
  deterministic for a fixed range, so it caches cleanly". `EachItsOwnDigest` promises the range, and
  the names up to exactly that; addresses of the network have neither colon nor asterisk.
* A digest that is cached again keeps its place in `MemoryCache` (`cache.ts:47` without a `delete`), so
  an entry that has just been written may be the next to be evicted.
* `CREATE TABLE IF NOT EXISTS schema_migrations` (`postgres-store.ts:95`) runs before the lock is taken:
  on an empty database two first starts may collide there, and one of them exits (`Exit`).
* Overlapping status calls of one session (`server.ts:222`) may leave `cursor` of one and
  `status` of the other, and a session that was complete may become in-progress again.

## Not modelled

Key derivation, test vectors, point encodings, header XDR and the codec of contract values are pure
parsing and cryptography. Errors, JSON, logging, the site, configuration, OpenAPI and most of the
entry points carry no state of interest. Of the services, the socket subscriptions (nothing calls
`broadcast`), request parsing and limits on parameters, the health routes, and the choice of a
client's address behind a proxy are left out; of the stores, the summaries and counts that are only
read for display, and the listing of `migrate-cli`. The digest-table cache of the solver is left out.

## Plan

Order: what decides whether a balance can be wrong first, then what serves it.

1. Done: `Chain`, `Ingest`, `Archive`, `SharedStore`; `Recovery`, `Digest`; `RedisCache`;
   `AtomicStore`, `PostgresStore`; `Amounts`; `RpcClient`, `Adapter`; `ServedArchive`, `ArchiveApi`,
   `RecoveryServer`, `Migrations`, `Services`; the eight `*Proofs` modules.
2. Theorems left: `MirrorsWhenSynced` for commits of several ledgers, with a confirmation window at
   least as wide; liveness, if a prover for it becomes available.
