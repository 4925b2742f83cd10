# Verification of the Markhand server

This directory holds TLA+ models of the Markhand server (`crates/server`) and of the
index of its desktop application (`crates/knowledge/src/desktop`), the TLC configurations that check them on small
instances, and theorems about them that TLAPS checks for every value of the constants.
All paths below are relative to `src/crates/server/` unless they start with `src/` or
`crates/`.

1. [The system](#1-the-system)
2. [Modules](#2-modules)
3. [Runs](#3-runs)
4. [Fairness](#4-fairness)
5. [Proofs](#5-proofs)
6. [What the checks found](#6-what-the-checks-found)
7. [What is only model-checked, and what is not modelled](#7-limits)
8. [Plan](#8-plan)

## 1. The system

Markhand (fileconv) converts documents to Markdown, indexes them and answers
questions about them. The repository holds the converters (`crates/core`), a
knowledge library (`crates/knowledge`), a desktop application, a command line, an
MCP server and a web client; these are sequential or user interfaces, but for the
index of the desktop application. The part with most concurrency, failure and
persistence is **the server**: an API process and any number of worker processes that share PostgreSQL, MinIO (objects) and Qdrant
(vectors). Neither MinIO nor Qdrant takes part in a PostgreSQL transaction, and
that is where most of what is hard comes from.

| Component | State | Operations | What is hard | What makes it correct |
|---|---|---|---|---|
| Job queue (`db/jobs.rs`, `jobs/mod.rs`) | `jobs` rows: status, attempts, `lease_owner`, `lease_expires_at`, `available_at` | enqueue, claim, heartbeat, complete, fail, reclaim, cancel, dry-run release | a worker holds a *copy* of the row it claimed; leases expire, are reclaimed, cancelled and purged behind its back; a deadline cuts off a call that has committed | one owner per lease; an ended job stays ended; attempts are bounded; every job ends |
| Quota (`services/quota.rs`, `db/quota.rs`) | `quota_reservations` with an expiry, `usage_counters` by resource and period | reserve, extend, finalize, refund, expire, reconcile; a slot of kind `concurrent_jobs` comes with a claim | a reservation and what it stands for are two rows with two deadlines; time passes while a transaction waits for its lock; the reconciler recomputes a counter beside a settlement | nobody is admitted beyond the limit; what was settled is counted, once; no slot outlives its job for good |
| Outbox and event log (`db/jobs.rs`, `jobs/mod.rs`, `routes/events.rs`) | `outbox_events`, `event_log` | one row per transition, `ON CONFLICT DO NOTHING`; relay in savepoints; streams that tail the log | keys that repeat swallow events; numbers that commit out of order; several relays; a row that always fails | each event is relayed once; a cursor passes over nothing; a stream that says it is complete is |
| Embedding worker (`workers/embedding.rs`) | job, `embedding_batches`, Qdrant points | claim, announce the write, write, complete, compensate | dies between Qdrant and PostgreSQL | every vector is either of a finished batch or covered by an intent |
| Cleanup intents (`db/vector_cleanup_intents.rs`) | `vector_cleanup_intents` rows, an advisory lock per document | upsert, begin write, clear, commit, drain | the drain deletes from Qdrant inside an open transaction | intents only move forward |
| Deletion (`services/deletion.rs`) | document state, delete job and its checkpoints | request, sweep, drain, sweep again, finalize | writers that started before the deletion | a purged document has no vectors and nobody who could write one |
| Reconciliation (`services/reconciliation.rs`) | scans of Qdrant, chunks and intents | dry run, drain, delete leftovers, rebuild | runs on live documents as well | never takes the vectors of a finished batch |
| Indexing (`services/indexing.rs`, `workers/index.rs`) | index job, chunks, batches | stage batches, finalize, compensate terminal jobs | jobs that end elsewhere | a document is indexed when all of it is, and never waits for a job that is gone |
| Conversion (`workers/convert.rs`, `services/promotion.rs`) | convert job and its checkpoint, staged objects, a storage reservation per attempt | stage, promote, compensate, clean up | a promotion whose outcome is not known; attempts that overlap; writes that arrive late | a promoted version has its Markdown and is charged for it once; what is left behind is on record |
| Upload saga (`services/upload/saga.rs`, `db/upload_operations.rs`) | `upload_operations` row, object, reservations | begin or replay, reserve, put, register, compensate, reconcile | client retries overlap; four-step compensation | charged once; success is final; the object lives as long as the upload |
| Worker runner (`bin/worker.rs`, `workers/fairness.rs`) | rotation over organisations | a bounded cycle of claims and reclaims | a failing or greedy organisation | a job waits for at most one turn of each other organisation |
| Document states (`services/document_state.rs`, `lifecycle.rs`, `publish.rs`) | `documents.state`, versions | convert, promote, publish, archive, restore | jobs of an older version finish late | only the current version moves the document |
| Index generations (`db/index_metadata.rs`) | generations per collection | backfill, cut-over, rollback | cut-over during a backfill | one complete active generation |
| Ask streams (`services/qa/ask_stream.rs`, `db/ask_streams.rs`) | events of a session with a sequence, leases of producers | append, tail, resume, close, recover | read and wait are two steps | no event lost or doubled; one terminal event |
| Sessions (`auth/session.rs`) | token families and generations | issue, refresh, logout, revoke all | rotations race with each other and with revocation | one successor per token; nothing after a revocation |
| Members and invites (`services/members.rs`, `db/members.rs`) | `org_memberships`, `org_invites` | change role, suspend, remove, invite, accept, revoke | two owners leave at once; an invite is revoked while it is accepted | the organisation keeps an owner; an invite admits one member |
| Principal cache (`auth/context_cache.rs`) | contexts by ACL version | resolve, invalidate | a context resolved before a revocation is cached after it | a revocation takes effect |
| Write gate (`middleware/write_gate.rs`, `services/ops_fence.rs`) | advisory lock, fences | admit a mutation, set and clear a fence | check, then act | no mutation during a backup capture |
| Desktop knowledge index (`crates/knowledge/src/desktop`) | a SQLite database, a directory of HNSW files per embedding plan | rebuild, search (which begins with a rebuild) | commands run at once; the two stores share no transaction; the plan changes, or falls back to the local one | a search uses vectors of one plan and of one time |

How they meet: an **upload** registers a document version and enqueues a
*convert* job in one transaction; the convert worker promotes its result and
enqueues an *index* job; the index worker writes chunks and stages *embedding*
jobs, one per batch; the last batch to complete makes the document `indexed`.
A **deletion** tombstones the document, cancels its writers and, through the
outbox, asks for a *delete* job that purges it; it succeeds only while no job is
indexing the document itself (see [section 6](#6-what-the-checks-found)). A *reconcile* job compares Qdrant
with PostgreSQL and repairs. All of them go through the job queue, all claims
through the slots, all transitions through the outbox.

Every hazard of this code we know of is listed in `PROJECT.json` with its line and
the properties that would catch it.

## 2. Modules

| Module | Models |
|---|---|
| `JobContract` | what the queue promises, without leases, tokens, clocks or slots |
| `JobQueue` | `jobs`, its workers, the concurrency slots and the outbox rows of one organisation |
| `JobQueueProofs` | its inductive invariant, what follows, and that it implements `JobContract` |
| `VectorFence` | one document's vectors: embedding workers, intents, purge and repair |
| `VectorFenceProofs` | its three inductive invariants and what follows |
| `UploadSaga` | one upload: its operation row, object, reservations, requests and reconcilers |
| `UploadSagaProofs` | its two inductive invariants and what follows |
| `Conversion` | one convert job: its attempts, staged objects, reservations, promotion and clean-up job |
| `IndexGenerations` | the index generations of a collection and the jobs that fill them, document by document |
| `QuotaLedger` | reservations and counters of uploads and of answers, transaction by transaction |
| `QuotaProofs` | its inductive invariant and what follows |
| `Revisions` | the versions of one document: promotion, publication by hand, index and embedding jobs of each, the refresh of markers, a repair |
| `EventLog` | the event log, the outbox relays that write to it, and the stream that tails it |
| `OrgRotation` | the turns that one worker process gives to the organisations it serves |
| `AskStream` | one durable answer: its session row and events, producer, tails, sweeps, the write gate |
| `AskStreamProofs` | its inductive invariant and what follows |
| `RefreshFamily` | the refresh tokens of one member: login, refresh, logout, revoke-all, suspension, removal |
| `Members` | the members and invites of one organisation, statement by statement |
| `ContextCache` | the cache of resolved principals of one process |
| `DesktopIndex` | the knowledge index of the desktop application: rebuilds on SQLite and the HNSW cache |
| `DesktopIndexProofs` | its inductive invariant and what follows |
| `MCJobQueue`, `MCVectorFence`, `MCUploadSaga`, `MCAskStream` | instances of one module for TLC |
| `MCDocuments` | `OrgRotation`, `Conversion`, `IndexGenerations`, `QuotaLedger`, `EventLog` and `Revisions` side by side |
| `DocumentsProofs` | an inductive invariant for each of these, that of `QuotaProofs` for the two ledgers, and what follows |
| `MCSessions` | `RefreshFamily`, `Members`, `ContextCache` and `DesktopIndex` side by side |
| `SessionsProofs` | inductive invariants of `RefreshFamily`, `Members` and `ContextCache`, what follows, and `DesktopIndexProofs` lifted to the composition |

*Side by side* means that a variable `part`, chosen at the start and never changed,
says which of the instances moves. None of these mechanisms reads a variable of
another, so this explores each of them whole, at the sum of their sizes and not at
their product. The models that do interact are composed in one module: the queue,
its slots and its outbox; the intents, the embedding jobs, the purge and the repair;
the job, its objects and its quota in `Conversion` and `UploadSaga`; the answer, the
sessions' revocation, the quota and the backup in `AskStream`.

**Grain.** `with_org_txn_typed` (`db/pool.rs`) commits a closure whole or not at
all, and the rows it decides on are locked `FOR UPDATE` or changed by a
compare-and-set. So one transaction is one action, one call to Qdrant or MinIO is
one action, and whatever a process carries between two of them (a claimed job, an
attempt's reservation key, a list of points) is in a variable, because it can be
stale when it is used. Where two statements of one transaction must be told apart,
because what the first read may be old when the second writes (READ COMMITTED), a
transaction is several actions and its uncommitted writes are kept apart: in
`Members`, `RefreshFamily`, `QuotaLedger`, `EventLog`, `ContextCache`, the appends of
`AskStream`, the promotion of `Conversion` and the finishing transactions of
`IndexGenerations`. Death of a process is an action that may come between any
two steps. Where a transaction stays open across an external call (begin_write to
its commit; the drains) the model has a state in between, what is written and not
committed is not visible, and the advisory lock and the row locks are guards.

**JobQueue.** `job` is the row, `slots` the reservations still in status
`reserved`, `worker` the claim a worker carries, `doc` how far the document's
deletion got (it is what the document does to jobs), `outbox` the keys written,
`swallowed` those an `ON CONFLICT DO NOTHING` dropped, `finishedBy` a history
variable for the contract. `Claim` is admission, lease and slot in one
transaction; `Complete`, `FinalizeIndexed` and `FinalizePurged` are the three
ways a job succeeds, of which only the first gives its slot back; `Retired` is the
rule of `fail_owned` and `reclaim_expired`. Time is what is left of each deadline;
a lease of -1 expired in the past, and later instants behave alike, so `Tick`
needs no bound. The order of claims among due jobs is left open: `SKIP LOCKED`
lets a claim pass over a locked row.

**JobContract.** A job is granted to one worker at a time; only its holder
finishes it or gives an attempt back; grants are at most `MaxAttempts`; an ended
job stays ended. `JobQueue!HonoursContract` instantiates it with the worker that
passes the fence as the holder.

**VectorFence.** `intent` holds the committed status of each batch's intent,
`points` the batches whose points Qdrant has, `late` the upserts whose caller
is gone, `lock` the document's advisory lock. A writer goes through
`claimed`, `intended`, `upserting`, `upserted`, `written` and completes, or
compensates (`compensating`, `clearing`, `failing`). A cleaner purges
(`sweep`, `drain`, `draining`, `resweep`, `finalize`) or repairs (`repair`,
`repairing`, `leftovers`). The queue is reduced to status and attempts: embedding
jobs never get an attempt back, so the number stands for the token; `JobQueue`
shows that the fence is sound.

**UploadSaga.** `op` is the operation row, `quota` the reservation of each attempt
(storage and document are reserved, finalized and refunded together), `object`
whether MinIO has the object all attempts share, `actor` each request's or
reconciler's step and what it carries, `told` who was answered with success. The
reservation key is derived from the attempt, so its number stands for the key. A
request runs in a task of its own, so a client that hangs up does not stop it;
that a request stops half-way is the death of the process (`Stop`).

**OrgRotation.** `cursor` is the field of that name, `offset` the loop variable of
`run_cycle`, `ready` the organisations with a job that this process could claim at this
moment, which other processes, cancellations and deadlines change at any time; the attempt
itself (`reclaim_expired_leases`, the relay pass of an index worker, `run_once`) is the one
step `Idle`, `Serve`, `Fail` or `Panic`. `waited` counts for the property only.

**Conversion.** `job` is the row with the keys its checkpoint names, `at` where each
attempt is, `seen` the attempt's own copy of the checkpoint. An attempt is a process
that goes on after its lease ran out until a fenced write tells it so, and every
request may have succeeded although it was answered with an error: a put may be
applied late (`flying`), a promotion may commit after `await_promotion_or_reconciliation`
has lost it (`txn` stays open without its attempt). Sweeps look a key up and delete it
in two steps. The clean-up job (`cleaner`) is what `enqueue_conversion_reconciliation`
leaves behind. The sandboxed converter is the step `Convert`.

**IndexGenerations.** `gen` is the state of each generation, `row` the backfill row of a
document in it, `idx` and `batch` its index job and its one embedding batch. The two
transactions that may finish a document, `finalize_indexed` and `complete_batch`, are
instances of one sequence of steps (`OpenFinish` ... `FinishBoth`) under the row lock of
the document (`DocFree`) and the completion lock of the generation (`GenFree`). Plans
are deployed in order and to all processes at once, and a cut-over, which nothing in
the server calls, happens at any time.

**QuotaLedger.** A transaction waits for its locks, reads the clock, reads what is used
and commits; the clock moves in between. Uploads hold a document and a storage
reservation, answers one of tokens whose final amount may exceed the estimate, and
whose counter is that of a month. The reconciliation recomputes documents and storage
from what is there and leaves tokens alone. A sum of amounts is the number of their units
(`Beyond`, `Amount`), which is what the code's `SUM` computes and what can be proved about
without induction. It is instantiated twice, for uploads and for answers.

**EventLog.** `log` holds what is committed; what a job or a relay has appended and not
committed is in `writer` and `relay`. A relay takes up to `Limit` rows that no other
relay has locked, publishes each in a savepoint (`Enqueue`, `AppendPublished`, `Mark`,
or `Skip`), and commits or dies. The stream reads the job's status and then the events
after its cursor, delivers one per round, and may reconnect at any time with the last
id it saw.

**Revisions.** A version is one batch of chunks with one set of points (`point`), whose marker
says whether it is the current one. `writer` holds the marker an embedding worker read in the
transaction before its upsert, `flying` an upsert that outlived its caller, `repair` what a
repair read: the rows, then the points, then what is missing. `raced` and `lost` are
history: the versions that were marked current when they were not, or lost their place to a
draft published by hand, and those whose points are gone. Conversion is the one step that
commits it.

**AskStream.** An append decides under the advisory locks of the session and writes
later, since the recovery and purge sweeps take neither lock; so it is two steps. The
producer is one of four ways to answer (streamed tokens, a buffered answer with
retries, an assistant answer, an extract) and settles the token reservation before it
closes. A tail pulls one event per transaction, may close the stream itself when its
lease is refused, and otherwise sends a control message; a client resumes with the id
of the last frame. `budget` bounds the disturbances of a behaviour: revocation, expiry,
resumption, backup, crash.

**RefreshFamily, Members, ContextCache.** `RefreshFamily` has the locks of
`auth/session.rs` (of the user, of a family, of a token's row) and what a request read
before it held them. `Members` has every statement of a membership transaction: target
and caller are read without a lock, then the owners' rows are locked one by one and
counted. `ContextCache` has one round trip per step: membership, collections, version,
insertion; `held` is what the user had while the request ran, against which what it is
served is judged.

**DesktopIndex.** `store` and `meta` are the SQLite database, `ann` what each HNSW directory
was built from, `job` what a command holds. `moved` are the commands that would see a newer
`data_version` than the one they began with. A row is a text and the plan of its vectors, and
all chunks of a document are one. The steps after a commit are the calls that take the lock
of the cache, one by one. `blame` is history: why the directory of the index may be older
than the database.

`map` in `PROJECT.json` gives the source lines of every definition. Definitions
called *Mutant* in a comment are plausible bugs that are used nowhere in the
models: each property is shown to fail when one of them takes the place of its
original. Modules that are only instantiated state the assumptions on their constants
as a definition, and the module that instantiates them assumes it.

## 3. Runs

| Run | Instance | States | What it shows |
|---|---|---|---|
| `JobQueuePipeline` | an index job, its batch, the purge of their document; 2 workers, 2 attempts, 2 slots | 650 k | one slot per job, no live batch under a cancelled index job, the contract |
| `JobQueueDryRun` | a convert job and a reconcile job that gives attempts back; 2 workers | 66 k | no swallowed event |
| `JobQueueLive` | an index job and a convert job, one slot, no late heartbeats, fairness | 127 k | the limit counts every live lease, every job ends, leaked slots drain |
| `VectorFenceRepair` | 2 batches, 2 writers, 2 cleaners, repairs, 2 attempts, late upserts of one batch | 6.31 M | a purge leaves no vector, vectors are covered, finished batches keep theirs, indexed means complete, only a drain strands a document |
| `UploadSagaOverlap` | 3 requests, 1 reconciler, any overlap, failed puts that leave the object | 338 k | one charge, final success |
| `UploadSagaSerial` | 3 requests, 2 reconcilers, one at a time | 52 k | a completed upload has its object, a refunded one has none, retries reserve afresh |
| `AskStream` | an answer in each of the four ways, 3 events, 3 bytes, 1 disturbance (streamed: 2), fairness | 1.73 M | one end, content once and in order, none after a revocation, pauses for a backup, streamed means billed, every stream ends |
| `Sessions` | 2 families, 2 requests, 3 tokens; 3 members, 2 of them owners, 1 invite; 2 accounts, a cache of one entry; 2 rebuilds of a desktop index | 3.09 M | no refresh of an ended family and one successor, an owner remains, one member per invite, stale only where raced, `SearchesOneIndex` |
| `Documents` | 4 organisations; 2 attempts and 2 clean-ups; 2 documents, 2 generations; 2 uploads or 2 answers, 2 transactions; 1 job of 3 events, 2 relays; 2 versions of a document | 2.16 M | see the table of properties below |
| `CacheRevoke` | 1 account, 2 requests | | *violation*: a request is served a grant lost before it began |
| `UploadSagaStaleDelete` | 4 requests that overlap | | *violation*: a registered upload loses its object |
| `StuckIndexing` | 1 document, 1 generation | | *violation*: a document stays `indexing` with nothing under way |

What `Documents` shows, part by part:

| Part | Property | |
|---|---|---|
| rotation | `FairTurns` | a job waits for at most one ended turn of each other organisation |
| conversion | `CommittedMarkdownExists` | no compensation, clean-up or straggler deletes the Markdown of a promoted version |
| | `ChargedForWhatIsKept` | a reservation is final exactly for the promoted attempt |
| | `LeftoversAreRecorded` | every object, and every write that may still arrive, is named in the checkpoint |
| index | `IndexedIsVisible` | a document said to be indexed is in the active generation, across cut-overs |
| | `CompletionIsNoticed` | the last of several finishers makes the generation `shadow` |
| | `OnlyReplaysStrand` | but for two known causes, a document in `indexing` has work under way |
| uploads, answers | `NeverOverAdmitted` | committed and reserved stay within the limit, but for what answers used beyond their estimate |
| | `EverythingIsCounted` | no settlement is lost beside a reconciliation, and document and bytes are charged together or not at all |
| events | `TailsMissNothing` | a cursor passes over no event, and `snapshot_complete` follows the terminal one |
| | `PublishedOnce` | a published row has its job and its entry, once |
| versions | `SearchFollowsVersions` | an indexed document's version is embedded and marked current, and no other is, but for races that are named |

**Bounds.** Two attempts: the first that fails, is reclaimed or dies, and the last,
which must not be requeued. Two workers: the stale one and the one that took over;
a third adds no kind of interleaving, as a fence compares a claim with the row and
not with other claims. Eight tokens are more than rows, claims and slots can
refer to, so `FreshToken` always exists. Lease 1 or 2 ticks, deadline one more: a lease
can be live, due and past, and expire before and after the deadline. `SlotLimit` 2
where the interleavings of slots matter, 1 where the limit must bind. Two batches:
the last to complete and another one to wait for. Two cleaners: a purge and a
repair, or the purger whose delete job was reclaimed and its successor. Three
requests: two that share an attempt and one that takes the next; four for the lost
object, where one of them must still fail its put after another has committed. Two
attempts of a conversion overlap when the first runs on without its lease, and the
second is the last; two clean-ups: one that finds the parent still running and one that
does not. Two documents and two generations: the document that is promoted while the
other is being backfilled, and the generation it is promoted into. Two transactions on
the ledger: a race is between two; two ticks let a reservation expire and a month turn.
Two relays and a job of three events: a relay takes a batch of two while the other takes
the rest, and one event follows the terminal transition's numbers of the first. Two versions: one that is
superseded and the one that follows, with one hand publication, which comes before any
rebuild, and one stray request. Two rebuilds of a
desktop index, twice: one document whose text changes between blank and not, and two that may
be indexed apart, under two plans; the threshold of points is one, or both documents. Three
events of an answer: started, one that carries content, and the end. Four
organisations: one asked already by the running cycle, one being asked, one ahead and one
behind the cursor. Two families, and
three tokens: a rotation and a second login. Two owners who leave at once, and a third
member to invite. The
symmetry sets permute workers, writers, cleaners, batches, requests or reconcilers,
which no definition tells apart; the run with liveness uses none. `LateUpserts` is 1: one
batch's points arrive after the purge that looked for them, which is the whole race.

`CHECK_DEADLOCK FALSE` appears where a system may rightly stop: a document that is
purged and whose workers are done, an upload whose requests were all answered. The
job queue never stops, since `Tick` is always possible.

**Constants that switch an assumption on or off.** `LateHeartbeats`,
`DrainFaults`, `Overlap` and `OrphanPuts` each name something the
code cannot rule out and that breaks one property. A run that checks that property
assumes it away and says so; the others leave it in.

* `LateHeartbeats` (pipeline and dry-run: TRUE; live: FALSE), a heartbeat between
  the end of a lease and its reclaim.
* `Repairs` (TRUE), repair workers, which strand documents.
* `DrainFaults` (FALSE), a repair drain that rolls back after it deleted.
* `Overlap` (TRUE in overlap, FALSE in serial), requests with one key at a time.
* `OrphanPuts` (TRUE in overlap, FALSE in serial), a failed put whose cleanup
  fails as well.

## 4. Fairness

`JobQueue` and `AskStream` have liveness properties (`FairSpec`). Assumed of the queue,
each weakly:

* `Tick`: the database clock and the timers run.
* `Claim(w, j)` by some worker, for each job: a worker cycle starts at the latest
  after two idle seconds and claims the due job at the head of the queue
  (`bin/worker.rs`, `run_bounded_claim_loop`); per job, because claims go by
  priority and age and the instance has finitely many jobs.
* `Reclaim({j})`: every cycle begins with `reclaim_expired_leases`.
* `TimeOut(w)`: `max_job_duration` is a timer of the worker's runtime; at its end the
  job is failed or the claim dropped.
* `ExpireReserved`: the API process sweeps expired reservations (`http.rs`).

A worker's heartbeat, completion or success is never assumed: jobs end although
every worker may hang or die every time.

Assumed of answers, each weakly: a producer's lease lapses when it is not renewed
(`LeaseLapses`; the clock), the sweep of `http.rs` comes round every thirty seconds
(`Recover`, unless a fence stops it), and a transaction that holds the locks of the
session ends, by commit or abort (`AppendCommit`, `AppendAborts`, `CloseCommit`,
`TailCloseCommit`; statement timeouts). Nothing is assumed of the producer, of tails, of
clients or of whoever clears a fence.

The other modules state no liveness.
For `UploadSaga` the code gives no ground for any: `reconcile_stale_uploads` has no
caller outside the tests. For `VectorFence` it would need the outbox relay.

## 5. Proofs

**JobQueueProofs.** For any number of jobs, workers, documents and tokens, any
limits, with late heartbeats and dry runs or without:

* `QueueInvariant`: `Spec => []IInv`;
* from it `TypeCorrect`, `LeaseHasOneOwner`, `SlotsAreCountedOnce`, `EveryEventIsRelayed`:
  `TypeOK`, `OneOwner`, `SlotsMatchLeases`, `NoEventSwallowed` hold throughout.

`OneOwner` is not inductive. A stale worker fails the fence because no two *claims*
share a token, and they do not because a fresh token differs from every token on a
row, in a worker's memory *and on a slot*; a row has a token exactly while it is
leased. Those are `TokenInv` and `RowInv`. `attempts =< MaxAttempts` is not
guarded by any claim: it needs that a *pending* row has attempts left, which every
way back to the queue has to establish. That no outbox key is used twice is the
least obvious: a dry run gives its attempt back, so numbers repeat. It holds because of
`OutboxInv`: a key in the outbox lies *behind* its job; a dry run writes no key
and only undoes the attempt of its own lease, whose number no retry or reclaim has
used yet. `StepIInv` goes through the conjuncts one by one (`TypeStep`, `RowStep`,
`TokenStep`, `SlotStep`, `EventStep`), each with the few facts about a step it
needs (`RowMoves`, `ClaimGrants`, `ClaimsKept`, `SlotsShrink`, `FreshKeys`).

* `CancelTakesBatchesAlong`: `CancelledIndexHasNoLiveBatch`, since whatever cancels an
  index job takes the batches of its document in the same transaction, and a batch is only
  enqueued by the holder of an index job that is leased.
* `LeasesAreCounted`, with `~LateHeartbeats`: `LiveLeaseHoldsSlot`. The slot and the lease
  are extended together, so that they run out together.
* `QueueHonoursContract`: `HonoursContract`, the refinement. `Promise(j)` is the abstract
  job of a row; each step maps to a move of the contract for each job or leaves it
  (`Stays`). `FinishInv` is what that needs beside `IInv`: nobody is recorded as the
  finisher of a job that has not ended. What callers build on are corollaries of it:
  `OutcomesAreFinal` (an ended job keeps its outcome, whatever comes late) and
  `SuccessIsEarned` (a job succeeds by the one worker that passes the fence of its lease).

**VectorFenceProofs.** For any number of batches, writers, cleaners and attempts, with
repairs and with late upserts:

* `InductiveInvariant`: `Spec => []IInv`, and from it `PurgeIsFinal`, `PointsStayCovered` and
  `IndexedStaysComplete` (`PurgedLeavesNoVector`, `PointsAreCovered`, `IndexedIsComplete`).
  None is inductive, since both sides delete from Qdrant on the strength of what they listed
  before. `LockInv` says that whoever holds the lock of the document is at work on rows that
  are still open; `WriterInv` that a writer past its write is the only one of its batch;
  `CleanerInv` what a cleaner has left behind at each step. An action is reduced to what it
  does to one batch (`BatchMove`) and to the document (`DocStep`), and the invariant is shown
  of those.
* `OnlyDrainsLeaveItIndexing`, if there is a batch at all (`IndexingInv`): a document that is
  being indexed has had nothing fail and has something left to do. A document without
  batches is finished by its index job, which is not in this module.
* `SucceededKeepsItsPoints`, with `~DrainFaults` (`PointsInv`): a write that is committed, or
  about to be, has its points unless a drain has listed it. The counterexample for a drain
  that rolls back is in [section 6](#6-what-the-checks-found).

**UploadSagaProofs.** For any finite set of requests and any reconcilers:

* with any overlap, `UploadInvariant`: `Spec => []IInv`, and from it `UploadTypes`,
  `QuotaIsChargedOnce`, `CompletionIsFinal`. That attempts are bounded is the
  counting argument of `KeyInv`: a new attempt belongs to a request that had taken
  none (`AttemptStep`, with `FS_AddElement`). `ChargedOnce` and `SuccessIsFinal` rest on
  the two transactions that may touch a completed operation leaving it alone.
* with `~Overlap`, `SerialInvariant`: `Spec => []SerialInv`, and from it
  `SerialUploadsKeepTheirObject`, `SerialRetriesReserveAfresh` and, with `~OrphanPuts`,
  `SerialRefundsLeaveNoObject`. `SerialInv` says for each step what state the operation is in and
  whether there is an object; `AloneSuffices` reduces a step to the actor that takes
  it. The counterexample of `UploadSagaStaleDelete` shows that `~Overlap` cannot be
  dropped from the first.

**AskStreamProofs.** For events and bytes of any number, in all four ways of answering:
`InductiveInvariant`, and from it `OneEnd`, `NothingTwiceNothingMissing`, `RevokedMeansNoMore`,
`BackupsSeeAStillStream` and `StreamedAnswersAreBilled` (`OneTerminal`, `ContentInOrder`,
`NoContentAfterRevoke`, `StreamsPauseForBackup`, `StreamedIsBilled`; two of them action
properties), and `TypeCorrect`. An append reads the session and writes later, and the sweeps take neither of
its locks in between. So `TxnOwner` says who may have an open transaction, and `TxnInv` that
what it read still holds or that its commit will find out. `ClientInv` is about what is under
way: `Delivering` joins the frames in the channel, the cursor of the tail and what the client
has, for any content of the channel. `GuardInv`, `FenceInv` and `UsageInv` tie the backup
lock, the authorization and the note of usage to the step the producer is at, and `SizesInv`
counts the bytes that an append has reserved. The steps on the session are one relation,
`StreamMove`, of which each conjunct is shown once.

**QuotaProofs.** For any finite sets of uploads and answers, any transactions at once, any
sizes, estimates, limits and lengths of the month: `LedgerInvariant`, and from it
`LedgerStaysWithinLimits` and `LedgerIsExact`. The two need a statement that holds in the middle
of a transaction, when others have expired reservations and the clock has moved since it
looked.

* `Working`: types, and a resource is locked by the one transaction that works on it.
* `Sound`: the ledger of a resource is right not only now but at every time from that of the
  holder of its lock on (`Since`): at each of them what is counted in its period and what is
  still reserved then fit the limit (`Room`), and no later month has been counted in
  (`Fresh`). A holder reads the clock once and commits later, perhaps in the next month; so
  the property has to hold from its time on, and "now" alone is not inductive.
* `Informed`: what a holder saw is still right, or on the safe side (`SawRight`): an admission
  saw at least what is used at its time or any later one, a settlement what is counted, a
  repair something between what is there and what is counted. Only sweeps, deletions and the clock move without the lock, and they make a
  ledger quieter (`Quieter`), which `QuietStep` shows once for all of them.

An overrun of an answer is the part of its amount beyond the estimate, counted in units, so that
the change of a sum by one reservation is a fact about the cardinality of a union (`PileAdd`,
`PileWithout`) and no induction. `PileMonotone` is what makes expiry safe. One step lemma per action,
as everywhere. The assumption (`QuotaAssumption`): finitely many uploads and answers, no upload is
an answer, sizes and amounts are positive, and no caller is `Nobody`.

**DocumentsProofs.** The parts of `MCDocuments`, each with an invariant of its own that the
moves of the others leave alone.

*Rotation*, for any number of organisations: `OrgsTakeTurns`. Between the
arrival of a job and the attempt on it, every other organisation has at most one turn.
`FairTurns` bounds a counter that any turn of another increases, so it needs the position:
an organisation `d` places ahead of the cursor can be overtaken `d` times, and one that the
running cycle has asked already had nothing to do then, so that nobody had a turn since
(`IInv`). `PastIs` is the arithmetic of the ring, `TurnKeeps` the step that moves the cursor.

*Conversion*, for any number of attempts and clean-ups: `PromotedMarkdownExists`,
`OnlyTheKeptIsCharged`, `LeftoversAreFound`, from `ConvInv`. It says of every key that is about
to be deleted that its deleter has seen it in the checkpoint and that nobody can commit it
any more: `PromotionInv` (a promotion under way is of the attempt that owns the job, whatever
that attempt believes), `StagedInv` (keys are staged in the order of the attempts and before
they are written), `AttemptInv` (an attempt deletes keys of earlier ones, and its own once it
has nothing left to promote), `CleanerInv` (the clean-up deletes what was not committed when
the conversion had ended).

*Index generations*, for any number of documents and plans: `IndexedStaysVisible`,
`LastOneNotices`, `OthersDoNotStrand`, from `IndexInv`. Every action is first reduced to what
it does to one cell, a document in a generation (`IndexMove`), and each conjunct is shown of
those. `FinishLocks` says that one transaction has the row of a document and one the lock under
which a generation is counted; `OpenJobs` that what a transaction saw of the other jobs is so;
`CellInv` how job, batch and backfill row of a cell go together. That a generation is
complete when it becomes `shadow` is `SeedInv` (whoever spreads a generation spreads it to
every document that is older) and `CoveredInv`; that somebody notices is `CompletionInv` (a
generation that is building with a row backfilled has a row that is not), for which
`DecidedInv` says that what a transaction decided when it counted the rows is still right
when it commits. `StrandInv` says how a job can be through in a generation
that cannot make its document `indexed`, and `VisibleInv` that an indexed document is in every
generation that may still be cut over to, but those older than its own.

*Event log*, for any number of jobs, events and relays: `StreamsMissNothing`,
`RowsArePublishedOnce`, from `EventInv`. Whoever has given out a number and not committed holds
the lock (`NumberLockInv`), so a number in flight is larger than every committed one
(`NumbersInv`), which is why a cursor can pass over nothing; `TailInv` says that what the
stream found is the next event of its job still, and `LoggedInv`, `HeldInv` and `RelayInv` tie
a published row to its entry and its job, and every claimed row to one relay. That a
maximum exists, and an oldest free row, is proved by descent (`GreatestNat`, `LeastNat`, from
`FS_StrictSubsetOrderingWellFounded`).

*Versions*, for any number of versions and of rows of one: `SearchSeesTheCurrent`, from
`RevInv`: a version has jobs and points only from its promotion on (`PromotedFirst`), nothing
false is written of the current one but by the named races (`CurrentInv`), and what a repair
found to be past is past for good (`RepairInv`).

*Quota*: `NobodyIsOverAdmitted`, `NothingGoesUncounted`. The ledger of uploads and that of answers
are two instances of `QuotaProofs` (`UploadsMoves`, `AnswersMoves`: each step of the one is a
step of the other); its assumption is part of `InstancesAssumption`.

**SessionsProofs.** *Families*, for any families, requests and bounds on tokens and changes: `InvariantHolds`
(`Spec => []IInv`; in the composition, `FamiliesKeepTheInvariant`), and from it `TypeCorrect`, `OneSuccessor` (a family has
at most one token that can be refreshed) and `EndedFamiliesStayDead` (once a logout, a
reuse or a revoke-all was answered, none). Neither is inductive: a rotation inserts a
successor it decided on some steps earlier. The invariant says why that is safe: whoever
decides on a family holds its lock (`DecidersHoldTheLock`), what it is about to rotate
still lives (`RotatesWhatLives`), and what it is about to revoke is all that lives in the
family (`RevokersSeeAll`). `Inductive` goes through the actions; each has a lemma.

*The other parts*, for any members, invites, transactions, accounts and requests:

* `AnOwnerRemains`, `InvitesAreUsedOnce` (`AlwaysAnOwner`, `InviteUsedOnce`). A transaction that
  was let through to take an owner away holds the row of another one (`Counted`), and no
  other transaction can change that row; what it read of its target before may be old.
* `OnlyRacedFillsServeStale`, from `CacheInv`: an entry of the present version whose filling
  nothing overlapped is true (`Faithful`); a resolution half done is no older than the version
  it began with (`RoleResolved`, `ScopeResolved`); what the user had while the request ran
  includes what is true now (`Watched`).
* `SearchesStayInOneIndex` takes the invariant of `DesktopIndexProofs`, instantiated as
  `MCSessions` instantiates the model, to the composition.

**DesktopIndexProofs.** For any number of commands, documents, texts and plans,
`DesktopInvariant` and from it `DesktopSearchesOneIndex`. That the vectors of the index are of
one plan rests on `FitsIndex`: work that was prepared to be *added* is of the plan of the
index, or the index was empty, until another command commits, and then the `data_version` has
moved. That the directory follows needs to know who is still on the way: `AnnFollows` says
that whoever changed the index last *owes* the build, unless it is done or somebody is to
blame; a command that builds for another plan owes nothing to this index any more, because
whoever changed the plan does.

The theorems rest on the named assumptions of the modules (`ConstantsAssumption`,
`BoundsAssumption`, `FamilyAssumption`; `Assumption`; `NobodyAssumption`,
`TokenBoundAssumption`; `OrgCountAssumption`; `InstancesAssumption`, which gathers those of the
modules that are only instantiated), which TLC evaluates in every
run, and on the library's facts about finite sets. What a theorem assumes beyond them stands
in its statement: `~Overlap`, `~OrphanPuts`, `~LateHeartbeats`, `~DrainFaults`, each of which
switches off a behaviour that breaks the property, and `Batches # {}`.

## 6. What the checks found

`PROJECT.json` quotes the line of documentation each one disagrees with.

| Finding | Where |
|---|---|
| Overlapping retries of an upload delete a registered object | run `UploadSagaStaleDelete` |
| A document stays `indexing` for good after a replayed index job | run `StuckIndexing` |
| The principal cache stores rights under a version that already includes their loss | run `CacheRevoke` |
| A document cannot be deleted while it is being indexed | `VectorFence`, `IndexGenerations` (`RequestDelete`, `Delete`) |
| Jobs that end through the repository layer keep their concurrency slot | `JobQueue` |
| A repair drain that rolls back lets a batch finish without points | `VectorFence` with `DrainFaults` |
| A repair leaves a live document in `indexing` without a job | `VectorFence` (`OnlyDrainsStrand` names it) |
| A worker that dies in `writing` dooms every retry of its batch | `VectorFence` (`MayBeginWrite`) |
| A late heartbeat revives a lease without its slot | `JobQueue` with `LateHeartbeats` |
| A late upsert survives a purge | `VectorFence` (`LateUpsert`) |
| Tails and settlements write during a backup | `AskStream` (`StreamsPauseForBackup` names it) |
| A timeout of a retried provider call is forgotten and the tokens refunded | `AskStream` (`CallFails`) |
| A repair takes the points of a version it has not heard of for orphans | `Revisions` (`ScrollPoints`, `DeleteCandidates`) |
| A marker read before a promotion is written after the refresh | `Revisions` (`Fence`, `Upsert`) |
| 32 poisonous outbox rows block all later ones | `EventLog` (`Claim`, `Skip`) |
| A panicking organisation keeps the head of the rotation; a cycle outlasts SIGTERM | `OrgRotation` (`Panic`), reading |
| A failed or interrupted HNSW build leaves an old cache that nothing replaces | `DesktopIndex` (`LeaveUnbuilt`) |
| The reconciler of stale uploads is never called | reading |
| A failed put with a failed cleanup is refunded with its object left | `UploadSaga` with `OrphanPuts` |

Smaller observations, which contradict no line of documentation we found:

* A document also stays `indexing` when its job finishes in a generation that was staged
  beside another while the document was promoted: the second cause in `OnlyReplaysStrand`.
* With three plans, an operator can make the oldest of two shadows active after the younger
  one was: `cut_over_shadow_generation` (`db/index_metadata.rs:280`) asks only that the
  generation is `shadow`, and a document that was promoted in between is in the younger one
  only, since `seed_generation_backfills` reaches no generation but the one being built. It stays
  `indexed` without an embedding in the active generation, and whoever verifies the shadow
  before the cut-over (which the comment at `services/indexing.rs:680` leaves to the caller)
  has to look for it. `IndexedIsVisible` names this as its second case. It came up in the
  proof; the run has two plans, where it cannot occur.
* Publishing a draft by hand (`POST` on a version, `services/publish.rs`) makes an uploaded,
  unconverted file the current version of a document in any state, enqueues no refresh for
  the version it replaces, and that version can never be current again
  (`migrations/0005`: "already published and not current"). While the document is
  `converted` or `indexing`, nobody moves it on: no index job is of the current version.
* A second loss of the same chunks is not rebuilt: the job of the first repair has the same
  idempotency key and is done (`Requeue`).
* A conversion whose job ends in the dead letter queue leaves its document `uploaded`, and
  a put that arrives after the clean-up job has finished leaves an object that is in the
  checkpoint, but that nobody will look for again.
* `extend_reserved_by_job` revives a reservation that is past its expiry and not yet swept,
  without a new admission. Nothing extends the tokens of an answer: one that takes longer
  than the fifteen minutes of its reservation finds it expired when it settles, and is
  not billed.
* `guard_owner_tier` (`services/members.rs`) reads the caller's role without a lock, so an
  owner who is being demoted may finish one more operation on another owner; that an owner
  remains (`AlwaysAnOwner`) does not rest on it.
* The route that suspends a member (`routes/members.rs`, `patch_member`) changes the
  membership and revokes its sessions in two transactions; when the second fails, the
  caller is told of an error and the member is suspended with tokens that no refresh
  accepts as long as the suspension lasts (`RevokeAllIsLost`).

## 7. Limits

*Only model-checked*: the liveness properties (`EveryJobEnds`, `LeakedSlotsDrain`,
`EveryStreamEnds`), which with fairness and `ENABLED` are out of the prover's reach. Every
invariant and action property that a passing run checks is a theorem. *Only proved*: the type
and inductive invariants of most modules (those of `DocumentsProofs` and `QuotaProofs` were checked
on small instances before they were proved), that a lease has one owner, and the two corollaries
of the contract.

*Abstracted*: payloads, priorities and the order of claims; the tenant
(each model is one organisation, rows of others are invisible through row level
security); an embedding, a chunk and a point set are one batch; how many points
an upsert has applied when it fails (all or none, which a repeated upsert with
the same point ids makes equivalent for these properties); the collection checks of
the upload's registration are one outcome, `CommitFails`; the sandboxed converter and
its OCR are one step; a document has one version, but for `Revisions`, and an index job
without chunks does not occur; the passwords, codes and lockouts of a login are one outcome.

*Left out of a modelled component*: deletion of objects and chunks in a purge; the
drift of objects in a repair; approval of a quarantined upload; archive and restore of
a document; the rollback of a cut-over; plans that
are deployed to some processes before others; changes of a quota's limit; custom roles.

*Not modelled*: the converters, OCR and the knowledge library (sequential functions
over files and text), the desktop application but for its index, the command-line, MCP and web clients, retrieval and
prompts (data), the rate limiter (one mutex), the supervision of sandbox processes, the
telemetry exporter (spans may be lost), HTTP routing and storage clients
(input and output, present as external actions), deployment and vendored code. Most of
the repository's lines are of these kinds.

## 8. Plan

The number of runs and of properties is kept small on purpose, so that all of it can be
repeated at every change of the code; a violation run that has been answered by a fix of
the code makes room.

Proofs: `SeedInv` and `RevInv` together, once the two modules are one.

Modules: the approval of a quarantined upload (two operations of one document);
`Revisions` with the generations of `IndexGenerations`, and with two repairs at once;
`DesktopIndex` with the search that reads the database and the directory in two steps.
