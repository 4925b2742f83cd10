------------------------------ MODULE JobQueue ------------------------------
(***************************************************************************)
(* The durable job queue of the Markhand server: rows of the table `jobs`  *)
(* of one organisation, the workers that lease them, the concurrency slots *)
(* (`quota_reservations` rows of kind concurrent_jobs) that admit a claim, *)
(* and the outbox rows every transition writes.                            *)
(*                                                                         *)
(* Each action is one database transaction (db/pool.rs, with_org_txn_typed *)
(* commits it whole or not at all), or one step of a worker's own memory.  *)
(* What a worker holds is a COPY of the row it claimed: nothing tells it   *)
(* that its lease was reclaimed, cancelled or handed to another worker, so *)
(* every action of a worker re-reads the row through the fence             *)
(* (lease token, attempts, status = leased).                               *)
(*                                                                         *)
(* Time is kept as what is left of each deadline, in whole ticks: Tick     *)
(* lowers them all.  A lease of value 0 expires now, a negative one        *)
(* expired in the past; every later instant behaves alike, so the counters *)
(* stop there and time needs no bound.                                     *)
(***************************************************************************)
EXTENDS Integers, FiniteSets

CONSTANTS
  Jobs,            \* identities (job_type, idempotency_key) of the rows
  Workers,         \* runner loops, each holding at most one claim
  Docs,            \* documents the jobs work on
  Tokens,          \* the random part of lease_owner, and slot keys
  Kind,            \* [Jobs -> Kinds]: the job_type column
  DocOf,           \* [Jobs -> Docs]: the document_id column
  ParentOf,        \* [Jobs -> Jobs \cup {NoJob}]: index job of a batch
  MaxAttempts,     \* the max_attempts column (default 5)
  SlotLimit,       \* org_quotas.max_concurrent_jobs
  LeaseTTL,        \* lease length, in ticks
  MaxDuration,     \* max_job_duration of a worker, in ticks
  ReclaimBackoff,  \* delay of a reclaimed job, in ticks
  LateHeartbeats,  \* may a heartbeat arrive after its lease ran out?
  DryRunMode,      \* do reconcile workers run in ReconcileMode::DryRun?
  NoJob, NoToken, NoWorker

Kinds == {"convert", "index", "embedding_batch", "delete", "reconcile"}

ASSUME ConstantsAssumption ==
  /\ Kind \in [Jobs -> Kinds]
  /\ DocOf \in [Jobs -> Docs]
  /\ ParentOf \in [Jobs -> Jobs \cup {NoJob}]
  /\ NoJob \notin Jobs /\ NoToken \notin Tokens /\ NoWorker \notin Workers
  /\ LateHeartbeats \in BOOLEAN /\ DryRunMode \in BOOLEAN

ASSUME BoundsAssumption ==
  /\ MaxAttempts \in Nat \ {0}
  /\ SlotLimit \in Nat
  /\ LeaseTTL \in Nat \ {0}
  /\ MaxDuration \in Nat \ {0}
  /\ ReclaimBackoff \in Nat

\* A batch job belongs to an index job of the same document.
ASSUME FamilyAssumption ==
  \A j \in Jobs : Kind[j] = "embedding_batch" =>
     /\ ParentOf[j] \in Jobs
     /\ Kind[ParentOf[j]] = "index"
     /\ DocOf[ParentOf[j]] = DocOf[j]

VARIABLES
  job,        \* [Jobs -> row of the jobs table]
  slots,      \* the quota_reservations rows still in status 'reserved'
  worker,     \* [Workers -> the claim a worker carries in memory]
  doc,        \* [Docs -> how far the deletion of the document went]
  outbox,     \* keys of the outbox_events rows written
  swallowed,  \* events logged whose outbox insert hit an existing key
  finishedBy  \* history: the worker whose transaction ended a job

vars == <<job, slots, worker, doc, outbox, swallowed, finishedBy>>

-----------------------------------------------------------------------------
(* Rows and keys.                                                          *)

Ended    == {"succeeded", "cancelled", "dead_letter"}
Statuses == {"absent", "pending", "leased"} \cup Ended

Absent  == [status |-> "absent", attempts |-> 0, token |-> NoToken,
            lease |-> 0, wait |-> 0]
NoClaim == [job |-> NoJob, token |-> NoToken, attempts |-> 0, left |-> 0]

EventTypes == {"job.enqueued", "job.succeeded", "job.cancelled",
               "job.dead_lettered", "job.retry_scheduled", "job.reclaimed"}

\* jobs/mod.rs transition_key: one outbox key per type, job and attempt.
TransitionKey(type, j, attempts) ==
  [type |-> type, job |-> j, attempts |-> attempts]

\* Every transition appends to event_log; the outbox row is inserted
\* ON CONFLICT DO NOTHING, so a key used before swallows it.
WriteEvents(keys) ==
  /\ outbox' = outbox \cup keys
  /\ swallowed' = swallowed \cup (keys \cap outbox)

NoEvents == UNCHANGED <<outbox, swallowed>>

\* backoff_for_attempt: 1 << min(attempts - 1, 8), in ticks.
BackoffTable == <<1, 2, 4, 8, 16, 32, 64, 128, 256>>
BackoffForAttempt(attempts) ==
  BackoffTable[IF attempts < 9 THEN (IF attempts < 1 THEN 1 ELSE attempts)
                               ELSE 9]

-----------------------------------------------------------------------------
(* The fence, tokens and slots.                                            *)

\* The WHERE clause of every *_owned statement and of heartbeat.
Owns(w, j) ==
  /\ worker[w].job = j
  /\ job[j].status = "leased"
  /\ job[j].token = worker[w].token
  /\ job[j].attempts = worker[w].attempts

\* gen_random_uuid(): a token differs from every token still referred to.
InUse == {job[j].token : j \in Jobs} \cup {worker[w].token : w \in Workers}
           \cup {s.key : s \in slots}
FreshToken == CHOOSE t \in Tokens : t \notin InUse

\* active_reserved: reserved rows with expires_at > now.
ActiveSlots == {s \in slots : s.left > 0}

\* lock_and_available_job_slots: remaining(limit, 0, active) > 0.
SlotAvailable == Cardinality(ActiveSlots) < SlotLimit

\* Mutant: only rows that have not expired are refunded.
SlotsWithoutActive(gone) == {s \in slots : s.job \notin gone \/ s.left = 0}

\* release_job_slot: every reserved row of the job, expired ones included.
SlotsWithout(gone) == {s \in slots : s.job \notin gone}

\* Mutant: a heartbeat renews the lease alone.
UnextendedSlots(j) == slots

\* extend_reserved_by_job: the slot lives as long as the lease.
ExtendedSlots(j) ==
  {IF s.job = j THEN [s EXCEPT !.left = LeaseTTL] ELSE s : s \in slots}

Writers(d) == {j \in Jobs : DocOf[j] = d /\ Kind[j] \in {"index", "embedding_batch"}}

\* Mutant: writers that have ended are cancelled as well.
EveryWriter(d) == Writers(d)

\* cancel_active_writer_jobs: the rows a document's deletion cancels.
ActiveWriters(d) == {j \in Writers(d) : job[j].status \in {"pending", "leased"}}

\* Mutant: the batches are left alone.
JobAlone(j) == {j}

\* cancel_embedding_children: a job and the live batches it staged.
Family(j) == {j} \cup {c \in Jobs :
  /\ Kind[c] = "embedding_batch" /\ ParentOf[c] = j
  /\ job[c].status \in {"pending", "leased"}}

\* A row off its lease for good, back in the queue, and put under a lease.
Cleared(row, status) ==
  [status |-> status, attempts |-> row.attempts, token |-> NoToken,
   lease |-> 0, wait |-> row.wait]

Requeued(attempts, delay) ==
  [status |-> "pending", attempts |-> attempts, token |-> NoToken,
   lease |-> 0, wait |-> delay]

Leased(row, token) ==
  [status |-> "leased", attempts |-> row.attempts + 1, token |-> token,
   lease |-> LeaseTTL, wait |-> row.wait]

\* GREATEST(attempts - 1, 0), and a mutant that starts the count afresh.
ResetAttempts(attempts) == 0
RestoredAttempts(attempts) == IF attempts > 0 THEN attempts - 1 ELSE 0

\* Mutant: an attempt that failed costs nothing.
RetiredForFree(row, delay) == Requeued(RestoredAttempts(row.attempts), delay)

\* A failed or reclaimed job goes back to the queue while attempts remain.
Retired(row, delay) ==
  IF row.attempts < MaxAttempts
  THEN Requeued(row.attempts, delay)
  ELSE Cleared(row, "dead_letter")

Drop(w) == worker' = [worker EXCEPT ![w] = NoClaim]

\* The reply of a commit reaches the worker, unless its deadline cuts the
\* call off: the transaction holds and the worker still carries the claim.
Acknowledged(w) ==
  \/ Drop(w)
  \/ worker[w].left = 0 /\ UNCHANGED worker

-----------------------------------------------------------------------------
Init ==
  /\ job = [j \in Jobs |-> Absent]
  /\ slots = {}
  /\ worker = [w \in Workers |-> NoClaim]
  /\ doc = [d \in Docs |-> "live"]
  /\ outbox = {}
  /\ swallowed = {}
  /\ finishedBy = [j \in Jobs |-> NoWorker]

-----------------------------------------------------------------------------
(* Producers.                                                              *)

Insert(j) ==
  /\ job[j].status = "absent"
  /\ job' = [job EXCEPT ![j].status = "pending"]
  /\ WriteEvents({TransitionKey("job.enqueued", j, 0)})
  /\ UNCHANGED <<slots, worker, doc, finishedBy>>

\* enqueue / enqueue_within_txn.  A second call with the same idempotency
\* key returns the existing row and writes nothing.  The outbox sink asks
\* for a delete job only once the document is tombstoned.
Enqueue(j) ==
  /\ Kind[j] # "embedding_batch"
  /\ Kind[j] = "delete" => doc[DocOf[j]] # "live"
  /\ Insert(j)

\* persist_chunk_batch: the claimed index job stages one embedding batch.
StageBatch(w, j) ==
  /\ Kind[j] = "embedding_batch"
  /\ Owns(w, ParentOf[j])
  /\ doc[DocOf[j]] = "live"
  /\ Insert(j)

-----------------------------------------------------------------------------
(* Workers.                                                                *)

\* claim / claim_type / claim_reconcile: admission, lease and slot in one
\* transaction.  The order among due jobs is left open: SKIP LOCKED already
\* lets a claim pass over rows another transaction holds.
Claim(w, j) ==
  /\ worker[w] = NoClaim
  /\ job[j].status = "pending" /\ job[j].wait = 0
  /\ SlotAvailable
  /\ Tokens \ InUse # {}
  /\ job' = [job EXCEPT ![j] = Leased(@, FreshToken)]
  /\ worker' = [worker EXCEPT ![w] =
        [job |-> j, token |-> FreshToken,
         attempts |-> job[j].attempts + 1, left |-> MaxDuration]]
  /\ slots' = slots \cup {[job |-> j, key |-> FreshToken, left |-> LeaseTTL]}
  /\ NoEvents /\ UNCHANGED <<doc, finishedBy>>

\* heartbeat: the fence looks at the token, never at lease_expires_at, so a
\* late one revives a lease nobody has reclaimed yet.  The slot is extended
\* only if it is still reserved.  heartbeat_while_claimed stops at its
\* deadline.
Heartbeat(w) == \E j \in Jobs :
  /\ Owns(w, j) /\ worker[w].left > 0
  /\ LateHeartbeats \/ job[j].lease > 0
  /\ job' = [job EXCEPT ![j].lease = LeaseTTL]
  /\ slots' = ExtendedSlots(j)
  /\ NoEvents /\ UNCHANGED <<worker, doc, finishedBy>>

\* LeaseLost: a fenced statement found no row; the work is thrown away.
LeaseLost(w) ==
  /\ worker[w].job # NoJob
  /\ ~Owns(w, worker[w].job)
  /\ Drop(w)
  /\ NoEvents /\ UNCHANGED <<job, slots, doc, finishedBy>>

\* The process dies, or an error path returns without touching the row.
Crash(w) ==
  /\ worker[w].job # NoJob
  /\ Drop(w)
  /\ NoEvents /\ UNCHANGED <<job, slots, doc, finishedBy>>

\* What the completions share: the row succeeds, the event is written.
Succeed(w, j) ==
  /\ Owns(w, j)
  /\ finishedBy' = [finishedBy EXCEPT ![j] = w]
  /\ WriteEvents({TransitionKey("job.succeeded", j, job[j].attempts)})

\* jobs::complete, complete_within_txn and promotion: the slot is refunded.
Complete(w) == \E j \in Jobs :
  /\ Succeed(w, j)
  /\ Kind[j] = "embedding_batch" => doc[DocOf[j]] = "live"
  /\ Kind[j] = "delete" => doc[DocOf[j]] = "purged"
  /\ Kind[j] = "reconcile" => ~DryRunMode
  /\ job' = [job EXCEPT ![j] = Cleared(@, "succeeded")]
  /\ slots' = SlotsWithout({j})
  /\ IF Kind[j] = "reconcile" THEN Drop(w) ELSE Acknowledged(w)
  /\ UNCHANGED doc

\* indexing::finalize_indexed: repo::complete_owned, no release_job_slot.
FinalizeIndexed(w) == \E j \in Jobs :
  /\ Succeed(w, j)
  /\ Kind[j] = "index" /\ doc[DocOf[j]] = "live"
  /\ job' = [job EXCEPT ![j] = Cleared(@, "succeeded")]
  /\ Acknowledged(w)
  /\ UNCHANGED <<slots, doc>>

\* deletion::finalize_purged: cancels the writers left, completes its own
\* job through the repo layer; neither refunds a slot.
FinalizePurged(w) == \E j \in Jobs :
  /\ Succeed(w, j)
  /\ Kind[j] = "delete" /\ doc[DocOf[j]] = "tombstoned"
  /\ doc' = [doc EXCEPT ![DocOf[j]] = "purged"]
  /\ job' = [i \in Jobs |->
               IF i = j THEN Cleared(job[i], "succeeded")
               ELSE IF i \in ActiveWriters(DocOf[j]) THEN Cleared(job[i], "cancelled")
               ELSE job[i]]
  /\ Acknowledged(w)
  /\ UNCHANGED slots

\* fail_within_txn: back to the queue after a delay, or dead-lettered.
Fail(w) == \E j \in Jobs :
  /\ Owns(w, j)
  /\ LET row == Retired(job[j], BackoffForAttempt(job[j].attempts))
         type == IF row.status = "pending" THEN "job.retry_scheduled"
                                           ELSE "job.dead_lettered"
     IN  /\ job' = [job EXCEPT ![j] = row]
         /\ WriteEvents({TransitionKey(type, j, row.attempts)})
         /\ finishedBy' = IF row.status = "pending" THEN finishedBy
                          ELSE [finishedBy EXCEPT ![j] = w]
  /\ slots' = SlotsWithout({j})
  /\ Drop(w)
  /\ UNCHANGED doc

\* release_dry_run: the attempt is given back and no event is written.
ReleaseDryRun(w) == \E j \in Jobs :
  /\ Owns(w, j)
  /\ Kind[j] = "reconcile" /\ DryRunMode
  /\ job' = [job EXCEPT ![j] = Requeued(RestoredAttempts(@.attempts), 0)]
  /\ slots' = SlotsWithout({j})
  /\ Drop(w)
  /\ NoEvents /\ UNCHANGED <<doc, finishedBy>>

\* At its deadline a worker fails its job, or finds the lease gone, or the
\* call itself fails and it gives up.
TimeOut(w) ==
  /\ worker[w].left = 0
  /\ Fail(w) \/ LeaseLost(w) \/ Crash(w)

-----------------------------------------------------------------------------
(* Everybody else: reclaim, cancellation, quota maintenance and time.      *)

\* reclaim_expired over the expired rows it could lock.
Reclaim(gone) ==
  /\ gone # {}
  /\ \A j \in gone : job[j].status = "leased" /\ job[j].lease < 0
  /\ job' = [j \in Jobs |->
               IF j \in gone THEN Retired(job[j], ReclaimBackoff) ELSE job[j]]
  /\ slots' = SlotsWithout(gone)
  /\ WriteEvents({TransitionKey(
         IF job[j].attempts < MaxAttempts THEN "job.reclaimed"
                                          ELSE "job.dead_lettered",
         j, job[j].attempts) : j \in gone})
  /\ UNCHANGED <<worker, doc, finishedBy>>

\* jobs::cancel by an administrator: token-free, takes the batches along.
CancelJob(j) ==
  /\ job[j].status \in {"pending", "leased"}
  /\ LET gone == Family(j)
     IN  /\ job' = [i \in Jobs |->
                      IF i \in gone THEN Cleared(job[i], "cancelled") ELSE job[i]]
         /\ slots' = SlotsWithout(gone)
         /\ WriteEvents({TransitionKey("job.cancelled", i, job[i].attempts) : i \in gone})
  /\ UNCHANGED <<worker, doc, finishedBy>>

\* cancel_active_writer_jobs: no event and no slot released.
CancelWriters(d) ==
  job' = [j \in Jobs |->
            IF j \in ActiveWriters(d) THEN Cleared(job[j], "cancelled") ELSE job[j]]

\* deletion::request_delete, for a document whose writers are jobs of a backfill: while
\* the document itself is converted or indexing, the compensation of a cancelled
\* writer makes the request roll back (see VectorFence and IndexGenerations).
RequestDelete(d) ==
  /\ doc[d] = "live"
  /\ doc' = [doc EXCEPT ![d] = "tombstoned"]
  /\ CancelWriters(d)
  /\ NoEvents /\ UNCHANGED <<slots, worker, finishedBy>>

\* drain_vector_cleanup_intents (purge) and drain_pending_vector_intents
\* (repair): an intent found in 'writing' cancels the document's writers.
\* Neither checks that the draining job is still leased.
DrainIntents(w) == \E j \in Jobs :
  /\ worker[w].job = j
  /\ \/ Kind[j] = "delete" /\ doc[DocOf[j]] = "tombstoned"
     \/ Kind[j] = "reconcile" /\ ~DryRunMode
  /\ ActiveWriters(DocOf[j]) # {}
  /\ CancelWriters(DocOf[j])
  /\ NoEvents /\ UNCHANGED <<slots, worker, doc, finishedBy>>

\* Mutant: the sweep skips slots whose job is over.
ExpireReservedOfLeased(batch) ==
  /\ batch # {}
  /\ \A s \in batch : s.left = 0 /\ job[s.job].status = "leased"
  /\ slots' = slots \ batch
  /\ NoEvents /\ UNCHANGED <<job, worker, doc, finishedBy>>

\* sweep_expired_all_orgs: a batch of reserved rows with expires_at <= now.
ExpireReserved(batch) ==
  /\ batch # {}
  /\ \A s \in batch : s.left = 0
  /\ slots' = slots \ batch
  /\ NoEvents /\ UNCHANGED <<job, worker, doc, finishedBy>>

\* reconcile_org, refund_orphaned_job_slots: slots whose job is not leased.
RefundOrphanedSlots ==
  /\ \E s \in slots : job[s.job].status # "leased"
  /\ slots' = {s \in slots : job[s.job].status = "leased"}
  /\ NoEvents /\ UNCHANGED <<job, worker, doc, finishedBy>>

Lower(n) == IF n > 0 THEN n - 1 ELSE 0

Aged(row) ==
  [status |-> row.status, attempts |-> row.attempts, token |-> row.token,
   lease |-> IF row.status = "leased" /\ row.lease > -1
             THEN row.lease - 1 ELSE row.lease,
   wait |-> Lower(row.wait)]

Tick ==
  /\ job' = [j \in Jobs |-> Aged(job[j])]
  /\ slots' = {[s EXCEPT !.left = Lower(@)] : s \in slots}
  /\ worker' = [w \in Workers |-> [worker[w] EXCEPT !.left = Lower(@)]]
  /\ NoEvents /\ UNCHANGED <<doc, finishedBy>>

-----------------------------------------------------------------------------
WorkerStep(w) ==
  \/ \E j \in Jobs : StageBatch(w, j)
  \/ \E j \in Jobs : Claim(w, j)
  \/ Heartbeat(w)
  \/ LeaseLost(w)
  \/ Crash(w)
  \/ Complete(w)
  \/ FinalizeIndexed(w)
  \/ FinalizePurged(w)
  \/ Fail(w)
  \/ ReleaseDryRun(w)
  \/ DrainIntents(w)

Next ==
  \/ \E j \in Jobs : Enqueue(j)
  \/ \E w \in Workers : WorkerStep(w)
  \/ \E gone \in SUBSET Jobs : Reclaim(gone)
  \/ \E j \in Jobs : CancelJob(j)
  \/ \E d \in Docs : RequestDelete(d)
  \/ \E batch \in SUBSET slots : ExpireReserved(batch)
  \/ RefundOrphanedSlots
  \/ Tick

Spec == Init /\ [][Next]_vars

\* Every worker cycle claims and reclaims; a worker's deadline is a timer of
\* the runtime; the API process runs the quota sweep.  A worker's own success
\* is never assumed.
Fairness ==
  /\ WF_vars(Tick)
  /\ \A j \in Jobs : WF_vars(\E w \in Workers : Claim(w, j))
  /\ \A j \in Jobs : WF_vars(Reclaim({j}))
  /\ \A w \in Workers : WF_vars(TimeOut(w))
  /\ WF_vars(ExpireReserved({s \in slots : s.left = 0}))

FairSpec == Spec /\ Fairness

-----------------------------------------------------------------------------
(* Properties.                                                             *)

Rows == [status : Statuses, attempts : 0..MaxAttempts, token : Tokens \cup {NoToken},
         lease : -1..LeaseTTL, wait : Nat]
Slots  == [job : Jobs, key : Tokens, left : 0..LeaseTTL]
Claims == [job : Jobs, token : Tokens, attempts : 1..MaxAttempts, left : 0..MaxDuration]

\* Types.  The bound on attempts is not a typing matter in the code: no
\* claim looks at max_attempts, so it rests on every way back to the queue.
TypeOK ==
  /\ job \in [Jobs -> Rows]
  /\ slots \subseteq Slots
  /\ worker \in [Workers -> Claims \cup {NoClaim}]
  /\ doc \in [Docs -> {"live", "tombstoned", "purged"}]
  /\ outbox \subseteq [type : EventTypes, job : Jobs, attempts : 0..MaxAttempts]
  /\ swallowed \subseteq outbox
  /\ finishedBy \in [Jobs -> Workers \cup {NoWorker}]

\* A lease has one owner: no two workers pass the fence of the same job,
\* whatever claims they still carry from before a reclaim.
OneOwner ==
  \A v, w \in Workers : \A j \in Jobs : Owns(v, j) /\ Owns(w, j) => v = w

\* No job is counted twice against the organisation's concurrency limit:
\* it holds at most one reserved slot, and none while it waits in the queue.
\* Each attempt must have given back its slot before the next one reserves.
SlotsMatchLeases ==
  /\ \A s, t \in slots : s.job = t.job => s = t
  /\ \A s \in slots : job[s.job].status = "leased" => job[s.job].token = s.key
  /\ \A s \in slots : job[s.job].status \notin {"absent", "pending"}

\* Every event_log row of a transition has an outbox row of its own: no two
\* transitions of a job ever share a key, although a dry run gives the
\* attempt number back and the insert ignores a key already there.
NoEventSwallowed == swallowed = {}

\* An index job that was cancelled leaves no batch of its own behind that a
\* worker could still claim or run.
CancelledIndexHasNoLiveBatch ==
  \A j \in Jobs :
    Kind[j] = "embedding_batch" /\ job[j].status \in {"pending", "leased"}
      => job[ParentOf[j]].status # "cancelled"

\* While a lease is alive its job holds a slot that is alive as long: the
\* limit counts every job that is running.
LiveLeaseHoldsSlot ==
  \A j \in Jobs :
    job[j].status = "leased" /\ job[j].lease > 0 =>
      \E s \in slots : s.job = j /\ s.left = job[j].lease

\* Every job that is accepted ends, although any worker may crash, hang or
\* be cut off at any time: attempts run out, leases are reclaimed.
EveryJobEnds ==
  \A j \in Jobs : job[j].status = "pending" ~> job[j].status \in Ended

\* A slot that outlived its job is given back.
LeakedSlotsDrain ==
  \A j \in Jobs :
    (\E s \in slots : s.job = j /\ job[j].status \in Ended)
      ~> ~ \E s \in slots : s.job = j

\* What the invariants above rest on, and is preserved by every step.
\* A token is on a row exactly while it is leased, and no two rows or
\* workers share one; the queue never holds a job without attempts left.
RowInv == \A j \in Jobs :
  /\ job[j].status = "leased" <=> job[j].token # NoToken
  /\ job[j].status = "leased" => job[j].attempts >= 1
  /\ job[j].status = "pending" => job[j].attempts < MaxAttempts
  /\ job[j].status = "absent" => job[j].attempts = 0

TokenInv ==
  /\ \A i, j \in Jobs : job[i].token = job[j].token /\ job[i].token # NoToken => i = j
  /\ \A v, w \in Workers :
       worker[v].token = worker[w].token /\ worker[v].token # NoToken => v = w

\* A key in the outbox lies behind its job: an ended job has had its last
\* event, and no attempt number whose retry was announced comes back.
Behind(k, row) ==
  /\ row.status # "absent"
  /\ k.type \in {"job.succeeded", "job.cancelled", "job.dead_lettered"}
       => row.status \in Ended
  /\ k.type \in {"job.retry_scheduled", "job.reclaimed"}
       => /\ k.attempts =< row.attempts
          /\ row.status = "leased" => k.attempts < row.attempts

OutboxInv == \A k \in outbox : Behind(k, job[k.job])

IInv ==
  /\ TypeOK
  /\ RowInv
  /\ TokenInv
  /\ SlotsMatchLeases
  /\ OutboxInv
  /\ NoEventSwallowed

\* The contract, with the worker that passes the fence as the holder.
Phase(j) == CASE job[j].status = "absent" -> "none"
              [] job[j].status = "pending" -> "queued"
              [] job[j].status = "leased" -> "granted"
              [] OTHER -> job[j].status
Holder(j) == IF \E w \in Workers : Owns(w, j)
             THEN CHOOSE w \in Workers : Owns(w, j) ELSE NoWorker

Contract == INSTANCE JobContract WITH
  promise <- [j \in Jobs |-> [phase |-> Phase(j), holder |-> Holder(j),
                              spent |-> job[j].attempts, by |-> finishedBy[j]]]

\* The queue implements the contract: one holder at a time, only the holder
\* finishes, the attempt budget holds and an ended job stays ended.
HonoursContract == Contract!Spec
=============================================================================
