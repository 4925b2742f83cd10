----------------------------- MODULE VectorFence -----------------------------
(***************************************************************************)
(* How the vectors of one document are kept in step with its deletion.     *)
(*                                                                         *)
(* An embedding worker writes the points of a batch to Qdrant, which takes *)
(* no part in PostgreSQL's transactions.  A row of vector_cleanup_intents  *)
(* announces the write before it is made; the purge and the repair of a    *)
(* document drain the open intents and delete their points.  The two meet  *)
(* at the document's advisory lock, which is held across the external call *)
(* (with_vector_mutation_lock).                                            *)
(*                                                                         *)
(* Each action is one transaction or one external call.  What a            *)
(* transaction has written but not committed is not in the variables: a    *)
(* writer's `writing` shows only when it commits, and a rollback leaves    *)
(* nothing to undo.  Row locks are the guard RowFree.                      *)
(***************************************************************************)
EXTENDS Naturals, FiniteSets

CONSTANTS
  Batches,      \* the embedding batches of the document, one job each
  Writers,      \* embedding workers
  Cleaners,     \* workers that purge or repair
  MaxAttempts,  \* max_attempts of the embedding jobs
  LateUpserts,  \* bound: batches with an upsert Qdrant may apply after its caller gave up
  Repairs,      \* do repair workers (ReconcileMode::Repair) run?
  DrainFaults,  \* may a repair's drain roll back after deleting points?
  NoOne

ASSUME Assumption ==
  /\ MaxAttempts \in Nat \ {0} /\ LateUpserts \in Nat
  /\ {Repairs, DrainFaults} \subseteq BOOLEAN
  /\ NoOne \notin Writers \cup Cleaners \cup Batches
  /\ Writers \cap Cleaners = {}

VARIABLES
  doc,      \* documents.state
  job,      \* [Batches -> status and attempts of the batch's job]
  batch,    \* [Batches -> embedding_batches.status]
  intent,   \* [Batches -> vector_cleanup_intents.status]
  points,   \* batches whose points are in Qdrant
  late,     \* [Batches -> the upsert whose caller is gone: flying, or applied late]
  lock,     \* holder of the document's advisory lock
  purger,   \* cleaner that holds the lease of the delete job
  writer,   \* [Writers -> the batch in hand and how far it got]
  cleaner   \* [Cleaners -> what it is cleaning and how far it got]

vars == <<doc, job, batch, intent, points, late, lock, purger, writer, cleaner>>

-----------------------------------------------------------------------------
Open    == {"pending", "writing"}
Active  == {"pending", "leased"}
Deleted == {"tombstoned", "purged"}
Resting == [step |-> "idle", batch |-> NoOne, attempt |-> 0]
Away    == [step |-> "idle", seen |-> {}, open |-> {}]

\* The fence of the job queue.  Embedding jobs never get an attempt back, so
\* the number of the attempt stands for the lease token.
Owns(w) ==
  /\ writer[w].batch \in Batches
  /\ job[writer[w].batch] = [status |-> "leased", attempts |-> writer[w].attempt]

\* No open transaction holds the row of b's intent: neither a writer between
\* begin_write and its commit, nor a drain that listed it FOR UPDATE.
RowFree(b) ==
  /\ lock \in Writers => writer[lock].batch # b
  /\ lock \in Cleaners => b \notin cleaner[lock].open

GoTo(w, step) == writer' = [writer EXCEPT ![w].step = step]
Rest(w)       == writer' = [writer EXCEPT ![w] = Resting]

\* Mutant: the lock is not shared by writers and cleaners.
NobodyWaits == TRUE
\* pg_advisory_xact_lock("vector-mutation:org:document") is granted.
LockFree == lock = NoOne

ActiveWriters == {b \in Batches : job[b].status \in Active}
CancelWriters ==
  job' = [b \in Batches |->
            IF b \in ActiveWriters THEN [job[b] EXCEPT !.status = "cancelled"] ELSE job[b]]

\* handle_terminal_index_job: the batches fail, and a document that was
\* still being indexed fails with them.
FailBatches(gone) ==
  batch' = [b \in Batches |->
              IF b \in gone /\ batch[b] # "succeeded" THEN "failed" ELSE batch[b]]

\* Mutant: the document is forgotten.
RetireJobAlone(b) ==
  LET dead == job[b].attempts >= MaxAttempts
  IN  /\ job' = [job EXCEPT ![b].status = IF dead THEN "dead_letter" ELSE "pending"]
      /\ UNCHANGED <<batch, doc>>

\* A failed or reclaimed embedding job.
Retire(b) ==
  LET dead == job[b].attempts >= MaxAttempts
  IN  /\ job' = [job EXCEPT ![b].status = IF dead THEN "dead_letter" ELSE "pending"]
      /\ FailBatches(IF dead THEN {b} ELSE {})
      /\ doc' = IF dead /\ doc = "indexing" THEN "failed" ELSE doc

-----------------------------------------------------------------------------
(* The transitions of an intent (apply_intent_event and the CAS statements *)
(* that mirror it).                                                        *)

\* upsert_pending: what it leaves in the row, and when it refuses.
UpsertedIntent(status) == IF status = "none" THEN "pending" ELSE status

UpsertAllowed(status) == status \in {"none", "pending", "writing"}

\* Mutant: begin_write does not look at the status.
MayBeginWriteAlways(status) == TRUE
\* cas_begin_write and require_writing_for_upsert.
MayBeginWrite(status) == status = "pending"

-----------------------------------------------------------------------------
Init ==
  /\ doc = "indexing"
  /\ job = [b \in Batches |-> [status |-> "pending", attempts |-> 0]]
  /\ batch = [b \in Batches |-> "pending"]
  /\ intent = [b \in Batches |-> "none"]
  /\ points = {} /\ late = [b \in Batches |-> "none"]
  /\ lock = NoOne /\ purger = NoOne
  /\ writer = [w \in Writers |-> Resting]
  /\ cleaner = [c \in Cleaners |-> Away]

-----------------------------------------------------------------------------
(* The embedding worker.                                                   *)

Claim(w, b) ==
  /\ writer[w] = Resting
  /\ job[b].status = "pending"
  /\ job' = [job EXCEPT ![b] = [status |-> "leased", attempts |-> @.attempts + 1]]
  /\ writer' = [writer EXCEPT ![w] =
        [step |-> "claimed", batch |-> b, attempt |-> job[b].attempts + 1]]
  /\ UNCHANGED <<doc, batch, intent, points, late, lock, purger, cleaner>>

\* load_lifecycle_fence_with_write_intent.  load_batch_source asked the same
\* of batch and document before the embedding was computed.
RecordIntent(w) ==
  LET b == writer[w].batch
  IN  /\ writer[w].step = "claimed"
      /\ RowFree(b)
      /\ IF Owns(w) /\ batch[b] = "pending" /\ doc \notin Deleted
              /\ UpsertAllowed(intent[b])
         THEN /\ intent' = [intent EXCEPT ![b] = UpsertedIntent(@)]
              /\ GoTo(w, "intended")
         ELSE GoTo(w, "failing") /\ UNCHANGED intent
      /\ UNCHANGED <<doc, job, batch, points, late, lock, purger, cleaner>>

\* The advisory lock, then begin_write; the request leaves for Qdrant.
\* Neither the lease nor the document is looked at again.
BeginWrite(w) ==
  /\ writer[w].step = "intended"
  /\ LockFree
  /\ IF MayBeginWrite(intent[writer[w].batch])
     THEN lock' = w /\ GoTo(w, "upserting")
     ELSE GoTo(w, "failing") /\ UNCHANGED lock
  /\ UNCHANGED <<doc, job, batch, intent, points, late, purger, cleaner>>

\* Qdrant applies the upsert.
Upsert(w) ==
  /\ writer[w].step = "upserting"
  /\ points' = points \cup {writer[w].batch}
  /\ GoTo(w, "upserted")
  /\ UNCHANGED <<doc, job, batch, intent, late, lock, purger, cleaner>>

\* The answer arrives and the transaction commits.
CommitWrite(w) ==
  /\ writer[w].step = "upserted"
  /\ intent' = [intent EXCEPT ![writer[w].batch] = "writing"]
  /\ lock' = NoOne
  /\ GoTo(w, "written")
  /\ UNCHANGED <<doc, job, batch, points, late, purger, cleaner>>

MayBeLate(b) == Cardinality({c \in Batches \ {b} : late[c] # "none"}) < LateUpserts

\* The upsert fails, times out after two seconds, is dropped with its task
\* when the heartbeat finds the lease gone, or dies with the process: the
\* transaction rolls back and the lock is free, but the request may be out.
Abandon(w) ==
  /\ writer[w].step \in {"upserting", "upserted"}
  /\ lock' = NoOne
  /\ late' = IF writer[w].step = "upserting" /\ MayBeLate(writer[w].batch)
             THEN [late EXCEPT ![writer[w].batch] = "flying"] ELSE late
  /\ Rest(w) \/ GoTo(w, "failing")
  /\ UNCHANGED <<doc, job, batch, intent, points, purger, cleaner>>

\* What complete_batch asks before it commits.
Completable(w) ==
  /\ doc \notin Deleted
  /\ Owns(w)
  /\ intent[writer[w].batch] = "writing"

\* Mutant: the last batch to finish is not waited for.
NoneWaitedFor(b) == TRUE
\* document_batches_complete, once b is counted as succeeded.
OthersSucceeded(b) == \A a \in Batches \ {b} : batch[a] = "succeeded"

\* complete_batch: the job, the batch, the intent and the document move
\* together.
CompleteBatch(w) ==
  LET b == writer[w].batch
  IN  /\ writer[w].step = "written"
      /\ RowFree(b)
      /\ Completable(w)
      /\ job' = [job EXCEPT ![b].status = "succeeded"]
      /\ batch' = [batch EXCEPT ![b] = "succeeded"]
      /\ intent' = [intent EXCEPT ![b] = "committed"]
      /\ doc' = IF doc = "indexing" /\ OthersSucceeded(b)
                THEN "indexed" ELSE doc
      /\ Rest(w)
      /\ UNCHANGED <<points, late, lock, purger, cleaner>>

\* complete_batch rolls back.  The points are taken out again when the
\* document is gone or a drain was first; otherwise the job just fails.
CompletionRefused(w) ==
  LET b == writer[w].batch
  IN  /\ writer[w].step = "written"
      /\ RowFree(b)
      /\ ~Completable(w)
      /\ GoTo(w, IF doc \in Deleted THEN "compensating"
                 ELSE IF ~Owns(w) THEN "lost"
                 ELSE IF intent[b] = "cleaned" THEN "compensating" ELSE "failing")
      /\ UNCHANGED <<doc, job, batch, intent, points, late, lock, purger, cleaner>>

\* document_is_deleted, asked after the lease was found lost.
CheckDeleted(w) ==
  /\ writer[w].step = "lost"
  /\ IF doc \in Deleted THEN GoTo(w, "compensating") ELSE Rest(w)
  /\ UNCHANGED <<doc, job, batch, intent, points, late, lock, purger, cleaner>>

\* Mutant: the intent is cleared although the points could not be deleted.
CompensateInAnyCase(w) ==
  /\ writer[w].step = "compensating"
  /\ points' = points \ {writer[w].batch} \/ UNCHANGED points
  /\ GoTo(w, "clearing")
  /\ UNCHANGED <<doc, job, batch, intent, late, lock, purger, cleaner>>

\* compensate_batch_points; when it fails a repair is requested.
Compensate(w) ==
  /\ writer[w].step = "compensating"
  /\ \/ points' = points \ {writer[w].batch} /\ GoTo(w, "clearing")
     \/ GoTo(w, "failing") /\ UNCHANGED points
  /\ UNCHANGED <<doc, job, batch, intent, late, lock, purger, cleaner>>

\* clear_vector_write_intent.
ClearIntent(w) ==
  LET b == writer[w].batch
  IN  /\ writer[w].step = "clearing"
      /\ RowFree(b)
      /\ intent' = [intent EXCEPT ![b] = IF @ \in Open THEN "cleaned" ELSE @]
      /\ GoTo(w, "failing")
      /\ UNCHANGED <<doc, job, batch, points, late, lock, purger, cleaner>>

\* fail_claimed: through the fence, or the lease turns out to be lost.
FailClaimed(w) ==
  /\ writer[w].step = "failing"
  /\ IF Owns(w) THEN Retire(writer[w].batch) ELSE UNCHANGED <<doc, job, batch>>
  /\ Rest(w)
  /\ UNCHANGED <<intent, points, late, lock, purger, cleaner>>

\* Outside the locked section: an error turns into a failure, or the
\* process dies.
GiveUp(w) ==
  /\ writer[w].step \notin {"idle", "upserting", "upserted"}
  /\ Rest(w) \/ GoTo(w, "failing")
  /\ UNCHANGED <<doc, job, batch, intent, points, late, lock, purger, cleaner>>

-----------------------------------------------------------------------------
(* The queue, Qdrant and the user.                                         *)

\* reclaim_expired, at any time: the lease of a slow worker runs out.
Reclaim(b) ==
  /\ job[b].status = "leased"
  /\ Retire(b)
  /\ UNCHANGED <<intent, points, late, lock, purger, writer, cleaner>>

\* An abandoned upsert is applied at any time later, or never.
LateUpsert(b) ==
  /\ late[b] = "flying"
  /\ late' = [late EXCEPT ![b] = "applied"]
  /\ points' = points \cup {b}
  /\ UNCHANGED <<doc, job, batch, intent, lock, purger, writer, cleaner>>

\* deletion::request_delete.  While the document is being indexed its compensation for
\* a cancelled job moves it to failed, and the tombstone, which expects the state it
\* read before, rolls the request back.
RequestDelete ==
  /\ doc \notin Deleted
  /\ doc = "indexing" => ActiveWriters = {}
  /\ doc' = "tombstoned"
  /\ CancelWriters /\ FailBatches(ActiveWriters)
  /\ UNCHANGED <<intent, points, late, lock, purger, writer, cleaner>>

-----------------------------------------------------------------------------
(* Purge and repair.                                                       *)

Proceed(c, step) == cleaner' = [cleaner EXCEPT ![c].step = step]
Advance(c, step, open) ==
  cleaner' = [cleaner EXCEPT ![c] = [step |-> step, seen |-> @.seen, open |-> open]]

\* purge_document on a tombstoned document.  The delete job may have been
\* taken from a cleaner that is still at work.
StartPurge(c) ==
  /\ cleaner[c] = Away
  /\ doc = "tombstoned"
  /\ purger' = c
  /\ Proceed(c, "sweep")
  /\ UNCHANGED <<doc, job, batch, intent, points, late, lock, writer>>

\* delete_qdrant_points, before the drain (unless a checkpoint says that it
\* was done) and again after it.
Sweep(c) ==
  /\ \/ cleaner[c].step = "sweep" /\ Proceed(c, "drain")
     \/ cleaner[c].step = "resweep" /\ Proceed(c, "finalize")
  /\ points' = {}
  /\ UNCHANGED <<doc, job, batch, intent, late, lock, purger, writer>>

SkipSweep(c) ==
  /\ cleaner[c].step = "sweep" /\ Proceed(c, "drain")
  /\ UNCHANGED <<doc, job, batch, intent, points, late, lock, purger, writer>>

\* reconcile_document: the points are listed before anything else; they are
\* only deleted if the document was deleted by then.
StartRepair(c) ==
  /\ Repairs
  /\ cleaner[c] = Away
  /\ cleaner' = [cleaner EXCEPT ![c] = [step |-> "repair", open |-> {},
        seen |-> IF doc \in Deleted THEN points ELSE {}]]
  /\ UNCHANGED <<doc, job, batch, intent, points, late, lock, purger, writer>>

OpenIntents == {b \in Batches : intent[b] \in Open}

\* drain_vector_cleanup_intents and drain_pending_vector_intents: under the
\* advisory lock, the open intents are listed and their points deleted.
BeginDrain(c) ==
  /\ cleaner[c].step \in {"drain", "repair"}
  /\ LockFree
  /\ lock' = c
  /\ points' = points \ OpenIntents
  /\ Advance(c, IF cleaner[c].step = "drain" THEN "draining" ELSE "repairing", OpenIntents)
  /\ UNCHANGED <<doc, job, batch, intent, late, purger, writer>>

\* plan_intent_cleanup: CancelDeleteThenClean for a `writing` intent.
DrainCancels(c) == \E b \in cleaner[c].open : intent[b] = "writing"

\* The drain commits.  The writers it cancels are cancelled in the queue
\* only: no handle_terminal_index_job for their batches.
CommitDrain(c) ==
  /\ cleaner[c].step \in {"draining", "repairing"}
  /\ intent' = [b \in Batches |-> IF b \in cleaner[c].open THEN "cleaned" ELSE intent[b]]
  /\ IF DrainCancels(c) THEN CancelWriters ELSE UNCHANGED job
  /\ lock' = NoOne
  /\ Advance(c, IF cleaner[c].step = "draining" THEN "resweep" ELSE "leftovers", {})
  /\ UNCHANGED <<doc, batch, points, late, purger, writer>>

\* reconcile_document on a deleted document: the points listed at its start.
DeleteLeftovers(c) ==
  /\ cleaner[c].step = "leftovers"
  /\ points' = points \ cleaner[c].seen
  /\ cleaner' = [cleaner EXCEPT ![c] = Away]
  /\ UNCHANGED <<doc, job, batch, intent, late, lock, purger, writer>>

\* writers_are_quiesced, once finalize_purged has cancelled every writer.
Quiesced == OpenIntents = {}

\* finalize_purged; refused, its transaction rolls back and the job fails.
FinalizePurged(c) ==
  /\ cleaner[c].step = "finalize"
  /\ IF purger = c /\ doc = "tombstoned" /\ Quiesced
     THEN /\ doc' = "purged" /\ purger' = NoOne
          /\ CancelWriters /\ FailBatches(ActiveWriters)
     ELSE UNCHANGED <<doc, purger, job, batch>>
  /\ cleaner' = [cleaner EXCEPT ![c] = Away]
  /\ UNCHANGED <<intent, points, late, lock, writer>>

\* An error, the deadline or the death of the process: an open transaction
\* rolls back, what was deleted from Qdrant stays deleted.  DrainFaults
\* says whether this may happen to a repair in the middle of its drain.
CleanerStops(c) ==
  /\ cleaner[c] # Away
  /\ cleaner[c].step = "repairing" => DrainFaults
  /\ cleaner' = [cleaner EXCEPT ![c] = Away]
  /\ lock' = IF lock = c THEN NoOne ELSE lock
  /\ UNCHANGED <<doc, job, batch, intent, points, late, purger, writer>>

-----------------------------------------------------------------------------
WriterStep(w) ==
  \/ \E b \in Batches : Claim(w, b)
  \/ RecordIntent(w)
  \/ BeginWrite(w)
  \/ Upsert(w)
  \/ CommitWrite(w)
  \/ Abandon(w)
  \/ CompleteBatch(w)
  \/ CompletionRefused(w)
  \/ CheckDeleted(w)
  \/ Compensate(w)
  \/ ClearIntent(w)
  \/ FailClaimed(w)
  \/ GiveUp(w)

CleanerStep(c) ==
  \/ StartPurge(c)
  \/ Sweep(c)
  \/ SkipSweep(c)
  \/ StartRepair(c)
  \/ BeginDrain(c)
  \/ CommitDrain(c)
  \/ DeleteLeftovers(c)
  \/ FinalizePurged(c)
  \/ CleanerStops(c)

Next ==
  \/ \E w \in Writers : WriterStep(w)
  \/ \E c \in Cleaners : CleanerStep(c)
  \/ \E b \in Batches : Reclaim(b) \/ LateUpsert(b)
  \/ RequestDelete

Spec == Init /\ [][Next]_vars

-----------------------------------------------------------------------------
(* Properties.                                                             *)

JobRows == [status : Active \cup {"succeeded", "cancelled", "dead_letter"},
            attempts : 0..MaxAttempts]
WriterSteps == {"claimed", "intended", "upserting", "upserted", "written",
                "lost", "compensating", "clearing", "failing"}
CleanerSteps == {"idle", "sweep", "drain", "draining", "resweep", "finalize",
                 "repair", "repairing", "leftovers"}

TypeOK ==
  /\ doc \in {"indexing", "indexed", "failed", "tombstoned", "purged"}
  /\ job \in [Batches -> JobRows]
  /\ batch \in [Batches -> {"pending", "succeeded", "failed"}]
  /\ intent \in [Batches -> {"none", "pending", "writing", "cleaned", "committed"}]
  /\ points \subseteq Batches /\ late \in [Batches -> {"none", "flying", "applied"}]
  /\ lock \in Writers \cup Cleaners \cup {NoOne}
  /\ purger \in Cleaners \cup {NoOne}
  /\ writer \in [Writers -> {Resting} \cup
        [step : WriterSteps, batch : Batches, attempt : 1..MaxAttempts]]
  /\ cleaner \in [Cleaners ->
        [step : CleanerSteps, seen : SUBSET Batches, open : SUBSET Batches]]

\* A purged document has no points, and nobody is left who could write one:
\* no delayed writer, late drain or second purger undoes a purge, but only an
\* upsert that Qdrant applied after its caller had given it up.
PurgedLeavesNoVector ==
  doc = "purged" =>
    /\ \A b \in points : late[b] = "applied"
    /\ \A w \in Writers : writer[w].step \notin {"upserting", "upserted"}

\* Every point in Qdrant is either of a completed batch or covered by an
\* intent a drain will find, whoever died or was fenced in between
\* (embedding.rs: "the open pending intent still covers any orphaned points
\* for cleanup/reconcile").
PointsAreCovered ==
  \A b \in points : intent[b] \in Open \cup {"committed"} \/ late[b] = "applied"

\* A batch that counts as embedded has its points, until the document is
\* deleted: no drain or compensation meant for another attempt takes them.
SucceededBatchHasPoints ==
  \A b \in Batches : batch[b] = "succeeded" /\ doc \notin Deleted => b \in points

\* A document is shown as indexed only when nothing of it is open or undone.
IndexedIsComplete ==
  doc = "indexed" => \A b \in Batches : intent[b] = "committed"

\* Whoever dies, gives up or is fenced, a document that is being indexed keeps
\* a batch job that can end it; only a drain takes the last one away.
OnlyDrainsStrand ==
  doc = "indexing" /\ (\A b \in Batches : job[b].status \notin Active)
    => \E b \in Batches : intent[b] = "cleaned" /\ batch[b] = "pending"

=============================================================================
