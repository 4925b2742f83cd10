-------------------------- MODULE VectorFenceProofs --------------------------
(***************************************************************************)
(* Proofs about VectorFence for every set of batches, writers and cleaners *)
(* and every bound.  What a step does to one batch (BatchMove) carries     *)
(* most of the inductive invariant; the rest says who may be where.        *)
(***************************************************************************)
EXTENDS VectorFence, TLAPS

-----------------------------------------------------------------------------
(* The inductive invariant.                                                *)

Midway     == {"upserting", "upserted"}
Draining   == {"draining", "repairing"}
AfterWrite == {"written", "lost", "compensating", "clearing"}

\* Who holds the document's lock is at work under it: a writer whose intent
\* is still pending, or a cleaner whose listed intents are open and whose
\* points it has deleted.
LockInv ==
  /\ \A w \in Writers : (writer[w].step \in Midway) <=> (lock = w)
  /\ \A c \in Cleaners : (cleaner[c].step \in Draining) <=> (lock = c)
  /\ \A w \in Writers : lock = w => intent[writer[w].batch] = "pending"
  /\ \A c \in Cleaners : lock = c =>
       \A b \in cleaner[c].open : intent[b] \in Open /\ (b \in points => late[b] = "applied")

\* A writer that has committed its write cannot be followed by another one of
\* the same batch, and takes points away only when they are nobody's.
WriterInv == \A w \in Writers :
  /\ writer[w].step \in AfterWrite
       => intent[writer[w].batch] \notin {"none", "pending"}
  /\ writer[w].step \in {"compensating", "clearing"}
       => doc \in Deleted \/ intent[writer[w].batch] = "cleaned"
  /\ writer[w].step = "clearing"
       => (writer[w].batch \in points => late[writer[w].batch] = "applied")

\* A purge, and a repair that has points to delete, work on a deleted
\* document; after the second sweep only open intents have points.
CleanerInv == \A c \in Cleaners :
  /\ cleaner[c].step \in {"sweep", "drain", "draining", "resweep", "finalize"}
       => doc \in Deleted
  /\ cleaner[c].seen # {} => doc \in Deleted
  /\ cleaner[c].step = "finalize"
       => \A b \in points : intent[b] \in Open \/ late[b] = "applied"

PurgedInv ==
  doc = "purged" => /\ \A b \in Batches : intent[b] \notin Open
                    /\ \A b \in points : late[b] = "applied"

BatchInv == \A b \in Batches :
  /\ batch[b] = "succeeded" => intent[b] = "committed"
  /\ job[b].status = "pending" => job[b].attempts < MaxAttempts

\* A document that is being indexed has had nothing fail, has something left
\* to do, and lost a job only together with an intent that a drain cleaned.
IndexingInv ==
  doc = "indexing" =>
    /\ \E b \in Batches : batch[b] # "succeeded"
    /\ \A b \in Batches :
         /\ job[b].status # "dead_letter"
         /\ job[b].status = "succeeded" => batch[b] = "succeeded"
         /\ batch[b] # "failed"
    /\ (\E b \in Batches : job[b].status = "cancelled")
         => \E b \in Batches : intent[b] = "cleaned" /\ batch[b] = "pending"

IInv ==
  /\ TypeOK
  /\ LockInv
  /\ WriterInv
  /\ CleanerInv
  /\ PurgedInv
  /\ BatchInv
  /\ PointsAreCovered
  /\ IndexedIsComplete

\* Of a live document: a write that is committed, finished or about to be
\* committed has its points, unless a drain has listed it.
PointsInv ==
  doc \notin Deleted =>
    /\ \A w \in Writers : writer[w].step = "upserted" => writer[w].batch \in points
    /\ \A b \in Batches :
         /\ batch[b] = "succeeded" => b \in points
         /\ intent[b] = "writing" =>
              b \in points \/ \E c \in Cleaners : lock = c /\ b \in cleaner[c].open

-----------------------------------------------------------------------------
(* Types.                                                                  *)

WriterRecs  == [step : WriterSteps, batch : Batches, attempt : 1..MaxAttempts]
CleanerRecs == [step : CleanerSteps, seen : SUBSET Batches, open : SUBSET Batches]

LEMMA WorkingWriter ==
  ASSUME TypeOK, NEW w \in Writers, writer[w].step # "idle"
  PROVE  writer[w] \in WriterRecs /\ writer[w].batch \in Batches
  BY DEF TypeOK, Resting, WriterRecs

LEMMA StepType ==
  ASSUME NEW r \in WriterRecs, NEW s \in WriterSteps
  PROVE  /\ [r EXCEPT !.step = s] \in WriterRecs
         /\ [r EXCEPT !.step = s].step = s
         /\ [r EXCEPT !.step = s].batch = r.batch
  BY DEF WriterRecs

\* A writer that goes on keeps its batch; the others stay.
LEMMA Goes ==
  ASSUME TypeOK, NEW w \in Writers, writer[w].step # "idle",
         NEW s \in WriterSteps, GoTo(w, s)
  PROVE  /\ writer' \in [Writers -> {Resting} \cup WriterRecs]
         /\ writer'[w].step = s /\ writer'[w].batch = writer[w].batch
         /\ \A v \in Writers \ {w} : writer'[v] = writer[v]
<1>1. writer' = [writer EXCEPT ![w] = [writer[w] EXCEPT !.step = s]]
  BY DEF GoTo
<1>2. writer \in [Writers -> {Resting} \cup WriterRecs]
  BY DEF TypeOK, WriterRecs
<1> QED BY <1>1, <1>2, WorkingWriter, StepType

LEMMA Rests ==
  ASSUME TypeOK, NEW w \in Writers, Rest(w)
  PROVE  /\ writer' \in [Writers -> {Resting} \cup WriterRecs]
         /\ writer'[w].step = "idle"
         /\ \A v \in Writers \ {w} : writer'[v] = writer[v]
<1>1. writer \in [Writers -> {Resting} \cup WriterRecs]
  BY DEF TypeOK, WriterRecs
<1> QED BY <1>1 DEF Rest, Resting

LEMMA CleanerStepType ==
  ASSUME NEW r \in CleanerRecs, NEW s \in CleanerSteps
  PROVE  /\ [r EXCEPT !.step = s] \in CleanerRecs
         /\ [r EXCEPT !.step = s].step = s
         /\ [r EXCEPT !.step = s].seen = r.seen
         /\ [r EXCEPT !.step = s].open = r.open
  BY DEF CleanerRecs

LEMMA Proceeds ==
  ASSUME TypeOK, NEW c \in Cleaners, NEW s \in CleanerSteps, Proceed(c, s)
  PROVE  /\ cleaner' \in [Cleaners -> CleanerRecs]
         /\ cleaner'[c].step = s
         /\ cleaner'[c].seen = cleaner[c].seen /\ cleaner'[c].open = cleaner[c].open
         /\ \A d \in Cleaners \ {c} : cleaner'[d] = cleaner[d]
<1>1. cleaner' = [cleaner EXCEPT ![c] = [cleaner[c] EXCEPT !.step = s]]
  BY DEF Proceed
<1>2. cleaner \in [Cleaners -> CleanerRecs]
  BY DEF TypeOK, CleanerRecs
<1> QED BY <1>1, <1>2, CleanerStepType

LEMMA Advances ==
  ASSUME TypeOK, NEW c \in Cleaners, NEW s \in CleanerSteps, NEW o \in SUBSET Batches,
         Advance(c, s, o)
  PROVE  /\ cleaner' \in [Cleaners -> CleanerRecs]
         /\ cleaner'[c].step = s
         /\ cleaner'[c].seen = cleaner[c].seen /\ cleaner'[c].open = o
         /\ \A d \in Cleaners \ {c} : cleaner'[d] = cleaner[d]
<1>1. cleaner \in [Cleaners -> CleanerRecs] /\ cleaner[c] \in CleanerRecs
  BY DEF TypeOK, CleanerRecs
<1>2. [step |-> s, seen |-> cleaner[c].seen, open |-> o] \in CleanerRecs
  BY <1>1 DEF CleanerRecs
<1> QED BY <1>1, <1>2 DEF Advance

\* What the start and the commit of a drain do to its cleaner.
LEMMA DrainBegins ==
  ASSUME TypeOK, NEW c \in Cleaners, BeginDrain(c)
  PROVE  /\ cleaner' \in [Cleaners -> CleanerRecs]
         /\ cleaner'[c].seen = cleaner[c].seen
         /\ cleaner'[c].open = OpenIntents
         /\ cleaner'[c].step \in {"draining", "repairing"}
         /\ cleaner'[c].step = "draining" => cleaner[c].step = "drain"
         /\ \A d \in Cleaners \ {c} : cleaner'[d] = cleaner[d]
<1> DEFINE s == IF cleaner[c].step = "drain" THEN "draining" ELSE "repairing"
<1>1. s \in CleanerSteps
  BY DEF CleanerSteps
<1>2. s \in {"draining", "repairing"} /\ (s = "draining" => cleaner[c].step = "drain")
  OBVIOUS
<1>3. OpenIntents \in SUBSET Batches
  BY DEF OpenIntents
<1>4. Advance(c, s, OpenIntents)
  BY DEF BeginDrain
<1> HIDE DEF s
<1> QED BY <1>1, <1>2, <1>3, <1>4, Advances

LEMMA DrainCommits ==
  ASSUME TypeOK, NEW c \in Cleaners, CommitDrain(c)
  PROVE  /\ cleaner' \in [Cleaners -> CleanerRecs]
         /\ cleaner'[c].seen = cleaner[c].seen
         /\ cleaner'[c].open = {}
         /\ cleaner'[c].step \in {"resweep", "leftovers"}
         /\ cleaner'[c].step = "resweep" => cleaner[c].step = "draining"
         /\ \A d \in Cleaners \ {c} : cleaner'[d] = cleaner[d]
<1> DEFINE s == IF cleaner[c].step = "draining" THEN "resweep" ELSE "leftovers"
<1>1. s \in CleanerSteps
  BY DEF CleanerSteps
<1>2. s \in {"resweep", "leftovers"} /\ (s = "resweep" => cleaner[c].step = "draining")
  OBVIOUS
<1>3. {} \in SUBSET Batches
  OBVIOUS
<1>4. Advance(c, s, {})
  BY DEF CommitDrain
<1> HIDE DEF s
<1> QED BY <1>1, <1>2, <1>3, <1>4, Advances

\* A job's row keeps its attempts when its status changes.
LEMMA StatusType ==
  ASSUME NEW r \in JobRows,
         NEW s \in Active \cup {"succeeded", "cancelled", "dead_letter"}
  PROVE  /\ [r EXCEPT !.status = s] \in JobRows
         /\ [r EXCEPT !.status = s].status = s
         /\ [r EXCEPT !.status = s].attempts = r.attempts
  BY DEF JobRows

\* The writers of a document are cancelled in one go.
LEMMA Cancels ==
  ASSUME TypeOK, CancelWriters
  PROVE  /\ job' \in [Batches -> JobRows]
         /\ \A b \in Batches :
              \/ job'[b] = job[b] /\ job[b].status \notin Active
              \/ job'[b].status = "cancelled" /\ job[b].status \in Active
<1>1. job \in [Batches -> JobRows]
  BY DEF TypeOK
<1>2. "cancelled" \in Active \cup {"succeeded", "cancelled", "dead_letter"}
  OBVIOUS
<1>3. \A b \in Batches : /\ [job[b] EXCEPT !.status = "cancelled"] \in JobRows
                         /\ [job[b] EXCEPT !.status = "cancelled"].status = "cancelled"
  BY <1>1, <1>2, StatusType
<1> QED BY <1>1, <1>3 DEF CancelWriters, ActiveWriters

LEMMA Fails ==
  ASSUME TypeOK, NEW gone, FailBatches(gone)
  PROVE  /\ batch' \in [Batches -> {"pending", "succeeded", "failed"}]
         /\ \A b \in Batches : batch'[b] = "succeeded" <=> batch[b] = "succeeded"
         /\ \A b \in Batches : b \notin gone => batch'[b] = batch[b]
  BY DEF TypeOK, FailBatches

\* A failed or reclaimed job is queued again with attempts left, or dead
\* together with its batch and a document that was being indexed.
LEMMA Retires ==
  ASSUME TypeOK, NEW b \in Batches, Retire(b)
  PROVE  /\ job' \in [Batches -> JobRows]
         /\ job'[b].attempts = job[b].attempts
         /\ \A a \in Batches \ {b} : job'[a] = job[a]
         /\ batch' \in [Batches -> {"pending", "succeeded", "failed"}]
         /\ \A a \in Batches : batch'[a] = "succeeded" <=> batch[a] = "succeeded"
         /\ doc' = doc \/ (doc = "indexing" /\ doc' = "failed")
         /\ \/ /\ job'[b].status = "pending" /\ job[b].attempts < MaxAttempts
               /\ doc' = doc /\ batch' = batch
            \/ job'[b].status = "dead_letter" /\ doc' # "indexing"
<1> DEFINE dead == job[b].attempts >= MaxAttempts
           st == IF dead THEN "dead_letter" ELSE "pending"
<1>1. job \in [Batches -> JobRows] /\ job[b] \in JobRows /\ batch \in [Batches -> {"pending", "succeeded", "failed"}]
  BY DEF TypeOK
<1>2. st \in Active \cup {"succeeded", "cancelled", "dead_letter"}
  BY DEF Active
<1>3. /\ job' = [job EXCEPT ![b] = [job[b] EXCEPT !.status = st]]
      /\ FailBatches(IF dead THEN {b} ELSE {})
      /\ doc' = IF dead /\ doc = "indexing" THEN "failed" ELSE doc
  BY DEF Retire
<1>4. ~ dead => job[b].attempts < MaxAttempts
  BY <1>1, Assumption DEF Assumption, JobRows
<1>5. dead => st = "dead_letter"
  OBVIOUS
<1>6. ~ dead => st = "pending"
  OBVIOUS
<1>7. ~ dead => batch' = batch
  BY <1>1, <1>3 DEF FailBatches
<1>8. doc' = doc \/ (doc = "indexing" /\ doc' = "failed")
  BY <1>3
<1>9. dead => doc' # "indexing"
  BY <1>3
<1>10. ~ dead => doc' = doc
  BY <1>3
<1> HIDE DEF st
<1>11. /\ job' \in [Batches -> JobRows] /\ job'[b].status = st
       /\ job'[b].attempts = job[b].attempts
       /\ \A a \in Batches \ {b} : job'[a] = job[a]
  BY <1>1, <1>2, <1>3, StatusType
<1> HIDE DEF dead
<1>12. /\ batch' \in [Batches -> {"pending", "succeeded", "failed"}]
       /\ \A a \in Batches : batch'[a] = "succeeded" <=> batch[a] = "succeeded"
  BY <1>3, Fails
<1> QED BY <1>4, <1>5, <1>6, <1>7, <1>8, <1>9, <1>10, <1>11, <1>12

LEMMA TypeWriterStep ==
  ASSUME TypeOK, BatchInv, NEW w \in Writers, WriterStep(w)
  PROVE  TypeOK'
<1> USE DEF WriterRecs, CleanerRecs
<1>1. ASSUME NEW b \in Batches, Claim(w, b) PROVE TypeOK'
  <2>1. job[b].attempts + 1 \in 1..MaxAttempts
    BY <1>1, Assumption DEF Assumption, Claim, TypeOK, JobRows, BatchInv
  <2>2. job' \in [Batches -> JobRows]
    BY <1>1, <2>1 DEF Claim, TypeOK, JobRows, Active
  <2>3. [step |-> "claimed", batch |-> b, attempt |-> job[b].attempts + 1] \in WriterRecs
    BY <2>1 DEF WriterSteps
  <2>4. writer' \in [Writers -> {Resting} \cup WriterRecs]
    BY <1>1, <2>3 DEF Claim, TypeOK
  <2> QED BY <1>1, <2>2, <2>4 DEF Claim, TypeOK
<1>2. CASE RecordIntent(w)
  <2>1. writer' \in [Writers -> {Resting} \cup WriterRecs]
    BY <1>2, Goes DEF RecordIntent, WriterSteps
  <2>2. intent' \in [Batches -> {"none", "pending", "writing", "cleaned", "committed"}]
    BY <1>2 DEF RecordIntent, TypeOK, UpsertedIntent
  <2> QED BY <1>2, <2>1, <2>2 DEF RecordIntent, TypeOK
<1>3. CASE BeginWrite(w)
  <2>1. writer' \in [Writers -> {Resting} \cup WriterRecs]
    BY <1>3, Goes DEF BeginWrite, WriterSteps
  <2> QED BY <1>3, <2>1 DEF BeginWrite, TypeOK
<1>4. CASE Upsert(w)
  <2>1. writer' \in [Writers -> {Resting} \cup WriterRecs] /\ writer[w].batch \in Batches
    BY <1>4, Goes, WorkingWriter DEF Upsert, WriterSteps
  <2> QED BY <1>4, <2>1 DEF Upsert, TypeOK
<1>5. CASE CommitWrite(w)
  <2>1. writer' \in [Writers -> {Resting} \cup WriterRecs] /\ writer[w].batch \in Batches
    BY <1>5, Goes, WorkingWriter DEF CommitWrite, WriterSteps
  <2> QED BY <1>5, <2>1 DEF CommitWrite, TypeOK
<1>6. CASE Abandon(w)
  <2>1. writer' \in [Writers -> {Resting} \cup WriterRecs]
    BY <1>6, Goes, Rests DEF Abandon, WriterSteps
  <2>2. late' \in [Batches -> {"none", "flying", "applied"}]
    BY <1>6 DEF Abandon, TypeOK
  <2> QED BY <1>6, <2>1, <2>2 DEF Abandon, TypeOK
<1>7. CASE CompleteBatch(w)
  <2>1. writer' \in [Writers -> {Resting} \cup WriterRecs] /\ writer[w].batch \in Batches
    BY <1>7, Rests, WorkingWriter DEF CompleteBatch
  <2>2. [job[writer[w].batch] EXCEPT !.status = "succeeded"] \in JobRows
    BY <2>1, StatusType DEF TypeOK
  <2>3. job' \in [Batches -> JobRows]
    BY <1>7, <2>2 DEF CompleteBatch, TypeOK
  <2> QED BY <1>7, <2>1, <2>3 DEF CompleteBatch, TypeOK
<1>8. CASE CompletionRefused(w)
  <2>1. PICK s \in {"compensating", "lost", "failing"} : GoTo(w, s)
    BY <1>8 DEF CompletionRefused
  <2>2. writer' \in [Writers -> {Resting} \cup WriterRecs]
    BY <1>8, <2>1, Goes DEF CompletionRefused, WriterSteps
  <2> QED BY <1>8, <2>2 DEF CompletionRefused, TypeOK
<1>9. CASE CheckDeleted(w)
  <2>1. writer' \in [Writers -> {Resting} \cup WriterRecs]
    BY <1>9, Goes, Rests DEF CheckDeleted, WriterSteps
  <2> QED BY <1>9, <2>1 DEF CheckDeleted, TypeOK
<1>10. CASE Compensate(w)
  <2>1. writer' \in [Writers -> {Resting} \cup WriterRecs]
    BY <1>10, Goes DEF Compensate, WriterSteps
  <2> QED BY <1>10, <2>1 DEF Compensate, TypeOK
<1>11. CASE ClearIntent(w)
  <2>1. writer' \in [Writers -> {Resting} \cup WriterRecs]
    BY <1>11, Goes DEF ClearIntent, WriterSteps
  <2>2. intent' \in [Batches -> {"none", "pending", "writing", "cleaned", "committed"}]
    BY <1>11 DEF ClearIntent, TypeOK
  <2> QED BY <1>11, <2>1, <2>2 DEF ClearIntent, TypeOK
<1>12. CASE FailClaimed(w)
  <2>1. writer' \in [Writers -> {Resting} \cup WriterRecs] /\ writer[w].batch \in Batches
    BY <1>12, Rests, WorkingWriter DEF FailClaimed
  <2>2. CASE Owns(w)
    <3>1. Retire(writer[w].batch)
      BY <1>12, <2>2 DEF FailClaimed
    <3> QED BY <1>12, <2>1, <3>1, Retires DEF FailClaimed, TypeOK
  <2>3. CASE ~ Owns(w)
    BY <1>12, <2>1, <2>3 DEF FailClaimed, TypeOK
  <2> QED BY <2>2, <2>3
<1>13. CASE GiveUp(w)
  <2>1. writer' \in [Writers -> {Resting} \cup WriterRecs]
    BY <1>13, Goes, Rests DEF GiveUp, WriterSteps
  <2> QED BY <1>13, <2>1 DEF GiveUp, TypeOK
<1> QED BY <1>1, <1>2, <1>3, <1>4, <1>5, <1>6, <1>7, <1>8, <1>9, <1>10, <1>11,
           <1>12, <1>13 DEF WriterStep

LEMMA TypeCleanerStep ==
  ASSUME TypeOK, NEW c \in Cleaners, CleanerStep(c)
  PROVE  TypeOK'
<1> USE DEF WriterRecs, CleanerRecs
<1>0. Away \in CleanerRecs
  BY DEF Away, CleanerSteps
<1>1. CASE StartPurge(c)
  BY <1>1, Proceeds DEF StartPurge, TypeOK, CleanerSteps
<1>2. CASE Sweep(c) \/ SkipSweep(c)
  BY <1>2, Proceeds DEF Sweep, SkipSweep, TypeOK, CleanerSteps
<1>3. CASE StartRepair(c)
  BY <1>3 DEF StartRepair, TypeOK, CleanerSteps
<1>4. CASE BeginDrain(c)
  <2>1. cleaner' \in [Cleaners -> CleanerRecs]
    BY <1>4, DrainBegins
  <2> QED BY <1>4, <2>1 DEF BeginDrain, TypeOK
<1>5. CASE CommitDrain(c)
  <2>1. cleaner' \in [Cleaners -> CleanerRecs]
    BY <1>5, DrainCommits
  <2>2. job' \in [Batches -> JobRows]
    BY <1>5, Cancels DEF CommitDrain, TypeOK
  <2>3. intent' \in [Batches -> {"none", "pending", "writing", "cleaned", "committed"}]
    BY <1>5 DEF CommitDrain, TypeOK
  <2> QED BY <1>5, <2>1, <2>2, <2>3 DEF CommitDrain, TypeOK
<1>6. CASE DeleteLeftovers(c)
  BY <1>0, <1>6 DEF DeleteLeftovers, TypeOK
<1>7. CASE FinalizePurged(c)
  <2>1. job' \in [Batches -> JobRows] /\ batch' \in [Batches -> {"pending", "succeeded", "failed"}]
    BY <1>7, Cancels, Fails DEF FinalizePurged, TypeOK
  <2> QED BY <1>0, <1>7, <2>1 DEF FinalizePurged, TypeOK
<1>8. CASE CleanerStops(c)
  BY <1>0, <1>8 DEF CleanerStops, TypeOK
<1> QED BY <1>1, <1>2, <1>3, <1>4, <1>5, <1>6, <1>7, <1>8 DEF CleanerStep

LEMMA TypeStep ==
  ASSUME TypeOK, BatchInv, [Next]_vars
  PROVE  TypeOK'
<1>1. ASSUME NEW b \in Batches, Reclaim(b) PROVE TypeOK'
  BY <1>1, Retires DEF Reclaim, TypeOK
<1>2. ASSUME NEW b \in Batches, LateUpsert(b) PROVE TypeOK'
  BY <1>2 DEF LateUpsert, TypeOK
<1>3. CASE RequestDelete
  <2>1. job' \in [Batches -> JobRows] /\ batch' \in [Batches -> {"pending", "succeeded", "failed"}]
    BY <1>3, Cancels, Fails DEF RequestDelete
  <2> QED BY <1>3, <2>1 DEF RequestDelete, TypeOK
<1>4. CASE UNCHANGED vars
  BY <1>4 DEF vars, TypeOK
<1> QED BY <1>1, <1>2, <1>3, <1>4, TypeWriterStep, TypeCleanerStep DEF Next


-----------------------------------------------------------------------------
(* What a step does to one batch, to the document and to one writer.       *)

\* Intent and points of a batch that no step of this kind makes worse.
Settled(b) == late'[b] = late[b] /\ (b \in points' => b \in points)

\* A row that is pending may see its upsert arrive; a late upsert is marked
\* as such; the status itself goes only forward.
BatchMove(b) ==
  \/ intent'[b] = intent[b] /\ Settled(b)
  \/ intent[b] = "pending" /\ intent'[b] = "pending"
  \/ intent'[b] = intent[b] /\ late'[b] = "applied"
  \/ /\ Settled(b)
     /\ \/ intent[b] = "none" /\ intent'[b] = "pending" /\ doc \notin Deleted /\ doc' = doc
        \/ intent[b] = "pending" /\ intent'[b] = "writing" /\ doc' = doc
        \/ intent[b] \in Open /\ intent'[b] = "cleaned" /\ (b \in points => late[b] = "applied")
        \/ intent[b] = "writing" /\ intent'[b] = "committed" /\ doc \notin Deleted

LEMMA BatchWriterStep ==
  ASSUME TypeOK, LockInv, WriterInv, NEW w \in Writers, WriterStep(w), NEW b \in Batches
  PROVE  BatchMove(b)
<1> USE DEF BatchMove, Settled
<1> DEFINE a == writer[w].batch
<1>0. late \in [Batches -> {"none", "flying", "applied"}]
      /\ intent \in [Batches -> {"none", "pending", "writing", "cleaned", "committed"}]
  BY DEF TypeOK
<1>1. CASE \E d \in Batches : Claim(w, d)
  BY <1>1 DEF Claim
<1>2. CASE RecordIntent(w)
  <2>1. CASE UNCHANGED intent
    BY <1>2, <2>1 DEF RecordIntent
  <2>2. CASE /\ doc \notin Deleted /\ UpsertAllowed(intent[a])
             /\ intent' = [intent EXCEPT ![a] = UpsertedIntent(@)]
    <3>1. b # a \/ intent[a] # "none" => intent'[b] = intent[b]
      BY <1>0, <2>2 DEF UpsertedIntent
    <3>2. b = a /\ intent[a] = "none" => intent'[b] = "pending"
      BY <1>0, <2>2 DEF UpsertedIntent
    <3>3. late' = late /\ points' = points /\ doc' = doc
      BY <1>2 DEF RecordIntent
    <3> QED BY <2>2, <3>1, <3>2, <3>3
  <2> QED BY <1>2, <2>1, <2>2 DEF RecordIntent
<1>3. CASE BeginWrite(w) \/ CompletionRefused(w) \/ CheckDeleted(w) \/ FailClaimed(w) \/ GiveUp(w)
  BY <1>3 DEF BeginWrite, CompletionRefused, CheckDeleted, FailClaimed, GiveUp
<1>4. CASE Upsert(w)
  BY <1>4 DEF Upsert, LockInv, Midway
<1>5. CASE CommitWrite(w)
  <2>1. intent[a] = "pending" /\ late' = late /\ points' = points /\ doc' = doc
    BY <1>5 DEF CommitWrite, LockInv, Midway
  <2>2. intent' = [intent EXCEPT ![a] = "writing"]
    BY <1>5 DEF CommitWrite
  <2> QED BY <1>0, <2>1, <2>2
<1>6. CASE Abandon(w)
  <2>1. intent[a] = "pending" /\ intent' = intent /\ points' = points
    BY <1>6 DEF Abandon, LockInv, Midway
  <2>2. b # a => late'[b] = late[b]
    BY <1>0, <1>6 DEF Abandon
  <2> QED BY <2>1, <2>2
<1>7. CASE CompleteBatch(w)
  <2>1. intent[a] = "writing" /\ doc \notin Deleted /\ late' = late /\ points' = points
    BY <1>7 DEF CompleteBatch, Completable
  <2>2. intent' = [intent EXCEPT ![a] = "committed"]
    BY <1>7 DEF CompleteBatch
  <2> QED BY <1>0, <2>1, <2>2
<1>8. CASE Compensate(w)
  BY <1>8 DEF Compensate
<1>9. CASE ClearIntent(w)
  <2>1. a \in points => late[a] = "applied"
    BY <1>9 DEF ClearIntent, WriterInv
  <2>2. /\ late' = late /\ points' = points
        /\ intent' = [intent EXCEPT ![a] = IF intent[a] \in Open THEN "cleaned" ELSE intent[a]]
    BY <1>9 DEF ClearIntent
  <2> QED BY <1>0, <2>1, <2>2
<1> QED BY <1>1, <1>2, <1>3, <1>4, <1>5, <1>6, <1>7, <1>8, <1>9 DEF WriterStep

LEMMA BatchStep ==
  ASSUME TypeOK, LockInv, WriterInv, [Next]_vars
  PROVE  \A b \in Batches : BatchMove(b)
<1> SUFFICES ASSUME NEW b \in Batches PROVE BatchMove(b)
  OBVIOUS
<1> USE DEF BatchMove, Settled
<1>1. ASSUME NEW c \in Cleaners, CommitDrain(c) PROVE BatchMove(b)
  <2>1. lock = c /\ late' = late /\ points' = points
    BY <1>1 DEF CommitDrain, LockInv, Draining
  <2>2. intent' = [x \in Batches |-> IF x \in cleaner[c].open THEN "cleaned" ELSE intent[x]]
    BY <1>1 DEF CommitDrain
  <2> QED BY <2>1, <2>2 DEF LockInv
<1>2. ASSUME NEW c \in Cleaners,
             StartPurge(c) \/ Sweep(c) \/ SkipSweep(c) \/ StartRepair(c) \/ BeginDrain(c)
             \/ DeleteLeftovers(c) \/ FinalizePurged(c) \/ CleanerStops(c)
      PROVE  BatchMove(b)
  BY <1>2 DEF StartPurge, Sweep, SkipSweep, StartRepair, BeginDrain, DeleteLeftovers,
              FinalizePurged, CleanerStops
<1>3. ASSUME NEW a \in Batches, Reclaim(a) \/ LateUpsert(a) PROVE BatchMove(b)
  <2>1. CASE Reclaim(a)
    BY <2>1 DEF Reclaim
  <2>2. CASE LateUpsert(a)
    BY <2>2 DEF LateUpsert, TypeOK
  <2> QED BY <1>3, <2>1, <2>2
<1>4. CASE RequestDelete \/ UNCHANGED vars
  BY <1>4 DEF RequestDelete, vars
<1> QED BY <1>1, <1>2, <1>3, <1>4, BatchWriterStep DEF Next, CleanerStep

\* The ways the document's state changes.
LEMMA DocStep ==
  ASSUME TypeOK, [Next]_vars
  PROVE  \/ doc' = doc
         \/ doc = "indexing" /\ doc' = "failed"
         \/ doc' = "indexed" /\ \E w \in Writers : CompleteBatch(w) /\ OthersSucceeded(writer[w].batch)
         \/ doc' = "tombstoned" /\ RequestDelete
         \/ /\ doc = "tombstoned" /\ doc' = "purged"
            /\ \E c \in Cleaners : FinalizePurged(c) /\ Quiesced
<1>1. ASSUME NEW b \in Batches, Retire(b) PROVE doc' = doc \/ (doc = "indexing" /\ doc' = "failed")
  BY <1>1, Retires
<1>2. ASSUME NEW w \in Writers, FailClaimed(w)
      PROVE  doc' = doc \/ (doc = "indexing" /\ doc' = "failed")
  <2>1. writer[w].batch \in Batches
    BY <1>2, WorkingWriter DEF FailClaimed
  <2> QED BY <1>1, <1>2, <2>1 DEF FailClaimed
<1>3. ASSUME NEW w \in Writers, CompleteBatch(w)
      PROVE  doc' = doc \/ (doc' = "indexed" /\ OthersSucceeded(writer[w].batch))
  BY <1>3 DEF CompleteBatch
<1>4. ASSUME NEW w \in Writers, WriterStep(w), ~ FailClaimed(w), ~ CompleteBatch(w)
      PROVE  doc' = doc
  BY <1>4 DEF WriterStep, Claim, RecordIntent, BeginWrite, Upsert, CommitWrite, Abandon,
     CompletionRefused, CheckDeleted, Compensate, ClearIntent, GiveUp
<1>5. ASSUME NEW c \in Cleaners, FinalizePurged(c)
      PROVE  doc' = doc \/ (doc = "tombstoned" /\ doc' = "purged" /\ Quiesced)
  BY <1>5 DEF FinalizePurged
<1>6. ASSUME NEW c \in Cleaners, CleanerStep(c), ~ FinalizePurged(c) PROVE doc' = doc
  BY <1>6 DEF CleanerStep, StartPurge, Sweep, SkipSweep, StartRepair, BeginDrain, CommitDrain,
     DeleteLeftovers, CleanerStops
<1>7. ASSUME NEW b \in Batches, Reclaim(b) \/ LateUpsert(b)
      PROVE  doc' = doc \/ (doc = "indexing" /\ doc' = "failed")
  BY <1>1, <1>7 DEF Reclaim, LateUpsert
<1>8. CASE RequestDelete \/ UNCHANGED vars
  BY <1>8 DEF RequestDelete, vars
<1> QED BY <1>2, <1>3, <1>4, <1>5, <1>6, <1>7, <1>8 DEF Next

LEMMA DeletedForGood ==
  ASSUME TypeOK, [Next]_vars, doc \in Deleted
  PROVE  doc' \in Deleted
BY DocStep DEF Deleted, CompleteBatch, Completable

-----------------------------------------------------------------------------
(* The parts of the invariant.                                             *)

\* The ways a writer comes into one of the steps after its write.
LEMMA WriterMove ==
  ASSUME TypeOK, NEW w \in Writers, [Next]_vars
  PROVE  \/ writer'[w] = writer[w]
         \/ writer'[w].step \notin AfterWrite
         \/ /\ writer'[w].batch = writer[w].batch /\ writer[w].batch \in Batches
            /\ \/ CommitWrite(w) /\ writer'[w].step = "written"
               \/ /\ intent' = intent /\ doc' = doc /\ late' = late /\ writer[w].step \in AfterWrite
                  /\ \/ writer'[w].step = "lost"
                     \/ /\ writer'[w].step = "compensating"
                        /\ doc \in Deleted \/ intent[writer[w].batch] = "cleaned"
                     \/ /\ writer'[w].step = "clearing" /\ writer[w].step = "compensating"
                        /\ writer[w].batch \notin points'
<1> DEFINE Goal == \/ writer'[w] = writer[w]
         \/ writer'[w].step \notin AfterWrite
         \/ /\ writer'[w].batch = writer[w].batch /\ writer[w].batch \in Batches
            /\ \/ CommitWrite(w) /\ writer'[w].step = "written"
               \/ /\ intent' = intent /\ doc' = doc /\ late' = late /\ writer[w].step \in AfterWrite
                  /\ \/ writer'[w].step = "lost"
                     \/ /\ writer'[w].step = "compensating"
                        /\ doc \in Deleted \/ intent[writer[w].batch] = "cleaned"
                     \/ /\ writer'[w].step = "clearing" /\ writer[w].step = "compensating"
                        /\ writer[w].batch \notin points'
<1> SUFFICES Goal
  OBVIOUS
<1>1. ASSUME NEW v \in Writers \ {w}, WriterStep(v) PROVE writer'[w] = writer[w]
  <2>1. writer \in [Writers -> {Resting} \cup WriterRecs]
    BY DEF TypeOK, WriterRecs
  <2> QED BY <1>1, <2>1 DEF WriterStep, Claim, RecordIntent, BeginWrite, Upsert, CommitWrite, Abandon,
     CompleteBatch, CompletionRefused, CheckDeleted, Compensate, ClearIntent, FailClaimed, GiveUp,
     GoTo, Rest
<1>2. CASE WriterStep(w)
  <2>0. writer \in [Writers -> {Resting} \cup WriterRecs]
    BY DEF TypeOK, WriterRecs
  <2>1. ASSUME NEW b \in Batches, Claim(w, b) PROVE Goal
    BY <2>0, <2>1 DEF Claim, AfterWrite
  <2>2. CASE RecordIntent(w) \/ BeginWrite(w) \/ Upsert(w) \/ Abandon(w) \/ ClearIntent(w) \/ GiveUp(w)
    BY <2>2, Goes, Rests DEF RecordIntent, BeginWrite, Upsert, Abandon, ClearIntent, GiveUp,
       WriterSteps, AfterWrite
  <2>3. CASE CommitWrite(w)
    BY <2>3, Goes, WorkingWriter DEF CommitWrite, WriterSteps
  <2>4. CASE CompleteBatch(w) \/ FailClaimed(w)
    BY <2>4, Rests DEF CompleteBatch, FailClaimed, AfterWrite
  <2>5. CASE CompletionRefused(w)
    <3>1. PICK s \in {"compensating", "lost", "failing"} :
            /\ GoTo(w, s)
            /\ s = "compensating" => doc \in Deleted \/ intent[writer[w].batch] = "cleaned"
      BY <2>5 DEF CompletionRefused
    <3>2. writer'[w].step = s /\ writer'[w].batch = writer[w].batch /\ writer[w].batch \in Batches
      BY <2>5, <3>1, Goes, WorkingWriter DEF CompletionRefused, WriterSteps
    <3> QED BY <2>5, <3>1, <3>2 DEF CompletionRefused, AfterWrite
  <2>6. CASE CheckDeleted(w)
    BY <2>6, Goes, Rests, WorkingWriter DEF CheckDeleted, WriterSteps, AfterWrite
  <2>7. CASE Compensate(w)
    <3>1. writer[w].batch \in Batches
      BY <2>7, WorkingWriter DEF Compensate
    <3> QED BY <2>7, <3>1, Goes DEF Compensate, WriterSteps, AfterWrite
  <2> QED BY <1>2, <2>1, <2>2, <2>3, <2>4, <2>5, <2>6, <2>7 DEF WriterStep
<1>3. ASSUME NEW c \in Cleaners, CleanerStep(c) PROVE writer' = writer
  BY <1>3 DEF CleanerStep, StartPurge, Sweep, SkipSweep, StartRepair, BeginDrain, CommitDrain,
     DeleteLeftovers, FinalizePurged, CleanerStops
<1>4. ASSUME NEW b \in Batches, Reclaim(b) \/ LateUpsert(b) PROVE writer' = writer
  BY <1>4 DEF Reclaim, LateUpsert
<1>5. CASE RequestDelete \/ UNCHANGED vars
  BY <1>5 DEF RequestDelete, vars
<1> HIDE DEF Goal
<1>6. writer'[w] = writer[w] => Goal
  BY DEF Goal
<1> QED BY <1>1, <1>2, <1>3, <1>4, <1>5, <1>6 DEF Next

LEMMA WriterInvStep ==
  ASSUME TypeOK, LockInv, WriterInv, [Next]_vars
  PROVE  WriterInv'
<1> SUFFICES ASSUME NEW w \in Writers
    PROVE
      /\ writer'[w].step \in AfterWrite => intent'[writer'[w].batch] \notin {"none", "pending"}
      /\ writer'[w].step \in {"compensating", "clearing"}
           => doc' \in Deleted \/ intent'[writer'[w].batch] = "cleaned"
      /\ writer'[w].step = "clearing"
           => (writer'[w].batch \in points' => late'[writer'[w].batch] = "applied")
  BY DEF WriterInv, AfterWrite
<1> DEFINE b == writer[w].batch
<1>0. doc \in Deleted => doc' \in Deleted
  BY DeletedForGood
<1>1. CASE writer'[w].step \notin AfterWrite
  BY <1>1 DEF AfterWrite
<1>2. CASE writer'[w] = writer[w] /\ writer'[w].step \in AfterWrite
  <2>1. b \in Batches
    BY <1>2, WorkingWriter DEF AfterWrite
  <2>2. BatchMove(b)
    BY <2>1, BatchStep
  <2>3. intent[b] \notin {"none", "pending"}
    BY <1>2 DEF WriterInv, AfterWrite
  <2> QED BY <1>0, <1>2, <2>2, <2>3 DEF BatchMove, Settled, WriterInv, AfterWrite, Open
<1>3. CASE writer'[w].batch = b /\ b \in Batches /\ CommitWrite(w) /\ writer'[w].step = "written"
  BY <1>3 DEF CommitWrite, TypeOK
<1>4. CASE /\ writer'[w].batch = b /\ b \in Batches
           /\ intent' = intent /\ doc' = doc /\ late' = late /\ writer[w].step \in AfterWrite
           /\ \/ writer'[w].step = "lost"
              \/ /\ writer'[w].step = "compensating"
                 /\ doc \in Deleted \/ intent[writer[w].batch] = "cleaned"
              \/ /\ writer'[w].step = "clearing" /\ writer[w].step = "compensating"
                 /\ writer[w].batch \notin points'
  BY <1>4 DEF WriterInv, AfterWrite
<1> QED BY <1>1, <1>2, <1>3, <1>4, WriterMove

LEMMA PurgedInvStep ==
  ASSUME TypeOK, TypeOK', LockInv, WriterInv, CleanerInv, PurgedInv, [Next]_vars
  PROVE  PurgedInv'
<1> SUFFICES ASSUME doc' = "purged", NEW b \in Batches
             PROVE  intent'[b] \notin Open /\ (b \in points' => late'[b] = "applied")
  BY DEF TypeOK, PurgedInv
<1>1. BatchMove(b)
  BY BatchStep
<1>2. CASE doc = "purged"
  <2>1. intent[b] \notin Open /\ (b \in points => late[b] = "applied")
    BY <1>2 DEF PurgedInv
  <2> QED BY <1>1, <1>2, <2>1 DEF BatchMove, Settled, Open, Deleted
<1>3. ASSUME NEW c \in Cleaners, FinalizePurged(c), Quiesced
      PROVE  intent'[b] \notin Open /\ (b \in points' => late'[b] = "applied")
  <2>1. intent' = intent /\ points' = points /\ late' = late /\ cleaner[c].step = "finalize"
    BY <1>3 DEF FinalizePurged
  <2>2. intent[b] \notin Open
    BY <1>3 DEF Quiesced, OpenIntents
  <2> QED BY <2>1, <2>2 DEF CleanerInv
<1> QED BY <1>2, <1>3, DocStep

LEMMA PointsAreCoveredStep ==
  ASSUME TypeOK, TypeOK', LockInv, WriterInv, PointsAreCovered, [Next]_vars
  PROVE  PointsAreCovered'
<1> SUFFICES ASSUME NEW b \in Batches, b \in points'
             PROVE  intent'[b] \in Open \cup {"committed"} \/ late'[b] = "applied"
  BY DEF TypeOK, PointsAreCovered
<1>1. BatchMove(b)
  BY BatchStep
<1> QED BY <1>1 DEF BatchMove, Settled, Open, PointsAreCovered

LEMMA IndexedIsCompleteStep ==
  ASSUME TypeOK, LockInv, WriterInv, BatchInv, IndexedIsComplete, [Next]_vars
  PROVE  IndexedIsComplete'
<1> SUFFICES ASSUME doc' = "indexed", NEW b \in Batches PROVE intent'[b] = "committed"
  BY DEF IndexedIsComplete
<1>1. CASE doc = "indexed"
  BY <1>1, BatchStep DEF BatchMove, Open, IndexedIsComplete
<1>2. ASSUME NEW w \in Writers, CompleteBatch(w), OthersSucceeded(writer[w].batch)
      PROVE  intent'[b] = "committed"
  <2>1. intent' = [intent EXCEPT ![writer[w].batch] = "committed"]
    BY <1>2 DEF CompleteBatch
  <2>2. b # writer[w].batch => intent[b] = "committed"
    BY <1>2 DEF OthersSucceeded, BatchInv
  <2> QED BY <2>1, <2>2 DEF TypeOK
<1> QED BY <1>1, <1>2, DocStep

\* Only the cleaner's own steps move it.
LEMMA OtherCleaners ==
  ASSUME TypeOK, NEW c \in Cleaners, [Next]_vars, ~ CleanerStep(c)
  PROVE  cleaner'[c] = cleaner[c]
<1>1. ASSUME NEW w \in Writers, WriterStep(w) PROVE cleaner' = cleaner
  BY <1>1 DEF WriterStep, Claim, RecordIntent, BeginWrite, Upsert, CommitWrite, Abandon,
     CompleteBatch, CompletionRefused, CheckDeleted, Compensate, ClearIntent, FailClaimed, GiveUp
<1>2. ASSUME NEW d \in Cleaners \ {c}, CleanerStep(d) PROVE cleaner'[c] = cleaner[c]
  <2>1. cleaner \in [Cleaners -> CleanerRecs]
    BY DEF TypeOK, CleanerRecs
  <2> QED BY <1>2, <2>1 DEF CleanerStep, StartPurge, Sweep, SkipSweep, StartRepair, BeginDrain,
     CommitDrain, DeleteLeftovers, FinalizePurged, CleanerStops, Proceed, Advance
<1>3. ASSUME NEW b \in Batches, Reclaim(b) \/ LateUpsert(b) PROVE cleaner' = cleaner
  BY <1>3 DEF Reclaim, LateUpsert
<1>4. CASE RequestDelete \/ UNCHANGED vars
  BY <1>4 DEF RequestDelete, vars
<1> QED BY <1>1, <1>2, <1>3, <1>4 DEF Next

LEMMA CleanerInvStep ==
  ASSUME TypeOK, TypeOK', LockInv, WriterInv, CleanerInv, [Next]_vars
  PROVE  CleanerInv'
<1> DEFINE Purging == {"sweep", "drain", "draining", "resweep", "finalize"}
           Goal(c) ==
             /\ cleaner'[c].step \in Purging => doc' \in Deleted
             /\ cleaner'[c].seen # {} => doc' \in Deleted
             /\ cleaner'[c].step = "finalize"
                  => \A b \in points' : intent'[b] \in Open \/ late'[b] = "applied"
<1> SUFFICES ASSUME NEW c \in Cleaners PROVE Goal(c)
  BY DEF CleanerInv
<1>0. doc \in Deleted => doc' \in Deleted
  BY DeletedForGood
<1>1. CASE ~ CleanerStep(c)
  <2>1. cleaner'[c] = cleaner[c]
    BY <1>1, OtherCleaners
  <2>2. ASSUME cleaner[c].step = "finalize", NEW b \in points'
        PROVE  intent'[b] \in Open \/ late'[b] = "applied"
    <3>1. b \in Batches /\ BatchMove(b)
      BY BatchStep DEF TypeOK
    <3>2. doc \in Deleted
      BY <2>2 DEF CleanerInv
    <3>3. b \in points => intent[b] \in Open \/ late[b] = "applied"
      BY <2>2 DEF CleanerInv
    <3> QED BY <3>1, <3>2, <3>3 DEF BatchMove, Settled, Open
  <2> QED BY <1>0, <2>1, <2>2 DEF CleanerInv
<1>2. CASE StartPurge(c)
  <2>1. doc' = "tombstoned"
    BY <1>2 DEF StartPurge
  <2>2. cleaner'[c].step = "sweep"
    BY <1>2, Proceeds DEF StartPurge, CleanerSteps
  <2> QED BY <2>1, <2>2 DEF Deleted
<1>3. CASE Sweep(c) \/ SkipSweep(c)
  <2>1. PICK s \in {"drain", "finalize"} : Proceed(c, s) /\ (s = "finalize" => points' = {})
    BY <1>3 DEF Sweep, SkipSweep
  <2>2. cleaner'[c].step = s /\ cleaner'[c].seen = cleaner[c].seen
    BY <2>1, Proceeds DEF CleanerSteps
  <2>3. doc \in Deleted
    BY <1>3 DEF Sweep, SkipSweep, CleanerInv
  <2> QED BY <1>0, <2>1, <2>2, <2>3
<1>4. CASE StartRepair(c)
  <2>1. cleaner'[c] = [step |-> "repair", open |-> {}, seen |-> IF doc \in Deleted THEN points ELSE {}]
    BY <1>4 DEF StartRepair, TypeOK
  <2> QED BY <1>0, <2>1
<1>5. CASE BeginDrain(c)
  BY <1>0, <1>5, DrainBegins DEF CleanerInv
<1>6. CASE CommitDrain(c)
  BY <1>0, <1>6, DrainCommits DEF CleanerInv
<1>7. CASE DeleteLeftovers(c) \/ FinalizePurged(c) \/ CleanerStops(c)
  <2>1. cleaner'[c] = Away
    BY <1>7 DEF DeleteLeftovers, FinalizePurged, CleanerStops, TypeOK
  <2> QED BY <2>1 DEF Away
<1> HIDE DEF Goal
<1> QED BY <1>1, <1>2, <1>3, <1>4, <1>5, <1>6, <1>7 DEF CleanerStep

LEMMA BatchInvStep ==
  ASSUME TypeOK, LockInv, WriterInv, BatchInv, [Next]_vars
  PROVE  BatchInv'
<1> DEFINE Fed(b) == job'[b].status = "pending" => job'[b].attempts < MaxAttempts
           Won(b) == batch'[b] = "succeeded" => intent'[b] = "committed"
<1> SUFFICES ASSUME NEW b \in Batches PROVE Won(b) /\ Fed(b)
  BY DEF BatchInv
<1>0. batch[b] = "succeeded" => intent'[b] = "committed"
  BY BatchStep DEF BatchMove, BatchInv, Open
<1>1. job'[b] = job[b] => Fed(b)
  BY DEF BatchInv
<1>2. batch' = batch => Won(b)
  BY <1>0
<1>3. ASSUME NEW a \in Batches, Retire(a) PROVE Won(b) /\ Fed(b)
  <2>1. Won(b)
    BY <1>0, <1>3, Retires
  <2> QED BY <1>1, <1>3, <2>1, Retires
<1>4. ASSUME CancelWriters, NEW gone, FailBatches(gone) PROVE Won(b) /\ Fed(b)
  BY <1>0, <1>1, <1>4, Cancels, Fails
<1>5. ASSUME CancelWriters PROVE Fed(b)
  BY <1>1, <1>5, Cancels
<1> USE DEF TypeOK
<1>6. ASSUME NEW w \in Writers, WriterStep(w) PROVE Won(b) /\ Fed(b)
  <2>1. ASSUME NEW a \in Batches, Claim(w, a) PROVE Won(b) /\ Fed(b)
    <3>1. b # a => job'[b] = job[b]
      BY <2>1 DEF Claim
    <3>2. b = a => job'[b].status = "leased"
      BY <2>1 DEF Claim
    <3> QED BY <1>1, <1>2, <2>1, <3>1, <3>2 DEF Claim
  <2>2. CASE CompleteBatch(w)
    <3>1. PICK a \in Batches : /\ job' = [job EXCEPT ![a] = [job[a] EXCEPT !.status = "succeeded"]]
                               /\ batch' = [batch EXCEPT ![a] = "succeeded"]
                               /\ intent' = [intent EXCEPT ![a] = "committed"]
      BY <2>2, WorkingWriter DEF CompleteBatch
    <3>2. b # a => job'[b] = job[b] /\ batch'[b] = batch[b]
      BY <3>1
    <3>3. b = a => job'[b].status = "succeeded" /\ intent'[b] = "committed"
      BY <3>1, StatusType
    <3> QED BY <1>0, <1>1, <3>2, <3>3
  <2>3. CASE FailClaimed(w)
    <3>1. writer[w].batch \in Batches
      BY <2>3, WorkingWriter DEF FailClaimed
    <3> QED BY <1>1, <1>2, <1>3, <2>3, <3>1 DEF FailClaimed
  <2>4. ASSUME ~ (\E a \in Batches : Claim(w, a)), ~ CompleteBatch(w), ~ FailClaimed(w)
        PROVE  job' = job /\ batch' = batch
    BY <1>6, <2>4 DEF WriterStep, RecordIntent, BeginWrite, Upsert, CommitWrite, Abandon,
       CompletionRefused, CheckDeleted, Compensate, ClearIntent, GiveUp
  <2> QED BY <1>1, <1>2, <2>1, <2>2, <2>3, <2>4
<1>7. ASSUME NEW c \in Cleaners, CleanerStep(c) PROVE Won(b) /\ Fed(b)
  <2>1. CASE CommitDrain(c)
    BY <1>1, <1>2, <1>5, <2>1 DEF CommitDrain
  <2>2. CASE FinalizePurged(c)
    BY <1>1, <1>2, <1>4, <2>2 DEF FinalizePurged
  <2>3. ASSUME ~ CommitDrain(c), ~ FinalizePurged(c) PROVE job' = job /\ batch' = batch
    BY <1>7, <2>3 DEF CleanerStep, StartPurge, Sweep, SkipSweep, StartRepair, BeginDrain,
       DeleteLeftovers, CleanerStops
  <2> QED BY <1>1, <1>2, <2>1, <2>2, <2>3
<1>8. ASSUME NEW a \in Batches, Reclaim(a) \/ LateUpsert(a) PROVE Won(b) /\ Fed(b)
  BY <1>1, <1>2, <1>3, <1>8 DEF Reclaim, LateUpsert
<1>9. CASE RequestDelete
  BY <1>4, <1>9 DEF RequestDelete
<1>10. CASE UNCHANGED vars
  BY <1>1, <1>2, <1>10 DEF vars
<1> QED BY <1>6, <1>7, <1>8, <1>9, <1>10 DEF Next

\* A step that leaves the lock where it is leaves the holder's batch, its row
\* and the listed rows alone too.
LEMMA LockKept ==
  ASSUME LockInv, lock' = lock,
         \A w \in Writers : /\ (writer'[w].step \in Midway) <=> (writer[w].step \in Midway)
                            /\ lock = w => writer'[w].batch = writer[w].batch
                                           /\ intent'[writer[w].batch] = intent[writer[w].batch],
         \A c \in Cleaners : /\ (cleaner'[c].step \in Draining) <=> (cleaner[c].step \in Draining)
                             /\ lock = c => cleaner'[c].open = cleaner[c].open
                             /\ lock = c => \A b \in cleaner[c].open :
                                  /\ intent'[b] = intent[b]
                                  /\ b \in points' => b \in points \/ late'[b] = "applied"
                                  /\ late[b] = "applied" => late'[b] = "applied"
  PROVE  LockInv'
BY DEF LockInv

\* A step that frees the lock takes its holder out of the locked section.
LEMMA LockFreed ==
  ASSUME LockInv, lock' = NoOne,
         \A w \in Writers : /\ writer'[w].step \in Midway => writer[w].step \in Midway
                            /\ lock = w => writer'[w].step \notin Midway,
         \A c \in Cleaners : /\ cleaner'[c].step \in Draining => cleaner[c].step \in Draining
                             /\ lock = c => cleaner'[c].step \notin Draining
  PROVE  LockInv'
BY Assumption DEF Assumption, LockInv

\* The lock has one kind of holder at a time.
LEMMA OneHolder ==
  ASSUME LockInv
  PROVE  /\ \A w \in Writers : writer[w].step \in Midway => lock = w /\ lock \notin Cleaners
         /\ \A c \in Cleaners : cleaner[c].step \in Draining => lock = c /\ lock \notin Writers
BY Assumption DEF Assumption, LockInv

LEMMA LockWriterStep ==
  ASSUME TypeOK, LockInv, NEW w \in Writers, WriterStep(w)
  PROVE  LockInv'
<1> DEFINE a == writer[w].batch
<1>0. /\ writer \in [Writers -> {Resting} \cup WriterRecs]
      /\ intent \in [Batches -> {"none", "pending", "writing", "cleaned", "committed"}]
      /\ late \in [Batches -> {"none", "flying", "applied"}]
      /\ lock \in Cleaners => lock \notin Writers
  BY Assumption DEF TypeOK, WriterRecs, Assumption
<1>h. ASSUME lock' = lock, cleaner' = cleaner, late' = late,
             \A v \in Writers \ {w} : writer'[v] = writer[v],
             (writer'[w].step \in Midway) <=> (writer[w].step \in Midway),
             writer[w].step \in Midway => writer'[w].batch = a /\ intent'[a] = intent[a],
             \A b \in Batches : ~ RowFree(b) => intent'[b] = intent[b],
             lock \in Cleaners => points' \subseteq points
      PROVE  LockInv'
  <2>1. ASSUME NEW v \in Writers, lock = v
        PROVE  writer'[v].batch = writer[v].batch /\ intent'[writer[v].batch] = intent[writer[v].batch]
    <3>1. writer[v].step \in Midway
      BY <2>1 DEF LockInv
    <3>2. writer[v].batch \in Batches
      BY <3>1, WorkingWriter DEF Midway
    <3>3. ~ RowFree(writer[v].batch)
      BY <2>1 DEF RowFree
    <3> QED BY <1>h, <3>1, <3>2, <3>3
  <2>2. ASSUME NEW c \in Cleaners, lock = c, NEW b \in cleaner[c].open
        PROVE  intent'[b] = intent[b] /\ (b \in points' => b \in points)
    <3>1. b \in Batches
      BY DEF TypeOK
    <3>2. ~ RowFree(b)
      BY <2>2 DEF RowFree
    <3> QED BY <1>h, <2>2, <3>1, <3>2
  <2> QED BY <1>h, <2>1, <2>2, LockKept
<1>1. ASSUME NEW b \in Batches, Claim(w, b) PROVE LockInv'
  <2>1. /\ \A v \in Writers \ {w} : writer'[v] = writer[v]
        /\ writer'[w].step \notin Midway /\ writer[w].step \notin Midway
    BY <1>0, <1>1 DEF Claim, Midway, Resting
  <2> QED BY <1>1, <1>h, <2>1 DEF Claim
<1>2. CASE RecordIntent(w)
  <2>1. /\ \A v \in Writers \ {w} : writer'[v] = writer[v]
        /\ writer'[w].step \notin Midway /\ writer[w].step \notin Midway
    BY <1>2, Goes DEF RecordIntent, Midway, WriterSteps
  <2>2. \A b \in Batches : ~ RowFree(b) => intent'[b] = intent[b]
    BY <1>0, <1>2 DEF RecordIntent
  <2> QED BY <1>2, <1>h, <2>1, <2>2 DEF RecordIntent
<1>3. CASE BeginWrite(w)
  <2>1. CASE GoTo(w, "failing") /\ UNCHANGED lock
    <3>1. /\ \A v \in Writers \ {w} : writer'[v] = writer[v]
          /\ writer'[w].step \notin Midway /\ writer[w].step \notin Midway
      BY <1>3, <2>1, Goes DEF BeginWrite, Midway, WriterSteps
    <3> QED BY <1>3, <1>h, <2>1, <3>1 DEF BeginWrite
  <2>2. CASE MayBeginWrite(intent[a]) /\ lock' = w /\ GoTo(w, "upserting")
    <3>1. /\ \A v \in Writers \ {w} : writer'[v] = writer[v]
          /\ writer'[w].step = "upserting" /\ writer'[w].batch = a
      BY <1>3, <2>2, Goes DEF BeginWrite, WriterSteps
    <3>2. lock = NoOne /\ intent' = intent /\ intent[a] = "pending" /\ cleaner' = cleaner
      BY <1>3, <2>2 DEF BeginWrite, LockFree, MayBeginWrite
    <3>3. w \notin Cleaners /\ NoOne \notin Writers \cup Cleaners
      BY Assumption DEF Assumption
    <3> QED BY <2>2, <3>1, <3>2, <3>3 DEF LockInv, Midway
  <2> QED BY <1>3, <2>1, <2>2 DEF BeginWrite
<1>4. CASE Upsert(w)
  <2>1. /\ \A v \in Writers \ {w} : writer'[v] = writer[v]
        /\ writer'[w].step \in Midway /\ writer[w].step \in Midway /\ writer'[w].batch = a
    BY <1>4, Goes DEF Upsert, Midway, WriterSteps
  <2>2. lock \notin Cleaners
    BY <2>1, OneHolder
  <2> QED BY <1>4, <1>h, <2>1, <2>2 DEF Upsert
<1>5. CASE CommitWrite(w)
  <2>1. /\ \A v \in Writers \ {w} : writer'[v] = writer[v]
        /\ writer'[w].step \notin Midway /\ writer[w].step \in Midway
    BY <1>5, Goes DEF CommitWrite, Midway, WriterSteps
  <2>2. lock = w /\ lock \notin Cleaners
    BY <2>1, OneHolder
  <2> QED BY <1>5, <2>1, <2>2, LockFreed DEF CommitWrite
<1>6. CASE Abandon(w)
  <2>1. /\ \A v \in Writers \ {w} : writer'[v] = writer[v]
        /\ writer'[w].step \notin Midway /\ writer[w].step \in Midway
    BY <1>6, Goes, Rests DEF Abandon, Midway, WriterSteps
  <2>2. lock = w /\ lock \notin Cleaners
    BY <2>1, OneHolder
  <2> QED BY <1>6, <2>1, <2>2, LockFreed DEF Abandon
<1>7. CASE CompleteBatch(w)
  <2>1. /\ \A v \in Writers \ {w} : writer'[v] = writer[v]
        /\ writer'[w].step \notin Midway /\ writer[w].step \notin Midway
    BY <1>7, Rests DEF CompleteBatch, Midway
  <2>2. \A b \in Batches : ~ RowFree(b) => intent'[b] = intent[b]
    BY <1>0, <1>7 DEF CompleteBatch
  <2> QED BY <1>7, <1>h, <2>1, <2>2 DEF CompleteBatch
<1>8. CASE CompletionRefused(w)
  <2>1. PICK s \in {"compensating", "lost", "failing"} : GoTo(w, s)
    BY <1>8 DEF CompletionRefused
  <2>2. /\ \A v \in Writers \ {w} : writer'[v] = writer[v]
        /\ writer'[w].step \notin Midway /\ writer[w].step \notin Midway
    BY <1>8, <2>1, Goes DEF CompletionRefused, Midway, WriterSteps
  <2> QED BY <1>8, <1>h, <2>2 DEF CompletionRefused
<1>9. CASE CheckDeleted(w)
  <2>1. /\ \A v \in Writers \ {w} : writer'[v] = writer[v]
        /\ writer'[w].step \notin Midway /\ writer[w].step \notin Midway
    BY <1>9, Goes, Rests DEF CheckDeleted, Midway, WriterSteps
  <2> QED BY <1>9, <1>h, <2>1 DEF CheckDeleted
<1>10. CASE Compensate(w)
  <2>1. /\ \A v \in Writers \ {w} : writer'[v] = writer[v]
        /\ writer'[w].step \notin Midway /\ writer[w].step \notin Midway
    BY <1>10, Goes DEF Compensate, Midway, WriterSteps
  <2> QED BY <1>10, <1>h, <2>1 DEF Compensate
<1>11. CASE ClearIntent(w)
  <2>1. /\ \A v \in Writers \ {w} : writer'[v] = writer[v]
        /\ writer'[w].step \notin Midway /\ writer[w].step \notin Midway
    BY <1>11, Goes DEF ClearIntent, Midway, WriterSteps
  <2>2. \A b \in Batches : ~ RowFree(b) => intent'[b] = intent[b]
    BY <1>0, <1>11 DEF ClearIntent
  <2> QED BY <1>11, <1>h, <2>1, <2>2 DEF ClearIntent
<1>12. CASE FailClaimed(w)
  <2>1. /\ \A v \in Writers \ {w} : writer'[v] = writer[v]
        /\ writer'[w].step \notin Midway /\ writer[w].step \notin Midway
    BY <1>12, Rests DEF FailClaimed, Midway
  <2> QED BY <1>12, <1>h, <2>1 DEF FailClaimed
<1>13. CASE GiveUp(w)
  <2>1. /\ \A v \in Writers \ {w} : writer'[v] = writer[v]
        /\ writer'[w].step \notin Midway /\ writer[w].step \notin Midway
    BY <1>13, Goes, Rests DEF GiveUp, Midway, WriterSteps
  <2> QED BY <1>13, <1>h, <2>1 DEF GiveUp
<1> QED BY <1>1, <1>2, <1>3, <1>4, <1>5, <1>6, <1>7, <1>8, <1>9, <1>10, <1>11,
           <1>12, <1>13 DEF WriterStep

LEMMA LockCleanerStep ==
  ASSUME TypeOK, LockInv, NEW c \in Cleaners, CleanerStep(c)
  PROVE  LockInv'
<1>0. cleaner \in [Cleaners -> CleanerRecs] /\ writer' = writer
  BY DEF TypeOK, CleanerRecs, CleanerStep, StartPurge, Sweep, SkipSweep, StartRepair, BeginDrain,
     CommitDrain, DeleteLeftovers, FinalizePurged, CleanerStops
<1>h. ASSUME lock' = lock, intent' = intent, late' = late, points' \subseteq points,
             \A d \in Cleaners \ {c} : cleaner'[d] = cleaner[d],
             cleaner'[c].step \notin Draining, cleaner[c].step \notin Draining
      PROVE  LockInv'
  <2>1. lock # c
    BY <1>h DEF LockInv
  <2> QED BY <1>0, <1>h, <2>1, LockKept
<1>1. CASE StartPurge(c)
  <2>1. /\ \A d \in Cleaners \ {c} : cleaner'[d] = cleaner[d]
        /\ cleaner'[c].step \notin Draining /\ cleaner[c].step \notin Draining
    BY <1>1, Proceeds DEF StartPurge, Draining, CleanerSteps, Away
  <2> QED BY <1>1, <1>h, <2>1 DEF StartPurge
<1>2. CASE Sweep(c) \/ SkipSweep(c)
  <2>1. /\ \A d \in Cleaners \ {c} : cleaner'[d] = cleaner[d]
        /\ cleaner'[c].step \notin Draining /\ cleaner[c].step \notin Draining
    BY <1>2, Proceeds DEF Sweep, SkipSweep, Draining, CleanerSteps
  <2> QED BY <1>2, <1>h, <2>1 DEF Sweep, SkipSweep
<1>3. CASE StartRepair(c)
  <2>1. /\ \A d \in Cleaners \ {c} : cleaner'[d] = cleaner[d]
        /\ cleaner'[c].step \notin Draining /\ cleaner[c].step \notin Draining
    BY <1>0, <1>3 DEF StartRepair, Draining, Away
  <2> QED BY <1>3, <1>h, <2>1 DEF StartRepair
<1>4. CASE BeginDrain(c)
  <2>1. /\ \A d \in Cleaners \ {c} : cleaner'[d] = cleaner[d]
        /\ cleaner'[c].step \in Draining /\ cleaner'[c].open = OpenIntents
    BY <1>4, DrainBegins DEF Draining
  <2>2. lock = NoOne /\ lock' = c /\ intent' = intent /\ points' = points \ OpenIntents
    BY <1>4 DEF BeginDrain, LockFree
  <2>3. c \notin Writers /\ NoOne \notin Writers \cup Cleaners
    BY Assumption DEF Assumption
  <2> QED BY <1>0, <2>1, <2>2, <2>3 DEF LockInv, OpenIntents
<1>5. CASE CommitDrain(c)
  <2>1. /\ \A d \in Cleaners \ {c} : cleaner'[d] = cleaner[d]
        /\ cleaner'[c].step \notin Draining /\ cleaner[c].step \in Draining
    BY <1>5, DrainCommits DEF CommitDrain, Draining
  <2>2. lock = c /\ lock \notin Writers
    BY <2>1, OneHolder
  <2> QED BY <1>0, <1>5, <2>1, <2>2, LockFreed DEF CommitDrain
<1>6. CASE DeleteLeftovers(c) \/ FinalizePurged(c)
  <2>1. /\ \A d \in Cleaners \ {c} : cleaner'[d] = cleaner[d]
        /\ cleaner'[c].step \notin Draining /\ cleaner[c].step \notin Draining
    BY <1>0, <1>6 DEF DeleteLeftovers, FinalizePurged, Draining, Away
  <2> QED BY <1>6, <1>h, <2>1 DEF DeleteLeftovers, FinalizePurged
<1>7. CASE CleanerStops(c)
  <2>1. /\ \A d \in Cleaners \ {c} : cleaner'[d] = cleaner[d]
        /\ cleaner'[c].step \notin Draining
    BY <1>0, <1>7 DEF CleanerStops, Draining, Away
  <2>2. CASE lock = c
    <3>1. c \notin Writers
      BY Assumption DEF Assumption
    <3> QED BY <1>0, <1>7, <2>1, <2>2, <3>1, LockFreed DEF CleanerStops
  <2>3. CASE lock # c
    <3>1. cleaner[c].step \notin Draining
      BY <2>3 DEF LockInv
    <3> QED BY <1>7, <1>h, <2>1, <2>3, <3>1 DEF CleanerStops
  <2> QED BY <2>2, <2>3
<1> QED BY <1>1, <1>2, <1>3, <1>4, <1>5, <1>6, <1>7 DEF CleanerStep

LEMMA LockInvStep ==
  ASSUME TypeOK, LockInv, [Next]_vars
  PROVE  LockInv'
<1>1. ASSUME NEW b \in Batches, Reclaim(b) PROVE LockInv'
  BY <1>1, LockKept DEF Reclaim
<1>2. ASSUME NEW b \in Batches, LateUpsert(b) PROVE LockInv'
  <2>1. \A a \in Batches : /\ a \in points' => a \in points \/ late'[a] = "applied"
                           /\ late[a] = "applied" => late'[a] = "applied"
    BY <1>2 DEF LateUpsert, TypeOK
  <2>2. \A c \in Cleaners : cleaner[c].open \subseteq Batches
    BY DEF TypeOK
  <2>3. UNCHANGED <<lock, writer, cleaner, intent>>
    BY <1>2 DEF LateUpsert
  <2> QED BY <2>1, <2>2, <2>3, LockKept
<1>3. CASE RequestDelete \/ UNCHANGED vars
  BY <1>3, LockKept DEF RequestDelete, vars
<1> QED BY <1>1, <1>2, <1>3, LockWriterStep, LockCleanerStep DEF Next

-----------------------------------------------------------------------------
(* What holds with any number of batches, workers and faults.              *)

LEMMA IInvInit == Init => IInv
<1> SUFFICES ASSUME Init PROVE IInv
  OBVIOUS
<1> USE DEF Init
<1>1. TypeOK
  BY Assumption DEF TypeOK, JobRows, Active, Resting, Away, CleanerSteps, Assumption
<1>2. LockInv /\ WriterInv /\ CleanerInv
  BY Assumption DEF LockInv, WriterInv, CleanerInv, Midway, Draining, AfterWrite, Resting, Away,
     Assumption
<1>3. PurgedInv /\ BatchInv /\ PointsAreCovered /\ IndexedIsComplete
  BY Assumption DEF PurgedInv, BatchInv, PointsAreCovered, IndexedIsComplete, Assumption
<1> QED BY <1>1, <1>2, <1>3 DEF IInv

LEMMA IInvStep ==
  ASSUME IInv, [Next]_vars
  PROVE  IInv'
<1> USE DEF IInv
<1>1. TypeOK'
  BY TypeStep
<1>2. LockInv' /\ WriterInv' /\ CleanerInv'
  BY <1>1, LockInvStep, WriterInvStep, CleanerInvStep
<1>3. PurgedInv' /\ BatchInv' /\ PointsAreCovered' /\ IndexedIsComplete'
  BY <1>1, PurgedInvStep, BatchInvStep, PointsAreCoveredStep, IndexedIsCompleteStep
<1> QED BY <1>1, <1>2, <1>3

\* Every reachable state satisfies the inductive invariant.
THEOREM InductiveInvariant == Spec => []IInv
<1>1. IInv /\ [Next]_vars => IInv'
  BY IInvStep
<1> QED BY <1>1, IInvInit, PTL DEF Spec

\* Documents, jobs, batches, intents and workers stay in the states the code
\* knows.
THEOREM TypeCorrect == Spec => []TypeOK
<1>1. IInv => TypeOK
  BY DEF IInv
<1> QED BY <1>1, InductiveInvariant, PTL

\* Once finalize_purged has gone through, no point is left in Qdrant and no
\* writer is under way, but for an upsert applied after its caller gave it up.
THEOREM PurgeIsFinal == Spec => []PurgedLeavesNoVector
<1>1. IInv => PurgedLeavesNoVector
  <2> SUFFICES ASSUME IInv, doc = "purged"
               PROVE  /\ \A b \in points : late[b] = "applied"
                      /\ \A w \in Writers : writer[w].step \notin Midway
    BY DEF PurgedLeavesNoVector, Midway
  <2>1. PurgedInv /\ LockInv /\ TypeOK
    BY DEF IInv
  <2>2. ASSUME NEW w \in Writers, writer[w].step \in Midway PROVE FALSE
    <3>1. writer[w].batch \in Batches
      BY <2>1, <2>2, WorkingWriter DEF Midway
    <3>2. intent[writer[w].batch] = "pending"
      BY <2>1, <2>2 DEF LockInv
    <3> QED BY <2>1, <3>1, <3>2 DEF PurgedInv, Open
  <2> QED BY <2>1, <2>2 DEF PurgedInv
<1> QED BY <1>1, InductiveInvariant, PTL

\* Whoever dies or is fenced between the intent and its completion, the points
\* are of a completed batch or a drain will find them.
THEOREM PointsStayCovered == Spec => []PointsAreCovered
<1>1. IInv => PointsAreCovered
  BY DEF IInv
<1> QED BY <1>1, InductiveInvariant, PTL

\* document_batches_complete lets a document become indexed only with every
\* batch committed, and no drain or late writer takes that back.
THEOREM IndexedStaysComplete == Spec => []IndexedIsComplete
<1>1. IInv => IndexedIsComplete
  BY DEF IInv
<1> QED BY <1>1, InductiveInvariant, PTL

-----------------------------------------------------------------------------
(* A document that has batches and is being indexed.                       *)

\* Jobs and batches move together; what a drain left is not completed.
LEMMA IndexingKept ==
  ASSUME IndexingInv, doc' = "indexing" => doc = "indexing", batch' = batch,
         \A b \in Batches : job'[b] = job[b] \/ job'[b].status \in Active,
         \A b \in Batches : intent[b] = "cleaned" => intent'[b] = "cleaned"
  PROVE  IndexingInv'
BY DEF IndexingInv, Active

LEMMA IndexingStep ==
  ASSUME IInv, IndexingInv, [Next]_vars
  PROVE  IndexingInv'
<1> SUFFICES ASSUME doc' = "indexing" PROVE IndexingInv'
  BY DEF IndexingInv
<1>0. TypeOK /\ LockInv /\ WriterInv /\ BatchInv
  BY DEF IInv
<1>1. doc = "indexing"
  BY <1>0, DocStep
<1>2. \A b \in Batches : intent[b] = "cleaned" => intent'[b] = "cleaned"
  BY <1>0, BatchStep DEF BatchMove, Open
<1>3. ASSUME job' = job, batch' = batch PROVE IndexingInv'
  BY <1>1, <1>2, <1>3, IndexingKept
<1>4. ASSUME NEW b \in Batches, Retire(b) PROVE IndexingInv'
  BY <1>0, <1>1, <1>2, <1>4, Retires, IndexingKept DEF Active
<1>5. ASSUME NEW w \in Writers, NEW b \in Batches, Claim(w, b) PROVE IndexingInv'
  <2>1. \A a \in Batches : job'[a] = job[a] \/ job'[a].status \in Active
    BY <1>0, <1>5 DEF Claim, TypeOK, Active
  <2> QED BY <1>1, <1>2, <1>5, <2>1, IndexingKept DEF Claim
<1>6. ASSUME NEW w \in Writers, CompleteBatch(w) PROVE IndexingInv'
  <2> DEFINE b == writer[w].batch
  <2>1. /\ b \in Batches
        /\ job' = [job EXCEPT ![b] = [job[b] EXCEPT !.status = "succeeded"]]
        /\ batch' = [batch EXCEPT ![b] = "succeeded"]
        /\ intent[b] = "writing"
    BY <1>0, <1>6, WorkingWriter DEF CompleteBatch, Completable
  <2>2. ~ OthersSucceeded(b)
    BY <1>1, <1>6 DEF CompleteBatch
  <2> HIDE DEF b
  <2>3. /\ \A a \in Batches : a # b => job'[a] = job[a] /\ batch'[a] = batch[a]
        /\ batch'[b] = "succeeded" /\ job'[b].status = "succeeded"
    BY <1>0, <2>1, StatusType DEF TypeOK
  <2>4. \E a \in Batches : batch'[a] # "succeeded"
    BY <2>2, <2>3 DEF OthersSucceeded
  <2>5. ASSUME NEW a \in Batches, job'[a].status = "cancelled"
        PROVE  \E d \in Batches : intent'[d] = "cleaned" /\ batch'[d] = "pending"
    <3>1. job[a].status = "cancelled"
      BY <2>3, <2>5
    <3>2. PICK d \in Batches : intent[d] = "cleaned" /\ batch[d] = "pending"
      BY <1>1, <3>1 DEF IndexingInv
    <3> QED BY <1>2, <2>1, <2>3, <3>2
  <2> QED BY <1>1, <2>3, <2>4, <2>5 DEF IndexingInv
<1>7. ASSUME NEW w \in Writers, FailClaimed(w) PROVE IndexingInv'
  <2>1. writer[w].batch \in Batches
    BY <1>0, <1>7, WorkingWriter DEF FailClaimed
  <2> QED BY <1>3, <1>4, <1>7, <2>1 DEF FailClaimed
<1>8. ASSUME NEW w \in Writers, WriterStep(w), ~ (\E b \in Batches : Claim(w, b)),
             ~ CompleteBatch(w), ~ FailClaimed(w)
      PROVE  job' = job /\ batch' = batch
  BY <1>8 DEF WriterStep, RecordIntent, BeginWrite, Upsert, CommitWrite, Abandon,
     CompletionRefused, CheckDeleted, Compensate, ClearIntent, GiveUp
<1>9. ASSUME NEW c \in Cleaners, CommitDrain(c) PROVE IndexingInv'
  <2>1. CASE ~ DrainCancels(c)
    BY <1>3, <1>9, <2>1 DEF CommitDrain
  <2>2. CASE DrainCancels(c)
    <3>1. CancelWriters /\ batch' = batch
      BY <1>9, <2>2 DEF CommitDrain
    <3>2. PICK d \in cleaner[c].open : intent[d] = "writing"
      BY <2>2 DEF DrainCancels
    <3>3. d \in Batches /\ intent'[d] = "cleaned"
      BY <1>0, <1>9, <3>2 DEF CommitDrain, TypeOK
    <3>4. batch[d] = "pending"
      BY <1>0, <1>1, <3>2, <3>3 DEF BatchInv, IndexingInv, TypeOK
    <3>5. \A b \in Batches : job'[b] = job[b] \/ job'[b].status = "cancelled"
      BY <1>0, <3>1, Cancels
    <3> QED BY <1>1, <3>1, <3>3, <3>4, <3>5 DEF IndexingInv
  <2> QED BY <2>1, <2>2
<1>10. ASSUME NEW c \in Cleaners, FinalizePurged(c) PROVE IndexingInv'
  BY <1>1, <1>3, <1>10 DEF FinalizePurged
<1>11. ASSUME NEW c \in Cleaners, CleanerStep(c), ~ CommitDrain(c), ~ FinalizePurged(c)
       PROVE  job' = job /\ batch' = batch
  BY <1>11 DEF CleanerStep, StartPurge, Sweep, SkipSweep, StartRepair, BeginDrain,
     DeleteLeftovers, CleanerStops
<1>12. ASSUME NEW b \in Batches, Reclaim(b) \/ LateUpsert(b) PROVE IndexingInv'
  BY <1>3, <1>4, <1>12 DEF Reclaim, LateUpsert
<1>13. ~ RequestDelete
  BY <1>1 DEF RequestDelete
<1>14. CASE UNCHANGED vars
  BY <1>3, <1>14 DEF vars
<1> QED BY <1>3, <1>5, <1>6, <1>7, <1>8, <1>9, <1>10, <1>11, <1>12, <1>13, <1>14 DEF Next

\* No death, fence or exhausted attempt leaves a document `indexing` for ever
\* with nothing in the queue, but a drain that cancels the job of a batch it
\* did not complete.
THEOREM OnlyDrainsLeaveItIndexing ==
  ASSUME Batches # {}
  PROVE  Spec => []OnlyDrainsStrand
<1>1. Init => IndexingInv
  BY Assumption DEF Init, IndexingInv, Assumption
<1>2. IInv /\ IndexingInv /\ [Next]_vars => IndexingInv'
  BY IndexingStep
<1>3. IInv /\ IndexingInv => OnlyDrainsStrand
  <2> SUFFICES ASSUME IInv, IndexingInv, doc = "indexing",
                      \A b \in Batches : job[b].status \notin Active
               PROVE  \E b \in Batches : intent[b] = "cleaned" /\ batch[b] = "pending"
    BY DEF OnlyDrainsStrand
  <2>1. PICK b \in Batches : batch[b] # "succeeded"
    BY DEF IndexingInv
  <2>2. job[b].status \in Active \cup {"succeeded", "cancelled", "dead_letter"}
    BY DEF IInv, TypeOK, JobRows
  <2>3. job[b].status = "cancelled"
    BY <2>1, <2>2 DEF IndexingInv
  <2> QED BY <2>3 DEF IndexingInv
<1> QED BY <1>1, <1>2, <1>3, InductiveInvariant, PTL DEF Spec

-----------------------------------------------------------------------------
(* A live document whose repairs do not fail in the middle of a drain.     *)

\* Points stay, nothing new is claimed about them, a drain keeps its list.
LEMMA PointsKept ==
  ASSUME PointsInv, doc' \notin Deleted => doc \notin Deleted, points \subseteq points',
         \A w \in Writers : writer'[w].step = "upserted" =>
            \/ writer[w].step = "upserted" /\ writer'[w].batch = writer[w].batch
            \/ writer'[w].batch \in points',
         \A b \in Batches : /\ batch'[b] = "succeeded" => batch[b] = "succeeded" \/ b \in points'
                            /\ intent'[b] = "writing" => intent[b] = "writing" \/ b \in points',
         \A c \in Cleaners : lock = c => lock' = c /\ cleaner'[c].open = cleaner[c].open
  PROVE  PointsInv'
BY DEF PointsInv

\* A deletion from Qdrant takes only points that the live document can spare.
LEMMA PointsStep ==
  ASSUME ~ DrainFaults, IInv, PointsInv, [Next]_vars
  PROVE  PointsInv'
<1>0. /\ TypeOK /\ LockInv /\ WriterInv /\ BatchInv /\ CleanerInv
      /\ writer \in [Writers -> {Resting} \cup WriterRecs]
      /\ cleaner \in [Cleaners -> CleanerRecs]
      /\ intent \in [Batches -> {"none", "pending", "writing", "cleaned", "committed"}]
      /\ batch \in [Batches -> {"pending", "succeeded", "failed"}]
      /\ doc' \notin Deleted => doc \notin Deleted
  BY DeletedForGood DEF IInv, TypeOK, WriterRecs, CleanerRecs
<1> SUFFICES ASSUME doc' \notin Deleted, doc \notin Deleted PROVE PointsInv'
  BY <1>0 DEF PointsInv
<1>h. ASSUME points \subseteq points', batch' = batch, intent' = intent, cleaner' = cleaner,
             lock' = lock \/ lock \notin Cleaners,
             \A w \in Writers : writer'[w] = writer[w] \/ writer'[w].step # "upserted"
                                \/ writer'[w].batch \in points'
      PROVE  PointsInv'
  BY <1>h, PointsKept
<1>m. \A w \in Writers : writer[w].step \in Midway => lock = w /\ lock \notin Cleaners
  BY <1>0, OneHolder
<1>1. ASSUME NEW w \in Writers, WriterStep(w) PROVE PointsInv'
  <2> DEFINE a == writer[w].batch
  <2>0. /\ cleaner' = cleaner
        /\ \A v \in Writers \ {w} : writer'[v] = writer[v]
    BY <1>0, <1>1 DEF WriterStep, Claim, RecordIntent, BeginWrite, Upsert, CommitWrite, Abandon,
     CompleteBatch, CompletionRefused, CheckDeleted, Compensate, ClearIntent, FailClaimed, GiveUp,
     GoTo, Rest
  <2>1. ASSUME NEW b \in Batches, Claim(w, b) PROVE PointsInv'
    <3>1. writer'[w].step = "claimed"
      BY <1>0, <2>1 DEF Claim
    <3> QED BY <1>h, <2>0, <2>1, <3>1 DEF Claim
  <2>2. CASE RecordIntent(w)
    <3>1. writer'[w].step # "upserted"
      BY <1>0, <2>2, Goes DEF RecordIntent, WriterSteps
    <3>2. \A b \in Batches : intent'[b] = "writing" => intent[b] = "writing"
      BY <1>0, <2>2 DEF RecordIntent, UpsertedIntent
    <3> QED BY <2>0, <2>2, <3>1, <3>2, PointsKept DEF RecordIntent
  <2>3. CASE BeginWrite(w)
    <3>1. writer'[w].step # "upserted" /\ lock \notin Cleaners
      BY <1>0, <2>3, Goes, Assumption DEF BeginWrite, WriterSteps, LockFree, Assumption
    <3> QED BY <1>h, <2>0, <2>3, <3>1 DEF BeginWrite
  <2>4. CASE Upsert(w)
    <3>1. writer'[w].batch \in points' /\ points \subseteq points'
      BY <1>0, <2>4, Goes DEF Upsert, WriterSteps
    <3> QED BY <1>h, <2>0, <2>4, <3>1 DEF Upsert
  <2>5. CASE CommitWrite(w)
    <3>1. writer'[w].step # "upserted" /\ lock \notin Cleaners
      BY <1>0, <1>m, <2>5, Goes DEF CommitWrite, WriterSteps, Midway
    <3>2. a \in points
      BY <2>5 DEF CommitWrite, PointsInv
    <3>3. \A b \in Batches : intent'[b] = "writing" => intent[b] = "writing" \/ b \in points
      BY <1>0, <2>5, <3>2 DEF CommitWrite
    <3> QED BY <2>0, <2>5, <3>1, <3>3, PointsKept DEF CommitWrite
  <2>6. CASE Abandon(w)
    <3>1. writer'[w].step # "upserted" /\ lock \notin Cleaners
      BY <1>0, <1>m, <2>6, Goes, Rests DEF Abandon, WriterSteps, Midway
    <3> QED BY <1>h, <2>0, <2>6, <3>1 DEF Abandon
  <2>7. CASE CompleteBatch(w)
    <3>1. writer'[w].step # "upserted" /\ a \in Batches
      BY <1>0, <2>7, Rests, WorkingWriter DEF CompleteBatch
    <3>2. a \in points
      BY <2>7, <3>1 DEF CompleteBatch, Completable, PointsInv, RowFree
    <3>3. \A b \in Batches : /\ batch'[b] = "succeeded" => batch[b] = "succeeded" \/ b \in points
                             /\ intent'[b] = "writing" => intent[b] = "writing"
      BY <1>0, <2>7, <3>2 DEF CompleteBatch
    <3> QED BY <2>0, <2>7, <3>1, <3>3, PointsKept DEF CompleteBatch
  <2>8. CASE CompletionRefused(w)
    <3>1. PICK s \in {"compensating", "lost", "failing"} : GoTo(w, s)
      BY <2>8 DEF CompletionRefused
    <3>2. writer'[w].step # "upserted"
      BY <1>0, <2>8, <3>1, Goes DEF CompletionRefused, WriterSteps
    <3> QED BY <1>h, <2>0, <2>8, <3>2 DEF CompletionRefused
  <2>9. CASE CheckDeleted(w)
    <3>1. writer'[w].step # "upserted"
      BY <1>0, <2>9, Goes, Rests DEF CheckDeleted, WriterSteps
    <3> QED BY <1>h, <2>0, <2>9, <3>1 DEF CheckDeleted
  <2>10. CASE Compensate(w)
    <3>1. writer'[w].step # "upserted"
      BY <1>0, <2>10, Goes DEF Compensate, WriterSteps
    <3>2. CASE UNCHANGED points
      BY <1>h, <2>0, <2>10, <3>1, <3>2 DEF Compensate
    <3>3. CASE points' = points \ {a}
      <4>1. a \in Batches /\ intent[a] = "cleaned"
        BY <1>0, <2>10, WorkingWriter DEF Compensate, WriterInv
      <4>2. \A v \in Writers : writer'[v].step = "upserted" => writer[v].step = "upserted"
                                     /\ writer'[v].batch = writer[v].batch /\ writer[v].batch # a
        BY <1>0, <2>0, <3>1, <4>1 DEF LockInv, Midway
      <4>3. batch[a] # "succeeded"
        BY <1>0, <4>1 DEF BatchInv
      <4>4. UNCHANGED <<doc, batch, intent, lock, cleaner>>
        BY <2>0, <2>10 DEF Compensate
      <4> QED BY <3>3, <4>1, <4>2, <4>3, <4>4 DEF PointsInv
    <3> QED BY <2>10, <3>2, <3>3 DEF Compensate
  <2>11. CASE ClearIntent(w)
    <3>1. writer'[w].step # "upserted"
      BY <1>0, <2>11, Goes DEF ClearIntent, WriterSteps
    <3>2. \A b \in Batches : intent'[b] = "writing" => intent[b] = "writing"
      BY <1>0, <2>11 DEF ClearIntent
    <3> QED BY <2>0, <2>11, <3>1, <3>2, PointsKept DEF ClearIntent
  <2>12. CASE FailClaimed(w)
    <3>1. writer'[w].step # "upserted" /\ a \in Batches
      BY <1>0, <2>12, Rests, WorkingWriter DEF FailClaimed
    <3>2. \A b \in Batches : batch'[b] = "succeeded" => batch[b] = "succeeded"
      BY <1>0, <2>12, <3>1, Retires DEF FailClaimed
    <3> QED BY <2>0, <2>12, <3>1, <3>2, PointsKept DEF FailClaimed
  <2>13. CASE GiveUp(w)
    <3>1. writer'[w].step # "upserted"
      BY <1>0, <2>13, Goes, Rests DEF GiveUp, WriterSteps
    <3> QED BY <1>h, <2>0, <2>13, <3>1 DEF GiveUp
  <2> QED BY <1>1, <2>1, <2>2, <2>3, <2>4, <2>5, <2>6, <2>7, <2>8, <2>9, <2>10, <2>11,
             <2>12, <2>13 DEF WriterStep
<1>2. ASSUME NEW c \in Cleaners, CleanerStep(c) PROVE PointsInv'
  <2>0. /\ writer' = writer
        /\ \A d \in Cleaners \ {c} : cleaner'[d] = cleaner[d]
    BY <1>0, <1>2 DEF CleanerStep, StartPurge, Sweep, SkipSweep, StartRepair, BeginDrain, CommitDrain,
     DeleteLeftovers, FinalizePurged, CleanerStops, Proceed, Advance
  <2>1. CASE StartPurge(c) \/ Sweep(c) \/ SkipSweep(c) \/ FinalizePurged(c)
    <3>1. doc' \in Deleted
      BY <1>0, <2>1, DeletedForGood DEF StartPurge, Sweep, SkipSweep, FinalizePurged, CleanerInv, Deleted
    <3> QED BY <3>1
  <2>2. CASE StartRepair(c)
    <3>1. lock # c
      BY <1>0, <2>2 DEF StartRepair, Away, LockInv, Draining
    <3> QED BY <2>0, <2>2, <3>1, PointsKept DEF StartRepair
  <2>3. CASE BeginDrain(c)
    <3>1. /\ lock' = c /\ cleaner'[c].open = OpenIntents /\ points' = points \ OpenIntents
          /\ UNCHANGED <<batch, intent, writer>>
      BY <1>0, <2>3, DrainBegins DEF BeginDrain
    <3>2. \A v \in Writers : writer[v].step # "upserted"
      BY <1>0, <2>3, Assumption DEF BeginDrain, LockFree, LockInv, Midway, Assumption
    <3>3. \A b \in Batches : batch[b] = "succeeded" => b \in points'
      BY <1>0, <3>1 DEF PointsInv, BatchInv, OpenIntents, Open
    <3>4. \A b \in Batches : intent[b] = "writing" => b \in cleaner'[c].open
      BY <3>1 DEF OpenIntents, Open
    <3> QED BY <3>1, <3>2, <3>3, <3>4 DEF PointsInv
  <2>4. CASE CommitDrain(c)
    <3>1. /\ lock = c
          /\ intent' = [b \in Batches |-> IF b \in cleaner[c].open THEN "cleaned" ELSE intent[b]]
          /\ UNCHANGED <<batch, points, writer>>
      BY <1>0, <2>4 DEF CommitDrain, LockInv, Draining
    <3>2. \A b \in Batches : intent'[b] = "writing" => b \in points
      BY <3>1 DEF PointsInv
    <3> QED BY <3>1, <3>2 DEF PointsInv
  <2>5. CASE DeleteLeftovers(c)
    <3>1. cleaner[c].seen = {} /\ lock # c
      BY <1>0, <2>5 DEF DeleteLeftovers, CleanerInv, LockInv, Draining
    <3> QED BY <2>0, <2>5, <3>1, PointsKept DEF DeleteLeftovers
  <2>6. CASE CleanerStops(c)
    <3>1. lock # c
      BY <1>0, <2>6 DEF CleanerStops, LockInv, Draining, CleanerInv
    <3> QED BY <2>0, <2>6, <3>1, PointsKept DEF CleanerStops
  <2> QED BY <1>2, <2>1, <2>2, <2>3, <2>4, <2>5, <2>6 DEF CleanerStep
<1>3. ASSUME NEW b \in Batches, Reclaim(b) PROVE PointsInv'
  <2>1. \A a \in Batches : batch'[a] = "succeeded" => batch[a] = "succeeded"
    BY <1>0, <1>3, Retires DEF Reclaim
  <2> QED BY <1>3, <2>1, PointsKept DEF Reclaim
<1>4. ASSUME NEW b \in Batches, LateUpsert(b) PROVE PointsInv'
  BY <1>h, <1>4 DEF LateUpsert
<1>5. CASE RequestDelete
  BY <1>5 DEF RequestDelete, Deleted
<1>6. CASE UNCHANGED vars
  BY <1>h, <1>6 DEF vars
<1> QED BY <1>1, <1>2, <1>3, <1>4, <1>5, <1>6 DEF Next

\* Unless a repair fails after it deleted the points of the intents it listed,
\* no drain, sweep or compensation takes the points of a completed batch from
\* a document that is not deleted.
THEOREM SucceededKeepsItsPoints ==
  ASSUME ~ DrainFaults
  PROVE  Spec => []SucceededBatchHasPoints
<1>1. Init => PointsInv
  BY DEF Init, PointsInv, Resting, Deleted
<1>2. IInv /\ PointsInv /\ [Next]_vars => PointsInv'
  BY PointsStep
<1>3. PointsInv => SucceededBatchHasPoints
  BY DEF PointsInv, SucceededBatchHasPoints
<1> QED BY <1>1, <1>2, <1>3, InductiveInvariant, PTL DEF Spec

=============================================================================
