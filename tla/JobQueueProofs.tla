--------------------------- MODULE JobQueueProofs ---------------------------
(***************************************************************************)
(* Proofs about JobQueue for every set of jobs, workers, documents and     *)
(* tokens and every bound.  IInv is the inductive invariant; it is proved  *)
(* part by part, every part assuming the whole of IInv before the step.    *)
(***************************************************************************)
EXTENDS JobQueue, TLAPS

-----------------------------------------------------------------------------
(* Lemmas about the operators.                                             *)

\* backoff_for_attempt never fails and never yields a negative delay.
LEMMA BackoffType == \A n \in Nat : BackoffForAttempt(n) \in Nat
<1>1. BackoffTable \in [1..9 -> Nat]
  BY DEF BackoffTable
<1>2. \A n \in Nat : (IF n < 9 THEN (IF n < 1 THEN 1 ELSE n) ELSE 9) \in 1..9
  OBVIOUS
<1> QED BY <1>1, <1>2 DEF BackoffForAttempt

\* A fresh token is on no row, with no worker and on no slot.
LEMMA FreshTokenIsFresh ==
  ASSUME Tokens \ InUse # {}
  PROVE  FreshToken \in Tokens /\ FreshToken \notin InUse
  BY DEF FreshToken

\* A row taken off its lease, or put under one, is a row.
LEMMA ClearedType ==
  ASSUME NEW row \in Rows, NEW st \in Statuses
  PROVE  Cleared(row, st) \in Rows
  BY BoundsAssumption DEF BoundsAssumption, Cleared, Rows

LEMMA RequeuedType ==
  ASSUME NEW attempts \in 0..MaxAttempts, NEW delay \in Nat
  PROVE  Requeued(attempts, delay) \in Rows
  BY BoundsAssumption DEF BoundsAssumption, Requeued, Rows, Statuses

LEMMA AgedType ==
  ASSUME NEW row \in Rows
  PROVE  Aged(row) \in Rows
  BY BoundsAssumption DEF BoundsAssumption, Aged, Lower, Rows

LEMMA LeasedType ==
  ASSUME NEW row \in Rows, NEW t \in Tokens, row.attempts < MaxAttempts
  PROVE  Leased(row, t) \in Rows
  BY BoundsAssumption DEF BoundsAssumption, Leased, Rows, Statuses

LEMMA ClearedStatus == \A row, st : Cleared(row, st).status = st
  BY DEF Cleared

\* A retired job goes back to the queue only with attempts left.
LEMMA RetiredType ==
  ASSUME NEW row \in Rows, NEW delay \in Nat
  PROVE  /\ Retired(row, delay) \in Rows
         /\ Retired(row, delay).status =
              IF row.attempts < MaxAttempts THEN "pending" ELSE "dead_letter"
         /\ Retired(row, delay).attempts = row.attempts
         /\ Retired(row, delay).token = NoToken
  BY BoundsAssumption
  DEF BoundsAssumption, Retired, Requeued, Cleared, Rows, Statuses, Ended

EventKeys == [type : EventTypes, job : Jobs, attempts : 0..MaxAttempts]

\* The outbox only grows, by event keys.
LEMMA WriteEventsType ==
  ASSUME TypeOK, NEW keys \in SUBSET EventKeys, WriteEvents(keys)
  PROVE  /\ outbox' \subseteq EventKeys
         /\ swallowed' \subseteq outbox'
  BY DEF TypeOK, WriteEvents, EventKeys

\* Whoever passes a fence carries a claim on a leased row.
LEMMA OwnsType ==
  ASSUME TypeOK, NEW w \in Workers, NEW j \in Jobs, Owns(w, j)
  PROVE  /\ worker[w] \in Claims
         /\ job[j] \in Rows
         /\ job[j].status = "leased"
         /\ job[j].attempts \in 1..MaxAttempts
  BY ConstantsAssumption DEF ConstantsAssumption, TypeOK, Owns, NoClaim, Claims, Rows

LEMMA DropType ==
  ASSUME TypeOK, NEW w \in Workers, Drop(w) \/ Acknowledged(w)
  PROVE  worker' \in [Workers -> Claims \cup {NoClaim}]
  BY DEF TypeOK, Drop, Acknowledged

-----------------------------------------------------------------------------
(* Types.                                                                  *)

LEMMA TypeInsert ==
  ASSUME TypeOK, RowInv, NEW j \in Jobs, Insert(j)
  PROVE  TypeOK'
<1>1. job' \in [Jobs -> Rows]
  BY DEF TypeOK, Insert, Rows, Statuses
<1>2. TransitionKey("job.enqueued", j, 0) \in EventKeys
  BY BoundsAssumption DEF BoundsAssumption, TransitionKey, EventKeys, EventTypes
<1> QED BY <1>1, <1>2, WriteEventsType DEF TypeOK, Insert, EventKeys

LEMMA TypeClaim ==
  ASSUME TypeOK, RowInv, NEW w \in Workers, NEW j \in Jobs, Claim(w, j)
  PROVE  TypeOK'
<1>1. FreshToken \in Tokens
  BY FreshTokenIsFresh DEF Claim
<1>2. job[j] \in Rows /\ job[j].attempts < MaxAttempts
  BY DEF TypeOK, RowInv, Claim
<1>3. job' \in [Jobs -> Rows]
  BY <1>1, <1>2, LeasedType DEF TypeOK, Claim
<1>4. job[j].attempts + 1 \in 1..MaxAttempts
  BY <1>2, BoundsAssumption DEF BoundsAssumption, Rows
<1>5. worker' \in [Workers -> Claims \cup {NoClaim}]
  BY <1>1, <1>4, BoundsAssumption DEF BoundsAssumption, TypeOK, Claim, Claims
<1>6. slots' \subseteq Slots
  BY <1>1, BoundsAssumption DEF BoundsAssumption, TypeOK, Claim, Slots
<1> QED BY <1>3, <1>5, <1>6 DEF TypeOK, Claim, NoEvents

LEMMA TypeHeartbeat ==
  ASSUME TypeOK, NEW w \in Workers, Heartbeat(w)
  PROVE  TypeOK'
<1>1. job' \in [Jobs -> Rows]
  BY BoundsAssumption DEF BoundsAssumption, TypeOK, Heartbeat, Rows
<1>2. slots' \subseteq Slots
  BY BoundsAssumption DEF BoundsAssumption, TypeOK, Heartbeat, ExtendedSlots, Slots
<1> QED BY <1>1, <1>2 DEF TypeOK, Heartbeat, NoEvents

\* The worker lets go of its claim; nothing else changes.
LEMMA TypeDrop ==
  ASSUME TypeOK, NEW w \in Workers, LeaseLost(w) \/ Crash(w)
  PROVE  TypeOK'
  BY DropType DEF TypeOK, LeaseLost, Crash, NoEvents

LEMMA SucceedType ==
  ASSUME TypeOK, NEW w \in Workers, NEW j \in Jobs, Succeed(w, j)
  PROVE  /\ outbox' \subseteq EventKeys
         /\ swallowed' \subseteq outbox'
         /\ finishedBy' \in [Jobs -> Workers \cup {NoWorker}]
<1>1. TransitionKey("job.succeeded", j, job[j].attempts) \in EventKeys
  BY OwnsType, BoundsAssumption
  DEF BoundsAssumption, Succeed, TransitionKey, EventKeys, EventTypes
<1>2. finishedBy' \in [Jobs -> Workers \cup {NoWorker}]
  BY DEF TypeOK, Succeed
<1> QED BY <1>1, <1>2, WriteEventsType DEF Succeed

\* A job may be given an end, several at once, without leaving the types.
LEMMA EndedType ==
  ASSUME TypeOK, NEW S \in SUBSET Jobs, NEW st \in Statuses
  PROVE  [i \in Jobs |-> IF i \in S THEN Cleared(job[i], st) ELSE job[i]]
            \in [Jobs -> Rows]
  BY ClearedType DEF TypeOK

LEMMA TypeComplete ==
  ASSUME TypeOK, NEW w \in Workers, Complete(w) \/ FinalizeIndexed(w)
  PROVE  TypeOK'
<1>1. PICK j \in Jobs :
        /\ Succeed(w, j)
        /\ job' = [job EXCEPT ![j] = Cleared(@, "succeeded")]
        /\ slots' \in {SlotsWithout({j}), slots}
        /\ Drop(w) \/ Acknowledged(w)
        /\ doc' = doc
  BY DEF Complete, FinalizeIndexed
<1>2. job' \in [Jobs -> Rows]
  BY <1>1, ClearedType DEF TypeOK, Statuses, Ended
<1> QED BY <1>1, <1>2, SucceedType, DropType DEF TypeOK, SlotsWithout, EventKeys

LEMMA TypeFinalizePurged ==
  ASSUME TypeOK, NEW w \in Workers, FinalizePurged(w)
  PROVE  TypeOK'
<1>1. PICK j \in Jobs :
        /\ Succeed(w, j)
        /\ doc' = [doc EXCEPT ![DocOf[j]] = "purged"]
        /\ job' = [i \in Jobs |->
               IF i = j THEN Cleared(job[i], "succeeded")
               ELSE IF i \in ActiveWriters(DocOf[j]) THEN Cleared(job[i], "cancelled")
               ELSE job[i]]
        /\ Acknowledged(w)
        /\ slots' = slots
  BY DEF FinalizePurged
<1>2. job' \in [Jobs -> Rows]
  BY <1>1, ClearedType DEF TypeOK, Statuses, Ended
<1>3. doc' \in [Docs -> {"live", "tombstoned", "purged"}]
  BY <1>1 DEF TypeOK
<1> QED BY <1>1, <1>2, <1>3, SucceedType, DropType DEF TypeOK, EventKeys

LEMMA TypeFail ==
  ASSUME TypeOK, NEW w \in Workers, Fail(w)
  PROVE  TypeOK'
<1>1. PICK j \in Jobs :
        /\ Owns(w, j)
        /\ LET row == Retired(job[j], BackoffForAttempt(job[j].attempts))
               type == IF row.status = "pending" THEN "job.retry_scheduled"
                                                 ELSE "job.dead_lettered"
           IN  /\ job' = [job EXCEPT ![j] = row]
               /\ WriteEvents({TransitionKey(type, j, row.attempts)})
               /\ finishedBy' = IF row.status = "pending" THEN finishedBy
                                ELSE [finishedBy EXCEPT ![j] = w]
        /\ slots' = SlotsWithout({j})
        /\ Drop(w)
        /\ doc' = doc
  BY DEF Fail
<1> DEFINE row  == Retired(job[j], BackoffForAttempt(job[j].attempts))
           type == IF row.status = "pending" THEN "job.retry_scheduled"
                                             ELSE "job.dead_lettered"
<1>2. job[j] \in Rows /\ job[j].attempts \in 1..MaxAttempts
  BY <1>1, OwnsType
<1>3. job[j].attempts \in Nat
  BY <1>2
<1>4. row \in Rows /\ row.attempts = job[j].attempts
  BY <1>2, <1>3, BackoffType, RetiredType
<1>5. job' \in [Jobs -> Rows]
  BY <1>1, <1>4 DEF TypeOK
<1>6. TransitionKey(type, j, row.attempts) \in EventKeys
  BY <1>2, <1>4, BoundsAssumption
  DEF BoundsAssumption, TransitionKey, EventKeys, EventTypes
<1>7. outbox' \subseteq EventKeys /\ swallowed' \subseteq outbox'
  BY <1>1, <1>6, WriteEventsType
<1>8. finishedBy' \in [Jobs -> Workers \cup {NoWorker}]
  BY <1>1 DEF TypeOK
<1> QED BY <1>1, <1>5, <1>7, <1>8, DropType DEF TypeOK, SlotsWithout, EventKeys

\* A dry run gives back an attempt that the claim took.
LEMMA TypeReleaseDryRun ==
  ASSUME TypeOK, NEW w \in Workers, ReleaseDryRun(w)
  PROVE  TypeOK'
<1>1. PICK j \in Jobs :
        /\ Owns(w, j)
        /\ job' = [job EXCEPT ![j] = Requeued(RestoredAttempts(@.attempts), 0)]
        /\ slots' = SlotsWithout({j})
        /\ Drop(w)
        /\ NoEvents /\ UNCHANGED <<doc, finishedBy>>
  BY DEF ReleaseDryRun
<1>2. job[j] \in Rows /\ job[j].attempts \in 1..MaxAttempts
  BY <1>1, OwnsType
<1>3. RestoredAttempts(job[j].attempts) \in 0..MaxAttempts
  BY <1>2, BoundsAssumption DEF BoundsAssumption, RestoredAttempts
<1>4. Requeued(RestoredAttempts(job[j].attempts), 0) \in Rows
  BY <1>3, RequeuedType
<1>5. job' \in [Jobs -> Rows]
  BY <1>1, <1>4 DEF TypeOK
<1> QED BY <1>1, <1>5, DropType DEF TypeOK, SlotsWithout, NoEvents

LEMMA TypeReclaim ==
  ASSUME TypeOK, NEW gone \in SUBSET Jobs, Reclaim(gone)
  PROVE  TypeOK'
<1>1. \A j \in Jobs : job[j] \in Rows
  BY DEF TypeOK
<1>2. job' \in [Jobs -> Rows]
  BY <1>1, RetiredType, BoundsAssumption DEF BoundsAssumption, TypeOK, Reclaim
<1>3. \A j \in gone : TransitionKey(
         IF job[j].attempts < MaxAttempts THEN "job.reclaimed"
                                          ELSE "job.dead_lettered",
         j, job[j].attempts) \in EventKeys
  BY <1>1 DEF TransitionKey, EventKeys, EventTypes, Rows
<1>4. outbox' \subseteq EventKeys /\ swallowed' \subseteq outbox'
  BY <1>3, WriteEventsType DEF Reclaim
<1> QED BY <1>2, <1>4 DEF TypeOK, Reclaim, SlotsWithout, EventKeys

LEMMA TypeCancelJob ==
  ASSUME TypeOK, NEW j \in Jobs, CancelJob(j)
  PROVE  TypeOK'
<1>1. Family(j) \in SUBSET Jobs
  BY DEF Family
<1>2. job' \in [Jobs -> Rows]
  BY <1>1, EndedType DEF CancelJob, Statuses, Ended
<1>3. \A i \in Family(j) : TransitionKey("job.cancelled", i, job[i].attempts) \in EventKeys
  BY <1>1 DEF TypeOK, TransitionKey, EventKeys, EventTypes, Rows
<1>4. outbox' \subseteq EventKeys /\ swallowed' \subseteq outbox'
  BY <1>3, WriteEventsType DEF CancelJob
<1> QED BY <1>2, <1>4 DEF TypeOK, CancelJob, SlotsWithout, EventKeys

LEMMA ActiveWritersType == \A d : ActiveWriters(d) \in SUBSET Jobs
  BY DEF ActiveWriters, Writers

LEMMA TypeCancelWriters ==
  ASSUME TypeOK, NEW d \in Docs, RequestDelete(d)
  PROVE  TypeOK'
<1>1. job' \in [Jobs -> Rows]
  BY ActiveWritersType, EndedType DEF RequestDelete, CancelWriters, Statuses, Ended
<1> QED BY <1>1 DEF TypeOK, RequestDelete, NoEvents

LEMMA TypeDrainIntents ==
  ASSUME TypeOK, NEW w \in Workers, DrainIntents(w)
  PROVE  TypeOK'
<1>1. PICK d : CancelWriters(d)
  BY DEF DrainIntents
<1>2. job' \in [Jobs -> Rows]
  BY <1>1, ActiveWritersType, EndedType DEF CancelWriters, Statuses, Ended
<1> QED BY <1>2 DEF TypeOK, DrainIntents, NoEvents

\* The sweep and the repair of the ledger only take slots away.
LEMMA TypeSlotsGone ==
  ASSUME TypeOK,
         RefundOrphanedSlots \/ \E batch \in SUBSET slots : ExpireReserved(batch)
  PROVE  TypeOK'
  BY DEF TypeOK, RefundOrphanedSlots, ExpireReserved, NoEvents

LEMMA TypeTick ==
  ASSUME TypeOK, Tick
  PROVE  TypeOK'
<1>1. \A n \in Nat : Lower(n) \in Nat /\ Lower(n) =< n
  BY DEF Lower
<1>2. job' \in [Jobs -> Rows]
  BY AgedType DEF TypeOK, Tick
<1>3. slots' \subseteq Slots
  BY <1>1, BoundsAssumption DEF BoundsAssumption, TypeOK, Tick, Slots
<1>4. worker' \in [Workers -> Claims \cup {NoClaim}]
  BY <1>1, BoundsAssumption DEF BoundsAssumption, TypeOK, Tick, Claims, NoClaim
<1> QED BY <1>2, <1>3, <1>4 DEF TypeOK, Tick, NoEvents

\* Every step keeps the types.  RowInv is needed by Claim alone: it is what
\* keeps a job without attempts left out of the queue.
LEMMA TypeStep ==
  ASSUME TypeOK, RowInv, [Next]_vars
  PROVE  TypeOK'
<1>1. CASE \E j \in Jobs : Enqueue(j)
  BY <1>1, TypeInsert DEF Enqueue
<1>2. ASSUME NEW w \in Workers, WorkerStep(w) PROVE TypeOK'
  BY <1>2, TypeInsert, TypeClaim, TypeHeartbeat, TypeDrop, TypeComplete,
     TypeFinalizePurged, TypeFail, TypeReleaseDryRun, TypeDrainIntents
  DEF WorkerStep, StageBatch
<1>3. CASE \E gone \in SUBSET Jobs : Reclaim(gone)
  BY <1>3, TypeReclaim
<1>4. CASE \E j \in Jobs : CancelJob(j)
  BY <1>4, TypeCancelJob
<1>5. CASE \E d \in Docs : RequestDelete(d)
  BY <1>5, TypeCancelWriters
<1>6. CASE RefundOrphanedSlots \/ \E batch \in SUBSET slots : ExpireReserved(batch)
  BY <1>6, TypeSlotsGone
<1>7. CASE Tick
  BY <1>7, TypeTick
<1>8. CASE UNCHANGED vars
  BY <1>8 DEF TypeOK, vars
<1> QED BY <1>1, <1>2, <1>3, <1>4, <1>5, <1>6, <1>7, <1>8 DEF Next

-----------------------------------------------------------------------------
(* What one step does to one row, to the slots and to the claims.          *)

Kept(p, q)     == q.status = p.status /\ q.attempts = p.attempts /\ q.token = p.token
Accepted(p, q) == /\ p.status = "absent" /\ q.status = "pending"
                  /\ q.attempts = p.attempts /\ q.token = p.token
Granted(p, q)  == /\ p.status = "pending" /\ q.status = "leased"
                  /\ q.attempts = p.attempts + 1
                  /\ q.token \in Tokens \ InUse
Returned(p, q) == /\ p.status = "leased" /\ q.status = "pending"
                  /\ q.attempts \in {p.attempts, p.attempts - 1}
                  /\ q.attempts < MaxAttempts /\ q.token = NoToken
Over(p, q)     == /\ p.status \in {"pending", "leased"} /\ q.status \in Ended
                  /\ q.attempts = p.attempts /\ q.token = NoToken

RowMove(p, q) == Kept(p, q) \/ Accepted(p, q) \/ Returned(p, q) \/ Over(p, q)

LEMMA ClearedIsOver ==
  ASSUME NEW row \in Rows, row.status \in {"pending", "leased"}, NEW st \in Ended
  PROVE  Over(row, Cleared(row, st))
  BY DEF Over, Cleared

LEMMA RetiredMoves ==
  ASSUME NEW row \in Rows, row.status = "leased", NEW delay \in Nat
  PROVE  RowMove(row, Retired(row, delay))
  BY DEF RowMove, Returned, Over, Retired, Requeued, Cleared, Ended

LEMMA RestoredMoves ==
  ASSUME NEW row \in Rows, row.status = "leased", row.attempts >= 1
  PROVE  Returned(row, Requeued(RestoredAttempts(row.attempts), 0))
  BY BoundsAssumption
  DEF BoundsAssumption, Returned, Requeued, RestoredAttempts, Rows

\* Every step but a claim moves every row by a RowMove.
LEMMA RowMoves ==
  ASSUME TypeOK, RowInv, [Next]_vars,
         ~ \E w \in Workers, j \in Jobs : Claim(w, j),
         NEW i \in Jobs
  PROVE  RowMove(job[i], job'[i])
<1>0. job[i] \in Rows /\ Kept(job[i], job[i])
  BY DEF TypeOK, Kept
<1>1. ASSUME NEW j \in Jobs, Insert(j) PROVE RowMove(job[i], job'[i])
  <2>1. CASE i = j
    BY <1>0, <1>1, <2>1 DEF Insert, RowMove, Accepted, TypeOK, Rows
  <2>2. CASE i # j
    BY <1>0, <1>1, <2>2 DEF Insert, RowMove, TypeOK
  <2> QED BY <2>1, <2>2
<1>2. ASSUME NEW w \in Workers, Heartbeat(w) PROVE RowMove(job[i], job'[i])
  BY <1>0, <1>2 DEF Heartbeat, RowMove, Kept, TypeOK, Rows
<1>3. ASSUME NEW w \in Workers, Complete(w) \/ FinalizeIndexed(w)
      PROVE  RowMove(job[i], job'[i])
  <2>1. PICK j \in Jobs : Owns(w, j) /\ job' = [job EXCEPT ![j] = Cleared(@, "succeeded")]
    BY <1>3 DEF Complete, FinalizeIndexed, Succeed
  <2>2. job[j].status = "leased"
    BY <2>1 DEF Owns
  <2> QED BY <1>0, <2>1, <2>2, ClearedIsOver DEF RowMove, TypeOK, Ended
<1>4. ASSUME NEW w \in Workers, FinalizePurged(w) PROVE RowMove(job[i], job'[i])
  <2>1. PICK j \in Jobs :
          /\ Owns(w, j)
          /\ job' = [k \in Jobs |->
               IF k = j THEN Cleared(job[k], "succeeded")
               ELSE IF k \in ActiveWriters(DocOf[j]) THEN Cleared(job[k], "cancelled")
               ELSE job[k]]
    BY <1>4 DEF FinalizePurged, Succeed
  <2>2. job[j].status = "leased"
    BY <2>1 DEF Owns
  <2>3. i \in ActiveWriters(DocOf[j]) => job[i].status \in {"pending", "leased"}
    BY DEF ActiveWriters
  <2> QED BY <1>0, <2>1, <2>2, <2>3, ClearedIsOver DEF RowMove, Ended
<1>5. ASSUME NEW w \in Workers, Fail(w) PROVE RowMove(job[i], job'[i])
  <2>1. PICK j \in Jobs :
          /\ Owns(w, j)
          /\ job' = [job EXCEPT ![j] = Retired(@, BackoffForAttempt(@.attempts))]
    BY <1>5 DEF Fail
  <2>2. job[j] \in Rows /\ job[j].status = "leased" /\ BackoffForAttempt(job[j].attempts) \in Nat
    BY <2>1, OwnsType, BackoffType
  <2> QED BY <1>0, <2>1, <2>2, RetiredMoves DEF RowMove, TypeOK
<1>6. ASSUME NEW w \in Workers, ReleaseDryRun(w) PROVE RowMove(job[i], job'[i])
  <2>1. PICK j \in Jobs :
          /\ Owns(w, j)
          /\ job' = [job EXCEPT ![j] = Requeued(RestoredAttempts(@.attempts), 0)]
    BY <1>6 DEF ReleaseDryRun
  <2>2. job[j] \in Rows /\ job[j].status = "leased" /\ job[j].attempts >= 1
    BY <2>1, OwnsType
  <2> QED BY <1>0, <2>1, <2>2, RestoredMoves DEF RowMove, TypeOK
<1>7. ASSUME NEW gone \in SUBSET Jobs, Reclaim(gone) PROVE RowMove(job[i], job'[i])
  <2>1. ReclaimBackoff \in Nat
    BY BoundsAssumption DEF BoundsAssumption
  <2> QED BY <1>0, <1>7, <2>1, RetiredMoves DEF RowMove, Reclaim
<1>8. ASSUME NEW j \in Jobs, CancelJob(j) PROVE RowMove(job[i], job'[i])
  <2>1. i \in Family(j) => job[i].status \in {"pending", "leased"}
    BY <1>8 DEF Family, CancelJob
  <2> QED BY <1>0, <1>8, <2>1, ClearedIsOver DEF RowMove, CancelJob, Ended
<1>9. ASSUME NEW d, CancelWriters(d) PROVE RowMove(job[i], job'[i])
  <2>1. i \in ActiveWriters(d) => job[i].status \in {"pending", "leased"}
    BY DEF ActiveWriters
  <2> QED BY <1>0, <1>9, <2>1, ClearedIsOver DEF RowMove, CancelWriters, Ended
<1>10. CASE Tick
  BY <1>0, <1>10 DEF Tick, Aged, RowMove, Kept
<1>11. CASE UNCHANGED job
  BY <1>0, <1>11 DEF RowMove
<1>12. CASE \E w \in Workers : WorkerStep(w)
  BY <1>1, <1>2, <1>3, <1>4, <1>5, <1>6, <1>9, <1>11, <1>12
  DEF WorkerStep, StageBatch, LeaseLost, Crash, DrainIntents
<1>13. CASE \E batch \in SUBSET slots : ExpireReserved(batch)
  BY <1>11, <1>13 DEF ExpireReserved
<1> QED BY <1>1, <1>7, <1>8, <1>9, <1>10, <1>11, <1>12, <1>13
  DEF Next, Enqueue, RequestDelete, RefundOrphanedSlots, vars

\* A claim grants one row, to one worker, under a fresh token.
LEMMA ClaimGrants ==
  ASSUME TypeOK, RowInv, NEW w \in Workers, NEW j \in Jobs, Claim(w, j)
  PROVE  /\ Granted(job[j], job'[j])
         /\ \A i \in Jobs \ {j} : job'[i] = job[i]
         /\ worker'[w].token = job'[j].token
         /\ \A v \in Workers \ {w} : worker'[v] = worker[v]
         /\ slots' = slots \cup {[job |-> j, key |-> job'[j].token, left |-> LeaseTTL]}
  BY FreshTokenIsFresh DEF TypeOK, Claim, Granted, Leased, Rows

LEMMA RowStep ==
  ASSUME TypeOK, RowInv, [Next]_vars
  PROVE  RowInv'
<1>1. \A i \in Jobs : job[i] \in Rows
  BY DEF TypeOK
<1>2. ASSUME NEW i \in Jobs, RowMove(job[i], job'[i]) \/ Granted(job[i], job'[i])
      PROVE  /\ job'[i].status = "leased" <=> job'[i].token # NoToken
             /\ job'[i].status = "leased" => job'[i].attempts >= 1
             /\ job'[i].status = "pending" => job'[i].attempts < MaxAttempts
             /\ job'[i].status = "absent" => job'[i].attempts = 0
  BY <1>1, <1>2, BoundsAssumption, ConstantsAssumption
  DEF BoundsAssumption, ConstantsAssumption, RowInv, RowMove, Kept, Accepted,
      Granted, Returned, Over, Ended, Rows
<1>3. \A i \in Jobs : RowMove(job[i], job'[i]) \/ Granted(job[i], job'[i])
  <2>1. CASE \E w \in Workers, j \in Jobs : Claim(w, j)
    BY <2>1, ClaimGrants DEF RowMove, Kept
  <2>2. CASE ~ \E w \in Workers, j \in Jobs : Claim(w, j)
    BY <2>2, RowMoves
  <2> QED BY <2>1, <2>2
<1> QED BY <1>2, <1>3 DEF RowInv

\* Only a claim gives a worker a token; every other step leaves a claim as
\* it is or takes it away.
LEMMA ClaimsKept ==
  ASSUME TypeOK, [Next]_vars,
         ~ \E w \in Workers, j \in Jobs : Claim(w, j),
         NEW v \in Workers
  PROVE  worker'[v].token \in {worker[v].token, NoToken}
<1>1. ASSUME NEW w \in Workers, Drop(w) \/ Acknowledged(w)
      PROVE  worker'[v].token \in {worker[v].token, NoToken}
  BY <1>1 DEF TypeOK, Drop, Acknowledged, NoClaim
<1>2. CASE UNCHANGED worker
  BY <1>2
<1>3. CASE Tick
  BY <1>3 DEF Tick, TypeOK, Claims, NoClaim
<1>4. CASE \E w \in Workers : WorkerStep(w)
  BY <1>1, <1>2, <1>4
  DEF WorkerStep, StageBatch, Insert, Heartbeat, LeaseLost, Crash, Complete,
      FinalizeIndexed, FinalizePurged, Fail, ReleaseDryRun, DrainIntents
<1> QED BY <1>2, <1>3, <1>4
  DEF Next, vars, Enqueue, Insert, Reclaim, CancelJob, RequestDelete,
      ExpireReserved, RefundOrphanedSlots

LEMMA TokenStep ==
  ASSUME TypeOK, RowInv, TokenInv, [Next]_vars
  PROVE  TokenInv'
<1>1. CASE \E w \in Workers, j \in Jobs : Claim(w, j)
  <2>1. PICK w \in Workers, j \in Jobs : Claim(w, j)
    BY <1>1
  <2>2. /\ job'[j].token \in Tokens \ InUse
        /\ \A i \in Jobs \ {j} : job'[i] = job[i]
        /\ worker'[w].token = job'[j].token
        /\ \A v \in Workers \ {w} : worker'[v] = worker[v]
    BY <2>1, ClaimGrants DEF Granted
  <2>3. /\ \A i \in Jobs : job[i].token # job'[j].token
        /\ \A v \in Workers : worker[v].token # job'[j].token
    BY <2>2 DEF InUse
  <2> QED BY <2>2, <2>3 DEF TokenInv
<1>2. CASE ~ \E w \in Workers, j \in Jobs : Claim(w, j)
  <2>1. \A i \in Jobs : job'[i].token \in {job[i].token, NoToken}
    BY <1>2, RowMoves DEF RowMove, Kept, Accepted, Returned, Over
  <2>2. \A v \in Workers : worker'[v].token \in {worker[v].token, NoToken}
    BY <1>2, ClaimsKept
  <2> QED BY <2>1, <2>2 DEF TokenInv
<1> QED BY <1>1, <1>2

-----------------------------------------------------------------------------
(* Slots.                                                                  *)

\* A step that only takes slots away, and all those of the jobs it sends
\* back to the queue, keeps the slots in line with the leases.
LEMMA SlotsShrink ==
  ASSUME TypeOK, SlotsMatchLeases, slots' \subseteq slots,
         \A i \in Jobs : RowMove(job[i], job'[i]),
         \A s \in slots' : ~ Returned(job[s.job], job'[s.job])
  PROVE  SlotsMatchLeases'
<1>1. \A s \in slots' : s \in slots /\ s.job \in Jobs
  BY DEF TypeOK, Slots
<1>2. ASSUME NEW s \in slots', job'[s.job].status = "leased"
      PROVE  job'[s.job].token = s.key
  BY <1>1, <1>2
  DEF SlotsMatchLeases, RowMove, Kept, Accepted, Returned, Over, Ended
<1>3. ASSUME NEW s \in slots' PROVE job'[s.job].status \notin {"absent", "pending"}
  BY <1>1, <1>3
  DEF SlotsMatchLeases, RowMove, Kept, Accepted, Returned, Over, Ended
<1> QED BY <1>1, <1>2, <1>3 DEF SlotsMatchLeases

\* A step that changes only how long slots and leases last.
LEMMA SlotsRetimed ==
  ASSUME TypeOK, SlotsMatchLeases,
         \A i \in Jobs : Kept(job[i], job'[i]),
         NEW f, slots' = {f[s] : s \in slots},
         \A s \in slots : f[s].job = s.job /\ f[s].key = s.key
  PROVE  SlotsMatchLeases'
  BY DEF TypeOK, Slots, SlotsMatchLeases, Kept

LEMMA SlotStep ==
  ASSUME TypeOK, RowInv, SlotsMatchLeases, [Next]_vars
  PROVE  SlotsMatchLeases'
<1>0. \A s \in slots : s.job \in Jobs
  BY DEF TypeOK, Slots
<1>1. CASE \E w \in Workers, j \in Jobs : Claim(w, j)
  <2>1. PICK w \in Workers, j \in Jobs : Claim(w, j)
    BY <1>1
  <2>2. /\ Granted(job[j], job'[j])
        /\ \A i \in Jobs \ {j} : job'[i] = job[i]
        /\ slots' = slots \cup {[job |-> j, key |-> job'[j].token, left |-> LeaseTTL]}
    BY <2>1, ClaimGrants
  <2>3. \A s \in slots : s.job # j
    BY <2>2 DEF Granted, SlotsMatchLeases
  <2> QED BY <1>0, <2>2, <2>3 DEF SlotsMatchLeases, Granted
<1>2. CASE ~ \E w \in Workers, j \in Jobs : Claim(w, j)
  <2>0. \A i \in Jobs : RowMove(job[i], job'[i])
    BY <1>2, RowMoves
  <2>1. ASSUME slots' = slots, \A i \in Jobs : ~ Returned(job[i], job'[i])
        PROVE  SlotsMatchLeases'
    BY <1>0, <2>0, <2>1, SlotsShrink
  <2>2. ASSUME NEW gone \in SUBSET Jobs, slots' = SlotsWithout(gone),
               \A i \in Jobs \ gone : ~ Returned(job[i], job'[i])
        PROVE  SlotsMatchLeases'
    BY <1>0, <2>0, <2>2, SlotsShrink DEF SlotsWithout
  <2>3. ASSUME slots' \subseteq slots, job' = job PROVE SlotsMatchLeases'
    BY <1>0, <2>0, <2>3, SlotsShrink DEF Returned
  <2>4. ASSUME NEW w \in Workers, Heartbeat(w) PROVE SlotsMatchLeases'
    <3>1. PICK j \in Jobs :
            job' = [job EXCEPT ![j].lease = LeaseTTL] /\ slots' = ExtendedSlots(j)
      BY <2>4 DEF Heartbeat
    <3>2. \A i \in Jobs : Kept(job[i], job'[i])
      BY <3>1 DEF Kept, TypeOK, Rows
    <3> DEFINE f == [s \in slots |->
                       IF s.job = j THEN [s EXCEPT !.left = LeaseTTL] ELSE s]
    <3>3. slots' = {f[s] : s \in slots}
      BY <3>1 DEF ExtendedSlots
    <3>4. \A s \in slots : f[s].job = s.job /\ f[s].key = s.key
      BY DEF TypeOK, Slots
    <3> HIDE DEF f
    <3> QED BY <3>2, <3>3, <3>4, SlotsRetimed
  <2>5. ASSUME Tick PROVE SlotsMatchLeases'
    <3>1. \A i \in Jobs : Kept(job[i], job'[i])
      BY <2>5 DEF Tick, Aged, Kept
    <3> DEFINE f == [s \in slots |-> [s EXCEPT !.left = Lower(@)]]
    <3>2. slots' = {f[s] : s \in slots}
      BY <2>5 DEF Tick
    <3>3. \A s \in slots : f[s].job = s.job /\ f[s].key = s.key
      BY DEF TypeOK, Slots
    <3> HIDE DEF f
    <3> QED BY <3>1, <3>2, <3>3, SlotsRetimed
  <2>6. ASSUME NEW j \in Jobs, Insert(j) PROVE SlotsMatchLeases'
    BY <2>1, <2>6 DEF Insert, Returned, TypeOK
  <2>7. ASSUME NEW w \in Workers,
               Complete(w) \/ FinalizeIndexed(w) \/ FinalizePurged(w)
        PROVE  SlotsMatchLeases'
    <3>1. \A i \in Jobs : job'[i] = job[i] \/ \E st \in Ended : job'[i] = Cleared(job[i], st)
      <4>1. CASE Complete(w) \/ FinalizeIndexed(w)
        BY <4>1 DEF Complete, FinalizeIndexed, TypeOK, Ended
      <4>2. CASE FinalizePurged(w)
        BY <4>2 DEF FinalizePurged, Ended
      <4> QED BY <2>7, <4>1, <4>2
    <3>2. \A i \in Jobs : ~ Returned(job[i], job'[i])
      BY <3>1, ClearedStatus DEF Returned, Ended
    <3> QED BY <2>1, <2>2, <2>7, <3>2 DEF Complete, FinalizeIndexed, FinalizePurged
  <2>8. ASSUME NEW w \in Workers, Fail(w) \/ ReleaseDryRun(w) PROVE SlotsMatchLeases'
    <3>1. PICK j \in Jobs : /\ slots' = SlotsWithout({j})
                            /\ \A i \in Jobs \ {j} : job'[i] = job[i]
      BY <2>8 DEF Fail, ReleaseDryRun, TypeOK
    <3> QED BY <2>2, <3>1 DEF Returned
  <2>9. ASSUME NEW gone \in SUBSET Jobs, Reclaim(gone) PROVE SlotsMatchLeases'
    BY <2>2, <2>9 DEF Reclaim, Returned
  <2>10. ASSUME NEW j \in Jobs, CancelJob(j) PROVE SlotsMatchLeases'
    <3>1. Family(j) \in SUBSET Jobs
      BY DEF Family
    <3> QED BY <2>2, <2>10, <3>1 DEF CancelJob, Returned
  <2>11. ASSUME NEW d, CancelWriters(d), slots' = slots PROVE SlotsMatchLeases'
    BY <2>1, <2>11 DEF CancelWriters, Cleared, Returned
  <2>12. CASE \E w \in Workers : WorkerStep(w)
    BY <1>2, <2>3, <2>4, <2>6, <2>7, <2>8, <2>11, <2>12
    DEF WorkerStep, StageBatch, LeaseLost, Crash, DrainIntents
  <2> QED BY <2>3, <2>5, <2>6, <2>9, <2>10, <2>11, <2>12
    DEF Next, vars, Enqueue, RequestDelete, ExpireReserved, RefundOrphanedSlots
<1> QED BY <1>1, <1>2

-----------------------------------------------------------------------------
(* Events.                                                                 *)

\* A key stays behind its job whatever happens to the job.
LEMMA BehindKept ==
  ASSUME NEW k \in EventKeys, NEW p \in Rows, NEW q, Behind(k, p),
         RowMove(p, q) \/ Granted(p, q)
  PROVE  Behind(k, q)
<1> k.attempts \in Int /\ p.attempts \in Int
  BY DEF EventKeys, Rows
<1> QED BY DEF Behind, RowMove, Kept, Accepted, Granted, Returned, Over, Ended

\* A transition writes keys its job has just run past: none can be in the
\* outbox yet, so none is swallowed.
LEMMA FreshKeys ==
  ASSUME OutboxInv, swallowed = {},
         NEW keys, WriteEvents(keys),
         \A k \in outbox : Behind(k, job'[k.job]),
         \A k \in keys : ~ Behind(k, job[k.job]) /\ Behind(k, job'[k.job])
  PROVE  OutboxInv' /\ swallowed' = {}
<1>1. keys \cap outbox = {}
  BY DEF OutboxInv
<1> QED BY <1>1 DEF WriteEvents, OutboxInv

LEMMA EventStep ==
  ASSUME TypeOK, RowInv, OutboxInv, swallowed = {}, [Next]_vars
  PROVE  OutboxInv' /\ swallowed' = {}
<1>1. \A i \in Jobs : job[i] \in Rows
  BY DEF TypeOK
<1>2. \A i \in Jobs : RowMove(job[i], job'[i]) \/ Granted(job[i], job'[i])
  <2>1. CASE \E w \in Workers, j \in Jobs : Claim(w, j)
    BY <2>1, ClaimGrants DEF RowMove, Kept
  <2>2. CASE ~ \E w \in Workers, j \in Jobs : Claim(w, j)
    BY <2>2, RowMoves
  <2> QED BY <2>1, <2>2
<1>3. \A k \in outbox : k.job \in Jobs /\ Behind(k, job'[k.job])
  <2>1. \A k \in outbox : k \in EventKeys /\ k.job \in Jobs
    BY DEF TypeOK, EventKeys
  <2> QED BY <1>1, <1>2, <2>1, BehindKept DEF OutboxInv
<1>4. CASE NoEvents
  BY <1>3, <1>4 DEF NoEvents, OutboxInv
<1>5. ASSUME NEW j \in Jobs, Insert(j) PROVE OutboxInv' /\ swallowed' = {}
  <2> DEFINE key == TransitionKey("job.enqueued", j, 0)
  <2>1. WriteEvents({key}) /\ key.job = j
    BY <1>5 DEF Insert, TransitionKey
  <2>2. ~ Behind(key, job[j]) /\ Behind(key, job'[j])
    BY <1>5 DEF Insert, TransitionKey, Behind, TypeOK, Rows
  <2> HIDE DEF key
  <2> QED BY <1>3, <2>1, <2>2, FreshKeys
<1>6. ASSUME NEW w \in Workers, Complete(w) \/ FinalizeIndexed(w) \/ FinalizePurged(w)
      PROVE  OutboxInv' /\ swallowed' = {}
  <2>1. PICK j \in Jobs : Succeed(w, j) /\ job'[j].status = "succeeded"
    <3>1. CASE Complete(w)
      BY <3>1, ClearedStatus DEF Complete, TypeOK
    <3>3. CASE FinalizeIndexed(w)
      BY <3>3, ClearedStatus DEF FinalizeIndexed, TypeOK
    <3>2. CASE FinalizePurged(w)
      BY <3>2, ClearedStatus DEF FinalizePurged
    <3> QED BY <1>6, <3>1, <3>2, <3>3
  <2> DEFINE key == TransitionKey("job.succeeded", j, job[j].attempts)
  <2>2. WriteEvents({key}) /\ key.job = j
    BY <2>1 DEF Succeed, TransitionKey
  <2>3. ~ Behind(key, job[j]) /\ Behind(key, job'[j])
    BY <2>1 DEF Succeed, Owns, TransitionKey, Behind, Ended
  <2> HIDE DEF key
  <2> QED BY <1>3, <2>2, <2>3, FreshKeys
<1>7. ASSUME NEW w \in Workers, Fail(w) PROVE OutboxInv' /\ swallowed' = {}
  <2>1. PICK j \in Jobs :
        /\ Owns(w, j)
        /\ LET row == Retired(job[j], BackoffForAttempt(job[j].attempts))
               type == IF row.status = "pending" THEN "job.retry_scheduled"
                                                 ELSE "job.dead_lettered"
           IN  /\ job' = [job EXCEPT ![j] = row]
               /\ WriteEvents({TransitionKey(type, j, row.attempts)})
    BY <1>7 DEF Fail
  <2> DEFINE row  == Retired(job[j], BackoffForAttempt(job[j].attempts))
             type == IF row.status = "pending" THEN "job.retry_scheduled"
                                               ELSE "job.dead_lettered"
             key  == TransitionKey(type, j, row.attempts)
  <2>2. /\ job[j] \in Rows /\ job[j].status = "leased"
        /\ BackoffForAttempt(job[j].attempts) \in Nat
    BY <2>1, OwnsType, BackoffType
  <2>3. /\ row.status = IF job[j].attempts < MaxAttempts THEN "pending" ELSE "dead_letter"
        /\ row.attempts = job[j].attempts
    BY <2>2, RetiredType
  <2>4. job'[j] = row
    BY <2>1 DEF TypeOK
  <2> HIDE DEF row
  <2>5. WriteEvents({key}) /\ key.job = j
    BY <2>1 DEF TransitionKey, row
  <2>6. ~ Behind(key, job[j]) /\ Behind(key, job'[j])
    BY <2>2, <2>3, <2>4 DEF TransitionKey, Behind, Ended, Rows
  <2> HIDE DEF key
  <2> QED BY <1>3, <2>5, <2>6, FreshKeys
<1>8. ASSUME NEW gone \in SUBSET Jobs, Reclaim(gone) PROVE OutboxInv' /\ swallowed' = {}
  <2> DEFINE type(j) == IF job[j].attempts < MaxAttempts THEN "job.reclaimed"
                                                         ELSE "job.dead_lettered"
             key(j) == TransitionKey(type(j), j, job[j].attempts)
  <2>1. WriteEvents({key(j) : j \in gone}) /\ \A j \in gone : key(j).job = j
    BY <1>8 DEF Reclaim, TransitionKey
  <2>2. ASSUME NEW j \in gone PROVE ~ Behind(key(j), job[j]) /\ Behind(key(j), job'[j])
    <3>1. job[j] \in Rows /\ job[j].status = "leased" /\ job'[j] = Retired(job[j], ReclaimBackoff)
      BY <1>1, <1>8 DEF Reclaim
    <3>2. ReclaimBackoff \in Nat
      BY BoundsAssumption DEF BoundsAssumption
    <3>3. /\ job'[j].status = IF job[j].attempts < MaxAttempts THEN "pending" ELSE "dead_letter"
          /\ job'[j].attempts = job[j].attempts
      BY <3>1, <3>2, RetiredType
    <3> QED BY <3>1, <3>3 DEF TransitionKey, Behind, Ended, Rows
  <2> HIDE DEF key
  <2> QED BY <1>3, <2>1, <2>2, FreshKeys
<1>9. ASSUME NEW j \in Jobs, CancelJob(j) PROVE OutboxInv' /\ swallowed' = {}
  <2> DEFINE key(i) == TransitionKey("job.cancelled", i, job[i].attempts)
  <2>1. WriteEvents({key(i) : i \in Family(j)}) /\ \A i \in Family(j) : key(i).job = i
    BY <1>9 DEF CancelJob, TransitionKey
  <2>2. ASSUME NEW i \in Family(j) PROVE ~ Behind(key(i), job[i]) /\ Behind(key(i), job'[i])
    <3>1. job[i].status \in {"pending", "leased"} /\ i \in Jobs
      BY <1>9, <2>2 DEF CancelJob, Family
    <3>2. job'[i].status = "cancelled"
      BY <1>9, <2>2, <3>1, ClearedStatus DEF CancelJob
    <3> QED BY <3>1, <3>2 DEF TransitionKey, Behind, Ended
  <2> HIDE DEF key
  <2> QED BY <1>3, <2>1, <2>2, FreshKeys
<1>10. CASE \E w \in Workers : WorkerStep(w)
  BY <1>4, <1>5, <1>6, <1>7, <1>10
  DEF WorkerStep, StageBatch, Claim, Heartbeat, LeaseLost, Crash, ReleaseDryRun, DrainIntents
<1> QED BY <1>4, <1>5, <1>8, <1>9, <1>10
  DEF Next, vars, Enqueue, RequestDelete, ExpireReserved, RefundOrphanedSlots,
      Tick, NoEvents

-----------------------------------------------------------------------------
(* Index jobs and their batches.                                           *)

Live == {"pending", "leased"}

\* A step that neither cancels a job nor brings a batch to life.
LEMMA FamilyUntouched ==
  ASSUME CancelledIndexHasNoLiveBatch,
         \A i \in Jobs : job'[i].status = "cancelled" => job[i].status = "cancelled",
         \A b \in Jobs : Kind[b] = "embedding_batch" /\ job'[b].status \in Live
                          => job[b].status \in Live
  PROVE  CancelledIndexHasNoLiveBatch'
  BY FamilyAssumption DEF FamilyAssumption, CancelledIndexHasNoLiveBatch, Live

\* A step that cancels jobs and takes the live batches of each of them along.
LEMMA FamilyCancelled ==
  ASSUME CancelledIndexHasNoLiveBatch,
         NEW gone \in SUBSET Jobs,
         \A i \in Jobs \ gone :
           /\ job'[i].status = "cancelled" => job[i].status = "cancelled"
           /\ job'[i].status \in Live => job[i].status \in Live,
         \A i \in gone : job'[i].status = "cancelled",
         \A b \in Jobs : /\ Kind[b] = "embedding_batch" /\ ParentOf[b] \in gone
                          /\ job[b].status \in Live
                          => b \in gone
  PROVE  CancelledIndexHasNoLiveBatch'
<1>1. SUFFICES ASSUME NEW b \in Jobs, Kind[b] = "embedding_batch",
                      job'[b].status \in Live
               PROVE  job'[ParentOf[b]].status # "cancelled"
  BY DEF CancelledIndexHasNoLiveBatch, Live
<1>2. ParentOf[b] \in Jobs
  BY <1>1, FamilyAssumption DEF FamilyAssumption
<1>3. b \notin gone
  BY <1>1 DEF Live
<1>4. job[b].status \in Live
  BY <1>1, <1>3
<1>5. job[ParentOf[b]].status # "cancelled"
  BY <1>1, <1>4 DEF CancelledIndexHasNoLiveBatch, Live
<1> QED BY <1>1, <1>2, <1>3, <1>4, <1>5

\* The writers of a document are an index job together with its batches.
LEMMA FamilyOfDoc ==
  ASSUME NEW d, NEW b \in Jobs, Kind[b] = "embedding_batch",
         ParentOf[b] \in Writers(d), job[b].status \in Live
  PROVE  b \in ActiveWriters(d)
  BY FamilyAssumption DEF FamilyAssumption, Writers, ActiveWriters, Live

LEMMA FamilyStep ==
  ASSUME TypeOK, RowInv, CancelledIndexHasNoLiveBatch, [Next]_vars
  PROVE  CancelledIndexHasNoLiveBatch'
<1>1. ASSUME NEW j \in Jobs, Insert(j), Kind[j] = "embedding_batch" =>
                job[ParentOf[j]].status = "leased"
      PROVE  CancelledIndexHasNoLiveBatch'
  <2>1. SUFFICES ASSUME NEW b \in Jobs, Kind[b] = "embedding_batch",
                        job'[b].status \in Live
                 PROVE  job'[ParentOf[b]].status # "cancelled"
    BY DEF CancelledIndexHasNoLiveBatch, Live
  <2>2. ParentOf[b] \in Jobs
    BY <2>1, FamilyAssumption DEF FamilyAssumption
  <2>3. job[ParentOf[b]].status # "cancelled"
    BY <1>1, <2>1, <2>2 DEF Insert, CancelledIndexHasNoLiveBatch, Live, TypeOK
  <2> QED BY <1>1, <2>2, <2>3 DEF Insert, TypeOK
<1>2. ASSUME NEW w \in Workers, NEW j \in Jobs, Claim(w, j)
      PROVE  CancelledIndexHasNoLiveBatch'
  BY <1>2, ClaimGrants, FamilyUntouched DEF Granted, Live
<1>3. ASSUME NEW w \in Workers, Heartbeat(w) PROVE CancelledIndexHasNoLiveBatch'
  BY <1>3, FamilyUntouched DEF Heartbeat, TypeOK, Rows
<1>4. ASSUME NEW w \in Workers, Complete(w) \/ FinalizeIndexed(w)
      PROVE  CancelledIndexHasNoLiveBatch'
  <2>1. PICK j \in Jobs : job' = [job EXCEPT ![j] = Cleared(@, "succeeded")]
    BY <1>4 DEF Complete, FinalizeIndexed
  <2> QED BY <2>1, ClearedStatus, FamilyUntouched DEF TypeOK, Live
<1>5. ASSUME NEW w \in Workers, FinalizePurged(w) PROVE CancelledIndexHasNoLiveBatch'
  <2>1. PICK j \in Jobs :
          /\ Kind[j] = "delete"
          /\ job' = [k \in Jobs |->
               IF k = j THEN Cleared(job[k], "succeeded")
               ELSE IF k \in ActiveWriters(DocOf[j]) THEN Cleared(job[k], "cancelled")
               ELSE job[k]]
    BY <1>5 DEF FinalizePurged
  <2> DEFINE gone == ActiveWriters(DocOf[j])
  <2>2. gone \in SUBSET Jobs /\ gone \subseteq Writers(DocOf[j]) /\ j \notin gone
    BY <2>1 DEF ActiveWriters, Writers
  <2>3. \A i \in gone : job'[i].status = "cancelled"
    BY <2>1, <2>2, ClearedStatus
  <2>4. \A i \in Jobs \ gone : job'[i].status \in {job[i].status, "succeeded"}
    BY <2>1, ClearedStatus
  <2>5. \A b \in Jobs : /\ Kind[b] = "embedding_batch" /\ ParentOf[b] \in gone
                         /\ job[b].status \in Live
                         => b \in gone
    BY <2>2, FamilyOfDoc
  <2> HIDE DEF gone
  <2> QED BY <2>2, <2>3, <2>4, <2>5, FamilyCancelled DEF Live
<1>6. ASSUME NEW w \in Workers, Fail(w) PROVE CancelledIndexHasNoLiveBatch'
  <2>1. PICK j \in Jobs : /\ Owns(w, j)
                          /\ job' = [job EXCEPT ![j] = Retired(@, BackoffForAttempt(@.attempts))]
    BY <1>6 DEF Fail
  <2>2. job[j] \in Rows /\ job[j].status = "leased" /\ BackoffForAttempt(job[j].attempts) \in Nat
    BY <2>1, OwnsType, BackoffType
  <2>3. job'[j].status \in {"pending", "dead_letter"}
    BY <2>1, <2>2, RetiredType DEF TypeOK
  <2> QED BY <2>1, <2>2, <2>3, FamilyUntouched DEF TypeOK, Live
<1>7. ASSUME NEW w \in Workers, ReleaseDryRun(w) PROVE CancelledIndexHasNoLiveBatch'
  <2>1. PICK j \in Jobs : /\ Owns(w, j)
                          /\ job' = [job EXCEPT ![j] = Requeued(RestoredAttempts(@.attempts), 0)]
    BY <1>7 DEF ReleaseDryRun
  <2>2. job[j].status = "leased" /\ job'[j].status = "pending"
    BY <2>1 DEF Owns, Requeued, TypeOK
  <2> QED BY <2>1, <2>2, FamilyUntouched DEF TypeOK, Live
<1>8. ASSUME NEW gone \in SUBSET Jobs, Reclaim(gone) PROVE CancelledIndexHasNoLiveBatch'
  <2>1. \A i \in gone : /\ job[i].status = "leased"
                         /\ job'[i].status \in {"pending", "dead_letter"}
    BY <1>8, RetiredType, BoundsAssumption DEF BoundsAssumption, Reclaim, TypeOK
  <2>2. \A i \in Jobs \ gone : job'[i] = job[i]
    BY <1>8 DEF Reclaim
  <2> QED BY <2>1, <2>2, FamilyUntouched DEF Live
<1>9. ASSUME NEW j \in Jobs, CancelJob(j) PROVE CancelledIndexHasNoLiveBatch'
  <2>1. Family(j) \in SUBSET Jobs
    BY DEF Family
  <2>2. /\ \A i \in Family(j) : job'[i].status = "cancelled"
        /\ \A i \in Jobs \ Family(j) : job'[i] = job[i]
    BY <1>9, <2>1, ClearedStatus DEF CancelJob
  <2>3. \A b \in Jobs : /\ Kind[b] = "embedding_batch" /\ ParentOf[b] \in Family(j)
                         /\ job[b].status \in Live
                         => b \in Family(j)
    BY FamilyAssumption DEF FamilyAssumption, Family, Live
  <2> QED BY <2>1, <2>2, <2>3, FamilyCancelled
<1>10. ASSUME NEW d, CancelWriters(d) PROVE CancelledIndexHasNoLiveBatch'
  <2>1. ActiveWriters(d) \in SUBSET Jobs /\ ActiveWriters(d) \subseteq Writers(d)
    BY DEF ActiveWriters, Writers
  <2>2. /\ \A i \in ActiveWriters(d) : job'[i].status = "cancelled"
        /\ \A i \in Jobs \ ActiveWriters(d) : job'[i] = job[i]
    BY <1>10, <2>1, ClearedStatus DEF CancelWriters
  <2>3. \A b \in Jobs : /\ Kind[b] = "embedding_batch" /\ ParentOf[b] \in ActiveWriters(d)
                         /\ job[b].status \in Live
                         => b \in ActiveWriters(d)
    BY <2>1, FamilyOfDoc
  <2> QED BY <2>1, <2>2, <2>3, FamilyCancelled
<1>11. CASE Tick
  BY <1>11, FamilyUntouched DEF Tick, Aged
<1>12. CASE UNCHANGED job
  BY <1>12, FamilyUntouched
<1>13. ASSUME NEW w \in Workers, NEW j \in Jobs, StageBatch(w, j)
       PROVE  CancelledIndexHasNoLiveBatch'
  BY <1>1, <1>13 DEF StageBatch, Owns
<1>14. CASE \E w \in Workers : WorkerStep(w)
  BY <1>2, <1>3, <1>4, <1>5, <1>6, <1>7, <1>10, <1>12, <1>13, <1>14
  DEF WorkerStep, LeaseLost, Crash, DrainIntents
<1>15. CASE \E batch \in SUBSET slots : ExpireReserved(batch)
  BY <1>12, <1>15 DEF ExpireReserved
<1> QED BY <1>1, <1>8, <1>9, <1>10, <1>11, <1>12, <1>14, <1>15
  DEF Next, Enqueue, RequestDelete, RefundOrphanedSlots, vars

-----------------------------------------------------------------------------
(* Leases and the slots that count them.                                   *)

\* A step that leaves alone every running job it does not end, with its slot.
LEMMA SlotsHeld ==
  ASSUME TypeOK, LiveLeaseHoldsSlot, NEW gone \in SUBSET Jobs,
         \A i \in gone : job'[i].status # "leased",
         \A i \in Jobs \ gone : job'[i].status = "leased" => job'[i] = job[i],
         \A s \in slots : s.job \notin gone /\ s.left > 0
                            /\ job[s.job].status = "leased" => s \in slots'
  PROVE  LiveLeaseHoldsSlot'
<1>1. SUFFICES ASSUME NEW j \in Jobs, job'[j].status = "leased", job'[j].lease > 0
               PROVE  \E s \in slots' : s.job = j /\ s.left = job'[j].lease
  BY DEF LiveLeaseHoldsSlot
<1>2. j \notin gone /\ job'[j] = job[j]
  BY <1>1
<1>3. PICK s \in slots : s.job = j /\ s.left = job[j].lease
  BY <1>1, <1>2 DEF LiveLeaseHoldsSlot
<1>4. s \in slots'
  <2>1. s.left > 0 /\ job[s.job].status = "leased" /\ s.job \notin gone
    BY <1>1, <1>2, <1>3
  <2> QED BY <2>1
<1> QED BY <1>2, <1>3, <1>4

\* The same where the step ends no running job.
LEMMA SlotsUntouched ==
  ASSUME TypeOK, LiveLeaseHoldsSlot,
         \A i \in Jobs : job'[i].status = "leased" => job'[i] = job[i],
         \A s \in slots : s.left > 0 /\ job[s.job].status = "leased" => s \in slots'
  PROVE  LiveLeaseHoldsSlot'
<1> DEFINE gone == {}
<1>1. gone \in SUBSET Jobs /\ \A i : i \notin gone
  OBVIOUS
<1> HIDE DEF gone
<1> QED BY <1>1, SlotsHeld

\* The same where the step ends the lease of one job.
LEMMA SlotsOfOthersHeld ==
  ASSUME TypeOK, LiveLeaseHoldsSlot, NEW j \in Jobs,
         job'[j].status # "leased",
         \A i \in Jobs \ {j} : job'[i] = job[i],
         slots' \in {SlotsWithout({j}), slots}
  PROVE  LiveLeaseHoldsSlot'
<1> DEFINE gone == {j}
<1>1. gone \in SUBSET Jobs /\ \A i : i \in gone <=> i = j
  OBVIOUS
<1>2. \A s \in slots : s.job \notin gone => s \in slots'
  BY DEF SlotsWithout
<1> HIDE DEF gone
<1> QED BY <1>1, <1>2, SlotsHeld

LEMMA LeaseStep ==
  ASSUME ~ LateHeartbeats, TypeOK, RowInv, LiveLeaseHoldsSlot, [Next]_vars
  PROVE  LiveLeaseHoldsSlot'
<1>1. ASSUME NEW j \in Jobs, Insert(j) PROVE LiveLeaseHoldsSlot'
  BY <1>1, SlotsUntouched DEF Insert, TypeOK
<1>2. ASSUME NEW w \in Workers, NEW j \in Jobs, Claim(w, j)
      PROVE  LiveLeaseHoldsSlot'
  <2>1. job'[j].lease = LeaseTTL
    BY <1>2 DEF Claim, Leased, TypeOK
  <2>2. [job |-> j, key |-> job'[j].token, left |-> LeaseTTL] \in slots' /\ slots \subseteq slots'
    BY <1>2, ClaimGrants
  <2>3. \A i \in Jobs \ {j} : job'[i] = job[i]
    BY <1>2, ClaimGrants
  <2> QED BY <2>1, <2>2, <2>3 DEF LiveLeaseHoldsSlot
<1>3. ASSUME NEW w \in Workers, Heartbeat(w) PROVE LiveLeaseHoldsSlot'
  <2>1. PICK j \in Jobs : /\ job[j].status = "leased" /\ job[j].lease > 0
                          /\ job' = [job EXCEPT ![j].lease = LeaseTTL]
                          /\ slots' = ExtendedSlots(j)
    BY <1>3 DEF Heartbeat, Owns
  <2>2. \E s \in slots' : s.job = j /\ s.left = LeaseTTL
    <3>1. PICK s \in slots : s.job = j
      BY <2>1 DEF LiveLeaseHoldsSlot
    <3>2. [s EXCEPT !.left = LeaseTTL] \in slots'
      BY <2>1, <3>1 DEF ExtendedSlots
    <3>3. /\ [s EXCEPT !.left = LeaseTTL].job = j
          /\ [s EXCEPT !.left = LeaseTTL].left = LeaseTTL
      BY <3>1 DEF TypeOK, Slots
    <3> QED BY <3>2, <3>3
  <2>3. \A s \in slots : s.job # j => s \in slots'
    BY <2>1 DEF ExtendedSlots
  <2>4. job'[j].lease = LeaseTTL /\ \A i \in Jobs \ {j} : job'[i] = job[i]
    BY <2>1 DEF TypeOK, Rows
  <2> QED BY <2>2, <2>3, <2>4 DEF LiveLeaseHoldsSlot
<1>4. ASSUME NEW w \in Workers, Complete(w) \/ FinalizeIndexed(w)
      PROVE  LiveLeaseHoldsSlot'
  <2>1. PICK j \in Jobs : /\ job' = [job EXCEPT ![j] = Cleared(@, "succeeded")]
                          /\ slots' \in {SlotsWithout({j}), slots}
    BY <1>4 DEF Complete, FinalizeIndexed
  <2>2. job'[j].status # "leased" /\ \A i \in Jobs \ {j} : job'[i] = job[i]
    BY <2>1, ClearedStatus DEF TypeOK
  <2> QED BY <2>1, <2>2, SlotsOfOthersHeld
<1>5. ASSUME NEW w \in Workers, FinalizePurged(w) PROVE LiveLeaseHoldsSlot'
  <2>1. PICK j \in Jobs :
          /\ job' = [k \in Jobs |->
               IF k = j THEN Cleared(job[k], "succeeded")
               ELSE IF k \in ActiveWriters(DocOf[j]) THEN Cleared(job[k], "cancelled")
               ELSE job[k]]
          /\ slots' = slots
    BY <1>5 DEF FinalizePurged
  <2> DEFINE gone == {j} \cup ActiveWriters(DocOf[j])
  <2>2. gone \in SUBSET Jobs
    BY ActiveWritersType
  <2>3. /\ \A i \in gone : job'[i].status # "leased"
        /\ \A i \in Jobs \ gone : job'[i] = job[i]
    BY <2>1, <2>2, ClearedStatus
  <2> HIDE DEF gone
  <2> QED BY <2>1, <2>2, <2>3, SlotsHeld
<1>6. ASSUME NEW w \in Workers, Fail(w) \/ ReleaseDryRun(w) PROVE LiveLeaseHoldsSlot'
  <2>1. PICK j \in Jobs :
          /\ Owns(w, j)
          /\ \/ job' = [job EXCEPT ![j] = Retired(@, BackoffForAttempt(@.attempts))]
             \/ job' = [job EXCEPT ![j] = Requeued(RestoredAttempts(@.attempts), 0)]
          /\ slots' = SlotsWithout({j})
    <3>1. CASE Fail(w)
      BY <3>1 DEF Fail
    <3>2. CASE ReleaseDryRun(w)
      BY <3>2 DEF ReleaseDryRun
    <3> QED BY <1>6, <3>1, <3>2
  <2>2. job'[j].status # "leased"
    <3>1. job[j] \in Rows /\ job[j].attempts \in Nat
      BY <2>1, OwnsType
    <3>2. Retired(job[j], BackoffForAttempt(job[j].attempts)).status # "leased"
      BY <3>1, BackoffType, RetiredType
    <3>3. Requeued(RestoredAttempts(job[j].attempts), 0).status # "leased"
      BY DEF Requeued
    <3> QED BY <2>1, <3>2, <3>3 DEF TypeOK
  <2>3. \A i \in Jobs \ {j} : job'[i] = job[i]
    BY <2>1 DEF TypeOK
  <2> QED BY <2>1, <2>2, <2>3, SlotsOfOthersHeld
<1>7. ASSUME NEW gone \in SUBSET Jobs, Reclaim(gone) PROVE LiveLeaseHoldsSlot'
  <2>1. \A i \in gone : job'[i].status # "leased"
    BY <1>7, RetiredType, BoundsAssumption DEF BoundsAssumption, Reclaim, TypeOK
  <2>2. /\ \A i \in Jobs \ gone : job'[i] = job[i]
        /\ \A s \in slots : s.job \notin gone => s \in slots'
    BY <1>7 DEF Reclaim, SlotsWithout
  <2> QED BY <2>1, <2>2, SlotsHeld
<1>8. ASSUME NEW j \in Jobs, CancelJob(j) PROVE LiveLeaseHoldsSlot'
  <2>1. Family(j) \in SUBSET Jobs
    BY DEF Family
  <2>2. /\ \A i \in Family(j) : job'[i].status # "leased"
        /\ \A i \in Jobs \ Family(j) : job'[i] = job[i]
        /\ \A s \in slots : s.job \notin Family(j) => s \in slots'
    BY <1>8, <2>1, ClearedStatus DEF CancelJob, SlotsWithout
  <2> QED BY <2>1, <2>2, SlotsHeld
<1>9. ASSUME NEW d, CancelWriters(d), slots' = slots PROVE LiveLeaseHoldsSlot'
  <2>1. ActiveWriters(d) \in SUBSET Jobs
    BY ActiveWritersType
  <2>2. /\ \A i \in ActiveWriters(d) : job'[i].status # "leased"
        /\ \A i \in Jobs \ ActiveWriters(d) : job'[i] = job[i]
    BY <1>9, <2>1, ClearedStatus DEF CancelWriters
  <2> QED BY <1>9, <2>1, <2>2, SlotsHeld
<1>10. CASE Tick
  <2>1. SUFFICES ASSUME NEW j \in Jobs, job'[j].status = "leased", job'[j].lease > 0
                 PROVE  \E s \in slots' : s.job = j /\ s.left = job'[j].lease
    BY DEF LiveLeaseHoldsSlot
  <2>2. job[j] \in Rows /\ job'[j] = Aged(job[j])
    BY <1>10 DEF Tick, TypeOK
  <2>3. /\ job[j].status = "leased" /\ job[j].lease \in Int
        /\ job[j].lease > 1 /\ job'[j].lease = job[j].lease - 1
    BY <2>1, <2>2, BoundsAssumption DEF BoundsAssumption, Aged, Rows
  <2>4. PICK s \in slots : s.job = j /\ s.left = job[j].lease
    BY <2>3 DEF LiveLeaseHoldsSlot
  <2>5. [s EXCEPT !.left = Lower(@)] \in slots'
    BY <1>10 DEF Tick
  <2>6. /\ [s EXCEPT !.left = Lower(@)].job = j
        /\ [s EXCEPT !.left = Lower(@)].left = job[j].lease - 1
    BY <2>3, <2>4 DEF TypeOK, Slots, Lower
  <2> QED BY <2>3, <2>5, <2>6
<1>11. CASE UNCHANGED <<job, slots>>
  BY <1>11 DEF LiveLeaseHoldsSlot
<1>12. CASE RefundOrphanedSlots \/ \E batch \in SUBSET slots : ExpireReserved(batch)
  <2>1. job' = job
    BY <1>12 DEF RefundOrphanedSlots, ExpireReserved
  <2>2. \A s \in slots : s.left > 0 /\ job[s.job].status = "leased" => s \in slots'
    BY <1>12 DEF RefundOrphanedSlots, ExpireReserved
  <2> QED BY <2>1, <2>2, SlotsUntouched
<1>13. CASE \E w \in Workers : WorkerStep(w)
  BY <1>1, <1>2, <1>3, <1>4, <1>5, <1>6, <1>9, <1>11, <1>13
  DEF WorkerStep, StageBatch, LeaseLost, Crash, DrainIntents
<1> QED BY <1>1, <1>7, <1>8, <1>9, <1>10, <1>11, <1>12, <1>13
  DEF Next, Enqueue, RequestDelete, vars

-----------------------------------------------------------------------------
(* The contract.  Promise(j) is the component j of the refinement mapping; *)
(* each step moves it by a move of the contract or leaves it alone.        *)

Promise(j) == [phase |-> Phase(j), holder |-> Holder(j),
               spent |-> job[j].attempts, by |-> finishedBy[j]]

\* Nobody is recorded as the finisher of a job that has not ended.
FinishInv == \A j \in Jobs : job[j].status \notin Ended => finishedBy[j] = NoWorker

LEMMA OwnerIsUnique ==
  ASSUME RowInv, TokenInv
  PROVE  OneOwner
<1>1. ASSUME NEW v \in Workers, NEW w \in Workers, NEW j \in Jobs, Owns(v, j), Owns(w, j)
      PROVE  v = w
  <2>1. worker[v].token = job[j].token /\ worker[w].token = job[j].token
    BY <1>1 DEF Owns
  <2>2. job[j].token # NoToken
    BY <1>1 DEF Owns, RowInv
  <2> QED BY <2>1, <2>2 DEF TokenInv
<1> QED BY <1>1 DEF OneOwner

LEMMA OwnerIsUniqueNext ==
  ASSUME RowInv', TokenInv'
  PROVE  OneOwner'
<1>1. ASSUME NEW v \in Workers, NEW w \in Workers, NEW j \in Jobs, Owns(v, j)', Owns(w, j)'
      PROVE  v = w
  <2>1. worker'[v].token = job'[j].token /\ worker'[w].token = job'[j].token
    BY <1>1 DEF Owns
  <2>2. job'[j].token # NoToken
    BY <1>1 DEF Owns, RowInv
  <2> QED BY <2>1, <2>2 DEF TokenInv
<1> QED BY <1>1 DEF OneOwner

LEMMA HolderOwns ==
  ASSUME OneOwner, NEW j \in Jobs
  PROVE  /\ \A w \in Workers : Owns(w, j) => Holder(j) = w
         /\ Holder(j) # NoWorker => Holder(j) \in Workers /\ Owns(Holder(j), j)
         /\ job[j].status # "leased" => Holder(j) = NoWorker
<1> DEFINE own(w) == Owns(w, j)
<1>1. \A v, w \in Workers : own(v) /\ own(w) => v = w
  BY DEF OneOwner
<1>2. Holder(j) = IF \E w \in Workers : own(w) THEN CHOOSE w \in Workers : own(w) ELSE NoWorker
  BY DEF Holder
<1>3. job[j].status # "leased" => \A w \in Workers : ~ own(w)
  BY DEF Owns
<1> HIDE DEF own
<1>4. /\ \A w \in Workers : own(w) => Holder(j) = w
      /\ Holder(j) # NoWorker => Holder(j) \in Workers /\ own(Holder(j))
  BY <1>1, <1>2
<1> QED BY <1>2, <1>3, <1>4 DEF own

LEMMA HolderOwnsNext ==
  ASSUME OneOwner', NEW j \in Jobs
  PROVE  /\ \A w \in Workers : Owns(w, j)' => Holder(j)' = w
         /\ Holder(j)' # NoWorker => \E w \in Workers : w = Holder(j)' /\ Owns(w, j)'
         /\ job'[j].status # "leased" => Holder(j)' = NoWorker
<1> DEFINE own(w) == Owns(w, j)'
<1>1. \A v, w \in Workers : own(v) /\ own(w) => v = w
  BY DEF OneOwner
<1>2. Holder(j)' = IF \E w \in Workers : own(w) THEN CHOOSE w \in Workers : own(w) ELSE NoWorker
  BY DEF Holder
<1>3. job'[j].status # "leased" => \A w \in Workers : ~ own(w)
  BY DEF Owns
<1> HIDE DEF own
<1>4. /\ \A w \in Workers : own(w) => Holder(j)' = w
      /\ Holder(j)' # NoWorker => \E w \in Workers : w = Holder(j)' /\ own(w)
  BY <1>1, <1>2
<1> QED BY <1>2, <1>3, <1>4 DEF own

\* No step but a claim gives a worker something to hold.
LEMMA ClaimsCarried ==
  ASSUME TypeOK, [Next]_vars,
         ~ \E w \in Workers, j \in Jobs : Claim(w, j),
         NEW v \in Workers
  PROVE  \/ worker'[v] = NoClaim
         \/ /\ worker'[v].job = worker[v].job
            /\ worker'[v].token = worker[v].token
            /\ worker'[v].attempts = worker[v].attempts
<1> DEFINE Carried == \/ worker'[v] = NoClaim
                      \/ /\ worker'[v].job = worker[v].job
                         /\ worker'[v].token = worker[v].token
                         /\ worker'[v].attempts = worker[v].attempts
<1> SUFFICES Carried
  OBVIOUS
<1>1. ASSUME NEW w \in Workers, Drop(w) \/ Acknowledged(w) PROVE Carried
  BY <1>1 DEF TypeOK, Drop, Acknowledged
<1>2. CASE UNCHANGED worker
  BY <1>2
<1>3. CASE Tick
  BY <1>3 DEF Tick, TypeOK, Claims, NoClaim
<1> HIDE DEF Carried
<1>4. CASE \E w \in Workers : WorkerStep(w)
  BY <1>1, <1>2, <1>4
  DEF WorkerStep, StageBatch, Insert, Heartbeat, LeaseLost, Crash, Complete,
      FinalizeIndexed, FinalizePurged, Fail, ReleaseDryRun, DrainIntents
<1> QED BY <1>2, <1>3, <1>4
  DEF Next, vars, Enqueue, Insert, Reclaim, CancelJob, RequestDelete,
      ExpireReserved, RefundOrphanedSlots

\* Whoever passes the fence of a row that was not granted passed it before.
LEMMA OwnersKept ==
  ASSUME TypeOK, RowInv, [Next]_vars, NEW j \in Jobs, Kept(job[j], job'[j]),
         NEW w \in Workers, Owns(w, j)'
  PROVE  Owns(w, j)
<1>1. CASE \E v \in Workers, i \in Jobs : Claim(v, i)
  <2>1. PICK v \in Workers, i \in Jobs : Claim(v, i)
    BY <1>1
  <2>2. i # j
    BY <2>1, ClaimGrants DEF Granted, Kept
  <2>3. v # w
    BY <2>1, <2>2 DEF Claim, Owns, TypeOK
  <2>4. worker'[w] = worker[w]
    BY <2>1, <2>3, ClaimGrants
  <2> QED BY <2>4 DEF Owns, Kept
<1>2. CASE ~ \E v \in Workers, i \in Jobs : Claim(v, i)
  <2>1. worker'[w] # NoClaim
    BY ConstantsAssumption DEF ConstantsAssumption, Owns, NoClaim
  <2> QED BY <1>2, <2>1, ClaimsCarried DEF Owns, Kept
<1> QED BY <1>1, <1>2

Stays(j) == Promise(j)' = Promise(j) \/ Contract!Move(Promise(j), Promise(j)')

LEMMA PromiseKept ==
  ASSUME IInv, IInv', [Next]_vars, NEW j \in Jobs,
         Kept(job[j], job'[j]), finishedBy'[j] = finishedBy[j]
  PROVE  Stays(j)
<1>1. OneOwner /\ OneOwner'
  BY OwnerIsUnique, OwnerIsUniqueNext DEF IInv
<1>2. Holder(j)' \in {Holder(j), NoWorker}
  BY <1>1, HolderOwns, HolderOwnsNext, OwnersKept DEF IInv
<1>3. Phase(j)' = Phase(j) /\ job'[j].attempts = job[j].attempts
  BY DEF Phase, Kept
<1>4. Holder(j) # NoWorker => Phase(j) = "granted"
  BY <1>1, HolderOwns DEF Phase, Owns
<1>5. CASE Holder(j)' = Holder(j)
  BY <1>3, <1>5 DEF Stays, Promise
<1>6. CASE Holder(j)' # Holder(j)
  <2>1. Contract!Forsake(Promise(j), Promise(j)')
    BY <1>2, <1>3, <1>4, <1>6 DEF Contract!Forsake, Contract!Pledge, Promise
  <2> QED BY <2>1 DEF Stays, Contract!Move
<1> QED BY <1>5, <1>6

\* A job that is not leased after the step is held by nobody.
LEMMA Moved ==
  ASSUME IInv', NEW j \in Jobs, job'[j].status # "leased"
  PROVE  Promise(j)' = [phase |-> Phase(j)', holder |-> NoWorker,
                        spent |-> job'[j].attempts, by |-> finishedBy'[j]]
  BY OwnerIsUniqueNext, HolderOwnsNext DEF IInv, Promise

\* A leased job that somebody owns is granted to him.
LEMMA GrantedTo ==
  ASSUME IInv, NEW j \in Jobs, NEW w \in Workers, Owns(w, j)
  PROVE  Promise(j) = [phase |-> "granted", holder |-> w,
                       spent |-> job[j].attempts, by |-> finishedBy[j]]
  BY OwnerIsUnique, HolderOwns DEF IInv, Promise, Phase, Owns

LEMMA PromiseFinished ==
  ASSUME IInv, IInv', NEW j \in Jobs, NEW w \in Workers, Owns(w, j),
         job'[j] = Cleared(job[j], "succeeded"), finishedBy'[j] = w
  PROVE  Stays(j)
<1>1. /\ job'[j].status = "succeeded" /\ Phase(j)' = "succeeded"
      /\ job'[j].attempts = job[j].attempts
  BY DEF Cleared, Phase
<1>2. Contract!Finish(Promise(j), Promise(j)')
  BY <1>1, Moved, GrantedTo, ConstantsAssumption
  DEF ConstantsAssumption, Contract!Finish, Contract!Pledge
<1> QED BY <1>2 DEF Stays, Contract!Move

LEMMA PromiseCancelled ==
  ASSUME IInv, IInv', NEW j \in Jobs, job[j].status \in {"pending", "leased"},
         job'[j] = Cleared(job[j], "cancelled"), finishedBy'[j] = finishedBy[j]
  PROVE  Stays(j)
<1>1. /\ job'[j].status = "cancelled" /\ Phase(j)' = "cancelled"
      /\ job'[j].attempts = job[j].attempts
  BY DEF Cleared, Phase
<1>2. Phase(j) \in {"queued", "granted"}
  BY DEF Phase
<1>3. Contract!Cancel(Promise(j), Promise(j)')
  BY <1>1, <1>2, Moved DEF Contract!Cancel, Contract!Pledge, Promise
<1> QED BY <1>3 DEF Stays, Contract!Move

\* A failed or reclaimed job is queued again or buried, by its holder or
\* over his head.
LEMMA PromiseRetired ==
  ASSUME IInv, IInv', FinishInv, NEW j \in Jobs, job[j].status = "leased",
         NEW delay \in Nat, job'[j] = Retired(job[j], delay),
         \/ finishedBy'[j] = finishedBy[j]
         \/ job'[j].status # "pending" /\ finishedBy'[j] = Holder(j)
  PROVE  Stays(j)
<1>1. job[j] \in Rows /\ job[j].attempts \in 0..MaxAttempts /\ MaxAttempts \in Nat
  BY BoundsAssumption DEF BoundsAssumption, IInv, TypeOK, Rows
<1>2. /\ job'[j].status = IF job[j].attempts < MaxAttempts THEN "pending" ELSE "dead_letter"
      /\ job'[j].attempts = job[j].attempts
  BY <1>1, RetiredType
<1>3. Phase(j) = "granted" /\ finishedBy[j] = NoWorker
  BY DEF Phase, FinishInv, Ended
<1>4. CASE job[j].attempts < MaxAttempts
  <2>1. Phase(j)' = "queued" /\ job'[j].status = "pending" /\ finishedBy'[j] = finishedBy[j]
    BY <1>2, <1>4 DEF Phase
  <2>2. Contract!Requeue(Promise(j), Promise(j)')
    BY <1>2, <1>3, <1>4, <2>1, Moved DEF Contract!Requeue, Contract!Pledge, Promise
  <2> QED BY <2>2 DEF Stays, Contract!Move
<1>5. CASE ~ job[j].attempts < MaxAttempts
  <2>1. Phase(j)' = "dead_letter" /\ job'[j].status = "dead_letter"
    BY <1>2, <1>5 DEF Phase
  <2>2. job[j].attempts = MaxAttempts /\ finishedBy'[j] \in {Holder(j), NoWorker}
    BY <1>1, <1>3, <1>5
  <2>3. Contract!Bury(Promise(j), Promise(j)')
    BY <1>2, <1>3, <2>1, <2>2, Moved DEF Contract!Bury, Contract!Pledge, Promise
  <2> QED BY <2>3 DEF Stays, Contract!Move
<1> QED BY <1>4, <1>5

LEMMA PromiseAccepted ==
  ASSUME IInv, IInv', NEW j \in Jobs, Insert(j)
  PROVE  Stays(j)
<1>1. /\ job[j].status = "absent" /\ job'[j].status = "pending"
      /\ job'[j].attempts = job[j].attempts /\ finishedBy'[j] = finishedBy[j]
  BY DEF Insert, IInv, TypeOK, Rows
<1>2. Phase(j) = "none" /\ Phase(j)' = "queued"
  BY <1>1 DEF Phase
<1>3. Holder(j) = NoWorker
  BY <1>1, OwnerIsUnique, HolderOwns DEF IInv
<1>4. Contract!Accept(Promise(j), Promise(j)')
  BY <1>1, <1>2, <1>3, Moved DEF Contract!Accept, Contract!Pledge, Promise
<1> QED BY <1>4 DEF Stays, Contract!Move

LEMMA PromiseGranted ==
  ASSUME IInv, IInv', NEW j \in Jobs, NEW w \in Workers, Claim(w, j)
  PROVE  Stays(j)
<1>1. /\ job[j].status = "pending" /\ job'[j].status = "leased"
      /\ job'[j].attempts = job[j].attempts + 1 /\ finishedBy'[j] = finishedBy[j]
  BY ClaimGrants DEF IInv, Granted, Claim
<1>2. Phase(j) = "queued" /\ Phase(j)' = "granted"
  BY <1>1 DEF Phase
<1>3. Owns(w, j)'
  BY DEF Claim, Leased, Owns, IInv, TypeOK
<1>4. Holder(j)' = w
  BY <1>3, OwnerIsUniqueNext, HolderOwnsNext DEF IInv
<1>5. job[j].attempts < MaxAttempts
  BY <1>1 DEF IInv, RowInv
<1>6. Contract!Grant(Promise(j), Promise(j)')
  BY <1>1, <1>2, <1>4, <1>5 DEF Contract!Grant, Contract!Pledge, Promise
<1> QED BY <1>6 DEF Stays, Contract!Move

LEMMA PromiseGivenBack ==
  ASSUME IInv, IInv', NEW j \in Jobs, NEW w \in Workers, Owns(w, j),
         job'[j] = Requeued(RestoredAttempts(job[j].attempts), 0),
         finishedBy'[j] = finishedBy[j]
  PROVE  Stays(j)
<1>1. job[j].attempts \in 1..MaxAttempts /\ MaxAttempts \in Nat
  BY OwnsType, BoundsAssumption DEF BoundsAssumption, IInv
<1>2. /\ job'[j].status = "pending" /\ Phase(j)' = "queued"
      /\ job'[j].attempts = job[j].attempts - 1
  BY <1>1 DEF Requeued, RestoredAttempts, Phase
<1>3. Contract!GiveBack(Promise(j), Promise(j)')
  BY <1>2, Moved, GrantedTo, ConstantsAssumption
  DEF ConstantsAssumption, Contract!GiveBack, Contract!Pledge
<1> QED BY <1>3 DEF Stays, Contract!Move

\* What a step does to the finishers, next to what it does to the row.
LEMMA FinishersMove ==
  ASSUME TypeOK, [Next]_vars, NEW j \in Jobs
  PROVE  \/ finishedBy'[j] = finishedBy[j]
         \/ job'[j].status \in Ended
<1>1. ASSUME NEW w \in Workers, NEW i \in Jobs, Succeed(w, i), job'[i].status = "succeeded"
      PROVE  finishedBy'[j] = finishedBy[j] \/ job'[j].status \in Ended
  BY <1>1 DEF Succeed, TypeOK, Ended
<1>2. ASSUME NEW w \in Workers, Complete(w) \/ FinalizeIndexed(w) \/ FinalizePurged(w)
      PROVE  finishedBy'[j] = finishedBy[j] \/ job'[j].status \in Ended
  <2>1. PICK i \in Jobs : Succeed(w, i) /\ job'[i].status = "succeeded"
    <3>1. CASE Complete(w)
      BY <3>1, ClearedStatus DEF Complete, TypeOK
    <3>2. CASE FinalizeIndexed(w)
      BY <3>2, ClearedStatus DEF FinalizeIndexed, TypeOK
    <3>3. CASE FinalizePurged(w)
      BY <3>3, ClearedStatus DEF FinalizePurged
    <3> QED BY <1>2, <3>1, <3>2, <3>3
  <2> QED BY <1>1, <2>1
<1>3. ASSUME NEW w \in Workers, Fail(w)
      PROVE  finishedBy'[j] = finishedBy[j] \/ job'[j].status \in Ended
  <2>1. PICK i \in Jobs :
          /\ Owns(w, i)
          /\ LET row == Retired(job[i], BackoffForAttempt(job[i].attempts))
             IN  /\ job' = [job EXCEPT ![i] = row]
                 /\ finishedBy' = IF row.status = "pending" THEN finishedBy
                                  ELSE [finishedBy EXCEPT ![i] = w]
    BY <1>3 DEF Fail
  <2>2. job'[i].status \in {"pending", "dead_letter"}
    <3>1. job[i] \in Rows /\ job[i].attempts \in Nat
      BY <2>1, OwnsType
    <3> QED BY <2>1, <3>1, BackoffType, RetiredType DEF TypeOK
  <2>3. job'[i].status = "pending" => finishedBy' = finishedBy
    BY <2>1 DEF TypeOK
  <2>4. i # j => finishedBy'[j] = finishedBy[j]
    BY <2>1 DEF TypeOK
  <2> QED BY <2>2, <2>3, <2>4 DEF Ended
<1>4. CASE UNCHANGED finishedBy
  BY <1>4
<1>5. CASE \E w \in Workers : WorkerStep(w)
  BY <1>2, <1>3, <1>4, <1>5
  DEF WorkerStep, StageBatch, Insert, Claim, Heartbeat, LeaseLost, Crash,
      ReleaseDryRun, DrainIntents
<1> QED BY <1>4, <1>5
  DEF Next, vars, Enqueue, Insert, Reclaim, CancelJob, RequestDelete,
      ExpireReserved, RefundOrphanedSlots, Tick

LEMMA FinishStep ==
  ASSUME TypeOK, RowInv, FinishInv, [Next]_vars
  PROVE  FinishInv'
<1>1. \A j \in Jobs : RowMove(job[j], job'[j]) \/ Granted(job[j], job'[j])
  <2>1. CASE \E w \in Workers, j \in Jobs : Claim(w, j)
    BY <2>1, ClaimGrants DEF RowMove, Kept
  <2>2. CASE ~ \E w \in Workers, j \in Jobs : Claim(w, j)
    BY <2>2, RowMoves
  <2> QED BY <2>1, <2>2
<1>2. \A j \in Jobs : job'[j].status \notin Ended => job[j].status \notin Ended
  BY <1>1 DEF RowMove, Granted, Kept, Accepted, Returned, Over, Ended
<1> QED BY <1>2, FinishersMove DEF FinishInv

\* Every step moves every promise by a move of the contract, or not at all.
LEMMA PromiseStep ==
  ASSUME IInv, IInv', FinishInv, [Next]_vars, NEW j \in Jobs
  PROVE  Stays(j)
<1>1. TypeOK /\ RowInv
  BY DEF IInv
<1>2. ASSUME job'[j] = job[j], finishedBy'[j] = finishedBy[j] PROVE Stays(j)
  BY <1>2, PromiseKept DEF Kept
<1>3. ASSUME NEW i \in Jobs, Insert(i) PROVE Stays(j)
  <2>1. i # j => job'[j] = job[j] /\ finishedBy'[j] = finishedBy[j]
    BY <1>1, <1>3 DEF Insert, TypeOK
  <2> QED BY <1>2, <1>3, <2>1, PromiseAccepted
<1>4. ASSUME NEW w \in Workers, NEW i \in Jobs, Claim(w, i) PROVE Stays(j)
  <2>1. i # j => job'[j] = job[j] /\ finishedBy'[j] = finishedBy[j]
    BY <1>1, <1>4 DEF Claim, TypeOK
  <2> QED BY <1>2, <1>4, <2>1, PromiseGranted
<1>5. ASSUME NEW w \in Workers, Heartbeat(w) PROVE Stays(j)
  <2>1. Kept(job[j], job'[j]) /\ finishedBy'[j] = finishedBy[j]
    BY <1>1, <1>5 DEF Heartbeat, Kept, TypeOK, Rows
  <2> QED BY <2>1, PromiseKept
<1>6. ASSUME NEW w \in Workers, Complete(w) \/ FinalizeIndexed(w) PROVE Stays(j)
  <2>1. PICK i \in Jobs :
          /\ Owns(w, i)
          /\ job' = [job EXCEPT ![i] = Cleared(@, "succeeded")]
          /\ finishedBy' = [finishedBy EXCEPT ![i] = w]
    BY <1>6 DEF Complete, FinalizeIndexed, Succeed
  <2>2. CASE i = j
    BY <1>1, <2>1, <2>2, PromiseFinished DEF TypeOK
  <2>3. CASE i # j
    BY <1>1, <1>2, <2>1, <2>3 DEF TypeOK
  <2> QED BY <2>2, <2>3
<1>7. ASSUME NEW w \in Workers, FinalizePurged(w) PROVE Stays(j)
  <2>1. PICK i \in Jobs :
          /\ Owns(w, i)
          /\ job' = [k \in Jobs |->
               IF k = i THEN Cleared(job[k], "succeeded")
               ELSE IF k \in ActiveWriters(DocOf[i]) THEN Cleared(job[k], "cancelled")
               ELSE job[k]]
          /\ finishedBy' = [finishedBy EXCEPT ![i] = w]
    BY <1>7 DEF FinalizePurged, Succeed
  <2>2. CASE i = j
    BY <1>1, <2>1, <2>2, PromiseFinished DEF TypeOK
  <2>3. CASE i # j /\ j \in ActiveWriters(DocOf[i])
    <3>1. job[j].status \in {"pending", "leased"} /\ finishedBy'[j] = finishedBy[j]
      BY <1>1, <2>1, <2>3 DEF ActiveWriters, TypeOK
    <3>2. job'[j] = Cleared(job[j], "cancelled")
      BY <2>1, <2>3
    <3> QED BY <3>1, <3>2, PromiseCancelled
  <2>4. CASE i # j /\ j \notin ActiveWriters(DocOf[i])
    BY <1>1, <1>2, <2>1, <2>4 DEF TypeOK
  <2> QED BY <2>2, <2>3, <2>4
<1>8. ASSUME NEW w \in Workers, Fail(w) PROVE Stays(j)
  <2>1. PICK i \in Jobs :
          /\ Owns(w, i)
          /\ LET row == Retired(job[i], BackoffForAttempt(job[i].attempts))
             IN  /\ job' = [job EXCEPT ![i] = row]
                 /\ finishedBy' = IF row.status = "pending" THEN finishedBy
                                  ELSE [finishedBy EXCEPT ![i] = w]
    BY <1>8 DEF Fail
  <2>2. CASE i = j
    <3>1. /\ job[j].status = "leased" /\ BackoffForAttempt(job[j].attempts) \in Nat
          /\ Holder(j) = w
      BY <1>1, <2>1, <2>2, OwnsType, BackoffType, OwnerIsUnique, HolderOwns DEF IInv
    <3>2. job'[j] = Retired(job[j], BackoffForAttempt(job[j].attempts))
      BY <1>1, <2>1, <2>2 DEF TypeOK
    <3>3. \/ finishedBy'[j] = finishedBy[j]
          \/ job'[j].status # "pending" /\ finishedBy'[j] = Holder(j)
      BY <1>1, <2>1, <2>2, <3>1, <3>2 DEF TypeOK
    <3> QED BY <3>1, <3>2, <3>3, PromiseRetired
  <2>3. CASE i # j
    BY <1>1, <1>2, <2>1, <2>3 DEF TypeOK
  <2> QED BY <2>2, <2>3
<1>9. ASSUME NEW w \in Workers, ReleaseDryRun(w) PROVE Stays(j)
  <2>1. PICK i \in Jobs :
          /\ Owns(w, i)
          /\ job' = [job EXCEPT ![i] = Requeued(RestoredAttempts(@.attempts), 0)]
          /\ finishedBy' = finishedBy
    BY <1>9 DEF ReleaseDryRun
  <2>2. CASE i = j
    BY <1>1, <2>1, <2>2, PromiseGivenBack DEF TypeOK
  <2>3. CASE i # j
    BY <1>1, <1>2, <2>1, <2>3 DEF TypeOK
  <2> QED BY <2>2, <2>3
<1>10. ASSUME NEW gone \in SUBSET Jobs, Reclaim(gone) PROVE Stays(j)
  <2>1. finishedBy'[j] = finishedBy[j]
    BY <1>10 DEF Reclaim
  <2>2. CASE j \in gone
    <3>1. job[j].status = "leased" /\ job'[j] = Retired(job[j], ReclaimBackoff)
      BY <1>10, <2>2 DEF Reclaim
    <3>2. ReclaimBackoff \in Nat
      BY BoundsAssumption DEF BoundsAssumption
    <3> QED BY <2>1, <3>1, <3>2, PromiseRetired
  <2>3. CASE j \notin gone
    BY <1>2, <1>10, <2>1, <2>3 DEF Reclaim
  <2> QED BY <2>2, <2>3
<1>11. ASSUME NEW S \in SUBSET Jobs,
              \A i \in S : job[i].status \in {"pending", "leased"},
              job' = [i \in Jobs |-> IF i \in S THEN Cleared(job[i], "cancelled") ELSE job[i]],
              finishedBy' = finishedBy
       PROVE  Stays(j)
  BY <1>2, <1>11, PromiseCancelled
<1>12. ASSUME NEW i \in Jobs, CancelJob(i) PROVE Stays(j)
  <2>1. Family(i) \in SUBSET Jobs /\ \A k \in Family(i) : job[k].status \in {"pending", "leased"}
    BY <1>12 DEF Family, CancelJob
  <2> QED BY <1>11, <1>12, <2>1 DEF CancelJob
<1>13. ASSUME NEW d, CancelWriters(d), finishedBy' = finishedBy PROVE Stays(j)
  <2>1. /\ ActiveWriters(d) \in SUBSET Jobs
        /\ \A k \in ActiveWriters(d) : job[k].status \in {"pending", "leased"}
    BY DEF ActiveWriters, Writers
  <2> QED BY <1>11, <1>13, <2>1 DEF CancelWriters
<1>14. CASE Tick
  <2>1. Kept(job[j], job'[j]) /\ finishedBy'[j] = finishedBy[j]
    BY <1>14 DEF Tick, Aged, Kept
  <2> QED BY <2>1, PromiseKept
<1>15. CASE UNCHANGED <<job, finishedBy>>
  BY <1>2, <1>15
<1>16. CASE \E w \in Workers : WorkerStep(w)
  BY <1>3, <1>4, <1>5, <1>6, <1>7, <1>8, <1>9, <1>13, <1>15, <1>16
  DEF WorkerStep, StageBatch, LeaseLost, Crash, DrainIntents
<1>17. CASE \E batch \in SUBSET slots : ExpireReserved(batch)
  BY <1>15, <1>17 DEF ExpireReserved
<1> QED BY <1>3, <1>10, <1>12, <1>13, <1>14, <1>15, <1>16, <1>17
  DEF Next, Enqueue, RequestDelete, RefundOrphanedSlots, vars

-----------------------------------------------------------------------------
(* The theorems.                                                           *)

LEMMA InitIInv == ASSUME Init PROVE IInv
  BY BoundsAssumption, ConstantsAssumption
  DEF BoundsAssumption, ConstantsAssumption, Init, IInv, TypeOK, RowInv, TokenInv,
      SlotsMatchLeases, OutboxInv, NoEventSwallowed, Absent, NoClaim, Rows, Slots, Claims, Statuses

LEMMA StepIInv ==
  ASSUME IInv, [Next]_vars
  PROVE  IInv'
  BY TypeStep, RowStep, TokenStep, SlotStep, EventStep DEF IInv, NoEventSwallowed

\* The inductive invariant holds in every reachable state.
THEOREM QueueInvariant == Spec => []IInv
<1>1. Init => IInv
  BY InitIInv
<1>2. IInv /\ [Next]_vars => IInv'
  BY StepIInv
<1> QED BY <1>1, <1>2, PTL DEF Spec

\* Types: in particular no job is ever granted more than MaxAttempts times.
THEOREM TypeCorrect == Spec => []TypeOK
  BY QueueInvariant, PTL DEF IInv

\* Two workers never pass the fence of the same job.
THEOREM LeaseHasOneOwner == Spec => []OneOwner
<1>1. IInv => OneOwner
  <2>1. ASSUME IInv, NEW v \in Workers, NEW w \in Workers, NEW j \in Jobs,
               Owns(v, j), Owns(w, j)
        PROVE  v = w
    <3>1. worker[v].token = job[j].token /\ worker[w].token = job[j].token
      BY <2>1 DEF Owns
    <3>2. job[j].token # NoToken
      BY <2>1 DEF Owns, IInv, RowInv
    <3> QED BY <2>1, <3>1, <3>2 DEF IInv, TokenInv
  <2> QED BY <2>1 DEF OneOwner
<1> QED BY <1>1, QueueInvariant, PTL

\* Each job holds at most one concurrency slot, none while it is queued.
THEOREM SlotsAreCountedOnce == Spec => []SlotsMatchLeases
  BY QueueInvariant, PTL DEF IInv

\* Two transitions of a job never share an outbox key.
THEOREM EveryEventIsRelayed == Spec => []NoEventSwallowed
  BY QueueInvariant, PTL DEF IInv

\* A cancelled index job leaves no batch of its own that could still run.
THEOREM CancelTakesBatchesAlong == Spec => []CancelledIndexHasNoLiveBatch
<1>1. Init => CancelledIndexHasNoLiveBatch
  BY FamilyAssumption DEF FamilyAssumption, Init, CancelledIndexHasNoLiveBatch, Absent
<1>2. IInv /\ CancelledIndexHasNoLiveBatch /\ [Next]_vars => CancelledIndexHasNoLiveBatch'
  BY FamilyStep DEF IInv
<1> QED BY <1>1, <1>2, QueueInvariant, PTL DEF Spec

\* Unless heartbeats may come late, every lease that is alive is counted by a
\* slot that is alive as long.
THEOREM LeasesAreCounted ==
  ASSUME ~ LateHeartbeats
  PROVE  Spec => []LiveLeaseHoldsSlot
<1>1. Init => LiveLeaseHoldsSlot
  BY DEF Init, LiveLeaseHoldsSlot, Absent
<1>2. IInv /\ LiveLeaseHoldsSlot /\ [Next]_vars => LiveLeaseHoldsSlot'
  BY LeaseStep DEF IInv
<1> QED BY <1>1, <1>2, QueueInvariant, PTL DEF Spec

\* The queue implements the contract, for every step of every behaviour.
THEOREM QueueHonoursContract == Spec => HonoursContract
<1>1. Init => FinishInv
  BY DEF Init, FinishInv
<1>2. IInv /\ FinishInv /\ [Next]_vars => FinishInv'
  BY FinishStep DEF IInv
<1>3. Init => Contract!Init
  <2> SUFFICES ASSUME Init PROVE Contract!Init
    OBVIOUS
  <2>1. \A j \in Jobs : job[j].status = "absent" /\ job[j].attempts = 0 /\ finishedBy[j] = NoWorker
    BY DEF Init, Absent
  <2>2. \A j \in Jobs : Phase(j) = "none" /\ Holder(j) = NoWorker
    BY <2>1 DEF Phase, Holder, Owns
  <2> QED BY <2>1, <2>2 DEF Contract!Init, Contract!Fresh, Contract!Pledge
<1>4. IInv /\ IInv' /\ FinishInv /\ [Next]_vars
        => [Contract!Next]_[j \in Jobs |-> [phase |-> Phase(j), holder |-> Holder(j),
                              spent |-> job[j].attempts, by |-> finishedBy[j]]]
  <2> SUFFICES ASSUME IInv, IInv', FinishInv, [Next]_vars
               PROVE  Contract!Next
    OBVIOUS
  <2>1. \A j \in Jobs : Promise(j)' = Promise(j) \/ Contract!Move(Promise(j), Promise(j)')
    BY PromiseStep DEF Stays
  <2> QED BY <2>1 DEF Contract!Next, Promise
<1> QED BY <1>1, <1>2, <1>3, <1>4, QueueInvariant, PTL DEF Spec, HonoursContract, Contract!Spec

\* What callers may build on.  An ended job keeps its outcome, and who is recorded with it.
Settled(j) == job[j].status \in Ended => job'[j].status = job[j].status /\ finishedBy'[j] = finishedBy[j]

\* Who makes a job succeed passes the fence of its lease at that moment, and is the one
\* that is recorded; the job was granted to nobody else.
Earned(j) ==
  job[j].status # "succeeded" /\ job'[j].status = "succeeded" =>
    \E w \in Workers : /\ Owns(w, j) /\ finishedBy'[j] = w
                       /\ \A v \in Workers \ {w} : ~ Owns(v, j)

LEMMA PhasesTell ==
  ASSUME IInv, IInv', NEW j \in Jobs
  PROVE  /\ job[j].status \in Ended => Phase(j) = job[j].status
         /\ Phase(j) \in Ended => Phase(j) = job[j].status
         /\ job'[j].status \in Ended => Phase(j)' = job'[j].status
         /\ Phase(j)' \in Ended => Phase(j)' = job'[j].status
BY DEF Phase, Ended

LEMMA MovesSettle ==
  ASSUME IInv, IInv', NEW j \in Jobs, Stays(j)
  PROVE  Settled(j) /\ Earned(j)
<1>1. CASE Promise(j)' = Promise(j)
  <2>1. Phase(j)' = Phase(j) /\ finishedBy'[j] = finishedBy[j]
    BY <1>1 DEF Promise
  <2>2. job[j].status \in Ended => job'[j].status = job[j].status
    BY <2>1, PhasesTell
  <2>3. job'[j].status = "succeeded" => job[j].status = "succeeded"
    BY <2>1, PhasesTell DEF Ended
  <2> QED BY <2>1, <2>2, <2>3 DEF Settled, Earned
<1>2. CASE Contract!Move(Promise(j), Promise(j)')
  <2>1. Phase(j) \in {"none", "queued", "granted"}
    BY <1>2 DEF Promise, Contract!Move, Contract!Accept, Contract!Grant, Contract!Forsake,
      Contract!Requeue, Contract!Bury, Contract!GiveBack, Contract!Finish, Contract!Cancel
  <2>2. job[j].status \notin Ended
    BY <2>1, PhasesTell DEF Ended
  <2>3. ASSUME job'[j].status = "succeeded"
        PROVE  \E w \in Workers : /\ Owns(w, j) /\ finishedBy'[j] = w
                                  /\ \A v \in Workers \ {w} : ~ Owns(v, j)
    <3>1. Phase(j)' = "succeeded"
      BY <2>3, PhasesTell DEF Ended
    <3>2. Contract!Finish(Promise(j), Promise(j)')
      BY <1>2, <3>1 DEF Promise, Contract!Move, Contract!Accept, Contract!Grant, Contract!Forsake,
        Contract!Requeue, Contract!Bury, Contract!GiveBack, Contract!Cancel, Contract!Pledge
    <3>3. Holder(j) # NoWorker /\ finishedBy'[j] = Holder(j)
      BY <3>2 DEF Promise, Contract!Finish, Contract!Pledge
    <3>4. OneOwner
      BY OwnerIsUnique DEF IInv
    <3>5. Holder(j) \in Workers /\ Owns(Holder(j), j)
      BY <3>3, <3>4, HolderOwns
    <3> QED BY <3>3, <3>4, <3>5 DEF OneOwner
  <2> QED BY <2>2, <2>3 DEF Settled, Earned
<1> QED BY <1>1, <1>2 DEF Stays

\* A job that ended is never revived, whatever comes late: a reclaim, a retry, a heartbeat or
\* a worker that has lost its lease (jobs/mod.rs, complete_owned and fail_owned).
THEOREM OutcomesAreFinal == Spec => [][\A j \in Jobs : Settled(j)]_vars
<1>1. Init => FinishInv
  BY DEF Init, FinishInv
<1>2. IInv /\ FinishInv /\ [Next]_vars => FinishInv'
  BY FinishStep DEF IInv
<1>3. IInv /\ IInv' /\ FinishInv /\ [Next]_vars => [\A j \in Jobs : Settled(j)]_vars
  BY PromiseStep, MovesSettle
<1> QED BY <1>1, <1>2, <1>3, QueueInvariant, PTL DEF Spec

\* A job succeeds by the one worker that owns its lease, and by no other (complete_owned).
THEOREM SuccessIsEarned == Spec => [][\A j \in Jobs : Earned(j)]_vars
<1>1. Init => FinishInv
  BY DEF Init, FinishInv
<1>2. IInv /\ FinishInv /\ [Next]_vars => FinishInv'
  BY FinishStep DEF IInv
<1>3. IInv /\ IInv' /\ FinishInv /\ [Next]_vars => [\A j \in Jobs : Earned(j)]_vars
  BY PromiseStep, MovesSettle
<1> QED BY <1>1, <1>2, <1>3, QueueInvariant, PTL DEF Spec
=============================================================================
