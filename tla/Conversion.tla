------------------------------ MODULE Conversion ------------------------------
(***************************************************************************)
(* One conversion job (workers/convert.rs, services/promotion.rs): every    *)
(* attempt stages its Markdown under an object key of its own, after it     *)
(* noted that key in the checkpoint of the job, and promotes it in one      *)
(* transaction; the attempts that fail, and at the end a clean-up job,      *)
(* delete what was staged and not promoted and refund what was reserved.    *)
(*                                                                          *)
(* An attempt is a process of its own: it goes on after its lease ran out,  *)
(* until a fenced write tells it so.  A key and a reservation are named by  *)
(* the number of the attempt.  Every error of a request may hide a success. *)
(***************************************************************************)
EXTENDS Naturals, FiniteSets

CONSTANTS MaxAttempts,   \* jobs.max_attempts of the conversion
          MaxCleanups    \* RECONCILIATION_MAX_ATTEMPTS

\* Assumed by the module that instantiates this one.
BoundsAssumption == MaxAttempts \in Nat \ {0} /\ MaxCleanups \in Nat \ {0}

Attempts == 1..MaxAttempts
None == 0
Cleaner == 0             \* the clean-up job, as the deleter of keys

VARIABLES
    job,          \* the job row: status, attempts, and the keys staged in its checkpoint
    at,           \* where each attempt is in the worker's code
    seen,         \* the keys in each attempt's own copy of the checkpoint
    todo,         \* the keys a deleter has still to look at
    doomed,       \* the key it found uncommitted and is about to delete
    deferred,     \* whether a part of an attempt's compensation failed
    objects,      \* the keys under which the storage holds Markdown
    flying,       \* the keys of writes that were given up and may still be applied
    reservation,  \* the storage quota of each attempt
    committed,    \* the key of the Markdown artifact and of the version, if promoted
    txn,          \* the attempt whose promotion is under way and holds the rows
    deleted,      \* the document is no longer eligible for promotion
    cleaner       \* the clean-up job: status and attempts

vars == <<job, at, seen, todo, doomed, deferred, objects, flying, reservation,
          committed, txn, deleted, cleaner>>

Phases == {"unborn", "convert", "clean", "reserve", "intend", "put", "staged",
           "promote", "undo", "report", "reportfail", "fail", "gone"}

Init ==
    /\ job = [status |-> "pending", attempts |-> 0, staged |-> {}]
    /\ at = [n \in Attempts |-> "unborn"] /\ seen = [n \in Attempts |-> {}]
    /\ todo = [a \in Attempts \cup {Cleaner} |-> {}]
    /\ doomed = [a \in Attempts \cup {Cleaner} |-> None]
    /\ deferred = {} /\ objects = {} /\ flying = {}
    /\ reservation = [n \in Attempts |-> "none"]
    /\ committed = None /\ txn = None /\ deleted = FALSE
    /\ cleaner = [status |-> "none", attempts |-> 0]

-----------------------------------------------------------------------------
(* The job row.  A promotion under way keeps it locked. *)

Owns(n) == job.status = "leased" /\ job.attempts = n
Fenced(n) == txn = None /\ Owns(n)
Terminal == job.status \in {"succeeded", "dead_letter", "cancelled"}

Retried == [job EXCEPT !.status = IF job.attempts < MaxAttempts THEN "pending"
                                                                ELSE "dead_letter"]

\* The attempts that are past the conversion and hold something to give back.
Busy(n) == at[n] \notin {"unborn", "gone"}

Goto(n, phase) == at' = [at EXCEPT ![n] = phase]
Sweeps(a, keys) == todo' = [todo EXCEPT ![a] = keys] /\ doomed' = [doomed EXCEPT ![a] = None]

Claim ==
    LET n == job.attempts + 1 IN
    /\ txn = None /\ job.status = "pending" /\ n \in Attempts
    /\ job' = [job EXCEPT !.status = "leased", !.attempts = n]
    /\ seen' = [seen EXCEPT ![n] = job.staged]
    /\ Goto(n, "convert")
    /\ UNCHANGED <<todo, doomed, deferred, objects, flying, reservation, committed,
                   txn, deleted, cleaner>>

LeaseExpires ==
    /\ txn = None /\ job.status = "leased" /\ job' = Retried
    /\ UNCHANGED <<at, seen, todo, doomed, deferred, objects, flying, reservation,
                   committed, txn, deleted, cleaner>>

CancelJob ==
    /\ txn = None /\ job.status \in {"pending", "leased"}
    /\ job' = [job EXCEPT !.status = "cancelled"]
    /\ UNCHANGED <<at, seen, todo, doomed, deferred, objects, flying, reservation,
                   committed, txn, deleted, cleaner>>

\* A tombstone; conversions are not among the jobs it cancels.
DeleteDocument ==
    /\ txn = None /\ ~deleted /\ deleted' = TRUE
    /\ UNCHANGED <<job, at, seen, todo, doomed, deferred, objects, flying, reservation,
                   committed, txn, cleaner>>

-----------------------------------------------------------------------------
(* Deleting staged keys: the committed one is looked up in one transaction, *)
(* the object is deleted afterwards.                                        *)

Sweeping(a) == IF a = Cleaner THEN cleaner.status = "sweeping" ELSE at[a] \in {"clean", "undo"}

LookUp(a) ==
    /\ Sweeping(a) /\ doomed[a] = None
    /\ \E k \in todo[a] :
        IF committed = k
          THEN todo' = [todo EXCEPT ![a] = @ \ {k}] /\ UNCHANGED doomed
          ELSE doomed' = [doomed EXCEPT ![a] = k] /\ UNCHANGED todo
    /\ UNCHANGED <<job, at, seen, deferred, objects, flying, reservation, committed,
                   txn, deleted, cleaner>>

DeleteKey(a) ==
    /\ Sweeping(a) /\ doomed[a] # None
    /\ objects' = objects \ {doomed[a]}
    /\ Sweeps(a, todo[a] \ {doomed[a]})
    /\ UNCHANGED <<job, at, seen, deferred, flying, reservation, committed, txn,
                   deleted, cleaner>>

\* The first error ends the sweep, whether or not the object is gone.
SweepFails(n) ==
    /\ Sweeping(n) /\ todo[n] # {}
    /\ objects' \in {objects, objects \ {doomed[n]}}
    /\ Sweeps(n, {})
    /\ IF at[n] = "clean" THEN Goto(n, "reportfail") /\ UNCHANGED deferred
                          ELSE deferred' = deferred \cup {n} /\ UNCHANGED at
    /\ UNCHANGED <<job, seen, flying, reservation, committed, txn, deleted, cleaner>>

-----------------------------------------------------------------------------
(* One attempt, up to the staged object. *)

\* Download, sandbox and deferred OCR under heartbeats; the last checkpoint is fenced.
Convert(n) ==
    /\ at[n] = "convert"
    /\ \/ Fenced(n) /\ Goto(n, "clean") /\ Sweeps(n, seen[n])
       \/ Goto(n, "fail") /\ UNCHANGED <<todo, doomed>>
       \/ ~Owns(n) /\ Goto(n, "gone") /\ UNCHANGED <<todo, doomed>>
    /\ UNCHANGED <<job, seen, deferred, objects, flying, reservation, committed, txn,
                   deleted, cleaner>>

Cleaned(n) ==
    /\ at[n] = "clean" /\ todo[n] = {} /\ Goto(n, "reserve")
    /\ UNCHANGED <<job, seen, todo, doomed, deferred, objects, flying, reservation,
                   committed, txn, deleted, cleaner>>

\* The reservation is not fenced by the lease, and outlives its own lost answer.
Reserve(n) ==
    /\ at[n] = "reserve"
    /\ \/ /\ reservation' = [reservation EXCEPT ![n] = "reserved"]
          /\ \E phase \in {"intend", "fail"} : Goto(n, phase)
       \/ Goto(n, "fail") /\ UNCHANGED reservation
    /\ UNCHANGED <<job, seen, todo, doomed, deferred, objects, flying, committed, txn,
                   deleted, cleaner>>

\* What an error leads to: the clean-up job when the lease is known lost,
\* the attempt's own compensation otherwise.
GivesUp(n) ==
    \/ ~Owns(n) /\ Goto(n, "report") /\ UNCHANGED <<todo, doomed>>
    \/ Goto(n, "undo") /\ Sweeps(n, seen[n])

\* Mutant: the intent is kept by the worker and reaches the row with the next checkpoint.
IntendInMemory(n) ==
    /\ at[n] = "intend" /\ Goto(n, "put") /\ seen' = [seen EXCEPT ![n] = @ \cup {n}]
    /\ UNCHANGED <<job, todo, doomed, deferred, objects, flying, reservation, committed,
                   txn, deleted, cleaner>>

\* The key is in the checkpoint before anything is written under it.
Intend(n) ==
    /\ at[n] = "intend"
    /\ \/ /\ Fenced(n) /\ job' = [job EXCEPT !.staged = @ \cup {n}]
          /\ \/ /\ seen' = [seen EXCEPT ![n] = @ \cup {n}] /\ Goto(n, "put")
                /\ UNCHANGED <<todo, doomed>>
             \/ GivesUp(n) /\ UNCHANGED seen
       \/ GivesUp(n) /\ UNCHANGED <<job, seen>>
    /\ UNCHANGED <<deferred, objects, flying, reservation, committed, txn, deleted, cleaner>>

Put(n) ==
    /\ at[n] = "put"
    /\ \/ /\ objects' = objects \cup {n} /\ UNCHANGED flying
          /\ (Goto(n, "staged") /\ UNCHANGED <<todo, doomed>>) \/ GivesUp(n)
       \/ flying' \in {flying, flying \cup {n}} /\ UNCHANGED objects /\ GivesUp(n)
    /\ UNCHANGED <<job, seen, deferred, reservation, committed, txn, deleted, cleaner>>

LatePut(k) ==
    /\ k \in flying /\ flying' = flying \ {k} /\ objects' = objects \cup {k}
    /\ UNCHANGED <<job, at, seen, todo, doomed, deferred, reservation, committed, txn,
                   deleted, cleaner>>

\* The checkpoint of the staged step, and the heartbeat before the promotion.
Staged(n) ==
    /\ at[n] = "staged"
    /\ \/ Fenced(n) /\ (Goto(n, "promote") \/ Goto(n, "report")) /\ UNCHANGED <<todo, doomed>>
       \/ GivesUp(n)
    /\ UNCHANGED <<job, seen, deferred, objects, flying, reservation, committed, txn,
                   deleted, cleaner>>

-----------------------------------------------------------------------------
(* The promotion. *)

\* The transaction locks the job, the document and the reservation.
Accepted(n) == Fenced(n) /\ ~deleted /\ committed = None /\ reservation[n] = "reserved"

BeginPromotion(n) ==
    /\ at[n] = "promote" /\ Accepted(n) /\ txn' = n
    /\ UNCHANGED <<job, at, seen, todo, doomed, deferred, objects, flying, reservation,
                   committed, deleted, cleaner>>

\* A refusal is an answer: nothing was committed.
PromotionRefused(n) ==
    /\ at[n] = "promote" /\ txn = None /\ ~Accepted(n)
    /\ IF Owns(n) THEN Goto(n, "undo") /\ Sweeps(n, seen[n])
                  ELSE Goto(n, "report") /\ UNCHANGED <<todo, doomed>>
    /\ UNCHANGED <<job, seen, deferred, objects, flying, reservation, committed, txn,
                   deleted, cleaner>>

\* Version, artifact, current version, outbox event, quota, checkpoint and job in one.
CommitPromotion ==
    /\ txn # None /\ txn' = None
    /\ committed' = txn
    /\ job' = [job EXCEPT !.status = "succeeded"]
    /\ reservation' = [reservation EXCEPT ![txn] = "finalized"]
    /\ (IF at[txn] = "promote" THEN \E phase \in {"gone", "report"} : Goto(txn, phase)
                               ELSE UNCHANGED at)
    /\ UNCHANGED <<seen, todo, doomed, deferred, objects, flying, deleted, cleaner>>

\* Mutant: a promotion that did not answer counts as one that failed.
TakesItBack(n) == Goto(n, "undo") /\ Sweeps(n, seen[n])

\* What an attempt does when its promotion was given up, or lost in transport.
AfterLostPromotion(n) == Goto(n, "report") /\ UNCHANGED <<todo, doomed>>

RollBack ==
    /\ txn # None /\ txn' = None
    /\ \/ at[txn] = "promote" /\ AfterLostPromotion(txn)
       \/ at[txn] = "promote" /\ Goto(txn, "undo") /\ Sweeps(txn, seen[txn])
       \/ at[txn] # "promote" /\ UNCHANGED <<at, todo, doomed>>
    /\ UNCHANGED <<job, seen, deferred, objects, flying, reservation, committed, deleted,
                   cleaner>>

\* The deadline or a failed heartbeat drops the promotion; it may still commit.
DropPromotion(n) ==
    /\ at[n] = "promote" /\ AfterLostPromotion(n)
    /\ UNCHANGED <<job, seen, deferred, objects, flying, reservation, committed, txn,
                   deleted, cleaner>>

-----------------------------------------------------------------------------
(* What follows a failure. *)

\* Mutant: the refund of every attempt does not look at what was charged.
Charged == {"reserved", "finalized"}
Refundable == {"reserved"}
Refund(keys) == [n \in Attempts |-> IF n \in keys /\ reservation[n] \in Refundable
                                      THEN "refunded" ELSE reservation[n]]

\* After the sweep, the refund; a part that failed is left to the clean-up job.
Undone(n) ==
    /\ at[n] = "undo" /\ todo[n] = {} /\ txn # n
    /\ \/ /\ reservation' = Refund({n})
          /\ Goto(n, IF n \in deferred THEN "reportfail" ELSE "fail")
       \/ UNCHANGED reservation /\ Goto(n, "reportfail")
    /\ UNCHANGED <<job, seen, todo, doomed, deferred, objects, flying, committed, txn,
                   deleted, cleaner>>

\* One clean-up job for all the attempts: its key is the job's.
Report(n) ==
    /\ at[n] \in {"report", "reportfail"}
    /\ cleaner' = IF cleaner.status = "none" THEN [cleaner EXCEPT !.status = "pending"]
                                             ELSE cleaner
    /\ Goto(n, IF at[n] = "report" THEN "gone" ELSE "fail")
    /\ UNCHANGED <<job, seen, todo, doomed, deferred, objects, flying, reservation,
                   committed, txn, deleted>>

\* jobs::fail, when the error is one to retry and the lease is held.
Fail(n) ==
    /\ at[n] = "fail" /\ Goto(n, "gone")
    /\ (Fenced(n) /\ job' = Retried) \/ UNCHANGED job
    /\ UNCHANGED <<seen, todo, doomed, deferred, objects, flying, reservation, committed,
                   txn, deleted, cleaner>>

Crash(n) ==
    /\ Busy(n) /\ Goto(n, "gone") /\ Sweeps(n, {})
    /\ flying' \in {flying, IF at[n] = "put" THEN flying \cup {n} ELSE flying}
    /\ objects' \in {objects, objects \ {doomed[n]}}
    /\ UNCHANGED <<job, seen, deferred, reservation, committed, txn, deleted, cleaner>>

\* The sweep of expired reservations; a promotion under way holds its row.
ReservationExpires(n) ==
    /\ reservation[n] = "reserved" /\ txn # n
    /\ reservation' = [reservation EXCEPT ![n] = "expired"]
    /\ UNCHANGED <<job, at, seen, todo, doomed, deferred, objects, flying, committed, txn,
                   deleted, cleaner>>

-----------------------------------------------------------------------------
(* The clean-up job, and the collection of dead-lettered conversions. *)

CleanerRetries ==
    [cleaner EXCEPT !.status = IF cleaner.attempts < MaxCleanups THEN "pending" ELSE "dead_letter"]

\* It reads the parent; as long as that is not terminal, it fails and comes back.
CleanerStarts ==
    /\ cleaner.status = "pending" /\ txn = None
    /\ LET claimed == [cleaner EXCEPT !.attempts = @ + 1] IN
       IF Terminal
         THEN cleaner' = [claimed EXCEPT !.status = "sweeping"] /\ Sweeps(Cleaner, job.staged)
         ELSE /\ cleaner' = [claimed EXCEPT !.status =
                    IF claimed.attempts < MaxCleanups THEN "pending" ELSE "dead_letter"]
              /\ UNCHANGED <<todo, doomed>>
    /\ UNCHANGED <<job, at, seen, deferred, objects, flying, reservation, committed, txn,
                   deleted>>

CleanerFinishes ==
    /\ cleaner.status = "sweeping" /\ todo[Cleaner] = {}
    /\ reservation' = Refund(1..job.attempts)
    /\ cleaner' = [cleaner EXCEPT !.status = "done"]
    /\ UNCHANGED <<job, at, seen, todo, doomed, deferred, objects, flying, committed, txn,
                   deleted>>

CleanerFails ==
    /\ cleaner.status = "sweeping" /\ cleaner' = CleanerRetries /\ Sweeps(Cleaner, {})
    /\ objects' \in {objects, objects \ {doomed[Cleaner]}}
    /\ \E keys \in SUBSET (1..job.attempts) : reservation' = Refund(keys)
    /\ UNCHANGED <<job, at, seen, deferred, flying, committed, txn, deleted>>

\* Keys in the checkpoint of a dead-lettered conversion that no row refers to.
CollectDeadLetter ==
    /\ job.status = "dead_letter"
    /\ \E keys \in SUBSET (job.staged \ {committed}) : keys # {} /\ objects' = objects \ keys
    /\ UNCHANGED <<job, at, seen, todo, doomed, deferred, flying, reservation, committed, txn,
                   deleted, cleaner>>

Next ==
    \/ Claim \/ LeaseExpires \/ CancelJob \/ DeleteDocument
    \/ CommitPromotion \/ RollBack
    \/ CleanerStarts \/ CleanerFinishes \/ CleanerFails \/ CollectDeadLetter
    \/ \E a \in Attempts \cup {Cleaner} : LookUp(a) \/ DeleteKey(a)
    \/ \E n \in Attempts :
        \/ Convert(n) \/ SweepFails(n) \/ Cleaned(n) \/ Reserve(n) \/ Intend(n)
        \/ Put(n) \/ LatePut(n) \/ Staged(n) \/ BeginPromotion(n) \/ PromotionRefused(n)
        \/ DropPromotion(n) \/ Undone(n) \/ Report(n) \/ Fail(n) \/ Crash(n)
        \/ ReservationExpires(n)

Spec == Init /\ [][Next]_vars

-----------------------------------------------------------------------------
(* Properties *)

\* A promoted version has its Markdown: no attempt, whether it compensates, cleans up
\* after an earlier one or runs on without its lease, and no clean-up job deletes the
\* object a promotion has committed or is about to commit, even where the promotion
\* answered nobody (cleanup_staging_key_if_uncommitted, await_promotion_or_reconciliation).
CommittedMarkdownExists == committed # None => committed \in objects

\* The storage quota is charged once, for the Markdown that is kept: a reservation is
\* final exactly if its attempt was promoted, through every refund and expiry.
ChargedForWhatIsKept == \A n \in Attempts : reservation[n] = "finalized" <=> committed = n

\* Whatever a dead worker left in the storage, or may still write there, can be found:
\* its key is in the checkpoint of the job, which every clean-up starts from.
LeftoversAreRecorded == objects \cup flying \subseteq job.staged

=============================================================================
