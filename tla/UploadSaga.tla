------------------------------ MODULE UploadSaga ------------------------------
(***************************************************************************)
(* One upload, named by its idempotency key: the row of upload_operations, *)
(* its object in MinIO, the quota reservation of each attempt, and the     *)
(* requests that carry the same key - a client that got no answer sends    *)
(* its upload again, while the server still works on the first.            *)
(*                                                                         *)
(* MinIO and the quota take no part in the operation's transaction.  The   *)
(* saga reserves, puts, registers; whoever finds that it cannot go on      *)
(* compensates: claims the operation, refunds, deletes the object and      *)
(* closes the operation, in four steps that anything may come between.     *)
(* The reconciler compensates for operations that were left behind.        *)
(*                                                                         *)
(* Each action is one transaction or one call to MinIO.  The object key    *)
(* and all identifiers are fixed by the first request and shared by every  *)
(* attempt; the reservation key is the attempt's own, so the number of the *)
(* attempt stands for it.                                                  *)
(***************************************************************************)
EXTENDS Naturals, FiniteSets

CONSTANTS
  Requests,     \* HTTP requests with this idempotency key, each sent once
  Reconcilers,  \* calls of reconcile_stale_uploads
  Overlap,      \* may one of them start while another is still at work?
  OrphanPuts    \* may a put that failed leave its object behind?

Actors == Requests \cup Reconcilers

ASSUME Assumption ==
  /\ IsFiniteSet(Requests) /\ Requests \cap Reconcilers = {}
  /\ Overlap \in BOOLEAN /\ OrphanPuts \in BOOLEAN

VARIABLES
  op,      \* the row of upload_operations: state and attempt
  quota,   \* [Attempts -> status of the attempt's reservations]
  object,  \* is the object in MinIO?
  actor,   \* [Actors -> how far it got and what it carries]
  told     \* requests that were answered with success

vars == <<op, quota, object, actor, told>>

-----------------------------------------------------------------------------
\* The first attempt is numbered when the row is inserted; each request takes
\* at most one more.
MaxAttempt == Cardinality(Requests) + 1
Attempts == 1..MaxAttempt

Open   == {"started", "reserved", "putting", "object_stored"}
Halted == {"reconciling", "cleanup_pending"}
Ended  == {"completed", "refunded", "failed"}

Rested == [step |-> "idle", key |-> 0, deletes |-> FALSE]

Goto(a, step) == actor' = [actor EXCEPT ![a].step = step]

\* A new request or reconciler finds nobody at work, or Overlap holds.
MayStart(a) ==
  /\ actor[a].step = "idle"
  /\ Overlap \/ \A b \in Actors : actor[b].step \in {"idle", "done"}

\* compensate_op is entered with the attempt's reservation key and, once
\* the object was put, with the object key.
Compensating(a, deletes) ==
  actor' = [actor EXCEPT ![a] =
              [step |-> "claim", key |-> actor[a].key, deletes |-> deletes]]

Init ==
  /\ op = [state |-> "absent", attempt |-> 0]
  /\ quota = [k \in Attempts |-> "none"]
  /\ object = FALSE
  /\ actor = [a \in Actors |-> Rested]
  /\ told = {}

-----------------------------------------------------------------------------
(* The saga.                                                               *)

\* begin_or_replay: the first request inserts the row; a later one replays a
\* completed operation, retries one that ended, and is refused meanwhile.
Begin(r) ==
  /\ MayStart(r)
  /\ op' = IF op.state = "absent" THEN [state |-> "started", attempt |-> 1] ELSE op
  /\ Goto(r, IF op.state \in {"absent", "failed", "refunded"} THEN "attempt" ELSE "done")
  /\ told' = IF op.state = "completed" THEN told \cup {r} ELSE told
  /\ UNCHANGED <<quota, object>>

\* Mutant: a retry goes by the attempt that failed.
SameAttempt(state, attempt) == attempt
\* The attempt transition_reserved makes of the row it finds.
NextAttempt(state, attempt) ==
  IF state \in {"failed", "refunded"} THEN attempt + 1 ELSE attempt

\* transition_reserved.  A second request that read the row before the first
\* took the attempt takes the same one.
TakeAttempt(r) ==
  /\ actor[r].step = "attempt"
  /\ IF op.state \in {"started", "failed", "refunded", "reserved"}
     THEN LET k == NextAttempt(op.state, op.attempt)
          IN  /\ op' = [state |-> "reserved", attempt |-> k]
              /\ actor' = [actor EXCEPT ![r].step = "quota", ![r].key = k]
     ELSE Goto(r, "done") /\ UNCHANGED op
  /\ UNCHANGED <<quota, object, told>>

\* reserve_upload: a new reservation is the request's own; an active one is
\* another's.  An ended one is a conflict, a new one may exceed the limit,
\* and the database may fail.
Reserve(r) ==
  LET k == actor[r].key
  IN  /\ actor[r].step = "quota"
      /\ \/ /\ quota[k] = "none"
            /\ quota' = [quota EXCEPT ![k] = "reserved"]
            /\ Goto(r, "begin_put")
         \/ /\ quota[k] = "reserved"
            /\ Compensating(r, FALSE)
            /\ UNCHANGED quota
         \/ /\ Goto(r, "fail")
            /\ UNCHANGED quota
      /\ UNCHANGED <<op, object, told>>

\* mark_op_failed: whatever the operation has become meanwhile, unless it
\* is completed.
FailOperation(r) ==
  /\ actor[r].step = "fail"
  /\ op' = IF op.state = "completed" THEN op ELSE [op EXCEPT !.state = "failed"]
  /\ Goto(r, "done")
  /\ UNCHANGED <<quota, object, told>>

\* transition_putting; refused, the request ends without compensation.
BeginPut(r) ==
  /\ actor[r].step = "begin_put"
  /\ IF op.state = "reserved"
     THEN op' = [op EXCEPT !.state = "putting"] /\ Goto(r, "put")
     ELSE UNCHANGED op /\ Goto(r, "done")
  /\ UNCHANGED <<quota, object, told>>

Put(r) ==
  /\ actor[r].step = "put"
  /\ object' = TRUE
  /\ Goto(r, "stored")
  /\ UNCHANGED <<op, quota, told>>

\* The upload is invalid, or the put fails and cleanup_after_failed_put
\* deletes whatever is stored under the key, or cannot.
PutFails(r) ==
  /\ actor[r].step = "put"
  /\ object' \in {object, FALSE} \cup (IF OrphanPuts THEN {TRUE} ELSE {})
  /\ Compensating(r, FALSE)
  /\ UNCHANGED <<op, quota, told>>

\* mark_object_stored; refused, the request ends without compensation.
MarkStored(r) ==
  /\ actor[r].step = "stored"
  /\ IF op.state = "putting"
     THEN op' = [op EXCEPT !.state = "object_stored"] /\ Goto(r, "commit")
     ELSE UNCHANGED op /\ Goto(r, "done")
  /\ UNCHANGED <<quota, object, told>>

\* Mutant: the state is not read again.
MayCommitUnseen == TRUE
\* What commit_registration_and_finalize and mark_completed ask.
MayCommit == op.state = "object_stored"

\* commit_registration_and_finalize: document, version and job are inserted
\* in the transaction that finalizes the quota and completes the operation.
\* Its reply may be lost: the request then compensates what has committed.
Commit(r) ==
  /\ actor[r].step = "commit"
  /\ MayCommit /\ quota[actor[r].key] = "reserved"
  /\ op' = [op EXCEPT !.state = "completed"]
  /\ quota' = [quota EXCEPT ![actor[r].key] = "finalized"]
  /\ \/ told' = told \cup {r} /\ Goto(r, "done")
     \/ UNCHANGED told /\ Compensating(r, TRUE)
  /\ UNCHANGED object

\* The operation was completed by another request: its result is replayed.
Replay(r) ==
  /\ actor[r].step = "commit" /\ op.state = "completed"
  /\ told' = told \cup {r} /\ Goto(r, "done")
  /\ UNCHANGED <<op, quota, object>>

\* Permission lost, revision conflict, operation claimed, reservation gone.
CommitFails(r) ==
  /\ actor[r].step = "commit"
  /\ Compensating(r, TRUE)
  /\ UNCHANGED <<op, quota, object, told>>

-----------------------------------------------------------------------------
(* Compensation, by a request or by the reconciler.                        *)

\* claim_stale_for_reconcile, for an operation nobody has touched for long.
ClaimStale(c) ==
  /\ MayStart(c)
  /\ op.state \in Open \cup Halted
  /\ op' = [op EXCEPT !.state = IF @ = "cleanup_pending" THEN @ ELSE "reconciling"]
  /\ actor' = [actor EXCEPT ![c] =
                 [step |-> "claim", key |-> op.attempt, deletes |-> TRUE]]
  /\ UNCHANGED <<quota, object, told>>

\* Mutant: the operation is compensated whatever became of it.
ClaimInAnyCase(a) ==
  /\ actor[a].step = "claim"
  /\ op' = IF op.state = "object_stored" THEN [op EXCEPT !.state = "reconciling"] ELSE op
  /\ Goto(a, "refund")
  /\ UNCHANGED <<quota, object, told>>
\* The first transaction of compensate_op.
Claim(a) ==
  /\ actor[a].step = "claim"
  /\ op' = IF op.state = "object_stored" THEN [op EXCEPT !.state = "reconciling"] ELSE op
  /\ Goto(a, IF op.state \in {"completed", "refunded"} THEN "done" ELSE "refund")
  /\ UNCHANGED <<quota, object, told>>

\* refund_upload; an error is logged and ignored.
Refund(a) ==
  LET k == actor[a].key
  IN  /\ actor[a].step = "refund"
      /\ quota' \in {quota} \cup
           (IF quota[k] = "reserved" THEN {[quota EXCEPT ![k] = "refunded"]} ELSE {})
      /\ Goto(a, IF actor[a].deletes THEN "delete" ELSE "close")
      /\ UNCHANGED <<op, object, told>>

\* Mutant: an object that could not be deleted is forgotten.
ForgetObject(a) ==
  /\ actor[a].step = "delete"
  /\ object' \in {object, FALSE}
  /\ Goto(a, "close")
  /\ UNCHANGED <<op, quota, told>>
\* cleanup_generated_object.
DeleteObject(a) ==
  /\ actor[a].step = "delete"
  /\ \/ object' = FALSE /\ Goto(a, "close")
     \/ object' = object /\ Goto(a, "park")
  /\ UNCHANGED <<op, quota, told>>

\* mark_cleanup_pending: the object stays for the reconciler.
Park(a) ==
  /\ actor[a].step = "park"
  /\ op' = IF op.state \in {"object_stored"} \cup Halted
           THEN [op EXCEPT !.state = "cleanup_pending"] ELSE op
  /\ Goto(a, "done")
  /\ UNCHANGED <<quota, object, told>>

\* Mutant: the operation is closed without another look.
ClosedInAnyCase == [op EXCEPT !.state = "refunded"]
\* mark_refunded leaves a completed operation alone.
Closed == IF op.state = "completed" THEN op ELSE [op EXCEPT !.state = "refunded"]

\* The last transaction of compensate_op.
Close(a) ==
  /\ actor[a].step = "close"
  /\ op' = Closed
  /\ Goto(a, "done")
  /\ UNCHANGED <<quota, object, told>>

-----------------------------------------------------------------------------
\* The process dies, or the database fails and the error is returned as is.
Stop(a) ==
  /\ actor[a].step \notin {"idle", "done"}
  /\ Goto(a, "done")
  /\ UNCHANGED <<op, quota, object, told>>

\* The TTL of a reservation lapses.
Expire(k) ==
  /\ quota[k] = "reserved"
  /\ quota' = [quota EXCEPT ![k] = "expired"]
  /\ UNCHANGED <<op, object, actor, told>>

RequestStep(r) ==
  \/ Begin(r)
  \/ TakeAttempt(r)
  \/ Reserve(r)
  \/ FailOperation(r)
  \/ BeginPut(r)
  \/ Put(r)
  \/ PutFails(r)
  \/ MarkStored(r)
  \/ Commit(r)
  \/ Replay(r)
  \/ CommitFails(r)

CompensationStep(a) ==
  \/ Claim(a)
  \/ Refund(a)
  \/ DeleteObject(a)
  \/ Park(a)
  \/ Close(a)
  \/ Stop(a)

Next ==
  \/ \E r \in Requests : RequestStep(r)
  \/ \E c \in Reconcilers : ClaimStale(c)
  \/ \E a \in Actors : CompensationStep(a)
  \/ \E k \in Attempts : Expire(k)

Spec == Init /\ [][Next]_vars

-----------------------------------------------------------------------------
(* Properties.                                                             *)

Taking    == {"idle", "attempt"}
Putting   == {"quota", "fail", "begin_put", "put", "stored", "commit"}
Undoing   == {"refund", "delete", "park", "close"}
Steps     == Taking \cup Putting \cup {"claim"} \cup Undoing \cup {"done"}

\* Types.  That attempts stay below the number of requests is not a typing
\* matter: each request takes at most one new attempt.
TypeOK ==
  /\ op \in [state : {"absent"} \cup Open \cup Halted \cup Ended,
             attempt : 0..MaxAttempt]
  /\ quota \in [Attempts -> {"none", "reserved", "refunded", "expired", "finalized"}]
  /\ object \in BOOLEAN
  /\ actor \in [Actors -> [step : Steps, deletes : BOOLEAN,
                           key : 0..MaxAttempt]]
  /\ told \subseteq Requests

\* However many requests and reconcilers meet at an upload, the quota is
\* charged once if it completes and not at all if it does not.
ChargedOnce ==
  IF op.state = "completed"
  THEN \E k \in Attempts : \A i \in Attempts : quota[i] = "finalized" <=> i = k
  ELSE \A k \in Attempts : quota[k] # "finalized"

\* A request that was told that the upload succeeded was told the truth:
\* no compensation, failure or retry takes the operation back.
SuccessIsFinal == told # {} => op.state = "completed"

\* A completed upload keeps its object: what was registered can be converted
\* (compensate_op: "commit race loses here safely").
CompletedHasObject == op.state = "completed" => object

\* Migration 0023: an operation that ended as refunded left nothing in
\* MinIO, whatever step of which attempt failed.
RefundedLeavesNoObject ==
  op.state \in {"refunded", "failed"} => ~object

\* A retry brings a reservation key of its own: a request that is alone with
\* its upload is never refused because of an earlier attempt.
RetryReservesAfresh ==
  \A r \in Requests : actor[r].step = "quota" => quota[actor[r].key] = "none"

\* What the invariants above rest on.  With any overlap: a key is taken with
\* the attempt, and attempts are counted by the requests that took one.
Taken == {r \in Requests : actor[r].key # 0}

KeyInv ==
  /\ IF op.state = "absent" THEN op.attempt = 0 ELSE op.attempt >= 1
  /\ \A a \in Actors :
       /\ actor[a].step # "idle" => op.state # "absent"
       /\ actor[a].step \in Taking => actor[a].key = 0
       /\ actor[a].step \notin Taking \cup {"done"} => actor[a].key >= 1
  /\ op.attempt =< Cardinality(Taken) + 1

IInv ==
  /\ TypeOK
  /\ KeyInv
  /\ ChargedOnce
  /\ SuccessIsFinal

\* Without overlap: one actor at work, and what its step says of the
\* operation, the object and the reservations.
AtWork(a) == actor[a].step \notin {"idle", "done"}

OneAtWork == \A a, b \in Actors : AtWork(a) /\ AtWork(b) => a = b

\* A put that failed is the one way to an object nobody accounts for.
NoObject == OrphanPuts \/ ~object

StepOK(a) ==
  /\ actor[a].step \in {"attempt", "quota", "fail", "begin_put", "put"} => NoObject
  /\ actor[a].step \in {"stored", "commit"} => object
  /\ actor[a].step = "attempt" => op.state \in {"started", "failed", "refunded"}
  /\ actor[a].step \in {"quota", "fail", "begin_put"} => op.state = "reserved"
  /\ actor[a].step \in {"put", "stored"} => op.state = "putting"
  /\ actor[a].step = "commit" => op.state = "object_stored"
  /\ actor[a].step \in Undoing => op.state # "completed"
  /\ actor[a].step = "close" => NoObject

\* Whoever compensates either deletes the object or has none to delete.
HolderOK(a) == actor[a].step \in {"claim"} \cup Undoing =>
  IF actor[a].deletes
  THEN op.state \in {"object_stored", "completed"} \cup Halted
  ELSE NoObject /\ actor[a].step \notin {"delete", "park"}

ReserveOK(a) == actor[a].step = "quota" =>
  actor[a].key = op.attempt /\ quota[actor[a].key] = "none"

ActorInv == \A a \in Actors : StepOK(a) /\ HolderOK(a) /\ ReserveOK(a)

\* An object is there only while an open operation or a completed one
\* accounts for it.
ObjectInv ==
  NoObject \/ op.state \in {"putting", "object_stored", "completed"} \cup Halted

FreshInv ==
  /\ \A k \in Attempts : k > op.attempt => quota[k] = "none"
  /\ op.state = "started" => quota[op.attempt] = "none"

SerialInv ==
  /\ OneAtWork
  /\ ActorInv
  /\ ObjectInv
  /\ FreshInv
  /\ CompletedHasObject
=============================================================================
