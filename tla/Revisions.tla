------------------------------ MODULE Revisions ------------------------------
(***************************************************************************)
(* The versions of one document and what Qdrant says of them.  A point      *)
(* carries whether its version is the current one, and search asks for such *)
(* points of documents in the state indexed; a new version makes the marker *)
(* of the old one wrong until a job has refreshed it.  The embedding        *)
(* workers, the refresh and a repair all act on what they read some steps   *)
(* before.                                                                  *)
(*                                                                          *)
(* A conversion is the one step that commits it (Conversion has the rest),  *)
(* a version has one batch of chunks in one generation; the document is not *)
(* deleted, and a repair finds no open intent to drain (VectorFence).       *)
(***************************************************************************)
EXTENDS Naturals

CONSTANT Last          \* the number of versions that are uploaded

\* Assumed by the module that instantiates this one.
LastAssumption == Last \in Nat \ {0}

Versions == 1..Last
Raw == 0               \* an uploaded file that was published by hand, unconverted

VARIABLES
    state,     \* documents.state
    current,   \* documents.current_version_id
    newest,    \* the last version uploaded
    byHand,    \* whether an uploaded file was published as it is
    idx,       \* the index job of each version, and where its worker is
    batch,     \* its embedding batch
    writer,    \* the worker of that batch, with the marker it will write
    point,     \* the point in Qdrant: absent, or its marker
    flying,    \* an upsert whose worker is gone, which may still be applied
    refresh,   \* the lifecycle_refresh job of each version
    repair,    \* a repair and what it has read
    keys,      \* the idempotency keys of its embedding jobs
    raced,     \* versions that lost their place by hand, or were marked current after it
    lost       \* versions whose points Qdrant lost, or a repair took for strays

vars == <<state, current, newest, byHand, idx, batch, writer, point, flying, refresh,
          repair, keys, raced, lost>>

IdleWriter == [at |-> "idle", marker |-> "superseded"]
IdleRepair == [at |-> "idle"]

\* The first version is indexed; Qdrant may have lost its points.
Init ==
    /\ state = "indexed" /\ current = 1 /\ newest = 1 /\ byHand = FALSE
    /\ idx = [v \in Versions |-> IF v = 1 THEN "done" ELSE "none"]
    /\ batch = idx
    /\ writer = [v \in Versions |-> IdleWriter]
    /\ lost \in {{}, {1}}
    /\ point = [v \in Versions |-> IF v = 1 /\ v \notin lost THEN "current" ELSE "absent"]
    /\ flying = {} /\ refresh = [v \in Versions |-> "none"]
    /\ repair = IdleRepair /\ keys = {} /\ raced = {}

\* point_lifecycle; effective_to is null exactly for the current version.
MarkerOf(v) == IF v = current THEN "current" ELSE "superseded"

DocumentSame == UNCHANGED <<current, newest, byHand>>
VectorsSame == UNCHANGED <<writer, point, flying, raced, lost>>
RepairSame == UNCHANGED <<repair, keys>>

-----------------------------------------------------------------------------
(* Uploads, conversions, publication. *)

\* register_rows: only an indexed document takes a revision.
Upload ==
    /\ state = "indexed" /\ newest < Last
    /\ state' = "uploaded" /\ newest' = newest + 1
    /\ UNCHANGED <<current, byHand, idx, batch, refresh>> /\ VectorsSame /\ RepairSame

\* The versions whose markers a promotion has refreshed: the one that was current, if
\* it has chunks.
Demoted == {v \in Versions : v = current /\ batch[v] # "none"}

\* promote_conversion
Promote ==
    /\ state = "uploaded"
    /\ state' = "converted" /\ current' = newest
    /\ idx' = [idx EXCEPT ![newest] = "pending"]
    /\ refresh' = [v \in Versions |-> IF v \in Demoted THEN "pending" ELSE refresh[v]]
    /\ UNCHANGED <<newest, byHand, batch>> /\ VectorsSame /\ RepairSame

\* markhand_publish_document_version takes a draft, and every upload leaves one, in any
\* state; no job follows.  Bound: once, before a repair has rebuilt anything.
PublishByHand ==
    /\ ~byHand /\ keys = {} /\ byHand' = TRUE /\ current' = Raw
    /\ raced' = raced \cup ({current} \ {Raw})
    /\ UNCHANGED <<state, newest, idx, batch, writer, point, flying, refresh, lost>>
    /\ RepairSame

-----------------------------------------------------------------------------
(* The index job. *)

Live(v) == idx[v] \in {"pending", "enters", "persists", "persisted"}

Begin(v) ==
    /\ idx[v] = "pending" /\ batch[v] # "done"
    /\ v = current => state \in {"converted", "indexing", "indexed"}
    /\ idx' = [idx EXCEPT ![v] = IF v = current /\ state = "converted" THEN "enters"
                                                                         ELSE "persists"]
    /\ UNCHANGED <<state, batch, refresh>> /\ DocumentSame /\ VectorsSame /\ RepairSame

\* version_index_materialized: the job is completed, and nothing else.
Replay(v) ==
    /\ idx[v] = "pending" /\ batch[v] = "done"
    /\ idx' = [idx EXCEPT ![v] = "done"]
    /\ UNCHANGED <<state, batch, refresh>> /\ DocumentSame /\ VectorsSame /\ RepairSame

\* transition_current_to_indexing
Enter(v) ==
    /\ idx[v] = "enters" /\ v = current /\ state = "converted"
    /\ state' = "indexing" /\ idx' = [idx EXCEPT ![v] = "persists"]
    /\ UNCHANGED <<batch, refresh>> /\ DocumentSame /\ VectorsSame /\ RepairSame

Persist(v) ==
    /\ idx[v] = "persists" /\ idx' = [idx EXCEPT ![v] = "persisted"]
    /\ batch' = [batch EXCEPT ![v] = IF @ = "none" THEN "pending" ELSE @]
    /\ UNCHANGED <<state, refresh>> /\ DocumentSame /\ VectorsSame /\ RepairSame

\* Mutant: whichever version is complete moves the document.
AnyMoves(v) == state = "indexing"
\* Whose completion makes the document indexed (complete_document_backfill_if_ready).
Moves(v) == v = current /\ state = "indexing"

Completed(v) == state' = IF Moves(v) THEN "indexed" ELSE state

Finish(v) ==
    /\ idx[v] = "persisted" /\ idx' = [idx EXCEPT ![v] = "done"]
    /\ IF batch[v] = "done" THEN Completed(v) ELSE UNCHANGED state
    /\ UNCHANGED <<batch, refresh>> /\ DocumentSame /\ VectorsSame /\ RepairSame

Retried(v) ==
    /\ idx[v] \in {"enters", "persists", "persisted"} /\ idx' = [idx EXCEPT ![v] = "pending"]
    /\ UNCHANGED <<state, batch, refresh>> /\ DocumentSame /\ VectorsSame /\ RepairSame

\* handle_terminal_index_job
Failed(v) == state' = IF v = current /\ state \in {"converted", "indexing"} THEN "failed" ELSE state

Dies(v) ==
    /\ Live(v) /\ idx' = [idx EXCEPT ![v] = "failed"] /\ Failed(v)
    /\ UNCHANGED <<batch, refresh>> /\ DocumentSame /\ VectorsSame /\ RepairSame

-----------------------------------------------------------------------------
(* The embedding job. *)

\* load_lifecycle_fence_with_write_intent
Fence(v) ==
    /\ batch[v] = "pending" /\ writer[v].at = "idle"
    /\ writer' = [writer EXCEPT ![v] = [at |-> "fenced", marker |-> MarkerOf(v)]]
    /\ UNCHANGED <<state, idx, batch, point, flying, refresh, raced, lost>>
    /\ DocumentSame /\ RepairSame

Written(v, marker) ==
    /\ point' = [point EXCEPT ![v] = marker]
    /\ raced' = IF marker # MarkerOf(v) THEN raced \cup {v} ELSE raced
    /\ lost' = lost \ {v}

Upsert(v) ==
    /\ writer[v].at = "fenced"
    /\ Written(v, writer[v].marker)
    /\ writer' = [writer EXCEPT ![v].at = "wrote"]
    /\ UNCHANGED <<state, idx, batch, flying, refresh>> /\ DocumentSame /\ RepairSame

\* A crash, a lost lease, a deadline: the request that was sent may still be applied.
\* Bound: one such request at a time.
Abandon(v) ==
    /\ writer[v].at # "idle"
    /\ \/ UNCHANGED flying
       \/ writer[v].at = "fenced" /\ flying = {} /\ flying' = {<<v, writer[v].marker>>}
    /\ writer' = [writer EXCEPT ![v] = IdleWriter]
    /\ UNCHANGED <<state, idx, batch, point, refresh, raced, lost>>
    /\ DocumentSame /\ RepairSame

LateUpsert(v, marker) ==
    /\ <<v, marker>> \in flying /\ flying' = flying \ {<<v, marker>>}
    /\ Written(v, marker)
    /\ UNCHANGED <<state, idx, batch, writer, refresh>> /\ DocumentSame /\ RepairSame

Complete(v) ==
    /\ writer[v].at = "wrote"
    /\ writer' = [writer EXCEPT ![v] = IdleWriter]
    /\ batch' = [batch EXCEPT ![v] = "done"]
    /\ IF idx[v] = "done" THEN Completed(v) ELSE UNCHANGED state
    /\ UNCHANGED <<idx, point, flying, refresh, raced, lost>>
    /\ DocumentSame /\ RepairSame

BatchDies(v) ==
    /\ batch[v] = "pending" /\ writer[v].at = "idle"
    /\ batch' = [batch EXCEPT ![v] = "failed"] /\ Failed(v)
    /\ UNCHANGED <<idx, refresh>> /\ DocumentSame /\ VectorsSame /\ RepairSame

-----------------------------------------------------------------------------
(* The refresh.  A version that lost its place never gets it back, so that the   *)
(* snapshot it works from is not overtaken and its second look always agrees; a  *)
(* request applied late writes what was written before.                          *)

Refresh(v) ==
    /\ refresh[v] = "pending" /\ refresh' = [refresh EXCEPT ![v] = "set"]
    /\ point' = [point EXCEPT ![v] = IF @ = "absent" THEN @ ELSE MarkerOf(v)]
    /\ UNCHANGED <<state, idx, batch, writer, flying, raced, lost>>
    /\ DocumentSame /\ RepairSame

RefreshEnds(v) ==
    /\ \/ refresh[v] = "set" /\ refresh' = [refresh EXCEPT ![v] = "done"]
       \/ refresh[v] = "set" /\ refresh' = [refresh EXCEPT ![v] = "pending"]
       \/ refresh[v] \in {"pending", "set"} /\ refresh' = [refresh EXCEPT ![v] = "dead"]
    /\ UNCHANGED <<state, idx, batch>> /\ DocumentSame /\ VectorsSame /\ RepairSame

-----------------------------------------------------------------------------
(* A repair (reconcile_document): it reads the rows, then the points, then what is *)
(* missing, and acts on all three unless a writer is at work just before.          *)

Writers == \E v \in Versions : Live(v) \/ batch[v] = "pending"
Stored == {v \in Versions : point[v] # "absent"}
RepairStep == UNCHANGED <<state, idx, refresh>> /\ DocumentSame

LoadInventory ==
    /\ repair.at = "idle"
    /\ repair' = [at |-> "scroll", current |-> current, indexed |-> state = "indexed",
                  quiet |-> ~Writers, chunks |-> {v \in Versions : batch[v] # "none"}]
    /\ UNCHANGED <<batch, keys>> /\ RepairStep /\ VectorsSame

\* Chunks nobody knows of are strays, if no writer was at work; known ones are stale if
\* they are marked current and are not.
ScrollPoints ==
    /\ repair.at = "scroll"
    /\ repair' = [at |-> "missing", current |-> repair.current, indexed |-> repair.indexed,
                  chunks |-> repair.chunks,
                  stray |-> {v \in Stored \ repair.chunks : repair.indexed /\ repair.quiet},
                  stale |-> {v \in repair.chunks \ {repair.current} : point[v] = "current"}]
    /\ UNCHANGED <<batch, keys>> /\ RepairStep /\ VectorsSame

LookForMissing ==
    /\ repair.at = "missing"
    /\ repair' = IF repair.indexed /\ ~Writers
                 THEN [at |-> "delete", current |-> repair.current, stray |-> repair.stray,
                       stale |-> repair.stale, missing |-> repair.chunks \ Stored]
                 ELSE IdleRepair
    /\ UNCHANGED <<batch, keys>> /\ RepairStep /\ VectorsSame

DeleteCandidates ==
    LET gone == repair.stray \cup repair.stale IN
    /\ repair.at = "delete"
    /\ point' = [v \in Versions |-> IF v \in gone THEN "absent" ELSE point[v]]
    /\ lost' = lost \cup repair.stray
    /\ repair' = [at |-> "requeue", current |-> repair.current,
                  absent |-> repair.missing \cup repair.stale]
    /\ UNCHANGED <<batch, keys, writer, flying, raced>> /\ RepairStep

\* requeue_missing_vector_batches: batches of the version that was current, once for each
\* set of missing chunks.
Requeue ==
    LET key == <<repair.current, repair.absent>>
        created == repair.current # Raw /\ repair.absent # {} /\ key \notin keys
    IN  /\ repair.at = "requeue" /\ repair' = IdleRepair
        /\ keys' = IF created THEN keys \cup {key} ELSE keys
        /\ batch' = [v \in Versions |-> IF created /\ v = repair.current THEN "pending" ELSE batch[v]]
        /\ RepairStep /\ VectorsSame

RepairFails ==
    /\ repair.at # "idle" /\ repair' = IdleRepair
    /\ UNCHANGED <<batch, keys>> /\ RepairStep /\ VectorsSame

Next ==
    \/ Upload \/ Promote \/ PublishByHand
    \/ \E v \in Versions :
        \/ Begin(v) \/ Replay(v) \/ Enter(v) \/ Persist(v) \/ Finish(v) \/ Retried(v) \/ Dies(v)
        \/ Fence(v) \/ Upsert(v) \/ Abandon(v) \/ Complete(v) \/ BatchDies(v)
        \/ Refresh(v) \/ RefreshEnds(v)
        \/ \E marker \in {"current", "superseded"} : LateUpsert(v, marker)
    \/ LoadInventory \/ ScrollPoints \/ LookForMissing \/ DeleteCandidates
    \/ Requeue \/ RepairFails

Spec == Init /\ [][Next]_vars

-----------------------------------------------------------------------------
(* Properties *)

Requeued(v) == \E key \in keys : key[1] = v

\* Jobs of an older version that finish late, refreshes and repairs do not make a new
\* version look finished, nor take a finished one from search: the version of an indexed
\* document is embedded and marked current, unless its points are lost
\* (complete_document_backfill_if_ready, refresh_version_lifecycle).
IndexedIsServed ==
    state = "indexed" /\ current # Raw =>
        /\ idx[current] = "done" /\ (batch[current] = "done" \/ Requeued(current))
        /\ batch[current] = "done" => point[current] = "current" \/ current \in lost

\* The refresh that a promotion enqueues reaches every marker of the version it demoted,
\* but for those written from a fence that is older than the promotion, and of versions
\* that lost their place by hand.
OnlyRacesMislabel ==
    \A v \in Versions \ {current} :
        point[v] = "current" => refresh[v] \in {"pending", "dead"} \/ v \in raced

\* What search sees of the versions: the current one when the document is indexed, and no
\* other but for the races above (complete_document_backfill_if_ready,
\* refresh_version_lifecycle, reconcile_document).
SearchFollowsVersions == IndexedIsServed /\ OnlyRacesMislabel

=============================================================================
