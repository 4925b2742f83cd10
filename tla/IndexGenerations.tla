--------------------------- MODULE IndexGenerations ---------------------------
(***************************************************************************)
(* The index generations of a collection (services/indexing.rs,             *)
(* db/index_metadata.rs, db/embedding_batches.rs).  A plan of the embedding *)
(* runtime has a generation of its own: the first is active at once, a      *)
(* later one is built beside it for every document, becomes shadow when the *)
(* last of them is through, and is cut over to by an operator.              *)
(*                                                                          *)
(* A document has one version, of one embedding batch.  The transactions    *)
(* that finish an index or an embedding job are not atomic here: what they  *)
(* wrote is seen by others only once they commit.                           *)
(***************************************************************************)
EXTENDS Naturals

CONSTANTS Docs,
          LastPlan   \* the plans are deployed in order, and to all processes at once

\* Assumed by the module that instantiates this one.
PlanAssumption == LastPlan \in Nat \ {0}

Gens == 1..LastPlan      \* a generation is named by its plan
Kinds == {"index", "embedding"}
Finishes == Docs \X Gens \X Kinds

VARIABLES
    plan,    \* the plan of the processes
    doc,     \* the state of each document
    events,  \* the documents whose document.index_requested is not published
    gen,     \* the state of each generation
    idx,     \* the index job of a document in a generation, and where its worker is
    batch,   \* its embedding batch and job
    row,     \* its row in index_generation_backfills
    txn      \* the transactions that finish a job

vars == <<plan, doc, events, gen, idx, batch, row, txn>>

Init ==
    /\ plan = 1 /\ events = {}
    /\ doc = [d \in Docs |-> "absent"]
    /\ gen = [g \in Gens |-> "none"]
    /\ idx = [d \in Docs |-> [g \in Gens |-> "none"]]
    /\ batch = [d \in Docs |-> [g \in Gens |-> "none"]]
    /\ row = [d \in Docs |-> [g \in Gens |-> "none"]]
    /\ txn = [t \in Finishes |-> "none"]

-----------------------------------------------------------------------------
\* A worker is about to enter the state indexing, to persist the chunks, or to finish.
LiveIndex(d, g) == idx[d][g] \in {"pending", "enters", "persists", "finishes"}
LiveBatch(d, g) == batch[d][g] = "pending"
HasWork(d) == d \in events \/ \E g \in Gens : LiveIndex(d, g) \/ LiveBatch(d, g)

Moved(d, g, step) == idx' = [idx EXCEPT ![d][g] = step]

\* Mutant: the finishing transactions do not take the document row.
NobodyHolds(d) == TRUE
\* The row lock of a document.
DocFree(d) == \A t \in Finishes : t[1] = d => txn[t] = "none"

\* Mutant: each document row is thought to be lock enough.
NobodyCompletes(g) == TRUE
\* index_generation_completion, an advisory lock.
GenFree(g) == \A t \in Finishes : t[2] = g => txn[t] \in {"none", "open", "alone"}

-----------------------------------------------------------------------------
(* A promoted document, and the relay that makes an index job of it. *)

Promote(d) ==
    /\ doc[d] = "absent" /\ doc' = [doc EXCEPT ![d] = "converted"] /\ events' = events \cup {d}
    /\ UNCHANGED <<plan, gen, idx, batch, row, txn>>

\* ensure_active_generation, for a plan without a generation.
NewState == IF \E g \in Gens : gen[g] = "active" THEN "building" ELSE "active"

Publish(d) ==
    /\ d \in events /\ events' = events \ {d}
    /\ gen' = [gen EXCEPT ![plan] = IF @ = "none" THEN NewState ELSE @]
    /\ idx' = [idx EXCEPT ![d][plan] = IF @ = "none" THEN "pending" ELSE @]
    /\ UNCHANGED <<plan, doc, batch, row, txn>>

Deploy ==
    /\ plan < LastPlan /\ plan' = plan + 1
    /\ UNCHANGED <<doc, events, gen, idx, batch, row, txn>>

\* An operator's decision, after a look at the shadow.
CutOver(g) ==
    /\ gen[g] = "shadow"
    /\ gen' = [h \in Gens |-> IF h = g THEN "active"
                              ELSE IF gen[h] = "active" THEN "draining" ELSE gen[h]]
    /\ UNCHANGED <<plan, doc, events, idx, batch, row, txn>>

-----------------------------------------------------------------------------
(* The index job. *)

\* Mutant: a staged generation is seeded with the document at hand only.
SeedsItself(d) == {d}
\* seed_generation_backfills: the documents that are there.
SeededBy(d) == {e \in Docs : doc[e] \notin {"absent", "deleted"}}

\* The job loads the document and its generation, which must be routable and of the
\* worker's own signature, and spreads a generation that is being built.
Begin(d, g) ==
    /\ idx[d][g] = "pending" /\ g = plan /\ gen[g] \in {"building", "shadow", "active"}
    /\ doc[d] # "deleted"
    /\ LET seeds == IF gen[g] = "building" THEN SeededBy(d) ELSE {}
           step == IF doc[d] \in {"indexing", "indexed"} THEN "persists" ELSE "enters"
           Started(e) == IF e = d THEN step
                         ELSE IF e \in seeds /\ idx[e][g] = "none" THEN "pending" ELSE idx[e][g]
       IN  /\ idx' = [e \in Docs |-> [idx[e] EXCEPT ![g] = Started(e)]]
           /\ row' = [e \in Docs |-> [row[e] EXCEPT ![g] =
                        IF e \in seeds /\ @ = "none" THEN "pending" ELSE @]]
    /\ UNCHANGED <<plan, doc, events, gen, batch, txn>>

\* version_index_materialized: the job is completed, and nothing else.
Replay(d, g) ==
    /\ idx[d][g] \in {"enters", "persists"} /\ batch[d][g] = "done"
    /\ Moved(d, g, "replayed")
    /\ UNCHANGED <<plan, doc, events, gen, batch, row, txn>>

Enter(d, g) ==
    /\ idx[d][g] = "enters" /\ DocFree(d) /\ doc[d] = "converted"
    /\ doc' = [doc EXCEPT ![d] = "indexing"] /\ Moved(d, g, "persists")
    /\ UNCHANGED <<plan, events, gen, batch, row, txn>>

Persist(d, g) ==
    /\ idx[d][g] = "persists" /\ DocFree(d) /\ doc[d] # "deleted"
    /\ batch' = [batch EXCEPT ![d][g] = IF @ = "none" THEN "pending" ELSE @]
    /\ row' = [row EXCEPT ![d][g] = IF @ = "pending" THEN "indexing" ELSE @]
    /\ Moved(d, g, "finishes")
    /\ UNCHANGED <<plan, doc, events, gen, txn>>

-----------------------------------------------------------------------------
(* The transactions that finish an index job and an embedding job. *)

OpenFinish(d, g, k) ==
    /\ CASE k = "index" -> idx[d][g] = "finishes" [] OTHER -> LiveBatch(d, g)
    /\ txn[<<d, g, k>>] = "none" /\ DocFree(d) /\ doc[d] # "deleted"
    /\ txn' = [txn EXCEPT ![<<d, g, k>>] = "open"]
    /\ UNCHANGED <<plan, doc, events, gen, idx, batch, row>>

OwnJob(d, g, k) ==
    IF k = "index" THEN Moved(d, g, "done") /\ UNCHANGED batch
                   ELSE batch' = [batch EXCEPT ![d][g] = "done"] /\ UNCHANGED idx

\* document_batches_complete: one's own job, and what others have committed.
OthersDone(d, g, k) ==
    IF k = "index" THEN batch[d][g] = "done" ELSE idx[d][g] \in {"done", "replayed"}

\* A transaction that is not the last looks once, and commits its job alone.
SeeOthers(d, g, k) ==
    /\ txn[<<d, g, k>>] = "open" /\ ~OthersDone(d, g, k)
    /\ txn' = [txn EXCEPT ![<<d, g, k>>] = "alone"]
    /\ UNCHANGED <<plan, doc, events, gen, idx, batch, row>>

FinishAlone(d, g, k) ==
    /\ txn[<<d, g, k>>] = "alone" /\ OwnJob(d, g, k)
    /\ txn' = [txn EXCEPT ![<<d, g, k>>] = "none"]
    /\ UNCHANGED <<plan, doc, events, gen, row>>

\* It marks its row, and takes the lock under which the rows are counted.
CompleteGeneration(d, g, k) ==
    /\ txn[<<d, g, k>>] = "open" /\ OthersDone(d, g, k) /\ GenFree(g)
    /\ txn' = [txn EXCEPT ![<<d, g, k>>] = "completing"]
    /\ UNCHANGED <<plan, doc, events, gen, idx, batch, row>>

Backfilled(status) == IF status \in {"pending", "indexing"} THEN "backfilled" ELSE status

\* generation_backfill_complete, in the transaction's own view.
SeesComplete(d, g) ==
    LET seen == [e \in Docs |-> IF e = d THEN Backfilled(row[e][g]) ELSE row[e][g]]
    IN  /\ \A e \in Docs : seen[e] \in {"none", "backfilled"}
        /\ \E e \in Docs : seen[e] = "backfilled"

\* What the transaction decided; its commit is a step of its own.
DecideShadow(d, g, k) ==
    /\ txn[<<d, g, k>>] = "completing"
    /\ txn' = [txn EXCEPT ![<<d, g, k>>] =
            IF gen[g] = "building" /\ SeesComplete(d, g) THEN "shadows" ELSE "leaves"]
    /\ UNCHANGED <<plan, doc, events, gen, idx, batch, row>>

FinishBoth(d, g, k) ==
    /\ txn[<<d, g, k>>] \in {"shadows", "leaves"}
    /\ OwnJob(d, g, k)
    /\ row' = [row EXCEPT ![d][g] = Backfilled(@)]
    /\ gen' = [gen EXCEPT ![g] = IF txn[<<d, g, k>>] = "shadows" THEN "shadow" ELSE @]
    /\ doc' = [doc EXCEPT ![d] = IF @ = "indexing" /\ gen[g] = "active" THEN "indexed" ELSE @]
    /\ txn' = [txn EXCEPT ![<<d, g, k>>] = "none"]
    /\ UNCHANGED <<plan, events>>

FinishAborts(d, g, k) ==
    /\ txn[<<d, g, k>>] # "none" /\ txn' = [txn EXCEPT ![<<d, g, k>>] = "none"]
    /\ UNCHANGED <<plan, doc, events, gen, idx, batch, row>>

-----------------------------------------------------------------------------
(* Failures.  The budget of attempts is left out: any attempt may be the last. *)

\* handle_terminal_index_job
Compensated(d, gs) ==
    /\ row' = [row EXCEPT ![d] = [g \in Gens |->
                IF g \in gs /\ @[g] \in {"pending", "indexing"} THEN "failed" ELSE @[g]]]
    /\ doc' = [doc EXCEPT ![d] = IF @ \in {"converted", "indexing"} THEN "failed" ELSE @]

\* An error, a crash or an expired lease: the next attempt starts over.
IndexRetried(d, g) ==
    /\ LiveIndex(d, g) /\ txn[<<d, g, "index">>] = "none" /\ Moved(d, g, "pending")
    /\ UNCHANGED <<plan, doc, events, gen, batch, row, txn>>

IndexDies(d, g) ==
    /\ LiveIndex(d, g) /\ DocFree(d) /\ Moved(d, g, "failed") /\ Compensated(d, {g})
    /\ UNCHANGED <<plan, events, gen, batch, txn>>

EmbeddingDies(d, g) ==
    /\ LiveBatch(d, g) /\ DocFree(d)
    /\ batch' = [batch EXCEPT ![d][g] = "failed"] /\ Compensated(d, {g})
    /\ UNCHANGED <<plan, events, gen, idx, txn>>

\* The cancellation of an index job takes its embedding jobs along.
CancelIndex(d, g) ==
    /\ LiveIndex(d, g) /\ DocFree(d) /\ Moved(d, g, "failed") /\ Compensated(d, {g})
    /\ batch' = [batch EXCEPT ![d][g] = IF @ = "pending" THEN "failed" ELSE @]
    /\ UNCHANGED <<plan, events, gen, txn>>

\* request_delete cancels the jobs of the document.  The compensation of the first has
\* taken a converted or indexing document to failed, and the tombstone, which expects
\* the state it read before, rolls the request back.
Delete(d) ==
    LET cancelled == {g \in Gens : LiveIndex(d, g) \/ LiveBatch(d, g)} IN
    /\ DocFree(d) /\ doc[d] \notin {"absent", "deleted"}
    /\ doc[d] \in {"converted", "indexing"} => cancelled = {}
    /\ doc' = [doc EXCEPT ![d] = "deleted"]
    /\ idx' = [idx EXCEPT ![d] = [g \in Gens |-> IF LiveIndex(d, g) THEN "failed" ELSE @[g]]]
    /\ batch' = [batch EXCEPT ![d] = [g \in Gens |-> IF LiveBatch(d, g) THEN "failed" ELSE @[g]]]
    /\ row' = [row EXCEPT ![d] = [g \in Gens |->
                IF g \in cancelled /\ @[g] \in {"pending", "indexing"} THEN "failed" ELSE @[g]]]
    /\ UNCHANGED <<plan, events, gen, txn>>

Next ==
    \/ Deploy
    \/ \E g \in Gens : CutOver(g)
    \/ \E d \in Docs : Promote(d) \/ Publish(d) \/ Delete(d)
    \/ \E d \in Docs, g \in Gens :
        \/ Begin(d, g) \/ Replay(d, g) \/ Enter(d, g) \/ Persist(d, g)
        \/ IndexRetried(d, g) \/ IndexDies(d, g) \/ EmbeddingDies(d, g) \/ CancelIndex(d, g)
    \/ \E d \in Docs, g \in Gens, k \in Kinds :
        \/ OpenFinish(d, g, k) \/ SeeOthers(d, g, k) \/ FinishAlone(d, g, k)
        \/ CompleteGeneration(d, g, k) \/ DecideShadow(d, g, k)
        \/ FinishBoth(d, g, k) \/ FinishAborts(d, g, k)

Spec == Init /\ [][Next]_vars

-----------------------------------------------------------------------------
(* Properties *)

\* A cut-over loses nothing: a document that is said to be indexed is embedded in the
\* active generation, whichever generation that was when it became so, unless the operator
\* went back to a shadow older than the generation that the document was indexed in
\* (seed_generation_backfills, cut_over_shadow_generation).
IndexedIsVisible ==
    \A d \in Docs : doc[d] = "indexed" =>
        \/ \E g \in Gens : gen[g] = "active" /\ batch[d][g] = "done"
        \/ \E g, h \in Gens : /\ g < h /\ gen[g] = "active"
                              /\ gen[h] = "draining" /\ batch[d][h] = "done"

\* The last of several transactions that finish documents of a staged generation
\* notices: no generation stays building with every document backfilled
\* (lock_generation_completion).
CompletionIsNoticed ==
    \A g \in Gens :
        /\ gen[g] = "building" /\ \E d \in Docs : row[d][g] = "backfilled"
        /\ \A d \in Docs, k \in Kinds : txn[<<d, g, k>>] = "none"
        => \E d \in Docs : row[d][g] \in {"pending", "indexing", "failed"}

\* Nobody leaves a document in the state indexing with nothing under way to take it out:
\* the claim of complete_document_backfill_if_ready.
IndexingHasWork == \A d \in Docs : doc[d] = "indexing" => HasWork(d)

\* The claim holds for the index job and the embedding jobs among themselves: only a
\* replayed index job, and a job that finished in a generation staged beside another,
\* strand a document.
OnlyReplaysStrand ==
    \A d \in Docs : doc[d] = "indexing" =>
        \/ HasWork(d)
        \/ \E g \in Gens : idx[d][g] = "replayed"
        \/ \E g, h \in Gens : h < g /\ gen[h] # "none" /\ idx[d][g] = "done"

=============================================================================
