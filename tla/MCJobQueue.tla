----------------------------- MODULE MCJobQueue -----------------------------
(* Small instances of JobQueue for TLC.                                    *)
EXTENDS JobQueue, TLC

CONSTANTS w1, w2, d1

\* The document pipeline: an index job, a batch it stages, the purge.
MCPipeline == {"ix", "eb", "dl"}
\* Jobs nothing but the queue itself touches.
MCPlain == {"cv", "rc"}
\* A job that may leak its slot competes with one that does not.
MCLive == {"ix", "cv"}
\* One index job alone.
MCLeak == {"ix"}

MCKind == [j \in Jobs |-> CASE j = "ix" -> "index"
                            [] j = "eb" -> "embedding_batch"
                            [] j = "dl" -> "delete"
                            [] j = "rc" -> "reconcile"
                            [] OTHER -> "convert"]
MCDocOf == [j \in Jobs |-> d1]
MCParentOf == [j \in Jobs |-> IF j = "eb" THEN "ix" ELSE "none"]
Symmetry == Permutations(Workers)
=============================================================================
