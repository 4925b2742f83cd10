----------------------------- MODULE MCUploadSaga -----------------------------
(* Small instances of UploadSaga for TLC.                                  *)
EXTENDS UploadSaga, TLC

Symmetry == Permutations(Requests) \cup Permutations(Reconcilers)
=============================================================================
