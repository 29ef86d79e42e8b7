--------------------------- MODULE MCTaskDispatch ---------------------------
(* Small instances of TaskDispatch.                                         *)
EXTENDS TaskDispatch, TLC

MCRows == 0 .. (InfraRetries + Headroom)
WorkerSymmetry == Permutations(Workers)
=============================================================================
