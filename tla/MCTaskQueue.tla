---------------------------- MODULE MCTaskQueue ----------------------------
(***************************************************************************)
(* TLC instance of TaskQueue.                                               *)
(***************************************************************************)
EXTENDS TaskQueue, TLC

CONSTANTS s1, s2, s3, p1, p2

\* Two processes of one slot each.
MCHome == s1 :> p1 @@ s2 :> p2

\* A pipelined process (worker_concurrency > 1) beside one of a single slot.
MCHomeMixed == s1 :> p1 @@ s2 :> p1 @@ s3 :> p2

\* Rows are alike, and so are the slots of the pipelined process.
MCSymmetry == Permutations(Task) \cup Permutations({s1, s2})
=============================================================================
