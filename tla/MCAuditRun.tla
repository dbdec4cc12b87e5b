----------------------------- MODULE MCAuditRun -----------------------------
(***************************************************************************)
(* TLC instance of AuditRun.                                                *)
(***************************************************************************)
EXTENDS AuditRun, TLC

CONSTANTS s1, s2, s3, p1, p2

\* One worker process of two slots (worker_concurrency).
MCHomeShared == s1 :> p1 @@ s2 :> p1

\* A process of two slots beside a process of one.
MCHomeMixed == s1 :> p1 @@ s2 :> p1 @@ s3 :> p2

=============================================================================
