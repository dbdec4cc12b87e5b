-------------------------- MODULE MCAuditScheduler --------------------------
(* A recurring schedule beside a one-time one, two processes.               *)
EXTENDS AuditScheduler, TLC

CONSTANTS daily, once, a, b

MCSchedule == {daily, once}
MCOneTime == {once}
MCProc == {a, b}
=============================================================================
