\* The normal course of a run, with its deadline and cancellation.
SPECIFICATION FairAuditSpec
CONSTANTS
    Task = {t1, t2}
    Slot = {s1, s2}
    Proc = {p1}
    s1 = s1
    s2 = s2
    s3 = s3
    p1 = p1
    p2 = p2
    Home <- MCHomeShared
    MaxAttempts = 2
    NoTask = NoTask
    NoOwner = NoOwner
    Gone = Gone
    Funded = {t1}
    Environment = {"deadline", "cancel"}
INVARIANTS NeverUnbilled
PROPERTIES AuditEnds
\* a run that is over stops
CHECK_DEADLOCK FALSE
