\* Everything that may happen to a run, over one funded task.
SPECIFICATION AuditSpec
CONSTANTS
    Task = {t1}
    Slot = {s1, s2, s3}
    Proc = {p1, p2}
    s1 = s1
    s2 = s2
    s3 = s3
    p1 = p1
    p2 = p2
    Home <- MCHomeMixed
    MaxAttempts = 3
    NoTask = NoTask
    NoOwner = NoOwner
    Gone = Gone
    Funded = {t1}
    Environment = {"stall", "exception", "crash", "backstop", "janitor", "deadline", "cancel"}
INVARIANTS CallsWithinBudget BilledOnlyForCalls
PROPERTIES NothingAfterTheEnd
\* a run that is over stops
CHECK_DEADLOCK FALSE
