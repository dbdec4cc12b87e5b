\* Two rows, a pipelined process of two slots beside a process of one.
SPECIFICATION Spec
CONSTANTS
    Task = {t1, t2}
    Slot = {s1, s2, s3}
    Proc = {p1, p2}
    s1 = s1
    s2 = s2
    s3 = s3
    p1 = p1
    p2 = p2
    Home <- MCHomeMixed
    MaxAttempts = 2
    NoTask = NoTask
    NoOwner = NoOwner
    Gone = Gone
SYMMETRY MCSymmetry
INVARIANTS TypeOK LeaseMatchesStatus
PROPERTIES LiveLeaseHonoured ImplementsLeaseBook
