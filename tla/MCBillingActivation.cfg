\* Two versions of the subscription: its first charge, and a renewal or its
\* cancellation.  When every purchase is settled there may be nothing left to do.
SPECIFICATION FairBillSpec
CONSTANTS
    b1 = b1
    t1 = t1
    r1 = r1
    r2 = r2
    r3 = r3
    acme = acme
    Intent = {b1, t1}
    Base = {b1}
    Request = {r1, r2, r3}
    AccountOf <- MCAccountOf
    KeyOf <- MCKeyOf
    BatchSizes = {1, 2}
    MaxRevision = 2
INVARIANTS BillTypeOK CalledOnce
PROPERTIES SettledOnce KeepsPromise PaidIsGranted SlotIsFreed
CHECK_DEADLOCK FALSE
