\* A call on a customer's credential and two of one account on platform ones.
SPECIFICATION CapSpec
CONSTANTS
    b1 = b1
    f1 = f1
    f2 = f2
    transport = transport
    connection = connection
    global = global
    account = account
    Request = {b1, f1, f2}
    Pool = {transport, connection, global, account}
    Draws <- MCDraws
    FundedCall = {f1, f2}
    Ceiling <- MCCeiling
    Configured = TRUE
    Burst = 2
    Rate = 1
    Ttl = 2
    MaxCooldown = 1
    Horizon = 3
    Nobody = Nobody
SYMMETRY MCSymmetry
INVARIANTS CapTypeOK NoOvershoot NoCircularWait NothingLost
PROPERTIES CooldownStands
\* every request ends
CHECK_DEADLOCK FALSE
