-------------------------- MODULE ProviderCapacity --------------------------
(***************************************************************************)
(* The shared pools a provider call draws on                                *)
(* (orchestration/provider_capacity.py): a request locks its pools' rows    *)
(* one by one, checks them, takes a lease in each and a token of its        *)
(* transport, makes its call, and gives the leases back.                    *)
(*                                                                          *)
(* A request is one attempt of one task.  A step is one statement of a      *)
(* transaction, so another request may read the clock, wait for a lock or   *)
(* come in between.  Times are whole ticks; units are one per request.      *)
(***************************************************************************)
EXTENDS Integers, FiniteSets, Sequences, Functions

CONSTANTS
    Request,     \* task attempts that want to call
    Pool,        \* capacity bucket rows
    Draws,       \* the pools of a request in _bucket_specs order
    FundedCall,  \* requests on platform credentials
    Ceiling,     \* concurrency ceiling of a pool
    Configured,  \* the route's token rates are known
    Burst,       \* the most tokens a transport pool holds
    Rate,        \* tokens it gains per tick
    Ttl,         \* capacity_lease_ttl_seconds
    MaxCooldown, \* max_cooldown_seconds
    Horizon,     \* the clock stops here: a bound of the model
    Nobody       \* no request holds the row lock

ASSUME CapacityAssumption ==
    /\ IsFiniteSet(Request)
    /\ Draws \in [Request -> Seq(Pool)]
    /\ \A r \in Request : Draws[r] # <<>> /\ IsInjective(Draws[r])
    /\ FundedCall \subseteq Request
    /\ Ceiling \in [Pool -> Nat]
    /\ Configured \in BOOLEAN
    /\ {Burst, Rate, MaxCooldown, Horizon} \subseteq Nat
    /\ Ttl \in Nat \ {0}
    /\ Nobody \notin Request

VARIABLES
    clock,
    phase,     \* where a request is
    seen,      \* the `now` a request read when its transaction began
    row,       \* who holds a pool's row FOR UPDATE
    lease,     \* expires_at of a request's unreleased leases; 0: none
    blocked,   \* blocked_until of a pool
    tokens,    \* tokens of a transport pool
    refilled,  \* refilled_at of a transport pool
    limited    \* the request's call was answered 429

capVars == <<clock, phase, seen, row, lease, blocked, tokens, refilled,
             limited>>
bucketVars == <<blocked, tokens, refilled>>

Acquiring == {"locking", "admitted"}
InCall == {"granted", "calling"}
CapPhase == {"new", "parked", "returning", "done", "gone"} \cup Acquiring \cup InCall

PoolsOf(r) == Range(Draws[r])
Transport(r) == Draws[r][1]

CapTypeOK ==
    /\ clock \in 0..Horizon
    /\ phase \in [Request -> CapPhase]
    /\ seen \in [Request -> 0..Horizon]
    /\ row \in [Pool -> Request \cup {Nobody}]
    /\ lease \in [Request -> Nat]
    /\ blocked \in [Pool -> Nat]
    /\ tokens \in [Pool -> 0..Burst]
    /\ refilled \in [Pool -> 0..Horizon]
    /\ limited \in [Request -> BOOLEAN]

CapInit ==
    /\ clock = 0
    /\ phase = [r \in Request |-> "new"]
    /\ seen = [r \in Request |-> 0]
    /\ row = [p \in Pool |-> Nobody]
    /\ lease = [r \in Request |-> 0]
    /\ blocked = [p \in Pool |-> 0]
    /\ tokens = [p \in Pool |-> Burst]
    /\ refilled = [p \in Pool |-> 0]
    /\ limited = [r \in Request |-> FALSE]

Enter(r, ph) == phase' = [phase EXCEPT ![r] = ph]

(***************************************************************************)
(* Row locks.                                                               *)
(***************************************************************************)

\* Fault: the pools are read without FOR UPDATE.
ReadsUnlocked(r) == TRUE

\* Every pool of the request is locked.
AllLocked(r) == \A p \in PoolsOf(r) : row[p] = r

\* Fault: a release locks its pools in the opposite order.
AnyOrderBefore(r, i) ==
    {j \in DOMAIN Draws[r] : IF phase[r] = "returning" THEN j > i ELSE j < i}

\* Canonical order: the pools that must be locked before the i-th.
LockedBefore(r, i) == {j \in DOMAIN Draws[r] : j < i}

\* The pool a request that takes locks asks for now.
Asks(r, p) ==
    /\ phase[r] \in {"locking", "returning"}
    /\ \E i \in DOMAIN Draws[r] :
           /\ Draws[r][i] = p
           /\ row[p] # r
           /\ \A j \in LockedBefore(r, i) : row[Draws[r][j]] = r

\* SELECT ... FOR UPDATE of the next pool returns.
Lock(r, p) ==
    /\ Asks(r, p)
    /\ row[p] = Nobody
    /\ row' = [row EXCEPT ![p] = r]
    /\ UNCHANGED <<clock, phase, seen, lease, bucketVars, limited>>

\* The transaction ends, by commit or because its worker died.
Unlock(r) == row' = [p \in Pool |-> IF row[p] = r THEN Nobody ELSE row[p]]

(***************************************************************************)
(* acquire_provider_capacity.                                               *)
(***************************************************************************)

\* `now` is read before the first lock is asked for.
Begin(r) ==
    /\ phase[r] \in {"new", "parked"}
    /\ seen' = [seen EXCEPT ![r] = clock]
    /\ Enter(r, "locking")
    /\ UNCHANGED <<clock, row, lease, bucketVars, limited>>

\* Fault: leases count until they are released.
UnexpiredOrNot(p, now) == {r \in Request : p \in PoolsOf(r) /\ lease[r] > 0}

\* _active_units: unreleased leases not expired at `now`.
Active(p, now) == {r \in Request : p \in PoolsOf(r) /\ lease[r] > now}

Full(r, p) == Cardinality(Active(p, seen[r])) + 1 > Ceiling[p]
Cooling(r, p) == blocked[p] > seen[r]

Smaller(a, b) == IF a < b THEN a ELSE b
Larger(a, b) == IF a > b THEN a ELSE b

\* _refill_tokens: what the transport holds at the `now` of the request.
Refilled(r) ==
    LET p == Transport(r)
    IN Smaller(Burst, tokens[p] + Larger(0, seen[r] - refilled[p]) * Rate)

\* The transport pool lets the request come to its pacing check.
ReachesPacing(r) ==
    Configured /\ ~Cooling(r, Transport(r)) /\ ~Full(r, Transport(r))

\* Fault: an empty bucket still gives a token.
PacedBelowZero(r) == IF Configured THEN Refilled(r) < 0 ELSE r \in FundedCall

\* Unset rates refuse funded calls; known ones need a token.
Paced(r) == IF Configured THEN Refilled(r) < 1 ELSE r \in FundedCall

Refused(r) ==
    \/ \E p \in PoolsOf(r) : Cooling(r, p) \/ Full(r, p)
    \/ Paced(r)

\* The lazy refill, kept whatever the decision is.
KeepRefill(r) ==
    IF ReachesPacing(r)
    THEN /\ tokens' = [tokens EXCEPT ![Transport(r)] = Refilled(r)]
         /\ refilled' = [refilled EXCEPT ![Transport(r)] = seen[r]]
    ELSE UNCHANGED <<tokens, refilled>>

\* _first_refusal found none; nothing is taken yet.
Admit(r) ==
    /\ phase[r] = "locking"
    /\ AllLocked(r)
    /\ ~Refused(r)
    /\ KeepRefill(r)
    /\ Enter(r, "admitted")
    /\ UNCHANGED <<clock, seen, row, lease, blocked, limited>>

\* A parked decision: committed, and tried again later.
ParkRequest(r) ==
    /\ phase[r] = "locking"
    /\ AllLocked(r)
    /\ Refused(r)
    /\ KeepRefill(r)
    /\ Unlock(r)
    /\ Enter(r, "parked")
    /\ UNCHANGED <<clock, seen, lease, blocked, limited>>

\* _consume and the commit.
Consume(r) ==
    /\ phase[r] = "admitted"
    /\ lease' = [lease EXCEPT ![r] = seen[r] + Ttl]
    /\ IF Configured
       THEN tokens' = [tokens EXCEPT ![Transport(r)] = @ - 1]
       ELSE UNCHANGED tokens
    /\ Unlock(r)
    /\ Enter(r, "granted")
    /\ UNCHANGED <<clock, seen, blocked, refilled, limited>>

(***************************************************************************)
(* The call and release_provider_capacity.                                  *)
(***************************************************************************)

\* mark_running succeeded: the provider is called.
Call(r) ==
    /\ phase[r] = "granted"
    /\ Enter(r, "calling")
    /\ UNCHANGED <<clock, seen, row, lease, bucketVars, limited>>

\* The call ended, or mark_running found the row lost: release begins, with a
\* `now` of its own read before its locks.
Return(r, rateLimited) ==
    /\ phase[r] \in InCall
    /\ rateLimited => phase[r] = "calling"
    /\ limited' = [limited EXCEPT ![r] = rateLimited]
    /\ seen' = [seen EXCEPT ![r] = clock]
    /\ Enter(r, "returning")
    /\ UNCHANGED <<clock, row, lease, bucketVars>>

\* Fault: the newest 429 decides.
Overwritten(p, until) == until

\* blocked_until is raised to the cooldown's end, never lowered.
Raised(p, until) == Larger(blocked[p], until)

Release(r, cooldown) ==
    /\ phase[r] = "returning"
    /\ AllLocked(r)
    /\ lease' = [lease EXCEPT ![r] = 0]
    /\ blocked' = [p \in Pool |-> IF limited[r] /\ p \in PoolsOf(r)
                                  THEN Raised(p, seen[r] + cooldown)
                                  ELSE blocked[p]]
    /\ Unlock(r)
    /\ Enter(r, "done")
    /\ UNCHANGED <<clock, seen, tokens, refilled, limited>>

(***************************************************************************)
(* Failure and time.                                                        *)
(***************************************************************************)

\* The worker dies: its transaction rolls back, its leases stay.
Die(r) ==
    /\ phase[r] \in Acquiring \cup InCall \cup {"returning"}
    /\ Unlock(r)
    /\ Enter(r, "gone")
    /\ UNCHANGED <<clock, seen, lease, bucketVars, limited>>

\* "This must outlive the longest single provider call plus margin": from the
\* `now` of an acquisition to the end of its call less than Ttl passes.
WithinTtl(r, now) ==
    phase[r] \in Acquiring \cup InCall => now < seen[r] + Ttl

Tick ==
    /\ clock < Horizon
    /\ \A r \in Request : WithinTtl(r, clock + 1)
    /\ clock' = clock + 1
    /\ UNCHANGED <<phase, seen, row, lease, bucketVars, limited>>

CapNext ==
    \/ \E r \in Request, p \in Pool : Lock(r, p)
    \/ \E r \in Request : Begin(r)
    \/ \E r \in Request : Admit(r)
    \/ \E r \in Request : ParkRequest(r)
    \/ \E r \in Request : Consume(r)
    \/ \E r \in Request : Call(r)
    \/ \E r \in Request, b \in BOOLEAN : Return(r, b)
    \/ \E r \in Request, c \in 0..MaxCooldown : Release(r, c)
    \/ \E r \in Request : Die(r)
    \/ Tick

CapSpec == CapInit /\ [][CapNext]_capVars

----------------------------------------------------------------------------
(***************************************************************************)
(* Properties.                                                              *)
(***************************************************************************)

\* Calls that hold capacity of a pool, by what they do and not by their leases.
InFlight(p) == {r \in Request : phase[r] \in InCall /\ p \in PoolsOf(r)}

\* No pool ever has more calls in flight than its ceiling, although requests
\* check with clocks read before they waited for their locks and leases of dead
\* workers stop counting on their own ("can never overshoot a pool's concurrency
\* ceiling").
NoOvershoot == \A p \in Pool : Cardinality(InFlight(p)) <= Ceiling[p]

\* Requests never wait for each other's row locks in a circle ("can never
\* deadlock on inverted lock order"), releases included.
Waits(r, q) == \E p \in Pool : Asks(r, p) /\ row[p] = q
NoCircularWait ==
    \A circle \in (SUBSET Request) \ {{}} :
        \E r \in circle : \A q \in circle : ~Waits(r, q)

\* A late 429 never shortens a pool's cooldown ("never lowered").
CooldownStands == [][\A p \in Pool : blocked'[p] >= blocked[p]]_capVars

\* No capacity is lost for good: once no request holds or takes capacity and
\* the time of the last lease has passed, no pool is full.
NothingLost ==
    (\A r \in Request : phase[r] \notin InCall /\ clock >= seen[r] + Ttl)
        => \A p \in Pool : Active(p, clock) = {}
=============================================================================
