--------------------------- MODULE FundedAccount ---------------------------
(***************************************************************************)
(* One billing account: its grants and their revocations, the lifecycle     *)
(* version and the entitlement cache of each process keyed by it, the       *)
(* admission of funded runs under the account's advisory lock, and the      *)
(* ledger the admitted runs draw on (domain/entitlements/*.py,              *)
(* domain/audits/creation.py, funded_admission.py).  A step is a statement, *)
(* or all the statements of a transaction nobody can commit between.        *)
(***************************************************************************)
EXTENDS Integers, FiniteSets, Sequences

CONSTANTS
    Grant,      \* consumable grants the account may be given
    Value,      \* units of a grant
    DrawOrder,  \* ordered_consumable_grants: the grants in draw order
    Writer,     \* transactions that issue or revoke grants
    Admission,  \* create_audit calls of funded runs
    Home,       \* the process a writer or an admission runs in
    Units,      \* units one run reserves
    Cost,       \* its worst-case cost
    Ceiling,    \* funded_monthly_budget_minor, in the unit of Cost
    Allowance,  \* manual_runs_per_day
    Window,     \* rolling_window_seconds, in ticks of the clock
    Month,      \* length of a budget month in ticks
    MaxClock,   \* bound on the clock
    NoOne       \* a lock nobody holds

Proc == {Home[x] : x \in Writer \cup Admission}

ASSUME FundedAssumption ==
    /\ Value \in [Grant -> Nat]
    /\ DrawOrder \in Seq(Grant)
    /\ Units \in Nat \ {0}
    /\ Cost \in Nat /\ Ceiling \in Nat /\ Allowance \in Nat
    /\ Window \in Nat /\ Month \in Nat \ {0} /\ MaxClock \in Nat
    /\ NoOne \notin Writer \cup Admission
    /\ IsFiniteSet(Admission) /\ IsFiniteSet(Writer)

VARIABLES
    clock,    \* time
    version,  \* BillingAccount.entitlement_lifecycle_version
    issued,   \* committed grants
    revoked,  \* committed revocations
    rowLock,  \* the writer that holds the account row FOR UPDATE
    writer,   \* the transaction of a writer
    cache,    \* each process's entries: the active grants by version
    capacity, \* the admission that holds the account's advisory lock
    admission,\* the transaction of an admission
    run,      \* committed Audit rows: created_at and budget month
    held,     \* units a run has reserved and not released, per grant
    spent     \* units debited, per grant

grantVars == <<version, issued, revoked, rowLock, writer>>
ledgerVars == <<run, held, spent>>
fundVars == <<clock, grantVars, cache, capacity, admission, ledgerVars>>

Version == 0..Cardinality(Writer)
Entry == [known : BOOLEAN, fold : SUBSET Grant]
Missing == [known |-> FALSE, fold |-> {}]
Cached(fold) == [known |-> TRUE, fold |-> fold]
NoRun == [created |-> -1, month |-> -1]
NoUnits == [g \in Grant |-> 0]
Idle == [at |-> "idle", asked |-> 0, version |-> 0, created |-> 0, plan |-> NoUnits]

FundTypeOK ==
    /\ clock \in 0..MaxClock
    /\ version \in Version
    /\ issued \subseteq Grant
    /\ revoked \subseteq issued
    /\ rowLock \in Writer \cup {NoOne}
    /\ writer \in [Writer -> [at : {"idle", "locked", "folded", "done"},
                              grant : Grant \cup {NoOne}, adds : BOOLEAN]]
    /\ cache \in [Proc -> [Version -> Entry]]
    /\ capacity \in Admission \cup {NoOne}
    /\ admission \in [Admission ->
           [at : {"idle", "asked", "locked", "read", "resolved", "admitted",
                  "reserved", "done"},
            asked : 0..MaxClock, version : Version,
            created : 0..MaxClock, plan : [Grant -> Nat]]]
    /\ run \in [Admission -> [created : Int, month : Int]]
    /\ held \in [Admission -> [Grant -> Nat]]
    /\ spent \in [Grant -> Nat]

FundInit ==
    /\ clock = 0
    /\ version = 0
    /\ issued = {}
    /\ revoked = {}
    /\ rowLock = NoOne
    /\ writer = [w \in Writer |-> [at |-> "idle", grant |-> NoOne, adds |-> TRUE]]
    /\ cache = [p \in Proc |-> [v \in Version |-> Missing]]
    /\ capacity = NoOne
    /\ admission = [a \in Admission |-> Idle]
    /\ run = [a \in Admission |-> NoRun]
    /\ held = [a \in Admission |-> NoUnits]
    /\ spent = NoUnits

Tick ==
    /\ clock < MaxClock
    /\ clock' = clock + 1
    /\ UNCHANGED <<grantVars, cache, capacity, admission, ledgerVars>>

(***************************************************************************)
(* issue_grant_bundle and revoke_grants.                                    *)
(***************************************************************************)

WriterAt(w, to) == writer' = [writer EXCEPT ![w].at = to]

\* The rows are added and _bump_account_version locks the account row; a
\* replayed bundle or revocation writes nothing.
BeginWrite(w, g, adds) ==
    /\ writer[w].at = "idle"
    /\ rowLock = NoOne
    /\ IF adds THEN g \notin issued ELSE g \in issued \ revoked
    /\ rowLock' = w
    /\ writer' = [writer EXCEPT ![w] = [at |-> "locked", grant |-> g, adds |-> adds]]
    /\ UNCHANGED <<clock, version, issued, revoked, cache, capacity, admission,
                   ledgerVars>>

\* What the transaction sees: the committed rows and its own.
OwnFold(w) ==
    IF writer[w].adds THEN (issued \ revoked) \cup {writer[w].grant}
    ELSE issued \ (revoked \cup {writer[w].grant})

\* refresh_site_health_runtime_for_account resolves inside the transaction:
\* the fold enters the process's cache under the version not yet committed.
FoldInside(w) ==
    LET v == version + 1 IN
    /\ writer[w].at = "locked"
    /\ cache' = [cache EXCEPT ![Home[w]][v] = IF @.known THEN @ ELSE Cached(OwnFold(w))]
    /\ WriterAt(w, "folded")
    /\ UNCHANGED <<clock, version, issued, revoked, rowLock, capacity, admission,
                   ledgerVars>>

CommitWrite(w) ==
    /\ writer[w].at = "folded"
    /\ version' = version + 1
    /\ IF writer[w].adds
       THEN issued' = issued \cup {writer[w].grant} /\ UNCHANGED revoked
       ELSE revoked' = revoked \cup {writer[w].grant} /\ UNCHANGED issued
    /\ rowLock' = NoOne
    /\ WriterAt(w, "done")
    /\ UNCHANGED <<clock, cache, capacity, admission, ledgerVars>>

\* A later statement fails, the request is cancelled or the connection drops.
\* The cache entry stays.
RollbackWrite(w) ==
    /\ writer[w].at \in {"locked", "folded"}
    /\ rowLock' = NoOne
    /\ WriterAt(w, "done")
    /\ UNCHANGED <<clock, version, issued, revoked, cache, capacity, admission,
                   ledgerVars>>

(***************************************************************************)
(* create_audit of a funded run.                                            *)
(***************************************************************************)

Step(a, to) == admission' = [admission EXCEPT ![a].at = to]

\* One admission instant, taken before anything is locked.
Ask(a) ==
    /\ admission[a].at = "idle"
    /\ admission' = [admission EXCEPT ![a].at = "asked", ![a].asked = clock]
    /\ UNCHANGED <<clock, grantVars, cache, capacity, ledgerVars>>

\* Fault: the advisory lock is not waited for.
LockFreeOrNot == TRUE

\* pg_advisory_xact_lock can be had.
LockFree == capacity = NoOne

\* lock_billing_account_capacity: held until the transaction ends.
TakeLock(a) ==
    /\ admission[a].at = "asked"
    /\ LockFree
    /\ capacity' = a
    /\ Step(a, "locked")
    /\ UNCHANGED <<clock, grantVars, cache, ledgerVars>>

Created == {a \in Admission : run[a] # NoRun}

\* Fault: runs created after this one asked are not in its window.
UsedUntil(at) == Cardinality({b \in Created : at - Window < run[b].created
                                              /\ run[b].created <= at})

\* evaluate_manual_run_admission's count.
Used(at) == Cardinality({b \in Created : at - Window < run[b].created})

\* _admit_funded_run's sum over the month.
ReservedIn(m) == Cost * Cardinality({b \in Created : run[b].month = m})

MonthOf(t) == t \div Month

\* The transaction ends, committed or not, and its locals are gone.
Finish(a) ==
    /\ admission' = [admission EXCEPT ![a] = [Idle EXCEPT !.at = "done"]]
    /\ capacity' = IF capacity = a THEN NoOne ELSE capacity

\* resolve_account_entitlement: the committed version, which the session
\* keeps from here on, then the cache.
ReadVersion(a) ==
    /\ admission[a].at = "locked"
    /\ admission' = [admission EXCEPT
           ![a].version = version,
           ![a].at = IF cache[Home[a]][version].known THEN "resolved" ELSE "read"]
    /\ UNCHANGED <<clock, grantVars, cache, capacity, ledgerVars>>

\* A miss: the grants and revocations committed by now, cached under the
\* version read before.
FoldGrants(a) ==
    /\ admission[a].at = "read"
    /\ Step(a, "resolved")
    /\ cache' = [cache EXCEPT ![Home[a]][admission[a].version] = Cached(issued \ revoked)]
    /\ UNCHANGED <<clock, grantVars, capacity, ledgerVars>>

\* The rolling rate, then the monthly ceiling; a refusal rolls back.
Gate(a) ==
    LET at == admission[a].asked IN
    /\ admission[a].at = "resolved"
    /\ IF Used(at) < Allowance /\ ReservedIn(MonthOf(at)) + Cost <= Ceiling
       THEN Step(a, "admitted") /\ UNCHANGED capacity
       ELSE Finish(a)
    /\ UNCHANGED <<clock, grantVars, cache, ledgerVars>>

\* So many units of each of some things, none of more than a run reserves, one
\* by one; their number is the sum.
UnitsOf(amount) ==
    {u \in (DOMAIN amount) \X (1..Units) : u[2] <= amount[u[1]]}

Reserved(g) == Cardinality(UnitsOf([a \in Admission |-> held[a][g]]))

\* Fault: units already billed count as free again.
BalanceWithoutDebits(g) == Value[g] - Reserved(g)

\* _grant_balances: value - reserved + released - debited.
Balance(g) == Value[g] - Reserved(g) - spent[g]

\* The reservation resolves again: the entry, or what is committed by now.
Resolved(a) == LET hit == cache[Home[a]][admission[a].version] IN
               IF hit.known THEN hit.fold ELSE issued \ revoked

\* Fault: a grant of the draw order is not looked up again.
LocksAny(fold) == fold

\* _active_grants_in_draw_order: the rows of the fold that exist, locked.
Lockable(fold) == fold \cap issued

Pos(x) == IF x > 0 THEN x ELSE 0
Total(plan) == Cardinality(UnitsOf(plan))

\* The take from each grant in draw order, until the units are covered.
IsPlan(plan, rows) ==
    /\ \A g \in Grant : plan[g] <= (IF g \in rows THEN Pos(Balance(g)) ELSE 0)
    /\ \A m, n \in DOMAIN DrawOrder :
           m < n /\ plan[DrawOrder[n]] > 0 /\ DrawOrder[m] \in rows
               => plan[DrawOrder[m]] = Pos(Balance(DrawOrder[m]))
    /\ Total(plan) = Units

Plans(rows) == {plan \in [Grant -> 0..Units] : IsPlan(plan, rows)}

\* The audit row is written with the time, then reserve_funded_task; a
\* shortfall rolls the whole audit back.
Reserve(a) ==
    /\ admission[a].at = "admitted"
    /\ cache' = [cache EXCEPT ![Home[a]][admission[a].version] = Cached(Resolved(a))]
    /\ LET rows == Lockable(Resolved(a)) IN
       IF Plans(rows) = {}
       THEN Finish(a)
       ELSE /\ UNCHANGED capacity
            /\ \E plan \in Plans(rows) :
                   admission' = [admission EXCEPT ![a].at = "reserved",
                                                  ![a].created = clock,
                                                  ![a].plan = plan]
    /\ UNCHANGED <<clock, grantVars, ledgerVars>>

\* The audit, its tasks and reservations become visible together.
CommitRun(a) ==
    /\ admission[a].at = "reserved"
    /\ run' = [run EXCEPT ![a] = [created |-> admission[a].created,
                                  month |-> MonthOf(admission[a].asked)]]
    /\ held' = [held EXCEPT ![a] = admission[a].plan]
    /\ Finish(a)
    /\ UNCHANGED <<clock, grantVars, cache, spent>>

\* The request fails after it took the lock; the lock goes with it.
AbortRun(a) ==
    /\ admission[a].at \in {"locked", "read", "resolved", "admitted", "reserved"}
    /\ Finish(a)
    /\ UNCHANGED <<clock, grantVars, cache, ledgerVars>>

\* An entry passes its time to live or is evicted.
Expire(p, v) ==
    /\ cache[p][v].known
    /\ cache' = [cache EXCEPT ![p][v] = Missing]
    /\ UNCHANGED <<clock, grantVars, capacity, admission, ledgerVars>>

(***************************************************************************)
(* The ledger of an admitted run; how its bills and releases race is          *)
(* AuditRun's subject.                                                      *)
(***************************************************************************)

\* Fault: the first grant is billed whether or not it has a unit left.
FirstOfOrder(a, n) == n = 1

\* The first grant of the draw order the run still has a unit of.
FirstHeld(a, n) ==
    /\ held[a][DrawOrder[n]] > 0
    /\ \A m \in 1..(n - 1) : held[a][DrawOrder[m]] = 0

\* record_billable_attempt: one unit of the first grant that has one is
\* released and debited.
Bill(a) ==
    /\ \E n \in DOMAIN DrawOrder :
           LET g == DrawOrder[n] IN
           /\ FirstHeld(a, n)
           /\ held' = [held EXCEPT ![a][g] = @ - 1]
           /\ spent' = [spent EXCEPT ![g] = @ + 1]
    /\ UNCHANGED <<clock, grantVars, cache, capacity, admission, run>>

\* release_unused_reservation: what is outstanding, once.
Release(a) ==
    /\ \E g \in Grant : held[a][g] > 0
    /\ held' = [held EXCEPT ![a] = NoUnits]
    /\ UNCHANGED <<clock, grantVars, cache, capacity, admission, run, spent>>

FundNext ==
    \/ Tick
    \/ \E p \in Proc, v \in Version : Expire(p, v)
    \/ \E w \in Writer : \/ \E g \in Grant, adds \in BOOLEAN : BeginWrite(w, g, adds)
                         \/ FoldInside(w) \/ CommitWrite(w) \/ RollbackWrite(w)
    \/ \E a \in Admission : \/ Ask(a) \/ TakeLock(a) \/ ReadVersion(a)
                            \/ FoldGrants(a) \/ Gate(a) \/ Reserve(a) \/ CommitRun(a)
                            \/ AbortRun(a) \/ Bill(a) \/ Release(a)

FundSpec == FundInit /\ [][FundNext]_fundVars

(***************************************************************************)
(* Properties.                                                              *)
(***************************************************************************)

\* However admissions, bills, releases, new grants and stale cache entries
\* interleave, no grant is drawn beyond its value (_grant_balances under the
\* advisory lock).
NoOverdraw == \A g \in Grant : Reserved(g) + spent[g] <= Value[g]

\* The worst-case cost of the runs of a month, whose instants are taken
\* before the lock, stays under the account's ceiling (_admit_funded_run).
CeilingKept == \A m \in 0..MonthOf(MaxClock) : ReservedIn(m) <= Ceiling

\* In every window of that length, not only in those that end when a run
\* asked, at most the allowance of runs was created
\* (evaluate_manual_run_admission counts at an instant that may be long past
\* when it has the lock).
WindowKept ==
    \A t \in 0..MaxClock :
        Cardinality({b \in Created : t - Window < run[b].created
                                     /\ run[b].created <= t}) <= Allowance

\* Units are only drawn on grants that were committed, whatever the cache
\* says (_active_grants_in_draw_order skips rows that do not exist).
DrawsOnIssued ==
    \A a \in Admission, g \in Grant : held[a][g] > 0 => g \in issued
=============================================================================
