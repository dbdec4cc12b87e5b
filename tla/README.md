# CiteLadder: models and proofs of the backend

CiteLadder measures how answer engines cite a brand. A user starts an *audit
run*: a set of prompts crossed with engines, one *task row* each. Worker
processes claim the rows from a queue kept in PostgreSQL, take capacity from
shared provider pools, call a paid provider, store what it answered, bill the
credits reserved for the call, and end the run when no row is left. The same
queue drives the crawls of *Site Health*; a scheduler plans recurring audits;
credits come from grants that *billing* issues for payments at an outside
provider. Everything coordinates through database rows: there is no broker, no
leader, and a process may stall or die between any two transactions. That
coordination is what this project specifies. Paths below are relative to
`src/backend/app/`.

## 1. Inventory

| component | state it keeps | operations | interacts with | hard | correct when |
|---|---|---|---|---|---|
| **Durable queue** `orchestration/postgres_task_queue.py` | per row: status, attempt count, owner, lease expiry, due time | claim, heartbeat, mark running, succeed, fail, retry, defer, park, cancel, sweep | every worker, both sweepers | overlapping claims, stalled or dead owners, late calls | one executor per row; live leases honoured; budget bounded; orphans come back |
| **Audit worker** `workers/audit_worker.py`, `workers/audit/*` | run status, counts, attempts, artifacts | boundary, capacity, call, evidence, settle, finalize, sweep, crash handler | queue, capacity, ledger | several transactions per task; finalizers race; cancellation and deadline at any time | evidence, bills and status agree; a run ends once, and after its rows |
| **Provider capacity** `orchestration/provider_capacity.py` | pool rows (tokens, cooldown), lease rows | acquire, release | audit worker | several row locks per request; clocks read before waits; dead holders | ceilings hold; no deadlock; cooldowns stand |
| **Grants, entitlements, admission, ledger** `domain/entitlements/*`, `domain/audits/creation.py`, `funded_admission.py` | grants, revocations, a version, a cache per process, reservations, debits | issue, revoke, admit, reserve, bill, release | billing, audit worker | an instant taken before the lock; folds cached before their commit; many grants per reservation | no grant overdrawn; ceiling and window kept |
| **Billing** `api/billing.py`, `domain/billing/*` | intents, idempotency records, webhook events, subscriptions, bundles | request, provider call, webhook, sweep, settle | payment provider, entitlements | at-least-once webhooks; uncertain calls; crash after a commit; stale sessions | asked once, settled once, granted for money, paid is granted unless the provider refuses to answer for it |
| **Site Health crawl** `workers/site_health_worker.py`, `workers/site_health/*`, `domain/site_health/*` | crawl and analysis status, task rows, page budget, selection, snapshot | discover, analyze, reconcile, backstop, cancel, deselect, rerun | queue, the user | skipped reconciliations, locks in two orders, late slots | a crawl ends once, with nothing left and a snapshot that agrees |
| **Audit scheduler** `workers/audit_scheduler.py` | schedule rows with leases and next slots | claim, renew, check, plan, finalize | audit creation | stale clock, retry after commit | one audit per occurrence; only occurrences missed between ticks are skipped |
| **Host gate** `workers/site_health/host_gate.py` | delays and cooldowns per host | wait, record | crawl | siblings sleeping | hosts are not hurried |
| **Brand discovery** `workers/brand_discovery_worker.py`, `workers/parent_reconcilers.py` | discovery row, tasks | research, complete, reconcile | queue, onboarding | writes without lock or owner test | a ready discovery stays ready |
| **Integrations** `workers/integration_*`, `domain/integrations/*` | grants, connections, sync runs | sync, page, refresh token, revoke, dispatch | outside APIs, analytics | locks over network calls, revoke retries | one active sync per window; no token lost |
| **Content, analytics** `workers/content_worker.py`, `workers/analytics_worker.py` | generations, tasks | claim, finalize, cancel | queue | cancel during a call | one attempt per call |
| **Growth agent** `domain/agent/service.py` | runs with leases | claim, complete, cancel | model provider | no heartbeat | one result per run |
| **Everything else** (opportunities, commerce, prompts, projects, traffic, demand, command center, API, frontend) | rows of one request | edits, projections | database | little: single transactions or pure data | |

`PROJECT.json` lists all components with the reason for each that is not
modelled, and the hazards of the code at their lines, with the property that
watches each or a note on why none does.

## 2. The modules

```
LeaseBook            what a queue promises: a book of leases
   ^ implemented by
TaskQueue            the queue, transaction by transaction
   ^ extended by
AuditRun             workers, finalizer, sweepers, credits of one run
ProviderCapacity     pools of provider capacity, statement by statement

Purchase             what billing promises for a payment
   ^ implemented by
BillingActivation    requests, provider, webhooks, sweep
FundedAccount        grants, caches, admission and ledger of one account

SiteCrawl            a crawl's tasks, reconciliation, selection, backstop
AuditScheduler       leased schedules and their slots

MC*                  their TLC instances;   *Proofs   their theorems
```

**LeaseBook** is what `orchestration/task_queue.py`, the protocol every worker
programs against, promises: a job is open, held by one tenant, or closed; it is
handed on only after the tenant gives it back, is revoked after its lease has
lapsed, or is withdrawn; a closed job is never reopened.

**TaskQueue** is `PostgresTaskQueue`. `status`, `holder`, `lease`, `attempts`
and `due` are the columns of `QueueLeaseStateMixin`; `scan`, `job` and `verdict`
are what a worker slot has in memory: the candidates its claim has read, the row
it executes and the outcome it has recorded. One action is one transaction,
except a claim, which is two: the candidate statement reads a snapshot
(`BeginClaim`), then the outer statement locks a row and tests eligibility again
(`Claim`, with `StillEligible`), which is the point of the second `WHERE` in
`_claim_statement`. Times are reduced to what guards ask: a lease is live or
expired, a waiting row due or not. The code compares the *process's* id with the
owner column, so `Owned` compares the home of the slot with the home of the
holder; `holder` itself remembers the slot, which the database does not.
Verdicts of a call are recorded before the transaction that settles the row
(`RecordAttempt`, then `Settle`), as in the worker.

**AuditRun** extends it, so that every action is a queue action with what the
worker adds, or leaves the queue alone. `phase` is the position of a slot in
`_execute_task`; its values sit exactly between two transactions:

| phase | next in the code | actions |
|---|---|---|
| boundary | audit row FOR UPDATE: cancelled, overdue, or start | `Boundary` |
| stopped | `queue.fail` after the boundary's release committed | `StopOverdue` |
| ready | route checks, capacity, `mark_running` | `Reject`, `Park`, `StartCall` |
| calling | the provider call under heartbeats | `SlotHeartbeat`, `PersistSuccess`, `PersistFailure`, `BillRefused` |
| recorded | `queue.succeed`, `fail`, `retry` | `SettleTask` |
| crashed | `_record_crash` | `RecordCrash` |
| finalizing, counting | `_finalize_audit` with its two counts | `CountSucceeded`, `Conclude` |
| aggregating | `_finalize_analysis` | `Aggregate` |

`LeaveTask` is every way a call finds its row lost. `Raise` and `FinalizerRaises`
are statements that raise; `WorkerCrash` loses a process with its slots, locks
and owed releases. `WorkerSweep` and `BackstopSweep` are the two sweepers, one of
which releases credits of what it fails through `JanitorRead` and
`JanitorWrite`, two steps because no lock joins them; an exception of that
release is logged and forgotten (`JanitorFails`). `CancelAudit` is the API
call. A reservation is `MaxAttempts` units; which grants it draws on is
FundedAccount's business.

**ProviderCapacity** is `acquire_provider_capacity` and
`release_provider_capacity`. A request reads the clock (`Begin`), takes the row
locks of its pools one by one (`Lock`), and decides under all of them (`Admit`,
`ParkRequest`, `Consume`), as the code does; `row` is who holds a pool's lock,
`lease` the expiry written, `tokens` and `refilled` the bucket, `blocked` the
cooldown. `PoolsOf` gives the pools in `_bucket_specs`' order. `Die` rolls a
transaction back and leaves leases to expire.

**Purchase** is what billing promises of a purchase: it is granted once and only
for money, it is given up only while there is no money for it or once the
provider has refused to answer for it, and what was granted stays so.
**BillingActivation** implements it. A request is `CheckLive`, `CheckUnsettled`
and `InsertIntent`, whose unique keys decide a race; then the provider call,
outside any transaction, whose answer may be uncertain; then `CompleteIntent`.
The customer's payment, a void, a renewal and a cancellation are steps of the
provider. A webhook is three steps because the code commits the event row first
(`RecordEvent`), matches it by an unlocked read (`MatchEvent`), and settles or
updates from what that session has loaded (`SettleEvent`, `ApplyEvent`): a
`FOR UPDATE` without `populate_existing` does not refresh a loaded row, so the
status and version tests of those two steps are stale, and `ApplyEvent` writes
only the columns that differ from what was loaded. The sweep commits its claim
on a batch of limited size, the oldest pending intents of all accounts
(`StartSweep`), then takes them by age, asks the provider about each and settles
on the answer. A fetch that fails in a way that may pass leaves the intent for
later (`SweepFetchFails`); any 4xx answer counts as no record, and an old intent
is abandoned on it (`SweepFetchRefused`). An entry of `born` is a row's
`created_at`.

**FundedAccount** is one billing account. A writer adds or revokes a grant in a
transaction under the account row, and folds its own uncommitted rows into its
process's cache under the next version (`FoldInside`). An admission takes its
instant before any lock (`Ask`), then the account's advisory lock, reads the
version, resolves the grants from the cache or the rows, tests the rate and the
ceiling (`Gate`), and reserves over the grants in draw order (`Reserve`). The
plan of units is any that satisfies `IsPlan`, which says what the loop over the
draw order computes. `Bill` and `Release` are the ledger of the admitted runs.

**SiteCrawl** is one crawl over rows of its own: the part of the queue it uses is
small (claims, settlements, the sweep and a cancel without an owner), and each is
an action. A crawl starts with the discover tasks of its root and its seeds
(`Initial`), which its counter leaves out, and with the analyze tasks of pages
already selected (`Seeded`), the root among them in the automatic mode.
`slot[s].pc` is where a slot is between the transactions of `_execute_task`.
What an analysis persists commits in one step, and supersedes the page's earlier
analysis in `current`. What a discovery persists takes two, as in the code:
`AdmitDiscover` holds the workspace's runtime row, reads the counter and chooses
the pages (`plan`), and `CommitDiscover` locks the crawl, asks for the lease
again and adds to the counter. The rows inserted in between refer to the crawl by
a foreign key, so its row can be updated but not locked against them meanwhile:
`Writable` and `Lockable` tell the two kinds of lock apart. The terminal part of
`reconcile` is two steps because it takes the profile's lock while it holds the
crawl's, and a rerun or a new selection takes them in the other order
(`Deadlocked`): PostgreSQL aborts one of the two. `Measured` is what the snapshot
aggregates, the latest analysis of each selected page.

**AuditScheduler** keeps of a `next_run_at` the occurrence it stands for and how
often a failure has moved it, which is what the unique key on audits can tell
apart; `come` counts the slots that have come since. A claim remembers how many
had come when its tick began, and a success moves the schedule past all of them
(`Next`): those between are never planned, as in `next_run_after`. The limit on a
tick's batch is left out, since what it leaves another tick takes. `RenewClaim`
renews nothing: it writes the expiry computed when the tick began.

## 3. What the runs check

| run | instance | states | question and answer |
|---|---|---|---|
| `queue_safety` | 2 rows, 3 slots in 2 processes, 2 attempts | 339 000 | owner and lease match the status; live leases honoured; **the queue implements LeaseBook** |
| `queue_liveness` | 1 row, 2 one-slot processes, 3 attempts | 892 | crash loops end, orphans included; requeued rows have attempts left |
| `audit_faults` | 1 funded row, 3 slots in 2 processes, 3 attempts, all faults | 1.1 M | calls within budget, bills only for calls, nothing written after the end, releases that fail included |
| `audit_pair` | a funded and a BYOK row on 2 slots, stall, deadline, cancel | 2.3 M | a run that is over has no live row and no reserved credit, and reports no success it has no row, artifact and bill for |
| `audit_normal` | no stall, no fault; deadline and cancel | 51 000 | every call billable, the run ends |
| `provider_capacity` | a BYOK and two funded calls, 4 pools | 444 000 | ceilings, deadlock freedom, nothing lost, cooldowns stand |
| `billing_activation` | a base plan asked for by two requests, a top-up, 2 versions | 370 000 | asked once, settled once; **requests, webhooks and sweep implement Purchase**; what is paid is granted or refused by the provider, dead intents free their slot |
| `funded_account` | 2 grants, 2 writers, 2 admissions, 2 processes, clock of 3 | 1.5 M | no overdraft; ceiling and window kept; only committed grants drawn on |
| `site_crawl` | a root, 2 pages of which 1 may be admitted, 2 slots, 2 generations, 1 fault | 2.0 M | snapshot of the latest analyses; no orphan task; the last finishing task reconciles; the budget holds |
| `site_ends` | a root and a seed, 1 slot, 2 attempts, 1 fault | 1.0 M | the crawl ends |
| `audit_scheduler` | a daily and a one-time schedule, 2 processes, 1 fault | 1.1 M | an occurrence is planned once; the one a schedule is at is left only when planned, and none to come is skipped; nothing stays due |
| `audit_count_race` | 2 rows, no fault | 1 645 | **violated**: see below |

`audit_count_race` ends in a counterexample: the code does what a comment of its
own says it does not. A row succeeds between the finalizer's two counts, and the
run is FAILED with a success in it (`workers/audit/terminalization.py:393`). It
is the finding in `PROJECT.json`.

### Behaviours the models exposed

Each of the following is a path of the model that exists because the code has
it. The properties above are stated so that they say exactly what still holds.

* *Audit runs.* A worker that dies leaves its last row to a sweep, and nobody
  finalizes the run (`workers/audit_worker.py:156`). The standalone sweeper fails
  a funded row and its credits stay reserved (`workers/queue_sweeper.py:101`). A
  sweep's release and a stalled executor's boundary release the same credits
  (`workers/audit_worker.py:177`). A process that dies between evidence and
  settlement has its row called again and a second answer stored
  (`workers/audit/terminalization.py:173`). A janitor's release that raises is
  logged, and the credits of its row stay reserved
  (`workers/audit_worker.py:197`). The constant `Environment` says what may happen
  in a run: `audit_faults` allows everything; `NeverUnbilled` is checked without
  stalls and crashes, `NoLeak` without the standalone sweeper, deaths and failing
  releases, `AuditEnds` without faults. `ReleasedOnce` (no more is released than
  was reserved) is false with stalls; without them it is proved for every
  instance.
* *Slots of one process.* `BudgetLeft` fails with two slots to a process: a row
  swept from one slot and claimed by its sibling still carries the same owner
  id, so the first slot's late `retry` puts back a row the sibling has spent.
* *Capacity.* A request that waited for its locks moves `refilled_at` back, and
  the next one is credited the interval twice
  (`orchestration/provider_capacity.py:353`). No route has a rate configured.
* *Billing.* An intent whose settlement raises anything but a rejection ends the
  sweep before the intents behind it (`domain/billing/reconciliation.py:251`):
  `PaidIsGranted` and `SlotIsFreed` except the runs in which such an intent
  stands. An answer that is an error for good, of which 401 and 429 are examples,
  abandons an intent that was or can be paid (`domain/billing/reconciliation.py:215`):
  Purchase says so. Fifty older intents of whatever accounts whose checkouts stay
  open fill every batch of the sweep (`:131`), and a newer one is not reached:
  `PaidIsGranted` and `SlotIsFreed` except an intent that is `Crowded`. In the
  instance of the run this cannot be, because a top-up needs a live base plan; with
  three purchases, one of another account, both hold with that exception and fail
  without it. A stuck intent takes two base purchases: the request looks for a live subscription
  and then for a pending intent (`api/billing.py:504`, `:519`), and a webhook
  that settles the first in between lets the second through. The version test of
  a subscription event reads a stale row (`domain/billing/service.py:311`).
* *Grants.* A writer that rolls back leaves its fold in its process's cache under
  a version that another writer then commits (`BeginWrite`, `FoldInside`,
  `RollbackWrite` of one writer, then `BeginWrite` to `CommitWrite` of another:
  the entry a process holds for `version` is not `issued \ revoked`). Until it
  expires, a revoked grant can be drawn on, though
  `domain/entitlements/cache.py:7` says correctness never depends on invalidation
  within a process.
* *Site Health.* A slot whose guard is refused because its lease was lost cancels
  the row all the same (`workers/site_health/phases/analyze.py:131`), and the
  crawl completes without the page. The budget is for pages beyond those a crawl
  is created with: the discover tasks of seeds are in no counter
  (`domain/site_health/planner.py:324`), so that a crawl can queue up to its limit
  and its seeds. A sweep fails a worn row although its
  evidence is committed. Deselecting the last waiting page, and a deadlock, leave
  a drained crawl that only the backstop ends.
* *Scheduler.* When planning raises after its commit, the slot is moved and the
  same occurrence is planned again under another key: `OnceUnlessBroken` excepts
  occurrences whose planning raised. Occurrences that come while no tick runs are
  left without an audit, all but the first: `AdvanceIsEarned` is about the
  occurrence a schedule is at.

### Bounds

* *Rows and slots.* Every guard of the queue concerns one row, its holder and
  at most one rival: two rows and three slots (two sharing a process id, one
  not) give every pairing of rivals. A row's history is bounded by attempts.
* *`MaxAttempts`* 2 or 3: first, middle and last attempt differ. `site_crawl` has
  1, which leaves room for its two slots and generations; retries are in
  `site_ends`.
* *One run, one account, one crawl.* Runs share the queue and the capacity,
  which have modules of their own. Accounts share the batch of the billing sweep,
  which `Crowded` accounts for. Crawls share the workspace's row, so that another
  crawl makes an admission wait, and the list the backstop works through, in which
  each crawl is reconciled in a transaction of its own.
* *Capacity.* One customer call and two platform calls give sharing of all four
  kinds of pool, and ceilings of 1 and 2 both full and not. `Horizon` stops the
  clock, `MaxCooldown` a provider's `Retry-After`, `Burst` and `Rate` the
  bucket. `Ttl` is longer than a call: `WithinTtl` is the condition the setting
  is documented with (`core/config/audits.py:301`).
* *Billing.* Two requests under one key race for one intent; the top-up needs the
  base plan and competes in the sweep. `MaxRevision` 2 gives a first charge and a
  renewal or cancellation, so that a newer and an older event race. `BatchSizes`
  1 and 2: a sweep that takes part of what is pending, and one that takes it all.
* *Account.* Two grants of 2 and reservations of 2 give a whole draw and a draw
  over both; limits of 1 make each admission decide the other's. `MaxClock` 3
  with a window and a month of 2 has instants in two months and windows that
  slide.
* *Crawl.* `MaxFaults` bounds crashes, exceptions, late leases and reruns; the
  last two are what makes two actors meet, so one suffices for each pair. Two
  generations let a rerun supersede the analysis before it, or be overtaken by it.
  Two pages of which one may be admitted make the budget bind between two
  discoveries.
* *Scheduler.* `MaxOccurrence` bounds the calendar: the last occurrence never
  comes. With 2 of them a tick finds one or two slots come, and may skip one.
* *Symmetry* is used in safety runs only, over rows, slots, or alike requests.
* `CHECK_DEADLOCK FALSE` is set where everything can be over.

### Fairness

Each worker slot polls in a loop and each step of an executor is bounded by a
timeout: weak fairness of claiming and progress. `SF` of `Claim` is justified by
`SKIP LOCKED`: a claim misses a row only while somebody else holds its lock, and
polls again. In `AuditRun`, `SF` of a slot's work says that a blocked wait on
the audit row is granted eventually; PostgreSQL queues waiters in order. The
sweeper runs on a timer, leases run out and waits end because time passes.
Parking and putting back cost no attempt, so a row that waits for ever for
capacity is excluded in the property itself (`[]<><<PutBack>>` or `[]<><<Park>>`).

`BillingActivation`: a request past its insert ends (it has a timeout, or its
process dies), intents age, somebody keeps starting sweeps, and `SF` of the
fetch says that the provider answers for each intent again and again; nothing is
assumed of webhooks, the customer or what the provider decides. `SiteCrawl`: slots and the maintenance
loop go on; `SF` of a claim of a discovery and of a claim, because a put-back analysis
gets a delay that lets another task be claimed first; `SF` of a reconciliation's
wait for a lock.
`AuditScheduler`: processes tick, leases run out and time comes. Nowhere is
anything assumed of heartbeats, exceptions, crashes, cancellations, deadlines or
a user.

## 4. What is proved

TLAPS proves for every value of the constants (any rows, slots, processes,
pools, intents, grants, pages, limits):

* **TaskQueueProofs.** `TypeCorrect`, `LeaseCorrect`, `TerminalStays`,
  `NoRowStolen`, `LiveLeaseKept`, `BudgetKept` and `QueueImplementsBook`. The
  type together with `LeaseMatchesStatus` is inductive, and is what the action
  properties need: an owner test can pass only on a row that is leased or
  running, so a late settle, defer or park cannot reach a terminal row although
  none of them looks at the status. `LiveLeaseKept` says who may end the lease of
  a row while it is live, and that a second claim does not; a sibling in the
  process of its executor can, because the code compares processes. `BudgetKept` strengthens `BudgetLeft` by
  `HeldBudget` (a row in its executor's hands has attempts left unless the
  recorded verdict ends it) and assumes `OneSlotEach`, without which it is
  false. For the refinement every step maps to a step of the book or a stutter.
* **AuditRunProofs.** `RunImplementsQueue` (every step of a run is a queue step
  or leaves the rows alone, so the queue's theorems carry over),
  `AuditTypeCorrect`, `RunEndsLast` and `EndIsFinal`. `OverMeansAllOver` is not
  inductive: `Aggregate` ends the run without looking at the rows. `RowsEnded`
  extends it to ANALYZING, which the finalizer enters only from a count that
  found none left; and rows that are terminal stay so by `TerminalStays`.
* **AuditLedgerProofs.** The accounts of a run: calls, bills and credits.
  `CallsBounded` and `BilledForCalls` hold whatever happens. No attempt is
  charged before its call, so `CallsWithinBudget` needs `CallsPaid`: every call
  but the first is paid for by a charged attempt that left the row budget for
  another, and what may still call without a new charge (the slots of `Stake`,
  and the row itself while it can be claimed, `Chance`) is counted beforehand.
  `BillsAnswered` counts a bill against the call a slot is still in.
  Three theorems name the fault they exclude as a hypothesis on `Environment`,
  because with it the property is false (section 3, *Audit runs*). Where a run
  checks the property the hypothesis is that of the run, or weaker:
  `NothingLeaks` without deaths, the standalone sweeper and janitors whose release
  raises (`AllCleared`: who is about to end a row has released it, and a janitor's
  release covers the rest);
  `ReleasesSettleOnce` without stalls (`HoldsOwn`, `NoneLapsed`: a slot owns the
  row it works on until a cancellation takes it; `AllTidy`: what a janitor has
  read is still what is outstanding); and `AnswersCanBeBilled` without stalls,
  exceptions and deaths (`AllSteady`: a row that may be called again has an
  unbilled unit).
  `ReportsBacked` holds whatever happens again: a succeeded row has its artifact
  and its bill, and a run's status says no more than its rows do. `TruthInv`
  carries it across the three transactions that write them: an executor whose
  verdict is a success has committed the artifact, whoever has counted successes
  for the run counted one that is still there (`Counted`), and a run is ANALYZING
  only with a success in it.
* **ProviderCapacityProofs.** `CapTypes`, whose point is the bucket: `TokenKept`
  says that the token an admitted request was promised is still there when it
  consumes it. `NothingLostHolds`, as a lease never ends later than its time to
  live after the clock its request last read. `CooldownOnlyGrows`; `NoDeadlock`, from the
  assumption that requests list pools along one order of kinds (`Canonical`,
  which is what `_bucket_specs` does): what a request holds is a prefix of its
  pools (`LockInv`), so in a circle the request that asks for the highest kind
  is waited for by nobody; and `CeilingHolds`: every call in flight has a lease
  that has not expired by any clock a rival could have read (`InTime`), and
  `RoomKept` says that what an admitted request found under its locks is still
  so when it takes its leases. `CeilingHolds` rests on `WithinTtl`.
* **BillingActivationProofs.** `BillTypes`, `CalledOnceHolds`, `SettledOnceHolds`
  and `KeepsPromiseHolds`, the refinement of Purchase. `BillInv` says of each
  request in flight that its intent's record is its own (`RequestInv`: at most
  one request is past the insert, which bounds the calls), of each intent what
  its status implies about its charge, its claim, its bundles and what the provider
  refused (`IntentInv`),
  and of the sweep that what it fetched is still possible (`ClaimInv`,
  `FetchInv`: a void or ended charge stays so, a paid one is never unpaid). With
  it the stale status test of a webhook is harmless: only `FreshClaim` decides.
* **FundedAccountProofs.** `FundTypes`, `FundInvariant`, `CeilingKeptHolds`,
  `WindowKeptHolds`, `DrawsOnIssuedHolds` and `NoOverdrawHolds`. `GateInv` says that an admission
  past the lock is the lock's holder, and that what the gate found (room in the
  month of its instant, room since its window began) is still so, because
  runs are committed by the holder only. The window theorem is not immediate:
  the run is stamped with a time after the instant it was counted at. But every
  window that contains the stamp begins no earlier than the window counted, and
  the count has no upper end.
  For `NoOverdraw` the balances are sums over runs. The model counts them unit by
  unit (`UnitsOf`: the pairs of a run and a number up to what it holds), which is
  the same number because no run holds more than `Units` of a grant, the first
  conjunct of `DrawInv`; a sum is then a cardinality, and `UnitsFall` and
  `UnitsGrow` say how one step changes it. The second conjunct is the one that
  matters: the plan an admission is about to write is still covered, because
  nobody else reserves under its lock, and bills and releases, which take no
  lock, never lower a balance.
* **SiteCrawlProofs.** `SiteTypes`, `SiteInvariant`, `NoOrphansHolds`,
  `SnapshotAgreesHolds`, `EndsOnceHolds`, `LastReconcilesHolds`,
  `WithinBudgetHolds`, `TasksEndOnceHolds` and `NothingForgottenHolds`. `SiteInv`: whoever is at the
  terminal part holds the crawl's lock, the crawl is then active and drained, and
  a profile held by a user implies an active crawl. `QuietStays` is the lemma the
  rest uses: only the insert of a rerun puts work into a drained crawl, and it
  needs both locks free. `LastReconciles` is inductive with the type:
  an actor gives its place up only while something is outstanding, with the crawl
  over, or stranded. `WithinBudget` is not, since an admission commits what it
  tested earlier: `PlanInv` says that who is about to commit holds the
  workspace's row, that nobody else has admitted the pages of its plan, and that
  the plan still fits the counter, because nothing recomputes the counter while
  what was inserted refers to the crawl; and the counter is never behind what was
  found. `RowStep` says what one step may do to the status of a row:
  `TasksEndOnce` is one half of it, and the other, that only a slot about to
  settle its task makes the row succeeded, carries `EvidenceInv`, which adds that
  every analyzed page has one latest analysis, and with it `NothingForgotten`.
* **AuditSchedulerProofs.** `SchedTypes`, `SchedInvariant`, `AdvanceIsEarnedHolds`
  and `OnceUnlessBrokenHolds`. `SchedInv`: what a process holds in hand is the
  slot its row still has as long as it owns the row, and it counts no occurrence
  that has not come; what it is about to record
  is in the audits or among the raised; and every slot known to anybody that a
  failure has moved names an occurrence that raised.

Assumptions on constants are named in the modules, and TLC evaluates them.

Every safety property the passing runs check is thereby a theorem. Only
model-checked are the liveness properties (`EveryTaskSettles`,
`AuditEnds`, `PaidIsGranted`, `SlotIsFreed`, `DueIsHandled`, `SiteEnds`): they
rest on fairness, which with ENABLED is beyond the prover. What recursive
definitions compute for every input is out of its reach as well; the modules
avoid recursion, and write a sum as a count.

Some theorems have no run of their own. `TerminalStays` and `NoRowStolen` are
also consequences of the refinement `queue_safety` checks; `AuditTypeCorrect`,
`ReleasesSettleOnce`, `EndsOnceHolds`, `TasksEndOnceHolds` and
`NothingForgottenHolds` hold for every instance by proof.

## 5. What is left out, and why

* Most of the source is data: parsing of pages, some hundred audit rules, scoring,
  prompts and their generation, HTTP clients, read projections, API schemas,
  migrations and configuration. It has no state that two actors share, so there
  is nothing in it for a state machine to get wrong, and its share of the lines is
  why the map covers a small part of the repository. What was chosen is the code
  that commits something another process depends on.
* Provider answers, scoring, reports: the models choose outcomes.
* The order of claims: any claimable row may be taken, which is weaker than the
  code, so safety holds a fortiori and starvation is not claimed either way. A
  steady arrival of new runs can starve the later rows of an old one
  (`orchestration/postgres_task_queue.py:176`).
* Row locks of the audit tables, apart from the audit row itself; cancelling and
  executing take the run and its rows in opposite orders
  (`domain/audits/cancellation.py:75`).
* Rows created after a run begins, repairs, the draft and validating statuses.
* The convergence of pool rows to changed settings, and telemetry.
* Billing: a customer's cancellation, catalog revisions under an intent, refunds,
  the admin commands.
* Account: occupancy limits of projects, prompts and sites, which are the same
  lock around another count; resolving capabilities; prices.
* Crawl: `site_setup`, sample and exact-URL crawls, the crawl of one page that a
  rerun creates when none is active, pausing, URL policies and duplicates, the
  size of a frontier batch, scores, and the tasks enqueued after the end. The
  instances give each slot its
  own lease owner; the theorems hold for shared ones.
* Scheduler: a reschedule during planning, which the finalizer overwrites;
  deleting or enabling again.
* *Host gate*, *brand discovery*, *integrations*, *growth agent*, *content*,
  *analytics*. They were read, and their hazards are real: a cooldown recorded
  while a sibling sleeps out an older delay; a discovery failed from a status
  read without a lock (`workers/parent_reconcilers.py:79`); two removals of the
  last two connections that each leave the revocation to the other
  (`domain/integrations/service.py:544`), a revocation recorded over tokens of a
  newer connection (`:588`, `workers/integration_dispatcher.py:302`), a rotated
  token lost with its process (`workers/integration/tokens.py:66`); an agent run
  that outlives its lease (`domain/agent/service.py:407`).

## 6. What comes next

In this order:

1. **Integrations**: a grant's life among connections, refreshes and revocations.
   The properties worth stating fail on the code as it is, at the lines above, so
   they come with a decision on what the code should promise.
2. **BrandDiscovery**, **AgentRuns** and the small queue clients over LeaseBook,
   and **HostGate**.
3. **FairClaim** (order of claims, starvation) and **LockOrder** (deadlock
   freedom of the audit tables' row locks).
4. Theorems: `NoLeak` for the rows whose process lives although another dies, and
   an abstract credit account that AuditRun's ledger refines for one run and
   FundedAccount's for all.
