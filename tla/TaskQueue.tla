----------------------------- MODULE TaskQueue -----------------------------
(***************************************************************************)
(* The durable PostgreSQL queue every worker of the backend claims from     *)
(* (orchestration/postgres_task_queue.py).  A queue row is a task; a slot   *)
(* is one executor coroutine of a worker process; Home[s] is that process,  *)
(* whose identifier is what the lease_owner column holds.                   *)
(*                                                                          *)
(* Each action is one database transaction of the queue, or one step of     *)
(* time.  Clock values are abstracted to what the code compares them for:   *)
(* due[t] is "available_at <= now", lease[t] is "none" (NULL), "live" or    *)
(* "expired" (lease_expires_at < now).                                      *)
(***************************************************************************)
EXTENDS Integers, FiniteSets

CONSTANTS
    Task,         \* rows of one queue table
    Slot,         \* executor coroutines
    Proc,         \* worker processes (lease_owner identifiers)
    Home,         \* the process a slot runs in
    MaxAttempts,  \* max_attempts of every row
    NoTask,       \* a slot that holds no row
    NoOwner,      \* lease_owner IS NULL
    Gone          \* lease_owner of a process that no longer exists

ASSUME ConstantsAssumption ==
    /\ Home \in [Slot -> Proc]
    /\ MaxAttempts \in Nat \ {0}
    /\ NoTask \notin Task
    /\ NoOwner \notin Slot \cup Proc \cup {Gone}
    /\ Gone \notin Slot \cup Proc

VARIABLES
    status,    \* status of a row
    holder,    \* the slot whose claim set lease_owner, Gone, or NoOwner
    lease,     \* lease_expires_at against the clock
    due,       \* available_at <= now
    attempts,  \* attempt_count
    scan,      \* rows a slot's claim statement saw in its snapshot
    job,       \* the row a slot believes it is executing
    verdict    \* outcome the slot's own evidence transaction committed

rowVars == <<status, holder, lease, due, attempts>>
slotVars == <<scan, job, verdict>>
vars == <<status, holder, lease, due, attempts, scan, job, verdict>>

Claimable == {"queued", "retry_wait", "capacity_wait"}
Leased == {"leased", "running"}
Terminal == {"succeeded", "failed", "cancelled"}
Status == Claimable \cup Leased \cup Terminal
Verdict == {"none", "succeeded", "failed", "retry_wait"}

TypeOK ==
    /\ status \in [Task -> Status]
    /\ holder \in [Task -> Slot \cup {Gone, NoOwner}]
    /\ lease \in [Task -> {"none", "live", "expired"}]
    /\ due \in [Task -> BOOLEAN]
    /\ attempts \in [Task -> Nat]
    /\ scan \in [Slot -> SUBSET Task]
    /\ job \in [Slot -> Task \cup {NoTask}]
    /\ verdict \in [Slot -> Verdict]

Init ==
    /\ status = [t \in Task |-> "queued"]
    /\ holder = [t \in Task |-> NoOwner]
    /\ lease = [t \in Task |-> "none"]
    /\ due = [t \in Task |-> TRUE]
    /\ attempts = [t \in Task |-> 0]
    /\ scan = [s \in Slot |-> {}]
    /\ job = [s \in Slot |-> NoTask]
    /\ verdict = [s \in Slot |-> "none"]

(***************************************************************************)
(* Reading a row.                                                           *)
(***************************************************************************)

\* eligible_filter: claimable vocabulary and available_at passed.
Eligible(t) == status[t] \in Claimable /\ due[t]

\* Fault: any leased row passes for one's own.
OwnsAnyLeased(s, t) == status[t] \in Leased

\* _owned_task compares the process identifier, never the claim.
Owned(s, t) == holder[t] \in Slot /\ Home[holder[t]] = Home[s]

\* Fault: the sweep forgets to compare lease_expires_at with the clock.
ReclaimsLive(t) == status[t] \in Leased

\* release_expired_detailed selects leased or running rows past their lease.
Reclaimable(t) == status[t] \in Leased /\ lease[t] = "expired"

(***************************************************************************)
(* Claiming: one statement whose snapshot is taken first and whose rows     *)
(* are locked and rechecked later (READ COMMITTED).                         *)
(***************************************************************************)

BeginClaim(s) ==
    /\ job[s] = NoTask
    /\ scan[s] = {}
    /\ \E t \in Task : Eligible(t)
    /\ scan' = [scan EXCEPT ![s] = {t \in Task : Eligible(t)}]
    /\ UNCHANGED <<rowVars, job, verdict>>

\* Fault: eligible_filter only inside the ranked subquery.
NoRecheck(t) == TRUE

\* The predicate on the locked relation, evaluated on the newest version.
StillEligible(t) == Eligible(t)

Claim(s, t) ==
    /\ t \in scan[s]
    /\ StillEligible(t)
    /\ status' = [status EXCEPT ![t] = "leased"]
    /\ holder' = [holder EXCEPT ![t] = s]
    /\ lease' = [lease EXCEPT ![t] = "live"]
    /\ scan' = [scan EXCEPT ![s] = {}]
    /\ job' = [job EXCEPT ![s] = t]
    /\ UNCHANGED <<due, attempts, verdict>>

\* SKIP LOCKED: every candidate was locked by another transaction or has
\* changed; the claim returns no row.
ClaimNothing(s) ==
    /\ scan[s] # {}
    /\ scan' = [scan EXCEPT ![s] = {}]
    /\ UNCHANGED <<rowVars, job, verdict>>

(***************************************************************************)
(* The executor's calls.  Each locks its row and rechecks the owner; a call *)
(* that finds the lease lost returns False, and the executor drops the row. *)
(***************************************************************************)

Drop(s) ==
    /\ job' = [job EXCEPT ![s] = NoTask]
    /\ verdict' = [verdict EXCEPT ![s] = "none"]

Working(s) == job[s] \in Task

Heartbeat(s) ==
    /\ Working(s)
    /\ Owned(s, job[s])
    /\ status[job[s]] \in Leased
    /\ lease' = [lease EXCEPT ![job[s]] = "live"]
    /\ UNCHANGED <<status, holder, due, attempts, slotVars>>

MarkRunning(s) ==
    /\ Working(s)
    /\ verdict[s] = "none"
    /\ Owned(s, job[s])
    /\ status[job[s]] = "leased"
    /\ status' = [status EXCEPT ![job[s]] = "running"]
    /\ UNCHANGED <<holder, lease, due, attempts, slotVars>>

\* The executor's own transaction: under the row lock, with the owner
\* rechecked, it records the attempt and decides what to tell the queue.
\* A retry is decided only while the attempt budget lasts.  Rejections made
\* before the call are recorded on a row that is still only leased.
RecordAttempt(s, v) ==
    /\ Working(s)
    /\ verdict[s] = "none"
    /\ v \in Verdict \ {"none"}
    /\ v = "retry_wait" => attempts[job[s]] + 1 < MaxAttempts
    /\ Owned(s, job[s])
    /\ status[job[s]] \in Leased
    /\ attempts' = [attempts EXCEPT ![job[s]] = @ + 1]
    /\ verdict' = [verdict EXCEPT ![s] = v]
    /\ UNCHANGED <<status, holder, lease, due, scan, job>>

\* Fault: the owner and expiry columns are left as they were.
UnleaseForgotten(batch, st) ==
    /\ status' = [t \in Task |-> IF t \in batch THEN st ELSE status[t]]
    /\ UNCHANGED <<holder, lease>>

\* The rows' columns after a lease is given back or taken away.
Unlease(batch, st) ==
    /\ status' = [t \in Task |-> IF t \in batch THEN st ELSE status[t]]
    /\ holder' = [t \in Task |-> IF t \in batch THEN NoOwner ELSE holder[t]]
    /\ lease' = [t \in Task |-> IF t \in batch THEN "none" ELSE lease[t]]

\* succeed, fail (both _finalize) and retry, as the verdict says.
Settle(s) ==
    /\ Working(s)
    /\ verdict[s] # "none"
    /\ Owned(s, job[s])
    /\ Unlease({job[s]}, verdict[s])
    /\ due' = [due EXCEPT ![job[s]] = @ /\ verdict[s] # "retry_wait"]
    /\ Drop(s)
    /\ UNCHANGED <<attempts, scan>>

\* fail outside any evidence transaction: the run's deadline passed, or the
\* executor raised (perhaps after its evidence committed) into its handler.
FailOutright(s) ==
    /\ Working(s)
    /\ Owned(s, job[s])
    /\ Unlease({job[s]}, "failed")
    /\ Drop(s)
    /\ UNCHANGED <<due, attempts, scan>>

\* defer and park_capacity_wait: back to the queue, no attempt spent.
PutBack(s) ==
    /\ Working(s)
    /\ verdict[s] = "none"
    /\ Owned(s, job[s])
    /\ \E st \in {"queued", "capacity_wait"} : Unlease({job[s]}, st)
    /\ due' = [due EXCEPT ![job[s]] = FALSE]
    /\ Drop(s)
    /\ UNCHANGED <<attempts, scan>>

\* The executor stops working on the row without writing it: a call found the
\* lease lost and returned False, or its transactions failed.
Abandon(s) ==
    /\ Working(s)
    /\ Drop(s)
    /\ UNCHANGED <<rowVars, scan>>

(***************************************************************************)
(* Others who write rows.                                                   *)
(***************************************************************************)

\* cancel, or a caller's bulk UPDATE of a run's open rows: no owner check, and
\* rows already terminal are left alone.
Cancel(batch) ==
    /\ batch # {}
    /\ \A t \in batch : status[t] \notin Terminal
    /\ Unlease(batch, "cancelled")
    /\ UNCHANGED <<due, attempts, slotVars>>

\* Fault: reclaiming a lease is not a consumed attempt.
UnchargedReclaim(t) == attempts[t]

\* A reclaim IS a consumed attempt.
Charged(t) == attempts[t] + 1

\* Fault: the budget is compared with ">".
ReclaimedOneTooMany(t) ==
    IF Charged(t) > MaxAttempts THEN "failed" ELSE "retry_wait"

\* Fault: a status outside the vocabulary.
ReclaimedAsExpired(t) == "expired"

\* Where a reclaimed row goes.
Reclaimed(t) == IF Charged(t) >= MaxAttempts THEN "failed" ELSE "retry_wait"

\* release_expired_detailed over a batch of expired rows.
Sweep(batch) ==
    /\ batch # {}
    /\ \A t \in batch : Reclaimable(t)
    /\ status' = [t \in Task |-> IF t \in batch THEN Reclaimed(t) ELSE status[t]]
    /\ holder' = [t \in Task |-> IF t \in batch THEN NoOwner ELSE holder[t]]
    /\ lease' = [t \in Task |-> IF t \in batch THEN "none" ELSE lease[t]]
    /\ attempts' = [t \in Task |->
                        IF t \in batch THEN Charged(t) ELSE attempts[t]]
    /\ due' = [t \in Task |->
                   due[t] \/ (t \in batch /\ Reclaimed(t) = "retry_wait")]
    /\ UNCHANGED slotVars

(***************************************************************************)
(* Time and failure.                                                        *)
(***************************************************************************)

LeaseExpires(t) ==
    /\ lease[t] = "live"
    /\ lease' = [lease EXCEPT ![t] = "expired"]
    /\ UNCHANGED <<status, holder, due, attempts, slotVars>>

BecomeDue(t) ==
    /\ status[t] \in Claimable
    /\ ~due[t]
    /\ due' = [due EXCEPT ![t] = TRUE]
    /\ UNCHANGED <<status, holder, lease, attempts, slotVars>>

\* A process dies; its successor has a fresh identifier, so every row it
\* leased names an owner that no call will ever present again.
Crash(p) ==
    /\ holder' = [t \in Task |->
                      IF holder[t] \in Slot /\ Home[holder[t]] = p
                      THEN Gone ELSE holder[t]]
    /\ scan' = [s \in Slot |-> IF Home[s] = p THEN {} ELSE scan[s]]
    /\ job' = [s \in Slot |-> IF Home[s] = p THEN NoTask ELSE job[s]]
    /\ verdict' = [s \in Slot |-> IF Home[s] = p THEN "none" ELSE verdict[s]]
    /\ UNCHANGED <<status, lease, due, attempts>>

Progress(s) ==
    \/ MarkRunning(s)
    \/ \E v \in Verdict : RecordAttempt(s, v)
    \/ Settle(s)
    \/ FailOutright(s)
    \/ PutBack(s)
    \/ Abandon(s)

Next ==
    \/ \E s \in Slot : BeginClaim(s)
    \/ \E s \in Slot, t \in Task : Claim(s, t)
    \/ \E s \in Slot : ClaimNothing(s)
    \/ \E s \in Slot : Heartbeat(s)
    \/ \E s \in Slot : MarkRunning(s)
    \/ \E s \in Slot, v \in Verdict : RecordAttempt(s, v)
    \/ \E s \in Slot : Settle(s)
    \/ \E s \in Slot : FailOutright(s)
    \/ \E s \in Slot : PutBack(s)
    \/ \E s \in Slot : Abandon(s)
    \/ \E batch \in SUBSET Task : Cancel(batch)
    \/ \E batch \in SUBSET Task : Sweep(batch)
    \/ \E t \in Task : LeaseExpires(t)
    \/ \E t \in Task : BecomeDue(t)
    \/ \E p \in Proc : Crash(p)

Spec == Init /\ [][Next]_vars

(***************************************************************************)
(* Workers poll for ever, executors are bounded by timeouts, the sweeper    *)
(* runs on a timer, and time passes.  A claim is skipped only while another *)
(* transaction holds the row, which is why it is strongly fair.  Nothing is *)
(* assumed of heartbeats, cancellations and crashes.                        *)
(***************************************************************************)
Fairness ==
    /\ \A s \in Slot : WF_vars(BeginClaim(s)) /\ WF_vars(Progress(s))
    /\ \A t \in Task : SF_vars(\E s \in Slot : Claim(s, t))
    /\ \A t \in Task :
           /\ WF_vars(\E batch \in SUBSET Task : t \in batch /\ Sweep(batch))
           /\ WF_vars(LeaseExpires(t))
           /\ WF_vars(BecomeDue(t))

FairSpec == Spec /\ Fairness

----------------------------------------------------------------------------
(***************************************************************************)
(* Properties.                                                              *)
(***************************************************************************)

\* A row names an owner and an expiry exactly while it is leased or running.
\* Were a requeued row to keep its owner, a late executor's owner check would
\* pass on a row it no longer has.
LeaseMatchesStatus ==
    \A t \in Task :
        /\ holder[t] = NoOwner <=> status[t] \notin Leased
        /\ lease[t] = "none" <=> status[t] \notin Leased

\* Every row a worker may still claim has attempts left: neither retries nor
\* reclaimed leases put back a row whose budget is spent.
BudgetLeft ==
    \A t \in Task : status[t] \notin Terminal /\ holder[t] = NoOwner
                        => attempts[t] < MaxAttempts

\* Whoever holds a row keeps it until it is given back, cancelled or swept:
\* two overlapping claims never hand one row to two executors.
NoStealing ==
    [][\A t \in Task :
          status[t] \in Leased /\ holder[t] \in Slot
              => holder'[t] \in {holder[t], NoOwner, Gone}]_vars

\* While its lease is live a row stays leased to the executor whose claim took
\* it, until it is cancelled, that executor's process dies, or an executor of
\* that process which works on the row lets it go: no sweep, no second claim and
\* no executor of another process takes it.  The code compares processes, so an
\* executor may lose a row to a late sibling of its own process.
LiveLeaseHonoured ==
    [][\A t \in Task : lease[t] = "live" =>
          \/ status'[t] \in Leased /\ holder'[t] = holder[t]
          \/ status'[t] = "cancelled"
          \/ status'[t] = status[t] /\ holder[t] \in Slot /\ holder'[t] = Gone
          \/ /\ holder[t] \in Slot /\ holder'[t] = NoOwner
             /\ \E s \in Slot : /\ Home[s] = Home[holder[t]]
                                /\ job[s] = t /\ job'[s] = NoTask]_vars

\* A terminal row never changes again, although _finalize, retry, defer and
\* park_capacity_wait do not look at the status they overwrite.
TerminalSticky ==
    [][\A t \in Task : status[t] \in Terminal => status'[t] = status[t]]_vars

\* No crash loop: a row that is not put back for free for ever reaches a
\* terminal status, however often its executors die.
EveryTaskSettles ==
    \/ []<><<\E s \in Slot : PutBack(s)>>_vars
    \/ \A t \in Task : <>(status[t] \in Terminal)

----------------------------------------------------------------------------
(***************************************************************************)
(* The queue implements LeaseBook, the tenants being worker processes.      *)
(***************************************************************************)
PhaseOf(st) == IF st \in Claimable THEN "open"
               ELSE IF st \in Leased THEN "held" ELSE "closed"

TenantOf(h) == IF h \in Slot THEN Home[h] ELSE h

Book == INSTANCE LeaseBook WITH
    Job <- Task,
    Tenant <- Proc,
    Nobody <- NoOwner,
    Absent <- Gone,
    phase <- [t \in Task |-> PhaseOf(status[t])],
    tenant <- [t \in Task |-> TenantOf(holder[t])],
    lapsed <- [t \in Task |-> lease[t] = "expired"]

\* Every step of the queue is a step of the lease book or leaves it as it is:
\* one tenant per row, no hand-over without giving back or lapsing, no reopening.
ImplementsLeaseBook == Book!Spec
=============================================================================
