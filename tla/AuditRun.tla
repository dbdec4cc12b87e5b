------------------------------ MODULE AuditRun ------------------------------
(***************************************************************************)
(* One audit run: its task rows in the audit queue, the worker slots that   *)
(* execute them, the run's status, the provider calls and the evidence they *)
(* leave, and the credits reserved for funded tasks                         *)
(* (workers/audit_worker.py, workers/audit/*, domain/audits/cancellation.py,*)
(* domain/entitlements/ledger.py).                                          *)
(*                                                                          *)
(* Every step is a step of TaskQueue with what the audit worker adds to it, *)
(* or leaves the queue as it is.  A step is one database transaction, or    *)
(* one statement of it where another transaction can commit in between.     *)
(***************************************************************************)
EXTENDS TaskQueue

CONSTANTS
    Funded,      \* tasks paid from reserved credits; the others are BYOK
    Environment  \* what may happen to a run besides its normal course

ASSUME AuditAssumption ==
    /\ IsFiniteSet(Task) /\ IsFiniteSet(Slot)
    /\ Funded \subseteq Task
    /\ Environment \subseteq
           {"stall", "exception", "crash", "backstop", "janitor", "deadline", "cancel"}

VARIABLES
    audit,     \* status of the run
    overdue,   \* started_at + max_run_seconds has passed
    auditLock, \* the slot whose open transaction holds the audit row FOR UPDATE
    phase,     \* where a slot is in _execute_task
    counted,   \* the succeeded count a finalizing slot has read
    published, \* the audit's completed_count and failed_count
    calls,     \* provider calls made for a task
    artifacts, \* RawResponseArtifact rows of a task
    debits,    \* attempt numbers debited for a task
    released,  \* units of a task's reservation released
    janitor    \* a best-effort release another transaction still owes a task

auditVars == <<audit, overdue, auditLock, phase, counted, published,
               calls, artifacts, debits, released, janitor>>
allVars == <<vars, auditVars>>
ledgerVars == <<debits, released, janitor>>
evidenceVars == <<calls, artifacts>>
runVars == <<audit, overdue, auditLock, counted, published>>

AuditTerminal == {"completed", "partially_completed", "failed", "cancelled"}
AuditStatus == {"queued", "running", "analyzing"} \cup AuditTerminal
Phase == {"idle", "boundary", "stopped", "ready", "calling", "recorded",
          "crashed", "finalizing", "counting", "aggregating"}
NoRelease == [stage |-> "none", by |-> NoOwner, units |-> 0]

AuditTypeOK ==
    /\ audit \in AuditStatus
    /\ overdue \in BOOLEAN
    /\ auditLock \in Slot \cup {NoOwner}
    /\ phase \in [Slot -> Phase]
    /\ counted \in [Slot -> 0..Cardinality(Task)]
    /\ published \in [done : 0..Cardinality(Task), failed : Int]
    /\ calls \in [Task -> Nat]
    /\ artifacts \in [Task -> Nat]
    /\ debits \in [Task -> SUBSET Nat]
    /\ released \in [Task -> Nat]
    /\ janitor \in [Task -> [stage : {"none", "due", "read"},
                             by : Proc \cup {NoOwner}, units : Int]]

AuditInit ==
    /\ Init
    /\ audit = "queued"
    /\ overdue = FALSE
    /\ auditLock = NoOwner
    /\ phase = [s \in Slot |-> "idle"]
    /\ counted = [s \in Slot |-> 0]
    /\ published = [done |-> 0, failed |-> 0]
    /\ calls = [t \in Task |-> 0]
    /\ artifacts = [t \in Task |-> 0]
    /\ debits = [t \in Task |-> {}]
    /\ released = [t \in Task |-> 0]
    /\ janitor = [t \in Task |-> NoRelease]

GoTo(s, ph) == phase' = [phase EXCEPT ![s] = ph]

(***************************************************************************)
(* The funded ledger of one task: max_attempts units are reserved when the  *)
(* run is created; a bill releases one unit and debits it.                  *)
(***************************************************************************)

\* _reservation_state: reserved minus released.
Outstanding(t) == MaxAttempts - released[t]

\* release_unused_reservation inside the caller's transaction.
ReleaseUnused(batch) ==
    released' = [t \in Task |-> IF t \in batch \cap Funded /\ Outstanding(t) > 0
                                THEN MaxAttempts ELSE released[t]]

\* record_billable_attempt refuses when nothing is outstanding.
CanBill(t) == t \in Funded => Outstanding(t) >= 1

\* Fault: a failure that will be retried gives the remainder back too.
BillReleasesOnRetry(t, terminal) ==
    /\ CanBill(t)
    /\ debits' = [debits EXCEPT ![t] =
                      IF t \in Funded THEN @ \cup {attempts[t] + 1} ELSE @]
    /\ released' = [released EXCEPT ![t] =
                        IF t \in Funded THEN MaxAttempts ELSE @]

\* Fault: every attempt so far is billed, called or not.
BillsAllAttempts(t, terminal) ==
    /\ CanBill(t)
    /\ debits' = [debits EXCEPT ![t] =
                      IF t \in Funded THEN 1..(attempts[t] + 1) ELSE @]
    /\ released' = [released EXCEPT ![t] =
                        IF t \notin Funded THEN @
                        ELSE IF terminal THEN MaxAttempts ELSE @ + 1]

\* record_billable_attempt for the attempt being recorded and, when the task
\* ends, release_terminal_funded_task in the same transaction.
Bill(t, terminal) ==
    /\ CanBill(t)
    /\ debits' = [debits EXCEPT ![t] =
                      IF t \in Funded THEN @ \cup {attempts[t] + 1} ELSE @]
    /\ released' = [released EXCEPT ![t] =
                        IF t \notin Funded THEN @
                        ELSE IF terminal THEN MaxAttempts ELSE @ + 1]

(***************************************************************************)
(* A slot: claim, boundary, capacity and call, evidence, queue, finalizer.  *)
(***************************************************************************)

SlotBeginClaim(s) ==
    /\ phase[s] = "idle"
    /\ BeginClaim(s)
    /\ UNCHANGED auditVars

SlotClaim(s, t) ==
    /\ Claim(s, t)
    /\ GoTo(s, "boundary")
    /\ UNCHANGED <<runVars, evidenceVars, ledgerVars>>

SlotClaimNothing(s) ==
    /\ ClaimNothing(s)
    /\ UNCHANGED auditVars

\* _execute_task under the audit row lock: a cancelled or overdue run releases
\* the task's credits and stops; otherwise the first task starts the run.
\* Nothing here looks at who owns the row by now.
Boundary(s) ==
    /\ phase[s] = "boundary"
    /\ auditLock = NoOwner
    /\ IF audit = "cancelled" \/ overdue
       THEN /\ ReleaseUnused({job[s]})
            /\ GoTo(s, "stopped")
            /\ UNCHANGED audit
       ELSE /\ audit' = IF audit = "queued" THEN "running" ELSE audit
            /\ GoTo(s, "ready")
            /\ UNCHANGED released
    /\ UNCHANGED <<vars, overdue, auditLock, counted, published,
                   evidenceVars, debits, janitor>>

\* queue.fail after an overdue boundary.  After a cancelled one queue.cancel
\* finds a row the cancellation already ended, and the slot only leaves it.
StopOverdue(s) ==
    /\ phase[s] = "stopped"
    /\ FailOutright(s)
    /\ GoTo(s, "finalizing")
    /\ UNCHANGED <<runVars, evidenceVars, ledgerVars>>

\* _lock_owned_running_task: the row is ours and the run is neither cancelled
\* nor over.
StillOurs(s) == Owned(s, job[s]) /\ audit \notin AuditTerminal

\* _fail_terminal: rejected before any call; nothing to bill.
Reject(s) ==
    /\ phase[s] = "ready"
    /\ StillOurs(s)
    /\ RecordAttempt(s, "failed")
    /\ ReleaseUnused({job[s]})
    /\ GoTo(s, "recorded")
    /\ UNCHANGED <<runVars, evidenceVars, debits, janitor>>

\* A refused capacity request parks the row.
Park(s) ==
    /\ phase[s] = "ready"
    /\ StillOurs(s)
    /\ PutBack(s)
    /\ status'[job[s]] = "capacity_wait"
    /\ GoTo(s, "finalizing")
    /\ UNCHANGED <<runVars, evidenceVars, ledgerVars>>

\* Capacity is held and the row marked running: the provider is called.
StartCall(s) ==
    /\ phase[s] = "ready"
    /\ MarkRunning(s)
    /\ calls' = [calls EXCEPT ![job[s]] = @ + 1]
    /\ GoTo(s, "calling")
    /\ UNCHANGED <<runVars, artifacts, ledgerVars>>

SlotHeartbeat(s) ==
    /\ phase[s] = "calling"
    /\ Heartbeat(s)
    /\ UNCHANGED auditVars

\* _persist_success: artifact, analysis, attempt, bill and release together.
PersistSuccess(s) ==
    /\ phase[s] = "calling"
    /\ StillOurs(s)
    /\ status[job[s]] = "running"
    /\ RecordAttempt(s, "succeeded")
    /\ Bill(job[s], TRUE)
    /\ artifacts' = [artifacts EXCEPT ![job[s]] = @ + 1]
    /\ GoTo(s, "recorded")
    /\ UNCHANGED <<runVars, calls, janitor>>

\* _handle_failure: attempt and bill; the remainder only if no retry follows.
PersistFailure(s, v) ==
    /\ phase[s] = "calling"
    /\ v \in {"retry_wait", "failed"}
    /\ StillOurs(s)
    /\ status[job[s]] = "running"
    /\ RecordAttempt(s, v)
    /\ Bill(job[s], v = "failed")
    /\ GoTo(s, "recorded")
    /\ UNCHANGED <<runVars, evidenceVars, janitor>>

\* The evidence transaction of a task with nothing left to bill raises
\* LedgerError and rolls back; the executor goes to its crash handler.
BillRefused(s) ==
    /\ phase[s] = "calling"
    /\ StillOurs(s)
    /\ ~CanBill(job[s])
    /\ GoTo(s, "crashed")
    /\ UNCHANGED <<vars, runVars, evidenceVars, ledgerVars>>

\* queue.succeed, fail or retry, in a transaction after the evidence's.
SettleTask(s) ==
    /\ phase[s] = "recorded"
    /\ Settle(s)
    /\ GoTo(s, "finalizing")
    /\ UNCHANGED <<runVars, evidenceVars, ledgerVars>>

\* A statement of the executor raises: a lost connection, a lock timeout.
Raise(s) ==
    /\ "exception" \in Environment
    /\ phase[s] \in {"boundary", "stopped", "ready", "calling", "recorded"}
    /\ GoTo(s, "crashed")
    /\ UNCHANGED <<vars, runVars, evidenceVars, ledgerVars>>

OweRelease(p, batch) ==
    janitor' = [t \in Task |-> IF t \in batch \cap Funded
                               THEN [stage |-> "due", by |-> p, units |-> 0]
                               ELSE janitor[t]]

\* _record_crash: fail the row if it is still owned, and only then release.
RecordCrash(s) ==
    /\ phase[s] = "crashed"
    /\ FailOutright(s)
    /\ OweRelease(Home[s], {job[s]})
    /\ GoTo(s, "finalizing")
    /\ UNCHANGED <<runVars, evidenceVars, debits, released>>

\* The row is not in the status the next call of the slot expects.
NotAsLeft(s) ==
    \/ phase[s] = "ready" /\ status[job[s]] # "leased"
    \/ phase[s] = "calling" /\ status[job[s]] # "running"

\* Every other way out of a row: a call found the lease lost, or the run over,
\* or the crash handler itself raised.
LeaveTask(s) ==
    /\ phase[s] \in {"stopped", "ready", "calling", "recorded", "crashed"}
    /\ \/ ~StillOurs(s)
       \/ NotAsLeft(s)
       \/ phase[s] = "crashed" /\ "exception" \in Environment
    /\ Abandon(s)
    /\ GoTo(s, "finalizing")
    /\ UNCHANGED <<runVars, evidenceVars, ledgerVars>>

(***************************************************************************)
(* The finalizer: counts by separate statements under the audit row lock.   *)
(***************************************************************************)

Count(set) == Cardinality({t \in Task : status[t] \in set})

CountSucceeded(s) ==
    /\ phase[s] = "finalizing"
    /\ auditLock = NoOwner
    /\ IF audit \in AuditTerminal
       THEN GoTo(s, "idle") /\ UNCHANGED <<auditLock, counted>>
       ELSE /\ auditLock' = s
            /\ counted' = [counted EXCEPT ![s] = Count({"succeeded"})]
            /\ GoTo(s, "counting")
    /\ UNCHANGED <<vars, audit, overdue, published, evidenceVars, ledgerVars>>

\* Fault: rows in an executor's hands are not counted as remaining.
RemainingUnclaimed == Count(Claimable)

\* Fault: only succeeded rows count as finished.
RemainingUnsucceeded == Cardinality(Task) - Count({"succeeded"})

\* Rows not terminal, by the statement that runs second.
Remaining == Cardinality(Task) - Count(Terminal)

\* The second count, the published progress and the transition it implies.
Conclude(s) ==
    /\ phase[s] = "counting"
    /\ auditLock' = NoOwner
    /\ published' = [done |-> counted[s],
                     failed |-> Count(Terminal) - counted[s]]
    /\ counted' = [counted EXCEPT ![s] = 0]
    /\ IF Remaining > 0 \/ audit # "running"
       THEN GoTo(s, "idle") /\ UNCHANGED audit
       ELSE IF counted[s] = 0
            THEN audit' = "failed" /\ GoTo(s, "idle")
            ELSE audit' = "analyzing" /\ GoTo(s, "aggregating")
    /\ UNCHANGED <<vars, overdue, evidenceVars, ledgerVars>>

\* Fault: every row that ended counts as done.
EndStatusOfRows(done) ==
    IF Count(Terminal) < Cardinality(Task) THEN "partially_completed" ELSE "completed"

\* _finish_audit: REPORTING, then the terminal status the counts call for.
EndStatus(done) ==
    IF done < Cardinality(Task) THEN "partially_completed" ELSE "completed"

\* _finalize_analysis: aggregate the persisted analyses and end the run.
Aggregate(s) ==
    /\ phase[s] = "aggregating"
    /\ auditLock = NoOwner
    /\ LET done == Cardinality({t \in Task : artifacts[t] > 0})
       IN IF audit # "analyzing" THEN UNCHANGED <<audit, published>>
          ELSE /\ audit' = EndStatus(done)
               /\ published' = [done |-> done,
                                failed |-> Cardinality(Task) - done]
    /\ GoTo(s, "idle")
    /\ UNCHANGED <<vars, overdue, auditLock, counted, evidenceVars, ledgerVars>>

\* The finalizer raises; it is logged and the slot goes on.
FinalizerRaises(s) ==
    /\ "exception" \in Environment
    /\ phase[s] \in {"finalizing", "counting", "aggregating"}
    /\ auditLock' = IF auditLock = s THEN NoOwner ELSE auditLock
    /\ counted' = [counted EXCEPT ![s] = 0]
    /\ GoTo(s, "idle")
    /\ UNCHANGED <<vars, audit, overdue, published, evidenceVars, ledgerVars>>

(***************************************************************************)
(* Sweepers and the releases they owe, cancellation, time, crashes.         *)
(***************************************************************************)

\* Fault: the sweep reports no failed rows.
ReportsNone(batch) == {}

\* failed_task_ids of a sweep.
FailedBy(batch) == {t \in batch : Reclaimed(t) = "failed"}

\* AuditWorker._sweep_queue: reclaim, then release what the sweep failed.
WorkerSweep(p, batch) ==
    /\ Sweep(batch)
    /\ OweRelease(p, FailedBy(batch))
    /\ UNCHANGED <<runVars, phase, evidenceVars, debits, released>>

\* QueueSweeper._sweep: the audit queue has no parent to reconcile, and the
\* sweeper knows nothing of credits.
BackstopSweep(batch) ==
    /\ "backstop" \in Environment
    /\ Sweep(batch)
    /\ UNCHANGED auditVars

\* _release_terminalized_funded_task: no row lock between reading what is
\* outstanding and writing the release.
JanitorRead(t) ==
    /\ janitor[t].stage = "due"
    /\ janitor' = [janitor EXCEPT ![t].stage = "read", ![t].units = Outstanding(t)]
    /\ UNCHANGED <<vars, runVars, phase, evidenceVars, debits, released>>

JanitorWrite(t) ==
    /\ janitor[t].stage = "read"
    /\ released' = [released EXCEPT ![t] =
                        IF janitor[t].units > 0 THEN @ + janitor[t].units ELSE @]
    /\ janitor' = [janitor EXCEPT ![t] = NoRelease]
    /\ UNCHANGED <<vars, runVars, phase, evidenceVars, debits>>

\* The release raises: it is logged, and nobody releases the row any more.
JanitorFails(t) ==
    /\ "janitor" \in Environment
    /\ janitor[t].stage # "none"
    /\ janitor' = [janitor EXCEPT ![t] = NoRelease]
    /\ UNCHANGED <<vars, runVars, phase, evidenceVars, debits, released>>

Open == {t \in Task : status[t] \notin Terminal}

\* cancel_audit: end the run, end its open rows and release their credits.
CancelAudit ==
    /\ "cancel" \in Environment
    /\ auditLock = NoOwner
    /\ audit \notin AuditTerminal
    /\ audit' = "cancelled"
    /\ IF Open = {} THEN UNCHANGED vars ELSE Cancel(Open)
    /\ ReleaseUnused(Open)
    /\ UNCHANGED <<overdue, auditLock, counted, published, phase,
                   evidenceVars, debits, janitor>>

DeadlinePasses ==
    /\ "deadline" \in Environment
    /\ audit # "queued"
    /\ ~overdue
    /\ overdue' = TRUE
    /\ UNCHANGED <<vars, audit, auditLock, counted, published, phase,
                   evidenceVars, ledgerVars>>

\* A lease runs out under a slot that is stalled, or after its slot is gone.
AuditLeaseExpires(t) ==
    /\ "stall" \in Environment \/ (\A s \in Slot : job[s] # t \/ holder[t] # s)
    /\ LeaseExpires(t)
    /\ UNCHANGED auditVars

AuditBecomeDue(t) ==
    /\ BecomeDue(t)
    /\ UNCHANGED auditVars

\* A worker process dies with its slots, its locks and the releases it owes.
WorkerCrash(p) ==
    /\ "crash" \in Environment
    /\ Crash(p)
    /\ phase' = [s \in Slot |-> IF Home[s] = p THEN "idle" ELSE phase[s]]
    /\ counted' = [s \in Slot |-> IF Home[s] = p THEN 0 ELSE counted[s]]
    /\ auditLock' = IF auditLock \in Slot /\ Home[auditLock] = p
                    THEN NoOwner ELSE auditLock
    /\ janitor' = [t \in Task |->
                       IF janitor[t].by = p THEN NoRelease ELSE janitor[t]]
    /\ UNCHANGED <<audit, overdue, published, evidenceVars, debits, released>>

SlotNext(s) ==
    \/ SlotBeginClaim(s) \/ SlotClaimNothing(s)
    \/ \E t \in Task : SlotClaim(s, t)
    \/ Boundary(s) \/ StopOverdue(s)
    \/ Reject(s) \/ Park(s) \/ StartCall(s) \/ SlotHeartbeat(s)
    \/ PersistSuccess(s)
    \/ \E v \in Verdict : PersistFailure(s, v)
    \/ BillRefused(s) \/ SettleTask(s)
    \/ Raise(s) \/ RecordCrash(s) \/ LeaveTask(s)
    \/ CountSucceeded(s) \/ Conclude(s) \/ Aggregate(s) \/ FinalizerRaises(s)

AuditNext ==
    \/ \E s \in Slot : SlotNext(s)
    \/ \E p \in Proc, batch \in SUBSET Task : WorkerSweep(p, batch)
    \/ \E batch \in SUBSET Task : BackstopSweep(batch)
    \/ \E t \in Task : JanitorRead(t) \/ JanitorWrite(t) \/ JanitorFails(t)
    \/ \E t \in Task : AuditLeaseExpires(t) \/ AuditBecomeDue(t)
    \/ CancelAudit
    \/ DeadlinePasses
    \/ \E p \in Proc : WorkerCrash(p)

AuditSpec == AuditInit /\ [][AuditNext]_allVars

(***************************************************************************)
(* Slots, sweepers and best-effort releases make progress, leases run out   *)
(* and waits end.  Nothing is assumed of heartbeats, exceptions, crashes,   *)
(* the backstop sweeper, cancellation and the deadline.                     *)
(***************************************************************************)
SlotWork(s) ==
    \/ Boundary(s) \/ StopOverdue(s)
    \/ Reject(s) \/ Park(s) \/ StartCall(s)
    \/ PersistSuccess(s)
    \/ \E v \in Verdict : PersistFailure(s, v)
    \/ BillRefused(s) \/ SettleTask(s) \/ RecordCrash(s) \/ LeaveTask(s)
    \/ CountSucceeded(s) \/ Conclude(s) \/ Aggregate(s)

AuditFairness ==
    /\ \A s \in Slot : WF_allVars(SlotBeginClaim(s)) /\ SF_allVars(SlotWork(s))
    /\ \A t \in Task :
           /\ SF_allVars(\E s \in Slot : SlotClaim(s, t))
           /\ WF_allVars(\E p \in Proc, batch \in SUBSET Task :
                              t \in batch /\ WorkerSweep(p, batch))
           /\ WF_allVars(JanitorRead(t) \/ JanitorWrite(t))
           /\ WF_allVars(AuditLeaseExpires(t))
           /\ WF_allVars(AuditBecomeDue(t))

FairAuditSpec == AuditSpec /\ AuditFairness

----------------------------------------------------------------------------
(***************************************************************************)
(* Properties.                                                              *)
(***************************************************************************)

\* A run never ends while one of its rows could still be claimed or executed.
OverMeansAllOver ==
    audit \in AuditTerminal => \A t \in Task : status[t] \in Terminal

\* Once a run is over, late executors leave no evidence, no attempt and no
\* bill behind: the owner and liveness check discards their answers.
NothingAfterTheEnd ==
    [][(audit \in AuditTerminal)
           => UNCHANGED <<audit, artifacts, debits, attempts, status>>]_allVars

\* No task is called more often than max_attempts, whatever crashes, stalls and
\* sweeps happen between a call and the attempt it is charged as.
CallsWithinBudget == \A t \in Task : calls[t] <= MaxAttempts

\* A task is billed only for calls that were made.
BilledOnlyForCalls ==
    \A t \in Task : Cardinality(debits[t]) <= calls[t]

\* A terminal funded task owes nothing, or its release is on its way: what no
\* call consumed is released, whoever ended the row and whatever he had read.
NoLeak ==
    \A t \in Funded :
        status[t] \in Terminal /\ janitor[t].stage = "none" => Outstanding(t) <= 0

\* No more than the reserved units are released ("exactly one release settles
\* per reservation", cancel_audit).
ReleasedOnce == \A t \in Funded : released[t] <= MaxAttempts

\* A run fails only when no task succeeded (_finalize_audit).
FailedMeansNoSuccess ==
    audit = "failed" => \A t \in Task : status[t] # "succeeded"

\* Every call still wanted when it is answered can be billed ("one per ACTUAL
\* provider call", _apply_funded_ledger): a reservation is not gone before it.
NeverUnbilled ==
    \A s \in Slot : phase[s] = "calling" /\ StillOurs(s) => CanBill(job[s])

\* What a run reports is backed by what is stored, although the evidence, the
\* row and the run are written in three transactions: a succeeded row has its
\* artifact and its bill (_persist_success before queue.succeed), a run ends
\* better than failed only with a success in it, and completed only with an
\* artifact of every row (_finalize_audit, _finalize_analysis).
Answered(t) == artifacts[t] > 0 /\ (t \in Funded => debits[t] # {})
SomeSuccess == \E t \in Task : status[t] = "succeeded"
ReportsAreBacked ==
    /\ \A t \in Task : status[t] = "succeeded" => Answered(t)
    /\ audit \in {"partially_completed", "completed"} => SomeSuccess
    /\ audit = "completed" => \A t \in Task : artifacts[t] > 0

\* Unless its tasks wait for capacity for ever, a run comes to an end.
AuditEnds ==
    \/ []<><<\E s \in Slot : Park(s)>>_allVars
    \/ <>(audit \in AuditTerminal)
=============================================================================
