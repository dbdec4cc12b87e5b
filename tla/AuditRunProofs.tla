--------------------------- MODULE AuditRunProofs ---------------------------
(***************************************************************************)
(* Proofs about AuditRun, for any finite set of task rows and any slots,    *)
(* processes, attempts and environment.                                     *)
(***************************************************************************)
EXTENDS AuditRun, TaskQueueProofs, FiniteSetTheorems

\* What a slot does to the queue is one of the queue's own transactions.
LEMMA SlotStepIsQueueStep ==
    ASSUME NEW s \in Slot, SlotNext(s) PROVE [Next]_vars
<1>1. CASE SlotBeginClaim(s) \/ SlotClaimNothing(s) \/ SlotHeartbeat(s)
  BY <1>1 DEF SlotBeginClaim, SlotClaimNothing, SlotHeartbeat, Next
<1>2. CASE \E t \in Task : SlotClaim(s, t)
  BY <1>2 DEF SlotClaim, Next
<1>3. CASE Reject(s) \/ PersistSuccess(s) \/ (\E v \in Verdict : PersistFailure(s, v))
  <2>1. \E v \in Verdict : RecordAttempt(s, v)
    BY <1>3 DEF Reject, PersistSuccess, PersistFailure, Verdict
  <2> QED BY <2>1 DEF Next
<1>4. CASE StopOverdue(s) \/ RecordCrash(s)
  BY <1>4 DEF StopOverdue, RecordCrash, Next
<1>5. CASE Park(s)
  BY <1>5 DEF Park, Next
<1>6. CASE StartCall(s)
  BY <1>6 DEF StartCall, Next
<1>7. CASE SettleTask(s)
  BY <1>7 DEF SettleTask, Next
<1>8. CASE LeaveTask(s)
  BY <1>8 DEF LeaveTask, Next
<1>9. CASE \/ Boundary(s) \/ BillRefused(s) \/ Raise(s)
           \/ CountSucceeded(s) \/ Conclude(s) \/ Aggregate(s) \/ FinalizerRaises(s)
  BY <1>9 DEF Boundary, BillRefused, Raise, CountSucceeded, Conclude, Aggregate,
              FinalizerRaises
<1> QED
  BY <1>1, <1>2, <1>3, <1>4, <1>5, <1>6, <1>7, <1>8, <1>9 DEF SlotNext

\* Every step of a run is a step of the queue or leaves the queue as it is.
LEMMA RunStepIsQueueStep == [AuditNext]_allVars => [Next]_vars
<1> SUFFICES ASSUME [AuditNext]_allVars PROVE [Next]_vars
  OBVIOUS
<1>1. CASE \E s \in Slot : SlotNext(s)
  BY <1>1, SlotStepIsQueueStep
<1>2. CASE \/ \E p \in Proc, batch \in SUBSET Task : WorkerSweep(p, batch)
           \/ \E batch \in SUBSET Task : BackstopSweep(batch)
  <2>1. \E batch \in SUBSET Task : Sweep(batch)
    BY <1>2 DEF WorkerSweep, BackstopSweep
  <2> QED BY <2>1 DEF Next
<1>3. CASE \E t \in Task : JanitorRead(t) \/ JanitorWrite(t) \/ JanitorFails(t)
  BY <1>3 DEF JanitorRead, JanitorWrite, JanitorFails
<1>4. CASE \E t \in Task : AuditLeaseExpires(t) \/ AuditBecomeDue(t)
  BY <1>4 DEF AuditLeaseExpires, AuditBecomeDue, Next
<1>5. CASE CancelAudit
  <2>1. Open \in SUBSET Task
    BY DEF Open
  <2> QED BY <1>5, <2>1 DEF CancelAudit, Next
<1>6. CASE DeadlinePasses
  BY <1>6 DEF DeadlinePasses
<1>7. CASE \E p \in Proc : WorkerCrash(p)
  BY <1>7 DEF WorkerCrash, Next
<1>8. CASE UNCHANGED allVars
  BY <1>8 DEF allVars
<1> QED
  BY <1>1, <1>2, <1>3, <1>4, <1>5, <1>6, <1>7, <1>8 DEF AuditNext

\* A run drives its rows only through the queue, so what holds of the queue
\* holds of the rows of every run.
THEOREM RunImplementsQueue == AuditSpec => Spec
<1>1. AuditInit => Init
  BY DEF AuditInit
<1> QED BY <1>1, RunStepIsQueueStep, PTL DEF AuditSpec, Spec

----------------------------------------------------------------------------
(***************************************************************************)
(* Types.                                                                   *)
(***************************************************************************)

\* A count of rows is between none and all of them.
LEMMA CountBounds ==
    ASSUME NEW st
    PROVE  Count(st) \in 0..Cardinality(Task) /\ Cardinality(Task) \in Nat
<1> DEFINE rows == {t \in Task : status[t] \in st}
<1>1. IsFiniteSet(rows) /\ Cardinality(rows) <= Cardinality(Task)
  BY AuditAssumption, FS_Subset
<1>2. Cardinality(rows) \in Nat /\ Cardinality(Task) \in Nat
  BY <1>1, AuditAssumption, FS_CardinalityType
<1> QED BY <1>1, <1>2 DEF Count

\* A slot's own steps keep the run well typed.
LEMMA SlotTypeStep ==
    ASSUME TypeOK, AuditTypeOK, NEW s \in Slot, SlotNext(s) PROVE AuditTypeOK'
<1> USE ConstantsAssumption
    DEF AuditTypeOK, GoTo, Phase, runVars, evidenceVars, ledgerVars
<1>0. 0 \in 0..Cardinality(Task)
  BY AuditAssumption, FS_CardinalityType
<1>1. CASE SlotBeginClaim(s) \/ SlotClaimNothing(s) \/ SlotHeartbeat(s)
  BY <1>1 DEF SlotBeginClaim, SlotClaimNothing, SlotHeartbeat, auditVars
<1>2. CASE \E t \in Task : SlotClaim(s, t)
  BY <1>2 DEF SlotClaim
<1>3. CASE Boundary(s) \/ Reject(s)
  <2>1. released' \in [Task -> Nat]
    BY <1>3 DEF Boundary, Reject, ReleaseUnused
  <2>2. audit' \in AuditStatus
    BY <1>3 DEF Boundary, Reject, AuditStatus
  <2> QED BY <1>3, <2>1, <2>2 DEF Boundary, Reject
<1>4. CASE StopOverdue(s) \/ Park(s) \/ SettleTask(s) \/ LeaveTask(s)
           \/ BillRefused(s) \/ Raise(s)
  BY <1>4 DEF StopOverdue, Park, SettleTask, LeaveTask, BillRefused, Raise
<1>5. CASE StartCall(s)
  <2>1. calls' \in [Task -> Nat]
    BY <1>5 DEF StartCall, MarkRunning, Working
  <2> QED BY <1>5, <2>1 DEF StartCall
<1>6. CASE PersistSuccess(s) \/ (\E v \in Verdict : PersistFailure(s, v))
  <2>1. job[s] \in Task /\ \E b \in BOOLEAN : Bill(job[s], b)
    BY <1>6 DEF PersistSuccess, PersistFailure, RecordAttempt, Working
  <2>2. debits' \in [Task -> SUBSET Nat] /\ released' \in [Task -> Nat]
    BY <2>1 DEF Bill, TypeOK
  <2>3. artifacts' \in [Task -> Nat]
    <3>1. artifacts' = artifacts \/ artifacts' = [artifacts EXCEPT ![job[s]] = @ + 1]
      BY <1>6 DEF PersistSuccess, PersistFailure
    <3> QED BY <2>1, <3>1
  <2>4. phase' \in [Slot -> Phase]
    <3> HIDE DEF AuditTypeOK, Phase
    <3>1. phase' = [phase EXCEPT ![s] = "recorded"]
      BY <1>6 DEF PersistSuccess, PersistFailure
    <3>2. phase \in [Slot -> Phase] /\ "recorded" \in Phase
      BY DEF AuditTypeOK, Phase
    <3> QED BY <3>1, <3>2
  <2>5. UNCHANGED <<audit, overdue, auditLock, counted, published, calls, janitor>>
    BY <1>6 DEF PersistSuccess, PersistFailure
  <2> QED BY <2>2, <2>3, <2>4, <2>5
<1>7. CASE RecordCrash(s)
  <2>1. janitor' \in [Task -> [stage : {"none", "due", "read"},
                               by : Proc \cup {NoOwner}, units : Int]]
    BY <1>7 DEF RecordCrash, OweRelease
  <2> QED BY <1>7, <2>1 DEF RecordCrash
<1>8. CASE CountSucceeded(s)
  BY <1>8, CountBounds DEF CountSucceeded
<1>9. CASE Conclude(s)
  <2>1. counted' \in [Slot -> 0..Cardinality(Task)]
    BY <1>0, <1>9 DEF Conclude
  <2>2. published' \in [done : 0..Cardinality(Task), failed : Int]
    BY <1>9, CountBounds DEF Conclude
  <2>3. audit' \in AuditStatus
    BY <1>9 DEF Conclude, AuditStatus, AuditTerminal
  <2> QED BY <1>9, <2>1, <2>2, <2>3 DEF Conclude
<1>10. CASE Aggregate(s)
  <2> DEFINE answered == {t \in Task : artifacts[t] > 0}
  <2>1. Cardinality(answered) \in 0..Cardinality(Task)
    BY AuditAssumption, FS_Subset, FS_CardinalityType
  <2>2. Cardinality(Task) \in Nat
    BY AuditAssumption, FS_CardinalityType
  <2>3. EndStatus(Cardinality(answered)) \in AuditStatus
    BY DEF EndStatus, AuditStatus, AuditTerminal
  <2> HIDE DEF answered
  <2>4. \/ UNCHANGED <<audit, published>>
        \/ /\ audit' = EndStatus(Cardinality(answered))
           /\ published' = [done |-> Cardinality(answered),
                            failed |-> Cardinality(Task) - Cardinality(answered)]
    BY <1>10 DEF Aggregate, answered
  <2> QED BY <1>10, <2>1, <2>2, <2>3, <2>4 DEF Aggregate
<1>11. CASE FinalizerRaises(s)
  <2>1. counted' \in [Slot -> 0..Cardinality(Task)]
    BY <1>0, <1>11 DEF FinalizerRaises
  <2> QED BY <1>11, <2>1 DEF FinalizerRaises
<1> QED
  BY <1>1, <1>2, <1>3, <1>4, <1>5, <1>6, <1>7, <1>8, <1>9, <1>10, <1>11
     DEF SlotNext

\* Every step keeps the run well typed.
LEMMA AuditTypeStep == TypeOK /\ AuditTypeOK /\ [AuditNext]_allVars => AuditTypeOK'
<1> SUFFICES ASSUME TypeOK, AuditTypeOK, [AuditNext]_allVars PROVE AuditTypeOK'
  OBVIOUS
<1> USE ConstantsAssumption DEF AuditTypeOK, Phase, runVars, evidenceVars, ledgerVars
<1>0. 0 \in 0..Cardinality(Task)
  BY AuditAssumption, FS_CardinalityType
<1>1. CASE \E s \in Slot : SlotNext(s)
  BY <1>1, SlotTypeStep
<1>2. CASE \E p \in Proc, batch \in SUBSET Task : WorkerSweep(p, batch)
  <2>1. janitor' \in [Task -> [stage : {"none", "due", "read"},
                               by : Proc \cup {NoOwner}, units : Int]]
    BY <1>2 DEF WorkerSweep, OweRelease
  <2> QED BY <1>2, <2>1 DEF WorkerSweep
<1>3. CASE \/ \E batch \in SUBSET Task : BackstopSweep(batch)
           \/ \E t \in Task : AuditLeaseExpires(t) \/ AuditBecomeDue(t)
           \/ UNCHANGED allVars
  BY <1>3 DEF BackstopSweep, AuditLeaseExpires, AuditBecomeDue, allVars, auditVars
<1>4. CASE \E t \in Task : JanitorRead(t)
  <2>1. janitor' \in [Task -> [stage : {"none", "due", "read"},
                               by : Proc \cup {NoOwner}, units : Int]]
    <3> PICK t \in Task : JanitorRead(t)
      BY <1>4
    <3>1. Outstanding(t) \in Int
      BY DEF Outstanding
    <3>2. /\ [janitor[t] EXCEPT !.stage = "read", !.units = Outstanding(t)]
                \in [stage : {"none", "due", "read"},
                    by : Proc \cup {NoOwner}, units : Int]
          /\ janitor' = [janitor EXCEPT ![t] =
                             [@ EXCEPT !.stage = "read", !.units = Outstanding(t)]]
      BY <3>1 DEF JanitorRead
    <3> QED BY <3>2
  <2> QED BY <1>4, <2>1 DEF JanitorRead
<1>5. CASE \E t \in Task : JanitorWrite(t) \/ JanitorFails(t)
  BY <1>5 DEF JanitorWrite, JanitorFails, NoRelease
<1>6. CASE CancelAudit
  <2>1. released' \in [Task -> Nat]
    BY <1>6 DEF CancelAudit, ReleaseUnused
  <2> QED BY <1>6, <2>1 DEF CancelAudit, AuditStatus, AuditTerminal
<1>7. CASE DeadlinePasses
  BY <1>7 DEF DeadlinePasses
<1>8. CASE \E p \in Proc : WorkerCrash(p)
  <2>1. counted' \in [Slot -> 0..Cardinality(Task)]
    BY <1>0, <1>8 DEF WorkerCrash
  <2>2. janitor' \in [Task -> [stage : {"none", "due", "read"},
                               by : Proc \cup {NoOwner}, units : Int]]
    BY <1>8 DEF WorkerCrash, NoRelease
  <2> QED BY <1>8, <2>1, <2>2 DEF WorkerCrash
<1> QED
  BY <1>1, <1>2, <1>3, <1>4, <1>5, <1>6, <1>7, <1>8 DEF AuditNext

\* A run's state stays well typed, for any rows, slots and processes.
THEOREM AuditTypeCorrect == AuditSpec => []AuditTypeOK
<1>1. ASSUME AuditInit PROVE AuditTypeOK
  <2>1. 0 \in 0..Cardinality(Task)
    BY AuditAssumption, FS_CardinalityType
  <2>2. NoRelease \in [stage : {"none", "due", "read"},
                       by : Proc \cup {NoOwner}, units : Int]
    BY DEF NoRelease
  <2>3. /\ audit \in AuditStatus /\ overdue \in BOOLEAN
        /\ auditLock \in Slot \cup {NoOwner}
        /\ phase \in [Slot -> Phase]
    BY <1>1 DEF AuditInit, AuditStatus, Phase
  <2>4. /\ counted \in [Slot -> 0..Cardinality(Task)]
        /\ published \in [done : 0..Cardinality(Task), failed : Int]
    BY <1>1, <2>1 DEF AuditInit
  <2>5. /\ calls \in [Task -> Nat] /\ artifacts \in [Task -> Nat]
        /\ debits \in [Task -> SUBSET Nat] /\ released \in [Task -> Nat]
    BY <1>1 DEF AuditInit
  <2> QED BY <1>1, <2>2, <2>3, <2>4, <2>5 DEF AuditInit, AuditTypeOK
<1>2. AuditSpec => []TypeOK
  BY RunImplementsQueue, TypeCorrect
<1> QED BY <1>1, <1>2, AuditTypeStep, PTL DEF AuditSpec

----------------------------------------------------------------------------
(***************************************************************************)
(* The end of a run.                                                        *)
(***************************************************************************)

\* The finalizer's second count sees every row terminal only if every row is.
LEMMA NothingRemains ==
    ASSUME ~(Remaining > 0) PROVE \A t \in Task : status[t] \in Terminal
<1> DEFINE done == {t \in Task : status[t] \in Terminal}
<1>1. /\ IsFiniteSet(done) /\ Cardinality(done) <= Cardinality(Task)
      /\ Cardinality(Task) = Cardinality(done) => Task = done
  BY AuditAssumption, FS_Subset
<1>2. Cardinality(done) \in Nat /\ Cardinality(Task) \in Nat
  BY <1>1, AuditAssumption, FS_CardinalityType
<1>3. ~(Cardinality(Task) - Cardinality(done) > 0)
  BY DEF Remaining, Count
<1>4. Task = done
  BY <1>1, <1>2, <1>3
<1> QED BY <1>4

\* A run being analyzed or over has no row left to claim or execute.
RowsEnded ==
    audit \in {"analyzing"} \cup AuditTerminal
        => \A t \in Task : status[t] \in Terminal

QueueInv == TypeOK /\ LeaseMatchesStatus

\* Only the finalizer that saw every row terminal, and the cancellation that
\* ends them all, bring a run to analyzing or to its end.
LEMMA RowsEndedStep == QueueInv /\ RowsEnded /\ [AuditNext]_allVars => RowsEnded'
<1> SUFFICES ASSUME QueueInv, RowsEnded, [AuditNext]_allVars PROVE RowsEnded'
  OBVIOUS
<1>1. \A t \in Task : status[t] \in Terminal => status'[t] = status[t]
  BY RunStepIsQueueStep, StickyStep DEF QueueInv
<1>2. CASE audit' = audit
  BY <1>1, <1>2 DEF RowsEnded
<1>3. ASSUME NEW s \in Slot, Boundary(s) PROVE RowsEnded'
  <2>1. audit' = audit \/ audit' = "running"
    BY <1>3 DEF Boundary
  <2> QED BY <1>2, <2>1 DEF RowsEnded, AuditTerminal
<1>4. ASSUME NEW s \in Slot, Conclude(s) PROVE RowsEnded'
  <2>1. CASE Remaining > 0
    BY <1>2, <1>4, <2>1 DEF Conclude
  <2>2. CASE ~(Remaining > 0)
    BY <1>1, <2>2, NothingRemains DEF RowsEnded
  <2> QED BY <2>1, <2>2
<1>5. ASSUME NEW s \in Slot, Aggregate(s) PROVE RowsEnded'
  <2>1. CASE audit = "analyzing"
    BY <1>1, <2>1 DEF RowsEnded
  <2>2. CASE audit # "analyzing"
    BY <1>2, <1>5, <2>2 DEF Aggregate
  <2> QED BY <2>1, <2>2
<1>6. CASE CancelAudit
  <2>1. \A t \in Task : status'[t] \in Terminal
    <3>1. CASE Open = {}
      BY <1>1, <3>1 DEF Open
    <3>2. CASE Open # {}
      BY <1>6, <3>2 DEF CancelAudit, Cancel, Unlease, Open, Terminal
    <3> QED BY <3>1, <3>2
  <2> QED BY <2>1 DEF RowsEnded
<1>7. \/ audit' = audit
      \/ \E s \in Slot : Boundary(s) \/ Conclude(s) \/ Aggregate(s)
      \/ CancelAudit
  BY DEF AuditNext, SlotNext, allVars, auditVars, runVars,
         SlotBeginClaim, SlotClaim, SlotClaimNothing, StopOverdue, Reject, Park,
         StartCall, SlotHeartbeat, PersistSuccess, PersistFailure, BillRefused,
         SettleTask, Raise, RecordCrash, LeaveTask, CountSucceeded,
         FinalizerRaises, WorkerSweep, BackstopSweep, JanitorRead, JanitorWrite, JanitorFails,
         AuditLeaseExpires, AuditBecomeDue, DeadlinePasses, WorkerCrash
<1> QED BY <1>2, <1>3, <1>4, <1>5, <1>6, <1>7

\* The rows of a run obey the queue's invariants.
LEMMA QueueInvKept == AuditSpec => []QueueInv
BY RunImplementsQueue, TypeCorrect, LeaseCorrect, PTL DEF QueueInv

LEMMA RowsEndedKept == AuditSpec => []RowsEnded
<1>1. AuditInit => RowsEnded
  BY DEF AuditInit, RowsEnded, AuditTerminal
<1> QED BY <1>1, RowsEndedStep, QueueInvKept, PTL DEF AuditSpec

\* For any rows, slots and processes, whatever stalls, raises and dies, a run
\* never ends while one of its rows could still be claimed or executed
\* (_finalize_audit ends it on `remaining > 0` alone; cancel_audit ends both).
THEOREM RunEndsLast == AuditSpec => []OverMeansAllOver
<1>1. RowsEnded => OverMeansAllOver
  BY DEF RowsEnded, OverMeansAllOver
<1> QED BY <1>1, RowsEndedKept, PTL

\* A row nobody can own takes no attempt: recording one and reclaiming one both
\* begin with a leased row.
LEMMA TerminalAttempts ==
    QueueInv /\ [Next]_vars =>
        ((\A t \in Task : status[t] \in Terminal) => attempts' = attempts)
<1> SUFFICES ASSUME QueueInv, [Next]_vars, \A t \in Task : status[t] \in Terminal
             PROVE  attempts' = attempts
  OBVIOUS
<1>1. ASSUME NEW s \in Slot, NEW v \in Verdict, RecordAttempt(s, v) PROVE FALSE
  BY <1>1 DEF RecordAttempt, Working, Terminal, Leased
<1>2. ASSUME NEW batch \in SUBSET Task, Sweep(batch) PROVE FALSE
  BY <1>2 DEF Sweep, Reclaimable, Terminal, Leased
<1> QED
  BY <1>1, <1>2
     DEF Next, vars, rowVars, slotVars, BeginClaim, Claim, ClaimNothing, Heartbeat,
         MarkRunning, Settle, FailOutright, PutBack, Abandon, Cancel,
         LeaseExpires, BecomeDue, Crash

\* A run that is over is left as it is: late executors find their rows closed
\* and the run over, and the finalizer takes only a running or analyzing run.
LEMMA EndStep ==
    QueueInv /\ RowsEnded /\ [AuditNext]_allVars =>
        ((audit \in AuditTerminal)
            => UNCHANGED <<audit, artifacts, debits, attempts, status>>)
<1> SUFFICES ASSUME QueueInv, RowsEnded, [AuditNext]_allVars, audit \in AuditTerminal
             PROVE  UNCHANGED <<audit, artifacts, debits, attempts, status>>
  OBVIOUS
<1>1. \A t \in Task : status[t] \in Terminal
  BY DEF RowsEnded
<1>2. [Next]_vars
  BY RunStepIsQueueStep
<1>3. attempts' = attempts
  BY <1>1, <1>2, TerminalAttempts
<1>4. \A t \in Task : status'[t] = status[t]
  BY <1>1, <1>2, StickyStep DEF QueueInv
<1>5. status' = status
  BY <1>2, <1>4, TypeStep DEF QueueInv, TypeOK
<1>6. audit' = audit
  BY DEF AuditTerminal, AuditNext, SlotNext, allVars, auditVars, runVars,
         SlotBeginClaim, SlotClaim, SlotClaimNothing, Boundary, StopOverdue, Reject,
         Park, StartCall, SlotHeartbeat, PersistSuccess, PersistFailure,
         BillRefused, SettleTask, Raise, RecordCrash, LeaveTask, CountSucceeded,
         Conclude, Aggregate, FinalizerRaises, WorkerSweep, BackstopSweep,
         JanitorRead, JanitorWrite, JanitorFails, CancelAudit, AuditLeaseExpires,
         AuditBecomeDue, DeadlinePasses, WorkerCrash
<1>7. artifacts' = artifacts /\ debits' = debits
  BY DEF StillOurs, AuditNext, SlotNext, allVars, auditVars,
         evidenceVars, ledgerVars,
         SlotBeginClaim, SlotClaim, SlotClaimNothing, Boundary, StopOverdue, Reject,
         Park, StartCall, SlotHeartbeat, PersistSuccess, PersistFailure,
         BillRefused, SettleTask, Raise, RecordCrash, LeaveTask, CountSucceeded,
         Conclude, Aggregate, FinalizerRaises, WorkerSweep, BackstopSweep,
         JanitorRead, JanitorWrite, JanitorFails, CancelAudit, AuditLeaseExpires,
         AuditBecomeDue, DeadlinePasses, WorkerCrash
<1> QED BY <1>3, <1>5, <1>6, <1>7

\* Nothing is written about a run after its end, for any rows, slots and
\* processes and whatever they do (_lock_owned_running_task discards a late
\* answer of a cancelled or finished run).
THEOREM EndIsFinal == AuditSpec => NothingAfterTheEnd
<1>1. QueueInv /\ RowsEnded /\ [AuditNext]_allVars =>
          [(audit \in AuditTerminal)
              => UNCHANGED <<audit, artifacts, debits, attempts, status>>]_allVars
  BY EndStep
<1> QED
  BY <1>1, QueueInvKept, RowsEndedKept, PTL DEF AuditSpec, NothingAfterTheEnd
=============================================================================
