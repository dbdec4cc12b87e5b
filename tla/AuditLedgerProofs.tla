------------------------- MODULE AuditLedgerProofs -------------------------
(***************************************************************************)
(* Proofs about the calls, bills and credits of AuditRun, for any finite    *)
(* sets of task rows and slots and any processes and attempts.  A theorem    *)
(* that needs the environment to be without some fault names that fault.     *)
(***************************************************************************)
EXTENDS AuditRunProofs

Types == TypeOK /\ AuditTypeOK

\* The steps that are not a slot's and kill no process.
Elsewhere ==
    \/ \E p \in Proc, batch \in SUBSET Task : WorkerSweep(p, batch)
    \/ \E batch \in SUBSET Task : BackstopSweep(batch)
    \/ \E t \in Task : JanitorRead(t) \/ JanitorWrite(t) \/ JanitorFails(t)
    \/ \E t \in Task : AuditLeaseExpires(t) \/ AuditBecomeDue(t)
    \/ CancelAudit
    \/ DeadlinePasses
    \/ UNCHANGED allVars

\* Every step is a slot's, nobody's, or the death of a process.
LEMMA RunSteps ==
    [AuditNext]_allVars =>
        \/ \E s \in Slot : SlotNext(s)
        \/ Elsewhere
        \/ \E p \in Proc : WorkerCrash(p)
BY DEF AuditNext, Elsewhere

\* Such a step leaves every slot where it is.
LEMMA SlotsUntouched == Elsewhere => UNCHANGED <<phase, job, verdict, scan>>
<1> SUFFICES ASSUME Elsewhere PROVE UNCHANGED <<phase, job, verdict, scan>>
  OBVIOUS
<1>1. CASE \/ \E p \in Proc, batch \in SUBSET Task : WorkerSweep(p, batch)
           \/ \E batch \in SUBSET Task : BackstopSweep(batch)
  BY <1>1 DEF WorkerSweep, BackstopSweep, Sweep, slotVars, auditVars
<1>2. CASE \E t \in Task : JanitorRead(t) \/ JanitorWrite(t) \/ JanitorFails(t)
  BY <1>2 DEF JanitorRead, JanitorWrite, JanitorFails, vars
<1>3. CASE \E t \in Task : AuditLeaseExpires(t) \/ AuditBecomeDue(t)
  BY <1>3 DEF AuditLeaseExpires, AuditBecomeDue, LeaseExpires, BecomeDue, slotVars,
              auditVars
<1>4. CASE CancelAudit
  BY <1>4 DEF CancelAudit, Cancel, slotVars, vars
<1>5. CASE DeadlinePasses \/ UNCHANGED allVars
  BY <1>5 DEF DeadlinePasses, allVars, auditVars, vars
<1> QED BY <1>1, <1>2, <1>3, <1>4, <1>5 DEF Elsewhere

\* A slot's step leaves the other slots where they are.
LEMMA OthersUntouched ==
    ASSUME Types, NEW s \in Slot, SlotNext(s), NEW q \in Slot, q # s
    PROVE  /\ phase'[q] = phase[q] /\ job'[q] = job[q]
           /\ verdict'[q] = verdict[q] /\ scan'[q] = scan[q]
<1> USE DEF Types, TypeOK, AuditTypeOK, GoTo, Drop
<1>1. CASE SlotBeginClaim(s) \/ SlotClaimNothing(s) \/ SlotHeartbeat(s)
  BY <1>1 DEF SlotBeginClaim, SlotClaimNothing, SlotHeartbeat, BeginClaim,
              ClaimNothing, Heartbeat, auditVars, slotVars
<1>2. CASE \E t \in Task : SlotClaim(s, t)
  BY <1>2 DEF SlotClaim, Claim
<1>3. CASE \/ Boundary(s) \/ BillRefused(s) \/ Raise(s) \/ CountSucceeded(s)
           \/ Conclude(s) \/ Aggregate(s) \/ FinalizerRaises(s)
  <2>1. UNCHANGED <<job, verdict, scan>>
    BY <1>3 DEF Boundary, BillRefused, Raise, CountSucceeded, Conclude, Aggregate,
                FinalizerRaises, vars
  <2>2. \E ph : phase' = [phase EXCEPT ![s] = ph]
    BY <1>3 DEF Boundary, BillRefused, Raise, CountSucceeded, Conclude, Aggregate,
                FinalizerRaises
  <2> QED BY <2>1, <2>2
<1>4. CASE StopOverdue(s) \/ RecordCrash(s)
  BY <1>4 DEF StopOverdue, RecordCrash, FailOutright
<1>5. CASE Reject(s) \/ PersistSuccess(s) \/ (\E v \in Verdict : PersistFailure(s, v))
  <2>1. /\ phase' = [phase EXCEPT ![s] = "recorded"]
        /\ \E v \in Verdict : RecordAttempt(s, v)
    BY <1>5 DEF Reject, PersistSuccess, PersistFailure, Verdict
  <2> QED BY <2>1 DEF RecordAttempt
<1>6. CASE Park(s)
  BY <1>6 DEF Park, PutBack
<1>7. CASE StartCall(s)
  BY <1>7 DEF StartCall, MarkRunning, slotVars
<1>8. CASE SettleTask(s)
  BY <1>8 DEF SettleTask, Settle
<1>9. CASE LeaveTask(s)
  BY <1>9 DEF LeaveTask, Abandon
<1> QED
  BY <1>1, <1>2, <1>3, <1>4, <1>5, <1>6, <1>7, <1>8, <1>9 DEF SlotNext

\* Where a slot is says whether it holds a row and has an outcome for it.
Resting == {"idle", "finalizing", "counting", "aggregating"}
Unanswered == {"boundary", "stopped", "ready", "calling"}
PlaceOf(s) ==
    /\ phase[s] \in Resting => job[s] = NoTask /\ verdict[s] = "none"
    /\ phase[s] \in Unanswered => job[s] \in Task /\ verdict[s] = "none"
    /\ phase[s] = "recorded" => job[s] \in Task /\ verdict[s] # "none"
    /\ phase[s] = "crashed" => job[s] \in Task
    /\ scan[s] # {} => phase[s] = "idle"
Placed == \A s \in Slot : PlaceOf(s)

LEMMA PlaceStep ==
    ASSUME Types, NEW s \in Slot, PlaceOf(s), SlotNext(s) PROVE PlaceOf(s)'
<1> USE ConstantsAssumption DEF Types, TypeOK, AuditTypeOK, GoTo, Drop, PlaceOf, Resting, Unanswered
<1>1. CASE SlotBeginClaim(s) \/ SlotClaimNothing(s) \/ SlotHeartbeat(s)
  BY <1>1 DEF SlotBeginClaim, SlotClaimNothing, SlotHeartbeat, BeginClaim,
              ClaimNothing, Heartbeat, auditVars, slotVars
<1>2. CASE \E t \in Task : SlotClaim(s, t)
  BY <1>2 DEF SlotClaim, Claim
<1>3. CASE Boundary(s) \/ BillRefused(s) \/ Raise(s)
  BY <1>3 DEF Boundary, BillRefused, Raise, vars
<1>4. CASE CountSucceeded(s) \/ Conclude(s) \/ Aggregate(s) \/ FinalizerRaises(s)
  BY <1>4 DEF CountSucceeded, Conclude, Aggregate, FinalizerRaises, vars
<1>5. CASE StopOverdue(s) \/ RecordCrash(s)
  BY <1>5 DEF StopOverdue, RecordCrash, FailOutright
<1>6. CASE Reject(s) \/ PersistSuccess(s) \/ (\E v \in Verdict : PersistFailure(s, v))
  <2>1. /\ phase' = [phase EXCEPT ![s] = "recorded"]
        /\ \E v \in Verdict : RecordAttempt(s, v)
        /\ phase[s] # "idle"
    BY <1>6 DEF Reject, PersistSuccess, PersistFailure, Verdict
  <2> QED BY <2>1 DEF RecordAttempt, Working
<1>7. CASE Park(s)
  BY <1>7 DEF Park, PutBack
<1>8. CASE StartCall(s)
  BY <1>8 DEF StartCall, MarkRunning, slotVars
<1>9. CASE SettleTask(s)
  BY <1>9 DEF SettleTask, Settle
<1>10. CASE LeaveTask(s)
  BY <1>10 DEF LeaveTask, Abandon
<1> QED
  BY <1>1, <1>2, <1>3, <1>4, <1>5, <1>6, <1>7, <1>8, <1>9, <1>10 DEF SlotNext

\* A process that dies empties its slots.
LEMMA CrashPlaces ==
    ASSUME Types, NEW p \in Proc, WorkerCrash(p), NEW s \in Slot
    PROVE  IF Home[s] = p
           THEN /\ phase'[s] = "idle" /\ job'[s] = NoTask
                /\ verdict'[s] = "none" /\ scan'[s] = {}
           ELSE /\ phase'[s] = phase[s] /\ job'[s] = job[s]
                /\ verdict'[s] = verdict[s] /\ scan'[s] = scan[s]
BY DEF WorkerCrash, Crash, Types, TypeOK, AuditTypeOK

LEMMA PlacedStep == Types /\ Placed /\ [AuditNext]_allVars => Placed'
<1> SUFFICES ASSUME Types, Placed, [AuditNext]_allVars, NEW q \in Slot PROVE PlaceOf(q)'
  BY DEF Placed
<1>0. PlaceOf(q)
  BY DEF Placed
<1>1. ASSUME NEW s \in Slot, SlotNext(s) PROVE PlaceOf(q)'
  <2>1. CASE q = s
    BY <1>0, <1>1, <2>1, PlaceStep
  <2>2. CASE q # s
    BY <1>0, <1>1, <2>2, OthersUntouched DEF PlaceOf
  <2> QED BY <2>1, <2>2
<1>2. CASE Elsewhere
  BY <1>0, <1>2, SlotsUntouched DEF PlaceOf
<1>3. ASSUME NEW p \in Proc, WorkerCrash(p) PROVE PlaceOf(q)'
  BY <1>0, <1>3, CrashPlaces DEF PlaceOf, Unanswered
<1> QED BY <1>1, <1>2, <1>3, RunSteps

LEMMA TypesKept == AuditSpec => []Types
BY RunImplementsQueue, TypeCorrect, AuditTypeCorrect, PTL DEF Types

LEMMA PlacedKept == AuditSpec => []Placed
<1>1. AuditInit => Placed
  BY DEF AuditInit, Init, Placed, PlaceOf, Resting, Unanswered
<1> QED BY <1>1, PlacedStep, TypesKept, PTL DEF AuditSpec

----------------------------------------------------------------------------
(***************************************************************************)
(* Calls.                                                                   *)
(***************************************************************************)

\* Sets of slots, one of which changes.
LEMMA SlotSets ==
    ASSUME NEW S \in SUBSET Slot, NEW T \in SUBSET Slot, NEW s,
           T \subseteq S \cup {s}
    PROVE  /\ Cardinality(S) \in Nat /\ Cardinality(T) \in Nat
           /\ Cardinality(T) <= Cardinality(S) + 1
           /\ T \subseteq S => Cardinality(T) <= Cardinality(S)
           /\ s \in S /\ s \notin T => Cardinality(T) + 1 <= Cardinality(S)
<1>1. IsFiniteSet(S) /\ IsFiniteSet(T)
  BY AuditAssumption, FS_Subset
<1>2. Cardinality(S) \in Nat /\ Cardinality(T) \in Nat
  BY <1>1, FS_CardinalityType
<1>3. T \subseteq S => Cardinality(T) <= Cardinality(S)
  BY <1>1, FS_Subset
<1>4. Cardinality(T) <= Cardinality(S) + 1
  <2>1. /\ IsFiniteSet(S \cup {s})
        /\ Cardinality(S \cup {s}) = IF s \in S THEN Cardinality(S) ELSE Cardinality(S) + 1
    BY <1>1, FS_AddElement
  <2>2. Cardinality(T) <= Cardinality(S \cup {s})
    BY <2>1, FS_Subset
  <2> QED BY <1>2, <2>1, <2>2
<1>5. ASSUME s \in S, s \notin T PROVE Cardinality(T) + 1 <= Cardinality(S)
  <2>1. /\ IsFiniteSet(S \ {s})
        /\ Cardinality(S \ {s}) = Cardinality(S) - 1
    BY <1>1, <1>5, FS_RemoveElement
  <2>2. Cardinality(T) <= Cardinality(S \ {s})
    BY <1>5, <2>1, FS_Subset
  <2> QED BY <1>2, <2>1, <2>2
<1> QED BY <1>2, <1>3, <1>4, <1>5

\* The slots that may still have a row called once more than it was: by calling
\* it themselves, or by putting it back for another call.
Stake(t) ==
    {s \in Slot : job[s] = t /\ (phase[s] \in {"boundary", "ready"}
                                 \/ verdict[s] = "retry_wait")}

\* A row in the queue is another such chance.
Chance(t) == IF status[t] \in Claimable THEN 1 ELSE 0

\* The attempts that can be charged to a row that goes on.
Quota(t) == IF attempts[t] < MaxAttempts THEN attempts[t] ELSE MaxAttempts - 1

\* Every call beyond the first is paid for by an attempt that left the row
\* budget for another, and no attempt pays twice.
Paid(t) == calls[t] + Cardinality(Stake(t)) + Chance(t) <= 1 + Quota(t)
CallsPaid == \A t \in Task : Paid(t)

LEMMA LedgerTypes ==
    ASSUME Types, NEW t \in Task
    PROVE  /\ calls[t] \in Nat /\ attempts[t] \in Nat /\ MaxAttempts \in Nat \ {0}
           /\ Quota(t) \in Nat /\ Quota(t) <= MaxAttempts - 1
           /\ Chance(t) \in {0, 1} /\ Stake(t) \in SUBSET Slot
           /\ Cardinality(Stake(t)) \in Nat
<1>1. Stake(t) \in SUBSET Slot
  BY DEF Stake
<1>2. IsFiniteSet(Stake(t))
  BY <1>1, AuditAssumption, FS_Subset
<1> QED
  BY <1>1, <1>2, FS_CardinalityType, ConstantsAssumption
     DEF Types, TypeOK, AuditTypeOK, Quota, Chance

\* A row that a slot's process owns is not in the queue.
LEMMA OwnedIsLeased ==
    ASSUME QueueInv, NEW s \in Slot, NEW t \in Task, Owned(s, t)
    PROVE  status[t] \in Leased /\ status[t] \notin Claimable /\ status[t] \notin Terminal
BY ConstantsAssumption
   DEF QueueInv, LeaseMatchesStatus, Owned, Leased, Claimable, Terminal

\* What a step may do to the account of a row, if it moves no slot but s.
LEMMA PaidIf ==
    ASSUME Types, Types', CallsPaid, NEW t \in Task, NEW s,
           Stake(t)' \subseteq Stake(t) \cup {s},
           \/ /\ calls'[t] = calls[t] /\ Stake(t)' \subseteq Stake(t)
              /\ Chance(t)' <= Chance(t) /\ attempts'[t] >= attempts[t]
           \/ /\ s \in Stake(t) /\ s \notin Stake(t)'
              /\ \/ calls'[t] = calls[t] + 1 /\ Chance(t)' <= Chance(t)
                 \/ calls'[t] = calls[t]
              /\ attempts'[t] >= attempts[t]
           \/ /\ calls'[t] = calls[t] /\ Chance(t) = 1 /\ Chance(t)' = 0
              /\ attempts'[t] >= attempts[t]
           \/ /\ calls'[t] = calls[t] /\ Chance(t)' <= Chance(t)
              /\ attempts[t] + 1 < MaxAttempts /\ attempts'[t] = attempts[t] + 1
           \/ /\ calls'[t] = calls[t] /\ Stake(t)' \subseteq Stake(t)
              /\ attempts[t] + 1 < MaxAttempts /\ attempts'[t] = attempts[t] + 1
    PROVE  Paid(t)'
<1> DEFINE S == Stake(t)
           T == Stake(t)'
<1>1. /\ S \in SUBSET Slot /\ Cardinality(S) \in Nat
      /\ calls[t] \in Nat /\ attempts[t] \in Nat /\ MaxAttempts \in Nat
      /\ Chance(t) \in {0, 1} /\ Quota(t) \in Nat
  BY LedgerTypes
<1>2. /\ calls'[t] \in Nat /\ attempts'[t] \in Nat /\ Chance(t)' \in {0, 1}
      /\ Quota(t)' \in Nat /\ T \in SUBSET Slot
  <2>1. calls'[t] \in Nat /\ attempts'[t] \in Nat
    BY DEF Types, TypeOK, AuditTypeOK
  <2>2. Chance(t)' \in {0, 1} /\ T \in SUBSET Slot
    BY DEF Chance, Stake
  <2>3. Quota(t)' \in Nat
    BY <2>1, ConstantsAssumption DEF Quota
  <2> QED BY <2>1, <2>2, <2>3
<1>3. calls[t] + Cardinality(S) + Chance(t) <= 1 + Quota(t)
  BY DEF CallsPaid, Paid
<1>4. attempts'[t] >= attempts[t] => Quota(t)' >= Quota(t)
  BY <1>1, <1>2 DEF Quota
<1>5. attempts[t] + 1 < MaxAttempts /\ attempts'[t] = attempts[t] + 1
          => Quota(t)' = Quota(t) + 1
  BY <1>1, <1>2 DEF Quota
<1> HIDE DEF S, T
<1>6. /\ Cardinality(T) \in Nat /\ Cardinality(T) <= Cardinality(S) + 1
      /\ T \subseteq S => Cardinality(T) <= Cardinality(S)
      /\ s \in S /\ s \notin T => Cardinality(T) + 1 <= Cardinality(S)
  <2>1. T \subseteq S \cup {s}
    BY DEF S, T
  <2> QED BY <1>1, <1>2, <2>1, SlotSets
<1>7. calls'[t] + Cardinality(T) + Chance(t)' <= 1 + Quota(t)'
  BY <1>1, <1>2, <1>3, <1>4, <1>5, <1>6 DEF S, T
<1> QED BY <1>7 DEF T, Paid

LEMMA PaidSlotStep ==
    ASSUME Types, Types', QueueInv, Placed, CallsPaid,
           NEW s \in Slot, SlotNext(s), NEW t \in Task
    PROVE  Paid(t)'
<1>a. Stake(t)' \subseteq Stake(t) \cup {s}
  BY OthersUntouched DEF Stake
<1>b. s \notin Stake(t)' \/ s \in Stake(t) => Stake(t)' \subseteq Stake(t)
  BY <1>a
<1>p. PlaceOf(s)
  BY DEF Placed
<1>q. attempts[t] \in Nat /\ calls[t] \in Nat /\ Chance(t) \in {0, 1}
  BY LedgerTypes
<1>f. /\ phase \in [Slot -> Phase] /\ job \in [Slot -> Task \cup {NoTask}]
      /\ verdict \in [Slot -> Verdict] /\ attempts \in [Task -> Nat]
      /\ status \in [Task -> Status] /\ calls \in [Task -> Nat]
  BY DEF Types, TypeOK, AuditTypeOK
<1> USE ConstantsAssumption DEF GoTo, PlaceOf, Unanswered, Resting, Drop
<1>1. ASSUME UNCHANGED <<calls, status, attempts>>, s \notin Stake(t)' \/ s \in Stake(t)
      PROVE  Paid(t)'
  <2>1. Chance(t)' = Chance(t)
    BY <1>1 DEF Chance
  <2> QED BY <1>1, <1>a, <1>b, <1>q, <2>1, PaidIf
<1>2. CASE SlotBeginClaim(s) \/ SlotClaimNothing(s) \/ SlotHeartbeat(s)
  <2>1. UNCHANGED <<calls, status, attempts, job, verdict, phase>>
    BY <1>2 DEF SlotBeginClaim, SlotClaimNothing, SlotHeartbeat, BeginClaim,
                ClaimNothing, Heartbeat, auditVars, rowVars, slotVars
  <2> QED BY <1>1, <2>1 DEF Stake
<1>3. CASE \/ Boundary(s) \/ BillRefused(s) \/ Raise(s) \/ CountSucceeded(s)
           \/ Conclude(s) \/ Aggregate(s) \/ FinalizerRaises(s)
  <2>1. /\ UNCHANGED <<calls, status, attempts, job, verdict>>
        /\ phase'[s] \in {"boundary", "ready"} => phase[s] = "boundary"
    BY <1>3, <1>f DEF Boundary, BillRefused, Raise, CountSucceeded, Conclude,
                Aggregate, FinalizerRaises, vars, evidenceVars
  <2> QED BY <1>1, <2>1 DEF Stake
<1>4. ASSUME NEW u \in Task, SlotClaim(s, u) PROVE Paid(t)'
  <2>1. /\ UNCHANGED <<calls, attempts, verdict>> /\ job'[s] = u
        /\ status[u] \in Claimable /\ status' = [status EXCEPT ![u] = "leased"]
    BY <1>4, <1>f DEF SlotClaim, Claim, StillEligible, Eligible, evidenceVars
  <2>2. CASE u = t
    <3>1. Chance(t) = 1 /\ Chance(t)' = 0
      BY <1>f, <2>1, <2>2 DEF Chance, Claimable
    <3> QED BY <1>a, <1>q, <2>1, <3>1, PaidIf
  <2>3. CASE u # t
    <3>1. s \notin Stake(t)' /\ Chance(t)' = Chance(t)
      BY <1>f, <2>1, <2>3 DEF Stake, Chance
    <3> QED BY <1>a, <1>b, <1>q, <2>1, <3>1, PaidIf
  <2> QED BY <2>2, <2>3
<1>5. CASE StopOverdue(s) \/ RecordCrash(s) \/ LeaveTask(s)
  <2>1. /\ UNCHANGED <<calls, attempts>> /\ job'[s] = NoTask
        /\ status'[t] = status[t] \/ status'[t] = "failed"
    BY <1>5, <1>f DEF StopOverdue, RecordCrash, LeaveTask, FailOutright, Abandon, Unlease,
                evidenceVars, rowVars
  <2>2. s \notin Stake(t)' /\ Chance(t)' <= Chance(t)
    BY <1>q, <2>1 DEF Stake, Chance, Claimable
  <2> QED BY <1>a, <1>b, <1>q, <2>1, <2>2, PaidIf
<1>6. ASSUME NEW v \in Verdict, RecordAttempt(s, v), phase'[s] = "recorded",
             UNCHANGED calls
      PROVE  Paid(t)'
  <2>1. /\ UNCHANGED <<status, job>> /\ verdict'[s] = v
        /\ attempts' = [attempts EXCEPT ![job[s]] = @ + 1]
        /\ v = "retry_wait" => attempts[job[s]] + 1 < MaxAttempts
    BY <1>6, <1>f DEF RecordAttempt
  <2>2. attempts'[t] >= attempts[t] /\ Chance(t)' = Chance(t)
    BY <1>f, <1>q, <2>1 DEF Chance
  <2>3. CASE v = "retry_wait" /\ job[s] = t
    <3>1. attempts[t] + 1 < MaxAttempts /\ attempts'[t] = attempts[t] + 1
      BY <1>f, <2>1, <2>3
    <3> QED BY <1>a, <1>q, <1>6, <2>2, <3>1, PaidIf
  <2>4. CASE ~(v = "retry_wait" /\ job[s] = t)
    <3>1. s \notin Stake(t)'
      BY <1>6, <2>1, <2>4 DEF Stake
    <3> QED BY <1>a, <1>b, <1>q, <1>6, <2>2, <3>1, PaidIf
  <2> QED BY <2>3, <2>4
<1>7. CASE Reject(s) \/ PersistSuccess(s) \/ (\E v \in Verdict : PersistFailure(s, v))
  <2>1. /\ \E v \in Verdict : RecordAttempt(s, v)
        /\ phase'[s] = "recorded" /\ UNCHANGED calls
    BY <1>7, <1>f DEF Reject, PersistSuccess, PersistFailure, Verdict, evidenceVars
  <2> QED BY <1>6, <2>1
<1>8. CASE Park(s) \/ SettleTask(s)
  <2>1. /\ UNCHANGED <<calls, attempts>> /\ job'[s] = NoTask
        /\ Owned(s, job[s]) /\ job[s] \in Task
        /\ \A u \in Task : u # job[s] => status'[u] = status[u]
    BY <1>8, <1>f DEF Park, SettleTask, PutBack, Settle, Unlease, Working, evidenceVars
  <2>2. s \notin Stake(t)' /\ Chance(t)' \in {0, 1}
    BY <2>1 DEF Stake, Chance
  <2>3. CASE t # job[s]
    <3>1. Chance(t)' = Chance(t)
      BY <2>1, <2>3 DEF Chance
    <3> QED BY <1>a, <1>b, <1>q, <2>1, <2>2, <3>1, PaidIf
  <2>4. CASE t = job[s] /\ s \in Stake(t)
    <3>1. Chance(t) = 0
      BY <2>1, <2>4, OwnedIsLeased DEF Chance
    <3> QED BY <1>a, <1>q, <2>1, <2>2, <2>4, PaidIf, <3>1
  <2>5. CASE t = job[s] /\ s \notin Stake(t)
    <3>1. SettleTask(s) /\ verdict[s] # "retry_wait" /\ verdict[s] # "none"
      BY <1>8, <2>5, <1>p, <1>f DEF Park, SettleTask, Stake
    <3>2. status'[t] \in Terminal
      BY <3>1, <2>5, <1>f DEF SettleTask, Settle, Unlease, Verdict, Terminal
    <3>3. Chance(t)' = 0
      BY <3>2 DEF Chance, Terminal, Claimable
    <3> QED BY <1>a, <1>b, <1>q, <2>1, <2>2, <3>3, PaidIf
  <2> QED BY <2>3, <2>4, <2>5
<1>9. CASE StartCall(s)
  <2>1. /\ phase[s] = "ready" /\ phase'[s] = "calling" /\ verdict'[s] = "none"
        /\ calls' = [calls EXCEPT ![job[s]] = @ + 1] /\ UNCHANGED <<job, attempts>>
        /\ status' = [status EXCEPT ![job[s]] = "running"]
    BY <1>9, <1>f DEF StartCall, MarkRunning, slotVars
  <2>2. s \notin Stake(t)' /\ Chance(t)' <= Chance(t)
    BY <1>f, <1>q, <2>1 DEF Stake, Chance, Claimable
  <2>3. CASE job[s] = t
    <3>1. s \in Stake(t) /\ calls'[t] = calls[t] + 1
      BY <1>f, <2>1, <2>3 DEF Stake
    <3> QED BY <1>a, <1>q, <2>1, <2>2, <3>1, PaidIf
  <2>4. CASE job[s] # t
    <3>1. calls'[t] = calls[t]
      BY <1>f, <2>1, <2>4
    <3> QED BY <1>a, <1>b, <1>q, <2>1, <2>2, <3>1, PaidIf
  <2> QED BY <2>3, <2>4
<1> QED
  BY <1>2, <1>3, <1>4, <1>5, <1>7, <1>8, <1>9 DEF SlotNext

LEMMA PaidStep ==
    Types /\ Types' /\ QueueInv /\ Placed /\ CallsPaid /\ [AuditNext]_allVars => CallsPaid'
<1> SUFFICES ASSUME Types, Types', QueueInv, Placed, CallsPaid, [AuditNext]_allVars,
                    NEW t \in Task
             PROVE  Paid(t)'
  BY DEF CallsPaid
<1>q. /\ attempts[t] \in Nat /\ calls[t] \in Nat /\ Chance(t) \in {0, 1}
      /\ MaxAttempts \in Nat
  BY LedgerTypes
<1>1. CASE \E s \in Slot : SlotNext(s)
  BY <1>1, PaidSlotStep
<1>2. CASE Elsewhere
  <2>1. Stake(t)' = Stake(t)
    BY <1>2, SlotsUntouched DEF Stake
  <2>2. /\ calls'[t] = calls[t]
        /\ \/ /\ attempts'[t] = attempts[t]
              /\ status'[t] = status[t] \/ status'[t] = "cancelled"
           \/ attempts'[t] = attempts[t] + 1 /\ status'[t] = Reclaimed(t)
    <3>1. CASE \/ \E p \in Proc, batch \in SUBSET Task : WorkerSweep(p, batch)
               \/ \E batch \in SUBSET Task : BackstopSweep(batch)
      BY <3>1 DEF WorkerSweep, BackstopSweep, Sweep, evidenceVars, auditVars, Charged
    <3>2. CASE \E u \in Task : JanitorRead(u) \/ JanitorWrite(u) \/ JanitorFails(u)
      BY <3>2 DEF JanitorRead, JanitorWrite, JanitorFails, evidenceVars, vars
    <3>3. CASE \E u \in Task : AuditLeaseExpires(u) \/ AuditBecomeDue(u)
      BY <3>3 DEF AuditLeaseExpires, AuditBecomeDue, LeaseExpires, BecomeDue, auditVars
    <3>4. CASE CancelAudit
      BY <3>4 DEF CancelAudit, Cancel, Unlease, evidenceVars, vars
    <3>5. CASE DeadlinePasses \/ UNCHANGED allVars
      BY <3>5 DEF DeadlinePasses, allVars, auditVars, evidenceVars, vars
    <3> QED BY <1>2, <3>1, <3>2, <3>3, <3>4, <3>5 DEF Elsewhere
  <2>3. CASE Chance(t)' <= Chance(t) /\ attempts'[t] >= attempts[t]
    BY <2>1, <2>2, <2>3, PaidIf
  <2>4. CASE attempts'[t] = attempts[t] + 1 /\ attempts[t] + 1 < MaxAttempts
    BY <2>1, <2>2, <2>4, PaidIf
  <2>5. \/ Chance(t)' <= Chance(t) /\ attempts'[t] >= attempts[t]
        \/ attempts'[t] = attempts[t] + 1 /\ attempts[t] + 1 < MaxAttempts
    BY <1>q, <2>2 DEF Reclaimed, Charged, Chance, Claimable
  <2> QED BY <2>3, <2>4, <2>5
<1>3. ASSUME NEW p \in Proc, WorkerCrash(p) PROVE Paid(t)'
  <2>1. UNCHANGED <<calls, attempts, status>>
    BY <1>3 DEF WorkerCrash, Crash, evidenceVars
  <2>2. Stake(t)' \subseteq Stake(t)
    BY <1>3, CrashPlaces, ConstantsAssumption DEF Stake
  <2>3. Chance(t)' = Chance(t)
    BY <2>1 DEF Chance
  <2> QED BY <1>q, <2>1, <2>2, <2>3, PaidIf
<1> QED BY <1>1, <1>2, <1>3, RunSteps

\* For any tasks, slots, processes and attempt budget, and whatever stalls,
\* raises, dies and is swept: no task is called more than max_attempts times
\* (the attempt is charged after the call, by the executor or by the sweep).
THEOREM CallsBounded == AuditSpec => []CallsWithinBudget
<1>1. ASSUME AuditInit PROVE CallsPaid
  <2> SUFFICES ASSUME NEW t \in Task PROVE Paid(t)
    BY DEF CallsPaid
  <2>1. Stake(t) = {}
    BY <1>1 DEF AuditInit, Init, Stake
  <2>2. calls[t] = 0 /\ Quota(t) = 0 /\ Chance(t) = 1
    BY <1>1, ConstantsAssumption DEF AuditInit, Init, Quota, Chance, Claimable
  <2> QED BY <2>1, <2>2, FS_EmptySet DEF Paid
<1>2. Types /\ CallsPaid => CallsWithinBudget
  <2> SUFFICES ASSUME Types, CallsPaid, NEW t \in Task PROVE calls[t] <= MaxAttempts
    BY DEF CallsWithinBudget
  <2>1. calls[t] + Cardinality(Stake(t)) + Chance(t) <= 1 + Quota(t)
    BY DEF CallsPaid, Paid
  <2> QED BY <2>1, LedgerTypes
<1> QED
  BY <1>1, <1>2, PaidStep, TypesKept, QueueInvKept, PlacedKept, PTL DEF AuditSpec

----------------------------------------------------------------------------
(***************************************************************************)
(* Bills.                                                                   *)
(***************************************************************************)

\* The calls of a row that are still out are not billed yet, the others were
\* billed once at most.
Caller(t) == {s \in Slot : job[s] = t /\ phase[s] = "calling"}
BilledLess(t) ==
    /\ IsFiniteSet(debits[t])
    /\ Cardinality(debits[t]) + Cardinality(Caller(t)) <= calls[t]
BillsAnswered == \A t \in Task : BilledLess(t)

\* What a step may do to the bills of a row, if it moves no slot but s.
LEMMA AnsweredIf ==
    ASSUME Types, Types', NEW t \in Task, BilledLess(t), NEW s,
           Caller(t)' \subseteq Caller(t) \cup {s},
           \/ /\ debits'[t] = debits[t] /\ calls'[t] = calls[t]
              /\ Caller(t)' \subseteq Caller(t)
           \/ debits'[t] = debits[t] /\ calls'[t] = calls[t] + 1
           \/ /\ \E n : debits'[t] = debits[t] \cup {n}
              /\ calls'[t] = calls[t]
              /\ s \in Caller(t) /\ s \notin Caller(t)'
    PROVE  BilledLess(t)'
<1> DEFINE S == Caller(t)
           T == Caller(t)'
<1>1. S \in SUBSET Slot /\ T \in SUBSET Slot
  BY DEF Caller
<1>2. calls[t] \in Nat /\ calls'[t] \in Nat
  BY DEF Types, AuditTypeOK
<1>3. /\ IsFiniteSet(debits[t]) /\ Cardinality(debits[t]) \in Nat
      /\ Cardinality(debits[t]) + Cardinality(S) <= calls[t]
  BY FS_CardinalityType DEF BilledLess
<1>4. ASSUME NEW n
      PROVE  /\ IsFiniteSet(debits[t] \cup {n})
             /\ Cardinality(debits[t] \cup {n}) \in Nat
             /\ Cardinality(debits[t] \cup {n}) <= Cardinality(debits[t]) + 1
  <2>1. /\ IsFiniteSet(debits[t] \cup {n})
        /\ Cardinality(debits[t] \cup {n}) = IF n \in debits[t] THEN Cardinality(debits[t])
                                             ELSE Cardinality(debits[t]) + 1
    BY <1>3, FS_AddElement
  <2>2. Cardinality(debits[t] \cup {n}) \in Nat
    BY <2>1, FS_CardinalityType
  <2> QED BY <1>3, <2>1, <2>2
<1>5. T \subseteq S \cup {s}
  OBVIOUS
<1>6. /\ Cardinality(S) \in Nat /\ Cardinality(T) \in Nat
      /\ Cardinality(T) <= Cardinality(S) + 1
      /\ T \subseteq S => Cardinality(T) <= Cardinality(S)
      /\ s \in S /\ s \notin T => Cardinality(T) + 1 <= Cardinality(S)
  <2> HIDE DEF S, T
  <2> QED BY <1>1, <1>5, SlotSets
<1>7. IsFiniteSet(debits'[t]) /\ Cardinality(debits'[t]) + Cardinality(T) <= calls'[t]
  <2>1. CASE debits'[t] = debits[t]
    <3>1. \/ calls'[t] = calls[t] /\ Cardinality(T) <= Cardinality(S)
          \/ calls'[t] = calls[t] + 1
      BY <1>2, <1>6
    <3> HIDE DEF S, T
    <3> QED BY <1>2, <1>3, <1>6, <2>1, <3>1
  <2>2. CASE debits'[t] # debits[t]
    <3>1. PICK n : debits'[t] = debits[t] \cup {n}
      BY <2>2
    <3>2. calls'[t] = calls[t] /\ Cardinality(T) + 1 <= Cardinality(S)
      BY <1>6, <2>2
    <3>3. /\ IsFiniteSet(debits[t] \cup {n})
          /\ Cardinality(debits[t] \cup {n}) \in Nat
          /\ Cardinality(debits[t] \cup {n}) <= Cardinality(debits[t]) + 1
      BY <1>4
    <3>4. /\ IsFiniteSet(debits'[t]) /\ Cardinality(debits'[t]) \in Nat
          /\ Cardinality(debits'[t]) <= Cardinality(debits[t]) + 1
      BY <3>1, <3>3
    <3> HIDE DEF S, T
    <3> QED BY <1>2, <1>3, <1>6, <3>2, <3>4
  <2> QED BY <2>1, <2>2
<1> QED BY <1>7 DEF T, BilledLess

LEMMA AnsweredSlotStep ==
    ASSUME Types, Types', Placed, NEW s \in Slot, SlotNext(s),
           NEW t \in Task, BilledLess(t)
    PROVE  BilledLess(t)'
<1>a. Caller(t)' \subseteq Caller(t) \cup {s}
  BY OthersUntouched DEF Caller
<1>b. s \notin Caller(t)' \/ s \in Caller(t) => Caller(t)' \subseteq Caller(t)
  BY <1>a
<1>p. PlaceOf(s)
  BY DEF Placed
<1>f. /\ phase \in [Slot -> Phase] /\ job \in [Slot -> Task \cup {NoTask}]
      /\ debits \in [Task -> SUBSET Nat] /\ calls \in [Task -> Nat]
  BY DEF Types, TypeOK, AuditTypeOK
<1> USE DEF GoTo
<1>1. ASSUME UNCHANGED <<debits, calls>>, s \notin Caller(t)' \/ s \in Caller(t)
      PROVE  BilledLess(t)'
  BY <1>1, <1>a, <1>b, AnsweredIf
<1>2. CASE SlotBeginClaim(s) \/ SlotClaimNothing(s) \/ SlotHeartbeat(s)
  <2>1. UNCHANGED <<debits, calls, job, phase>>
    BY <1>2 DEF SlotBeginClaim, SlotClaimNothing, SlotHeartbeat, BeginClaim,
                ClaimNothing, Heartbeat, auditVars, slotVars
  <2> QED BY <1>1, <2>1 DEF Caller
<1>3. CASE \/ Boundary(s) \/ BillRefused(s) \/ Raise(s) \/ CountSucceeded(s)
           \/ Conclude(s) \/ Aggregate(s) \/ FinalizerRaises(s)
  <2>1. UNCHANGED <<debits, calls>> /\ phase'[s] # "calling"
    BY <1>3, <1>f DEF Boundary, BillRefused, Raise, CountSucceeded, Conclude,
                Aggregate, FinalizerRaises, evidenceVars, ledgerVars
  <2> QED BY <1>1, <2>1 DEF Caller
<1>4. CASE \/ \E u \in Task : SlotClaim(s, u)
           \/ StopOverdue(s) \/ RecordCrash(s) \/ LeaveTask(s)
           \/ Reject(s) \/ Park(s) \/ SettleTask(s)
  <2>1. UNCHANGED <<debits, calls>> /\ phase'[s] # "calling"
    BY <1>4, <1>f DEF SlotClaim, StopOverdue, RecordCrash, LeaveTask, Reject, Park,
                SettleTask, evidenceVars, ledgerVars
  <2> QED BY <1>1, <2>1 DEF Caller
<1>5. CASE StartCall(s)
  <2>1. /\ phase[s] = "ready" /\ job'[s] = job[s] /\ job[s] \in Task /\ debits' = debits
        /\ calls' = [calls EXCEPT ![job[s]] = @ + 1]
    BY <1>5, <1>f DEF StartCall, MarkRunning, slotVars, ledgerVars, Working
  <2>2. CASE job[s] = t
    BY <1>a, <1>f, <2>1, <2>2, AnsweredIf
  <2>3. CASE job[s] # t
    <3>1. UNCHANGED <<debits[t], calls[t]>> /\ s \notin Caller(t)'
      BY <1>f, <2>1, <2>3 DEF Caller
    <3> QED BY <1>a, <1>b, <3>1, AnsweredIf
  <2> QED BY <2>2, <2>3
<1>6. CASE PersistSuccess(s) \/ (\E v \in Verdict : PersistFailure(s, v))
  <2>1. /\ phase[s] = "calling" /\ phase'[s] = "recorded" /\ calls' = calls
        /\ \E b \in BOOLEAN : Bill(job[s], b)
    BY <1>6, <1>f DEF PersistSuccess, PersistFailure, evidenceVars
  <2>2. job[s] \in Task
    BY <1>p, <2>1 DEF PlaceOf, Unanswered
  <2>3. s \notin Caller(t)'
    BY <2>1 DEF Caller
  <2>4. CASE debits'[t] = debits[t]
    BY <1>a, <1>b, <2>1, <2>3, <2>4, AnsweredIf
  <2>5. CASE debits'[t] # debits[t]
    <3>1. job[s] = t /\ debits'[t] = debits[t] \cup {attempts[t] + 1}
      BY <1>f, <2>1, <2>2, <2>5 DEF Bill
    <3>2. s \in Caller(t)
      BY <2>1, <3>1 DEF Caller
    <3> QED BY <1>a, <2>1, <2>3, <3>1, <3>2, AnsweredIf
  <2> QED BY <2>4, <2>5
<1> QED BY <1>2, <1>3, <1>4, <1>5, <1>6 DEF SlotNext

LEMMA AnsweredStep ==
    Types /\ Types' /\ Placed /\ BillsAnswered /\ [AuditNext]_allVars => BillsAnswered'
<1> SUFFICES ASSUME Types, Types', Placed, BillsAnswered, [AuditNext]_allVars,
                    NEW t \in Task
             PROVE  BilledLess(t)'
  BY DEF BillsAnswered
<1>0. BilledLess(t)
  BY DEF BillsAnswered
<1>1. CASE \E s \in Slot : SlotNext(s)
  BY <1>0, <1>1, AnsweredSlotStep
<1>2. CASE Elsewhere
  <2>1. Caller(t)' = Caller(t)
    BY <1>2, SlotsUntouched DEF Caller
  <2>2. UNCHANGED <<debits, calls>>
    <3>1. CASE \/ \E p \in Proc, batch \in SUBSET Task : WorkerSweep(p, batch)
               \/ \E batch \in SUBSET Task : BackstopSweep(batch)
      BY <3>1 DEF WorkerSweep, BackstopSweep, evidenceVars, auditVars
    <3>2. CASE \E u \in Task : JanitorRead(u) \/ JanitorWrite(u) \/ JanitorFails(u)
      BY <3>2 DEF JanitorRead, JanitorWrite, JanitorFails, evidenceVars
    <3>3. CASE \E u \in Task : AuditLeaseExpires(u) \/ AuditBecomeDue(u)
      BY <3>3 DEF AuditLeaseExpires, AuditBecomeDue, auditVars
    <3>4. CASE CancelAudit
      BY <3>4 DEF CancelAudit, evidenceVars
    <3>5. CASE DeadlinePasses \/ UNCHANGED allVars
      BY <3>5 DEF DeadlinePasses, allVars, auditVars, evidenceVars, ledgerVars
    <3> QED BY <1>2, <3>1, <3>2, <3>3, <3>4, <3>5 DEF Elsewhere
  <2> QED BY <1>0, <2>1, <2>2, AnsweredIf
<1>3. ASSUME NEW p \in Proc, WorkerCrash(p) PROVE BilledLess(t)'
  <2>1. UNCHANGED <<debits, calls>>
    BY <1>3 DEF WorkerCrash, evidenceVars
  <2>2. Caller(t)' \subseteq Caller(t)
    BY <1>3, CrashPlaces DEF Caller
  <2> QED BY <1>0, <2>1, <2>2, AnsweredIf
<1> QED BY <1>1, <1>2, <1>3, RunSteps

\* For any tasks, slots and processes, whatever stalls, raises and dies: a task
\* is never billed for more attempts than the provider was called for
\* ("one per ACTUAL provider call", _apply_funded_ledger).
THEOREM BilledForCalls == AuditSpec => []BilledOnlyForCalls
<1>1. ASSUME AuditInit PROVE BillsAnswered
  <2> SUFFICES ASSUME NEW t \in Task PROVE BilledLess(t)
    BY DEF BillsAnswered
  <2>1. Caller(t) = {} /\ debits[t] = {} /\ calls[t] = 0
    BY <1>1 DEF AuditInit, Init, Caller
  <2> QED BY <2>1, FS_EmptySet DEF BilledLess
<1>2. Types /\ BillsAnswered => BilledOnlyForCalls
  <2> SUFFICES ASSUME Types, BillsAnswered, NEW t \in Task
               PROVE  Cardinality(debits[t]) <= calls[t]
    BY DEF BilledOnlyForCalls
  <2>1. IsFiniteSet(Caller(t)) /\ IsFiniteSet(debits[t])
    BY AuditAssumption, FS_Subset DEF Caller, BillsAnswered, BilledLess
  <2>2. /\ Cardinality(Caller(t)) \in Nat /\ Cardinality(debits[t]) \in Nat
        /\ Cardinality(debits[t]) + Cardinality(Caller(t)) <= calls[t]
    BY <2>1, FS_CardinalityType DEF BillsAnswered, BilledLess
  <2>3. calls[t] \in Nat
    BY DEF Types, AuditTypeOK
  <2> QED BY <2>2, <2>3
<1> QED
  BY <1>1, <1>2, AnsweredStep, TypesKept, PlacedKept, PTL DEF AuditSpec

----------------------------------------------------------------------------
(***************************************************************************)
(* Nothing is kept from the account.                                        *)
(***************************************************************************)

\* What each way of releasing does to a reservation.
LEMMA ReleaseOfBatch ==
    ASSUME Types, NEW batch, ReleaseUnused(batch), NEW t \in Task
    PROVE  /\ released'[t] >= released[t]
           /\ t \in batch \cap Funded => released'[t] >= MaxAttempts
           /\ t \notin batch => released'[t] = released[t]
           /\ released[t] <= MaxAttempts => released'[t] <= MaxAttempts
BY ConstantsAssumption DEF ReleaseUnused, Outstanding, Types, AuditTypeOK

LEMMA ReleaseOfBill ==
    ASSUME Types, NEW j \in Task, NEW terminal \in BOOLEAN, Bill(j, terminal), NEW t \in Task
    PROVE  /\ released'[t] >= released[t]
           /\ t = j /\ t \in Funded /\ terminal => released'[t] = MaxAttempts
           /\ t = j /\ t \in Funded /\ ~terminal =>
                  released'[t] = released[t] + 1 /\ released'[t] <= MaxAttempts
           /\ t # j => released'[t] = released[t]
           /\ released[t] <= MaxAttempts => released'[t] <= MaxAttempts
BY ConstantsAssumption DEF Bill, CanBill, Outstanding, Types, AuditTypeOK

\* A reservation with nothing outstanding, and who relies on that: the end of
\* a row, a slot on its way to end one, and a best-effort release under way.
Exhausted(t) == released[t] >= MaxAttempts
Ending(s, t) ==
    job[s] = t /\ (phase[s] = "stopped" \/ verdict[s] \in {"succeeded", "failed"})
Cleared(t) ==
    /\ status[t] \in Terminal /\ janitor[t].stage = "none" => Exhausted(t)
    /\ janitor[t].stage = "read" => released[t] + janitor[t].units >= MaxAttempts
    /\ \A s \in Slot : Ending(s, t) => Exhausted(t)
AllCleared == \A t \in Funded : Cleared(t)

LEMMA FundedTypes ==
    ASSUME Types, NEW t \in Funded
    PROVE  /\ t \in Task /\ released[t] \in Nat /\ MaxAttempts \in Nat \ {0}
           /\ janitor[t].units \in Int
           /\ janitor[t] \in [stage : {"none", "due", "read"},
                              by : Proc \cup {NoOwner}, units : Int]
BY AuditAssumption, ConstantsAssumption DEF Types, AuditTypeOK

\* A step that is no best-effort release.
LEMMA ClearedIf ==
    ASSUME Types, Types', NEW t \in Funded, Cleared(t), released'[t] >= released[t],
           janitor'[t] = janitor[t],
           status'[t] \in Terminal => status[t] \in Terminal \/ Exhausted(t)',
           \A s \in Slot : Ending(s, t)' => Ending(s, t) \/ Exhausted(t)'
    PROVE  Cleared(t)'
<1>1. /\ released[t] \in Nat /\ MaxAttempts \in Nat /\ janitor[t].units \in Int
  BY FundedTypes
<1>2. released'[t] \in Nat
  BY FundedTypes DEF Types, AuditTypeOK
<1>3. Exhausted(t) => Exhausted(t)'
  BY <1>1, <1>2 DEF Exhausted
<1>4. (\A s \in Slot : Ending(s, t) => Exhausted(t))'
  BY <1>3 DEF Cleared
<1>5. janitor'[t].stage = "read" => released'[t] + janitor'[t].units >= MaxAttempts
  BY <1>1, <1>2 DEF Cleared
<1>6. status'[t] \in Terminal /\ janitor'[t].stage = "none" => Exhausted(t)'
  BY <1>3 DEF Cleared
<1> QED BY <1>4, <1>5, <1>6 DEF Cleared

LEMMA ClearedSlotStep ==
    ASSUME Types, Types', Placed, NEW s \in Slot, SlotNext(s),
           NEW t \in Funded, Cleared(t)
    PROVE  Cleared(t)'
<1>t. t \in Task /\ released[t] \in Nat /\ MaxAttempts \in Nat
  BY FundedTypes
<1>p. PlaceOf(s)
  BY DEF Placed
<1>f. /\ phase \in [Slot -> Phase] /\ job \in [Slot -> Task \cup {NoTask}]
      /\ verdict \in [Slot -> Verdict] /\ released \in [Task -> Nat]
      /\ status \in [Task -> Status]
  BY DEF Types, TypeOK, AuditTypeOK
<1>o. \A q \in Slot : q # s /\ Ending(q, t)' => Ending(q, t)
  BY OthersUntouched DEF Ending
<1> USE ConstantsAssumption DEF GoTo, Drop
<1>1. ASSUME UNCHANGED <<released, janitor>>,
             status'[t] \in Terminal => status[t] \in Terminal \/ Exhausted(t)',
             Ending(s, t)' => Ending(s, t)
      PROVE  Cleared(t)'
  BY <1>1, <1>t, <1>o, ClearedIf
<1>2. CASE SlotBeginClaim(s) \/ SlotClaimNothing(s) \/ SlotHeartbeat(s)
  <2>1. UNCHANGED <<released, janitor, status, job, verdict, phase>>
    BY <1>2 DEF SlotBeginClaim, SlotClaimNothing, SlotHeartbeat, BeginClaim,
                ClaimNothing, Heartbeat, auditVars, rowVars, slotVars
  <2> QED BY <1>1, <2>1 DEF Ending
<1>3. CASE \/ BillRefused(s) \/ Raise(s) \/ CountSucceeded(s)
           \/ Conclude(s) \/ Aggregate(s) \/ FinalizerRaises(s) \/ StartCall(s)
  <2>1. /\ UNCHANGED <<released, janitor, job, verdict>> /\ phase'[s] # "stopped"
        /\ status'[t] = status[t] \/ status'[t] = "running"
    BY <1>3, <1>f, <1>t DEF BillRefused, Raise, CountSucceeded, Conclude, Aggregate,
                FinalizerRaises, StartCall, MarkRunning, vars, slotVars, ledgerVars
  <2> QED BY <1>1, <2>1 DEF Ending, Terminal
<1>4. CASE Boundary(s)
  <2>1. UNCHANGED <<status, janitor, job, verdict>>
    BY <1>4 DEF Boundary, vars
  <2>2. CASE ReleaseUnused({job[s]})
    <3>1. released'[t] >= released[t] /\ (job[s] = t => Exhausted(t)')
      BY <1>t, <2>2, ReleaseOfBatch DEF Exhausted
    <3> QED BY <1>o, <2>1, <3>1, ClearedIf DEF Ending
  <2>3. CASE released' = released /\ phase'[s] = "ready"
    BY <1>1, <2>1, <2>3 DEF Ending
  <2> QED BY <1>4, <1>f, <2>2, <2>3 DEF Boundary
<1>5. ASSUME NEW u \in Task, SlotClaim(s, u) PROVE Cleared(t)'
  <2>1. /\ UNCHANGED <<released, janitor, verdict>> /\ phase'[s] = "boundary"
        /\ scan[s] # {} /\ (status'[t] = status[t] \/ status'[t] = "leased")
    BY <1>5, <1>f, <1>t DEF SlotClaim, Claim, ledgerVars
  <2>2. verdict[s] = "none"
    BY <1>p, <2>1 DEF PlaceOf, Resting
  <2> QED BY <1>1, <2>1, <2>2 DEF Ending, Terminal
<1>6. CASE StopOverdue(s) \/ Park(s) \/ SettleTask(s) \/ LeaveTask(s)
  <2>1. UNCHANGED <<released, janitor>> /\ job'[s] = NoTask
    BY <1>6, <1>f DEF StopOverdue, Park, SettleTask, LeaveTask, FailOutright, PutBack,
                Settle, Abandon, ledgerVars
  <2>2. status'[t] \in Terminal => status[t] \in Terminal \/ Ending(s, t)
    <3>1. CASE StopOverdue(s)
      BY <3>1, <1>t DEF StopOverdue, FailOutright, Unlease, Ending
    <3>2. CASE Park(s)
      BY <3>2, <1>t DEF Park, PutBack, Unlease, Terminal
    <3>3. CASE SettleTask(s)
      BY <3>3, <1>t, <1>f DEF SettleTask, Settle, Unlease, Ending, Terminal, Verdict
    <3>4. CASE LeaveTask(s)
      BY <3>4 DEF LeaveTask, Abandon, rowVars
    <3> QED BY <1>6, <3>1, <3>2, <3>3, <3>4
  <2>3. Ending(s, t) => Exhausted(t)'
    BY <2>1 DEF Cleared, Exhausted
  <2>4. ~Ending(s, t)'
    BY <1>t, <2>1 DEF Ending
  <2> QED BY <1>1, <2>1, <2>2, <2>3, <2>4
<1>7. CASE Reject(s) \/ PersistSuccess(s) \/ (\E v \in Verdict : PersistFailure(s, v))
  <2>1. /\ UNCHANGED <<status, janitor, job>> /\ phase'[s] = "recorded"
        /\ phase[s] \in {"ready", "calling"}
    BY <1>7, <1>f DEF Reject, PersistSuccess, PersistFailure, RecordAttempt
  <2>2. job[s] \in Task
    BY <1>p, <2>1 DEF PlaceOf, Unanswered
  <2>3. /\ released'[t] >= released[t]
        /\ Ending(s, t)' => Exhausted(t)'
    <3>1. CASE Reject(s)
      BY <1>t, <2>1, <3>1, ReleaseOfBatch DEF Reject, Ending, Exhausted
    <3>2. CASE PersistSuccess(s)
      <4>1. Bill(job[s], TRUE)
        BY <3>2 DEF PersistSuccess
      <4>2. /\ released'[t] >= released[t]
            /\ t = job[s] => released'[t] = MaxAttempts
        BY <1>t, <2>2, <4>1, ReleaseOfBill
      <4> QED BY <1>t, <2>1, <4>2 DEF Ending, Exhausted
    <3>3. ASSUME NEW v \in Verdict, PersistFailure(s, v)
          PROVE  released'[t] >= released[t] /\ (Ending(s, t)' => Exhausted(t)')
      <4>1. /\ Bill(job[s], v = "failed") /\ verdict'[s] = v
            /\ v \in {"retry_wait", "failed"}
        BY <1>f, <3>3 DEF PersistFailure, RecordAttempt
      <4>2. /\ released'[t] >= released[t]
            /\ t = job[s] /\ v = "failed" => released'[t] = MaxAttempts
        BY <1>t, <2>2, <4>1, ReleaseOfBill
      <4> QED BY <1>t, <2>1, <4>1, <4>2 DEF Ending, Exhausted
    <3> QED BY <1>7, <3>1, <3>2, <3>3
  <2> QED BY <1>o, <2>1, <2>3, ClearedIf
<1>8. CASE RecordCrash(s)
  <2>1. released' = released /\ job'[s] = NoTask
    BY <1>8, <1>f DEF RecordCrash, FailOutright
  <2>2. ~Ending(s, t)'
    BY <1>t, <2>1 DEF Ending
  <2>3. CASE job[s] = t
    <3>1. janitor'[t].stage = "due"
      BY <1>8, <1>t, <2>3 DEF RecordCrash, OweRelease
    <3>2. \A q \in Slot : Ending(q, t)' => Exhausted(t)'
      BY <1>o, <2>1, <2>2 DEF Cleared, Exhausted
    <3> QED BY <3>1, <3>2 DEF Cleared
  <2>4. CASE job[s] # t
    <3>1. janitor'[t] = janitor[t] /\ status'[t] = status[t]
      BY <1>8, <1>t, <2>4 DEF RecordCrash, OweRelease, FailOutright, Unlease
    <3> QED BY <1>t, <1>o, <2>1, <2>2, <3>1, ClearedIf
  <2> QED BY <2>3, <2>4
<1> QED BY <1>2, <1>3, <1>4, <1>5, <1>6, <1>7, <1>8 DEF SlotNext

\* Only the standalone sweeper, which knows of no credits, the death of a
\* process that owes a release and a release that raises leave one undone.
LEMMA ClearedStep ==
    ASSUME Types, Types', Placed, AllCleared, [AuditNext]_allVars,
           "backstop" \notin Environment, "crash" \notin Environment,
           "janitor" \notin Environment
    PROVE  AllCleared'
<1> SUFFICES ASSUME NEW t \in Funded PROVE Cleared(t)'
  BY DEF AllCleared
<1>0. Cleared(t)
  BY DEF AllCleared
<1>t. t \in Task /\ released[t] \in Nat /\ MaxAttempts \in Nat /\ janitor[t].units \in Int
  BY FundedTypes
<1>1. CASE \E s \in Slot : SlotNext(s)
  BY <1>0, <1>1, ClearedSlotStep
<1>2. CASE Elsewhere
  <2>o. \A s \in Slot : Ending(s, t)' <=> Ending(s, t)
    BY <1>2, SlotsUntouched DEF Ending
  <2>1. ASSUME UNCHANGED <<released, janitor>>, status'[t] \in Terminal => status[t] \in Terminal
        PROVE  Cleared(t)'
    BY <1>0, <1>t, <2>o, <2>1, ClearedIf
  <2>2. ASSUME NEW p \in Proc, NEW batch \in SUBSET Task, WorkerSweep(p, batch)
        PROVE  Cleared(t)'
    <3>1. released' = released
      BY <2>2 DEF WorkerSweep
    <3>2. CASE t \in FailedBy(batch)
      <4>1. janitor'[t].stage = "due"
        BY <1>t, <2>2, <3>2 DEF WorkerSweep, OweRelease
      <4>2. \A s \in Slot : Ending(s, t)' => Exhausted(t)'
        BY <1>0, <2>o, <3>1 DEF Cleared, Exhausted
      <4> QED BY <4>1, <4>2 DEF Cleared
    <3>3. CASE t \notin FailedBy(batch)
      <4>1. /\ janitor'[t] = janitor[t]
            /\ status'[t] = status[t] \/ status'[t] = "retry_wait"
        BY <1>t, <2>2, <3>3 DEF WorkerSweep, OweRelease, Sweep, FailedBy, Reclaimed
      <4> QED BY <1>0, <1>t, <2>o, <3>1, <4>1, ClearedIf DEF Terminal
    <3> QED BY <3>2, <3>3
  <2>3. ASSUME NEW u \in Task, JanitorRead(u) PROVE Cleared(t)'
    <3>1. released' = released /\ status' = status
      BY <2>3 DEF JanitorRead, vars
    <3>2. CASE u = t
      <4>1. janitor'[t].stage = "read" /\ janitor'[t].units = MaxAttempts - released[t]
        BY <1>t, <2>3, <3>2, FundedTypes DEF JanitorRead, Outstanding, Types, AuditTypeOK
      <4>2. \A s \in Slot : Ending(s, t)' => Exhausted(t)'
        BY <1>0, <2>o, <3>1 DEF Cleared, Exhausted
      <4> QED BY <1>t, <3>1, <4>1, <4>2 DEF Cleared
    <3>3. CASE u # t
      <4>1. janitor'[t] = janitor[t]
        BY <1>t, <2>3, <3>3 DEF JanitorRead, Types, AuditTypeOK
      <4> QED BY <1>0, <1>t, <2>o, <3>1, <4>1, ClearedIf
    <3> QED BY <3>2, <3>3
  <2>4. ASSUME NEW u \in Task, JanitorWrite(u) PROVE Cleared(t)'
    <3>1. status' = status
      BY <2>4 DEF JanitorWrite, vars
    <3>2. CASE u = t
      <4>1. /\ janitor'[t] = NoRelease /\ janitor[t].stage = "read"
            /\ released'[t] = IF janitor[t].units > 0 THEN released[t] + janitor[t].units
                              ELSE released[t]
        BY <1>t, <2>4, <3>2 DEF JanitorWrite, Types, AuditTypeOK
      <4>2. released[t] + janitor[t].units >= MaxAttempts
        BY <1>0, <4>1 DEF Cleared
      <4>3. Exhausted(t)'
        BY <1>t, <4>1, <4>2 DEF Exhausted
      <4> QED BY <4>1, <4>3 DEF Cleared, NoRelease
    <3>3. CASE u # t
      <4>1. janitor'[t] = janitor[t] /\ released'[t] = released[t]
        BY <1>t, <2>4, <3>3 DEF JanitorWrite, Types, AuditTypeOK
      <4> QED BY <1>0, <1>t, <2>o, <3>1, <4>1, ClearedIf
    <3> QED BY <3>2, <3>3
  <2>5. CASE \E u \in Task : AuditLeaseExpires(u) \/ AuditBecomeDue(u)
    BY <2>1, <2>5 DEF AuditLeaseExpires, AuditBecomeDue, LeaseExpires, BecomeDue, auditVars
  <2>6. CASE CancelAudit
    <3>1. janitor' = janitor /\ ReleaseUnused(Open)
      BY <2>6 DEF CancelAudit
    <3>2. released'[t] >= released[t] /\ (t \in Open => Exhausted(t)')
      BY <1>t, <3>1, ReleaseOfBatch DEF Exhausted
    <3>3. status'[t] \in Terminal => status[t] \in Terminal \/ Exhausted(t)'
      BY <1>t, <3>2 DEF Open
    <3> QED BY <1>0, <2>o, <3>1, <3>2, <3>3, ClearedIf
  <2>7. CASE DeadlinePasses \/ UNCHANGED allVars
    BY <2>1, <2>7 DEF DeadlinePasses, allVars, auditVars, ledgerVars, vars
  <2>8. ASSUME NEW batch \in SUBSET Task, BackstopSweep(batch) PROVE FALSE
    BY <2>8 DEF BackstopSweep
  <2>9. ASSUME NEW u \in Task, JanitorFails(u) PROVE FALSE
    BY <2>9 DEF JanitorFails
  <2> QED BY <1>2, <2>2, <2>3, <2>4, <2>5, <2>6, <2>7, <2>8, <2>9 DEF Elsewhere
<1>3. ASSUME NEW p \in Proc, WorkerCrash(p) PROVE FALSE
  BY <1>3 DEF WorkerCrash
<1> QED BY <1>1, <1>2, <1>3, RunSteps

\* Where no process dies, no standalone sweeper runs and no janitor's release
\* raises, and whatever stalls, is cancelled, comes too late or raises in an
\* executor: a terminal funded task owes nothing, or its release is under way.
\* Each exclusion is real: it leaves credits reserved (QueueSweeper._sweep,
\* _release_terminalized_funded_task, which logs what it catches).
THEOREM NothingLeaks ==
    "backstop" \notin Environment /\ "crash" \notin Environment
        /\ "janitor" \notin Environment => (AuditSpec => []NoLeak)
<1> SUFFICES ASSUME "backstop" \notin Environment, "crash" \notin Environment,
                    "janitor" \notin Environment
             PROVE  AuditSpec => []NoLeak
  OBVIOUS
<1>1. ASSUME AuditInit PROVE AllCleared
  BY <1>1, AuditAssumption, ConstantsAssumption
     DEF AuditInit, Init, AllCleared, Cleared, Ending, NoRelease, Terminal
<1>2. Types /\ AllCleared => NoLeak
  <2> SUFFICES ASSUME Types, AllCleared, NEW t \in Funded, status[t] \in Terminal,
                      janitor[t].stage = "none"
               PROVE  Outstanding(t) <= 0
    BY DEF NoLeak
  <2> QED BY FundedTypes DEF AllCleared, Cleared, Exhausted, Outstanding
<1>3. Types /\ Types' /\ Placed /\ AllCleared /\ [AuditNext]_allVars => AllCleared'
  BY ClearedStep
<1> QED BY <1>1, <1>2, <1>3, TypesKept, PlacedKept, PTL DEF AuditSpec

----------------------------------------------------------------------------
(***************************************************************************)
(* Nothing is released twice.                                               *)
(***************************************************************************)

\* Where no executor stalls, a slot owns the row it works on until a
\* cancellation takes it, and no lease runs out under it.
Own(s) == job[s] \in Task => holder[job[s]] = s \/ status[job[s]] = "cancelled"
HoldsOwn == \A s \in Slot : Own(s)
NoneLapsed ==
    \A t \in Task, s \in Slot : lease[t] = "expired" /\ job[s] = t => holder[t] # s
Lapse == \E t \in Task, s \in Slot : LeaseExpires(t) /\ job[s] = t /\ holder[t] = s

LEMMA OwnStep ==
    QueueInv /\ HoldsOwn /\ NoneLapsed /\ [Next]_vars /\ ~Lapse
        => HoldsOwn' /\ NoneLapsed'
<1> SUFFICES ASSUME QueueInv, HoldsOwn, NoneLapsed, [Next]_vars, ~Lapse,
                    NEW t \in Task, NEW q \in Slot, job'[q] = t
             PROVE  /\ holder'[t] = q \/ status'[t] = "cancelled"
                    /\ lease'[t] = "expired" => holder'[t] # q
  BY DEF HoldsOwn, NoneLapsed, Own
<1> DEFINE Goal == /\ holder'[t] = q \/ status'[t] = "cancelled"
                   /\ lease'[t] = "expired" => holder'[t] # q
<1>f. /\ status \in [Task -> Status] /\ lease \in [Task -> {"none", "live", "expired"}]
      /\ holder \in [Task -> Slot \cup {Gone, NoOwner}]
      /\ job \in [Slot -> Task \cup {NoTask}]
  BY DEF QueueInv, TypeOK
<1>l. /\ holder[t] = NoOwner <=> status[t] \notin Leased
      /\ lease[t] = "none" <=> status[t] \notin Leased
  BY DEF QueueInv, LeaseMatchesStatus
<1>o. /\ job[q] = t => holder[t] = q \/ status[t] = "cancelled"
      /\ lease[t] = "expired" /\ job[q] = t => holder[t] # q
  BY DEF HoldsOwn, NoneLapsed, Own
<1>e. ASSUME NEW s \in Slot, Owned(s, t), job[s] = t PROVE holder[t] = s
  <2>1. status[t] \in Leased
    BY <1>e, OwnedIsLeased
  <2> QED BY <1>e, <2>1 DEF HoldsOwn, Own, Leased
<1>g. ASSUME job[q] = t, holder'[t] = holder[t], status'[t] = status[t] \/ status[t] \in Leased,
             lease'[t] = lease[t] \/ lease'[t] = "live"
      PROVE  Goal
  BY <1>g, <1>o DEF Leased
<1> USE ConstantsAssumption DEF Working, Drop
<1>1. ASSUME NEW s \in Slot, BeginClaim(s) \/ ClaimNothing(s) \/ Heartbeat(s) PROVE Goal
  BY <1>1, <1>f, <1>g DEF BeginClaim, ClaimNothing, Heartbeat, rowVars, slotVars
<1>2. ASSUME NEW s \in Slot, NEW u \in Task, Claim(s, u) PROVE Goal
  <2>1. /\ holder' = [holder EXCEPT ![u] = s] /\ lease' = [lease EXCEPT ![u] = "live"]
        /\ status' = [status EXCEPT ![u] = "leased"] /\ job' = [job EXCEPT ![s] = u]
        /\ status[u] \in Claimable
    BY <1>2 DEF Claim, StillEligible, Eligible
  <2>2. CASE u = t
    <3>1. job[q] # t
      BY <1>l, <1>o, <2>1, <2>2 DEF Claimable, Leased
    <3>2. q = s
      BY <1>f, <2>1, <3>1
    <3> QED BY <1>f, <2>1, <2>2, <3>2
  <2>3. CASE u # t
    <3>1. q # s /\ job[q] = t
      BY <1>f, <2>1, <2>3
    <3> QED BY <1>f, <1>g, <2>1, <2>3, <3>1
  <2> QED BY <2>2, <2>3
<1>3. ASSUME NEW s \in Slot,
             MarkRunning(s) \/ (\E v \in Verdict : RecordAttempt(s, v)) PROVE Goal
  <2>1. /\ UNCHANGED <<holder, lease, job>>
        /\ status'[t] = status[t] \/ status[t] \in Leased
    BY <1>3, <1>f DEF MarkRunning, RecordAttempt, slotVars, Leased
  <2> QED BY <1>g, <2>1
<1>4. ASSUME NEW s \in Slot, Settle(s) \/ FailOutright(s) \/ PutBack(s) PROVE Goal
  <2>1. /\ Owned(s, job[s]) /\ job' = [job EXCEPT ![s] = NoTask]
        /\ \E st : Unlease({job[s]}, st)
    BY <1>4 DEF Settle, FailOutright, PutBack
  <2>2. q # s /\ job[q] = t
    BY <1>f, <2>1
  <2>3. CASE job[s] = t
    <3>1. holder[t] = s /\ status[t] \in Leased
      BY <1>e, <2>1, <2>3, OwnedIsLeased
    <3> QED BY <1>o, <2>2, <3>1 DEF Leased
  <2>4. CASE job[s] # t
    BY <1>g, <2>1, <2>2, <2>4 DEF Unlease
  <2> QED BY <2>3, <2>4
<1>5. ASSUME NEW s \in Slot, Abandon(s) PROVE Goal
  BY <1>5, <1>f, <1>g DEF Abandon, rowVars
<1>6. ASSUME NEW batch \in SUBSET Task, Cancel(batch) PROVE Goal
  <2>1. CASE t \in batch
    BY <1>6, <2>1 DEF Cancel, Unlease
  <2>2. CASE t \notin batch
    BY <1>6, <1>g, <2>2 DEF Cancel, Unlease, slotVars
  <2> QED BY <2>1, <2>2
<1>7. ASSUME NEW batch \in SUBSET Task, Sweep(batch) PROVE Goal
  <2>1. job[q] = t
    BY <1>7 DEF Sweep, slotVars
  <2>2. t \notin batch
    BY <1>7, <1>o, <2>1 DEF Sweep, Reclaimable, Leased
  <2> QED BY <1>7, <1>g, <2>1, <2>2 DEF Sweep
<1>8. ASSUME NEW u \in Task, LeaseExpires(u) PROVE Goal
  <2>1. UNCHANGED <<status, holder, job>> /\ lease' = [lease EXCEPT ![u] = "expired"]
    BY <1>8 DEF LeaseExpires, slotVars
  <2>2. u = t => holder[t] # q
    BY <1>8, <2>1 DEF Lapse
  <2> QED BY <1>f, <1>o, <2>1, <2>2
<1>9. ASSUME NEW u \in Task, BecomeDue(u) PROVE Goal
  BY <1>9, <1>g DEF BecomeDue, slotVars
<1>10. ASSUME NEW p \in Proc, Crash(p) PROVE Goal
  <2>1. Home[q] # p /\ job[q] = t
    BY <1>10, <1>f DEF Crash
  <2>2. /\ holder'[t] = IF holder[t] \in Slot /\ Home[holder[t]] = p THEN Gone ELSE holder[t]
        /\ UNCHANGED <<status, lease>>
    BY <1>10 DEF Crash
  <2> QED BY <1>o, <2>1, <2>2
<1>11. CASE UNCHANGED vars
  BY <1>11, <1>g DEF vars
<1> QED
  BY <1>1, <1>2, <1>3, <1>4, <1>5, <1>6, <1>7, <1>8, <1>9, <1>10, <1>11 DEF Next

\* No step of a slot lets a lease run out.
LEMMA SlotLetsLiveOn ==
    ASSUME Types, NEW s \in Slot, SlotNext(s), NEW t \in Task, lease'[t] = "expired"
    PROVE  lease[t] = "expired"
<1>f. lease \in [Task -> {"none", "live", "expired"}]
  BY DEF Types, TypeOK
<1>1. CASE SlotBeginClaim(s) \/ SlotClaimNothing(s) \/ SlotHeartbeat(s)
  BY <1>1, <1>f DEF SlotBeginClaim, SlotClaimNothing, SlotHeartbeat, BeginClaim,
                    ClaimNothing, Heartbeat, rowVars
<1>2. CASE \E u \in Task : SlotClaim(s, u)
  BY <1>2, <1>f DEF SlotClaim, Claim
<1>3. CASE \/ Boundary(s) \/ BillRefused(s) \/ Raise(s) \/ CountSucceeded(s)
           \/ Conclude(s) \/ Aggregate(s) \/ FinalizerRaises(s)
  BY <1>3 DEF Boundary, BillRefused, Raise, CountSucceeded, Conclude, Aggregate,
              FinalizerRaises, vars
<1>4. CASE StopOverdue(s) \/ RecordCrash(s) \/ Park(s) \/ SettleTask(s)
  <2>1. \E batch, st : Unlease(batch, st)
    BY <1>4 DEF StopOverdue, RecordCrash, Park, SettleTask, FailOutright, PutBack, Settle
  <2> QED BY <1>f, <2>1 DEF Unlease
<1>5. CASE \/ Reject(s) \/ PersistSuccess(s) \/ (\E v \in Verdict : PersistFailure(s, v))
           \/ StartCall(s) \/ LeaveTask(s)
  BY <1>5 DEF Reject, PersistSuccess, PersistFailure, RecordAttempt, StartCall,
              MarkRunning, LeaveTask, Abandon, rowVars
<1> QED BY <1>1, <1>2, <1>3, <1>4, <1>5 DEF SlotNext

LEMMA CalmStep ==
    ASSUME Types, [AuditNext]_allVars, "stall" \notin Environment
    PROVE  ~Lapse
<1> SUFFICES ASSUME NEW t \in Task, NEW q \in Slot, LeaseExpires(t), job[q] = t, holder[t] = q
             PROVE  FALSE
  BY DEF Lapse
<1>1. lease[t] = "live" /\ lease'[t] = "expired"
  BY DEF LeaseExpires, Types, TypeOK
<1>2. CASE \E s \in Slot : SlotNext(s)
  BY <1>1, <1>2, SlotLetsLiveOn
<1>3. CASE \/ \E p \in Proc, batch \in SUBSET Task : WorkerSweep(p, batch)
           \/ \E batch \in SUBSET Task : BackstopSweep(batch)
  BY <1>1, <1>3 DEF WorkerSweep, BackstopSweep, Sweep
<1>4. CASE \E u \in Task : JanitorRead(u) \/ JanitorWrite(u) \/ JanitorFails(u)
  BY <1>1, <1>4 DEF JanitorRead, JanitorWrite, JanitorFails, vars
<1>5. CASE \E u \in Task : AuditLeaseExpires(u)
  BY <1>1, <1>5 DEF AuditLeaseExpires, LeaseExpires, Types, TypeOK
<1>6. CASE \E u \in Task : AuditBecomeDue(u)
  BY <1>1, <1>6 DEF AuditBecomeDue, BecomeDue
<1>7. CASE CancelAudit
  BY <1>1, <1>7 DEF CancelAudit, Cancel, Unlease, vars
<1>8. CASE DeadlinePasses \/ UNCHANGED allVars
  BY <1>1, <1>8 DEF DeadlinePasses, allVars, vars
<1>9. CASE \E p \in Proc : WorkerCrash(p)
  BY <1>1, <1>9 DEF WorkerCrash, Crash
<1> QED
  BY <1>2, <1>3, <1>4, <1>5, <1>6, <1>7, <1>8, <1>9 DEF AuditNext

LEMMA OwnKept ==
    ASSUME "stall" \notin Environment PROVE AuditSpec => [](HoldsOwn /\ NoneLapsed)
<1>1. AuditInit => HoldsOwn /\ NoneLapsed
  BY ConstantsAssumption DEF AuditInit, Init, HoldsOwn, NoneLapsed, Own
<1>2. Types /\ QueueInv /\ HoldsOwn /\ NoneLapsed /\ [AuditNext]_allVars
          => HoldsOwn' /\ NoneLapsed'
  BY OwnStep, CalmStep, RunStepIsQueueStep
<1> QED BY <1>1, <1>2, TypesKept, QueueInvKept, PTL DEF AuditSpec

\* A best-effort release is under way only for a row that is over, and what it
\* has read is still what is outstanding.
Tidy(t) ==
    /\ janitor[t].stage # "none" => status[t] = "failed"
    /\ janitor[t].stage = "read" => released[t] + janitor[t].units = MaxAttempts
    /\ released[t] <= MaxAttempts
AllTidy == \A t \in Funded : Tidy(t)

LEMMA TidySlotStep ==
    ASSUME Types, QueueInv, HoldsOwn, Placed, NEW s \in Slot, SlotNext(s),
           NEW t \in Funded, Tidy(t), status[t] \in Terminal => status'[t] = status[t]
    PROVE  Tidy(t)'
<1>t. t \in Task /\ released[t] \in Nat /\ MaxAttempts \in Nat
  BY FundedTypes
<1>p. PlaceOf(s)
  BY DEF Placed
<1>1. ASSUME janitor'[t] = janitor[t], released'[t] <= MaxAttempts,
             status[t] = "failed" => released'[t] = released[t]
      PROVE  Tidy(t)'
  BY <1>1 DEF Tidy, Terminal
<1>2. ASSUME UNCHANGED <<janitor, released>> PROVE Tidy(t)'
  BY <1>1, <1>2 DEF Tidy
<1>3. CASE \/ SlotBeginClaim(s) \/ SlotClaimNothing(s) \/ SlotHeartbeat(s)
           \/ \E u \in Task : SlotClaim(s, u)
           \/ StopOverdue(s) \/ Park(s) \/ StartCall(s) \/ BillRefused(s)
           \/ SettleTask(s) \/ Raise(s) \/ LeaveTask(s) \/ CountSucceeded(s)
           \/ Conclude(s) \/ Aggregate(s) \/ FinalizerRaises(s)
  BY <1>2, <1>3 DEF SlotBeginClaim, SlotClaimNothing, SlotHeartbeat, SlotClaim,
       StopOverdue, Park, StartCall, BillRefused, SettleTask, Raise, LeaveTask,
       CountSucceeded, Conclude, Aggregate, FinalizerRaises, auditVars, ledgerVars
<1>4. CASE Boundary(s)
  <2>1. janitor' = janitor /\ job[s] \in Task
    BY <1>4, <1>p DEF Boundary, PlaceOf, Unanswered
  <2>2. CASE ReleaseUnused({job[s]})
    <3>1. job[s] = t => status[t] # "failed"
      BY <2>1, ConstantsAssumption DEF HoldsOwn, Own, QueueInv, LeaseMatchesStatus, Leased
    <3>2. released'[t] <= MaxAttempts /\ (job[s] # t => released'[t] = released[t])
      BY <1>t, <2>2, ReleaseOfBatch DEF Tidy
    <3> QED BY <1>1, <2>1, <3>1, <3>2
  <2> QED BY <1>2, <1>4, <2>1, <2>2 DEF Boundary
<1>5. CASE Reject(s) \/ PersistSuccess(s) \/ (\E v \in Verdict : PersistFailure(s, v))
  <2>1. /\ janitor' = janitor /\ Owned(s, job[s])
        /\ \/ ReleaseUnused({job[s]})
           \/ \E b \in BOOLEAN : Bill(job[s], b)
    BY <1>5 DEF Reject, PersistSuccess, PersistFailure, StillOurs
  <2>2. job[s] \in Task
    BY <1>p, <1>5 DEF Reject, PersistSuccess, PersistFailure, PlaceOf, Unanswered
  <2>3. released'[t] <= MaxAttempts /\ (job[s] # t => released'[t] = released[t])
    BY <1>t, <2>1, <2>2, ReleaseOfBatch, ReleaseOfBill DEF Tidy
  <2>4. job[s] = t => status[t] # "failed"
    BY <2>1, <2>2, OwnedIsLeased DEF Leased
  <2> QED BY <1>1, <2>1, <2>3, <2>4
<1>6. CASE RecordCrash(s)
  <2>1. released' = released
    BY <1>6 DEF RecordCrash
  <2>2. CASE job[s] = t
    <3>1. janitor'[t].stage = "due" /\ status'[t] = "failed"
      BY <1>6, <1>t, <2>2 DEF RecordCrash, OweRelease, FailOutright, Unlease
    <3> QED BY <2>1, <3>1 DEF Tidy
  <2>3. CASE job[s] # t
    <3>1. janitor'[t] = janitor[t]
      BY <1>6, <1>t, <2>3 DEF RecordCrash, OweRelease
    <3> QED BY <1>1, <2>1, <3>1 DEF Tidy
  <2> QED BY <2>2, <2>3
<1> QED BY <1>3, <1>4, <1>5, <1>6 DEF SlotNext

LEMMA TidyStep ==
    ASSUME Types, QueueInv, HoldsOwn, Placed, AllTidy, [AuditNext]_allVars PROVE AllTidy'
<1> SUFFICES ASSUME NEW t \in Funded PROVE Tidy(t)'
  BY DEF AllTidy
<1>0. Tidy(t)
  BY DEF AllTidy
<1>t. t \in Task /\ released[t] \in Nat /\ MaxAttempts \in Nat /\ janitor[t].units \in Int
  BY FundedTypes
<1>s. status[t] \in Terminal => status'[t] = status[t]
  BY <1>t, StickyStep, RunStepIsQueueStep DEF QueueInv
<1>g. ASSUME janitor'[t] = janitor[t], released'[t] <= MaxAttempts,
             status[t] = "failed" => released'[t] = released[t]
      PROVE  Tidy(t)'
  BY <1>g, <1>0, <1>s DEF Tidy, Terminal
<1>1. CASE \E s \in Slot : SlotNext(s)
  BY <1>0, <1>s, <1>1, TidySlotStep
<1>2. ASSUME NEW p \in Proc, NEW batch \in SUBSET Task, WorkerSweep(p, batch) PROVE Tidy(t)'
  <2>1. released' = released
    BY <1>2 DEF WorkerSweep
  <2>2. CASE t \in FailedBy(batch)
    <3>1. janitor'[t].stage = "due" /\ status'[t] = "failed"
      BY <1>t, <1>2, <2>2 DEF WorkerSweep, OweRelease, Sweep, FailedBy
    <3> QED BY <1>0, <2>1, <3>1 DEF Tidy
  <2>3. CASE t \notin FailedBy(batch)
    <3>1. janitor'[t] = janitor[t]
      BY <1>t, <1>2, <2>3 DEF WorkerSweep, OweRelease
    <3> QED BY <1>0, <1>g, <2>1, <3>1 DEF Tidy
  <2> QED BY <2>2, <2>3
<1>3. CASE \/ \E batch \in SUBSET Task : BackstopSweep(batch)
           \/ \E u \in Task : AuditLeaseExpires(u) \/ AuditBecomeDue(u)
           \/ DeadlinePasses \/ UNCHANGED allVars
  BY <1>0, <1>g, <1>3 DEF BackstopSweep, AuditLeaseExpires, AuditBecomeDue,
       DeadlinePasses, allVars, auditVars, ledgerVars, Tidy
<1>4. ASSUME NEW u \in Task, JanitorRead(u) PROVE Tidy(t)'
  <2>1. released' = released /\ status' = status
    BY <1>4 DEF JanitorRead, vars
  <2>2. CASE u = t
    <3>1. /\ janitor'[t].stage = "read" /\ janitor'[t].units = MaxAttempts - released[t]
          /\ janitor[t].stage = "due"
      BY <1>t, <1>4, <2>2, FundedTypes DEF JanitorRead, Outstanding, Types, AuditTypeOK
    <3> QED BY <1>0, <1>t, <2>1, <3>1 DEF Tidy
  <2>3. CASE u # t
    <3>1. janitor'[t] = janitor[t]
      BY <1>t, <1>4, <2>3 DEF JanitorRead, Types, AuditTypeOK
    <3> QED BY <1>0, <1>g, <2>1, <3>1 DEF Tidy
  <2> QED BY <2>2, <2>3
<1>8. ASSUME NEW u \in Task, JanitorFails(u) PROVE Tidy(t)'
  <2>1. released' = released /\ (janitor'[t] = janitor[t] \/ janitor'[t] = NoRelease)
    BY <1>t, <1>8 DEF JanitorFails, Types, AuditTypeOK
  <2> QED BY <1>0, <1>g, <2>1 DEF Tidy, NoRelease
<1>5. ASSUME NEW u \in Task, JanitorWrite(u) PROVE Tidy(t)'
  <2>1. CASE u = t
    <3>1. /\ janitor'[t] = NoRelease /\ janitor[t].stage = "read"
          /\ released'[t] = IF janitor[t].units > 0 THEN released[t] + janitor[t].units
                            ELSE released[t]
      BY <1>t, <1>5, <2>1 DEF JanitorWrite, Types, AuditTypeOK
    <3>2. released'[t] <= MaxAttempts
      BY <1>0, <1>t, <3>1 DEF Tidy
    <3> QED BY <3>1, <3>2 DEF Tidy, NoRelease
  <2>2. CASE u # t
    <3>1. janitor'[t] = janitor[t] /\ released'[t] = released[t]
      BY <1>t, <1>5, <2>2 DEF JanitorWrite, Types, AuditTypeOK
    <3> QED BY <1>0, <1>g, <3>1 DEF Tidy
  <2> QED BY <2>1, <2>2
<1>6. CASE CancelAudit
  <2>1. janitor' = janitor /\ ReleaseUnused(Open)
    BY <1>6 DEF CancelAudit
  <2>2. released'[t] <= MaxAttempts /\ (t \notin Open => released'[t] = released[t])
    BY <1>0, <1>t, <2>1, ReleaseOfBatch DEF Tidy
  <2> QED BY <1>t, <1>g, <2>1, <2>2 DEF Open, Terminal
<1>7. ASSUME NEW p \in Proc, WorkerCrash(p) PROVE Tidy(t)'
  <2>1. /\ released' = released
        /\ janitor'[t] = janitor[t] \/ janitor'[t] = NoRelease
    BY <1>t, <1>7 DEF WorkerCrash
  <2> QED BY <1>0, <1>g, <2>1 DEF Tidy, NoRelease
<1> QED BY <1>1, <1>2, <1>3, <1>4, <1>5, <1>6, <1>7, <1>8 DEF AuditNext

\* Where no executor stalls past its lease, whatever raises, dies, is swept,
\* cancelled or comes too late: no reservation is released beyond what it
\* reserved.  _release_terminalized_funded_task writes without a lock what it
\* read before; the exclusion is real, a stalled boundary releases in between.
THEOREM ReleasesSettleOnce ==
    "stall" \notin Environment => (AuditSpec => []ReleasedOnce)
<1> SUFFICES ASSUME "stall" \notin Environment PROVE AuditSpec => []ReleasedOnce
  OBVIOUS
<1>1. AuditInit => AllTidy
  BY AuditAssumption, ConstantsAssumption DEF AuditInit, AllTidy, Tidy, NoRelease
<1>2. AllTidy => ReleasedOnce
  BY DEF AllTidy, Tidy, ReleasedOnce
<1>3. /\ Types /\ QueueInv /\ HoldsOwn /\ Placed /\ AllTidy /\ [AuditNext]_allVars
      => AllTidy'
  BY TidyStep
<1> QED
  BY <1>1, <1>2, <1>3, TypesKept, QueueInvKept, PlacedKept, OwnKept, PTL DEF AuditSpec

----------------------------------------------------------------------------
(***************************************************************************)
(* Every wanted answer can be billed.                                       *)
(***************************************************************************)

\* A leased row is in the hands of the slot that claimed it, in the status that
\* slot expects; and as long as the row may be called again, or its call is
\* out, fewer units were released than attempts are allowed.
AsLeft(s, st) ==
    /\ phase[s] \in {"boundary", "stopped", "ready"} => st = "leased"
    /\ phase[s] = "calling" => st = "running"
    /\ phase[s] # "crashed"
InHand(t) ==
    status[t] \in Leased =>
        holder[t] \in Slot /\ job[holder[t]] = t /\ AsLeft(holder[t], status[t])
InCredit(t) == released[t] <= attempts[t] /\ attempts[t] < MaxAttempts
MayCallAgain(t) ==
    \/ status[t] \in Claimable
    \/ /\ status[t] \in Leased
       /\ \/ phase[holder[t]] \in {"boundary", "ready", "calling"}
          \/ verdict[holder[t]] = "retry_wait"
Steady(t) == InHand(t) /\ (t \in Funded /\ MayCallAgain(t) => InCredit(t))
AllSteady == \A t \in Task : Steady(t)

\* A slot's step on its own row, or its claim, leaves the other rows alone.
LEMMA RowUntouched ==
    ASSUME Types, Placed, NEW s \in Slot, SlotNext(s), NEW t \in Task,
           t # job[s], ~SlotClaim(s, t)
    PROVE  /\ status'[t] = status[t] /\ holder'[t] = holder[t]
           /\ attempts'[t] = attempts[t] /\ released'[t] = released[t]
<1>p. PlaceOf(s)
  BY DEF Placed
<1>f. /\ status \in [Task -> Status] /\ holder \in [Task -> Slot \cup {Gone, NoOwner}]
      /\ attempts \in [Task -> Nat] /\ released \in [Task -> Nat]
  BY DEF Types, TypeOK, AuditTypeOK
<1>1. CASE SlotBeginClaim(s) \/ SlotClaimNothing(s) \/ SlotHeartbeat(s)
  BY <1>1 DEF SlotBeginClaim, SlotClaimNothing, SlotHeartbeat, BeginClaim,
              ClaimNothing, Heartbeat, rowVars, auditVars
<1>2. CASE \E u \in Task : SlotClaim(s, u)
  BY <1>2, <1>f DEF SlotClaim, Claim, ledgerVars
<1>3. CASE Boundary(s)
  <2>1. UNCHANGED <<status, holder, attempts>>
    BY <1>3 DEF Boundary, vars
  <2>2. released'[t] = released[t]
    BY <1>3 DEF Boundary, ReleaseUnused
  <2> QED BY <2>1, <2>2
<1>4. CASE \/ BillRefused(s) \/ Raise(s) \/ CountSucceeded(s)
           \/ Conclude(s) \/ Aggregate(s) \/ FinalizerRaises(s)
  BY <1>4 DEF BillRefused, Raise, CountSucceeded, Conclude, Aggregate,
              FinalizerRaises, vars, ledgerVars
<1>5. CASE StopOverdue(s) \/ RecordCrash(s) \/ Park(s) \/ SettleTask(s)
  <2>1. /\ UNCHANGED <<released, attempts>> /\ \E st : Unlease({job[s]}, st)
    BY <1>5 DEF StopOverdue, RecordCrash, Park, SettleTask, FailOutright, PutBack, Settle,
                ledgerVars
  <2> QED BY <1>f, <2>1 DEF Unlease
<1>6. CASE Reject(s) \/ PersistSuccess(s) \/ (\E v \in Verdict : PersistFailure(s, v))
  <2>1. /\ UNCHANGED <<status, holder>>
        /\ attempts' = [attempts EXCEPT ![job[s]] = @ + 1]
        /\ \/ ReleaseUnused({job[s]})
           \/ \E b \in BOOLEAN : Bill(job[s], b)
    BY <1>6 DEF Reject, PersistSuccess, PersistFailure, RecordAttempt
  <2>2. released'[t] = released[t]
    BY <1>f, <2>1 DEF ReleaseUnused, Bill
  <2> QED BY <1>f, <2>1, <2>2
<1>7. CASE StartCall(s)
  BY <1>7, <1>f DEF StartCall, MarkRunning, ledgerVars
<1>8. CASE LeaveTask(s)
  BY <1>8 DEF LeaveTask, Abandon, rowVars, ledgerVars
<1> QED BY <1>1, <1>2, <1>3, <1>4, <1>5, <1>6, <1>7, <1>8 DEF SlotNext

\* A slot's step on the row it owns, where nothing raises.
LEMMA SteadyOwnStep ==
    ASSUME Types, Placed, RowsEnded, NEW s \in Slot, SlotNext(s),
           "exception" \notin Environment,
           NEW t \in Task, Steady(t), status[t] \in Leased, holder[t] = s
    PROVE  Steady(t)'
<1>p. PlaceOf(s)
  BY DEF Placed
<1>h. job[s] = t /\ AsLeft(s, status[t]) /\ Owned(s, t) /\ StillOurs(s)
  <2>1. job[s] = t /\ AsLeft(s, status[t]) /\ Owned(s, t)
    BY DEF Steady, InHand, Owned
  <2> QED BY <2>1 DEF StillOurs, RowsEnded, Leased, Terminal
<1>b. phase[s] \notin Resting /\ phase[s] # "crashed" /\ scan[s] = {}
  BY <1>h, <1>p, ConstantsAssumption DEF PlaceOf, AsLeft, Resting
<1>f. /\ phase \in [Slot -> Phase] /\ job \in [Slot -> Task \cup {NoTask}]
      /\ verdict \in [Slot -> Verdict] /\ status \in [Task -> Status]
      /\ holder \in [Task -> Slot \cup {Gone, NoOwner}]
      /\ attempts \in [Task -> Nat] /\ released \in [Task -> Nat] /\ MaxAttempts \in Nat
  BY ConstantsAssumption DEF Types, TypeOK, AuditTypeOK
<1>c. t \in Funded /\ (phase[s] \in {"boundary", "ready", "calling"}
                       \/ verdict[s] = "retry_wait") => InCredit(t)
  BY DEF Steady, MayCallAgain
<1> USE ConstantsAssumption DEF GoTo, Drop
<1>1. CASE \/ SlotBeginClaim(s) \/ SlotClaimNothing(s) \/ (\E u \in Task : SlotClaim(s, u))
           \/ RecordCrash(s) \/ CountSucceeded(s) \/ Conclude(s) \/ Aggregate(s)
           \/ FinalizerRaises(s) \/ Raise(s)
  BY <1>1, <1>h, <1>b DEF SlotBeginClaim, SlotClaimNothing, SlotClaim, BeginClaim,
       ClaimNothing, Claim, RecordCrash, CountSucceeded, Conclude, Aggregate,
       FinalizerRaises, Raise, Resting
<1>2. CASE LeaveTask(s)
  BY <1>2, <1>h, <1>b DEF LeaveTask, NotAsLeft, AsLeft
<1>3. CASE BillRefused(s)
  BY <1>3, <1>h, <1>c, <1>f DEF BillRefused, CanBill, Outstanding, InCredit
<1>4. CASE SlotHeartbeat(s)
  BY <1>4 DEF SlotHeartbeat, Heartbeat, auditVars, slotVars, Steady, InHand, AsLeft,
              MayCallAgain, InCredit
<1>5. CASE Boundary(s)
  <2>1. /\ UNCHANGED <<status, holder, job, verdict, attempts>> /\ phase[s] = "boundary"
    BY <1>5 DEF Boundary, vars
  <2>2. verdict[s] = "none" /\ status[t] = "leased"
    BY <1>p, <1>h, <2>1 DEF PlaceOf, Unanswered, AsLeft
  <2>3. \/ phase'[s] = "ready" /\ released' = released
        \/ phase'[s] = "stopped"
    BY <1>5, <1>f DEF Boundary
  <2>4. InHand(t)'
    BY <1>h, <2>1, <2>2, <2>3 DEF InHand, AsLeft
  <2>5. t \in Funded /\ MayCallAgain(t)' => InCredit(t)'
    BY <1>c, <2>1, <2>2, <2>3 DEF MayCallAgain, InCredit, Claimable
  <2> QED BY <2>4, <2>5 DEF Steady
<1>6. CASE StopOverdue(s) \/ Park(s) \/ SettleTask(s)
  <2>1. /\ UNCHANGED <<released, attempts>>
        /\ \/ status'[t] \in Terminal
           \/ status'[t] \in Claimable /\ (t \in Funded => InCredit(t))
    <3>1. CASE StopOverdue(s)
      BY <3>1, <1>h DEF StopOverdue, FailOutright, Unlease, ledgerVars, Terminal
    <3>2. CASE Park(s)
      BY <3>2, <1>h, <1>c DEF Park, PutBack, ledgerVars, Claimable
    <3>3. CASE SettleTask(s)
      <4>1. UNCHANGED <<released, attempts>> /\ status'[t] = verdict[s] /\ verdict[s] # "none"
        BY <3>3, <1>h DEF SettleTask, Settle, Unlease, ledgerVars
      <4> QED BY <1>c, <1>f, <4>1 DEF Verdict, Terminal, Claimable
    <3> QED BY <1>6, <3>1, <3>2, <3>3
  <2>2. status'[t] \notin Leased
    BY <2>1 DEF Terminal, Claimable, Leased
  <2>3. t \in Funded /\ MayCallAgain(t)' => InCredit(t)'
    BY <2>1, <2>2 DEF MayCallAgain, InCredit, Terminal, Claimable
  <2> QED BY <2>2, <2>3 DEF Steady, InHand
<1>7. CASE Reject(s) \/ PersistSuccess(s) \/ (\E v \in Verdict : PersistFailure(s, v))
  <2>1. /\ UNCHANGED <<status, holder, job>> /\ phase'[s] = "recorded"
        /\ status[t] \notin Claimable
    BY <1>7, <1>f DEF Reject, PersistSuccess, PersistFailure, RecordAttempt, Leased, Claimable
  <2>2. InHand(t)'
    BY <1>h, <2>1 DEF InHand, AsLeft
  <2>3. CASE verdict'[s] # "retry_wait"
    <3>1. ~MayCallAgain(t)'
      BY <2>1, <2>3 DEF MayCallAgain
    <3> QED BY <2>2, <3>1 DEF Steady
  <2>4. CASE verdict'[s] = "retry_wait"
    <3>1. PICK v \in Verdict : PersistFailure(s, v)
      BY <1>7, <1>f, <2>4 DEF Reject, PersistSuccess, RecordAttempt
    <3>2. /\ v = "retry_wait" /\ phase[s] = "calling" /\ Bill(t, v = "failed")
          /\ attempts[t] + 1 < MaxAttempts /\ attempts' = [attempts EXCEPT ![t] = @ + 1]
      BY <1>f, <1>h, <2>4, <3>1 DEF PersistFailure, RecordAttempt
    <3>3. Bill(t, FALSE)
      BY <3>2
    <3>4. t \in Funded => released'[t] = released[t] + 1
      BY <3>3, ReleaseOfBill
    <3>5. t \in Funded => InCredit(t)'
      BY <1>c, <1>f, <3>2, <3>4 DEF InCredit
    <3> QED BY <2>2, <3>5 DEF Steady
  <2> QED BY <2>3, <2>4
<1>8. CASE StartCall(s)
  <2>1. /\ UNCHANGED <<holder, job, verdict, released, attempts>> /\ phase'[s] = "calling"
        /\ status'[t] = "running" /\ phase[s] = "ready"
    BY <1>8, <1>f, <1>h DEF StartCall, MarkRunning, slotVars, ledgerVars
  <2>2. InHand(t)'
    BY <1>h, <2>1 DEF InHand, AsLeft
  <2>3. t \in Funded => InCredit(t)'
    BY <1>c, <2>1 DEF InCredit
  <2> QED BY <2>2, <2>3 DEF Steady
<1> QED BY <1>1, <1>2, <1>3, <1>4, <1>5, <1>6, <1>7, <1>8 DEF SlotNext

LEMMA SteadySlotStep ==
    ASSUME Types, Placed, RowsEnded, QueueInv, HoldsOwn, NEW s \in Slot, SlotNext(s),
           "exception" \notin Environment, NEW t \in Task, Steady(t),
           status[t] \in Terminal => status'[t] = status[t]
    PROVE  Steady(t)'
<1>f. /\ phase \in [Slot -> Phase] /\ job \in [Slot -> Task \cup {NoTask}]
      /\ holder \in [Task -> Slot \cup {Gone, NoOwner}] /\ status \in [Task -> Status]
  BY DEF Types, TypeOK, AuditTypeOK
<1>1. CASE status[t] \in Terminal
  <2>1. status'[t] \notin Leased /\ status'[t] \notin Claimable
    BY <1>1 DEF Terminal, Leased, Claimable
  <2> QED BY <2>1 DEF Steady, InHand, MayCallAgain
<1>2. CASE SlotClaim(s, t)
  <2>1. /\ status'[t] = "leased" /\ holder'[t] = s /\ job'[s] = t /\ phase'[s] = "boundary"
        /\ UNCHANGED <<attempts, released>> /\ status[t] \in Claimable
    BY <1>2, <1>f DEF SlotClaim, Claim, GoTo, ledgerVars, StillEligible, Eligible
  <2>2. InHand(t)'
    BY <2>1 DEF InHand, AsLeft
  <2>3. t \in Funded => InCredit(t)'
    BY <2>1 DEF Steady, MayCallAgain, InCredit
  <2> QED BY <2>2, <2>3 DEF Steady
<1>3. CASE status[t] \in Leased /\ holder[t] = s
  BY <1>3, SteadyOwnStep
<1>4. CASE ~SlotClaim(s, t) /\ status[t] \notin Terminal /\ holder[t] # s
  <2>1. job[s] # t
    BY <1>4 DEF HoldsOwn, Own, Terminal
  <2>2. /\ status'[t] = status[t] /\ holder'[t] = holder[t]
        /\ attempts'[t] = attempts[t] /\ released'[t] = released[t]
    BY <1>4, <2>1, RowUntouched
  <2>3. CASE status[t] \in Leased
    <3>1. /\ holder[t] \in Slot
          /\ phase'[holder[t]] = phase[holder[t]] /\ job'[holder[t]] = job[holder[t]]
          /\ verdict'[holder[t]] = verdict[holder[t]]
      BY <1>4, <2>3, OthersUntouched DEF Steady, InHand
    <3> QED BY <2>2, <3>1 DEF Steady, InHand, AsLeft, MayCallAgain, InCredit
  <2>4. CASE status[t] \notin Leased
    BY <2>2, <2>4 DEF Steady, InHand, MayCallAgain, InCredit
  <2> QED BY <2>3, <2>4
<1>5. holder[t] = s => status[t] \in Leased
  BY ConstantsAssumption DEF QueueInv, LeaseMatchesStatus
<1> QED BY <1>1, <1>2, <1>3, <1>4, <1>5

LEMMA SteadyStep ==
    ASSUME Types, Placed, RowsEnded, QueueInv, HoldsOwn, NoneLapsed, AllTidy, AllSteady,
           [AuditNext]_allVars,
           "exception" \notin Environment, "crash" \notin Environment
    PROVE  AllSteady'
<1> SUFFICES ASSUME NEW t \in Task PROVE Steady(t)'
  BY DEF AllSteady
<1>0. Steady(t)
  BY DEF AllSteady
<1>s. status[t] \in Terminal => status'[t] = status[t]
  BY StickyStep, RunStepIsQueueStep DEF QueueInv
<1>1. CASE \E s \in Slot : SlotNext(s)
  BY <1>0, <1>s, <1>1, SteadySlotStep
<1>2. CASE Elsewhere
  <2>o. UNCHANGED <<phase, job, verdict>>
    BY <1>2, SlotsUntouched
  <2>g. ASSUME status'[t] = status[t], holder'[t] = holder[t], attempts'[t] = attempts[t],
               released'[t] = released[t]
        PROVE  Steady(t)'
    BY <1>0, <2>o, <2>g DEF Steady, InHand, AsLeft, MayCallAgain, InCredit
  <2>t. ASSUME status'[t] \in Terminal PROVE Steady(t)'
    <3>1. status'[t] \notin Leased /\ status'[t] \notin Claimable
      BY <2>t DEF Terminal, Leased, Claimable
    <3> QED BY <3>1 DEF Steady, InHand, MayCallAgain
  <2>1. ASSUME NEW batch \in SUBSET Task, Sweep(batch) PROVE FALSE
    <3>1. PICK u \in batch : status[u] \in Leased /\ lease[u] = "expired"
      BY <2>1 DEF Sweep, Reclaimable
    <3>2. holder[u] \in Slot /\ job[holder[u]] = u
      BY <3>1 DEF AllSteady, Steady, InHand
    <3> QED BY <3>1, <3>2 DEF NoneLapsed
  <2>2. CASE \/ \E p \in Proc, batch \in SUBSET Task : WorkerSweep(p, batch)
             \/ \E batch \in SUBSET Task : BackstopSweep(batch)
    BY <2>1, <2>2 DEF WorkerSweep, BackstopSweep
  <2>3. CASE \E u \in Task : JanitorRead(u) \/ JanitorFails(u)
    BY <2>3, <2>g DEF JanitorRead, JanitorFails, vars
  <2>4. ASSUME NEW u \in Task, JanitorWrite(u) PROVE Steady(t)'
    <3>1. UNCHANGED <<status, holder, attempts>> /\ janitor[u].stage = "read"
          /\ (u # t => released'[t] = released[t])
      BY <2>4 DEF JanitorWrite, vars, Types, AuditTypeOK
    <3>2. CASE u # t
      BY <2>g, <3>1, <3>2
    <3>3. CASE u = t /\ t \in Funded
      <4>1. status[t] = "failed"
        BY <3>1, <3>3 DEF AllTidy, Tidy
      <4> QED BY <2>t, <3>1, <4>1 DEF Terminal
    <3>4. CASE t \notin Funded
      BY <1>0, <2>o, <3>1, <3>4 DEF Steady, InHand, AsLeft
    <3> QED BY <3>2, <3>3, <3>4
  <2>5. CASE \E u \in Task : AuditLeaseExpires(u) \/ AuditBecomeDue(u)
    BY <2>5, <2>g DEF AuditLeaseExpires, AuditBecomeDue, LeaseExpires, BecomeDue, auditVars
  <2>6. CASE CancelAudit
    <3>1. CASE status[t] \in Terminal
      BY <1>s, <2>t, <3>1
    <3>2. CASE status[t] \notin Terminal
      <4>1. status'[t] = "cancelled"
        BY <2>6, <3>2 DEF CancelAudit, Cancel, Unlease, Open
      <4> QED BY <2>t, <4>1 DEF Terminal
    <3> QED BY <3>1, <3>2
  <2>7. CASE DeadlinePasses \/ UNCHANGED allVars
    BY <2>7, <2>g DEF DeadlinePasses, allVars, auditVars, ledgerVars, vars
  <2> QED BY <1>2, <2>2, <2>3, <2>4, <2>5, <2>6, <2>7 DEF Elsewhere
<1>3. ASSUME NEW p \in Proc, WorkerCrash(p) PROVE FALSE
  BY <1>3 DEF WorkerCrash
<1> QED BY <1>1, <1>2, <1>3, RunSteps

\* Where no executor stalls past its lease, raises or dies, and whatever is
\* cancelled, swept or comes too late: an answer that is still wanted finds a
\* unit to bill it to, so the evidence of a call is never refused
\* (record_billable_attempt raises LedgerError on an empty reservation).
THEOREM AnswersCanBeBilled ==
    "stall" \notin Environment /\ "exception" \notin Environment
        /\ "crash" \notin Environment => (AuditSpec => []NeverUnbilled)
<1> SUFFICES ASSUME "stall" \notin Environment, "exception" \notin Environment,
                    "crash" \notin Environment
             PROVE  AuditSpec => []NeverUnbilled
  OBVIOUS
<1>1. AuditInit => AllTidy
  BY AuditAssumption, ConstantsAssumption DEF AuditInit, AllTidy, Tidy, NoRelease
<1>2. ASSUME AuditInit PROVE AllSteady
  <2> SUFFICES ASSUME NEW t \in Task PROVE Steady(t)
    BY DEF AllSteady
  <2>1. status[t] = "queued" /\ released[t] = 0 /\ attempts[t] = 0
    BY <1>2 DEF AuditInit, Init
  <2> QED BY <2>1, ConstantsAssumption DEF Steady, InHand, InCredit, Leased
<1>3. /\ Types /\ QueueInv /\ HoldsOwn /\ Placed /\ AllTidy /\ [AuditNext]_allVars
      => AllTidy'
  BY TidyStep
<1>4. /\ Types /\ Placed /\ RowsEnded /\ QueueInv /\ HoldsOwn /\ NoneLapsed /\ AllTidy
      /\ AllSteady /\ [AuditNext]_allVars
      => AllSteady'
  BY SteadyStep
<1>5. Types /\ Placed /\ QueueInv /\ HoldsOwn /\ AllSteady => NeverUnbilled
  <2> SUFFICES ASSUME Types, Placed, QueueInv, HoldsOwn, AllSteady,
                      NEW s \in Slot, phase[s] = "calling", StillOurs(s), job[s] \in Funded
               PROVE  Outstanding(job[s]) >= 1
    BY DEF NeverUnbilled, CanBill
  <2>1. job[s] \in Task /\ status[job[s]] \in Leased
    BY OwnedIsLeased DEF Placed, PlaceOf, Unanswered, StillOurs
  <2>2. holder[job[s]] = s
    BY <2>1 DEF HoldsOwn, Own, Leased
  <2>3. InCredit(job[s])
    BY <2>1, <2>2 DEF AllSteady, Steady, MayCallAgain
  <2>4. released[job[s]] \in Nat /\ attempts[job[s]] \in Nat /\ MaxAttempts \in Nat
    BY <2>1, LedgerTypes, FundedTypes
  <2> QED BY <2>3, <2>4 DEF InCredit, Outstanding
<1> QED
  BY <1>1, <1>2, <1>3, <1>4, <1>5, TypesKept, QueueInvKept, PlacedKept, RowsEndedKept,
     OwnKept, PTL DEF AuditSpec

----------------------------------------------------------------------------
(***************************************************************************)
(* What a run reports.                                                      *)
(***************************************************************************)

\* A finalizer that has counted a success, and a run it took on to the
\* analysis, have one; an executor with a success to settle has stored it.
Counted(s) == counted[s] > 0 => SomeSuccess
TruthInv ==
    /\ \A s \in Slot : verdict[s] = "succeeded" => Answered(job[s])
    /\ \A s \in Slot : Counted(s)
    /\ audit = "analyzing" => SomeSuccess
    /\ ReportsAreBacked

\* Evidence and bills are never taken back.
LEMMA AnswersStay ==
    ASSUME Types, Placed, [AuditNext]_allVars, NEW t \in Task
    PROVE  /\ artifacts[t] > 0 => artifacts'[t] > 0
           /\ Answered(t) => Answered(t)'
<1> USE DEF Types, AuditTypeOK
<1>0. artifacts[t] \in Nat
  OBVIOUS
<1>1. ASSUME NEW s \in Slot, PersistSuccess(s) \/ \E v \in Verdict : PersistFailure(s, v)
      PROVE  artifacts'[t] \in {artifacts[t], artifacts[t] + 1} /\ debits[t] \subseteq debits'[t]
  <2>1. /\ artifacts' \in {artifacts, [artifacts EXCEPT ![job[s]] = @ + 1]}
        /\ \E b \in BOOLEAN : Bill(job[s], b)
    BY <1>1 DEF PersistSuccess, PersistFailure, evidenceVars
  <2> QED BY <2>1 DEF Bill
<1>2. ASSUME NEW s \in Slot, SlotNext(s), ~PersistSuccess(s),
             ~\E v \in Verdict : PersistFailure(s, v)
      PROVE  UNCHANGED <<artifacts, debits>>
  BY <1>2 DEF SlotNext, SlotBeginClaim, SlotClaim, SlotClaimNothing, Boundary, StopOverdue,
      Reject, Park, StartCall, SlotHeartbeat, BillRefused, SettleTask, Raise, RecordCrash,
      LeaveTask, CountSucceeded, Conclude, Aggregate, FinalizerRaises, evidenceVars, ledgerVars,
      auditVars
<1>3. CASE Elsewhere
  BY <1>3 DEF Elsewhere, WorkerSweep, BackstopSweep, JanitorRead, JanitorWrite, JanitorFails,
      AuditLeaseExpires, AuditBecomeDue, CancelAudit, DeadlinePasses, evidenceVars, ledgerVars,
      auditVars, allVars, Answered
<1>4. ASSUME NEW p \in Proc, WorkerCrash(p) PROVE UNCHANGED <<artifacts, debits>>
  BY <1>4 DEF WorkerCrash, evidenceVars
<1> QED
  BY <1>0, <1>1, <1>2, <1>3, <1>4, RunSteps DEF Answered

\* A row succeeds only by an executor that recorded its success.
LEMMA SuccessFrom ==
    ASSUME QueueInv, [Next]_vars, NEW t \in Task, status'[t] = "succeeded"
    PROVE  \/ status[t] = "succeeded"
           \/ \E s \in Slot : job[s] = t /\ verdict[s] = "succeeded"
<1> SUFFICES ASSUME status'[t] # status[t]
             PROVE  \E s \in Slot : job[s] = t /\ verdict[s] = "succeeded"
  OBVIOUS
<1> USE DEF QueueInv, TypeOK, slotVars, rowVars, Unlease, Working
<1>1. ASSUME NEW s \in Slot, BeginClaim(s) \/ ClaimNothing(s) \/ Heartbeat(s) \/ Abandon(s)
      PROVE  FALSE
  BY <1>1 DEF BeginClaim, ClaimNothing, Heartbeat, Abandon
<1>2. ASSUME NEW s \in Slot, MarkRunning(s) \/ (\E v \in Verdict : RecordAttempt(s, v))
                                \/ FailOutright(s) \/ PutBack(s)
      PROVE  FALSE
  BY <1>2 DEF MarkRunning, RecordAttempt, FailOutright, PutBack
<1>3. ASSUME NEW s \in Slot, NEW u \in Task, Claim(s, u) PROVE FALSE
  BY <1>3 DEF Claim
<1>4. ASSUME NEW s \in Slot, Settle(s) PROVE job[s] = t /\ verdict[s] = "succeeded"
  BY <1>4 DEF Settle
<1>5. ASSUME NEW batch \in SUBSET Task, Cancel(batch) \/ Sweep(batch) PROVE FALSE
  BY <1>5 DEF Cancel, Sweep, Reclaimed
<1>6. ASSUME NEW u \in Task, LeaseExpires(u) \/ BecomeDue(u) PROVE FALSE
  BY <1>6 DEF LeaseExpires, BecomeDue
<1>7. ASSUME NEW p \in Proc, Crash(p) PROVE FALSE
  BY <1>7 DEF Crash
<1>8. CASE UNCHANGED vars
  BY <1>8 DEF vars
<1> QED
  BY <1>1, <1>2, <1>3, <1>4, <1>5, <1>6, <1>7, <1>8 DEF Next

\* An executor records a success only with its evidence.
LEMMA VerdictFrom ==
    ASSUME Types, Placed, [AuditNext]_allVars, NEW q \in Slot, verdict'[q] = "succeeded"
    PROVE  /\ job'[q] = job[q] /\ job[q] \in Task
           /\ verdict[q] = "succeeded" \/ PersistSuccess(q)
<1> USE DEF Types, TypeOK, AuditTypeOK
<1>p. PlaceOf(q) /\ PlaceOf(q)'
  BY PlacedStep DEF Placed
<1>j. job'[q] = job[q] /\ verdict'[q] = verdict[q] => job[q] \in Task
  <2>1. phase[q] \in Phase
    OBVIOUS
  <2> QED BY <1>p, <2>1 DEF PlaceOf, Resting, Unanswered, Phase
<1>1. ASSUME NEW s \in Slot, SlotNext(s), q # s
      PROVE  job'[q] = job[q] /\ verdict'[q] = verdict[q]
  BY <1>1, OthersUntouched
<1>2. ASSUME SlotNext(q)
      PROVE  \/ job'[q] = job[q] /\ verdict'[q] = verdict[q]
             \/ job'[q] = job[q] /\ job[q] \in Task /\ PersistSuccess(q)
  <2>1. CASE SlotBeginClaim(q) \/ SlotClaimNothing(q) \/ SlotHeartbeat(q) \/ StartCall(q)
    BY <2>1 DEF SlotBeginClaim, SlotClaimNothing, SlotHeartbeat, StartCall, BeginClaim,
                ClaimNothing, Heartbeat, MarkRunning, slotVars
  <2>2. ASSUME NEW t \in Task, SlotClaim(q, t) PROVE FALSE
    BY <1>p, <2>2 DEF SlotClaim, Claim, PlaceOf, Resting
  <2>3. CASE \/ Boundary(q) \/ BillRefused(q) \/ Raise(q) \/ CountSucceeded(q)
             \/ Conclude(q) \/ Aggregate(q) \/ FinalizerRaises(q)
    BY <2>3 DEF Boundary, BillRefused, Raise, CountSucceeded, Conclude, Aggregate,
                FinalizerRaises, vars, slotVars
  <2>4. CASE StopOverdue(q) \/ RecordCrash(q) \/ Park(q) \/ SettleTask(q) \/ LeaveTask(q)
    BY <2>4 DEF StopOverdue, RecordCrash, Park, SettleTask, LeaveTask, FailOutright, PutBack,
                Settle, Abandon, Drop
  <2>5. CASE PersistSuccess(q)
    BY <2>5 DEF PersistSuccess, RecordAttempt, Working
  <2>6. CASE Reject(q) \/ \E v \in Verdict : PersistFailure(q, v)
    BY <2>6 DEF Reject, PersistFailure, RecordAttempt
  <2> QED BY <1>2, <2>1, <2>2, <2>3, <2>4, <2>5, <2>6 DEF SlotNext
<1>3. CASE Elsewhere
  BY <1>3, <1>j, SlotsUntouched
<1>4. ASSUME NEW p \in Proc, WorkerCrash(p) PROVE job'[q] = job[q] /\ verdict'[q] = verdict[q]
  BY <1>4, CrashPlaces
<1> QED
  BY <1>1, <1>2, <1>3, <1>4, <1>j, RunSteps

\* Who counts a success has seen one.
LEMMA CountedFrom ==
    ASSUME Types, [AuditNext]_allVars, NEW q \in Slot, counted'[q] > 0
    PROVE  counted[q] > 0 \/ SomeSuccess
<1> USE DEF Types, AuditTypeOK
<1>1. Count({"succeeded"}) > 0 => SomeSuccess
  <2> SUFFICES ASSUME ~SomeSuccess PROVE Count({"succeeded"}) = 0
    OBVIOUS
  <2>1. {t \in Task : status[t] \in {"succeeded"}} = {}
    BY DEF SomeSuccess
  <2> QED BY <2>1, FS_EmptySet DEF Count
<1>2. ASSUME NEW s \in Slot, CountSucceeded(s) PROVE counted[q] > 0 \/ SomeSuccess
  BY <1>1, <1>2 DEF CountSucceeded
<1>3. ASSUME NEW s \in Slot, Conclude(s) \/ FinalizerRaises(s) PROVE counted[q] > 0
  BY <1>3 DEF Conclude, FinalizerRaises
<1>4. ASSUME NEW s \in Slot, SlotNext(s), ~CountSucceeded(s), ~Conclude(s), ~FinalizerRaises(s)
      PROVE  UNCHANGED counted
  BY <1>4 DEF SlotNext, SlotBeginClaim, SlotClaim, SlotClaimNothing, Boundary, StopOverdue,
      Reject, Park, StartCall, SlotHeartbeat, PersistSuccess, PersistFailure, BillRefused,
      SettleTask, Raise, RecordCrash, LeaveTask, Aggregate, runVars, auditVars
<1>5. CASE Elsewhere
  BY <1>5 DEF Elsewhere, WorkerSweep, BackstopSweep, JanitorRead, JanitorWrite, JanitorFails,
      AuditLeaseExpires, AuditBecomeDue, CancelAudit, DeadlinePasses, runVars, auditVars, allVars
<1>6. ASSUME NEW p \in Proc, WorkerCrash(p) PROVE counted[q] > 0
  BY <1>6 DEF WorkerCrash
<1> QED
  BY <1>2, <1>3, <1>4, <1>5, <1>6, RunSteps

\* A run is taken on to the analysis only by a finalizer that counted a
\* success, and completed only by one that found an artifact of every row.
LEMMA EndFrom ==
    ASSUME Types, [AuditNext]_allVars, audit' # audit,
           audit' \in {"analyzing", "partially_completed", "completed"}
    PROVE  \/ /\ audit' = "analyzing"
              /\ \E s \in Slot : counted[s] > 0
           \/ /\ audit = "analyzing" /\ audit' # "analyzing" /\ UNCHANGED artifacts
              /\ audit' = "completed" => \A t \in Task : artifacts[t] > 0
<1> USE DEF Types, AuditTypeOK
<1>1. ASSUME NEW s \in Slot, Conclude(s)
      PROVE  audit' = "analyzing" /\ counted[s] > 0
  <2>1. counted[s] \in Nat
    OBVIOUS
  <2> QED BY <1>1, <2>1 DEF Conclude
<1>2. ASSUME NEW s \in Slot, Aggregate(s)
      PROVE  /\ audit = "analyzing" /\ audit' # "analyzing" /\ UNCHANGED artifacts
             /\ audit' = "completed" => \A t \in Task : artifacts[t] > 0
  <2> DEFINE stored == {t \in Task : artifacts[t] > 0}
  <2>1. audit = "analyzing" /\ audit' = EndStatus(Cardinality(stored)) /\ UNCHANGED artifacts
    BY <1>2 DEF Aggregate, evidenceVars
  <2>2. /\ IsFiniteSet(stored) /\ Cardinality(stored) \in Nat /\ Cardinality(Task) \in Nat
        /\ Cardinality(stored) <= Cardinality(Task)
        /\ Cardinality(Task) = Cardinality(stored) => Task = stored
    BY AuditAssumption, FS_Subset, FS_CardinalityType
  <2>3. audit' = "completed" => Cardinality(Task) = Cardinality(stored)
    <3>1. audit' = "completed" => ~(Cardinality(stored) < Cardinality(Task))
      BY <2>1 DEF EndStatus
    <3>2. \A m, n \in Nat : m <= n /\ ~(m < n) => n = m
      OBVIOUS
    <3>3. Cardinality(stored) \in Nat /\ Cardinality(Task) \in Nat
          /\ Cardinality(stored) <= Cardinality(Task)
      BY <2>2
    <3> HIDE DEF stored
    <3> QED BY <3>1, <3>2, <3>3, Zenon
  <2>4. audit' # "analyzing"
    BY <2>1 DEF EndStatus
  <2> QED BY <2>1, <2>2, <2>3, <2>4
<1>3. ASSUME NEW s \in Slot, SlotNext(s), ~Conclude(s), ~Aggregate(s) PROVE FALSE
  BY <1>3 DEF SlotNext, SlotBeginClaim, SlotClaim, SlotClaimNothing, Boundary, StopOverdue,
      Reject, Park, StartCall, SlotHeartbeat, PersistSuccess, PersistFailure, BillRefused,
      SettleTask, Raise, RecordCrash, LeaveTask, CountSucceeded, FinalizerRaises, runVars,
      auditVars
<1>4. CASE Elsewhere
  BY <1>4 DEF Elsewhere, WorkerSweep, BackstopSweep, JanitorRead, JanitorWrite, JanitorFails,
      AuditLeaseExpires, AuditBecomeDue, CancelAudit, DeadlinePasses, runVars, auditVars, allVars
<1>5. ASSUME NEW p \in Proc, WorkerCrash(p) PROVE FALSE
  BY <1>5 DEF WorkerCrash
<1> QED
  BY <1>1, <1>2, <1>3, <1>4, <1>5, RunSteps

LEMMA TruthStep ==
    Types /\ Placed /\ QueueInv /\ TruthInv /\ [AuditNext]_allVars => TruthInv'
<1> SUFFICES ASSUME Types, Placed, QueueInv, TruthInv, [AuditNext]_allVars PROVE TruthInv'
  OBVIOUS
<1>0. [Next]_vars
  BY RunStepIsQueueStep
<1>1. \A t \in Task : /\ artifacts[t] > 0 => artifacts'[t] > 0
                      /\ Answered(t) => Answered(t)'
  BY AnswersStay
<1>2. SomeSuccess => SomeSuccess'
  <2>1. \A t \in Task : status[t] = "succeeded" => status'[t] = "succeeded"
    BY <1>0, StickyStep DEF QueueInv, Terminal
  <2> QED BY <2>1 DEF SomeSuccess
<1>3. ASSUME NEW q \in Slot, verdict'[q] = "succeeded" PROVE Answered(job[q])'
  <2>1. job'[q] = job[q] /\ job[q] \in Task /\ (verdict[q] = "succeeded" \/ PersistSuccess(q))
    BY <1>3, VerdictFrom
  <2>2. PICK t \in Task : t = job[q]
    BY <2>1
  <2>3. ASSUME PersistSuccess(q) PROVE Answered(t)'
    <3>1. artifacts'[t] > 0
      BY <2>2, <2>3 DEF PersistSuccess, Types, AuditTypeOK
    <3>2. t \in Funded => debits'[t] = debits[t] \cup {attempts[t] + 1}
      BY <2>2, <2>3 DEF PersistSuccess, Bill, Types, AuditTypeOK
    <3> QED BY <3>1, <3>2 DEF Answered
  <2>4. ASSUME verdict[q] = "succeeded" PROVE Answered(t)'
    BY <1>1, <2>2, <2>4 DEF TruthInv
  <2>5. job'[q] = t
    BY <2>1, <2>2
  <2> QED BY <2>1, <2>3, <2>4, <2>5 DEF Answered
<1>4. ASSUME NEW t \in Task, status'[t] = "succeeded" PROVE Answered(t)'
  <2>1. Answered(t)
    BY <1>0, <1>4, SuccessFrom DEF TruthInv, ReportsAreBacked
  <2> QED BY <1>1, <2>1
<1>5. ASSUME NEW q \in Slot PROVE Counted(q)'
  BY <1>2, CountedFrom DEF TruthInv, Counted
<1>6. ASSUME audit' \in {"analyzing", "partially_completed", "completed"}
      PROVE  SomeSuccess' /\ (audit' = "completed" => \A t \in Task : artifacts'[t] > 0)
  <2>1. CASE audit' = audit
    BY <1>1, <1>2, <1>6, <2>1 DEF TruthInv, ReportsAreBacked
  <2>2. CASE audit' # audit
    BY <1>1, <1>2, <1>6, <2>2, EndFrom DEF TruthInv, Counted
  <2> QED BY <2>1, <2>2
<1> QED BY <1>3, <1>4, <1>5, <1>6 DEF TruthInv, ReportsAreBacked

\* For any rows, slots and processes, whatever stalls, raises, dies, is swept
\* or cancelled: a succeeded row has its artifact and its bill, and a run that
\* ended better than failed has a success, if completed an artifact of every
\* row (AuditWorker._execute_task, _finalize_audit, _finalize_analysis).
THEOREM ReportsBacked == AuditSpec => []ReportsAreBacked
<1>1. ASSUME AuditInit PROVE TruthInv
  BY <1>1 DEF AuditInit, Init, TruthInv, Counted, ReportsAreBacked
<1>2. TruthInv => ReportsAreBacked
  BY DEF TruthInv
<1> QED
  BY <1>1, <1>2, TruthStep, TypesKept, PlacedKept, QueueInvKept, PTL DEF AuditSpec
=============================================================================
