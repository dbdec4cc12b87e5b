-------------------------- MODULE TaskQueueProofs --------------------------
(***************************************************************************)
(* Proofs about TaskQueue, for any rows, slots, processes and attempts.     *)
(***************************************************************************)
EXTENDS TaskQueue, TLAPS

\* Every step of the queue keeps the state well typed.
LEMMA TypeStep == TypeOK /\ [Next]_vars => TypeOK'
<1> SUFFICES ASSUME TypeOK, [Next]_vars PROVE TypeOK'
  OBVIOUS
<1> USE DEF TypeOK, Status, Claimable, Leased, Terminal, Verdict, rowVars, slotVars
<1>1. ASSUME NEW s \in Slot, BeginClaim(s) PROVE TypeOK'
  BY <1>1 DEF BeginClaim
<1>2. ASSUME NEW s \in Slot, NEW t \in Task, Claim(s, t) PROVE TypeOK'
  BY <1>2 DEF Claim
<1>3. ASSUME NEW s \in Slot, ClaimNothing(s) PROVE TypeOK'
  BY <1>3 DEF ClaimNothing
<1>4. ASSUME NEW s \in Slot, Heartbeat(s) PROVE TypeOK'
  BY <1>4 DEF Heartbeat, Working
<1>5. ASSUME NEW s \in Slot, MarkRunning(s) PROVE TypeOK'
  BY <1>5 DEF MarkRunning, Working
<1>6. ASSUME NEW s \in Slot, NEW v \in Verdict, RecordAttempt(s, v) PROVE TypeOK'
  BY <1>6 DEF RecordAttempt, Working
<1>7. ASSUME NEW s \in Slot, Settle(s) PROVE TypeOK'
  BY <1>7 DEF Settle, Working, Unlease, Drop
<1>8. ASSUME NEW s \in Slot, FailOutright(s) PROVE TypeOK'
  BY <1>8 DEF FailOutright, Working, Unlease, Drop
<1>9. ASSUME NEW s \in Slot, PutBack(s) PROVE TypeOK'
  BY <1>9 DEF PutBack, Working, Unlease, Drop
<1>10. ASSUME NEW s \in Slot, Abandon(s) PROVE TypeOK'
  BY <1>10 DEF Abandon, Drop
<1>11. ASSUME NEW batch \in SUBSET Task, Cancel(batch) PROVE TypeOK'
  BY <1>11 DEF Cancel, Unlease
<1>12. ASSUME NEW batch \in SUBSET Task, Sweep(batch) PROVE TypeOK'
  <2>1. status' \in [Task -> Status] /\ holder' \in [Task -> Slot \cup {Gone, NoOwner}]
    BY <1>12 DEF Sweep, Reclaimed
  <2>2. lease' \in [Task -> {"none", "live", "expired"}]
    BY <1>12 DEF Sweep
  <2>3. attempts' \in [Task -> Nat]
    BY <1>12 DEF Sweep, Charged
  <2>4. due' \in [Task -> BOOLEAN]
    BY <1>12 DEF Sweep
  <2> QED BY <1>12, <2>1, <2>2, <2>3, <2>4 DEF Sweep
<1>13. ASSUME NEW t \in Task, LeaseExpires(t) PROVE TypeOK'
  BY <1>13 DEF LeaseExpires
<1>14. ASSUME NEW t \in Task, BecomeDue(t) PROVE TypeOK'
  BY <1>14 DEF BecomeDue
<1>15. ASSUME NEW p \in Proc, Crash(p) PROVE TypeOK'
  BY <1>15 DEF Crash
<1>16. CASE UNCHANGED vars
  BY <1>16 DEF vars
<1> QED
  BY <1>1, <1>2, <1>3, <1>4, <1>5, <1>6, <1>7, <1>8, <1>9, <1>10, <1>11,
     <1>12, <1>13, <1>14, <1>15, <1>16 DEF Next

\* The state is well typed in every behaviour of the queue.
THEOREM TypeCorrect == Spec => []TypeOK
<1>1. Init => TypeOK
  BY DEF Init, TypeOK, Status, Claimable, Verdict
<1> QED BY <1>1, TypeStep, PTL DEF Spec

----------------------------------------------------------------------------
(***************************************************************************)
(* Owner, expiry and status move together.                                  *)
(***************************************************************************)

\* The owner and the expiry of a row follow its status through every step.
LEMMA LeaseStep ==
    TypeOK /\ LeaseMatchesStatus /\ [Next]_vars => LeaseMatchesStatus'
<1> SUFFICES ASSUME TypeOK, LeaseMatchesStatus, [Next]_vars
             PROVE  LeaseMatchesStatus'
  OBVIOUS
<1> USE ConstantsAssumption
    DEF TypeOK, LeaseMatchesStatus, Status, Claimable, Leased, Terminal,
        Verdict, rowVars, slotVars
<1>1. ASSUME NEW s \in Slot, BeginClaim(s) PROVE LeaseMatchesStatus'
  BY <1>1 DEF BeginClaim
<1>2. ASSUME NEW s \in Slot, NEW t \in Task, Claim(s, t)
      PROVE LeaseMatchesStatus'
  BY <1>2 DEF Claim
<1>3. ASSUME NEW s \in Slot, ClaimNothing(s) PROVE LeaseMatchesStatus'
  BY <1>3 DEF ClaimNothing
<1>4. ASSUME NEW s \in Slot, Heartbeat(s) PROVE LeaseMatchesStatus'
  BY <1>4 DEF Heartbeat, Working
<1>5. ASSUME NEW s \in Slot, MarkRunning(s) PROVE LeaseMatchesStatus'
  BY <1>5 DEF MarkRunning, Working
<1>6. ASSUME NEW s \in Slot, NEW v \in Verdict, RecordAttempt(s, v)
      PROVE LeaseMatchesStatus'
  BY <1>6 DEF RecordAttempt
<1>7. ASSUME NEW s \in Slot, Settle(s) PROVE LeaseMatchesStatus'
  BY <1>7 DEF Settle, Working, Unlease
<1>8. ASSUME NEW s \in Slot, FailOutright(s) PROVE LeaseMatchesStatus'
  BY <1>8 DEF FailOutright, Working, Unlease
<1>9. ASSUME NEW s \in Slot, PutBack(s) PROVE LeaseMatchesStatus'
  BY <1>9 DEF PutBack, Working, Unlease
<1>10. ASSUME NEW s \in Slot, Abandon(s) PROVE LeaseMatchesStatus'
  BY <1>10 DEF Abandon
<1>11. ASSUME NEW batch \in SUBSET Task, Cancel(batch) PROVE LeaseMatchesStatus'
  BY <1>11 DEF Cancel, Unlease
<1>12. ASSUME NEW batch \in SUBSET Task, Sweep(batch) PROVE LeaseMatchesStatus'
  BY <1>12 DEF Sweep, Reclaimed
<1>13. ASSUME NEW t \in Task, LeaseExpires(t) PROVE LeaseMatchesStatus'
  BY <1>13 DEF LeaseExpires
<1>14. ASSUME NEW t \in Task, BecomeDue(t) PROVE LeaseMatchesStatus'
  BY <1>14 DEF BecomeDue
<1>15. ASSUME NEW p \in Proc, Crash(p) PROVE LeaseMatchesStatus'
  BY <1>15 DEF Crash
<1>16. CASE UNCHANGED vars
  BY <1>16 DEF vars
<1> QED
  BY <1>1, <1>2, <1>3, <1>4, <1>5, <1>6, <1>7, <1>8, <1>9, <1>10, <1>11,
     <1>12, <1>13, <1>14, <1>15, <1>16 DEF Next

\* In every behaviour a row names an owner and an expiry exactly while it is
\* leased or running (postgres_task_queue.py clears both with the status).
THEOREM LeaseCorrect == Spec => []LeaseMatchesStatus
<1>1. Init => LeaseMatchesStatus
  BY ConstantsAssumption DEF Init, LeaseMatchesStatus, Leased
<1> QED BY <1>1, TypeCorrect, LeaseStep, PTL DEF Spec


----------------------------------------------------------------------------
(***************************************************************************)
(* What no step of the queue may do.                                        *)
(***************************************************************************)

\* A terminal row has no owner, so no executor's call and no sweep finds it.
LEMMA StickyStep ==
    TypeOK /\ LeaseMatchesStatus /\ [Next]_vars =>
        \A t \in Task : status[t] \in Terminal => status'[t] = status[t]
<1> SUFFICES ASSUME TypeOK, LeaseMatchesStatus, [Next]_vars,
                    NEW t \in Task, status[t] \in Terminal
             PROVE  status'[t] = status[t]
  OBVIOUS
<1>a. holder[t] = NoOwner /\ status[t] \notin Leased /\ status[t] \notin Claimable
  BY DEF LeaseMatchesStatus, Terminal, Leased, Claimable
<1>b. \A s \in Slot : Working(s) /\ Owned(s, job[s]) => job[s] # t
  BY <1>a, ConstantsAssumption DEF Owned
<1> USE DEF TypeOK
<1>1. ASSUME NEW s \in Slot, NEW u \in Task, Claim(s, u)
      PROVE  status'[t] = status[t]
  BY <1>1, <1>a DEF Claim, StillEligible, Eligible
<1>2. ASSUME NEW s \in Slot,
             MarkRunning(s) \/ Settle(s) \/ FailOutright(s) \/ PutBack(s)
      PROVE  status'[t] = status[t]
  BY <1>2, <1>b DEF MarkRunning, Settle, FailOutright, PutBack, Unlease, Working
<1>3. ASSUME NEW batch \in SUBSET Task, Cancel(batch) \/ Sweep(batch)
      PROVE  status'[t] = status[t]
  BY <1>3, <1>a DEF Cancel, Sweep, Unlease, Reclaimable
<1>4. CASE UNCHANGED status
  BY <1>4
<1> QED
  BY <1>1, <1>2, <1>3, <1>4
     DEF Next, vars, rowVars, slotVars, BeginClaim, ClaimNothing, Heartbeat,
         RecordAttempt, Abandon, LeaseExpires, BecomeDue, Crash

\* Terminal rows never change, for any number of rows, slots and processes.
THEOREM TerminalStays == Spec => TerminalSticky
<1>1. TypeOK /\ LeaseMatchesStatus /\ [Next]_vars =>
          [\A t \in Task : status[t] \in Terminal => status'[t] = status[t]]_vars
  BY StickyStep
<1> QED
  BY <1>1, TypeCorrect, LeaseCorrect, PTL DEF Spec, TerminalSticky

\* A leased row changes hands only through nobody's hands.
LEMMA HandoverStep ==
    TypeOK /\ [Next]_vars =>
        \A t \in Task : status[t] \in Leased /\ holder[t] \in Slot
                           => holder'[t] \in {holder[t], NoOwner, Gone}
<1> SUFFICES ASSUME TypeOK, [Next]_vars,
                    NEW t \in Task, status[t] \in Leased, holder[t] \in Slot
             PROVE  holder'[t] \in {holder[t], NoOwner, Gone}
  OBVIOUS
<1> USE DEF TypeOK
<1>1. ASSUME NEW s \in Slot, NEW u \in Task, Claim(s, u)
      PROVE  holder'[t] = holder[t]
  BY <1>1 DEF Claim, StillEligible, Eligible, Claimable, Leased
<1>2. ASSUME NEW s \in Slot, Settle(s) \/ FailOutright(s) \/ PutBack(s)
      PROVE  holder'[t] \in {holder[t], NoOwner}
  BY <1>2 DEF Settle, FailOutright, PutBack, Unlease
<1>3. ASSUME NEW batch \in SUBSET Task, Cancel(batch) \/ Sweep(batch)
      PROVE  holder'[t] \in {holder[t], NoOwner}
  BY <1>3 DEF Cancel, Sweep, Unlease
<1>4. ASSUME NEW p \in Proc, Crash(p)
      PROVE  holder'[t] \in {holder[t], Gone}
  BY <1>4 DEF Crash
<1>5. CASE UNCHANGED holder
  BY <1>5
<1> QED
  BY <1>1, <1>2, <1>3, <1>4, <1>5
     DEF Next, vars, rowVars, slotVars, BeginClaim, ClaimNothing, Heartbeat,
         MarkRunning, RecordAttempt, Abandon, LeaseExpires, BecomeDue

\* No two executors are ever handed one row (the recheck of eligible_filter on
\* the locked relation).
THEOREM NoRowStolen == Spec => NoStealing
<1>1. TypeOK /\ [Next]_vars =>
          [\A t \in Task : status[t] \in Leased /\ holder[t] \in Slot
                => holder'[t] \in {holder[t], NoOwner, Gone}]_vars
  BY HandoverStep
<1> QED
  BY <1>1, TypeCorrect, PTL DEF Spec, NoStealing

\* A row whose lease is live: who may change it, and how.
LEMMA LiveLeaseStep ==
    ASSUME TypeOK, LeaseMatchesStatus, [Next]_vars,
           NEW t \in Task, lease[t] = "live"
    PROVE  \/ status'[t] \in Leased /\ holder'[t] = holder[t]
           \/ status'[t] = "cancelled"
           \/ status'[t] = status[t] /\ holder[t] \in Slot /\ holder'[t] = Gone
           \/ /\ holder[t] \in Slot /\ holder'[t] = NoOwner
              /\ \E s \in Slot : /\ Home[s] = Home[holder[t]]
                                 /\ job[s] = t /\ job'[s] = NoTask
<1>a. status[t] \in Leased
  BY DEF LeaseMatchesStatus
<1> DEFINE Stays == status'[t] \in Leased /\ holder'[t] = holder[t]
           Dies == /\ status'[t] = status[t]
                   /\ holder[t] \in Slot /\ holder'[t] = Gone
           LetGo == /\ holder[t] \in Slot /\ holder'[t] = NoOwner
                    /\ \E s \in Slot : /\ Home[s] = Home[holder[t]]
                                       /\ job[s] = t /\ job'[s] = NoTask
<1> USE DEF TypeOK
<1>1. ASSUME NEW s \in Slot, NEW u \in Task, Claim(s, u) PROVE Stays
  <2>1. u # t
    BY <1>1, <1>a DEF Claim, StillEligible, Eligible, Claimable, Leased
  <2> QED BY <1>1, <1>a, <2>1 DEF Claim
<1>2. ASSUME NEW s \in Slot, MarkRunning(s) PROVE Stays
  BY <1>2, <1>a DEF MarkRunning, Leased, Working
<1>3. ASSUME NEW s \in Slot, Settle(s) \/ FailOutright(s) \/ PutBack(s)
      PROVE  Stays \/ LetGo
  <2>1. PICK st : Unlease({job[s]}, st)
    BY <1>3 DEF Settle, FailOutright, PutBack
  <2>2. CASE job[s] = t
    <3>1. Owned(s, t) /\ job'[s] = NoTask
      BY <1>3, <2>2 DEF Settle, FailOutright, PutBack, Drop
    <3>2. holder'[t] = NoOwner
      BY <2>1, <2>2 DEF Unlease
    <3> QED BY <2>2, <3>1, <3>2 DEF Owned
  <2>3. CASE job[s] # t
    BY <1>a, <2>1, <2>3 DEF Unlease
  <2> QED BY <2>2, <2>3
<1>4. ASSUME NEW batch \in SUBSET Task, Cancel(batch)
      PROVE  Stays \/ status'[t] = "cancelled"
  BY <1>4, <1>a DEF Cancel, Unlease
<1>5. ASSUME NEW batch \in SUBSET Task, Sweep(batch) PROVE Stays
  <2>1. t \notin batch
    BY <1>5 DEF Sweep, Reclaimable
  <2> QED BY <1>5, <1>a, <2>1 DEF Sweep
<1>6. ASSUME NEW p \in Proc, Crash(p) PROVE Stays \/ Dies
  BY <1>6, <1>a DEF Crash
<1>7. CASE UNCHANGED <<status, holder>>
  BY <1>7, <1>a
<1> QED
  BY <1>1, <1>2, <1>3, <1>4, <1>5, <1>6, <1>7
     DEF Next, vars, rowVars, slotVars, BeginClaim, ClaimNothing, Heartbeat,
         RecordAttempt, Abandon, LeaseExpires, BecomeDue

\* Neither a sweep, nor a second claim, nor an executor of another process takes
\* a row whose lease is live (release_expired_detailed compares
\* lease_expires_at with the clock, the claim rechecks the status under the row
\* lock, and _owned_task compares the owner).
THEOREM LiveLeaseKept == Spec => LiveLeaseHonoured
<1>1. TypeOK /\ LeaseMatchesStatus /\ [Next]_vars =>
          [\A t \in Task : lease[t] = "live" =>
              \/ status'[t] \in Leased /\ holder'[t] = holder[t]
              \/ status'[t] = "cancelled"
              \/ status'[t] = status[t] /\ holder[t] \in Slot /\ holder'[t] = Gone
              \/ /\ holder[t] \in Slot /\ holder'[t] = NoOwner
                 /\ \E s \in Slot : /\ Home[s] = Home[holder[t]]
                                    /\ job[s] = t /\ job'[s] = NoTask]_vars
  BY LiveLeaseStep
<1> QED
  BY <1>1, TypeCorrect, LeaseCorrect, PTL DEF Spec, LiveLeaseHonoured

----------------------------------------------------------------------------
(***************************************************************************)
(* The attempt budget, for processes of one slot: the owner column then     *)
(* tells which executor holds a row.                                        *)
(***************************************************************************)
OneSlotEach == \A r, s \in Slot : Home[r] = Home[s] => r = s

\* A row in its executor's hands has attempts left unless that executor's
\* verdict already ends it.
HeldBudget ==
    \A s \in Slot :
        Working(s) /\ holder[job[s]] = s /\ verdict[s] \in {"none", "retry_wait"}
            => attempts[job[s]] < MaxAttempts

BudgetInv == TypeOK /\ LeaseMatchesStatus /\ BudgetLeft /\ HeldBudget

\* The two parts of the budget hold each other up: a retry is decided from the
\* attempts of a row in hand, and a row in hand was claimed with some left.
LEMMA BudgetStep ==
    OneSlotEach /\ BudgetInv /\ [Next]_vars => BudgetLeft' /\ HeldBudget'
<1> SUFFICES ASSUME OneSlotEach, BudgetInv, [Next]_vars
             PROVE  BudgetLeft' /\ HeldBudget'
  OBVIOUS
<1>o. \A s \in Slot : Owned(s, job[s]) => holder[job[s]] = s
  BY DEF OneSlotEach, Owned
<1> USE ConstantsAssumption
    DEF BudgetInv, BudgetLeft, HeldBudget, TypeOK, Working, Terminal, Claimable,
        Leased, Status, Verdict, rowVars, slotVars
<1>1. ASSUME NEW s \in Slot, BeginClaim(s) PROVE BudgetLeft' /\ HeldBudget'
  BY <1>1 DEF BeginClaim
<1>2. ASSUME NEW s \in Slot, NEW t \in Task, Claim(s, t)
      PROVE  BudgetLeft' /\ HeldBudget'
  <2>1. attempts[t] < MaxAttempts
    BY <1>2 DEF Claim, StillEligible, Eligible, LeaseMatchesStatus
  <2> QED BY <1>2, <2>1 DEF Claim
<1>3. ASSUME NEW s \in Slot, ClaimNothing(s) PROVE BudgetLeft' /\ HeldBudget'
  BY <1>3 DEF ClaimNothing
<1>4. ASSUME NEW s \in Slot, Heartbeat(s) PROVE BudgetLeft' /\ HeldBudget'
  BY <1>4 DEF Heartbeat
<1>5. ASSUME NEW s \in Slot, MarkRunning(s) PROVE BudgetLeft' /\ HeldBudget'
  BY <1>5 DEF MarkRunning, LeaseMatchesStatus
<1>6. ASSUME NEW s \in Slot, NEW v \in Verdict, RecordAttempt(s, v)
      PROVE  BudgetLeft' /\ HeldBudget'
  <2>1. holder[job[s]] = s
    BY <1>6, <1>o DEF RecordAttempt
  <2>2. BudgetLeft'
    BY <1>6, <2>1 DEF RecordAttempt
  <2>3. HeldBudget'
    BY <1>6, <2>1 DEF RecordAttempt
  <2> QED BY <2>2, <2>3
<1>7. ASSUME NEW s \in Slot, Settle(s) PROVE BudgetLeft' /\ HeldBudget'
  BY <1>7, <1>o DEF Settle, Unlease, Drop
<1>8. ASSUME NEW s \in Slot, FailOutright(s) PROVE BudgetLeft' /\ HeldBudget'
  BY <1>8, <1>o DEF FailOutright, Unlease, Drop
<1>9. ASSUME NEW s \in Slot, PutBack(s) PROVE BudgetLeft' /\ HeldBudget'
  BY <1>9, <1>o DEF PutBack, Unlease, Drop
<1>10. ASSUME NEW s \in Slot, Abandon(s) PROVE BudgetLeft' /\ HeldBudget'
  BY <1>10 DEF Abandon, Drop
<1>11. ASSUME NEW batch \in SUBSET Task, Cancel(batch)
       PROVE  BudgetLeft' /\ HeldBudget'
  BY <1>11 DEF Cancel, Unlease
<1>12. ASSUME NEW batch \in SUBSET Task, Sweep(batch)
       PROVE  BudgetLeft' /\ HeldBudget'
  <2>1. \A t \in batch :
          /\ holder'[t] = NoOwner
          /\ status'[t] \in Terminal \/ attempts'[t] < MaxAttempts
    BY <1>12 DEF Sweep, Reclaimed, Charged
  <2>2. \A t \in Task \ batch :
          /\ holder'[t] = holder[t]
          /\ status'[t] = status[t]
          /\ attempts'[t] = attempts[t]
    BY <1>12 DEF Sweep
  <2>3. job' = job /\ verdict' = verdict
    BY <1>12 DEF Sweep
  <2>4. BudgetLeft'
    BY <2>1, <2>2
  <2>5. HeldBudget'
    BY <2>1, <2>2, <2>3
  <2> QED BY <2>4, <2>5
<1>13. ASSUME NEW t \in Task, LeaseExpires(t) PROVE BudgetLeft' /\ HeldBudget'
  BY <1>13 DEF LeaseExpires
<1>14. ASSUME NEW t \in Task, BecomeDue(t) PROVE BudgetLeft' /\ HeldBudget'
  BY <1>14 DEF BecomeDue
<1>15. ASSUME NEW p \in Proc, Crash(p) PROVE BudgetLeft' /\ HeldBudget'
  BY <1>15 DEF Crash
<1>16. CASE UNCHANGED vars
  BY <1>16 DEF vars
<1> QED
  BY <1>1, <1>2, <1>3, <1>4, <1>5, <1>6, <1>7, <1>8, <1>9, <1>10, <1>11,
     <1>12, <1>13, <1>14, <1>15, <1>16 DEF Next

\* With one slot to a process, every row that can still be claimed has attempts
\* left, whatever crashes and sweeps happened (retry and
\* release_expired_detailed compare attempt_count with max_attempts).
THEOREM BudgetKept == OneSlotEach => (Spec => []BudgetLeft)
<1> SUFFICES ASSUME OneSlotEach PROVE Spec => []BudgetLeft
  OBVIOUS
<1>1. Init => BudgetLeft /\ HeldBudget
  BY ConstantsAssumption DEF Init, BudgetLeft, HeldBudget, Working
<1>2. TypeOK /\ LeaseMatchesStatus /\ BudgetLeft /\ HeldBudget /\ [Next]_vars
        => BudgetLeft' /\ HeldBudget'
  BY BudgetStep DEF BudgetInv
<1> QED
  BY <1>1, <1>2, TypeCorrect, LeaseCorrect, PTL DEF Spec

----------------------------------------------------------------------------
(***************************************************************************)
(* The queue implements LeaseBook: the step that each action takes there.   *)
(***************************************************************************)

\* Rows that leave a worker's or nobody's hands together are vacated together.
LEMMA UnleaseVacates ==
    ASSUME TypeOK, NEW batch \in SUBSET Task,
           NEW st \in Claimable \cup Terminal, Unlease(batch, st)
    PROVE  Book!Vacate(batch, [t \in batch |-> PhaseOf(st)])
BY ConstantsAssumption
   DEF Unlease, Book!Vacate, TypeOK, TenantOf, PhaseOf

\* A row that leaves its slot's hands is given back or closed.
LEMMA ReleaseIsGiveBack ==
    ASSUME TypeOK, NEW j \in Task, holder[j] \in Slot, status[j] \in Leased,
           NEW st \in Claimable \cup Terminal, Unlease({j}, st)
    PROVE  Book!GiveBack(j)
<1> DEFINE to == [t \in {j} |-> PhaseOf(st)]
<1>1. PhaseOf(status[j]) = "held" /\ TenantOf(holder[j]) \in Proc
  BY ConstantsAssumption DEF PhaseOf, TenantOf, Claimable, Leased
<1>2. to \in [{j} -> {"open", "closed"}]
  BY DEF PhaseOf, Claimable, Terminal, Leased
<1>3. Book!Vacate({j}, to)
  BY UnleaseVacates DEF Book!Vacate
<1>4. \E g \in [{j} -> {"open", "closed"}] : Book!Vacate({j}, g)
  <2> WITNESS to \in [{j} -> {"open", "closed"}]
  <2> QED BY <1>3 DEF Book!Vacate
<1> QED BY <1>1, <1>4 DEF Book!GiveBack

\* Every step of the queue is a step of the book, or leaves the book as it is.
LEMMA BookStep ==
    TypeOK /\ LeaseMatchesStatus /\ [Next]_vars => [Book!Next]_(Book!vars)
<1> SUFFICES ASSUME TypeOK, LeaseMatchesStatus, [Next]_vars
             PROVE  [Book!Next]_(Book!vars)
  OBVIOUS
<1>1. ASSUME NEW s \in Slot, NEW t \in Task, Claim(s, t)
      PROVE  Book!Grant(t, Home[s])
  <2>1. status[t] \in Claimable /\ lease[t] = "none"
    BY <1>1 DEF Claim, StillEligible, Eligible, LeaseMatchesStatus, Claimable,
                Leased, TypeOK
  <2>2. PhaseOf(status[t]) = "open"
    BY <2>1 DEF PhaseOf
  <2>3. [u \in Task |-> PhaseOf(status'[u])]
          = [[u \in Task |-> PhaseOf(status[u])] EXCEPT ![t] = "held"]
    BY <1>1 DEF Claim, TypeOK, PhaseOf, Claimable, Leased
  <2>4. [u \in Task |-> TenantOf(holder'[u])]
          = [[u \in Task |-> TenantOf(holder[u])] EXCEPT ![t] = Home[s]]
    BY <1>1, ConstantsAssumption DEF Claim, TypeOK, TenantOf
  <2>5. [u \in Task |-> lease'[u] = "expired"]
          = [u \in Task |-> lease[u] = "expired"]
    BY <1>1, <2>1 DEF Claim, TypeOK
  <2> QED BY <2>2, <2>3, <2>4, <2>5 DEF Book!Grant
<1>2. ASSUME NEW s \in Slot, NEW j \in Task, job[s] = j, Heartbeat(s)
      PROVE  Book!Renew(j)
  <2>1. PhaseOf(status[j]) = "held" /\ TenantOf(holder[j]) \in Proc
    BY <1>2, ConstantsAssumption
       DEF Heartbeat, Working, Owned, PhaseOf, TenantOf, TypeOK, Leased, Claimable
  <2>2. [u \in Task |-> lease'[u] = "expired"]
          = [[u \in Task |-> lease[u] = "expired"] EXCEPT ![j] = FALSE]
    BY <1>2 DEF Heartbeat, TypeOK
  <2> QED BY <1>2, <2>1, <2>2 DEF Heartbeat, Book!Renew
<1>3. ASSUME NEW s \in Slot, Settle(s) \/ FailOutright(s) \/ PutBack(s)
      PROVE  Book!GiveBack(job[s]) /\ job[s] \in Task
  <2>1. /\ job[s] \in Task /\ holder[job[s]] \in Slot
        /\ \E st \in Claimable \cup Terminal : Unlease({job[s]}, st)
    BY <1>3 DEF Settle, FailOutright, PutBack, Working, Owned, TypeOK, Verdict,
                Claimable, Terminal
  <2>2. status[job[s]] \in Leased
    BY <2>1, ConstantsAssumption DEF LeaseMatchesStatus
  <2> QED BY <2>1, <2>2, ReleaseIsGiveBack
<1>4. ASSUME NEW batch \in SUBSET Task, Cancel(batch)
      PROVE  Book!Withdraw(batch)
  <2>1. \A t \in batch : PhaseOf(status[t]) # "closed"
    BY <1>4 DEF Cancel, TypeOK, Status, PhaseOf
  <2>2. Book!Vacate(batch, [t \in batch |-> PhaseOf("cancelled")])
    BY <1>4, UnleaseVacates DEF Cancel, Terminal
  <2>3. PhaseOf("cancelled") = "closed"
    BY DEF PhaseOf, Claimable, Leased
  <2> QED BY <2>1, <2>2, <2>3 DEF Book!Withdraw
<1>5. ASSUME NEW batch \in SUBSET Task, Sweep(batch)
      PROVE  Book!Revoke(batch)
  <2>1. \A t \in batch : PhaseOf(status[t]) = "held" /\ lease[t] = "expired"
    BY <1>5 DEF Sweep, Reclaimable, PhaseOf, Leased, Claimable
  <2>2. PICK to \in [batch -> {"open", "closed"}] :
             \A t \in batch : to[t] = PhaseOf(Reclaimed(t))
    <3> DEFINE g == [t \in batch |-> IF attempts[t] + 1 >= MaxAttempts
                                     THEN "closed" ELSE "open"]
    <3>1. g \in [batch -> {"open", "closed"}]
      OBVIOUS
    <3>2. \A t \in batch : g[t] = PhaseOf(Reclaimed(t))
      BY DEF Reclaimed, Charged, PhaseOf, Claimable, Leased
    <3> QED BY <3>1, <3>2
  <2>3. Book!Vacate(batch, to)
    BY <1>5, <2>2, ConstantsAssumption
       DEF Sweep, Book!Vacate, TypeOK, TenantOf
  <2> QED BY <2>1, <2>3 DEF Book!Revoke
<1>6. ASSUME NEW t \in Task, LeaseExpires(t) PROVE Book!Lapse(t)
  <2>1. PhaseOf(status[t]) = "held"
    BY <1>6 DEF LeaseExpires, LeaseMatchesStatus, PhaseOf, Leased, Claimable
  <2>2. [u \in Task |-> lease'[u] = "expired"]
          = [[u \in Task |-> lease[u] = "expired"] EXCEPT ![t] = TRUE]
    BY <1>6 DEF LeaseExpires, TypeOK
  <2> QED BY <1>6, <2>1, <2>2 DEF LeaseExpires, Book!Lapse
<1>7. ASSUME NEW p \in Proc, Crash(p) PROVE Book!Vanish(p)
  BY <1>7, ConstantsAssumption DEF Crash, Book!Vanish, TypeOK, TenantOf
<1>8. ASSUME NEW s \in Slot, MarkRunning(s) PROVE UNCHANGED Book!vars
  BY <1>8 DEF MarkRunning, Working, Book!vars, TypeOK, PhaseOf, Leased, Claimable
<1>9. CASE UNCHANGED <<status, holder, lease>>
  BY <1>9 DEF Book!vars, PhaseOf, TenantOf
<1>10. ASSUME NEW s \in Slot, NEW t \in Task, Claim(s, t) PROVE Book!Next
  BY <1>1, <1>10, ConstantsAssumption DEF Book!Next
<1>11. ASSUME NEW s \in Slot,
              Heartbeat(s) \/ Settle(s) \/ FailOutright(s) \/ PutBack(s)
       PROVE  Book!Next
  <2>1. CASE Heartbeat(s)
    <3> PICK j \in Task : job[s] = j
      BY <2>1 DEF Heartbeat, Working
    <3> QED BY <2>1, <1>2 DEF Book!Next
  <2>2. CASE Settle(s) \/ FailOutright(s) \/ PutBack(s)
    BY <2>2, <1>3 DEF Book!Next
  <2> QED BY <1>11, <2>1, <2>2
<1>12. ASSUME NEW batch \in SUBSET Task, Cancel(batch) \/ Sweep(batch)
       PROVE  Book!Next
  BY <1>4, <1>5, <1>12 DEF Book!Next
<1>13. ASSUME NEW t \in Task, LeaseExpires(t) PROVE Book!Next
  BY <1>6, <1>13 DEF Book!Next
<1>14. ASSUME NEW p \in Proc, Crash(p) PROVE Book!Next
  BY <1>7, <1>14 DEF Book!Next
<1>15. \/ UNCHANGED <<status, holder, lease>>
       \/ \E s \in Slot : MarkRunning(s)
       \/ \E s \in Slot, t \in Task : Claim(s, t)
       \/ \E s \in Slot :
             Heartbeat(s) \/ Settle(s) \/ FailOutright(s) \/ PutBack(s)
       \/ \E batch \in SUBSET Task : Cancel(batch) \/ Sweep(batch)
       \/ \E t \in Task : LeaseExpires(t)
       \/ \E p \in Proc : Crash(p)
  BY DEF Next, vars, rowVars, slotVars, BeginClaim, ClaimNothing,
         RecordAttempt, Abandon, BecomeDue
<1> QED BY <1>8, <1>9, <1>10, <1>11, <1>12, <1>13, <1>14, <1>15

\* The queue keeps the promises of LeaseBook: one tenant per row, taken from it
\* only after its lease lapsed or by withdrawal, and closed rows stay closed.
THEOREM QueueImplementsBook == Spec => ImplementsLeaseBook
<1>1. ASSUME Init PROVE Book!Init
  <2>1. \A t \in Task : /\ PhaseOf(status[t]) = "open"
                        /\ TenantOf(holder[t]) = NoOwner
                        /\ (lease[t] = "expired") = FALSE
    BY <1>1, ConstantsAssumption DEF Init, PhaseOf, TenantOf, Claimable
  <2> QED BY <2>1, Zenon DEF Book!Init
<1> QED
  BY <1>1, BookStep, TypeCorrect, LeaseCorrect, PTL
     DEF Spec, ImplementsLeaseBook, Book!Spec
=============================================================================
