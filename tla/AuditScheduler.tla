--------------------------- MODULE AuditScheduler ---------------------------
(***************************************************************************)
(* The recurring planner of audits (workers/audit_scheduler.py): processes  *)
(* lease the schedules that are due, plan one audit for the slot each is    *)
(* at, and move it past every slot that had come when the tick began.  A    *)
(* slot is the occurrence of the cadence it stands for and how often a      *)
(* failure has moved it.  Time is only in the order of the steps: an        *)
(* occurrence comes, a lease runs out.                                      *)
(***************************************************************************)
EXTENDS Integers, FiniteSets

CONSTANTS
    Schedule,      \* audit_schedules rows
    OneTime,       \* those of cadence one_time
    Proc,          \* scheduler processes
    NoOne,         \* no lease owner
    MaxFailures,   \* max_consecutive_failures
    MaxOccurrence, \* bound on the occurrences
    MaxFaults      \* bound on crashes and on leases that run out in use

ASSUME SchedulerAssumption ==
    /\ Schedule # {} /\ OneTime \subseteq Schedule /\ NoOne \notin Proc
    /\ MaxFailures \in Nat \ {0} /\ MaxOccurrence \in Nat \ {0} /\ MaxFaults \in Nat

VARIABLES
    row,    \* audit_schedules
    come,   \* how many slots of a schedule have come, from next_run_at on
    audits, \* planned audits: schedule and slot
    proc,   \* where a process is, its claimed batch and the claim in hand
    broke,  \* occurrences whose planning raised an exception
    faults  \* crashes and leases lost in use so far

schedVars == <<row, come, audits, proc, broke, faults>>

\* next_run_at of occurrence k after m failures.
At(k, m) == [occ |-> k, moved |-> m]
Slots == [occ : Nat, moved : Nat]
Never == At(MaxOccurrence, 0)

\* A claim: a schedule, the slot it was at, and how many had come by the tick.
Claims == Schedule \X Slots \X Nat

SchedTypeOK ==
    /\ row \in [Schedule -> [enabled : BOOLEAN, next : Slots, owner : Proc \cup {NoOne},
                             live : BOOLEAN, fails : 0..MaxFailures]]
    /\ \A s \in Schedule :
         /\ row[s].live => row[s].owner # NoOne
         /\ row[s].enabled \/ row[s].owner # NoOne => row[s].fails < MaxFailures
    /\ come \in [Schedule -> Nat]
    /\ audits \subseteq Schedule \X Slots
    /\ proc \in [Proc -> [pc : {"batch", "check", "yield", "plan", "finalize"},
                          batch : SUBSET Claims, cur : Claims, made : BOOLEAN]]
    /\ broke \subseteq Schedule \X Nat
    /\ faults \in 0..MaxFaults

NoClaim == <<CHOOSE s \in Schedule : TRUE, Never, 0>>
InBatch(claims) == [pc |-> "batch", batch |-> claims, cur |-> NoClaim, made |-> FALSE]
Idle == InBatch({})
Job(c) == <<c[1], c[2]>>
Back(p) == proc' = [proc EXCEPT ![p] = InBatch(@.batch)]

SchedInit ==
    /\ row = [s \in Schedule |-> [enabled |-> TRUE, next |-> At(0, 0), owner |-> NoOne,
                                  live |-> FALSE, fails |-> 0]]
    /\ come = [s \in Schedule |-> 0]
    /\ audits = {}
    /\ proc = [p \in Proc |-> Idle]
    /\ broke = {}
    /\ faults = 0

(***************************************************************************)
(* A tick of a scheduler process.                                           *)
(***************************************************************************)

\* Fault: a lease that ran out keeps the schedule.
ClaimableUnowned(s) == row[s].enabled /\ come[s] > 0 /\ row[s].owner = NoOne

\* The rows _claim_due selects.
Claimable(s) == row[s].enabled /\ come[s] > 0 /\ ~row[s].live

ClaimDue(p) ==
    LET mine == {s \in Schedule : Claimable(s)} IN
    /\ proc[p] = Idle
    /\ mine # {}
    /\ row' = [s \in Schedule |->
                 IF s \in mine THEN [row[s] EXCEPT !.owner = p, !.live = TRUE] ELSE row[s]]
    /\ proc' = [proc EXCEPT ![p] = InBatch({<<s, row[s].next, come[s]>> : s \in mine})]
    /\ UNCHANGED <<come, audits, broke, faults>>

\* _renew_claim asks for the owner.  It writes the expiry the claim wrote,
\* computed from the time the tick began: the lease is as live as it was.
RenewClaim(p, c) ==
    /\ proc[p].pc = "batch" /\ c \in proc[p].batch
    /\ proc' = [proc EXCEPT
                  ![p].batch = @ \ {c},
                  ![p].pc = IF row[c[1]].owner = p THEN "check" ELSE "batch",
                  ![p].cur = IF row[c[1]].owner = p THEN c ELSE NoClaim]
    /\ UNCHANGED <<row, come, audits, broke, faults>>

\* _current_claim reads the row without a lock.
CurrentClaim(p) ==
    LET s == proc[p].cur[1] IN
    /\ proc[p].pc = "check"
    /\ IF row[s].owner # p THEN Back(p)
       ELSE proc' = [proc EXCEPT ![p].pc =
              IF row[s].enabled /\ row[s].next = proc[p].cur[2] THEN "plan" ELSE "yield"]
    /\ UNCHANGED <<row, come, audits, broke, faults>>

\* Its second transaction gives the lease up, whose ever it is by then.
YieldClaim(p) ==
    LET s == proc[p].cur[1] IN
    /\ proc[p].pc = "yield"
    /\ row' = [row EXCEPT ![s].owner = NoOne, ![s].live = FALSE]
    /\ Back(p)
    /\ UNCHANGED <<come, audits, broke, faults>>

\* Fault: an audit that is there already counts as a failure.
RepeatFails == FALSE

\* The unique key on the slot: an audit that is there already is a success.
RepeatSucceeds == TRUE

\* create_audit.
PlanAudit(p) ==
    /\ proc[p].pc = "plan"
    /\ audits' = audits \cup {Job(proc[p].cur)}
    /\ proc' = [proc EXCEPT ![p].pc = "finalize",
                            ![p].made = Job(proc[p].cur) \in audits => RepeatSucceeds]
    /\ UNCHANGED <<row, come, broke, faults>>

\* create_audit raises, before its commit or, reading the audit back, after.
PlanFails(p) ==
    /\ proc[p].pc = "plan"
    /\ audits' \in {audits, audits \cup {Job(proc[p].cur)}}
    /\ proc' = [proc EXCEPT ![p].pc = "finalize", ![p].made = FALSE]
    /\ broke' = broke \cup {<<proc[p].cur[1], proc[p].cur[2].occ>>}
    /\ UNCHANGED <<row, come, faults>>

\* Fault: whoever planned moves the slot on.
OwnsOrNot(p, s) == TRUE

\* _finalize_claim asks for the owner, under the row's lock.
Owns(p, s) == row[s].owner = p

\* next_run_after: the first slot that had not come when the tick began.  The
\* slots between are left without an audit.
Next(r, seen) == At(r.next.occ + seen, 0)

\* Fault: one failure too many.
ExhaustedLate(r) == r.fails >= MaxFailures

Exhausted(r) == r.fails + 1 >= MaxFailures

FinalizeClaim(p) ==
    LET s == proc[p].cur[1]
        r == row[s]
        moved == [r EXCEPT !.owner = NoOne, !.live = FALSE]
    IN
    /\ proc[p].pc = "finalize"
    /\ Back(p)
    /\ IF ~Owns(p, s) THEN UNCHANGED <<row, come>>
       ELSE IF proc[p].made
       THEN /\ row' = [row EXCEPT ![s] =
                 [moved EXCEPT !.fails = 0,
                               !.next = IF s \in OneTime THEN Never
                                        ELSE Next(r, proc[p].cur[3]),
                               !.enabled = @ /\ s \notin OneTime]]
            /\ come' = [come EXCEPT ![s] = @ - proc[p].cur[3]]
       ELSE /\ row' = [row EXCEPT ![s] =
                 [moved EXCEPT !.fails = @ + 1,
                               !.next = At(r.next.occ, r.next.moved + 1),
                               !.enabled = @ /\ ~Exhausted(r)]]
            /\ come' = [come EXCEPT ![s] = 0]
    /\ UNCHANGED <<audits, broke, faults>>

(***************************************************************************)
(* Time, faults and the user.                                               *)
(***************************************************************************)

ComesDue(s) ==
    /\ row[s].enabled
    /\ row[s].next.occ + come[s] < MaxOccurrence
    /\ s \in OneTime => come[s] = 0
    /\ come' = [come EXCEPT ![s] = @ + 1]
    /\ UNCHANGED <<row, audits, proc, broke, faults>>

InUse(s) == \E p \in Proc :
    /\ row[s].owner = p
    /\ \/ \E c \in proc[p].batch : c[1] = s
       \/ proc[p].pc # "batch" /\ proc[p].cur[1] = s

LeaseRunsOut(s) ==
    /\ row[s].live
    /\ IF InUse(s) THEN faults < MaxFaults /\ faults' = faults + 1 ELSE UNCHANGED faults
    /\ row' = [row EXCEPT ![s].live = FALSE]
    /\ UNCHANGED <<come, audits, proc, broke>>

Crash(p) ==
    /\ proc[p] # Idle
    /\ faults < MaxFaults
    /\ faults' = faults + 1
    /\ proc' = [proc EXCEPT ![p] = Idle]
    /\ UNCHANGED <<row, come, audits, broke>>

\* update_schedule with enabled false: the lease and the slot stay.
Disable(s) ==
    /\ row[s].enabled
    /\ row' = [row EXCEPT ![s].enabled = FALSE]
    /\ UNCHANGED <<come, audits, proc, broke, faults>>

(***************************************************************************)
(* Specification.                                                           *)
(***************************************************************************)

Ticks(p) ==
    \/ ClaimDue(p) \/ CurrentClaim(p) \/ YieldClaim(p)
    \/ PlanAudit(p) \/ PlanFails(p) \/ FinalizeClaim(p)
    \/ \E c \in proc[p].batch : RenewClaim(p, c)

SchedNext ==
    \/ \E p \in Proc : Ticks(p) \/ Crash(p)
    \/ \E s \in Schedule : ComesDue(s) \/ LeaseRunsOut(s) \/ Disable(s)

SchedSpec == SchedInit /\ [][SchedNext]_schedVars

\* The processes keep ticking, leases run out and time comes; nothing need
\* fail, and no user need disable a schedule.
FairSchedSpec ==
    /\ SchedSpec
    /\ \A p \in Proc : WF_schedVars(Ticks(p))
    /\ \A s \in Schedule : WF_schedVars(LeaseRunsOut(s)) /\ WF_schedVars(ComesDue(s))

(***************************************************************************)
(* Properties.                                                              *)
(***************************************************************************)

\* Two processes, a crash between the audit and the slot, a lease that runs
\* out while an audit is planned: none of it plans an occurrence twice.  Only
\* an exception of the planning can, because it moves the slot.
OnceUnlessBroken ==
    \A s \in Schedule, k \in 0..MaxOccurrence :
        Cardinality({c \in audits : c[1] = s /\ c[2].occ = k}) > 1 => <<s, k>> \in broke

\* However stale the process is that moves the slot, a schedule leaves its
\* occurrence behind only when an audit was planned for it, and it skips none
\* that is still to come (next_run_after counts from the claimed tick).
AdvanceIsEarned ==
    [][\A s \in Schedule :
          row'[s].next.occ # row[s].next.occ =>
              /\ \E c \in audits : c[1] = s /\ c[2].occ = row[s].next.occ
              /\ s \notin OneTime =>
                     row'[s].next.occ - row[s].next.occ \in 1..come[s]]_schedVars

\* No schedule stays due for ever: again and again it has nothing due, or is
\* disabled, or moves past its occurrence, whatever raises and whoever crashes.
DueIsHandled ==
    \A s \in Schedule :
        \/ []<>(come[s] = 0 \/ ~row[s].enabled)
        \/ []<><<row'[s].next.occ # row[s].next.occ>>_schedVars
=============================================================================
