------------------------ MODULE AuditSchedulerProofs ------------------------
(***************************************************************************)
(* Proofs about AuditScheduler, for any schedules, processes and number of  *)
(* faults.                                                                  *)
(***************************************************************************)
EXTENDS AuditScheduler, FiniteSetTheorems, TLAPS

ProcType == [pc : {"batch", "check", "yield", "plan", "finalize"},
             batch : SUBSET Claims, cur : Claims, made : BOOLEAN]
RowTypes == [enabled : BOOLEAN, next : Slots, owner : Proc \cup {NoOne},
             live : BOOLEAN, fails : 0..MaxFailures]

LEMMA NoClaimType == NoClaim \in Claims /\ Never \in Slots /\ At(0, 0) \in Slots
BY SchedulerAssumption DEF NoClaim, Claims, Never, At, Slots

\* What a process without a lease works on is still made of claims.
LEMMA BatchType == ASSUME NEW S \in SUBSET Claims PROVE InBatch(S) \in ProcType
BY NoClaimType DEF InBatch, ProcType

LEMMA SlotSteps ==
    ASSUME NEW r \in RowTypes, NEW n \in Nat
    PROVE  /\ Next(r, n) \in Slots /\ Next(r, n).moved = 0
           /\ Next(r, n).occ = r.next.occ + n
           /\ At(r.next.occ, r.next.moved + 1) \in Slots
BY SchedulerAssumption DEF RowTypes, Next, At, Slots

\* A live lease has an owner, and who may still fail has failures left.
Leases(rows) == \A s \in Schedule :
    /\ rows[s].live => rows[s].owner # NoOne
    /\ rows[s].enabled \/ rows[s].owner # NoOne => rows[s].fails < MaxFailures

LEMMA TypeInit == SchedInit => SchedTypeOK
<1> SUFFICES ASSUME SchedInit PROVE SchedTypeOK
  OBVIOUS
<1>1. row \in [Schedule -> RowTypes]
  BY NoClaimType, SchedulerAssumption DEF SchedInit, RowTypes
<1>2. proc \in [Proc -> ProcType]
  BY BatchType DEF SchedInit, Idle
<1> QED
  BY <1>1, <1>2, SchedulerAssumption DEF SchedInit, SchedTypeOK, RowTypes, ProcType

\* What a process claimed: its batch and the claim in hand.
Held(p) == proc[p].batch \cup (IF proc[p].pc = "batch" THEN {} ELSE {proc[p].cur})

Jobs(p) == {Job(c) : c \in Held(p)}

\* Every slot that is or was a schedule's.
Known == audits \cup {<<s, row[s].next>> : s \in Schedule}
                \cup UNION {Jobs(p) : p \in Proc}

\* As long as a process owns a schedule the slot it claimed is the row's, and
\* what had come when it claimed has; it
\* reports a plan only for an audit that is there, and a failure only for an
\* occurrence that broke; and only what broke is moved.
SchedInv ==
    /\ \A p \in Proc : \A c \in Held(p) : 
         row[c[1]].owner = p => row[c[1]].next = c[2] /\ c[3] \in 1..come[c[1]]
    /\ \A p \in Proc : proc[p].pc = "finalize" =>
         IF proc[p].made THEN Job(proc[p].cur) \in audits
         ELSE <<proc[p].cur[1], proc[p].cur[2].occ>> \in broke
    /\ \A c \in Known : c[2].moved > 0 => <<c[1], c[2].occ>> \in broke

LEMMA TypeStep == SchedTypeOK /\ SchedInv /\ [SchedNext]_schedVars => SchedTypeOK'
<1> SUFFICES ASSUME SchedTypeOK, SchedInv, [SchedNext]_schedVars PROVE SchedTypeOK'
  OBVIOUS
<1>0. /\ row \in [Schedule -> RowTypes] /\ come \in [Schedule -> Nat]
      /\ Leases(row)
      /\ audits \subseteq Schedule \X Slots /\ proc \in [Proc -> ProcType]
      /\ broke \subseteq Schedule \X Nat /\ faults \in 0..MaxFaults
  BY DEF SchedTypeOK, RowTypes, ProcType, Leases
<1> DEFINE Goal == /\ row' \in [Schedule -> RowTypes] /\ come' \in [Schedule -> Nat]
                   /\ Leases(row')
                   /\ audits' \subseteq Schedule \X Slots /\ proc' \in [Proc -> ProcType]
                   /\ broke' \subseteq Schedule \X Nat
                   /\ faults' \in 0..MaxFaults
<1> SUFFICES Goal
  BY DEF SchedTypeOK, RowTypes, ProcType, Leases
<1>a. ASSUME NEW p \in Proc PROVE Back(p) => proc' \in [Proc -> ProcType]
  <2>1. InBatch(proc[p].batch) \in ProcType
    BY <1>0, BatchType DEF ProcType
  <2> QED BY <1>0, <2>1 DEF Back
<1>b. ASSUME NEW p \in Proc PROVE proc[p].cur \in Claims /\ proc[p].cur[1] \in Schedule
                                  /\ proc[p].cur[2] \in Slots /\ proc[p].cur[3] \in Nat
                                  /\ Job(proc[p].cur) \in Schedule \X Slots
  BY <1>0 DEF ProcType, Claims, Job
<1>1. ASSUME NEW p \in Proc, ClaimDue(p) PROVE Goal
  <2>1. row' \in [Schedule -> RowTypes]
    BY <1>0, <1>1 DEF ClaimDue, RowTypes
  <2>2. Leases(row')
    BY <1>0, <1>1, SchedulerAssumption DEF ClaimDue, RowTypes, Leases, Claimable
  <2>3. {<<s, row[s].next, come[s]>> : s \in {s \in Schedule : Claimable(s)}} \in SUBSET Claims
    BY <1>0 DEF Claims, RowTypes
  <2>4. proc' \in [Proc -> ProcType]
    BY <1>0, <1>1, <2>3, BatchType DEF ClaimDue
  <2> QED BY <1>0, <1>1, <2>1, <2>2, <2>4 DEF ClaimDue
<1>2. ASSUME NEW p \in Proc, NEW c \in proc[p].batch, RenewClaim(p, c) PROVE Goal
  <2> DEFINE mine == row[c[1]].owner = p
             w == [proc[p] EXCEPT !.batch = @ \ {c}, !.pc = IF mine THEN "check" ELSE "batch",
                                  !.cur = IF mine THEN c ELSE NoClaim]
  <2>1. proc[p] \in ProcType /\ c \in Claims
    BY <1>0 DEF ProcType
  <2>2. (IF mine THEN c ELSE NoClaim) \in Claims /\ (IF mine THEN "check" ELSE "batch") \in {"check", "batch"}
    BY <2>1, NoClaimType
  <2>3. w \in ProcType
    <3> HIDE DEF mine
    <3> QED BY <2>1, <2>2 DEF ProcType
  <2>4. proc' = [proc EXCEPT ![p] = w]
    BY <1>0, <1>2, <2>1 DEF RenewClaim, ProcType
  <2>5. proc' \in [Proc -> ProcType]
    BY <1>0, <2>3, <2>4
  <2> QED BY <1>0, <1>2, <2>5 DEF RenewClaim
<1>3. ASSUME NEW p \in Proc, CurrentClaim(p) PROVE Goal
  <2>1. proc' \in [Proc -> ProcType]
    BY <1>0, <1>3, <1>a DEF CurrentClaim, ProcType
  <2> QED BY <1>0, <1>3, <2>1 DEF CurrentClaim
<1>4. ASSUME NEW p \in Proc, YieldClaim(p) PROVE Goal
  <2> DEFINE s == proc[p].cur[1]
             w == [row[s] EXCEPT !.owner = NoOne, !.live = FALSE]
  <2>0. s \in Schedule /\ row[s] \in RowTypes
    BY <1>0 DEF ProcType, Claims
  <2>1. row' \in [Schedule -> RowTypes] /\ Leases(row')
    <3>1. row' = [row EXCEPT ![s] = w]
      BY <1>0, <1>4, <2>0 DEF YieldClaim, RowTypes
    <3>2. w \in RowTypes
      BY <2>0 DEF RowTypes
    <3>3. row' \in [Schedule -> RowTypes]
      BY <1>0, <3>1, <3>2
    <3>4. Leases(row')
      BY <1>0, <2>0, <3>1 DEF Leases, RowTypes
    <3> QED BY <3>3, <3>4
  <2> QED BY <1>0, <1>4, <1>a, <2>1 DEF YieldClaim
<1>5. ASSUME NEW p \in Proc, PlanAudit(p) \/ PlanFails(p) PROVE Goal
  <2>1. proc' \in [Proc -> ProcType]
    BY <1>0, <1>5 DEF PlanAudit, PlanFails, ProcType, RepeatSucceeds
  <2>2. audits' \subseteq Schedule \X Slots
    BY <1>0, <1>5, <1>b DEF PlanAudit, PlanFails
  <2>3. broke' \subseteq Schedule \X Nat
    BY <1>0, <1>5, <1>b DEF PlanAudit, PlanFails, Slots
  <2> QED BY <1>0, <1>5, <2>1, <2>2, <2>3 DEF PlanAudit, PlanFails
<1>6. ASSUME NEW p \in Proc, FinalizeClaim(p) PROVE Goal
  <2> DEFINE s == proc[p].cur[1]
  <2>1. row' \in [Schedule -> RowTypes] /\ Leases(row')
    <3>0. s \in Schedule /\ row[s] \in RowTypes
      BY <1>0, <1>b
    <3>1. CASE ~Owns(p, s)
      BY <1>0, <1>6, <3>1 DEF FinalizeClaim
    <3>2. CASE Owns(p, s) /\ proc[p].made
      <4> DEFINE w == [row[s] EXCEPT !.owner = NoOne, !.live = FALSE, !.fails = 0,
                         !.next = IF s \in OneTime THEN Never
                                  ELSE Next(row[s], proc[p].cur[3]),
                         !.enabled = @ /\ s \notin OneTime]
      <4>1. row' = [row EXCEPT ![s] = w]
        BY <1>6, <3>0, <3>2 DEF FinalizeClaim, RowTypes
      <4>2. w \in RowTypes /\ ~w.live /\ w.owner = NoOne /\ w.fails = 0
        <5>1. (IF s \in OneTime THEN Never ELSE Next(row[s], proc[p].cur[3])) \in Slots
          BY <1>b, <3>0, NoClaimType, SlotSteps
        <5>2. (row[s].enabled /\ s \notin OneTime) \in BOOLEAN
          BY <3>0 DEF RowTypes
        <5>3. 0 \in 0..MaxFailures
          BY SchedulerAssumption
        <5> QED BY <3>0, <5>1, <5>2, <5>3 DEF RowTypes
      <4> HIDE DEF w
      <4> QED BY <1>0, <3>0, <4>1, <4>2, SchedulerAssumption DEF Leases
    <3>3. CASE Owns(p, s) /\ ~proc[p].made
      <4> DEFINE w == [row[s] EXCEPT !.owner = NoOne, !.live = FALSE, !.fails = @ + 1,
                         !.next = At(row[s].next.occ, row[s].next.moved + 1),
                         !.enabled = @ /\ ~Exhausted(row[s])]
      <4>1. row' = [row EXCEPT ![s] = w]
        BY <1>6, <3>0, <3>3 DEF FinalizeClaim, RowTypes
      <4>2. /\ w \in RowTypes /\ ~w.live /\ w.owner = NoOne
            /\ w.enabled => w.fails < MaxFailures
        <5>1. At(row[s].next.occ, row[s].next.moved + 1) \in Slots
          BY <3>0, SlotSteps
        <5>2. row[s].fails + 1 \in 0..MaxFailures
          BY <1>0, <3>0, <3>3, SchedulerAssumption DEF RowTypes, Leases, Owns
        <5>3. (row[s].enabled /\ ~Exhausted(row[s])) \in BOOLEAN
          BY <3>0 DEF RowTypes, Exhausted
        <5>4. w \in RowTypes
          BY <3>0, <5>1, <5>2, <5>3 DEF RowTypes
        <5>5. w.enabled => w.fails < MaxFailures
          <6>1. /\ w.enabled => ~Exhausted(row[s])
                /\ w.fails = row[s].fails + 1
            BY <3>0 DEF RowTypes
          <6> QED BY <5>2, <6>1, SchedulerAssumption DEF Exhausted
        <5> QED BY <3>0, <5>4, <5>5 DEF RowTypes
      <4> HIDE DEF w
      <4> QED BY <1>0, <4>1, <4>2 DEF Leases
    <3> QED BY <3>1, <3>2, <3>3
  <2>2. come' \in [Schedule -> Nat]
    <3>1. CASE Owns(p, s) /\ proc[p].made
      <4>1. proc[p].cur[3] \in 1..come[s]
        BY <1>6, <3>1 DEF SchedInv, Held, Owns, FinalizeClaim
      <4>2. come[s] - proc[p].cur[3] \in Nat
        BY <1>0, <1>b, <4>1
      <4> QED BY <1>0, <1>6, <3>1, <4>2 DEF FinalizeClaim
    <3>2. CASE ~(Owns(p, s) /\ proc[p].made)
      BY <1>0, <1>6, <3>2 DEF FinalizeClaim
    <3> QED BY <3>1, <3>2
  <2> QED BY <1>0, <1>6, <1>a, <2>1, <2>2 DEF FinalizeClaim
<1>7. ASSUME NEW p \in Proc, Crash(p) PROVE Goal
  <2>1. InBatch({}) \in ProcType
    BY BatchType
  <2> QED BY <1>0, <1>7, <2>1, SchedulerAssumption DEF Crash, Idle
<1>8. ASSUME NEW s \in Schedule, ComesDue(s) \/ LeaseRunsOut(s) \/ Disable(s) PROVE Goal
  <2>1. CASE ComesDue(s)
    BY <1>0, <2>1 DEF ComesDue
  <2>2. CASE LeaseRunsOut(s)
    <3>1. row' \in [Schedule -> RowTypes] /\ Leases(row')
      BY <1>0, <2>2 DEF LeaseRunsOut, RowTypes, Leases
    <3> QED BY <1>0, <2>2, <3>1, SchedulerAssumption DEF LeaseRunsOut
  <2>3. CASE Disable(s)
    <3>1. row' \in [Schedule -> RowTypes] /\ Leases(row')
      BY <1>0, <2>3 DEF Disable, RowTypes, Leases
    <3> QED BY <1>0, <2>3, <3>1 DEF Disable
  <2> QED BY <1>8, <2>1, <2>2, <2>3
<1>9. CASE UNCHANGED schedVars
  BY <1>0, <1>9 DEF schedVars
<1> QED
  BY <1>1, <1>2, <1>3, <1>4, <1>5, <1>6, <1>7, <1>8, <1>9 DEF SchedNext, Ticks

(***************************************************************************)
(* Claims, slots and audits.                                                *)
(***************************************************************************)

LEMMA InvInit == SchedInit => SchedInv
<1> SUFFICES ASSUME SchedInit PROVE SchedInv
  OBVIOUS
<1>1. \A p \in Proc : Held(p) = {} /\ proc[p].pc = "batch"
  BY DEF SchedInit, Held, Idle, InBatch
<1>2. \A c \in Known : c[2].moved = 0
  <2>1. \A p \in Proc : Jobs(p) = {}
    BY <1>1 DEF Jobs
  <2>2. Known = {<<s, At(0, 0)>> : s \in Schedule}
    BY <2>1 DEF SchedInit, Known
  <2> QED BY <2>2 DEF At
<1> QED BY <1>1, <1>2 DEF SchedInv

\* What finalizing a claim that is still owned writes.
LEMMA Finalized ==
    ASSUME SchedTypeOK, NEW p \in Proc, FinalizeClaim(p), Owns(p, proc[p].cur[1])
    PROVE  LET s == proc[p].cur[1] IN
           /\ s \in Schedule /\ row'[s].owner = NoOne
           /\ IF proc[p].made THEN row'[s].next = (IF s \in OneTime THEN Never
                                               ELSE Next(row[s], proc[p].cur[3]))
              ELSE row'[s].next = At(row[s].next.occ, row[s].next.moved + 1)
<1> DEFINE s == proc[p].cur[1]
<1>0. row \in [Schedule -> RowTypes] /\ s \in Schedule /\ row[s] \in RowTypes
  BY DEF SchedTypeOK, RowTypes, Claims
<1>1. CASE proc[p].made
  <2> DEFINE w == [row[s] EXCEPT !.owner = NoOne, !.live = FALSE, !.fails = 0,
                     !.next = IF s \in OneTime THEN Never
                                  ELSE Next(row[s], proc[p].cur[3]),
                     !.enabled = @ /\ s \notin OneTime]
  <2>1. row' = [row EXCEPT ![s] = w]
    BY <1>0, <1>1 DEF FinalizeClaim, RowTypes
  <2>2. w.owner = NoOne /\ w.next = (IF s \in OneTime THEN Never
                                     ELSE Next(row[s], proc[p].cur[3]))
    BY <1>0 DEF RowTypes
  <2> HIDE DEF w
  <2>3. row'[s] = w
    BY <1>0, <2>1
  <2> QED BY <1>0, <1>1, <2>2, <2>3
<1>2. CASE ~proc[p].made
  <2> DEFINE w == [row[s] EXCEPT !.owner = NoOne, !.live = FALSE, !.fails = @ + 1,
                     !.next = At(row[s].next.occ, row[s].next.moved + 1),
                     !.enabled = @ /\ ~Exhausted(row[s])]
  <2>1. row' = [row EXCEPT ![s] = w]
    BY <1>0, <1>2 DEF FinalizeClaim, RowTypes
  <2>2. w.owner = NoOne /\ w.next = At(row[s].next.occ, row[s].next.moved + 1)
    BY <1>0 DEF RowTypes
  <2> HIDE DEF w
  <2>3. row'[s] = w
    BY <1>0, <2>1
  <2> QED BY <1>0, <1>2, <2>2, <2>3
<1> QED BY <1>1, <1>2

\* Only claiming gives a process more to hold; otherwise a schedule stays with
\* its owner and its slot, or loses the owner.
LEMMA HeldSteps ==
    ASSUME SchedTypeOK, [SchedNext]_schedVars
    PROVE  \/ \E p \in Proc : ClaimDue(p)
           \/ /\ \A p \in Proc : Held(p)' \subseteq Held(p)
              /\ \A s \in Schedule :
                   \/ row'[s].owner = NoOne
                   \/ row'[s].owner = row[s].owner /\ row'[s].next = row[s].next /\ come'[s] >= come[s]
<1> DEFINE Fewer == \A p \in Proc : Held(p)' \subseteq Held(p)
           Keep == \A s \in Schedule :
                     \/ row'[s].owner = NoOne
                     \/ row'[s].owner = row[s].owner /\ row'[s].next = row[s].next /\ come'[s] >= come[s]
<1>0. /\ row \in [Schedule -> RowTypes] /\ proc \in [Proc -> ProcType]
      /\ come \in [Schedule -> Nat]
  BY DEF SchedTypeOK, RowTypes, ProcType
<1>1. ASSUME NEW p \in Proc, Back(p) PROVE Fewer
  BY <1>0, <1>1 DEF Back, InBatch, Held
<1>2. ASSUME NEW p \in Proc, NEW c \in proc[p].batch, RenewClaim(p, c) PROVE Fewer /\ Keep
  BY <1>0, <1>2 DEF RenewClaim, Held, ProcType
<1>3. ASSUME NEW p \in Proc, CurrentClaim(p) PROVE Fewer /\ Keep
  <2>1. CASE Back(p)
    BY <1>0, <1>1, <1>3, <2>1 DEF CurrentClaim
  <2>2. CASE ~Back(p)
    <3>1. Fewer
      <4> DEFINE to == IF row[proc[p].cur[1]].enabled
                          /\ row[proc[p].cur[1]].next = proc[p].cur[2]
                       THEN "plan" ELSE "yield"
      <4>1. proc' = [proc EXCEPT ![p].pc = to] /\ proc[p].pc = "check"
        BY <1>3, <2>2 DEF CurrentClaim
      <4>2. to # "batch"
        OBVIOUS
      <4> HIDE DEF to
      <4> QED BY <1>0, <4>1, <4>2 DEF Held, ProcType
    <3>2. Keep
      BY <1>0, <1>3 DEF CurrentClaim
    <3> QED BY <3>1, <3>2
  <2> QED BY <2>1, <2>2
<1>4. ASSUME NEW p \in Proc, YieldClaim(p) PROVE Fewer /\ Keep
  BY <1>0, <1>1, <1>4 DEF YieldClaim, RowTypes
<1>5. ASSUME NEW p \in Proc, PlanAudit(p) \/ PlanFails(p) PROVE Fewer /\ Keep
  BY <1>0, <1>5 DEF PlanAudit, PlanFails, Held, ProcType
<1>6. ASSUME NEW p \in Proc, FinalizeClaim(p) PROVE Fewer /\ Keep
  <2>1. Keep
    <3> DEFINE s == proc[p].cur[1]
    <3>1. \A t \in Schedule : t # s => row'[t] = row[t] /\ come'[t] = come[t]
      <4>1. \A t \in Schedule : t # s => row'[t] = row[t]
        BY <1>0, <1>6 DEF FinalizeClaim
      <4>2. \A t \in Schedule : t # s => come'[t] = come[t]
        BY <1>0, <1>6 DEF FinalizeClaim
      <4> QED BY <4>1, <4>2
    <3>2. ASSUME Owns(p, s) PROVE row'[s].owner = NoOne
      BY <1>6, <3>2, Finalized
    <3>3. ~Owns(p, s) => row' = row /\ come' = come
      BY <1>6 DEF FinalizeClaim
    <3> QED BY <1>0, <3>1, <3>2, <3>3
  <2> QED BY <1>1, <1>6, <2>1 DEF FinalizeClaim
<1>7. ASSUME NEW p \in Proc, Crash(p) PROVE Fewer /\ Keep
  BY <1>0, <1>7 DEF Crash, Held, Idle, InBatch
<1>8. CASE UNCHANGED schedVars \/ \E s \in Schedule : ComesDue(s) \/ LeaseRunsOut(s) \/ Disable(s)
  <2>1. Fewer
    BY <1>8 DEF schedVars, ComesDue, LeaseRunsOut, Disable, Held
  <2>2. Keep
    <3>1. CASE \E s \in Schedule : ComesDue(s)
      BY <1>0, <3>1 DEF ComesDue
    <3>2. CASE UNCHANGED schedVars \/ \E s \in Schedule : LeaseRunsOut(s) \/ Disable(s)
      <4>1. come' = come
        BY <3>2 DEF schedVars, LeaseRunsOut, Disable
      <4>2. \A s \in Schedule : row'[s].owner = row[s].owner /\ row'[s].next = row[s].next
        BY <1>0, <3>2 DEF schedVars, LeaseRunsOut, Disable, RowTypes
      <4> QED BY <1>0, <4>1, <4>2
    <3> QED BY <1>8, <3>1, <3>2
  <2> QED BY <2>1, <2>2
<1> QED
  BY <1>2, <1>3, <1>4, <1>5, <1>6, <1>7, <1>8 DEF SchedNext, Ticks

\* What a process that finalizes still owns has the slot it planned.
LEMMA OwnedSlot ==
    ASSUME SchedTypeOK, SchedInv, NEW p \in Proc, FinalizeClaim(p), Owns(p, proc[p].cur[1])
    PROVE  /\ proc[p].cur[1] \in Schedule
           /\ Job(proc[p].cur) = <<proc[p].cur[1], row[proc[p].cur[1]].next>>
           /\ proc[p].cur[3] \in 1..come[proc[p].cur[1]]
<1>1. proc[p].cur \in Held(p) /\ proc[p].cur \in Claims
  BY DEF SchedTypeOK, FinalizeClaim, Held
<1> QED BY <1>1 DEF SchedInv, Owns, Claims, Job

\* Audits and broken occurrences are only added.
LEMMA Recorded ==
    ASSUME [SchedNext]_schedVars PROVE audits \subseteq audits' /\ broke \subseteq broke'
<1>1. ASSUME NEW p \in Proc, Ticks(p) \/ Crash(p) PROVE audits \subseteq audits' /\ broke \subseteq broke'
  BY <1>1 DEF Ticks, ClaimDue, RenewClaim, CurrentClaim, YieldClaim, PlanAudit, PlanFails,
              FinalizeClaim, Crash
<1> QED
  BY <1>1 DEF SchedNext, ComesDue, LeaseRunsOut, Disable, schedVars

\* Only finalizing a claim moves a schedule's slot.
LEMMA SlotMoves ==
    ASSUME SchedTypeOK, [SchedNext]_schedVars, NEW s \in Schedule, row'[s].next # row[s].next
    PROVE  \E p \in Proc : FinalizeClaim(p)
<1>0. row \in [Schedule -> RowTypes]
  BY DEF SchedTypeOK, RowTypes
<1>1. ASSUME NEW p \in Proc, Ticks(p) \/ Crash(p), ~FinalizeClaim(p) PROVE FALSE
  <2>1. CASE ClaimDue(p)
    <3>1. row'[s] = [row[s] EXCEPT !.owner = p, !.live = TRUE] \/ row'[s] = row[s]
      BY <1>0, <2>1 DEF ClaimDue
    <3> QED BY <1>0, <3>1 DEF RowTypes
  <2>3. CASE YieldClaim(p)
    BY <1>0, <2>3 DEF YieldClaim, RowTypes
  <2>2. CASE ~ClaimDue(p) /\ ~YieldClaim(p)
    BY <1>1, <2>2 DEF Ticks, RenewClaim, CurrentClaim, PlanAudit, PlanFails, Crash
  <2> QED BY <2>1, <2>2, <2>3
<1>2. CASE UNCHANGED schedVars \/ \E t \in Schedule : ComesDue(t) \/ LeaseRunsOut(t) \/ Disable(t)
  BY <1>0, <1>2 DEF ComesDue, LeaseRunsOut, Disable, schedVars, RowTypes
<1> QED
  BY <1>1, <1>2 DEF SchedNext

\* A slot nobody knew of is one a schedule was just moved to.
LEMMA NewSlots ==
    ASSUME SchedTypeOK, [SchedNext]_schedVars, NEW c \in Known', c \notin Known
    PROVE  \E s \in Schedule : c = <<s, row'[s].next>> /\ row'[s].next # row[s].next
<1>0. row \in [Schedule -> RowTypes] /\ proc \in [Proc -> ProcType]
  BY DEF SchedTypeOK, RowTypes, ProcType
<1>1. audits' \subseteq Known
  <2>1. ASSUME NEW p \in Proc, PlanAudit(p) \/ PlanFails(p) PROVE audits' \subseteq audits \cup Jobs(p)
    BY <2>1 DEF PlanAudit, PlanFails, Held, Jobs
  <2>2. ASSUME NEW p \in Proc, Ticks(p) \/ Crash(p), ~PlanAudit(p), ~PlanFails(p) PROVE UNCHANGED audits
    BY <2>2 DEF Ticks, ClaimDue, RenewClaim, CurrentClaim, YieldClaim, FinalizeClaim, Crash
  <2> QED
    BY <2>1, <2>2 DEF SchedNext, ComesDue, LeaseRunsOut, Disable, schedVars, Known
<1>2. \A p \in Proc : Jobs(p)' \subseteq Known
  <2>1. ASSUME NEW q \in Proc, ClaimDue(q), NEW p \in Proc PROVE Jobs(p)' \subseteq Known
    <3>1. CASE p = q
      <4>1. Held(p)' \subseteq {<<s, row[s].next, come[s]>> : s \in Schedule}
        BY <1>0, <2>1, <3>1 DEF ClaimDue, Held, InBatch
      <4>2. Jobs(p)' \subseteq {<<s, row[s].next>> : s \in Schedule}
        BY <4>1 DEF Jobs, Job
      <4> QED BY <4>2 DEF Known
    <3>2. CASE p # q
      <4>1. Held(p)' = Held(p)
        BY <1>0, <2>1, <3>2 DEF ClaimDue, Held
      <4>2. Jobs(p)' = Jobs(p)
        BY <4>1 DEF Jobs
      <4> QED BY <4>2 DEF Known
    <3> QED BY <3>1, <3>2
  <2>2. ASSUME \A p \in Proc : Held(p)' \subseteq Held(p)
        PROVE  \A p \in Proc : Jobs(p)' \subseteq Known
    BY <2>2 DEF Known, Jobs
  <2> QED BY <2>1, <2>2, HeldSteps
<1>3. PICK s \in Schedule : c = <<s, row'[s].next>>
  BY <1>1, <1>2 DEF Known
<1> QED BY <1>3 DEF Known

LEMMA InvStep == SchedTypeOK /\ SchedInv /\ [SchedNext]_schedVars => SchedInv'
<1> SUFFICES ASSUME SchedTypeOK, SchedInv, [SchedNext]_schedVars PROVE SchedInv'
  OBVIOUS
<1>0. /\ row \in [Schedule -> RowTypes] /\ proc \in [Proc -> ProcType]
      /\ audits \subseteq Schedule \X Slots /\ come \in [Schedule -> Nat]
  BY DEF SchedTypeOK, RowTypes, ProcType
<1>00. NoOne \notin Proc /\ \A p \in Proc : Held(p) \subseteq Claims
  BY <1>0, SchedulerAssumption DEF Held, ProcType
<1>1. (\A p \in Proc : \A c \in Held(p) :
         row[c[1]].owner = p => row[c[1]].next = c[2] /\ c[3] \in 1..come[c[1]])'
  <2>1. ASSUME NEW q \in Proc, ClaimDue(q), NEW p \in Proc, NEW c \in Held(p)',
               row'[c[1]].owner = p
        PROVE  row'[c[1]].next = c[2] /\ c[3] \in 1..come'[c[1]]
    <3>0. \A s \in Schedule : row'[s].next = row[s].next /\ row'[s].owner \in {q, row[s].owner}
      BY <1>0, <2>1 DEF ClaimDue, RowTypes
    <3>00. come' = come
      BY <2>1 DEF ClaimDue
    <3>1. CASE p = q
      <4>1. Held(p)' \subseteq {<<s, row[s].next, come[s]>> : s \in {t \in Schedule : Claimable(t)}}
        BY <1>0, <2>1, <3>1 DEF ClaimDue, Held, InBatch
      <4>2. PICK s \in Schedule : Claimable(s) /\ c = <<s, row[s].next, come[s]>>
        BY <4>1
      <4>3. come[s] \in 1..come[s]
        BY <1>0, <4>2 DEF Claimable
      <4> QED BY <3>0, <3>00, <4>2, <4>3
    <3>2. CASE p # q
      <4>1. c \in Held(p) /\ c[1] \in Schedule
        BY <1>0, <1>00, <2>1, <3>2 DEF ClaimDue, Held, Claims
      <4> QED BY <2>1, <3>0, <3>00, <3>2, <4>1 DEF SchedInv
    <3> QED BY <3>1, <3>2
  <2>2. ASSUME NEW p \in Proc, NEW c \in Held(p)', Held(p)' \subseteq Held(p), row'[c[1]].owner = p,
               \A s \in Schedule :
                   \/ row'[s].owner = NoOne
                   \/ row'[s].owner = row[s].owner /\ row'[s].next = row[s].next /\ come'[s] >= come[s]
        PROVE  row'[c[1]].next = c[2] /\ c[3] \in 1..come'[c[1]]
    <3>1. c \in Held(p) /\ c[1] \in Schedule
      BY <1>00, <2>2 DEF Claims
    <3>2. /\ row'[c[1]].owner = row[c[1]].owner /\ row'[c[1]].next = row[c[1]].next
          /\ come'[c[1]] >= come[c[1]]
      BY <1>00, <2>2, <3>1
    <3>3. row[c[1]].next = c[2] /\ c[3] \in 1..come[c[1]]
      BY <2>2, <3>1, <3>2 DEF SchedInv
    <3>4. come'[c[1]] \in Nat /\ come[c[1]] \in Nat
      BY <1>0, <3>1, TypeStep DEF SchedTypeOK
    <3> QED BY <3>2, <3>3, <3>4
  <2> QED BY <2>1, <2>2, HeldSteps
<1>2. (\A p \in Proc : proc[p].pc = "finalize" =>
         IF proc[p].made THEN Job(proc[p].cur) \in audits
         ELSE <<proc[p].cur[1], proc[p].cur[2].occ>> \in broke)'
  <2> SUFFICES ASSUME NEW p \in Proc, proc'[p].pc = "finalize"
               PROVE  IF proc'[p].made THEN Job(proc'[p].cur) \in audits'
                      ELSE <<proc'[p].cur[1], proc'[p].cur[2].occ>> \in broke'
    OBVIOUS
  <2>0. audits \subseteq audits' /\ broke \subseteq broke'
    BY Recorded
  <2>1. CASE proc'[p] = proc[p]
    BY <2>0, <2>1 DEF SchedInv
  <2>2. CASE PlanAudit(p) \/ PlanFails(p)
    BY <1>0, <2>2 DEF PlanAudit, PlanFails, RepeatSucceeds, ProcType, Job
  <2>3. CASE proc'[p] # proc[p] /\ ~PlanAudit(p) /\ ~PlanFails(p)
    <3>1. ASSUME NEW q \in Proc, Ticks(q) \/ Crash(q) PROVE q = p
      <4>1. \A x \in Proc : Back(x) => x = p
        BY <1>0, <2>3 DEF Back
      <4> QED
        BY <1>0, <2>3, <3>1, <4>1 DEF Ticks, ClaimDue, RenewClaim, CurrentClaim, YieldClaim, PlanAudit,
           PlanFails, FinalizeClaim, Crash
    <3>2. ASSUME NEW s \in Schedule, ComesDue(s) \/ LeaseRunsOut(s) \/ Disable(s) PROVE FALSE
      BY <2>3, <3>2 DEF ComesDue, LeaseRunsOut, Disable
    <3>3. Ticks(p) \/ Crash(p)
      BY <2>3, <3>1, <3>2 DEF SchedNext, schedVars
    <3>4. ASSUME Back(p) PROVE FALSE
      BY <1>0, <3>4 DEF Back, InBatch
    <3>5. ASSUME NEW c \in proc[p].batch, RenewClaim(p, c) PROVE FALSE
      BY <1>0, <3>5 DEF RenewClaim, ProcType
    <3>6. ASSUME CurrentClaim(p) PROVE FALSE
      BY <1>0, <3>4, <3>6 DEF CurrentClaim, ProcType
    <3>7. ASSUME ClaimDue(p) \/ Crash(p) PROVE FALSE
      <4>1. proc'[p].pc = "batch"
        <5>1. \A S : InBatch(S).pc = "batch"
          BY DEF InBatch
        <5>2. \E S : proc' = [proc EXCEPT ![p] = InBatch(S)]
          BY <3>7 DEF ClaimDue, Crash, Idle
        <5> QED BY <1>0, <5>1, <5>2
      <4> QED BY <4>1
    <3>8. ASSUME YieldClaim(p) \/ FinalizeClaim(p) PROVE FALSE
      BY <3>4, <3>8 DEF YieldClaim, FinalizeClaim
    <3> QED
      BY <2>3, <3>3, <3>5, <3>6, <3>7, <3>8 DEF Ticks
  <2> QED BY <2>1, <2>2, <2>3
<1>3. (\A c \in Known : c[2].moved > 0 => <<c[1], c[2].occ>> \in broke)'
  <2> SUFFICES ASSUME NEW c \in Known', c[2].moved > 0 PROVE <<c[1], c[2].occ>> \in broke'
    OBVIOUS
  <2>0. broke \subseteq broke'
    BY Recorded
  <2>1. CASE c \in Known
    BY <2>0, <2>1 DEF SchedInv
  <2>2. CASE c \notin Known
    <3>1. PICK s \in Schedule : c = <<s, row'[s].next>> /\ row'[s].next # row[s].next
      BY <2>2, NewSlots
    <3>2. PICK p \in Proc : FinalizeClaim(p)
      BY <3>1, SlotMoves
    <3>3. s = proc[p].cur[1] /\ Owns(p, s)
      BY <1>0, <3>1, <3>2 DEF FinalizeClaim
    <3>4. ~proc[p].made
      <4> SUFFICES ASSUME proc[p].made PROVE FALSE
        OBVIOUS
      <4>1. row'[s].next \in {Never, Next(row[s], proc[p].cur[3])}
        BY <3>2, <3>3, Finalized
      <4>2. row'[s].next.moved = 0
        <5>1. row[s] \in RowTypes /\ Never.moved = 0 /\ proc[p].cur[3] \in Nat
          BY <1>0, <3>1 DEF Never, At, ProcType, Claims
        <5> QED BY <4>1, <5>1, SlotSteps
      <4> QED BY <3>1, <4>2
    <3>5. row'[s].next.occ = row[s].next.occ
      <4>1. At(row[s].next.occ, row[s].next.moved + 1).occ = row[s].next.occ
        BY DEF At
      <4> QED BY <3>2, <3>3, <3>4, <4>1, Finalized
    <3>6. <<s, row[s].next.occ>> \in broke
      <4>1. /\ proc[p].cur[1] = s /\ proc[p].cur[2] = row[s].next
            /\ proc[p].pc = "finalize"
        BY <3>2, <3>3, OwnedSlot DEF FinalizeClaim, Job
      <4> QED BY <3>4, <4>1 DEF SchedInv
    <3> QED BY <2>0, <3>1, <3>5, <3>6
  <2> QED BY <2>1, <2>2
<1> QED BY <1>1, <1>2, <1>3 DEF SchedInv

\* The invariant of the claims and slots holds in every state.
THEOREM SchedInvariant == SchedSpec => [](SchedTypeOK /\ SchedInv)
<1>1. SchedTypeOK /\ SchedInv /\ [SchedNext]_schedVars => (SchedTypeOK /\ SchedInv)'
  BY TypeStep, InvStep
<1> QED
  BY <1>1, TypeInit, InvInit, PTL DEF SchedSpec

\* The types of the schedules and the processes hold in every state.
THEOREM SchedTypes == SchedSpec => []SchedTypeOK
BY SchedInvariant, PTL

\* A schedule leaves an occurrence behind only when an audit was planned for
\* it, and skips none that is still to come: a process that lost its claim can
\* no longer move the slot, and one that has it counts from its own tick.
THEOREM AdvanceIsEarnedHolds == SchedSpec => AdvanceIsEarned
<1>1. ASSUME SchedTypeOK, SchedInv, [SchedNext]_schedVars, NEW s \in Schedule,
             row'[s].next.occ # row[s].next.occ
      PROVE  /\ \E c \in audits : c[1] = s /\ c[2].occ = row[s].next.occ
             /\ s \notin OneTime => row'[s].next.occ - row[s].next.occ \in 1..come[s]
  <2>1. PICK p \in Proc : FinalizeClaim(p)
    BY <1>1, SlotMoves
  <2>2. /\ row \in [Schedule -> RowTypes] /\ proc \in [Proc -> ProcType]
        /\ come \in [Schedule -> Nat]
    BY <1>1 DEF SchedTypeOK, RowTypes, ProcType
  <2>3. s = proc[p].cur[1] /\ Owns(p, s)
    BY <1>1, <2>1, <2>2 DEF FinalizeClaim
  <2>4. proc[p].made
    <3>1. At(row[s].next.occ, row[s].next.moved + 1).occ = row[s].next.occ
      BY DEF At
    <3> QED BY <1>1, <2>1, <2>3, <3>1, Finalized
  <2>5. /\ Job(proc[p].cur) = <<s, row[s].next>> /\ proc[p].cur[3] \in 1..come[s]
        /\ proc[p].pc = "finalize"
    BY <1>1, <2>1, <2>3, OwnedSlot DEF FinalizeClaim
  <2>6. Job(proc[p].cur) \in audits
    BY <1>1, <2>4, <2>5 DEF SchedInv
  <2>7. \E c \in audits : c[1] = s /\ c[2].occ = row[s].next.occ
    BY <2>5, <2>6
  <2>8. ASSUME s \notin OneTime PROVE row'[s].next.occ - row[s].next.occ \in 1..come[s]
    <3>1. row'[s].next = Next(row[s], proc[p].cur[3])
      BY <1>1, <2>1, <2>3, <2>4, <2>8, Finalized
    <3>2. row[s] \in RowTypes /\ proc[p].cur[3] \in Nat /\ row[s].next.occ \in Nat
      BY <2>2 DEF ProcType, Claims, RowTypes, Slots
    <3>3. row'[s].next.occ = row[s].next.occ + proc[p].cur[3]
      BY <3>1, <3>2, SlotSteps
    <3> QED BY <2>2, <2>5, <3>2, <3>3
  <2> QED BY <2>7, <2>8
<1>2. SchedTypeOK /\ SchedInv /\ [SchedNext]_schedVars
        => [\A s \in Schedule :
              row'[s].next.occ # row[s].next.occ =>
                  /\ \E c \in audits : c[1] = s /\ c[2].occ = row[s].next.occ
                  /\ s \notin OneTime =>
                         row'[s].next.occ - row[s].next.occ \in 1..come[s]]_schedVars
  BY <1>1
<1> QED
  BY <1>2, SchedInvariant, PTL DEF SchedSpec, AdvanceIsEarned

\* An occurrence is planned twice only when its planning raised an exception,
\* because only what broke has a slot that was moved.
THEOREM OnceUnlessBrokenHolds == SchedSpec => []OnceUnlessBroken
<1>1. SchedTypeOK /\ SchedInv => OnceUnlessBroken
  <2> SUFFICES ASSUME SchedTypeOK, SchedInv, NEW s \in Schedule, NEW k \in 0..MaxOccurrence,
                      <<s, k>> \notin broke
               PROVE  ~(Cardinality({c \in audits : c[1] = s /\ c[2].occ = k}) > 1)
    BY DEF OnceUnlessBroken
  <2> DEFINE S == {c \in audits : c[1] = s /\ c[2].occ = k}
  <2>1. S \subseteq {<<s, At(k, 0)>>}
    <3> SUFFICES ASSUME NEW c \in S PROVE c = <<s, At(k, 0)>>
      OBVIOUS
    <3>1. c \in Schedule \X Slots /\ c \in Known
      BY DEF SchedTypeOK, Known
    <3>2. c[2].moved = 0
      BY <3>1 DEF SchedInv, Slots
    <3> QED BY <3>1, <3>2 DEF Slots, At
  <2>2. IsFiniteSet({<<s, At(k, 0)>>}) /\ Cardinality({<<s, At(k, 0)>>}) = 1
    BY FS_Singleton
  <2>3. Cardinality(S) <= 1 /\ Cardinality(S) \in Nat
    BY <2>1, <2>2, FS_Subset, FS_CardinalityType
  <2> QED BY <2>3
<1> QED
  BY <1>1, SchedInvariant, PTL
=============================================================================
