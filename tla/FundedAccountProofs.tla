------------------------ MODULE FundedAccountProofs ------------------------
(***************************************************************************)
(* Proofs about FundedAccount, for any grants, writers, processes, runs and *)
(* limits.                                                                  *)
(***************************************************************************)
EXTENDS FundedAccount, FiniteSetTheorems, TLAPS

WriterType == [at : {"idle", "locked", "folded", "done"},
               grant : Grant \cup {NoOne}, adds : BOOLEAN]
AdmissionType ==
    [at : {"idle", "asked", "locked", "read", "resolved", "admitted", "reserved", "done"},
     asked : 0..MaxClock, version : Version,
     created : 0..MaxClock, plan : [Grant -> Nat]]

\* What a writer is about to commit is a grant, and one it revokes is there;
\* every commit used up a writer.
WriteInv ==
    /\ \A w \in Writer : writer[w].at \in {"locked", "folded"} =>
         writer[w].grant \in Grant /\ (~writer[w].adds => writer[w].grant \in issued)
    /\ version <= Cardinality({w \in Writer : writer[w].at = "done"})

LEMMA Homes == /\ \A w \in Writer : Home[w] \in Proc
               /\ \A a \in Admission : Home[a] \in Proc
BY DEF Proc

LEMMA IdleType == Idle \in AdmissionType /\ [Idle EXCEPT !.at = "done"] \in AdmissionType
                  /\ NoUnits \in [Grant -> Nat] /\ 0 \in Version /\ 0 \in 0..MaxClock
<1>1. 0 \in 0..MaxClock
  BY FundedAssumption
<1>2. 0 \in Version
  BY FundedAssumption, FS_CardinalityType DEF Version
<1>3. NoUnits \in [Grant -> Nat]
  BY DEF NoUnits
<1> QED BY <1>1, <1>2, <1>3 DEF Idle, AdmissionType

LEMMA EntryTypes == Missing \in Entry /\ \A S \in SUBSET Grant : Cached(S) \in Entry
BY DEF Missing, Cached, Entry

\* A writer that is not done leaves room for one more version.
LEMMA RoomLeft ==
    ASSUME FundTypeOK, WriteInv, NEW w \in Writer, writer[w].at # "done"
    PROVE  version + 1 \in Version
<1> DEFINE D == {x \in Writer : writer[x].at = "done"}
<1>1. IsFiniteSet(Writer) /\ IsFiniteSet(D) /\ Cardinality(D) \in Nat /\ Cardinality(Writer) \in Nat
  BY FundedAssumption, FS_Subset, FS_CardinalityType
<1>2. Cardinality(D \cup {w}) = Cardinality(D) + 1 /\ IsFiniteSet(D \cup {w})
  BY <1>1, FS_AddElement
<1>3. Cardinality(D \cup {w}) <= Cardinality(Writer)
  BY <1>1, <1>2, FS_Subset
<1>4. version \in Nat /\ version <= Cardinality(D)
  BY <1>1 DEF FundTypeOK, Version, WriteInv
<1> QED BY <1>1, <1>2, <1>3, <1>4 DEF Version

LEMMA TypeInit == FundInit => FundTypeOK /\ WriteInv
<1> SUFFICES ASSUME FundInit PROVE FundTypeOK /\ WriteInv
  OBVIOUS
<1>1. writer \in [Writer -> WriterType] /\ \A w \in Writer : writer[w].at = "idle"
  BY DEF FundInit, WriterType
<1>2. admission \in [Admission -> AdmissionType]
  BY IdleType DEF FundInit
<1>3. cache \in [Proc -> [Version -> Entry]]
  BY EntryTypes DEF FundInit
<1>4. run \in [Admission -> [created : Int, month : Int]]
  BY DEF FundInit, NoRun
<1>5. held \in [Admission -> [Grant -> Nat]] /\ spent \in [Grant -> Nat]
  BY IdleType DEF FundInit
<1>6. FundTypeOK
  BY <1>1, <1>2, <1>3, <1>4, <1>5, IdleType
     DEF FundInit, FundTypeOK, WriterType, AdmissionType
<1>7. {w \in Writer : writer[w].at = "done"} = {} /\ Cardinality({}) = 0
  BY <1>1, FS_EmptySet
<1>8. version <= Cardinality({w \in Writer : writer[w].at = "done"})
  <2>1. version = 0
    BY DEF FundInit
  <2> QED BY <1>7, <2>1
<1> QED
  BY <1>1, <1>6, <1>8 DEF WriteInv

\* A step of an admission leaves it an admission.
LEMMA AdmissionStep ==
    ASSUME FundTypeOK, NEW a \in Admission,
           NEW to \in {"asked", "locked", "read", "resolved", "admitted", "reserved"}
    PROVE  /\ Step(a, to) => admission' \in [Admission -> AdmissionType]
           /\ Finish(a) => /\ admission' \in [Admission -> AdmissionType]
                           /\ capacity' \in Admission \cup {NoOne}
<1>1. admission \in [Admission -> AdmissionType] /\ capacity \in Admission \cup {NoOne}
  BY DEF FundTypeOK, AdmissionType
<1>2. [admission[a] EXCEPT !.at = to] \in AdmissionType
  BY <1>1 DEF AdmissionType
<1>3. Step(a, to) => admission' = [admission EXCEPT ![a] = [admission[a] EXCEPT !.at = to]]
  BY <1>1 DEF Step
<1> QED BY <1>1, <1>2, <1>3, IdleType DEF Finish

LEMMA TypeStep == FundTypeOK /\ WriteInv /\ [FundNext]_fundVars => FundTypeOK'
<1> SUFFICES ASSUME FundTypeOK, WriteInv, [FundNext]_fundVars PROVE FundTypeOK'
  OBVIOUS
<1>0. /\ clock \in 0..MaxClock /\ version \in Version /\ issued \subseteq Grant
      /\ revoked \subseteq issued /\ rowLock \in Writer \cup {NoOne}
      /\ writer \in [Writer -> WriterType] /\ cache \in [Proc -> [Version -> Entry]]
      /\ capacity \in Admission \cup {NoOne} /\ admission \in [Admission -> AdmissionType]
      /\ run \in [Admission -> [created : Int, month : Int]]
      /\ held \in [Admission -> [Grant -> Nat]] /\ spent \in [Grant -> Nat]
  BY DEF FundTypeOK, WriterType, AdmissionType
<1> DEFINE Goal ==
      /\ clock' \in 0..MaxClock /\ version' \in Version /\ issued' \subseteq Grant
      /\ revoked' \subseteq issued' /\ rowLock' \in Writer \cup {NoOne}
      /\ writer' \in [Writer -> WriterType] /\ cache' \in [Proc -> [Version -> Entry]]
      /\ capacity' \in Admission \cup {NoOne} /\ admission' \in [Admission -> AdmissionType]
      /\ run' \in [Admission -> [created : Int, month : Int]]
      /\ held' \in [Admission -> [Grant -> Nat]] /\ spent' \in [Grant -> Nat]
<1> SUFFICES Goal
  BY DEF FundTypeOK, WriterType, AdmissionType
<1>1. CASE Tick
  BY <1>0, <1>1, FundedAssumption DEF Tick, grantVars, ledgerVars
<1>2. ASSUME NEW w \in Writer, NEW g \in Grant, NEW adds \in BOOLEAN, BeginWrite(w, g, adds)
      PROVE  Goal
  <2>1. [at |-> "locked", grant |-> g, adds |-> adds] \in WriterType
    BY DEF WriterType
  <2> QED BY <1>0, <1>2, <2>1 DEF BeginWrite, ledgerVars
<1>3. ASSUME NEW w \in Writer, FoldInside(w) PROVE Goal
  <2>1. writer' \in [Writer -> WriterType]
    BY <1>0, <1>3 DEF FoldInside, WriterAt, WriterType
  <2>2. OwnFold(w) \in SUBSET Grant
    BY <1>0, <1>3 DEF FoldInside, OwnFold, WriteInv
  <2>3. cache' \in [Proc -> [Version -> Entry]]
    BY <1>0, <1>3, <2>2, EntryTypes DEF FoldInside
  <2> QED BY <1>0, <1>3, <2>1, <2>3 DEF FoldInside, ledgerVars
<1>4. ASSUME NEW w \in Writer, CommitWrite(w) PROVE Goal
  <2>1. writer' \in [Writer -> WriterType]
    BY <1>0, <1>4 DEF CommitWrite, WriterAt, WriterType
  <2>2. version' \in Version
    BY <1>4, RoomLeft DEF CommitWrite
  <2>3. issued' \subseteq Grant /\ revoked' \subseteq issued'
    BY <1>0, <1>4 DEF CommitWrite, WriteInv
  <2> QED BY <1>0, <1>4, <2>1, <2>2, <2>3 DEF CommitWrite, ledgerVars
<1>5. ASSUME NEW w \in Writer, RollbackWrite(w) PROVE Goal
  <2>1. writer' \in [Writer -> WriterType]
    BY <1>0, <1>5 DEF RollbackWrite, WriterAt, WriterType
  <2> QED BY <1>0, <1>5, <2>1 DEF RollbackWrite, ledgerVars
<1>6. ASSUME NEW a \in Admission, Ask(a) PROVE Goal
  <2>1. admission' \in [Admission -> AdmissionType]
    <3> DEFINE w == [admission[a] EXCEPT !.at = "asked", !.asked = clock]
    <3>1. admission' = [admission EXCEPT ![a] = w] /\ w \in AdmissionType
      BY <1>0, <1>6 DEF Ask, AdmissionType
    <3> HIDE DEF w
    <3> QED BY <1>0, <3>1
  <2> QED BY <1>0, <1>6, <2>1 DEF Ask, grantVars, ledgerVars
<1>7. ASSUME NEW a \in Admission, TakeLock(a) PROVE Goal
  BY <1>0, <1>7, AdmissionStep DEF TakeLock, grantVars, ledgerVars
<1>8. ASSUME NEW a \in Admission, ReadVersion(a) PROVE Goal
  <2>2. admission' \in [Admission -> AdmissionType]
    <3> DEFINE w == [admission[a] EXCEPT !.version = version,
                       !.at = IF cache[Home[a]][version].known THEN "resolved" ELSE "read"]
    <3>1. admission' = [admission EXCEPT ![a] = w]
      BY <1>0, <1>8 DEF ReadVersion, AdmissionType
    <3>2. w \in AdmissionType
      <4>1. admission[a] \in AdmissionType /\ version \in Version
        BY <1>0
      <4>2. (IF cache[Home[a]][version].known THEN "resolved" ELSE "read")
              \in {"resolved", "read"}
        OBVIOUS
      <4> QED BY <4>1, <4>2 DEF AdmissionType
    <3> HIDE DEF w
    <3> QED BY <1>0, <3>1, <3>2
  <2> QED BY <1>0, <1>8, <2>2 DEF ReadVersion, grantVars, ledgerVars
<1>9. ASSUME NEW a \in Admission, FoldGrants(a) PROVE Goal
  <2>1. admission' \in [Admission -> AdmissionType]
    BY <1>9, AdmissionStep DEF FoldGrants
  <2>2. cache' \in [Proc -> [Version -> Entry]]
    BY <1>0, <1>9, EntryTypes DEF FoldGrants
  <2> QED BY <1>0, <1>9, <2>1, <2>2 DEF FoldGrants, grantVars, ledgerVars
<1>10. ASSUME NEW a \in Admission, Gate(a) PROVE Goal
  BY <1>0, <1>10, AdmissionStep DEF Gate, grantVars, ledgerVars
<1>11. ASSUME NEW a \in Admission, Reserve(a) PROVE Goal
  <2>1. \A rows : Plans(rows) \subseteq [Grant -> Nat]
    BY DEF Plans
  <2>2. admission' \in [Admission -> AdmissionType] /\ capacity' \in Admission \cup {NoOne}
    <3>1. CASE Finish(a)
      BY <3>1, AdmissionStep
    <3>2. CASE ~Finish(a)
      <4>1. PICK plan \in [Grant -> Nat] :
               admission' = [admission EXCEPT ![a].at = "reserved", ![a].created = clock,
                                              ![a].plan = plan]
        BY <1>11, <2>1, <3>2 DEF Reserve
      <4>2. capacity' = capacity
        BY <1>11, <3>2 DEF Reserve
      <4> DEFINE w == [admission[a] EXCEPT !.at = "reserved", !.created = clock, !.plan = plan]
      <4>3. admission' = [admission EXCEPT ![a] = w] /\ w \in AdmissionType
        <5>1. admission' = [admission EXCEPT ![a] = w]
          BY <1>0, <4>1 DEF AdmissionType
        <5>2. admission[a] \in AdmissionType /\ clock \in 0..MaxClock
          BY <1>0
        <5>3. w \in AdmissionType
          BY <5>2 DEF AdmissionType
        <5> QED BY <5>1, <5>3
      <4> HIDE DEF w
      <4> QED BY <1>0, <4>2, <4>3
    <3> QED BY <3>1, <3>2
  <2>3. Resolved(a) \in SUBSET Grant
    <3>1. cache[Home[a]][admission[a].version] \in Entry
      BY <1>0, Homes DEF AdmissionType
    <3> QED BY <1>0, <3>1 DEF Resolved, Entry
  <2>4. cache' \in [Proc -> [Version -> Entry]]
    BY <1>0, <1>11, <2>3, EntryTypes DEF Reserve
  <2> QED BY <1>0, <1>11, <2>2, <2>4 DEF Reserve, grantVars, ledgerVars
<1>12. ASSUME NEW a \in Admission, CommitRun(a) PROVE Goal
  <2>1. MonthOf(admission[a].asked) \in Int /\ admission[a].created \in Int
    BY <1>0, FundedAssumption DEF MonthOf, AdmissionType
  <2>2. admission[a].plan \in [Grant -> Nat]
    BY <1>0 DEF AdmissionType
  <2> QED BY <1>0, <1>12, <2>1, <2>2, AdmissionStep DEF CommitRun, grantVars
<1>13. ASSUME NEW a \in Admission, AbortRun(a) PROVE Goal
  BY <1>0, <1>13, AdmissionStep DEF AbortRun, grantVars, ledgerVars
<1>14. ASSUME NEW p \in Proc, NEW v \in Version, Expire(p, v) PROVE Goal
  BY <1>0, <1>14, EntryTypes DEF Expire, grantVars, ledgerVars
<1>15. ASSUME NEW a \in Admission, Bill(a) PROVE Goal
  <2>1. PICK n \in DOMAIN DrawOrder :
           /\ held[a][DrawOrder[n]] > 0
           /\ held' = [held EXCEPT ![a][DrawOrder[n]] = @ - 1]
           /\ spent' = [spent EXCEPT ![DrawOrder[n]] = @ + 1]
    BY <1>15 DEF Bill, FirstHeld
  <2>2. DrawOrder[n] \in Grant
    BY FundedAssumption
  <2>3. held' \in [Admission -> [Grant -> Nat]] /\ spent' \in [Grant -> Nat]
    BY <1>0, <2>1, <2>2
  <2> QED BY <1>0, <1>15, <2>3 DEF Bill, grantVars
<1>16. ASSUME NEW a \in Admission, Release(a) PROVE Goal
  BY <1>0, <1>16, IdleType DEF Release, grantVars
<1>17. CASE UNCHANGED fundVars
  BY <1>0, <1>17 DEF fundVars, grantVars, ledgerVars
<1> QED
  BY <1>1, <1>2, <1>3, <1>4, <1>5, <1>6, <1>7, <1>8, <1>9, <1>10, <1>11, <1>12, <1>13,
     <1>14, <1>15, <1>16, <1>17 DEF FundNext

LEMMA WriteStep == FundTypeOK /\ WriteInv /\ [FundNext]_fundVars => WriteInv'
<1> SUFFICES ASSUME FundTypeOK, WriteInv, [FundNext]_fundVars PROVE WriteInv'
  OBVIOUS
<1> DEFINE D == {w \in Writer : writer[w].at = "done"}
           Kept == \A w \in Writer : writer'[w].at \in {"locked", "folded"} =>
             writer'[w].grant \in Grant /\ (~writer'[w].adds => writer'[w].grant \in issued')
<1>0. /\ writer \in [Writer -> WriterType] /\ version \in Nat /\ version <= Cardinality(D)
      /\ IsFiniteSet(D) /\ Cardinality(D) \in Nat
  <2>1. IsFiniteSet(D) /\ Cardinality(D) \in Nat /\ Cardinality(Writer) \in Nat
    BY FundedAssumption, FS_Subset, FS_CardinalityType
  <2> QED BY <2>1 DEF FundTypeOK, WriterType, WriteInv, Version
<1> SUFFICES Kept /\ version' <= Cardinality(D')
  BY DEF WriteInv
<1>1. ASSUME NEW w \in Writer, NEW g \in Grant, NEW adds \in BOOLEAN, BeginWrite(w, g, adds)
      PROVE  Kept /\ version' <= Cardinality(D')
  <2>1. Kept
    BY <1>0, <1>1 DEF BeginWrite, WriteInv
  <2>2. D' = D /\ version' = version
    BY <1>0, <1>1 DEF BeginWrite
  <2> QED BY <1>0, <2>1, <2>2
<1>2. ASSUME NEW w \in Writer, FoldInside(w) PROVE Kept /\ version' <= Cardinality(D')
  <2>1. Kept
    BY <1>0, <1>2 DEF FoldInside, WriterAt, WriteInv, WriterType
  <2>2. D' = D /\ version' = version
    BY <1>0, <1>2 DEF FoldInside, WriterAt, WriterType
  <2> QED BY <1>0, <2>1, <2>2
<1>3. ASSUME NEW w \in Writer, CommitWrite(w) \/ RollbackWrite(w)
      PROVE  Kept /\ version' <= Cardinality(D')
  <2>1. issued \subseteq issued' /\ w \notin D
    BY <1>3 DEF CommitWrite, RollbackWrite
  <2>2. Kept
    BY <1>0, <1>3, <2>1 DEF CommitWrite, RollbackWrite, WriterAt, WriteInv, WriterType
  <2>3. D' = D \cup {w}
    BY <1>0, <1>3 DEF CommitWrite, RollbackWrite, WriterAt, WriterType
  <2>4. Cardinality(D') = Cardinality(D) + 1
    BY <1>0, <2>1, <2>3, FS_AddElement
  <2>5. version' \in {version, version + 1}
    BY <1>3 DEF CommitWrite, RollbackWrite
  <2> QED BY <1>0, <2>2, <2>4, <2>5
<1>4. ASSUME UNCHANGED <<version, issued, writer>> PROVE Kept /\ version' <= Cardinality(D')
  BY <1>4 DEF WriteInv
<1>5. ASSUME NEW a \in Admission,
             \/ Ask(a) \/ TakeLock(a) \/ ReadVersion(a) \/ FoldGrants(a) \/ Gate(a) \/ Reserve(a)
             \/ CommitRun(a) \/ AbortRun(a) \/ Bill(a) \/ Release(a)
      PROVE  UNCHANGED <<version, issued, writer>>
  BY <1>5 DEF Ask, TakeLock, ReadVersion, FoldGrants, Gate, Reserve, CommitRun, AbortRun, Bill,
              Release, grantVars
<1>6. CASE Tick \/ UNCHANGED fundVars \/ \E p \in Proc, v \in Version : Expire(p, v)
  BY <1>4, <1>6 DEF Tick, Expire, fundVars, grantVars
<1> QED
  BY <1>1, <1>2, <1>3, <1>4, <1>5, <1>6 DEF FundNext

\* The types of the account, its caches and its ledger hold in every state.
THEOREM FundTypes == FundSpec => [](FundTypeOK /\ WriteInv)
<1>1. FundTypeOK /\ WriteInv /\ [FundNext]_fundVars => (FundTypeOK /\ WriteInv)'
  BY TypeStep, WriteStep
<1> QED
  BY <1>1, TypeInit, PTL DEF FundSpec

(***************************************************************************)
(* Admission under the advisory lock.                                       *)
(***************************************************************************)

Locking == {"locked", "read", "resolved", "admitted", "reserved"}

\* Only the holder of the advisory lock is between its gates and its commit,
\* so what the gates counted is still there when it commits.
GateInv(a) ==
    /\ admission[a].at \in Locking <=> capacity = a
    /\ admission[a].at # "done" => run[a] = NoRun
    /\ admission[a].asked <= clock
    /\ admission[a].at \in {"admitted", "reserved"} =>
         /\ Used(admission[a].asked) < Allowance
         /\ ReservedIn(MonthOf(admission[a].asked)) + Cost <= Ceiling
    /\ admission[a].at = "reserved" =>
         /\ admission[a].asked <= admission[a].created
         /\ \A g \in Grant : admission[a].plan[g] > 0 => g \in issued

FundInv == (\A a \in Admission : GateInv(a)) /\ CeilingKept /\ WindowKept /\ DrawsOnIssued

LEMMA Counted ==
    ASSUME NEW S, S \subseteq Admission
    PROVE  IsFiniteSet(S) /\ Cardinality(S) \in Nat
BY FundedAssumption, FS_Subset, FS_CardinalityType

LEMMA AddOne ==
    ASSUME NEW S, IsFiniteSet(S), NEW x
    PROVE  /\ IsFiniteSet(S \cup {x}) /\ Cardinality(S \cup {x}) \in Nat
           /\ Cardinality(S \cup {x}) <= Cardinality(S) + 1
<1>1. IsFiniteSet(S \cup {x}) /\ Cardinality(S \cup {x}) \in Nat /\ Cardinality(S) \in Nat
  BY FS_AddElement, FS_CardinalityType
<1>2. CASE x \in S
  <2>1. S \cup {x} = S
    BY <1>2
  <2>2. Cardinality(S \cup {x}) = Cardinality(S)
    BY <2>1
  <2> QED BY <1>1, <2>2
<1>3. CASE x \notin S
  BY <1>1, <1>3, FS_AddElement
<1> QED BY <1>2, <1>3

LEMMA FundInvInit == FundInit => FundInv
<1> SUFFICES ASSUME FundInit PROVE FundInv
  OBVIOUS
<1>1. Created = {} /\ Cardinality({}) = 0
  BY FS_EmptySet DEF FundInit, Created
<1>2. CeilingKept
  <2>1. \A m : {b \in Created : run[b].month = m} = {}
    BY <1>1
  <2> QED BY <1>1, <2>1, FundedAssumption DEF CeilingKept, ReservedIn
<1>3. WindowKept
  <2>1. \A t : {b \in Created : t - Window < run[b].created /\ run[b].created <= t} = {}
    BY <1>1
  <2> QED BY <1>1, <2>1, FundedAssumption DEF WindowKept
<1>4. DrawsOnIssued
  BY DEF FundInit, NoUnits, DrawsOnIssued
<1>5. \A a \in Admission : GateInv(a)
  BY FundedAssumption DEF FundInit, Idle, GateInv, Locking
<1> QED BY <1>2, <1>3, <1>4, <1>5 DEF FundInv

\* The locals of a transaction change with its own steps only, and audits are
\* only added by a commit.
LEMMA LocalSteps ==
    ASSUME FundTypeOK, [FundNext]_fundVars, NEW b \in Admission
    PROVE  \/ admission'[b] = admission[b]
           \/ Ask(b) \/ TakeLock(b) \/ ReadVersion(b) \/ FoldGrants(b) \/ Gate(b) \/ Reserve(b)
           \/ CommitRun(b) \/ AbortRun(b)
<1>0. admission \in [Admission -> AdmissionType]
  BY DEF FundTypeOK, AdmissionType
<1>1. ASSUME NEW a \in Admission, a # b, NEW w, admission' = [admission EXCEPT ![a] = w]
      PROVE  admission'[b] = admission[b]
  BY <1>0, <1>1
<1>2. ASSUME NEW a \in Admission, a # b,
             \/ Ask(a) \/ TakeLock(a) \/ ReadVersion(a) \/ FoldGrants(a) \/ Gate(a) \/ Reserve(a)
             \/ CommitRun(a) \/ AbortRun(a) \/ Bill(a) \/ Release(a)
      PROVE  admission'[b] = admission[b]
  BY <1>0, <1>2 DEF Ask, TakeLock, ReadVersion, FoldGrants, Gate, Reserve, CommitRun, AbortRun,
     Bill, Release, Step, Finish
<1>3. CASE \/ Tick \/ UNCHANGED fundVars \/ \E p \in Proc, v \in Version : Expire(p, v)
           \/ \E w \in Writer : \/ \E g \in Grant, adds \in BOOLEAN : BeginWrite(w, g, adds)
                                \/ FoldInside(w) \/ CommitWrite(w) \/ RollbackWrite(w)
  BY <1>3 DEF Tick, Expire, BeginWrite, FoldInside, CommitWrite, RollbackWrite, fundVars
<1>4. ASSUME Bill(b) \/ Release(b) PROVE admission'[b] = admission[b]
  BY <1>4 DEF Bill, Release
<1> QED
  BY <1>2, <1>3, <1>4 DEF FundNext

LEMMA LockSteps ==
    ASSUME FundTypeOK, [FundNext]_fundVars
    PROVE  \/ UNCHANGED capacity
           \/ \E a \in Admission : TakeLock(a) \/ Finish(a)
<1>1. ASSUME NEW a \in Admission,
             \/ Ask(a) \/ ReadVersion(a) \/ FoldGrants(a) \/ Gate(a) \/ Reserve(a)
             \/ CommitRun(a) \/ AbortRun(a) \/ Bill(a) \/ Release(a)
      PROVE  UNCHANGED capacity \/ Finish(a)
  BY <1>1 DEF Ask, ReadVersion, FoldGrants, Gate, Reserve, CommitRun, AbortRun, Bill, Release
<1>2. CASE \/ Tick \/ UNCHANGED fundVars \/ \E p \in Proc, v \in Version : Expire(p, v)
           \/ \E w \in Writer : \/ \E g \in Grant, adds \in BOOLEAN : BeginWrite(w, g, adds)
                                \/ FoldInside(w) \/ CommitWrite(w) \/ RollbackWrite(w)
  BY <1>2 DEF Tick, Expire, BeginWrite, FoldInside, CommitWrite, RollbackWrite, fundVars
<1> QED
  BY <1>1, <1>2 DEF FundNext

\* Time does not go back, committed grants stay, and a run is only added.
LEMMA Grows ==
    ASSUME FundTypeOK, [FundNext]_fundVars
    PROVE  /\ clock \in Nat /\ clock' \in Nat /\ clock <= clock'
           /\ issued \subseteq issued'
           /\ UNCHANGED run \/ \E a \in Admission : CommitRun(a)
<1>0. clock \in Nat
  BY FundedAssumption DEF FundTypeOK
<1>1. ASSUME NEW a \in Admission,
             \/ Ask(a) \/ TakeLock(a) \/ ReadVersion(a) \/ FoldGrants(a) \/ Gate(a) \/ Reserve(a)
             \/ AbortRun(a) \/ Bill(a) \/ Release(a)
      PROVE  UNCHANGED <<clock, issued, run>>
  BY <1>1 DEF Ask, TakeLock, ReadVersion, FoldGrants, Gate, Reserve, AbortRun, Bill, Release,
              grantVars, ledgerVars
<1>2. ASSUME NEW a \in Admission, CommitRun(a) PROVE UNCHANGED <<clock, issued>>
  BY <1>2 DEF CommitRun, grantVars
<1>3. ASSUME NEW w \in Writer,
             \/ \E g \in Grant, adds \in BOOLEAN : BeginWrite(w, g, adds)
             \/ FoldInside(w) \/ CommitWrite(w) \/ RollbackWrite(w)
      PROVE  UNCHANGED <<clock, run>> /\ issued \subseteq issued'
  BY <1>3 DEF BeginWrite, FoldInside, CommitWrite, RollbackWrite, ledgerVars
<1>4. Tick => clock' = clock + 1 /\ UNCHANGED <<issued, run>>
  BY DEF Tick, grantVars, ledgerVars
<1>5. UNCHANGED fundVars \/ (\E p \in Proc, v \in Version : Expire(p, v))
        => UNCHANGED <<clock, issued, run>>
  BY DEF Expire, fundVars, grantVars, ledgerVars
<1> DEFINE Goal == /\ clock' \in Nat /\ clock <= clock' /\ issued \subseteq issued'
                   /\ UNCHANGED run \/ \E a \in Admission : CommitRun(a)
<1>6. ASSUME UNCHANGED <<clock, issued>>, UNCHANGED run \/ \E a \in Admission : CommitRun(a)
      PROVE  Goal
  BY <1>0, <1>6
<1>7. ASSUME UNCHANGED <<clock, run>>, issued \subseteq issued' PROVE Goal
  BY <1>0, <1>7
<1>8. Goal
  <2>1. ASSUME Tick PROVE Goal
    BY <1>0, <1>4, <2>1
  <2>2. ASSUME NEW a \in Admission,
               \/ Ask(a) \/ TakeLock(a) \/ ReadVersion(a) \/ FoldGrants(a) \/ Gate(a) \/ Reserve(a)
               \/ CommitRun(a) \/ AbortRun(a) \/ Bill(a) \/ Release(a)
        PROVE  Goal
    BY <1>1, <1>2, <1>6, <2>2
  <2>3. ASSUME UNCHANGED fundVars \/ (\E p \in Proc, v \in Version : Expire(p, v)) PROVE Goal
    BY <1>5, <1>6, <2>3
  <2>4. ASSUME NEW w \in Writer,
               \/ \E g \in Grant, adds \in BOOLEAN : BeginWrite(w, g, adds)
               \/ FoldInside(w) \/ CommitWrite(w) \/ RollbackWrite(w)
        PROVE  Goal
    BY <1>3, <1>7, <2>4
  <2>5. CASE UNCHANGED fundVars
    BY <2>3, <2>5
  <2>6. CASE FundNext
    <3>1. CASE Tick \/ \E p \in Proc, v \in Version : Expire(p, v)
      BY <2>1, <2>3, <3>1
    <3>2. CASE \E w \in Writer : \/ \E g \in Grant, adds \in BOOLEAN : BeginWrite(w, g, adds)
                                \/ FoldInside(w) \/ CommitWrite(w) \/ RollbackWrite(w)
      BY <2>4, <3>2
    <3>3. CASE \E a \in Admission :
                 \/ Ask(a) \/ TakeLock(a) \/ ReadVersion(a) \/ FoldGrants(a) \/ Gate(a)
                 \/ Reserve(a) \/ CommitRun(a) \/ AbortRun(a) \/ Bill(a) \/ Release(a)
      BY <2>2, <3>3
    <3> QED BY <2>6, <3>1, <3>2, <3>3 DEF FundNext
  <2> QED BY <2>5, <2>6
<1> QED BY <1>0, <1>8

LEMMA HolderStep ==
    ASSUME FundTypeOK, FundInv, [FundNext]_fundVars, NEW b \in Admission
    PROVE  admission'[b].at \in Locking <=> capacity' = b
<1>0. /\ admission \in [Admission -> AdmissionType] /\ NoOne \notin Admission
      /\ admission[b].at \in Locking <=> capacity = b
  BY FundedAssumption DEF FundTypeOK, AdmissionType, FundInv, GateInv
<1>1. ASSUME NEW a \in Admission, Finish(a) PROVE admission'[b].at \in Locking <=> capacity' = b
  <2>1. CASE a = b
    <3>1. admission'[b].at = "done"
      BY <1>0, <1>1, <2>1 DEF Finish, Idle
    <3> QED BY <1>0, <1>1, <2>1, <3>1 DEF Finish, Locking
  <2>2. CASE a # b
    BY <1>0, <1>1, <2>2 DEF Finish
  <2> QED BY <2>1, <2>2
<1>2. ASSUME NEW a \in Admission, TakeLock(a) PROVE admission'[b].at \in Locking <=> capacity' = b
  BY <1>0, <1>2 DEF TakeLock, LockFree, Step, Locking, AdmissionType
<1>3. CASE UNCHANGED capacity /\ ~\E a \in Admission : TakeLock(a) \/ Finish(a)
  <2>1. ~CommitRun(b) /\ ~AbortRun(b)
    BY <1>3 DEF CommitRun, AbortRun
  <2>2. CASE Ask(b) \/ Gate(b)
    BY <1>0, <1>3, <2>2 DEF Ask, Gate, Step, Locking, AdmissionType
  <2>3. CASE ReadVersion(b)
    BY <1>0, <1>3, <2>3 DEF ReadVersion, Locking, AdmissionType
  <2>4. CASE FoldGrants(b)
    BY <1>0, <1>3, <2>4 DEF FoldGrants, Step, Locking, AdmissionType
  <2>5. CASE Reserve(b)
    BY <1>0, <1>3, <2>5 DEF Reserve, Locking, AdmissionType
  <2>6. CASE admission'[b] = admission[b]
    BY <1>0, <1>3, <2>6
  <2> QED BY <1>3, <2>1, <2>2, <2>3, <2>4, <2>5, <2>6, LocalSteps
<1> QED BY <1>1, <1>2, <1>3, LockSteps

\* The gates' counts of a run that nobody commits beside.
LEMMA CountsKept ==
    ASSUME UNCHANGED run
    PROVE  /\ UNCHANGED Created
           /\ \A t : Used(t)' = Used(t)
           /\ \A m : ReservedIn(m)' = ReservedIn(m)
BY DEF Created, Used, ReservedIn

\* The admission instant is taken once.
LEMMA SameInstant ==
    ASSUME FundTypeOK, [FundNext]_fundVars, NEW b \in Admission, ~Ask(b), ~Finish(b)
    PROVE  admission'[b].asked = admission[b].asked
<1>0. admission \in [Admission -> AdmissionType]
  BY DEF FundTypeOK, AdmissionType
<1>1. CASE TakeLock(b) \/ Gate(b)
  BY <1>0, <1>1 DEF TakeLock, Gate, Step, AdmissionType
<1>2. CASE ReadVersion(b)
  BY <1>0, <1>2 DEF ReadVersion, AdmissionType
<1>3. CASE FoldGrants(b)
  BY <1>0, <1>3 DEF FoldGrants, Step, AdmissionType
<1>4. CASE Reserve(b)
  BY <1>0, <1>4 DEF Reserve, AdmissionType
<1>5. CASE CommitRun(b) \/ AbortRun(b)
  BY <1>5 DEF CommitRun, AbortRun
<1> QED BY <1>1, <1>2, <1>3, <1>4, <1>5, LocalSteps

LEMMA GateStep ==
    ASSUME FundTypeOK, FundInv, [FundNext]_fundVars, NEW b \in Admission
    PROVE  GateInv(b)'
<1>0. /\ admission \in [Admission -> AdmissionType] /\ GateInv(b)
      /\ run \in [Admission -> [created : Int, month : Int]]
      /\ \A a \in Admission : admission[a].asked \in Nat /\ admission[a].created \in Nat
  BY FundedAssumption DEF FundTypeOK, AdmissionType, FundInv
<1>1. (admission[b].at \in Locking <=> capacity = b)'
  BY HolderStep
<1>2. (admission[b].at # "done" => run[b] = NoRun)'
  <2> SUFFICES ASSUME admission'[b].at # "done" PROVE run'[b] = NoRun
    OBVIOUS
  <2>1. admission[b].at # "done"
    BY LocalSteps DEF Ask, TakeLock, ReadVersion, FoldGrants, Gate, Reserve, CommitRun, AbortRun
  <2>2. CASE UNCHANGED run
    BY <1>0, <2>1, <2>2 DEF GateInv
  <2>3. ASSUME NEW a \in Admission, CommitRun(a) PROVE run'[b] = NoRun
    <3>1. a # b
      BY <1>0, <2>3 DEF CommitRun, Finish, Idle
    <3> QED BY <1>0, <2>1, <2>3, <3>1 DEF CommitRun, GateInv
  <2> QED BY <2>2, <2>3, Grows
<1>3. (admission[b].asked <= clock)'
  <2> SUFFICES admission'[b].asked <= clock'
    OBVIOUS
  <2>1. clock \in Nat /\ clock' \in Nat /\ clock <= clock'
    BY Grows
  <2>2. CASE Ask(b)
    BY <1>0, <2>1, <2>2 DEF Ask, AdmissionType
  <2>3. CASE Finish(b)
    <3>1. admission'[b].asked = 0
      BY <1>0, <2>3 DEF Finish, Idle
    <3> QED BY <2>1, <3>1
  <2>4. CASE ~Ask(b) /\ ~Finish(b)
    <3>1. admission'[b].asked = admission[b].asked
      BY <1>0, <2>4, SameInstant
    <3> QED BY <1>0, <2>1, <3>1 DEF GateInv
  <2> QED BY <2>2, <2>3, <2>4
<1>4. (admission[b].at \in {"admitted", "reserved"} =>
         /\ Used(admission[b].asked) < Allowance
         /\ ReservedIn(MonthOf(admission[b].asked)) + Cost <= Ceiling)'
  <2> DEFINE at == admission[b].asked
  <2> SUFFICES ASSUME admission'[b].at \in {"admitted", "reserved"}
               PROVE  /\ Used(admission[b].asked)' < Allowance
                      /\ ReservedIn(MonthOf(admission[b].asked))' + Cost <= Ceiling
    OBVIOUS
  <2>1. ~Finish(b) /\ ~Ask(b)
    BY <1>0 DEF Finish, Idle, Ask, AdmissionType
  <2>2. admission'[b].asked = at
    BY <1>0, <2>1, SameInstant
  <2>3. Used(at) < Allowance /\ ReservedIn(MonthOf(at)) + Cost <= Ceiling
    <3>1. CASE Gate(b)
      BY <2>1, <3>1 DEF Gate
    <3>2. CASE admission[b].at \in {"admitted", "reserved"}
      BY <1>0, <3>2 DEF GateInv
    <3>3. Gate(b) \/ admission[b].at \in {"admitted", "reserved"}
      <4>1. ASSUME TakeLock(b) \/ ReadVersion(b) \/ FoldGrants(b) PROVE FALSE
        BY <1>0, <4>1 DEF TakeLock, Step, ReadVersion, FoldGrants, AdmissionType
      <4>2. ASSUME Reserve(b) PROVE admission[b].at = "admitted"
        BY <4>2 DEF Reserve
      <4>3. ASSUME CommitRun(b) \/ AbortRun(b) PROVE FALSE
        BY <2>1, <4>3 DEF CommitRun, AbortRun
      <4> QED BY <2>1, <4>1, <4>2, <4>3, LocalSteps
    <3> QED BY <3>1, <3>2, <3>3
  <2>4. UNCHANGED run
    <3>1. ASSUME NEW a \in Admission, CommitRun(a) PROVE FALSE
      <4>1. a # b
        BY <2>1, <3>1 DEF CommitRun
      <4>2. capacity = a
        BY <3>1 DEF CommitRun, FundInv, GateInv, Locking
      <4>3. capacity' = NoOne
        BY <3>1, <4>2 DEF CommitRun, Finish
      <4>4. capacity' = b
        BY HolderStep DEF Locking
      <4> QED BY <4>3, <4>4, FundedAssumption
    <3> QED BY <3>1, Grows
  <2>5. Used(admission[b].asked)' = Used(at) /\ ReservedIn(MonthOf(admission[b].asked))' = ReservedIn(MonthOf(at))
    BY <2>2, <2>4 DEF Used, ReservedIn, Created, MonthOf
  <2> QED BY <2>3, <2>5
<1>5. (admission[b].at = "reserved" =>
         /\ admission[b].asked <= admission[b].created
         /\ \A g \in Grant : admission[b].plan[g] > 0 => g \in issued)'
  <2> SUFFICES ASSUME admission'[b].at = "reserved"
               PROVE  /\ admission'[b].asked <= admission'[b].created
                      /\ \A g \in Grant : admission'[b].plan[g] > 0 => g \in issued'
    OBVIOUS
  <2>1. ~Finish(b)
    BY <1>0 DEF Finish, Idle
  <2>2. issued \subseteq issued'
    BY Grows
  <2>3. CASE Reserve(b)
    <3>1. PICK plan \in Plans(Lockable(Resolved(b))) :
             admission' = [admission EXCEPT ![b].at = "reserved", ![b].created = clock,
                                            ![b].plan = plan]
      BY <2>1, <2>3 DEF Reserve
    <3>2. admission'[b].created = clock /\ admission'[b].plan = plan
          /\ admission'[b].asked = admission[b].asked
      BY <1>0, <3>1 DEF AdmissionType
    <3>3. \A g \in Grant : plan[g] > 0 => g \in Lockable(Resolved(b))
      BY DEF Plans, IsPlan
    <3> QED BY <1>0, <2>2, <3>2, <3>3 DEF Lockable, GateInv
  <2>4. CASE admission'[b] = admission[b]
    BY <1>0, <2>2, <2>4 DEF GateInv
  <2>5. Reserve(b) \/ admission'[b] = admission[b]
    <3>1. ASSUME Ask(b) \/ TakeLock(b) \/ ReadVersion(b) \/ FoldGrants(b) \/ Gate(b) PROVE FALSE
      BY <1>0, <2>1, <3>1 DEF Ask, TakeLock, Gate, Step, ReadVersion, FoldGrants, AdmissionType
    <3>2. ASSUME CommitRun(b) \/ AbortRun(b) PROVE FALSE
      BY <2>1, <3>2 DEF CommitRun, AbortRun
    <3> QED BY <3>1, <3>2, LocalSteps
  <2> QED BY <2>3, <2>4, <2>5
<1> QED BY <1>1, <1>2, <1>3, <1>4, <1>5 DEF GateInv

\* The commit of a run adds it to the runs, and both counts had room for it.
LEMMA CommitKeeps ==
    ASSUME FundTypeOK, FundInv, NEW a \in Admission, CommitRun(a)
    PROVE  CeilingKept' /\ WindowKept' /\ DrawsOnIssued'
<1> DEFINE at == admission[a].asked
           c == admission[a].created
<1>0. /\ admission \in [Admission -> AdmissionType] /\ GateInv(a)
      /\ run \in [Admission -> [created : Int, month : Int]]
      /\ held \in [Admission -> [Grant -> Nat]]
      /\ at \in Nat /\ c \in Nat
  BY FundedAssumption DEF FundTypeOK, AdmissionType, FundInv
<1>1. /\ run[a] = NoRun /\ at <= c /\ Used(at) < Allowance
      /\ ReservedIn(MonthOf(at)) + Cost <= Ceiling
      /\ \A g \in Grant : admission[a].plan[g] > 0 => g \in issued
  BY <1>0 DEF GateInv, CommitRun
<1>2. /\ run'[a].created = c /\ run'[a].month = MonthOf(at)
      /\ \A b \in Admission : b # a => run'[b] = run[b]
  BY <1>0 DEF CommitRun
<1>3. Created' = Created \cup {a} /\ a \notin Created /\ Created \subseteq Admission
  <2>1. run'[a] # NoRun
    BY <1>0, <1>2 DEF NoRun
  <2> QED BY <1>1, <1>2, <2>1 DEF Created
<1>4. CeilingKept'
  <2> SUFFICES ASSUME NEW m \in 0..MonthOf(MaxClock) PROVE ReservedIn(m)' <= Ceiling
    BY DEF CeilingKept, MonthOf
  <2> DEFINE S == {b \in Created : run[b].month = m}
  <2>1. IsFiniteSet(S) /\ Cardinality(S) \in Nat /\ a \notin S
    BY <1>3, Counted
  <2>2. ReservedIn(m)' = Cost * Cardinality(S') /\ ReservedIn(m) = Cost * Cardinality(S)
    BY DEF ReservedIn
  <2>3. CASE m = MonthOf(at)
    <3>1. S' = S \cup {a}
      BY <1>2, <1>3, <2>3
    <3>2. Cardinality(S') = Cardinality(S) + 1
      BY <2>1, <3>1, FS_AddElement
    <3>3. Cost * (Cardinality(S) + 1) = Cost * Cardinality(S) + Cost
      BY <2>1, FundedAssumption
    <3> QED BY <1>1, <2>2, <2>3, <3>2, <3>3
  <2>4. CASE m # MonthOf(at)
    <3>1. S' = S
      BY <1>2, <1>3, <2>4
    <3> QED BY <2>2, <3>1 DEF FundInv, CeilingKept
  <2> QED BY <2>3, <2>4
<1>5. WindowKept'
  <2> SUFFICES ASSUME NEW t \in 0..MaxClock
               PROVE  Cardinality({b \in Created : t - Window < run[b].created
                                                    /\ run[b].created <= t})' <= Allowance
    BY DEF WindowKept
  <2> DEFINE S == {b \in Created : t - Window < run[b].created /\ run[b].created <= t}
             U == {b \in Created : at - Window < run[b].created}
  <2>1. IsFiniteSet(S) /\ Cardinality(S) \in Nat /\ IsFiniteSet(U) /\ Cardinality(U) \in Nat
    BY <1>3, Counted
  <2>2. Cardinality(S) <= Allowance /\ Cardinality(U) < Allowance
    BY <1>1 DEF FundInv, WindowKept, Used
  <2>3. CASE t - Window < c /\ c <= t
    <3>1. S' \subseteq U \cup {a}
      <4>1. \A b \in S : b \in U
        <5> SUFFICES ASSUME NEW b \in S PROVE at - Window < run[b].created
          OBVIOUS
        <5>1. run[b].created \in Int /\ at \in Nat /\ t \in Nat /\ Window \in Nat /\ at <= t
          BY <1>0, <1>1, <1>3, <2>3, FundedAssumption
        <5> QED BY <5>1
      <4>2. S' \subseteq S \cup {a}
        BY <1>2, <1>3
      <4> QED BY <4>1, <4>2
    <3>2. Cardinality(U \cup {a}) <= Cardinality(U) + 1 /\ IsFiniteSet(U \cup {a})
          /\ Cardinality(U \cup {a}) \in Nat
      BY <2>1, AddOne
    <3>3. Cardinality(S') <= Cardinality(U \cup {a}) /\ Cardinality(S') \in Nat
      BY <3>1, <3>2, FS_Subset, FS_CardinalityType
    <3> QED BY <2>1, <2>2, <3>2, <3>3, FundedAssumption
  <2>4. CASE ~(t - Window < c /\ c <= t)
    <3>1. S' = S
      BY <1>2, <1>3, <2>4
    <3> QED BY <2>2, <3>1
  <2> QED BY <2>3, <2>4
<1>6. DrawsOnIssued'
  <2>1. \A b \in Admission : held'[b] = IF b = a THEN admission[a].plan ELSE held[b]
    BY <1>0 DEF CommitRun
  <2>2. issued' = issued
    BY DEF CommitRun, grantVars
  <2> QED BY <1>1, <2>1, <2>2 DEF DrawsOnIssued, FundInv
<1> QED BY <1>4, <1>5, <1>6

LEMMA DrawStep ==
    ASSUME FundTypeOK, FundInv, [FundNext]_fundVars, \A a \in Admission : ~CommitRun(a)
    PROVE  CeilingKept' /\ WindowKept' /\ DrawsOnIssued'
<1>1. CeilingKept' /\ WindowKept'
  BY CountsKept, Grows DEF FundInv, CeilingKept, WindowKept, MonthOf
<1>2. held \in [Admission -> [Grant -> Nat]] /\ issued \subseteq issued'
  BY Grows DEF FundTypeOK
<1> DEFINE Less == \A a \in Admission, g \in Grant : held'[a][g] > 0 => held[a][g] > 0
<1>3. Less
  <2>1. ASSUME NEW b \in Admission, Bill(b) PROVE Less
    <3>1. PICK n \in DOMAIN DrawOrder :
             held[b][DrawOrder[n]] > 0 /\ held' = [held EXCEPT ![b][DrawOrder[n]] = @ - 1]
      BY <2>1 DEF Bill, FirstHeld
    <3> QED BY <1>2, <3>1
  <2>2. ASSUME NEW b \in Admission, Release(b) PROVE Less
    BY <1>2, <2>2 DEF Release, NoUnits
  <2>3. ASSUME UNCHANGED held PROVE Less
    BY <2>3
  <2>4. ASSUME NEW b \in Admission,
               \/ Ask(b) \/ TakeLock(b) \/ ReadVersion(b) \/ FoldGrants(b) \/ Gate(b) \/ Reserve(b)
               \/ AbortRun(b)
        PROVE  UNCHANGED held
    BY <2>4 DEF Ask, TakeLock, ReadVersion, FoldGrants, Gate, Reserve, AbortRun, ledgerVars
  <2>5. CASE \/ Tick \/ UNCHANGED fundVars \/ \E p \in Proc, v \in Version : Expire(p, v)
             \/ \E w \in Writer : \/ \E g \in Grant, adds \in BOOLEAN : BeginWrite(w, g, adds)
                                  \/ FoldInside(w) \/ CommitWrite(w) \/ RollbackWrite(w)
    BY <2>3, <2>5 DEF Tick, Expire, BeginWrite, FoldInside, CommitWrite, RollbackWrite, fundVars,
                      ledgerVars
  <2> HIDE DEF Less
  <2> QED BY <2>1, <2>2, <2>3, <2>4, <2>5 DEF FundNext
<1>4. DrawsOnIssued'
  BY <1>2, <1>3 DEF FundInv, DrawsOnIssued
<1> QED BY <1>1, <1>4

\* The invariant of the admissions, and with it the account's limits.
THEOREM FundInvariant == FundSpec => [](FundTypeOK /\ WriteInv /\ FundInv)
<1>1. FundTypeOK /\ FundInv /\ [FundNext]_fundVars => FundInv'
  <2> SUFFICES ASSUME FundTypeOK, FundInv, [FundNext]_fundVars PROVE FundInv'
    OBVIOUS
  <2>1. (\A a \in Admission : GateInv(a))'
    BY GateStep
  <2>2. CeilingKept' /\ WindowKept' /\ DrawsOnIssued'
    BY CommitKeeps, DrawStep
  <2> QED BY <2>1, <2>2 DEF FundInv
<1>2. /\ FundTypeOK /\ WriteInv /\ FundInv /\ [FundNext]_fundVars
      => (FundTypeOK /\ WriteInv /\ FundInv)'
  BY <1>1, TypeStep, WriteStep
<1> QED
  BY <1>2, TypeInit, FundInvInit, PTL DEF FundSpec

\* No month's runs cost more than the account's ceiling, whenever their
\* instants were taken.
THEOREM CeilingKeptHolds == FundSpec => []CeilingKept
<1>1. FundInv => CeilingKept
  BY DEF FundInv
<1> QED
  BY <1>1, FundInvariant, PTL

\* No window of the rolling length holds more runs than are allowed, although
\* a run is counted at the instant it asked and created when it had the lock.
THEOREM WindowKeptHolds == FundSpec => []WindowKept
<1>1. FundInv => WindowKept
  BY DEF FundInv
<1> QED
  BY <1>1, FundInvariant, PTL

\* A run holds units of committed grants only, whatever its process cached.
THEOREM DrawsOnIssuedHolds == FundSpec => []DrawsOnIssued
<1>1. FundInv => DrawsOnIssued
  BY DEF FundInv
<1> QED
  BY <1>1, FundInvariant, PTL

----------------------------------------------------------------------------
(***************************************************************************)
(* The grants under the ledger.                                             *)
(***************************************************************************)

\* Units counted one by one: a finite number, that falls with the amounts and
\* grows by no more than they do.
LEMMA UnitsFinite ==
    ASSUME NEW f, DOMAIN f = Admission
    PROVE  IsFiniteSet(UnitsOf(f)) /\ Cardinality(UnitsOf(f)) \in Nat
<1>1. IsFiniteSet(1..Units)
  BY FundedAssumption, FS_Interval
<1>2. IsFiniteSet(Admission \X (1..Units))
  BY <1>1, FundedAssumption, FS_Product
<1>3. UnitsOf(f) \in SUBSET (Admission \X (1..Units))
  BY DEF UnitsOf
<1>4. IsFiniteSet(UnitsOf(f))
  BY <1>2, <1>3, FS_Subset
<1> QED BY <1>4, FS_CardinalityType

LEMMA UnitsFall ==
    ASSUME NEW f \in [Admission -> Nat], NEW h \in [Admission -> Nat],
           \A b \in Admission : h[b] <= f[b]
    PROVE  /\ Cardinality(UnitsOf(h)) <= Cardinality(UnitsOf(f))
           /\ \A a \in Admission : f[a] \in 1..Units /\ h[a] < f[a]
                => Cardinality(UnitsOf(h)) + 1 <= Cardinality(UnitsOf(f))
<1>1. /\ IsFiniteSet(UnitsOf(f)) /\ Cardinality(UnitsOf(f)) \in Nat
      /\ Cardinality(UnitsOf(h)) \in Nat
  BY UnitsFinite
<1>2. UnitsOf(h) \in SUBSET UnitsOf(f)
  <2> SUFFICES ASSUME NEW u \in UnitsOf(h) PROVE u \in UnitsOf(f)
    OBVIOUS
  <2>1. u \in Admission \X (1..Units) /\ u[2] <= h[u[1]]
    BY DEF UnitsOf
  <2>2. u[1] \in Admission /\ u[2] \in 1..Units
    BY <2>1
  <2>3. u[2] <= f[u[1]]
    BY <2>1, <2>2, FundedAssumption
  <2> QED BY <2>1, <2>3 DEF UnitsOf
<1>3. ASSUME NEW a \in Admission, f[a] \in 1..Units, h[a] < f[a]
      PROVE  Cardinality(UnitsOf(h)) + 1 <= Cardinality(UnitsOf(f))
  <2> DEFINE u == <<a, f[a]>>
  <2>1. u \in UnitsOf(f) /\ u \notin UnitsOf(h)
    BY <1>3 DEF UnitsOf
  <2>2. /\ IsFiniteSet(UnitsOf(f) \ {u})
        /\ Cardinality(UnitsOf(f) \ {u}) = Cardinality(UnitsOf(f)) - 1
    BY <1>1, <2>1, FS_RemoveElement
  <2>3. UnitsOf(h) \in SUBSET (UnitsOf(f) \ {u})
    BY <1>2, <2>1
  <2>4. Cardinality(UnitsOf(h)) <= Cardinality(UnitsOf(f) \ {u})
    BY <2>2, <2>3, FS_Subset
  <2> QED BY <1>1, <2>2, <2>4
<1>4. Cardinality(UnitsOf(h)) <= Cardinality(UnitsOf(f))
  BY <1>1, <1>2, FS_Subset
<1> QED BY <1>3, <1>4

LEMMA UnitsGrow ==
    ASSUME NEW f \in [Admission -> Nat], NEW h \in [Admission -> Nat], NEW a \in Admission,
           \A b \in Admission \ {a} : h[b] = f[b]
    PROVE  Cardinality(UnitsOf(h)) <= Cardinality(UnitsOf(f)) + h[a]
<1> DEFINE own == {a} \X (1..h[a])
<1>1. IsFiniteSet(own) /\ Cardinality(own) = h[a]
  <2>1. IsFiniteSet(1..h[a]) /\ Cardinality(1..h[a]) = h[a]
    <3> DEFINE n == h[a]
    <3>1. n \in Nat /\ n \in Int /\ 1 \in Int
      OBVIOUS
    <3> HIDE DEF n, own
    <3>2. IsFiniteSet(1..n) /\ Cardinality(1..n) = IF 1 > n THEN 0 ELSE n - 1 + 1
      BY <3>1, FS_Interval, Zenon
    <3>3. Cardinality(1..n) = n
      BY <3>1, <3>2
    <3> QED BY <3>2, <3>3 DEF n
  <2>2. IsFiniteSet({a}) /\ Cardinality({a}) = 1
    BY FS_Singleton
  <2>3. IsFiniteSet(own) /\ Cardinality(own) = Cardinality({a}) * Cardinality(1..h[a])
    BY <2>1, <2>2, FS_Product
  <2> QED BY <2>1, <2>2, <2>3
<1>2. /\ IsFiniteSet(UnitsOf(f)) /\ Cardinality(UnitsOf(f)) \in Nat
      /\ Cardinality(UnitsOf(h)) \in Nat
  BY UnitsFinite
<1>3. UnitsOf(h) \in SUBSET (UnitsOf(f) \cup own)
  <2> SUFFICES ASSUME NEW u \in UnitsOf(h), u \notin own PROVE u \in UnitsOf(f)
    OBVIOUS
  <2>1. u \in Admission \X (1..Units) /\ u[2] <= h[u[1]]
    BY DEF UnitsOf
  <2>2. u[1] # a
    BY <2>1, FundedAssumption
  <2>3. u[2] <= f[u[1]]
    BY <2>1, <2>2
  <2> QED BY <2>1, <2>3 DEF UnitsOf
<1>4. /\ IsFiniteSet(UnitsOf(f) \cup own)
      /\ Cardinality(UnitsOf(f) \cup own)
           = Cardinality(UnitsOf(f)) + Cardinality(own) - Cardinality(UnitsOf(f) \cap own)
  BY <1>1, <1>2, FS_Union
<1>5. Cardinality(UnitsOf(f) \cap own) \in Nat
  <2>1. IsFiniteSet(UnitsOf(f) \cap own)
    BY <1>1, FS_Subset
  <2> QED BY <2>1, FS_CardinalityType
<1>6. Cardinality(UnitsOf(h)) <= Cardinality(UnitsOf(f) \cup own)
  BY <1>3, <1>4, FS_Subset
<1> HIDE DEF own
<1> QED BY <1>1, <1>2, <1>4, <1>5, <1>6

\* What an admission is about to reserve is still there: nobody reserves under
\* its lock, and bills and releases only give back.
DrawInv ==
    /\ \A a \in Admission, g \in Grant : held[a][g] <= Units
    /\ \A a \in Admission, g \in Grant : admission[a].at = "reserved" =>
           admission[a].plan[g] <= Units /\ admission[a].plan[g] <= Pos(Balance(g))
    /\ NoOverdraw

LEMMA DrawTypes ==
    ASSUME FundTypeOK, NEW g \in Grant
    PROVE  /\ Reserved(g) \in Nat /\ spent[g] \in Nat /\ Value[g] \in Nat
           /\ [a \in Admission |-> held[a][g]] \in [Admission -> Nat]
<1>1. [a \in Admission |-> held[a][g]] \in [Admission -> Nat]
  BY DEF FundTypeOK
<1>2. Reserved(g) \in Nat
  BY UnitsFinite DEF Reserved
<1> QED BY <1>1, <1>2, FundedAssumption DEF FundTypeOK

\* A plan that was good stays good where nothing more is drawn.
LEMMA DrawnIf ==
    ASSUME FundTypeOK, FundTypeOK', DrawInv,
           \A g \in Grant : Reserved(g)' + spent'[g] <= Reserved(g) + spent[g],
           \A a \in Admission, g \in Grant : held'[a][g] <= Units,
           \A a \in Admission : admission'[a].at = "reserved" => admission'[a] = admission[a]
    PROVE  DrawInv'
<1>1. ASSUME NEW g \in Grant
      PROVE  /\ Reserved(g) \in Nat /\ Reserved(g)' \in Nat /\ spent[g] \in Nat
             /\ spent'[g] \in Nat /\ Value[g] \in Nat
  <2>1. Reserved(g) \in Nat /\ spent[g] \in Nat /\ Value[g] \in Nat
    BY DrawTypes
  <2>2. Reserved(g)' = Cardinality(UnitsOf([b \in Admission |-> held'[b][g]]))
    BY DEF Reserved, UnitsOf
  <2>3. Reserved(g)' \in Nat
    BY <2>2, UnitsFinite
  <2> QED BY <2>1, <2>3 DEF FundTypeOK
<1>2. ASSUME NEW a \in Admission, NEW g \in Grant, admission'[a].at = "reserved"
      PROVE  admission'[a].plan[g] <= Units /\ admission'[a].plan[g] <= Pos(Balance(g))'
  <2>1. /\ admission'[a].plan[g] = admission[a].plan[g]
        /\ admission[a].plan[g] <= Units /\ admission[a].plan[g] <= Pos(Balance(g))
    BY <1>2 DEF DrawInv
  <2>2. Balance(g) \in Int /\ Balance(g)' \in Int /\ Balance(g) <= Balance(g)'
    BY <1>1 DEF Balance
  <2>3. admission[a].plan[g] \in Nat
    BY DEF FundTypeOK
  <2>4. admission[a].plan[g] <= Pos(Balance(g))'
    <3> HIDE DEF Balance
    <3> QED BY <2>1, <2>2, <2>3 DEF Pos
  <2> QED BY <2>1, <2>4
<1>3. ASSUME NEW g \in Grant PROVE Reserved(g)' + spent'[g] <= Value[g]
  <2>1. Reserved(g) + spent[g] <= Value[g]
    BY DEF DrawInv, NoOverdraw
  <2> QED BY <1>1, <2>1
<1> QED BY <1>2, <1>3 DEF DrawInv, NoOverdraw

\* The plan of a reservation fits what the grants have.
LEMMA ReserveDraws ==
    ASSUME FundTypeOK, FundTypeOK', FundInv, DrawInv, NEW a \in Admission, Reserve(a)
    PROVE  DrawInv'
<1>1. UNCHANGED <<held, spent>> /\ \A b \in Admission \ {a} : admission'[b] = admission[b]
  BY DEF Reserve, Finish, ledgerVars, FundTypeOK
<1>2. \A g \in Grant : Reserved(g)' = Reserved(g) /\ Balance(g)' = Balance(g)
  BY <1>1 DEF Reserved, Balance
<1>3. ASSUME NEW g \in Grant, admission'[a].at = "reserved"
      PROVE  admission'[a].plan[g] <= Units /\ admission'[a].plan[g] <= Pos(Balance(g))
  <2>1. PICK plan \in Plans(Lockable(Resolved(a))) : admission'[a].plan = plan
    BY <1>3 DEF Reserve, Finish, Idle, FundTypeOK
  <2>2. plan[g] \in 0..Units /\ IsPlan(plan, Lockable(Resolved(a)))
    BY <2>1 DEF Plans
  <2>3. plan[g] <= (IF g \in Lockable(Resolved(a)) THEN Pos(Balance(g)) ELSE 0)
    BY <2>2 DEF IsPlan
  <2>4. Balance(g) \in Int
    BY DrawTypes DEF Balance
  <2>5. plan[g] <= Pos(Balance(g))
    <3> HIDE DEF Balance
    <3> QED BY <2>2, <2>3, <2>4, FundedAssumption DEF Pos
  <2> QED BY <2>1, <2>2, <2>5, FundedAssumption
<1>4. \A b \in Admission, g \in Grant : admission'[b].at = "reserved" =>
          admission'[b].plan[g] <= Units /\ admission'[b].plan[g] <= Pos(Balance(g))'
  BY <1>1, <1>2, <1>3 DEF DrawInv, Pos
<1> QED BY <1>1, <1>2, <1>4 DEF DrawInv, NoOverdraw

\* The commit draws what was planned, and no other plan is open.
LEMMA CommitDraws ==
    ASSUME FundTypeOK, FundTypeOK', FundInv, DrawInv, NEW a \in Admission, CommitRun(a)
    PROVE  DrawInv'
<1>1. /\ admission[a].at = "reserved" /\ spent' = spent
      /\ held' = [held EXCEPT ![a] = admission[a].plan] /\ Finish(a)
  BY DEF CommitRun
<1>2. ASSUME NEW b \in Admission PROVE admission'[b].at # "reserved"
  <2>1. CASE b = a
    BY <1>1, <2>1 DEF Finish, Idle, FundTypeOK
  <2>2. CASE b # a
    <3>1. admission'[b] = admission[b]
      BY <1>1, <2>2 DEF Finish, FundTypeOK
    <3>2. capacity = a
      BY <1>1 DEF FundInv, GateInv, Locking
    <3> QED BY <2>2, <3>1, <3>2 DEF FundInv, GateInv, Locking
  <2> QED BY <2>1, <2>2
<1>3. ASSUME NEW b \in Admission, NEW g \in Grant PROVE held'[b][g] <= Units
  BY <1>1 DEF DrawInv, FundTypeOK
<1>4. ASSUME NEW g \in Grant PROVE Reserved(g)' + spent'[g] <= Value[g]
  <2> DEFINE f == [b \in Admission |-> held[b][g]]
             h == [b \in Admission |-> held'[b][g]]
  <2>1. f \in [Admission -> Nat] /\ h \in [Admission -> Nat]
    BY DEF FundTypeOK
  <2>2. h[a] = admission[a].plan[g] /\ \A b \in Admission \ {a} : h[b] = f[b]
    BY <1>1 DEF FundTypeOK
  <2>3. Reserved(g) = Cardinality(UnitsOf(f)) /\ Reserved(g)' = Cardinality(UnitsOf(h))
    BY DEF Reserved, UnitsOf
  <2> HIDE DEF f, h
  <2>4. Reserved(g)' <= Reserved(g) + admission[a].plan[g]
    BY <2>1, <2>2, <2>3, UnitsGrow
  <2>5. /\ Reserved(g) \in Nat /\ Reserved(g)' \in Nat /\ spent[g] \in Nat /\ Value[g] \in Nat
        /\ admission[a].plan[g] \in Nat
    BY <2>1, <2>3, UnitsFinite, DrawTypes DEF FundTypeOK
  <2>6. admission[a].plan[g] <= Pos(Balance(g)) /\ Reserved(g) + spent[g] <= Value[g]
    BY <1>1 DEF DrawInv, NoOverdraw
  <2>7. admission[a].plan[g] <= Value[g] - Reserved(g) - spent[g]
    BY <2>5, <2>6 DEF Pos, Balance
  <2> QED BY <1>1, <2>4, <2>5, <2>7
<1> QED BY <1>2, <1>3, <1>4 DEF DrawInv, NoOverdraw

\* A bill turns a unit that was reserved into one that is debited; a release
\* only gives back.
LEMMA LedgerDraws ==
    ASSUME FundTypeOK, FundTypeOK', DrawInv, NEW a \in Admission, Bill(a) \/ Release(a)
    PROVE  DrawInv'
<1>1. admission' = admission
  BY DEF Bill, Release
<1>2. \A b \in Admission, g \in Grant : held'[b][g] <= held[b][g]
  <2>1. CASE Bill(a)
    BY <2>1 DEF Bill, FundTypeOK
  <2>2. CASE Release(a)
    BY <2>2 DEF Release, NoUnits, FundTypeOK
  <2> QED BY <2>1, <2>2
<1>t. /\ \A b \in Admission, g \in Grant : held[b][g] \in Nat /\ held'[b][g] \in Nat
      /\ Units \in Nat
  BY FundedAssumption DEF FundTypeOK
<1>3. \A b \in Admission, g \in Grant : held[b][g] <= Units /\ held'[b][g] <= Units
  BY <1>2, <1>t DEF DrawInv
<1>4. ASSUME NEW g \in Grant PROVE Reserved(g)' + spent'[g] <= Reserved(g) + spent[g]
  <2> DEFINE f == [b \in Admission |-> held[b][g]]
             h == [b \in Admission |-> held'[b][g]]
  <2>1. /\ f \in [Admission -> Nat] /\ h \in [Admission -> Nat]
        /\ \A b \in Admission : h[b] <= f[b]
    BY <1>2 DEF FundTypeOK
  <2>2. Reserved(g) = Cardinality(UnitsOf(f)) /\ Reserved(g)' = Cardinality(UnitsOf(h))
    BY DEF Reserved, UnitsOf
  <2>3. /\ Reserved(g) \in Nat /\ Reserved(g)' \in Nat /\ spent[g] \in Nat
    BY <2>1, <2>2, UnitsFinite DEF FundTypeOK
  <2>4. CASE spent'[g] = spent[g]
    <3> HIDE DEF f, h
    <3> QED BY <2>1, <2>2, <2>3, <2>4, UnitsFall
  <2>5. CASE spent'[g] # spent[g]
    <3>1. PICK n \in DOMAIN DrawOrder :
             /\ FirstHeld(a, n)
             /\ held' = [held EXCEPT ![a][DrawOrder[n]] = @ - 1]
             /\ spent' = [spent EXCEPT ![DrawOrder[n]] = @ + 1]
      BY <2>5 DEF Bill, Release
    <3>2. DrawOrder[n] = g
      BY <2>5, <3>1 DEF FundTypeOK
    <3>3. held[a][g] > 0 /\ held'[a][g] = held[a][g] - 1 /\ spent'[g] = spent[g] + 1
      BY <3>1, <3>2 DEF FirstHeld, FundTypeOK
    <3>4. held[a][g] \in 1..Units /\ h[a] < f[a] /\ f[a] = held[a][g]
      BY <1>3, <1>t, <3>3
    <3> HIDE DEF f, h
    <3> QED BY <2>1, <2>2, <2>3, <3>3, <3>4, UnitsFall
  <2> QED BY <2>4, <2>5
<1> QED BY <1>1, <1>3, <1>4, DrawnIf

LEMMA DrawInvStep ==
    FundTypeOK /\ FundTypeOK' /\ FundInv /\ DrawInv /\ [FundNext]_fundVars => DrawInv'
<1> SUFFICES ASSUME FundTypeOK, FundTypeOK', FundInv, DrawInv, [FundNext]_fundVars
             PROVE  DrawInv'
  OBVIOUS
<1>1. ASSUME UNCHANGED <<held, spent>>,
             \A a \in Admission : admission'[a].at = "reserved" => admission'[a] = admission[a]
      PROVE  DrawInv'
  <2>1. \A g \in Grant : Reserved(g)' = Reserved(g)
    BY <1>1 DEF Reserved
  <2>2. \A g \in Grant : Reserved(g)' + spent'[g] <= Reserved(g) + spent[g]
    BY <1>1, <2>1, DrawTypes
  <2> QED BY <1>1, <2>2, DrawnIf DEF DrawInv
<1>2. CASE \/ Tick \/ UNCHANGED fundVars \/ \E p \in Proc, v \in Version : Expire(p, v)
           \/ \E w \in Writer : \/ \E g \in Grant, adds \in BOOLEAN : BeginWrite(w, g, adds)
                                \/ FoldInside(w) \/ CommitWrite(w) \/ RollbackWrite(w)
  BY <1>1, <1>2 DEF Tick, Expire, BeginWrite, FoldInside, CommitWrite, RollbackWrite,
                    fundVars, ledgerVars
<1>3. ASSUME NEW a \in Admission,
             \/ Ask(a) \/ TakeLock(a) \/ ReadVersion(a) \/ FoldGrants(a) \/ Gate(a) \/ AbortRun(a)
      PROVE  DrawInv'
  <2>1. UNCHANGED <<held, spent>>
    BY <1>3 DEF Ask, TakeLock, ReadVersion, FoldGrants, Gate, AbortRun, ledgerVars
  <2>2. \A b \in Admission : admission'[b].at = "reserved" => admission'[b] = admission[b]
    <3>1. admission'[a].at # "reserved" /\ \A b \in Admission \ {a} : admission'[b] = admission[b]
      BY <1>3 DEF Ask, TakeLock, ReadVersion, FoldGrants, Gate, AbortRun, Step, Finish, Idle,
                  FundTypeOK
    <3> QED BY <3>1
  <2> QED BY <1>1, <2>1, <2>2
<1> QED
  BY <1>2, <1>3, ReserveDraws, CommitDraws, LedgerDraws DEF FundNext

\* For any grants, units, admissions and writers, whatever the caches say and
\* however bills and releases race with reservations: no grant is drawn beyond
\* its value (_grant_balances under the account's advisory lock).
THEOREM NoOverdrawHolds == FundSpec => []NoOverdraw
<1>1. FundInit => DrawInv
  <2> SUFFICES ASSUME FundInit PROVE DrawInv
    OBVIOUS
  <2>1. \A a \in Admission, g \in Grant : held[a][g] = 0 /\ spent[g] = 0
    BY DEF FundInit, NoUnits
  <2>2. \A a \in Admission : admission[a].at # "reserved"
    BY DEF FundInit, Idle
  <2>3. ASSUME NEW g \in Grant PROVE Reserved(g) + spent[g] <= Value[g]
    <3>1. UnitsOf([a \in Admission |-> held[a][g]]) = {}
      BY <2>1, FundedAssumption DEF UnitsOf
    <3>2. Reserved(g) = 0 /\ spent[g] = 0
      BY <3>1, FS_EmptySet DEF Reserved, FundInit, NoUnits
    <3> QED BY <3>2, FundedAssumption
  <2> QED BY <2>1, <2>2, <2>3, FundedAssumption DEF DrawInv, NoOverdraw
<1>2. DrawInv => NoOverdraw
  BY DEF DrawInv
<1> QED
  BY <1>1, <1>2, DrawInvStep, FundInvariant, PTL DEF FundSpec
=============================================================================
