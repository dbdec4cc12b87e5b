-------------------------- MODULE SiteCrawlProofs --------------------------
(***************************************************************************)
(* Proofs about SiteCrawl, for any finite site, any slots and lease owners, *)
(* and any number of faults.                                                *)
(***************************************************************************)
EXTENDS SiteCrawl, FiniteSetTheorems, TLAPS

LEMMA Constants ==
    /\ Slot \subseteq Actor /\ Maint \in Actor /\ NoOne \notin Actor /\ User # NoOne
    /\ Discovers \subseteq Task /\ Analyses \subseteq Task
    /\ Discover(Root) \in Discovers
    /\ \A p \in Page : Discover(p) \in Discovers
    /\ \A t \in Task : PageOf(t) \in Page
    /\ Discovers \cap Analyses = {}
BY SiteAssumption DEF Actor, Task, Discovers, Analyses, Discover, Analyze, PageOf

LEMMA PageCounts == ASSUME NEW S, S \subseteq Page PROVE Cardinality(S) \in Nat
BY FS_Subset, FS_CardinalityType, SiteAssumption

LEMMA RecountedType == ASSUME SiteTypeOK PROVE Recounted \in Nat
<1>1. Cardinality(observed) \in Nat
  BY PageCounts DEF SiteTypeOK
<1>2. Recounted \in {Cardinality(observed), admitted}
  BY DEF Recounted
<1> QED BY <1>1, <1>2 DEF SiteTypeOK

LEMMA TypeInit == SiteInit => SiteTypeOK
<1> SUFFICES ASSUME SiteInit PROVE SiteTypeOK
  OBVIOUS
<1>1. Queued \in RowType /\ Absent \in RowType
  BY DEF Queued, Absent, Row, RowType, Open
<1>2. task \in [Task -> RowType]
  BY <1>1 DEF SiteInit
<1>3. slot \in [Actor -> Place]
  BY Constants DEF SiteInit, Free, Place, Pc
<1>4. /\ crawl \in Active /\ analysis = "pending" /\ admitted = 0 /\ faults = 0
      /\ evidence = {} /\ snapshot = {} /\ crawlLock = NoOne /\ runtimeLock = NoOne
      /\ rerun = NoOne /\ stranded = FALSE /\ monitored \subseteq Page
      /\ observed \subseteq Page /\ current = {}
  BY SiteAssumption DEF SiteInit, Active
<1>5. 0 \in 0..MaxFaults /\ User # NoOne
  BY Constants, SiteAssumption
<1>6. plan \in [new : SUBSET Page, chosen : SUBSET Page]
  BY DEF SiteInit, NoPlan
<1> QED
  BY <1>2, <1>3, <1>4, <1>5, <1>6 DEF SiteTypeOK

\* A slot moves on with its task, and no other part of the types is touched.
LEMMA Moves ==
    ASSUME SiteTypeOK, NEW a \in Actor, NEW pc \in Pc, NEW t \in Task
    PROVE  At(a, pc, t) => slot' \in [Actor -> Place]
BY DEF SiteTypeOK, At, Pc, Place

LEMMA Frees ==
    ASSUME SiteTypeOK, NEW a \in Actor
    PROVE  [slot EXCEPT ![a] = Free(a)] \in [Actor -> Place]
BY Constants DEF SiteTypeOK, Free, Pc, Place

LEMMA InHand ==
    ASSUME SiteTypeOK, NEW s \in Slot
    PROVE  s \in Actor /\ slot[s].task \in Task /\ slot[s].pc \in Pc
BY Constants DEF SiteTypeOK, Place

LEMMA LetGoTypes ==
    ASSUME SiteTypeOK, NEW a, LetGo(a)
    PROVE  /\ runtimeLock' \in {runtimeLock, NoOne} \cap (Slot \cup {User, NoOne})
           /\ plan' \in [new : SUBSET Page, chosen : SUBSET Page]
BY DEF SiteTypeOK, LetGo, NoPlan

LEMMA TypeStep == SiteTypeOK /\ [SiteNext]_siteVars => SiteTypeOK'
<1> SUFFICES ASSUME SiteTypeOK, [SiteNext]_siteVars PROVE SiteTypeOK'
  OBVIOUS
<1> USE DEF SiteTypeOK
<1>1. ASSUME NEW s \in Slot, NEW t \in Task, Claim(s, t) PROVE SiteTypeOK'
  <2>1. slot' \in [Actor -> Place]
    BY <1>1, Moves, Constants DEF Claim, Pc
  <2>2. task' \in [Task -> RowType]
    BY <1>1 DEF Claim, RowType, Open
  <2> QED BY <1>1, <2>1, <2>2 DEF Claim, crawlVars, lockVars, recorded
<1>2. ASSUME NEW s \in Slot, Prepare(s) PROVE SiteTypeOK'
  <2>1. slot' \in [Actor -> Place]
    BY <1>2, Moves, InHand DEF Prepare, Pc
  <2> QED BY <1>2, <2>1 DEF Prepare, crawlVars, lockVars, Active, recorded
<1>3. ASSUME NEW s \in Slot, BeginDiscover(s) \/ BeginAnalyze(s) PROVE SiteTypeOK'
  <2> DEFINE t == slot[s].task
  <2>0. t \in Task /\ s \in Actor
    BY InHand
  <2>1. slot' \in [Actor -> Place]
    BY <1>3, <2>0, Moves DEF BeginDiscover, BeginAnalyze, MarkRunning, Pc
  <2>2. task' \in [Task -> RowType]
    BY <1>3, <2>0 DEF BeginDiscover, BeginAnalyze, MarkRunning, RowType, Open
  <2> QED BY <1>3, <2>1, <2>2 DEF BeginDiscover, BeginAnalyze, crawlVars, lockVars, recorded
<1>4. ASSUME NEW s \in Slot, AdmitDiscover(s) PROVE SiteTypeOK'
  <2>0. slot[s].task \in Task /\ s \in Actor /\ User \notin Slot
    BY InHand, SiteAssumption
  <2>1. slot' \in [Actor -> Place]
    BY <1>4, <2>0, Moves DEF AdmitDiscover, Pc
  <2>2. plan' \in [new : SUBSET Page, chosen : SUBSET Page]
    <3>1. PICK new \in SUBSET Unplanned :
            \E chosen \in SUBSET (new \cup ({PageOf(slot[s].task)} \cap Initial)) :
              plan' = [new |-> new, chosen |-> chosen]
      BY <1>4 DEF AdmitDiscover
    <3>2. new \subseteq Page /\ Initial \subseteq Page
      BY SiteAssumption DEF Unplanned
    <3> QED BY <3>1, <3>2
  <2> QED BY <1>4, <2>0, <2>1, <2>2 DEF AdmitDiscover, crawlVars, recorded
<1>18. ASSUME NEW s \in Slot, CommitDiscover(s) PROVE SiteTypeOK'
  <2> DEFINE t == slot[s].task
  <2>0. t \in Task /\ s \in Actor /\ PageOf(t) \in Page
    BY InHand, Constants
  <2>1. slot' \in [Actor -> Place]
    BY <1>18, <2>0, Moves DEF CommitDiscover, Pc
  <2>2. task' \in [Task -> RowType]
    <3>1. Queued \in RowType /\ [task[t] EXCEPT !.tries = @ + 1] \in RowType
      BY <2>0 DEF Queued, Row, RowType, Open
    <3> QED BY <1>18, <2>0, <3>1 DEF CommitDiscover
  <2>3. plan.new \subseteq Page /\ plan.chosen \subseteq Page /\ Cardinality(plan.new) \in Nat
    BY PageCounts
  <2>4. /\ admitted' \in Nat /\ monitored' \subseteq Page /\ evidence' \subseteq Task
        /\ observed' \subseteq Page
    BY <1>18, <2>0, <2>3 DEF CommitDiscover
  <2>5. plan' \in [new : SUBSET Page, chosen : SUBSET Page] /\ runtimeLock' = NoOne
    BY <1>18 DEF CommitDiscover, NoPlan
  <2> QED BY <1>18, <2>1, <2>2, <2>4, <2>5, Constants DEF CommitDiscover
<1>19. ASSUME NEW s \in Slot, DiscoverFails(s) PROVE SiteTypeOK'
  <2>0. slot[s].task \in Task /\ s \in Actor
    BY InHand
  <2>1. slot' \in [Actor -> Place]
    BY <1>19, <2>0, Moves DEF DiscoverFails, Attempted, Pc
  <2>2. task' \in [Task -> RowType]
    BY <1>19, <2>0 DEF DiscoverFails, Attempted, RowType
  <2> QED BY <1>19, <2>1, <2>2 DEF DiscoverFails, crawlVars, lockVars, recorded
<1>5. ASSUME NEW s \in Slot, PersistAnalyze(s) PROVE SiteTypeOK'
  <2> DEFINE t == slot[s].task
  <2>0. t \in Task /\ s \in Actor
    BY InHand
  <2>1. slot' \in [Actor -> Place]
    BY <1>5, <2>0, Moves DEF PersistAnalyze, Attempted, Pc
  <2>2. task' \in [Task -> RowType]
    BY <1>5, <2>0 DEF PersistAnalyze, Attempted, RowType
  <2>3. evidence' \subseteq Task /\ current' \subseteq Analyses
    BY <1>5, <2>0 DEF PersistAnalyze
  <2> QED BY <1>5, <2>1, <2>2, <2>3 DEF PersistAnalyze, crawlVars, lockVars
<1>6. ASSUME NEW s \in Slot, Write(s) \/ CancelTask(s) PROVE SiteTypeOK'
  <2> DEFINE t == slot[s].task
  <2>0. t \in Task /\ s \in Actor
    BY InHand
  <2>1. slot' \in [Actor -> Place]
    BY <1>6, <2>0, Moves DEF Write, CancelTask, Pc
  <2>2. task' \in [Task -> RowType]
    BY <1>6, <2>0 DEF Write, CancelTask, Closes, RowType, Open
  <2> QED BY <1>6, <2>1, <2>2 DEF Write, CancelTask, crawlVars, lockVars, recorded
<1>7. ASSUME NEW s \in Slot, End(s) PROVE SiteTypeOK'
  <2>1. slot' \in [Actor -> Place]
    BY <1>7, Moves, Frees, InHand DEF End, At, Pc
  <2> QED BY <1>7, <2>1 DEF End, crawlVars, lockVars, recorded
<1>17. ASSUME NEW s \in Slot, Raise(s) PROVE SiteTypeOK'
  <2>1. slot' \in [Actor -> Place]
    BY <1>17, Moves, InHand DEF Raise, Pc
  <2> QED BY <1>17, <2>1, LetGoTypes, SiteAssumption DEF Raise, crawlVars, recorded
<1>8. ASSUME NEW a \in Actor, Reconciles(a) PROVE SiteTypeOK'
  <2>0. slot[a].task \in Task
    BY DEF Place
  <2>1. slot' \in [Actor -> Place]
    BY <1>8, <2>0, Moves, Frees
       DEF Reconciles, ReconcileBegin, ReconcileFinish, ReconcileAborted, Pc
  <2>2. CASE ReconcileBegin(a)
    BY <2>1, <2>2, RecountedType DEF ReconcileBegin, recorded
  <2>3. CASE ReconcileFinish(a)
    <3>1. Verdict \in Ended
      BY DEF Verdict, Ended
    <3> QED BY <2>1, <2>3, <3>1 DEF ReconcileFinish, Measured, recorded
  <2>4. CASE ReconcileAborted(a)
    BY <2>1, <2>4 DEF ReconcileAborted, crawlVars, recorded
  <2> QED BY <1>8, <2>2, <2>3, <2>4 DEF Reconciles
<1>9. ASSUME NEW a \in Actor, Crash(a) PROVE SiteTypeOK'
  BY <1>9, Frees, LetGoTypes, SiteAssumption DEF Crash, crawlVars, recorded
<1>10. ASSUME NEW t \in Task, Expire(t) PROVE SiteTypeOK'
  <2>1. slot' \in [Actor -> Place]
    BY <1>10, Constants DEF Expire, Place, Pc
  <2>2. task' \in [Task -> RowType]
    BY <1>10 DEF Expire, Row, RowType, Open
  <2> QED BY <1>10, <2>1, <2>2, SiteAssumption DEF Expire, crawlVars, lockVars, recorded
<1>11. CASE Backstop
  <2>1. slot' \in [Actor -> Place]
    BY <1>11, Constants DEF Backstop, Place, Pc
  <2> QED BY <1>11, <2>1 DEF Backstop, crawlVars, lockVars, recorded
<1>12. CASE CancelCrawl
  <2>1. task' \in [Task -> RowType]
    BY <1>12 DEF CancelCrawl, RowType
  <2> QED BY <1>12, <2>1 DEF CancelCrawl, Measured, Ended, lockVars, recorded
<1>13. CASE RerunInsert \/ RerunAborted
  <2>1. task' \in [Task -> RowType]
    BY <1>13 DEF RerunInsert, RerunAborted, Queued, Row, RowType, Open
  <2>2. monitored' \subseteq Page
    BY <1>13 DEF RerunInsert, RerunAborted
  <2> QED BY <1>13, <2>1, <2>2, Constants DEF RerunInsert, RerunAborted, crawlVars, recorded
<1>14. ASSUME NEW p \in Page, RerunRead(p) PROVE SiteTypeOK'
  BY <1>14, SiteAssumption DEF RerunRead, crawlVars, recorded
<1>15. ASSUME NEW p \in Page, Deselect(p) PROVE SiteTypeOK'
  <2>1. task' \in [Task -> RowType]
    BY <1>15 DEF Deselect, With, RowType
  <2> QED BY <1>15, <2>1 DEF Deselect, crawlVars, lockVars, recorded
<1>16. CASE UNCHANGED siteVars
  BY <1>16 DEF siteVars, crawlVars, lockVars, recorded
<1> HIDE DEF SiteTypeOK
<1> QED
  BY <1>1, <1>2, <1>3, <1>4, <1>5, <1>6, <1>7, <1>8, <1>9, <1>10, <1>11, <1>12,
     <1>13, <1>14, <1>15, <1>16, <1>17, <1>18, <1>19 DEF SiteNext, Works

\* The types of the crawl, its tasks and its actors hold in every state.
THEOREM SiteTypes == SiteSpec => []SiteTypeOK
BY TypeInit, TypeStep, PTL DEF SiteSpec

(***************************************************************************)
(* What ends with the crawl.                                                *)
(***************************************************************************)

\* Whoever reconciles holds the crawl's row and found nothing outstanding; a
\* rerun under way holds the profile of an active crawl; nothing is
\* outstanding in a crawl that has ended, and its snapshot is of what is there.
SiteInv ==
    /\ \A a \in Actor : slot[a].pc = "finish" <=> crawlLock = a
    /\ crawlLock # NoOne => Drained /\ crawl \in Active
    /\ runtimeLock = User => crawl \in Active
    /\ crawl \in Ended => Drained /\ snapshot = Measured

LEMMA ActiveNotEnded == Active \cap Ended = {}
BY DEF Active, Ended

LEMMA DrainedRows == Drained <=> \A t \in Task : task[t].st \notin Open
BY DEF Drained, Outstanding

\* Only the insert of a rerun puts work into a crawl that has none left.
LEMMA QuietStays ==
    ASSUME SiteTypeOK, Drained, [SiteNext]_siteVars
    PROVE  RerunInsert \/ /\ \A t \in Task : task'[t].st = task[t].st \/ task'[t].st \notin Open
                          /\ UNCHANGED <<evidence, current>>
<1> USE DEF SiteTypeOK
<1>0. \A t \in Task : task[t].st \notin Open
  BY DrainedRows
<1>1. \A s \in Slot, t \in Task : ~Leased(s, t) /\ ~Persistable(s, t) /\ \A entitled : ~Allowed(s, t, entitled)
  BY <1>0 DEF Leased, Allowed, Persistable, Open
<1>2. ASSUME NEW s \in Slot, NEW t \in Task, Claim(s, t) PROVE FALSE
  BY <1>0, <1>2 DEF Claim, Open
<1>3. ASSUME NEW s \in Slot, Works(s) PROVE UNCHANGED <<task, evidence, current>>
  <2>0. slot[s].task \in Task
    BY InHand
  <2>1. CASE Prepare(s) \/ End(s) \/ Raise(s)
    BY <2>1 DEF Prepare, End, Raise, recorded
  <2>2. CASE BeginDiscover(s) \/ BeginAnalyze(s)
    BY <1>0, <1>1, <2>0, <2>2 DEF BeginDiscover, BeginAnalyze, MarkRunning, Open, recorded
  <2>3. CASE AdmitDiscover(s) \/ CommitDiscover(s) \/ DiscoverFails(s)
    BY <1>1, <2>0, <2>3 DEF AdmitDiscover, CommitDiscover, DiscoverFails, recorded
  <2>4. CASE PersistAnalyze(s)
    BY <1>1, <2>0, <2>4 DEF PersistAnalyze
  <2>5. CASE Write(s)
    BY <1>1, <2>0, <2>5 DEF Write, recorded
  <2>6. CASE CancelTask(s)
    BY <2>6 DEF CancelTask, Drained, recorded
  <2> QED BY <1>3, <2>1, <2>2, <2>3, <2>4, <2>5, <2>6 DEF Works
<1>4. ASSUME NEW a \in Actor, Reconciles(a) \/ Crash(a) PROVE UNCHANGED <<task, evidence, current>>
  BY <1>4 DEF Reconciles, ReconcileBegin, ReconcileFinish, ReconcileAborted, Crash, recorded
<1>5. ASSUME NEW t \in Task, Expire(t) PROVE FALSE
  BY <1>0, <1>5 DEF Expire, Open
<1>6. CASE Backstop \/ RerunAborted \/ \E p \in Page : RerunRead(p)
  BY <1>6 DEF Backstop, RerunAborted, RerunRead, recorded
<1>7. CASE CancelCrawl
  BY <1>7 DEF CancelCrawl, Drained, recorded
<1>8. ASSUME NEW p \in Page, Deselect(p)
      PROVE  /\ \A t \in Task : task'[t].st = task[t].st \/ task'[t].st \notin Open
             /\ UNCHANGED <<evidence, current>>
  BY <1>8 DEF Deselect, RowType, Open, recorded
<1>9. CASE UNCHANGED siteVars
  BY <1>9 DEF siteVars, recorded
<1> QED
  BY <1>2, <1>3, <1>4, <1>5, <1>6, <1>7, <1>8, <1>9 DEF SiteNext

LEMMA InvInit == SiteInit => SiteInv
<1> SUFFICES ASSUME SiteInit PROVE SiteInv
  OBVIOUS
<1>1. \A a \in Actor : slot[a].pc = "idle" /\ crawlLock # a
  BY Constants DEF SiteInit, Free
<1> QED
  BY <1>1, Constants DEF SiteInit, SiteInv, Ended

\* An actor enters or leaves "finish" only with the crawl's lock.
LEMMA Holders ==
    ASSUME SiteTypeOK, SiteInv, [SiteNext]_siteVars
    PROVE  \A a \in Actor : slot'[a].pc = "finish" <=> crawlLock' = a
<1> USE DEF SiteTypeOK
<1>0. \A a \in Actor : slot[a].pc = "finish" <=> crawlLock = a
  BY DEF SiteInv
<1>00. \A a \in Actor : a # NoOne
  BY Constants
<1> SUFFICES \/ crawlLock' = crawlLock
                /\ \A a \in Actor : slot'[a].pc = "finish" <=> slot[a].pc = "finish"
             \/ \A a \in Actor : slot'[a].pc = "finish" <=> crawlLock' = a
  BY <1>0
<1> DEFINE Goal == \/ crawlLock' = crawlLock
                      /\ \A a \in Actor : slot'[a].pc = "finish" <=> slot[a].pc = "finish"
                   \/ \A a \in Actor : slot'[a].pc = "finish" <=> crawlLock' = a
<1>1. ASSUME NEW s \in Slot, NEW t \in Task, Claim(s, t) PROVE Goal
  BY <1>1, Constants DEF Claim, At, Place, lockVars
<1>2. ASSUME NEW s \in Slot, Works(s) PROVE Goal
  <2>0. s \in Actor /\ slot[s].pc # "finish" /\ crawlLock' = crawlLock
    BY <1>2, Constants DEF Works, Prepare, BeginDiscover, BeginAnalyze, AdmitDiscover,
                           CommitDiscover, DiscoverFails,
                           PersistAnalyze, Write, CancelTask, End, Raise, lockVars
  <2>1. \E pc \in Pc \ {"finish"}, t \in Task : slot' = [slot EXCEPT ![s] = [pc |-> pc, task |-> t]]
    <3>0. slot[s].task \in Task /\ Discover(Root) \in Task
      BY InHand, Constants
    <3>1. CASE Prepare(s) \/ CancelTask(s) \/ Write(s) \/ Raise(s)
      BY <3>0, <3>1 DEF Prepare, CancelTask, Write, Raise, At, Pc
    <3>2. CASE BeginDiscover(s) \/ BeginAnalyze(s)
      BY <3>0, <3>2 DEF BeginDiscover, BeginAnalyze, MarkRunning, At, Pc
    <3>3. CASE AdmitDiscover(s) \/ CommitDiscover(s) \/ DiscoverFails(s)
      BY <3>0, <3>3 DEF AdmitDiscover, CommitDiscover, DiscoverFails, Attempted, At, Pc
    <3>4. CASE PersistAnalyze(s)
      BY <3>0, <3>4 DEF PersistAnalyze, Attempted, At, Pc
    <3>5. CASE End(s)
      BY <3>0, <3>5 DEF End, Free, Pc
    <3> QED BY <1>2, <3>1, <3>2, <3>3, <3>4, <3>5 DEF Works
  <2> QED BY <2>0, <2>1 DEF Place
<1>3. ASSUME NEW a \in Actor, Reconciles(a) \/ Crash(a) PROVE Goal
  <2>1. CASE ReconcileBegin(a)
    BY <1>0, <1>00, <2>1 DEF ReconcileBegin, Lockable, Writable, At, Free, Place
  <2>2. CASE ReconcileFinish(a) \/ ReconcileAborted(a)
    BY <1>0, <1>00, <2>2 DEF ReconcileFinish, ReconcileAborted, Free, Place
  <2>3. CASE Crash(a)
    BY <1>0, <1>00, <2>3 DEF Crash, Free, Place
  <2> QED BY <1>3, <2>1, <2>2, <2>3 DEF Reconciles
<1>4. ASSUME NEW t \in Task, Expire(t) PROVE Goal
  BY <1>4, Constants DEF Expire, Place, lockVars
<1>5. CASE Backstop
  BY <1>5, Constants DEF Backstop, Place, lockVars
<1>6. CASE \/ CancelCrawl \/ RerunInsert \/ RerunAborted \/ UNCHANGED siteVars
           \/ \E p \in Page : RerunRead(p) \/ Deselect(p)
  BY <1>6 DEF CancelCrawl, RerunInsert, RerunAborted, RerunRead, Deselect, siteVars, lockVars
<1> QED
  BY <1>1, <1>2, <1>3, <1>4, <1>5, <1>6 DEF SiteNext

\* The three steps that change the crawl's status.
LEMMA StatusSteps ==
    ASSUME [SiteNext]_siteVars
    PROVE  \/ UNCHANGED crawl
           \/ crawlLock = NoOne /\ crawl' = "running" /\ crawl = "queued"
           \/ CancelCrawl
           \/ \E a \in Actor : ReconcileFinish(a)
<1>1. ASSUME NEW s \in Slot, Works(s)
      PROVE  UNCHANGED crawl \/ (crawlLock = NoOne /\ crawl' = "running" /\ crawl = "queued")
  BY <1>1 DEF Works, Prepare, BeginDiscover, BeginAnalyze, AdmitDiscover,
              CommitDiscover, DiscoverFails, PersistAnalyze, Write, CancelTask, End, Raise, Lockable, Writable, crawlVars
<1>2. ASSUME NEW a \in Actor, Reconciles(a) \/ Crash(a)
      PROVE  UNCHANGED crawl \/ ReconcileFinish(a)
  BY <1>2 DEF Reconciles, ReconcileBegin, ReconcileAborted, Crash, crawlVars
<1>3. CASE \/ \E s \in Slot, t \in Task : Claim(s, t)
           \/ \E t \in Task : Expire(t)
           \/ Backstop \/ RerunInsert \/ RerunAborted \/ UNCHANGED siteVars
           \/ \E p \in Page : RerunRead(p) \/ Deselect(p)
  BY <1>3 DEF Claim, Expire, Backstop, RerunInsert, RerunAborted, RerunRead, Deselect,
              siteVars, crawlVars
<1> QED
  BY <1>1, <1>2, <1>3 DEF SiteNext

\* A crawl that has ended keeps its verdict, its snapshot and its selection.
LEMMA EndedFrame ==
    ASSUME SiteTypeOK, SiteInv, crawl \in Ended, [SiteNext]_siteVars
    PROVE  UNCHANGED <<crawl, analysis, snapshot, monitored, evidence, current>> /\ ~RerunInsert
<1> USE DEF SiteTypeOK
<1>0. Drained /\ crawl \notin Active /\ runtimeLock # User /\ ~RerunInsert
  BY ActiveNotEnded DEF SiteInv, RerunInsert
<1>1. UNCHANGED <<evidence, current>>
  BY <1>0, QuietStays
<1>2. ASSUME NEW s \in Slot, Works(s) PROVE UNCHANGED <<crawl, analysis, snapshot, monitored>>
  BY <1>0, <1>2 DEF Works, Prepare, BeginDiscover, BeginAnalyze, AdmitDiscover,
              CommitDiscover, DiscoverFails, PersistAnalyze, Write, CancelTask, End, Raise, crawlVars, Persistable, Active
<1>3. ASSUME NEW a \in Actor, Reconciles(a) \/ Crash(a)
      PROVE  UNCHANGED <<crawl, analysis, snapshot, monitored>>
  <2>1. ~ReconcileFinish(a)
    BY <1>0, Constants DEF SiteInv, ReconcileFinish
  <2> QED
    BY <1>0, <1>3, <2>1 DEF Reconciles, ReconcileBegin, Reconcilable, ReconcileAborted, Crash,
                            crawlVars
<1>4. CASE \/ \E s \in Slot, t \in Task : Claim(s, t)
           \/ \E t \in Task : Expire(t)
           \/ Backstop \/ RerunAborted \/ UNCHANGED siteVars \/ \E p \in Page : RerunRead(p)
  BY <1>0, <1>1, <1>4 DEF Claim, Expire, Backstop, RerunAborted, RerunRead, siteVars, crawlVars
<1>5. ASSUME CancelCrawl \/ \E p \in Page : Deselect(p) PROVE FALSE
  BY <1>0, <1>5 DEF CancelCrawl, Deselect
<1> QED
  BY <1>0, <1>1, <1>2, <1>3, <1>4, <1>5 DEF SiteNext

\* Only a reconciliation takes the crawl's lock; only an admission takes the
\* workspace's and makes a plan, or a rerun takes it.
LEMMA LockSteps ==
    ASSUME [SiteNext]_siteVars
    PROVE  /\ \/ crawlLock' \in {crawlLock, NoOne}
              \/ \E a \in Actor : ReconcileBegin(a)
           /\ \/ UNCHANGED <<runtimeLock, plan>>
              \/ runtimeLock' = NoOne
              \/ \E s \in Slot : AdmitDiscover(s)
              \/ \E p \in Page : RerunRead(p)
<1>1. ASSUME NEW s \in Slot, Works(s)
      PROVE  /\ UNCHANGED crawlLock
             /\ UNCHANGED <<runtimeLock, plan>> \/ runtimeLock' = NoOne \/ AdmitDiscover(s)
  BY <1>1 DEF Works, Prepare, BeginDiscover, BeginAnalyze, CommitDiscover, DiscoverFails,
              AdmitDiscover, PersistAnalyze, Write, CancelTask, End, Raise, LetGo, lockVars
<1>2. ASSUME NEW a \in Actor, ~ReconcileBegin(a), Reconciles(a) \/ Crash(a)
      PROVE  crawlLock' \in {crawlLock, NoOne}
  BY <1>2 DEF Reconciles, ReconcileFinish, ReconcileAborted, Crash
<1>3. ASSUME NEW a \in Actor, Reconciles(a) \/ Crash(a)
      PROVE  UNCHANGED <<runtimeLock, plan>> \/ runtimeLock' = NoOne
  BY <1>3 DEF Reconciles, ReconcileBegin, ReconcileFinish, ReconcileAborted, Crash, LetGo
<1>4. CASE \/ \E s \in Slot, t \in Task : Claim(s, t)
           \/ \E t \in Task : Expire(t)
           \/ Backstop \/ CancelCrawl \/ UNCHANGED siteVars \/ \E p \in Page : Deselect(p)
  BY <1>4 DEF Claim, Expire, Backstop, CancelCrawl, Deselect, siteVars, lockVars
<1>5. CASE RerunInsert \/ RerunAborted
  BY <1>5 DEF RerunInsert, RerunAborted
<1>6. ASSUME NEW p \in Page, RerunRead(p) PROVE UNCHANGED crawlLock
  BY <1>6 DEF RerunRead
<1> QED
  BY <1>1, <1>2, <1>3, <1>4, <1>5, <1>6 DEF SiteNext, lockVars

LEMMA InvStep == SiteTypeOK /\ SiteInv /\ [SiteNext]_siteVars => SiteInv'
<1> SUFFICES ASSUME SiteTypeOK, SiteInv, [SiteNext]_siteVars PROVE SiteInv'
  OBVIOUS
<1>0. Drained /\ ~RerunInsert => Drained'
  BY QuietStays, DrainedRows DEF Drained, Outstanding
<1>1. (\A a \in Actor : slot[a].pc = "finish" <=> crawlLock = a)'
  BY Holders
<1>2. (crawlLock # NoOne => Drained /\ crawl \in Active)'
  <2> SUFFICES ASSUME crawlLock' # NoOne PROVE Drained' /\ crawl' \in Active
    OBVIOUS
  <2>1. CASE crawlLock = NoOne
    <3>1. PICK a \in Actor : ReconcileBegin(a)
      BY <2>1, LockSteps
    <3>2. Drained /\ crawl \in Active /\ UNCHANGED <<crawl, task>>
      BY <2>1, <3>1 DEF ReconcileBegin, Reconcilable
    <3> QED BY <3>2 DEF Drained, Outstanding
  <2>2. CASE crawlLock # NoOne
    <3>1. Drained' /\ crawl \in Active /\ ~CancelCrawl
      BY <1>0, <2>2 DEF SiteInv, RerunInsert, CancelCrawl, Lockable, Writable
    <3>2. ~(\E a \in Actor : ReconcileFinish(a))
      BY DEF ReconcileFinish
    <3> QED BY <2>2, <3>1, <3>2, StatusSteps
  <2> QED BY <2>1, <2>2
<1>3. (runtimeLock = User => crawl \in Active)'
  <2> SUFFICES ASSUME runtimeLock' = User PROVE crawl' \in Active
    OBVIOUS
  <2>1. runtimeLock = User \/ (crawl \in Active /\ UNCHANGED crawl)
    BY LockSteps, Constants, SiteAssumption DEF AdmitDiscover, RerunRead, crawlVars
  <2>2. CASE runtimeLock = User
    BY <2>2, StatusSteps, Constants DEF SiteInv, CancelCrawl, ReconcileFinish, SelectionFrozen, Active
  <2> QED BY <2>1, <2>2
<1>4. (crawl \in Ended => Drained /\ snapshot = Measured)'
  <2>1. CASE crawl \in Ended
    <3>1. Drained' /\ UNCHANGED <<snapshot, monitored, current>> /\ snapshot = Measured
      BY <1>0, <2>1, EndedFrame DEF SiteInv
    <3> QED BY <3>1 DEF Measured
  <2>2. CASE CancelCrawl
    <3>1. Drained'
      BY <2>2 DEF CancelCrawl, Drained, Outstanding, Open, SiteTypeOK, RowType
    <3> QED BY <2>2, <3>1 DEF CancelCrawl, Measured, recorded
  <2>3. ASSUME NEW a \in Actor, ReconcileFinish(a) PROVE (Drained /\ snapshot = Measured)'
    <3>1. Drained
      BY <2>3, Constants DEF SiteInv, ReconcileFinish
    <3> QED BY <2>3, <3>1 DEF ReconcileFinish, Measured, Drained, Outstanding, recorded
  <2> QED
    BY <2>1, <2>2, <2>3, StatusSteps DEF Ended, Active
<1> QED
  BY <1>1, <1>2, <1>3, <1>4 DEF SiteInv

\* The invariant of the locks and of the crawl's end holds in every state.
THEOREM SiteInvariant == SiteSpec => [](SiteTypeOK /\ SiteInv)
<1>1. SiteTypeOK /\ SiteInv /\ [SiteNext]_siteVars => (SiteTypeOK /\ SiteInv)'
  BY TypeStep, InvStep
<1> QED
  BY <1>1, TypeInit, InvInit, PTL DEF SiteSpec

\* A crawl that has ended has no outstanding task: neither a page discovered
\* or selected, nor a rerun inserted, while it was ending.
THEOREM NoOrphansHolds == SiteSpec => []NoOrphans
<1>1. SiteInv => NoOrphans
  BY DEF SiteInv, NoOrphans
<1> QED
  BY <1>1, SiteInvariant, PTL

\* The snapshot of an ended crawl is exactly the latest analyses of the pages
\* of its selection.
THEOREM SnapshotAgreesHolds == SiteSpec => []SnapshotAgrees
<1>1. SiteInv => SnapshotAgrees
  BY DEF SiteInv, SnapshotAgrees
<1> QED
  BY <1>1, SiteInvariant, PTL

\* A crawl ends once: the verdict and the snapshot are never written again.
THEOREM EndsOnceHolds == SiteSpec => EndsOnce
<1>1. SiteTypeOK /\ SiteInv /\ [SiteNext]_siteVars
        => [(crawl \in Ended) => UNCHANGED <<crawl, analysis, snapshot>>]_siteVars
  BY EndedFrame
<1> QED
  BY <1>1, SiteInvariant, PTL DEF SiteSpec, EndsOnce

(***************************************************************************)
(* The last task to finish reconciles.                                      *)
(***************************************************************************)

LEMMA LastInit == SiteInit => LastReconciles
<1> SUFFICES ASSUME SiteInit, Drained PROVE FALSE
  BY DEF LastReconciles
<1>1. Discover(Root) \in Task /\ task[Discover(Root)].st = "queued"
  BY Constants, SiteAssumption DEF SiteInit, Queued, Row
<1> QED
  BY <1>1, DrainedRows DEF Open

\* An actor at work keeps a slot; it gives the slot up while something is
\* outstanding, with the crawl, or stranded.
LEMMA LastStep == SiteTypeOK /\ LastReconciles /\ [SiteNext]_siteVars => LastReconciles'
<1> SUFFICES ASSUME SiteTypeOK, LastReconciles, [SiteNext]_siteVars,
                    ~stranded', crawl' \in Active, Drained'
             PROVE  \E a \in Actor : slot'[a].pc # "idle"
  BY DEF LastReconciles
<1> USE DEF SiteTypeOK
<1> DEFINE Busy == \E a \in Actor : slot'[a].pc # "idle"
<1>0. \A t \in Task : task'[t].st \notin Open
  BY DEF Drained, Outstanding
<1>1. ASSUME NEW s \in Slot, NEW t \in Task, Claim(s, t) PROVE Busy
  BY <1>1, Constants DEF Claim, At
<1>2. ASSUME NEW s \in Slot, Works(s), ~End(s) PROVE Busy
  <2>1. \E pc \in Pc \ {"idle"}, t \in Task : slot' = [slot EXCEPT ![s] = [pc |-> pc, task |-> t]]
    <3>0. slot[s].task \in Task
      BY InHand
    <3>1. CASE Prepare(s) \/ CancelTask(s) \/ Write(s) \/ Raise(s)
      BY <3>0, <3>1 DEF Prepare, CancelTask, Write, Raise, At, Pc
    <3>2. CASE BeginDiscover(s) \/ BeginAnalyze(s)
      BY <3>0, <3>2 DEF BeginDiscover, BeginAnalyze, MarkRunning, At, Pc
    <3>3. CASE AdmitDiscover(s) \/ CommitDiscover(s) \/ DiscoverFails(s)
      BY <3>0, <3>3 DEF AdmitDiscover, CommitDiscover, DiscoverFails, Attempted, At, Pc
    <3>4. CASE PersistAnalyze(s)
      BY <3>0, <3>4 DEF PersistAnalyze, Attempted, At, Pc
    <3> QED BY <1>2, <3>1, <3>2, <3>3, <3>4 DEF Works
  <2> QED BY <2>1, Constants
<1>3. ASSUME NEW s \in Slot, End(s) PROVE Busy
  <2>1. Outstanding = {}
    BY <1>0, <1>3 DEF End, Outstanding
  <2>2. slot' = [slot EXCEPT ![s] = [pc |-> "reconcile", task |-> slot[s].task]]
    BY <1>3, <2>1 DEF End, CanSkip
  <2> QED BY <2>2, Constants
<1>4. ASSUME NEW a \in Actor, ReconcileBegin(a) PROVE Busy
  <2>1. Drained /\ Reconcilable
    BY <1>0, <1>4 DEF ReconcileBegin, Reconcilable, Drained, Outstanding
  <2>2. At(a, "finish", slot[a].task)
    BY <1>4, <2>1 DEF ReconcileBegin
  <2> QED BY <2>2 DEF At
<1>5. ASSUME NEW a \in Actor, ReconcileFinish(a) PROVE FALSE
  BY <1>5, ActiveNotEnded DEF ReconcileFinish, Verdict, Ended
<1>6. ASSUME NEW a \in Actor, ReconcileAborted(a) \/ Crash(a) PROVE FALSE
  BY <1>6 DEF ReconcileAborted, Crash
<1>7. ASSUME NEW t \in Task, Expire(t) PROVE Busy
  <2>1. Worn(t)
    BY <1>0, <1>7 DEF Expire, Row, Open
  <2> QED BY <1>7, <2>1, Constants DEF Expire
<1>8. CASE Backstop
  BY <1>8, Constants DEF Backstop
<1>9. CASE CancelCrawl
  BY <1>9 DEF CancelCrawl, Active
<1>10. CASE \/ RerunInsert \/ RerunAborted \/ UNCHANGED siteVars
            \/ \E p \in Page : RerunRead(p) \/ Deselect(p)
  <2>1. UNCHANGED <<crawl, slot>> /\ ~stranded
    BY <1>10 DEF RerunInsert, RerunAborted, RerunRead, Deselect, siteVars, crawlVars
  <2>2. \A t \in Task : task[t].st \notin Open
    <3>1. CASE RerunInsert
      <4>1. \A t \in Task : task'[t] = task[t] \/ task'[t].st = "queued"
        BY <3>1 DEF RerunInsert, Queued, Row
      <4> QED BY <1>0, <4>1 DEF Open
    <3>2. ASSUME NEW p \in Page, Deselect(p) PROVE UNCHANGED task
      <4>1. {t \in With(Analyses, "queued") : PageOf(t) = p} = {}
        BY <3>2 DEF Deselect
      <4> QED BY <3>2, <4>1 DEF Deselect
    <3>3. CASE RerunAborted \/ UNCHANGED siteVars \/ \E p \in Page : RerunRead(p)
      BY <1>0, <3>3 DEF RerunAborted, RerunRead, siteVars
    <3> QED BY <1>0, <1>10, <3>1, <3>2, <3>3
  <2> QED BY <2>1, <2>2, DrainedRows DEF LastReconciles
<1> QED
  BY <1>1, <1>2, <1>3, <1>4, <1>5, <1>6, <1>7, <1>8, <1>9, <1>10 DEF SiteNext, Reconciles

\* An active crawl with nothing left to do has an actor that is going to
\* reconcile it, unless a crash, a deadlock or a deselection ended the work.
THEOREM LastReconcilesHolds == SiteSpec => []LastReconciles
<1>1. SiteTypeOK /\ LastReconciles /\ [SiteNext]_siteVars => LastReconciles'
  BY LastStep
<1> QED
  BY <1>1, LastInit, SiteTypes, PTL DEF SiteSpec

(***************************************************************************)
(* The budget.                                                              *)
(***************************************************************************)

\* What the pages the crawl was created with have, and no step takes from them.
Started == \A p \in Initial : task[Discover(p)].st # "absent"

\* An admission under way holds the workspace's row, plans pages nobody else
\* has admitted and has tested their number against the budget.
PlanInv ==
    /\ \A s \in Slot : slot[s].pc = "commit" <=> runtimeLock = s
    /\ runtimeLock \in Slot =>
         /\ plan.new \subseteq Unplanned
         /\ plan.new = {} \/ admitted + Cardinality(plan.new) <= Budget

BudgetInv == Started /\ WithinBudget /\ PlanInv

LEMMA BudgetInit == SiteInit => BudgetInv
<1> SUFFICES ASSUME SiteInit PROVE BudgetInv
  OBVIOUS
<1>1. \A p \in Page : Discover(p) \in Task /\ \A q \in Page : Discover(p) # Analyze(q, 0)
  BY Constants DEF Discover, Analyze
<1>2. \A p, q \in Page : Discover(p) = Discover(q) => p = q
  BY DEF Discover
<1>3. \A p \in Page \ Initial : task[Discover(p)].st = "absent"
  BY <1>1, <1>2, SiteAssumption DEF SiteInit, Absent, Row
<1>4. Started
  BY <1>1, SiteAssumption DEF SiteInit, Started, Queued, Row
<1>5. Found = {}
  BY <1>3 DEF Found
<1>6. WithinBudget
  BY <1>5, FS_EmptySet, SiteAssumption DEF WithinBudget, SiteInit
<1>7. PlanInv
  BY Constants DEF PlanInv, SiteInit, Free
<1> QED
  BY <1>4, <1>6, <1>7 DEF BudgetInv

\* A discover task appears only when an admission commits.
LEMMA FoundFrame ==
    ASSUME SiteTypeOK, [SiteNext]_siteVars, NEW p \in Page
    PROVE  \/ task'[Discover(p)].st = "absent" <=> task[Discover(p)].st = "absent"
           \/ \E s \in Slot : CommitDiscover(s)
<1> USE DEF SiteTypeOK
<1> DEFINE d == Discover(p)
           Same == task'[d].st = "absent" <=> task[d].st = "absent"
<1>0. d \in Task /\ d \notin Analyses
  BY Constants DEF Discover, Analyses, Analyze
<1> HIDE DEF d
<1>1. ASSUME NEW s \in Slot, NEW t \in Task, Claim(s, t) PROVE Same
  BY <1>0, <1>1 DEF Claim
<1>2. ASSUME NEW s \in Slot, Works(s), ~CommitDiscover(s) PROVE Same
  <2>0. slot[s].task \in Task
    BY InHand
  <2>1. CASE Prepare(s) \/ End(s) \/ Raise(s) \/ AdmitDiscover(s)
    BY <2>1 DEF Prepare, End, Raise, AdmitDiscover
  <2>2. CASE BeginDiscover(s) \/ BeginAnalyze(s)
    <3>1. MarkRunning(s, slot[s].task) \/ UNCHANGED task
      BY <2>2 DEF BeginDiscover, BeginAnalyze
    <3> QED BY <1>0, <2>0, <3>1 DEF MarkRunning, RowType
  <2>3. CASE PersistAnalyze(s) \/ DiscoverFails(s)
    BY <1>0, <2>0, <2>3 DEF PersistAnalyze, DiscoverFails, Attempted, RowType
  <2>4. CASE Write(s)
    BY <1>0, <2>0, <2>4 DEF Write, Leased, Closes
  <2>5. CASE CancelTask(s)
    BY <1>0, <2>0, <2>5 DEF CancelTask, Outstanding, Open
  <2> QED BY <1>2, <2>1, <2>2, <2>3, <2>4, <2>5 DEF Works
<1>3. ASSUME NEW a \in Actor, Reconciles(a) \/ Crash(a) PROVE Same
  BY <1>3 DEF Reconciles, ReconcileBegin, ReconcileFinish, ReconcileAborted, Crash
<1>4. ASSUME NEW t \in Task, Expire(t) PROVE Same
  BY <1>0, <1>4 DEF Expire, Row
<1>5. ASSUME CancelCrawl PROVE Same
  BY <1>0, <1>5 DEF CancelCrawl, Outstanding, Open, RowType
<1>6. ASSUME RerunInsert PROVE Same
  <2>1. \A g : Analyze(rerun, g) # d
    BY DEF d, Discover, Analyze
  <2>2. UNCHANGED task \/ \E g : task' = [task EXCEPT ![Analyze(rerun, g)] = Queued]
    BY <1>6, Zenon DEF RerunInsert
  <2> QED BY <1>0, <2>1, <2>2
<1>7. ASSUME NEW q \in Page, Deselect(q) PROVE Same
  BY <1>0, <1>7 DEF Deselect, With
<1>8. CASE Backstop \/ RerunAborted \/ UNCHANGED siteVars \/ \E q \in Page : RerunRead(q)
  BY <1>8 DEF Backstop, RerunAborted, RerunRead, siteVars
<1> QED
  BY <1>1, <1>2, <1>3, <1>4, <1>5, <1>6, <1>7, <1>8 DEF SiteNext, d

\* The counter changes when an admission commits, or is recomputed while no
\* admission is under way, and never falls.
LEMMA AdmittedSteps ==
    ASSUME SiteTypeOK, [SiteNext]_siteVars
    PROVE  \/ UNCHANGED admitted
           \/ \E s \in Slot : CommitDiscover(s)
           \/ admitted' >= admitted /\ runtimeLock \notin Slot
<1>0. admitted \in Nat
  BY DEF SiteTypeOK
<1>1. ASSUME NEW s \in Slot, Works(s), ~CommitDiscover(s) PROVE UNCHANGED admitted
  BY <1>1 DEF Works, Prepare, BeginDiscover, BeginAnalyze, AdmitDiscover, DiscoverFails,
              PersistAnalyze, Write, CancelTask, End, Raise, crawlVars
<1>2. ASSUME NEW a \in Actor, ReconcileBegin(a)
      PROVE  UNCHANGED admitted \/ (admitted' >= admitted /\ runtimeLock \notin Slot)
  <2>1. Recounted >= admitted
    <3>1. Cardinality(observed) \in Nat
      BY PageCounts DEF SiteTypeOK
    <3>2. Recounted = IF Cardinality(observed) > admitted THEN Cardinality(observed) ELSE admitted
      BY DEF Recounted
    <3> QED BY <1>0, <3>1, <3>2
  <2> QED BY <1>2, <2>1 DEF ReconcileBegin, Lockable
<1>3. ASSUME NEW a \in Actor, ReconcileFinish(a) \/ ReconcileAborted(a) \/ Crash(a)
      PROVE  UNCHANGED admitted
  BY <1>3 DEF ReconcileFinish, ReconcileAborted, Crash, crawlVars
<1>4. CASE \/ \E s \in Slot, t \in Task : Claim(s, t)
           \/ \E t \in Task : Expire(t)
           \/ Backstop \/ CancelCrawl \/ RerunInsert \/ RerunAborted \/ UNCHANGED siteVars
           \/ \E p \in Page : RerunRead(p) \/ Deselect(p)
  BY <1>4 DEF Claim, Expire, Backstop, CancelCrawl, RerunInsert, RerunAborted, RerunRead,
              Deselect, siteVars, crawlVars
<1> QED
  BY <1>1, <1>2, <1>3, <1>4 DEF SiteNext, Reconciles

\* A discovery that commits adds as many pages as the counter grows by, and the
\* admission has tested the sum against the budget.
LEMMA DiscoverFinds ==
    ASSUME SiteTypeOK, BudgetInv, NEW s \in Slot, CommitDiscover(s)
    PROVE  (Started /\ WithinBudget)'
<1> USE DEF SiteTypeOK
<1> DEFINE t == slot[s].task
           new == plan.new
<1>0. /\ t \in Task /\ \A p \in Page : Discover(p) \in Task
      /\ Initial \subseteq Page /\ new \subseteq Unplanned
      /\ new = {} \/ admitted + Cardinality(new) <= Budget
  BY InHand, Constants, SiteAssumption DEF BudgetInv, PlanInv, CommitDiscover
<1>1. CASE Persistable(s, t)
  <2>0. /\ task[t].st = "running"
        /\ admitted' = admitted + Cardinality(new)
        /\ task' = [u \in Task |->
             IF u = t THEN [task[t] EXCEPT !.tries = @ + 1]
             ELSE IF task[u].st = "absent"
                     /\ (\/ u \in {Discover(q) : q \in new}
                         \/ u = Analyze(PageOf(t), 0) /\ PageOf(t) \in monitored')
             THEN Queued ELSE task[u]]
    BY <1>1 DEF CommitDiscover, Persistable
  <2>1. \A p \in Page : Discover(p) \in {Discover(q) : q \in new} <=> p \in new
    BY DEF Discover
  <2>2. \A p \in Page : \A g : Discover(p) # Analyze(PageOf(t), g)
    BY DEF Discover, Analyze
  <2>3. ASSUME NEW p \in Page
        PROVE  task'[Discover(p)].st # "absent" <=> (task[Discover(p)].st # "absent" \/ p \in new)
    <3>1. CASE Discover(p) = t
      BY <1>0, <2>0, <3>1
    <3>2. CASE Discover(p) # t
      BY <1>0, <2>0, <2>1, <2>2, <3>2 DEF Queued, Row, Unplanned
    <3> QED BY <3>1, <3>2
  <2>4. Started'
    BY <1>0, <2>3 DEF BudgetInv, Started
  <2>5. new \subseteq Page /\ Found \cap new = {} /\ Found' = Found \cup new
    BY <1>0, <2>3 DEF Found, Unplanned, BudgetInv, Started
  <2>6. /\ IsFiniteSet(Found) /\ IsFiniteSet(new) /\ Found \subseteq Page
        /\ Cardinality(Found) \in Nat /\ Cardinality(new) \in Nat
    BY <2>5, FS_Subset, FS_CardinalityType, SiteAssumption DEF Found
  <2>7. Cardinality(Found') = Cardinality(Found) + Cardinality(new)
    <3>1. Cardinality(Found \cup new)
            = Cardinality(Found) + Cardinality(new) - Cardinality(Found \cap new)
      BY <2>6, FS_Union
    <3>2. Cardinality(Found \cap new) = 0
      BY <2>5, FS_EmptySet
    <3> HIDE DEF Found
    <3> QED BY <2>5, <2>6, <3>1, <3>2
  <2>8. new = {} => Cardinality(new) = 0
    BY FS_EmptySet
  <2> QED BY <1>0, <2>0, <2>4, <2>6, <2>7, <2>8, SiteAssumption DEF BudgetInv, WithinBudget
<1>2. CASE ~Persistable(s, t)
  <2>1. UNCHANGED <<admitted, task>>
    BY <1>2 DEF CommitDiscover
  <2> QED BY <2>1 DEF BudgetInv, Started, WithinBudget, Found
<1> QED
  BY <1>1, <1>2

\* A slot is about to commit an admission exactly while it holds the row.
LEMMA Committers ==
    ASSUME SiteTypeOK, PlanInv, [SiteNext]_siteVars
    PROVE  \A s \in Slot : slot'[s].pc = "commit" <=> runtimeLock' = s
<1> USE DEF SiteTypeOK
<1>0. \A s \in Slot : slot[s].pc = "commit" <=> runtimeLock = s
  BY DEF PlanInv
<1>00. Slot \subseteq Actor /\ Maint \notin Slot /\ \A s \in Slot : s # NoOne /\ s # User
  BY Constants, SiteAssumption
<1> DEFINE Goal == \A s \in Slot : slot'[s].pc = "commit" <=> runtimeLock' = s
           Quiet == /\ UNCHANGED runtimeLock
                    /\ \A s \in Slot : slot'[s].pc = "commit" <=> slot[s].pc = "commit"
<1>1. ASSUME NEW s \in Slot, NEW t \in Task, Claim(s, t) PROVE Quiet
  BY <1>00, <1>1 DEF Claim, At, lockVars
<1>2. ASSUME NEW s \in Slot, Works(s) PROVE Goal
  <2>0. slot[s].task \in Task
    BY InHand
  <2>1. CASE AdmitDiscover(s)
    BY <1>0, <1>00, <2>1 DEF AdmitDiscover, At
  <2>2. CASE CommitDiscover(s)
    BY <1>0, <1>00, <2>2 DEF CommitDiscover, At
  <2>3. CASE Raise(s)
    BY <1>0, <1>00, <2>3 DEF Raise, LetGo, At
  <2>4. CASE Prepare(s) \/ CancelTask(s) \/ Write(s) \/ End(s)
    BY <1>0, <1>00, <2>4 DEF Prepare, CancelTask, Write, End, At, Free, lockVars
  <2>5. CASE BeginDiscover(s) \/ BeginAnalyze(s)
    BY <1>0, <1>00, <2>5 DEF BeginDiscover, BeginAnalyze, MarkRunning, At, lockVars
  <2>6. CASE PersistAnalyze(s) \/ DiscoverFails(s)
    BY <1>0, <1>00, <2>6 DEF PersistAnalyze, DiscoverFails, Attempted, At, lockVars
  <2> QED BY <1>2, <2>1, <2>2, <2>3, <2>4, <2>5, <2>6 DEF Works
<1>3. ASSUME NEW a \in Actor, Reconciles(a) PROVE Quiet
  BY <1>00, <1>3 DEF Reconciles, ReconcileBegin, ReconcileFinish, ReconcileAborted, At, Free
<1>4. ASSUME NEW a \in Actor, Crash(a) PROVE Goal
  BY <1>0, <1>00, <1>4 DEF Crash, LetGo, Free
<1>5. ASSUME (\E t \in Task : Expire(t)) \/ Backstop PROVE Quiet
  BY <1>00, <1>5 DEF Expire, Backstop, lockVars
<1>6. ASSUME RerunInsert \/ RerunAborted \/ \E p \in Page : RerunRead(p) PROVE Goal
  BY <1>0, <1>00, <1>6 DEF RerunInsert, RerunAborted, RerunRead, Deadlocked
<1>7. ASSUME CancelCrawl \/ UNCHANGED siteVars \/ \E p \in Page : Deselect(p) PROVE Quiet
  BY <1>7 DEF CancelCrawl, Deselect, siteVars, lockVars
<1>8. Quiet => Goal
  BY <1>0
<1> QED
  BY <1>1, <1>2, <1>3, <1>4, <1>5, <1>6, <1>7, <1>8 DEF SiteNext

\* While an admission is under way nobody else admits, and nothing recomputes
\* the counter it has read.
LEMMA PlanStep == SiteTypeOK /\ PlanInv /\ [SiteNext]_siteVars => PlanInv'
<1> SUFFICES ASSUME SiteTypeOK, PlanInv, [SiteNext]_siteVars, runtimeLock' \in Slot
             PROVE  /\ plan'.new \subseteq Unplanned'
                    /\ plan'.new = {} \/ admitted' + Cardinality(plan'.new) <= Budget
  BY Committers DEF PlanInv
<1>0. NoOne \notin Slot /\ User \notin Slot
  BY SiteAssumption
<1>1. ASSUME NEW s \in Slot, AdmitDiscover(s)
      PROVE  /\ plan'.new \subseteq Unplanned'
             /\ plan'.new = {} \/ admitted' + Cardinality(plan'.new) <= Budget
  <2>1. PICK new \in SUBSET Unplanned : \E chosen :
          /\ IF admitted < Budget THEN admitted + Cardinality(new) <= Budget
                                  ELSE new = {} /\ chosen = {}
          /\ plan' = [new |-> new, chosen |-> chosen]
    BY <1>1 DEF AdmitDiscover
  <2>2. plan'.new = new /\ UNCHANGED <<task, admitted>>
    BY <1>1, <2>1 DEF AdmitDiscover, crawlVars
  <2> QED BY <2>1, <2>2 DEF Unplanned
<1>2. CASE UNCHANGED <<runtimeLock, plan>>
  <2>1. ~\E s \in Slot : CommitDiscover(s)
    BY <1>0, <1>2 DEF CommitDiscover
  <2>2. UNCHANGED admitted
    BY <1>2, <2>1, AdmittedSteps
  <2>3. Unplanned' = Unplanned
    BY <2>1, FoundFrame DEF Unplanned
  <2> QED BY <1>2, <2>2, <2>3 DEF PlanInv
<1> QED
  BY <1>0, <1>1, <1>2, LockSteps DEF RerunRead

LEMMA BudgetStep == SiteTypeOK /\ BudgetInv /\ [SiteNext]_siteVars => BudgetInv'
<1> SUFFICES ASSUME SiteTypeOK, BudgetInv, [SiteNext]_siteVars,
                    ~\E s \in Slot : CommitDiscover(s)
             PROVE  (Started /\ WithinBudget)'
  BY DiscoverFinds, PlanStep DEF BudgetInv
<1>1. \A p \in Page : task'[Discover(p)].st = "absent" <=> task[Discover(p)].st = "absent"
  BY FoundFrame
<1>2. Found' = Found /\ Started'
  BY <1>1, SiteAssumption DEF Found, BudgetInv, Started
<1>3. Cardinality(Found) \in Nat /\ admitted \in Nat /\ admitted' \in Nat /\ admitted' >= admitted
  BY PageCounts, AdmittedSteps, TypeStep DEF Found, SiteTypeOK
<1> QED
  BY <1>2, <1>3, SiteAssumption DEF BudgetInv, WithinBudget

\* Beyond the pages the crawl was created with no more are queued than were
\* asked for: the counter an admission reads before it locks the crawl is not
\* recomputed, nor raised by another, until it commits.
THEOREM WithinBudgetHolds == SiteSpec => []WithinBudget
<1>1. BudgetInv => WithinBudget
  BY DEF BudgetInv
<1> QED
  BY <1>1, BudgetInit, BudgetStep, SiteTypes, PTL DEF SiteSpec

(***************************************************************************)
(* How a task ends.                                                         *)
(***************************************************************************)

\* What a step may do to the status of a row.
LEMMA RowStep ==
    ASSUME SiteTypeOK, [SiteNext]_siteVars, NEW t \in Task
    PROVE  /\ task[t].st \in Closed => task'[t].st = task[t].st
           /\ task'[t].st = "succeeded" /\ task[t].st # "succeeded" =>
                \E s \in Slot : slot[s].pc = "succeed" /\ slot[s].task = t
<1> USE DEF SiteTypeOK
<1> DEFINE Stays == task[t].st \in Closed => task'[t].st = task[t].st
           Unsettled == task'[t].st = "succeeded" => task[t].st = "succeeded"
           Held == \E s \in Slot : slot[s].pc = "succeed" /\ slot[s].task = t
<1>0. /\ task[t].st \in Closed => task[t].st \notin Open /\ task[t].st # "absent"
      /\ "succeeded" \notin Open
  BY DEF Closed, Open
<1>1. ASSUME NEW s \in Slot, NEW u \in Task, Claim(s, u) PROVE Stays /\ Unsettled
  BY <1>0, <1>1 DEF Claim, Open
<1>2. ASSUME NEW s \in Slot, Works(s), ~Write(s) PROVE Stays /\ Unsettled
  <2>0. slot[s].task \in Task
    BY InHand
  <2>1. CASE Prepare(s) \/ End(s) \/ Raise(s)
    BY <2>1 DEF Prepare, End, Raise
  <2>2. CASE BeginDiscover(s) \/ BeginAnalyze(s)
    <3>1. MarkRunning(s, slot[s].task) \/ UNCHANGED task
      BY <2>2 DEF BeginDiscover, BeginAnalyze
    <3> QED BY <1>0, <2>0, <3>1 DEF MarkRunning, RowType, Open
  <2>3. CASE AdmitDiscover(s) \/ CommitDiscover(s) \/ DiscoverFails(s)
    <3>1. \/ task'[t].st = task[t].st
          \/ task[t].st = "absent" /\ task'[t] = Queued
      BY <2>0, <2>3 DEF AdmitDiscover, CommitDiscover, DiscoverFails, Attempted, RowType
    <3> QED BY <1>0, <3>1 DEF Queued, Row
  <2>4. CASE PersistAnalyze(s)
    BY <2>0, <2>4 DEF PersistAnalyze, Attempted, RowType
  <2>5. CASE CancelTask(s)
    BY <1>0, <2>0, <2>5 DEF CancelTask, Outstanding, RowType
  <2> QED BY <1>2, <2>1, <2>2, <2>3, <2>4, <2>5 DEF Works
<1>3. ASSUME NEW s \in Slot, Write(s) PROVE Stays /\ (Unsettled \/ Held)
  <2> DEFINE u == slot[s].task
  <2>0. u \in Task
    BY InHand
  <2>1. CASE Leased(s, u)
    <3>1. task' = [task EXCEPT ![u].st = Closes(slot[s].pc), ![u].owner = NoOne]
      BY <1>3, <2>1 DEF Write
    <3>2. Closes(slot[s].pc) = "succeeded" => slot[s].pc = "succeed"
      BY <1>3 DEF Write, Closes
    <3>3. task[u].st \in Open
      BY <2>1 DEF Leased, Open
    <3> QED BY <1>0, <2>0, <3>1, <3>2, <3>3 DEF RowType
  <2>2. CASE ~Leased(s, u)
    BY <1>3, <2>2 DEF Write
  <2> QED BY <2>1, <2>2
<1>4. ASSUME NEW a \in Actor, Reconciles(a) \/ Crash(a) PROVE Stays /\ Unsettled
  BY <1>4 DEF Reconciles, ReconcileBegin, ReconcileFinish, ReconcileAborted, Crash
<1>5. ASSUME NEW u \in Task, Expire(u) PROVE Stays /\ Unsettled
  BY <1>0, <1>5 DEF Expire, Row, Open
<1>6. ASSUME CancelCrawl PROVE Stays /\ Unsettled
  BY <1>0, <1>6 DEF CancelCrawl, Outstanding, RowType
<1>7. ASSUME RerunInsert PROVE Stays /\ Unsettled
  <2>1. task'[t] = task[t] \/ (task[t].st = "absent" /\ task'[t] = Queued)
    BY <1>7 DEF RerunInsert
  <2> QED BY <1>0, <2>1 DEF Queued, Row
<1>8. ASSUME NEW q \in Page, Deselect(q) PROVE Stays /\ Unsettled
  BY <1>0, <1>8 DEF Deselect, With, Open, RowType
<1>9. CASE Backstop \/ RerunAborted \/ UNCHANGED siteVars \/ \E q \in Page : RerunRead(q)
  BY <1>9 DEF Backstop, RerunAborted, RerunRead, siteVars
<1> QED
  BY <1>1, <1>2, <1>3, <1>4, <1>5, <1>6, <1>7, <1>8, <1>9 DEF SiteNext

\* A settled task has its evidence, and so has one a slot is about to settle
\* as succeeded; every analyzed page has one latest analysis.
EvidenceInv ==
    /\ \A t \in Task : task[t].st = "succeeded" => t \in evidence
    /\ \A s \in Slot : slot[s].pc = "succeed" => slot[s].task \in evidence
    /\ \A s \in Slot : slot[s].pc = "commit" => slot[s].task \in Discovers
    /\ \A t \in evidence \cap Analyses : \E u \in current : PageOf(u) = PageOf(t)
    /\ \A u, v \in current : PageOf(u) = PageOf(v) => u = v

LEMMA EvidenceInit == SiteInit => EvidenceInv
<1> SUFFICES ASSUME SiteInit PROVE EvidenceInv
  OBVIOUS
<1>1. \A t \in Task : task[t].st # "succeeded"
  BY DEF SiteInit, Queued, Absent, Row
<1>2. \A s \in Slot : slot[s].pc \notin {"succeed", "commit"}
  BY Constants DEF SiteInit, Free
<1> QED
  BY <1>1, <1>2 DEF EvidenceInv, SiteInit

\* What a step may do to what has been recorded.
LEMMA EvidenceSteps ==
    ASSUME [SiteNext]_siteVars
    PROVE  \/ UNCHANGED <<evidence, current>>
           \/ \E s \in Slot : /\ slot[s].pc = "commit" /\ UNCHANGED current
                               /\ evidence' = evidence \cup {slot[s].task}
           \/ \E s \in Slot : LET t == slot[s].task IN
                 /\ evidence' = evidence \cup {t}
                 /\ current' = {u \in current : PageOf(u) # PageOf(t)} \cup {t}
<1>1. ASSUME NEW s \in Slot, CommitDiscover(s)
      PROVE  /\ slot[s].pc = "commit" /\ UNCHANGED current
             /\ UNCHANGED evidence \/ evidence' = evidence \cup {slot[s].task}
  BY <1>1 DEF CommitDiscover
<1>2. ASSUME NEW s \in Slot, PersistAnalyze(s)
      PROVE  \/ UNCHANGED <<evidence, current>>
             \/ LET t == slot[s].task IN
                  /\ evidence' = evidence \cup {t}
                  /\ current' = {u \in current : PageOf(u) # PageOf(t)} \cup {t}
  BY <1>2 DEF PersistAnalyze
<1>3. ASSUME NEW s \in Slot, Works(s), ~CommitDiscover(s), ~PersistAnalyze(s)
      PROVE  UNCHANGED <<evidence, current>>
  BY <1>3 DEF Works, Prepare, BeginDiscover, BeginAnalyze, AdmitDiscover, DiscoverFails,
              Write, CancelTask, End, Raise, recorded
<1>4. CASE \E a \in Actor : Reconciles(a) \/ Crash(a)
  BY <1>4 DEF Reconciles, ReconcileBegin, ReconcileFinish, ReconcileAborted, Crash, recorded
<1>5. CASE \/ \E s \in Slot, t \in Task : Claim(s, t)
           \/ \E t \in Task : Expire(t)
           \/ Backstop \/ CancelCrawl \/ RerunInsert \/ RerunAborted \/ UNCHANGED siteVars
           \/ \E p \in Page : RerunRead(p) \/ Deselect(p)
  BY <1>5 DEF Claim, Expire, Backstop, CancelCrawl, RerunInsert, RerunAborted, RerunRead,
              Deselect, siteVars, recorded
<1> QED
  BY <1>1, <1>2, <1>3, <1>4, <1>5 DEF SiteNext

\* Evidence is never taken back.
LEMMA EvidenceStays == [SiteNext]_siteVars => evidence \subseteq evidence'
BY EvidenceSteps

\* A slot comes to settle a task as succeeded once its evidence is committed,
\* and to commit an admission with a discovery.
LEMMA SucceedsWithEvidence ==
    ASSUME SiteTypeOK, EvidenceInv, [SiteNext]_siteVars, NEW s \in Slot
    PROVE  /\ slot'[s].pc = "succeed" => slot'[s].task \in evidence'
           /\ slot'[s].pc = "commit" => slot'[s].task \in Discovers
<1> USE DEF SiteTypeOK
<1> DEFINE Good(x) == /\ x.pc = "succeed" => x.task \in evidence'
                      /\ x.pc = "commit" => x.task \in Discovers
           Kept == slot'[s] = slot[s] \/ Good(slot'[s])
<1>0. s \in Actor /\ Slot \subseteq Actor /\ Maint \notin Slot
  BY Constants, SiteAssumption
<1>1. ASSUME NEW r \in Slot, NEW t \in Task, Claim(r, t) PROVE Kept
  BY <1>0, <1>1 DEF Claim, At
<1>2. ASSUME NEW r \in Slot, Works(r) PROVE Kept
  <2>1. CASE Prepare(r) \/ CancelTask(r) \/ Write(r) \/ Raise(r) \/ End(r)
    BY <1>0, <2>1 DEF Prepare, CancelTask, Write, Raise, End, At, Free
  <2>2. CASE BeginDiscover(r) \/ BeginAnalyze(r)
    <3>1. UNCHANGED evidence
      BY <2>2 DEF BeginDiscover, BeginAnalyze, recorded
    <3>2. PICK pc \in Pc \ {"commit"} : /\ At(r, pc, slot[r].task)
                                        /\ pc = "succeed" => slot[r].task \in evidence
      BY <2>2 DEF BeginDiscover, BeginAnalyze, MarkRunning, Pc
    <3>3. slot'[s] = slot[s] \/ (slot'[s].pc = pc /\ slot'[s].task = slot[r].task)
      BY <1>0, <3>2 DEF At
    <3> QED BY <3>1, <3>2, <3>3
  <2>3. CASE CommitDiscover(r) \/ DiscoverFails(r) \/ PersistAnalyze(r)
    <3>1. \E pc \in Pc \ {"commit"} : /\ At(r, pc, slot[r].task)
                                      /\ pc = "succeed" => slot[r].task \in evidence'
      BY <2>3 DEF CommitDiscover, DiscoverFails, PersistAnalyze, Attempted, Pc
    <3> QED BY <1>0, <3>1 DEF At
  <2>4. CASE AdmitDiscover(r)
    BY <1>0, <2>4 DEF AdmitDiscover, At
  <2> QED BY <1>2, <2>1, <2>2, <2>3, <2>4 DEF Works
<1>3. ASSUME NEW a \in Actor, Reconciles(a) \/ Crash(a) PROVE Kept
  BY <1>0, <1>3 DEF Reconciles, ReconcileBegin, ReconcileFinish, ReconcileAborted, Crash, At, Free
<1>4. ASSUME (\E t \in Task : Expire(t)) \/ Backstop PROVE Kept
  BY <1>0, <1>4 DEF Expire, Backstop
<1>5. ASSUME \/ CancelCrawl \/ RerunInsert \/ RerunAborted \/ UNCHANGED siteVars
             \/ \E p \in Page : RerunRead(p) \/ Deselect(p)
      PROVE  Kept
  BY <1>5 DEF CancelCrawl, RerunInsert, RerunAborted, RerunRead, Deselect, siteVars
<1>6. Kept
  BY <1>1, <1>2, <1>3, <1>4, <1>5 DEF SiteNext
<1>7. Good(slot[s])
  BY EvidenceStays DEF EvidenceInv
<1> QED
  BY <1>6, <1>7

LEMMA EvidenceStep == SiteTypeOK /\ EvidenceInv /\ [SiteNext]_siteVars => EvidenceInv'
<1> SUFFICES ASSUME SiteTypeOK, EvidenceInv, [SiteNext]_siteVars PROVE EvidenceInv'
  OBVIOUS
<1>1. ASSUME NEW t \in Task, task'[t].st = "succeeded" PROVE t \in evidence'
  BY <1>1, RowStep, EvidenceStays DEF EvidenceInv
<1>2. /\ \A t \in evidence' \cap Analyses : \E u \in current' : PageOf(u) = PageOf(t)
      /\ \A u, v \in current' : PageOf(u) = PageOf(v) => u = v
  <2>1. CASE UNCHANGED <<evidence, current>>
    BY <2>1 DEF EvidenceInv
  <2>2. ASSUME NEW s \in Slot, slot[s].pc = "commit", UNCHANGED current,
               evidence' = evidence \cup {slot[s].task}
        PROVE  evidence' \cap Analyses = evidence \cap Analyses
    BY <2>2, Constants DEF EvidenceInv
  <2>3. ASSUME NEW s \in Slot, evidence' = evidence \cup {slot[s].task},
               current' = {u \in current : PageOf(u) # PageOf(slot[s].task)} \cup {slot[s].task}
        PROVE  /\ \A t \in evidence' \cap Analyses : \E u \in current' : PageOf(u) = PageOf(t)
               /\ \A u, v \in current' : PageOf(u) = PageOf(v) => u = v
    BY <2>3 DEF EvidenceInv
  <2> QED BY <2>1, <2>2, <2>3, EvidenceSteps DEF EvidenceInv
<1> QED
  BY <1>1, <1>2, SucceedsWithEvidence DEF EvidenceInv

\* A task ends once, although a cancellation asks for no owner and a slot may
\* settle what it began before another ended the task.
THEOREM TasksEndOnceHolds == SiteSpec => TasksEndOnce
<1>1. SiteTypeOK /\ [SiteNext]_siteVars
        => [\A t \in Task : task[t].st \in Closed => task'[t].st = task[t].st]_siteVars
  BY RowStep
<1> QED
  BY <1>1, SiteTypes, PTL DEF SiteSpec, TasksEndOnce

\* A selected page an analysis of which succeeded is in the snapshot of an ended
\* crawl, once: the evidence was committed before the row was settled, and an
\* analysis replaces the one its page had.
THEOREM NothingForgottenHolds == SiteSpec => []NothingForgotten
<1>1. SiteTypeOK /\ SiteInv /\ EvidenceInv => NothingForgotten
  <2> SUFFICES ASSUME SiteTypeOK, SiteInv, EvidenceInv, crawl \in Ended,
                      NEW t \in With(Analyses, "succeeded"), PageOf(t) \in monitored
               PROVE  \E u \in Analyses : {v \in snapshot : PageOf(v) = PageOf(t)} = {u}
    BY DEF NothingForgotten
  <2>1. t \in evidence \cap Analyses
    BY Constants DEF With, EvidenceInv
  <2>2. PICK u \in current : PageOf(u) = PageOf(t)
    BY <2>1 DEF EvidenceInv
  <2>3. snapshot = Measured
    BY DEF SiteInv
  <2>4. {v \in snapshot : PageOf(v) = PageOf(t)} = {u}
    BY <2>2, <2>3 DEF Measured, EvidenceInv
  <2> QED BY <2>4 DEF SiteTypeOK
<1>2. SiteTypeOK /\ EvidenceInv /\ [SiteNext]_siteVars => EvidenceInv'
  BY EvidenceStep
<1> QED
  BY <1>1, <1>2, EvidenceInit, SiteInvariant, PTL DEF SiteSpec
=============================================================================
