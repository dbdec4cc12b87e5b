----------------------------- MODULE SiteCrawl -----------------------------
(***************************************************************************)
(* One Site Health crawl from its creation to its terminal status: the      *)
(* discover and analyze tasks of its pages, the worker slots that execute   *)
(* them under leases, the locked reconciliation that ends the crawl, the    *)
(* maintenance loop, and the user who cancels it, changes the monitored     *)
(* selection or reruns a page (workers/site_health_worker.py,               *)
(* workers/site_health/, domain/site_health/).  A step is one transaction,  *)
(* except where a transaction waits for rows of another with some in hand.  *)
(***************************************************************************)
EXTENDS Integers, FiniteSets, FiniteSetsExt

CONSTANTS
    Page,        \* pages of the site
    Root,        \* the page the crawl starts from
    Initial,     \* the root and the seeds: discovered from the start
    Selected,    \* pages monitored when the crawl was created
    Seeded,      \* those of them the crawl was created to analyze: the root
                 \* in the automatic mode, and others up to the page limit
    Slot,        \* slots of the worker processes
    Maint,       \* the maintenance loop
    OwnerOf,     \* lease owner of a slot: one for all slots of a process
    User,        \* who reruns or selects a page
    NoOne,       \* no owner, no holder
    Budget,      \* requested_page_limit
    MaxAttempts, \* attempts of a task
    Generation,  \* generations of a page's analyze task
    MaxFaults    \* bound on crashes, exceptions, late leases and reruns

ASSUME SiteAssumption ==
    /\ IsFiniteSet(Page) /\ Root \in Initial /\ Initial \subseteq Page
    /\ Seeded \subseteq Selected /\ Selected \subseteq Page
    /\ Maint \notin Slot /\ User \notin Slot \cup {Maint}
    /\ NoOne \notin Slot \cup {Maint, User}
    /\ \A s \in Slot : OwnerOf[s] # NoOne
    /\ Budget \in Nat /\ MaxAttempts \in Nat \ {0} /\ MaxFaults \in Nat
    /\ Generation = 0..Max(Generation)

Discover(p) == <<"discover", p, 0>>
Analyze(p, g) == <<"analyze", p, g>>
Discovers == {Discover(p) : p \in Page}
Analyses == {Analyze(p, g) : p \in Page, g \in Generation}
Task == Discovers \cup Analyses
Actor == Slot \cup {Maint}
PageOf(t) == t[2]

VARIABLES
    crawl,     \* SiteCrawl.status
    analysis,  \* SiteCrawl.analysis_status
    admitted,  \* SiteCrawl.admitted_url_count
    task,      \* SiteCrawlTask rows
    evidence,  \* tasks with a committed artifact or analysis
    observed,  \* pages with a SiteUrlObservation of the crawl
    current,   \* analyses no later one of their page has superseded
    monitored, \* active MonitoredSiteUrl rows
    snapshot,  \* analyses of the SiteHealthSnapshot
    crawlLock, \* who holds the crawl row FOR UPDATE
    runtimeLock, \* who holds the workspace's runtime row FOR UPDATE; the user
                 \* holds the profile row with it
    plan,      \* the pages an admission adds and selects when it commits
    slot,      \* where an actor is and with which task
    rerun,     \* the page a rerun is about to insert a task for
    faults,    \* crashes, exceptions, late leases and reruns so far
    stranded   \* something ended a task without a reconciliation after it

crawlVars == <<crawl, analysis, admitted, snapshot>>
recorded == <<evidence, observed, current>>
lockVars == <<crawlLock, runtimeLock, plan, rerun>>
siteVars == <<crawlVars, task, recorded, monitored, lockVars, slot, faults, stranded>>

Row(st, owner, tries) == [st |-> st, owner |-> owner, tries |-> tries]
Absent == Row("absent", NoOne, 0)
Queued == Row("queued", NoOne, 0)
Active == {"queued", "running"}
Ended == {"completed", "partially_completed", "failed", "cancelled"}
Open == {"queued", "leased", "running"}
Outstanding == {t \in Task : task[t].st \in Open}
Drained == Outstanding = {}

\* Fault: what was only discovered is measured too.
Observed == {t \in evidence : PageOf(t) \in monitored}

\* The analyses a snapshot is made of: the latest of every selected page.
Measured == {t \in current : PageOf(t) \in monitored}

\* The crawl's row can be referred to and its counters written; it can be
\* locked against that too, once no admission has inserted what refers to it.
Writable == crawlLock = NoOne
Lockable == Writable /\ runtimeLock \notin Slot

NoPlan == [new |-> {}, chosen |-> {}]
At(s, pc, t) == slot' = [slot EXCEPT ![s] = [pc |-> pc, task |-> t]]
Free(s) == [pc |-> "idle", task |-> Discover(Root)]

RowType == [st : Open \cup {"absent", "succeeded", "failed", "cancelled"},
            owner : {OwnerOf[s] : s \in Slot} \cup {NoOne}, tries : Nat]
Pc == {"idle", "claimed", "ready", "persist", "commit", "succeed", "retry", "fail", "defer",
       "cancel", "end", "reconcile", "finish"}
Place == [pc : Pc, task : Task]

SiteTypeOK ==
    /\ crawl \in Active \cup Ended
    /\ analysis \in {"pending", "running", "ended"}
    /\ admitted \in Nat
    /\ task \in [Task -> RowType]
    /\ evidence \subseteq Task
    /\ observed \subseteq Page
    /\ current \subseteq Analyses
    /\ monitored \subseteq Page
    /\ snapshot \subseteq Analyses
    /\ crawlLock \in Actor \cup {NoOne}
    /\ runtimeLock \in Slot \cup {User, NoOne}
    /\ runtimeLock = User => rerun \in Page
    /\ plan \in [new : SUBSET Page, chosen : SUBSET Page]
    /\ slot \in [Actor -> Place]
    /\ rerun \in Page \cup {NoOne}
    /\ faults \in 0..MaxFaults
    /\ stranded \in BOOLEAN

\* create_crawl: the discover tasks of the root and the seeds, which the
\* counter leaves out, and the analyze tasks of pages already selected.
SiteInit ==
    /\ crawl = "queued"
    /\ analysis = "pending"
    /\ admitted = 0
    /\ task = [t \in Task |->
           IF t \in {Discover(p) : p \in Initial} \cup {Analyze(p, 0) : p \in Seeded}
           THEN Queued ELSE Absent]
    /\ evidence = {}
    /\ observed = Seeded
    /\ current = {}
    /\ monitored = Selected
    /\ snapshot = {}
    /\ crawlLock = NoOne
    /\ runtimeLock = NoOne
    /\ plan = NoPlan
    /\ slot = [s \in Actor |-> Free(s)]
    /\ rerun = NoOne
    /\ faults = 0
    /\ stranded = FALSE

(***************************************************************************)
(* A slot executes a task.                                                  *)
(***************************************************************************)

Owns(s, t) == task[t].owner = OwnerOf[s]

Claim(s, t) ==
    /\ slot[s].pc = "idle"
    /\ task[t].st = "queued"
    /\ task' = [task EXCEPT ![t].st = "leased", ![t].owner = OwnerOf[s]]
    /\ At(s, "claimed", t)
    /\ UNCHANGED <<crawlVars, recorded, monitored, lockVars, faults, stranded>>

\* _prepare_claimed_task: the first task moves the crawl to running; the
\* tasks of an ended crawl are cancelled.
Prepare(s) ==
    LET t == slot[s].task IN
    /\ slot[s].pc = "claimed"
    /\ \/ crawl = "running" /\ At(s, "ready", t) /\ UNCHANGED crawl
       \/ crawl = "queued" /\ Lockable
          /\ crawl' = "running" /\ At(s, "ready", t)
       \/ crawl \in Ended /\ At(s, "cancel", t) /\ UNCHANGED crawl
    /\ UNCHANGED <<analysis, admitted, snapshot, task, recorded, monitored,
                   lockVars, faults, stranded>>

\* PhaseQueue.mark_running: without the lease the task is somebody else's.
MarkRunning(s, t) ==
    IF Owns(s, t) /\ task[t].st = "leased"
    THEN /\ task' = [task EXCEPT ![t].st = "running"]
         /\ At(s, IF t \in evidence THEN "succeed" ELSE "persist", t)
    ELSE UNCHANGED task /\ At(s, "end", t)

\* _execute_task up to the fetch; a page whose evidence is there is only
\* acknowledged.
BeginDiscover(s) ==
    LET t == slot[s].task IN
    /\ slot[s].pc = "ready" /\ t \in Discovers
    /\ MarkRunning(s, t)
    /\ UNCHANGED <<crawlVars, recorded, monitored, lockVars, faults, stranded>>

\* lease_is_owned.
Leased(s, t) == Owns(s, t) /\ task[t].st \in {"leased", "running"}

\* Fault: the guard is never evaluated.
Unguarded(s, t, entitled) == TRUE

\* evaluate_task_guard; the workspace's allowance comes and goes.
Allowed(s, t, entitled) ==
    Leased(s, t) /\ crawl \in Active /\ PageOf(t) \in monitored /\ entitled

\* analyze_phase.run: any refusal of the guard cancels the task, and a page
\* whose discovery is outstanding is put back.
BeginAnalyze(s) ==
    LET t == slot[s].task IN
    /\ slot[s].pc = "ready" /\ t \in Analyses
    /\ \E entitled \in BOOLEAN :
       IF t \in evidence
       THEN MarkRunning(s, t)
       ELSE IF ~Allowed(s, t, entitled)
       THEN At(s, "cancel", t) /\ UNCHANGED task
       ELSE IF Discover(PageOf(t)) \in Outstanding \ evidence
       THEN At(s, "defer", t) /\ UNCHANGED task
       ELSE MarkRunning(s, t)
    /\ UNCHANGED <<crawlVars, recorded, monitored, lockVars, faults, stranded>>

\* An attempt that produced nothing is tried again while attempts are left,
\* unless what came back says that this is no use.
Attempted(s, t) ==
    /\ task' = [task EXCEPT ![t].tries = @ + 1]
    /\ \/ task[t].tries + 1 < MaxAttempts /\ At(s, "retry", t)
       \/ At(s, "fail", t)

\* task_can_persist.
Persistable(s, t) == Leased(s, t) /\ task[t].st = "running" /\ crawl \in Active

Unplanned == {q \in Page : task[Discover(q)].st = "absent"}

\* _persist_discover_success: what is inserted refers to the crawl, so nobody
\* can lock its row; under the workspace's row the counter is read and pages
\* are admitted while it is below the limit.  A page that is fetched at the
\* start is a candidate itself, which may select it.
AdmitDiscover(s) ==
    LET t == slot[s].task
        own == {PageOf(t)} \cap Initial
    IN
    /\ slot[s].pc = "persist" /\ t \in Discovers
    /\ Persistable(s, t) /\ t \notin evidence
    /\ Writable /\ runtimeLock = NoOne
    /\ runtimeLock' = s
    /\ \E new \in SUBSET Unplanned : \E chosen \in SUBSET (new \cup own) :
         /\ IF admitted < Budget THEN admitted + Cardinality(new) <= Budget
                                 ELSE new = {} /\ chosen = {}
         /\ plan' = [new |-> new, chosen |-> chosen]
    /\ At(s, "commit", t)
    /\ UNCHANGED <<crawlVars, task, recorded, monitored, crawlLock, rerun, faults,
                   stranded>>

\* _persist_discover: with the crawl's row the lease is asked for again; the
\* evidence, the admitted pages, their tasks and what they add to the counter
\* commit together, or not at all.
CommitDiscover(s) ==
    LET t == slot[s].task
        p == PageOf(t)
    IN
    /\ slot[s].pc = "commit"
    /\ Writable
    /\ runtimeLock' = NoOne
    /\ plan' = NoPlan
    /\ IF Persistable(s, t)
       THEN /\ admitted' = admitted + Cardinality(plan.new)
            /\ monitored' = monitored \cup plan.chosen
            /\ evidence' = evidence \cup {t}
            /\ observed' = observed \cup {p} \cup plan.chosen
            /\ task' = [u \in Task |->
                 IF u = t THEN [task[t] EXCEPT !.tries = @ + 1]
                 ELSE IF task[u].st = "absent"
                         /\ (\/ u \in {Discover(q) : q \in plan.new}
                             \/ u = Analyze(p, 0) /\ p \in monitored')
                 THEN Queued ELSE task[u]]
            /\ At(s, "succeed", t)
       ELSE At(s, "end", t) /\ UNCHANGED <<admitted, monitored, evidence, observed, task>>
    /\ UNCHANGED <<crawl, analysis, snapshot, current, crawlLock, rerun, faults, stranded>>

\* _persist_discover of a page that could not be fetched, or by a slot that
\* has lost the task.
DiscoverFails(s) ==
    LET t == slot[s].task IN
    /\ slot[s].pc = "persist" /\ t \in Discovers
    /\ Writable
    /\ IF Persistable(s, t) THEN Attempted(s, t) ELSE At(s, "end", t) /\ UNCHANGED task
    /\ UNCHANGED <<crawlVars, recorded, monitored, lockVars, faults, stranded>>

\* _persist_analyze, under the workspace's row and the crawl's: an analysis
\* supersedes the one its page had.
PersistAnalyze(s) ==
    LET t == slot[s].task IN
    /\ slot[s].pc = "persist" /\ t \in Analyses
    /\ Writable /\ runtimeLock = NoOne
    /\ \E entitled \in BOOLEAN :
       \/ /\ Allowed(s, t, entitled) /\ t \notin evidence
          /\ evidence' = evidence \cup {t}
          /\ current' = {u \in current : PageOf(u) # PageOf(t)} \cup {t}
          /\ task' = [task EXCEPT ![t].tries = @ + 1]
          /\ At(s, "succeed", t)
       \/ Allowed(s, t, entitled) /\ Attempted(s, t) /\ UNCHANGED <<evidence, current>>
       \/ /\ ~Allowed(s, t, entitled)
          /\ At(s, IF Leased(s, t) THEN "cancel" ELSE "end", t)
          /\ UNCHANGED <<evidence, current, task>>
    /\ UNCHANGED <<crawlVars, observed, monitored, lockVars, faults, stranded>>

Closes(pc) == CASE pc = "succeed" -> "succeeded"
                [] pc = "fail" -> "failed"
                [] pc \in {"retry", "defer"} -> "queued"

\* _finalize_queue_row and defer, in a transaction of their own.
Write(s) ==
    LET t == slot[s].task IN
    /\ slot[s].pc \in {"succeed", "fail", "retry", "defer"}
    /\ task' = IF Leased(s, t)
               THEN [task EXCEPT ![t].st = Closes(slot[s].pc), ![t].owner = NoOne]
               ELSE task
    /\ At(s, "end", t)
    /\ UNCHANGED <<crawlVars, recorded, monitored, lockVars, faults, stranded>>

\* PostgresTaskQueue.cancel asks for no owner.
CancelTask(s) ==
    LET t == slot[s].task IN
    /\ slot[s].pc = "cancel"
    /\ task' = IF t \in Outstanding
               THEN [task EXCEPT ![t].st = "cancelled", ![t].owner = NoOne]
               ELSE task
    /\ At(s, "end", t)
    /\ UNCHANGED <<crawlVars, recorded, monitored, lockVars, faults, stranded>>

\* The transaction of an admission is rolled back.
LetGo(s) ==
    /\ runtimeLock' = IF runtimeLock = s THEN NoOne ELSE runtimeLock
    /\ plan' = IF runtimeLock = s THEN NoPlan ELSE plan

\* A statement raises and _record_crash gives the task up, or puts it back
\* when the exception is a lost row conflict.
Raise(s) ==
    /\ slot[s].pc \in {"claimed", "ready", "persist", "commit", "succeed"}
    /\ faults < MaxFaults
    /\ faults' = faults + 1
    /\ \E to \in {"retry", "fail"} : At(s, to, slot[s].task)
    /\ LetGo(s)
    /\ UNCHANGED <<crawlVars, task, recorded, monitored, crawlLock, rerun, stranded>>

(***************************************************************************)
(* The reconciliation.                                                      *)
(***************************************************************************)

\* Fault: other outstanding work is not looked at.
SkipsAny(t) ==
    /\ t \in Analyses \cap evidence
    /\ task[t].st = "succeeded"
    /\ crawl = "running" /\ analysis = "running"

\* _can_skip_intermediate_analyze_reconcile.
CanSkip(t) ==
    /\ t \in Analyses \cap evidence
    /\ task[t].st = "succeeded"
    /\ crawl = "running" /\ analysis = "running"
    /\ Outstanding # {}

End(s) ==
    LET t == slot[s].task IN
    /\ slot[s].pc = "end"
    /\ slot' = [slot EXCEPT ![s] =
                  IF CanSkip(t) THEN Free(s) ELSE [pc |-> "reconcile", task |-> t]]
    /\ UNCHANGED <<crawlVars, task, recorded, monitored, lockVars, faults, stranded>>

\* Fault: the counter is replaced by what has been analyzed so far.
AdmittedAgain == Cardinality(Analyses \cap evidence)

\* _refresh_derived_counters.
Recounted ==
    LET seen == Cardinality(observed) IN IF seen > admitted THEN seen ELSE admitted

\* CrawlLifecycle.reconcile looks at active crawls only.
Reconcilable == crawl \in Active

\* CrawlLifecycle.reconcile up to the terminal part, which it enters with
\* the crawl's lock.
ReconcileBegin(a) ==
    /\ slot[a].pc = "reconcile"
    /\ Lockable
    /\ IF ~Reconcilable
       THEN /\ slot' = [slot EXCEPT ![a] = Free(a)]
            /\ UNCHANGED <<admitted, analysis, crawlLock>>
       ELSE /\ admitted' = Recounted
            /\ analysis' = IF analysis = "pending"
                              /\ (Drained \/ \E t \in Analyses : task[t].st # "absent")
                           THEN "running" ELSE analysis
            /\ IF Drained
               THEN crawlLock' = a /\ At(a, "finish", slot[a].task)
               ELSE UNCHANGED crawlLock /\ slot' = [slot EXCEPT ![a] = Free(a)]
    /\ UNCHANGED <<crawl, snapshot, task, recorded, monitored, runtimeLock, plan, rerun,
                   faults, stranded>>

With(kind, st) == {t \in kind : task[t].st = st}

\* The verdict of _terminalize_crawl.
Verdict ==
    IF Discovers \cap evidence = {} /\ With(Analyses, "succeeded") = {}
    THEN "failed"
    ELSE IF With(Discovers, "failed") # {} \/ With(Analyses, "failed") # {}
    THEN "partially_completed" ELSE "completed"

\* Fault: the snapshot is taken without the profile's lock.
SelectionFrozenOrNot == TRUE

\* persist_crawl_snapshot waits for the profile's lock.
SelectionFrozen == runtimeLock # User

\* The terminal part of reconcile: snapshot, status and commit.
ReconcileFinish(a) ==
    /\ slot[a].pc = "finish"
    /\ SelectionFrozen
    /\ snapshot' = Measured
    /\ crawl' = Verdict
    /\ analysis' = "ended"
    /\ crawlLock' = NoOne
    /\ slot' = [slot EXCEPT ![a] = Free(a)]
    /\ UNCHANGED <<admitted, task, recorded, monitored, runtimeLock, plan, rerun, faults,
                   stranded>>

\* The rerun holds the profile and waits for the crawl, the reconciliation
\* the other way round: PostgreSQL aborts one of them.
Deadlocked == crawlLock # NoOne /\ runtimeLock = User

ReconcileAborted(a) ==
    /\ slot[a].pc = "finish" /\ Deadlocked
    /\ crawlLock' = NoOne
    /\ slot' = [slot EXCEPT ![a] = Free(a)]
    /\ stranded' = TRUE
    /\ UNCHANGED <<crawlVars, task, recorded, monitored, runtimeLock, plan, rerun, faults>>

(***************************************************************************)
(* The maintenance loop.                                                    *)
(***************************************************************************)

\* release_expired_detailed: an expired lease is an attempt.
Worn(t) == task[t].tries + 1 >= MaxAttempts

\* The lease of a task nobody executes runs out; that of a task a slot still
\* executes does so when its heartbeats are late.
Expire(t) ==
    /\ slot[Maint].pc = "idle"
    /\ task[t].st \in {"leased", "running"}
    /\ IF \E s \in Slot : slot[s].pc # "idle" /\ slot[s].task = t
       THEN faults < MaxFaults /\ faults' = faults + 1
       ELSE UNCHANGED faults
    /\ task' = [task EXCEPT ![t] =
                  Row(IF Worn(t) THEN "failed" ELSE "queued", NoOne, @.tries + 1)]
    /\ slot' = IF Worn(t)
               THEN [slot EXCEPT ![Maint] = [pc |-> "reconcile", task |-> t]]
               ELSE slot
    /\ UNCHANGED <<crawlVars, recorded, monitored, lockVars, stranded>>

\* Fault: only crawls that never started are looked for.
StalledAtStart == crawl = "queued" /\ Drained

\* reconcile_stalled asks the terminal question itself.
Stalled == crawl \in Active /\ Drained

Backstop ==
    /\ slot[Maint].pc = "idle"
    /\ Stalled
    /\ slot' = [slot EXCEPT ![Maint] = [pc |-> "reconcile", task |-> Discover(Root)]]
    /\ UNCHANGED <<crawlVars, task, recorded, monitored, lockVars, faults, stranded>>

\* The process of a slot, or of the maintenance loop, stops.
Crash(a) ==
    /\ slot[a].pc # "idle"
    /\ faults < MaxFaults
    /\ faults' = faults + 1
    /\ slot' = [slot EXCEPT ![a] = Free(a)]
    /\ crawlLock' = IF crawlLock = a THEN NoOne ELSE crawlLock
    /\ LetGo(a)
    /\ stranded' = TRUE
    /\ UNCHANGED <<crawlVars, task, recorded, monitored, rerun>>

(***************************************************************************)
(* The user.                                                                *)
(***************************************************************************)

\* _cancel_crawl_once.
CancelCrawl ==
    /\ crawl \in Active
    /\ Lockable /\ runtimeLock # User
    /\ crawl' = "cancelled"
    /\ analysis' = "ended"
    /\ task' = [t \in Task |->
                  IF t \in Outstanding
                  THEN [task[t] EXCEPT !.st = "cancelled", !.owner = NoOne]
                  ELSE task[t]]
    /\ snapshot' = Measured
    /\ UNCHANGED <<admitted, recorded, monitored, lockVars, slot, faults, stranded>>

\* rerun_page of a selected page, or replace_monitored_set with any page the
\* project has come to know: with the workspace's and the profile's row the
\* active crawl is read without a lock on it.
RerunRead(p) ==
    /\ runtimeLock = NoOne
    /\ crawl \in Active
    /\ \E g \in Generation : task[Analyze(p, g)].st = "absent"
    /\ faults < MaxFaults
    /\ faults' = faults + 1
    /\ runtimeLock' = User
    /\ rerun' = p
    /\ UNCHANGED <<crawlVars, task, recorded, monitored, crawlLock, plan, slot, stranded>>

\* The insert of the next generation waits for the crawl's row, which its
\* foreign key names.
RerunInsert ==
    LET absent(g) == task[Analyze(rerun, g)].st = "absent" IN
    /\ runtimeLock = User
    /\ Writable
    /\ IF \E g \in Generation : absent(g)
       THEN \E g \in Generation :
              /\ absent(g) /\ \A h \in 0..(g - 1) : ~absent(h)
              /\ task' = [task EXCEPT ![Analyze(rerun, g)] = Queued]
       ELSE UNCHANGED task
    /\ monitored' = monitored \cup {rerun}
    /\ runtimeLock' = NoOne
    /\ rerun' = NoOne
    /\ UNCHANGED <<crawlVars, recorded, crawlLock, plan, slot, faults, stranded>>

RerunAborted ==
    /\ Deadlocked
    /\ runtimeLock' = NoOne
    /\ rerun' = NoOne
    /\ UNCHANGED <<crawlVars, task, recorded, monitored, crawlLock, plan, slot, faults,
                   stranded>>

\* replace_monitored_set without a page: its waiting analyses are cancelled
\* and nothing reconciles.  After the crawl's end this does not touch it.
Deselect(p) ==
    LET waiting == {t \in With(Analyses, "queued") : PageOf(t) = p} IN
    /\ p \in monitored
    /\ crawl \in Active
    /\ runtimeLock = NoOne
    /\ monitored' = monitored \ {p}
    /\ task' = [t \in Task |->
                  IF t \in waiting THEN [task[t] EXCEPT !.st = "cancelled"] ELSE task[t]]
    /\ stranded' = (stranded \/ waiting # {})
    /\ UNCHANGED <<crawlVars, recorded, lockVars, slot, faults>>

(***************************************************************************)
(* Specification.                                                           *)
(***************************************************************************)

Works(s) ==
    \/ Prepare(s) \/ BeginDiscover(s) \/ BeginAnalyze(s)
    \/ AdmitDiscover(s) \/ CommitDiscover(s) \/ DiscoverFails(s) \/ PersistAnalyze(s)
    \/ Write(s) \/ CancelTask(s) \/ End(s) \/ Raise(s)

Reconciles(a) == ReconcileBegin(a) \/ ReconcileFinish(a) \/ ReconcileAborted(a)

SiteNext ==
    \/ \E s \in Slot, t \in Task : Claim(s, t)
    \/ \E s \in Slot : Works(s)
    \/ \E a \in Actor : Reconciles(a) \/ Crash(a)
    \/ \E t \in Task : Expire(t)
    \/ Backstop \/ CancelCrawl \/ RerunInsert \/ RerunAborted
    \/ \E p \in Page : RerunRead(p) \/ Deselect(p)

SiteSpec == SiteInit /\ [][SiteNext]_siteVars

\* Slots and the maintenance loop keep running and a request is carried out;
\* a deferred analysis does not keep the discoveries from being claimed; a user
\* need neither cancel nor rerun.
FairSiteSpec ==
    /\ SiteSpec
    /\ \A s \in Slot : WF_siteVars(Works(s))
    /\ \A a \in Actor : SF_siteVars(Reconciles(a))
    /\ SF_siteVars(\E s \in Slot, t \in Discovers : Claim(s, t))
    /\ SF_siteVars(\E s \in Slot, t \in Task : Claim(s, t))
    /\ WF_siteVars(\E t \in Task : Expire(t))
    /\ WF_siteVars(Backstop)
    /\ WF_siteVars(RerunInsert \/ RerunAborted)

(***************************************************************************)
(* Properties.                                                              *)
(***************************************************************************)

\* The snapshot of a crawl that has ended holds exactly the latest analysis of
\* each page of its selection: a slot that was still fetching adds nothing to
\* an ended crawl, and supersedes nothing in it.
SnapshotAgrees == crawl \in Ended => snapshot = Measured

\* Nothing is outstanding in a crawl that has ended, whatever was discovered,
\* selected or rerun while it was ending.
NoOrphans == crawl \in Ended => Drained

\* As long as nothing crashed and no selection change or deadlock ended work
\* behind the workers' back, somebody is still going to reconcile an active
\* crawl with nothing left to do: the last of several finishing tasks does.
LastReconciles ==
    ~stranded /\ crawl \in Active /\ Drained => \E a \in Actor : slot[a].pc # "idle"

\* Beyond the pages it was created with the crawl queues no more than were
\* asked for, and its counter is never behind them, although every
\* reconciliation recomputes the counter an admission has read.
Found == {p \in Page : task[Discover(p)].st # "absent"} \ Initial
WithinBudget == Cardinality(Found) <= Budget /\ Cardinality(Found) <= admitted

\* A terminal status, the analysis status and the snapshot are written once.
EndsOnce == [][(crawl \in Ended) => UNCHANGED <<crawl, analysis, snapshot>>]_siteVars

\* A task that has ended stays as it ended, although cancellation asks for no
\* owner and a slot may settle what it began before the task was ended.
Closed == {"succeeded", "failed", "cancelled"}
TasksEndOnce ==
    [][\A t \in Task : task[t].st \in Closed => task'[t].st = task[t].st]_siteVars

\* A selected page an analysis of which succeeded is in the snapshot once: the
\* evidence is committed before the row is settled, the snapshot after, and a
\* rerun replaces what it reruns.
NothingForgotten ==
    crawl \in Ended =>
        \A t \in With(Analyses, "succeeded") : PageOf(t) \in monitored =>
            \E u \in Analyses : {v \in snapshot : PageOf(v) = PageOf(t)} = {u}

\* Every crawl ends, whatever crashed, expired, was deselected or deadlocked.
SiteEnds == <>(crawl \in Ended)
=============================================================================
