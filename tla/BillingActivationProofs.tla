---------------------- MODULE BillingActivationProofs ----------------------
(***************************************************************************)
(* Proofs about BillingActivation, for any intents, accounts, requests and  *)
(* provider versions.                                                       *)
(***************************************************************************)
EXTENDS BillingActivation, TLAPS

Charges == {"none", "open", "paid", "ended", "void"}
HookType == [at : {"unsent", "recorded", "settle", "apply", "done"}, seen : SubRow]
SweepType == [todo : SUBSET Claim, at : {"idle", "read", "settle"},
              cur : Claim \cup {Nothing}, got : Charges \cup {"refused"}, version : 0..MaxRevision]

LEMMA Events == \A e \in Event : e[1] \in Intent /\ e[2] \in 1..MaxRevision /\ e = <<e[1], e[2]>>
BY DEF Event

LEMMA Rows == /\ NoSub \in SubRow
              /\ \A v \in 0..MaxRevision :
                   [status |-> "active", version |-> v, current |-> TRUE] \in SubRow
BY BillingAssumption DEF NoSub, SubRow

LEMMA Sweeps == /\ IdleSweep \in SweepType
                /\ \A todo \in SUBSET Claim : GoesOn(todo) => sweep' \in SweepType
<1>1. IdleSweep \in SweepType
  BY BillingAssumption DEF IdleSweep, SweepType, Charges
<1>2. ASSUME NEW todo \in SUBSET Claim, NEW at \in {"idle", "read"}
      PROVE  [IdleSweep EXCEPT !.todo = todo, !.at = at] \in SweepType
  BY <1>1 DEF SweepType, IdleSweep
<1> QED BY <1>1, <1>2 DEF GoesOn

InFlight == {"calling", "answered", "rejected"}
Charged == {"paid", "ended"}

\* A request that may call the provider or commit its answer is the only one
\* of its intent, which is pending, without a reference and not old.
RequestInv(r) == LET i == KeyOf[r] IN
    caller[r] \in InFlight =>
        /\ record[i] = "started" /\ status[i] = "pending" /\ i \notin stored \cup old
        /\ caller[r] = "calling" => calls[i] = 0 /\ charge[i] = "none"
        /\ \A q \in Request : KeyOf[q] = i /\ caller[q] \in InFlight => q = r

\* Only what has a committed reference is charged, only what is charged is
\* granted, and what was given up cannot be charged any more, unless the
\* provider refused to answer for it.
IntentInv(i) ==
    /\ record[i] = "none" => /\ status[i] = "none" /\ calls[i] = 0 /\ charge[i] = "none"
                             /\ i \notin stored \cup old
    /\ calls[i] <= 1
    /\ charge[i] \in Charged <=> revision[i] >= 1
    /\ charge[i] \in Charged => i \in stored
    /\ i \notin Base => revision[i] <= 1
    /\ status[i] = "activated" <=> i \in claimed
    /\ i \in claimed => charge[i] \in Charged
    /\ settledBy[i] # "nobody" => i \in claimed
    /\ status[i] \in {"failed", "abandoned"} =>
           charge[i] \in {"void", "ended"} \/ i \notin stored \/ i \in refused

\* A claim without a reference that may be abandoned cannot get one, and what
\* the provider said of a claim is not taken back.
ClaimInv(c) == IF c.ref THEN c.intent \in stored ELSE c.old => c.intent \in old \ stored

FetchInv ==
    sweep.at = "settle" => LET i == sweep.cur.intent IN
        /\ sweep.cur \in Claim /\ i \in stored
        /\ sweep.got = "paid" => /\ sweep.version >= 1 /\ charge[i] \in Charged
                                 /\ sweep.version = 1 \/ i \in Base
        /\ sweep.got \in {"ended", "void"} => charge[i] = sweep.got
        /\ sweep.got = "refused" => i \in refused

BillInv ==
    /\ \A r \in Request : RequestInv(r)
    /\ \A i \in Intent : IntentInv(i)
    /\ \A e \in Event : hook[e].at # "unsent" => revision[e[1]] >= 1
    /\ \A c \in sweep.todo : ClaimInv(c)
    /\ FetchInv

LEMMA TypeInit == BillInit => BillTypeOK
<1> SUFFICES ASSUME BillInit PROVE BillTypeOK
  OBVIOUS
<1>1. born \in Seq(Intent) /\ revision \in [Intent -> 0..MaxRevision] /\ sub \in [Base -> SubRow]
  BY BillingAssumption, Rows DEF BillInit
<1>2. hook \in [Event -> HookType]
  BY Rows DEF BillInit, HookType
<1>3. sweep \in SweepType
  BY Sweeps DEF BillInit
<1> QED
  BY <1>1, <1>2, <1>3 DEF BillInit, BillTypeOK, HookType, SweepType, Charges

\* Moving an event on leaves its row well formed.
LEMMA HookMoves ==
    ASSUME BillTypeOK, NEW e \in Event,
           NEW to \in {"unsent", "recorded", "settle", "apply", "done"}, At(e, to)
    PROVE  hook' \in [Event -> HookType]
<1>1. hook \in [Event -> HookType]
  BY DEF BillTypeOK, HookType
<1>2. [hook[e] EXCEPT !.at = to] \in HookType
  <2>1. hook[e] \in HookType
    BY <1>1
  <2> QED BY <2>1 DEF HookType
<1>3. hook' = [hook EXCEPT ![e] = [hook[e] EXCEPT !.at = to]]
  BY DEF At
<1> QED BY <1>1, <1>2, <1>3

Places == {"start", "checked", "vacant", "calling", "answered", "rejected", "done"}
Statuses == {"none", "pending", "activated", "failed", "abandoned"}

LEMMA RequestMoves ==
    ASSUME BillTypeOK, NEW r \in Request, NEW to \in Places, Move(r, to)
    PROVE  caller' \in [Request -> Places]
<1>1. caller \in [Request -> Places]
  BY DEF BillTypeOK, Places
<1>2. caller' = [caller EXCEPT ![r] = to]
  BY DEF Move
<1> QED BY <1>1, <1>2

LEMMA StatusMoves ==
    ASSUME BillTypeOK, NEW i, NEW to \in Statuses
    PROVE  [status EXCEPT ![i] = to] \in [Intent -> Statuses]
<1>1. status \in [Intent -> Statuses]
  BY DEF BillTypeOK, Statuses
<1> QED BY <1>1

\* What a sweep claims are intents.
LEMMA StartedBatch ==
    ASSUME StartSweep
    PROVE  \E batch \in SUBSET Intent :
              sweep' = [sweep EXCEPT
                  !.todo = {[intent |-> i, ref |-> i \in stored, old |-> i \in old] : i \in batch},
                  !.at = "read"]
<1> DEFINE pending == {i \in Intent : Claimable(i)}
           Batch(n) == {i \in pending : Cardinality({j \in pending : Older(j, i)}) < n}
<1>1. PICK n \in BatchSizes :
         sweep' = [sweep EXCEPT
             !.todo = {[intent |-> i, ref |-> i \in stored, old |-> i \in old] : i \in Batch(n)},
             !.at = "read"]
  BY DEF StartSweep
<1>2. Batch(n) \in SUBSET Intent
  OBVIOUS
<1> HIDE DEF Batch
<1> QED BY <1>1, <1>2

LEMMA TypeStep == BillTypeOK /\ BillInv /\ [BillNext]_billVars => BillTypeOK'
<1> SUFFICES ASSUME BillTypeOK, BillInv, [BillNext]_billVars PROVE BillTypeOK'
  OBVIOUS
<1> USE DEF BillTypeOK
<1>0. hook \in [Event -> HookType] /\ sweep \in SweepType
  BY DEF HookType, SweepType, Charges
<1>1. ASSUME NEW r \in Request, CheckLive(r) \/ CheckUnsettled(r) \/ DropRequest(r) PROVE BillTypeOK'
  <2>1. \E to \in {"checked", "vacant", "done"} : Move(r, to)
    BY <1>1 DEF CheckLive, CheckUnsettled, DropRequest
  <2>2. caller' \in [Request -> Places]
    BY <2>1, RequestMoves DEF Places
  <2>3. UNCHANGED <<intentVars, calls, providerVars, grantVars, hook, sweep>>
    BY <1>1 DEF CheckLive, CheckUnsettled, DropRequest
  <2> QED BY <2>2, <2>3 DEF Places, intentVars, providerVars, grantVars
<1>2. ASSUME NEW r \in Request, InsertIntent(r) PROVE BillTypeOK'
  <2>1. KeyOf[r] \in Intent
    BY BillingAssumption
  <2>2. /\ born' \in Seq(Intent)
        /\ status' \in [Intent -> {"none", "pending", "activated", "failed", "abandoned"}]
        /\ record' \in [Intent -> {"none", "started", "completed"}]
        /\ caller' \in [Request -> {"start", "checked", "vacant", "calling",
                                    "answered", "rejected", "done"}]
    <3>1. CASE Insertable(KeyOf[r])
      <4>1. born' = Append(born, KeyOf[r])
        BY <1>2, <3>1 DEF InsertIntent
      <4>2. born' \in Seq(Intent)
        BY <2>1, <4>1
      <4>3. /\ status' = [status EXCEPT ![KeyOf[r]] = "pending"]
            /\ record' = [record EXCEPT ![KeyOf[r]] = "started"]
            /\ Move(r, "calling")
        BY <1>2, <3>1 DEF InsertIntent
      <4>4. status' \in [Intent -> Statuses]
        BY <4>3, StatusMoves DEF Statuses
      <4>5. caller' \in [Request -> Places]
        BY <4>3, RequestMoves DEF Places
      <4>6. record' \in [Intent -> {"none", "started", "completed"}]
        BY <4>3
      <4> QED BY <4>2, <4>4, <4>5, <4>6 DEF Places, Statuses
    <3>2. CASE ~Insertable(KeyOf[r])
      <4>1. Move(r, "done") /\ UNCHANGED <<status, born, record>>
        BY <1>2, <3>2 DEF InsertIntent
      <4>2. caller' \in [Request -> Places]
        BY <4>1, RequestMoves DEF Places
      <4> QED BY <4>1, <4>2 DEF Places
    <3> QED BY <3>1, <3>2
  <2> QED BY <1>2, <2>2 DEF InsertIntent, providerVars, grantVars
<1>3. ASSUME NEW r \in Request, CallProvider(r) PROVE BillTypeOK'
  <2>1. KeyOf[r] \in Intent
    BY BillingAssumption
  <2>2. calls' \in [Intent -> Nat] /\ charge' \in [Intent -> {"none", "open", "paid", "ended", "void"}]
        /\ caller' \in [Request -> {"start", "checked", "vacant", "calling",
                                    "answered", "rejected", "done"}]
    <3>1. \A c \in {"none", "open"} :
            [charge EXCEPT ![KeyOf[r]] = c] \in [Intent -> {"none", "open", "paid", "ended", "void"}]
      BY <2>1
    <3>2. \A to \in {"answered", "rejected", "done"} :
            Move(r, to) => caller' \in [Request -> {"start", "checked", "vacant", "calling",
                                                   "answered", "rejected", "done"}]
      BY DEF Move
    <3>3. calls' \in [Intent -> Nat]
      BY <1>3, <2>1 DEF CallProvider
    <3>4. \E to \in {"answered", "rejected", "done"} : Move(r, to)
      BY <1>3 DEF CallProvider
    <3>5. \/ charge' = charge
          \/ \E c \in {"none", "open"} : charge' = [charge EXCEPT ![KeyOf[r]] = c]
      BY <1>3 DEF CallProvider
    <3>6. charge' \in [Intent -> {"none", "open", "paid", "ended", "void"}]
      BY <3>1, <3>5
    <3>7. caller' \in [Request -> {"start", "checked", "vacant", "calling",
                                  "answered", "rejected", "done"}]
      BY <3>2, <3>4
    <3> QED BY <3>3, <3>6, <3>7
  <2> QED BY <1>3, <2>2 DEF CallProvider, intentVars, grantVars
<1>4. ASSUME NEW r \in Request, CompleteIntent(r) PROVE BillTypeOK'
  <2>1. KeyOf[r] \in Intent
    BY BillingAssumption
  <2>2. caller' \in [Request -> Places]
    BY <1>4, RequestMoves DEF CompleteIntent, Places
  <2>3. status' = status \/ status' = [status EXCEPT ![KeyOf[r]] = "failed"]
    BY <1>4 DEF CompleteIntent
  <2>4. status' \in [Intent -> Statuses]
    BY <2>3, StatusMoves DEF Statuses
  <2>5. record' \in [Intent -> {"none", "started", "completed"}] /\ stored' \subseteq Intent
    BY <1>4, <2>1 DEF CompleteIntent
  <2>6. UNCHANGED <<old, born, calls, providerVars, grantVars, hook, sweep>>
    BY <1>4 DEF CompleteIntent
  <2> QED BY <2>2, <2>4, <2>5, <2>6 DEF Places, Statuses, providerVars, grantVars
<1>5. ASSUME NEW i \in Intent, Pay(i) \/ Void(i) \/ Age(i) PROVE BillTypeOK'
  <2>1. 1 \in 0..MaxRevision
    BY BillingAssumption
  <2>2. CASE Pay(i)
    <3>1. charge' \in [Intent -> Charges] /\ revision' \in [Intent -> 0..MaxRevision]
      BY <2>1, <2>2 DEF Pay, AtProvider, Charges
    <3> QED BY <2>2, <3>1 DEF Pay, AtProvider, Charges, intentVars, callVars, grantVars
  <2>3. CASE Void(i)
    <3>1. charge' \in [Intent -> Charges]
      BY <2>3 DEF Void, AtProvider, Charges
    <3> QED BY <2>3, <3>1 DEF Void, AtProvider, Charges, intentVars, callVars, grantVars
  <2>4. CASE Age(i)
    <3>1. old' \subseteq Intent
      BY <2>4 DEF Age
    <3> QED BY <2>4, <3>1 DEF Age, callVars, providerVars, grantVars
  <2> QED BY <1>5, <2>2, <2>3, <2>4
<1>6. ASSUME NEW i \in Intent, NEW c \in {"paid", "ended"}, Revise(i, c) PROVE BillTypeOK'
  <2>1. revision[i] + 1 \in 0..MaxRevision
    BY <1>6, BillingAssumption DEF Revise
  <2> QED BY <1>6, <2>1 DEF Revise, AtProvider, intentVars, callVars, grantVars
<1>7. ASSUME NEW e \in Event, RecordEvent(e) PROVE BillTypeOK'
  <2>1. hook' \in [Event -> HookType]
    <3>1. At(e, "recorded")
      BY <1>7 DEF RecordEvent
    <3> QED BY <3>1, HookMoves
  <2> QED BY <1>7, <2>1 DEF RecordEvent, intentVars, callVars, grantVars, providerVars, HookType
<1>8. ASSUME NEW e \in Event, MatchEvent(e) PROVE BillTypeOK'
  <2>1. hook' \in [Event -> HookType]
    <3>1. /\ [at |-> "settle", seen |-> NoSub] \in HookType
          /\ [at |-> "done", seen |-> NoSub] \in HookType
          /\ e[1] \in Base => [at |-> "apply", seen |-> sub[e[1]]] \in HookType
      BY Rows DEF HookType
    <3> QED BY <1>0, <1>8, <3>1 DEF MatchEvent
  <2> QED BY <1>8, <2>1 DEF MatchEvent, intentVars, callVars, grantVars, providerVars, HookType
<1>9. ASSUME NEW i \in Intent, NEW v \in 1..MaxRevision, NEW authority \in {"webhook", "sweep"},
             v = 1 \/ i \in Base, Settle(i, v, authority)
      PROVE  /\ claimed' \subseteq Intent /\ settledBy' \in [Intent -> {"nobody", "webhook", "sweep"}]
             /\ status' \in [Intent -> {"none", "pending", "activated", "failed", "abandoned"}]
             /\ bundles' \subseteq Event /\ sub' \in [Base -> SubRow] /\ revoked' \subseteq Event
  <2>1. <<i, v>> \in Event
    BY <1>9 DEF Event
  <2>2. sub' \in [Base -> SubRow]
    BY <1>9, Rows DEF Settle
  <2> QED BY <1>9, <2>1, <2>2 DEF Settle
<1>10. ASSUME NEW e \in Event, SettleEvent(e) PROVE BillTypeOK'
  <2>1. hook' \in [Event -> HookType]
    <3>1. At(e, "done")
      BY <1>10 DEF SettleEvent
    <3> QED BY <3>1, HookMoves
  <2>2. e[1] \in Intent /\ e[2] \in 1..MaxRevision /\ (e[2] = 1 \/ e[1] \in Base)
    BY DEF Event
  <2> QED
    BY <1>9, <1>10, <2>1, <2>2 DEF SettleEvent, callVars, providerVars, grantVars, HookType
<1>11. ASSUME NEW e \in Event, ApplyEvent(e) PROVE BillTypeOK'
  <2>1. hook' \in [Event -> HookType]
    <3>1. At(e, "done")
      BY <1>11 DEF ApplyEvent
    <3> QED BY <3>1, HookMoves
  <2>2. bundles' \subseteq Event /\ revoked' \subseteq Event
    BY <1>11 DEF ApplyEvent
  <2>3. sub' \in [Base -> SubRow]
    <3> DEFINE i == e[1]
               v == e[2]
               seen == hook[e].seen
               last == IsLast(e)
               w == [status |-> Written(IF last THEN "cancelled" ELSE "active",
                                        seen.status, sub[i].status),
                     version |-> Written(v, seen.version, sub[i].version),
                     current |-> sub[i].current /\ ~last]
    <3>1. CASE sub' = sub
      BY <3>1
    <3>2. CASE i \notin Base /\ sub' # sub
      BY <1>11, <3>2 DEF ApplyEvent
    <3>3. CASE i \in Base /\ sub' # sub
      <4>1. v \in 0..MaxRevision /\ sub[i] \in SubRow
        BY <3>3, Events
      <4>2. w \in SubRow
        BY <4>1 DEF SubRow, Written
      <4>3. sub' = [sub EXCEPT ![i] = w]
        BY <1>11, <3>3 DEF ApplyEvent
      <4> HIDE DEF w
      <4> QED BY <4>2, <4>3
    <3> QED BY <3>1, <3>2, <3>3
  <2> QED
    BY <1>11, <2>1, <2>2, <2>3
       DEF ApplyEvent, intentVars, callVars, providerVars, HookType
<1>12. CASE SweepNext
  <2>0. sweep.todo \in SUBSET Claim
    BY <1>0 DEF SweepType
  <2>1. CASE StartSweep
    <3>0. PICK batch \in SUBSET Intent :
             sweep' = [sweep EXCEPT
                 !.todo = {[intent |-> i, ref |-> i \in stored, old |-> i \in old] : i \in batch},
                 !.at = "read"]
      BY <2>1, StartedBatch
    <3> DEFINE todo == {[intent |-> i, ref |-> i \in stored, old |-> i \in old] : i \in batch}
    <3>1. todo \in SUBSET Claim
      <4>1. \A i \in Intent : [intent |-> i, ref |-> i \in stored, old |-> i \in old] \in Claim
        BY DEF Claim
      <4> QED BY <4>1
    <3>2. sweep' = [sweep EXCEPT !.todo = todo, !.at = "read"]
      BY <3>0
    <3> HIDE DEF todo
    <3>3. sweep' \in SweepType
      BY <1>0, <3>1, <3>2 DEF SweepType
    <3> QED
      BY <2>1, <3>3 DEF StartSweep, intentVars, callVars, providerVars, grantVars, SweepType, Charges
  <2>2. ASSUME NEW c \in sweep.todo, SweepWithoutReference(c) PROVE BillTypeOK'
    <3>1. sweep' \in SweepType
      BY <2>0, <2>2, Sweeps DEF SweepWithoutReference
    <3>2. status' \in [Intent -> {"none", "pending", "activated", "failed", "abandoned"}]
      <4>1. status' = status \/ status' = [status EXCEPT ![c.intent] = "abandoned"]
        BY <2>2 DEF SweepWithoutReference, MarkTerminal
      <4> QED BY <4>1, StatusMoves DEF Statuses
    <3> QED
      BY <2>2, <3>1, <3>2
         DEF SweepWithoutReference, callVars, providerVars, grantVars, SweepType, Charges
  <2>3. ASSUME NEW c \in sweep.todo,
               SweepFetch(c) \/ SweepFetchFails(c) \/ SweepFetchRefused(c)
        PROVE  BillTypeOK'
    <3>1. c \in Claim /\ c.intent \in Intent
      BY <2>0 DEF Claim
    <3>2. SweepFetch(c) => sweep' \in SweepType
      BY <2>0, <3>1 DEF SweepFetch, SweepType, Charges
    <3>3. SweepFetchFails(c) => sweep' \in SweepType
      BY <2>0, Sweeps DEF SweepFetchFails
    <3>4. SweepFetchRefused(c) => sweep' \in SweepType /\ refused' \subseteq Intent
      BY <2>0, <3>1, BillingAssumption DEF SweepFetchRefused, SweepType
    <3> QED
      BY <2>3, <3>2, <3>3, <3>4
         DEF SweepFetch, SweepFetchFails, SweepFetchRefused, intentVars, callVars, providerVars,
             grantVars, SweepType, Charges
  <2>4. CASE SweepSettle
    <3> DEFINE i == sweep.cur.intent
    <3>1. sweep' \in SweepType
      BY <2>0, <2>4, Sweeps DEF SweepSettle
    <3>2. CASE Settle(i, sweep.version, "sweep") /\ sweep.got = "paid"
      <4>1. i \in Intent /\ sweep.version \in 1..MaxRevision /\ (sweep.version = 1 \/ i \in Base)
        BY <1>0, <2>4, <3>2 DEF SweepSettle, BillInv, FetchInv, Claim, SweepType
      <4> QED
        BY <1>9, <2>4, <3>1, <3>2, <4>1
           DEF SweepSettle, callVars, providerVars, SweepType, Charges
    <3>3. CASE ~(Settle(i, sweep.version, "sweep") /\ sweep.got = "paid")
      <4>1. UNCHANGED grantVars
            /\ status' \in [Intent -> {"none", "pending", "activated", "failed", "abandoned"}]
        BY <2>4, <3>3 DEF SweepSettle, Settleable, MarkTerminal
      <4> QED
        BY <2>4, <3>1, <4>1
           DEF SweepSettle, callVars, providerVars, grantVars, SweepType, Charges
    <3> QED BY <3>2, <3>3
  <2> QED BY <1>12, <2>1, <2>2, <2>3, <2>4 DEF SweepNext
<1>13. CASE UNCHANGED billVars
  BY <1>13 DEF billVars, intentVars, callVars, providerVars, grantVars
<1> QED
  BY <1>1, <1>2, <1>3, <1>4, <1>5, <1>6, <1>7, <1>8, <1>10, <1>11, <1>12, <1>13 DEF BillNext

LEMMA InvInit == BillInit => BillInv
<1> SUFFICES ASSUME BillInit PROVE BillInv
  OBVIOUS
<1>1. \A r \in Request : RequestInv(r)
  BY DEF BillInit, RequestInv, InFlight
<1>2. \A i \in Intent : IntentInv(i)
  BY DEF BillInit, IntentInv, Charged
<1>3. \A e \in Event : hook[e].at = "unsent"
  BY DEF BillInit
<1>4. sweep.todo = {} /\ sweep.at = "idle"
  BY DEF BillInit, IdleSweep
<1> QED BY <1>1, <1>2, <1>3, <1>4 DEF BillInv, FetchInv

\* What a step of a request, of the provider, of a webhook and of the sweep
\* leaves alone.
LEMMA RequestStep ==
    ASSUME BillTypeOK, BillInv, NEW r \in Request,
           \/ CheckLive(r) \/ CheckUnsettled(r) \/ InsertIntent(r) \/ CallProvider(r)
           \/ CompleteIntent(r) \/ DropRequest(r)
    PROVE  BillInv'
<1> DEFINE i == KeyOf[r]
<1>0. /\ i \in Intent /\ RequestInv(r) /\ IntentInv(i)
      /\ caller \in [Request -> {"start", "checked", "vacant", "calling",
                                 "answered", "rejected", "done"}]
  BY BillingAssumption DEF BillInv, BillTypeOK
<1>1. CASE CheckLive(r) \/ CheckUnsettled(r) \/ DropRequest(r)
  <2>1. \A q \in Request : caller'[q] \in InFlight => caller[q] \in InFlight /\ caller'[q] = caller[q]
    BY <1>0, <1>1 DEF CheckLive, CheckUnsettled, DropRequest, Move, InFlight
  <2>2. UNCHANGED <<intentVars, calls, providerVars, grantVars, hook, sweep>>
    BY <1>1 DEF CheckLive, CheckUnsettled, DropRequest
  <2>3. \A q \in Request : RequestInv(q)'
    BY <2>1, <2>2 DEF BillInv, RequestInv, intentVars, providerVars
  <2>4. \A j \in Intent : IntentInv(j)'
    BY <2>2 DEF BillInv, IntentInv, intentVars, providerVars, grantVars
  <2> QED BY <2>2, <2>3, <2>4 DEF BillInv, ClaimInv, FetchInv, intentVars, providerVars
<1>2. CASE InsertIntent(r)
  <2>1. CASE ~Insertable(i)
    <3>1. \A q \in Request : caller'[q] \in InFlight => caller[q] \in InFlight /\ caller'[q] = caller[q]
      BY <1>0, <1>2, <2>1 DEF InsertIntent, Move, InFlight
    <3>2. UNCHANGED <<intentVars, calls, providerVars, grantVars, hook, sweep>>
      BY <1>2, <2>1 DEF InsertIntent, intentVars
    <3>3. \A q \in Request : RequestInv(q)'
      BY <3>1, <3>2 DEF BillInv, RequestInv, intentVars, providerVars
    <3>4. \A j \in Intent : IntentInv(j)'
      BY <3>2 DEF BillInv, IntentInv, intentVars, providerVars, grantVars
    <3> QED BY <3>2, <3>3, <3>4 DEF BillInv, ClaimInv, FetchInv, intentVars, providerVars
  <2>2. CASE Insertable(i)
    <3>0. /\ record[i] = "none"
          /\ status' = [status EXCEPT ![i] = "pending"] /\ record' = [record EXCEPT ![i] = "started"]
          /\ caller' = [caller EXCEPT ![r] = "calling"]
          /\ UNCHANGED <<stored, old, calls, providerVars, grantVars, hook, sweep>>
      BY <1>2, <2>2 DEF InsertIntent, Insertable, Move
    <3>1. \A q \in Request : KeyOf[q] = i => caller[q] \notin InFlight
      BY <3>0 DEF BillInv, RequestInv
    <3>2. \A q \in Request : RequestInv(q)'
      BY <1>0, <3>0, <3>1 DEF BillInv, BillTypeOK, RequestInv, IntentInv, providerVars, InFlight
    <3>3. \A j \in Intent : IntentInv(j)'
      BY <1>0, <3>0 DEF BillInv, BillTypeOK, IntentInv, providerVars, grantVars, Charged
    <3> QED BY <3>0, <3>2, <3>3 DEF BillInv, ClaimInv, FetchInv, providerVars
  <2> QED BY <2>1, <2>2
<1>3. CASE CallProvider(r)
  <2>0. /\ caller[r] = "calling" /\ calls' = [calls EXCEPT ![i] = @ + 1]
        /\ UNCHANGED <<intentVars, revision, refused, grantVars, hook, sweep>>
        /\ calls[i] = 0 /\ charge[i] = "none" /\ record[i] = "started"
    BY <1>0, <1>3 DEF CallProvider, RequestInv, InFlight
  <2>1. PICK to \in {"answered", "done", "rejected"}, c \in {"none", "open"} :
           caller' = [caller EXCEPT ![r] = to] /\ charge' = [charge EXCEPT ![i] = c]
    BY <1>3 DEF CallProvider, Move
  <2>2. \A q \in Request : caller'[q] \in InFlight => caller[q] \in InFlight
    BY <1>0, <2>0, <2>1 DEF InFlight
  <2>3. \A q \in Request : RequestInv(q)'
    BY <1>0, <2>0, <2>1, <2>2 DEF BillInv, BillTypeOK, RequestInv, intentVars, InFlight
  <2>4. \A j \in Intent : IntentInv(j)'
    BY <1>0, <2>0, <2>1 DEF BillInv, BillTypeOK, IntentInv, intentVars, grantVars, Charged
  <2>5. \A j \in stored : charge'[j] = charge[j]
    BY <1>0, <2>0, <2>1 DEF RequestInv, InFlight, BillTypeOK
  <2>6. FetchInv'
    BY <2>0, <2>5 DEF BillInv, FetchInv, intentVars
  <2> QED BY <2>0, <2>3, <2>4, <2>6 DEF BillInv, ClaimInv, intentVars
<1>4. CASE CompleteIntent(r)
  <2>0. /\ caller[r] \in {"answered", "rejected"} /\ record[i] = "started" /\ status[i] = "pending"
        /\ i \notin stored \cup old
        /\ record' = [record EXCEPT ![i] = "completed"] /\ caller' = [caller EXCEPT ![r] = "done"]
        /\ UNCHANGED <<old, calls, providerVars, grantVars, hook, sweep>>
        /\ \/ caller[r] = "answered" /\ stored' = stored \cup {i} /\ UNCHANGED status
           \/ /\ caller[r] = "rejected" /\ UNCHANGED stored
              /\ status' = [status EXCEPT ![i] = "failed"]
    BY <1>0, <1>4 DEF CompleteIntent, RequestInv, InFlight, Move
  <2>1. \A q \in Request : caller'[q] \in InFlight =>
           caller[q] \in InFlight /\ caller'[q] = caller[q] /\ KeyOf[q] # i
    BY <1>0, <2>0 DEF BillInv, RequestInv, InFlight
  <2>2. \A q \in Request : RequestInv(q)'
    <3> SUFFICES ASSUME NEW q \in Request, caller'[q] \in InFlight PROVE RequestInv(q)'
      BY DEF RequestInv
    <3>1. RequestInv(q) /\ caller[q] \in InFlight /\ caller'[q] = caller[q] /\ KeyOf[q] # i
      BY <2>1 DEF BillInv
    <3>2. /\ record'[KeyOf[q]] = record[KeyOf[q]] /\ status'[KeyOf[q]] = status[KeyOf[q]]
          /\ (KeyOf[q] \in stored' <=> KeyOf[q] \in stored)
      <4> HIDE DEF i
      <4>1. KeyOf[q] \in Intent
        BY BillingAssumption
      <4>2. /\ record'[KeyOf[q]] = record[KeyOf[q]]
            /\ (KeyOf[q] \in stored' <=> KeyOf[q] \in stored)
        BY <2>0, <3>1, <4>1 DEF BillTypeOK
      <4>3. status'[KeyOf[q]] = status[KeyOf[q]]
        BY <2>0, <3>1, <4>1 DEF BillTypeOK
      <4> QED BY <4>2, <4>3
    <3> QED BY <2>0, <2>1, <3>1, <3>2 DEF RequestInv, providerVars
  <2>3. \A j \in Intent : IntentInv(j)'
    <3> SUFFICES ASSUME NEW j \in Intent PROVE IntentInv(j)'
      OBVIOUS
    <3>1. IntentInv(j)
      BY DEF BillInv
    <3>2. CASE j # i
      <4>1. /\ record'[j] = record[j] /\ status'[j] = status[j] /\ (j \in stored' <=> j \in stored)
        BY <1>0, <2>0, <3>2 DEF BillTypeOK
      <4> QED BY <2>0, <3>1, <4>1 DEF IntentInv, providerVars, grantVars
    <3>3. CASE j = i /\ caller[r] = "answered"
      BY <1>0, <2>0, <3>1, <3>3 DEF BillTypeOK, IntentInv, providerVars, grantVars, Charged
    <3>4. CASE j = i /\ caller[r] = "rejected"
      <4>1. status'[i] = "failed" /\ stored' = stored /\ record'[i] = "completed"
            /\ status[i] = "pending" /\ i \notin stored
        BY <1>0, <2>0, <3>4 DEF BillTypeOK
      <4> QED BY <2>0, <3>1, <3>4, <4>1 DEF IntentInv, providerVars, grantVars
    <3> QED BY <2>0, <3>2, <3>3, <3>4
  <2>4. \A c \in sweep.todo : ClaimInv(c)'
    <3> SUFFICES ASSUME NEW c \in sweep.todo PROVE ClaimInv(c)'
      OBVIOUS
    <3>1. ClaimInv(c)
      BY DEF BillInv
    <3>2. /\ old' = old /\ stored \subseteq stored'
          /\ \A j \in old : j \in stored' => j \in stored
      <4>1. stored' = stored \/ stored' = stored \cup {i}
        BY <2>0
      <4>2. old' = old /\ i \notin old
        BY <2>0
      <4> QED BY <4>1, <4>2
    <3> QED BY <3>1, <3>2 DEF ClaimInv
  <2>5. FetchInv'
    BY <2>0 DEF BillInv, FetchInv, providerVars
  <2> QED BY <2>0, <2>2, <2>3, <2>4, <2>5 DEF BillInv, providerVars
<1> QED BY <1>1, <1>2, <1>3, <1>4

\* A granted intent is charged, so none of its requests is in flight.
LEMMA SettleStep ==
    ASSUME BillTypeOK, BillInv, NEW i \in Intent, NEW v, NEW authority \in {"webhook", "sweep"},
           Settle(i, v, authority), charge[i] \in Charged,
           UNCHANGED <<stored, old, born, record, callVars, providerVars>>
    PROVE  /\ \A r \in Request : RequestInv(r)'
           /\ \A j \in Intent : IntentInv(j)'
<1>0. IntentInv(i) /\ i \in stored
  BY DEF BillInv, IntentInv
<1>1. ASSUME NEW r \in Request PROVE RequestInv(r)'
  <2>1. RequestInv(r)
    BY DEF BillInv
  <2>2. caller[r] \in InFlight => KeyOf[r] # i
    BY <1>0, <2>1 DEF RequestInv
  <2> QED
    BY <2>1, <2>2, BillingAssumption DEF RequestInv, Settle, BillTypeOK, callVars, providerVars
<1>2. ASSUME NEW j \in Intent PROVE IntentInv(j)'
  <2>1. IntentInv(j)
    BY DEF BillInv
  <2>2. CASE j = i
    <3>1. /\ status'[i] = "activated" /\ i \in claimed' /\ record[i] # "none"
      BY <1>0 DEF Settle, BillTypeOK, IntentInv
    <3> QED BY <1>0, <2>2, <3>1 DEF IntentInv, callVars, providerVars
  <2>3. CASE j # i
    <3>1. /\ status'[j] = status[j] /\ settledBy'[j] = settledBy[j] /\ (j \in claimed' <=> j \in claimed)
      BY <2>3 DEF Settle, BillTypeOK
    <3> QED BY <2>1, <3>1 DEF IntentInv, callVars, providerVars
  <2> QED BY <2>2, <2>3
<1> QED BY <1>1, <1>2

LEMMA ProviderStep ==
    ASSUME BillTypeOK, BillInv, NEW i \in Intent,
           Pay(i) \/ Void(i) \/ Age(i) \/ (\E c \in {"paid", "ended"} : Revise(i, c))
    PROVE  BillInv'
<1>0. IntentInv(i)
  BY DEF BillInv
<1>1. CASE Age(i)
  <2>0. /\ old' = old \cup {i}
        /\ \A r \in Request : KeyOf[r] = i => caller[r] \notin InFlight
        /\ UNCHANGED <<status, stored, record, callVars, providerVars, grantVars, hook, sweep>>
    BY <1>1 DEF Age, InFlight
  <2>1. \A r \in Request : RequestInv(r)'
    BY <2>0 DEF BillInv, RequestInv, callVars, providerVars
  <2>2. record[i] # "none"
    BY <1>0, <1>1 DEF Age, IntentInv
  <2>3. \A j \in Intent : IntentInv(j)'
    BY <2>0, <2>2 DEF BillInv, IntentInv, callVars, providerVars, grantVars
  <2>4. \A c \in sweep.todo : ClaimInv(c)'
    BY <2>0 DEF BillInv, ClaimInv
  <2> QED BY <2>0, <2>1, <2>3, <2>4 DEF BillInv, FetchInv, callVars, providerVars
<1>2. CASE Pay(i) \/ Void(i) \/ (\E c \in {"paid", "ended"} : Revise(i, c))
  <2>0. \E c \in {"paid", "ended", "void"}, v \in Nat :
           /\ charge' = [charge EXCEPT ![i] = c] /\ revision' = [revision EXCEPT ![i] = v]
           /\ charge[i] \in {"open", "paid"} /\ (charge[i] = "paid" => c \in Charged)
           /\ ((c \in Charged) <=> (v >= 1)) /\ (c \in Charged => i \in stored)
           /\ (i \notin Base => v <= 1) /\ v >= revision[i]
           /\ UNCHANGED <<intentVars, callVars, refused, grantVars, hook, sweep>>
    <3>1. revision[i] \in Nat /\ [revision EXCEPT ![i] = revision[i]] = revision
      BY DEF BillTypeOK
    <3>2. CASE Pay(i)
      <4>1. revision[i] <= 1 /\ "paid" \in Charged
        BY <1>0, <3>1, <3>2 DEF Pay, IntentInv, Charged
      <4>2. WITNESS "paid" \in {"paid", "ended", "void"}, 1 \in Nat
      <4> QED BY <3>1, <3>2, <4>1 DEF Pay, AtProvider
    <3>3. CASE Void(i)
      <4>1. ~(revision[i] >= 1) /\ "void" \notin Charged
        BY <1>0, <3>3 DEF Void, IntentInv, Charged
      <4> USE <3>1
      <4>2. WITNESS "void" \in {"paid", "ended", "void"}, revision[i] \in Nat
      <4> QED BY <3>1, <3>3, <4>1 DEF Void, AtProvider
    <3>4. ASSUME NEW c \in {"paid", "ended"}, Revise(i, c)
          PROVE  /\ revision[i] + 1 \in Nat /\ revision[i] + 1 >= 1
                 /\ charge' = [charge EXCEPT ![i] = c]
                 /\ revision' = [revision EXCEPT ![i] = revision[i] + 1]
                 /\ charge[i] = "paid" /\ c \in Charged /\ i \in stored /\ i \in Base
                 /\ revision[i] + 1 >= revision[i]
                 /\ UNCHANGED <<intentVars, callVars, refused, grantVars, hook, sweep>>
      BY <1>0, <3>1, <3>4 DEF Revise, AtProvider, IntentInv, Charged
    <3>5. CASE \E c \in {"paid", "ended"} : Revise(i, c)
      <4>1. PICK c \in {"paid", "ended"} : Revise(i, c)
        BY <3>5
      <4> USE <3>4, <4>1
      <4>2. WITNESS c \in {"paid", "ended", "void"}, revision[i] + 1 \in Nat
      <4> QED BY <3>4, <4>1
    <3> QED BY <1>2, <3>2, <3>3, <3>5
  <2>1. PICK c \in {"paid", "ended", "void"}, v \in Nat :
           /\ charge' = [charge EXCEPT ![i] = c] /\ revision' = [revision EXCEPT ![i] = v]
           /\ charge[i] \in {"open", "paid"} /\ (charge[i] = "paid" => c \in Charged)
           /\ ((c \in Charged) <=> (v >= 1)) /\ (c \in Charged => i \in stored)
           /\ (i \notin Base => v <= 1) /\ v >= revision[i]
           /\ UNCHANGED <<intentVars, callVars, refused, grantVars, hook, sweep>>
    BY <2>0
  <2>2. /\ charge'[i] = c /\ revision'[i] = v
        /\ \A j \in Intent \ {i} : charge'[j] = charge[j] /\ revision'[j] = revision[j]
    BY <2>1 DEF BillTypeOK
  <2>3. \A r \in Request : RequestInv(r)'
    <3> SUFFICES ASSUME NEW r \in Request PROVE RequestInv(r)'
      OBVIOUS
    <3>1. RequestInv(r) /\ KeyOf[r] \in Intent
      BY BillingAssumption DEF BillInv
    <3>2. KeyOf[r] = i => caller[r] # "calling"
      BY <2>1, <3>1 DEF RequestInv, InFlight
    <3>3. caller' = caller /\ calls' = calls /\ UNCHANGED intentVars
      BY <2>1 DEF callVars
    <3>4. CASE KeyOf[r] = i
      BY <3>1, <3>2, <3>3, <3>4 DEF RequestInv, intentVars
    <3>5. CASE KeyOf[r] # i
      <4>1. charge'[KeyOf[r]] = charge[KeyOf[r]]
        BY <2>2, <3>1, <3>5
      <4> QED BY <3>1, <3>3, <4>1 DEF RequestInv, intentVars
    <3> QED BY <3>4, <3>5
  <2>4. \A j \in Intent : IntentInv(j)'
    <3> SUFFICES ASSUME NEW j \in Intent PROVE IntentInv(j)'
      OBVIOUS
    <3>1. IntentInv(j) /\ UNCHANGED <<intentVars, calls, refused, grantVars>>
      BY <2>1 DEF BillInv, callVars
    <3>2. CASE j # i
      <4>1. charge'[j] = charge[j] /\ revision'[j] = revision[j]
        BY <2>2, <3>2
      <4> QED BY <3>1, <4>1 DEF IntentInv, intentVars, grantVars
    <3>3. CASE j = i
      <4>1. i \in claimed => charge[i] = "paid"
        BY <2>1, <3>1, <3>3 DEF IntentInv, Charged
      <4>2. status[i] \in {"failed", "abandoned"} => \/ i \notin stored \/ i \in refused
                                                     \/ c \in {"void", "ended"}
        BY <2>1, <3>1, <3>3 DEF IntentInv
      <4>3. record[i] # "none"
        BY <2>1, <3>1, <3>3 DEF IntentInv
      <4> HIDE DEF Charged
      <4> QED BY <2>1, <2>2, <3>1, <3>3, <4>1, <4>2, <4>3 DEF IntentInv, intentVars, grantVars
    <3> QED BY <3>2, <3>3
  <2>5. \A e \in Event : hook'[e].at # "unsent" => revision'[e[1]] >= 1
    <3> SUFFICES ASSUME NEW e \in Event, hook'[e].at # "unsent" PROVE revision'[e[1]] >= 1
      OBVIOUS
    <3>1. revision[e[1]] >= 1 /\ e[1] \in Intent /\ revision[e[1]] \in Nat
      BY <2>1, Events DEF BillInv, BillTypeOK
    <3> QED BY <2>1, <2>2, <3>1
  <2>6. FetchInv'
    <3> SUFFICES ASSUME sweep.at = "settle" PROVE FetchInv'
      BY <2>1 DEF FetchInv
    <3>1. /\ UNCHANGED <<sweep, stored, refused>>
          /\ sweep.cur.intent \in Intent
      BY <2>1 DEF BillInv, FetchInv, intentVars, Claim
    <3>2. CASE sweep.cur.intent # i
      BY <2>2, <3>1, <3>2 DEF BillInv, FetchInv
    <3>3. CASE sweep.cur.intent = i
      <4>1. charge[i] \in Charged => charge'[i] \in Charged
        BY <2>1, <2>2 DEF Charged
      <4> HIDE DEF Charged
      <4> QED BY <2>1, <3>1, <3>3, <4>1 DEF BillInv, FetchInv
    <3> QED BY <3>2, <3>3
  <2> QED BY <2>1, <2>3, <2>4, <2>5, <2>6 DEF BillInv, ClaimInv, intentVars
<1> QED BY <1>1, <1>2

LEMMA WebhookStep ==
    ASSUME BillTypeOK, BillInv, NEW e \in Event,
           RecordEvent(e) \/ MatchEvent(e) \/ SettleEvent(e) \/ ApplyEvent(e)
    PROVE  BillInv'
<1>1. /\ UNCHANGED <<stored, old, born, record, callVars, providerVars, sweep>>
      /\ \A f \in Event : hook'[f].at # "unsent" => revision'[f[1]] >= 1
  <2>1. \A f \in Event \ {e} : hook'[f] = hook[f]
    BY DEF RecordEvent, MatchEvent, SettleEvent, ApplyEvent, At, BillTypeOK
  <2>2. UNCHANGED <<stored, old, born, record, callVars, providerVars, sweep>>
    BY DEF RecordEvent, MatchEvent, SettleEvent, ApplyEvent, intentVars
  <2>3. revision[e[1]] >= 1
    <3>1. CASE RecordEvent(e)
      BY <3>1, Events DEF RecordEvent, BillTypeOK
    <3>2. CASE ~RecordEvent(e)
      BY <3>2 DEF MatchEvent, SettleEvent, ApplyEvent, BillInv
    <3> QED BY <3>1, <3>2
  <2> QED BY <2>1, <2>2, <2>3 DEF BillInv, providerVars
<1>2. (\A r \in Request : RequestInv(r)') /\ (\A j \in Intent : IntentInv(j)')
  <2>1. CASE UNCHANGED <<status, claimed, settledBy>>
    BY <1>1, <2>1 DEF BillInv, RequestInv, IntentInv, callVars, providerVars
  <2>2. CASE SettleEvent(e) /\ Settle(e[1], e[2], "webhook")
    <3>1. e[1] \in Intent /\ charge[e[1]] \in Charged
      BY <2>2, Events DEF SettleEvent, BillInv, IntentInv
    <3> QED BY <1>1, <2>2, <3>1, SettleStep
  <2> QED
    BY <2>1, <2>2 DEF RecordEvent, MatchEvent, SettleEvent, ApplyEvent, intentVars, grantVars
<1>3. \A c \in sweep.todo : ClaimInv(c)'
  BY <1>1 DEF BillInv, ClaimInv
<1>4. FetchInv'
  BY <1>1 DEF BillInv, FetchInv, providerVars
<1> QED BY <1>1, <1>2, <1>3, <1>4 DEF BillInv

\* Giving an intent up: it is pending, no request of it is in flight, and
\* nothing is charged for it or the provider refused to answer for it.
LEMMA TerminalStep ==
    ASSUME BillTypeOK, BillInv, NEW i \in Intent, NEW to \in {"failed", "abandoned"},
           MarkTerminal(i, to), i \in stored \/ i \in old,
           charge[i] \in {"void", "ended"} \/ i \notin stored \/ i \in refused,
           UNCHANGED <<stored, old, born, record, callVars, providerVars, grantVars>>
    PROVE  /\ \A r \in Request : RequestInv(r)'
           /\ \A j \in Intent : IntentInv(j)'
<1>1. CASE ~StillPending(i)
  BY <1>1 DEF MarkTerminal, BillInv, RequestInv, IntentInv, callVars, providerVars, grantVars
<1>2. CASE StillPending(i)
  <2>0. status' = [status EXCEPT ![i] = to] /\ status[i] = "pending" /\ IntentInv(i)
    BY <1>2 DEF MarkTerminal, StillPending, BillInv
  <2>1. ASSUME NEW r \in Request PROVE RequestInv(r)'
    <3>1. RequestInv(r)
      BY DEF BillInv
    <3>2. caller[r] \in InFlight => KeyOf[r] # i
      BY <3>1 DEF RequestInv
    <3> QED
      BY <2>0, <3>1, <3>2, BillingAssumption DEF RequestInv, BillTypeOK, callVars, providerVars
  <2>2. ASSUME NEW j \in Intent PROVE IntentInv(j)'
    <3>1. IntentInv(j)
      BY DEF BillInv
    <3>2. CASE j = i
      <4>1. /\ status'[i] = to /\ record[i] # "none" /\ i \notin claimed
        BY <2>0 DEF BillTypeOK, IntentInv
      <4> QED BY <2>0, <3>2, <4>1 DEF IntentInv, callVars, providerVars, grantVars
    <3>3. CASE j # i
      <4>1. status'[j] = status[j]
        BY <2>0, <3>3 DEF BillTypeOK
      <4> QED BY <3>1, <4>1 DEF IntentInv, callVars, providerVars, grantVars
    <3> QED BY <3>2, <3>3
  <2> QED BY <2>1, <2>2
<1> QED BY <1>1, <1>2

LEMMA SweepStep ==
    ASSUME BillTypeOK, BillInv, SweepNext
    PROVE  BillInv'
<1>1. /\ UNCHANGED <<stored, old, born, record, callVars, charge, revision, hook>>
      /\ UNCHANGED refused \/ \E c \in sweep.todo : SweepFetchRefused(c)
  BY DEF SweepNext, StartSweep, SweepWithoutReference, SweepFetch, SweepFetchFails,
         SweepFetchRefused, SweepSettle, intentVars, providerVars
<1>6. refused \subseteq refused'
  BY <1>1 DEF SweepFetchRefused
<1>2. (\A r \in Request : RequestInv(r)') /\ (\A j \in Intent : IntentInv(j)')
  <2>1. CASE UNCHANGED <<status, claimed, settledBy>>
    BY <1>1, <1>6, <2>1 DEF BillInv, RequestInv, IntentInv, callVars
  <2>2. ASSUME NEW c \in sweep.todo, SweepWithoutReference(c), status' # status
        PROVE  (\A r \in Request : RequestInv(r)') /\ (\A j \in Intent : IntentInv(j)')
    <3>1. /\ MarkTerminal(c.intent, "abandoned") /\ c.intent \in old \ stored
          /\ c.intent \in Intent /\ UNCHANGED <<providerVars, grantVars>>
      BY <2>2 DEF SweepWithoutReference, BillInv, ClaimInv, BillTypeOK, Claim
    <3> QED BY <1>1, <3>1, TerminalStep
  <2>3. CASE SweepSettle /\ Settle(sweep.cur.intent, sweep.version, "sweep") /\ sweep.got = "paid"
    <3>1. /\ sweep.cur.intent \in Intent /\ charge[sweep.cur.intent] \in Charged
          /\ UNCHANGED providerVars
      BY <2>3 DEF SweepSettle, BillInv, FetchInv, Claim
    <3> QED BY <1>1, <2>3, <3>1, SettleStep
  <2>4. CASE SweepSettle /\ MarkTerminal(sweep.cur.intent, "failed") /\ UNCHANGED grantVars
             /\ sweep.got \in {"ended", "void"}
    <3>1. /\ sweep.cur.intent \in Intent /\ sweep.cur.intent \in stored
          /\ charge[sweep.cur.intent] \in {"void", "ended"} /\ UNCHANGED providerVars
      BY <2>4 DEF SweepSettle, BillInv, FetchInv, Claim
    <3> QED BY <1>1, <2>4, <3>1, TerminalStep
  <2>8. CASE SweepSettle /\ MarkTerminal(sweep.cur.intent, "abandoned") /\ UNCHANGED grantVars
             /\ sweep.got = "refused"
    <3>1. /\ sweep.cur.intent \in Intent /\ sweep.cur.intent \in stored
          /\ sweep.cur.intent \in refused /\ UNCHANGED providerVars
      BY <2>8 DEF SweepSettle, BillInv, FetchInv, Claim
    <3> QED BY <1>1, <2>8, <3>1, TerminalStep
  <2>5. SweepSettle =>
          \/ UNCHANGED <<status, claimed, settledBy>>
          \/ Settle(sweep.cur.intent, sweep.version, "sweep") /\ sweep.got = "paid"
          \/ /\ MarkTerminal(sweep.cur.intent, "failed") /\ UNCHANGED grantVars
             /\ sweep.got \in {"ended", "void"}
          \/ /\ MarkTerminal(sweep.cur.intent, "abandoned") /\ UNCHANGED grantVars
             /\ sweep.got = "refused"
    BY DEF SweepSettle, Settleable, grantVars
  <2>6. (StartSweep \/ \E c \in sweep.todo :
            SweepFetch(c) \/ SweepFetchFails(c) \/ SweepFetchRefused(c))
          => UNCHANGED <<status, claimed, settledBy>>
    BY DEF StartSweep, SweepFetch, SweepFetchFails, SweepFetchRefused, intentVars, grantVars
  <2>7. (\E c \in sweep.todo : SweepWithoutReference(c)) => UNCHANGED <<claimed, settledBy>>
    BY DEF SweepWithoutReference, grantVars
  <2> QED BY <2>1, <2>2, <2>3, <2>4, <2>5, <2>6, <2>7, <2>8 DEF SweepNext
<1>3. /\ \A c \in sweep'.todo : ClaimInv(c)
      /\ FetchInv'
  <2>1. ASSUME NEW todo, todo \subseteq sweep.todo, GoesOn(todo)
        PROVE  sweep'.todo = todo /\ sweep'.at # "settle"
    BY <2>1 DEF GoesOn, IdleSweep
  <2>2. CASE StartSweep
    <3>0. PICK batch \in SUBSET Intent :
             sweep' = [sweep EXCEPT
                 !.todo = {[intent |-> i, ref |-> i \in stored, old |-> i \in old] : i \in batch},
                 !.at = "read"]
      BY <2>2, StartedBatch
    <3>1. /\ sweep'.at = "read"
          /\ sweep'.todo = {[intent |-> i, ref |-> i \in stored, old |-> i \in old] : i \in batch}
      BY <3>0 DEF BillTypeOK
    <3>2. ASSUME NEW c \in sweep'.todo PROVE ClaimInv(c)
      <4>1. PICK i \in Intent : c = [intent |-> i, ref |-> i \in stored, old |-> i \in old]
        BY <3>1
      <4>2. /\ c.intent = i /\ (c.ref <=> (i \in stored)) /\ (c.old <=> (i \in old))
        BY <4>1
      <4> QED BY <4>2 DEF ClaimInv
    <3> QED BY <3>1, <3>2 DEF FetchInv
  <2>3. ASSUME NEW c \in sweep.todo, SweepFetch(c)
        PROVE  (\A d \in sweep'.todo : ClaimInv(d)) /\ FetchInv'
    <3>1. /\ c \in Claim /\ c.intent \in Intent /\ c.intent \in stored
          /\ IntentInv(c.intent) /\ revision[c.intent] \in 0..MaxRevision
      BY <2>3 DEF SweepFetch, BillTypeOK, BillInv, ClaimInv, Claim
    <3>2. /\ sweep'.todo \subseteq sweep.todo /\ sweep'.cur = c
          /\ sweep'.got = charge[c.intent] /\ sweep'.version = revision[c.intent]
      BY <2>3 DEF SweepFetch
    <3>3. charge[c.intent] = "paid" =>
             revision[c.intent] >= 1 /\ (revision[c.intent] = 1 \/ c.intent \in Base)
      BY <3>1, BillingAssumption DEF IntentInv, Charged
    <3>4. FetchInv'
      BY <1>1, <3>1, <3>2, <3>3 DEF FetchInv, Charged, BillTypeOK
    <3> QED BY <3>2, <3>4 DEF BillInv
  <2>6. ASSUME NEW c \in sweep.todo, SweepFetchRefused(c)
        PROVE  (\A d \in sweep'.todo : ClaimInv(d)) /\ FetchInv'
    <3>1. c \in Claim /\ c.intent \in stored
      BY <2>6 DEF SweepFetchRefused, BillTypeOK, BillInv, ClaimInv
    <3>2. /\ sweep'.todo \subseteq sweep.todo /\ sweep'.cur = c /\ sweep'.got = "refused"
          /\ c.intent \in refused'
      BY <2>6 DEF SweepFetchRefused
    <3> QED BY <1>1, <3>1, <3>2 DEF BillInv, FetchInv
  <2>4. CASE \E c \in sweep.todo : SweepWithoutReference(c) \/ SweepFetchFails(c)
    <3>1. PICK c \in sweep.todo : GoesOn(sweep.todo \ {c})
      BY <2>4 DEF SweepWithoutReference, SweepFetchFails
    <3> QED BY <2>1, <3>1 DEF BillInv, FetchInv
  <2>5. CASE SweepSettle
    <3>1. GoesOn({}) \/ GoesOn(sweep.todo)
      BY <2>5 DEF SweepSettle
    <3> QED BY <2>1, <3>1 DEF BillInv, FetchInv
  <2> QED BY <2>2, <2>3, <2>4, <2>5, <2>6 DEF SweepNext
<1>4. \A c \in sweep'.todo : ClaimInv(c)'
  BY <1>1, <1>3 DEF ClaimInv
<1>5. \A e \in Event : hook'[e].at # "unsent" => revision'[e[1]] >= 1
  BY <1>1 DEF BillInv
<1> QED BY <1>2, <1>3, <1>4, <1>5 DEF BillInv

LEMMA InvStep == BillTypeOK /\ BillInv /\ [BillNext]_billVars => BillInv'
<1> SUFFICES ASSUME BillTypeOK, BillInv, [BillNext]_billVars PROVE BillInv'
  OBVIOUS
<1>1. CASE UNCHANGED billVars
  BY <1>1 DEF billVars, intentVars, callVars, providerVars, grantVars, BillInv, RequestInv,
              IntentInv, ClaimInv, FetchInv
<1>2. CASE BillNext
  BY <1>2, RequestStep, ProviderStep, WebhookStep, SweepStep DEF BillNext
<1> QED BY <1>1, <1>2

\* Every variable has its type, and what is granted, given up or charged
\* agrees with what the requests and the sweep are about to do.
THEOREM BillTypes == BillSpec => [](BillTypeOK /\ BillInv)
<1>1. BillInit => BillTypeOK /\ BillInv
  BY TypeInit, InvInit
<1>2. BillTypeOK /\ BillInv /\ [BillNext]_billVars => (BillTypeOK /\ BillInv)'
  BY TypeStep, InvStep
<1> QED BY <1>1, <1>2, PTL DEF BillSpec

\* The provider is asked at most once to open a checkout for an intent.
THEOREM CalledOnceHolds == BillSpec => []CalledOnce
<1>1. BillInv => CalledOnce
  BY DEF BillInv, IntentInv, CalledOnce
<1> QED BY <1>1, BillTypes, PTL

\* An intent that was settled is not settled again.
THEOREM SettledOnceHolds == BillSpec => SettledOnce
<1> DEFINE Once == \A i \in Intent : settledBy[i] # "nobody" => settledBy'[i] = settledBy[i]
<1>1. BillTypeOK /\ BillInv /\ [BillNext]_billVars => [Once]_billVars
  <2> SUFFICES ASSUME BillTypeOK, BillInv, BillNext,
                      NEW i \in Intent, settledBy[i] # "nobody"
               PROVE  settledBy'[i] = settledBy[i]
    OBVIOUS
  <2>1. i \in claimed
    BY DEF BillInv, IntentInv
  <2>2. ASSUME NEW j, NEW v, NEW authority, FreshClaim(j), Settle(j, v, authority)
        PROVE  settledBy'[i] = settledBy[i]
    BY <2>1, <2>2 DEF FreshClaim, Settle, BillTypeOK
  <2>3. CASE settledBy' = settledBy
    BY <2>3
  <2>4. CASE \E e \in Event : SettleEvent(e) /\ settledBy' # settledBy
    BY <2>2, <2>4 DEF SettleEvent, grantVars
  <2>5. CASE SweepSettle /\ settledBy' # settledBy
    BY <2>2, <2>5 DEF SweepSettle, grantVars
  <2>6. (\E r \in Request : \/ CheckLive(r) \/ CheckUnsettled(r) \/ InsertIntent(r)
                            \/ CallProvider(r) \/ CompleteIntent(r) \/ DropRequest(r))
           => settledBy' = settledBy
    BY DEF CheckLive, CheckUnsettled, InsertIntent, CallProvider, CompleteIntent, DropRequest,
           grantVars
  <2>7. (\E j \in Intent : Pay(j) \/ Void(j) \/ Age(j) \/ \E c \in {"paid", "ended"} : Revise(j, c))
           => settledBy' = settledBy
    BY DEF Pay, Void, Age, Revise, AtProvider, grantVars
  <2>8. (\E e \in Event : RecordEvent(e) \/ MatchEvent(e) \/ ApplyEvent(e))
           => settledBy' = settledBy
    BY DEF RecordEvent, MatchEvent, ApplyEvent, grantVars
  <2>9. SweepNext => SweepSettle \/ settledBy' = settledBy
    BY DEF SweepNext, StartSweep, SweepWithoutReference, SweepFetch, SweepFetchFails,
           SweepFetchRefused, grantVars
  <2> QED BY <2>3, <2>4, <2>5, <2>6, <2>7, <2>8, <2>9 DEF BillNext
<1>2. SettledOnce <=> [][Once]_billVars
  BY DEF SettledOnce
<1> QED BY <1>1, <1>2, BillTypes, PTL DEF BillSpec

\* The purchase as one charge and one status show it.
MoneyOf(c) == IF c \in Charged THEN (IF c = "paid" THEN "held" ELSE "ended") ELSE "none"
PhaseOf(s) == CASE s \in {"none", "pending"} -> "open"
                [] s = "activated" -> "granted"
                [] OTHER -> "dropped"

LEMMA Seen ==
    /\ Money = [i \in Intent |-> MoneyOf(charge[i])]
    /\ Phase = [i \in Intent |-> PhaseOf(status[i])]
    /\ Money' = [i \in Intent |-> MoneyOf(charge'[i])]
    /\ Phase' = [i \in Intent |-> PhaseOf(status'[i])]
BY DEF Money, Phase, MoneyOf, PhaseOf, Charged

LEMMA PromisePay ==
    ASSUME NEW i \in Intent, charge[i] \notin Charged,
           PhaseOf(status[i]) = "open" \/ i \in refused,
           charge \in [Intent -> Charges], charge' = [charge EXCEPT ![i] = "paid"],
           status' = status, refused' = refused
    PROVE  Promise!Pay(i)
BY Seen DEF Promise!Pay, MoneyOf, Charged

LEMMA PromiseEnd ==
    ASSUME NEW i \in Intent, charge[i] = "paid",
           charge \in [Intent -> Charges], charge' = [charge EXCEPT ![i] = "ended"],
           status' = status, refused' = refused
    PROVE  Promise!End(i)
BY Seen DEF Promise!End, MoneyOf, Charged

LEMMA PromiseGrant ==
    ASSUME BillTypeOK, BillInv, NEW i \in Intent, NEW v, NEW authority,
           FreshClaim(i), charge[i] \in Charged, Settle(i, v, authority),
           charge' = charge, refused' = refused
    PROVE  Promise!Grant(i)
<1>1. status[i] # "activated" /\ status' = [status EXCEPT ![i] = "activated"]
  BY DEF FreshClaim, Settle, BillInv, IntentInv
<1>2. PhaseOf(status[i]) # "granted" /\ PhaseOf("activated") = "granted" /\ MoneyOf(charge[i]) # "none"
  BY <1>1 DEF PhaseOf, MoneyOf
<1>3. \A j \in Intent : status'[j] = IF j = i THEN "activated" ELSE status[j]
  BY <1>1 DEF BillTypeOK
<1>4. Money' = Money /\ Money[i] # "none" /\ Phase[i] # "granted"
  BY <1>2, Seen
<1>5. Phase' = [Phase EXCEPT ![i] = "granted"]
  BY <1>2, <1>3, Seen
<1> QED BY <1>4, <1>5 DEF Promise!Grant

LEMMA PromiseDrop ==
    ASSUME BillTypeOK, NEW i \in Intent, status[i] = "pending",
           charge[i] # "paid" \/ i \in refused,
           NEW to \in {"failed", "abandoned"}, status' = [status EXCEPT ![i] = to],
           charge' = charge, refused' = refused
    PROVE  Promise!Drop(i)
<1>1. PhaseOf("pending") = "open" /\ PhaseOf(to) = "dropped"
      /\ (MoneyOf(charge[i]) # "held" \/ i \in refused)
  BY DEF PhaseOf, MoneyOf
<1>2. \A j \in Intent : status'[j] = IF j = i THEN to ELSE status[j]
  BY DEF BillTypeOK
<1>3. Money' = Money /\ (Money[i] # "held" \/ i \in refused) /\ Phase[i] = "open"
  BY <1>1, Seen
<1>4. Phase' = [Phase EXCEPT ![i] = "dropped"]
  BY <1>1, <1>2, Seen
<1> QED BY <1>3, <1>4 DEF Promise!Drop

\* The promise does not notice the step.
Same == Money' = Money /\ Phase' = Phase /\ refused' = refused

LEMMA PromiseStep ==
    BillTypeOK /\ BillInv /\ [BillNext]_billVars => [Promise!Next]_(Promise!vars)
<1> SUFFICES ASSUME BillTypeOK, BillInv, [BillNext]_billVars
             PROVE  Promise!Next \/ Same
  BY DEF Promise!vars, Same
<1> USE DEF Promise!Next
<1>1. \A i \in Intent : IntentInv(i)
  BY DEF BillInv
<1>2. CASE UNCHANGED <<charge, status, refused>>
  BY <1>2, Seen DEF Same
<1>3. ASSUME NEW r \in Request, InsertIntent(r), status' # status
      PROVE  Same
  <2>1. /\ record[KeyOf[r]] = "none" /\ KeyOf[r] \in Intent /\ UNCHANGED <<charge, refused>>
        /\ status' = [status EXCEPT ![KeyOf[r]] = "pending"]
    BY <1>3, BillingAssumption DEF InsertIntent, Insertable, providerVars
  <2>2. status[KeyOf[r]] = "none" /\ PhaseOf("none") = PhaseOf("pending")
    BY <1>1, <2>1 DEF IntentInv, PhaseOf
  <2>3. \A j \in Intent : PhaseOf(status'[j]) = PhaseOf(status[j])
    BY <2>1, <2>2 DEF BillTypeOK
  <2> QED BY <1>3, <2>1, <2>3, Seen DEF Same
<1>4. ASSUME NEW r \in Request, CallProvider(r)
      PROVE  Same
  <2>1. KeyOf[r] \in Intent /\ charge[KeyOf[r]] = "none" /\ UNCHANGED <<status, refused>>
    BY <1>4, BillingAssumption DEF CallProvider, BillInv, RequestInv, InFlight, intentVars
  <2>2. \A j \in Intent : MoneyOf(charge'[j]) = MoneyOf(charge[j])
    BY <1>4, <2>1 DEF CallProvider, BillTypeOK, MoneyOf, Charged
  <2> QED BY <2>1, <2>2, Seen DEF Same
<1>5. ASSUME NEW r \in Request, CompleteIntent(r), status' # status PROVE Promise!Next
  <2>1. /\ caller[r] = "rejected" /\ UNCHANGED <<charge, refused>> /\ KeyOf[r] \in Intent
        /\ status' = [status EXCEPT ![KeyOf[r]] = "failed"]
    BY <1>5, BillingAssumption DEF CompleteIntent, providerVars
  <2>2. status[KeyOf[r]] = "pending" /\ KeyOf[r] \notin stored
    BY <2>1 DEF BillInv, RequestInv, InFlight
  <2>3. charge[KeyOf[r]] # "paid"
    BY <1>1, <2>1, <2>2 DEF IntentInv, Charged
  <2> QED BY <2>1, <2>2, <2>3, PromiseDrop
<1>6. ASSUME NEW i \in Intent, Pay(i) PROVE Promise!Next
  <2>1. /\ charge[i] = "open" /\ i \in stored /\ UNCHANGED <<status, refused>>
        /\ charge' = [charge EXCEPT ![i] = "paid"]
    BY <1>6 DEF Pay, AtProvider, intentVars
  <2>2. status[i] \in {"none", "pending"} \/ i \in refused
    BY <1>1, <2>1 DEF IntentInv, BillTypeOK, Charged
  <2> QED BY <2>1, <2>2, PromisePay DEF BillTypeOK, Charges, PhaseOf, Charged
<1>7. ASSUME NEW i \in Intent, Void(i) PROVE Same
  <2>1. \A j \in Intent : MoneyOf(charge'[j]) = MoneyOf(charge[j])
    BY <1>7 DEF Void, AtProvider, BillTypeOK, MoneyOf, Charged
  <2> QED BY <1>7, <2>1, Seen DEF Void, AtProvider, intentVars, Same
<1>8. ASSUME NEW i \in Intent, NEW c \in {"paid", "ended"}, Revise(i, c)
      PROVE  Promise!Next \/ Same
  <2>1. charge[i] = "paid" /\ charge' = [charge EXCEPT ![i] = c]
        /\ UNCHANGED <<status, refused>>
    BY <1>8 DEF Revise, AtProvider, intentVars
  <2>2. CASE c = "paid"
    <3>1. \A j \in Intent : charge'[j] = charge[j]
      BY <2>1, <2>2 DEF BillTypeOK
    <3> QED BY <2>1, <3>1, Seen DEF Same
  <2>3. CASE c = "ended"
    BY <2>1, <2>3, PromiseEnd DEF BillTypeOK, Charges
  <2> QED BY <2>2, <2>3
<1>9. ASSUME NEW e \in Event, SettleEvent(e), ~UNCHANGED <<status, grantVars>> PROVE Promise!Next
  <2>1. /\ FreshClaim(e[1]) /\ Settle(e[1], e[2], "webhook") /\ UNCHANGED <<charge, refused>>
        /\ e[1] \in Intent /\ charge[e[1]] \in Charged
    BY <1>1, <1>9, Events DEF SettleEvent, BillInv, IntentInv, providerVars
  <2> QED BY <2>1, PromiseGrant
<1>10. ASSUME SweepSettle, status' # status PROVE Promise!Next
  <2> DEFINE i == sweep.cur.intent
  <2>0. UNCHANGED <<charge, refused>> /\ sweep.at = "settle"
    BY <1>10 DEF SweepSettle, providerVars
  <2>1. CASE FreshClaim(i) /\ sweep.got = "paid" /\ Settle(i, sweep.version, "sweep")
    <3>1. i \in Intent /\ charge[i] \in Charged
      BY <2>0, <2>1 DEF BillInv, FetchInv, Claim
    <3> QED BY <2>0, <2>1, <3>1, PromiseGrant
  <2>2. CASE sweep.got \in {"ended", "void"} /\ MarkTerminal(i, "failed")
    <3>1. i \in Intent /\ charge[i] # "paid"
      BY <2>0, <2>2 DEF BillInv, FetchInv, Claim
    <3>2. status[i] = "pending" /\ status' = [status EXCEPT ![i] = "failed"]
      BY <1>10, <2>2 DEF MarkTerminal, StillPending
    <3> QED BY <2>0, <3>1, <3>2, PromiseDrop
  <2>3. CASE sweep.got = "refused" /\ MarkTerminal(i, "abandoned")
    <3>1. i \in Intent /\ i \in refused
      BY <2>0, <2>3 DEF BillInv, FetchInv, Claim
    <3>2. status[i] = "pending" /\ status' = [status EXCEPT ![i] = "abandoned"]
      BY <1>10, <2>3 DEF MarkTerminal, StillPending
    <3> QED BY <2>0, <3>1, <3>2, PromiseDrop
  <2> QED BY <1>10, <2>1, <2>2, <2>3 DEF SweepSettle, Settleable
<1>11. ASSUME NEW c \in sweep.todo, SweepWithoutReference(c), status' # status PROVE Promise!Next
  <2>1. /\ MarkTerminal(c.intent, "abandoned") /\ c.intent \in Intent /\ c.intent \notin stored
        /\ UNCHANGED <<charge, refused>>
    BY <1>11 DEF SweepWithoutReference, BillInv, ClaimInv, BillTypeOK, Claim, providerVars
  <2>2. charge[c.intent] # "paid"
    BY <1>1, <2>1 DEF IntentInv, Charged
  <2>3. status[c.intent] = "pending" /\ status' = [status EXCEPT ![c.intent] = "abandoned"]
    BY <1>11, <2>1 DEF MarkTerminal, StillPending
  <2> QED BY <2>1, <2>2, <2>3, PromiseDrop
<1>15. ASSUME NEW c \in sweep.todo, SweepFetchRefused(c) PROVE Promise!Next
  <2>1. /\ c.intent \in Intent /\ refused' = refused \cup {c.intent}
        /\ UNCHANGED <<charge, status>>
    BY <1>15 DEF SweepFetchRefused, BillTypeOK, Claim, intentVars
  <2>2. Promise!Refuse(c.intent)
    BY <2>1, Seen DEF Promise!Refuse
  <2> QED BY <2>1, <2>2
<1>12. BillNext =>
         \/ UNCHANGED <<charge, status, refused>>
         \/ \E r \in Request : \/ InsertIntent(r) /\ status' # status
                               \/ CallProvider(r)
                               \/ CompleteIntent(r) /\ status' # status
         \/ \E i \in Intent : Pay(i) \/ Void(i) \/ \E c \in {"paid", "ended"} : Revise(i, c)
         \/ \E e \in Event : SettleEvent(e) /\ ~UNCHANGED <<status, grantVars>>
         \/ SweepSettle /\ status' # status
         \/ \E c \in sweep.todo : \/ SweepWithoutReference(c) /\ status' # status
                                  \/ SweepFetchRefused(c)
  <2>1. \A r \in Request : CheckLive(r) \/ CheckUnsettled(r) \/ DropRequest(r)
           => UNCHANGED <<charge, status, refused>>
    BY DEF CheckLive, CheckUnsettled, DropRequest, intentVars, providerVars
  <2>2. \A r \in Request : InsertIntent(r) \/ CompleteIntent(r) => UNCHANGED <<charge, refused>>
    BY DEF InsertIntent, CompleteIntent, providerVars
  <2>3. \A i \in Intent : Age(i) => UNCHANGED <<charge, status, refused>>
    BY DEF Age, providerVars
  <2>4. \A e \in Event : RecordEvent(e) \/ MatchEvent(e) \/ ApplyEvent(e)
           => UNCHANGED <<charge, status, refused>>
    BY DEF RecordEvent, MatchEvent, ApplyEvent, intentVars, providerVars
  <2>5. \A e \in Event : SettleEvent(e) => UNCHANGED <<charge, refused>>
    BY DEF SettleEvent, providerVars
  <2>6. SweepNext => \/ UNCHANGED <<charge, refused>>
                     \/ \E c \in sweep.todo : SweepFetchRefused(c)
    BY DEF SweepNext, StartSweep, SweepWithoutReference, SweepFetch, SweepFetchFails,
           SweepSettle, providerVars
  <2>7. SweepNext /\ status' # status =>
          SweepSettle \/ \E c \in sweep.todo : SweepWithoutReference(c)
    BY DEF SweepNext, StartSweep, SweepFetch, SweepFetchFails, SweepFetchRefused, intentVars
  <2> QED BY <2>1, <2>2, <2>3, <2>4, <2>5, <2>6, <2>7 DEF BillNext
<1>13. CASE UNCHANGED billVars
  BY <1>2, <1>13 DEF billVars, intentVars, providerVars
<1>14. CASE BillNext
  BY <1>2, <1>3, <1>4, <1>5, <1>6, <1>7, <1>8, <1>9, <1>10, <1>11, <1>12, <1>14, <1>15
<1> QED BY <1>13, <1>14

\* The requests, the webhooks, the provider and the sweep, in any order and
\* with any of them dying, implement Purchase.
THEOREM KeepsPromiseHolds == BillSpec => KeepsPromise
<1>1. BillInit => Promise!Init
  <2> SUFFICES ASSUME BillInit PROVE Promise!Init
    OBVIOUS
  <2>1. PhaseOf("none") = "open" /\ MoneyOf("none") = "none"
    BY DEF PhaseOf, MoneyOf, Charged
  <2> QED BY <2>1, Seen DEF BillInit, Promise!Init
<1>2. BillTypeOK /\ BillInv /\ [BillNext]_billVars => [Promise!Next]_(Promise!vars)
  BY PromiseStep
<1> QED BY <1>1, <1>2, BillTypes, PTL DEF BillSpec, KeepsPromise, Promise!Spec
=============================================================================
