------------------------- MODULE BillingActivation -------------------------
(***************************************************************************)
(* From a purchase request to the grants it pays for (api/billing.py,       *)
(* domain/billing/idempotency.py, activations.py, webhooks.py, service.py,  *)
(* reconciliation.py).  A request commits an intent, calls the provider     *)
(* outside any transaction and commits the answer; the customer pays at the *)
(* provider; webhooks and an operator's sweep settle the intent, each from  *)
(* what the provider says.  A step is one transaction, one statement of it  *)
(* where another may commit in between, or one provider call.               *)
(***************************************************************************)
EXTENDS Naturals, FiniteSets, Sequences

CONSTANTS
    Intent,      \* purchases, each under an Idempotency-Key of its own
    Base,        \* the intents for a base plan; the others are top-ups
    AccountOf,   \* the billing account of an intent
    Request,     \* HTTP requests
    KeyOf,       \* the intent (the key) a request carries
    BatchSizes,  \* the limits an operator may give a sweep
    MaxRevision  \* bound on the provider's versions of one subscription

ASSUME BillingAssumption ==
    /\ IsFiniteSet(Intent)
    /\ Base \subseteq Intent
    /\ KeyOf \in [Request -> Intent]
    /\ BatchSizes \subseteq Nat \ {0} /\ BatchSizes # {}
    /\ MaxRevision \in Nat \ {0}

VARIABLES
    status,    \* PendingActivation.status
    stored,    \* intents whose external_reference is committed
    old,       \* intents older than reconciliation_abandon_after_seconds
    born,      \* the intents in the order of created_at
    record,    \* IdempotencyRecord.state of an intent's key
    caller,    \* where a request is in the route
    calls,     \* provider calls made for an intent
    charge,    \* the provider's subscription or payment link
    revision,  \* its newest version at the provider; version v is event v
    refused,   \* intents the provider refused for good to answer a sweep for
    claimed,   \* intents with an activation record
    settledBy, \* who settled an intent
    sub,       \* the BillingSubscription row of a base intent
    bundles,   \* grant bundles, by intent and period
    revoked,   \* bundles with a revocation
    hook,      \* the webhook of an event, and what it loaded
    sweep      \* the reconciliation sweep

intentVars == <<status, stored, old, born, record>>
callVars == <<caller, calls>>
providerVars == <<charge, revision, refused>>
grantVars == <<claimed, settledBy, sub, bundles, revoked>>
billVars == <<intentVars, callVars, providerVars, grantVars, hook, sweep>>

Event == {e \in Intent \X (1..MaxRevision) : e[1] \in Base \/ e[2] = 1}
NoSub == [status |-> "none", version |-> 0, current |-> FALSE]
SubRow == [status : {"none", "active", "cancelled"},
           version : 0..MaxRevision, current : BOOLEAN]
Claim == [intent : Intent, ref : BOOLEAN, old : BOOLEAN]
Nothing == [intent |-> "none", ref |-> FALSE, old |-> FALSE]
IdleSweep == [todo |-> {}, at |-> "idle", cur |-> Nothing, got |-> "none", version |-> 0]

BillTypeOK ==
    /\ status \in [Intent -> {"none", "pending", "activated", "failed", "abandoned"}]
    /\ stored \subseteq Intent
    /\ old \subseteq Intent
    /\ born \in Seq(Intent)
    /\ record \in [Intent -> {"none", "started", "completed"}]
    /\ caller \in [Request -> {"start", "checked", "vacant", "calling",
                               "answered", "rejected", "done"}]
    /\ calls \in [Intent -> Nat]
    /\ charge \in [Intent -> {"none", "open", "paid", "ended", "void"}]
    /\ revision \in [Intent -> 0..MaxRevision]
    /\ refused \subseteq Intent
    /\ claimed \subseteq Intent
    /\ settledBy \in [Intent -> {"nobody", "webhook", "sweep"}]
    /\ sub \in [Base -> SubRow]
    /\ bundles \subseteq Event
    /\ revoked \subseteq Event
    /\ hook \in [Event -> [at : {"unsent", "recorded", "settle", "apply", "done"},
                           seen : SubRow]]
    /\ sweep \in [todo : SUBSET Claim, at : {"idle", "read", "settle"},
                  cur : Claim \cup {Nothing},
                  got : {"none", "open", "paid", "ended", "void", "refused"},
                  version : 0..MaxRevision]

BillInit ==
    /\ status = [i \in Intent |-> "none"]
    /\ stored = {}
    /\ old = {}
    /\ born = <<>>
    /\ record = [i \in Intent |-> "none"]
    /\ caller = [r \in Request |-> "start"]
    /\ calls = [i \in Intent |-> 0]
    /\ charge = [i \in Intent |-> "none"]
    /\ revision = [i \in Intent |-> 0]
    /\ refused = {}
    /\ claimed = {}
    /\ settledBy = [i \in Intent |-> "nobody"]
    /\ sub = [i \in Base |-> NoSub]
    /\ bundles = {}
    /\ revoked = {}
    /\ hook = [e \in Event |-> [at |-> "unsent", seen |-> NoSub]]
    /\ sweep = IdleSweep

Rivals(i) == {j \in Base \ {i} : AccountOf[j] = AccountOf[i]}

\* current_base_subscription with a live status.
HasLiveBase(i) ==
    \E j \in Base : /\ AccountOf[j] = AccountOf[i]
                    /\ sub[j].current /\ sub[j].status = "active"

\* pending_base_activation, and what uq_pending_activation_one_pending_base
\* refuses.
SlotTaken(i) == \E j \in Rivals(i) \cup {i} : status[j] = "pending"

\* uq_billing_subscription_one_current.
RivalCurrent(i) == \E j \in Rivals(i) : sub[j].current

(***************************************************************************)
(* A request: replay, state checks, commit of the intent, provider call,    *)
(* commit of the answer.                                                    *)
(***************************************************************************)

Move(r, to) == caller' = [caller EXCEPT ![r] = to]

\* _replayed_activation, then _reject_live_base or _require_live_base.
CheckLive(r) ==
    LET i == KeyOf[r] IN
    /\ caller[r] = "start"
    /\ Move(r, IF record[i] # "none" \/ (i \in Base) = HasLiveBase(i)
               THEN "done" ELSE "checked")
    /\ UNCHANGED <<intentVars, calls, providerVars, grantVars, hook, sweep>>

\* _reject_unsettled_base, then the replay execute_intent begins with.
CheckUnsettled(r) ==
    LET i == KeyOf[r] IN
    /\ caller[r] = "checked"
    /\ Move(r, IF record[i] # "none" \/ (i \in Base /\ SlotTaken(i))
               THEN "done" ELSE "vacant")
    /\ UNCHANGED <<intentVars, calls, providerVars, grantVars, hook, sweep>>

\* Fault: no unique key on the account and the Idempotency-Key.
InsertableAgain(i) == ~\E j \in Rivals(i) : i \in Base /\ status[j] = "pending"

\* The unique keys decide: the loser of a race replays the winner or refuses.
Insertable(i) == record[i] = "none" /\ ~(i \in Base /\ SlotTaken(i))

\* _insert_intent: the pending row and the started record, in one commit
\* before any provider call.
InsertIntent(r) ==
    LET i == KeyOf[r] IN
    /\ caller[r] = "vacant"
    /\ IF Insertable(i)
       THEN /\ status' = [status EXCEPT ![i] = "pending"]
            /\ born' = Append(born, i)
            /\ record' = [record EXCEPT ![i] = "started"]
            /\ Move(r, "calling")
       ELSE /\ Move(r, "done")
            /\ UNCHANGED <<status, born, record>>
    /\ UNCHANGED <<stored, old, calls, providerVars, grantVars, hook, sweep>>

\* provider_call.  An uncertain answer ends the request and leaves the intent
\* pending, with or without something at the provider; an answer that is
\* refused (an unexpected amount, plan or address) may have left something too.
CallProvider(r) ==
    LET i == KeyOf[r] IN
    /\ caller[r] = "calling"
    /\ calls' = [calls EXCEPT ![i] = @ + 1]
    /\ \/ /\ Move(r, "answered")
          /\ charge' = [charge EXCEPT ![i] = "open"]
       \/ /\ \E to \in {"done", "rejected"} : Move(r, to)
          /\ \E c \in {"none", "open"} : charge' = [charge EXCEPT ![i] = c]
    /\ UNCHANGED <<intentVars, revision, refused, grantVars, hook, sweep>>

\* The reference and the checkout URL, or the failure, with the response.
\* The failure overwrites the status without reading it again.
CompleteIntent(r) ==
    LET i == KeyOf[r] IN
    /\ caller[r] \in {"answered", "rejected"}
    /\ IF caller[r] = "answered"
       THEN stored' = stored \cup {i} /\ UNCHANGED status
       ELSE status' = [status EXCEPT ![i] = "failed"] /\ UNCHANGED stored
    /\ record' = [record EXCEPT ![i] = "completed"]
    /\ Move(r, "done")
    /\ UNCHANGED <<old, born, calls, providerVars, grantVars, hook, sweep>>

\* The API process dies with the request (one that dies before its intent is
\* committed just never goes on).
DropRequest(r) ==
    /\ caller[r] \in {"calling", "answered", "rejected"}
    /\ Move(r, "done")
    /\ UNCHANGED <<intentVars, calls, providerVars, grantVars, hook, sweep>>

(***************************************************************************)
(* The provider and the customer.  A checkout can be paid once its URL was  *)
(* committed.                                                               *)
(***************************************************************************)

AtProvider(i, c) ==
    /\ charge' = [charge EXCEPT ![i] = c]
    /\ UNCHANGED <<intentVars, callVars, refused, grantVars, hook, sweep>>

Pay(i) ==
    /\ charge[i] = "open"
    /\ i \in stored
    /\ revision' = [revision EXCEPT ![i] = 1]
    /\ AtProvider(i, "paid")

\* An unpaid checkout expires.
Void(i) ==
    /\ charge[i] = "open"
    /\ UNCHANGED revision
    /\ AtProvider(i, "void")

\* The next period of a subscription is charged, or the subscription is
\* cancelled at once.
Revise(i, c) ==
    /\ i \in Base
    /\ charge[i] = "paid"
    /\ revision[i] < MaxRevision
    /\ revision' = [revision EXCEPT ![i] = @ + 1]
    /\ AtProvider(i, c)

\* An hour-scale window passes; a request is answered or dead well before.
Age(i) ==
    /\ status[i] = "pending"
    /\ i \notin old
    /\ \A r \in Request : KeyOf[r] = i =>
           caller[r] \notin {"calling", "answered", "rejected"}
    /\ old' = old \cup {i}
    /\ UNCHANGED <<status, stored, born, record, callVars, providerVars,
                   grantVars, hook, sweep>>

(***************************************************************************)
(* activate_pending, shared by the webhook and the sweep.                   *)
(***************************************************************************)

\* Fault: an activation record is never found.
ClaimsAlways(i) == TRUE

\* _claim_activation: False when the activation was recorded before.
FreshClaim(i) == i \notin claimed

\* The transaction ends in an error that no caller handles: the one-current
\* index for a second base plan, or live_base_subscription for a top-up.
Conflicts(i) == IF i \in Base THEN RivalCurrent(i) ELSE ~HasLiveBase(i)

\* _settle and the fields of the settled intent, for version v of its record:
\* the subscription row, its period's bundle, the status.
Settle(i, v, authority) ==
    /\ claimed' = claimed \cup {i}
    /\ settledBy' = [settledBy EXCEPT ![i] = authority]
    /\ status' = [status EXCEPT ![i] = "activated"]
    /\ bundles' = bundles \cup {<<i, v>>}
    /\ sub' = IF i \in Base
              THEN [sub EXCEPT ![i] = [status |-> "active", version |-> v,
                                       current |-> TRUE]]
              ELSE sub
    /\ UNCHANGED revoked

(***************************************************************************)
(* A webhook: its event row is committed, then the event is dispatched from *)
(* what an unlocked read finds.                                             *)
(***************************************************************************)

IsLast(e) == charge[e[1]] = "ended" /\ e[2] = revision[e[1]]

At(e, to) == hook' = [hook EXCEPT ![e].at = to]

\* _record_event and its commit.  A redelivery finds the row and changes
\* nothing, so an event is dispatched at most once.  A process that dies in
\* between never takes the event's next step: none of them is fair.
RecordEvent(e) ==
    /\ e[2] <= revision[e[1]]
    /\ hook[e].at = "unsent"
    /\ At(e, "recorded")
    /\ UNCHANGED <<intentVars, callVars, providerVars, grantVars, sweep>>

\* _process_subscription_event's read of the subscription, else
\* _pending_for_reference; without a match the event is UNMATCHED.
MatchEvent(e) ==
    LET i == e[1] IN
    /\ hook[e].at = "recorded"
    /\ hook' = [hook EXCEPT ![e] =
           IF i \in Base /\ sub[i] # NoSub THEN [at |-> "apply", seen |-> sub[i]]
           ELSE IF i \in stored /\ status[i] = "pending"
                THEN [at |-> "settle", seen |-> NoSub]
                ELSE [at |-> "done", seen |-> NoSub]]
    /\ UNCHANGED <<intentVars, callVars, providerVars, grantVars, sweep>>

\* activate_pending.  The session still holds the pending row it matched, and
\* the locked read does not refresh it: only the activation record tells.
SettleEvent(e) ==
    LET i == e[1] IN
    /\ hook[e].at = "settle"
    /\ At(e, "done")
    /\ IF FreshClaim(i) /\ ~IsLast(e) /\ ~Conflicts(i)
       THEN Settle(i, e[2], "webhook")
       ELSE UNCHANGED <<status, grantVars>>
    /\ UNCHANGED <<stored, old, born, record, callVars, providerVars, sweep>>

\* What a session writes of a field: nothing when it equals what it loaded.
Written(new, loaded, row) == IF new = loaded THEN row ELSE new

\* apply_subscription_state: the version test and the dirty columns are those
\* of the row this session loaded before it waited for the lock.
ApplyEvent(e) ==
    LET i == e[1]
        v == e[2]
        seen == hook[e].seen
    IN  /\ hook[e].at = "apply"
        /\ At(e, "done")
        /\ IF v < seen.version
           THEN UNCHANGED <<sub, bundles, revoked>>
           ELSE /\ sub' = [sub EXCEPT ![i] =
                       [status |-> Written(IF IsLast(e) THEN "cancelled" ELSE "active",
                                           seen.status, @.status),
                        version |-> Written(v, seen.version, @.version),
                        current |-> @.current /\ ~IsLast(e)]]
                /\ bundles' = IF IsLast(e) THEN bundles ELSE bundles \cup {e}
                /\ revoked' = IF IsLast(e)
                              THEN revoked \cup {b \in bundles : b[1] = i}
                              ELSE revoked
        /\ UNCHANGED <<intentVars, callVars, providerVars, claimed, settledBy, sweep>>

(***************************************************************************)
(* The reconciliation sweep, started by an operator.                        *)
(***************************************************************************)

\* Fault: only intents whose request was cut short are swept.
ClaimsStarted(i) == status[i] = "pending" /\ record[i] = "started"

\* Fault: an intent without a reference is never swept.
ClaimsReferenced(i) == status[i] = "pending" /\ i \in stored

\* Rows for the sweep, once they are stale.
Claimable(i) == status[i] = "pending"

Older(j, i) == \E m, n \in DOMAIN born : m < n /\ born[m] = j /\ born[n] = i

\* _claim_batch: the oldest pending intents up to the limit, whose accounts
\* they are, with the reference they have now; the claim is committed and
\* nothing is locked afterwards.
StartSweep ==
    LET pending == {i \in Intent : Claimable(i)}
        Batch(n) == {i \in pending : Cardinality({j \in pending : Older(j, i)}) < n}
    IN  /\ sweep.at = "idle"
        /\ pending # {}
        /\ \E n \in BatchSizes :
               sweep' = [sweep EXCEPT
                   !.todo = {[intent |-> i, ref |-> i \in stored, old |-> i \in old] :
                               i \in Batch(n)},
                   !.at = "read"]
        /\ UNCHANGED <<intentVars, callVars, providerVars, grantVars, hook>>

\* The oldest of the claims that are left.
First(c) == \A d \in sweep.todo : ~Older(d.intent, c.intent)

\* The sweep goes on with these claims, or ends.
GoesOn(todo) ==
    sweep' = [IdleSweep EXCEPT !.todo = todo, !.at = IF todo = {} THEN "idle" ELSE "read"]

\* Fault: whatever the row has become, it is written.
StillPendingOrNot(i) == TRUE

\* _mark_terminal selects the row where it is still pending.
StillPending(i) == status[i] = "pending"

MarkTerminal(i, to) ==
    status' = IF StillPending(i) THEN [status EXCEPT ![i] = to] ELSE status

\* _fetch_provider_record.  Without a reference there is nothing to fetch, and
\* an old intent is abandoned.
SweepWithoutReference(c) ==
    /\ sweep.at = "read" /\ First(c)
    /\ ~c.ref
    /\ IF c.old THEN MarkTerminal(c.intent, "abandoned") ELSE UNCHANGED status
    /\ GoesOn(sweep.todo \ {c})
    /\ UNCHANGED <<stored, old, born, record, callVars, providerVars, grantVars, hook>>

SweepFetch(c) ==
    /\ sweep.at = "read" /\ First(c)
    /\ c.ref
    /\ sweep' = [todo |-> sweep.todo \ {c}, at |-> "settle", cur |-> c,
                 got |-> charge[c.intent], version |-> revision[c.intent]]
    /\ UNCHANGED <<intentVars, callVars, providerVars, grantVars, hook>>

\* An error that may pass leaves the intent for later, and so does any error
\* while the intent is young.
SweepFetchFails(c) ==
    /\ sweep.at = "read" /\ First(c)
    /\ c.ref
    /\ GoesOn(sweep.todo \ {c})
    /\ UNCHANGED <<intentVars, callVars, providerVars, grantVars, hook>>

\* An error that will not pass (any 4xx answer) counts as no record at all.
SweepFetchRefused(c) ==
    /\ sweep.at = "read" /\ First(c)
    /\ c.ref /\ c.old
    /\ refused' = refused \cup {c.intent}
    /\ sweep' = [todo |-> sweep.todo \ {c}, at |-> "settle", cur |-> c,
                 got |-> "refused", version |-> 0]
    /\ UNCHANGED <<intentVars, callVars, charge, revision, grantVars, hook>>

\* Fault: a checkout nobody has paid counts as settleable.
OpenSettles(got) == got \in {"open", "paid"}

\* _authoritative_status: activated.
Settleable(got) == got = "paid"

\* _settle_claim on what was fetched.  An error other than a rejection leaves
\* the sweep, with the claims after this one untouched.
SweepSettle ==
    LET i == sweep.cur.intent
        settles == Settleable(sweep.got) /\ StillPending(i) /\ FreshClaim(i)
    IN  /\ sweep.at = "settle"
        /\ IF settles /\ ~Conflicts(i)
           THEN Settle(i, sweep.version, "sweep")
           ELSE /\ CASE sweep.got \in {"ended", "void"} -> MarkTerminal(i, "failed")
                     [] sweep.got = "refused" -> MarkTerminal(i, "abandoned")
                     [] OTHER -> UNCHANGED status
                /\ UNCHANGED grantVars
        /\ GoesOn(IF settles /\ Conflicts(i) THEN {} ELSE sweep.todo)
        /\ UNCHANGED <<stored, old, born, record, callVars, providerVars, hook>>

SweepNext ==
    \/ StartSweep \/ SweepSettle
    \/ \E c \in sweep.todo : \/ SweepWithoutReference(c) \/ SweepFetch(c)
                            \/ SweepFetchFails(c) \/ SweepFetchRefused(c)

BillNext ==
    \/ \E r \in Request : \/ CheckLive(r) \/ CheckUnsettled(r) \/ InsertIntent(r)
                          \/ CallProvider(r) \/ CompleteIntent(r) \/ DropRequest(r)
    \/ \E i \in Intent : \/ Pay(i) \/ Void(i) \/ Age(i)
                         \/ \E c \in {"paid", "ended"} : Revise(i, c)
    \/ \E e \in Event : \/ RecordEvent(e) \/ MatchEvent(e) \/ SettleEvent(e)
                        \/ ApplyEvent(e)
    \/ SweepNext

BillSpec == BillInit /\ [][BillNext]_billVars

(***************************************************************************)
(* Properties.                                                              *)
(***************************************************************************)

\* Whatever the retries, races and deaths of the requests that carry a key,
\* the provider is asked at most once to open a checkout for it
\* (_insert_intent commits before the call, replay_intent never calls).
CalledOnce == \A i \in Intent : calls[i] <= 1

\* The webhooks and the sweep that reach one intent settle it once: who
\* settled it is never overwritten, though a webhook may act on a row it
\* read before another settled it (_claim_activation).
SettledOnce ==
    [][\A i \in Intent : settledBy[i] # "nobody" => settledBy'[i] = settledBy[i]]_billVars

\* The purchase an intent stands for.
Money == [i \in Intent |-> IF charge[i] \in {"paid", "ended"}
                           THEN (IF charge[i] = "paid" THEN "held" ELSE "ended")
                           ELSE "none"]
Phase == [i \in Intent |-> CASE status[i] \in {"none", "pending"} -> "open"
                             [] status[i] = "activated" -> "granted"
                             [] OTHER -> "dropped"]
Promise == INSTANCE Purchase WITH Sale <- Intent, money <- Money, phase <- Phase

\* Requests, webhooks and sweeps together keep what Purchase promises: grants
\* once and only for money, and none is given up that was or can be paid,
\* unless the provider refused to answer for it.
KeepsPromise == Promise!Spec

\* An intent every sweep raises on, before the claims behind it are read.
Stuck(i) == status[i] = "pending" /\ charge[i] = "paid" /\ Conflicts(i)

\* An intent some sweeps do not reach: older ones, of any account, fill the
\* batch.  They may stay pending for as long as their checkouts stay open.
Crowded(i) ==
    \E n \in BatchSizes :
        Cardinality({j \in Intent : status[j] = "pending" /\ Older(j, i)}) >= n

\* A purchase the customer paid, and that is not crowded out, is granted though
\* every webhook about it was lost, if sweeps keep being started and the
\* provider keeps answering: unless the provider refuses to answer for it or a
\* purchase that cannot be settled makes the sweeps end early.
PaidIsGranted ==
    \A i \in Intent :
        charge[i] = "paid" /\ ~Crowded(i)
            ~> \/ status[i] = "activated" \/ charge[i] # "paid"
               \/ status[i] = "abandoned" /\ i \in refused
               \/ \E j \in Intent : Stuck(j)

\* An intent whose provider call was uncertain or whose request died does not
\* hold the account's one base slot for ever, unless it is crowded out.
SlotIsFreed ==
    \A i \in Base :
        status[i] = "pending" /\ i \notin stored /\ ~Crowded(i)
            ~> \/ status[i] # "pending" \/ i \in stored
               \/ \E j \in Intent : Stuck(j)

\* Requests end; an operator or a cron job keeps starting sweeps and lets them
\* run; each purchase's record is answered by the provider again and again.
\* Nothing is assumed of webhooks, customers or the provider's changes.
BillFairness ==
    /\ \A r \in Request : WF_billVars(CallProvider(r)) /\ WF_billVars(CompleteIntent(r))
    /\ \A i \in Intent : WF_billVars(Age(i))
    /\ WF_billVars(SweepNext)
    /\ \A i \in Intent : SF_billVars(\E c \in sweep.todo : c.intent = i /\ SweepFetch(c))

FairBillSpec == BillSpec /\ BillFairness
=============================================================================
