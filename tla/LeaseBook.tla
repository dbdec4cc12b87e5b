----------------------------- MODULE LeaseBook -----------------------------
(***************************************************************************)
(* What the queue promises the rest of the backend, without its statuses:   *)
(* a unit of work is open, held by one tenant, or closed.  A tenant gives   *)
(* work back or closes it; work is taken from a tenant only after its lease *)
(* lapsed, or by withdrawing it; closed work stays closed.                  *)
(***************************************************************************)
CONSTANTS
    Job,     \* units of work
    Tenant,  \* who may hold one
    Nobody,  \* held by no one
    Absent   \* a tenant that no longer exists

VARIABLES
    phase,   \* "open", "held" or "closed"
    tenant,  \* who holds the job
    lapsed   \* the tenant let its lease run out

vars == <<phase, tenant, lapsed>>

TypeOK ==
    /\ phase \in [Job -> {"open", "held", "closed"}]
    /\ tenant \in [Job -> Tenant \cup {Nobody, Absent}]
    /\ lapsed \in [Job -> BOOLEAN]

Init ==
    /\ phase = [j \in Job |-> "open"]
    /\ tenant = [j \in Job |-> Nobody]
    /\ lapsed = [j \in Job |-> FALSE]

Grant(j, a) ==
    /\ phase[j] = "open"
    /\ phase' = [phase EXCEPT ![j] = "held"]
    /\ tenant' = [tenant EXCEPT ![j] = a]
    /\ UNCHANGED lapsed

Renew(j) ==
    /\ phase[j] = "held"
    /\ tenant[j] \in Tenant
    /\ lapsed' = [lapsed EXCEPT ![j] = FALSE]
    /\ UNCHANGED <<phase, tenant>>

Lapse(j) ==
    /\ phase[j] = "held"
    /\ lapsed' = [lapsed EXCEPT ![j] = TRUE]
    /\ UNCHANGED <<phase, tenant>>

\* The jobs in batch leave their tenants' hands, each for the phase `to` gives.
Vacate(batch, to) ==
    /\ phase' = [j \in Job |-> IF j \in batch THEN to[j] ELSE phase[j]]
    /\ tenant' = [j \in Job |-> IF j \in batch THEN Nobody ELSE tenant[j]]
    /\ lapsed' = [j \in Job |-> lapsed[j] /\ j \notin batch]

GiveBack(j) ==
    /\ phase[j] = "held"
    /\ tenant[j] \in Tenant
    /\ \E to \in [{j} -> {"open", "closed"}] : Vacate({j}, to)

Revoke(batch) ==
    /\ \A j \in batch : phase[j] = "held" /\ lapsed[j]
    /\ \E to \in [batch -> {"open", "closed"}] : Vacate(batch, to)

Withdraw(batch) ==
    /\ \A j \in batch : phase[j] # "closed"
    /\ Vacate(batch, [j \in batch |-> "closed"])

Vanish(a) ==
    /\ tenant' = [j \in Job |-> IF tenant[j] = a THEN Absent ELSE tenant[j]]
    /\ UNCHANGED <<phase, lapsed>>

Next ==
    \/ \E j \in Job, a \in Tenant : Grant(j, a)
    \/ \E j \in Job : Renew(j) \/ Lapse(j) \/ GiveBack(j)
    \/ \E batch \in SUBSET Job : Revoke(batch) \/ Withdraw(batch)
    \/ \E a \in Tenant : Vanish(a)

Spec == Init /\ [][Next]_vars
=============================================================================
