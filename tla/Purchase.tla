------------------------------ MODULE Purchase ------------------------------
(***************************************************************************)
(* What billing promises about a purchase, whatever happens to the calls,   *)
(* webhooks and sweeps that carry it: it is granted once and only after the *)
(* money came, it is given up only while there is no money for it or once   *)
(* the provider refused to answer for it, and what was granted stays so.    *)
(***************************************************************************)
CONSTANT Sale  \* purchases

VARIABLES
    money,   \* "none", "held" by the provider for it, or "ended"
    phase,   \* "open", "granted" or "dropped"
    refused  \* purchases the provider refused to answer for

vars == <<money, phase, refused>>

Init ==
    /\ money = [s \in Sale |-> "none"]
    /\ phase = [s \in Sale |-> "open"]
    /\ refused = {}

Pay(s) ==
    /\ money[s] = "none"
    /\ phase[s] = "open" \/ s \in refused
    /\ money' = [money EXCEPT ![s] = "held"]
    /\ UNCHANGED <<phase, refused>>

\* The provider ends a subscription, granted or not.
End(s) ==
    /\ money[s] = "held"
    /\ money' = [money EXCEPT ![s] = "ended"]
    /\ UNCHANGED <<phase, refused>>

\* An error that says trying again is of no use: billing takes it for the
\* answer that there is no such purchase.
Refuse(s) ==
    /\ refused' = refused \cup {s}
    /\ UNCHANGED <<money, phase>>

Grant(s) ==
    /\ money[s] # "none"
    /\ phase[s] # "granted"
    /\ phase' = [phase EXCEPT ![s] = "granted"]
    /\ UNCHANGED <<money, refused>>

Drop(s) ==
    /\ money[s] # "held" \/ s \in refused
    /\ phase[s] = "open"
    /\ phase' = [phase EXCEPT ![s] = "dropped"]
    /\ UNCHANGED <<money, refused>>

Next == \E s \in Sale : Pay(s) \/ End(s) \/ Refuse(s) \/ Grant(s) \/ Drop(s)

Spec == Init /\ [][Next]_vars
=============================================================================
