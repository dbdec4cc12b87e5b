------------------------ MODULE MCBillingActivation ------------------------
(***************************************************************************)
(* TLC instance of BillingActivation: a base plan, asked for twice under    *)
(* one key, and a top-up of the same account.                               *)
(***************************************************************************)
EXTENDS BillingActivation, TLC

CONSTANTS b1, t1, r1, r2, r3, acme

MCAccountOf == b1 :> acme @@ t1 :> acme
MCKeyOf == r1 :> b1 @@ r2 :> b1 @@ r3 :> t1
=============================================================================
