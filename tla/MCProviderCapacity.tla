------------------------- MODULE MCProviderCapacity -------------------------
(***************************************************************************)
(* TLC instance of ProviderCapacity: one transport.                         *)
(***************************************************************************)
EXTENDS ProviderCapacity, TLC

CONSTANTS b1, f1, f2, transport, connection, global, account

\* A call on a customer's credential and two on one account's platform ones.
MCDraws == b1 :> <<transport, connection>>
           @@ f1 :> <<transport, global, account>>
           @@ f2 :> <<transport, global, account>>

\* A connection has its transport's ceiling; an account has a slice.
MCCeiling == transport :> 2 @@ connection :> 2 @@ global :> 2 @@ account :> 1

\* The calls of the account are alike.
MCSymmetry == Permutations({f1, f2})
=============================================================================
