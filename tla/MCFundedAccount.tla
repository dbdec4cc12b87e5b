-------------------------- MODULE MCFundedAccount --------------------------
(***************************************************************************)
(* TLC instance of FundedAccount: two grants, two processes.                *)
(***************************************************************************)
EXTENDS FundedAccount, TLC

CONSTANTS g1, g2, w1, w2, a1, a2, p1, p2

MCValue == g1 :> 2 @@ g2 :> 2
MCDrawOrder == <<g1, g2>>
MCHome == w1 :> p1 @@ w2 :> p2 @@ a1 :> p1 @@ a2 :> p2
=============================================================================
