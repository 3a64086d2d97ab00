---------------------------- MODULE MCOrderOverlap ----------------------------
(***************************************************************************)
(* OrderOverlap for TLC.                                                   *)
(***************************************************************************)
EXTENDS OrderOverlap, TLC

\* At two prices; a buy is twice a sale, so that either may fill in two parts.
Asked ==
  {r \in [owner : Traders, side : Sides, price : {1, 2}, amount : {1, 2}] :
     r.amount = IF r.side = "BUY" THEN 2 ELSE 1}

\* Interchangeable transactions and users.
Alike == Permutations(Placements) \union Permutations(Cancels) \union Permutations(Traders)

=============================================================================
