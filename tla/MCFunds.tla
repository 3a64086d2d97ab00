------------------------------ MODULE MCFunds ------------------------------
(***************************************************************************)
(* An instance of Funds for TLC.                                           *)
(***************************************************************************)
EXTENDS FundsProperties

CONSTANTS t1, t2, t3

\* All wallets exist, or only the administrator's MAIN wallet does.
AllWallets == [rows |-> Wallets, balance |-> [w \in Wallets |-> IF w.user = 1 THEN 3 ELSE 1]]
OneWallet ==
  [rows |-> {Main(1)}, balance |-> [w \in Wallets |-> IF w = Main(1) THEN 3 ELSE 0]]
SmallOpenings == {AllWallets, OneWallet}

=============================================================================
