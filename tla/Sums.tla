-------------------------------- MODULE Sums --------------------------------
(***************************************************************************)
(* Sums over the rows of a table.  SumTo(w, n) is w[1] + ... + w[n]; the   *)
(* wallet and order tables of the exchange are compared through it.        *)
(*                                                                         *)
(* The definition is a recursive function, so that the lemmas of           *)
(* MoneyProofs can be proved about it and TLC can evaluate it.             *)
(***************************************************************************)
EXTENDS Integers

Running(w) == LET s[i \in Nat] == IF i = 0 THEN 0 ELSE s[i - 1] + w[i] IN s

SumTo(w, n) == Running(w)[n]

=============================================================================
