----------------------------- MODULE AccountBook -----------------------------
(***************************************************************************)
(* What moving funds promises: money goes from one wallet to another, or   *)
(* is credited by an airdrop, in one step that also writes the ledger, and *)
(* never takes more from a wallet than it has.                             *)
(***************************************************************************)
EXTENDS WalletLedger

Init ==
  /\ opening \in [Wallets -> Nat]
  /\ balance = opening
  /\ history = <<>>

Move(f, t, n) ==
  /\ f # t
  /\ balance[f] >= n
  /\ balance' = [balance EXCEPT ![f] = balance[f] - n, ![t] = balance[t] + n]
  /\ history' = history \o <<Entry(f, -n, balance[f] - n), Entry(t, n, balance[t] + n)>>
  /\ UNCHANGED opening

Credit(t, n) ==
  /\ balance' = [balance EXCEPT ![t] = balance[t] + n]
  /\ history' = Append(history, Entry(t, n, balance[t] + n))
  /\ UNCHANGED opening

Next ==
  \/ \E f, t \in Wallets, n \in Amounts : Move(f, t, n)
  \/ \E t \in MainWallets, n \in Amounts : Credit(t, n)

Spec == Init /\ [][Next]_book

=============================================================================
