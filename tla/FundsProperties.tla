--------------------------- MODULE FundsProperties ---------------------------
(***************************************************************************)
(* What moving funds guarantees, whatever overlaps and whatever fails.     *)
(***************************************************************************)
EXTENDS Funds

\* The variables have their types: no balance is negative, not even a wallet's
\* whose row is only being inserted.
TypeOK ==
  /\ opening \in [Wallets -> Nat]
  /\ balance \in [Wallets -> Nat]
  /\ history \in Seq(EntryRec)
  /\ rows \in SUBSET Wallets
  /\ step \in [Transactions -> Steps]
  /\ request \in [Transactions -> Requests \cup {NoRequest}]
  /\ made \in [Transactions -> SUBSET Wallets]
  /\ todo \in [Transactions -> Seq(Wallets)]
  /\ held \in [Transactions -> SUBSET Wallets]
  /\ read \in [Transactions -> [Wallets -> Nat]]

\* What a transaction computes with is still what the wallets hold: nobody
\* writes a balance between the SELECT that read it and the UPDATE.
ReadsStayCurrent ==
  \A t \in Transactions : \A w \in held[t] : read[t][w] = balance[w]

\* Two transfers, or a transfer and an airdrop, never deadlock: a deadlock has
\* two bucket transfers, whose rows are locked in no order.
DeadlocksNeedTwoBuckets ==
  \A D \in SUBSET Transactions : Deadlock(D) =>
    \E t, u \in D : t # u /\ request[t].kind = "BUCKET" /\ request[u].kind = "BUCKET"

\* Money moves in one step, from a wallet that has it, with its entries.
Book == INSTANCE AccountBook WITH
  opening <- opening, balance <- balance, history <- history
MovesAreAtomic == Book!Spec

\* Requests do not keep waiting for one another: again and again every request
\* that has begun has been answered.
RequestsEnd ==
  []<>(\A t \in Transactions : step[t] \in {"NEW"} \cup Ends)

=============================================================================
