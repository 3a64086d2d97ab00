---------------------------- MODULE WalletLedger ----------------------------
(***************************************************************************)
(* The wallets of one asset and the ledger entries written next to every   *)
(* change of a balance (wallets and ledgerEntries of db/schema/index.ts).  *)
(***************************************************************************)
EXTENDS Integers, Sequences

CONSTANTS
  Users,    \* human accounts, as numbers in the order of their ids
  LastUser, \* no id comes after it
  Admins,   \* the administrators, who own buckets besides MAIN
  Buckets,  \* the wallet types other than MAIN
  Amounts   \* what may be moved, in minimal units

ASSUME LedgerAssumption ==
  /\ LastUser \in Nat
  /\ Users \subseteq 0..LastUser
  /\ Admins \subseteq Users
  /\ "MAIN" \notin Buckets
  /\ Amounts \subseteq Nat \ {0}

Main(u) == [user |-> u, type |-> "MAIN"]
MainWallets == {Main(u) : u \in Users}
AdminWallets == [user : Admins, type : {"MAIN"} \cup Buckets]
Wallets == MainWallets \cup AdminWallets

\* An entry names its wallet: the ledger's own rows have user, asset and type,
\* and the type of a bucket comes from the audit record the entry refers to.
Entry(w, amount, after) == [wallet |-> w, amount |-> amount, after |-> after]
EntryRec == [wallet : Wallets, amount : Int, after : Nat]

VARIABLES
  opening,  \* the balances at the start, for the properties only
  balance,  \* wallets.availableBalance; 0 for a wallet without a row
  history   \* the ledger entries, in the order of their commits

book == <<opening, balance, history>>

\* The i-th entry is the latest of wallet w among the first n.
Latest(i, w, n) ==
  /\ i \in 1..n
  /\ history[i].wallet = w
  /\ \A j \in (i + 1)..n : history[j].wallet # w

\* After the first n entries the ledger puts wallet w at v.
StandsAt(w, n, v) ==
  \/ \E i \in 1..n : Latest(i, w, n) /\ history[i].after = v
  \/ (\A i \in 1..n : history[i].wallet # w) /\ opening[w] = v

\* Every entry continues from where the entry before it left its wallet, and
\* the last one leaves it at its balance: no write was lost under another.
LedgerExplainsBalances ==
  /\ \A i \in 1..Len(history) :
       StandsAt(history[i].wallet, i - 1, history[i].after - history[i].amount)
  /\ \A w \in Wallets : StandsAt(w, Len(history), balance[w])

=============================================================================
