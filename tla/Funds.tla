-------------------------------- MODULE Funds --------------------------------
(***************************************************************************)
(* Moving funds outside of trading: transfers between users                *)
(* (transfers/transfers.service.ts), airdrops and transfers between the    *)
(* buckets of an administrator (admin/admin.service.ts), and the wallets   *)
(* that listings create (wallets/wallets.service.ts), for one asset.       *)
(*                                                                         *)
(* Each request is a database transaction at READ COMMITTED: it inserts    *)
(* the wallets it may miss, selects its wallets FOR UPDATE, which locks    *)
(* row after row, computes the new balances from what it read there, and   *)
(* writes them.  Locked balances are passed through unchanged.             *)
(*                                                                         *)
(* Definitions with an underscore in their name are wrong variants that    *)
(* nothing uses; README.md says which property fails with each.            *)
(***************************************************************************)
EXTENDS WalletLedger

CONSTANTS
  Transactions,  \* the transactions of the requests, one each
  Openings       \* the wallets with their balances the system may start from

ASSUME OpeningsAssumption ==
  \A o \in Openings :
    /\ o.rows \subseteq Wallets
    /\ o.balance \in [Wallets -> Nat]
    /\ \A w \in Wallets \ o.rows : o.balance[w] = 0

VARIABLES
  rows,     \* the wallets that exist, as committed
  step,     \* how far each transaction is
  request,  \* the request it handles
  made,     \* the wallets it has inserted and not committed
  todo,     \* the wallets it has yet to insert, then to lock, in order
  held,     \* the rows it has locked by its SELECT ... FOR UPDATE
  read      \* the balances that SELECT returned

transaction == <<step, request, made, todo, held, read>>
vars == <<book, rows, transaction>>

Transfers == [kind : {"TRANSFER"}, from : MainWallets, to : MainWallets, amount : Amounts]
BucketTransfers ==
  {r \in [kind : {"BUCKET"}, from : AdminWallets, to : AdminWallets, amount : Amounts] :
     r.from.user = r.to.user}
\* An airdrop is taken from no wallet: its `from' is not used.
Airdrops ==
  {r \in [kind : {"AIRDROP"}, from : MainWallets, to : MainWallets, amount : Amounts] :
     r.from = r.to}
Requests == Transfers \cup BucketTransfers \cup Airdrops
NoRequest == [kind |-> "NONE"]

Ends == {"COMMITTED", "REFUSED", "ABORTED"}
Steps == {"NEW", "ENSURE", "LOCK"} \cup Ends
Nothing == [w \in Wallets |-> 0]

\* The wallets of a request.
Parties(r) == IF r.kind = "AIRDROP" THEN {r.to} ELSE {r.from, r.to}

-----------------------------------------------------------------------------
\* Before it touches a wallet a transaction reads the users and the asset,
\* without a lock, and refuses those that are not ACTIVE.  They may change at
\* any time, also right after: the model admits any request at any time, and a
\* request that is refused here has done nothing and is not represented.

Accepted_Self(r) == TRUE
Accepted(r) == r.kind # "AIRDROP" => r.from # r.to

\* The wallets a request ensures: the recipient's, or both buckets in order.
Ensured(r) == IF r.kind = "BUCKET" THEN <<r.from, r.to>> ELSE <<r.to>>

Begin(t, r) ==
  /\ step[t] = "NEW"
  /\ Accepted(r)
  /\ step' = [step EXCEPT ![t] = "ENSURE"]
  /\ request' = [request EXCEPT ![t] = r]
  /\ todo' = [todo EXCEPT ![t] = Ensured(r)]
  /\ UNCHANGED <<book, rows, made, held, read>>

\* Nobody else is inserting the row w.
Insertable(t, w) == \A u \in Transactions \ {t} : w \notin made[u]

\* INSERT ... ON CONFLICT DO NOTHING of the next row: a row that exists is left
\* alone, locked or not; one that another transaction is inserting is waited for.
Ensure(t) ==
  /\ step[t] = "ENSURE"
  /\ todo[t] # <<>>
  /\ Insertable(t, Head(todo[t]))
  /\ made' = [made EXCEPT ![t] = made[t] \cup ({Head(todo[t])} \ rows)]
  /\ todo' = [todo EXCEPT ![t] = Tail(todo[t])]
  /\ UNCHANGED <<book, rows, step, request, held, read>>

\* The rows the SELECT finds: committed before it started, or its own.
Visible(t) == Parties(request[t]) \cap (rows \cup made[t])

LockOrders_RequestOrder(r, ws) ==
  {IF r.from \in ws /\ r.from # r.to
     THEN IF r.to \in ws THEN <<r.from, r.to>> ELSE <<r.from>>
     ELSE IF r.to \in ws THEN <<r.to>> ELSE <<>>}

\* The orders in which the rows ws, at most two, may be locked: a transfer asks
\* for the order of the users' ids, a bucket transfer for none.
LockOrders(r, ws) ==
  {s \in {<<>>} \cup {<<w>> : w \in ws} \cup {<<v, w>> : v, w \in ws} :
     /\ ws = {s[i] : i \in 1..Len(s)}
     /\ \A i, j \in 1..Len(s) : i < j =>
          /\ s[i] # s[j]
          /\ r.kind = "TRANSFER" => s[i].user < s[j].user}

Select(t) ==
  /\ step[t] = "ENSURE"
  /\ todo[t] = <<>>
  /\ step' = [step EXCEPT ![t] = "LOCK"]
  /\ \E s \in LockOrders(request[t], Visible(t)) : todo' = [todo EXCEPT ![t] = s]
  /\ UNCHANGED <<book, rows, request, made, held, read>>

Lockable_Always(t, w) == TRUE
Lockable(t, w) == \A u \in Transactions \ {t} : w \notin held[u]

\* FOR UPDATE: the next row is locked and its latest version read.
Lock(t) ==
  /\ step[t] = "LOCK"
  /\ todo[t] # <<>>
  /\ Lockable(t, Head(todo[t]))
  /\ held' = [held EXCEPT ![t] = held[t] \cup {Head(todo[t])}]
  /\ read' = [read EXCEPT ![t] = [read[t] EXCEPT ![Head(todo[t])] = balance[Head(todo[t])]]]
  /\ todo' = [todo EXCEPT ![t] = Tail(todo[t])]
  /\ UNCHANGED <<book, rows, step, request, made>>

-----------------------------------------------------------------------------
\* The end of a transaction, with its locks.

End_KeepsRows(t, s) ==
  /\ step' = [step EXCEPT ![t] = s]
  /\ made' = [made EXCEPT ![t] = {}]
  /\ UNCHANGED <<request, todo, held, read>>

End(t, s) ==
  /\ step' = [step EXCEPT ![t] = s]
  /\ made' = [made EXCEPT ![t] = {}]
  /\ todo' = [todo EXCEPT ![t] = <<>>]
  /\ held' = [held EXCEPT ![t] = {}]
  /\ read' = [read EXCEPT ![t] = Nothing]
  /\ UNCHANGED request

\* Both wallets were found, and the sender's has enough.
Covered_Later(t) == Parties(request[t]) \subseteq held[t]
Covered(t) ==
  LET r == request[t]
  IN  /\ Parties(r) \subseteq held[t]
      /\ r.kind # "AIRDROP" => read[t][r.from] >= r.amount

Locked(t) == step[t] = "LOCK" /\ todo[t] = <<>>

\* The balances are written as computed from what was read, and the ledger with
\* them.
CommitMove(t) ==
  LET r == request[t]
      less == read[t][r.from] - r.amount
      more == read[t][r.to] + r.amount
  IN  /\ Locked(t)
      /\ r.kind \in {"TRANSFER", "BUCKET"}
      /\ Covered(t)
      /\ balance' = [balance EXCEPT ![r.from] = less, ![r.to] = more]
      /\ history' = history \o <<Entry(r.from, -r.amount, less), Entry(r.to, r.amount, more)>>
      /\ rows' = rows \cup made[t]
      /\ UNCHANGED opening
      /\ End(t, "COMMITTED")

CommitAirdrop(t) ==
  LET r == request[t]
      more == read[t][r.to] + r.amount
  IN  /\ Locked(t)
      /\ r.kind = "AIRDROP"
      /\ Covered(t)
      /\ balance' = [balance EXCEPT ![r.to] = more]
      /\ history' = Append(history, Entry(r.to, r.amount, more))
      /\ rows' = rows \cup made[t]
      /\ UNCHANGED opening
      /\ End(t, "COMMITTED")

Refuse(t) ==
  /\ Locked(t)
  /\ ~Covered(t)
  /\ End(t, "REFUSED")
  /\ UNCHANGED <<book, rows>>

\* The connection or the process is lost; the database rolls back.
Crash(t) ==
  /\ step[t] \in {"ENSURE", "LOCK"}
  /\ End(t, "ABORTED")
  /\ UNCHANGED <<book, rows>>

-----------------------------------------------------------------------------

\* t waits for u to end: for the row u is inserting, or the row u has locked.
WaitsFor(t, u) ==
  /\ t # u
  /\ todo[t] # <<>>
  /\ \/ step[t] = "ENSURE" /\ Head(todo[t]) \in made[u]
     \/ step[t] = "LOCK" /\ Head(todo[t]) \in held[u]

\* Each of D waits for one of D, and is waited for.
Deadlock(D) ==
  /\ D # {}
  /\ \A t \in D : (\E u \in D : WaitsFor(t, u)) /\ (\E u \in D : WaitsFor(u, t))

\* PostgreSQL finds a deadlock and aborts one of its transactions.
Victim(t) ==
  /\ \E D \in SUBSET Transactions : t \in D /\ Deadlock(D)
  /\ End(t, "ABORTED")
  /\ UNCHANGED <<book, rows>>

\* A listing creates a missing wallet, in a statement of its own, which waits
\* for a transaction that is inserting it.
CreateWallet(w) ==
  /\ w \notin rows
  /\ \A t \in Transactions : w \notin made[t]
  /\ rows' = rows \cup {w}
  /\ UNCHANGED <<book, transaction>>

Init ==
  /\ \E o \in Openings : rows = o.rows /\ opening = o.balance
  /\ balance = opening
  /\ history = <<>>
  /\ step = [t \in Transactions |-> "NEW"]
  /\ request = [t \in Transactions |-> NoRequest]
  /\ made = [t \in Transactions |-> {}]
  /\ todo = [t \in Transactions |-> <<>>]
  /\ held = [t \in Transactions |-> {}]
  /\ read = [t \in Transactions |-> Nothing]

Run(t) ==
  \/ Ensure(t) \/ Select(t) \/ Lock(t)
  \/ CommitMove(t) \/ CommitAirdrop(t) \/ Refuse(t)

Next ==
  \/ \E t \in Transactions, r \in Requests : Begin(t, r)
  \/ \E t \in Transactions : Run(t) \/ Crash(t) \/ Victim(t)
  \/ \E w \in Wallets : CreateWallet(w)

Spec == Init /\ [][Next]_vars

\* While a handler can run, or a deadlock can be found, something does: nothing
\* is assumed about which.
FairSpec == Spec /\ WF_vars(\E t \in Transactions : Run(t) \/ Victim(t))

=============================================================================
