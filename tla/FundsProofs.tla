----------------------------- MODULE FundsProofs -----------------------------
(***************************************************************************)
(* Proofs about Funds, for every number of users, buckets and overlapping  *)
(* requests: balances never go negative, what a transaction read stays     *)
(* true until it writes, every commit is one move of the book, the ledger  *)
(* explains the balances, and only bucket transfers can deadlock.          *)
(***************************************************************************)
EXTENDS FundsProperties, MoneyProofs, SequenceTheorems

\* A row is locked by one transaction at a time.
RowsAreExclusive ==
  \A t, u \in Transactions : t # u => held[t] \cap held[u] = {}

\* What a transaction has when it is so far: an accepted request, locks on
\* wallets of the request, and nothing before it begins or after it ends.
InStep(t) ==
  /\ step[t] \notin {"ENSURE", "LOCK"} => made[t] = {} /\ held[t] = {} /\ todo[t] = <<>>
  /\ step[t] \in {"ENSURE", "LOCK"} => request[t] \in Requests /\ Accepted(request[t])
  /\ step[t] = "ENSURE" => held[t] = {}
  /\ step[t] = "ENSURE" /\ request[t].kind # "BUCKET" =>
       todo[t] = <<>> \/ (Len(todo[t]) = 1 /\ made[t] = {})
  /\ step[t] = "LOCK" =>
       /\ held[t] \subseteq Parties(request[t])
       /\ \A i \in 1..Len(todo[t]) : todo[t][i] \in Parties(request[t])

\* A transfer locks its rows in the order of the users.
InOrder(t) ==
  step[t] = "LOCK" /\ request[t].kind # "BUCKET" =>
    /\ \A w \in held[t] : \A i \in 1..Len(todo[t]) : w.user < todo[t][i].user
    /\ \A i, j \in 1..Len(todo[t]) : i < j => todo[t][i].user < todo[t][j].user

Disciplined == \A t \in Transactions : InStep(t) /\ InOrder(t)

IInv == TypeOK /\ RowsAreExclusive /\ ReadsStayCurrent /\ Disciplined

-----------------------------------------------------------------------------
\* Wallets and requests.

LEMMA RequestType ==
  ASSUME NEW r \in Requests
  PROVE  /\ r.kind \in {"TRANSFER", "BUCKET", "AIRDROP"}
         /\ r.from \in Wallets /\ r.to \in Wallets
         /\ r.amount \in Amounts /\ r.amount \in Nat
         /\ r.kind # "BUCKET" => r.from \in MainWallets /\ r.to \in MainWallets
         /\ r.kind = "BUCKET" => r.from.user = r.to.user
         /\ Parties(r) \subseteq Wallets
         /\ r.kind # "BUCKET" => Parties(r) \subseteq MainWallets
<1>1. MainWallets \subseteq Wallets /\ AdminWallets \subseteq Wallets
  BY DEF Wallets
<1>2. Amounts \subseteq Nat
  BY LedgerAssumption
<1>3. CASE r \in Transfers
  BY <1>1, <1>2, <1>3 DEF Transfers, Parties
<1>4. CASE r \in BucketTransfers
  BY <1>1, <1>2, <1>4 DEF BucketTransfers, Parties
<1>5. CASE r \in Airdrops
  BY <1>1, <1>2, <1>5 DEF Airdrops, Parties
<1> QED
  BY <1>3, <1>4, <1>5 DEF Requests

LEMMA EnsuredType ==
  ASSUME NEW r \in Requests
  PROVE  /\ Ensured(r) \in Seq(Wallets)
         /\ r.kind # "BUCKET" => Len(Ensured(r)) = 1
<1>1. r.from \in Wallets /\ r.to \in Wallets
  BY RequestType
<1> QED
  BY <1>1 DEF Ensured

LEMMA LockOrdersType ==
  ASSUME NEW r \in Requests, NEW ws \in SUBSET Wallets, NEW s \in LockOrders(r, ws)
  PROVE  /\ s \in Seq(Wallets)
         /\ \A i \in 1..Len(s) : s[i] \in ws
         /\ r.kind = "TRANSFER" => \A i, j \in 1..Len(s) : i < j => s[i].user < s[j].user
         /\ \A i, j \in 1..Len(s) : i < j => s[i] # s[j]
<1>1. s \in {<<>>} \cup {<<w>> : w \in ws} \cup {<<v, w>> : v, w \in ws}
  BY DEF LockOrders
<1>2. s \in Seq(Wallets)
  <2>1. CASE s = <<>>
    BY <2>1
  <2>2. ASSUME NEW w \in ws, s = <<w>> PROVE s \in Seq(Wallets)
    BY <2>2
  <2>3. ASSUME NEW v \in ws, NEW w \in ws, s = <<v, w>> PROVE s \in Seq(Wallets)
    BY <2>3
  <2> QED
    BY <1>1, <2>1, <2>2, <2>3
<1>3. /\ ws = {s[i] : i \in 1..Len(s)}
      /\ \A i, j \in 1..Len(s) : i < j =>
           s[i] # s[j] /\ (r.kind = "TRANSFER" => s[i].user < s[j].user)
  BY DEF LockOrders
<1> QED
  BY <1>2, <1>3

LEMMA EntryType ==
  ASSUME NEW w \in Wallets, NEW n \in Int, NEW v \in Nat
  PROVE  Entry(w, n, v) \in EntryRec
BY DEF Entry, EntryRec

LEMMA NextOf ==
  ASSUME NEW s \in Seq(Wallets), s # <<>>
  PROVE  /\ Head(s) \in Wallets /\ Head(s) = s[1]
         /\ Tail(s) \in Seq(Wallets)
         /\ Len(s) \in Nat /\ Len(s) >= 1
         /\ Len(Tail(s)) = Len(s) - 1
         /\ \A i \in 1..Len(Tail(s)) : i + 1 \in 1..Len(s) /\ Tail(s)[i] = s[i + 1]
BY HeadTailProperties, EmptySeq, LenProperties

-----------------------------------------------------------------------------
\* Types.  A committing transaction holds its wallets and has read them.

LEMMA CommitterKnows ==
  ASSUME IInv, NEW t \in Transactions, Locked(t), Covered(t)
  PROVE  /\ request[t] \in Requests /\ Accepted(request[t])
         /\ request[t].from \in Wallets /\ request[t].to \in Wallets
         /\ request[t].amount \in Amounts /\ request[t].amount \in Nat
         /\ request[t].to \in held[t]
         /\ read[t][request[t].to] = balance[request[t].to]
         /\ request[t].kind # "AIRDROP" =>
              /\ request[t].from # request[t].to
              /\ request[t].from \in held[t]
              /\ read[t][request[t].from] = balance[request[t].from]
              /\ balance[request[t].from] >= request[t].amount
<1>1. request[t] \in Requests /\ Accepted(request[t])
  BY DEF IInv, Disciplined, InStep, Locked
<1>2. Parties(request[t]) \subseteq held[t]
  BY DEF Covered
<1>3. request[t].to \in held[t] /\ (request[t].kind # "AIRDROP" => request[t].from \in held[t])
  BY <1>2 DEF Parties
<1>4. \A w \in held[t] : read[t][w] = balance[w]
  BY DEF IInv, ReadsStayCurrent
<1> QED
  BY <1>1, <1>3, <1>4, RequestType DEF Covered, Accepted

LEMMA InitIInv == Init => IInv
<1> SUFFICES ASSUME Init PROVE IInv
  OBVIOUS
<1>1. rows \in SUBSET Wallets /\ opening \in [Wallets -> Nat] /\ balance \in [Wallets -> Nat]
  BY OpeningsAssumption DEF Init
<1>2. history \in Seq(EntryRec)
  BY DEF Init
<1>3. <<>> \in Seq(Wallets)
  OBVIOUS
<1>4. Nothing \in [Wallets -> Nat]
  BY DEF Nothing
<1>5. TypeOK
  BY <1>1, <1>2, <1>3, <1>4 DEF TypeOK, Init, Steps
<1>6. RowsAreExclusive /\ ReadsStayCurrent
  BY DEF Init, RowsAreExclusive, ReadsStayCurrent
<1>7. Disciplined
  BY DEF Init, Disciplined, InStep, InOrder
<1> QED
  BY <1>5, <1>6, <1>7 DEF IInv

LEMMA EndType ==
  ASSUME TypeOK, NEW t \in Transactions, NEW s \in Ends, End(t, s)
  PROVE  /\ step' \in [Transactions -> Steps]
         /\ request' \in [Transactions -> Requests \cup {NoRequest}]
         /\ made' \in [Transactions -> SUBSET Wallets]
         /\ todo' \in [Transactions -> Seq(Wallets)]
         /\ held' \in [Transactions -> SUBSET Wallets]
         /\ read' \in [Transactions -> [Wallets -> Nat]]
<1>1. Nothing \in [Wallets -> Nat]
  BY DEF Nothing
<1>2. <<>> \in Seq(Wallets)
  OBVIOUS
<1> QED
  BY <1>1, <1>2 DEF TypeOK, End, Steps

LEMMA StepType == IInv /\ [Next]_vars => TypeOK'
<1> SUFFICES ASSUME IInv, [Next]_vars PROVE TypeOK'
  OBVIOUS
<1> USE DEF TypeOK
<1>0. TypeOK
  BY DEF IInv
<1>1. ASSUME NEW t \in Transactions, NEW r \in Requests, Begin(t, r) PROVE TypeOK'
  <2>1. Ensured(r) \in Seq(Wallets)
    BY EnsuredType
  <2>2. todo' \in [Transactions -> Seq(Wallets)]
    BY <1>0, <1>1, <2>1 DEF Begin
  <2> QED
    BY <1>0, <1>1, <2>2 DEF Begin, book, Steps
<1>2. ASSUME NEW t \in Transactions, Ensure(t) PROVE TypeOK'
  <2>1. Head(todo[t]) \in Wallets /\ Tail(todo[t]) \in Seq(Wallets)
    BY <1>0, <1>2, NextOf DEF Ensure
  <2>2. todo' \in [Transactions -> Seq(Wallets)]
    BY <1>0, <1>2, <2>1 DEF Ensure
  <2>3. made' \in [Transactions -> SUBSET Wallets]
    BY <1>0, <1>2, <2>1 DEF Ensure
  <2> QED
    BY <1>0, <1>2, <2>2, <2>3 DEF Ensure, book
<1>3. ASSUME NEW t \in Transactions, Select(t) PROVE TypeOK'
  <2>1. request[t] \in Requests
    BY <1>3 DEF Select, IInv, Disciplined, InStep
  <2>2. Visible(t) \in SUBSET Wallets
    BY <1>0, <2>1, RequestType DEF Visible
  <2>3. \A s \in LockOrders(request[t], Visible(t)) : s \in Seq(Wallets)
    BY <2>1, <2>2, LockOrdersType
  <2>4. todo' \in [Transactions -> Seq(Wallets)]
    BY <1>0, <1>3, <2>3 DEF Select
  <2> QED
    BY <1>0, <1>3, <2>4 DEF Select, book, Steps
<1>4. ASSUME NEW t \in Transactions, Lock(t) PROVE TypeOK'
  <2>1. Head(todo[t]) \in Wallets /\ Tail(todo[t]) \in Seq(Wallets)
    BY <1>0, <1>4, NextOf DEF Lock
  <2>2. todo' \in [Transactions -> Seq(Wallets)]
    BY <1>0, <1>4, <2>1 DEF Lock
  <2>3. held' \in [Transactions -> SUBSET Wallets]
    BY <1>0, <1>4, <2>1 DEF Lock
  <2>4. [read[t] EXCEPT ![Head(todo[t])] = balance[Head(todo[t])]] \in [Wallets -> Nat]
    BY <1>0, <2>1
  <2>5. read' \in [Transactions -> [Wallets -> Nat]]
    BY <1>0, <1>4, <2>4 DEF Lock
  <2> QED
    BY <1>0, <1>4, <2>2, <2>3, <2>5 DEF Lock, book
<1>5. ASSUME NEW t \in Transactions, CommitMove(t) PROVE TypeOK'
  <2> DEFINE r == request[t]
             less == read[t][r.from] - r.amount
             more == read[t][r.to] + r.amount
  <2>1. /\ r.from \in Wallets /\ r.to \in Wallets /\ r.amount \in Nat
        /\ read[t][r.from] = balance[r.from] /\ read[t][r.to] = balance[r.to]
        /\ balance[r.from] >= r.amount
    BY <1>5, CommitterKnows DEF CommitMove
  <2>2. less \in Nat /\ more \in Nat /\ -r.amount \in Int /\ r.amount \in Int
    BY <1>0, <2>1
  <2>3. balance' = [balance EXCEPT ![r.from] = less, ![r.to] = more]
    BY <1>5 DEF CommitMove
  <2>4. history' = history \o <<Entry(r.from, -r.amount, less), Entry(r.to, r.amount, more)>>
    BY <1>5 DEF CommitMove
  <2>5. opening' = opening /\ rows' = rows \cup made[t] /\ End(t, "COMMITTED")
    BY <1>5 DEF CommitMove
  <2> HIDE DEF less, more, r
  <2>6. balance' \in [Wallets -> Nat]
    BY <1>0, <2>1, <2>2, <2>3
  <2>7. Entry(r.from, -r.amount, less) \in EntryRec /\ Entry(r.to, r.amount, more) \in EntryRec
    BY <2>1, <2>2, EntryType
  <2>8. <<Entry(r.from, -r.amount, less), Entry(r.to, r.amount, more)>> \in Seq(EntryRec)
    BY <2>7
  <2>9. history' \in Seq(EntryRec)
    BY <1>0, <2>4, <2>8, ConcatProperties
  <2>10. "COMMITTED" \in Ends
    BY DEF Ends
  <2> QED
    BY <1>0, <2>5, <2>6, <2>9, <2>10, EndType
<1>6. ASSUME NEW t \in Transactions, CommitAirdrop(t) PROVE TypeOK'
  <2> DEFINE r == request[t]
             more == read[t][r.to] + r.amount
  <2>1. r.to \in Wallets /\ r.amount \in Nat /\ read[t][r.to] = balance[r.to]
    BY <1>6, CommitterKnows DEF CommitAirdrop
  <2>2. more \in Nat /\ r.amount \in Int
    BY <1>0, <2>1
  <2>3. balance' = [balance EXCEPT ![r.to] = more]
    BY <1>6 DEF CommitAirdrop
  <2>4. history' = Append(history, Entry(r.to, r.amount, more))
    BY <1>6 DEF CommitAirdrop
  <2>5. opening' = opening /\ rows' = rows \cup made[t] /\ End(t, "COMMITTED")
    BY <1>6 DEF CommitAirdrop
  <2> HIDE DEF more, r
  <2>6. balance' \in [Wallets -> Nat]
    BY <1>0, <2>2, <2>3
  <2>7. history' \in Seq(EntryRec)
    BY <1>0, <2>1, <2>2, <2>4, EntryType
  <2>8. "COMMITTED" \in Ends
    BY DEF Ends
  <2> QED
    BY <1>0, <2>5, <2>6, <2>7, <2>8, EndType
<1>7. ASSUME NEW t \in Transactions, Refuse(t) \/ Crash(t) \/ Victim(t) PROVE TypeOK'
  <2>1. UNCHANGED <<book, rows>>
    BY <1>7 DEF Refuse, Crash, Victim
  <2>2. PICK s \in Ends : End(t, s)
    BY <1>7 DEF Refuse, Crash, Victim, Ends
  <2> QED
    BY <1>0, <2>1, <2>2, EndType DEF book
<1>8. ASSUME NEW w \in Wallets, CreateWallet(w) PROVE TypeOK'
  BY <1>0, <1>8 DEF CreateWallet, book, transaction
<1>9. CASE UNCHANGED vars
  BY <1>0, <1>9 DEF vars, book, transaction
<1> QED
  BY <1>1, <1>2, <1>3, <1>4, <1>5, <1>6, <1>7, <1>8, <1>9 DEF Next, Run

-----------------------------------------------------------------------------
\* Locks, and what was read under them.

LEMMA StepExclusive == IInv /\ [Next]_vars => RowsAreExclusive'
<1> SUFFICES ASSUME IInv, [Next]_vars PROVE RowsAreExclusive'
  OBVIOUS
<1>0. TypeOK /\ RowsAreExclusive
  BY DEF IInv
<1>1. ASSUME NEW t \in Transactions, Lock(t) PROVE RowsAreExclusive'
  <2>1. \A u \in Transactions \ {t} : Head(todo[t]) \notin held[u]
    BY <1>1 DEF Lock, Lockable
  <2>2. held' = [held EXCEPT ![t] = held[t] \cup {Head(todo[t])}]
    BY <1>1 DEF Lock
  <2> QED
    BY <1>0, <2>1, <2>2 DEF RowsAreExclusive, TypeOK
<1>2. ASSUME NEW t \in Transactions, NEW s, End(t, s) PROVE RowsAreExclusive'
  BY <1>0, <1>2 DEF End, RowsAreExclusive, TypeOK
<1>3. CASE UNCHANGED held
  BY <1>0, <1>3 DEF RowsAreExclusive
<1> QED
  BY <1>1, <1>2, <1>3
  DEF Next, Run, vars, transaction, Begin, Ensure, Select, CommitMove, CommitAirdrop,
      Refuse, Crash, Victim, CreateWallet

LEMMA StepCurrent == IInv /\ [Next]_vars => ReadsStayCurrent'
<1> SUFFICES ASSUME IInv, [Next]_vars PROVE ReadsStayCurrent'
  OBVIOUS
<1>0. TypeOK /\ RowsAreExclusive /\ ReadsStayCurrent
  BY DEF IInv
<1>1. ASSUME NEW t \in Transactions, Lock(t) PROVE ReadsStayCurrent'
  <2> DEFINE h == Head(todo[t])
  <2>1. h \in Wallets
    BY <1>0, <1>1, NextOf DEF Lock, TypeOK
  <2>2. /\ held' = [held EXCEPT ![t] = held[t] \cup {h}]
        /\ read' = [read EXCEPT ![t] = [read[t] EXCEPT ![h] = balance[h]]]
        /\ balance' = balance
    BY <1>1 DEF Lock, book
  <2> HIDE DEF h
  <2> SUFFICES ASSUME NEW u \in Transactions, NEW w \in held'[u] PROVE read'[u][w] = balance'[w]
    BY DEF ReadsStayCurrent
  <2>3. CASE u # t
    BY <1>0, <2>2, <2>3 DEF ReadsStayCurrent, TypeOK
  <2>4. CASE u = t /\ w = h
    BY <1>0, <2>1, <2>2, <2>4 DEF TypeOK
  <2>5. CASE u = t /\ w # h
    <3>1. w \in held[t] /\ w \in Wallets
      BY <1>0, <2>2, <2>5 DEF TypeOK
    <3>2. read'[t] = [read[t] EXCEPT ![h] = balance[h]]
      BY <1>0, <2>2 DEF TypeOK
    <3> QED
      BY <1>0, <2>2, <2>5, <3>1, <3>2 DEF ReadsStayCurrent, TypeOK
  <2> QED
    BY <2>3, <2>4, <2>5
<1>2. ASSUME NEW t \in Transactions, NEW s, End(t, s),
             \A w \in Wallets : balance'[w] # balance[w] => w \in held[t]
      PROVE  ReadsStayCurrent'
  <2> SUFFICES ASSUME NEW u \in Transactions, NEW w \in held'[u] PROVE read'[u][w] = balance'[w]
    BY DEF ReadsStayCurrent
  <2>1. u # t /\ w \in held[u] /\ read'[u] = read[u]
    BY <1>0, <1>2 DEF End, TypeOK
  <2>2. w \notin held[t] /\ w \in Wallets
    BY <1>0, <2>1 DEF RowsAreExclusive, TypeOK
  <2> QED
    BY <1>0, <1>2, <2>1, <2>2 DEF ReadsStayCurrent
<1>3. ASSUME NEW t \in Transactions, CommitMove(t) PROVE ReadsStayCurrent'
  <2>1. /\ request[t].from \in held[t] /\ request[t].to \in held[t]
        /\ request[t].from \in Wallets /\ request[t].to \in Wallets
    BY <1>3, CommitterKnows DEF CommitMove
  <2>2. \A w \in Wallets \ {request[t].from, request[t].to} : balance'[w] = balance[w]
    BY <1>0, <1>3, <2>1 DEF CommitMove, TypeOK
  <2>3. End(t, "COMMITTED")
    BY <1>3 DEF CommitMove
  <2> QED
    BY <1>2, <2>1, <2>2, <2>3
<1>4. ASSUME NEW t \in Transactions, CommitAirdrop(t) PROVE ReadsStayCurrent'
  <2>1. request[t].to \in held[t] /\ request[t].to \in Wallets
    BY <1>4, CommitterKnows DEF CommitAirdrop
  <2>2. \A w \in Wallets \ {request[t].to} : balance'[w] = balance[w]
    BY <1>0, <1>4, <2>1 DEF CommitAirdrop, TypeOK
  <2>3. End(t, "COMMITTED")
    BY <1>4 DEF CommitAirdrop
  <2> QED
    BY <1>2, <2>1, <2>2, <2>3
<1>5. ASSUME NEW t \in Transactions, Refuse(t) \/ Crash(t) \/ Victim(t) PROVE ReadsStayCurrent'
  <2>1. balance' = balance
    BY <1>5 DEF Refuse, Crash, Victim, book
  <2>2. PICK s \in Ends : End(t, s)
    BY <1>5 DEF Refuse, Crash, Victim, Ends
  <2> QED
    BY <1>2, <2>1, <2>2
<1>6. CASE UNCHANGED <<held, read, balance>>
  BY <1>0, <1>6 DEF ReadsStayCurrent
<1> QED
  BY <1>1, <1>3, <1>4, <1>5, <1>6
  DEF Next, Run, vars, book, transaction, Begin, Ensure, Select, CreateWallet

LEMMA StepDisciplined == IInv /\ [Next]_vars => Disciplined'
<1> SUFFICES ASSUME IInv, [Next]_vars PROVE Disciplined'
  OBVIOUS
<1>0. TypeOK /\ Disciplined
  BY DEF IInv
<1>1. ASSUME NEW u \in Transactions,
             step'[u] = step[u], request'[u] = request[u], made'[u] = made[u],
             todo'[u] = todo[u], held'[u] = held[u]
      PROVE  InStep(u)' /\ InOrder(u)'
  BY <1>0, <1>1 DEF Disciplined, InStep, InOrder
<1>2. ASSUME NEW t \in Transactions, NEW r \in Requests, Begin(t, r) PROVE Disciplined'
  <2>1. \A u \in Transactions \ {t} : InStep(u)' /\ InOrder(u)'
    BY <1>0, <1>1, <1>2 DEF Begin, TypeOK
  <2>2. /\ step'[t] = "ENSURE" /\ request'[t] = r /\ todo'[t] = Ensured(r)
        /\ made'[t] = {} /\ held'[t] = {} /\ Accepted(r)
    BY <1>0, <1>2 DEF Begin, TypeOK, Disciplined, InStep
  <2>3. r.kind # "BUCKET" => Len(Ensured(r)) = 1
    BY EnsuredType
  <2>4. InStep(t)' /\ InOrder(t)'
    BY <2>2, <2>3 DEF InStep, InOrder
  <2> QED
    BY <2>1, <2>4 DEF Disciplined
<1>3. ASSUME NEW t \in Transactions, Ensure(t) PROVE Disciplined'
  <2>1. \A u \in Transactions \ {t} : InStep(u)' /\ InOrder(u)'
    BY <1>0, <1>1, <1>3 DEF Ensure, TypeOK
  <2>2. /\ step'[t] = "ENSURE" /\ request'[t] = request[t] /\ todo'[t] = Tail(todo[t])
        /\ held'[t] = {} /\ request[t] \in Requests /\ Accepted(request[t])
    BY <1>0, <1>3 DEF Ensure, TypeOK, Disciplined, InStep
  <2>3. request[t].kind # "BUCKET" => Len(todo[t]) = 1
    BY <1>0, <1>3 DEF Ensure, Disciplined, InStep
  <2>4. Tail(todo[t]) \in Seq(Wallets) /\ Len(Tail(todo[t])) = Len(todo[t]) - 1
    BY <1>0, <1>3, NextOf DEF Ensure, TypeOK
  <2>5. request[t].kind # "BUCKET" => Tail(todo[t]) = <<>>
    <3>1. request[t].kind # "BUCKET" => Len(Tail(todo[t])) = 0
      BY <2>3, <2>4
    <3>2. Tail(todo[t]) # <<>> => Len(Tail(todo[t])) \in Nat \ {0}
      BY <2>4, EmptySeq, Zenon
    <3> QED
      BY <3>1, <3>2
  <2>6. InStep(t)' /\ InOrder(t)'
    BY <2>2, <2>5 DEF InStep, InOrder
  <2> QED
    BY <2>1, <2>6 DEF Disciplined
<1>4. ASSUME NEW t \in Transactions, Select(t) PROVE Disciplined'
  <2>1. \A u \in Transactions \ {t} : InStep(u)' /\ InOrder(u)'
    BY <1>0, <1>1, <1>4 DEF Select, TypeOK
  <2>2. /\ step'[t] = "LOCK" /\ request'[t] = request[t] /\ held'[t] = {}
        /\ request[t] \in Requests /\ Accepted(request[t])
    BY <1>0, <1>4 DEF Select, TypeOK, Disciplined, InStep
  <2>3. PICK s \in LockOrders(request[t], Visible(t)) : todo' = [todo EXCEPT ![t] = s]
    BY <1>4 DEF Select
  <2>4. todo'[t] = s
    BY <1>0, <2>3 DEF TypeOK
  <2>5. Visible(t) \subseteq Parties(request[t]) /\ Visible(t) \in SUBSET Wallets
    BY <2>2, RequestType DEF Visible
  <2>6. /\ s \in Seq(Wallets)
        /\ \A i \in 1..Len(s) : s[i] \in Visible(t)
        /\ request[t].kind = "TRANSFER" =>
             \A i, j \in 1..Len(s) : i < j => s[i].user < s[j].user
        /\ \A i, j \in 1..Len(s) : i < j => s[i] # s[j]
    BY <2>2, <2>5, LockOrdersType
  <2>7. request[t].kind = "AIRDROP" => \A i, j \in 1..Len(s) : ~(i < j)
    BY <2>5, <2>6 DEF Parties
  <2>8. request[t].kind \in {"TRANSFER", "BUCKET", "AIRDROP"}
    BY <2>2, RequestType
  <2>9. InStep(t)' /\ InOrder(t)'
    BY <2>2, <2>4, <2>5, <2>6, <2>7, <2>8 DEF InStep, InOrder
  <2> QED
    BY <2>1, <2>9 DEF Disciplined
<1>5. ASSUME NEW t \in Transactions, Lock(t) PROVE Disciplined'
  <2> DEFINE s == todo[t]
  <2>1. \A u \in Transactions \ {t} : InStep(u)' /\ InOrder(u)'
    BY <1>0, <1>1, <1>5 DEF Lock, TypeOK
  <2>2. /\ step[t] = "LOCK" /\ step'[t] = "LOCK" /\ request'[t] = request[t]
        /\ request[t] \in Requests /\ Accepted(request[t])
        /\ held'[t] = held[t] \cup {Head(s)} /\ todo'[t] = Tail(s)
    BY <1>0, <1>5 DEF Lock, TypeOK, Disciplined, InStep
  <2>3. /\ held[t] \subseteq Parties(request[t])
        /\ \A i \in 1..Len(s) : s[i] \in Parties(request[t])
    BY <1>0, <2>2 DEF Disciplined, InStep
  <2>4. request[t].kind # "BUCKET" =>
          /\ \A w \in held[t] : \A i \in 1..Len(s) : w.user < s[i].user
          /\ \A i, j \in 1..Len(s) : i < j => s[i].user < s[j].user
    BY <1>0, <2>2 DEF Disciplined, InOrder
  <2>5. /\ Head(s) = s[1] /\ Len(s) \in Nat /\ Len(s) >= 1 /\ Len(Tail(s)) = Len(s) - 1
        /\ \A i \in 1..Len(Tail(s)) : i + 1 \in 1..Len(s) /\ Tail(s)[i] = s[i + 1]
    BY <1>0, <1>5, NextOf DEF Lock, TypeOK
  <2> HIDE DEF s
  <2>6. Head(s) \in Parties(request[t])
        /\ \A i \in 1..Len(Tail(s)) : Tail(s)[i] \in Parties(request[t])
    BY <2>3, <2>5
  <2>7. ASSUME request[t].kind # "BUCKET", NEW w \in held[t] \cup {Head(s)},
               NEW i \in 1..Len(Tail(s))
        PROVE  w.user < Tail(s)[i].user
    <3>1. i + 1 \in 1..Len(s) /\ Tail(s)[i] = s[i + 1]
      BY <2>5
    <3>2. CASE w \in held[t]
      BY <2>4, <2>7, <3>1, <3>2
    <3>3. CASE w = Head(s)
      <4>1. 1 \in 1..Len(s) /\ 1 < i + 1 /\ w = s[1]
        BY <2>5, <3>3
      <4> QED
        BY <2>4, <2>7, <3>1, <4>1
    <3> QED
      BY <3>2, <3>3
  <2>8. ASSUME request[t].kind # "BUCKET", NEW i \in 1..Len(Tail(s)), NEW j \in 1..Len(Tail(s)),
               i < j
        PROVE  Tail(s)[i].user < Tail(s)[j].user
    <3>1. /\ i + 1 \in 1..Len(s) /\ Tail(s)[i] = s[i + 1]
          /\ j + 1 \in 1..Len(s) /\ Tail(s)[j] = s[j + 1]
          /\ i + 1 < j + 1
      BY <2>5, <2>8
    <3> QED
      BY <2>4, <2>8, <3>1
  <2>9. InStep(t)' /\ InOrder(t)'
    BY <2>2, <2>3, <2>6, <2>7, <2>8 DEF InStep, InOrder
  <2> QED
    BY <2>1, <2>9 DEF Disciplined
<1>6. ASSUME NEW t \in Transactions, NEW s \in Ends, End(t, s) PROVE Disciplined'
  <2>1. \A u \in Transactions \ {t} : InStep(u)' /\ InOrder(u)'
    BY <1>0, <1>1, <1>6 DEF End, TypeOK
  <2>2. step'[t] \notin {"ENSURE", "LOCK"}
    BY <1>0, <1>6 DEF End, TypeOK, Ends
  <2>3. made'[t] = {} /\ held'[t] = {} /\ todo'[t] = <<>>
    BY <1>0, <1>6 DEF End, TypeOK
  <2>4. InStep(t)' /\ InOrder(t)'
    BY <2>2, <2>3 DEF InStep, InOrder
  <2> QED
    BY <2>1, <2>4 DEF Disciplined
<1>7. CASE UNCHANGED transaction
  BY <1>1, <1>7 DEF transaction, Disciplined
<1>8. "COMMITTED" \in Ends /\ "REFUSED" \in Ends /\ "ABORTED" \in Ends
  BY DEF Ends
<1> QED
  BY <1>2, <1>3, <1>4, <1>5, <1>6, <1>7, <1>8
  DEF Next, Run, vars, CommitMove, CommitAirdrop, Refuse, Crash, Victim, CreateWallet

LEMMA Invariance == Spec => []IInv
<1>1. IInv /\ [Next]_vars => IInv'
  BY StepType, StepExclusive, StepCurrent, StepDisciplined DEF IInv
<1> QED
  BY <1>1, InitIInv, PTL DEF Spec

\* No balance is ever negative, and nothing is locked, read or listed that is
\* not a wallet of the request (the checks of create, airdrop and
\* transferAdminWalletBucket).
THEOREM FundsTypesHold == Spec => []TypeOK
<1>1. IInv => TypeOK
  BY DEF IInv
<1> QED
  BY <1>1, Invariance, PTL

\* Between a SELECT FOR UPDATE and the update computed from it nobody writes
\* the wallets.
THEOREM ReadsHoldUntilWritten == Spec => []ReadsStayCurrent
<1>1. IInv => ReadsStayCurrent
  BY DEF IInv
<1> QED
  BY <1>1, Invariance, PTL

-----------------------------------------------------------------------------
\* Every step of Funds is a step of the book.

LEMMA BookStep == IInv /\ [Next]_vars => [Book!Next]_book
<1> SUFFICES ASSUME IInv, [Next]_vars PROVE [Book!Next]_book
  OBVIOUS
<1>1. ASSUME NEW t \in Transactions, CommitMove(t) PROVE Book!Next
  <2> DEFINE r == request[t]
  <2>1. /\ r \in Requests
        /\ r.from \in Wallets /\ r.to \in Wallets /\ r.amount \in Amounts
        /\ read[t][r.from] = balance[r.from] /\ read[t][r.to] = balance[r.to]
        /\ balance[r.from] >= r.amount /\ r.from # r.to
    BY <1>1, CommitterKnows DEF CommitMove
  <2>2. /\ balance' = [balance EXCEPT ![r.from] = balance[r.from] - r.amount,
                                      ![r.to] = balance[r.to] + r.amount]
        /\ history' = history \o <<Entry(r.from, -r.amount, balance[r.from] - r.amount),
                                   Entry(r.to, r.amount, balance[r.to] + r.amount)>>
        /\ opening' = opening
    BY <1>1, <2>1 DEF CommitMove
  <2> HIDE DEF r
  <2>3. Book!Move(r.from, r.to, r.amount)
    BY <2>1, <2>2 DEF Book!Move, Book!Entry, Entry
  <2>4. Book!Wallets = Wallets
    BY DEF Book!Wallets, Wallets, Book!MainWallets, MainWallets, Book!AdminWallets, AdminWallets,
           Book!Main, Main
  <2> QED
    BY <2>1, <2>3, <2>4 DEF Book!Next
<1>2. ASSUME NEW t \in Transactions, CommitAirdrop(t) PROVE Book!Next
  <2> DEFINE r == request[t]
  <2>1. /\ r \in Requests /\ r.kind = "AIRDROP"
        /\ r.amount \in Amounts /\ read[t][r.to] = balance[r.to]
    BY <1>2, CommitterKnows DEF CommitAirdrop
  <2>2. /\ balance' = [balance EXCEPT ![r.to] = balance[r.to] + r.amount]
        /\ history' = Append(history, Entry(r.to, r.amount, balance[r.to] + r.amount))
        /\ opening' = opening
    BY <1>2, <2>1 DEF CommitAirdrop
  <2>3. r.to \in MainWallets
    BY <2>1, RequestType
  <2> HIDE DEF r
  <2>4. Book!Credit(r.to, r.amount)
    BY <2>2 DEF Book!Credit, Book!Entry, Entry
  <2>5. Book!MainWallets = MainWallets
    BY DEF Book!MainWallets, MainWallets, Book!Main, Main
  <2> QED
    BY <2>1, <2>3, <2>4, <2>5 DEF Book!Next
<1>3. CASE UNCHANGED book
  BY <1>3
<1> QED
  BY <1>1, <1>2, <1>3
  DEF Next, Run, vars, transaction, Begin, Ensure, Select, Lock, Refuse, Crash, Victim, CreateWallet

\* Transfers, airdrops and bucket transfers, whatever overlaps, crashes or is
\* chosen as a deadlock's victim, move money in single steps that never take
\* what is not there.
THEOREM FundsImplementTheBook == Spec => MovesAreAtomic
<1>1. Init => Book!Init
  <2>1. Book!Wallets = Wallets
    BY DEF Book!Wallets, Wallets, Book!MainWallets, MainWallets, Book!AdminWallets, AdminWallets,
           Book!Main, Main
  <2> QED
    BY <2>1, OpeningsAssumption DEF Init, Book!Init
<1>2. IInv /\ [Next]_vars => [Book!Next]_(Book!book)
  BY BookStep DEF Book!book, book
<1> QED
  BY <1>1, <1>2, Invariance, PTL DEF MovesAreAtomic, Book!Spec, Spec

-----------------------------------------------------------------------------
\* The ledger explains the balances.

\* One more entry moves its own wallet to where it says, and no other.
OneMoreEntry ==
  \A n \in Nat : \A w, v :
    /\ history[n + 1].wallet = w /\ history[n + 1].after = v => StandsAt(w, n + 1, v)
    /\ history[n + 1].wallet # w /\ StandsAt(w, n, v) => StandsAt(w, n + 1, v)

LEMMA OneMoreEntryHolds == OneMoreEntry
<1> SUFFICES ASSUME NEW n \in Nat, NEW w, NEW v
             PROVE  /\ history[n + 1].wallet = w /\ history[n + 1].after = v
                         => StandsAt(w, n + 1, v)
                    /\ history[n + 1].wallet # w /\ StandsAt(w, n, v) => StandsAt(w, n + 1, v)
  BY DEF OneMoreEntry
<1>1. 1..(n + 1) = 1..n \cup {n + 1} /\ (n + 2)..(n + 1) = {} /\ n + 1 \in 1..(n + 1)
  OBVIOUS
<1>2. ASSUME history[n + 1].wallet = w, history[n + 1].after = v PROVE StandsAt(w, n + 1, v)
  <2>1. Latest(n + 1, w, n + 1)
    BY <1>1, <1>2 DEF Latest
  <2> QED
    BY <1>1, <1>2, <2>1 DEF StandsAt
<1>3. ASSUME history[n + 1].wallet # w, StandsAt(w, n, v) PROVE StandsAt(w, n + 1, v)
  <2>1. CASE \A i \in 1..n : history[i].wallet # w
    <3>1. \A i \in 1..n : ~Latest(i, w, n)
      BY <2>1 DEF Latest
    <3> QED
      BY <1>1, <1>3, <2>1, <3>1 DEF StandsAt
  <2>2. ASSUME NEW i \in 1..n, Latest(i, w, n), history[i].after = v
        PROVE  StandsAt(w, n + 1, v)
    <3>1. \A j \in (i + 1)..(n + 1) : j \in (i + 1)..n \/ j = n + 1
      OBVIOUS
    <3>2. Latest(i, w, n + 1)
      BY <1>1, <1>3, <2>2, <3>1 DEF Latest
    <3> QED
      BY <1>1, <2>2, <3>2 DEF StandsAt
  <2> QED
    BY <1>3, <2>1, <2>2 DEF StandsAt
<1> QED
  BY <1>2, <1>3

\* What stands in the ledger after its first n entries stays there.
LEMMA StandsKept ==
  ASSUME NEW m \in Nat, NEW n \in 0..m, NEW w, NEW v,
         opening' = opening, \A i \in 1..m : history'[i] = history[i],
         StandsAt(w, n, v)
  PROVE  StandsAt(w, n, v)'
<1>1. \A i \in 1..n : i \in 1..m
  OBVIOUS
<1>2. CASE (\A i \in 1..n : history[i].wallet # w) /\ opening[w] = v
  BY <1>1, <1>2 DEF StandsAt
<1>3. ASSUME NEW i \in 1..n, Latest(i, w, n), history[i].after = v PROVE StandsAt(w, n, v)'
  <2>1. \A j \in (i + 1)..n : j \in 1..m
    OBVIOUS
  <2>2. Latest(i, w, n)'
    BY <1>1, <1>3, <2>1 DEF Latest
  <2> QED
    BY <1>1, <1>3, <2>2 DEF StandsAt
<1> QED
  BY <1>2, <1>3 DEF StandsAt

\* A step that only appends entries leaves the old ones explained, and every
\* wallet where it was before the new ones.
LEMMA OldEntriesExplained ==
  ASSUME TypeOK, LedgerExplainsBalances, NEW n \in Nat, n = Len(history), opening' = opening,
         \A i \in 1..n : history'[i] = history[i]
  PROVE  /\ \A i \in 1..n :
              StandsAt(history[i].wallet, i - 1, history[i].after - history[i].amount)'
         /\ \A w \in Wallets : \A v : v = balance[w] => StandsAt(w, n, v)'
<1>1. ASSUME NEW k \in 0..n, NEW w, NEW v, StandsAt(w, k, v) PROVE StandsAt(w, k, v)'
  BY <1>1, StandsKept
<1>2. ASSUME NEW i \in 1..n
      PROVE  StandsAt(history[i].wallet, i - 1, history[i].after - history[i].amount)'
  <2>1. StandsAt(history[i].wallet, i - 1, history[i].after - history[i].amount)
    BY DEF LedgerExplainsBalances
  <2>2. i - 1 \in 0..n
    OBVIOUS
  <2> DEFINE x == history[i].wallet
             y == history[i].after - history[i].amount
  <2>3. history'[i].wallet = x /\ history'[i].after - history'[i].amount = y
    OBVIOUS
  <2> HIDE DEF x, y
  <2>4. StandsAt(x, i - 1, y)
    BY <2>1 DEF x, y
  <2>5. \A u, v : StandsAt(u, i - 1, v) => StandsAt(u, i - 1, v)'
    BY <1>1, <2>2
  <2> QED
    BY <2>3, <2>4, <2>5
<1>3. \A w \in Wallets : StandsAt(w, n, balance[w])
  BY DEF LedgerExplainsBalances
<1>4. ASSUME NEW w \in Wallets, NEW v, v = balance[w] PROVE StandsAt(w, n, v)'
  <2>1. StandsAt(w, n, v)
    BY <1>3, <1>4
  <2> QED
    BY <1>1, <2>1
<1> QED
  BY <1>2, <1>4

LEMMA CreditExplained ==
  ASSUME TypeOK, LedgerExplainsBalances, NEW t \in Wallets, NEW a \in Nat,
         balance' = [balance EXCEPT ![t] = balance[t] + a],
         history' = Append(history, Entry(t, a, balance[t] + a)),
         opening' = opening
  PROVE  LedgerExplainsBalances'
<1>1. PICK n \in Nat : n = Len(history)
  BY LenProperties DEF TypeOK
<1>2. PICK b \in Nat : b = balance[t]
  BY DEF TypeOK
<1>3. Entry(t, a, b + a) \in EntryRec
  BY EntryType
<1>4. /\ Len(history') = n + 1
      /\ \A i \in 1..n : history'[i] = history[i]
      /\ history'[n + 1] = Entry(t, a, b + a)
  BY <1>1, <1>2, <1>3, AppendProperties DEF TypeOK
<1>5. /\ history'[n + 1].wallet = t /\ history'[n + 1].amount = a
      /\ history'[n + 1].after = b + a
  BY <1>4 DEF Entry
<1>6. OneMoreEntry'
  BY OneMoreEntryHolds, PTL
<1>7. /\ \A i \in 1..n :
           StandsAt(history[i].wallet, i - 1, history[i].after - history[i].amount)'
      /\ \A w \in Wallets : \A v : v = balance[w] => StandsAt(w, n, v)'
  BY <1>1, <1>4, OldEntriesExplained
<1>8. StandsAt(history[n + 1].wallet, (n + 1) - 1, history[n + 1].after - history[n + 1].amount)'
  <2>1. StandsAt(t, n, b)'
    BY <1>2, <1>7
  <2>2. (n + 1) - 1 = n /\ (b + a) - a = b
    OBVIOUS
  <2>3. history'[n + 1].after - history'[n + 1].amount = b
    BY <1>5, <2>2
  <2> QED
    BY <1>5, <2>1, <2>2, <2>3
<1>9. ASSUME NEW w \in Wallets PROVE StandsAt(w, n + 1, balance[w])'
  <2>1. CASE w = t
    <3>1. balance'[w] = b + a
      BY <1>2, <2>1 DEF TypeOK
    <3>2. StandsAt(t, n + 1, b + a)'
      BY <1>5, <1>6 DEF OneMoreEntry
    <3> QED
      BY <2>1, <3>1, <3>2
  <2>2. CASE w # t
    <3>1. PICK v : v = balance[w]
      OBVIOUS
    <3>2. balance'[w] = v
      BY <2>2, <3>1 DEF TypeOK
    <3>3. StandsAt(w, n, v)'
      BY <1>7, <3>1
    <3>4. StandsAt(w, n + 1, v)'
      BY <1>5, <1>6, <2>2, <3>3 DEF OneMoreEntry
    <3> QED
      BY <3>2, <3>4
  <2> QED
    BY <2>1, <2>2
<1>10. \A i \in 1..(n + 1) : i \in 1..n \/ i = n + 1
  OBVIOUS
<1> QED
  BY <1>4, <1>7, <1>8, <1>9, <1>10 DEF LedgerExplainsBalances

LEMMA MoveExplained ==
  ASSUME TypeOK, LedgerExplainsBalances, NEW f \in Wallets, NEW t \in Wallets, NEW a \in Nat,
         f # t, balance[f] >= a,
         balance' = [balance EXCEPT ![f] = balance[f] - a, ![t] = balance[t] + a],
         history' = history \o <<Entry(f, -a, balance[f] - a), Entry(t, a, balance[t] + a)>>,
         opening' = opening
  PROVE  LedgerExplainsBalances'
<1>1. PICK n \in Nat : n = Len(history)
  BY LenProperties DEF TypeOK
<1>2. PICK b \in Nat : b = balance[f]
  BY DEF TypeOK
<1>3. PICK c \in Nat : c = balance[t]
  BY DEF TypeOK
<1> DEFINE out == Entry(f, -a, b - a)
           in == Entry(t, a, c + a)
<1>4. out \in EntryRec /\ in \in EntryRec
  <2>1. b - a \in Nat /\ c + a \in Nat /\ -a \in Int /\ a \in Int
    BY <1>2
  <2> QED
    BY <2>1, EntryType
<1>5. /\ out.wallet = f /\ out.amount = -a /\ out.after = b - a
      /\ in.wallet = t /\ in.amount = a /\ in.after = c + a
  BY DEF Entry
<1>6. history' = history \o <<out, in>>
  BY <1>2, <1>3
<1> HIDE DEF out, in
<1>7. /\ <<out, in>> \in Seq(EntryRec) /\ Len(<<out, in>>) = 2
      /\ <<out, in>>[1] = out /\ <<out, in>>[2] = in
  BY <1>4
<1>8. /\ Len(history') = n + 2
      /\ \A i \in 1..(n + 2) :
           history'[i] = IF i <= n THEN history[i] ELSE <<out, in>>[i - n]
  BY <1>1, <1>6, <1>7, ConcatProperties DEF TypeOK
<1>9. /\ \A i \in 1..n : history'[i] = history[i]
      /\ history'[n + 1] = out /\ history'[n + 2] = in
  <2>1. n + 1 \in 1..(n + 2) /\ n + 2 \in 1..(n + 2) /\ ~(n + 1 <= n) /\ ~(n + 2 <= n)
        /\ (n + 1) - n = 1 /\ (n + 2) - n = 2
    OBVIOUS
  <2>2. \A i \in 1..n : i \in 1..(n + 2) /\ i <= n
    OBVIOUS
  <2> QED
    BY <1>7, <1>8, <2>1, <2>2
<1>10. OneMoreEntry'
  BY OneMoreEntryHolds, PTL
<1>11. /\ \A i \in 1..n :
            StandsAt(history[i].wallet, i - 1, history[i].after - history[i].amount)'
       /\ \A w \in Wallets : \A v : v = balance[w] => StandsAt(w, n, v)'
  BY <1>1, <1>9, OldEntriesExplained
<1>12. n + 1 \in Nat /\ (n + 1) + 1 = n + 2
  OBVIOUS
<1>13. StandsAt(history[n + 1].wallet, (n + 1) - 1, history[n + 1].after - history[n + 1].amount)'
  <2>1. StandsAt(f, n, b)'
    BY <1>2, <1>11
  <2>2. (n + 1) - 1 = n /\ (b - a) - (-a) = b
    OBVIOUS
  <2>3. history'[n + 1].after - history'[n + 1].amount = b
    BY <1>5, <1>9, <2>2
  <2> QED
    BY <1>5, <1>9, <2>1, <2>2, <2>3
<1>14. StandsAt(history[n + 2].wallet, (n + 2) - 1, history[n + 2].after - history[n + 2].amount)'
  <2>1. StandsAt(t, n, c)'
    BY <1>3, <1>11
  <2>2. StandsAt(t, n + 1, c)'
    BY <1>5, <1>9, <1>10, <2>1 DEF OneMoreEntry
  <2>3. (n + 2) - 1 = n + 1 /\ (c + a) - a = c
    OBVIOUS
  <2>4. history'[n + 2].after - history'[n + 2].amount = c
    BY <1>5, <1>9, <2>3
  <2> QED
    BY <1>5, <1>9, <2>2, <2>3, <2>4
<1>15. ASSUME NEW w \in Wallets PROVE StandsAt(w, n + 2, balance[w])'
  <2>1. CASE w = t
    <3>1. balance'[w] = c + a
      BY <1>3, <2>1 DEF TypeOK
    <3>2. StandsAt(t, (n + 1) + 1, c + a)'
      BY <1>5, <1>9, <1>10, <1>12 DEF OneMoreEntry
    <3> QED
      BY <1>12, <2>1, <3>1, <3>2
  <2>2. CASE w = f
    <3>1. balance'[w] = b - a
      BY <1>2, <2>2 DEF TypeOK
    <3>2. StandsAt(f, n + 1, b - a)'
      BY <1>5, <1>9, <1>10 DEF OneMoreEntry
    <3>3. history'[(n + 1) + 1].wallet # f
      BY <1>5, <1>9, <1>12
    <3>4. StandsAt(f, (n + 1) + 1, b - a)'
      BY <1>10, <1>12, <3>2, <3>3 DEF OneMoreEntry
    <3> QED
      BY <1>12, <2>2, <3>1, <3>4
  <2>3. CASE w # t /\ w # f
    <3>1. PICK v : v = balance[w]
      OBVIOUS
    <3>2. balance'[w] = v
      BY <2>3, <3>1 DEF TypeOK
    <3>3. StandsAt(w, n, v)'
      BY <1>11, <3>1
    <3>4. StandsAt(w, n + 1, v)'
      BY <1>5, <1>9, <1>10, <2>3, <3>3 DEF OneMoreEntry
    <3>5. history'[(n + 1) + 1].wallet # w
      BY <1>5, <1>9, <1>12, <2>3
    <3>6. StandsAt(w, (n + 1) + 1, v)'
      BY <1>10, <1>12, <3>4, <3>5 DEF OneMoreEntry
    <3> QED
      BY <1>12, <3>2, <3>6
  <2> QED
    BY <2>1, <2>2, <2>3
<1>16. \A i \in 1..(n + 2) : i \in 1..n \/ i = n + 1 \/ i = n + 2
  OBVIOUS
<1> QED
  BY <1>8, <1>11, <1>13, <1>14, <1>15, <1>16 DEF LedgerExplainsBalances

LEMMA StepExplained ==
  IInv /\ LedgerExplainsBalances /\ [Next]_vars => LedgerExplainsBalances'
<1> SUFFICES ASSUME IInv, LedgerExplainsBalances, [Next]_vars PROVE LedgerExplainsBalances'
  OBVIOUS
<1>0. TypeOK
  BY DEF IInv
<1>1. ASSUME NEW t \in Transactions, CommitMove(t) PROVE LedgerExplainsBalances'
  <2> DEFINE r == request[t]
  <2>1. /\ r.from \in Wallets /\ r.to \in Wallets /\ r.amount \in Nat
        /\ read[t][r.from] = balance[r.from] /\ read[t][r.to] = balance[r.to]
        /\ balance[r.from] >= r.amount /\ r.from # r.to
    BY <1>1, CommitterKnows DEF CommitMove
  <2>2. /\ balance' = [balance EXCEPT ![r.from] = balance[r.from] - r.amount,
                                      ![r.to] = balance[r.to] + r.amount]
        /\ history' = history \o <<Entry(r.from, -r.amount, balance[r.from] - r.amount),
                                   Entry(r.to, r.amount, balance[r.to] + r.amount)>>
        /\ opening' = opening
    BY <1>1, <2>1 DEF CommitMove
  <2> HIDE DEF r
  <2>3. PICK f \in Wallets, w \in Wallets, a \in Nat : f = r.from /\ w = r.to /\ a = r.amount
    BY <2>1
  <2> QED
    BY <1>0, <2>1, <2>2, <2>3, MoveExplained
<1>2. ASSUME NEW t \in Transactions, CommitAirdrop(t) PROVE LedgerExplainsBalances'
  <2> DEFINE r == request[t]
  <2>1. r.to \in Wallets /\ r.amount \in Nat /\ read[t][r.to] = balance[r.to]
    BY <1>2, CommitterKnows DEF CommitAirdrop
  <2>2. /\ balance' = [balance EXCEPT ![r.to] = balance[r.to] + r.amount]
        /\ history' = Append(history, Entry(r.to, r.amount, balance[r.to] + r.amount))
        /\ opening' = opening
    BY <1>2, <2>1 DEF CommitAirdrop
  <2> HIDE DEF r
  <2>3. PICK w \in Wallets, a \in Nat : w = r.to /\ a = r.amount
    BY <2>1
  <2> QED
    BY <1>0, <2>2, <2>3, CreditExplained
<1>3. CASE UNCHANGED book
  BY <1>3 DEF book, LedgerExplainsBalances, StandsAt, Latest
<1> QED
  BY <1>1, <1>2, <1>3
  DEF Next, Run, vars, transaction, Begin, Ensure, Select, Lock, Refuse, Crash, Victim, CreateWallet

\* The ledger entries account for every balance, one after the other, although
\* each was computed from a balance read earlier in its own transaction.
THEOREM LedgerAlwaysExplains == Spec => []LedgerExplainsBalances
<1>1. Init => LedgerExplainsBalances
  BY EmptySeq DEF Init, LedgerExplainsBalances, StandsAt
<1> QED
  BY <1>1, Invariance, StepExplained, PTL DEF Spec

-----------------------------------------------------------------------------
\* Deadlocks.

\* Who waits, where, and for what.
LEMMA Waiting ==
  ASSUME IInv, NEW t \in Transactions, NEW u \in Transactions, WaitsFor(t, u)
  PROVE  /\ step[t] \in {"ENSURE", "LOCK"} /\ todo[t] # <<>>
         /\ request[t] \in Requests
         /\ step[t] = "LOCK" =>
              /\ Head(todo[t]) \in held[u] /\ step[u] = "LOCK"
              /\ Head(todo[t]) \in Parties(request[t])
         /\ step[t] = "ENSURE" => Head(todo[t]) \in made[u]
<1>0. TypeOK /\ InStep(t) /\ InStep(u)
  BY DEF IInv, Disciplined
<1>1. step[t] \in {"ENSURE", "LOCK"} /\ todo[t] # <<>>
  BY DEF WaitsFor
<1>2. request[t] \in Requests
  BY <1>0, <1>1 DEF InStep
<1>3. step[t] = "LOCK" => Head(todo[t]) \in held[u]
  BY DEF WaitsFor
<1>4. step[t] = "LOCK" => step[u] = "LOCK"
  BY <1>0, <1>3 DEF InStep
<1>5. Head(todo[t]) = todo[t][1] /\ 1 \in 1..Len(todo[t])
  BY <1>0, <1>1, NextOf DEF TypeOK
<1>6. step[t] = "LOCK" => Head(todo[t]) \in Parties(request[t])
  BY <1>0, <1>5 DEF InStep
<1>7. step[t] = "ENSURE" => Head(todo[t]) \in made[u]
  BY DEF WaitsFor
<1> QED
  BY <1>1, <1>2, <1>3, <1>4, <1>6, <1>7

\* A transaction that waits to insert its one wallet keeps nobody waiting.
LEMMA InserterHoldsNothing ==
  ASSUME IInv, NEW t \in Transactions, step[t] = "ENSURE", todo[t] # <<>>,
         request[t].kind # "BUCKET"
  PROVE  made[t] = {} /\ held[t] = {}
BY DEF IInv, Disciplined, InStep

\* A transfer or an airdrop that waits for a row has locked only rows before it.
LEMMA HeldRowsComeFirst ==
  ASSUME IInv, NEW t \in Transactions, step[t] = "LOCK", todo[t] # <<>>,
         request[t].kind # "BUCKET", NEW w \in held[t]
  PROVE  w.user < Head(todo[t]).user
<1>1. Head(todo[t]) = todo[t][1] /\ 1 \in 1..Len(todo[t])
  BY NextOf DEF IInv, TypeOK
<1> QED
  BY <1>1 DEF IInv, Disciplined, InOrder

\* The rank of the row a transaction waits for: smaller for later users.
Rank(t) == LastUser - Head(todo[t]).user

LEMMA WalletUser ==
  ASSUME NEW w \in Wallets
  PROVE  w.user \in 0..LastUser
<1>1. Admins \subseteq 0..LastUser /\ Users \subseteq 0..LastUser
  BY LedgerAssumption
<1>2. ASSUME w \in MainWallets PROVE w.user \in Users
  BY <1>2 DEF MainWallets, Main
<1>3. ASSUME w \in AdminWallets PROVE w.user \in Admins
  BY <1>3 DEF AdminWallets
<1> QED
  BY <1>1, <1>2, <1>3 DEF Wallets

LEMMA RankType ==
  ASSUME IInv, NEW t \in Transactions, todo[t] # <<>>
  PROVE  Rank(t) \in Nat /\ Head(todo[t]).user \in Nat
<1>1. Head(todo[t]) \in Wallets
  BY NextOf DEF IInv, TypeOK
<1>2. PICK n \in 0..LastUser : n = Head(todo[t]).user
  BY <1>1, WalletUser
<1>3. LastUser \in Nat /\ LastUser - n \in Nat /\ n \in Nat
  BY LedgerAssumption
<1> QED
  BY <1>2, <1>3 DEF Rank

\* In a set of transactions that wait for one another, one that is not a bucket
\* transfer and waits for a row leads to a bucket transfer that holds it.
LEMMA LastWaiter ==
  ASSUME IInv, NEW D \in SUBSET Transactions,
         \A t \in D : \E u \in D : WaitsFor(t, u),
         NEW s \in D, step[s] = "LOCK", request[s].kind # "BUCKET"
  PROVE  \E t, b \in D : /\ step[t] = "LOCK" /\ request[t].kind # "BUCKET"
                         /\ request[b].kind = "BUCKET" /\ WaitsFor(t, b)
<1> DEFINE L == {t \in D : step[t] = "LOCK" /\ request[t].kind # "BUCKET"}
           T == {Rank(t) : t \in L}
<1>1. \A t \in L : todo[t] # <<>> /\ Rank(t) \in Nat
  BY Waiting, RankType
<1>2. T \in SUBSET Nat /\ T # {}
  BY <1>1
<1>3. PICK m \in T : \A k \in T : m <= k
  BY <1>2, LeastElement
<1>4. PICK t \in L : m = Rank(t)
  BY <1>3
<1>5. \A x \in L : Rank(t) <= Rank(x)
  BY <1>3, <1>4
<1>6. PICK u \in D : WaitsFor(t, u)
  BY <1>4
<1>7. Head(todo[t]) \in held[u] /\ step[u] = "LOCK" /\ todo[t] # <<>>
  BY <1>4, <1>6, Waiting
<1>8. todo[u] # <<>>
  BY <1>6, Waiting
<1>9. ASSUME request[u].kind # "BUCKET" PROVE FALSE
  <2>1. u \in L
    BY <1>6, <1>7, <1>9
  <2>2. Head(todo[t]).user < Head(todo[u]).user
    BY <1>7, <1>8, <1>9, HeldRowsComeFirst
  <2>3. Head(todo[t]).user \in Nat /\ Head(todo[u]).user \in Nat
    BY <1>7, <1>8, RankType
  <2>4. Rank(u) < Rank(t)
    BY <2>2, <2>3, LedgerAssumption DEF Rank
  <2> QED
    BY <1>1, <1>5, <2>1, <2>4
<1> QED
  BY <1>4, <1>6, <1>9

\* The one bucket transfer of a deadlock would wait, in turn, for a row that
\* only another bucket transfer locks.
LEMMA BucketWaitsForBucket ==
  ASSUME IInv, NEW D \in SUBSET Transactions,
         NEW t \in D, NEW b \in D, NEW v \in D,
         step[t] = "LOCK", request[t].kind # "BUCKET", WaitsFor(t, b),
         request[b].kind = "BUCKET", WaitsFor(b, v)
  PROVE  request[v].kind = "BUCKET"
<1> DEFINE w == Head(todo[t])
           x == Head(todo[b])
<1>0. RowsAreExclusive
  BY DEF IInv
<1>1. w \in held[b] /\ step[b] = "LOCK" /\ request[t] \in Requests /\ w \in Parties(request[t])
  BY Waiting
<1>2. x \in held[v] /\ step[v] = "LOCK" /\ request[b] \in Requests /\ x \in Parties(request[b])
  BY <1>1, Waiting
<1>3. b # v
  BY DEF WaitsFor
<1>4. w # x
  BY <1>0, <1>1, <1>2, <1>3 DEF RowsAreExclusive
<1>5. w \in MainWallets
  BY <1>1, RequestType
<1>6. w \in Parties(request[b])
  BY <1>1 DEF IInv, Disciplined, InStep
<1> HIDE DEF w, x
<1>7. x.user = w.user
  BY <1>2, <1>6, RequestType DEF Parties
<1>8. SUFFICES ASSUME request[v].kind # "BUCKET" PROVE FALSE
  OBVIOUS
<1>9. request[v] \in Requests /\ held[v] \subseteq Parties(request[v])
  BY <1>2 DEF IInv, Disciplined, InStep
<1>10. x \in MainWallets
  BY <1>2, <1>8, <1>9, RequestType
<1> QED
  BY <1>4, <1>5, <1>7, <1>10 DEF MainWallets, Main

LEMMA NoDeadlockWithoutTwoBuckets == IInv => DeadlocksNeedTwoBuckets
<1> SUFFICES ASSUME IInv, NEW D \in SUBSET Transactions, Deadlock(D),
                    \A t, u \in D : request[t].kind = "BUCKET" /\ request[u].kind = "BUCKET" => t = u
             PROVE  FALSE
  BY DEF DeadlocksNeedTwoBuckets
<1>1. \A t \in D : \E u \in D : WaitsFor(t, u)
  BY DEF Deadlock
<1>2. \A t, u \in D : WaitsFor(t, u) => t # u
  BY DEF WaitsFor
<1>3. \A t \in D : step[t] \in {"ENSURE", "LOCK"} /\ todo[t] # <<>>
  BY <1>1, Waiting
<1>4. CASE \E s \in D : step[s] = "LOCK" /\ request[s].kind # "BUCKET"
  <2>1. PICK t \in D, b \in D :
          /\ step[t] = "LOCK" /\ request[t].kind # "BUCKET"
          /\ request[b].kind = "BUCKET" /\ WaitsFor(t, b)
    BY <1>1, <1>4, LastWaiter
  <2>2. PICK v \in D : WaitsFor(b, v)
    BY <1>1
  <2>3. request[v].kind = "BUCKET"
    BY <2>1, <2>2, BucketWaitsForBucket
  <2> QED
    BY <1>2, <2>1, <2>2, <2>3
<1>5. CASE \A s \in D : step[s] = "LOCK" => request[s].kind = "BUCKET"
  <2>1. ASSUME NEW u \in D, request[u].kind # "BUCKET" PROVE made[u] = {} /\ held[u] = {}
    <3>1. step[u] = "ENSURE" /\ todo[u] # <<>>
      BY <1>3, <1>5, <2>1
    <3> QED
      BY <2>1, <3>1, InserterHoldsNothing
  <2>2. \A t, u \in D : WaitsFor(t, u) => request[u].kind = "BUCKET"
    BY <2>1, Waiting
  <2>3. PICK t \in D : TRUE
    BY DEF Deadlock
  <2>4. PICK u \in D : WaitsFor(t, u)
    BY <1>1
  <2>5. PICK v \in D : WaitsFor(u, v)
    BY <1>1
  <2> QED
    BY <1>2, <2>2, <2>4, <2>5
<1> QED
  BY <1>4, <1>5

\* Locking in the order of the users is enough for transfers and airdrops: only
\* bucket transfers, two of them, close a circle.
THEOREM OnlyBucketsDeadlock == Spec => []DeadlocksNeedTwoBuckets
  BY NoDeadlockWithoutTwoBuckets, Invariance, PTL

=============================================================================
