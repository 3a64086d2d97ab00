---------------------------- MODULE OverlapProofs ----------------------------
(***************************************************************************)
(* That placements and cancellations of one market leave book and wallets  *)
(* in agreement however they overlap, wait, deadlock and fail, for any     *)
(* number of transactions, users, prices and amounts: every order that a   *)
(* transaction changes, it has locked and read since.                      *)
(***************************************************************************)
EXTENDS OrderOverlap, MoneyProofs, FiniteSetTheorems, SequenceTheorems

-----------------------------------------------------------------------------
\* The inductive invariant

Assets == {"QUOTE", "BASE"}
OrderRec == [state : {"NONE", "OPEN", "FILLED", "CANCELLED"}, left : Nat]

OverlapTypes ==
  /\ req \in [Placements -> Requests] /\ target \in [Cancels -> Placements]
  /\ DOMAIN pc = Txs
  /\ needs \in [Txs -> Seq(Rows)] /\ held \in [Rows -> SUBSET Txs]
  /\ order \in [Placements -> OrderRec]
  /\ locked \in [Traders -> [Assets -> Int]]
  /\ found \in [Placements -> Seq(Placements)]
  /\ makers \in [Placements -> Seq(Nat)]
  /\ seen \in [Placements -> SUBSET Placements]

RowsExclusive == \A r \in Rows : \A t, u \in held[r] : t = u

\* The book: what rests has something left, an order shows with its commit, and
\* nobody has seen more than was committed.
BookSound ==
  /\ \A p \in Placements : order[p].state = "OPEN" => order[p].left > 0
  /\ \A p \in Placements : pc[p] \in {"IDLE", "INSERT", "SELECT", "MATCH", "COMMIT"}
                             => order[p].state = "NONE"
  /\ \A p \in Placements : seen[p] \subseteq Committed

\* What a placement selected is all that crosses of what it saw and still rests.
Selected(p) ==
  /\ \A i, j \in 1..Len(found[p]) : found[p][i] = found[p][j] => i = j
  /\ \A i \in 1..Len(found[p]) : found[p][i] \in Committed
  /\ \A q \in seen[p] \cap Resting : Crosses(p, q) => \E i \in 1..Len(found[p]) : found[p][i] = q

\* Row r is locked by t, or will be before t goes on.
WillHold(has, wants, t, r) == t \in has[r] \/ \E k \in 1..Len(wants[t]) : wants[t][k] = r

\* Each order to be filled or cancelled is locked before it is read, and what was
\* read of it stays true until the commit.
PlacesUnderLock(p) ==
  /\ pc[p] \in {"MATCH", "COMMIT"} => Selected(p)
  /\ pc[p] = "MATCH" => \A i \in 1..Len(found[p]) : WillHold(held, needs, p, found[p][i])
  /\ pc[p] = "COMMIT" => /\ \A i \in 1..Len(found[p]) : p \in held[found[p][i]]
                         /\ makers[p] = Read(p)

CancelsUnderLock(c) ==
  pc[c] = "COMMIT" => WillHold(held, needs, c, target[c]) /\ target[c] \in Committed

ReadUnderLock ==
  /\ \A p \in Placements : PlacesUnderLock(p)
  /\ \A c \in Cancels : CancelsUnderLock(c)

OverlapInv ==
  /\ OverlapTypes /\ RowsExclusive /\ BookSound /\ ReadUnderLock
  /\ LocksMatchBook /\ CrossNeedsOverlap

-----------------------------------------------------------------------------
\* Transactions, rows and sides

LEMMA Transactions ==
  /\ \A p \in Placements : p \in Txs /\ p \in Rows /\ p \notin Cancels
  /\ \A c \in Cancels : c \in Txs /\ c \notin Placements
  /\ \A u \in Traders : u \in Rows
  /\ {"QUOTE", "BASE", "MARKET"} \subseteq Rows
  BY TransactionsAssumption DEF Txs, Rows

LEMMA TheOtherSide ==
  /\ \A s \in Sides : Other(s) \in Sides /\ Other(s) # s /\ Other(Other(s)) = s
  /\ \A s \in Sides : Asset(s) \in Assets /\ Asset(s) \in Rows
  <1>1. \A s \in Sides : \E r \in Sides : r # s
    BY DEF Sides
  <1>2. \A s \in Sides : Other(s) \in Sides /\ Other(s) # s
    BY <1>1 DEF Other
  <1>3. \A s \in Sides : Other(Other(s)) = s
    BY <1>2 DEF Sides
  <1> QED
    BY <1>2, <1>3 DEF Asset, Assets, Rows

\* What a placement asks for.
LEMMA Asked ==
  ASSUME OverlapTypes, NEW p \in Placements
  PROVE  /\ req[p].owner \in Traders /\ req[p].side \in Sides /\ req[p].price \in Nat
         /\ req[p].amount \in Nat /\ req[p].amount > 0
         /\ Asset(req[p].side) \in Assets
  BY RequestsAssumption, TheOtherSide DEF OverlapTypes

LEMMA CrossesBothWays ==
  ASSUME OverlapTypes, NEW p \in Placements, NEW q \in Placements, Crosses(p, q)
  PROVE  Crosses(q, p)
  <1>1. /\ req[p].side \in Sides /\ req[q].side \in Sides
        /\ req[p].price \in Nat /\ req[q].price \in Nat
    BY Asked
  <1>2. req[q].side = Other(req[p].side) /\ req[p].side = Other(req[q].side)
        /\ req[p].side # req[q].side
    BY <1>1, TheOtherSide DEF Crosses
  <1> QED
    BY <1>1, <1>2 DEF Crosses, Sides

\* A transaction that locks the next row still holds, or will, all that it did.
LEMMA LockKeepsRows ==
  ASSUME OverlapTypes, NEW t \in Txs, Lock(t), NEW u \in Txs, NEW r \in Rows, WillHold(held, needs, u, r)
  PROVE  WillHold(held', needs', u, r)
  <1> DEFINE h == Head(needs[t])
  <1>1. needs[t] \in Seq(Rows) /\ needs[t] # <<>>
    BY DEF OverlapTypes, Lock
  <1>2. h \in Rows /\ h = needs[t][1] /\ Tail(needs[t]) \in Seq(Rows)
        /\ Len(Tail(needs[t])) = Len(needs[t]) - 1 /\ Len(needs[t]) \in Nat
        /\ \A k \in 1..(Len(needs[t]) - 1) : Tail(needs[t])[k] = needs[t][k + 1]
    BY <1>1
  <1>3. held' = [held EXCEPT ![h] = @ \union {t}] /\ needs' = [needs EXCEPT ![t] = Tail(@)]
    BY DEF Lock
  <1>4. \A x \in Rows : held'[x] = IF x = h THEN held[x] \union {t} ELSE held[x]
    BY <1>3 DEF OverlapTypes
  <1>5. \A x \in Txs : needs'[x] = IF x = t THEN Tail(needs[x]) ELSE needs[x]
    BY <1>3 DEF OverlapTypes
  <1>6. CASE u \in held[r]
    BY <1>4, <1>6 DEF WillHold
  <1>7. CASE u # t
    BY <1>4, <1>5, <1>7 DEF WillHold
  <1>8. CASE u = t /\ u \notin held[r]
    <2>1. PICK k \in 1..Len(needs[t]) : needs[t][k] = r
      BY <1>8 DEF WillHold
    <2>2. CASE k = 1
      BY <1>2, <1>4, <1>8, <2>1, <2>2 DEF WillHold
    <2>3. CASE k # 1
      <3>1. k - 1 \in 1..Len(Tail(needs[t])) /\ Tail(needs[t])[k - 1] = r
        BY <1>2, <2>1, <2>3
      <3> QED
        BY <1>5, <1>8, <3>1 DEF WillHold
    <2> QED
      BY <2>2, <2>3
  <1> QED
    BY <1>6, <1>7, <1>8

\* Who has locked all that it needed holds what it would hold.
LEMMA AllHeld ==
  ASSUME OverlapTypes, NEW t \in Txs, needs[t] = <<>>, NEW r, WillHold(held, needs, t, r)
  PROVE  t \in held[r]
  BY DEF WillHold

-----------------------------------------------------------------------------
\* The initial state

\* The placements are listed, each once.
LEMMA ListedOnce ==
  LET n == Cardinality(Placements) IN
  /\ n \in Nat /\ Listed \in [1..n -> Placements]
  /\ \A p \in Placements : \E i \in 1..n : Listed[i] = p
  /\ \A i, j \in 1..n : Listed[i] = Listed[j] => i = j
  <1> DEFINE n == Cardinality(Placements)
  <1>1. n \in Nat /\ Bijection(1..n, Placements) # {}
    BY TransactionsAssumption, FS_CardinalityType DEF ExistsBijection
  <1>2. Listed \in Bijection(1..n, Placements)
    BY <1>1 DEF Listed
  <1> QED
    BY <1>1, <1>2 DEF Bijection, Injection, Surjection, IsInjective

\* The weights of LockedBy.
InWeights(rq, u, a, amount) ==
  [i \in Nat |-> IF i \in 1..Cardinality(Placements)
                   THEN IF rq[Listed[i]].owner = u /\ Asset(rq[Listed[i]].side) = a
                          THEN amount[Listed[i]] ELSE 0
                   ELSE 0]

LEMMA WalletSum ==
  ASSUME NEW u, NEW a, NEW amount
  PROVE  LockedBy(u, a, amount) = SumTo(InWeights(req, u, a, amount), Cardinality(Placements))
  BY ListedOnce DEF LockedBy, InWeights, InWallet

LEMMA OverlapInit == Init => OverlapInv
  <1> SUFFICES ASSUME Init PROVE OverlapInv
    OBVIOUS
  <1>1. \A p \in Placements : order[p] = NoOrder /\ NoOrder.state = "NONE" /\ NoOrder.left = 0
    BY DEF Init, NoOrder
  <1>2. OverlapTypes
    BY <1>1 DEF Init, OverlapTypes, OrderRec, NoOrder, Assets
  <1>3. RowsExclusive
    BY DEF Init, RowsExclusive
  <1>4. BookSound
    BY <1>1 DEF Init, BookSound
  <1>5. ReadUnderLock
    BY Transactions DEF Init, ReadUnderLock, PlacesUnderLock, CancelsUnderLock
  <1>6. CrossNeedsOverlap
    BY <1>1 DEF CrossNeedsOverlap, Resting
  <1>7. LocksMatchBook
    <2> SUFFICES ASSUME NEW u \in Traders, NEW a \in Assets
                 PROVE  locked[u][a] = LockedBy(u, a, [q \in Placements |->
                          IF q \in Resting THEN order[q].left ELSE 0])
      BY DEF LocksMatchBook, Assets
    <2> DEFINE left == [q \in Placements |-> IF q \in Resting THEN order[q].left ELSE 0]
               w == InWeights(req, u, a, left)
               n == Cardinality(Placements)
    <2>1. \A q \in Placements : left[q] = 0
      BY <1>1
    <2>2. \A i \in Nat : w[i] = 0
      <3> HIDE DEF left
      <3> QED
        BY <2>1, ListedOnce DEF InWeights
    <2>3. SumTo(w, n) = 0
      <3> HIDE DEF w
      <3> QED
        BY <2>2, ListedOnce, SumToZero
    <2>4. locked[u][a] = 0
      BY DEF Init, Assets
    <2>5. LockedBy(u, a, left) = SumTo(w, n)
      <3> HIDE DEF left
      <3> QED
        BY WalletSum
    <2> QED
      BY <2>3, <2>4, <2>5
  <1> QED
    BY <1>2, <1>3, <1>4, <1>5, <1>6, <1>7 DEF OverlapInv

-----------------------------------------------------------------------------
\* What the other transactions do not disturb

\* A step of t changes only orders that t holds or places, and lets the others keep
\* their rows: what they have selected and read stays true.
LEMMA OthersStay ==
  ASSUME OverlapInv, NEW t \in Txs,
         \A r \in Rows : held[r] \ {t} \subseteq held'[r],
         \A u \in Txs : u # t => pc'[u] = pc[u] /\ needs'[u] = needs[u],
         \A p \in Placements : p # t => found'[p] = found[p] /\ makers'[p] = makers[p]
                                          /\ seen'[p] = seen[p],
         UNCHANGED <<req, target>>,
         \A q \in Placements : order'[q] # order[q] => t \in held[q] \/ q \notin Committed,
         Committed \subseteq Committed', Resting' \cap Committed \subseteq Resting
  PROVE  /\ \A p \in Placements : p # t => PlacesUnderLock(p)'
         /\ \A c \in Cancels : c # t => CancelsUnderLock(c)'
  <1> USE DEF OverlapInv
  <1>1. \A u \in Txs, r \in Rows : u # t =>
          /\ WillHold(held, needs, u, r) => WillHold(held', needs', u, r)
          /\ u \in held[r] => u \in held'[r]
    BY DEF WillHold
  <1>2. ASSUME NEW p \in Placements, p # t PROVE PlacesUnderLock(p)'
    <2>1. /\ p \in Txs /\ found'[p] = found[p] /\ makers'[p] = makers[p] /\ seen'[p] = seen[p]
          /\ pc'[p] = pc[p] /\ PlacesUnderLock(p) /\ found[p] \in Seq(Placements)
          /\ \A i \in 1..Len(found[p]) : found[p][i] \in Placements /\ found[p][i] \in Rows
      BY <1>2, Transactions DEF ReadUnderLock, OverlapTypes
    <2>2. ASSUME pc[p] \in {"MATCH", "COMMIT"} PROVE Selected(p)'
      <3>1. Selected(p) /\ seen[p] \subseteq Committed
        BY <2>1, <2>2 DEF PlacesUnderLock, BookSound
      <3>2. \A q : Crosses(p, q)' <=> Crosses(p, q)
        BY DEF Crosses
      <3> QED
        BY <2>1, <3>1, <3>2 DEF Selected
    <2>3. ASSUME pc[p] = "MATCH", NEW i \in 1..Len(found[p])
          PROVE  WillHold(held', needs', p, found[p][i])
      BY <1>1, <1>2, <2>1, <2>3 DEF PlacesUnderLock
    <2>4. ASSUME pc[p] = "COMMIT"
          PROVE  (\A i \in 1..Len(found[p]) : p \in held'[found[p][i]]) /\ makers[p] = Read(p)'
      <3>1. ASSUME NEW i \in 1..Len(found[p])
            PROVE  p \in held'[found[p][i]] /\ order'[found[p][i]] = order[found[p][i]]
        <4>1. p \in held[found[p][i]] /\ found[p][i] \in Committed
          BY <2>1, <2>4 DEF PlacesUnderLock, Selected
        <4>2. t \notin held[found[p][i]]
          BY <1>2, <2>1, <4>1 DEF RowsExclusive
        <4> QED
          BY <1>1, <1>2, <2>1, <4>1, <4>2
      <3>2. Read(p)' = Read(p)
        <4>1. DOMAIN found[p] = 1..Len(found[p])
          BY <2>1
        <4> QED
          BY <2>1, <3>1, <4>1 DEF Read, MayFill
      <3> QED
        BY <2>1, <2>4, <3>1, <3>2 DEF PlacesUnderLock
    <2> QED
      BY <2>1, <2>2, <2>3, <2>4 DEF PlacesUnderLock, WillHold
  <1>3. ASSUME NEW c \in Cancels, c # t PROVE CancelsUnderLock(c)'
    <2>1. /\ c \in Txs /\ pc'[c] = pc[c] /\ target'[c] = target[c] /\ target[c] \in Rows
          /\ CancelsUnderLock(c)
      BY <1>3, Transactions DEF OverlapTypes, ReadUnderLock
    <2>2. ASSUME pc[c] = "COMMIT"
          PROVE  WillHold(held', needs', c, target[c]) /\ target[c] \in Committed'
      BY <1>1, <1>3, <2>1, <2>2 DEF CancelsUnderLock
    <2> QED
      BY <2>1, <2>2 DEF CancelsUnderLock, WillHold
  <1> QED
    BY <1>2, <1>3

-----------------------------------------------------------------------------
\* Steps that show nothing

\* As long as no order and no wallet changes, only what is seen may.
LEMMA BookStays ==
  ASSUME OverlapInv, UNCHANGED <<req, order, locked>>,
         \A q \in Resting : seen'[q] = seen[q]
  PROVE  LocksMatchBook' /\ CrossNeedsOverlap' /\ Resting' = Resting /\ Committed' = Committed
  <1>1. Resting' = Resting /\ Committed' = Committed
    BY DEF Resting, Committed
  <1>2. \A p, q : Crosses(p, q)' <=> Crosses(p, q)
    BY DEF Crosses
  <1>3. CrossNeedsOverlap'
    BY <1>1, <1>2 DEF OverlapInv, CrossNeedsOverlap
  <1>4. \A u, a, x : LockedBy(u, a, x)' = LockedBy(u, a, x)
    BY DEF LockedBy, InWallet
  <1>5. LocksMatchBook'
    BY <1>1, <1>4 DEF OverlapInv, LocksMatchBook
  <1> QED
    BY <1>1, <1>3, <1>5

\* A transaction goes on, holding no row that it did not hold.
LEMMA GoesOn ==
  ASSUME OverlapInv, NEW t \in Txs, OverlapTypes',
         \A r \in Rows : held'[r] \subseteq held[r] /\ held[r] \ {t} \subseteq held'[r],
         \A u \in Txs : u # t => pc'[u] = pc[u] /\ needs'[u] = needs[u],
         \A p \in Placements : p # t => found'[p] = found[p] /\ makers'[p] = makers[p]
                                          /\ seen'[p] = seen[p],
         UNCHANGED <<req, target, order, locked>>,
         pc'[t] \in {"IDLE", "INSERT", "SELECT", "MATCH", "COMMIT"}
           => pc[t] \in {"IDLE", "INSERT", "SELECT", "MATCH"},
         t \in Placements => /\ PlacesUnderLock(t)' /\ seen'[t] \subseteq Committed
                             /\ pc[t] \in {"IDLE", "INSERT", "SELECT", "MATCH"} \/ seen' = seen,
         t \in Cancels => CancelsUnderLock(t)'
  PROVE  OverlapInv'
  <1> USE DEF OverlapInv
  <1>1. \A q \in Resting : seen'[q] = seen[q]
    BY DEF BookSound, Resting
  <1>2. LocksMatchBook' /\ CrossNeedsOverlap' /\ Resting' = Resting /\ Committed' = Committed
    BY <1>1, BookStays
  <1>3. RowsExclusive'
    BY DEF RowsExclusive
  <1>4. BookSound'
    BY <1>2, Transactions DEF BookSound
  <1>5. ReadUnderLock'
    BY <1>2, OthersStay, Transactions DEF ReadUnderLock
  <1> QED
    BY <1>2, <1>3, <1>4, <1>5

LEMMA QuietSteps ==
  ASSUME OverlapInv, NEW t \in Txs,
         \/ t \in Placements /\ (Begin(t) \/ Insert(t))
         \/ Deadlocked(t)
  PROVE  OverlapInv'
  <1> USE DEF OverlapInv
  <1>1. CASE t \in Placements /\ Begin(t)
    <2>1. Asset(req[t].side) \in Rows
      BY <1>1, Asked, TheOtherSide
    <2>2. OverlapTypes'
      BY <1>1, <2>1 DEF OverlapTypes, Begin
    <2>3. pc'[t] = "INSERT"
      BY <1>1 DEF OverlapTypes, Begin
    <2>4. PlacesUnderLock(t)' /\ seen'[t] \subseteq Committed
      BY <1>1, <2>3 DEF PlacesUnderLock, BookSound, Begin
    <2> QED
      BY <1>1, <2>2, <2>3, <2>4, GoesOn, Transactions DEF Begin, OverlapTypes
  <1>2. CASE t \in Placements /\ Insert(t)
    <2>2. OverlapTypes'
      BY <1>2 DEF OverlapTypes, Insert
    <2>3. pc'[t] = "SELECT"
      BY <1>2 DEF OverlapTypes, Insert
    <2>4. PlacesUnderLock(t)' /\ seen'[t] \subseteq Committed
      BY <1>2, <2>3 DEF PlacesUnderLock, BookSound, Insert
    <2> QED
      BY <1>2, <2>2, <2>3, <2>4, GoesOn, Transactions DEF Insert, OverlapTypes
  <1>3. CASE Deadlocked(t)
    <2>2. OverlapTypes'
      BY <1>3 DEF OverlapTypes, Deadlocked, Released
    <2>3. pc'[t] = "ABORTED" /\ seen' = seen
      BY <1>3 DEF OverlapTypes, Deadlocked
    <2>4. PlacesUnderLock(t)' /\ CancelsUnderLock(t)'
      BY <2>3 DEF PlacesUnderLock, CancelsUnderLock
    <2>5. t \in Placements => seen'[t] \subseteq Committed
      BY <2>3 DEF BookSound
    <2> QED
      BY <1>3, <2>2, <2>3, <2>4, <2>5, GoesOn DEF Deadlocked, Released, OverlapTypes
  <1> QED
    BY <1>1, <1>2, <1>3

LEMMA LockStep ==
  ASSUME OverlapInv, NEW t \in Txs, Lock(t)
  PROVE  OverlapInv'
  <1> USE DEF OverlapInv
  <1> DEFINE h == Head(needs[t])
  <1>1. needs[t] \in Seq(Rows) /\ needs[t] # <<>> /\ h \in Rows /\ Tail(needs[t]) \in Seq(Rows)
    BY DEF OverlapTypes, Lock
  <1>2. /\ held' = [held EXCEPT ![h] = @ \union {t}]
        /\ needs' = [needs EXCEPT ![t] = Tail(@)]
        /\ held[h] \ {t} = {}
        /\ UNCHANGED <<req, target, pc, order, locked, found, makers, seen>>
    BY <1>1 DEF Lock, Blockers
  <1>3. OverlapTypes'
    BY <1>1, <1>2 DEF OverlapTypes
  <1>4. RowsExclusive'
    BY <1>2 DEF RowsExclusive, OverlapTypes
  <1>5. LocksMatchBook' /\ CrossNeedsOverlap' /\ Resting' = Resting /\ Committed' = Committed
    BY <1>2, BookStays
  <1>6. BookSound'
    BY <1>2, <1>5 DEF BookSound
  <1>7. \A u \in Txs, r \in Rows :
          /\ WillHold(held, needs, u, r) => WillHold(held', needs', u, r)
          /\ u \in held[r] => u \in held'[r]
    BY <1>2, LockKeepsRows DEF OverlapTypes
  <1>8. ASSUME NEW p \in Placements PROVE PlacesUnderLock(p)'
    <2>1. /\ PlacesUnderLock(p) /\ p \in Txs
          /\ \A i \in 1..Len(found[p]) : found[p][i] \in Rows
      BY Transactions DEF ReadUnderLock, OverlapTypes
    <2>2. Selected(p)' <=> Selected(p)
      BY <1>2, <1>5 DEF Selected, Crosses
    <2>3. Read(p)' = Read(p)
      BY <1>2 DEF Read, MayFill
    <2>4. \A i \in 1..Len(found[p]) :
            /\ WillHold(held, needs, p, found[p][i]) => WillHold(held', needs', p, found[p][i])
            /\ p \in held[found[p][i]] => p \in held'[found[p][i]]
      BY <1>7, <2>1
    <2>5. UNCHANGED <<pc, found, makers>>
      BY <1>2
    <2> QED
      BY <2>1, <2>2, <2>3, <2>4, <2>5 DEF PlacesUnderLock, WillHold
  <1>9. ASSUME NEW c \in Cancels PROVE CancelsUnderLock(c)'
    <2>1. CancelsUnderLock(c) /\ c \in Txs /\ target[c] \in Rows
      BY Transactions DEF ReadUnderLock, OverlapTypes
    <2>2. WillHold(held, needs, c, target[c]) => WillHold(held', needs', c, target[c])
      BY <1>7, <2>1
    <2>3. UNCHANGED <<pc, target>>
      BY <1>2
    <2> QED
      BY <1>5, <2>1, <2>2, <2>3 DEF CancelsUnderLock, WillHold
  <1> QED
    BY <1>3, <1>4, <1>5, <1>6, <1>8, <1>9 DEF ReadUnderLock

-----------------------------------------------------------------------------
\* Steps that choose, and read, what is locked

\* The orders of a set that a placement goes through: each once, in some order.
LEMMA SortedRows ==
  ASSUME OverlapTypes, NEW S \in SUBSET Placements, NEW qs \in Sorted(S)
  PROVE  /\ qs \in Seq(Placements) /\ RowsOf(qs) \in Seq(Rows)
         /\ \A i \in 1..Len(qs) : qs[i] \in S
         /\ \A i, j \in 1..Len(qs) : qs[i] = qs[j] => i = j
         /\ \A q \in S : \E i \in 1..Len(qs) : qs[i] = q
         /\ \A i \in 1..Len(qs) : \E k \in 1..Len(RowsOf(qs)) : RowsOf(qs)[k] = qs[i]
  <1> DEFINE n == Cardinality(S)
  <1>1. n \in Nat
    BY TransactionsAssumption, FS_Subset, FS_CardinalityType
  <1> HIDE DEF n
  <1>2. qs \in Bijection(1..n, S)
    BY DEF Sorted, n
  <1>3. /\ qs \in [1..n -> S] /\ \A q \in S : \E i \in 1..n : qs[i] = q
        /\ \A i, j \in 1..n : qs[i] = qs[j] => i = j
    BY <1>2 DEF Bijection, Injection, Surjection, IsInjective
  <1>4. qs \in Seq(Placements) /\ Len(qs) = n
    BY <1>1, <1>3
  <1>5. ASSUME NEW k \in 1..2 * n
        PROVE  (IF k % 2 = 1 THEN qs[(k + 1) \div 2] ELSE req[qs[k \div 2]].owner) \in Rows
    <2>1. CASE k % 2 = 1
      <3>1. (k + 1) \div 2 \in 1..n
        BY <1>1, <2>1
      <3> QED
        BY <1>3, <2>1, <3>1, Transactions
    <2>2. CASE k % 2 # 1
      <3>1. k \div 2 \in 1..n
        BY <1>1, <2>2
      <3>2. qs[k \div 2] \in Placements
        BY <1>3, <3>1
      <3> QED
        BY <2>2, <3>2, Asked, Transactions
    <2> QED
      BY <2>1, <2>2
  <1>6. RowsOf(qs) = [k \in 1..2 * n |->
          IF k % 2 = 1 THEN qs[(k + 1) \div 2] ELSE req[qs[k \div 2]].owner]
    BY <1>4 DEF RowsOf
  <1>7. RowsOf(qs) \in [1..2 * n -> Rows]
    BY <1>5, <1>6
  <1>8. 2 * n \in Nat
    BY <1>1
  <1>9. RowsOf(qs) \in Seq(Rows) /\ Len(RowsOf(qs)) = 2 * n
    BY <1>7, <1>8
  <1>10. ASSUME NEW i \in 1..n
         PROVE  2 * i - 1 \in 1..2 * n /\ RowsOf(qs)[2 * i - 1] = qs[i]
    <2>1. 2 * i - 1 \in 1..2 * n /\ (2 * i - 1) % 2 = 1 /\ ((2 * i - 1) + 1) \div 2 = i
      BY <1>1
    <2> QED
      BY <1>6, <2>1
  <1> QED
    BY <1>3, <1>4, <1>9, <1>10

LEMMA SelectStep ==
  ASSUME OverlapInv, NEW p \in Placements, Select(p)
  PROVE  OverlapInv'
  <1> USE DEF OverlapInv
  <1>1. PICK qs \in Sorted(Matches(p)) :
          found' = [found EXCEPT ![p] = qs] /\ needs' = [needs EXCEPT ![p] = RowsOf(qs)]
    BY DEF Select
  <1>2. /\ pc[p] = "SELECT" /\ pc' = [pc EXCEPT ![p] = "MATCH"]
        /\ seen' = [seen EXCEPT ![p] = Committed]
        /\ UNCHANGED <<req, target, held, order, locked, makers>>
    BY DEF Select
  <1>3. Matches(p) \in SUBSET Placements /\ Committed \in SUBSET Placements
    BY DEF Matches, Resting, Committed
  <1>4. /\ qs \in Seq(Placements) /\ RowsOf(qs) \in Seq(Rows)
        /\ \A i \in 1..Len(qs) : qs[i] \in Matches(p)
        /\ \A i, j \in 1..Len(qs) : qs[i] = qs[j] => i = j
        /\ \A q \in Matches(p) : \E i \in 1..Len(qs) : qs[i] = q
        /\ \A i \in 1..Len(qs) : \E k \in 1..Len(RowsOf(qs)) : RowsOf(qs)[k] = qs[i]
    BY <1>3, SortedRows
  <1>5. p \in Txs /\ p \notin Cancels
    BY Transactions
  <1>6. /\ found'[p] = qs /\ needs'[p] = RowsOf(qs) /\ seen'[p] = Committed /\ pc'[p] = "MATCH"
        /\ \A t \in Txs : t # p => pc'[t] = pc[t] /\ needs'[t] = needs[t]
        /\ \A q \in Placements : q # p => found'[q] = found[q] /\ makers'[q] = makers[q]
                                            /\ seen'[q] = seen[q]
    BY <1>1, <1>2, <1>5 DEF OverlapTypes
  <1>7. OverlapTypes'
    <2>1. found' \in [Placements -> Seq(Placements)] /\ needs' \in [Txs -> Seq(Rows)]
          /\ seen' \in [Placements -> SUBSET Placements] /\ DOMAIN pc' = Txs
      BY <1>1, <1>2, <1>3, <1>4 DEF OverlapTypes
    <2> QED
      BY <1>2, <2>1 DEF OverlapTypes
  <1>8. Selected(p)'
    <2>1. Committed' = Committed /\ Resting' = Resting
      BY <1>2 DEF Committed, Resting
    <2>2. \A q : Crosses(p, q)' <=> Crosses(p, q)
      BY <1>2 DEF Crosses
    <2>3. Matches(p) \subseteq Committed
      BY DEF Matches, Committed, Resting
    <2>4. \A q \in Resting : Crosses(p, q) => q \in Matches(p)
      BY DEF Matches
    <2> QED
      BY <1>4, <1>6, <2>1, <2>2, <2>3, <2>4 DEF Selected
  <1>9. PlacesUnderLock(p)'
    BY <1>4, <1>6, <1>8 DEF PlacesUnderLock, WillHold
  <1>10. \A r \in Rows : held'[r] \subseteq held[r] /\ held[r] \ {p} \subseteq held'[r]
    BY <1>2
  <1> QED
    BY <1>2, <1>5, <1>6, <1>7, <1>9, <1>10, GoesOn

LEMMA SettleStep ==
  ASSUME OverlapInv, NEW p \in Placements, Settle(p)
  PROVE  OverlapInv'
  <1> USE DEF OverlapInv
  <1> DEFINE more == IF \E i \in DOMAIN found[p] : Read(p)[i] > 0
                       THEN <<Asset(Other(req[p].side))>> ELSE <<>>
  <1>1. /\ pc[p] = "MATCH" /\ needs[p] = <<>> /\ pc' = [pc EXCEPT ![p] = "COMMIT"]
        /\ makers' = [makers EXCEPT ![p] = Read(p)] /\ needs' = [needs EXCEPT ![p] = more]
        /\ UNCHANGED <<req, target, held, order, locked, found, seen>>
    BY DEF Settle
  <1>2. p \in Txs /\ p \notin Cancels
    BY Transactions
  <1>3. found[p] \in Seq(Placements) /\ DOMAIN found[p] = 1..Len(found[p])
        /\ \A i \in 1..Len(found[p]) : found[p][i] \in Placements
    BY DEF OverlapTypes
  <1>4. Read(p) \in Seq(Nat)
    <2>1. Read(p) \in [1..Len(found[p]) -> Nat] /\ Len(found[p]) \in Nat
      BY <1>3 DEF Read, OverlapTypes, OrderRec
    <2> QED
      BY <2>1
  <1>5. more \in Seq(Rows)
    <2>1. Asset(Other(req[p].side)) \in Rows
      BY Asked, TheOtherSide
    <2> QED
      BY <2>1
  <1> HIDE DEF more
  <1>6. OverlapTypes'
    <2>1. makers' \in [Placements -> Seq(Nat)] /\ needs' \in [Txs -> Seq(Rows)] /\ DOMAIN pc' = Txs
      BY <1>1, <1>4, <1>5 DEF OverlapTypes
    <2> QED
      BY <1>1, <2>1 DEF OverlapTypes
  <1>7. /\ makers'[p] = Read(p) /\ pc'[p] = "COMMIT"
        /\ \A t \in Txs : t # p => pc'[t] = pc[t] /\ needs'[t] = needs[t]
        /\ \A q \in Placements : q # p => found'[q] = found[q] /\ makers'[q] = makers[q]
                                            /\ seen'[q] = seen[q]
    BY <1>1, <1>2 DEF OverlapTypes
  <1>8. Selected(p) /\ \A i \in 1..Len(found[p]) : WillHold(held, needs, p, found[p][i])
    BY <1>1 DEF ReadUnderLock, PlacesUnderLock
  <1>9. \A i \in 1..Len(found[p]) : p \in held[found[p][i]]
    BY <1>1, <1>2, <1>8, AllHeld
  <1>10. Selected(p)'
    BY <1>1, <1>8 DEF Selected, Committed, Resting, Crosses
  <1>11. Read(p)' = Read(p)
    BY <1>1 DEF Read, MayFill
  <1>12. PlacesUnderLock(p)'
    BY <1>1, <1>7, <1>9, <1>10, <1>11 DEF PlacesUnderLock
  <1>13. \A r \in Rows : held'[r] \subseteq held[r] /\ held[r] \ {p} \subseteq held'[r]
    BY <1>1
  <1>14. seen'[p] \subseteq Committed
    BY <1>1 DEF BookSound
  <1> QED
    BY <1>1, <1>2, <1>6, <1>7, <1>12, <1>13, <1>14, GoesOn

LEMMA BeginCancelStep ==
  ASSUME OverlapInv, NEW c \in Cancels, BeginCancel(c)
  PROVE  OverlapInv'
  <1> USE DEF OverlapInv
  <1> DEFINE o == target[c]
  <1>1. /\ pc[c] = "IDLE" /\ o \in Committed /\ pc' = [pc EXCEPT ![c] = "COMMIT"]
        /\ needs' = [needs EXCEPT ![c] = CancelRows(o)]
        /\ UNCHANGED <<req, target, held, order, locked, found, makers, seen>>
    BY DEF BeginCancel
  <1>2. c \in Txs /\ c \notin Placements /\ o \in Placements
    BY Transactions DEF OverlapTypes
  <1>3. CancelRows(o) \in Seq(Rows) /\ 1 \in 1..Len(CancelRows(o)) /\ CancelRows(o)[1] = o
    <2>1. req[o].owner \in Rows /\ o \in Rows /\ {"MARKET", "BASE", "QUOTE"} \subseteq Rows
      BY <1>2, Asked, Transactions
    <2> QED
      BY <2>1 DEF CancelRows
  <1>4. needs'[c] = CancelRows(o) /\ target'[c] = o
    BY <1>1, <1>2 DEF OverlapTypes
  <1>5. OverlapTypes'
    BY <1>1, <1>3 DEF OverlapTypes
  <1>6. Committed' = Committed
    BY <1>1 DEF Committed
  <1>7. CancelsUnderLock(c)'
    BY <1>1, <1>3, <1>4, <1>6 DEF CancelsUnderLock, WillHold
  <1>8. \A t \in Txs : t # c => pc'[t] = pc[t] /\ needs'[t] = needs[t]
    BY <1>1 DEF OverlapTypes
  <1>9. \A p \in Placements : found'[p] = found[p] /\ makers'[p] = makers[p] /\ seen'[p] = seen[p]
    BY <1>1
  <1>10. \A r \in Rows : held'[r] \subseteq held[r] /\ held[r] \ {c} \subseteq held'[r]
    BY <1>1
  <1> QED
    BY <1>1, <1>2, <1>5, <1>7, <1>8, <1>9, <1>10, GoesOn

-----------------------------------------------------------------------------
\* The commit of a placement

\* A placement takes what its makers offer, up to what it asks for; it is not filled
\* itself only when it has taken all of each.
LEMMA Fills ==
  ASSUME OverlapTypes, NEW p \in Placements
  PROVE  /\ \A i \in 1..Len(makers[p]) : Fill(p, i) \in Nat /\ Fill(p, i) <= makers[p][i]
         /\ FilledBy(p) \in Nat /\ FilledBy(p) <= req[p].amount
         /\ FilledBy(p) < req[p].amount => \A i \in 1..Len(makers[p]) : Fill(p, i) = makers[p][i]
  <1> DEFINE m == makers[p]
             len == Len(m)
             amount == req[p].amount
             offer == [i \in Nat |-> IF i \in DOMAIN m THEN m[i] ELSE 0]
             fill == [i \in Nat |-> IF i \in DOMAIN m THEN Fill(p, i) ELSE 0]
  <1>1. amount \in Nat /\ m \in Seq(Nat) /\ len \in Nat /\ DOMAIN m = 1..len
        /\ \A i \in 1..len : m[i] \in Nat
    BY Asked DEF OverlapTypes
  <1>2. \A i \in Nat : offer[i] \in Nat
    BY <1>1
  <1>3. \A i \in 1..len : offer[i] = m[i] /\ fill[i] = Fill(p, i)
    BY <1>1
  <1>4. \A n : Offered(p, n) = SumTo(offer, n)
    BY DEF Offered
  <1>5. FilledBy(p) = SumTo(fill, len)
    BY DEF FilledBy
  <1>6. \A i \in Nat \ (1..len) : fill[i] = 0
    BY <1>1
  <1> HIDE DEF offer, fill
  <1>7. \A n \in Nat : SumTo(offer, n) \in Nat
    BY <1>2, SumToNat
  <1>8. ASSUME NEW i \in 1..len PROVE Offered(p, i - 1) \in Nat /\ i - 1 \in Nat
    <2>1. i - 1 \in Nat
      BY <1>1
    <2>2. Offered(p, i - 1) = SumTo(offer, i - 1) /\ SumTo(offer, i - 1) \in Nat
      BY <1>4, <1>7, <2>1
    <2> QED
      BY <2>1, <2>2
  <1>9. ASSUME NEW i \in 1..len
        PROVE  /\ Fill(p, i) \in Nat /\ Fill(p, i) <= m[i]
               /\ Offered(p, i - 1) >= amount => Fill(p, i) = 0
               /\ Offered(p, i - 1) < amount /\ Offered(p, i - 1) + m[i] <= amount
                    => Fill(p, i) = m[i]
               /\ Offered(p, i - 1) < amount /\ Offered(p, i - 1) + m[i] > amount
                    => Fill(p, i) = amount - Offered(p, i - 1)
    <2> DEFINE off == Offered(p, i - 1)
    <2>1. amount \in Nat /\ m[i] \in Nat /\ off \in Nat
      BY <1>1, <1>8
    <2>2. Fill(p, i) = IF amount - off <= 0 THEN 0
                       ELSE IF m[i] < amount - off THEN m[i] ELSE amount - off
      BY DEF Fill, Wanted
    <2> HIDE DEF off, m, amount
    <2>3. /\ Fill(p, i) \in Nat /\ Fill(p, i) <= m[i]
          /\ off >= amount => Fill(p, i) = 0
          /\ off < amount /\ off + m[i] <= amount => Fill(p, i) = m[i]
          /\ off < amount /\ off + m[i] > amount => Fill(p, i) = amount - off
      BY <2>1, <2>2
    <2> QED
      BY <2>3 DEF off
  <1>10. \A i \in Nat : fill[i] \in Nat
    BY <1>3, <1>6, <1>9
  <1> HIDE DEF m, len, amount
  <1> DEFINE S == {n \in Nat : n <= len =>
                     SumTo(fill, n) = IF SumTo(offer, n) <= amount THEN SumTo(offer, n) ELSE amount}
  <1>11. 0 \in S
    <2>1. SumTo(fill, 0) = 0 /\ SumTo(offer, 0) = 0
      BY <1>2, <1>10, SumToDef
    <2> QED
      BY <1>1, <2>1
  <1>12. ASSUME NEW n \in Nat, n \in S PROVE n + 1 \in S
    <2> SUFFICES ASSUME n + 1 <= len
                 PROVE  SumTo(fill, n + 1) = IF SumTo(offer, n + 1) <= amount
                                               THEN SumTo(offer, n + 1) ELSE amount
      OBVIOUS
    <2>1. n + 1 \in 1..len /\ n <= len /\ (n + 1) - 1 = n
      BY <1>1
    <2>2. SumTo(fill, n) = IF SumTo(offer, n) <= amount THEN SumTo(offer, n) ELSE amount
      BY <1>12, <2>1
    <2> HIDE DEF S
    <2>3. SumTo(fill, n + 1) = SumTo(fill, n) + fill[n + 1]
      BY <1>10, SumToDef
    <2>4. SumTo(offer, n + 1) = SumTo(offer, n) + offer[n + 1]
      BY <1>2, SumToDef
    <2>5. SumTo(offer, n) = Offered(p, n) /\ SumTo(offer, n) \in Nat
      BY <1>4, <1>7
    <2>6. offer[n + 1] = m[n + 1] /\ fill[n + 1] = Fill(p, n + 1) /\ m[n + 1] \in Nat
      BY <1>1, <1>3, <2>1
    <2>7. /\ Fill(p, n + 1) \in Nat
          /\ Offered(p, n) >= amount => Fill(p, n + 1) = 0
          /\ Offered(p, n) < amount /\ Offered(p, n) + m[n + 1] <= amount
               => Fill(p, n + 1) = m[n + 1]
          /\ Offered(p, n) < amount /\ Offered(p, n) + m[n + 1] > amount
               => Fill(p, n + 1) = amount - Offered(p, n)
      BY <1>9, <2>1
    <2> QED
      BY <1>1, <2>2, <2>3, <2>4, <2>5, <2>6, <2>7
  <1>13. \A n \in Nat : n \in S
    <2> HIDE DEF S
    <2> QED
      BY <1>11, <1>12, SetInduction
  <1>14. FilledBy(p) = IF SumTo(offer, len) <= amount THEN SumTo(offer, len) ELSE amount
    BY <1>1, <1>5, <1>13
  <1> HIDE DEF S
  <1>15. ASSUME FilledBy(p) < amount, NEW i \in 1..len PROVE Fill(p, i) = m[i]
    <2>1. SumTo(offer, len) < amount
      BY <1>1, <1>7, <1>14, <1>15
    <2>2. i \in Nat /\ i - 1 \in Nat /\ (i - 1) + 1 = i /\ i <= len
      BY <1>1
    <2>3. SumTo(offer, (i - 1) + 1) = SumTo(offer, i - 1) + offer[(i - 1) + 1]
      BY <1>2, <2>2, SumToDef
    <2>4. SumTo(offer, i) <= SumTo(offer, len)
      BY <1>1, <1>2, <2>2, SumToGrows
    <2>5. SumTo(offer, i) = Offered(p, i - 1) + m[i] /\ SumTo(offer, i) \in Nat /\ m[i] \in Nat
      BY <1>1, <1>3, <1>4, <1>7, <2>2, <2>3
    <2>6. Offered(p, i - 1) \in Nat /\ SumTo(offer, len) \in Nat /\ amount \in Nat
      BY <1>1, <1>7, <1>8
    <2>7. Offered(p, i - 1) < amount /\ Offered(p, i - 1) + m[i] <= amount
      BY <2>1, <2>4, <2>5, <2>6
    <2> QED
      BY <1>9, <2>7
  <1>16. FilledBy(p) \in Nat /\ FilledBy(p) <= amount
    <2>1. SumTo(offer, len) \in Nat /\ amount \in Nat
      BY <1>1, <1>7
    <2> QED
      BY <1>14, <2>1
  <1>17. FilledBy(p) < amount => \A i \in 1..len : Fill(p, i) = m[i]
    BY <1>15
  <1>18. \A i \in 1..len : Fill(p, i) \in Nat /\ Fill(p, i) <= m[i]
    BY <1>9
  <1> QED
    BY <1>16, <1>17, <1>18 DEF m, len, amount

\* What the commit of p leaves of each order: what p fills, it has locked, and it
\* fills no more than what rests.
LEMMA CommitOrders ==
  ASSUME OverlapInv, NEW p \in Placements, Commit(p)
  PROVE  /\ order[p].state = "NONE" /\ FillOf(p, p) = 0
         /\ order'[p] = After(req[p].amount - FilledBy(p))
         /\ \A q \in Placements : FillOf(p, q) \in Nat
         /\ \A q \in Placements \ {p} : FillOf(p, q) = 0 => order'[q] = order[q]
         /\ \A q \in Placements \ {p} : FillOf(p, q) > 0 =>
              /\ order[q].state = "OPEN" /\ p \in held[q] /\ FillOf(p, q) <= order[q].left
              /\ order'[q] = After(order[q].left - FillOf(p, q))
         /\ FilledBy(p) < req[p].amount =>
              \A q \in seen[p] \cap Resting :
                Crosses(p, q) /\ req[q].owner # req[p].owner => FillOf(p, q) = order[q].left
  <1> USE DEF OverlapInv
  <1> DEFINE len == Len(found[p])
  <1>1. /\ pc[p] = "COMMIT" /\ PlacesUnderLock(p)
        /\ order' = [q \in Placements |->
                       IF q = p THEN After(req[p].amount - FilledBy(p))
                       ELSE IF FillOf(p, q) > 0 THEN After(LeftOf(p, q))
                       ELSE order[q]]
    BY DEF Commit, ReadUnderLock
  <1>2. /\ Selected(p) /\ makers[p] = Read(p)
        /\ \A i \in 1..len : p \in held[found[p][i]]
    BY <1>1 DEF PlacesUnderLock
  <1>3. order[p].state = "NONE"
    BY <1>1 DEF BookSound
  <1>4. found[p] \in Seq(Placements) /\ DOMAIN found[p] = 1..len /\ len \in Nat
        /\ \A i \in 1..len : found[p][i] \in Placements
    BY DEF OverlapTypes
  <1>5. /\ makers[p] = [i \in 1..len |->
                          IF MayFill(p, found[p][i]) THEN order[found[p][i]].left ELSE 0]
        /\ makers[p] \in Seq(Nat)
    BY <1>2, <1>4 DEF Read, OverlapTypes
  <1>6. Len(makers[p]) = len
    BY <1>4, <1>5
  <1>7. /\ \A i \in 1..len : Fill(p, i) \in Nat /\ Fill(p, i) <= makers[p][i]
        /\ FilledBy(p) < req[p].amount => \A i \in 1..len : Fill(p, i) = makers[p][i]
    BY <1>6, Fills
  <1> HIDE DEF len
  <1>8. ASSUME NEW i \in 1..len
        PROVE  /\ found[p][i] \in Range(found[p]) /\ PlaceOf(p, found[p][i]) = i
               /\ FillOf(p, found[p][i]) = Fill(p, i)
    <2>1. found[p][i] \in Range(found[p])
      BY <1>4 DEF Range
    <2>2. PlaceOf(p, found[p][i]) = i
      BY <1>2, <1>4 DEF PlaceOf, Selected, len
    <2> QED
      BY <2>1, <2>2 DEF FillOf
  <1>9. ASSUME NEW q \in Placements, \A i \in 1..len : found[p][i] # q PROVE FillOf(p, q) = 0
    BY <1>4, <1>9 DEF FillOf, Range
  <1>10. FillOf(p, p) = 0
    BY <1>2, <1>3, <1>9 DEF Selected, Committed, len
  <1>11. \A q \in Placements : FillOf(p, q) \in Nat
    BY <1>7, <1>8, <1>9
  <1>12. ASSUME NEW q \in Placements \ {p}, FillOf(p, q) > 0
         PROVE  /\ order[q].state = "OPEN" /\ p \in held[q] /\ FillOf(p, q) <= order[q].left
                /\ order'[q] = After(order[q].left - FillOf(p, q))
    <2>1. PICK i \in 1..len : found[p][i] = q
      BY <1>9, <1>12
    <2>2. FillOf(p, q) = Fill(p, i) /\ PlaceOf(p, q) = i
      BY <1>8, <2>1
    <2>3. makers[p][i] = IF MayFill(p, q) THEN order[q].left ELSE 0
      BY <1>5, <2>1
    <2>4. Fill(p, i) \in Nat /\ Fill(p, i) <= makers[p][i]
      BY <1>7
    <2>5. MayFill(p, q) /\ makers[p][i] = order[q].left
      BY <1>12, <2>2, <2>3, <2>4
    <2>6. LeftOf(p, q) = order[q].left - FillOf(p, q)
      BY <2>2, <2>5 DEF LeftOf
    <2>7. order'[q] = After(LeftOf(p, q))
      BY <1>1, <1>12
    <2> QED
      BY <1>2, <2>1, <2>2, <2>4, <2>5, <2>6, <2>7 DEF MayFill, len
  <1>13. ASSUME FilledBy(p) < req[p].amount, NEW q \in seen[p] \cap Resting,
                Crosses(p, q), req[q].owner # req[p].owner
         PROVE  FillOf(p, q) = order[q].left
    <2>1. PICK i \in 1..len : found[p][i] = q
      BY <1>2, <1>13 DEF Selected, len
    <2>2. MayFill(p, q)
      BY <1>13 DEF MayFill, Resting
    <2>3. makers[p][i] = order[q].left
      BY <1>5, <2>1, <2>2
    <2> QED
      BY <1>7, <1>8, <1>13, <2>1, <2>3
  <1>14. order'[p] = After(req[p].amount - FilledBy(p))
    BY <1>1
  <1>15. \A q \in Placements \ {p} : FillOf(p, q) = 0 => order'[q] = order[q]
    BY <1>1
  <1> QED
    BY <1>3, <1>10, <1>11, <1>12, <1>13, <1>14, <1>15

\* The commit keeps the wallets in agreement with the book.
LEMMA CommitLocks ==
  ASSUME OverlapInv, NEW p \in Placements, Commit(p)
  PROVE  LocksMatchBook'
  <1> USE DEF OverlapInv
  <1>1. UNCHANGED req
        /\ locked' = [u \in Traders |-> [a \in {"QUOTE", "BASE"} |->
                 locked[u][a]
                   + (IF u = req[p].owner /\ a = Asset(req[p].side)
                      THEN req[p].amount - FilledBy(p) ELSE 0)
                   - LockedBy(u, a, [q \in Placements |-> FillOf(p, q)])]]
    BY DEF Commit
  <1>2. /\ order[p].state = "NONE" /\ FillOf(p, p) = 0
        /\ order'[p] = After(req[p].amount - FilledBy(p))
        /\ \A q \in Placements : FillOf(p, q) \in Nat
        /\ \A q \in Placements \ {p} : FillOf(p, q) = 0 => order'[q] = order[q]
        /\ \A q \in Placements \ {p} : FillOf(p, q) > 0 =>
              /\ order[q].state = "OPEN" /\ FillOf(p, q) <= order[q].left
              /\ order'[q] = After(order[q].left - FillOf(p, q))
    BY CommitOrders
  <1>3. FilledBy(p) \in Nat /\ FilledBy(p) <= req[p].amount /\ req[p].amount \in Nat
    BY Fills, Asked
  <1> SUFFICES ASSUME NEW u \in Traders, NEW a \in Assets
               PROVE  locked'[u][a] = LockedBy(u, a, [q \in Placements |->
                        IF q \in Resting THEN order[q].left ELSE 0])'
    BY DEF LocksMatchBook, Assets
  <1> DEFINE n == Cardinality(Placements)
             rest == req[p].amount - FilledBy(p)
             before == [q \in Placements |-> IF q \in Resting THEN order[q].left ELSE 0]
             fills == [q \in Placements |-> FillOf(p, q)]
             after == [q \in Placements |-> IF order'[q].state = "OPEN" THEN order'[q].left ELSE 0]
             others == [q \in Placements |-> before[q] - fills[q]]
  <1>4. \A q \in Placements \ {p} : after[q] = others[q]
    <2> SUFFICES ASSUME NEW q \in Placements \ {p} PROVE after[q] = others[q]
      OBVIOUS
    <2>1. order[q].left \in Nat /\ FillOf(p, q) \in Nat
      BY <1>2 DEF OverlapTypes, OrderRec
    <2>2. CASE FillOf(p, q) = 0
      BY <1>2, <2>1, <2>2 DEF Resting
    <2>3. CASE FillOf(p, q) > 0
      <3> DEFINE left == order[q].left - FillOf(p, q)
      <3>1. order[q].state = "OPEN" /\ left \in Nat /\ order'[q] = After(left)
        BY <1>2, <2>1, <2>3
      <3>2. others[q] = left
        BY <3>1 DEF Resting
      <3>3. after[q] = IF order'[q].state = "OPEN" THEN order'[q].left ELSE 0
        OBVIOUS
      <3> HIDE DEF left, after
      <3> QED
        BY <3>1, <3>2, <3>3 DEF After
    <2> QED
      BY <2>1, <2>2, <2>3
  <1>5. after[p] = rest /\ others[p] = 0 /\ rest \in Nat
    <2>1. rest \in Nat
      BY <1>3
    <2>2. after[p] = rest
      BY <1>2, <2>1 DEF After
    <2>3. others[p] = 0
      BY <1>2 DEF Resting
    <2> QED
      BY <2>1, <2>2, <2>3
  <1>6. \A q \in Placements : before[q] \in Int /\ fills[q] \in Int /\ others[q] \in Int
                                /\ others[q] = before[q] - fills[q]
    BY <1>2 DEF OverlapTypes, OrderRec
  <1>7. \A q \in Placements : after[q] \in Int
    BY <1>4, <1>5, <1>6
  <1> DEFINE wb == InWeights(req, u, a, before)
             wf == InWeights(req, u, a, fills)
             wo == InWeights(req, u, a, others)
             wa == InWeights(req, u, a, after)
  <1>8. LockedBy(u, a, before) = SumTo(wb, n) /\ LockedBy(u, a, fills) = SumTo(wf, n)
    <2> HIDE DEF before, fills
    <2> QED
      BY WalletSum
  <1>9. LockedBy(u, a, [q \in Placements |->
                        IF q \in Resting THEN order[q].left ELSE 0])' = SumTo(wa, n)
    <2>1. [q \in Placements |-> IF q \in Resting THEN order[q].left ELSE 0]' = after
      BY DEF Resting
    <2> HIDE DEF after
    <2>2. \A x : LockedBy(u, a, x)' = LockedBy(u, a, x)
      BY <1>1 DEF LockedBy, InWallet
    <2>3. LockedBy(u, a, after) = SumTo(wa, n)
      BY WalletSum
    <2> HIDE DEF wa, n
    <2> QED
      BY <2>1, <2>2, <2>3
  <1>10. locked'[u][a] = locked[u][a]
           + (IF u = req[p].owner /\ a = Asset(req[p].side) THEN rest ELSE 0)
           - LockedBy(u, a, fills)
    BY <1>1 DEF Assets
  <1>11. locked[u][a] = LockedBy(u, a, before)
    BY DEF LocksMatchBook, Assets
  <1> HIDE DEF before, fills, others, after, rest
  <1>12. /\ n \in Nat /\ \A i \in 1..n : Listed[i] \in Placements
         /\ \A i, j \in 1..n : Listed[i] = Listed[j] => i = j
    BY ListedOnce
  <1>13. PICK k \in 1..n : Listed[k] = p
    BY ListedOnce
  <1> HIDE DEF n
  <1>14. ASSUME NEW i \in Nat
         PROVE  /\ wb[i] \in Int /\ wf[i] \in Int /\ wo[i] \in Int /\ wa[i] \in Int
                /\ wo[i] = wb[i] - wf[i]
                /\ i # k => wa[i] = wo[i]
    <2>1. CASE i \in 1..n
      <3>1. Listed[i] \in Placements /\ (i # k => Listed[i] # p)
        BY <1>12, <1>13, <2>1
      <3>2. before[Listed[i]] \in Int /\ fills[Listed[i]] \in Int /\ others[Listed[i]] \in Int
            /\ after[Listed[i]] \in Int
            /\ others[Listed[i]] = before[Listed[i]] - fills[Listed[i]]
            /\ (i # k => after[Listed[i]] = others[Listed[i]])
        BY <1>4, <1>6, <1>7, <3>1
      <3>3. CASE InWallet(Listed[i], u, a)
        BY <2>1, <3>2, <3>3 DEF InWeights, InWallet, n
      <3>4. CASE ~InWallet(Listed[i], u, a)
        BY <2>1, <3>2, <3>4 DEF InWeights, InWallet, n
      <3> QED
        BY <3>3, <3>4
    <2>2. CASE i \notin 1..n
      BY <2>2 DEF InWeights, n
    <2> QED
      BY <2>1, <2>2
  <1>15. /\ wo[k] = 0
         /\ wa[k] = IF u = req[p].owner /\ a = Asset(req[p].side) THEN rest ELSE 0
    BY <1>5, <1>12, <1>13 DEF InWeights, n
  <1> HIDE DEF wb, wf, wo, wa
  <1>16. SumTo(wo, n) = SumTo(wb, n) - SumTo(wf, n)
    <2>1. \A i \in Nat : wb[i] \in Int /\ wo[i] \in Int /\ wf[i] \in Int
      BY <1>14
    <2>2. \A i \in 1..n : wo[i] = wb[i] - wf[i]
      BY <1>12, <1>14
    <2> QED
      BY <1>12, <2>1, <2>2, SumToMinus
  <1>17. SumTo(wa, n) = SumTo(wo, n) - wo[k] + wa[k]
    BY <1>12, <1>14, SumToUpdate
  <1>18. SumTo(wb, n) \in Int /\ SumTo(wf, n) \in Int /\ wa[k] \in Int
    <2>1. \A i \in Nat : wb[i] \in Int
      BY <1>14
    <2>2. \A i \in Nat : wf[i] \in Int
      BY <1>14
    <2> QED
      BY <1>12, <1>14, <2>1, <2>2, SumToInt
  <1> QED
    BY <1>8, <1>9, <1>10, <1>11, <1>15, <1>16, <1>17, <1>18

LEMMA CommitStep ==
  ASSUME OverlapInv, NEW p \in Placements, Commit(p)
  PROVE  OverlapInv'
  <1> USE DEF OverlapInv
  <1> DEFINE rest == req[p].amount - FilledBy(p)
  <1>1. /\ pc[p] = "COMMIT" /\ pc' = [pc EXCEPT ![p] = "DONE"]
        /\ held' = [r \in Rows |-> held[r] \ {p}]
        /\ UNCHANGED <<req, target, needs, found, makers, seen>>
    BY DEF Commit, Released
  <1>2. /\ order[p].state = "NONE" /\ order'[p] = After(rest)
        /\ \A q \in Placements : FillOf(p, q) \in Nat
        /\ \A q \in Placements \ {p} : FillOf(p, q) = 0 => order'[q] = order[q]
        /\ \A q \in Placements \ {p} : FillOf(p, q) > 0 =>
              /\ order[q].state = "OPEN" /\ p \in held[q] /\ FillOf(p, q) <= order[q].left
              /\ order'[q] = After(order[q].left - FillOf(p, q))
        /\ FilledBy(p) < req[p].amount =>
             \A q \in seen[p] \cap Resting :
               Crosses(p, q) /\ req[q].owner # req[p].owner => FillOf(p, q) = order[q].left
    BY CommitOrders
  <1>3. rest \in Nat /\ (rest > 0 => FilledBy(p) < req[p].amount)
    <2>1. FilledBy(p) \in Nat /\ FilledBy(p) <= req[p].amount /\ req[p].amount \in Nat
      BY Fills, Asked
    <2> QED
      BY <2>1
  <1> HIDE DEF rest
  <1>4. p \in Txs /\ p \notin Cancels
    BY Transactions
  <1>5. \A left \in Nat : /\ After(left) \in OrderRec /\ After(left).left = left
                          /\ After(left).state = IF left = 0 THEN "FILLED" ELSE "OPEN"
    BY DEF After, OrderRec
  <1>6. ASSUME NEW q \in Placements \ {p}
        PROVE  /\ order'[q] \in OrderRec
               /\ order'[q].state = "OPEN" => order[q].state = "OPEN" /\ order'[q].left > 0
               /\ order'[q].state = "NONE" <=> order[q].state = "NONE"
               /\ order'[q] # order[q] => p \in held[q]
               /\ FillOf(p, q) = order[q].left /\ order[q].state = "OPEN" => order'[q].state # "OPEN"
    <2>1. order[q] \in OrderRec /\ order[q].left \in Nat /\ FillOf(p, q) \in Nat
          /\ (order[q].state = "OPEN" => order[q].left > 0)
      BY <1>2 DEF OverlapTypes, OrderRec, BookSound
    <2>2. CASE FillOf(p, q) = 0
      BY <1>2, <2>1, <2>2
    <2>3. CASE FillOf(p, q) > 0
      <3> DEFINE left == order[q].left - FillOf(p, q)
      <3>1. /\ left \in Nat /\ order[q].state = "OPEN" /\ p \in held[q] /\ order'[q] = After(left)
            /\ (FillOf(p, q) = order[q].left => left = 0)
        BY <1>2, <2>1, <2>3
      <3> HIDE DEF left
      <3> QED
        BY <1>5, <3>1
    <2> QED
      BY <2>1, <2>2, <2>3
  <1>7. order'[p] \in OrderRec /\ order'[p].state = (IF rest = 0 THEN "FILLED" ELSE "OPEN")
        /\ order'[p].left = rest
    BY <1>2, <1>3, <1>5
  <1>8. OverlapTypes'
    <2>1. order' \in [Placements -> OrderRec]
      <3>1. order' = [q \in Placements |-> order'[q]]
        BY DEF Commit
      <3>2. \A q \in Placements : order'[q] \in OrderRec
        BY <1>6, <1>7
      <3> QED
        BY <3>1, <3>2
    <2>2. locked' \in [Traders -> [Assets -> Int]]
      <3>1. ASSUME NEW u \in Traders, NEW a \in Assets
            PROVE  /\ (IF u = req[p].owner /\ a = Asset(req[p].side)
                         THEN req[p].amount - FilledBy(p) ELSE 0) \in Int
                   /\ LockedBy(u, a, [q \in Placements |-> FillOf(p, q)]) \in Int
                   /\ locked[u][a] \in Int
        <4> DEFINE fills == [q \in Placements |-> FillOf(p, q)]
                   w == InWeights(req, u, a, fills)
        <4>1. \A q \in Placements : fills[q] \in Int
          BY <1>2
        <4> HIDE DEF fills
        <4>2. \A i \in Nat : w[i] \in Int
          BY <4>1, ListedOnce DEF InWeights
        <4>3. LockedBy(u, a, fills) = SumTo(w, Cardinality(Placements))
          BY WalletSum
        <4> HIDE DEF w
        <4>4. SumTo(w, Cardinality(Placements)) \in Int
          BY <4>2, ListedOnce, SumToInt
        <4>5. req[p].amount - FilledBy(p) \in Int
          BY <1>3 DEF rest
        <4> QED
          BY <4>3, <4>4, <4>5 DEF OverlapTypes, fills
      <3>2. locked' = [u \in Traders |-> [a \in Assets |->
                 locked[u][a]
                   + (IF u = req[p].owner /\ a = Asset(req[p].side)
                      THEN req[p].amount - FilledBy(p) ELSE 0)
                   - LockedBy(u, a, [q \in Placements |-> FillOf(p, q)])]]
        BY DEF Commit, Assets
      <3> QED
        BY <3>1, <3>2
    <2>3. held' \in [Rows -> SUBSET Txs] /\ DOMAIN pc' = Txs
      BY <1>1 DEF OverlapTypes
    <2> QED
      BY <1>1, <2>1, <2>2, <2>3 DEF OverlapTypes
  <1>9. /\ \A q \in Placements : order'[q] # order[q] => p \in held[q] \/ q \notin Committed
        /\ Committed \subseteq Committed' /\ Resting' \cap Committed \subseteq Resting
        /\ Resting' \ {p} \subseteq Resting
    BY <1>2, <1>6 DEF Committed, Resting
  <1>10. /\ \A r \in Rows : held[r] \ {p} \subseteq held'[r]
         /\ \A t \in Txs : t # p => pc'[t] = pc[t] /\ needs'[t] = needs[t]
         /\ \A q \in Placements : found'[q] = found[q] /\ makers'[q] = makers[q]
                                    /\ seen'[q] = seen[q]
    BY <1>1 DEF OverlapTypes
  <1>11. RowsExclusive'
    BY <1>1 DEF RowsExclusive, OverlapTypes
  <1>12. pc'[p] = "DONE"
    BY <1>1, <1>4 DEF OverlapTypes
  <1>13. ReadUnderLock'
    <2>1. UNCHANGED <<req, target>>
      BY <1>1
    <2>2. \A q \in Placements : q # p => PlacesUnderLock(q)'
      BY <1>4, <1>9, <1>10, <2>1, OthersStay
    <2>3. \A c \in Cancels : c # p => CancelsUnderLock(c)'
      BY <1>4, <1>9, <1>10, <2>1, OthersStay
    <2>4. PlacesUnderLock(p)'
      BY <1>12 DEF PlacesUnderLock
    <2> QED
      BY <1>4, <2>2, <2>3, <2>4 DEF ReadUnderLock
  <1>14. BookSound'
    <2>1. \A q \in Placements : order'[q].state = "OPEN" => order'[q].left > 0
      BY <1>3, <1>6, <1>7
    <2>2. \A q \in Placements : pc'[q] \in {"IDLE", "INSERT", "SELECT", "MATCH", "COMMIT"}
                                  => order'[q].state = "NONE"
      BY <1>6, <1>10, <1>12, Transactions DEF BookSound
    <2>3. \A q \in Placements : seen'[q] \subseteq Committed'
      BY <1>9, <1>10 DEF BookSound
    <2> QED
      BY <2>1, <2>2, <2>3 DEF BookSound
  <1>15. CrossNeedsOverlap'
    <2>1. ASSUME NEW x \in Resting', NEW y \in Resting',
                 Crosses(x, y), Crosses(y, x), req[x].owner # req[y].owner
          PROVE  x \notin seen[y]
      <3>1. x \in Placements /\ y \in Placements
        BY DEF Resting
      <3>2. CASE x = p
        BY <1>2, <3>1, <3>2 DEF BookSound, Committed
      <3>3. CASE x # p /\ y = p
        <4>1. SUFFICES ASSUME x \in seen[p] PROVE FALSE
          BY <3>3
        <4>2. x \in Resting
          BY <1>9, <3>3
        <4>3. rest > 0
          BY <1>3, <1>7, <3>3 DEF Resting
        <4>4. FillOf(p, x) = order[x].left
          BY <1>2, <1>3, <2>1, <3>3, <4>1, <4>2, <4>3
        <4>5. order'[x].state # "OPEN"
          BY <1>6, <3>1, <3>3, <4>2, <4>4 DEF Resting
        <4> QED
          BY <4>5 DEF Resting
      <3>4. CASE x # p /\ y # p
        BY <1>9, <2>1, <3>4 DEF CrossNeedsOverlap
      <3> QED
        BY <3>2, <3>3, <3>4
    <2>2. \A x, y \in Resting' : Crosses(x, y) => Crosses(y, x)
      BY CrossesBothWays DEF Resting
    <2>3. \A x, y : Crosses(x, y)' <=> Crosses(x, y)
      BY <1>1 DEF Crosses
    <2>4. req' = req /\ seen' = seen
      BY <1>1
    <2> QED
      BY <2>1, <2>2, <2>3, <2>4 DEF CrossNeedsOverlap
  <1> QED
    BY <1>8, <1>11, <1>13, <1>14, <1>15, CommitLocks

-----------------------------------------------------------------------------
\* The commit of a cancellation

LEMMA CancelLocks ==
  ASSUME OverlapInv, NEW c \in Cancels, Cancel(c), NEW o \in Placements, o = target[c],
         order[o].state = "OPEN"
  PROVE  LocksMatchBook'
  <1> USE DEF OverlapInv
  <1>1. /\ UNCHANGED req
        /\ order' = [order EXCEPT ![o].state = "CANCELLED"]
        /\ locked' = [locked EXCEPT ![req[o].owner][Asset(req[o].side)] = @ - order[o].left]
    BY DEF Cancel
  <1>2. req[o].owner \in Traders /\ Asset(req[o].side) \in Assets
    BY Asked
  <1> SUFFICES ASSUME NEW u \in Traders, NEW a \in Assets
               PROVE  locked'[u][a] = LockedBy(u, a, [q \in Placements |->
                        IF q \in Resting THEN order[q].left ELSE 0])'
    BY DEF LocksMatchBook, Assets
  <1> DEFINE n == Cardinality(Placements)
             before == [q \in Placements |-> IF q \in Resting THEN order[q].left ELSE 0]
             after == [q \in Placements |-> IF order'[q].state = "OPEN" THEN order'[q].left ELSE 0]
             wb == InWeights(req, u, a, before)
             wa == InWeights(req, u, a, after)
             mine == u = req[o].owner /\ a = Asset(req[o].side)
  <1>3. order'[o].state = "CANCELLED" /\ \A q \in Placements : q # o => order'[q] = order[q]
    BY <1>1 DEF OverlapTypes, OrderRec
  <1>4. /\ before[o] = order[o].left /\ after[o] = 0
        /\ \A q \in Placements : q # o => after[q] = before[q]
    BY <1>3 DEF Resting
  <1>5. \A q \in Placements : before[q] \in Int
    BY DEF OverlapTypes, OrderRec
  <1>6. \A q \in Placements : after[q] \in Int
    BY <1>4, <1>5
  <1>7. LockedBy(u, a, before) = SumTo(wb, n)
    <2> HIDE DEF before
    <2> QED
      BY WalletSum
  <1>8. LockedBy(u, a, [q \in Placements |->
                        IF q \in Resting THEN order[q].left ELSE 0])' = SumTo(wa, n)
    <2>1. [q \in Placements |-> IF q \in Resting THEN order[q].left ELSE 0]' = after
      BY DEF Resting
    <2> HIDE DEF after
    <2>2. \A x : LockedBy(u, a, x)' = LockedBy(u, a, x)
      BY <1>1 DEF LockedBy, InWallet
    <2>3. LockedBy(u, a, after) = SumTo(wa, n)
      BY WalletSum
    <2> HIDE DEF wa, n
    <2> QED
      BY <2>1, <2>2, <2>3
  <1>9. locked'[u][a] = locked[u][a] - (IF mine THEN order[o].left ELSE 0)
    <2>1. locked[u][a] \in Int /\ order[o].left \in Nat
      BY DEF OverlapTypes, OrderRec
    <2> QED
      BY <1>1, <2>1 DEF OverlapTypes
  <1>10. locked[u][a] = LockedBy(u, a, before)
    BY DEF LocksMatchBook, Assets
  <1> HIDE DEF before, after
  <1>11. /\ n \in Nat /\ \A i \in 1..n : Listed[i] \in Placements
         /\ \A i, j \in 1..n : Listed[i] = Listed[j] => i = j
    BY ListedOnce
  <1>12. PICK k \in 1..n : Listed[k] = o
    BY ListedOnce
  <1>13. \A i \in Nat : wb[i] \in Int /\ wa[i] \in Int
    BY <1>5, <1>6, <1>11 DEF InWeights
  <1>14. \A i \in Nat : i # k => wb[i] = wa[i]
    BY <1>4, <1>11, <1>12 DEF InWeights
  <1>15. wb[k] = (IF mine THEN order[o].left ELSE 0) /\ wa[k] = 0
    BY <1>4, <1>11, <1>12 DEF InWeights
  <1> HIDE DEF wb, wa, n, mine
  <1>16. SumTo(wa, n) = SumTo(wb, n) - wb[k] + wa[k]
    BY <1>11, <1>13, <1>14, SumToUpdate
  <1>17. SumTo(wb, n) \in Int /\ wb[k] \in Int
    <2>1. SumTo(wb, n) \in Int
      BY <1>11, <1>13, SumToInt
    <2> QED
      BY <1>11, <1>13, <2>1
  <1> QED
    BY <1>7, <1>8, <1>9, <1>10, <1>15, <1>16, <1>17

LEMMA CancelStep ==
  ASSUME OverlapInv, NEW c \in Cancels, Cancel(c)
  PROVE  OverlapInv'
  <1> USE DEF OverlapInv
  <1> DEFINE o == target[c]
  <1>1. /\ pc[c] = "COMMIT" /\ needs[c] = <<>> /\ pc' = [pc EXCEPT ![c] = "DONE"]
        /\ held' = [r \in Rows |-> held[r] \ {c}]
        /\ UNCHANGED <<req, target, needs, found, makers, seen>>
    BY DEF Cancel, Released
  <1>2. c \in Txs /\ c \notin Placements /\ o \in Placements /\ o \in Rows
    BY Transactions DEF OverlapTypes
  <1>3. \/ /\ order[o].state = "OPEN"
           /\ order' = [order EXCEPT ![o].state = "CANCELLED"]
           /\ locked' = [locked EXCEPT ![req[o].owner][Asset(req[o].side)] = @ - order[o].left]
        \/ order[o].state # "OPEN" /\ UNCHANGED <<order, locked>>
    BY DEF Cancel
  <1>4. o \in Committed /\ c \in held[o]
    <2>1. WillHold(held, needs, c, o) /\ o \in Committed
      BY <1>1 DEF ReadUnderLock, CancelsUnderLock
    <2> QED
      BY <1>1, <1>2, <2>1, AllHeld
  <1> HIDE DEF o
  <1>5. /\ \A q \in Placements : q # o => order'[q] = order[q]
        /\ \/ order'[o] = order[o]
           \/ /\ order[o].state = "OPEN" /\ order'[o].state = "CANCELLED"
              /\ order'[o].left = order[o].left
        /\ order' \in [Placements -> OrderRec]
    <2>1. CASE UNCHANGED order
      BY <2>1 DEF OverlapTypes
    <2>2. CASE order[o].state = "OPEN" /\ order' = [order EXCEPT ![o].state = "CANCELLED"]
      <3> DEFINE ended == [order[o] EXCEPT !.state = "CANCELLED"]
      <3>1. /\ ended \in OrderRec /\ ended.state = "CANCELLED" /\ ended.left = order[o].left
            /\ order' = [order EXCEPT ![o] = ended]
        BY <1>2, <2>2 DEF OverlapTypes, OrderRec
      <3> HIDE DEF ended
      <3>2. order' \in [Placements -> OrderRec] /\ order'[o] = ended
            /\ \A q \in Placements : q # o => order'[q] = order[q]
        BY <1>2, <3>1 DEF OverlapTypes
      <3> QED
        BY <2>2, <3>1, <3>2
    <2> QED
      BY <1>3, <2>1, <2>2
  <1>6. OverlapTypes'
    <2>1. locked' \in [Traders -> [Assets -> Int]]
      <3>1. /\ req[o].owner \in Traders /\ Asset(req[o].side) \in Assets /\ order[o].left \in Nat
            /\ locked[req[o].owner][Asset(req[o].side)] \in Int
        BY <1>2, Asked DEF OverlapTypes, OrderRec
      <3>2. CASE UNCHANGED locked
        BY <3>2 DEF OverlapTypes
      <3>3. CASE locked' = [locked EXCEPT ![req[o].owner][Asset(req[o].side)] = @ - order[o].left]
        <4> DEFINE u == req[o].owner
                   a == Asset(req[o].side)
                   rest == locked[u][a] - order[o].left
        <4>1. rest \in Int /\ u \in Traders /\ a \in Assets
          BY <3>1
        <4>2. locked' = [locked EXCEPT ![u] = [locked[u] EXCEPT ![a] = rest]]
          BY <3>3
        <4> HIDE DEF u, a, rest
        <4>3. [locked[u] EXCEPT ![a] = rest] \in [Assets -> Int]
          BY <4>1 DEF OverlapTypes
        <4> QED
          BY <4>1, <4>2, <4>3 DEF OverlapTypes
      <3> QED
        BY <1>3, <3>2, <3>3
    <2>2. held' \in [Rows -> SUBSET Txs] /\ DOMAIN pc' = Txs
      BY <1>1 DEF OverlapTypes
    <2> QED
      BY <1>1, <1>5, <2>1, <2>2 DEF OverlapTypes
  <1>7. Resting' \subseteq Resting /\ Committed' = Committed
    BY <1>2, <1>4, <1>5 DEF Committed, Resting
  <1>8. RowsExclusive'
    BY <1>1 DEF RowsExclusive, OverlapTypes
  <1>9. /\ \A r \in Rows : held[r] \ {c} \subseteq held'[r]
        /\ \A t \in Txs : t # c => pc'[t] = pc[t] /\ needs'[t] = needs[t]
        /\ \A q \in Placements : found'[q] = found[q] /\ makers'[q] = makers[q]
                                   /\ seen'[q] = seen[q] /\ pc'[q] = pc[q]
        /\ pc'[c] = "DONE"
    BY <1>1, <1>2, Transactions DEF OverlapTypes
  <1>10. BookSound'
    <2>1. \A q \in Placements : order'[q].state = "OPEN" => order'[q].left > 0
      BY <1>5 DEF BookSound
    <2>2. \A q \in Placements : pc'[q] \in {"IDLE", "INSERT", "SELECT", "MATCH", "COMMIT"}
                                  => order'[q].state = "NONE"
      BY <1>5, <1>9 DEF BookSound
    <2>3. \A q \in Placements : seen'[q] \subseteq Committed'
      BY <1>7, <1>9 DEF BookSound
    <2> QED
      BY <2>1, <2>2, <2>3 DEF BookSound
  <1>11. ReadUnderLock'
    <2>1. UNCHANGED <<req, target>>
      BY <1>1
    <2>2. \A q \in Placements : order'[q] # order[q] => c \in held[q] \/ q \notin Committed
      BY <1>4, <1>5
    <2>3. Committed \subseteq Committed' /\ Resting' \cap Committed \subseteq Resting
      BY <1>7
    <2>4. \A q \in Placements : q # c => PlacesUnderLock(q)'
      BY <1>2, <1>9, <2>1, <2>2, <2>3, OthersStay
    <2>5. \A d \in Cancels : d # c => CancelsUnderLock(d)'
      BY <1>2, <1>9, <2>1, <2>2, <2>3, OthersStay
    <2>6. CancelsUnderLock(c)'
      BY <1>9 DEF CancelsUnderLock
    <2> QED
      BY <1>2, <2>4, <2>5, <2>6 DEF ReadUnderLock
  <1>12. CrossNeedsOverlap'
    <2>1. \A x, y : Crosses(x, y)' <=> Crosses(x, y)
      BY <1>1 DEF Crosses
    <2> QED
      BY <1>1, <1>7, <2>1 DEF CrossNeedsOverlap
  <1>13. LocksMatchBook'
    <2>1. CASE order[o].state = "OPEN"
      BY <1>2, <2>1, CancelLocks DEF o
    <2>2. CASE order[o].state # "OPEN"
      <3>1. UNCHANGED <<req, order, locked>> /\ \A q \in Resting : seen'[q] = seen[q]
        BY <1>1, <1>3, <2>2
      <3> QED
        BY <3>1, BookStays
    <2> QED
      BY <2>1, <2>2
  <1> QED
    BY <1>6, <1>8, <1>10, <1>11, <1>12, <1>13

-----------------------------------------------------------------------------
\* The theorems

LEMMA OverlapStep == OverlapInv /\ [Next]_overlapVars => OverlapInv'
  <1> SUFFICES ASSUME OverlapInv, [Next]_overlapVars PROVE OverlapInv'
    OBVIOUS
  <1>1. ASSUME NEW p \in Placements,
               Begin(p) \/ Insert(p) \/ Select(p) \/ Settle(p) \/ Commit(p)
        PROVE  OverlapInv'
    BY <1>1, QuietSteps, SelectStep, SettleStep, CommitStep, Transactions
  <1>2. ASSUME NEW c \in Cancels, BeginCancel(c) \/ Cancel(c) PROVE OverlapInv'
    BY <1>2, BeginCancelStep, CancelStep
  <1>3. ASSUME NEW t \in Txs, Lock(t) \/ Deadlocked(t) PROVE OverlapInv'
    BY <1>3, LockStep, QuietSteps
  <1>4. ASSUME UNCHANGED overlapVars PROVE OverlapInv'
    <2>1. UNCHANGED <<req, target, pc, needs, held, order, locked, found, makers, seen>>
      BY <1>4 DEF overlapVars
    <2>2. LocksMatchBook' /\ CrossNeedsOverlap' /\ Resting' = Resting /\ Committed' = Committed
      BY <2>1, BookStays
    <2>3. OverlapTypes' /\ RowsExclusive'
      BY <2>1 DEF OverlapInv, OverlapTypes, RowsExclusive
    <2>4. BookSound'
      BY <2>1, <2>2 DEF OverlapInv, BookSound
    <2>5. ReadUnderLock'
      BY <2>1, <2>2 DEF OverlapInv, ReadUnderLock, PlacesUnderLock, CancelsUnderLock, WillHold,
                        Selected, Crosses, Read, MayFill
    <2> QED
      BY <2>2, <2>3, <2>4, <2>5 DEF OverlapInv
  <1> QED
    BY <1>1, <1>2, <1>3, <1>4 DEF Next, Rest

\* Whatever the order in which placements (createLimitOrder, matchIncomingOrder) and
\* cancellations (cancelOrder) take and wait for their row locks, whichever of them
\* the database ends to break a deadlock, and whatever they ask for: every order that
\* a transaction fills or cancels is locked before it is read and not changed by
\* another one until the commit, so no amount is filled twice or released twice and
\* the wallets hold locked exactly what the resting orders still have to fill.
THEOREM BooksMatchLocks == Spec => []LocksMatchBook
  <1>1. Spec => []OverlapInv
    BY OverlapInit, OverlapStep, PTL DEF Spec
  <1>2. OverlapInv => LocksMatchBook
    BY DEF OverlapInv
  <1> QED
    BY <1>1, <1>2, PTL

\* Orders of two users that cross can come to rest together, for matchIncomingOrder
\* sees only what was committed when it selects; but then each of the two selected
\* before the other was committed. A placement never passes over an order of another
\* user that it saw, crosses and could still fill.
THEOREM OnlyOverlapsCross == Spec => []CrossNeedsOverlap
  <1>1. Spec => []OverlapInv
    BY OverlapInit, OverlapStep, PTL DEF Spec
  <1>2. OverlapInv => CrossNeedsOverlap
    BY DEF OverlapInv
  <1> QED
    BY <1>1, <1>2, PTL

=============================================================================
