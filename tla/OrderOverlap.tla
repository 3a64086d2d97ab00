----------------------------- MODULE OrderOverlap -----------------------------
(***************************************************************************)
(* Placements and cancellations of one market that overlap, lock by lock   *)
(* (createLimitOrder, matchIncomingOrder, cancelOrder, selectOrderRows and *)
(* ensureWalletForUpdate of orders.service.ts). Module Trading has them one*)
(* after another with their money; here an order is its remaining amount,  *)
(* and what its funds are locked for is counted in that amount too.        *)
(*                                                                         *)
(* A SELECT ... FOR UPDATE locks the rows of every table it joins: a wallet*)
(* is read with its asset, resting orders with their users, an order to be *)
(* cancelled with its user, market and assets. A wallet is only reached    *)
(* with its asset, so the asset's row stands for both. An insert shares the*)
(* rows it refers to. A row is locked in its newest version, after the     *)
(* snapshot of the statement has chosen and ordered the rows.              *)
(***************************************************************************)
EXTENDS Integers, FiniteSets, Sequences, Functions, Relation, Sums

CONSTANTS
  Placements, Cancels,   \* transactions
  Traders,
  Requests               \* what a placement may ask for

Txs == Placements \union Cancels
Sides == {"BUY", "SELL"}
Asset(side) == IF side = "BUY" THEN "QUOTE" ELSE "BASE"
Other(side) == CHOOSE s \in Sides : s # side
Rows == {"QUOTE", "BASE", "MARKET"} \union Traders \union Placements

ASSUME RequestsAssumption ==
  Requests \subseteq [owner : Traders, side : Sides, price : Nat, amount : Nat \ {0}]

\* A transaction is a placement or a cancellation.
ASSUME TransactionsAssumption ==
  IsFiniteSet(Placements) /\ Placements \intersect Cancels = {}

VARIABLES
  req,      \* what each placement asks for
  target,   \* the order each cancellation names
  pc,       \* where a transaction is
  needs,    \* the rows a transaction still has to lock, in order
  held,     \* [row -> the transactions that hold it FOR UPDATE]
  shared,   \* [row -> those whose inserts refer to it]
  begun,    \* when a placement began: the createdAt of its order
  order,    \* committed orders: state and remaining amount
  locked,   \* committed wallets: [trader -> [asset -> amount locked]]
  found,    \* the orders a placement's select chose, in its order
  makers,   \* the remaining amount of each that it may fill, 0 of the others
  seen      \* what was committed when it did (history)

overlapVars == <<req, target, pc, needs, held, shared, begun, order, locked, found, makers, seen>>

NoOrder == [state |-> "NONE", left |-> 0]
Committed == {p \in Placements : order[p].state # "NONE"}
Resting == {p \in Placements : order[p].state = "OPEN"}

Init ==
  /\ req \in [Placements -> Requests]
  /\ target \in [Cancels -> Placements]
  /\ pc = [t \in Txs |-> "IDLE"]
  /\ needs = [t \in Txs |-> <<>>]
  /\ held = [r \in Rows |-> {}] /\ shared = [r \in Rows |-> {}]
  /\ order = [p \in Placements |-> NoOrder]
  /\ locked = [u \in Traders |-> [a \in {"QUOTE", "BASE"} |-> 0]]
  /\ found = [p \in Placements |-> <<>>]
  /\ makers = [p \in Placements |-> <<>>]
  /\ seen = [p \in Placements |-> {}]
  /\ begun = [p \in Placements |-> 0]

Blockers(t) ==
  IF needs[t] = <<>> THEN {}
  ELSE (held[Head(needs[t])] \union shared[Head(needs[t])]) \ {t}
SharesOf(p) == {req[p].owner, "MARKET"}
\* A placement that inserts waits for whoever holds a row it refers to.
InsertBlockers(p) == (UNION {held[r] : r \in SharesOf(p)}) \ {p}

Released(t) ==
  /\ held' = [r \in Rows |-> held[r] \ {t}]
  /\ shared' = [r \in Rows |-> shared[r] \ {t}]

\* FOR UPDATE: the next row is locked as soon as nobody else has it.
Lock(t) ==
  /\ needs[t] # <<>> /\ Blockers(t) = {}
  /\ held' = [held EXCEPT ![Head(needs[t])] = @ \union {t}]
  /\ needs' = [needs EXCEPT ![t] = Tail(@)]
  /\ UNCHANGED <<req, target, pc, shared, begun, order, locked, found, makers, seen>>

\* createLimitOrder: ensureWalletForUpdate of the asset to be spent.
Begin(p) ==
  /\ pc[p] = "IDLE"
  /\ pc' = [pc EXCEPT ![p] = "INSERT"]
  /\ needs' = [needs EXCEPT ![p] = <<Asset(req[p].side)>>]
  /\ begun' = [begun EXCEPT ![p] = Cardinality({q \in Placements : pc[q] # "IDLE"})]
  /\ UNCHANGED <<req, target, held, shared, order, locked, found, makers, seen>>

\* The order and its ledger entry are inserted; nobody else sees them yet.
Insert(p) ==
  /\ pc[p] = "INSERT" /\ needs[p] = <<>> /\ InsertBlockers(p) = {}
  /\ shared' = [r \in Rows |-> IF r \in SharesOf(p) THEN shared[r] \union {p} ELSE shared[r]]
  /\ pc' = [pc EXCEPT ![p] = "SELECT"]
  /\ UNCHANGED <<req, target, needs, held, begun, order, locked, found, makers, seen>>

Crosses(p, q) ==
  /\ req[q].side = Other(req[p].side)
  /\ IF req[p].side = "BUY" THEN req[q].price <= req[p].price ELSE req[q].price >= req[p].price

\* Price first, then the time of creation.
Before(q, r) ==
  \/ IF req[q].side = "SELL" THEN req[q].price < req[r].price ELSE req[q].price > req[r].price
  \/ req[q].price = req[r].price /\ begun[q] < begun[r]
Matches_BestOnly(p) ==
  {q \in Resting : Crosses(p, q) /\ \A r \in Resting : Crosses(p, r) => ~Before(r, q)}
Matches(p) == {q \in Resting : Crosses(p, q)}
Sorted(S) ==
  {s \in Bijection(1 .. Cardinality(S), S) :
     \A i, j \in DOMAIN s : i < j => ~Before(s[j], s[i])}

RowsOf(qs) == [i \in 1 .. 2 * Len(qs) |->
                 IF i % 2 = 1 THEN qs[(i + 1) \div 2] ELSE req[qs[i \div 2]].owner]

\* matchIncomingOrder selects what is committed, sorted, and goes on to lock it.
Select(p) ==
  /\ pc[p] = "SELECT"
  /\ \E qs \in Sorted(Matches(p)) :
       /\ found' = [found EXCEPT ![p] = qs]
       /\ needs' = [needs EXCEPT ![p] = RowsOf(qs)]
  /\ seen' = [seen EXCEPT ![p] = Committed]
  /\ pc' = [pc EXCEPT ![p] = "MATCH"]
  /\ UNCHANGED <<req, target, held, shared, begun, order, locked, makers>>

\* All rows are locked and read in their newest version, which may not qualify any
\* more; the user's own orders are passed over. A fill also needs the wallets in
\* the other asset: the settlement locks them.
MayFill(p, q) == order[q].state = "OPEN" /\ req[q].owner # req[p].owner
Read(p) ==
  [i \in DOMAIN found[p] |-> IF MayFill(p, found[p][i]) THEN order[found[p][i]].left ELSE 0]
Settle(p) ==
  /\ pc[p] = "MATCH" /\ needs[p] = <<>>
  /\ makers' = [makers EXCEPT ![p] = Read(p)]
  /\ needs' = [needs EXCEPT ![p] =
                  IF \E i \in DOMAIN found[p] : Read(p)[i] > 0
                    THEN <<Asset(Other(req[p].side))>> ELSE <<>>]
  /\ pc' = [pc EXCEPT ![p] = "COMMIT"]
  /\ UNCHANGED <<req, target, held, shared, begun, order, locked, found, seen>>

\* What the first n makers offer, what is wanted of the i-th, and what he fills.
Offered(p, n) ==
  SumTo([i \in Nat |-> IF i \in DOMAIN makers[p] THEN makers[p][i] ELSE 0], n)
Wanted(p, i) == req[p].amount - Offered(p, i - 1)
Fill(p, i) ==
  IF Wanted(p, i) <= 0 THEN 0
  ELSE IF makers[p][i] < Wanted(p, i) THEN makers[p][i] ELSE Wanted(p, i)
FilledBy(p) ==
  SumTo([i \in Nat |-> IF i \in DOMAIN makers[p] THEN Fill(p, i) ELSE 0], Len(makers[p]))

\* What p fills of order q, and what it leaves of the amount it read.
PlaceOf(p, q) == CHOOSE i \in DOMAIN found[p] : found[p][i] = q
FillOf(p, q) == IF q \in Range(found[p]) THEN Fill(p, PlaceOf(p, q)) ELSE 0
LeftOf(p, q) == makers[p][PlaceOf(p, q)] - FillOf(p, q)

After(left) == [state |-> IF left = 0 THEN "FILLED" ELSE "OPEN", left |-> left]

\* The placements one by one, and the sum of an amount over those of a wallet.
Listed == CHOOSE s \in Bijection(1 .. Cardinality(Placements), Placements) : TRUE
InWallet(q, u, a) == req[q].owner = u /\ Asset(req[q].side) = a
LockedBy(u, a, amount) ==
  SumTo([i \in Nat |-> IF i \in DOMAIN Listed
                         THEN IF InWallet(Listed[i], u, a) THEN amount[Listed[i]] ELSE 0
                         ELSE 0], Cardinality(Placements))

\* The fills, the wallets and the order become visible together.
Commit(p) ==
  /\ pc[p] = "COMMIT" /\ needs[p] = <<>>
  /\ order' = [q \in Placements |->
                 IF q = p THEN After(req[p].amount - FilledBy(p))
                 ELSE IF FillOf(p, q) > 0 THEN After(LeftOf(p, q))
                 ELSE order[q]]
  /\ locked' = [u \in Traders |-> [a \in {"QUOTE", "BASE"} |->
                 locked[u][a]
                   + (IF u = req[p].owner /\ a = Asset(req[p].side)
                      THEN req[p].amount - FilledBy(p) ELSE 0)
                   - LockedBy(u, a, [q \in Placements |-> FillOf(p, q)])]]
  /\ pc' = [pc EXCEPT ![p] = "DONE"]
  /\ Released(p)
  /\ UNCHANGED <<req, target, needs, begun, found, makers, seen>>

\* The select of one order, with all it joins.
CancelRows_WalletOnly(o) == <<Asset(req[o].side)>>
CancelRows(o) == <<o, req[o].owner, "MARKET", "BASE", "QUOTE">>

\* cancelOrder.
BeginCancel(c) ==
  /\ pc[c] = "IDLE" /\ target[c] \in Committed
  /\ needs' = [needs EXCEPT ![c] = CancelRows(target[c])]
  /\ pc' = [pc EXCEPT ![c] = "COMMIT"]
  /\ UNCHANGED <<req, target, held, shared, begun, order, locked, found, makers, seen>>

Cancel(c) ==
  /\ pc[c] = "COMMIT" /\ needs[c] = <<>>
  /\ LET o == target[c] IN
       IF order[o].state = "OPEN"
       THEN /\ order' = [order EXCEPT ![o].state = "CANCELLED"]
            /\ locked' = [locked EXCEPT ![req[o].owner][Asset(req[o].side)] = @ - order[o].left]
       ELSE UNCHANGED <<order, locked>>
  /\ pc' = [pc EXCEPT ![c] = "DONE"]
  /\ Released(c)
  /\ UNCHANGED <<req, target, needs, begun, found, makers, seen>>

Waits(t, u) ==
  \/ u \in Blockers(t)
  \/ pc[t] = "INSERT" /\ needs[t] = <<>> /\ u \in InsertBlockers(t)

Waiting == {t \in Txs : \E u \in Txs : Waits(t, u)}
InCycle ==
  LET reach == TransitiveClosure([t, u \in Waiting |-> Waits(t, u)], Waiting)
  IN {t \in Waiting : reach[t, t]}

\* PostgreSQL ends one transaction of a cycle of waits; its request fails.
Deadlocked(t) ==
  /\ t \in InCycle
  /\ pc' = [pc EXCEPT ![t] = "ABORTED"]
  /\ needs' = [needs EXCEPT ![t] = <<>>]
  /\ Released(t)
  /\ UNCHANGED <<req, target, begun, order, locked, found, makers, seen>>

\* A cancellation whose order was never placed has nothing to do.
Moot == {c \in Cancels : pc[c] = "IDLE" /\ target[c] \notin Committed}
Rest ==
  /\ \A t \in Txs \ Moot : pc[t] \in {"DONE", "ABORTED"}
  /\ UNCHANGED overlapVars

Next ==
  \/ \E p \in Placements : Begin(p) \/ Insert(p) \/ Select(p) \/ Settle(p) \/ Commit(p)
  \/ \E c \in Cancels : BeginCancel(c) \/ Cancel(c)
  \/ \E t \in Txs : Lock(t) \/ Deadlocked(t)
  \/ Rest

Spec == Init /\ [][Next]_overlapVars

-----------------------------------------------------------------------------
\* Orders of two users that cross in the book were placed at the same time: each
\* selected before the other was committed. One that came later would have filled.
CrossNeedsOverlap ==
  \A p, q \in Resting :
    Crosses(p, q) /\ req[p].owner # req[q].owner => p \notin seen[q] /\ q \notin seen[p]

\* What a wallet holds locked is what its resting orders still have to fill, though
\* a fill and a cancellation of one order were under way at once.
LocksMatchBook ==
  \A u \in Traders, a \in {"QUOTE", "BASE"} :
    locked[u][a] = LockedBy(u, a, [q \in Placements |-> IF q \in Resting THEN order[q].left ELSE 0])

=============================================================================
