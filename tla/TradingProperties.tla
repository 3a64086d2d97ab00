-------------------------- MODULE TradingProperties --------------------------
(***************************************************************************)
(* What order placement, matching, settlement and cancellation promise.    *)
(***************************************************************************)
EXTENDS Trading

PhaseName == {"IDLE", "CHECKED", "MATCH"}
AnswerName ==
  {"NONE", "PLACED", "INSUFFICIENT", "INEXACT_TOTAL", "NO_LIQUIDITY",
   "OVERSPEND", "FUNDS_SHORT"}

Balances == [Users -> [Assets -> Nat]]

TablesRec ==
  [avail : Balances, locked : Balances, feeWallet : [Assets -> Nat],
   orders : Seq(OrderRec), trades : Seq(TradeRec)]

\* The variables have their types; in particular no balance, no remaining
\* amount and no lock is ever negative, whatever updateWallet computed.
TypeOK ==
  /\ userStatus \in [Users -> {"ACTIVE", "FROZEN"}]
  /\ marketStatus \in [Markets -> {"ACTIVE", "PAUSED"}]
  /\ assetStatus \in [Assets -> {"ACTIVE", "PAUSED"}]
  /\ feeRates \in [Markets -> RateRec]
  /\ TheTables \in TablesRec
  /\ phase \in PhaseName
  /\ IF phase = "IDLE" THEN taker = NoOrder ELSE taker \in OrderRec
  /\ rows \subseteq DOMAIN orders
  /\ toVisit \subseteq rows
  /\ rates \in RateRec \cup {NoRates}
  /\ phase = "MATCH" => saved \in TablesRec
  /\ answer \in AnswerName

-----------------------------------------------------------------------------
\* Locks

\* What the rows of os lock of asset a for user u (orders.locked_amount).
LockWeights(os, u, a) ==
  [i \in Nat |-> IF i \in DOMAIN os
                   THEN IF os[i].user = u /\ SpendAsset(os[i]) = a
                          THEN os[i].locked ELSE 0
                   ELSE 0]
OrderLocks(os, u, a) == SumTo(LockWeights(os, u, a), Len(os))

\* What the row of the placement in progress locks.
TakerLock(u, a) ==
  IF phase = "MATCH" /\ taker.user = u /\ SpendAsset(taker) = a
    THEN taker.locked ELSE 0

\* A wallet's locked balance backs the locks of all its user's orders, in all
\* markets that spend the asset, at every point of a matching loop: the fills
\* of one order never eat what another order reserved.
LocksBacked ==
  \A u \in Users, a \in Assets :
    OrderLocks(orders, u, a) + TakerLock(u, a) <= locked[u][a]

\* ... and there is nothing else in it: locked balance is what open limit
\* orders reserve (docs/DOMAIN_TERMS.md).  True where every quote total is
\* exact; market orders that round strand the difference.
LocksExact ==
  \A u \in Users, a \in Assets :
    OrderLocks(orders, u, a) + TakerLock(u, a) = locked[u][a]

\* No limit order has bought for a total that was rounded down: only a market
\* sell that takes part of a resting buy does that.
IsWhole(t) == t.quote * Scale[t.market].unit = Worth(t.price, t.amount, Scale[t.market])
NoRemainders ==
  \A t \in DOMAIN trades, i \in DOMAIN orders :
    trades[t].buyOrder = i /\ orders[i].type = "LIMIT" => IsWhole(trades[t])

\* An order that rests still locks enough to buy, or deliver, all that remains
\* of it at its own price, after any mix of exact and rounded fills; an order
\* that is closed locks nothing; and only limit orders rest.
CoversRest(o) ==
  IF o.side = "BUY"
    THEN o.locked * Scale[o.market].unit >= Worth(o.price, o.remaining, Scale[o.market])
    ELSE o.locked = o.remaining

OrderCovered(o) ==
  IF IsOpen(o) THEN o.type = "LIMIT" /\ o.remaining > 0 /\ o.locked > 0 /\ CoversRest(o)
               ELSE o.locked = 0

OrdersCovered == \A i \in DOMAIN orders : OrderCovered(orders[i])

\* The errors that say a balance is lower than the code itself reserved are
\* never raised: "Locked quote balance is lower than the buy fill amount",
\* "Market buy would exceed the requested quote spend", ...
NoInternalShortfall ==
  /\ answer \notin {"OVERSPEND", "FUNDS_SHORT"}
  /\ \A i \in DOMAIN orders : MayCancel(i) => CanRelease(orders[i])

-----------------------------------------------------------------------------
\* Money

\* All users' balances of asset a, given the available and locked balances.
UserTotal(av, lk, a) ==
  SumTo([i \in Nat |-> IF i \in DOMAIN Roster
                         THEN av[Roster[i]][a] + lk[Roster[i]][a] ELSE 0],
        Len(Roster))

\* Trading creates and destroys nothing: what users hold, available or locked,
\* plus the collected fees is what they started with, between any two fills.
Conservation ==
  \A a \in Assets :
    UserTotal(avail, locked, a) + feeWallet[a]
      = SumTo([i \in Nat |-> IF i \in DOMAIN Roster THEN Funds[Roster[i]][a] ELSE 0],
              Len(Roster))

\* A change of the fee settings never splits an order: all trades of the
\* placement in progress charge by one and the same pair of rates, although
\* the row they come from is not locked and may change between two fills.
OneRatePerPlacement ==
  phase = "MATCH" =>
    \E b, s \in FeeRates : \A t \in DOMAIN trades :
      Len(orders) + 1 \in {trades[t].buyOrder, trades[t].sellOrder} =>
        /\ trades[t].buyerFee = Fee(trades[t].amount, b)
        /\ trades[t].sellerFee = Fee(trades[t].quote, s)

\* The order row a trade refers to; the taker's comes after the last.
RowOf(i) == IF i \in DOMAIN orders THEN orders[i] ELSE taker

\* Whatever side it was on, no limit order trades at a price worse than its
\* own: a buyer pays at most its worth at the limit, a seller gets at least
\* that worth rounded down, and the trade stays inside one market.
NoTradeThroughLimit ==
  \A t \in DOMAIN trades :
    LET b == RowOf(trades[t].buyOrder)
        s == RowOf(trades[t].sellOrder)
        sc == Scale[trades[t].market]
    IN  /\ b.market = s.market /\ b.user # s.user
        /\ b.type = "LIMIT" =>
             trades[t].quote * sc.unit <= Worth(b.price, trades[t].amount, sc)
        /\ s.type = "LIMIT" =>
             trades[t].quote >= QuoteFloor(s.price, trades[t].amount, sc)

\* The base and the quote that the trades of order i add up to.
TradedBase(i) ==
  SumTo([t \in Nat |-> IF t \in DOMAIN trades
                         THEN IF i \in {trades[t].buyOrder, trades[t].sellOrder}
                                THEN trades[t].amount ELSE 0
                         ELSE 0], Len(trades))
TradedQuote(i) ==
  SumTo([t \in Nat |-> IF t \in DOMAIN trades
                         THEN IF i \in {trades[t].buyOrder, trades[t].sellOrder}
                                THEN trades[t].quote ELSE 0
                         ELSE 0], Len(trades))

Accounted(o, i) ==
  /\ o.filled = TradedBase(i)
  /\ o.type = "LIMIT" \/ o.side = "SELL" => o.filled + o.remaining = o.amount
  /\ o.type = "MARKET" => o.spent = TradedQuote(i)
  /\ o.type = "MARKET" /\ o.side = "BUY" => o.spent <= o.requested

\* An order row says what its trade rows say: it filled what they exchanged,
\* it never fills more than was asked for, and a market buy spends no more
\* than it was allowed to.
FillsAccounted ==
  /\ \A i \in DOMAIN orders : Accounted(orders[i], i)
  /\ phase = "MATCH" => Accounted(taker, Len(orders) + 1)

-----------------------------------------------------------------------------
\* Matching

\* The placement in progress has traded with resting order i.
Hit(i) ==
  \E t \in DOMAIN trades :
    {trades[t].buyOrder, trades[t].sellOrder} = {i, Len(orders) + 1}

Better(i, j) ==
  \/ orders[i].price = orders[j].price /\ i < j
  \/ taker.side = "BUY" /\ orders[i].price < orders[j].price
  \/ taker.side = "SELL" /\ orders[i].price > orders[j].price

InPriority ==
  \A i, j \in rows :
    /\ Better(i, j)
    /\ Hit(j)
    /\ orders[i].user # taker.user
    => orders[i].remaining = 0

\* Price-time priority (docs/BUSINESS_RULES.md): limit takers and market sells
\* never trade with an order while a better or older one of another user still
\* has something to give.
PriceTimePriority ==
  phase = "MATCH" /\ ~BuyerPaysAvailable => InPriority

\* While no account is frozen, no placement leaves a buy and a sell of two
\* different users open at prices that would trade: neither the user's own
\* orders in between nor an order that fails half way ends a loop too early.
BookNotCrossed ==
  phase # "MATCH" =>
    \A i, j \in DOMAIN orders :
      /\ IsOpen(orders[i]) /\ orders[i].side = "BUY"
      /\ IsOpen(orders[j]) /\ orders[j].side = "SELL"
      /\ orders[i].market = orders[j].market
      /\ orders[i].user # orders[j].user
      => orders[i].price < orders[j].price

\* The order rows other transactions see.
Committed == IF phase = "MATCH" THEN saved.orders ELSE orders

Advances(o, p) ==
  IF IsOpen(o)
    THEN /\ p.filled >= o.filled /\ p.remaining <= o.remaining /\ p.locked <= o.locked
         /\ [p EXCEPT !.filled = o.filled, !.remaining = o.remaining,
                      !.locked = o.locked, !.status = o.status] = o
    ELSE p = o

\* What other transactions see of an order only moves forward: rows are never
\* deleted, a closed order never changes again, an open one only fills, and a
\* placement that fails half way leaves no trace in the orders it had matched.
OrdersOnlyAdvance ==
  [][\A i \in DOMAIN Committed :
       /\ i \in DOMAIN Committed'
       /\ Advances(Committed[i], Committed'[i])]_vars

\* A resting order trades only while its user is ACTIVE: the matching query
\* locks the user's row too, so a freeze cannot slip in before the fill.
MakersStayActive ==
  [][\A i \in DOMAIN orders :
       Len(trades') > Len(trades) /\ orders'[i] # orders[i]
         => userStatus[orders[i].user] = "ACTIVE"]_vars

\* Every placement is answered: the matching loop visits each resting order at
\* most once and no combination of orders leaves it without a step to take.
PlacementsAnswered == phase # "IDLE" ~> phase = "IDLE"

-----------------------------------------------------------------------------
\* What the documents say and the code does not do

\* docs/BUSINESS_RULES.md: partial fills are allowed for limit and market
\* orders.  The matching loop refuses the whole order when the quote of one
\* fill, or the lock that would remain, is not a whole number of minimal units.
PartialFillsAllowed == answer # "INEXACT_TOTAL"

\* docs/BUSINESS_RULES.md: a FROZEN user cannot place orders.  The status is
\* read without a lock at the start of the transaction.
FrozenUsersPlaceNothing ==
  [][phase = "CHECKED" /\ phase' = "MATCH" => userStatus[taker.user] = "ACTIVE"]_vars

=============================================================================
