------------------------- MODULE TradingBookProofs --------------------------
(***************************************************************************)
(* What trading promises of the book, for any users, markets, numbers and  *)
(* fee rates: locks are exact until a remainder strands, order rows only   *)
(* advance, resting orders trade in price-time priority and only while     *)
(* their users are active, a placement charges by one pair of rates, the   *)
(* order rows add up to the trade rows, no placement leaves the book       *)
(* crossed, and a placement does what its preview foretold.                *)
(***************************************************************************)
EXTENDS TradingProofs, Preview, FiniteSetTheorems

-----------------------------------------------------------------------------
\* When the locks are all there is

\* Order i never bought for a total the trades ts rounded down.
SoldWhole(i, ts) == \A t \in 1..Len(ts) : ts[t].buyOrder = i => IsWhole(ts[t])

AllWhole(os, ts) == \A i \in 1..Len(os) : os[i].type = "LIMIT" => SoldWhole(i, ts)

ExactlyCovers(o) ==
  o.locked * Scale[o.market].unit = Worth(o.price, o.remaining, Scale[o.market])

\* What rests of a buy that was never sold into for a rounded total costs what
\* it locks, to the unit.
RowsExact(os, ts) ==
  \A i \in 1..Len(os) :
    IsOpen(os[i]) /\ os[i].side = "BUY" /\ SoldWhole(i, ts) => ExactlyCovers(os[i])

IsLocked(lk, os) == \A u \in Users, a \in Assets : OrderLocks(os, u, a) = lk[u][a]

TradesFloored(ts) ==
  \A t \in 1..Len(ts) : ts[t].quote = QuoteFloor(ts[t].price, ts[t].amount, Scale[ts[t].market])

\* The last conjunct is for a rollback, which brings the saved tables back.
ExactInv ==
  /\ LockInv
  /\ TradesFloored(trades)
  /\ RowsExact(orders, trades)
  /\ AllWhole(orders, trades) => LocksExact
  /\ phase # "IDLE" /\ taker.type = "LIMIT" /\ taker.side = "BUY" => ExactlyCovers(taker)
  /\ phase = "MATCH" =>
       /\ TradesFloored(saved.trades)
       /\ RowsExact(saved.orders, saved.trades)
       /\ AllWhole(saved.orders, saved.trades) => IsLocked(saved.locked, saved.orders)

\* A lock that is exact before a fill for a whole total is exact after it: all
\* the fill does not pay stays locked, and nothing more.
LEMMA ExactRest ==
  ASSUME NEW o \in OrderRec, NEW f \in 0..o.remaining, NEW l, CoversRest(o), LockFits(o, f, l),
         o.side = "BUY" =>
           /\ ExactlyCovers(o)
           /\ Pays(o, f) * Scale[o.market].unit = Worth(o.price, f, Scale[o.market])
  PROVE  /\ l = o.locked - Pays(o, f)
         /\ o.side = "BUY" =>
              l * Scale[o.market].unit = Worth(o.price, o.remaining - f, Scale[o.market])
<1> DEFINE sc == Scale[o.market]
           unit == sc.unit
           room == o.locked - Pays(o, f)
           wr == Worth(o.price, o.remaining, sc)
           wf == Worth(o.price, f, sc)
           wl == Worth(o.price, o.remaining - f, sc)
           q == Pays(o, f)
<1>1. /\ o.market \in Markets /\ o.price \in Nat /\ o.remaining \in Nat /\ o.locked \in Nat
  BY DEF OrderRec
<1>2. sc \in ScaleRec /\ f \in Nat
  BY <1>1, NumbersAssumption
<1>3. unit \in Nat \ {0}
  BY <1>2 DEF ScaleRec
<1>4. q \in 0..o.locked
  BY RowPays
<1>5. l \in 0..room
  BY DEF LockFits
<1>6. CASE o.side = "BUY"
  <2>1. /\ o.locked * unit = wr /\ q * unit = wf /\ l * unit >= wl
    BY <1>6 DEF ExactlyCovers, LockFits
  <2>2. wl \in Nat /\ wr = wf + wl /\ wf \in Nat
    <3>1. wl \in Nat /\ wr = wf + wl
      BY <1>1, <1>2, WorthRest, Zenon
    <3>2. wf \in Nat
      BY <1>1, <1>2, WorthNat
    <3> QED BY <3>1, <3>2
  <2> HIDE DEF unit, wr, wf, wl, q, sc
  <2>3. q \in Nat /\ o.locked \in Nat /\ q <= o.locked /\ l \in Nat /\ l <= o.locked - q
    BY <1>1, <1>4, <1>5 DEF q
  <2>4. (o.locked - q) * unit = o.locked * unit - q * unit
    BY <1>3, <2>3, SMT
  <2>5. (o.locked - q) * unit = wl
    BY <2>1, <2>2, <2>4
  <2>6. ASSUME l + 1 <= o.locked - q PROVE FALSE
    <3>1. (l + 1) * unit <= (o.locked - q) * unit
      BY <1>3, <2>3, <2>6, Monotone
    <3>2. (l + 1) * unit = l * unit + unit /\ l * unit \in Nat
      BY <1>3, <2>3, SMT
    <3> QED BY <1>3, <2>1, <2>2, <2>5, <3>1, <3>2
  <2>7. l = o.locked - q
    BY <2>3, <2>6
  <2> QED BY <2>5, <2>7 DEF q, unit, wl, sc
<1>7. CASE o.side # "BUY"
  <2>1. l = o.remaining - f /\ o.locked - q = o.remaining - f
    BY <1>7, RowPays DEF LockFits
  <2> QED BY <1>7, <2>1
<1> QED BY <1>6, <1>7

\* The trades after a settlement.
LEMMA SettledTrade ==
  ASSUME TypeOK, TypeOK', NEW d, NEW makerLock, NEW takerLock, Settle(d, makerLock, takerLock)
  PROVE  LET n == Len(trades)
             row == trades'[n + 1]
         IN  /\ n \in Nat /\ Len(trades') = n + 1
             /\ \A t \in 1..n : trades'[t] = trades[t]
             /\ row.market = taker.market /\ row.price = orders[d.maker].price
             /\ row.amount = d.fill /\ row.quote = d.quote
             /\ row.buyOrder = IF taker.side = "BUY" THEN Len(orders) + 1 ELSE d.maker
<1> DEFINE new == [market |-> taker.market,
                   buyOrder |-> IF taker.side = "BUY" THEN Len(orders) + 1 ELSE d.maker,
                   sellOrder |-> IF taker.side = "BUY" THEN d.maker ELSE Len(orders) + 1,
                   price |-> orders[d.maker].price, amount |-> d.fill, quote |-> d.quote,
                   buyerFee |-> d.buyerFee, sellerFee |-> d.sellerFee]
<1>1. trades' = Append(trades, new)
  BY DEF Settle
<1>2. trades \in Seq(TradeRec)
  BY DEF TypeOK, TheTables, TablesRec
<1> DEFINE Rows == TradeRec \cup {new}
<1>3. Len(trades) \in Nat /\ \A t \in 1..Len(trades) : trades[t] \in Rows
  BY <1>2, LenProperties, ElementOfSeq
<1>4. trades \in Seq(Rows) /\ new \in Rows
  BY <1>2, <1>3, LenProperties
<1> HIDE DEF Rows
<1>5. /\ Len(trades') = Len(trades) + 1
      /\ \A t \in 1..Len(trades) : trades'[t] = trades[t]
      /\ trades'[Len(trades) + 1] = new
  <2> HIDE DEF new
  <2> QED BY <1>1, <1>4, AppendProperties
<1> QED BY <1>3, <1>5

\* A settlement for exact totals on the taker's side keeps every lock that was
\* exact exact; only the resting buy it may have rounded is counted out.
LEMMA FillExact ==
  ASSUME ExactInv, LockInv', Looping, ~MeetsOwnOrder, NEW makerLock, NEW takerLock,
         Settle(Deal(NextMaker), makerLock, takerLock),
         LockFits(orders[Deal(NextMaker).maker], Deal(NextMaker).fill, makerLock),
         taker.type = "LIMIT" =>
           /\ LockFits(taker, Deal(NextMaker).fill, takerLock)
           /\ Deal(NextMaker).fill \in 0..taker.remaining
           /\ taker.side = "BUY" =>
                Pays(taker, Deal(NextMaker).fill) * Scale[taker.market].unit
                  = Worth(taker.price, Deal(NextMaker).fill, Scale[taker.market]),
         taker.type = "MARKET" => takerLock = 0
  PROVE  ExactInv'
<1> DEFINE d == Deal(NextMaker)
           maker == orders[d.maker]
           row == AfterFill(maker, d.fill, makerLock)
           n == Len(trades)
<1>1. LockInv /\ TypeOK /\ TypeOK' /\ phase = "MATCH"
  BY DEF ExactInv, LockInv, TypeInv, Looping
<1>2. DealPays(d) /\ Funded(d)
  BY <1>1, DealPaysLocks, FillsAreFunded
<1>3. maker.user # taker.user
  BY DEF MeetsOwnOrder, Deal
<1>4. /\ Settle(d, makerLock, takerLock) /\ LockFits(maker, d.fill, makerLock)
      /\ taker.type = "LIMIT" =>
           /\ LockFits(taker, d.fill, takerLock) /\ d.fill \in 0..taker.remaining
           /\ taker.side = "BUY" =>
                Pays(taker, d.fill) * Scale[taker.market].unit
                  = Worth(taker.price, d.fill, Scale[taker.market])
  OBVIOUS
<1> HIDE DEF d
<1>5. /\ DealSound(d) /\ RowSound(maker) /\ IsOpen(maker)
      /\ maker.market = taker.market /\ maker.side = Opposite(taker.side)
      /\ maker \in OrderRec /\ d.quote = QuoteFloor(maker.price, d.fill, Scale[taker.market])
  BY <1>2 DEF DealPays
<1>6. /\ taker \in OrderRec /\ Base[taker.market] # Quote[taker.market]
  BY <1>1, RowTypes
<1>7. /\ taker.side \in Side /\ taker.locked \in Nat /\ taker.type \in {"LIMIT", "MARKET"}
      /\ maker.locked \in Nat /\ maker.remaining \in Nat /\ maker.type = "LIMIT"
      /\ CoversRest(maker) /\ d.fill \in 0..maker.remaining
  BY <1>5, <1>6 DEF OrderRec, RowSound, OrderCovered, DealSound
<1>8. Pays(maker, d.fill) \in 0..maker.locked /\ makerLock \in Nat
  <2>1. Pays(maker, d.fill) \in 0..maker.locked
    BY <1>5, <1>7, RowPays
  <2> QED BY <1>4, <1>7, <2>1 DEF LockFits
<1>9. /\ orders \in Seq(OrderRec) /\ d.maker \in 1..Len(orders) /\ Len(orders) \in Nat
      /\ DOMAIN orders = 1..Len(orders)
  <2>1. orders \in Seq(OrderRec) /\ d.maker \in DOMAIN orders
    BY <1>1, <1>5 DEF TypeOK, TheTables, TablesRec, DealSound
  <2> QED BY <2>1, LenProperties
<1>10. /\ row \in OrderRec /\ row.locked = makerLock /\ row.remaining = maker.remaining - d.fill
       /\ row.user = maker.user /\ row.market = maker.market /\ row.side = maker.side
       /\ row.type = maker.type /\ row.price = maker.price
  <2>1. /\ row \in OrderRec /\ row.locked = makerLock
        /\ row.user = maker.user /\ row.market = maker.market /\ row.side = maker.side
    BY <1>4, <1>5, <1>7, <1>8, AfterFillSound
  <2>2. row.type = maker.type /\ row.price = maker.price /\ row.remaining = maker.remaining - d.fill
    BY <1>5 DEF AfterFill, OrderRec
  <2> QED BY <2>1, <2>2
<1>11. orders' = [orders EXCEPT ![d.maker] = row]
  BY <1>4 DEF Settle
<1> HIDE DEF row
<1>12. /\ Len(orders') = Len(orders)
       /\ \A i \in 1..Len(orders) : orders'[i] = IF i = d.maker THEN row ELSE orders[i]
  BY <1>9, <1>10, <1>11, ExceptSeq
<1>13. phase' = "MATCH" /\ saved' = saved
  BY <1>1, <1>4 DEF Settle
<1>14. /\ taker'.remaining = (IF BuyerPaysAvailable THEN taker.remaining
                                                    ELSE taker.remaining - d.fill)
       /\ taker'.locked = takerLock /\ taker'.user = taker.user /\ taker'.market = taker.market
       /\ taker'.side = taker.side /\ taker'.type = taker.type /\ taker'.price = taker.price
  BY <1>4, <1>6, TakerAfterFill
<1>15. /\ n \in Nat /\ Len(trades') = n + 1
       /\ \A t \in 1..n : trades'[t] = trades[t]
       /\ trades'[n + 1].market = taker.market /\ trades'[n + 1].price = maker.price
       /\ trades'[n + 1].amount = d.fill /\ trades'[n + 1].quote = d.quote
       /\ trades'[n + 1].buyOrder = IF taker.side = "BUY" THEN Len(orders) + 1 ELSE d.maker
  BY <1>1, <1>4, SettledTrade
<1> HIDE DEF n
<1>16. TradesFloored(trades')
  <2> SUFFICES ASSUME NEW t \in 1..Len(trades')
               PROVE  trades'[t].quote
                        = QuoteFloor(trades'[t].price, trades'[t].amount, Scale[trades'[t].market])
    BY DEF TradesFloored
  <2>1. CASE t \in 1..n
    BY <1>15, <2>1 DEF ExactInv, TradesFloored, n
  <2>2. CASE t = n + 1
    BY <1>5, <1>15, <2>2
  <2> QED BY <1>15, <2>1, <2>2
<1>17. \A i \in 1..Len(orders) : SoldWhole(i, trades') => SoldWhole(i, trades)
  <2>1. \A t \in 1..n : t \in 1..(n + 1)
    BY <1>15
  <2> QED BY <1>15, <2>1 DEF SoldWhole, n
<1>18. SoldWhole(d.maker, trades') =>
         /\ makerLock = maker.locked - Pays(maker, d.fill)
         /\ maker.side = "BUY" => ExactlyCovers(row)
  <2> SUFFICES ASSUME SoldWhole(d.maker, trades')
               PROVE  /\ makerLock = maker.locked - Pays(maker, d.fill)
                      /\ maker.side = "BUY" => ExactlyCovers(row)
    OBVIOUS
  <2>1. maker.side = "BUY" =>
          /\ ExactlyCovers(maker)
          /\ Pays(maker, d.fill) * Scale[maker.market].unit
               = Worth(maker.price, d.fill, Scale[maker.market])
    <3> SUFFICES ASSUME maker.side = "BUY"
                 PROVE  /\ ExactlyCovers(maker)
                        /\ Pays(maker, d.fill) * Scale[maker.market].unit
                             = Worth(maker.price, d.fill, Scale[maker.market])
      OBVIOUS
    <3>1. ExactlyCovers(maker)
      BY <1>5, <1>9, <1>17 DEF ExactInv, RowsExact
    <3>2. taker.side # "BUY"
      BY <1>5, <1>7 DEF Opposite
    <3>3. IsWhole(trades'[n + 1])
      <4>1. n + 1 \in 1..Len(trades') /\ trades'[n + 1].buyOrder = d.maker
        BY <1>15, <3>2
      <4> QED BY <4>1 DEF SoldWhole
    <3>4. Pays(maker, d.fill) = d.quote
      BY <1>5 DEF Pays
    <3> QED BY <1>5, <1>15, <3>1, <3>3, <3>4 DEF IsWhole
  <2>2. /\ makerLock = maker.locked - Pays(maker, d.fill)
        /\ maker.side = "BUY" =>
             makerLock * Scale[maker.market].unit
               = Worth(maker.price, maker.remaining - d.fill, Scale[maker.market])
    BY <1>4, <1>5, <1>7, <2>1, ExactRest
  <2> QED BY <1>10, <2>2 DEF ExactlyCovers
<1>19. RowsExact(orders', trades')
  <2> SUFFICES ASSUME NEW i \in 1..Len(orders), IsOpen(orders'[i]), orders'[i].side = "BUY",
                      SoldWhole(i, trades')
               PROVE  ExactlyCovers(orders'[i])
    BY <1>12 DEF RowsExact
  <2>1. CASE i = d.maker
    BY <1>10, <1>12, <1>18, <2>1
  <2>2. CASE i # d.maker
    BY <1>12, <1>17, <2>2 DEF ExactInv, RowsExact
  <2> QED BY <2>1, <2>2
<1>20. taker.type = "LIMIT" =>
         /\ takerLock = taker.locked - Pays(taker, d.fill)
         /\ Pays(taker, d.fill) \in 0..taker.locked
         /\ taker.side = "BUY" => ExactlyCovers(taker')
  <2> SUFFICES ASSUME taker.type = "LIMIT"
               PROVE  /\ takerLock = taker.locked - Pays(taker, d.fill)
                      /\ Pays(taker, d.fill) \in 0..taker.locked
                      /\ taker.side = "BUY" => ExactlyCovers(taker')
    OBVIOUS
  <2>1. CoversRest(taker) /\ ~BuyerPaysAvailable
    BY <1>1 DEF LockInv, TakerSound, LimitSound, BuyerPaysAvailable
  <2>2. taker.side = "BUY" => ExactlyCovers(taker)
    BY <1>1 DEF ExactInv
  <2>3. /\ takerLock = taker.locked - Pays(taker, d.fill)
        /\ taker.side = "BUY" =>
             takerLock * Scale[taker.market].unit
               = Worth(taker.price, taker.remaining - d.fill, Scale[taker.market])
    BY <1>4, <1>6, <2>1, <2>2, ExactRest
  <2>4. Pays(taker, d.fill) \in 0..taker.locked
    BY <1>4, <1>6, <2>1, RowPays
  <2> QED BY <1>14, <2>1, <2>3, <2>4 DEF ExactlyCovers
<1>21. ASSUME AllWhole(orders', trades'), NEW u \in Users, NEW a \in Assets
       PROVE  OrderLocks(orders', u, a) + TakerLock(u, a)' = locked'[u][a]
  <2> DEFINE mine == maker.user = u /\ SpendAsset(maker) = a
             his == taker.user = u /\ SpendAsset(taker) = a
             old == OrderLocks(orders, u, a)
  <2>1. AllWhole(orders, trades)
    <3>1. \A i \in 1..Len(orders) : orders'[i].type = orders[i].type
      BY <1>10, <1>12
    <3> QED BY <1>12, <1>17, <1>21, <3>1 DEF AllWhole
  <2>2. OrderLocks(orders', u, a) = old - LockOf(maker, u, a) + LockOf(row, u, a)
    <3>1. Replaces(orders, orders', d.maker, row)
      BY <1>9, <1>10, <1>11 DEF Replaces
    <3> QED BY <3>1, OrderLocksUpdate
  <2>3. old \in Nat
    BY <1>9, OrderLocksNat
  <2>4. old + TakerLock(u, a) = locked[u][a]
    BY <2>1 DEF ExactInv, LocksExact
  <2>5. LockOf(maker, u, a) = (IF mine THEN maker.locked ELSE 0)
        /\ LockOf(row, u, a) = (IF mine THEN makerLock ELSE 0)
    BY <1>10 DEF LockOf, SpendAsset
  <2>6. TakerLock(u, a) = (IF his THEN taker.locked ELSE 0)
        /\ TakerLock(u, a)' = (IF his THEN takerLock ELSE 0)
    BY <1>1, <1>13, <1>14 DEF TakerLock, SpendAsset
  <2>7. LockedMoved(d, u, a) =
          IF mine THEN -Pays(maker, d.fill)
          ELSE IF his /\ taker.type = "LIMIT" THEN -Pays(taker, d.fill) ELSE 0
    BY <1>2, <1>3, <1>6, DealTakes
  <2>8. locked'[u][a] = locked[u][a] + LockedMoved(d, u, a) /\ locked[u][a] \in Nat
    <3>1. locked \in Balances
      BY <1>1 DEF TypeOK, TheTables, TablesRec
    <3> QED BY <1>1, <1>2, <1>4, <1>5, <3>1, SettleBalances DEF Balances
  <2>9. makerLock = maker.locked - Pays(maker, d.fill)
    <3>1. orders'[d.maker].type = "LIMIT" /\ d.maker \in 1..Len(orders')
      BY <1>7, <1>9, <1>10, <1>12
    <3> QED BY <1>18, <1>21, <3>1 DEF AllWhole
  <2>10. taker.type = "MARKET" => taker.locked = 0 /\ takerLock = 0
    BY <1>1 DEF LockInv, TypeInv, MarketLocksNothing
  <2>11. ~(mine /\ his)
    BY <1>3
  <2> HIDE DEF old, mine, his
  <2> QED BY <1>7, <1>8, <1>20, <2>2, <2>3, <2>4, <2>5, <2>6, <2>7, <2>8, <2>9, <2>10, <2>11
<1>22. AllWhole(orders', trades') => LocksExact'
  BY <1>21 DEF LocksExact
<1> QED BY <1>1, <1>13, <1>14, <1>16, <1>19, <1>20, <1>22 DEF ExactInv, ExactlyCovers

\* calculateQuoteTotalMinimalUnits throws unless what a limit taker pays is whole.
LEMMA LimitFillExact ==
  ASSUME ExactInv, LockInv', LimitFill
  PROVE  ExactInv'
<1> DEFINE d == Deal(NextMaker)
           maker == orders[d.maker]
           makerLock == LockFor(maker, maker.remaining - d.fill)
           takerLock == LockFor(taker, taker.remaining - d.fill)
           sc == Scale[taker.market]
<1>1. /\ Looping /\ ~MeetsOwnOrder /\ taker.type = "LIMIT" /\ phase = "MATCH" /\ TypeOK /\ LockInv
      /\ Fault(d) = "NONE" /\ Settle(d, makerLock, takerLock)
  BY DEF LimitFill, Looping, ExactInv, LockInv, TypeInv
<1>2. DealPays(d)
  BY <1>1, DealPaysLocks
<1> HIDE DEF d
<1>3. LocksAreExact(d) /\ DealIsExact(d)
  BY <1>1 DEF Fault
<1>4. /\ taker \in OrderRec /\ maker \in OrderRec /\ RowSound(maker) /\ IsOpen(maker)
      /\ d.fill \in 0..maker.remaining /\ d.fill <= taker.remaining /\ sc \in ScaleRec
  BY <1>1, <1>2, RowTypes DEF DealPays, DealSound, BuyerPaysAvailable
<1>5. d.fill \in 0..taker.remaining /\ d.fill \in Nat /\ taker.price \in Nat
  <2>1. maker.remaining \in Nat /\ taker.remaining \in Nat /\ taker.price \in Nat
    BY <1>4 DEF OrderRec
  <2> QED BY <1>4, <2>1
<1>6. CoversRest(maker) /\ CoversRest(taker)
  BY <1>1, <1>4 DEF RowSound, OrderCovered, LockInv, TakerSound, LimitSound
<1>7. LockIsExact(maker, maker.remaining - d.fill) /\ LockIsExact(taker, taker.remaining - d.fill)
  BY <1>3 DEF LocksAreExact
<1>8. LockFits(maker, d.fill, makerLock) /\ LockFits(taker, d.fill, takerLock)
  BY <1>4, <1>5, <1>6, <1>7, ExactLock
<1>9. taker.side = "BUY" => Pays(taker, d.fill) * sc.unit = Worth(taker.price, d.fill, sc)
  <2>1. SUFFICES ASSUME taker.side = "BUY"
                 PROVE  Pays(taker, d.fill) * sc.unit = Worth(taker.price, d.fill, sc)
    OBVIOUS
  <2>2. QuoteIsExact(taker.price, d.fill, sc)
    BY <1>3, <2>1 DEF DealIsExact
  <2>3. Pays(taker, d.fill) = QuoteFloor(taker.price, d.fill, sc)
    BY <2>1 DEF Pays
  <2> HIDE DEF sc
  <2> QED BY <1>4, <1>5, <2>2, <2>3, QuoteExact
<1> HIDE DEF makerLock, takerLock
<1>10. taker.type # "MARKET"
  BY <1>1
<1> QED BY <1>1, <1>5, <1>8, <1>9, <1>10, FillExact DEF d

LEMMA MarketFillExact ==
  ASSUME ExactInv, LockInv', MarketFill
  PROVE  ExactInv'
<1> DEFINE d == Deal(NextMaker)
           maker == orders[d.maker]
           makerLock == LockAfterMarketFill(maker, d)
<1>1. /\ Looping /\ ~MeetsOwnOrder /\ taker.type = "MARKET" /\ LockInv
      /\ Settle(d, makerLock, 0)
  BY DEF MarketFill, Looping, ExactInv
<1>2. DealPays(d)
  BY <1>1, DealPaysLocks
<1> HIDE DEF d
<1>3. /\ maker \in OrderRec /\ CoversRest(maker) /\ d.fill \in 0..maker.remaining
      /\ d.quote = QuoteFloor(maker.price, d.fill, Scale[maker.market])
  BY <1>2 DEF DealPays, DealSound, RowSound, OrderCovered
<1>4. LockFits(maker, d.fill, makerLock)
  BY <1>3, MarketLock
<1> HIDE DEF makerLock
<1>5. taker.type # "LIMIT"
  BY <1>1
<1> QED BY <1>1, <1>4, <1>5, FillExact DEF d

\* Outside the matching loop no row is in the making.
LEMMA TablesExact ==
  ASSUME TypeOK, phase # "MATCH"
  PROVE  LocksExact <=> IsLocked(locked, orders)
<1>1. ASSUME NEW u \in Users, NEW a \in Assets
      PROVE  OrderLocks(orders, u, a) + TakerLock(u, a) = OrderLocks(orders, u, a)
  <2>1. TakerLock(u, a) = 0
    BY DEF TakerLock
  <2>2. OrderLocks(orders, u, a) \in Nat
    BY OrderLocksNat DEF TypeOK, TheTables, TablesRec
  <2> QED BY <2>1, <2>2
<1> QED BY <1>1 DEF LocksExact, IsLocked

LEMMA RestExact ==
  ASSUME LockInv', phase' # "MATCH", TradesFloored(trades'), RowsExact(orders', trades'),
         AllWhole(orders', trades') => IsLocked(locked', orders'),
         phase' # "IDLE" /\ taker'.type = "LIMIT" /\ taker'.side = "BUY" => ExactlyCovers(taker')
  PROVE  ExactInv'
<1>1. TypeOK'
  BY DEF LockInv, TypeInv
<1>2. ASSUME IsLocked(locked', orders') PROVE LocksExact'
  <2> SUFFICES ASSUME NEW u \in Users, NEW a \in Assets
               PROVE  OrderLocks(orders', u, a) + TakerLock(u, a)' = locked'[u][a]
    BY DEF LocksExact
  <2>1. TakerLock(u, a)' = 0
    BY DEF TakerLock
  <2>2. orders' \in Seq(OrderRec)
    BY <1>1 DEF TypeOK, TheTables, TablesRec
  <2>3. OrderLocks(orders', u, a) \in Nat
    BY <2>2, OrderLocksNat
  <2> QED BY <1>2, <2>1, <2>3 DEF IsLocked
<1> QED BY <1>2 DEF ExactInv, ExactlyCovers

LEMMA InitExact == Init => ExactInv
<1> SUFFICES ASSUME Init PROVE ExactInv
  OBVIOUS
<1>1. LockInv /\ phase = "IDLE" /\ orders = <<>> /\ trades = <<>>
      /\ locked = [u \in Users |-> [a \in Assets |-> 0]]
  BY InitLocks DEF Init
<1>2. TypeOK /\ orders \in Seq(OrderRec)
  BY <1>1 DEF LockInv, TypeInv, TypeOK, TheTables, TablesRec
<1>3. LocksExact
  <2> SUFFICES ASSUME NEW u \in Users, NEW a \in Assets
               PROVE  OrderLocks(orders, u, a) = locked[u][a]
    BY <1>1, <1>2, TablesExact DEF IsLocked
  <2>1. OrderLocks(orders, u, a) \in Nat
    BY <1>2, OrderLocksNat
  <2>2. OrderLocks(orders, u, a) + TakerLock(u, a) <= locked[u][a]
    BY <1>1 DEF LockInv, LocksBacked
  <2>3. TakerLock(u, a) = 0 /\ locked[u][a] = 0
    BY <1>1 DEF TakerLock
  <2> QED BY <2>1, <2>2, <2>3
<1> QED BY <1>1, <1>3 DEF ExactInv, TradesFloored, RowsExact

LEMMA QuietExact ==
  ASSUME ExactInv, LockInv', UNCHANGED <<locked, orders, trades, phase, taker, saved>>
  PROVE  ExactInv'
BY DEF ExactInv, LocksExact, TakerLock, SpendAsset, ExactlyCovers

LEMMA RequestsExact ==
  ASSUME ExactInv, LockInv', Requests
  PROVE  ExactInv'
<1>1. PICK u \in Users, m \in Markets, s \in Side :
        \/ \E p \in Prices, a \in Amounts : ReceiveLimit(u, m, s, p, a)
        \/ \E q \in (IF s = "BUY" THEN Spends ELSE Amounts) : ReceiveMarket(u, m, s, q)
  BY DEF Requests
<1>2. /\ locked' = locked /\ orders' = orders /\ trades' = trades
      /\ phase = "IDLE" /\ phase' = "CHECKED"
  BY <1>1 DEF ReceiveLimit, ReceiveMarket, Receive, MayRequest, tables
<1>3. TypeOK
  BY DEF ExactInv, LockInv, TypeInv
<1>4. taker'.type = "LIMIT" /\ taker'.side = "BUY" => ExactlyCovers(taker')
  <2>1. CASE \E p \in Prices, a \in Amounts : ReceiveLimit(u, m, s, p, a)
    <3>1. PICK p \in Prices, a \in Amounts : ReceiveLimit(u, m, s, p, a)
      BY <2>1
    <3>2. taker' = LimitOrder(u, m, s, p, a) /\ QuoteIsExact(p, a, Scale[m])
      BY <3>1 DEF ReceiveLimit, Receive
    <3>3. p \in Nat \ {0} /\ a \in Nat \ {0} /\ Scale[m] \in ScaleRec
      BY NumbersAssumption
    <3>4. QuoteFloor(p, a, Scale[m]) * Scale[m].unit = Worth(p, a, Scale[m])
      BY <3>2, <3>3, QuoteExact
    <3> QED BY <3>2, <3>4 DEF LimitOrder, ExactlyCovers
  <2>2. CASE \E q \in (IF s = "BUY" THEN Spends ELSE Amounts) : ReceiveMarket(u, m, s, q)
    <3>1. taker'.type = "MARKET"
      BY <2>2 DEF ReceiveMarket, Receive, MarketOrder
    <3> QED BY <3>1
  <2> QED BY <1>1, <2>1, <2>2
<1>5. AllWhole(orders', trades') => IsLocked(locked', orders')
  BY <1>2, <1>3, TablesExact DEF ExactInv
<1> QED BY <1>2, <1>4, <1>5, RestExact DEF ExactInv

LEMMA PlaceExact ==
  ASSUME ExactInv, LockInv', Place
  PROVE  ExactInv'
<1> DEFINE u == taker.user
           c == SpendAsset(taker)
<1>1. TypeOK /\ phase = "CHECKED" /\ orders \in Seq(OrderRec) /\ locked \in Balances
  BY DEF ExactInv, LockInv, TypeInv, TypeOK, TheTables, TablesRec, Place
<1>2. taker \in OrderRec /\ Base[taker.market] \in Assets /\ Quote[taker.market] \in Assets
  BY <1>1, RowTypes
<1>3. u \in Users /\ c \in Assets /\ taker.locked \in Nat
  BY <1>2 DEF OrderRec, SpendAsset
<1>4. locked[u][c] \in Nat
  BY <1>1, <1>3 DEF Balances
<1>5. /\ locked' = Change(locked, u, c, taker.locked)
      /\ orders' = orders /\ trades' = trades /\ taker' = taker
      /\ saved' = TheTables /\ phase' = "MATCH"
  BY DEF Place
<1>6. \A v \in Users, b \in Assets :
        locked'[v][b] = IF v = u /\ b = c THEN locked[u][c] + taker.locked ELSE locked[v][b]
  <2>1. taker.locked \in Int /\ locked[u][c] + taker.locked >= 0
    BY <1>3, <1>4
  <2> HIDE DEF u, c
  <2> QED BY <1>1, <1>3, <1>5, <2>1, ChangeBalance
<1>7. AllWhole(orders, trades) => IsLocked(locked, orders)
  BY <1>1, TablesExact DEF ExactInv
<1>8. ASSUME AllWhole(orders, trades) PROVE LocksExact'
  <2> SUFFICES ASSUME NEW v \in Users, NEW b \in Assets
               PROVE  OrderLocks(orders, v, b) + TakerLock(v, b)' = locked'[v][b]
    BY <1>5 DEF LocksExact
  <2>1. TakerLock(v, b)' = IF v = u /\ b = c THEN taker.locked ELSE 0
    BY <1>5 DEF TakerLock, SpendAsset
  <2>2. OrderLocks(orders, v, b) = locked[v][b] /\ locked[v][b] \in Nat
    BY <1>1, <1>7, <1>8 DEF IsLocked, Balances
  <2> HIDE DEF u, c
  <2> QED BY <1>3, <1>6, <2>1, <2>2
<1> QED BY <1>1, <1>5, <1>7, <1>8 DEF ExactInv, TheTables, ExactlyCovers

LEMMA AbortExact ==
  ASSUME ExactInv, LockInv', phase = "MATCH", NEW reason, Abort(reason)
  PROVE  ExactInv'
<1>1. /\ locked' = saved.locked /\ orders' = saved.orders /\ trades' = saved.trades
      /\ phase' = "IDLE"
  BY DEF Abort, Done
<1> QED BY <1>1, RestExact DEF ExactInv

LEMMA RejectExact ==
  ASSUME ExactInv, LockInv', RejectFunds
  PROVE  ExactInv'
<1>1. /\ locked' = locked /\ orders' = orders /\ trades' = trades
      /\ phase = "CHECKED" /\ phase' = "IDLE" /\ TypeOK
  BY DEF RejectFunds, Done, tables, ExactInv, LockInv, TypeInv
<1>2. AllWhole(orders', trades') => IsLocked(locked', orders')
  BY <1>1, TablesExact DEF ExactInv
<1> QED BY <1>1, <1>2, RestExact DEF ExactInv

LEMMA CommitExact ==
  ASSUME ExactInv, LockInv', phase = "MATCH", NEW row \in OrderRec, Commit(row),
         row.user = taker.user, row.market = taker.market, row.side = taker.side,
         row.locked = taker.locked, row.price = taker.price, row.remaining = taker.remaining,
         IsOpen(row) => taker.type = "LIMIT"
  PROVE  ExactInv'
<1>1. /\ locked' = locked /\ orders' = Append(orders, row) /\ trades' = trades /\ phase' = "IDLE"
  BY DEF Commit, Done
<1>2. orders \in Seq(OrderRec)
  BY DEF ExactInv, LockInv, TypeInv, TypeOK, TheTables, TablesRec
<1>3. /\ Len(orders) \in Nat /\ Len(orders') = Len(orders) + 1
      /\ \A i \in 1..Len(orders) : orders'[i] = orders[i]
      /\ orders'[Len(orders) + 1] = row
  BY <1>1, <1>2, AppendProperties, LenProperties
<1>4. RowsExact(orders', trades')
  <2> SUFFICES ASSUME NEW i \in 1..Len(orders'), IsOpen(orders'[i]), orders'[i].side = "BUY",
                      SoldWhole(i, trades)
               PROVE  ExactlyCovers(orders'[i])
    BY <1>1 DEF RowsExact
  <2>1. CASE i \in 1..Len(orders)
    BY <1>3, <2>1 DEF ExactInv, RowsExact
  <2>2. CASE i = Len(orders) + 1
    <3>1. ExactlyCovers(taker)
      BY <1>3, <2>2 DEF ExactInv
    <3> QED BY <1>3, <2>2, <3>1 DEF ExactlyCovers
  <2> QED BY <1>3, <2>1, <2>2
<1>5. ASSUME AllWhole(orders', trades'), NEW u \in Users, NEW a \in Assets
      PROVE  OrderLocks(orders', u, a) = locked'[u][a]
  <2>1. AllWhole(orders, trades)
    <3>1. \A i \in 1..Len(orders) : i \in 1..Len(orders')
      BY <1>3
    <3> QED BY <1>1, <1>3, <1>5, <3>1 DEF AllWhole
  <2>2. OrderLocks(orders', u, a) = OrderLocks(orders, u, a) + LockOf(row, u, a)
    BY <1>1, <1>2, OrderLocksAppend
  <2>3. LockOf(row, u, a) = TakerLock(u, a)
    BY DEF LockOf, TakerLock, SpendAsset
  <2>4. OrderLocks(orders, u, a) + TakerLock(u, a) = locked[u][a]
    BY <2>1 DEF ExactInv, LocksExact
  <2> QED BY <1>1, <2>2, <2>3, <2>4
<1> QED BY <1>1, <1>4, <1>5, RestExact DEF ExactInv, IsLocked

LEMMA FinishExact ==
  ASSUME ExactInv, LockInv', FinishLimit \/ FinishMarket
  PROVE  ExactInv'
<1>1. TypeOK /\ phase = "MATCH"
  BY DEF ExactInv, LockInv, TypeInv, FinishLimit, FinishMarket, LoopEnded
<1>2. taker \in OrderRec /\ Scale[taker.market] \in ScaleRec
  BY <1>1, RowTypes
<1>3. taker.amount \in Nat /\ taker.filled \in Nat /\ taker.spent \in Nat
  BY <1>2 DEF OrderRec
<1>4. CASE FinishLimit
  <2> DEFINE status == IF taker.filled = 0 THEN "OPEN"
                       ELSE IF taker.remaining = 0 THEN "FILLED" ELSE "PARTIAL_FILLED"
             row == [taker EXCEPT !.status = status]
  <2>1. Commit(row) /\ taker.type = "LIMIT"
    BY <1>4 DEF FinishLimit
  <2>2. status \in OrderStatus
    BY DEF OrderStatus
  <2> HIDE DEF status
  <2>3. /\ row \in OrderRec
        /\ row.user = taker.user /\ row.market = taker.market /\ row.side = taker.side
        /\ row.locked = taker.locked /\ row.remaining = taker.remaining /\ row.price = taker.price
    BY <1>2, <2>2 DEF OrderRec
  <2> HIDE DEF row
  <2> QED BY <1>1, <2>1, <2>3, CommitExact
<1>5. CASE FinishMarket
  <2> DEFINE amount == IF taker.side = "BUY" THEN taker.filled ELSE taker.amount
             average == AveragePrice(taker.spent, taker.filled, Scale[taker.market])
             status == IF WantsMore(taker) THEN "PARTIAL_FILLED_CANCELLED" ELSE "FILLED"
             row == [taker EXCEPT !.amount = amount, !.averagePrice = average, !.status = status]
  <2>1. Commit(row)
    BY <1>5 DEF FinishMarket
  <2>2. amount \in Nat /\ average \in Nat /\ status \in {"PARTIAL_FILLED_CANCELLED", "FILLED"}
    BY <1>2, <1>3, AveragePriceNat
  <2> HIDE DEF amount, average, status
  <2>3. /\ row \in OrderRec /\ row.status = status
        /\ row.user = taker.user /\ row.market = taker.market /\ row.side = taker.side
        /\ row.locked = taker.locked /\ row.remaining = taker.remaining /\ row.price = taker.price
    BY <1>2, <2>2 DEF OrderRec, OrderStatus
  <2>4. ~IsOpen(row)
    <3> HIDE DEF row
    <3> QED BY <2>2, <2>3 DEF IsOpen
  <2> HIDE DEF row
  <2> QED BY <1>1, <2>1, <2>3, <2>4, CommitExact
<1> QED BY <1>4, <1>5

LEMMA CancelExact ==
  ASSUME ExactInv, LockInv', NEW i \in DOMAIN orders, Cancel(i)
  PROVE  ExactInv'
<1> DEFINE o == orders[i]
           row == [o EXCEPT !.status = "CANCELLED", !.locked = 0]
           u == o.user
           c == SpendAsset(o)
           x == o.locked
<1>1. TypeOK /\ phase # "MATCH" /\ orders \in Seq(OrderRec) /\ locked \in Balances
      /\ DOMAIN orders = 1..Len(orders)
  BY LenProperties DEF ExactInv, LockInv, TypeInv, TypeOK, TheTables, TablesRec, Cancel, MayCancel
<1>2. o \in OrderRec
  BY <1>1, ElementOfSeq
<1>3. u \in Users /\ c \in Assets /\ x \in Nat
  BY <1>2, TablesAssumption DEF OrderRec, SpendAsset
<1>4. /\ locked[u][c] >= x /\ locked' = Change(locked, u, c, -x)
      /\ orders' = [orders EXCEPT ![i] = row]
      /\ UNCHANGED <<request, trades>>
  BY DEF Cancel, CanRelease
<1>5. /\ row \in OrderRec /\ row.status = "CANCELLED" /\ row.locked = 0
      /\ row.user = u /\ SpendAsset(row) = c /\ row.type = o.type
  BY <1>2 DEF OrderRec, OrderStatus, SpendAsset
<1> HIDE DEF row
<1>6. ~IsOpen(row)
  BY <1>5 DEF IsOpen
<1>7. /\ Len(orders') = Len(orders)
      /\ \A j \in 1..Len(orders) : orders'[j] = IF j = i THEN row ELSE orders[j]
  BY <1>1, <1>4, <1>5, ExceptSeq
<1>8. RowsExact(orders', trades')
  BY <1>4, <1>6, <1>7 DEF ExactInv, RowsExact
<1>9. ASSUME AllWhole(orders', trades'), NEW v \in Users, NEW b \in Assets
      PROVE  OrderLocks(orders', v, b) = locked'[v][b]
  <2>1. AllWhole(orders, trades)
    BY <1>4, <1>5, <1>7, <1>9 DEF AllWhole
  <2>2. OrderLocks(orders', v, b)
          = OrderLocks(orders, v, b) - LockOf(o, v, b) + LockOf(row, v, b)
    <3>1. Replaces(orders, orders', i, row)
      BY <1>1, <1>4, <1>5 DEF Replaces
    <3> QED BY <3>1, OrderLocksUpdate
  <2>3. LockOf(o, v, b) = (IF v = u /\ b = c THEN x ELSE 0) /\ LockOf(row, v, b) = 0
    BY <1>5 DEF LockOf
  <2>4. OrderLocks(orders, v, b) = locked[v][b] /\ locked[v][b] \in Nat
    BY <1>1, <2>1, TablesExact DEF ExactInv, IsLocked, Balances
  <2>5. locked'[v][b] = IF v = u /\ b = c THEN locked[u][c] + (-x) ELSE locked[v][b]
    <3>1. locked[u][c] \in Nat /\ -x \in Int /\ locked[u][c] + (-x) >= 0
      BY <1>1, <1>3, <1>4 DEF Balances
    <3> HIDE DEF u, c, x
    <3> QED BY <1>1, <1>3, <1>4, <3>1, ChangeBalance
  <2> HIDE DEF u, c, x
  <2> QED BY <1>3, <2>2, <2>3, <2>4, <2>5
<1>10. phase' = phase /\ taker' = taker /\ trades' = trades
  BY <1>4 DEF request
<1>11. taker'.type = "LIMIT" /\ taker'.side = "BUY" /\ phase' # "IDLE" => ExactlyCovers(taker')
  BY <1>10 DEF ExactInv
<1>12. TradesFloored(trades')
  BY <1>10 DEF ExactInv
<1> QED BY <1>1, <1>8, <1>9, <1>10, <1>11, <1>12, RestExact DEF IsLocked

LEMMA NextExact == ExactInv /\ [Next]_vars => ExactInv'
<1> SUFFICES ASSUME ExactInv, [Next]_vars PROVE ExactInv'
  OBVIOUS
<1>1. LockInv'
  BY NextLocks DEF ExactInv
<1>2. CASE UNCHANGED vars
  BY <1>1, <1>2, QuietExact DEF vars, request, tables
<1>3. CASE Requests
  BY <1>1, <1>3, RequestsExact
<1>4. CASE Cancellations
  BY <1>1, <1>4, CancelExact DEF Cancellations
<1>5. CASE Administration
  <2>1. UNCHANGED <<tables, request>>
    BY <1>5 DEF Administration, SetUserStatus, SetMarketStatus, SetAssetStatus, UpdateFeeSettings
  <2> QED BY <1>1, <2>1, QuietExact DEF tables, request
<1>6. CASE Progress
  <2>1. CASE SkipOwn \/ MarketStop
    BY <1>1, <2>1, QuietExact DEF SkipOwn, MarketStop, tables
  <2>2. CASE MatchError \/ NoLiquidity
    BY <1>1, <2>2, AbortExact DEF MatchError, NoLiquidity, Looping, LoopEnded
  <2> QED BY <1>1, <1>6, <2>1, <2>2, PlaceExact, RejectExact, LimitFillExact, MarketFillExact,
             FinishExact DEF Progress
<1> QED BY <1>2, <1>3, <1>4, <1>5, <1>6 DEF Next

LEMMA ExactHolds == Spec => []ExactInv
BY InitExact, NextExact, PTL DEF Spec

\* Locked balances hold more than the open orders reserve only once a market
\* sell has taken a rounded total off a resting buy: no limit match, refund,
\* cancellation, market buy or rolled back placement ever strands a unit.
THEOREM OnlyRemaindersStrand == Spec => [](NoRemainders => LocksExact)
<1>1. ASSUME ExactInv, NoRemainders PROVE LocksExact
  <2>1. orders \in Seq(OrderRec) /\ trades \in Seq(TradeRec)
    BY <1>1 DEF ExactInv, LockInv, TypeInv, TypeOK, TheTables, TablesRec
  <2>2. DOMAIN orders = 1..Len(orders) /\ DOMAIN trades = 1..Len(trades)
    BY <2>1, LenProperties
  <2>3. AllWhole(orders, trades)
    BY <1>1, <2>2 DEF NoRemainders, AllWhole, SoldWhole
  <2> QED BY <1>1, <2>3 DEF ExactInv
<1> QED BY <1>1, ExactHolds, PTL

\* Where every market has at most as many price and base digits together as
\* its quote asset has digits no total has a remainder, and a user's locked
\* balance is always what his open limit orders reserve.
THEOREM LocksStayExact ==
  ASSUME \A m \in Markets, p \in Nat, a \in Nat : Worth(p, a, Scale[m]) % Scale[m].unit = 0
  PROVE  Spec => []LocksExact
<1>1. ASSUME ExactInv PROVE NoRemainders
  <2>1. trades \in Seq(TradeRec) /\ TradesFloored(trades)
    BY <1>1 DEF ExactInv, LockInv, TypeInv, TypeOK, TheTables, TablesRec
  <2>2. DOMAIN trades = 1..Len(trades)
    BY <2>1, LenProperties
  <2> SUFFICES ASSUME NEW t \in 1..Len(trades) PROVE IsWhole(trades[t])
    BY <2>2 DEF NoRemainders
  <2> DEFINE p == trades[t].price
             a == trades[t].amount
             sc == Scale[trades[t].market]
  <2>3. trades[t] \in TradeRec
    BY <2>1, ElementOfSeq
  <2>4. p \in Nat /\ a \in Nat /\ trades[t].market \in Markets
    BY <2>3 DEF TradeRec
  <2>5. sc \in ScaleRec /\ Worth(p, a, sc) % sc.unit = 0
    BY <2>4, NumbersAssumption
  <2>6. trades[t].quote = QuoteFloor(p, a, sc)
    BY <2>1 DEF TradesFloored
  <2> HIDE DEF p, a, sc
  <2>7. QuoteFloor(p, a, sc) * sc.unit = Worth(p, a, sc)
    <3> DEFINE w == Worth(p, a, sc)
               q == QuoteFloor(p, a, sc)
    <3>1. w \in Nat /\ sc.unit \in Nat \ {0} /\ q \in Nat
      BY <2>4, <2>5, WorthNat, QuoteFloorBounds DEF ScaleRec
    <3>2. CASE p = 0 \/ a = 0
      <4>1. p * a = 0 /\ sc.quote \in Nat
        BY <2>4, <2>5, <3>2, SMT DEF ScaleRec
      <4>2. w = 0 /\ q = 0
        BY <3>2, <4>1, SMT DEF Worth, QuoteFloor
      <4> QED BY <3>1, <4>2, SMT
    <3>3. CASE p # 0 /\ a # 0
      <4>1. q = w \div sc.unit
        BY <2>4, <3>3 DEF QuoteFloor
      <4> HIDE DEF w, q
      <4>2. /\ (w \div sc.unit) * sc.unit \in Nat
            /\ w = (w \div sc.unit) * sc.unit + (w % sc.unit)
        BY <3>1, Division
      <4> QED BY <2>5, <4>1, <4>2, SMT DEF w, q
    <3> QED BY <3>2, <3>3
  <2> QED BY <2>6, <2>7 DEF IsWhole, p, a, sc
<1>2. Spec => [](NoRemainders => LocksExact)
  BY OnlyRemaindersStrand
<1> QED BY <1>1, <1>2, ExactHolds, PTL

-----------------------------------------------------------------------------
\* A fill as the book sees it

\* The trade row of a fill of f base units for q with resting order i at rates r.
TradeRow(i, f, q, r) ==
  [market |-> taker.market,
   buyOrder |-> IF taker.side = "BUY" THEN Len(orders) + 1 ELSE i,
   sellOrder |-> IF taker.side = "BUY" THEN i ELSE Len(orders) + 1,
   price |-> orders[i].price, amount |-> f, quote |-> q,
   buyerFee |-> Fee(f, r.buyer), sellerFee |-> Fee(q, r.seller)]

\* The loop stands at resting order i ...
Meets(i) ==
  /\ phase = "MATCH" /\ WantsMore(taker)
  /\ i \in toVisit /\ i \in 1..Len(orders)
  /\ \A j \in toVisit \ {i} : Before(taker, i, j)
  /\ orders[i] \in OrderRec /\ IsOpen(orders[i]) /\ RowSound(orders[i])
  /\ orders[i].user # taker.user

\* ... exchanges f for q with it ...
Exchanges(i, f, q) ==
  /\ f \in 0..orders[i].remaining /\ q \in Nat
  /\ ~BuyerPaysAvailable => f = Lesser(taker.remaining, orders[i].remaining)
  /\ BuyerPaysAvailable => q <= QuoteLeft(taker)

\* ... and writes both rows and the trade.
Writes(i, f, q, l, r) ==
  /\ l \in 0..orders[i].locked
  /\ r = Rate(taker.market)
  /\ orders' = [orders EXCEPT ![i] = AfterFill(orders[i], f, l)]
  /\ trades' = Append(trades, TradeRow(i, f, q, r))
  /\ TradeRow(i, f, q, r) \in TradeRec
  /\ toVisit' = toVisit \ {i} /\ rates' = r
  /\ UNCHANGED <<switches, phase, rows, saved>>

TakerWrites(f, q) ==
  /\ taker'.filled = taker.filled + f
  /\ taker'.remaining = IF BuyerPaysAvailable THEN taker.remaining ELSE taker.remaining - f
  /\ taker'.spent = IF taker.type = "MARKET" THEN taker.spent + q ELSE taker.spent
  /\ taker'.user = taker.user /\ taker'.market = taker.market /\ taker'.side = taker.side
  /\ taker'.type = taker.type /\ taker'.price = taker.price
  /\ taker'.amount = taker.amount /\ taker'.requested = taker.requested

Fills(i, f, q, l, r) ==
  Meets(i) /\ Exchanges(i, f, q) /\ Writes(i, f, q, l, r) /\ TakerWrites(f, q)

\* What a settlement keeps locked is at most what was locked.
LEMMA FitsWithin ==
  ASSUME NEW o \in OrderRec, NEW f \in 0..o.remaining, NEW l, CoversRest(o), LockFits(o, f, l)
  PROVE  l \in 0..o.locked
<1>1. Pays(o, f) \in 0..o.locked /\ o.locked \in Nat
  BY RowPays DEF OrderRec
<1>2. l \in 0..(o.locked - Pays(o, f))
  BY DEF LockFits
<1> QED BY <1>1, <1>2

LEMMA SettleIsFill ==
  ASSUME LockInv, Looping, ~MeetsOwnOrder, NEW makerLock, NEW takerLock,
         Settle(Deal(NextMaker), makerLock, takerLock),
         LockFits(orders[NextMaker], Deal(NextMaker).fill, makerLock), TypeInv'
  PROVE  LET d == Deal(NextMaker)
         IN  Fills(NextMaker, d.fill, d.quote, makerLock, d.rate)
<1> DEFINE i == NextMaker
           d == Deal(i)
           maker == orders[i]
<1>1. TypeInv /\ TypeOK /\ phase = "MATCH" /\ toVisit # {} /\ toVisit \subseteq DOMAIN orders
      /\ orders \in Seq(OrderRec)
  BY DEF LockInv, TypeInv, TypeOK, Looping, TheTables, TablesRec
<1>2. DealPays(d) /\ ~Overspends(d) /\ d.maker = i
  BY <1>1, DealPaysLocks, FillsAreFunded, DealIsSound
<1>3. i \in toVisit /\ \A j \in toVisit \ {i} : Before(taker, i, j)
  BY <1>1, NextMakerFirst
<1>4. i \in 1..Len(orders) /\ DOMAIN orders = 1..Len(orders)
  BY <1>1, <1>3, LenProperties
<1>5. maker \in OrderRec /\ RowSound(maker) /\ IsOpen(maker) /\ DealSound(d)
  BY <1>2 DEF DealPays
<1>6. Meets(i)
  BY <1>1, <1>3, <1>4, <1>5 DEF Meets, MeetsOwnOrder, Looping
<1>7. d.fill \in 0..maker.remaining /\ d.quote \in Nat
  BY <1>2, <1>5 DEF DealSound
<1>8. ~BuyerPaysAvailable => d.fill = Lesser(taker.remaining, maker.remaining)
  BY DEF Deal, BuyerPaysAvailable
<1>9. BuyerPaysAvailable => d.quote <= QuoteLeft(taker)
  <2>1. taker \in OrderRec
    BY <1>1, RowTypes
  <2>2. QuoteLeft(taker) \in Int
    BY <2>1 DEF OrderRec, QuoteLeft
  <2> HIDE DEF d
  <2> QED BY <1>2, <1>7, <2>2 DEF Overspends
<1>10. Exchanges(i, d.fill, d.quote)
  BY <1>7, <1>8, <1>9 DEF Exchanges
<1>11. makerLock \in 0..maker.locked
  <2>1. CoversRest(maker)
    BY <1>5 DEF RowSound, OrderCovered
  <2> HIDE DEF d, i
  <2> QED BY <1>5, <1>7, <2>1, FitsWithin DEF d, i
<1>12. /\ d.buyerFee = Fee(d.fill, d.rate.buyer) /\ d.sellerFee = Fee(d.quote, d.rate.seller)
       /\ d.rate = Rate(taker.market)
  BY DEF Deal
<1>13. Settle(d, makerLock, takerLock)
  OBVIOUS
<1> HIDE DEF d, i
<1>14. /\ orders' = [orders EXCEPT ![i] = AfterFill(orders[i], d.fill, makerLock)]
       /\ trades' = Append(trades, TradeRow(i, d.fill, d.quote, d.rate))
       /\ toVisit' = toVisit \ {i} /\ rates' = d.rate
       /\ UNCHANGED <<switches, phase, rows, saved>>
  BY <1>2, <1>12, <1>13 DEF Settle, TradeRow
<1>15. TradeRow(i, d.fill, d.quote, d.rate) \in TradeRec
  <2>1. /\ taker.market \in Markets /\ maker.price \in Nat /\ maker.remaining \in Nat
        /\ Len(orders) + 1 \in Nat /\ i \in Nat
    BY <1>1, <1>4, <1>5, RowTypes DEF OrderRec
  <2>2. d.fill \in Nat
    BY <1>7, <2>1
  <2>3. Fee(d.fill, d.rate.buyer) \in Nat /\ Fee(d.quote, d.rate.seller) \in Nat
    <3>1. d.buyerFee \in 0..d.fill /\ d.sellerFee \in 0..d.quote
      BY <1>5 DEF DealSound
    <3> QED BY <1>7, <1>12, <2>2, <3>1
  <2> QED BY <1>7, <2>1, <2>2, <2>3 DEF TradeRow, TradeRec
<1>16. Writes(i, d.fill, d.quote, makerLock, d.rate)
  BY <1>11, <1>12, <1>14, <1>15 DEF Writes
<1>17. TakerWrites(d.fill, d.quote)
  <2>1. taker \in OrderRec
    BY <1>1, RowTypes
  <2> QED BY <1>13, <2>1, TakerAfterFill DEF TakerWrites
<1> QED BY <1>6, <1>10, <1>16, <1>17 DEF Fills, d, i

\* Both kinds of fill are such a step.
LEMMA FillStep ==
  ASSUME LockInv, LimitFill \/ MarketFill, TypeInv'
  PROVE  \E i, f, q, l, r : Fills(i, f, q, l, r)
<1> DEFINE d == Deal(NextMaker)
           maker == orders[NextMaker]
<1>1. Looping /\ ~MeetsOwnOrder
  BY DEF LimitFill, MarketFill
<1>2. DealPays(d) /\ d.maker = NextMaker
  <2>1. TypeInv
    BY DEF LockInv
  <2> QED BY <1>1, <2>1, DealPaysLocks, DealIsSound
<1>3. /\ maker \in OrderRec /\ CoversRest(maker) /\ d.fill \in 0..maker.remaining
      /\ d.quote = QuoteFloor(maker.price, d.fill, Scale[maker.market])
  BY <1>2 DEF DealPays, DealSound, RowSound, OrderCovered
<1>4. CASE LimitFill
  <2> DEFINE l == LockFor(maker, maker.remaining - d.fill)
  <2>1. Fault(d) = "NONE" /\ taker.type = "LIMIT"
        /\ Settle(d, l, LockFor(taker, taker.remaining - d.fill))
    BY <1>2, <1>4 DEF LimitFill
  <2> HIDE DEF d
  <2>2. LockIsExact(maker, maker.remaining - d.fill)
    BY <1>2, <2>1 DEF Fault, LocksAreExact
  <2>3. LockFits(maker, d.fill, l)
    BY <1>3, <2>2, ExactLock
  <2> QED BY <1>1, <2>1, <2>3, SettleIsFill DEF d
<1>5. CASE MarketFill
  <2> DEFINE l == LockAfterMarketFill(maker, d)
  <2>1. Settle(d, l, 0)
    BY <1>2, <1>5 DEF MarketFill
  <2> HIDE DEF d
  <2>2. LockFits(maker, d.fill, l)
    BY <1>3, MarketLock
  <2> HIDE DEF l
  <2> QED BY <1>1, <2>1, <2>2, SettleIsFill DEF d
<1> QED BY <1>4, <1>5

\* The row of a resting order after a fill.
LEMMA AfterFillRow ==
  ASSUME NEW o \in OrderRec, NEW f \in 0..o.remaining, NEW l \in Nat
  PROVE  LET row == AfterFill(o, f, l)
         IN  /\ row \in OrderRec
             /\ row.filled = o.filled + f /\ row.remaining = o.remaining - f /\ row.locked = l
             /\ row.status = IF o.remaining = f THEN "FILLED" ELSE "PARTIAL_FILLED"
             /\ row.user = o.user /\ row.market = o.market /\ row.side = o.side
             /\ row.type = o.type /\ row.price = o.price /\ row.amount = o.amount
             /\ row.spent = o.spent /\ row.requested = o.requested
<1> DEFINE a == o.filled + f
           b == o.remaining - f
           s == IF o.remaining = f THEN "FILLED" ELSE "PARTIAL_FILLED"
<1>1. a \in Nat /\ b \in Nat /\ s \in OrderStatus
  BY DEF OrderRec, OrderStatus
<1>2. AfterFill(o, f, l) = [o EXCEPT !.filled = a, !.remaining = b, !.locked = l, !.status = s]
  BY DEF AfterFill
<1> HIDE DEF a, b, s
<1>3. LET row == AfterFill(o, f, l)
      IN  /\ row \in OrderRec
          /\ row.filled = a /\ row.remaining = b /\ row.locked = l /\ row.status = s
          /\ row.user = o.user /\ row.market = o.market /\ row.side = o.side
          /\ row.type = o.type /\ row.price = o.price /\ row.amount = o.amount
          /\ row.spent = o.spent /\ row.requested = o.requested
  BY <1>1, <1>2 DEF OrderRec
<1> QED BY <1>3 DEF a, b, s

\* The rows of the book after a fill.
LEMMA RowsAfterFill ==
  ASSUME TypeOK, NEW i, NEW f, NEW q, NEW l, NEW r, Fills(i, f, q, l, r)
  PROVE  /\ Len(orders') = Len(orders) /\ DOMAIN orders' = DOMAIN orders
         /\ DOMAIN orders = 1..Len(orders) /\ Len(orders) \in Nat
         /\ \A j \in DOMAIN orders : j # i => orders'[j] = orders[j]
         /\ orders'[i] = AfterFill(orders[i], f, l)
         /\ f \in 0..orders[i].remaining /\ l \in Nat /\ l <= orders[i].locked
         /\ f \in Nat /\ orders[i].remaining - f \in Nat
<1>1. orders \in Seq(OrderRec) /\ i \in 1..Len(orders) /\ orders[i] \in OrderRec
  BY DEF TypeOK, TheTables, TablesRec, Fills, Meets
<1>2. orders' = [orders EXCEPT ![i] = AfterFill(orders[i], f, l)]
  BY DEF Fills, Writes
<1>3. DOMAIN orders = 1..Len(orders) /\ Len(orders) \in Nat
  BY <1>1, LenProperties
<1>4. f \in 0..orders[i].remaining /\ l \in 0..orders[i].locked
      /\ orders[i].remaining \in Nat /\ orders[i].locked \in Nat
  BY <1>1 DEF Fills, Exchanges, Writes, OrderRec
<1>5. f \in Nat /\ l \in Nat /\ l <= orders[i].locked /\ orders[i].remaining - f \in Nat
  BY <1>4
<1>6. AfterFill(orders[i], f, l) \in OrderRec
  BY <1>1, <1>4, <1>5, AfterFillRow
<1>7. Len(orders') = Len(orders)
      /\ \A j \in 1..Len(orders) : orders'[j] = IF j = i THEN AfterFill(orders[i], f, l) ELSE orders[j]
  BY <1>1, <1>2, <1>6, ExceptSeq
<1>8. DOMAIN orders' = DOMAIN orders
  BY <1>2
<1> QED BY <1>1, <1>3, <1>4, <1>5, <1>7, <1>8

-----------------------------------------------------------------------------
\* The inductive invariant

\* The users of the orders the matching query locked stay ACTIVE: their rows
\* are locked with them.
MakersActive ==
  phase = "MATCH" => \A i \in rows : userStatus[orders[i].user] = "ACTIVE"

\* A placement starts from the saved tables and adds trades; what it has done
\* to each order since is to fill it, and to those still to visit nothing.
SavedBefore ==
  phase = "MATCH" =>
    /\ Len(saved.trades) <= Len(trades)
    /\ Len(saved.orders) = Len(orders)
    /\ \A i \in 1..Len(orders) : Advances(saved.orders[i], orders[i])
    /\ \A i \in toVisit : saved.orders[i] = orders[i]

\* Trades refer to rows there are, or to the one that is being placed.
RefersWithin(ts, n) ==
  \A t \in 1..Len(ts) : ts[t].buyOrder <= n /\ ts[t].sellOrder <= n

TradesRefer ==
  IF phase = "MATCH" THEN /\ RefersWithin(trades, Len(orders) + 1)
                          /\ RefersWithin(saved.trades, Len(saved.orders))
                     ELSE RefersWithin(trades, Len(orders))

\* The fee settings hold rates an administrator may set; the rates a placement
\* has read are such a pair, and its trades are charged by it.
RatePairs == [buyer : FeeRates, seller : FeeRates]
Concerns(t, i) == i \in {t.buyOrder, t.sellOrder}
Charged(t, r) == t.buyerFee = Fee(t.amount, r.buyer) /\ t.sellerFee = Fee(t.quote, r.seller)

RatesKept ==
  /\ feeRates \in [Markets -> RatePairs]
  /\ rates = NoRates \/ rates \in RatePairs
  /\ phase # "MATCH" => rates = NoRates
  /\ phase = "MATCH" =>
       \A t \in 1..Len(trades) :
         Concerns(trades[t], Len(orders) + 1) => rates # NoRates /\ Charged(trades[t], rates)

\* A loop that goes on has emptied all it visited of other users.
PriorityKept ==
  phase = "MATCH" /\ ~BuyerPaysAvailable =>
    /\ InPriority
    /\ WantsMore(taker) /\ toVisit # {} =>
         \A i \in rows \ toVisit : orders[i].user = taker.user \/ orders[i].remaining = 0

\* What the trades of order i in ts add up to.
TradeWeights(ts, i, f) ==
  [t \in Nat |-> IF t \in DOMAIN ts THEN IF Concerns(ts[t], i) THEN ts[t][f] ELSE 0 ELSE 0]
TradedOf(ts, i, f) == SumTo(TradeWeights(ts, i, f), Len(ts))

AccountedIn(o, i, ts) ==
  /\ o.filled = TradedOf(ts, i, "amount")
  /\ o.type = "LIMIT" \/ o.side = "SELL" => o.filled + o.remaining = o.amount
  /\ o.type = "MARKET" => o.spent = TradedOf(ts, i, "quote")
  /\ o.type = "MARKET" /\ o.side = "BUY" => o.spent <= o.requested

\* A request that is not placed yet has filled nothing.
Fresh(o) ==
  o.filled = 0 /\ o.spent = 0 /\ (o.type = "LIMIT" \/ o.side = "SELL" => o.remaining = o.amount)

FillsKept ==
  /\ \A i \in 1..Len(orders) : AccountedIn(orders[i], i, trades)
  /\ phase = "CHECKED" => Fresh(taker)
  /\ phase = "MATCH" =>
       /\ AccountedIn(taker, Len(orders) + 1, trades)
       /\ \A i \in 1..Len(saved.orders) : AccountedIn(saved.orders[i], i, saved.trades)

BookInv ==
  /\ LockInv /\ MakersActive /\ SavedBefore /\ TradesRefer
  /\ RatesKept /\ PriorityKept /\ FillsKept

\* No buy and sell rows of two users that are open would trade.
Uncrossed(os) ==
  \A i, j \in 1..Len(os) :
    /\ IsOpen(os[i]) /\ os[i].side = "BUY"
    /\ IsOpen(os[j]) /\ os[j].side = "SELL"
    /\ os[i].market = os[j].market
    /\ os[i].user # os[j].user
    => os[i].price < os[j].price

\* While no account is frozen the query finds every order a limit taker would
\* trade with, and the loop leaves one behind only when the taker is done.
AllFound ==
  phase = "MATCH" /\ taker.type = "LIMIT" =>
    \A i \in 1..Len(orders) :
      /\ IsOpen(orders[i]) /\ orders[i].user # taker.user
      /\ orders[i].market = taker.market /\ orders[i].side = Opposite(taker.side)
      /\ Crosses(taker, orders[i])
      => i \in toVisit \/ taker.remaining = 0

UncrossedInv ==
  /\ BookInv
  /\ \A u \in Users : userStatus[u] = "ACTIVE"
  /\ Uncrossed(orders)
  /\ phase = "MATCH" => Uncrossed(saved.orders)
  /\ AllFound

-----------------------------------------------------------------------------
\* Sums over the trade rows

LEMMA TradeWeightsNat ==
  ASSUME NEW ts \in Seq(TradeRec), NEW i, NEW f \in {"amount", "quote"}
  PROVE  /\ Len(ts) \in Nat /\ \A t \in Nat : TradeWeights(ts, i, f)[t] \in Nat
         /\ \A t \in 1..Len(ts) :
              /\ ts[t] \in TradeRec
              /\ TradeWeights(ts, i, f)[t] = IF Concerns(ts[t], i) THEN ts[t][f] ELSE 0
         /\ \A t \in Nat : t \notin 1..Len(ts) => TradeWeights(ts, i, f)[t] = 0
<1>1. Len(ts) \in Nat /\ DOMAIN ts = 1..Len(ts)
  BY LenProperties
<1>2. \A t \in 1..Len(ts) : ts[t] \in TradeRec /\ t \in Nat
  BY <1>1, ElementOfSeq
<1>3. \A t \in 1..Len(ts) : ts[t][f] \in Nat
  BY <1>2 DEF TradeRec
<1>4. \A t \in Nat : TradeWeights(ts, i, f)[t] =
        IF t \in 1..Len(ts) THEN IF Concerns(ts[t], i) THEN ts[t][f] ELSE 0 ELSE 0
  BY <1>1 DEF TradeWeights
<1> QED BY <1>1, <1>2, <1>3, <1>4

\* A new trade adds its amount, or its quote, to the orders it concerns.
LEMMA TradedAppend ==
  ASSUME NEW ts \in Seq(TradeRec), NEW row \in TradeRec, NEW i, NEW f \in {"amount", "quote"}
  PROVE  /\ TradedOf(ts, i, f) \in Nat
         /\ TradedOf(Append(ts, row), i, f)
              = TradedOf(ts, i, f) + IF Concerns(row, i) THEN row[f] ELSE 0
<1> DEFINE ts2 == Append(ts, row)
           w == TradeWeights(ts, i, f)
           v == TradeWeights(ts2, i, f)
           n == Len(ts)
<1>1. ts2 \in Seq(TradeRec) /\ Len(ts2) = n + 1
      /\ (\A t \in 1..n : ts2[t] = ts[t]) /\ ts2[n + 1] = row
  BY AppendProperties
<1>2. n \in Nat
  BY LenProperties
<1> HIDE DEF ts2
<1>3. \A t \in Nat : w[t] \in Nat /\ v[t] \in Nat
  BY <1>1, TradeWeightsNat
<1>4. \A t \in 1..n : w[t] = v[t]
  <2> TAKE t \in 1..n
  <2>1. w[t] = IF Concerns(ts[t], i) THEN ts[t][f] ELSE 0
    BY TradeWeightsNat
  <2>2. t \in 1..Len(ts2) /\ ts2[t] = ts[t]
    BY <1>1, <1>2
  <2>3. v[t] = IF Concerns(ts2[t], i) THEN ts2[t][f] ELSE 0
    BY <1>1, <2>2, TradeWeightsNat
  <2> HIDE DEF w, v
  <2> QED BY <2>1, <2>2, <2>3
<1>5. v[n + 1] = IF Concerns(row, i) THEN row[f] ELSE 0
  <2>1. n + 1 \in 1..Len(ts2)
    BY <1>1, <1>2
  <2> QED BY <1>1, <2>1, TradeWeightsNat
<1> HIDE DEF w, v, n
<1>6. \A t \in Nat : w[t] \in Int /\ v[t] \in Int
  BY <1>3
<1>7. SumTo(v, n + 1) = SumTo(v, n) + v[n + 1]
  BY <1>2, <1>6, SumToDef
<1>8. SumTo(w, n) = SumTo(v, n) /\ SumTo(w, n) \in Nat
  BY <1>2, <1>3, <1>4, <1>6, SumToAgree, SumToNat
<1> QED BY <1>1, <1>5, <1>7, <1>8 DEF w, v, n, ts2, TradedOf

\* A row no trade refers to has traded nothing.
LEMMA TradedNothing ==
  ASSUME NEW ts \in Seq(TradeRec), NEW n \in Nat, RefersWithin(ts, n),
         NEW f \in {"amount", "quote"}
  PROVE  TradedOf(ts, n + 1, f) = 0
<1> DEFINE w == TradeWeights(ts, n + 1, f)
<1>1. \A t \in 1..Len(ts) : ~Concerns(ts[t], n + 1)
  <2> TAKE t \in 1..Len(ts)
  <2>1. ts[t] \in TradeRec /\ ts[t].buyOrder <= n /\ ts[t].sellOrder <= n
    BY TradeWeightsNat DEF RefersWithin
  <2>2. ts[t].buyOrder \in Nat /\ ts[t].sellOrder \in Nat
    BY <2>1 DEF TradeRec
  <2>3. ts[t].buyOrder # n + 1 /\ ts[t].sellOrder # n + 1
    BY <2>1, <2>2
  <2> QED BY <2>3 DEF Concerns
<1>2. \A t \in Nat : w[t] = 0
  BY <1>1, TradeWeightsNat
<1>3. Len(ts) \in Nat
  BY LenProperties
<1> HIDE DEF w
<1>4. SumTo(w, Len(ts)) = 0
  BY <1>2, <1>3, SumToZero
<1> QED BY <1>4 DEF w, TradedOf

-----------------------------------------------------------------------------
\* Rows that advance

LEMMA AdvancesSelf ==
  ASSUME NEW o \in OrderRec
  PROVE  Advances(o, o)
<1>1. o.filled \in Nat /\ o.remaining \in Nat /\ o.locked \in Nat
  BY DEF OrderRec
<1>2. [o EXCEPT !.filled = o.filled, !.remaining = o.remaining,
                !.locked = o.locked, !.status = o.status] = o
  BY DEF OrderRec
<1> QED BY <1>1, <1>2 DEF Advances

\* A fill advances an open row that it locks no more of.
LEMMA AdvancesByFill ==
  ASSUME NEW o \in OrderRec, IsOpen(o), NEW f \in 0..o.remaining, NEW l \in Nat, l <= o.locked
  PROVE  Advances(o, AfterFill(o, f, l))
<1> DEFINE p == AfterFill(o, f, l)
<1>1. /\ p.filled = o.filled + f /\ p.remaining = o.remaining - f /\ p.locked = l
      /\ o.filled \in Nat /\ o.remaining \in Nat
  BY AfterFillRow DEF OrderRec
<1>2. p.filled >= o.filled /\ p.remaining <= o.remaining /\ p.locked <= o.locked
  BY <1>1
<1>3. [p EXCEPT !.filled = o.filled, !.remaining = o.remaining,
                !.locked = o.locked, !.status = o.status] = o
  BY DEF OrderRec, AfterFill
<1> HIDE DEF p
<1>4. Advances(o, p)
  BY <1>2, <1>3 DEF Advances
<1> QED BY <1>4 DEF p

-----------------------------------------------------------------------------
\* A fill keeps each part of the invariant

LEMMA TradesAfterFill ==
  ASSUME TypeOK, NEW i, NEW f, NEW q, NEW l, NEW r, Fills(i, f, q, l, r)
  PROVE  /\ trades \in Seq(TradeRec) /\ Len(trades) \in Nat
         /\ Len(trades') = Len(trades) + 1
         /\ \A t \in 1..Len(trades) : trades'[t] = trades[t] /\ trades[t] \in TradeRec
         /\ trades'[Len(trades) + 1] = TradeRow(i, f, q, r)
<1>1. trades \in Seq(TradeRec)
  BY DEF TypeOK, TheTables, TablesRec
<1>2. trades' = Append(trades, TradeRow(i, f, q, r)) /\ TradeRow(i, f, q, r) \in TradeRec
  BY DEF Fills, Writes
<1>3. Len(trades) \in Nat
  BY <1>1, LenProperties
<1>4. \A t \in 1..Len(trades) : trades[t] \in TradeRec
  BY <1>1, ElementOfSeq
<1> QED BY <1>1, <1>2, <1>3, <1>4, AppendProperties

\* The orders the trade of a fill concerns.
LEMMA FillConcerns ==
  ASSUME NEW i, NEW f, NEW q, NEW r
  PROVE  /\ {TradeRow(i, f, q, r).buyOrder, TradeRow(i, f, q, r).sellOrder} = {i, Len(orders) + 1}
         /\ \A j : Concerns(TradeRow(i, f, q, r), j) <=> j = i \/ j = Len(orders) + 1
         /\ Charged(TradeRow(i, f, q, r), r)
         /\ TradeRow(i, f, q, r).amount = f /\ TradeRow(i, f, q, r).quote = q
         /\ TradeRow(i, f, q, r)["amount"] = f /\ TradeRow(i, f, q, r)["quote"] = q
BY DEF TradeRow, Concerns, Charged

LEMMA FillActive ==
  ASSUME TypeOK, MakersActive, NEW i, NEW f, NEW q, NEW l, NEW r, Fills(i, f, q, l, r)
  PROVE  MakersActive'
<1>1. /\ phase = "MATCH" /\ rows' = rows /\ userStatus' = userStatus
      /\ rows \subseteq DOMAIN orders /\ orders[i] \in OrderRec
  BY DEF Fills, Meets, Writes, TypeOK, switches
<1>2. ASSUME NEW j \in DOMAIN orders PROVE orders'[j].user = orders[j].user
  <2>1. CASE j # i
    BY <2>1, RowsAfterFill
  <2>2. CASE j = i
    <3>1. orders'[i] = AfterFill(orders[i], f, l) /\ f \in 0..orders[i].remaining /\ l \in Nat
      BY RowsAfterFill
    <3> QED BY <1>1, <2>2, <3>1, AfterFillRow
  <2> QED BY <2>1, <2>2
<1> QED BY <1>1, <1>2 DEF MakersActive

LEMMA FillSaved ==
  ASSUME TypeOK, SavedBefore, NEW i, NEW f, NEW q, NEW l, NEW r, Fills(i, f, q, l, r)
  PROVE  SavedBefore'
<1>1. /\ phase = "MATCH" /\ saved' = saved /\ toVisit' = toVisit \ {i} /\ i \in toVisit
      /\ toVisit \subseteq DOMAIN orders
      /\ orders[i] \in OrderRec /\ IsOpen(orders[i]) /\ i \in 1..Len(orders)
  BY DEF Fills, Meets, Writes, TypeOK
<1>2. /\ Len(saved.trades) <= Len(trades)
      /\ Len(saved.orders) = Len(orders)
      /\ \A j \in 1..Len(orders) : Advances(saved.orders[j], orders[j])
      /\ \A j \in toVisit : saved.orders[j] = orders[j]
      /\ Len(saved.trades) \in Nat
  <2>1. saved \in TablesRec
    BY <1>1 DEF TypeOK
  <2>2. saved.trades \in Seq(TradeRec)
    BY <2>1 DEF TablesRec
  <2> QED BY <1>1, <2>2, LenProperties DEF SavedBefore
<1>3. Len(saved.trades) <= Len(trades')
  BY <1>2, TradesAfterFill
<1>4. Len(orders') = Len(orders)
  BY RowsAfterFill
<1>5. ASSUME NEW j \in 1..Len(orders) PROVE Advances(saved.orders[j], orders'[j])
  <2>1. CASE j # i
    BY <1>2, <2>1, RowsAfterFill
  <2>2. CASE j = i
    <3>1. /\ orders'[i] = AfterFill(orders[i], f, l)
          /\ f \in 0..orders[i].remaining /\ l \in Nat /\ l <= orders[i].locked
      BY RowsAfterFill
    <3>2. Advances(orders[i], orders'[i])
      BY <1>1, <3>1, AdvancesByFill
    <3> QED BY <1>1, <1>2, <2>2, <3>2
  <2> QED BY <2>1, <2>2
<1>6. ASSUME NEW j \in toVisit' PROVE saved.orders[j] = orders'[j]
  <2>1. j \in toVisit /\ j # i /\ j \in DOMAIN orders
    BY <1>1
  <2> QED BY <1>2, <2>1, RowsAfterFill
<1> QED BY <1>1, <1>2, <1>3, <1>4, <1>5, <1>6 DEF SavedBefore

LEMMA FillRefers ==
  ASSUME TypeOK, TradesRefer, NEW i, NEW f, NEW q, NEW l, NEW r, Fills(i, f, q, l, r)
  PROVE  TradesRefer'
<1>1. /\ phase = "MATCH" /\ phase' = "MATCH" /\ saved' = saved /\ i \in 1..Len(orders)
  BY DEF Fills, Meets, Writes
<1>2. Len(orders') = Len(orders) /\ Len(orders) \in Nat
  BY RowsAfterFill
<1>3. /\ RefersWithin(trades, Len(orders) + 1)
      /\ RefersWithin(saved.trades, Len(saved.orders))
  BY <1>1 DEF TradesRefer
<1>4. RefersWithin(trades', Len(orders) + 1)
  <2> SUFFICES ASSUME NEW t \in 1..Len(trades')
               PROVE  trades'[t].buyOrder <= Len(orders) + 1 /\ trades'[t].sellOrder <= Len(orders) + 1
    BY DEF RefersWithin
  <2>1. CASE t \in 1..Len(trades)
    BY <1>3, <2>1, TradesAfterFill DEF RefersWithin
  <2>2. CASE t = Len(trades) + 1
    <3>1. trades'[t] = TradeRow(i, f, q, r)
      BY <2>2, TradesAfterFill
    <3> QED BY <1>1, <1>2, <3>1 DEF TradeRow
  <2> QED BY <2>1, <2>2, TradesAfterFill
<1> QED BY <1>1, <1>2, <1>3, <1>4 DEF TradesRefer

LEMMA FillRates ==
  ASSUME TypeOK, RatesKept, NEW i, NEW f, NEW q, NEW l, NEW r, Fills(i, f, q, l, r)
  PROVE  RatesKept'
<1>1. /\ phase = "MATCH" /\ phase' = "MATCH" /\ feeRates' = feeRates /\ rates' = r
      /\ r = Rate(taker.market) /\ taker.market \in Markets
  BY RowTypes DEF Fills, Meets, Writes, switches, OrderRec
<1>2. r \in RatePairs /\ r # NoRates
  <2>1. r \in RatePairs
    BY <1>1 DEF RatesKept, Rate
  <2>2. DOMAIN r = {"buyer", "seller"} /\ DOMAIN NoRates = {"read"}
    BY <2>1 DEF RatePairs, NoRates
  <2>3. "buyer" # "read"
    OBVIOUS
  <2> QED BY <2>1, <2>2, <2>3
<1>3. ASSUME NEW t \in 1..Len(trades'), Concerns(trades'[t], Len(orders) + 1)
      PROVE  Charged(trades'[t], r)
  <2>1. CASE t \in 1..Len(trades)
    <3>1. trades'[t] = trades[t]
      BY <2>1, TradesAfterFill
    <3>2. rates # NoRates /\ Charged(trades[t], rates)
      BY <1>1, <1>3, <2>1, <3>1 DEF RatesKept
    <3>3. r = rates
      BY <1>1, <3>2 DEF Rate
    <3> QED BY <3>1, <3>2, <3>3
  <2>2. CASE t = Len(trades) + 1
    BY <2>2, TradesAfterFill, FillConcerns
  <2> QED BY <1>3, <2>1, <2>2, TradesAfterFill
<1>4. Len(orders') = Len(orders)
  BY RowsAfterFill
<1> QED BY <1>1, <1>2, <1>3, <1>4 DEF RatesKept

\* A row trades for the first time when the loop stands at it.
LEMMA FillHits ==
  ASSUME TypeOK, NEW i, NEW f, NEW q, NEW l, NEW r, Fills(i, f, q, l, r),
         NEW j \in 1..Len(orders), Hit(j)'
  PROVE  j = i \/ Hit(j)
<1>1. /\ DOMAIN trades = 1..Len(trades) /\ DOMAIN trades' = 1..(Len(trades) + 1)
      /\ Len(trades) \in Nat
  <2>1. trades \in Seq(TradeRec) /\ TradeRow(i, f, q, r) \in TradeRec
        /\ trades' = Append(trades, TradeRow(i, f, q, r))
    BY TradesAfterFill DEF Fills, Writes
  <2>2. trades' \in Seq(TradeRec) /\ Len(trades') = Len(trades) + 1
    BY <2>1, AppendProperties
  <2> QED BY <2>1, <2>2, LenProperties
<1>2. Len(orders') = Len(orders) /\ Len(orders) \in Nat
  BY RowsAfterFill
<1>3. PICK t \in 1..(Len(trades) + 1) :
        {trades'[t].buyOrder, trades'[t].sellOrder} = {j, Len(orders) + 1}
  BY <1>1, <1>2 DEF Hit
<1>4. CASE t \in 1..Len(trades)
  <2>1. trades'[t] = trades[t]
    BY <1>4, TradesAfterFill
  <2> QED BY <1>1, <1>3, <1>4, <2>1 DEF Hit
<1>5. CASE t = Len(trades) + 1
  <2>1. {trades'[t].buyOrder, trades'[t].sellOrder} = {i, Len(orders) + 1}
    <3>1. trades'[t] = TradeRow(i, f, q, r)
      BY <1>5, TradesAfterFill
    <3>2. {TradeRow(i, f, q, r).buyOrder, TradeRow(i, f, q, r).sellOrder} = {i, Len(orders) + 1}
      BY FillConcerns
    <3> QED BY <3>1, <3>2, Zenon
  <2>2. {j, Len(orders) + 1} = {i, Len(orders) + 1}
    BY <1>3, <2>1
  <2>3. j # Len(orders) + 1 /\ j \in {i, Len(orders) + 1}
    BY <1>2, <2>2
  <2> QED BY <2>3
<1> QED BY <1>1, <1>3, <1>4, <1>5

LEMMA FillPriority ==
  ASSUME TypeOK, PriorityKept, NEW i, NEW f, NEW q, NEW l, NEW r, Fills(i, f, q, l, r)
  PROVE  PriorityKept'
<1>1. /\ phase = "MATCH" /\ i \in toVisit /\ i \in 1..Len(orders) /\ orders[i] \in OrderRec
      /\ \A j \in toVisit \ {i} : Before(taker, i, j)
      /\ orders[i].user # taker.user /\ IsOpen(orders[i]) /\ RowSound(orders[i])
      /\ rows' = rows /\ toVisit' = toVisit \ {i}
      /\ toVisit \subseteq rows /\ rows \subseteq DOMAIN orders
  BY DEF Fills, Meets, Writes, TypeOK
<1>2. /\ taker'.user = taker.user /\ taker'.side = taker.side /\ taker'.type = taker.type
      /\ taker'.remaining = IF BuyerPaysAvailable THEN taker.remaining ELSE taker.remaining - f
  BY DEF Fills, TakerWrites
<1>3. BuyerPaysAvailable' = BuyerPaysAvailable
  BY <1>2 DEF BuyerPaysAvailable
<1> SUFFICES ASSUME ~BuyerPaysAvailable PROVE PriorityKept'
  BY <1>3 DEF PriorityKept
<1>4. /\ DOMAIN orders = 1..Len(orders) /\ Len(orders) \in Nat
      /\ \A j \in DOMAIN orders : j # i => orders'[j] = orders[j]
      /\ orders'[i] = AfterFill(orders[i], f, l)
      /\ f \in 0..orders[i].remaining /\ l \in Nat
  BY RowsAfterFill
<1>5. \A j \in DOMAIN orders :
        orders'[j].user = orders[j].user /\ orders'[j].price = orders[j].price
  <2> TAKE j \in DOMAIN orders
  <2>1. CASE j = i
    BY <1>1, <1>4, <2>1, AfterFillRow
  <2> QED BY <1>4, <2>1
<1>6. orders'[i].remaining = orders[i].remaining - f
  BY <1>1, <1>4, AfterFillRow
<1>7. /\ orders[i].remaining \in Nat /\ taker.remaining \in Nat
      /\ taker.type \in {"LIMIT", "MARKET"} /\ taker.side \in Side
  BY <1>1, RowTypes DEF OrderRec
<1>8. orders[i].remaining > 0
  BY <1>1 DEF RowSound, OrderCovered
<1>9. f = Lesser(taker.remaining, orders[i].remaining)
  BY DEF Fills, Exchanges
<1>10. \A j, k \in DOMAIN orders : Better(j, k)' => Better(j, k)
  BY <1>2, <1>5 DEF Better
<1>11. InPriority
  BY <1>1 DEF PriorityKept
<1>12. ASSUME NEW j \in rows, NEW k \in rows, Better(j, k)', Hit(k)', orders'[j].user # taker'.user
       PROVE  orders'[j].remaining = 0
  <2>1. /\ j \in DOMAIN orders /\ k \in DOMAIN orders
        /\ Better(j, k) /\ orders[j].user # taker.user
    BY <1>1, <1>2, <1>5, <1>10, <1>12
  <2>2. CASE k = i
    <3>1. j # i /\ ~Before(taker, i, j)
      <4>1. orders[i].price \in Nat /\ orders[j].price \in Nat /\ i \in Nat /\ j \in Nat
        <5>1. orders[j] \in OrderRec /\ orders[i] \in OrderRec
          BY <1>1, <2>1, RowTypes
        <5>2. orders[i].price \in Nat /\ orders[j].price \in Nat
          BY <5>1 DEF OrderRec
        <5> QED BY <1>1, <1>4, <2>1, <5>2
      <4> QED BY <1>7, <2>1, <2>2, <4>1 DEF Better, Before, Side
    <3>2. j \in rows \ toVisit
      BY <1>1, <1>12, <3>1
    <3>3. WantsMore(taker)
      BY DEF Fills, Meets
    <3>4. orders[j].remaining = 0
      BY <1>1, <2>1, <3>2, <3>3 DEF PriorityKept
    <3> QED BY <1>4, <2>1, <3>1, <3>4
  <2>3. CASE k # i
    <3>1. Hit(k)
      BY <1>4, <1>12, <2>1, <2>3, FillHits
    <3>2. orders[j].remaining = 0
      BY <1>11, <1>12, <2>1, <3>1 DEF InPriority
    <3> QED BY <1>4, <1>8, <2>1, <3>2
  <2> QED BY <2>2, <2>3
<1>13. InPriority'
  BY <1>1, <1>12 DEF InPriority
<1>14. ASSUME WantsMore(taker)', toVisit' # {}, NEW j \in rows \ toVisit'
       PROVE  orders'[j].user = taker'.user \/ orders'[j].remaining = 0
  <2>1. CASE j = i
    <3>1. taker.remaining - f > 0
      BY <1>2, <1>14 DEF WantsMore, BuyerPaysAvailable
    <3>2. f = orders[i].remaining
      BY <1>7, <1>9, <3>1 DEF Lesser
    <3> QED BY <1>6, <1>7, <2>1, <3>2
  <2>2. CASE j # i
    <3>1. j \in rows \ toVisit /\ j \in DOMAIN orders /\ orders'[j] = orders[j]
      BY <1>1, <1>4, <1>14, <2>2
    <3>2. taker.remaining > 0
      BY <1>2, <1>7, <1>14, <1>4 DEF WantsMore, BuyerPaysAvailable
    <3>3. WantsMore(taker)
      BY <3>2 DEF WantsMore, BuyerPaysAvailable
    <3> QED BY <1>1, <1>2, <3>1, <3>3 DEF PriorityKept
  <2> QED BY <2>1, <2>2
<1> QED BY <1>1, <1>13, <1>14 DEF PriorityKept

LEMMA FillAccounts ==
  ASSUME TypeOK, FillsKept, NEW i, NEW f, NEW q, NEW l, NEW r, Fills(i, f, q, l, r)
  PROVE  FillsKept'
<1> DEFINE new == Len(orders) + 1
           row == TradeRow(i, f, q, r)
<1>1. /\ phase = "MATCH" /\ phase' = "MATCH" /\ saved' = saved /\ i \in 1..Len(orders)
      /\ orders[i] \in OrderRec /\ IsOpen(orders[i]) /\ RowSound(orders[i])
      /\ q \in Nat /\ (BuyerPaysAvailable => q <= QuoteLeft(taker))
      /\ row \in TradeRec /\ trades' = Append(trades, row)
  BY DEF Fills, Meets, Exchanges, Writes
<1>2. /\ taker'.filled = taker.filled + f
      /\ taker'.remaining = IF BuyerPaysAvailable THEN taker.remaining ELSE taker.remaining - f
      /\ taker'.spent = IF taker.type = "MARKET" THEN taker.spent + q ELSE taker.spent
      /\ taker'.side = taker.side /\ taker'.type = taker.type
      /\ taker'.amount = taker.amount /\ taker'.requested = taker.requested
  BY DEF Fills, TakerWrites
<1>3. /\ DOMAIN orders = 1..Len(orders) /\ Len(orders) \in Nat /\ Len(orders') = Len(orders)
      /\ \A j \in DOMAIN orders : j # i => orders'[j] = orders[j]
      /\ orders'[i] = AfterFill(orders[i], f, l)
      /\ f \in 0..orders[i].remaining /\ l \in Nat /\ f \in Nat
  BY RowsAfterFill
<1>4. trades \in Seq(TradeRec)
  BY TradesAfterFill
<1>5. /\ row["amount"] = f /\ row["quote"] = q
      /\ \A j : Concerns(row, j) <=> j = i \/ j = new
  BY FillConcerns
<1> HIDE DEF row, new
<1>6. \A j : /\ TradedOf(trades, j, "amount") \in Nat /\ TradedOf(trades, j, "quote") \in Nat
             /\ TradedOf(trades', j, "amount")
                  = TradedOf(trades, j, "amount") + IF j = i \/ j = new THEN f ELSE 0
             /\ TradedOf(trades', j, "quote")
                  = TradedOf(trades, j, "quote") + IF j = i \/ j = new THEN q ELSE 0
  BY <1>1, <1>4, <1>5, TradedAppend
<1>7. ASSUME NEW j \in 1..Len(orders) PROVE AccountedIn(orders'[j], j, trades')
  <2>1. AccountedIn(orders[j], j, trades)
    BY DEF FillsKept
  <2>2. j # new
    BY <1>3 DEF new
  <2>3. CASE j # i
    <3>1. orders'[j] = orders[j] /\ TradedOf(trades', j, "amount") = TradedOf(trades, j, "amount")
          /\ TradedOf(trades', j, "quote") = TradedOf(trades, j, "quote")
      BY <1>3, <1>6, <2>2, <2>3
    <3> QED BY <2>1, <3>1 DEF AccountedIn
  <2>4. CASE j = i
    <3>1. orders[i].type = "LIMIT"
      BY <1>1 DEF RowSound, OrderCovered
    <3>2. /\ orders'[i].filled = orders[i].filled + f
          /\ orders'[i].remaining = orders[i].remaining - f
          /\ orders'[i].type = "LIMIT" /\ orders'[i].amount = orders[i].amount
      BY <1>1, <1>3, <3>1, AfterFillRow
    <3>3. orders[i].filled \in Nat /\ orders[i].remaining \in Nat
      BY <1>1 DEF OrderRec
    <3>4. orders[i].filled = TradedOf(trades, i, "amount")
          /\ orders[i].filled + orders[i].remaining = orders[i].amount
      BY <2>1, <2>4, <3>1 DEF AccountedIn
    <3>5. TradedOf(trades', i, "amount") = TradedOf(trades, i, "amount") + f
      BY <1>6
    <3>6. orders'[i].filled = TradedOf(trades', i, "amount")
          /\ orders'[i].filled + orders'[i].remaining = orders'[i].amount
      BY <1>3, <3>2, <3>3, <3>4, <3>5
    <3> QED BY <2>4, <3>2, <3>6 DEF AccountedIn
  <2> QED BY <2>3, <2>4
<1>8. AccountedIn(taker', new, trades')
  <2>1. AccountedIn(taker, new, trades)
    BY <1>1 DEF FillsKept, new
  <2>2. /\ taker.filled \in Nat /\ taker.remaining \in Nat /\ taker.spent \in Nat
        /\ taker.requested \in Nat /\ taker.type \in {"LIMIT", "MARKET"} /\ taker.side \in Side
    BY <1>1, RowTypes DEF OrderRec
  <2>3. taker'.filled = TradedOf(trades', new, "amount")
    BY <1>2, <1>6, <2>1 DEF AccountedIn
  <2>4. taker'.type = "LIMIT" \/ taker'.side = "SELL" => taker'.filled + taker'.remaining = taker'.amount
    <3>1. SUFFICES ASSUME taker.type = "LIMIT" \/ taker.side = "SELL"
                   PROVE  taker'.filled + taker'.remaining = taker'.amount
      BY <1>2
    <3>2. ~BuyerPaysAvailable
      BY <3>1 DEF BuyerPaysAvailable
    <3>3. taker.filled + taker.remaining = taker.amount
      BY <2>1, <3>1 DEF AccountedIn
    <3> QED BY <1>2, <1>3, <2>2, <3>2, <3>3
  <2>5. taker'.type = "MARKET" => taker'.spent = TradedOf(trades', new, "quote")
    BY <1>2, <1>6, <2>1 DEF AccountedIn
  <2>6. taker'.type = "MARKET" /\ taker'.side = "BUY" => taker'.spent <= taker'.requested
    BY <1>1, <1>2, <2>2 DEF BuyerPaysAvailable, QuoteLeft
  <2> QED BY <2>3, <2>4, <2>5, <2>6 DEF AccountedIn
<1> QED BY <1>1, <1>3, <1>7, <1>8 DEF FillsKept, new

-----------------------------------------------------------------------------
\* The other steps

LEMMA InitBook == Init => BookInv
<1> SUFFICES ASSUME Init PROVE BookInv
  OBVIOUS
<1>1. LockInv
  BY InitLocks
<1>2. /\ orders = <<>> /\ trades = <<>> /\ phase = "IDLE" /\ rates = NoRates
      /\ Len(orders) = 0 /\ Len(trades) = 0
  BY DEF Init
<1>3. feeRates \in [Markets -> RatePairs]
  BY DEF Init, RatePairs
<1> QED BY <1>1, <1>2, <1>3 DEF BookInv, MakersActive, SavedBefore, TradesRefer, RefersWithin,
            RatesKept, PriorityKept, FillsKept

\* A step that changes no row and only strikes rows off the loop's list: all
\* of them, or its user's own.
LEMMA QuietBook ==
  ASSUME BookInv, LockInv', UNCHANGED <<orders, trades, phase, taker, rows, rates, saved>>,
         feeRates' \in [Markets -> RatePairs],
         phase = "MATCH" => \A i \in rows : userStatus'[orders[i].user] = userStatus[orders[i].user],
         \/ toVisit' = toVisit \/ toVisit' = {}
         \/ \E i \in toVisit : toVisit' = toVisit \ {i} /\ orders[i].user = taker.user
  PROVE  BookInv'
<1>1. MakersActive' /\ SavedBefore' /\ TradesRefer' /\ RatesKept' /\ FillsKept'
  BY DEF BookInv, MakersActive, SavedBefore, TradesRefer, RatesKept, FillsKept
<1>2. PriorityKept'
  <2> SUFFICES ASSUME phase = "MATCH", ~BuyerPaysAvailable
               PROVE  /\ InPriority'
                      /\ WantsMore(taker)' /\ toVisit' # {} =>
                           \A i \in rows \ toVisit' :
                             orders[i].user = taker.user \/ orders[i].remaining = 0
    BY DEF PriorityKept, BuyerPaysAvailable
  <2>1. InPriority'
    <3>1. InPriority
      BY DEF BookInv, PriorityKept
    <3>2. /\ \A i, j : Better(i, j)' <=> Better(i, j)
          /\ \A j : Hit(j)' <=> Hit(j)
      BY DEF Better, Hit
    <3> QED BY <3>1, <3>2 DEF InPriority
  <2>2. ASSUME WantsMore(taker)', toVisit' # {}, NEW i \in rows \ toVisit'
        PROVE  orders[i].user = taker.user \/ orders[i].remaining = 0
    <3>1. WantsMore(taker)
      BY <2>2 DEF WantsMore, QuoteLeft
    <3>2. \A j \in rows \ toVisit : orders[j].user = taker.user \/ orders[j].remaining = 0
      BY <2>2, <3>1 DEF BookInv, PriorityKept
    <3> QED BY <2>2, <3>2
  <2> QED BY <2>1, <2>2
<1> QED BY <1>1, <1>2 DEF BookInv

LEMMA AdministrationBook ==
  ASSUME BookInv, LockInv', Administration \/ UNCHANGED vars
  PROVE  BookInv'
<1>1. UNCHANGED <<orders, trades, phase, taker, rows, toVisit, rates, saved>>
  BY DEF Administration, SetUserStatus, SetMarketStatus, SetAssetStatus, UpdateFeeSettings,
         vars, tables, request
<1>2. feeRates' \in [Markets -> RatePairs]
  <2>1. feeRates \in [Markets -> RatePairs]
    BY DEF BookInv, RatesKept
  <2>2. CASE \E m \in Markets, b \in FeeRates, s \in FeeRates : UpdateFeeSettings(m, b, s)
    BY <2>1, <2>2 DEF UpdateFeeSettings, RatePairs
  <2> QED BY <2>1, <2>2 DEF Administration, SetUserStatus, SetMarketStatus, SetAssetStatus,
                vars, switches
<1>3. ASSUME phase = "MATCH", NEW i \in rows
      PROVE  userStatus'[orders[i].user] = userStatus[orders[i].user]
  <2>1. CASE \E u \in Freezable : SetUserStatus(u)
    <3>1. PICK u \in Freezable : SetUserStatus(u)
      BY <2>1
    <3>2. orders[i].user # u
      BY <1>3, <3>1 DEF SetUserStatus, UserRowHeld
    <3> QED BY <3>1, <3>2 DEF SetUserStatus
  <2> QED BY <2>1 DEF Administration, SetMarketStatus, SetAssetStatus, UpdateFeeSettings,
                vars, switches
<1> QED BY <1>1, <1>2, <1>3, QuietBook

LEMMA VisitBook ==
  ASSUME BookInv, LockInv', SkipOwn \/ MarketStop
  PROVE  BookInv'
<1>1. /\ UNCHANGED <<orders, trades, phase, taker, rows, rates, saved>>
      /\ feeRates' = feeRates /\ userStatus' = userStatus /\ phase = "MATCH" /\ toVisit # {}
  BY DEF SkipOwn, MarketStop, tables, switches, Looping
<1>2. NextMaker \in toVisit
  <2>1. orders \in Seq(OrderRec) /\ toVisit \subseteq DOMAIN orders
    BY DEF BookInv, LockInv, TypeInv, TypeOK, TheTables, TablesRec
  <2> QED BY <1>1, <2>1, NextMakerFirst
<1>3. \/ toVisit' = {}
      \/ toVisit' = toVisit \ {NextMaker} /\ orders[NextMaker].user = taker.user
  BY DEF SkipOwn, MarketStop, MeetsOwnOrder
<1>4. feeRates' \in [Markets -> RatePairs]
  BY <1>1 DEF BookInv, RatesKept
<1> QED BY <1>1, <1>2, <1>3, <1>4, QuietBook

LEMMA RequestsBook ==
  ASSUME BookInv, LockInv', Requests
  PROVE  BookInv'
<1>1. PICK u \in Users, m \in Markets, s \in Side :
        \/ \E p \in Prices, a \in Amounts : ReceiveLimit(u, m, s, p, a)
        \/ \E q \in (IF s = "BUY" THEN Spends ELSE Amounts) : ReceiveMarket(u, m, s, q)
  BY DEF Requests
<1>2. PICK o : Receive(o) /\ Fresh(o) /\ phase = "IDLE"
  BY <1>1 DEF ReceiveLimit, ReceiveMarket, LimitOrder, MarketOrder, Fresh, MayRequest, Side
<1>3. /\ UNCHANGED <<orders, trades, rates, feeRates>> /\ phase' = "CHECKED" /\ taker' = o
      /\ phase # "MATCH" /\ phase' # "MATCH"
  BY <1>2 DEF Receive, tables, switches
<1>4. FillsKept'
  BY <1>2, <1>3 DEF BookInv, FillsKept, Fresh
<1> QED BY <1>3, <1>4 DEF BookInv, MakersActive, SavedBefore, TradesRefer, RatesKept, PriorityKept

LEMMA PlaceBook ==
  ASSUME BookInv, LockInv', Place
  PROVE  BookInv'
<1>1. /\ phase = "CHECKED" /\ phase' = "MATCH" /\ saved' = TheTables
      /\ rows' = Resting(taker) /\ toVisit' = Resting(taker)
      /\ UNCHANGED <<orders, trades, taker, rates, feeRates, userStatus>>
  BY DEF Place, switches
<1>2. /\ TypeOK /\ TradesRefer /\ RatesKept /\ FillsKept
      /\ orders \in Seq(OrderRec) /\ trades \in Seq(TradeRec)
      /\ saved'.orders = orders /\ saved'.trades = trades
  BY <1>1 DEF BookInv, LockInv, TypeInv, TypeOK, TheTables, TablesRec
<1>3. /\ Len(orders) \in Nat /\ DOMAIN orders = 1..Len(orders)
      /\ Len(trades) \in Nat /\ DOMAIN trades = 1..Len(trades)
      /\ \A i \in 1..Len(orders) : orders[i] \in OrderRec
      /\ \A t \in 1..Len(trades) : trades[t] \in TradeRec
  BY <1>2, LenProperties, ElementOfSeq
<1>4. RefersWithin(trades, Len(orders))
  BY <1>1, <1>2 DEF TradesRefer
<1>5. \A t \in 1..Len(trades) : ~Concerns(trades[t], Len(orders) + 1)
  <2> TAKE t \in 1..Len(trades)
  <2>1. /\ trades[t].buyOrder \in Nat /\ trades[t].sellOrder \in Nat
        /\ trades[t].buyOrder <= Len(orders) /\ trades[t].sellOrder <= Len(orders)
    BY <1>3, <1>4 DEF TradeRec, RefersWithin
  <2>2. trades[t].buyOrder # Len(orders) + 1 /\ trades[t].sellOrder # Len(orders) + 1
    BY <1>3, <2>1
  <2> QED BY <2>2 DEF Concerns
<1>6. MakersActive'
  BY <1>1 DEF MakersActive, Resting
<1>7. SavedBefore'
  <2>1. \A i \in 1..Len(orders) : Advances(orders[i], orders[i])
    BY <1>3, AdvancesSelf
  <2> QED BY <1>1, <1>2, <1>3, <2>1 DEF SavedBefore
<1>8. TradesRefer'
  <2>1. RefersWithin(trades, Len(orders) + 1)
    <3>1. \A t \in 1..Len(trades) : trades[t].buyOrder \in Nat /\ trades[t].sellOrder \in Nat
      BY <1>3 DEF TradeRec
    <3> QED BY <1>3, <1>4, <3>1 DEF RefersWithin
  <2> QED BY <1>1, <1>2, <1>4, <2>1 DEF TradesRefer
<1>9. RatesKept'
  BY <1>1, <1>2, <1>5 DEF RatesKept
<1>10. PriorityKept'
  <2>1. \A j \in DOMAIN orders : ~Hit(j)'
    <3> SUFFICES ASSUME NEW j \in DOMAIN orders, NEW t \in 1..Len(trades),
                        {trades[t].buyOrder, trades[t].sellOrder} = {j, Len(orders) + 1}
                 PROVE  FALSE
      BY <1>1, <1>3 DEF Hit
    <3> QED BY <1>5 DEF Concerns
  <2>2. rows' \subseteq DOMAIN orders
    BY <1>1 DEF Resting
  <2> QED BY <1>1, <2>1, <2>2 DEF PriorityKept, InPriority
<1>11. FillsKept'
  <2>1. Fresh(taker)
    BY <1>1, <1>2 DEF FillsKept
  <2>2. taker \in OrderRec
    BY <1>1, <1>2, RowTypes
  <2>3. TradedOf(trades, Len(orders) + 1, "amount") = 0 /\ TradedOf(trades, Len(orders) + 1, "quote") = 0
    BY <1>2, <1>3, <1>4, TradedNothing
  <2>4. AccountedIn(taker, Len(orders) + 1, trades)
    <3>1. taker.remaining \in Nat /\ taker.requested \in Nat
      BY <2>2 DEF OrderRec
    <3> QED BY <2>1, <2>3, <3>1 DEF Fresh, AccountedIn
  <2> QED BY <1>1, <1>2, <2>4 DEF FillsKept
<1> QED BY <1>6, <1>7, <1>8, <1>9, <1>10, <1>11 DEF BookInv

\* A placement that ends without a row of its own, its writes undone.
LEMMA EndBook ==
  ASSUME BookInv, LockInv', NEW reason, Done(reason), feeRates' = feeRates,
         \/ phase # "MATCH" /\ UNCHANGED <<orders, trades>>
         \/ phase = "MATCH" /\ orders' = saved.orders /\ trades' = saved.trades
  PROVE  BookInv'
<1>1. phase' = "IDLE" /\ rates' = NoRates
  BY DEF Done
<1>2. TradesRefer' /\ FillsKept'
  BY <1>1 DEF BookInv, TradesRefer, FillsKept
<1>3. RatesKept'
  BY <1>1 DEF BookInv, RatesKept
<1> QED BY <1>1, <1>2, <1>3 DEF BookInv, MakersActive, SavedBefore, PriorityKept

LEMMA CommitBook ==
  ASSUME BookInv, LockInv', phase = "MATCH", NEW row \in OrderRec, Commit(row),
         row.filled = taker.filled, row.remaining = taker.remaining, row.spent = taker.spent,
         row.type = taker.type, row.side = taker.side, row.requested = taker.requested,
         taker.type = "LIMIT" \/ taker.side = "SELL" => row.amount = taker.amount
  PROVE  BookInv'
<1>1. /\ orders' = Append(orders, row) /\ trades' = trades /\ feeRates' = feeRates
      /\ phase' = "IDLE" /\ rates' = NoRates
  BY DEF Commit, Done, switches
<1>2. orders \in Seq(OrderRec)
  BY DEF BookInv, LockInv, TypeInv, TypeOK, TheTables, TablesRec
<1>3. /\ Len(orders) \in Nat /\ Len(orders') = Len(orders) + 1
      /\ \A i \in 1..Len(orders) : orders'[i] = orders[i]
      /\ orders'[Len(orders) + 1] = row
  BY <1>1, <1>2, AppendProperties, LenProperties
<1>4. TradesRefer' /\ RatesKept'
  BY <1>1, <1>3 DEF BookInv, TradesRefer, RatesKept
<1>5. FillsKept'
  <2>1. AccountedIn(row, Len(orders) + 1, trades)
    <3>1. AccountedIn(taker, Len(orders) + 1, trades)
      BY DEF BookInv, FillsKept
    <3> QED BY <3>1 DEF AccountedIn
  <2>2. ASSUME NEW i \in 1..Len(orders') PROVE AccountedIn(orders'[i], i, trades)
    <3>1. CASE i \in 1..Len(orders)
      BY <1>3, <3>1 DEF BookInv, FillsKept
    <3>2. CASE i = Len(orders) + 1
      BY <1>3, <2>1, <3>2
    <3> QED BY <1>3, <3>1, <3>2
  <2> QED BY <1>1, <2>2 DEF FillsKept
<1> QED BY <1>1, <1>4, <1>5 DEF BookInv, MakersActive, SavedBefore, PriorityKept

LEMMA FinishBook ==
  ASSUME BookInv, LockInv', FinishLimit \/ FinishMarket
  PROVE  BookInv'
<1>1. TypeOK /\ phase = "MATCH"
  BY DEF BookInv, LockInv, TypeInv, FinishLimit, FinishMarket, LoopEnded
<1>2. taker \in OrderRec /\ Scale[taker.market] \in ScaleRec
  BY <1>1, RowTypes
<1>3. taker.spent \in Nat /\ taker.filled \in Nat /\ taker.amount \in Nat
      /\ taker.type \in {"LIMIT", "MARKET"}
  BY <1>2 DEF OrderRec
<1>4. CASE FinishLimit
  <2> DEFINE status == IF taker.filled = 0 THEN "OPEN"
                       ELSE IF taker.remaining = 0 THEN "FILLED" ELSE "PARTIAL_FILLED"
             row == [taker EXCEPT !.status = status]
  <2>1. Commit(row)
    BY <1>4 DEF FinishLimit
  <2>2. status \in OrderStatus
    BY DEF OrderStatus
  <2> HIDE DEF status
  <2>3. /\ row \in OrderRec
        /\ row.filled = taker.filled /\ row.remaining = taker.remaining /\ row.spent = taker.spent
        /\ row.type = taker.type /\ row.side = taker.side /\ row.requested = taker.requested
        /\ row.amount = taker.amount
    BY <1>2, <2>2 DEF OrderRec
  <2> HIDE DEF row
  <2> QED BY <1>1, <2>1, <2>3, CommitBook
<1>5. CASE FinishMarket
  <2> DEFINE amount == IF taker.side = "BUY" THEN taker.filled ELSE taker.amount
             average == AveragePrice(taker.spent, taker.filled, Scale[taker.market])
             status == IF WantsMore(taker) THEN "PARTIAL_FILLED_CANCELLED" ELSE "FILLED"
             row == [taker EXCEPT !.amount = amount, !.averagePrice = average, !.status = status]
  <2>1. Commit(row) /\ taker.type = "MARKET"
    BY <1>5 DEF FinishMarket
  <2>2. /\ amount \in Nat /\ average \in Nat /\ status \in OrderStatus
        /\ taker.type = "LIMIT" \/ taker.side = "SELL" => amount = taker.amount
    BY <1>2, <1>3, <2>1, AveragePriceNat DEF OrderStatus
  <2> HIDE DEF amount, average, status
  <2>3. /\ row \in OrderRec
        /\ row.filled = taker.filled /\ row.remaining = taker.remaining /\ row.spent = taker.spent
        /\ row.type = taker.type /\ row.side = taker.side /\ row.requested = taker.requested
        /\ row.amount = amount
    BY <1>2, <2>2 DEF OrderRec
  <2> HIDE DEF row
  <2> QED BY <1>1, <2>1, <2>2, <2>3, CommitBook
<1> QED BY <1>4, <1>5

\* The row of a cancelled order.
LEMMA CancelledRow ==
  ASSUME BookInv, NEW i \in DOMAIN orders, Cancel(i)
  PROVE  /\ orders \in Seq(OrderRec) /\ DOMAIN orders = 1..Len(orders) /\ i \in 1..Len(orders)
         /\ orders[i] \in OrderRec /\ IsOpen(orders[i])
         /\ Len(orders') = Len(orders) /\ Len(orders) \in Nat /\ DOMAIN orders' = DOMAIN orders
         /\ \A j \in 1..Len(orders) : j # i => orders'[j] = orders[j]
         /\ orders'[i] = [orders[i] EXCEPT !.status = "CANCELLED", !.locked = 0]
<1> DEFINE row == [orders[i] EXCEPT !.status = "CANCELLED", !.locked = 0]
<1>1. orders \in Seq(OrderRec)
  BY DEF BookInv, LockInv, TypeInv, TypeOK, TheTables, TablesRec
<1>2. DOMAIN orders = 1..Len(orders) /\ Len(orders) \in Nat /\ orders[i] \in OrderRec
  BY <1>1, LenProperties, ElementOfSeq
<1>3. IsOpen(orders[i]) /\ orders' = [orders EXCEPT ![i] = row]
  BY DEF Cancel, MayCancel
<1>4. row \in OrderRec
  BY <1>2 DEF OrderRec, OrderStatus
<1> HIDE DEF row
<1>5. /\ Len(orders') = Len(orders) /\ DOMAIN orders' = DOMAIN orders
      /\ \A j \in 1..Len(orders) : orders'[j] = IF j = i THEN row ELSE orders[j]
  BY <1>1, <1>2, <1>3, <1>4, ExceptSeq
<1> QED BY <1>1, <1>2, <1>3, <1>5 DEF row

LEMMA CancelBook ==
  ASSUME BookInv, LockInv', NEW i \in DOMAIN orders, Cancel(i)
  PROVE  BookInv'
<1> DEFINE row == [orders[i] EXCEPT !.status = "CANCELLED", !.locked = 0]
<1>1. /\ phase # "MATCH"
      /\ UNCHANGED <<trades, phase, taker, rates, feeRates>>
  BY DEF Cancel, MayCancel, request, switches
<1>2. /\ orders[i] \in OrderRec /\ i \in 1..Len(orders)
      /\ Len(orders') = Len(orders) /\ Len(orders) \in Nat
      /\ \A j \in 1..Len(orders) : j # i => orders'[j] = orders[j]
      /\ orders'[i] = row
  BY CancelledRow
<1>3. /\ row.filled = orders[i].filled /\ row.remaining = orders[i].remaining
      /\ row.spent = orders[i].spent /\ row.type = orders[i].type /\ row.side = orders[i].side
      /\ row.requested = orders[i].requested /\ row.amount = orders[i].amount
  BY <1>2 DEF OrderRec
<1> HIDE DEF row
<1>4. TradesRefer' /\ RatesKept'
  BY <1>1, <1>2 DEF BookInv, TradesRefer, RatesKept
<1>5. FillsKept'
  <2>1. ASSUME NEW j \in 1..Len(orders) PROVE AccountedIn(orders'[j], j, trades)
    <3>1. AccountedIn(orders[j], j, trades)
      BY DEF BookInv, FillsKept
    <3>2. CASE j # i
      BY <1>2, <3>1, <3>2
    <3>3. CASE j = i
      BY <1>2, <1>3, <3>1, <3>3 DEF AccountedIn
    <3> QED BY <3>2, <3>3
  <2> QED BY <1>1, <1>2, <2>1 DEF BookInv, FillsKept
<1> QED BY <1>1, <1>4, <1>5 DEF BookInv, MakersActive, SavedBefore, PriorityKept

LEMMA FillBook ==
  ASSUME BookInv, LockInv', LimitFill \/ MarketFill
  PROVE  BookInv'
<1>1. LockInv /\ TypeOK /\ TypeInv'
  BY DEF BookInv, LockInv, TypeInv
<1>2. PICK i, f, q, l, r : Fills(i, f, q, l, r)
  BY <1>1, FillStep
<1>3. MakersActive'
  BY <1>1, <1>2, FillActive DEF BookInv
<1>4. SavedBefore'
  BY <1>1, <1>2, FillSaved DEF BookInv
<1>5. TradesRefer'
  BY <1>1, <1>2, FillRefers DEF BookInv
<1>6. RatesKept'
  BY <1>1, <1>2, FillRates DEF BookInv
<1>7. PriorityKept'
  BY <1>1, <1>2, FillPriority DEF BookInv
<1>8. FillsKept'
  BY <1>1, <1>2, FillAccounts DEF BookInv
<1> QED BY <1>3, <1>4, <1>5, <1>6, <1>7, <1>8 DEF BookInv

LEMMA ProgressBook ==
  ASSUME BookInv, LockInv', Progress
  PROVE  BookInv'
<1>1. CASE RejectFunds
  <2>1. phase # "MATCH" /\ Done("INSUFFICIENT") /\ UNCHANGED <<orders, trades, feeRates>>
    BY <1>1 DEF RejectFunds, tables, switches
  <2> QED BY <2>1, EndBook
<1>2. CASE MatchError
  <2>1. PICK f : Abort(f)
    BY <1>2 DEF MatchError
  <2>2. phase = "MATCH" /\ Done(f) /\ feeRates' = feeRates
        /\ orders' = saved.orders /\ trades' = saved.trades
    BY <1>2, <2>1 DEF MatchError, Looping, Abort, switches
  <2> QED BY <2>2, EndBook
<1>3. CASE NoLiquidity
  <2>1. phase = "MATCH" /\ Done("NO_LIQUIDITY") /\ feeRates' = feeRates
        /\ orders' = saved.orders /\ trades' = saved.trades
    BY <1>3 DEF NoLiquidity, LoopEnded, Abort, switches
  <2> QED BY <2>1, EndBook
<1> QED BY <1>1, <1>2, <1>3, PlaceBook, VisitBook, FillBook, FinishBook DEF Progress

LEMMA NextBook == BookInv /\ [Next]_vars => BookInv'
<1> SUFFICES ASSUME BookInv, [Next]_vars PROVE BookInv'
  OBVIOUS
<1>1. LockInv /\ LockInv'
  BY NextLocks DEF BookInv
<1>2. CASE Cancellations
  BY <1>1, <1>2, CancelBook DEF Cancellations
<1> QED BY <1>1, <1>2, RequestsBook, ProgressBook, AdministrationBook DEF Next

\* The invariant holds of every reachable state, and the one after it.
LEMMA BookHolds == Spec => []BookInv
BY InitBook, NextBook, PTL DEF Spec

-----------------------------------------------------------------------------
\* What the book promises

\* Price-time priority: findMatchesForUpdate orders the resting rows by price
\* and age, and the matching loop leaves a row of another user only once it has
\* nothing left to give.
THEOREM PriorityIsKept == Spec => []PriceTimePriority
<1>1. BookInv => PriceTimePriority
  BY DEF BookInv, PriorityKept, PriceTimePriority
<1> QED BY <1>1, BookHolds, PTL

LEMMA TradedSums ==
  ASSUME NEW i
  PROVE  TradedBase(i) = TradedOf(trades, i, "amount") /\ TradedQuote(i) = TradedOf(trades, i, "quote")
<1>1. TradedBase(i) = TradedOf(trades, i, "amount")
  BY DEF TradedBase, TradedOf, TradeWeights, Concerns
<1>2. TradedQuote(i) = TradedOf(trades, i, "quote")
  BY DEF TradedQuote, TradedOf, TradeWeights, Concerns
<1> QED BY <1>1, <1>2

\* applyFill and the trades insert write the same numbers: an order row adds up
\* to its trade rows, fills no more than was asked for, and a market buy spends
\* no more than it named, after any mix of fills, cancellations and rollbacks.
THEOREM FillsAddUp == Spec => []FillsAccounted
<1>1. ASSUME BookInv PROVE FillsAccounted
  <2>1. ASSUME NEW o, NEW i, AccountedIn(o, i, trades) PROVE Accounted(o, i)
    BY <2>1, TradedSums DEF AccountedIn, Accounted
  <2>2. orders \in Seq(OrderRec)
    BY <1>1 DEF BookInv, LockInv, TypeInv, TypeOK, TheTables, TablesRec
  <2>3. DOMAIN orders = 1..Len(orders)
    BY <2>2, LenProperties
  <2>4. FillsKept
    BY <1>1 DEF BookInv
  <2> QED BY <2>1, <2>3, <2>4 DEF FillsKept, FillsAccounted
<1> QED BY <1>1, BookHolds, PTL

\* The first fill of a placement reads the fee settings and the others reuse
\* what it read, so updateMarketFeeSettings between two fills splits no order.
THEOREM OneRateHolds == Spec => []OneRatePerPlacement
<1>1. ASSUME BookInv, phase = "MATCH"
      PROVE  \E b, s \in FeeRates : \A t \in DOMAIN trades :
               Len(orders) + 1 \in {trades[t].buyOrder, trades[t].sellOrder} =>
                 /\ trades[t].buyerFee = Fee(trades[t].amount, b)
                 /\ trades[t].sellerFee = Fee(trades[t].quote, s)
  <2>1. trades \in Seq(TradeRec)
    BY <1>1 DEF BookInv, LockInv, TypeInv, TypeOK, TheTables, TablesRec
  <2>2. DOMAIN trades = 1..Len(trades)
    BY <2>1, LenProperties
  <2>3. /\ rates = NoRates \/ rates \in RatePairs
        /\ \A t \in DOMAIN trades :
             Concerns(trades[t], Len(orders) + 1) => rates # NoRates /\ Charged(trades[t], rates)
    BY <1>1, <2>2 DEF BookInv, RatesKept
  <2>4. CASE rates = NoRates
    <3>1. PICK b \in FeeRates : TRUE
      BY NumbersAssumption
    <3>2. \A t \in DOMAIN trades : ~(Len(orders) + 1 \in {trades[t].buyOrder, trades[t].sellOrder})
      BY <2>3, <2>4 DEF Concerns
    <3> QED BY <3>1, <3>2
  <2>5. CASE rates \in RatePairs
    <3>1. rates.buyer \in FeeRates /\ rates.seller \in FeeRates
      BY <2>5 DEF RatePairs
    <3>2. \A t \in DOMAIN trades :
            Len(orders) + 1 \in {trades[t].buyOrder, trades[t].sellOrder} =>
              /\ trades[t].buyerFee = Fee(trades[t].amount, rates.buyer)
              /\ trades[t].sellerFee = Fee(trades[t].quote, rates.seller)
      BY <2>3 DEF Concerns, Charged
    <3> QED BY <3>1, <3>2
  <2> QED BY <2>3, <2>4, <2>5
<1>2. BookInv => OneRatePerPlacement
  BY <1>1 DEF OneRatePerPlacement
<1> QED BY <1>2, BookHolds, PTL

\* Trades are only added by a fill.
LEMMA TradesGrowByFill ==
  ASSUME BookInv, [Next]_vars, Len(trades') > Len(trades)
  PROVE  LimitFill \/ MarketFill
<1>1. Len(trades) \in Nat
  <2>1. trades \in Seq(TradeRec)
    BY DEF BookInv, LockInv, TypeInv, TypeOK, TheTables, TablesRec
  <2> QED BY <2>1, LenProperties
<1>2. trades' # trades
  BY <1>1
<1>3. ASSUME phase = "MATCH", trades' = saved.trades PROVE FALSE
  <2>1. Len(saved.trades) <= Len(trades)
    BY <1>3 DEF BookInv, SavedBefore
  <2>2. saved \in TablesRec
    BY <1>3 DEF BookInv, LockInv, TypeInv, TypeOK
  <2>3. saved.trades \in Seq(TradeRec)
    BY <2>2 DEF TablesRec
  <2>4. Len(saved.trades) \in Nat
    BY <2>3, LenProperties
  <2> QED BY <1>1, <1>3, <2>1, <2>4
<1>4. ~MatchError /\ ~NoLiquidity
  BY <1>3 DEF MatchError, NoLiquidity, Abort, Looping, LoopEnded
<1>5. ~Requests /\ ~Cancellations /\ ~Administration /\ ~UNCHANGED vars
  BY <1>2 DEF Requests, ReceiveLimit, ReceiveMarket, Receive, Cancellations, Cancel, Administration,
              SetUserStatus, SetMarketStatus, SetAssetStatus, UpdateFeeSettings, tables, vars
<1>6. ~Place /\ ~RejectFunds /\ ~SkipOwn /\ ~MarketStop /\ ~FinishLimit /\ ~FinishMarket
  BY <1>2 DEF Place, RejectFunds, SkipOwn, MarketStop, FinishLimit, FinishMarket, Commit, tables
<1> QED BY <1>4, <1>5, <1>6 DEF Next, Progress

\* The matching query locks the user's row of every order it returns, so a
\* resting order trades only while its user is ACTIVE.
THEOREM MakersTradeActive == Spec => MakersStayActive
<1> DEFINE A == \A i \in DOMAIN orders :
                  Len(trades') > Len(trades) /\ orders'[i] # orders[i]
                    => userStatus[orders[i].user] = "ACTIVE"
<1>1. ASSUME BookInv, BookInv', [Next]_vars, NEW j \in DOMAIN orders,
             Len(trades') > Len(trades), orders'[j] # orders[j]
      PROVE  userStatus[orders[j].user] = "ACTIVE"
  <2>1. LockInv /\ TypeOK /\ TypeInv' /\ MakersActive
    BY <1>1 DEF BookInv, LockInv, TypeInv
  <2>2. PICK i, f, q, l, r : Fills(i, f, q, l, r)
    BY <1>1, <2>1, TradesGrowByFill, FillStep
  <2>3. j = i
    BY <1>1, <2>1, <2>2, RowsAfterFill
  <2>4. i \in rows /\ phase = "MATCH"
    BY <2>1, <2>2 DEF Fills, Meets, TypeOK
  <2> QED BY <2>1, <2>3, <2>4 DEF MakersActive
<1>2. BookInv /\ BookInv' /\ [Next]_vars => [A]_vars
  BY <1>1
<1> QED BY <1>2, BookHolds, PTL DEF Spec, MakersStayActive

\* What other transactions see before a placement locks the book, they see
\* until it commits.
LEMMA CommittedTypes ==
  ASSUME BookInv
  PROVE  /\ Committed \in Seq(OrderRec) /\ DOMAIN Committed = 1..Len(Committed)
         /\ Len(Committed) = Len(orders) /\ Len(orders) \in Nat
         /\ \A i \in 1..Len(orders) : Committed[i] \in OrderRec
         /\ \A i \in 1..Len(orders) : Advances(Committed[i], orders[i])
<1>1. TypeOK
  BY DEF BookInv, LockInv, TypeInv
<1>2. orders \in Seq(OrderRec)
  BY <1>1 DEF TypeOK, TheTables, TablesRec
<1>3. Len(orders) \in Nat /\ \A i \in 1..Len(orders) : orders[i] \in OrderRec
  BY <1>2, LenProperties, ElementOfSeq
<1>4. CASE phase = "MATCH"
  <2>1. saved \in TablesRec
    BY <1>1, <1>4 DEF TypeOK
  <2>2. saved.orders \in Seq(OrderRec)
    BY <2>1 DEF TablesRec
  <2>3. DOMAIN saved.orders = 1..Len(saved.orders)
        /\ \A i \in 1..Len(saved.orders) : saved.orders[i] \in OrderRec
    BY <2>2, LenProperties, ElementOfSeq
  <2>4. Len(saved.orders) = Len(orders) /\ \A i \in 1..Len(orders) : Advances(saved.orders[i], orders[i])
    BY <1>4 DEF BookInv, SavedBefore
  <2> QED BY <1>3, <1>4, <2>2, <2>3, <2>4 DEF Committed
<1>5. CASE phase # "MATCH"
  <2>1. DOMAIN orders = 1..Len(orders)
    BY <1>2, LenProperties
  <2> QED BY <1>2, <1>3, <1>5, <2>1, AdvancesSelf DEF Committed
<1> QED BY <1>4, <1>5

\* A placement's writes show at its commit only, and a rollback undoes them:
\* rows are never deleted, closed ones never change, open ones only fill.
THEOREM OrdersAdvance == Spec => OrdersOnlyAdvance
<1> DEFINE A == \A i \in DOMAIN Committed :
                  /\ i \in DOMAIN Committed'
                  /\ Advances(Committed[i], Committed'[i])
<1>1. ASSUME BookInv, BookInv', [Next]_vars PROVE A
  <2>1. /\ DOMAIN Committed = 1..Len(orders) /\ Len(orders) \in Nat
        /\ \A i \in 1..Len(orders) : Committed[i] \in OrderRec
        /\ \A i \in 1..Len(orders) : Advances(Committed[i], orders[i])
    BY <1>1, CommittedTypes
  <2>2. DOMAIN orders' = 1..Len(orders')
    <3>1. orders' \in Seq(OrderRec)
      BY <1>1 DEF BookInv, LockInv, TypeInv, TypeOK, TheTables, TablesRec
    <3> QED BY <3>1, LenProperties
  <2>3. CASE Committed' = Committed
    BY <2>1, <2>3, AdvancesSelf
  <2>4. CASE FinishLimit \/ FinishMarket
    <3>1. PICK row : Commit(row)
      BY <2>4 DEF FinishLimit, FinishMarket
    <3>2. phase' # "MATCH" /\ orders' = Append(orders, row)
      BY <3>1 DEF Commit, Done
    <3>3. orders \in Seq(OrderRec) /\ orders' \in Seq(OrderRec)
      BY <1>1 DEF BookInv, LockInv, TypeInv, TypeOK, TheTables, TablesRec
    <3>4. Len(orders') = Len(orders) + 1 /\ \A i \in 1..Len(orders) : orders'[i] = orders[i]
      <4>1. orders' \in Seq(OrderRec \cup {row})
        BY <3>2, <3>3
      <4> QED BY <3>2, <3>3, AppendProperties
    <3>5. Committed' = orders'
      BY <3>2 DEF Committed
    <3> QED BY <2>1, <2>2, <3>4, <3>5
  <2>5. CASE Cancellations
    <3>1. PICK i \in DOMAIN orders : Cancel(i)
      BY <2>5 DEF Cancellations
    <3>2. phase # "MATCH" /\ phase' = phase
      BY <3>1 DEF Cancel, MayCancel, request
    <3>3. Committed = orders /\ Committed' = orders'
      BY <3>2 DEF Committed
    <3>4. /\ orders[i] \in OrderRec /\ IsOpen(orders[i]) /\ Len(orders') = Len(orders)
          /\ \A j \in 1..Len(orders) : j # i => orders'[j] = orders[j]
          /\ orders'[i] = [orders[i] EXCEPT !.status = "CANCELLED", !.locked = 0]
      BY <1>1, <3>1, CancelledRow
    <3>5. Advances(orders[i], orders'[i])
      <4> DEFINE o == orders[i]
                 p == [o EXCEPT !.status = "CANCELLED", !.locked = 0]
      <4>1. o.filled \in Nat /\ o.remaining \in Nat /\ o.locked \in Nat
        BY <3>4 DEF OrderRec
      <4>2. p.filled = o.filled /\ p.remaining = o.remaining /\ p.locked = 0
        BY <3>4 DEF OrderRec
      <4>3. [p EXCEPT !.filled = o.filled, !.remaining = o.remaining,
                      !.locked = o.locked, !.status = o.status] = o
        BY <3>4 DEF OrderRec
      <4> HIDE DEF p
      <4>4. Advances(o, p)
        BY <3>4, <4>1, <4>2, <4>3 DEF Advances
      <4> QED BY <3>4, <4>4 DEF p
    <3> QED BY <2>1, <2>2, <3>3, <3>4, <3>5, AdvancesSelf
  <2>6. CASE ~(FinishLimit \/ FinishMarket \/ Cancellations)
    <3>1. CASE phase = "MATCH" /\ phase' = "MATCH"
      <4>1. saved' = saved
        BY <1>1, <2>6, <3>1 DEF Next, Requests, ReceiveLimit, ReceiveMarket, MayRequest, Progress, Place,
             RejectFunds, SkipOwn, LimitFill, MarketFill, Settle, MarketStop, MatchError,
             NoLiquidity, Abort, Done, Administration, SetUserStatus, SetMarketStatus,
             SetAssetStatus, UpdateFeeSettings, request, vars
      <4> QED BY <2>3, <3>1, <4>1 DEF Committed
    <3>2. CASE phase = "MATCH" /\ phase' # "MATCH"
      <4>1. orders' = saved.orders
        BY <1>1, <2>6, <3>2 DEF Next, Requests, ReceiveLimit, ReceiveMarket, MayRequest, Progress, Place,
             RejectFunds, SkipOwn, LimitFill, MarketFill, Settle, MarketStop, MatchError,
             NoLiquidity, Abort, Administration, SetUserStatus, SetMarketStatus,
             SetAssetStatus, UpdateFeeSettings, request, vars
      <4> QED BY <2>3, <3>2, <4>1 DEF Committed
    <3>3. CASE phase # "MATCH"
      <4>1. orders' = orders /\ (phase' = "MATCH" => saved'.orders = orders)
        BY <1>1, <2>6, <3>3 DEF Next, Requests, ReceiveLimit, ReceiveMarket, Receive, Progress, Place,
             RejectFunds, SkipOwn, LimitFill, MarketFill, Looping, LoopEnded, MarketStop, MatchError,
             NoLiquidity, Administration, SetUserStatus, SetMarketStatus, Done,
             SetAssetStatus, UpdateFeeSettings, tables, request, vars, TheTables
      <4> QED BY <2>3, <3>3, <4>1 DEF Committed
    <3> QED BY <3>1, <3>2, <3>3
  <2> QED BY <2>4, <2>5, <2>6
<1>2. BookInv /\ BookInv' /\ [Next]_vars => [A]_vars
  BY <1>1
<1> QED BY <1>2, BookHolds, PTL DEF Spec, OrdersOnlyAdvance

-----------------------------------------------------------------------------
\* The book is not left crossed

\* Rows that only closed since cannot have come to cross.
LEMMA StillUncrossed ==
  ASSUME NEW os, NEW ps, Uncrossed(os), Len(ps) = Len(os),
         \A i \in 1..Len(os) :
           IsOpen(ps[i]) => /\ IsOpen(os[i])
                            /\ ps[i].side = os[i].side /\ ps[i].market = os[i].market
                            /\ ps[i].user = os[i].user /\ ps[i].price = os[i].price
  PROVE  Uncrossed(ps)
BY DEF Uncrossed

LEMMA FillUncrossed ==
  ASSUME UncrossedInv, TypeInv', LimitFill \/ MarketFill
  PROVE  Uncrossed(orders') /\ AllFound'
<1>1. LockInv /\ TypeOK /\ BookInv
  BY DEF UncrossedInv, BookInv, LockInv, TypeInv
<1>2. PICK i, f, q, l, r : Fills(i, f, q, l, r)
  BY <1>1, FillStep
<1>3. /\ orders[i] \in OrderRec /\ IsOpen(orders[i]) /\ i \in 1..Len(orders) /\ phase = "MATCH"
      /\ WantsMore(taker) /\ toVisit' = toVisit \ {i} /\ taker \in OrderRec
  BY <1>1, <1>2, RowTypes DEF Fills, Meets, Writes
<1>4. /\ Len(orders') = Len(orders) /\ DOMAIN orders = 1..Len(orders)
      /\ \A j \in 1..Len(orders) : j # i => orders'[j] = orders[j]
      /\ orders'[i] = AfterFill(orders[i], f, l)
      /\ f \in 0..orders[i].remaining /\ l \in Nat
  BY <1>1, <1>2, RowsAfterFill
<1>5. /\ orders'[i].side = orders[i].side /\ orders'[i].market = orders[i].market
      /\ orders'[i].user = orders[i].user /\ orders'[i].price = orders[i].price
      /\ orders'[i].status = IF orders[i].remaining = f THEN "FILLED" ELSE "PARTIAL_FILLED"
  BY <1>3, <1>4, AfterFillRow
<1>6. \A j \in 1..Len(orders) :
        IsOpen(orders'[j]) => /\ IsOpen(orders[j])
                              /\ orders'[j].side = orders[j].side /\ orders'[j].market = orders[j].market
                              /\ orders'[j].user = orders[j].user /\ orders'[j].price = orders[j].price
  BY <1>3, <1>4, <1>5
<1>7. Uncrossed(orders')
  <2>1. Uncrossed(orders)
    BY DEF UncrossedInv
  <2> QED BY <1>4, <1>6, <2>1, StillUncrossed
<1>8. AllFound'
  <2> SUFFICES ASSUME taker'.type = "LIMIT", NEW j \in 1..Len(orders'),
                      IsOpen(orders'[j]), orders'[j].user # taker'.user,
                      orders'[j].market = taker'.market, orders'[j].side = Opposite(taker'.side),
                      Crosses(taker', orders'[j]), ~(j \in toVisit')
               PROVE  taker'.remaining = 0
    BY DEF AllFound
  <2>1. /\ taker'.remaining = IF BuyerPaysAvailable THEN taker.remaining ELSE taker.remaining - f
        /\ taker'.user = taker.user /\ taker'.market = taker.market /\ taker'.side = taker.side
        /\ taker'.type = taker.type /\ taker'.price = taker.price
    BY <1>2 DEF Fills, TakerWrites
  <2>2. taker.type = "LIMIT" /\ ~BuyerPaysAvailable
    BY <2>1 DEF BuyerPaysAvailable
  <2>3. taker.remaining > 0 /\ taker.remaining \in Nat /\ orders[i].remaining \in Nat
    BY <1>3, <2>2 DEF WantsMore, OrderRec
  <2>4. CASE j # i
    <3>1. orders'[j] = orders[j] /\ j \in 1..Len(orders) /\ ~(j \in toVisit)
      BY <1>3, <1>4, <2>4
    <3>2. Crosses(taker, orders[j])
      BY <2>1, <3>1 DEF Crosses
    <3>3. taker.remaining = 0
      BY <1>3, <2>1, <2>2, <3>1, <3>2 DEF UncrossedInv, AllFound
    <3> QED BY <2>3, <3>3
  <2>5. CASE j = i
    <3>1. orders[i].remaining # f
      BY <1>5, <2>5 DEF IsOpen
    <3>2. f = Lesser(taker.remaining, orders[i].remaining)
      BY <1>2, <2>2 DEF Fills, Exchanges
    <3>3. f = taker.remaining
      BY <2>3, <3>1, <3>2 DEF Lesser
    <3> QED BY <2>1, <2>2, <2>3, <3>3
  <2> QED BY <2>4, <2>5
<1> QED BY <1>7, <1>8

LEMMA CommitUncrossed ==
  ASSUME UncrossedInv, FinishLimit \/ FinishMarket
  PROVE  Uncrossed(orders')
<1>1. TypeOK /\ LockInv /\ phase = "MATCH"
  BY DEF UncrossedInv, BookInv, LockInv, TypeInv, FinishLimit, FinishMarket, LoopEnded
<1>2. orders \in Seq(OrderRec) /\ taker \in OrderRec
  BY <1>1, RowTypes DEF TypeOK, TheTables, TablesRec
<1>3. PICK row : /\ Commit(row)
                 /\ row.side = taker.side /\ row.market = taker.market
                 /\ row.user = taker.user /\ row.price = taker.price
                 /\ IsOpen(row) => taker.type = "LIMIT" /\ (taker.filled = 0 \/ taker.remaining # 0)
  <2>1. CASE FinishLimit
    <3> DEFINE status == IF taker.filled = 0 THEN "OPEN"
                         ELSE IF taker.remaining = 0 THEN "FILLED" ELSE "PARTIAL_FILLED"
               row == [taker EXCEPT !.status = status]
    <3>1. Commit(row) /\ taker.type = "LIMIT"
      BY <2>1 DEF FinishLimit
    <3>2. /\ row.side = taker.side /\ row.market = taker.market
          /\ row.user = taker.user /\ row.price = taker.price /\ row.status = status
      BY <1>2 DEF OrderRec
    <3>3. IsOpen(row) => taker.filled = 0 \/ taker.remaining # 0
      <4> HIDE DEF row
      <4> QED BY <3>2 DEF IsOpen
    <3> HIDE DEF row
    <3> QED BY <3>1, <3>2, <3>3
  <2>2. CASE FinishMarket
    <3> DEFINE status == IF WantsMore(taker) THEN "PARTIAL_FILLED_CANCELLED" ELSE "FILLED"
               amount == IF taker.side = "BUY" THEN taker.filled ELSE taker.amount
               average == AveragePrice(taker.spent, taker.filled, Scale[taker.market])
               row == [taker EXCEPT !.amount = amount, !.averagePrice = average, !.status = status]
    <3>1. Commit(row)
      BY <2>2 DEF FinishMarket
    <3> HIDE DEF amount, average
    <3>2. /\ row.side = taker.side /\ row.market = taker.market
          /\ row.user = taker.user /\ row.price = taker.price /\ row.status = status
      BY <1>2 DEF OrderRec
    <3>3. ~IsOpen(row)
      BY <3>2 DEF IsOpen
    <3> HIDE DEF row
    <3> QED BY <3>1, <3>2, <3>3
  <2> QED BY <2>1, <2>2
<1>4. orders' = Append(orders, row)
  BY <1>3 DEF Commit
<1>5. /\ Len(orders) \in Nat /\ Len(orders') = Len(orders) + 1
      /\ \A i \in 1..Len(orders) : orders'[i] = orders[i] /\ orders[i] \in OrderRec
      /\ orders'[Len(orders) + 1] = row
  <2>1. orders \in Seq(OrderRec \cup {row}) /\ row \in OrderRec \cup {row}
    BY <1>2, ElementOfSeq
  <2> QED BY <1>2, <1>4, <2>1, AppendProperties, LenProperties, ElementOfSeq
<1>6. ASSUME IsOpen(row), NEW i \in 1..Len(orders),
             IsOpen(orders[i]), orders[i].user # taker.user,
             orders[i].market = taker.market, orders[i].side = Opposite(taker.side)
      PROVE  ~Crosses(taker, orders[i])
  <2>1. taker.type = "LIMIT" /\ LimitSound(taker)
    BY <1>1, <1>3, <1>6 DEF LockInv, TakerSound
  <2>2. taker.remaining \in Nat /\ taker.filled \in Nat /\ taker.amount \in Nat
    BY <1>2 DEF OrderRec
  <2>3. taker.remaining > 0
    BY <1>3, <1>6, <2>1, <2>2 DEF LimitSound
  <2>4. toVisit = {}
    BY <2>1, <2>3 DEF FinishLimit, FinishMarket, LoopEnded, WantsMore
  <2> QED BY <1>1, <1>6, <2>1, <2>2, <2>3, <2>4 DEF UncrossedInv, AllFound
<1>7. taker.price \in Nat /\ taker.side \in {"BUY", "SELL"}
      /\ \A i \in 1..Len(orders) : orders[i].price \in Nat
  BY <1>2, <1>5 DEF OrderRec, Side
<1> SUFFICES ASSUME NEW i \in 1..Len(orders'), NEW j \in 1..Len(orders'),
                    IsOpen(orders'[i]), orders'[i].side = "BUY",
                    IsOpen(orders'[j]), orders'[j].side = "SELL",
                    orders'[i].market = orders'[j].market,
                    orders'[i].user # orders'[j].user
             PROVE  orders'[i].price < orders'[j].price
  BY DEF Uncrossed
<1>8. CASE i \in 1..Len(orders) /\ j \in 1..Len(orders)
  BY <1>5, <1>8 DEF UncrossedInv, Uncrossed
<1>9. CASE i = Len(orders) + 1 /\ j \in 1..Len(orders)
  <2>1. orders'[i] = row /\ orders'[j] = orders[j]
    BY <1>5, <1>9
  <2>2. ~Crosses(taker, orders[j])
    BY <1>3, <1>6, <1>9, <2>1 DEF Opposite
  <2> QED BY <1>3, <1>7, <1>9, <2>1, <2>2 DEF Crosses
<1>10. CASE j = Len(orders) + 1 /\ i \in 1..Len(orders)
  <2>1. orders'[j] = row /\ orders'[i] = orders[i]
    BY <1>5, <1>10
  <2>2. ~Crosses(taker, orders[i])
    BY <1>3, <1>6, <1>10, <2>1 DEF Opposite
  <2> QED BY <1>3, <1>7, <1>10, <2>1, <2>2 DEF Crosses
<1>11. ~(i = Len(orders) + 1 /\ j = Len(orders) + 1)
  OBVIOUS
<1>12. /\ i \in 1..Len(orders) \/ i = Len(orders) + 1
       /\ j \in 1..Len(orders) \/ j = Len(orders) + 1
  BY <1>5
<1> QED BY <1>8, <1>9, <1>10, <1>11, <1>12

LEMMA InitUncrossed == Init => UncrossedInv
<1> SUFFICES ASSUME Init PROVE UncrossedInv
  OBVIOUS
<1>1. BookInv
  BY InitBook
<1>2. orders = <<>> /\ phase = "IDLE" /\ \A u \in Users : userStatus[u] = "ACTIVE"
  BY DEF Init
<1> QED BY <1>1, <1>2 DEF UncrossedInv, Uncrossed, AllFound

LEMMA PlaceUncrossed ==
  ASSUME UncrossedInv, Place
  PROVE  Uncrossed(orders') /\ Uncrossed(saved'.orders) /\ AllFound'
<1>1. /\ phase = "CHECKED" /\ saved' = TheTables /\ toVisit' = Resting(taker)
      /\ UNCHANGED <<orders, taker>>
  BY DEF Place
<1>2. Uncrossed(orders') /\ Uncrossed(saved'.orders)
  BY <1>1 DEF UncrossedInv, TheTables
<1>3. orders \in Seq(OrderRec) /\ RowsSound(orders)
  BY DEF UncrossedInv, BookInv, LockInv, TypeInv, TypeOK, TheTables, TablesRec
<1>4. DOMAIN orders = 1..Len(orders) /\ \A i \in 1..Len(orders) : orders[i] \in OrderRec
  BY <1>3, LenProperties, ElementOfSeq
<1>5. ASSUME NEW i \in 1..Len(orders), IsOpen(orders[i]),
             orders[i].market = taker.market, orders[i].side = Opposite(taker.side),
             Crosses(taker, orders[i])
      PROVE  i \in Resting(taker)
  <2>1. orders[i].user \in Users
    BY <1>4 DEF OrderRec
  <2>2. userStatus[orders[i].user] = "ACTIVE"
    BY <2>1 DEF UncrossedInv
  <2>3. Rests(orders[i])
    BY <1>3, <1>4, <1>5 DEF RowsSound, RowSound, OrderCovered, Rests
  <2> QED BY <1>4, <1>5, <2>2, <2>3 DEF Resting
<1>6. AllFound'
  BY <1>1, <1>5 DEF AllFound, Crosses
<1> QED BY <1>2, <1>6

LEMMA SkipUncrossed ==
  ASSUME UncrossedInv, SkipOwn \/ MarketStop
  PROVE  Uncrossed(orders') /\ AllFound'
<1>1. /\ UNCHANGED <<orders, taker, phase>>
      /\ \/ toVisit' = toVisit \ {NextMaker} /\ orders[NextMaker].user = taker.user
         \/ taker.type = "MARKET"
  BY DEF SkipOwn, MarketStop, MeetsOwnOrder, IsWorthless, tables
<1>2. AllFound'
  BY <1>1 DEF UncrossedInv, AllFound, Crosses
<1> QED BY <1>1, <1>2 DEF UncrossedInv

LEMMA CancelUncrossed ==
  ASSUME UncrossedInv, NEW i \in DOMAIN orders, Cancel(i)
  PROVE  Uncrossed(orders')
<1>1. /\ Len(orders') = Len(orders)
      /\ \A j \in 1..Len(orders) : j # i => orders'[j] = orders[j]
      /\ orders'[i] = [orders[i] EXCEPT !.status = "CANCELLED", !.locked = 0]
      /\ orders[i] \in OrderRec
  BY CancelledRow DEF UncrossedInv
<1>2. ~IsOpen(orders'[i])
  BY <1>1 DEF IsOpen, OrderRec
<1> QED BY <1>1, <1>2, StillUncrossed DEF UncrossedInv

LEMMA NextUncrossed == Freezable = {} /\ UncrossedInv /\ [Next]_vars => UncrossedInv'
<1> SUFFICES ASSUME Freezable = {}, UncrossedInv, [Next]_vars PROVE UncrossedInv'
  OBVIOUS
<1>1. BookInv /\ BookInv' /\ TypeInv'
  BY NextBook DEF UncrossedInv, BookInv, LockInv
<1>2. userStatus' = userStatus
  BY DEF Next, Requests, ReceiveLimit, ReceiveMarket, Receive, Progress, Place, RejectFunds,
         SkipOwn, LimitFill, MarketFill, Settle, MarketStop, MatchError, Abort, FinishLimit,
         FinishMarket, Commit, NoLiquidity, Cancellations, Cancel, Administration,
         SetMarketStatus, SetAssetStatus, UpdateFeeSettings, switches, vars
<1>3. \A u \in Users : userStatus'[u] = "ACTIVE"
  BY <1>2 DEF UncrossedInv
<1> SUFFICES Uncrossed(orders') /\ (phase' = "MATCH" => Uncrossed(saved'.orders)) /\ AllFound'
  BY <1>1, <1>3 DEF UncrossedInv
<1>4. CASE Place
  BY <1>4, PlaceUncrossed
<1>5. CASE SkipOwn \/ MarketStop
  <2>1. phase = "MATCH" /\ saved' = saved
    BY <1>5 DEF SkipOwn, MarketStop, Looping
  <2> QED BY <1>5, <2>1, SkipUncrossed DEF UncrossedInv
<1>6. CASE LimitFill \/ MarketFill
  <2>1. phase = "MATCH" /\ saved' = saved
    BY <1>6 DEF LimitFill, MarketFill, Settle, Looping
  <2> QED BY <1>1, <1>6, <2>1, FillUncrossed DEF UncrossedInv
<1>7. CASE FinishLimit \/ FinishMarket
  <2>1. phase' = "IDLE"
    BY <1>7 DEF FinishLimit, FinishMarket, Commit, Done
  <2> QED BY <1>7, <2>1, CommitUncrossed DEF AllFound
<1>8. CASE MatchError \/ NoLiquidity
  <2>1. phase = "MATCH" /\ phase' = "IDLE" /\ orders' = saved.orders
    BY <1>8 DEF MatchError, NoLiquidity, Abort, Done, Looping, LoopEnded
  <2> QED BY <2>1 DEF UncrossedInv, AllFound
<1>9. CASE RejectFunds
  <2>1. phase' = "IDLE" /\ orders' = orders
    BY <1>9 DEF RejectFunds, Done, tables
  <2> QED BY <2>1 DEF UncrossedInv, AllFound
<1>10. CASE Requests
  <2>1. phase' = "CHECKED" /\ orders' = orders
    BY <1>10 DEF Requests, ReceiveLimit, ReceiveMarket, Receive, tables
  <2> QED BY <2>1 DEF UncrossedInv, AllFound
<1>11. CASE Cancellations
  <2>1. PICK i \in DOMAIN orders : Cancel(i)
    BY <1>11 DEF Cancellations
  <2>2. phase' # "MATCH"
    BY <2>1 DEF Cancel, MayCancel, request
  <2> QED BY <2>1, <2>2, CancelUncrossed DEF AllFound
<1>12. CASE Administration \/ UNCHANGED vars
  <2>1. UNCHANGED <<orders, phase, taker, toVisit, saved>>
    BY <1>12 DEF Administration, SetUserStatus, SetMarketStatus, SetAssetStatus,
                 UpdateFeeSettings, vars, tables, request
  <2> QED BY <2>1 DEF UncrossedInv, AllFound, Crosses
<1> QED BY <1>4, <1>5, <1>6, <1>7, <1>8, <1>9, <1>10, <1>11, <1>12 DEF Next, Progress

\* While no account is ever frozen the matching query finds every order a
\* placement would trade with, and neither the taker's own orders in between
\* nor a rollback leaves two users' open orders at prices that would trade.
THEOREM BookStaysUncrossed ==
  ASSUME Freezable = {}
  PROVE  Spec => []BookNotCrossed
<1>1. Init => UncrossedInv
  BY InitUncrossed
<1>2. UncrossedInv /\ [Next]_vars => UncrossedInv'
  BY NextUncrossed
<1>3. ASSUME UncrossedInv PROVE BookNotCrossed
  <2>1. orders \in Seq(OrderRec)
    BY <1>3 DEF UncrossedInv, BookInv, LockInv, TypeInv, TypeOK, TheTables, TablesRec
  <2>2. DOMAIN orders = 1..Len(orders)
    BY <2>1, LenProperties
  <2> QED BY <1>3, <2>2 DEF UncrossedInv, Uncrossed, BookNotCrossed
<1> QED BY <1>1, <1>2, <1>3, PTL DEF Spec

-----------------------------------------------------------------------------
\* The walk of a preview

WalkStart(found, r) == [todo |-> found, left |-> r.left, fills |-> <<>>]

\* f is the first n turns of a walk.
Turns(f, os, found, rate, r, n) ==
  /\ f = [i \in 0..n |-> f[i]]
  /\ f[0] = WalkStart(found, r)
  /\ \A i \in 1..n : f[i] = Turn(os, rate, r, f[i - 1])

IsWalk(f, os, found, rate, r) ==
  f = [i \in Nat |-> IF i = 0 THEN WalkStart(found, r) ELSE Turn(os, rate, r, f[i - 1])]

LEMMA TurnsExist ==
  ASSUME NEW os, NEW found, NEW rate, NEW r
  PROVE  \A n \in Nat : \E f : Turns(f, os, found, rate, r, n)
<1> DEFINE S == {n \in Nat : \E f : Turns(f, os, found, rate, r, n)}
<1>1. 0 \in S
  <2>1. Turns([i \in 0..0 |-> WalkStart(found, r)], os, found, rate, r, 0)
    BY DEF Turns
  <2> QED BY <2>1
<1>2. ASSUME NEW n \in Nat, n \in S PROVE n + 1 \in S
  <2>1. PICK f : Turns(f, os, found, rate, r, n)
    BY <1>2
  <2> DEFINE x == Turn(os, rate, r, f[n])
             g == [i \in 0..(n + 1) |-> IF i = n + 1 THEN x ELSE f[i]]
  <2>2. g[n + 1] = x /\ \A i \in 0..n : g[i] = f[i]
    OBVIOUS
  <2>3. g = [i \in 0..(n + 1) |-> g[i]]
    OBVIOUS
  <2> HIDE DEF x, g
  <2>4. \A i \in 1..(n + 1) : g[i] = Turn(os, rate, r, g[i - 1])
    <3> TAKE i \in 1..(n + 1)
    <3>1. CASE i = n + 1
      <4>1. i - 1 = n /\ n \in 0..n
        BY <3>1
      <4> QED BY <2>2, <3>1, <4>1 DEF x
    <3>2. CASE i # n + 1
      <4>1. i \in 1..n /\ i \in 0..n /\ i - 1 \in 0..n
        BY <3>2
      <4>2. f[i] = Turn(os, rate, r, f[i - 1])
        BY <2>1, <4>1 DEF Turns
      <4> QED BY <2>2, <4>1, <4>2
    <3> QED BY <3>1, <3>2
  <2>5. g[0] = WalkStart(found, r)
    BY <2>1, <2>2 DEF Turns
  <2>6. Turns(g, os, found, rate, r, n + 1)
    BY <2>3, <2>4, <2>5 DEF Turns
  <2> QED BY <2>6
<1>3. \A n \in Nat : n \in S
  <2> HIDE DEF S
  <2> QED BY <1>1, <1>2, SetInduction
<1> QED BY <1>3

\* Two runs of the same walk agree where both have got to.
LEMMA TurnsUnique ==
  ASSUME NEW os, NEW found, NEW rate, NEW r, NEW f, NEW g, NEW n \in Nat, NEW m \in Nat,
         Turns(f, os, found, rate, r, n), Turns(g, os, found, rate, r, m)
  PROVE  \A i \in Nat : i <= n /\ i <= m => f[i] = g[i]
<1> DEFINE S == {i \in Nat : i <= n /\ i <= m => f[i] = g[i]}
<1>1. 0 \in S
  BY DEF Turns
<1>2. ASSUME NEW i \in Nat, i \in S PROVE i + 1 \in S
  <2>1. CASE i + 1 <= n /\ i + 1 <= m
    <3>1. f[i] = g[i]
      BY <1>2, <2>1
    <3>2. i + 1 \in 1..n /\ i + 1 \in 1..m /\ (i + 1) - 1 = i
      BY <2>1
    <3>3. f[i + 1] = Turn(os, rate, r, f[i]) /\ g[i + 1] = Turn(os, rate, r, g[i])
      BY <3>2 DEF Turns
    <3> QED BY <3>1, <3>3
  <2>2. CASE ~ (i + 1 <= n /\ i + 1 <= m)
    BY <2>2
  <2> QED BY <2>1, <2>2
<1>3. \A i \in Nat : i \in S
  <2> HIDE DEF S
  <2> QED BY <1>1, <1>2, SetInduction
<1> QED BY <1>3

\* The recursive function of Preview exists: it takes at n the value any n
\* turns end with.
LEMMA WalkExists ==
  ASSUME NEW os, NEW found, NEW rate, NEW r
  PROVE  \E f : IsWalk(f, os, found, rate, r)
<1> DEFINE P(n) == CHOOSE g : Turns(g, os, found, rate, r, n)
           f == [n \in Nat |-> P(n)[n]]
<1>1. \A n \in Nat : Turns(P(n), os, found, rate, r, n)
  BY TurnsExist
<1> HIDE DEF P
<1>2. f[0] = WalkStart(found, r)
  BY <1>1 DEF Turns
<1>3. ASSUME NEW i \in Nat, i # 0
      PROVE  f[i] = Turn(os, rate, r, f[i - 1])
  <2>1. i - 1 \in Nat /\ i - 1 <= i /\ i \in 1..i
    BY <1>3
  <2>2. Turns(P(i), os, found, rate, r, i) /\ Turns(P(i - 1), os, found, rate, r, i - 1)
    BY <1>1, <2>1
  <2>3. P(i)[i - 1] = P(i - 1)[i - 1]
    BY <2>1, <2>2, TurnsUnique
  <2>4. P(i)[i] = Turn(os, rate, r, P(i)[i - 1])
    BY <2>1, <2>2 DEF Turns
  <2> QED BY <2>1, <2>3, <2>4
<1>4. f = [i \in Nat |-> IF i = 0 THEN WalkStart(found, r) ELSE Turn(os, rate, r, f[i - 1])]
  BY <1>2, <1>3
<1> HIDE DEF f
<1> QED BY <1>4 DEF IsWalk

\* The equations a walk is used through.
LEMMA WalkDef ==
  ASSUME NEW os, NEW found, NEW rate, NEW r
  PROVE  LET w == Walk(os, found, rate, r)
         IN  /\ w[0] = WalkStart(found, r)
             /\ \A n \in Nat : w[n + 1] = Turn(os, rate, r, w[n])
<1> DEFINE w == Walk(os, found, rate, r)
<1>1. w = CHOOSE f : IsWalk(f, os, found, rate, r)
  BY DEF Walk, IsWalk, WalkStart
<1>2. IsWalk(w, os, found, rate, r)
  <2> HIDE DEF w
  <2> QED BY <1>1, WalkExists
<1> HIDE DEF w
<1>3. w = [i \in Nat |-> IF i = 0 THEN WalkStart(found, r) ELSE Turn(os, rate, r, w[i - 1])]
  BY <1>2 DEF IsWalk
<1>4. w[0] = WalkStart(found, r)
  BY <1>3
<1>5. ASSUME NEW n \in Nat PROVE w[n + 1] = Turn(os, rate, r, w[n])
  <2>1. n + 1 \in Nat /\ n + 1 # 0 /\ (n + 1) - 1 = n
    OBVIOUS
  <2> QED BY <1>3, <2>1
<1> QED BY <1>4, <1>5 DEF w

-----------------------------------------------------------------------------
\* One turn of it

\* There is a first of any rows, as there is for the loop (NextMakerFirst) ...
LEMMA FirstOfRows ==
  ASSUME NEW os \in Seq(OrderRec), NEW side, NEW todo \in SUBSET (1..Len(os)), todo # {}
  PROVE  /\ FirstOf(os, side, todo) \in todo
         /\ \A j \in todo \ {FirstOf(os, side, todo)} : Ahead(os, side, FirstOf(os, side, todo), j)
<1> DEFINE f == [i \in todo |-> os[i].price]
<1>1. Len(os) \in Nat /\ todo \in SUBSET Nat
  BY LenProperties
<1>2. \A i \in todo : f[i] = os[i].price /\ f[i] \in Nat
  <2> TAKE i \in todo
  <2>1. os[i] \in OrderRec
    BY ElementOfSeq
  <2> QED BY <2>1 DEF OrderRec
<1> HIDE DEF f
<1>3. \E i \in todo : \A j \in todo \ {i} : Ahead(os, side, i, j)
  <2>1. CASE side = "BUY"
    <3>1. PICK i \in todo : \A j \in todo \ {i} : IF f[i] = f[j] THEN i < j ELSE f[i] < f[j]
      BY <1>1, <1>2, LeastRow
    <3>2. ASSUME NEW j \in todo \ {i} PROVE Ahead(os, side, i, j)
      <4>1. f[i] = os[i].price /\ f[j] = os[j].price
        BY <1>2
      <4>2. IF f[i] = f[j] THEN i < j ELSE f[i] < f[j]
        BY <3>1
      <4> QED BY <2>1, <4>1, <4>2 DEF Ahead
    <3> QED BY <3>2
  <2>2. CASE side # "BUY"
    <3>1. PICK i \in todo : \A j \in todo \ {i} : IF f[i] = f[j] THEN i < j ELSE f[i] > f[j]
      BY <1>1, <1>2, GreatestRow
    <3>2. ASSUME NEW j \in todo \ {i} PROVE Ahead(os, side, i, j)
      <4>1. f[i] = os[i].price /\ f[j] = os[j].price
        BY <1>2
      <4>2. IF f[i] = f[j] THEN i < j ELSE f[i] > f[j]
        BY <3>1
      <4> QED BY <2>2, <4>1, <4>2 DEF Ahead
    <3> QED BY <3>2
  <2> QED BY <2>1, <2>2
<1> QED BY <1>3 DEF FirstOf

\* ... and only one.
LEMMA FirstIsUnique ==
  ASSUME NEW os \in Seq(OrderRec), NEW side, NEW todo \in SUBSET (1..Len(os)), NEW i \in todo,
         \A j \in todo \ {i} : Ahead(os, side, i, j)
  PROVE  FirstOf(os, side, todo) = i
<1> DEFINE k == FirstOf(os, side, todo)
<1>1. k \in todo /\ \A j \in todo \ {k} : Ahead(os, side, k, j)
  BY FirstOfRows
<1> HIDE DEF k
<1>2. ASSUME k # i PROVE FALSE
  <2>1. Ahead(os, side, i, k) /\ Ahead(os, side, k, i)
    BY <1>1, <1>2
  <2>2. os[i] \in OrderRec /\ os[k] \in OrderRec /\ i \in Nat /\ k \in Nat
    BY <1>1, ElementOfSeq, LenProperties
  <2>3. os[i].price \in Nat /\ os[k].price \in Nat
    BY <2>2 DEF OrderRec
  <2> QED BY <2>1, <2>2, <2>3 DEF Ahead
<1> QED BY <1>2 DEF k

FillRec == [maker : Nat, amount : Nat, quote : Nat, buyerFee : Nat, sellerFee : Nat]

\* A fill takes no more than the row has and no more than is left.
LEMMA PreviewFillSound ==
  ASSUME NEW os \in Seq(OrderRec), NEW rate \in RateRec, NEW r, r.market \in Markets,
         NEW i \in 1..Len(os), NEW left \in Nat
  PROVE  LET next == PreviewFill(os, rate, r, i, left)
         IN  /\ next \in FillRec /\ next.maker = i
             /\ next.amount \in 0..os[i].remaining /\ os[i].remaining \in Nat
             /\ PreviewLeft(r, left, next) \in Nat
<1> DEFINE sc == Scale[r.market]
           p == os[i].price
           rest == os[i].remaining
           fill == IF r.side = "BUY" THEN MarketBuyFill(left, p, rest, sc) ELSE Lesser(left, rest)
           quote == QuoteFloor(p, fill, sc)
           next == PreviewFill(os, rate, r, i, left)
           bf == Fee(fill, rate.buyer)
           sf == Fee(quote, rate.seller)
<1>1. sc \in ScaleRec /\ i \in Nat /\ os[i] \in OrderRec
  BY NumbersAssumption, LenProperties, ElementOfSeq
<1>2. p \in Nat /\ rest \in Nat /\ rate.buyer \in 0..MaxFeeRate /\ rate.seller \in 0..MaxFeeRate
  BY <1>1 DEF OrderRec, RateRec
<1>3. next = [maker |-> i, amount |-> fill, quote |-> quote, buyerFee |-> bf, sellerFee |-> sf]
  BY DEF PreviewFill
<1>4. fill \in 0..rest /\ IF r.side = "BUY" THEN quote <= left ELSE fill <= left
  <2> HIDE DEF sc, p, rest
  <2>1. CASE r.side = "BUY"
    BY <1>1, <1>2, <2>1, MarketBuyWithinSpend
  <2>2. CASE r.side # "BUY"
    BY <1>2, <2>2 DEF Lesser
  <2> QED BY <2>1, <2>2
<1> HIDE DEF fill, p, rest, sc
<1>5. fill \in Nat
  BY <1>2, <1>4
<1>6. quote \in Nat
  BY <1>1, <1>2, <1>5, QuoteFloorBounds
<1> HIDE DEF quote
<1>7. bf \in Nat /\ sf \in Nat
  <2>1. bf \in 0..fill /\ sf \in 0..quote
    BY <1>2, <1>5, <1>6, FeeWithinAmount
  <2> HIDE DEF bf, sf
  <2> QED BY <1>5, <1>6, <2>1
<1> HIDE DEF bf, sf, next
<1>8. next.amount = fill /\ next.quote = quote /\ next.maker = i /\ next \in FillRec
  BY <1>1, <1>3, <1>5, <1>6, <1>7 DEF FillRec
<1>9. PreviewLeft(r, left, next) \in Nat
  BY <1>4, <1>5, <1>6, <1>8 DEF PreviewLeft
<1> QED BY <1>2, <1>4, <1>8, <1>9 DEF next, rest

-----------------------------------------------------------------------------
\* What fills take and what rests

RestWeights(os, on, p) ==
  [i \in Nat |-> IF i \in on THEN IF os[i].price = p THEN os[i].remaining ELSE 0 ELSE 0]
TakenWeights(os, fills, p) ==
  [t \in Nat |-> IF t \in DOMAIN fills
                   THEN IF os[fills[t].maker].price = p THEN fills[t].amount ELSE 0 ELSE 0]

LEMMA RestWeightsNat ==
  ASSUME NEW os \in Seq(OrderRec), NEW on \in SUBSET (1..Len(os)), NEW p
  PROVE  /\ Len(os) \in Nat
         /\ \A i \in Nat : RestWeights(os, on, p)[i] \in Nat
         /\ RestingAt(os, on, p) = SumTo(RestWeights(os, on, p), Len(os))
         /\ RestingAt(os, on, p) \in Nat
<1> DEFINE w == RestWeights(os, on, p)
<1>1. Len(os) \in Nat
  BY LenProperties
<1>2. \A i \in Nat :
        w[i] = IF i \in on THEN IF os[i].price = p THEN os[i].remaining ELSE 0 ELSE 0
  BY DEF RestWeights
<1>3. \A i \in on : os[i].remaining \in Nat
  <2> TAKE i \in on
  <2>1. os[i] \in OrderRec
    BY ElementOfSeq
  <2> QED BY <2>1 DEF OrderRec
<1>4. RestingAt(os, on, p) = SumTo(w, Len(os))
  BY DEF RestingAt, RestWeights
<1> HIDE DEF w
<1>5. \A i \in Nat : w[i] \in Nat
  BY <1>2, <1>3
<1>6. SumTo(w, Len(os)) \in Nat
  BY <1>1, <1>5, SumToNat
<1> QED BY <1>1, <1>4, <1>5, <1>6 DEF w

\* Fewer rows have no more at a price.
LEMMA RestingLess ==
  ASSUME NEW os \in Seq(OrderRec), NEW on \in SUBSET (1..Len(os)), NEW few \in SUBSET on, NEW p
  PROVE  RestingAt(os, few, p) <= RestingAt(os, on, p)
<1> DEFINE w == RestWeights(os, on, p)
           v == RestWeights(os, few, p)
           d == [i \in Nat |-> w[i] - v[i]]
           n == Len(os)
<1>1. /\ n \in Nat /\ (\A i \in Nat : w[i] \in Nat /\ v[i] \in Nat /\ v[i] <= w[i])
      /\ RestingAt(os, on, p) = SumTo(w, n) /\ RestingAt(os, few, p) = SumTo(v, n)
      /\ SumTo(w, n) \in Nat /\ SumTo(v, n) \in Nat
  <2>1. few \in SUBSET (1..Len(os))
    OBVIOUS
  <2>2. /\ n \in Nat /\ (\A i \in Nat : w[i] \in Nat)
        /\ RestingAt(os, on, p) = SumTo(w, n) /\ RestingAt(os, on, p) \in Nat
    BY RestWeightsNat
  <2>3. /\ (\A i \in Nat : v[i] \in Nat)
        /\ RestingAt(os, few, p) = SumTo(v, n) /\ RestingAt(os, few, p) \in Nat
    BY <2>1, RestWeightsNat
  <2>5. \A i \in Nat :
          w[i] = IF i \in on THEN IF os[i].price = p THEN os[i].remaining ELSE 0 ELSE 0
    BY DEF RestWeights
  <2>6. \A i \in Nat :
          v[i] = IF i \in few THEN IF os[i].price = p THEN os[i].remaining ELSE 0 ELSE 0
    BY DEF RestWeights
  <2> HIDE DEF w, v, n
  <2>4. \A i \in Nat : v[i] <= w[i]
    <3> TAKE i \in Nat
    <3>1. i \in few => v[i] = w[i]
      BY <2>5, <2>6
    <3>2. i \notin few => v[i] = 0
      BY <2>6
    <3> QED BY <2>2, <2>3, <3>1, <3>2
  <2> QED BY <2>2, <2>3, <2>4
<1> HIDE DEF w, v, n
<1>2. \A i \in Nat : d[i] = w[i] - v[i] /\ d[i] \in Nat
  BY <1>1
<1> HIDE DEF d
<1>3. \A i \in Nat : w[i] \in Int /\ v[i] \in Int /\ d[i] \in Int /\ v[i] = w[i] - d[i]
  BY <1>1, <1>2
<1>4. SumTo(v, n) = SumTo(w, n) - SumTo(d, n)
  BY <1>1, <1>3, SumToMinus
<1>5. SumTo(d, n) \in Nat
  BY <1>1, <1>2, SumToNat
<1> QED BY <1>1, <1>4, <1>5

\* Without one row there is as much less as that row has.
LEMMA RestingWithout ==
  ASSUME NEW os \in Seq(OrderRec), NEW on \in SUBSET (1..Len(os)), NEW i \in on, NEW p
  PROVE  RestingAt(os, on, p)
           = RestingAt(os, on \ {i}, p) + IF os[i].price = p THEN os[i].remaining ELSE 0
<1> DEFINE w == RestWeights(os, on \ {i}, p)
           v == RestWeights(os, on, p)
           n == Len(os)
           x == IF os[i].price = p THEN os[i].remaining ELSE 0
<1>1. on \ {i} \in SUBSET (1..Len(os)) /\ i \in 1..n /\ i \in Nat /\ n \in Nat
  BY LenProperties
<1>2. /\ (\A j \in Nat : w[j] \in Nat) /\ RestingAt(os, on \ {i}, p) = SumTo(w, n)
      /\ RestingAt(os, on \ {i}, p) \in Nat
  BY <1>1, RestWeightsNat
<1>3. (\A j \in Nat : v[j] \in Nat) /\ RestingAt(os, on, p) = SumTo(v, n)
  BY RestWeightsNat
<1>4. w[i] = 0 /\ v[i] = x /\ \A j \in Nat : j # i => w[j] = v[j]
  BY <1>1 DEF RestWeights
<1> HIDE DEF w, v
<1>5. x \in Nat
  BY <1>1, <1>3, <1>4
<1> HIDE DEF x, n
<1>6. \A j \in Nat : w[j] \in Int /\ v[j] \in Int
  BY <1>2, <1>3
<1>7. SumTo(v, n) = SumTo(w, n) - w[i] + v[i]
  BY <1>1, <1>4, <1>6, SumToUpdate
<1>8. SumTo(v, n) = SumTo(w, n) + x
  BY <1>2, <1>4, <1>5, <1>7
<1> QED BY <1>2, <1>3, <1>8 DEF x

\* A further fill takes its amount, at the price of its row.
LEMMA TakenWeightsNat ==
  ASSUME NEW os, NEW fills \in Seq(FillRec), NEW p
  PROVE  /\ Len(fills) \in Nat
         /\ \A t \in Nat : TakenWeights(os, fills, p)[t] \in Nat
         /\ TakenAt(os, fills, p) = SumTo(TakenWeights(os, fills, p), Len(fills))
         /\ TakenAt(os, fills, p) \in Nat
<1> DEFINE w == TakenWeights(os, fills, p)
           n == Len(fills)
<1>1. n \in Nat /\ DOMAIN fills = 1..n
  BY LenProperties
<1>2. \A t \in Nat : w[t] = IF t \in 1..n
        THEN IF os[fills[t].maker].price = p THEN fills[t].amount ELSE 0 ELSE 0
  BY <1>1 DEF TakenWeights
<1>3. \A t \in 1..n : fills[t].amount \in Nat
  <2> TAKE t \in 1..n
  <2>1. fills[t] \in FillRec
    BY ElementOfSeq
  <2> QED BY <2>1 DEF FillRec
<1>4. TakenAt(os, fills, p) = SumTo(w, n)
  BY DEF TakenAt, TakenWeights
<1> HIDE DEF w, n
<1>5. \A t \in Nat : w[t] \in Nat
  BY <1>2, <1>3
<1>6. SumTo(w, n) \in Nat
  BY <1>1, <1>5, SumToNat
<1> QED BY <1>1, <1>4, <1>5, <1>6 DEF w, n

LEMMA TakenAppend ==
  ASSUME NEW os, NEW fills \in Seq(FillRec), NEW next \in FillRec, NEW p
  PROVE  /\ TakenAt(os, fills, p) \in Nat
         /\ TakenAt(os, Append(fills, next), p)
              = TakenAt(os, fills, p) + IF os[next.maker].price = p THEN next.amount ELSE 0
<1> DEFINE more == Append(fills, next)
           w == TakenWeights(os, fills, p)
           v == TakenWeights(os, more, p)
           n == Len(fills)
           x == IF os[next.maker].price = p THEN next.amount ELSE 0
<1>1. /\ more \in Seq(FillRec) /\ Len(more) = n + 1
      /\ (\A t \in 1..n : more[t] = fills[t]) /\ more[n + 1] = next
  BY AppendProperties
<1>2. /\ n \in Nat /\ DOMAIN fills = 1..n /\ (\A t \in Nat : w[t] \in Nat)
      /\ TakenAt(os, fills, p) = SumTo(w, n) /\ TakenAt(os, fills, p) \in Nat
  BY TakenWeightsNat, LenProperties
<1> HIDE DEF more
<1>3. /\ DOMAIN more = 1..(n + 1) /\ (\A t \in Nat : v[t] \in Nat)
      /\ TakenAt(os, more, p) = SumTo(v, n + 1)
  <2>1. /\ DOMAIN more = 1..Len(more) /\ (\A t \in Nat : v[t] \in Nat)
        /\ TakenAt(os, more, p) = SumTo(v, Len(more))
    BY <1>1, TakenWeightsNat, LenProperties
  <2> QED BY <1>1, <2>1
<1>4. \A t \in 1..n : w[t] = v[t]
  <2> TAKE t \in 1..n
  <2>1. t \in 1..(n + 1) /\ t \in Nat /\ more[t] = fills[t]
    BY <1>1, <1>2
  <2> QED BY <1>2, <1>3, <2>1 DEF TakenWeights
<1>5. v[n + 1] = x
  <2>1. n + 1 \in 1..(n + 1) /\ n + 1 \in Nat
    BY <1>2
  <2> QED BY <1>1, <1>3, <2>1 DEF TakenWeights
<1> HIDE DEF w, v, n
<1> HIDE DEF x
<1>6. \A t \in Nat : w[t] \in Int /\ v[t] \in Int
  BY <1>2, <1>3
<1>7. SumTo(v, n + 1) = SumTo(v, n) + v[n + 1]
  BY <1>2, <1>6, SumToDef
<1>8. SumTo(w, n) = SumTo(v, n)
  BY <1>2, <1>4, <1>6, SumToAgree
<1> QED BY <1>2, <1>3, <1>5, <1>7, <1>8 DEF more, x

-----------------------------------------------------------------------------
\* The whole walk

Extends(f, g) == Len(f) <= Len(g) /\ \A t \in 1..Len(f) : g[t] = f[t]

Walkable(os, found, rate, r) ==
  /\ os \in Seq(OrderRec) /\ found \in SUBSET (1..Len(os)) /\ rate \in RateRec
  /\ r.market \in Markets /\ r.left \in Nat

\* What is true of a walk after any number of turns: it fills rows it found,
\* and at each price no more than they have beside those still to do.
Walked(os, found, r, w) ==
  /\ w.todo \in SUBSET found /\ w.left \in Nat /\ w.fills \in Seq(FillRec)
  /\ w.fills = <<>> => w.left = r.left
  /\ \A t \in 1..Len(w.fills) : w.fills[t].maker \in found
  /\ \A p : TakenAt(os, w.fills, p) + RestingAt(os, w.todo, p) <= RestingAt(os, found, p)

Ended(w) == w.todo = {} \/ w.left <= 0

LEMMA StartWalked ==
  ASSUME NEW os, NEW found, NEW rate, NEW r, Walkable(os, found, rate, r)
  PROVE  Walked(os, found, r, WalkStart(found, r))
<1> DEFINE w == WalkStart(found, r)
<1>1. w.todo = found /\ w.left = r.left /\ w.fills = <<>>
  BY DEF WalkStart
<1>2. w.fills \in Seq(FillRec) /\ Len(w.fills) = 0
  BY <1>1
<1>3. ASSUME NEW p
      PROVE  TakenAt(os, w.fills, p) + RestingAt(os, w.todo, p) <= RestingAt(os, found, p)
  <2>1. TakenAt(os, <<>>, p) = 0
    <3>1. <<>> \in Seq(FillRec) /\ Len(<<>>) = 0
      OBVIOUS
    <3>2. /\ TakenAt(os, <<>>, p) = SumTo(TakenWeights(os, <<>>, p), Len(<<>>))
          /\ \A t \in Nat : TakenWeights(os, <<>>, p)[t] \in Nat
      BY <3>1, TakenWeightsNat
    <3> DEFINE v == TakenWeights(os, <<>>, p)
    <3>3. \A t \in Nat : v[t] \in Int
      BY <3>2
    <3> HIDE DEF v
    <3>4. SumTo(v, 0) = 0
      BY <3>3, SumToDef
    <3> QED BY <3>1, <3>2, <3>4 DEF v
  <2>2. RestingAt(os, found, p) \in Nat
    BY RestWeightsNat DEF Walkable
  <2> QED BY <1>1, <2>1, <2>2
<1> HIDE DEF w
<1>4. Walked(os, found, r, w)
  BY <1>1, <1>2, <1>3 DEF Walked, Walkable
<1> QED BY <1>4 DEF w

\* A turn keeps that, takes no fill back, and once the walk has ended changes
\* nothing; until then it strikes a row off.
LEMMA TurnSound ==
  ASSUME NEW os, NEW found, NEW rate, NEW r, Walkable(os, found, rate, r),
         NEW w, Walked(os, found, r, w)
  PROVE  LET v == Turn(os, rate, r, w)
         IN  /\ Walked(os, found, r, v)
             /\ Extends(w.fills, v.fills)
             /\ Ended(w) => v = w
             /\ ~Ended(w) => \E i \in w.todo : v.todo = {} \/ v.todo = w.todo \ {i}
<1> DEFINE i == FirstOf(os, r.side, w.todo)
           next == PreviewFill(os, rate, r, i, w.left)
           v == Turn(os, rate, r, w)
           n == Len(w.fills)
<1>1. /\ os \in Seq(OrderRec) /\ found \in SUBSET (1..Len(os)) /\ rate \in RateRec
      /\ r.market \in Markets
      /\ w.todo \in SUBSET found /\ w.left \in Nat /\ w.fills \in Seq(FillRec)
      /\ w.fills = <<>> => w.left = r.left
      /\ \A t \in 1..n : w.fills[t].maker \in found
  BY DEF Walkable, Walked
<1>2. n \in Nat /\ Extends(w.fills, w.fills)
  BY <1>1, LenProperties DEF Extends
<1>3. CASE Ended(w)
  <2>1. v = w
    BY <1>3 DEF Ended, Turn
  <2> QED BY <1>2, <1>3, <2>1
<1>4. CASE ~Ended(w)
  <2>1. i \in w.todo
    BY <1>1, <1>4, FirstOfRows DEF Ended
  <2> HIDE DEF i
  <2>2. i \in 1..Len(os) /\ w.todo \in SUBSET (1..Len(os))
    BY <1>1, <2>1
  <2>3. /\ next \in FillRec /\ next.maker = i /\ next.amount \in 0..os[i].remaining
        /\ os[i].remaining \in Nat /\ PreviewLeft(r, w.left, next) \in Nat
    <3> DEFINE left == w.left
    <3>1. left \in Nat
      BY <1>1
    <3> HIDE DEF left
    <3>2. LET x == PreviewFill(os, rate, r, i, left)
          IN  /\ x \in FillRec /\ x.maker = i /\ x.amount \in 0..os[i].remaining
              /\ os[i].remaining \in Nat /\ PreviewLeft(r, left, x) \in Nat
      BY <1>1, <2>2, <3>1, PreviewFillSound
    <3> QED BY <3>2 DEF left
  <2> HIDE DEF next
  <2>4. ASSUME NEW p
        PROVE  /\ TakenAt(os, w.fills, p) \in Nat /\ RestingAt(os, w.todo \ {i}, p) \in Nat
               /\ TakenAt(os, w.fills, p) + RestingAt(os, w.todo, p) <= RestingAt(os, found, p)
               /\ RestingAt(os, {}, p) <= RestingAt(os, w.todo, p)
               /\ RestingAt(os, {}, p) \in Nat /\ RestingAt(os, found, p) \in Nat
               /\ RestingAt(os, w.todo, p) = RestingAt(os, w.todo \ {i}, p)
                    + IF os[i].price = p THEN os[i].remaining ELSE 0
    <3>1. TakenAt(os, w.fills, p) \in Nat
      BY <1>1, TakenWeightsNat
    <3>2. {} \in SUBSET w.todo /\ {} \in SUBSET (1..Len(os)) /\ w.todo \ {i} \in SUBSET (1..Len(os))
      BY <2>2
    <3>3. /\ RestingAt(os, {}, p) \in Nat /\ RestingAt(os, w.todo \ {i}, p) \in Nat
          /\ RestingAt(os, found, p) \in Nat
      BY <1>1, <3>2, RestWeightsNat
    <3>4. RestingAt(os, {}, p) <= RestingAt(os, w.todo, p)
      BY <1>1, <2>2, <3>2, RestingLess
    <3>5. RestingAt(os, w.todo, p) = RestingAt(os, w.todo \ {i}, p)
                    + IF os[i].price = p THEN os[i].remaining ELSE 0
      <4> DEFINE todo == w.todo
      <4>1. os \in Seq(OrderRec) /\ todo \in SUBSET (1..Len(os)) /\ i \in todo
        BY <1>1, <2>1, <2>2
      <4> HIDE DEF todo
      <4>2. RestingAt(os, todo, p)
              = RestingAt(os, todo \ {i}, p) + IF os[i].price = p THEN os[i].remaining ELSE 0
        BY <4>1, RestingWithout
      <4> QED BY <4>2 DEF todo
    <3>6. TakenAt(os, w.fills, p) + RestingAt(os, w.todo, p) <= RestingAt(os, found, p)
      BY DEF Walked
    <3> QED BY <3>1, <3>3, <3>4, <3>5, <3>6
  <2>5. CASE os[i].user = r.user
    <3>1. v.todo = w.todo \ {i} /\ v.left = w.left /\ v.fills = w.fills
      BY <1>4, <2>5 DEF Turn, Ended, i
    <3> HIDE DEF v
    <3>2. ASSUME NEW p
          PROVE  TakenAt(os, v.fills, p) + RestingAt(os, v.todo, p) <= RestingAt(os, found, p)
      BY <2>3, <2>4, <3>1
    <3>3. Walked(os, found, r, v)
      BY <1>1, <3>1, <3>2 DEF Walked
    <3> QED BY <1>2, <1>4, <2>1, <3>1, <3>3 DEF v
  <2>6. CASE os[i].user # r.user /\ (next.amount = 0 \/ next.quote = 0)
    <3>1. v.todo = {} /\ v.left = w.left /\ v.fills = w.fills
      BY <1>4, <2>6 DEF Turn, Ended, i, next
    <3> HIDE DEF v
    <3>2. ASSUME NEW p
          PROVE  TakenAt(os, v.fills, p) + RestingAt(os, v.todo, p) <= RestingAt(os, found, p)
      BY <2>3, <2>4, <3>1
    <3>3. Walked(os, found, r, v)
      BY <1>1, <3>1, <3>2 DEF Walked
    <3> QED BY <1>2, <1>4, <2>1, <3>1, <3>3 DEF v
  <2>7. CASE os[i].user # r.user /\ next.amount # 0 /\ next.quote # 0
    <3>1. /\ v.todo = w.todo \ {i} /\ v.left = PreviewLeft(r, w.left, next)
          /\ v.fills = Append(w.fills, next)
      BY <1>4, <2>7 DEF Turn, Ended, i, next
    <3> HIDE DEF v
    <3>2. /\ v.fills \in Seq(FillRec) /\ Len(v.fills) = n + 1
          /\ (\A t \in 1..n : v.fills[t] = w.fills[t]) /\ v.fills[n + 1] = next
      BY <1>1, <2>3, <3>1, AppendProperties
    <3>3. ASSUME NEW p
          PROVE  TakenAt(os, v.fills, p) + RestingAt(os, v.todo, p) <= RestingAt(os, found, p)
      <4>1. TakenAt(os, v.fills, p)
              = TakenAt(os, w.fills, p) + IF os[i].price = p THEN next.amount ELSE 0
        BY <1>1, <2>3, <3>1, TakenAppend
      <4>2. v.todo = w.todo \ {i} /\ next.amount \in Nat /\ next.amount <= os[i].remaining
        BY <2>3, <3>1
      <4>5. /\ TakenAt(os, w.fills, p) \in Nat /\ RestingAt(os, w.todo \ {i}, p) \in Nat
            /\ TakenAt(os, w.fills, p) + RestingAt(os, w.todo, p) <= RestingAt(os, found, p)
            /\ RestingAt(os, found, p) \in Nat
            /\ RestingAt(os, w.todo, p) = RestingAt(os, w.todo \ {i}, p)
                 + IF os[i].price = p THEN os[i].remaining ELSE 0
        BY <2>4
      <4>3. CASE os[i].price = p
        <5>1. \A a, b, c, d, x \in Nat : a + (b + d) <= c /\ x <= d => (a + x) + b <= c
          BY SMT
        <5>2. TakenAt(os, v.fills, p) = TakenAt(os, w.fills, p) + next.amount
          BY <4>1, <4>3
        <5>3. RestingAt(os, w.todo, p) = RestingAt(os, w.todo \ {i}, p) + os[i].remaining
          BY <4>3, <4>5
        <5> QED BY <2>3, <4>2, <4>5, <5>1, <5>2, <5>3
      <4>4. CASE os[i].price # p
        BY <4>1, <4>2, <4>4, <4>5
      <4> QED BY <4>3, <4>4
    <3>4. \A t \in 1..Len(v.fills) : v.fills[t].maker \in found
      <4> TAKE t \in 1..Len(v.fills)
      <4>1. CASE t \in 1..n
        BY <1>1, <3>2, <4>1
      <4>2. CASE t = n + 1
        BY <1>1, <2>1, <2>3, <3>2, <4>2
      <4> QED BY <1>2, <3>2, <4>1, <4>2
    <3>5. Extends(w.fills, v.fills) /\ v.fills # <<>>
      <4>1. Len(v.fills) # 0
        BY <1>2, <3>2
      <4> QED BY <1>2, <3>2, <4>1 DEF Extends
    <3>6. Walked(os, found, r, v)
      BY <1>1, <2>3, <3>1, <3>2, <3>3, <3>4, <3>5 DEF Walked
    <3> QED BY <1>4, <2>1, <3>1, <3>5, <3>6 DEF v
  <2> QED BY <2>5, <2>6, <2>7
<1> QED BY <1>3, <1>4

LEMMA WalkSound ==
  ASSUME NEW os, NEW found, NEW rate, NEW r, Walkable(os, found, rate, r)
  PROVE  \A n \in Nat : Walked(os, found, r, Walk(os, found, rate, r)[n])
<1> DEFINE w == Walk(os, found, rate, r)
           S == {n \in Nat : Walked(os, found, r, w[n])}
<1>1. 0 \in S
  BY WalkDef, StartWalked
<1>2. ASSUME NEW n \in Nat, n \in S PROVE n + 1 \in S
  <2>1. w[n + 1] = Turn(os, rate, r, w[n]) /\ Walked(os, found, r, w[n])
    BY <1>2, WalkDef
  <2> HIDE DEF w
  <2>2. Walked(os, found, r, w[n + 1])
    BY <2>1, TurnSound
  <2> QED BY <2>2
<1>3. \A n \in Nat : n \in S
  <2> HIDE DEF S
  <2> QED BY <1>1, <1>2, SetInduction
<1> QED BY <1>3

\* Fills added to added fills are added fills.
LEMMA ExtendsOnward ==
  ASSUME NEW f \in Seq(FillRec), NEW g \in Seq(FillRec), NEW h \in Seq(FillRec),
         Extends(f, g), Extends(g, h)
  PROVE  Extends(f, h)
<1>1. Len(f) \in Nat /\ Len(g) \in Nat /\ Len(h) \in Nat
  BY LenProperties
<1>2. Len(f) <= Len(g) /\ Len(g) <= Len(h)
  BY DEF Extends
<1>3. \A a, b, c \in Nat : a <= b /\ b <= c => a <= c
  BY SMT
<1>4. Len(f) <= Len(h)
  BY <1>1, <1>2, <1>3
<1>5. \A t \in 1..Len(f) : t \in 1..Len(g)
  BY <1>1, <1>2
<1>6. \A t \in 1..Len(f) : h[t] = f[t]
  BY <1>5 DEF Extends
<1> QED BY <1>4, <1>6 DEF Extends

\* Later turns only add fills, and none once the walk has ended.
LEMMA WalkGrows ==
  ASSUME NEW os, NEW found, NEW rate, NEW r, Walkable(os, found, rate, r), NEW k \in Nat
  PROVE  LET w == Walk(os, found, rate, r)
         IN  \A n \in Nat : k <= n =>
               /\ Extends(w[k].fills, w[n].fills)
               /\ Ended(w[k]) => w[n] = w[k]
<1> DEFINE w == Walk(os, found, rate, r)
           S == {n \in Nat : k <= n =>
                  /\ Extends(w[k].fills, w[n].fills) /\ (Ended(w[k]) => w[n] = w[k])}
<1>1. \A n \in Nat : Walked(os, found, r, w[n]) /\ w[n + 1] = Turn(os, rate, r, w[n])
  BY WalkSound, WalkDef
<1> HIDE DEF w
<1>2. \A n \in Nat : w[n].fills \in Seq(FillRec) /\ Len(w[n].fills) \in Nat
                     /\ Extends(w[n].fills, w[n].fills)
  BY <1>1, LenProperties DEF Walked, Extends
<1>3. k = 0 => 0 \in S
  BY <1>2
<1>4. 0 \in S
  BY <1>3
<1>5. ASSUME NEW n \in Nat, n \in S PROVE n + 1 \in S
  <2>1. CASE k <= n
    <3>1. Extends(w[k].fills, w[n].fills) /\ (Ended(w[k]) => w[n] = w[k])
      BY <1>5, <2>1
    <3>2. /\ Extends(w[n].fills, w[n + 1].fills)
          /\ Ended(w[n]) => w[n + 1] = w[n]
      BY <1>1, TurnSound
    <3>3. Extends(w[k].fills, w[n + 1].fills)
      <4> DEFINE f == w[k].fills
                 g == w[n].fills
                 h == w[n + 1].fills
      <4>1. f \in Seq(FillRec) /\ g \in Seq(FillRec) /\ h \in Seq(FillRec)
        BY <1>2
      <4>2. Extends(f, g) /\ Extends(g, h)
        BY <3>1, <3>2
      <4> HIDE DEF f, g, h
      <4>3. Extends(f, h)
        BY <4>1, <4>2, ExtendsOnward
      <4> QED BY <4>3 DEF f, h
    <3> QED BY <3>1, <3>2, <3>3
  <2>2. CASE k = n + 1
    BY <1>2, <2>2
  <2>3. CASE k > n + 1
    BY <2>3
  <2> QED BY <2>1, <2>2, <2>3
<1>6. \A n \in Nat : n \in S
  <2> HIDE DEF S
  <2> QED BY <1>4, <1>5, SetInduction
<1> QED BY <1>6 DEF w

-----------------------------------------------------------------------------
\* What a placement does of what a preview foretold

\* A request asks for something.
AsksSomething ==
  phase # "IDLE" =>
    IF taker.type = "MARKET" THEN Asked(taker).left \in Nat \ {0} ELSE taker.amount \in Nat \ {0}

\* Where the walk of a preview of the placement stands after n turns ...
ThisWalk(n) == Walk(saved.orders, rows, feeRates[taker.market], Asked(taker))[n]

\* ... and what the placement did when it stands there too.
TakerLeft == IF taker.side = "BUY" THEN QuoteLeft(taker) ELSE taker.remaining
Foretold(w) ==
  /\ w.todo = toVisit /\ w.left = TakerLeft
  /\ Len(w.fills) = Len(trades) - Len(saved.trades)
  /\ \A t \in 1..Len(w.fills) : SameFill(trades[Len(saved.trades) + t], w.fills[t])

PreviewKept ==
  phase = "MATCH" =>
    /\ rates \in {NoRates, feeRates[taker.market]}
    /\ rows = {i \in PreviewRows(taker) : Crosses(taker, saved.orders[i])}
    /\ taker.type = "LIMIT" =>
         (taker.filled > 0 <=> \E i \in rows \ toVisit : saved.orders[i].user # taker.user)
    /\ taker.type = "MARKET" =>
         \E n \in 0..Cardinality(rows) :
           n + Cardinality(toVisit) <= Cardinality(rows) /\ Foretold(ThisWalk(n))

PreviewInv == BookInv /\ AsksSomething /\ PreviewKept

\* While the loop runs no frozen account comes back and no fee rate changes.
Calm ==
  phase = "MATCH" =>
    /\ feeRates' = feeRates
    /\ \A u \in Users : userStatus'[u] = "ACTIVE" => userStatus[u] = "ACTIVE"

LEMMA RowsFinite ==
  ASSUME NEW n \in Nat, NEW S \in SUBSET (1..n)
  PROVE  IsFiniteSet(S) /\ Cardinality(S) \in Nat
<1>1. IsFiniteSet(1..n)
  BY FS_Interval
<1>2. IsFiniteSet(S)
  BY <1>1, FS_Subset
<1> QED BY <1>2, FS_CardinalityType

\* Where the loop stands, the walk stands too.
LEMMA LoopTypes ==
  ASSUME BookInv, phase = "MATCH"
  PROVE  /\ Walkable(saved.orders, rows, feeRates[taker.market], Asked(taker))
         /\ saved.orders \in Seq(OrderRec) /\ Len(saved.orders) = Len(orders)
         /\ saved.trades \in Seq(TradeRec) /\ Len(saved.trades) \in Nat
         /\ trades \in Seq(TradeRec) /\ Len(trades) \in Nat /\ Len(saved.trades) <= Len(trades)
         /\ orders \in Seq(OrderRec) /\ DOMAIN orders = 1..Len(orders) /\ Len(orders) \in Nat
         /\ rows \in SUBSET (1..Len(orders)) /\ toVisit \in SUBSET rows
         /\ taker \in OrderRec /\ taker.market \in Markets
         /\ \A i \in toVisit : saved.orders[i] = orders[i]
<1>1. /\ TypeOK /\ SavedBefore /\ saved \in TablesRec /\ TheTables \in TablesRec
      /\ rows \subseteq DOMAIN orders /\ toVisit \subseteq rows
      /\ feeRates \in [Markets -> RateRec]
  BY DEF BookInv, LockInv, TypeInv, TypeOK
<1>2. /\ saved.orders \in Seq(OrderRec) /\ saved.trades \in Seq(TradeRec)
      /\ orders \in Seq(OrderRec) /\ trades \in Seq(TradeRec)
  BY <1>1 DEF TablesRec, TheTables
<1>3. /\ Len(saved.trades) \in Nat /\ Len(trades) \in Nat
      /\ Len(orders) \in Nat /\ DOMAIN orders = 1..Len(orders)
  BY <1>2, LenProperties
<1>4. /\ Len(saved.orders) = Len(orders) /\ Len(saved.trades) <= Len(trades)
      /\ \A i \in toVisit : saved.orders[i] = orders[i]
  BY <1>1 DEF SavedBefore
<1>5. taker \in OrderRec
  BY <1>1, RowTypes
<1>6. taker.market \in Markets /\ taker.requested \in Nat /\ taker.amount \in Nat
  BY <1>5 DEF OrderRec
<1>7. Asked(taker).left \in Nat /\ Asked(taker).market \in Markets
  BY <1>6 DEF Asked
<1>8. Walkable(saved.orders, rows, feeRates[taker.market], Asked(taker))
  BY <1>1, <1>2, <1>3, <1>4, <1>6, <1>7 DEF Walkable
<1> QED BY <1>1, <1>2, <1>3, <1>4, <1>5, <1>6, <1>8

\* What a market order has left is a natural.
LEMMA LeftNat ==
  ASSUME BookInv, phase = "MATCH", taker.type = "MARKET"
  PROVE  /\ TakerLeft \in Nat
         /\ WantsMore(taker) <=> TakerLeft > 0
<1>1. taker \in OrderRec
  BY LoopTypes
<1>2. taker.requested \in Nat /\ taker.spent \in Nat /\ taker.remaining \in Nat
      /\ taker.side \in Side
  BY <1>1 DEF OrderRec
<1>3. taker.side = "BUY" => taker.spent <= taker.requested
  BY DEF BookInv, FillsKept, AccountedIn
<1> QED BY <1>2, <1>3 DEF TakerLeft, QuoteLeft, WantsMore

\* The loop and the walk take the same row next.
LEMMA SameRowNext ==
  ASSUME BookInv, Looping
  PROVE  /\ NextMaker \in toVisit /\ NextMaker \in 1..Len(orders)
         /\ saved.orders[NextMaker] = orders[NextMaker]
         /\ FirstOf(saved.orders, taker.side, toVisit) = NextMaker
<1> DEFINE i == NextMaker
<1>1. phase = "MATCH" /\ toVisit # {}
  BY DEF Looping
<1>2. /\ saved.orders \in Seq(OrderRec) /\ Len(saved.orders) = Len(orders)
      /\ orders \in Seq(OrderRec) /\ DOMAIN orders = 1..Len(orders)
      /\ rows \in SUBSET (1..Len(orders)) /\ toVisit \in SUBSET rows
      /\ \A j \in toVisit : saved.orders[j] = orders[j]
  BY <1>1, LoopTypes
<1>3. i \in toVisit /\ \A j \in toVisit \ {i} : Before(taker, i, j)
  <2>1. toVisit \subseteq DOMAIN orders
    BY <1>2
  <2> QED BY <1>1, <1>2, <2>1, NextMakerFirst
<1> HIDE DEF i
<1>4. \A j \in toVisit \ {i} : Ahead(saved.orders, taker.side, i, j)
  BY <1>2, <1>3 DEF Ahead, Before
<1>5. toVisit \in SUBSET (1..Len(saved.orders))
  BY <1>2
<1>6. FirstOf(saved.orders, taker.side, toVisit) = i
  BY <1>2, <1>3, <1>4, <1>5, FirstIsUnique
<1> QED BY <1>2, <1>3, <1>6 DEF i

\* The fill the loop computes there is the fill the preview counted.
LEMMA DealForetold ==
  ASSUME BookInv, Looping, taker.type = "MARKET",
         rates \in {NoRates, feeRates[taker.market]}
  PROVE  LET d == Deal(NextMaker)
             next == PreviewFill(saved.orders, feeRates[taker.market], Asked(taker),
                                 NextMaker, TakerLeft)
         IN  /\ next.maker = NextMaker /\ next.amount = d.fill /\ next.quote = d.quote
             /\ next.buyerFee = d.buyerFee /\ next.sellerFee = d.sellerFee
             /\ d.rate = feeRates[taker.market]
             /\ d.buyerFee = Fee(d.fill, d.rate.buyer)
             /\ d.sellerFee = Fee(d.quote, d.rate.seller)
<1> DEFINE i == NextMaker
           m == taker.market
           d == Deal(i)
           next == PreviewFill(saved.orders, feeRates[m], Asked(taker), i, TakerLeft)
           fill == IF taker.side = "BUY"
                     THEN MarketBuyFill(QuoteLeft(taker), orders[i].price, orders[i].remaining, Scale[m])
                     ELSE Lesser(taker.remaining, orders[i].remaining)
           quote == QuoteFloor(orders[i].price, fill, Scale[m])
<1>1. saved.orders[i] = orders[i]
  BY SameRowNext
<1>2. Rate(m) = feeRates[m]
  BY DEF Rate
<1>3. /\ d.fill = fill /\ d.quote = quote /\ d.rate = Rate(m)
      /\ d.buyerFee = Fee(d.fill, d.rate.buyer) /\ d.sellerFee = Fee(d.quote, d.rate.seller)
  BY DEF Deal
<1>4. /\ next.maker = i /\ next.amount = fill /\ next.quote = quote
      /\ next.buyerFee = Fee(fill, feeRates[m].buyer)
      /\ next.sellerFee = Fee(quote, feeRates[m].seller)
  BY <1>1 DEF PreviewFill, Asked, TakerLeft
<1> HIDE DEF fill, quote, next, d
<1> QED BY <1>2, <1>3, <1>4 DEF next, d

\* Requests ask for something, and no step of a placement changes what.
LEMMA NextAsks ==
  ASSUME BookInv, AsksSomething, TypeInv', [Next]_vars
  PROVE  AsksSomething'
<1>1. CASE Requests
  <2>1. PICK u \in Users, m \in Markets, s \in Side :
          \/ \E p \in Prices, a \in Amounts : ReceiveLimit(u, m, s, p, a)
          \/ \E q \in (IF s = "BUY" THEN Spends ELSE Amounts) : ReceiveMarket(u, m, s, q)
    BY <1>1 DEF Requests
  <2>2. CASE \E p \in Prices, a \in Amounts : ReceiveLimit(u, m, s, p, a)
    <3>1. PICK p \in Prices, a \in Amounts : ReceiveLimit(u, m, s, p, a)
      BY <2>2
    <3>2. taker' = LimitOrder(u, m, s, p, a) /\ a \in Nat \ {0}
      BY <3>1, NumbersAssumption DEF ReceiveLimit, Receive
    <3> QED BY <3>2 DEF AsksSomething, LimitOrder
  <2>3. CASE \E q \in (IF s = "BUY" THEN Spends ELSE Amounts) : ReceiveMarket(u, m, s, q)
    <3>1. PICK q \in (IF s = "BUY" THEN Spends ELSE Amounts) : ReceiveMarket(u, m, s, q)
      BY <2>3
    <3>2. taker' = MarketOrder(u, m, s, q) /\ q \in Nat \ {0}
      BY <3>1, NumbersAssumption DEF ReceiveMarket, Receive
    <3> QED BY <3>2 DEF AsksSomething, MarketOrder, Asked
  <2> QED BY <2>1, <2>2, <2>3
<1>2. CASE LimitFill \/ MarketFill
  <2>1. PICK i, f, q, l, r : Fills(i, f, q, l, r)
    BY <1>2, FillStep DEF BookInv
  <2>2. /\ phase = "MATCH" /\ taker'.type = taker.type /\ taker'.side = taker.side
        /\ taker'.amount = taker.amount /\ taker'.requested = taker.requested
    BY <2>1 DEF Fills, Meets, TakerWrites
  <2> QED BY <2>2 DEF AsksSomething, Asked
<1>3. CASE Place \/ SkipOwn \/ MarketStop \/ Cancellations \/ Administration \/ UNCHANGED vars
  <2>1. phase' # "IDLE" => phase # "IDLE"
    BY <1>3 DEF Place, SkipOwn, MarketStop, Looping, Cancellations, Cancel, Administration,
          SetUserStatus, SetMarketStatus, SetAssetStatus, UpdateFeeSettings, vars, request
  <2>2. taker' = taker
    BY <1>3 DEF Place, SkipOwn, MarketStop, Looping, Cancellations, Cancel, Administration,
          SetUserStatus, SetMarketStatus, SetAssetStatus, UpdateFeeSettings, vars, request
  <2> QED BY <2>1, <2>2 DEF AsksSomething
<1>4. CASE RejectFunds \/ MatchError \/ FinishLimit \/ FinishMarket \/ NoLiquidity
  <2>1. phase' = "IDLE"
    BY <1>4 DEF RejectFunds, MatchError, FinishLimit, FinishMarket, NoLiquidity, Abort, Commit, Done
  <2> QED BY <2>1 DEF AsksSomething
<1> QED BY <1>1, <1>2, <1>3, <1>4 DEF Next, Progress

\* While the loop runs the preview of its request does not change.
SameRequest ==
  /\ taker'.user = taker.user /\ taker'.market = taker.market /\ taker'.side = taker.side
  /\ taker'.type = taker.type /\ taker'.price = taker.price
  /\ taker'.amount = taker.amount /\ taker'.requested = taker.requested

LEMMA PreviewStays ==
  ASSUME BookInv, BookInv', PreviewKept, phase = "MATCH", phase' = "MATCH", Calm, SameRequest,
         UNCHANGED <<saved, rows>>
  PROVE  /\ rows' = {i \in PreviewRows(taker) : Crosses(taker, saved.orders[i])}'
         /\ \A n : ThisWalk(n)' = ThisWalk(n)
         /\ feeRates'[taker'.market] = feeRates[taker.market]
<1> DEFINE os == saved.orders
           Found(i, status) ==
             /\ i \in DOMAIN os /\ os[i].market = taker.market
             /\ os[i].side = Opposite(taker.side) /\ Rests(os[i]) /\ status[os[i].user] = "ACTIVE"
             /\ Crosses(taker, os[i])
<1>1. feeRates' = feeRates /\ \A u \in Users : userStatus'[u] = "ACTIVE" => userStatus[u] = "ACTIVE"
  BY DEF Calm
<1>2. rows = {i \in DOMAIN os : Found(i, userStatus)}
  BY DEF PreviewKept, PreviewRows, Committed
<1>3. {i \in PreviewRows(taker) : Crosses(taker, saved.orders[i])}'
        = {i \in DOMAIN os : Found(i, userStatus')}
  BY DEF PreviewRows, Committed, SameRequest, Crosses
<1>4. ASSUME NEW i \in DOMAIN os PROVE os[i].user \in Users
  <2>1. os \in Seq(OrderRec)
    BY LoopTypes
  <2>2. os[i] \in OrderRec
    BY <1>4, <2>1, LenProperties, ElementOfSeq
  <2> QED BY <2>2 DEF OrderRec
<1>5. ASSUME NEW i \in rows PROVE userStatus'[os[i].user] = "ACTIVE"
  <2>1. i \in 1..Len(orders) /\ Len(os) = Len(orders)
    BY LoopTypes
  <2>2. Len(saved'.orders) = Len(orders') /\ saved' = saved
        /\ \A j \in 1..Len(orders') : Advances(saved'.orders[j], orders'[j])
    BY DEF BookInv, SavedBefore
  <2>3. Advances(os[i], orders'[i])
    BY <2>1, <2>2
  <2>4. userStatus'[orders'[i].user] = "ACTIVE"
    BY DEF BookInv, MakersActive
  <2>5. ASSUME NEW o \in OrderRec, NEW p \in OrderRec, Advances(o, p) PROVE p.user = o.user
    <3> DEFINE x == [p EXCEPT !.filled = o.filled, !.remaining = o.remaining,
                              !.locked = o.locked, !.status = o.status]
    <3>1. x.user = p.user
      BY DEF OrderRec
    <3>2. x = o \/ p = o
      BY <2>5 DEF Advances
    <3> QED BY <3>1, <3>2
  <2>6. os[i] \in OrderRec /\ orders'[i] \in OrderRec
    <3>1. os \in Seq(OrderRec)
      BY LoopTypes
    <3>2. orders' \in Seq(OrderRec)
      BY DEF BookInv, LockInv, TypeInv, TypeOK, TheTables, TablesRec
    <3> HIDE DEF os
    <3> QED BY <2>1, <2>2, <3>1, <3>2, ElementOfSeq DEF os
  <2> QED BY <2>3, <2>4, <2>5, <2>6
<1>6. \A i \in DOMAIN os : Found(i, userStatus) <=> Found(i, userStatus')
  BY <1>1, <1>2, <1>4, <1>5
<1>7. rows' = {i \in PreviewRows(taker) : Crosses(taker, saved.orders[i])}'
  <2> HIDE DEF os, Found
  <2> QED BY <1>2, <1>3, <1>6
<1>8. Asked(taker)' = Asked(taker)
  BY DEF Asked, SameRequest
<1>9. \A n : ThisWalk(n)' = ThisWalk(n)
  BY <1>1, <1>8 DEF ThisWalk, SameRequest
<1> QED BY <1>1, <1>7, <1>9 DEF SameRequest

LEMMA PlacePreview ==
  ASSUME BookInv, AsksSomething, BookInv', Place
  PROVE  PreviewKept'
<1>1. /\ phase = "CHECKED" /\ phase' = "MATCH" /\ saved' = TheTables
      /\ rows' = Resting(taker) /\ toVisit' = Resting(taker)
      /\ UNCHANGED <<orders, trades, taker, rates, feeRates, userStatus>>
  BY DEF Place, switches
<1>2. rates' = NoRates /\ Fresh(taker)
  BY <1>1 DEF BookInv, RatesKept, FillsKept
<1>3. saved'.orders = orders /\ saved'.trades = trades
  BY <1>1 DEF TheTables
<1>4. rows' = {i \in PreviewRows(taker) : Crosses(taker, saved.orders[i])}'
  BY <1>1, <1>3 DEF Resting, PreviewRows, Committed, Crosses, Opposite, Rests, IsOpen
<1>5. taker \in OrderRec
  BY <1>1, RowTypes DEF BookInv, LockInv, TypeInv
<1>6. ASSUME taker.type = "MARKET"
      PROVE  \E n \in 0..Cardinality(rows') :
               n + Cardinality(toVisit') <= Cardinality(rows') /\ Foretold(ThisWalk(n))'
  <2>1. Cardinality(rows') \in Nat
    <3>1. rows' \subseteq 1..Len(orders) /\ Len(orders) \in Nat
      BY <1>1, RowTypes DEF Resting, BookInv, LockInv, TypeInv
    <3> QED BY <3>1, RowsFinite
  <2>2. ThisWalk(0)' = WalkStart(rows, Asked(taker))'
    <3>1. \A os, found, rate, r : Walk(os, found, rate, r)[0] = WalkStart(found, r)
      BY WalkDef
    <3> QED BY <3>1 DEF ThisWalk
  <2>3. taker'.remaining \in Nat /\ taker'.requested \in Nat /\ taker'.side \in Side
    BY <1>1, <1>5 DEF OrderRec
  <2>4. Asked(taker)'.left = TakerLeft'
    BY <1>1, <1>2, <2>3 DEF Asked, TakerLeft, QuoteLeft, Fresh, Side
  <2>5. Len(trades') - Len(saved'.trades) = 0
    <3>1. trades \in Seq(TradeRec)
      BY DEF BookInv, LockInv, TypeInv, TypeOK, TheTables, TablesRec
    <3>2. Len(trades) \in Nat
      BY <3>1, LenProperties
    <3> QED BY <1>1, <1>3, <3>2
  <2>6. Foretold(ThisWalk(0))'
    <3>1. /\ ThisWalk(0)'.todo = toVisit' /\ ThisWalk(0)'.left = TakerLeft'
          /\ ThisWalk(0)'.fills = <<>>
      BY <1>1, <2>2, <2>4 DEF WalkStart
    <3>2. Len(ThisWalk(0)'.fills) = 0
      BY <3>1
    <3>3. 1..Len(ThisWalk(0)'.fills) = {}
      BY <3>2
    <3>4. \A t \in 1..Len(ThisWalk(0)'.fills) :
            SameFill(trades[Len(saved.trades) + t], ThisWalk(0).fills[t])'
      BY <3>3
    <3> QED BY <2>5, <3>1, <3>2, <3>4 DEF Foretold
  <2>7. 0 \in 0..Cardinality(rows') /\ 0 + Cardinality(toVisit') <= Cardinality(rows')
    BY <1>1, <2>1
  <2> QED BY <2>6, <2>7
<1>7. taker.type = "LIMIT" =>
        (taker'.filled > 0 <=> \E i \in rows' \ toVisit' : saved'.orders[i].user # taker'.user)
  BY <1>1, <1>2 DEF Fresh
<1> QED BY <1>1, <1>2, <1>4, <1>6, <1>7 DEF PreviewKept

\* The fill the preview counts against the row the loop visits next, and the
\* turn of its walk there.
FillNext ==
  PreviewFill(saved.orders, feeRates[taker.market], Asked(taker), NextMaker, TakerLeft)

TurnNext(fills) ==
  IF MeetsOwnOrder THEN [todo |-> toVisit \ {NextMaker}, left |-> TakerLeft, fills |-> fills]
  ELSE IF FillNext.amount = 0 \/ FillNext.quote = 0
    THEN [todo |-> {}, left |-> TakerLeft, fills |-> fills]
  ELSE [todo |-> toVisit \ {NextMaker}, left |-> PreviewLeft(Asked(taker), TakerLeft, FillNext),
        fills |-> Append(fills, FillNext)]

LEMMA LoopTurn ==
  ASSUME BookInv, PreviewKept, Looping, taker.type = "MARKET"
  PROVE  \E n \in Nat :
           /\ n + 1 \in 0..Cardinality(rows)
           /\ n + 1 + Cardinality(toVisit \ {NextMaker}) <= Cardinality(rows)
           /\ n + 1 + Cardinality({}) <= Cardinality(rows)
           /\ Foretold(ThisWalk(n)) /\ ThisWalk(n).fills \in Seq(FillRec)
           /\ ThisWalk(n + 1) = TurnNext(ThisWalk(n).fills)
<1>1. phase = "MATCH" /\ toVisit # {} /\ WantsMore(taker)
  BY DEF Looping
<1>2. PICK n \in 0..Cardinality(rows) :
        n + Cardinality(toVisit) <= Cardinality(rows) /\ Foretold(ThisWalk(n))
  BY <1>1 DEF PreviewKept
<1> DEFINE os == saved.orders
           rate == feeRates[taker.market]
           r == Asked(taker)
           i == NextMaker
           w == ThisWalk(n)
<1>3. /\ Walkable(os, rows, rate, r) /\ Len(orders) \in Nat
      /\ rows \in SUBSET (1..Len(orders)) /\ toVisit \in SUBSET rows
  BY <1>1, LoopTypes
<1>4. /\ i \in toVisit /\ os[i] = orders[i] /\ FirstOf(os, taker.side, toVisit) = i
  BY SameRowNext
<1>5. TakerLeft \in Nat /\ TakerLeft > 0
  BY <1>1, LeftNat
<1>6. Cardinality(rows) \in Nat /\ n \in Nat
  <2>1. Cardinality(rows) \in Nat
    BY <1>3, RowsFinite
  <2> QED BY <2>1
<1>7. /\ Cardinality(toVisit) \in Nat /\ Cardinality(toVisit \ {i}) \in Nat
      /\ Cardinality(toVisit \ {i}) = Cardinality(toVisit) - 1 /\ Cardinality({}) = 0
  <2>1. toVisit \in SUBSET (1..Len(orders)) /\ toVisit \ {i} \in SUBSET (1..Len(orders))
    BY <1>3
  <2>2. IsFiniteSet(toVisit) /\ Cardinality(toVisit) \in Nat /\ Cardinality(toVisit \ {i}) \in Nat
    BY <1>3, <2>1, RowsFinite
  <2> HIDE DEF i
  <2>3. Cardinality(toVisit \ {i}) = Cardinality(toVisit) - 1
    BY <1>4, <2>2, FS_RemoveElement
  <2> QED BY <2>2, <2>3, FS_EmptySet
<1>8. /\ n + 1 \in 0..Cardinality(rows)
      /\ n + 1 + Cardinality(toVisit \ {i}) <= Cardinality(rows)
      /\ n + 1 + Cardinality({}) <= Cardinality(rows)
  BY <1>2, <1>6, <1>7
<1>9. ThisWalk(n + 1) = Turn(os, rate, r, w) /\ w.fills \in Seq(FillRec)
  <2>1. Walk(os, rows, rate, r)[n + 1] = Turn(os, rate, r, Walk(os, rows, rate, r)[n])
    BY <1>6, WalkDef
  <2>2. Walked(os, rows, r, Walk(os, rows, rate, r)[n])
    BY <1>3, <1>6, WalkSound
  <2> QED BY <2>1, <2>2 DEF ThisWalk, Walked
<1>10. w.todo = toVisit /\ w.left = TakerLeft
  BY <1>2 DEF Foretold
<1>11. r.side = taker.side /\ r.user = taker.user
  BY DEF Asked
<1>12. FillNext = PreviewFill(os, rate, r, i, TakerLeft)
  BY DEF FillNext
<1>13. MeetsOwnOrder <=> os[i].user = r.user
  BY <1>4, <1>11 DEF MeetsOwnOrder
<1> HIDE DEF os, rate, w, i, r
<1>14. ~(w.todo = {} \/ w.left <= 0)
  BY <1>1, <1>5, <1>10
<1>15. Turn(os, rate, r, w) = TurnNext(w.fills)
  BY <1>4, <1>10, <1>11, <1>12, <1>13, <1>14 DEF Turn, TurnNext, i, r
<1> QED BY <1>2, <1>6, <1>8, <1>9, <1>15 DEF w, i

\* The parts of the invariant that a step of the loop may disturb.
LEMMA TurnPreview ==
  ASSUME BookInv, BookInv', PreviewKept, phase = "MATCH", phase' = "MATCH", Calm, SameRequest,
         UNCHANGED <<saved, rows>>,
         rates' \in {NoRates, feeRates[taker.market]},
         taker.type = "LIMIT" =>
           (taker'.filled > 0 <=> \E i \in rows \ toVisit' : saved.orders[i].user # taker.user),
         taker.type = "MARKET" =>
           \E n \in 0..Cardinality(rows) :
             /\ n + Cardinality(toVisit') <= Cardinality(rows)
             /\ ThisWalk(n).todo = toVisit' /\ ThisWalk(n).left = TakerLeft'
             /\ Len(ThisWalk(n).fills) = Len(trades') - Len(saved.trades)
             /\ \A t \in 1..Len(ThisWalk(n).fills) :
                  SameFill(trades'[Len(saved.trades) + t], ThisWalk(n).fills[t])
  PROVE  PreviewKept'
<1>1. /\ rows' = {i \in PreviewRows(taker) : Crosses(taker, saved.orders[i])}'
      /\ \A n : ThisWalk(n)' = ThisWalk(n)
      /\ feeRates'[taker'.market] = feeRates[taker.market]
  BY PreviewStays
<1>2. rates' \in {NoRates, feeRates'[taker'.market]}
  BY <1>1
<1>3. taker'.type = "LIMIT" =>
        (taker'.filled > 0 <=> \E i \in rows' \ toVisit' : saved'.orders[i].user # taker'.user)
  BY DEF SameRequest
<1>4. ASSUME taker'.type = "MARKET"
      PROVE  \E n \in 0..Cardinality(rows') :
               n + Cardinality(toVisit') <= Cardinality(rows') /\ Foretold(ThisWalk(n))'
  <2>1. taker.type = "MARKET"
    BY <1>4 DEF SameRequest
  <2>2. PICK n \in 0..Cardinality(rows) :
             /\ n + Cardinality(toVisit') <= Cardinality(rows)
             /\ ThisWalk(n).todo = toVisit' /\ ThisWalk(n).left = TakerLeft'
             /\ Len(ThisWalk(n).fills) = Len(trades') - Len(saved.trades)
             /\ \A t \in 1..Len(ThisWalk(n).fills) :
                  SameFill(trades'[Len(saved.trades) + t], ThisWalk(n).fills[t])
    BY <2>1
  <2>3. ThisWalk(n)' = ThisWalk(n)
    BY <1>1
  <2>4. saved' = saved
    OBVIOUS
  <2>5. Foretold(ThisWalk(n))'
    <3> DEFINE w == ThisWalk(n)
    <3>1. w' = w
      BY <2>3
    <3>2. /\ w'.todo = toVisit' /\ w'.left = TakerLeft'
          /\ Len(w'.fills) = Len(trades') - Len(saved'.trades)
      BY <2>2, <2>4, <3>1
    <3>3. \A t \in 1..Len(w'.fills) :
            SameFill(trades'[Len(saved'.trades) + t], w'.fills[t])
      BY <2>2, <2>4, <3>1
    <3> HIDE DEF w
    <3>4. Foretold(w)'
      BY <3>2, <3>3 DEF Foretold, SameFill
    <3> QED BY <3>4 DEF w
  <2> QED BY <2>2, <2>5
<1> QED BY <1>1, <1>2, <1>3, <1>4 DEF PreviewKept

\* A turn over the user's own order, which both pass over.
LEMMA SkipPreview ==
  ASSUME BookInv, BookInv', PreviewKept, SkipOwn
  PROVE  PreviewKept'
<1> DEFINE i == NextMaker
<1>1. /\ Looping /\ MeetsOwnOrder /\ phase = "MATCH" /\ phase' = "MATCH"
      /\ toVisit' = toVisit \ {i}
      /\ UNCHANGED <<orders, trades, taker, rows, rates, saved, feeRates, userStatus>>
  BY DEF SkipOwn, Looping, tables, switches
<1>2. Calm /\ SameRequest /\ UNCHANGED <<saved, rows>>
  BY <1>1 DEF Calm, SameRequest
<1>3. rates' \in {NoRates, feeRates[taker.market]}
  BY <1>1 DEF PreviewKept
<1>4. i \in toVisit /\ saved.orders[i].user = taker.user /\ toVisit \subseteq rows
  BY <1>1, SameRowNext, LoopTypes DEF MeetsOwnOrder
<1> HIDE DEF i
<1>5. taker.type = "LIMIT" =>
        (taker'.filled > 0 <=> \E j \in rows \ toVisit' : saved.orders[j].user # taker.user)
  BY <1>1, <1>4 DEF PreviewKept
<1>6. ASSUME taker.type = "MARKET"
      PROVE  \E n \in 0..Cardinality(rows) :
               /\ n + Cardinality(toVisit') <= Cardinality(rows)
               /\ ThisWalk(n).todo = toVisit' /\ ThisWalk(n).left = TakerLeft'
               /\ Len(ThisWalk(n).fills) = Len(trades') - Len(saved.trades)
               /\ \A t \in 1..Len(ThisWalk(n).fills) :
                    SameFill(trades'[Len(saved.trades) + t], ThisWalk(n).fills[t])
  <2>1. PICK n \in Nat :
           /\ n + 1 \in 0..Cardinality(rows)
           /\ n + 1 + Cardinality(toVisit \ {i}) <= Cardinality(rows)
           /\ Foretold(ThisWalk(n))
           /\ ThisWalk(n + 1) = TurnNext(ThisWalk(n).fills)
    BY <1>1, <1>6, LoopTurn DEF i
  <2> DEFINE w == ThisWalk(n)
             v == ThisWalk(n + 1)
  <2>2. v = [todo |-> toVisit \ {i}, left |-> TakerLeft, fills |-> w.fills]
    BY <1>1, <2>1 DEF TurnNext, i
  <2>3. /\ Len(w.fills) = Len(trades) - Len(saved.trades)
        /\ \A t \in 1..Len(w.fills) : SameFill(trades[Len(saved.trades) + t], w.fills[t])
    BY <2>1 DEF Foretold
  <2>4. TakerLeft' = TakerLeft
    BY <1>1 DEF TakerLeft
  <2> HIDE DEF w, v
  <2>5. v.todo = toVisit' /\ v.left = TakerLeft' /\ v.fills = w.fills
    BY <1>1, <2>2, <2>4
  <2>6. /\ Len(v.fills) = Len(trades') - Len(saved.trades)
        /\ \A t \in 1..Len(v.fills) : SameFill(trades'[Len(saved.trades) + t], v.fills[t])
    BY <1>1, <2>3, <2>5
  <2>7. n + 1 + Cardinality(toVisit') <= Cardinality(rows)
    BY <1>1, <2>1
  <2> QED BY <2>1, <2>5, <2>6, <2>7 DEF v
<1> QED BY <1>1, <1>2, <1>3, <1>5, <1>6, TurnPreview

\* The first fill that is worth nothing, at which both stop.
LEMMA StopPreview ==
  ASSUME BookInv, BookInv', PreviewKept, MarketStop
  PROVE  PreviewKept'
<1> DEFINE d == Deal(NextMaker)
<1>1. /\ Looping /\ ~MeetsOwnOrder /\ phase = "MATCH" /\ phase' = "MATCH"
      /\ toVisit' = {} /\ taker.type = "MARKET" /\ (d.fill = 0 \/ d.quote = 0)
      /\ UNCHANGED <<orders, trades, taker, rows, rates, saved, feeRates, userStatus>>
  BY DEF MarketStop, Looping, tables, switches, IsWorthless
<1>2. Calm /\ SameRequest /\ UNCHANGED <<saved, rows>>
  BY <1>1 DEF Calm, SameRequest
<1>3. rates \in {NoRates, feeRates[taker.market]} /\ rates' = rates
  BY <1>1 DEF PreviewKept
<1>4. FillNext.amount = 0 \/ FillNext.quote = 0
  <2>1. FillNext.amount = d.fill /\ FillNext.quote = d.quote
    BY <1>1, <1>3, DealForetold DEF FillNext
  <2> HIDE DEF d
  <2> QED BY <1>1, <2>1
<1> HIDE DEF d
<1>5. PICK n \in Nat :
         /\ n + 1 \in 0..Cardinality(rows)
         /\ n + 1 + Cardinality({}) <= Cardinality(rows)
         /\ Foretold(ThisWalk(n))
         /\ ThisWalk(n + 1) = TurnNext(ThisWalk(n).fills)
  BY <1>1, LoopTurn
<1> DEFINE w == ThisWalk(n)
           v == ThisWalk(n + 1)
<1>6. v = [todo |-> {}, left |-> TakerLeft, fills |-> w.fills]
  BY <1>1, <1>4, <1>5 DEF TurnNext
<1>7. /\ Len(w.fills) = Len(trades) - Len(saved.trades)
      /\ \A t \in 1..Len(w.fills) : SameFill(trades[Len(saved.trades) + t], w.fills[t])
  BY <1>5 DEF Foretold
<1>8. TakerLeft' = TakerLeft
  BY <1>1 DEF TakerLeft
<1> HIDE DEF w, v
<1>9. v.todo = toVisit' /\ v.left = TakerLeft' /\ v.fills = w.fills
  BY <1>1, <1>6, <1>8
<1>10. /\ Len(v.fills) = Len(trades') - Len(saved.trades)
       /\ \A t \in 1..Len(v.fills) : SameFill(trades'[Len(saved.trades) + t], v.fills[t])
  BY <1>1, <1>7, <1>9
<1>11. n + 1 + Cardinality(toVisit') <= Cardinality(rows)
  BY <1>1, <1>5
<1>12. \E k \in 0..Cardinality(rows) :
               /\ k + Cardinality(toVisit') <= Cardinality(rows)
               /\ ThisWalk(k).todo = toVisit' /\ ThisWalk(k).left = TakerLeft'
               /\ Len(ThisWalk(k).fills) = Len(trades') - Len(saved.trades)
               /\ \A t \in 1..Len(ThisWalk(k).fills) :
                    SameFill(trades'[Len(saved.trades) + t], ThisWalk(k).fills[t])
  BY <1>5, <1>9, <1>10, <1>11 DEF v
<1> QED BY <1>1, <1>2, <1>3, <1>12, TurnPreview

\* A fill of a market order is the next fill of the walk.
LEMMA FillOfWalk ==
  ASSUME BookInv, BookInv', PreviewKept, Looping, ~MeetsOwnOrder, taker.type = "MARKET",
         NEW f \in Nat \ {0}, NEW q \in Nat \ {0}, NEW l, NEW r,
         Fills(NextMaker, f, q, l, r), r = feeRates[taker.market],
         FillNext.maker = NextMaker, FillNext.amount = f, FillNext.quote = q,
         FillNext.buyerFee = Fee(f, r.buyer), FillNext.sellerFee = Fee(q, r.seller)
  PROVE  PreviewKept'
<1> DEFINE i == NextMaker
<1>1. /\ phase = "MATCH" /\ phase' = "MATCH" /\ toVisit' = toVisit \ {i} /\ rates' = r
      /\ UNCHANGED <<rows, saved, feeRates, userStatus>> /\ TakerWrites(f, q)
  BY DEF Fills, Meets, Writes, switches
<1>2. Calm /\ SameRequest /\ UNCHANGED <<saved, rows>>
  BY <1>1 DEF Calm, SameRequest, TakerWrites
<1>3. /\ taker \in OrderRec /\ saved.orders \in Seq(OrderRec) /\ Len(saved.orders) = Len(orders)
      /\ Walkable(saved.orders, rows, feeRates[taker.market], Asked(taker))
      /\ Len(saved.trades) \in Nat /\ Len(saved.trades) <= Len(trades) /\ Len(trades) \in Nat
  BY <1>1, LoopTypes
<1>4. TypeOK
  BY DEF BookInv, LockInv, TypeInv
<1>5. /\ Len(trades') = Len(trades) + 1
      /\ \A t \in 1..Len(trades) : trades'[t] = trades[t]
      /\ trades'[Len(trades) + 1] = TradeRow(i, f, q, r)
  BY <1>4, TradesAfterFill
<1>6. FillNext \in FillRec
  <2> DEFINE os == saved.orders
             rate == feeRates[taker.market]
             a == Asked(taker)
             left == TakerLeft
  <2>1. os \in Seq(OrderRec) /\ rate \in RateRec /\ a.market \in Markets
    BY <1>3 DEF Walkable
  <2>2. i \in 1..Len(os)
    BY <1>3, SameRowNext
  <2>3. left \in Nat
    BY <1>1, LeftNat
  <2>4. FillNext = PreviewFill(os, rate, a, i, left)
    BY DEF FillNext
  <2> HIDE DEF os, rate, a, i, left
  <2>5. PreviewFill(os, rate, a, i, left) \in FillRec
    BY <2>1, <2>2, <2>3, PreviewFillSound
  <2> QED BY <2>4, <2>5
<1>7. PreviewLeft(Asked(taker), TakerLeft, FillNext) = TakerLeft'
  <2>1. /\ taker.requested \in Nat /\ taker.spent \in Nat /\ taker.remaining \in Nat
        /\ taker.side \in Side
    BY <1>3 DEF OrderRec
  <2>2. CASE taker.side = "BUY"
    <3>1. PreviewLeft(Asked(taker), TakerLeft, FillNext) = (taker.requested - taker.spent) - q
      BY <2>2 DEF PreviewLeft, Asked, TakerLeft, QuoteLeft
    <3>2. TakerLeft' = taker.requested - (taker.spent + q)
      BY <1>1, <2>2 DEF TakerWrites, TakerLeft, QuoteLeft
    <3> QED BY <2>1, <3>1, <3>2
  <2>3. CASE taker.side # "BUY"
    <3>1. PreviewLeft(Asked(taker), TakerLeft, FillNext) = taker.remaining - f
      BY <2>3 DEF PreviewLeft, Asked, TakerLeft
    <3>2. TakerLeft' = taker.remaining - f
      BY <1>1, <2>3 DEF TakerWrites, TakerLeft, BuyerPaysAvailable
    <3> QED BY <3>1, <3>2
  <2> QED BY <2>2, <2>3
<1>8. SameFill(TradeRow(i, f, q, r), FillNext)
  BY DEF SameFill, TradeRow
<1>9. PICK n \in Nat :
         /\ n + 1 \in 0..Cardinality(rows)
         /\ n + 1 + Cardinality(toVisit \ {i}) <= Cardinality(rows)
         /\ Foretold(ThisWalk(n)) /\ ThisWalk(n).fills \in Seq(FillRec)
         /\ ThisWalk(n + 1) = TurnNext(ThisWalk(n).fills)
  BY LoopTurn
<1> DEFINE w == ThisWalk(n)
           v == ThisWalk(n + 1)
<1>10. v = [todo |-> toVisit \ {i}, left |-> PreviewLeft(Asked(taker), TakerLeft, FillNext),
            fills |-> Append(w.fills, FillNext)]
  BY <1>9 DEF TurnNext
<1>11. /\ Len(w.fills) = Len(trades) - Len(saved.trades)
       /\ \A t \in 1..Len(w.fills) : SameFill(trades[Len(saved.trades) + t], w.fills[t])
       /\ w.fills \in Seq(FillRec)
  BY <1>9 DEF Foretold
<1> HIDE DEF w, v, i
<1>12. v.todo = toVisit' /\ v.left = TakerLeft' /\ v.fills = Append(w.fills, FillNext)
  BY <1>1, <1>7, <1>10
<1>13. /\ Len(v.fills) = Len(w.fills) + 1 /\ v.fills[Len(w.fills) + 1] = FillNext
       /\ \A t \in 1..Len(w.fills) : v.fills[t] = w.fills[t]
  <2> DEFINE fills == w.fills
  <2>1. fills \in Seq(FillRec)
    BY <1>11
  <2> HIDE DEF fills
  <2>2. /\ Len(Append(fills, FillNext)) = Len(fills) + 1
        /\ Append(fills, FillNext)[Len(fills) + 1] = FillNext
        /\ \A t \in 1..Len(fills) : Append(fills, FillNext)[t] = fills[t]
    BY <1>6, <2>1, AppendProperties
  <2> QED BY <1>12, <2>2 DEF fills
<1>14. Len(v.fills) = Len(trades') - Len(saved.trades) /\ Len(w.fills) \in Nat
  BY <1>3, <1>5, <1>11, <1>13
<1>15. ASSUME NEW t \in 1..Len(v.fills)
       PROVE  SameFill(trades'[Len(saved.trades) + t], v.fills[t])
  <2>1. CASE t \in 1..Len(w.fills)
    <3>1. Len(saved.trades) + t \in 1..Len(trades)
      BY <1>3, <1>11, <2>1
    <3> QED BY <1>5, <1>11, <1>13, <2>1, <3>1
  <2>2. CASE t = Len(w.fills) + 1
    <3>1. Len(saved.trades) + t = Len(trades) + 1
      BY <1>3, <1>11, <2>2
    <3> QED BY <1>5, <1>8, <1>13, <2>2, <3>1
  <2>3. t \in 1..Len(w.fills) \/ t = Len(w.fills) + 1
    BY <1>13, <1>14
  <2> QED BY <2>1, <2>2, <2>3
<1>16. n + 1 + Cardinality(toVisit') <= Cardinality(rows)
  BY <1>1, <1>9
<1>17. \E k \in 0..Cardinality(rows) :
               /\ k + Cardinality(toVisit') <= Cardinality(rows)
               /\ ThisWalk(k).todo = toVisit' /\ ThisWalk(k).left = TakerLeft'
               /\ Len(ThisWalk(k).fills) = Len(trades') - Len(saved.trades)
               /\ \A t \in 1..Len(ThisWalk(k).fills) :
                    SameFill(trades'[Len(saved.trades) + t], ThisWalk(k).fills[t])
  BY <1>9, <1>12, <1>14, <1>15, <1>16 DEF v
<1>18. rates' \in {NoRates, feeRates[taker.market]}
  BY <1>1
<1> QED BY <1>1, <1>2, <1>17, <1>18, TurnPreview

LEMMA MarketFillPreview ==
  ASSUME BookInv, BookInv', PreviewKept, MarketFill, TypeInv'
  PROVE  PreviewKept'
<1> DEFINE d == Deal(NextMaker)
           maker == orders[NextMaker]
           l == LockAfterMarketFill(maker, d)
<1>1. /\ Looping /\ ~MeetsOwnOrder /\ taker.type = "MARKET" /\ phase = "MATCH"
      /\ d.fill # 0 /\ d.quote # 0 /\ Settle(d, LockAfterMarketFill(orders[d.maker], d), 0)
  BY DEF MarketFill, Looping, IsWorthless
<1>2. LockInv /\ TypeInv
  BY DEF BookInv, LockInv
<1>3. DealPays(d) /\ d.maker = NextMaker
  BY <1>1, <1>2, DealPaysLocks, DealIsSound
<1>4. /\ maker \in OrderRec /\ CoversRest(maker) /\ d.fill \in 0..maker.remaining
      /\ d.quote = QuoteFloor(maker.price, d.fill, Scale[maker.market]) /\ d.quote \in Nat
  BY <1>3 DEF DealPays, DealSound, RowSound, OrderCovered
<1>5. rates \in {NoRates, feeRates[taker.market]}
  BY <1>1 DEF PreviewKept
<1>6. /\ FillNext.maker = NextMaker /\ FillNext.amount = d.fill /\ FillNext.quote = d.quote
      /\ FillNext.buyerFee = Fee(d.fill, d.rate.buyer)
      /\ FillNext.sellerFee = Fee(d.quote, d.rate.seller)
      /\ d.rate = feeRates[taker.market]
  BY <1>1, <1>5, DealForetold DEF FillNext
<1>7. Fills(NextMaker, d.fill, d.quote, l, d.rate)
  <2>1. Settle(d, l, 0)
    BY <1>1, <1>3
  <2> HIDE DEF d
  <2>2. LockFits(maker, d.fill, l)
    BY <1>4, MarketLock
  <2> HIDE DEF l
  <2> QED BY <1>1, <1>2, <2>1, <2>2, SettleIsFill DEF d
<1> HIDE DEF l, d
<1>8. d.fill \in Nat \ {0} /\ d.quote \in Nat \ {0}
  <2>1. maker.remaining \in Nat
    BY <1>4 DEF OrderRec
  <2> QED BY <1>1, <1>4, <2>1
<1> QED BY <1>1, <1>6, <1>7, <1>8, FillOfWalk

\* A limit order that has met an order of another user has traded.
LEMMA LimitFillPreview ==
  ASSUME BookInv, BookInv', PreviewKept, LimitFill, TypeInv'
  PROVE  PreviewKept'
<1>1. Looping /\ taker.type = "LIMIT" /\ phase = "MATCH"
  BY DEF LimitFill, Looping
<1>2. PICK i, f, q, l, r : Fills(i, f, q, l, r)
  BY FillStep DEF BookInv
<1>3. /\ phase' = "MATCH" /\ toVisit' = toVisit \ {i} /\ rates' = r /\ r = Rate(taker.market)
      /\ UNCHANGED <<rows, saved, feeRates, userStatus>> /\ TakerWrites(f, q)
      /\ i \in toVisit /\ i \in 1..Len(orders) /\ WantsMore(taker)
      /\ orders[i] \in OrderRec /\ IsOpen(orders[i]) /\ RowSound(orders[i])
      /\ orders[i].user # taker.user
      /\ f = Lesser(taker.remaining, orders[i].remaining)
  BY <1>1, <1>2 DEF Fills, Meets, Exchanges, Writes, switches, BuyerPaysAvailable
<1>4. Calm /\ SameRequest /\ UNCHANGED <<saved, rows>>
  BY <1>3 DEF Calm, SameRequest, TakerWrites
<1>5. rates' \in {NoRates, feeRates[taker.market]}
  BY <1>1, <1>3 DEF PreviewKept, Rate
<1>6. taker \in OrderRec /\ toVisit \subseteq rows /\ saved.orders[i] = orders[i]
  BY <1>1, <1>3, LoopTypes
<1>7. taker'.filled > 0
  <2>1. taker.filled \in Nat /\ taker.remaining \in Nat /\ orders[i].remaining \in Nat
    BY <1>3, <1>6 DEF OrderRec
  <2>2. taker.remaining > 0 /\ orders[i].remaining > 0
    BY <1>1, <1>3 DEF WantsMore, RowSound, OrderCovered
  <2>3. f \in Nat \ {0}
    BY <1>3, <2>1, <2>2 DEF Lesser
  <2>4. taker'.filled = taker.filled + f
    BY <1>3 DEF TakerWrites
  <2> QED BY <2>1, <2>3, <2>4
<1>8. i \in rows \ toVisit' /\ saved.orders[i].user # taker.user
  BY <1>3, <1>6
<1> QED BY <1>1, <1>3, <1>4, <1>5, <1>7, <1>8, TurnPreview

\* The switches and the fee settings, while the loop runs: none that changes
\* what the preview reads.
LEMMA RestPreview ==
  ASSUME BookInv, BookInv', PreviewKept, Calm, Administration \/ UNCHANGED vars
  PROVE  PreviewKept'
<1>1. UNCHANGED <<orders, trades, phase, taker, rows, toVisit, rates, saved>>
  BY DEF Administration, SetUserStatus, SetMarketStatus, SetAssetStatus, UpdateFeeSettings,
         vars, tables, request
<1>2. CASE phase # "MATCH"
  BY <1>1, <1>2 DEF PreviewKept
<1>3. CASE phase = "MATCH"
  <2>1. SameRequest /\ phase' = "MATCH"
    BY <1>1, <1>3 DEF SameRequest
  <2>2. /\ rates' \in {NoRates, feeRates[taker.market]}
        /\ taker.type = "LIMIT" =>
             (taker'.filled > 0 <=> \E i \in rows \ toVisit' : saved.orders[i].user # taker.user)
    BY <1>1, <1>3 DEF PreviewKept
  <2>3. ASSUME taker.type = "MARKET"
        PROVE  \E n \in 0..Cardinality(rows) :
                 /\ n + Cardinality(toVisit') <= Cardinality(rows)
                 /\ ThisWalk(n).todo = toVisit' /\ ThisWalk(n).left = TakerLeft'
                 /\ Len(ThisWalk(n).fills) = Len(trades') - Len(saved.trades)
                 /\ \A t \in 1..Len(ThisWalk(n).fills) :
                      SameFill(trades'[Len(saved.trades) + t], ThisWalk(n).fills[t])
    <3>1. PICK n \in 0..Cardinality(rows) :
            n + Cardinality(toVisit) <= Cardinality(rows) /\ Foretold(ThisWalk(n))
      BY <1>3, <2>3 DEF PreviewKept
    <3>2. TakerLeft' = TakerLeft
      BY <1>1 DEF TakerLeft
    <3> QED BY <1>1, <3>1, <3>2 DEF Foretold
  <2> QED BY <1>1, <1>3, <2>1, <2>2, <2>3, TurnPreview
<1> QED BY <1>2, <1>3

LEMMA NextPreview == PreviewInv /\ Calm /\ [Next]_vars => PreviewInv'
<1> SUFFICES ASSUME PreviewInv, Calm, [Next]_vars PROVE PreviewInv'
  OBVIOUS
<1>1. BookInv /\ AsksSomething /\ PreviewKept
  BY DEF PreviewInv
<1>2. BookInv' /\ TypeInv'
  <2>1. BookInv'
    BY <1>1, NextBook
  <2> QED BY <2>1 DEF BookInv, LockInv
<1>3. AsksSomething'
  BY <1>1, <1>2, NextAsks
<1>4. PreviewKept'
  <2>1. CASE Place
    BY <1>1, <1>2, <2>1, PlacePreview
  <2>2. CASE SkipOwn \/ MarketStop \/ LimitFill \/ MarketFill
    BY <1>1, <1>2, <2>2, SkipPreview, StopPreview, LimitFillPreview, MarketFillPreview
  <2>3. CASE Administration \/ UNCHANGED vars
    BY <1>1, <1>2, <2>3, RestPreview
  <2>4. CASE Requests \/ RejectFunds \/ MatchError \/ FinishLimit \/ FinishMarket \/ NoLiquidity
    <3>1. phase' # "MATCH"
      BY <2>4 DEF Requests, ReceiveLimit, ReceiveMarket, Receive, RejectFunds, MatchError,
            FinishLimit, FinishMarket, NoLiquidity, Abort, Commit, Done
    <3> QED BY <3>1 DEF PreviewKept
  <2>5. CASE Cancellations
    <3>1. phase' # "MATCH"
      BY <2>5 DEF Cancellations, Cancel, MayCancel, request
    <3> QED BY <3>1 DEF PreviewKept
  <2> QED BY <2>1, <2>2, <2>3, <2>4, <2>5 DEF Next, Progress
<1> QED BY <1>2, <1>3, <1>4 DEF PreviewInv

LEMMA InitPreview == Init => PreviewInv
BY InitBook DEF Init, PreviewInv, AsksSomething, PreviewKept

-----------------------------------------------------------------------------
\* What the invariant says of a preview

\* The walk of a preview of the placement ends where n turns over all its rows
\* lead, and takes at a price no more than the order book shows there.
LEMMA EndOfWalk ==
  ASSUME PreviewInv, phase = "MATCH", taker.type = "MARKET"
  PROVE  /\ PreviewEnd(taker) = ThisWalk(Cardinality(rows))
         /\ Walked(saved.orders, rows, Asked(taker), ThisWalk(Cardinality(rows)))
         /\ WithinBook(taker, PreviewFills(taker))
<1> DEFINE os == saved.orders
           r == Asked(taker)
           e == ThisWalk(Cardinality(rows))
           m == taker.market
           s == Opposite(taker.side)
           book == BookRows(m, s)
<1>1. BookInv /\ PreviewKept
  BY DEF PreviewInv
<1>2. /\ Walkable(os, rows, feeRates[m], r) /\ os \in Seq(OrderRec)
      /\ Len(os) = Len(orders) /\ Len(orders) \in Nat /\ rows \in SUBSET (1..Len(orders))
  BY <1>1, LoopTypes
<1>3. Committed = os
  BY DEF Committed
<1>4. rows = PreviewRows(taker)
  <2>1. rows = {i \in PreviewRows(taker) : Crosses(taker, os[i])}
    BY <1>1 DEF PreviewKept
  <2>2. \A i : Crosses(taker, os[i])
    BY DEF Crosses
  <2> QED BY <2>1, <2>2
<1>5. PreviewEnd(taker) = e
  BY <1>3, <1>4 DEF PreviewEnd, ThisWalk, PreviewRates
<1>6. Walked(os, rows, r, e)
  <2>1. Cardinality(rows) \in Nat
    BY <1>2, RowsFinite
  <2>2. Walked(os, rows, r, Walk(os, rows, feeRates[m], r)[Cardinality(rows)])
    BY <1>2, <2>1, WalkSound
  <2> QED BY <2>2 DEF ThisWalk
<1>7. rows \in SUBSET book /\ book \in SUBSET (1..Len(os))
  <2>1. DOMAIN os = 1..Len(os)
    BY <1>2, LenProperties
  <2>2. book = {i \in 1..Len(os) : os[i].market = m /\ os[i].side = s /\ Rests(os[i])}
    BY <1>3, <2>1 DEF BookRows
  <2>3. \A i \in rows : i \in 1..Len(os) /\ os[i].market = m /\ os[i].side = s /\ Rests(os[i])
    BY <1>3, <1>4, <2>1 DEF PreviewRows
  <2> HIDE DEF book, os, m, s
  <2> QED BY <2>2, <2>3
<1> DEFINE fills == PreviewFills(taker)
<1>8. fills = e.fills
  BY <1>5 DEF PreviewFills
<1> HIDE DEF e, book, r
<1>9. ASSUME NEW t \in DOMAIN fills
      PROVE  \E level \in BookSide(m, s) :
               /\ level.price = Committed[fills[t].maker].price
               /\ TakenAt(Committed, fills, level.price) <= level.amount
  <2> DEFINE i == fills[t].maker
             p == os[i].price
             level == Level(m, s, p)
  <2>1. fills \in Seq(FillRec) /\ t \in 1..Len(fills)
    <3>1. fills \in Seq(FillRec)
      BY <1>6, <1>8 DEF Walked
    <3> QED BY <1>9, <3>1, LenProperties
  <2>2. i \in rows
    BY <1>6, <1>8, <2>1 DEF Walked
  <2>3. level \in BookSide(m, s)
    <3>1. i \in BookRows(m, s)
      BY <1>7, <2>2 DEF book
    <3> QED BY <1>3, <3>1 DEF BookSide
  <2>4. level.price = p /\ level.amount = RestingAt(os, book, p)
    BY <1>3 DEF Level, book
  <2> HIDE DEF level, i, p, fills
  <2>5. TakenAt(os, fills, p) + RestingAt(os, e.todo, p) <= RestingAt(os, rows, p)
    BY <1>6, <1>8 DEF Walked
  <2>6. TakenAt(os, fills, p) \in Nat
    BY <2>1, TakenWeightsNat
  <2>7. RestingAt(os, rows, p) <= RestingAt(os, book, p)
    BY <1>2, <1>7, RestingLess
  <2>8. /\ RestingAt(os, e.todo, p) \in Nat /\ RestingAt(os, rows, p) \in Nat
        /\ RestingAt(os, book, p) \in Nat
    <3> DEFINE todo == e.todo
    <3>1. todo \in SUBSET (1..Len(os)) /\ rows \in SUBSET (1..Len(os))
      BY <1>2, <1>6 DEF Walked
    <3> HIDE DEF todo, os
    <3>2. os \in Seq(OrderRec) /\ book \in SUBSET (1..Len(os))
      BY <1>2, <1>7
    <3>3. /\ RestingAt(os, todo, p) \in Nat /\ RestingAt(os, rows, p) \in Nat
          /\ RestingAt(os, book, p) \in Nat
      BY <3>1, <3>2, RestWeightsNat
    <3> QED BY <3>3 DEF todo
  <2>9. TakenAt(os, fills, p) <= RestingAt(os, book, p)
    <3>1. \A a, b, c, d \in Nat : a + b <= c /\ c <= d => a <= d
      BY SMT
    <3> QED BY <2>5, <2>6, <2>7, <2>8, <3>1
  <2>10. /\ level.price = Committed[fills[t].maker].price
         /\ TakenAt(Committed, fills, level.price) <= level.amount
    <3>1. Committed[fills[t].maker].price = p
      BY <1>3 DEF p, i
    <3> QED BY <1>3, <2>4, <2>9, <3>1
  <2> QED BY <2>3, <2>10
<1> HIDE DEF fills
<1>10. WithinBook(taker, fills)
  BY <1>9 DEF WithinBook
<1> QED BY <1>5, <1>6, <1>10 DEF e, r, fills

LEMMA MarketForetold ==
  ASSUME PreviewInv, phase = "MATCH", taker.type = "MARKET"
  PROVE  LET fills == PreviewFills(taker)
         IN  /\ WithinBook(taker, fills)
             /\ Len(FillsSoFar) <= Len(fills)
             /\ \A t \in DOMAIN FillsSoFar : SameFill(FillsSoFar[t], fills[t])
             /\ LoopEnded => /\ Len(FillsSoFar) = Len(fills)
                             /\ (Liquidity(taker) = "FULL") = ~WantsMore(taker)
<1> DEFINE os == saved.orders
           rate == feeRates[taker.market]
           r == Asked(taker)
           N == Cardinality(rows)
           e == ThisWalk(N)
           fills == PreviewFills(taker)
<1>1. BookInv /\ PreviewKept /\ AsksSomething
  BY DEF PreviewInv
<1>2. /\ Walkable(os, rows, rate, r) /\ Len(saved.trades) \in Nat /\ Len(trades) \in Nat
      /\ rows \in SUBSET (1..Len(orders)) /\ Len(orders) \in Nat
  BY <1>1, LoopTypes
<1>3. PreviewEnd(taker) = e /\ Walked(os, rows, r, e) /\ WithinBook(taker, fills)
  BY EndOfWalk
<1>4. N \in Nat
  BY <1>2, RowsFinite
<1>5. PICK n \in 0..N : Foretold(ThisWalk(n))
  BY <1>1 DEF PreviewKept
<1> DEFINE w == ThisWalk(n)
<1>6. /\ Extends(w.fills, e.fills) /\ (Ended(w) => e = w)
      /\ Walked(os, rows, r, w)
  <2>1. n \in Nat /\ n <= N
    BY <1>4
  <2> DEFINE f == Walk(os, rows, rate, r)
  <2>2. Extends(f[n].fills, f[N].fills) /\ (Ended(f[n]) => f[N] = f[n])
    <3> HIDE DEF N
    <3> QED BY <1>2, <1>4, <2>1, WalkGrows
  <2>3. Walked(os, rows, r, f[n])
    BY <1>2, <2>1, WalkSound
  <2> QED BY <2>2, <2>3 DEF ThisWalk
<1>7. fills = e.fills
  BY <1>3 DEF PreviewFills
<1>8. /\ w.todo = toVisit /\ w.left = TakerLeft
      /\ Len(w.fills) = Len(trades) - Len(saved.trades)
      /\ \A t \in 1..Len(w.fills) : SameFill(trades[Len(saved.trades) + t], w.fills[t])
  BY <1>5 DEF Foretold
<1>9. TakerLeft \in Nat /\ (WantsMore(taker) <=> TakerLeft > 0)
  BY <1>1, LeftNat
<1>10. LoopEnded => Ended(w)
  BY <1>8, <1>9 DEF LoopEnded, Ended
<1>11. r.left \in Nat \ {0}
  BY <1>1 DEF AsksSomething
<1> HIDE DEF w, e, r, fills
<1>12. /\ Len(FillsSoFar) = Len(w.fills) /\ Len(w.fills) \in Nat
       /\ DOMAIN FillsSoFar = 1..Len(w.fills)
       /\ \A t \in 1..Len(w.fills) : FillsSoFar[t] = trades[Len(saved.trades) + t]
  <2>1. w.fills \in Seq(FillRec)
    BY <1>6 DEF Walked
  <2>2. Len(w.fills) \in Nat
    BY <2>1, LenProperties
  <2> DEFINE k == Len(trades) - Len(saved.trades)
             g == [t \in 1..k |-> trades[Len(saved.trades) + t]]
  <2>3. FillsSoFar = g
    BY DEF FillsSoFar
  <2>4. k = Len(w.fills)
    BY <1>8
  <2> HIDE DEF k
  <2>5. k \in Nat /\ Len(g) = k /\ DOMAIN g = 1..k
    BY <2>2, <2>4
  <2> QED BY <2>2, <2>3, <2>4, <2>5
<1>13. Len(FillsSoFar) <= Len(fills)
  BY <1>6, <1>7, <1>12 DEF Extends
<1>14. \A t \in DOMAIN FillsSoFar : SameFill(FillsSoFar[t], fills[t])
  <2> TAKE t \in DOMAIN FillsSoFar
  <2>1. t \in 1..Len(w.fills)
    BY <1>12
  <2>2. fills[t] = w.fills[t] /\ FillsSoFar[t] = trades[Len(saved.trades) + t]
    BY <1>6, <1>7, <1>12, <2>1 DEF Extends
  <2> QED BY <1>8, <2>1, <2>2
<1>15. ASSUME LoopEnded
       PROVE  Len(FillsSoFar) = Len(fills) /\ (Liquidity(taker) = "FULL" <=> ~WantsMore(taker))
  <2>1. e = w
    BY <1>6, <1>10, <1>15
  <2>2. Len(FillsSoFar) = Len(fills)
    BY <1>7, <1>12, <2>1
  <2>3. PreviewEnd(taker).left = TakerLeft
    BY <1>3, <1>8, <2>1
  <2>4. PreviewFills(taker) = <<>> => TakerLeft = r.left
    BY <1>6, <1>7, <1>8, <2>1 DEF fills, Walked
  <2>5. Liquidity(taker) = "FULL" <=> PreviewStatus(taker) = "FILLED"
    BY DEF Liquidity
  <2>6. PreviewStatus(taker) = "FILLED" <=> PreviewFills(taker) # <<>> /\ PreviewEnd(taker).left = 0
    BY DEF PreviewStatus
  <2> QED BY <1>9, <1>11, <2>2, <2>3, <2>4, <2>5, <2>6
<1> QED BY <1>3, <1>13, <1>14, <1>15 DEF fills

LEMMA LimitForetold ==
  ASSUME PreviewInv, phase = "MATCH", taker.type # "MARKET", LoopEnded
  PROVE  (taker.filled > 0) = MayMatchImmediately(taker)
<1>1. BookInv /\ PreviewKept /\ AsksSomething
  BY DEF PreviewInv
<1>2. taker \in OrderRec
  BY <1>1, LoopTypes
<1>3. taker.type = "LIMIT" /\ taker.filled \in Nat /\ taker.remaining \in Nat
  BY <1>2 DEF OrderRec
<1>4. taker.filled > 0 <=> \E i \in rows \ toVisit : saved.orders[i].user # taker.user
  BY <1>1, <1>3 DEF PreviewKept
<1>5. MayMatchImmediately(taker) <=> \E i \in rows : saved.orders[i].user # taker.user
  BY <1>1 DEF PreviewKept, MayMatchImmediately, Committed
<1>6. toVisit = {} \/ taker.remaining = 0
  BY <1>3 DEF LoopEnded, WantsMore
<1>7. taker.remaining = 0 => taker.filled > 0
  <2>1. taker.amount \in Nat \ {0}
    BY <1>1, <1>3 DEF AsksSomething
  <2>2. taker.filled + taker.remaining = taker.amount
    BY <1>1, <1>3 DEF BookInv, FillsKept, AccountedIn
  <2> QED BY <1>3, <2>1, <2>2
<1>8. taker.filled > 0 <=> MayMatchImmediately(taker)
  BY <1>4, <1>5, <1>6, <1>7
<1>9. MayMatchImmediately(taker) \in BOOLEAN
  BY DEF MayMatchImmediately
<1>10. (taker.filled > 0) \in BOOLEAN
  OBVIOUS
<1> QED BY <1>8, <1>9, <1>10

\* Between the time a placement selects its rows and its end, no account that
\* was frozen becomes active and no fee rate changes.
CalmPlacements ==
  [][phase = "MATCH" =>
       /\ feeRates' = feeRates
       /\ \A u \in Users : userStatus'[u] = "ACTIVE" => userStatus[u] = "ACTIVE"]_vars

\* previewMarketOrder and limitOrderMayMatchImmediately walk the same rows in the
\* same order with the same sums as the placement does under its locks, and the
\* order book of buildBookSide shows all that they take.  A preview is of the
\* tables it reads: once an administrator brings a frozen account back or changes
\* the fee rates while the loop runs, a preview is of other tables than the
\* placement's.  Freezing an account, pausing a market or an asset and any number
\* of other orders change nothing of it.
THEOREM PreviewsForetell == Spec /\ CalmPlacements => []PreviewForetells
<1>1. PreviewInv => PreviewForetells
  BY MarketForetold, LimitForetold DEF PreviewForetells
<1>2. PreviewInv /\ [Next]_vars /\ [Calm]_vars => PreviewInv'
  <2>1. CASE UNCHANGED vars
    <3>1. Calm
      BY <2>1 DEF Calm, vars, switches
    <3> QED BY <2>1, <3>1, NextPreview
  <2>2. CASE Calm
    BY <2>2, NextPreview
  <2> QED BY <2>1, <2>2
<1>3. CalmPlacements <=> [][Calm]_vars
  BY DEF CalmPlacements, Calm
<1> QED BY <1>1, <1>2, <1>3, InitPreview, PTL DEF Spec

=============================================================================
