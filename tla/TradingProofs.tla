---------------------------- MODULE TradingProofs ----------------------------
(***************************************************************************)
(* What trading promises of the wallets, for any users, markets, numbers   *)
(* and fee rates.  No balance, remaining amount or lock becomes negative;  *)
(* money is conserved; and the locked balances of the wallets, the locks of*)
(* the order rows and what remains of the orders agree well enough for no  *)
(* settlement and no cancellation ever to find less than was reserved.     *)
(***************************************************************************)
EXTENDS TradingProperties, MoneyProofs, SequenceTheorems, TLAPS

\* A market order locks nothing while it is matched.
MarketLocksNothing == phase # "IDLE" /\ taker.type = "MARKET" => taker.locked = 0

TypeInv == TypeOK /\ MarketLocksNothing

-----------------------------------------------------------------------------
\* Balances

\* updateWallet writes one balance and keeps the table's type as long as it
\* does not overdraw.
LEMMA ChangeBalance ==
  ASSUME NEW w \in Balances, NEW u \in Users, NEW a \in Assets, NEW x \in Int,
         w[u][a] + x >= 0
  PROVE  /\ Change(w, u, a, x) \in Balances
         /\ \A v \in Users, b \in Assets :
              Change(w, u, a, x)[v][b] =
                IF v = u /\ b = a THEN w[u][a] + x ELSE w[v][b]
<1>1. w \in [Users -> [Assets -> Nat]] /\ w[u] \in [Assets -> Nat] /\ w[u][a] \in Nat
  BY DEF Balances
<1>2. Change(w, u, a, x) = [w EXCEPT ![u] = [w[u] EXCEPT ![a] = w[u][a] + x]]
  BY DEF Change
<1>3. w[u][a] + x \in Nat
  BY <1>1, SMT
<1>4. [w[u] EXCEPT ![a] = w[u][a] + x] \in [Assets -> Nat]
  BY <1>1, <1>3
<1> QED BY <1>1, <1>2, <1>3, <1>4 DEF Balances

-----------------------------------------------------------------------------
\* The matching query

\* Of a non-empty set of rows there is one with the smallest value, and among
\* those with the same value the oldest.
LEMMA LeastRow ==
  ASSUME NEW T \in SUBSET Nat, T # {}, NEW f, \A i \in T : f[i] \in Nat
  PROVE  \E i \in T : \A j \in T \ {i} :
           IF f[i] = f[j] THEN i < j ELSE f[i] < f[j]
<1> DEFINE V == {f[i] : i \in T}
<1>1. V \in SUBSET Nat /\ V # {}
  OBVIOUS
<1>2. PICK v \in V : \A k \in V : v <= k
  BY <1>1, LeastElement
<1> DEFINE S == {i \in T : f[i] = v}
<1>3. S \in SUBSET Nat /\ S # {}
  BY <1>2
<1>4. PICK i \in S : \A k \in S : i <= k
  BY <1>3, LeastElement
<1>5. ASSUME NEW j \in T \ {i}
      PROVE  IF f[i] = f[j] THEN i < j ELSE f[i] < f[j]
  <2>1. f[i] = v /\ f[i] <= f[j] /\ f[i] \in Nat /\ f[j] \in Nat /\ i \in Nat /\ j \in Nat
    BY <1>2, <1>4, <1>5
  <2>2. f[i] = f[j] => i <= j
    BY <1>4, <1>5, <2>1
  <2> QED BY <1>5, <2>1, <2>2, SMT
<1> QED BY <1>4, <1>5

\* Finitely many naturals have a bound.
LEMMA BoundExists ==
  ASSUME NEW n \in Nat, NEW T \in SUBSET (1..n), NEW f, \A i \in T : f[i] \in Nat
  PROVE  \E k \in Nat : \A i \in T : f[i] <= k
<1> DEFINE Bounds(m, k) == \A i \in T : i <= m => f[i] <= k
           S == {m \in Nat : \E k \in Nat : Bounds(m, k)}
<1>1. 0 \in S
  <2>1. Bounds(0, 0)
    BY SMT
  <2> QED BY <2>1
<1>2. ASSUME NEW m \in Nat, m \in S PROVE m + 1 \in S
  <2>1. PICK k \in Nat : Bounds(m, k)
    BY <1>2
  <2>2. \A i \in T : i <= m + 1 => i <= m \/ i = m + 1
    BY SMT
  <2>3. CASE m + 1 \in T
    <3> DEFINE l == IF f[m + 1] <= k THEN k ELSE f[m + 1]
    <3>1. l \in Nat /\ k <= l /\ f[m + 1] <= l
      BY <2>3, SMT
    <3> HIDE DEF l
    <3>2. Bounds(m + 1, l)
      BY <2>1, <2>2, <3>1, SMT
    <3> QED BY <3>1, <3>2
  <2>4. CASE m + 1 \notin T
    <3>1. Bounds(m + 1, k)
      BY <2>1, <2>2, <2>4
    <3> QED BY <3>1
  <2> QED BY <2>3, <2>4
<1> HIDE DEF S
<1>3. n \in S
  BY <1>1, <1>2, SetInduction
<1> QED BY <1>3 DEF S

\* ... and so there is one with the largest value, the oldest among equals.
LEMMA GreatestRow ==
  ASSUME NEW n \in Nat, NEW T \in SUBSET (1..n), T # {}, NEW f, \A i \in T : f[i] \in Nat
  PROVE  \E i \in T : \A j \in T \ {i} :
           IF f[i] = f[j] THEN i < j ELSE f[i] > f[j]
<1>1. PICK k \in Nat : \A i \in T : f[i] <= k
  BY BoundExists
<1> DEFINE g == [i \in T |-> k - f[i]]
<1>2. \A i \in T : g[i] = k - f[i] /\ g[i] \in Nat
  BY <1>1, SMT
<1>3. T \in SUBSET Nat
  BY SMT
<1> HIDE DEF g
<1>4. PICK i \in T : \A j \in T \ {i} : IF g[i] = g[j] THEN i < j ELSE g[i] < g[j]
  BY <1>2, <1>3, LeastRow
<1>5. ASSUME NEW j \in T \ {i}
      PROVE  IF f[i] = f[j] THEN i < j ELSE f[i] > f[j]
  <2>1. g[i] = k - f[i] /\ g[j] = k - f[j] /\ f[i] \in Nat /\ f[j] \in Nat
    BY <1>2
  <2>2. IF g[i] = g[j] THEN i < j ELSE g[i] < g[j]
    BY <1>4
  <2> QED BY <2>1, <2>2, SMT
<1> QED BY <1>5

\* The loop always finds the row it visits next among those still to visit,
\* and that row comes before all the others.
LEMMA NextMakerFirst ==
  ASSUME orders \in Seq(OrderRec), toVisit \subseteq DOMAIN orders, toVisit # {}
  PROVE  /\ NextMaker \in toVisit
         /\ \A j \in toVisit \ {NextMaker} : Before(taker, NextMaker, j)
<1> DEFINE f == [i \in toVisit |-> orders[i].price]
<1>1. Len(orders) \in Nat /\ DOMAIN orders = 1..Len(orders)
  BY LenProperties
<1>2. toVisit \in SUBSET (1..Len(orders)) /\ toVisit \in SUBSET Nat
  BY <1>1
<1>3. \A i \in toVisit : f[i] = orders[i].price /\ f[i] \in Nat
  <2> TAKE i \in toVisit
  <2>1. orders[i] \in OrderRec
    BY <1>1, ElementOfSeq
  <2> QED BY <2>1 DEF OrderRec
<1> HIDE DEF f
<1>4. \E i \in toVisit : \A j \in toVisit \ {i} : Before(taker, i, j)
  <2>1. CASE taker.side = "BUY"
    <3>1. PICK i \in toVisit : \A j \in toVisit \ {i} : IF f[i] = f[j] THEN i < j ELSE f[i] < f[j]
      BY <1>2, <1>3, LeastRow
    <3>2. ASSUME NEW j \in toVisit \ {i} PROVE Before(taker, i, j)
      <4>1. f[i] = orders[i].price /\ f[j] = orders[j].price
        BY <1>3
      <4>2. IF f[i] = f[j] THEN i < j ELSE f[i] < f[j]
        BY <3>1
      <4> QED BY <2>1, <4>1, <4>2 DEF Before
    <3> QED BY <3>2
  <2>2. CASE taker.side # "BUY"
    <3>1. PICK i \in toVisit : \A j \in toVisit \ {i} : IF f[i] = f[j] THEN i < j ELSE f[i] > f[j]
      BY <1>1, <1>2, <1>3, GreatestRow
    <3>2. ASSUME NEW j \in toVisit \ {i} PROVE Before(taker, i, j)
      <4>1. f[i] = orders[i].price /\ f[j] = orders[j].price
        BY <1>3
      <4>2. IF f[i] = f[j] THEN i < j ELSE f[i] > f[j]
        BY <3>1
      <4> QED BY <2>2, <4>1, <4>2 DEF Before
    <3> QED BY <3>2
  <2> QED BY <2>1, <2>2
<1> QED BY <1>4 DEF NextMaker

-----------------------------------------------------------------------------
\* A fill

\* A fill concerns a row still to visit of another user, exchanges no more
\* than either order has left, and its fees are part of what they are taken of.
DealSound(d) ==
  /\ d.maker \in toVisit
  /\ d.fill \in 0..orders[d.maker].remaining
  /\ ~BuyerPaysAvailable => d.fill <= taker.remaining
  /\ d.quote \in Nat /\ d.release \in Nat /\ d.refund \in Nat
  /\ d.buyer \in Users /\ d.seller \in Users /\ d.buyer # d.seller
  /\ d.buyerFee \in 0..d.fill /\ d.sellerFee \in 0..d.quote
  /\ d.rate \in RateRec

LEMMA RowTypes ==
  ASSUME TypeOK, phase # "IDLE"
  PROVE  /\ taker \in OrderRec
         /\ Len(orders) \in Nat /\ DOMAIN orders = 1..Len(orders)
         /\ \A i \in DOMAIN orders : orders[i] \in OrderRec
         /\ Scale[taker.market] \in ScaleRec
         /\ Base[taker.market] \in Assets /\ Quote[taker.market] \in Assets
         /\ Base[taker.market] # Quote[taker.market]
<1>1. taker \in OrderRec /\ orders \in Seq(OrderRec)
  BY DEF TypeOK, TheTables, TablesRec
<1>2. taker.market \in Markets
  BY <1>1 DEF OrderRec
<1>3. Len(orders) \in Nat /\ DOMAIN orders = 1..Len(orders)
  BY <1>1, LenProperties
<1>4. \A i \in DOMAIN orders : orders[i] \in OrderRec
  BY <1>1, <1>3, ElementOfSeq
<1> QED BY <1>1, <1>2, <1>3, <1>4, TablesAssumption, NumbersAssumption

LEMMA RateType ==
  ASSUME TypeOK, NEW m \in Markets
  PROVE  /\ Rate(m) \in RateRec
         /\ Rate(m).buyer \in 0..MaxFeeRate /\ Rate(m).seller \in 0..MaxFeeRate
<1>1. Rate(m) \in RateRec
  BY DEF TypeOK, Rate
<1> QED BY <1>1 DEF RateRec

\* Whatever row the loop stands at, the fill it computes is sound.
LEMMA DealIsSound ==
  ASSUME TypeInv, Looping, ~MeetsOwnOrder
  PROVE  DealSound(Deal(NextMaker)) /\ Deal(NextMaker).maker = NextMaker
<1> DEFINE n == NextMaker
           maker == orders[n]
           m == taker.market
           sc == Scale[m]
           buying == taker.side = "BUY"
           fill == IF taker.type = "MARKET" /\ buying
                     THEN MarketBuyFill(QuoteLeft(taker), maker.price, maker.remaining, sc)
                     ELSE Lesser(taker.remaining, maker.remaining)
           quote == QuoteFloor(maker.price, fill, sc)
           release == IF taker.type = "LIMIT" /\ buying /\ taker.price # maker.price
                        THEN QuoteFloor(taker.price, fill, sc) ELSE quote
           d == Deal(n)
<1>1. TypeOK /\ phase = "MATCH" /\ WantsMore(taker) /\ toVisit # {}
      /\ toVisit \subseteq DOMAIN orders /\ orders \in Seq(OrderRec)
  BY DEF TypeInv, TypeOK, Looping, TheTables, TablesRec
<1>2. n \in toVisit /\ n \in DOMAIN orders
  BY <1>1, NextMakerFirst
<1>3. taker \in OrderRec /\ maker \in OrderRec /\ sc \in ScaleRec /\ m \in Markets
  BY <1>1, <1>2, RowTypes DEF OrderRec
<1>4. /\ maker.price \in Nat /\ maker.remaining \in Nat /\ maker.user \in Users
      /\ taker.price \in Nat /\ taker.remaining \in Nat /\ taker.user \in Users
      /\ taker.requested \in Nat /\ taker.spent \in Nat
  BY <1>3 DEF OrderRec
<1>5. maker.user # taker.user
  BY DEF MeetsOwnOrder
<1>6. Rate(m) \in RateRec /\ Rate(m).buyer \in 0..MaxFeeRate /\ Rate(m).seller \in 0..MaxFeeRate
  BY <1>1, <1>3, RateType
<1>7. /\ d.maker = n /\ d.fill = fill /\ d.quote = quote /\ d.release = release
      /\ d.refund = Refund(release, quote) /\ d.rate = Rate(m)
      /\ d.buyer = IF buying THEN taker.user ELSE maker.user
      /\ d.seller = IF buying THEN maker.user ELSE taker.user
      /\ d.buyerFee = Fee(fill, Rate(m).buyer)
      /\ d.sellerFee = Fee(quote, Rate(m).seller)
  BY DEF Deal
<1>8. fill \in 0..maker.remaining /\ (~BuyerPaysAvailable => fill <= taker.remaining)
  <2>1. CASE taker.type = "MARKET" /\ buying
    <3>1. QuoteLeft(taker) \in Nat
      BY <1>1, <1>4, <2>1, SMT DEF WantsMore, QuoteLeft
    <3> QED BY <1>3, <1>4, <2>1, <3>1, MarketBuyWithinSpend DEF BuyerPaysAvailable
  <2>2. CASE ~(taker.type = "MARKET" /\ buying)
    BY <1>4, <2>2 DEF Lesser
  <2> QED BY <2>1, <2>2
<1>9. fill \in Nat
  BY <1>4, <1>8
<1> HIDE DEF fill
<1>10. quote \in Nat /\ release \in Nat
  BY <1>3, <1>4, <1>9, QuoteFloorBounds
<1> HIDE DEF quote, release
<1>11. Refund(release, quote) \in Nat
  BY <1>10, SMT DEF Refund
<1>12. Fee(fill, Rate(m).buyer) \in 0..fill /\ Fee(quote, Rate(m).seller) \in 0..quote
  BY <1>6, <1>9, <1>10, FeeWithinAmount
<1> HIDE DEF d, n
<1> QED BY <1>2, <1>4, <1>5, <1>6, <1>7, <1>8, <1>10, <1>11, <1>12 DEF DealSound, d, n

\* What a settlement does to the available balance of user v in asset b, and
\* to the locked one.
AvailMoved(d, v, b) ==
  LET base == Base[taker.market]
      quote == Quote[taker.market]
  IN  IF v = d.buyer /\ b = quote THEN (IF BuyerPaysAvailable THEN -d.quote ELSE d.refund)
      ELSE IF v = d.buyer /\ b = base THEN d.fill - d.buyerFee
      ELSE IF v = d.seller /\ b = base THEN (IF SellerPaysAvailable THEN -d.fill ELSE 0)
      ELSE IF v = d.seller /\ b = quote THEN d.quote - d.sellerFee
      ELSE 0

LockedMoved(d, v, b) ==
  IF v = d.buyer /\ b = Quote[taker.market]
    THEN (IF BuyerPaysAvailable THEN 0 ELSE -d.release)
  ELSE IF v = d.seller /\ b = Base[taker.market]
    THEN (IF SellerPaysAvailable THEN 0 ELSE -d.fill)
  ELSE 0

\* The four wallets of a settlement are different ones, so its writes do not
\* overwrite each other, and after the checks of Funded none overdraws.
LEMMA SettleBalances ==
  ASSUME TypeOK, phase = "MATCH", NEW d, NEW makerLock, NEW takerLock,
         DealSound(d), Funded(d), Settle(d, makerLock, takerLock)
  PROVE  /\ avail' \in Balances /\ locked' \in Balances
         /\ \A v \in Users, b \in Assets :
              /\ avail'[v][b] = avail[v][b] + AvailMoved(d, v, b)
              /\ locked'[v][b] = locked[v][b] + LockedMoved(d, v, b)
<1> DEFINE base == Base[taker.market]
           quote == Quote[taker.market]
           x1 == IF BuyerPaysAvailable THEN -d.quote ELSE d.refund
           x2 == d.fill - d.buyerFee
           x3 == IF SellerPaysAvailable THEN -d.fill ELSE 0
           x4 == d.quote - d.sellerFee
           y1 == IF BuyerPaysAvailable THEN 0 ELSE -d.release
           y2 == IF SellerPaysAvailable THEN 0 ELSE -d.fill
           spent == Change(avail, d.buyer, quote, x1)
           bought == Change(spent, d.buyer, base, x2)
           delivered == Change(bought, d.seller, base, x3)
           paid == Change(delivered, d.seller, quote, x4)
           released == Change(locked, d.buyer, quote, y1)
           given == Change(released, d.seller, base, y2)
<1>1. avail' = paid /\ locked' = given
  BY DEF Settle
<1>2. avail \in Balances /\ locked \in Balances
  BY DEF TypeOK, TheTables, TablesRec
<1>3. base \in Assets /\ quote \in Assets /\ base # quote
  BY RowTypes
<1>4. taker.side \in Side /\ taker.market \in Markets
  BY RowTypes DEF OrderRec
<1>5. /\ d.quote \in Nat /\ d.release \in Nat /\ d.refund \in Nat /\ d.fill \in Nat
      /\ d.buyerFee \in 0..d.fill /\ d.sellerFee \in 0..d.quote
      /\ d.buyer \in Users /\ d.seller \in Users /\ d.buyer # d.seller
  <2>1. orders[d.maker].remaining \in Nat
    BY RowTypes DEF DealSound, OrderRec, TypeOK
  <2> QED BY <2>1 DEF DealSound
<1>6. \A v \in Users, b \in Assets : avail[v][b] \in Nat /\ locked[v][b] \in Nat
  BY <1>2 DEF Balances
<1>7. /\ x1 \in Int /\ x2 \in Nat /\ x3 \in Int /\ x4 \in Nat /\ y1 \in Int /\ y2 \in Int
      /\ avail[d.buyer][quote] + x1 >= 0 /\ avail[d.seller][base] + x3 >= 0
      /\ locked[d.buyer][quote] + y1 >= 0 /\ locked[d.seller][base] + y2 >= 0
  BY <1>3, <1>5, <1>6 DEF Funded
<1> HIDE DEF base, quote, x1, x2, x3, x4, y1, y2
<1>8. /\ spent \in Balances
      /\ \A v \in Users, b \in Assets :
           spent[v][b] = IF v = d.buyer /\ b = quote THEN avail[d.buyer][quote] + x1 ELSE avail[v][b]
  BY <1>2, <1>3, <1>5, <1>7, ChangeBalance
<1> HIDE DEF spent
<1>9. /\ bought \in Balances
      /\ \A v \in Users, b \in Assets :
           bought[v][b] = IF v = d.buyer /\ b = base THEN spent[d.buyer][base] + x2 ELSE spent[v][b]
  <2>1. spent[d.buyer][base] + x2 >= 0
    BY <1>3, <1>5, <1>6, <1>7, <1>8
  <2> QED BY <1>3, <1>5, <1>7, <1>8, <2>1, ChangeBalance
<1> HIDE DEF bought
<1>10. /\ delivered \in Balances
       /\ \A v \in Users, b \in Assets :
            delivered[v][b] = IF v = d.seller /\ b = base THEN bought[d.seller][base] + x3 ELSE bought[v][b]
  <2>1. bought[d.seller][base] = avail[d.seller][base]
    BY <1>3, <1>5, <1>8, <1>9
  <2> QED BY <1>3, <1>5, <1>7, <1>9, <2>1, ChangeBalance
<1> HIDE DEF delivered
<1>11. /\ paid \in Balances
       /\ \A v \in Users, b \in Assets :
            paid[v][b] = IF v = d.seller /\ b = quote THEN delivered[d.seller][quote] + x4 ELSE delivered[v][b]
  <2>1. delivered[d.seller][quote] = avail[d.seller][quote]
    BY <1>3, <1>5, <1>8, <1>9, <1>10
  <2>2. delivered[d.seller][quote] + x4 >= 0
    BY <1>3, <1>5, <1>6, <1>7, <2>1
  <2> QED BY <1>3, <1>5, <1>7, <1>10, <2>2, ChangeBalance
<1>12. /\ released \in Balances
       /\ \A v \in Users, b \in Assets :
            released[v][b] = IF v = d.buyer /\ b = quote THEN locked[d.buyer][quote] + y1 ELSE locked[v][b]
  BY <1>2, <1>3, <1>5, <1>7, ChangeBalance
<1> HIDE DEF released, paid
<1>13. /\ given \in Balances
       /\ \A v \in Users, b \in Assets :
            given[v][b] = IF v = d.seller /\ b = base THEN released[d.seller][base] + y2 ELSE released[v][b]
  <2>1. released[d.seller][base] = locked[d.seller][base]
    BY <1>3, <1>5, <1>12
  <2> QED BY <1>3, <1>5, <1>7, <1>12, <2>1, ChangeBalance
<1> HIDE DEF given
<1>14. ASSUME NEW v \in Users, NEW b \in Assets
       PROVE  paid[v][b] = avail[v][b] + AvailMoved(d, v, b)
  <2>1. AvailMoved(d, v, b) =
          IF v = d.buyer /\ b = quote THEN x1 ELSE IF v = d.buyer /\ b = base THEN x2
          ELSE IF v = d.seller /\ b = base THEN x3
          ELSE IF v = d.seller /\ b = quote THEN x4 ELSE 0
    BY DEF AvailMoved, base, quote, x1, x2, x3, x4
  <2> QED BY <1>3, <1>5, <1>6, <1>7, <1>8, <1>9, <1>10, <1>11, <2>1
<1>15. ASSUME NEW v \in Users, NEW b \in Assets
       PROVE  given[v][b] = locked[v][b] + LockedMoved(d, v, b)
  <2>1. LockedMoved(d, v, b) =
          IF v = d.buyer /\ b = quote THEN y1
          ELSE IF v = d.seller /\ b = base THEN y2 ELSE 0
    BY DEF LockedMoved, base, quote, y1, y2
  <2> QED BY <1>3, <1>5, <1>6, <1>7, <1>12, <1>13, <2>1
<1> QED BY <1>1, <1>11, <1>13, <1>14, <1>15

\* A settlement keeps the types of the other tables and of the taker's row.
LEMMA SettleTypes ==
  ASSUME TypeInv, phase = "MATCH", NEW d, NEW makerLock \in Nat, NEW takerLock \in Nat,
         taker.type = "MARKET" => takerLock = 0,
         DealSound(d), Funded(d), Settle(d, makerLock, takerLock)
  PROVE  TypeInv'
<1> DEFINE base == Base[taker.market]
           quote == Quote[taker.market]
           maker == orders[d.maker]
<1>1. TypeOK /\ MarketLocksNothing
  BY DEF TypeInv
<1>2. /\ taker \in OrderRec /\ Len(orders) \in Nat /\ DOMAIN orders = 1..Len(orders)
      /\ base \in Assets /\ quote \in Assets /\ base # quote
  BY <1>1, RowTypes
<1>3. d.maker \in 1..Len(orders) /\ maker \in OrderRec
  BY <1>1, <1>2, RowTypes DEF DealSound, TypeOK
<1>4. orders \in Seq(OrderRec) /\ trades \in Seq(TradeRec) /\ feeWallet \in [Assets -> Nat]
  BY <1>1 DEF TypeOK, TheTables, TablesRec
<1>5. /\ maker.remaining \in Nat /\ maker.filled \in Nat /\ maker.price \in Nat
      /\ taker.remaining \in Nat /\ taker.filled \in Nat /\ taker.spent \in Nat
      /\ taker.market \in Markets
  BY <1>2, <1>3 DEF OrderRec
<1>6. /\ d.quote \in Nat /\ d.fill \in Nat /\ d.fill <= maker.remaining
      /\ d.buyerFee \in Nat /\ d.sellerFee \in Nat
      /\ ~BuyerPaysAvailable => d.fill <= taker.remaining
      /\ d.rate \in RateRec
  BY <1>5 DEF DealSound
<1>7. avail' \in Balances /\ locked' \in Balances
  BY <1>1, SettleBalances
<1>8. feeWallet' \in [Assets -> Nat]
  <2>1. feeWallet' = [feeWallet EXCEPT ![base] = feeWallet[base] + d.buyerFee,
                                       ![quote] = feeWallet[quote] + d.sellerFee]
    BY <1>2 DEF Settle
  <2> DEFINE x == feeWallet[base] + d.buyerFee
             y == feeWallet[quote] + d.sellerFee
  <2>2. x \in Nat /\ y \in Nat
    <3>1. feeWallet[base] \in Nat /\ feeWallet[quote] \in Nat
      BY <1>2, <1>4
    <3> QED BY <1>6, <3>1, SMT
  <2>3. feeWallet' = [feeWallet EXCEPT ![base] = x, ![quote] = y]
    BY <2>1
  <2> HIDE DEF base, quote, x, y
  <2> QED BY <1>2, <1>4, <2>2, <2>3
<1>9. orders' \in Seq(OrderRec) /\ Len(orders') = Len(orders)
  <2> DEFINE row == AfterFill(maker, d.fill, makerLock)
  <2>1. orders' = [orders EXCEPT ![d.maker] = row]
    BY DEF Settle
  <2>2. row \in OrderRec
    <3>1. maker.remaining - d.fill \in Nat /\ maker.filled + d.fill \in Nat
      BY <1>5, <1>6, SMT
    <3> QED BY <1>3, <3>1 DEF AfterFill, OrderRec, OrderStatus
  <2> HIDE DEF row
  <2> QED BY <1>3, <1>4, <2>1, <2>2, ExceptSeq
<1>10. trades' \in Seq(TradeRec)
  <2> DEFINE row == [market |-> taker.market,
                     buyOrder |-> IF taker.side = "BUY" THEN Len(orders) + 1 ELSE d.maker,
                     sellOrder |-> IF taker.side = "BUY" THEN d.maker ELSE Len(orders) + 1,
                     price |-> maker.price, amount |-> d.fill, quote |-> d.quote,
                     buyerFee |-> d.buyerFee, sellerFee |-> d.sellerFee]
  <2>1. trades' = Append(trades, row)
    BY DEF Settle
  <2>2. row \in TradeRec
    <3>1. Len(orders) + 1 \in Nat /\ d.maker \in Nat
      BY <1>4, <1>3, LenProperties
    <3>2. maker.price \in Nat /\ d.fill \in Nat /\ d.quote \in Nat
      BY <1>2, <1>3, <1>5, <1>6
    <3>3. d.buyerFee \in Nat /\ d.sellerFee \in Nat /\ taker.market \in Markets
      BY <1>2, <1>3, <1>5, <1>6
    <3> QED BY <3>1, <3>2, <3>3 DEF TradeRec
  <2> HIDE DEF row
  <2> QED BY <1>4, <2>1, <2>2, AppendProperties
<1>11. taker' \in OrderRec /\ taker'.type = taker.type /\ taker'.locked = takerLock
  <2>1. taker' = [taker EXCEPT
           !.filled = taker.filled + d.fill,
           !.remaining = IF BuyerPaysAvailable THEN taker.remaining ELSE taker.remaining - d.fill,
           !.spent = IF taker.type = "MARKET" THEN taker.spent + d.quote ELSE taker.spent,
           !.locked = takerLock]
    BY DEF Settle
  <2> DEFINE r == IF BuyerPaysAvailable THEN taker.remaining ELSE taker.remaining - d.fill
             s == IF taker.type = "MARKET" THEN taker.spent + d.quote ELSE taker.spent
  <2>2. r \in Nat /\ s \in Nat /\ taker.filled + d.fill \in Nat
    BY <1>5, <1>6, SMT
  <2>3. taker' = [taker EXCEPT !.filled = taker.filled + d.fill, !.remaining = r,
                               !.spent = s, !.locked = takerLock]
    BY <2>1
  <2> HIDE DEF r, s
  <2> QED BY <1>2, <2>2, <2>3 DEF OrderRec
<1>12. TypeOK'
  <2>1. /\ userStatus' = userStatus /\ marketStatus' = marketStatus
        /\ assetStatus' = assetStatus /\ feeRates' = feeRates
        /\ phase' = phase /\ rows' = rows /\ saved' = saved /\ answer' = answer
        /\ toVisit' = toVisit \ {d.maker} /\ rates' = d.rate
    BY DEF Settle, switches
  <2>2. TheTables' \in TablesRec
    BY <1>7, <1>8, <1>9, <1>10 DEF TheTables, TablesRec
  <2>3. DOMAIN orders' = DOMAIN orders
    BY <1>2, <1>9, LenProperties
  <2>4. toVisit' \subseteq rows' /\ rows' \subseteq DOMAIN orders'
    BY <1>1, <2>1, <2>3 DEF TypeOK
  <2>5. rates' \in RateRec \cup {NoRates}
    BY <1>6, <2>1
  <2>6. phase' = "MATCH" /\ phase' \in PhaseName /\ saved' \in TablesRec /\ answer' \in AnswerName
    BY <1>1, <2>1 DEF TypeOK
  <2>7. /\ userStatus' \in [Users -> {"ACTIVE", "FROZEN"}]
        /\ marketStatus' \in [Markets -> {"ACTIVE", "PAUSED"}]
        /\ assetStatus' \in [Assets -> {"ACTIVE", "PAUSED"}]
        /\ feeRates' \in [Markets -> RateRec]
    BY <1>1, <2>1 DEF TypeOK
  <2> QED BY <1>11, <2>2, <2>4, <2>5, <2>6, <2>7 DEF TypeOK
<1>13. MarketLocksNothing'
  BY <1>11 DEF MarketLocksNothing
<1> QED BY <1>12, <1>13 DEF TypeInv

-----------------------------------------------------------------------------
\* The steps, one by one

LEMMA InitType == Init => TypeInv
<1> SUFFICES ASSUME Init PROVE TypeInv
  OBVIOUS
<1>1. PICK r \in FeeRates : feeRates = [m \in Markets |-> [buyer |-> r, seller |-> r]]
  BY DEF Init
<1>2. feeRates \in [Markets -> RateRec]
  BY <1>1, NumbersAssumption DEF RateRec
<1>3. avail \in Balances /\ locked \in Balances /\ feeWallet \in [Assets -> Nat]
  BY NumbersAssumption DEF Init, Balances
<1>4. orders \in Seq(OrderRec) /\ trades \in Seq(TradeRec)
  BY EmptySeq DEF Init
<1>5. TheTables \in TablesRec
  BY <1>3, <1>4 DEF TheTables, TablesRec
<1>6. userStatus \in [Users -> {"ACTIVE", "FROZEN"}]
      /\ marketStatus \in [Markets -> {"ACTIVE", "PAUSED"}]
      /\ assetStatus \in [Assets -> {"ACTIVE", "PAUSED"}]
  BY DEF Init
<1> QED BY <1>2, <1>5, <1>6
        DEF Init, TypeInv, TypeOK, MarketLocksNothing, PhaseName, AnswerName

\* A step that leaves the switches alone, keeps the tables' types and ends the
\* placement keeps TypeInv.
LEMMA DoneType ==
  ASSUME TypeInv, NEW reason \in AnswerName, Done(reason),
         UNCHANGED switches, TheTables' \in TablesRec
  PROVE  TypeInv'
<1>1. /\ userStatus' \in [Users -> {"ACTIVE", "FROZEN"}]
      /\ marketStatus' \in [Markets -> {"ACTIVE", "PAUSED"}]
      /\ assetStatus' \in [Assets -> {"ACTIVE", "PAUSED"}]
      /\ feeRates' \in [Markets -> RateRec]
  BY DEF TypeInv, TypeOK, switches
<1>2. phase' = "IDLE" /\ taker' = NoOrder /\ rows' = {} /\ toVisit' = {} /\ rates' = NoRates
      /\ answer' \in AnswerName
  BY DEF Done
<1> QED BY <1>1, <1>2 DEF TypeInv, TypeOK, MarketLocksNothing, PhaseName

LEMMA AbortType ==
  ASSUME TypeInv, phase = "MATCH", NEW reason \in AnswerName, Abort(reason)
  PROVE  TypeInv'
<1>1. saved \in TablesRec
  BY DEF TypeInv, TypeOK
<1>2. TheTables' = [avail |-> saved.avail, locked |-> saved.locked,
                    feeWallet |-> saved.feeWallet, orders |-> saved.orders,
                    trades |-> saved.trades]
  BY DEF Abort, TheTables
<1>3. TheTables' \in TablesRec
  BY <1>1, <1>2 DEF TablesRec
<1> QED BY <1>3, DoneType DEF Abort

LEMMA CommitType ==
  ASSUME TypeInv, NEW row \in OrderRec, Commit(row)
  PROVE  TypeInv'
<1>1. TheTables \in TablesRec /\ orders \in Seq(OrderRec)
  BY DEF TypeInv, TypeOK, TheTables, TablesRec
<1>2. orders' \in Seq(OrderRec)
  BY <1>1, AppendProperties DEF Commit
<1>3. TheTables' \in TablesRec
  BY <1>1, <1>2 DEF Commit, TheTables, TablesRec
<1> QED BY <1>3, DoneType DEF Commit, AnswerName

LEMMA ReceiveType ==
  ASSUME TypeInv, NEW o \in OrderRec, Receive(o), o.type = "MARKET" => o.locked = 0
  PROVE  TypeInv'
<1>1. /\ UNCHANGED switches /\ TheTables' = TheTables /\ orders' = orders
      /\ rows' = rows /\ toVisit' = toVisit /\ rates' = rates
      /\ phase' = "CHECKED" /\ taker' = o /\ answer' = "NONE"
  BY DEF Receive, tables, TheTables
<1>2. TypeOK'
  BY <1>1 DEF TypeInv, TypeOK, switches, PhaseName, AnswerName
<1> QED BY <1>1, <1>2 DEF TypeInv, MarketLocksNothing

LEMMA RequestsType ==
  ASSUME TypeInv, Requests
  PROVE  TypeInv'
<1>1. PICK u \in Users, m \in Markets, s \in Side :
        \/ \E p \in Prices, a \in Amounts : ReceiveLimit(u, m, s, p, a)
        \/ \E q \in (IF s = "BUY" THEN Spends ELSE Amounts) : ReceiveMarket(u, m, s, q)
  BY DEF Requests
<1>2. Scale[m] \in ScaleRec
  BY NumbersAssumption
<1>3. CASE \E p \in Prices, a \in Amounts : ReceiveLimit(u, m, s, p, a)
  <2>1. PICK p \in Prices, a \in Amounts : ReceiveLimit(u, m, s, p, a)
    BY <1>3
  <2>2. p \in Nat /\ a \in Nat
    BY NumbersAssumption
  <2> DEFINE lock == IF s = "BUY" THEN QuoteFloor(p, a, Scale[m]) ELSE a
  <2>3. lock \in Nat
    BY <1>2, <2>2, QuoteFloorBounds
  <2>4. LimitOrder(u, m, s, p, a) =
          [user |-> u, market |-> m, side |-> s, type |-> "LIMIT",
           price |-> p, amount |-> a, filled |-> 0, remaining |-> a,
           requested |-> 0, spent |-> 0, averagePrice |-> 0, locked |-> lock, status |-> "OPEN"]
    BY DEF LimitOrder
  <2> HIDE DEF lock
  <2>5. LimitOrder(u, m, s, p, a) \in OrderRec /\ LimitOrder(u, m, s, p, a).type = "LIMIT"
    BY <2>2, <2>3, <2>4 DEF OrderRec, OrderStatus
  <2> QED BY <2>1, <2>5, ReceiveType DEF ReceiveLimit
<1>4. CASE \E q \in (IF s = "BUY" THEN Spends ELSE Amounts) : ReceiveMarket(u, m, s, q)
  <2>1. PICK q \in (IF s = "BUY" THEN Spends ELSE Amounts) : ReceiveMarket(u, m, s, q)
    BY <1>4
  <2>2. q \in Nat
    BY NumbersAssumption
  <2>3. MarketOrder(u, m, s, q) \in OrderRec /\ MarketOrder(u, m, s, q).locked = 0
    BY <2>2 DEF MarketOrder, OrderRec, OrderStatus
  <2> QED BY <2>1, <2>3, ReceiveType DEF ReceiveMarket
<1> QED BY <1>1, <1>3, <1>4

LEMMA PlaceType ==
  ASSUME TypeInv, Place
  PROVE  TypeInv'
<1> DEFINE u == taker.user
           a == SpendAsset(taker)
<1>1. TypeOK /\ MarketLocksNothing /\ phase = "CHECKED"
  BY DEF TypeInv, Place
<1>2. taker \in OrderRec /\ Base[taker.market] \in Assets /\ Quote[taker.market] \in Assets
  BY <1>1, RowTypes
<1>3. /\ u \in Users /\ a \in Assets /\ taker.locked \in Nat /\ taker.requested \in Nat
      /\ taker.type \in {"LIMIT", "MARKET"}
  BY <1>2 DEF OrderRec, SpendAsset
<1>4. avail \in Balances /\ locked \in Balances
      /\ avail[u][a] \in Nat /\ locked[u][a] \in Nat
  BY <1>1, <1>3 DEF TypeOK, TheTables, TablesRec, Balances
<1>5. avail[u][a] >= taker.locked
  <2>1. avail[u][a] >= Needed(taker)
    BY DEF Place
  <2> QED BY <1>1, <1>3, <1>4, <2>1 DEF Needed, MarketLocksNothing
<1>6. avail' = Change(avail, u, a, -taker.locked) /\ locked' = Change(locked, u, a, taker.locked)
  BY DEF Place
<1>7. avail' \in Balances
  <2>1. -taker.locked \in Int /\ avail[u][a] + (-taker.locked) >= 0
    BY <1>3, <1>4, <1>5
  <2> HIDE DEF u, a
  <2> QED BY <1>3, <1>4, <1>6, <2>1, ChangeBalance
<1>8. locked' \in Balances
  <2>1. taker.locked \in Int /\ locked[u][a] + taker.locked >= 0
    BY <1>3, <1>4
  <2> HIDE DEF u, a
  <2> QED BY <1>3, <1>4, <1>6, <2>1, ChangeBalance
<1>9. /\ UNCHANGED switches /\ feeWallet' = feeWallet /\ orders' = orders /\ trades' = trades
      /\ taker' = taker /\ rates' = rates /\ answer' = answer /\ phase' = "MATCH"
      /\ rows' = Resting(taker) /\ toVisit' = Resting(taker) /\ saved' = TheTables
  BY DEF Place
<1>10. TheTables' \in TablesRec
  BY <1>1, <1>7, <1>8, <1>9 DEF TypeOK, TheTables, TablesRec
<1>11. rows' \subseteq DOMAIN orders' /\ toVisit' \subseteq rows'
  BY <1>9 DEF Resting
<1>12. TypeOK'
  BY <1>1, <1>2, <1>9, <1>10, <1>11 DEF TypeOK, switches, PhaseName
<1> QED BY <1>1, <1>9, <1>12 DEF TypeInv, MarketLocksNothing

\* The loop drops rows it has still to visit and does nothing else.
LEMMA VisitType ==
  ASSUME TypeInv, toVisit' \subseteq toVisit,
         UNCHANGED <<switches, tables, phase, taker, rows, rates, saved, answer>>
  PROVE  TypeInv'
<1>1. TheTables' = TheTables /\ orders' = orders
  BY DEF tables, TheTables
<1> QED BY <1>1 DEF TypeInv, TypeOK, MarketLocksNothing, switches

LEMMA LockForNat ==
  ASSUME NEW o \in OrderRec, NEW left \in Nat
  PROVE  LockFor(o, left) \in Nat
<1>1. o.price \in Nat /\ o.market \in Markets
  BY DEF OrderRec
<1>2. Scale[o.market] \in ScaleRec
  BY <1>1, NumbersAssumption
<1> QED BY <1>1, <1>2, QuoteFloorBounds DEF LockFor

LEMMA LimitFillType ==
  ASSUME TypeInv, LimitFill
  PROVE  TypeInv'
<1> DEFINE d == Deal(NextMaker)
           maker == orders[d.maker]
           makerLock == LockFor(maker, maker.remaining - d.fill)
           takerLock == LockFor(taker, taker.remaining - d.fill)
<1>1. /\ Looping /\ ~MeetsOwnOrder /\ taker.type = "LIMIT" /\ phase = "MATCH" /\ TypeOK
      /\ Fault(d) = "NONE" /\ Settle(d, makerLock, takerLock)
  BY DEF LimitFill, Looping, TypeInv
<1>2. DealSound(d)
  BY <1>1, DealIsSound
<1> HIDE DEF d
<1>3. taker \in OrderRec /\ maker \in OrderRec
  BY <1>1, <1>2, RowTypes DEF DealSound, TypeOK
<1>4. Funded(d)
  BY <1>1 DEF Fault
<1>5. maker.remaining - d.fill \in Nat /\ taker.remaining - d.fill \in Nat
  <2>1. maker.remaining \in Nat /\ taker.remaining \in Nat
    BY <1>3 DEF OrderRec
  <2>2. d.fill \in 0..maker.remaining /\ d.fill <= taker.remaining
    BY <1>1, <1>2 DEF DealSound, BuyerPaysAvailable
  <2> QED BY <2>1, <2>2, SMT
<1>6. makerLock \in Nat /\ takerLock \in Nat
  BY <1>3, <1>5, LockForNat
<1> HIDE DEF makerLock, takerLock
<1> QED BY <1>1, <1>2, <1>4, <1>6, SettleTypes

LEMMA MarketFillType ==
  ASSUME TypeInv, MarketFill
  PROVE  TypeInv'
<1> DEFINE d == Deal(NextMaker)
           maker == orders[d.maker]
           makerLock == LockAfterMarketFill(maker, d)
<1>1. /\ Looping /\ ~MeetsOwnOrder /\ taker.type = "MARKET" /\ phase = "MATCH" /\ TypeOK
      /\ ~IsWorthless(d) /\ Fault(d) = "NONE" /\ Settle(d, makerLock, 0)
  BY DEF MarketFill, Looping, TypeInv
<1>2. DealSound(d)
  BY <1>1, DealIsSound
<1> HIDE DEF d
<1>3. taker \in OrderRec /\ maker \in OrderRec
  BY <1>1, <1>2, RowTypes DEF DealSound, TypeOK
<1>4. Funded(d)
  BY <1>1 DEF Fault
<1>5. makerLock \in Nat
  <2>1. maker.remaining \in Nat /\ maker.locked \in Nat
    BY <1>3 DEF OrderRec
  <2>2. d.fill \in 0..maker.remaining /\ d.quote \in Nat
    BY <1>2 DEF DealSound
  <2> QED BY <2>1, <2>2, SMT DEF LockAfterMarketFill
<1> HIDE DEF makerLock
<1> QED BY <1>1, <1>2, <1>4, <1>5, SettleTypes

LEMMA AveragePriceNat ==
  ASSUME NEW spent \in Nat, NEW filled \in Nat, NEW sc \in ScaleRec
  PROVE  AveragePrice(spent, filled, sc) \in Nat
<1>1. CASE spent = 0 \/ filled = 0
  BY <1>1 DEF AveragePrice
<1>2. CASE spent # 0 /\ filled # 0
  <2>1. sc.unit \in Nat \ {0} /\ sc.quote \in Nat \ {0}
    BY DEF ScaleRec
  <2>2. spent * sc.unit \in Nat /\ filled * sc.quote \in Nat \ {0}
    BY <1>2, <2>1, SMT
  <2>3. (spent * sc.unit) \div (filled * sc.quote) \in Nat
    BY <2>2, Division
  <2> QED BY <2>3 DEF AveragePrice
<1> QED BY <1>1, <1>2

LEMMA FinishType ==
  ASSUME TypeInv, FinishLimit \/ FinishMarket
  PROVE  TypeInv'
<1>1. TypeOK /\ phase = "MATCH"
  BY DEF TypeInv, FinishLimit, FinishMarket, LoopEnded
<1>2. taker \in OrderRec /\ Scale[taker.market] \in ScaleRec
  BY <1>1, RowTypes
<1>3. taker.spent \in Nat /\ taker.filled \in Nat /\ taker.amount \in Nat
  BY <1>2 DEF OrderRec
<1>4. CASE FinishLimit
  <2> DEFINE status == IF taker.filled = 0 THEN "OPEN"
                       ELSE IF taker.remaining = 0 THEN "FILLED" ELSE "PARTIAL_FILLED"
  <2>1. [taker EXCEPT !.status = status] \in OrderRec
    BY <1>2 DEF OrderRec, OrderStatus
  <2> QED BY <1>4, <2>1, CommitType DEF FinishLimit
<1>5. CASE FinishMarket
  <2> DEFINE amount == IF taker.side = "BUY" THEN taker.filled ELSE taker.amount
             average == AveragePrice(taker.spent, taker.filled, Scale[taker.market])
             status == IF WantsMore(taker) THEN "PARTIAL_FILLED_CANCELLED" ELSE "FILLED"
             row == [taker EXCEPT !.amount = amount, !.averagePrice = average, !.status = status]
  <2>1. amount \in Nat /\ average \in Nat /\ status \in OrderStatus
    BY <1>2, <1>3, AveragePriceNat DEF OrderStatus
  <2>2. Commit(row)
    BY <1>5 DEF FinishMarket
  <2> HIDE DEF amount, average, status
  <2>3. row \in OrderRec
    BY <1>2, <2>1 DEF OrderRec
  <2> QED BY <2>2, <2>3, CommitType
<1> QED BY <1>4, <1>5

LEMMA CancelType ==
  ASSUME TypeInv, NEW i \in DOMAIN orders, Cancel(i)
  PROVE  TypeInv'
<1> DEFINE o == orders[i]
           u == o.user
           a == SpendAsset(o)
           row == [o EXCEPT !.status = "CANCELLED", !.locked = 0]
<1>1. TypeOK /\ orders \in Seq(OrderRec) /\ i \in 1..Len(orders)
      /\ avail \in Balances /\ locked \in Balances
  BY LenProperties DEF TypeInv, TypeOK, TheTables, TablesRec
<1>2. o \in OrderRec
  BY <1>1, ElementOfSeq
<1>3. u \in Users /\ a \in Assets /\ o.locked \in Nat
  BY <1>2, TablesAssumption DEF OrderRec, SpendAsset
<1>4. avail[u][a] \in Nat /\ locked[u][a] \in Nat
  BY <1>1, <1>3 DEF Balances
<1>5. /\ locked[u][a] >= o.locked
      /\ avail' = Change(avail, u, a, o.locked)
      /\ locked' = Change(locked, u, a, -o.locked)
      /\ orders' = [orders EXCEPT ![i] = row]
  BY DEF Cancel, CanRelease
<1>6. row \in OrderRec
  BY <1>2 DEF OrderRec, OrderStatus
<1> HIDE DEF row
<1>7. orders' \in Seq(OrderRec) /\ Len(orders') = Len(orders)
  BY <1>1, <1>5, <1>6, ExceptSeq
<1> DEFINE x == o.locked
<1>8. x \in Int /\ -x \in Int /\ avail[u][a] + x >= 0 /\ locked[u][a] + (-x) >= 0
      /\ avail' = Change(avail, u, a, x) /\ locked' = Change(locked, u, a, -x)
  BY <1>3, <1>4, <1>5
<1> HIDE DEF u, a, x
<1>9. avail' \in Balances
  BY <1>1, <1>3, <1>8, ChangeBalance
<1>10. locked' \in Balances
  BY <1>1, <1>3, <1>8, ChangeBalance
<1>11. UNCHANGED <<switches, feeWallet, trades, request, answer>>
  BY DEF Cancel
<1>12. TheTables' \in TablesRec /\ DOMAIN orders' = DOMAIN orders
  BY <1>1, <1>7, <1>9, <1>10, <1>11, LenProperties DEF TypeOK, TheTables, TablesRec
<1>13. TypeOK'
  BY <1>1, <1>11, <1>12 DEF TypeOK, switches, request
<1> QED BY <1>11, <1>13 DEF TypeInv, MarketLocksNothing, request

LEMMA AdministrationType ==
  ASSUME TypeInv, Administration
  PROVE  TypeInv'
<1>1. /\ UNCHANGED <<tables, request, answer>>
      /\ userStatus' \in [Users -> {"ACTIVE", "FROZEN"}]
      /\ marketStatus' \in [Markets -> {"ACTIVE", "PAUSED"}]
      /\ assetStatus' \in [Assets -> {"ACTIVE", "PAUSED"}]
      /\ feeRates' \in [Markets -> RateRec]
  <2>1. CASE \E u \in Freezable : SetUserStatus(u)
    BY <2>1 DEF SetUserStatus, TypeInv, TypeOK
  <2>2. CASE \E m \in Pausable \cap Markets : SetMarketStatus(m)
    BY <2>2 DEF SetMarketStatus, TypeInv, TypeOK
  <2>3. CASE \E a \in Pausable \cap Assets : SetAssetStatus(a)
    BY <2>3 DEF SetAssetStatus, TypeInv, TypeOK
  <2>4. CASE \E m \in Markets, b \in FeeRates, s \in FeeRates : UpdateFeeSettings(m, b, s)
    BY <2>4, NumbersAssumption DEF UpdateFeeSettings, TypeInv, TypeOK, RateRec
  <2> QED BY <2>1, <2>2, <2>3, <2>4 DEF Administration
<1>2. TheTables' = TheTables /\ orders' = orders
  BY <1>1 DEF tables, TheTables
<1>3. TypeOK'
  BY <1>1, <1>2 DEF TypeInv, TypeOK, request
<1> QED BY <1>1, <1>3 DEF TypeInv, MarketLocksNothing, request

LEMMA ProgressType ==
  ASSUME TypeInv, Progress
  PROVE  TypeInv'
<1>1. CASE RejectFunds
  <2>1. TheTables' = TheTables /\ TheTables \in TablesRec /\ UNCHANGED switches
    BY <1>1 DEF RejectFunds, tables, TheTables, TypeInv, TypeOK
  <2> QED BY <1>1, <2>1, DoneType DEF RejectFunds, AnswerName
<1>2. CASE SkipOwn
  BY <1>2, VisitType DEF SkipOwn
<1>3. CASE MarketStop
  BY <1>3, VisitType DEF MarketStop
<1>4. CASE MatchError
  <2>1. Fault(Deal(NextMaker)) \in AnswerName /\ phase = "MATCH"
    BY <1>4 DEF MatchError, Looping, Fault, AnswerName
  <2> QED BY <1>4, <2>1, AbortType DEF MatchError
<1>5. CASE NoLiquidity
  <2>1. phase = "MATCH" /\ "NO_LIQUIDITY" \in AnswerName
    BY <1>5 DEF NoLiquidity, LoopEnded, AnswerName
  <2> QED BY <1>5, <2>1, AbortType DEF NoLiquidity
<1> QED BY <1>1, <1>2, <1>3, <1>4, <1>5,
           PlaceType, LimitFillType, MarketFillType, FinishType DEF Progress

LEMMA NextType == TypeInv /\ [Next]_vars => TypeInv'
<1> SUFFICES ASSUME TypeInv, [Next]_vars PROVE TypeInv'
  OBVIOUS
<1>1. CASE UNCHANGED vars
  <2>1. toVisit' \subseteq toVisit
        /\ UNCHANGED <<switches, tables, phase, taker, rows, rates, saved, answer>>
    BY <1>1 DEF vars, request
  <2> QED BY <2>1, VisitType
<1>2. CASE Cancellations
  BY <1>2, CancelType DEF Cancellations
<1> QED BY <1>1, <1>2, RequestsType, ProgressType, AdministrationType DEF Next

-----------------------------------------------------------------------------

\* Every reachable state is well typed: no sequence of placements, fills,
\* roll-backs, cancellations and switches makes a balance, a lock or a
\* remaining amount negative.
THEOREM TypesHold == Spec => []TypeOK
<1>1. TypeInv => TypeOK
  BY DEF TypeInv
<1> QED BY <1>1, InitType, NextType, PTL DEF Spec

-----------------------------------------------------------------------------
\* Sums over the users

\* What the weight of user number i is in UserTotal.
Holding(av, lk, a) ==
  [i \in Nat |-> IF i \in DOMAIN Roster
                   THEN av[Roster[i]][a] + lk[Roster[i]][a] ELSE 0]

LEMMA RosterRows ==
  /\ Len(Roster) \in Nat /\ DOMAIN Roster = 1..Len(Roster)
  /\ \A i \in 1..Len(Roster) : Roster[i] \in Users
  /\ \A u \in Users : \E i \in 1..Len(Roster) : Roster[i] = u
<1>1. Len(Roster) \in Nat /\ DOMAIN Roster = 1..Len(Roster)
  BY TablesAssumption, LenProperties
<1> QED BY <1>1 DEF Users

LEMMA HoldingNat ==
  ASSUME NEW av \in Balances, NEW lk \in Balances, NEW a \in Assets
  PROVE  /\ \A i \in Nat : Holding(av, lk, a)[i] \in Nat
         /\ \A i \in 1..Len(Roster) :
              Holding(av, lk, a)[i] = av[Roster[i]][a] + lk[Roster[i]][a]
         /\ \A i \in Nat : i \notin 1..Len(Roster) => Holding(av, lk, a)[i] = 0
<1>1. \A u \in Users : av[u][a] \in Nat /\ lk[u][a] \in Nat
  BY DEF Balances
<1>2. \A i \in Nat : Holding(av, lk, a)[i] =
        IF i \in 1..Len(Roster) THEN av[Roster[i]][a] + lk[Roster[i]][a] ELSE 0
  BY RosterRows DEF Holding
<1>3. \A i \in 1..Len(Roster) : i \in Nat
  BY RosterRows
<1>4. \A i \in 1..Len(Roster) : av[Roster[i]][a] + lk[Roster[i]][a] \in Nat
  <2> TAKE i \in 1..Len(Roster)
  <2>1. Roster[i] \in Users
    BY RosterRows
  <2>2. av[Roster[i]][a] \in Nat /\ lk[Roster[i]][a] \in Nat
    BY <1>1, <2>1
  <2>3. \A x, y \in Nat : x + y \in Nat
    BY SMT
  <2> QED BY <2>2, <2>3, Zenon
<1> QED BY <1>2, <1>3, <1>4

\* A transfer between what the users hold of an asset available and locked
\* leaves the total alone.
LEMMA UserTotalSame ==
  ASSUME NEW av \in Balances, NEW lk \in Balances,
         NEW av2 \in Balances, NEW lk2 \in Balances, NEW a \in Assets,
         \A u \in Users : av2[u][a] + lk2[u][a] = av[u][a] + lk[u][a]
  PROVE  UserTotal(av2, lk2, a) = UserTotal(av, lk, a)
<1> DEFINE w == Holding(av, lk, a)
           v == Holding(av2, lk2, a)
           n == Len(Roster)
<1>1. \A i \in Nat : w[i] \in Int /\ v[i] \in Int
  BY HoldingNat
<1>2. \A i \in 1..n : w[i] = v[i]
  BY HoldingNat, RosterRows
<1>3. n \in Nat
  BY RosterRows
<1> HIDE DEF w, v, n
<1>4. SumTo(w, n) = SumTo(v, n)
  BY <1>1, <1>2, <1>3, SumToAgree
<1> QED BY <1>4 DEF w, v, n, Holding, UserTotal

\* Users b and s gain x and y of asset a, available and locked together, and
\* nobody else gains or loses any.
Moves(av, lk, av2, lk2, a, b, s, x, y) ==
  /\ av \in Balances /\ lk \in Balances /\ av2 \in Balances /\ lk2 \in Balances
  /\ a \in Assets /\ b \in Users /\ s \in Users /\ b # s /\ x \in Int /\ y \in Int
  /\ av2[b][a] + lk2[b][a] = av[b][a] + lk[b][a] + x
  /\ av2[s][a] + lk2[s][a] = av[s][a] + lk[s][a] + y
  /\ \A u \in Users \ {b, s} : av2[u][a] + lk2[u][a] = av[u][a] + lk[u][a]

\* What two users gain or lose of an asset is what the total gains or loses.
LEMMA UserTotalMoves ==
  ASSUME NEW av, NEW lk, NEW av2, NEW lk2, NEW a, NEW b, NEW s, NEW x, NEW y,
         Moves(av, lk, av2, lk2, a, b, s, x, y)
  PROVE  /\ UserTotal(av, lk, a) \in Int
         /\ UserTotal(av2, lk2, a) = UserTotal(av, lk, a) + x + y
<1> USE DEF Moves
<1> DEFINE w == Holding(av, lk, a)
           z == Holding(av2, lk2, a)
           n == Len(Roster)
<1>1. PICK i \in 1..n : Roster[i] = b
  BY RosterRows
<1>2. PICK j \in 1..n : Roster[j] = s
  BY RosterRows
<1>3. n \in Nat /\ i \in Nat /\ j \in Nat /\ i # j
  BY <1>1, <1>2, RosterRows
<1>4. \A k \in 1..n : k # i /\ k # j => Roster[k] \in Users \ {b, s}
  BY <1>1, <1>2, RosterRows, TablesAssumption
<1>5. \A k \in Nat : w[k] \in Int /\ z[k] \in Int
  BY HoldingNat
<1>6. /\ w[i] = av[b][a] + lk[b][a] /\ w[j] = av[s][a] + lk[s][a]
      /\ z[i] = av2[b][a] + lk2[b][a] /\ z[j] = av2[s][a] + lk2[s][a]
  BY <1>1, <1>2, HoldingNat
<1>7. z[i] = w[i] + x /\ z[j] = w[j] + y
  BY <1>6
<1>8. \A k \in Nat : k # i /\ k # j => z[k] = w[k]
  <2> TAKE k \in Nat
  <2>1. CASE k \in 1..n
    <3>1. /\ z[k] = av2[Roster[k]][a] + lk2[Roster[k]][a]
          /\ w[k] = av[Roster[k]][a] + lk[Roster[k]][a]
      BY <2>1, HoldingNat
    <3>2. k # i /\ k # j => Roster[k] \in Users \ {b, s}
      BY <1>4, <2>1
    <3> HIDE DEF w, z
    <3> QED BY <3>1, <3>2
  <2>2. CASE k \notin 1..n
    BY <2>2, HoldingNat
  <2> QED BY <2>1, <2>2
<1> DEFINE m == [w EXCEPT ![i] = z[i]]
<1>9. DOMAIN w = Nat
  BY DEF Holding
<1> HIDE DEF w, z, n
<1>10. m[i] = z[i] /\ \A k \in Nat : k # i => m[k] = w[k]
  BY <1>3, <1>9
<1>11. \A k \in Nat : m[k] \in Int
  BY <1>5, <1>10
<1> HIDE DEF m
<1>12. SumTo(m, n) = SumTo(w, n) - w[i] + m[i]
  BY <1>3, <1>5, <1>10, <1>11, SumToUpdate
<1>13. SumTo(z, n) = SumTo(m, n) - m[j] + z[j]
  <2>1. \A k \in Nat : k # j => m[k] = z[k]
    BY <1>8, <1>10
  <2> QED BY <1>3, <1>5, <1>11, <2>1, SumToUpdate
<1>14. SumTo(w, n) \in Int /\ SumTo(m, n) \in Int
  BY <1>3, <1>5, <1>11, SumToInt
<1>15. SumTo(z, n) = SumTo(w, n) + x + y
  BY <1>3, <1>5, <1>7, <1>10, <1>12, <1>13, <1>14, SMT
<1> QED BY <1>14, <1>15 DEF w, z, n, Holding, UserTotal

-----------------------------------------------------------------------------
\* Conservation

\* Users and fee wallets of asset a hold together what users started with.
Conserves(av, lk, fw) ==
  \A a \in Assets :
    UserTotal(av, lk, a) + fw[a]
      = SumTo([i \in Nat |-> IF i \in DOMAIN Roster THEN Funds[Roster[i]][a] ELSE 0],
              Len(Roster))

\* A limit buyer's own price is at least that of the rows its loop visits, so
\* a fill never releases less than it costs.
RowsCross == phase = "MATCH" => \A i \in toVisit : Crosses(taker, orders[i])

MoneyInv ==
  /\ TypeInv
  /\ RowsCross
  /\ Conserves(avail, locked, feeWallet)
  /\ phase = "MATCH" => Conserves(saved.avail, saved.locked, saved.feeWallet)

\* A quote rounded down is monotone in the price.
LEMMA QuoteFloorMonotone ==
  ASSUME NEW p \in Nat, NEW q \in Nat, NEW a \in Nat, NEW sc \in ScaleRec, p <= q
  PROVE  QuoteFloor(p, a, sc) <= QuoteFloor(q, a, sc)
<1> DEFINE f == QuoteFloor(p, a, sc)
           g == QuoteFloor(q, a, sc)
           u == sc.unit
<1>1. /\ f \in Nat /\ g \in Nat /\ u \in Nat \ {0}
      /\ f * u <= Worth(p, a, sc) /\ Worth(q, a, sc) < g * u + u
  BY QuoteFloorBounds DEF ScaleRec
<1>2. Worth(p, a, sc) <= Worth(q, a, sc) /\ Worth(p, a, sc) \in Nat /\ Worth(q, a, sc) \in Nat
  BY WorthMonotone, WorthNat
<1> HIDE DEF f, g, u
<1>3. ASSUME g + 1 <= f PROVE FALSE
  <2>1. (g + 1) * u <= f * u
    BY <1>1, <1>3, Monotone
  <2>2. (g + 1) * u = g * u + u /\ f * u \in Nat /\ g * u \in Nat
    BY <1>1, SMT
  <2> QED BY <1>1, <1>2, <2>1, <2>2
<1> QED BY <1>1, <1>3 DEF f, g

\* Whatever a limit buyer's lock releases beyond the cost of a fill is what it
\* is refunded.
LEMMA RefundIsTheDifference ==
  ASSUME TypeInv, RowsCross, Looping, ~MeetsOwnOrder
  PROVE  LET d == Deal(NextMaker)
         IN  ~BuyerPaysAvailable => d.refund = d.release - d.quote
<1> DEFINE d == Deal(NextMaker)
           maker == orders[NextMaker]
           sc == Scale[taker.market]
<1>1. DealSound(d) /\ d.maker = NextMaker
  BY DealIsSound
<1>2. /\ TypeOK /\ phase = "MATCH" /\ NextMaker \in toVisit /\ NextMaker \in DOMAIN orders
  BY <1>1 DEF TypeInv, TypeOK, Looping, DealSound
<1>3. taker \in OrderRec /\ maker \in OrderRec /\ sc \in ScaleRec
  BY <1>2, RowTypes
<1>4. /\ taker.price \in Nat /\ maker.price \in Nat /\ maker.remaining \in Nat
      /\ taker.type \in {"LIMIT", "MARKET"}
  BY <1>3 DEF OrderRec
<1>5. d.quote \in Nat /\ d.release \in Nat /\ d.fill \in Nat
  BY <1>1, <1>4 DEF DealSound
<1>6. /\ d.refund = Refund(d.release, d.quote)
      /\ d.quote = QuoteFloor(maker.price, d.fill, sc)
      /\ d.release = IF taker.type = "LIMIT" /\ taker.side = "BUY" /\ taker.price # maker.price
                       THEN QuoteFloor(taker.price, d.fill, sc) ELSE d.quote
  BY DEF Deal
<1>7. taker.type = "LIMIT" /\ taker.side = "BUY" => maker.price <= taker.price
  BY <1>2 DEF RowsCross, Crosses
<1> HIDE DEF d, sc
<1>8. d.release >= d.quote
  <2>1. CASE taker.type = "LIMIT" /\ taker.side = "BUY" /\ taker.price # maker.price
    BY <1>3, <1>4, <1>5, <1>6, <1>7, <2>1, QuoteFloorMonotone
  <2>2. CASE ~(taker.type = "LIMIT" /\ taker.side = "BUY" /\ taker.price # maker.price)
    BY <1>5, <1>6, <2>2
  <2> QED BY <2>1, <2>2
<1>9. d.refund = d.release - d.quote
  BY <1>5, <1>6, <1>8 DEF Refund
<1> QED BY <1>9 DEF d

\* One settlement moves money between the buyer, the seller and the fee
\* wallets.
LEMMA SettleConserves ==
  ASSUME TypeOK, phase = "MATCH", NEW d, NEW makerLock, NEW takerLock,
         DealSound(d), Funded(d), Settle(d, makerLock, takerLock),
         ~BuyerPaysAvailable => d.refund = d.release - d.quote,
         Conserves(avail, locked, feeWallet)
  PROVE  Conserves(avail', locked', feeWallet')
<1> DEFINE base == Base[taker.market]
           quote == Quote[taker.market]
<1>1. base \in Assets /\ quote \in Assets /\ base # quote /\ taker.side \in Side
  BY RowTypes DEF OrderRec
<1>2. /\ avail \in Balances /\ locked \in Balances /\ feeWallet \in [Assets -> Nat]
      /\ avail' \in Balances /\ locked' \in Balances
  BY SettleBalances DEF TypeOK, TheTables, TablesRec
<1>3. /\ d.quote \in Nat /\ d.release \in Nat /\ d.refund \in Nat /\ d.fill \in Nat
      /\ d.buyerFee \in Nat /\ d.sellerFee \in Nat
      /\ d.buyer \in Users /\ d.seller \in Users /\ d.buyer # d.seller
  <2>1. orders[d.maker].remaining \in Nat
    BY RowTypes DEF DealSound, OrderRec, TypeOK
  <2> QED BY <2>1 DEF DealSound
<1>4. \A u \in Users, a \in Assets :
        /\ avail[u][a] \in Nat /\ locked[u][a] \in Nat
        /\ avail'[u][a] = avail[u][a] + AvailMoved(d, u, a)
        /\ locked'[u][a] = locked[u][a] + LockedMoved(d, u, a)
  BY <1>2, SettleBalances DEF Balances
<1> SUFFICES ASSUME NEW a \in Assets
             PROVE  UserTotal(avail', locked', a) + feeWallet'[a]
                      = UserTotal(avail, locked, a) + feeWallet[a]
  BY DEF Conserves
<1> DEFINE x == IF a = quote THEN -d.quote ELSE IF a = base THEN d.fill - d.buyerFee ELSE 0
           y == IF a = quote THEN d.quote - d.sellerFee ELSE IF a = base THEN -d.fill ELSE 0
<1>5. feeWallet[a] \in Nat /\ feeWallet'[a] = feeWallet[a] - x - y
  <2>1. feeWallet' = [feeWallet EXCEPT ![base] = feeWallet[base] + d.buyerFee,
                                       ![quote] = feeWallet[quote] + d.sellerFee]
    BY <1>1 DEF Settle
  <2>2. feeWallet[a] \in Nat
    BY <1>2
  <2> HIDE DEF base, quote
  <2>3. feeWallet'[a] = IF a = quote THEN feeWallet[a] + d.sellerFee
                        ELSE IF a = base THEN feeWallet[a] + d.buyerFee ELSE feeWallet[a]
    BY <1>1, <1>2, <2>1
  <2> QED BY <1>3, <2>2, <2>3
<1>6. AvailMoved(d, d.buyer, a) + LockedMoved(d, d.buyer, a) = x
  BY <1>1, <1>3 DEF AvailMoved, LockedMoved
<1>7. AvailMoved(d, d.seller, a) + LockedMoved(d, d.seller, a) = y
  BY <1>1, <1>3 DEF AvailMoved, LockedMoved
<1>8. \A u \in Users \ {d.buyer, d.seller} : AvailMoved(d, u, a) = 0 /\ LockedMoved(d, u, a) = 0
  BY DEF AvailMoved, LockedMoved
<1>9. \A u \in Users : AvailMoved(d, u, a) \in Int /\ LockedMoved(d, u, a) \in Int
  BY <1>3 DEF AvailMoved, LockedMoved
<1>10. x \in Int /\ y \in Int
  BY <1>3
<1> HIDE DEF x, y
<1>11. /\ avail'[d.buyer][a] + locked'[d.buyer][a] = avail[d.buyer][a] + locked[d.buyer][a] + x
       /\ avail'[d.seller][a] + locked'[d.seller][a] = avail[d.seller][a] + locked[d.seller][a] + y
  BY <1>3, <1>4, <1>6, <1>7, <1>9
<1>12. \A u \in Users \ {d.buyer, d.seller} :
         avail'[u][a] + locked'[u][a] = avail[u][a] + locked[u][a]
  BY <1>4, <1>8
<1>13. /\ UserTotal(avail, locked, a) \in Int
       /\ UserTotal(avail', locked', a) = UserTotal(avail, locked, a) + x + y
  <2>1. Moves(avail, locked, avail', locked', a, d.buyer, d.seller, x, y)
    BY <1>2, <1>3, <1>10, <1>11, <1>12 DEF Moves
  <2> QED BY <2>1, UserTotalMoves
<1> QED BY <1>5, <1>10, <1>13

\* Moving an amount between the two balances of one wallet keeps all totals.
LEMMA TransferConserves ==
  ASSUME NEW av \in Balances, NEW lk \in Balances, NEW fw, NEW u \in Users, NEW c \in Assets,
         NEW x \in Int, av[u][c] - x >= 0, lk[u][c] + x >= 0, Conserves(av, lk, fw)
  PROVE  /\ Change(av, u, c, -x) \in Balances
         /\ Change(lk, u, c, x) \in Balances
         /\ Conserves(Change(av, u, c, -x), Change(lk, u, c, x), fw)
<1> DEFINE av2 == Change(av, u, c, -x)
           lk2 == Change(lk, u, c, x)
<1>1. \A v \in Users, b \in Assets : av[v][b] \in Nat /\ lk[v][b] \in Nat
  BY DEF Balances
<1>2. -x \in Int /\ av[u][c] + (-x) >= 0
  BY <1>1
<1>3. /\ av2 \in Balances
      /\ \A v \in Users, b \in Assets :
           av2[v][b] = IF v = u /\ b = c THEN av[u][c] + (-x) ELSE av[v][b]
  BY <1>2, ChangeBalance
<1>4. /\ lk2 \in Balances
      /\ \A v \in Users, b \in Assets :
           lk2[v][b] = IF v = u /\ b = c THEN lk[u][c] + x ELSE lk[v][b]
  BY ChangeBalance
<1> HIDE DEF av2, lk2
<1>5. ASSUME NEW a \in Assets PROVE UserTotal(av2, lk2, a) = UserTotal(av, lk, a)
  <2>1. \A v \in Users : av2[v][a] + lk2[v][a] = av[v][a] + lk[v][a]
    BY <1>1, <1>3, <1>4
  <2> QED BY <1>3, <1>4, <2>1, UserTotalSame
<1>6. Conserves(av2, lk2, fw)
  BY <1>5 DEF Conserves
<1> QED BY <1>3, <1>4, <1>6 DEF av2, lk2

LEMMA InitMoney == Init => MoneyInv
<1> SUFFICES ASSUME Init PROVE MoneyInv
  OBVIOUS
<1>1. TypeInv /\ phase = "IDLE" /\ avail = Funds /\ feeWallet = [a \in Assets |-> 0]
      /\ locked = [u \in Users |-> [a \in Assets |-> 0]]
  BY InitType DEF Init
<1>2. avail \in Balances /\ locked \in Balances
  BY <1>1 DEF TypeInv, TypeOK, TheTables, TablesRec
<1>3. ASSUME NEW a \in Assets
      PROVE  UserTotal(avail, locked, a)
               = SumTo([i \in Nat |-> IF i \in DOMAIN Roster THEN Funds[Roster[i]][a] ELSE 0],
                       Len(Roster))
  <2> DEFINE w == Holding(avail, locked, a)
             v == [i \in Nat |-> IF i \in DOMAIN Roster THEN Funds[Roster[i]][a] ELSE 0]
             n == Len(Roster)
  <2>1. \A u \in Users : Funds[u][a] \in Nat /\ avail[u][a] = Funds[u][a] /\ locked[u][a] = 0
    BY <1>1, <1>2 DEF Balances
  <2>2. \A i \in Nat : w[i] \in Int /\ v[i] \in Int
    BY <1>2, <2>1, HoldingNat, RosterRows
  <2>3. \A i \in 1..n : w[i] = v[i]
    <3> TAKE i \in 1..n
    <3>1. Roster[i] \in Users /\ i \in Nat /\ i \in DOMAIN Roster
      BY RosterRows
    <3>2. w[i] = avail[Roster[i]][a] + locked[Roster[i]][a]
      BY <1>2, HoldingNat
    <3>3. v[i] = Funds[Roster[i]][a]
      BY <3>1
    <3> HIDE DEF w, v
    <3> QED BY <2>1, <3>1, <3>2, <3>3
  <2>4. n \in Nat
    BY RosterRows
  <2> HIDE DEF w, v, n
  <2>5. SumTo(w, n) = SumTo(v, n)
    BY <2>2, <2>3, <2>4, SumToAgree
  <2> QED BY <2>5 DEF w, v, n, Holding, UserTotal
<1>4. ASSUME NEW a \in Assets PROVE UserTotal(avail, locked, a) \in Int
  <2>1. SumTo(Holding(avail, locked, a), Len(Roster)) \in Int
    BY <1>2, HoldingNat, RosterRows, SumToInt
  <2> QED BY <2>1 DEF Holding, UserTotal
<1>5. Conserves(avail, locked, feeWallet)
  <2> SUFFICES ASSUME NEW a \in Assets
               PROVE  UserTotal(avail, locked, a) + feeWallet[a] = UserTotal(avail, locked, a)
    BY <1>3 DEF Conserves
  <2> QED BY <1>1, <1>4
<1> QED BY <1>1, <1>5 DEF MoneyInv, RowsCross

LEMMA FillMoney ==
  ASSUME MoneyInv, TypeInv', LimitFill \/ MarketFill
  PROVE  MoneyInv'
<1> DEFINE d == Deal(NextMaker)
<1>1. /\ Looping /\ ~MeetsOwnOrder /\ phase = "MATCH" /\ TypeInv /\ TypeOK /\ RowsCross
      /\ Conserves(avail, locked, feeWallet)
      /\ Conserves(saved.avail, saved.locked, saved.feeWallet)
  BY DEF LimitFill, MarketFill, Looping, MoneyInv, TypeInv
<1>2. DealSound(d)
  BY <1>1, DealIsSound
<1>3. ~BuyerPaysAvailable => d.refund = d.release - d.quote
  BY <1>1, RefundIsTheDifference
<1>4. Funded(d)
  BY DEF Fault, LimitFill, MarketFill
<1>5. PICK makerLock, takerLock : Settle(d, makerLock, takerLock)
  BY DEF LimitFill, MarketFill
<1> HIDE DEF d
<1>6. Conserves(avail', locked', feeWallet')
  BY <1>1, <1>2, <1>3, <1>4, <1>5, SettleConserves
<1>7. phase' = "MATCH" /\ saved' = saved /\ toVisit' = toVisit \ {d.maker}
  BY <1>1, <1>5 DEF Settle
<1>8. ASSUME NEW i \in toVisit' PROVE Crosses(taker, orders[i])'
  <2>1. i \in toVisit /\ i # d.maker /\ Crosses(taker, orders[i])
    BY <1>1, <1>7 DEF RowsCross
  <2>2. orders'[i] = orders[i]
    BY <2>1, <1>5 DEF Settle
  <2>3. taker'.type = taker.type /\ taker'.side = taker.side /\ taker'.price = taker.price
    <3>1. taker \in OrderRec
      BY <1>1 DEF TypeOK
    <3> QED BY <1>5, <3>1 DEF Settle, OrderRec
  <2> QED BY <2>1, <2>2, <2>3 DEF Crosses
<1> QED BY <1>1, <1>6, <1>7, <1>8 DEF MoneyInv, RowsCross

LEMMA AbortMoney ==
  ASSUME MoneyInv, TypeInv', phase = "MATCH", NEW reason, Abort(reason)
  PROVE  MoneyInv'
<1>1. /\ avail' = saved.avail /\ locked' = saved.locked /\ feeWallet' = saved.feeWallet
      /\ phase' = "IDLE"
  BY DEF Abort, Done
<1>2. Conserves(saved.avail, saved.locked, saved.feeWallet)
  BY DEF MoneyInv
<1>3. Conserves(avail', locked', feeWallet')
  BY <1>1, <1>2
<1> QED BY <1>1, <1>3 DEF MoneyInv, RowsCross

\* A step that moves no money and begins no loop.
LEMMA QuietMoney ==
  ASSUME MoneyInv, TypeInv', UNCHANGED <<avail, locked, feeWallet>>,
         phase' # "MATCH" \/
           (phase = "MATCH" /\ toVisit' \subseteq toVisit /\ UNCHANGED <<taker, orders, saved>>)
  PROVE  MoneyInv'
<1>1. Conserves(avail', locked', feeWallet')
  BY DEF MoneyInv
<1> QED BY <1>1 DEF MoneyInv, RowsCross

LEMMA PlaceMoney ==
  ASSUME MoneyInv, TypeInv', Place
  PROVE  MoneyInv'
<1> DEFINE u == taker.user
           c == SpendAsset(taker)
           x == taker.locked
<1>1. TypeInv /\ TypeOK /\ phase = "CHECKED" /\ Conserves(avail, locked, feeWallet)
  BY DEF MoneyInv, TypeInv, Place
<1>2. taker \in OrderRec /\ Base[taker.market] \in Assets /\ Quote[taker.market] \in Assets
  BY <1>1, RowTypes
<1>3. /\ u \in Users /\ c \in Assets /\ x \in Nat /\ taker.requested \in Nat
      /\ taker.type \in {"LIMIT", "MARKET"}
  BY <1>2 DEF OrderRec, SpendAsset
<1>4. avail \in Balances /\ locked \in Balances /\ avail[u][c] \in Nat /\ locked[u][c] \in Nat
  BY <1>1, <1>3 DEF TypeOK, TheTables, TablesRec, Balances
<1>5. avail[u][c] >= x
  <2>1. avail[u][c] >= Needed(taker)
    BY DEF Place
  <2> QED BY <1>1, <1>3, <1>4, <2>1 DEF Needed, TypeInv, MarketLocksNothing
<1>6. /\ avail' = Change(avail, u, c, -x) /\ locked' = Change(locked, u, c, x)
      /\ feeWallet' = feeWallet /\ orders' = orders /\ taker' = taker
      /\ toVisit' = Resting(taker) /\ saved' = TheTables /\ phase' = "MATCH"
  BY DEF Place
<1> HIDE DEF u, c, x
<1>7. x \in Int /\ avail[u][c] - x >= 0 /\ locked[u][c] + x >= 0
  BY <1>3, <1>4, <1>5
<1>8. Conserves(avail', locked', feeWallet')
  BY <1>1, <1>3, <1>4, <1>6, <1>7, TransferConserves
<1>9. Conserves(saved'.avail, saved'.locked, saved'.feeWallet)
  BY <1>1, <1>6 DEF TheTables
<1>10. RowsCross'
  BY <1>6 DEF RowsCross, Resting, Crosses
<1> QED BY <1>8, <1>9, <1>10 DEF MoneyInv

LEMMA CancelMoney ==
  ASSUME MoneyInv, TypeInv', NEW i \in DOMAIN orders, Cancel(i)
  PROVE  MoneyInv'
<1> DEFINE o == orders[i]
           u == o.user
           c == SpendAsset(o)
           x == -o.locked
<1>1. TypeOK /\ orders \in Seq(OrderRec) /\ i \in 1..Len(orders)
      /\ avail \in Balances /\ locked \in Balances /\ Conserves(avail, locked, feeWallet)
  BY LenProperties DEF MoneyInv, TypeInv, TypeOK, TheTables, TablesRec
<1>2. o \in OrderRec
  BY <1>1, ElementOfSeq
<1>3. u \in Users /\ c \in Assets /\ o.locked \in Nat
  BY <1>2, TablesAssumption DEF OrderRec, SpendAsset
<1>4. avail[u][c] \in Nat /\ locked[u][c] \in Nat
  BY <1>1, <1>3 DEF Balances
<1>5. /\ locked[u][c] >= o.locked
      /\ avail' = Change(avail, u, c, o.locked)
      /\ locked' = Change(locked, u, c, -o.locked)
      /\ feeWallet' = feeWallet /\ phase' # "MATCH"
  BY DEF Cancel, CanRelease, MayCancel, request
<1>6. /\ x \in Int /\ avail[u][c] - x >= 0 /\ locked[u][c] + x >= 0 /\ -x = o.locked
      /\ avail' = Change(avail, u, c, -x) /\ locked' = Change(locked, u, c, x)
  <2>1. -x = o.locked /\ x \in Int /\ avail[u][c] - x >= 0 /\ locked[u][c] + x >= 0
    BY <1>3, <1>4, <1>5
  <2> QED BY <1>5, <2>1
<1> HIDE DEF u, c, x
<1>7. Conserves(avail', locked', feeWallet')
  BY <1>1, <1>3, <1>5, <1>6, TransferConserves
<1> QED BY <1>5, <1>7 DEF MoneyInv, RowsCross

LEMMA NextMoney == MoneyInv /\ [Next]_vars => MoneyInv'
<1> SUFFICES ASSUME MoneyInv, [Next]_vars PROVE MoneyInv'
  OBVIOUS
<1>1. TypeInv /\ TypeInv'
  BY NextType DEF MoneyInv
<1>2. CASE UNCHANGED vars
  BY <1>1, <1>2, QuietMoney DEF vars, request, tables
<1>3. CASE Requests
  <2>1. UNCHANGED tables /\ phase' = "CHECKED"
    BY <1>3 DEF Requests, ReceiveLimit, ReceiveMarket, Receive
  <2> QED BY <1>1, <2>1, QuietMoney DEF tables
<1>4. CASE Cancellations
  BY <1>1, <1>4, CancelMoney DEF Cancellations
<1>5. CASE Administration
  <2>1. UNCHANGED <<tables, request>>
    BY <1>5 DEF Administration, SetUserStatus, SetMarketStatus, SetAssetStatus, UpdateFeeSettings
  <2> QED BY <1>1, <2>1, QuietMoney DEF tables, request
<1>6. CASE Progress
  <2>1. CASE RejectFunds
    BY <1>1, <2>1, QuietMoney DEF RejectFunds, Done, tables
  <2>2. CASE SkipOwn \/ MarketStop
    BY <1>1, <2>2, QuietMoney DEF SkipOwn, MarketStop, Looping, tables
  <2>3. CASE MatchError \/ NoLiquidity
    BY <1>1, <2>3, AbortMoney DEF MatchError, NoLiquidity, Looping, LoopEnded
  <2>4. CASE FinishLimit \/ FinishMarket
    BY <1>1, <2>4, QuietMoney DEF FinishLimit, FinishMarket, Commit, Done
  <2> QED BY <1>1, <1>6, <2>1, <2>2, <2>3, <2>4, PlaceMoney, FillMoney DEF Progress
<1> QED BY <1>2, <1>3, <1>4, <1>5, <1>6 DEF Next

\* Placing, matching, rolling back and cancelling orders create and destroy no
\* money: after every single fill, users and fee wallets hold together exactly
\* what users started with.
THEOREM MoneyIsConserved == Spec => []Conservation
<1>1. MoneyInv => Conservation
  BY DEF MoneyInv, Conserves, Conservation
<1> QED BY <1>1, InitMoney, NextMoney, PTL DEF Spec

-----------------------------------------------------------------------------
\* Sums over the order rows

\* What an order row locks of asset a for user u.
LockOf(o, u, a) == IF o.user = u /\ SpendAsset(o) = a THEN o.locked ELSE 0

LEMMA LockWeightsNat ==
  ASSUME NEW os \in Seq(OrderRec), NEW u, NEW a
  PROVE  /\ \A i \in Nat : LockWeights(os, u, a)[i] \in Nat
         /\ \A i \in 1..Len(os) : LockWeights(os, u, a)[i] = LockOf(os[i], u, a)
         /\ \A i \in Nat : i \notin 1..Len(os) => LockWeights(os, u, a)[i] = 0
<1>1. Len(os) \in Nat /\ DOMAIN os = 1..Len(os)
  BY LenProperties
<1>2. \A i \in 1..Len(os) : os[i] \in OrderRec /\ i \in Nat
  BY <1>1, ElementOfSeq
<1>3. \A i \in 1..Len(os) : LockOf(os[i], u, a) \in Nat
  BY <1>2 DEF LockOf, OrderRec
<1>4. \A i \in Nat : LockWeights(os, u, a)[i] =
        IF i \in 1..Len(os) THEN LockOf(os[i], u, a) ELSE 0
  BY <1>1 DEF LockWeights, LockOf
<1> QED BY <1>2, <1>3, <1>4

LEMMA OrderLocksNat ==
  ASSUME NEW os \in Seq(OrderRec), NEW u, NEW a
  PROVE  /\ OrderLocks(os, u, a) \in Nat
         /\ \A i \in 1..Len(os) : LockOf(os[i], u, a) <= OrderLocks(os, u, a)
<1> DEFINE w == LockWeights(os, u, a)
           n == Len(os)
<1>1. n \in Nat /\ \A i \in Nat : w[i] \in Nat
  BY LockWeightsNat, LenProperties
<1>2. \A i \in 1..n : w[i] = LockOf(os[i], u, a)
  BY LockWeightsNat
<1> HIDE DEF w, n
<1>3. SumTo(w, n) \in Nat /\ \A i \in 1..n : w[i] <= SumTo(w, n)
  BY <1>1, SumToNat
<1> QED BY <1>2, <1>3 DEF w, n, OrderLocks

\* Table os2 is os with row k replaced.
Replaces(os, os2, k, row) ==
  /\ os \in Seq(OrderRec) /\ k \in 1..Len(os) /\ row \in OrderRec
  /\ os2 = [os EXCEPT ![k] = row]

\* Replacing a row changes the sum by what the row locks less.
LEMMA OrderLocksUpdate ==
  ASSUME NEW os, NEW os2, NEW k, NEW row, NEW u, NEW a, Replaces(os, os2, k, row)
  PROVE  OrderLocks(os2, u, a)
           = OrderLocks(os, u, a) - LockOf(os[k], u, a) + LockOf(row, u, a)
<1> DEFINE w == LockWeights(os, u, a)
           v == LockWeights(os2, u, a)
           n == Len(os)
<1>0. os \in Seq(OrderRec) /\ k \in 1..n /\ row \in OrderRec
  BY DEF Replaces
<1>1. os2 \in Seq(OrderRec) /\ Len(os2) = n
      /\ \A i \in 1..n : os2[i] = IF i = k THEN row ELSE os[i]
  BY <1>0, ExceptSeq DEF Replaces
<1>2. n \in Nat /\ k \in Nat
  BY <1>0, LenProperties
<1>3. \A i \in Nat : w[i] \in Nat /\ v[i] \in Nat
  BY <1>0, <1>1, LockWeightsNat
<1>4. w[k] = LockOf(os[k], u, a) /\ v[k] = LockOf(row, u, a)
  BY <1>0, <1>1, LockWeightsNat
<1>5. \A i \in Nat : i # k => w[i] = v[i]
  <2> TAKE i \in Nat
  <2>1. CASE i \in 1..n
    <3>1. w[i] = LockOf(os[i], u, a) /\ v[i] = LockOf(os2[i], u, a)
      BY <1>0, <1>1, <2>1, LockWeightsNat
    <3> HIDE DEF w, v
    <3> QED BY <1>1, <2>1, <3>1
  <2>2. CASE i \notin 1..n
    BY <1>0, <1>1, <2>2, LockWeightsNat
  <2> QED BY <2>1, <2>2
<1> HIDE DEF w, v, n
<1>6. SumTo(v, n) = SumTo(w, n) - w[k] + v[k]
  <2>1. k \in 1..n
    BY <1>0 DEF n
  <2>2. \A i \in Nat : w[i] \in Int /\ v[i] \in Int
    BY <1>3
  <2> QED BY <1>2, <1>5, <2>1, <2>2, SumToUpdate
<1> QED BY <1>1, <1>4, <1>6 DEF w, v, n, OrderLocks

\* A new row adds what it locks.
LEMMA OrderLocksAppend ==
  ASSUME NEW os \in Seq(OrderRec), NEW row \in OrderRec, NEW u, NEW a
  PROVE  OrderLocks(Append(os, row), u, a) = OrderLocks(os, u, a) + LockOf(row, u, a)
<1> DEFINE os2 == Append(os, row)
           w == LockWeights(os, u, a)
           v == LockWeights(os2, u, a)
           n == Len(os)
<1>1. os2 \in Seq(OrderRec) /\ Len(os2) = n + 1
      /\ (\A i \in 1..n : os2[i] = os[i]) /\ os2[n + 1] = row
  BY AppendProperties
<1>2. n \in Nat
  BY LenProperties
<1> HIDE DEF os2
<1>3. \A i \in Nat : w[i] \in Int /\ v[i] \in Int
  BY <1>1, LockWeightsNat
<1>4. \A i \in 1..n : w[i] = v[i]
  <2> TAKE i \in 1..n
  <2>1. w[i] = LockOf(os[i], u, a)
    BY LockWeightsNat
  <2>2. i \in 1..Len(os2) /\ os2[i] = os[i]
    BY <1>1, <1>2
  <2>3. v[i] = LockOf(os2[i], u, a)
    BY <1>1, <2>2, LockWeightsNat
  <2> HIDE DEF w, v
  <2> QED BY <2>1, <2>2, <2>3
<1>5. v[n + 1] = LockOf(row, u, a)
  <2>1. n + 1 \in 1..Len(os2)
    BY <1>1, <1>2
  <2> QED BY <1>1, <2>1, LockWeightsNat
<1> HIDE DEF w, v, n
<1>6. SumTo(v, n + 1) = SumTo(v, n) + v[n + 1]
  BY <1>2, <1>3, SumToDef
<1>7. SumTo(w, n) = SumTo(v, n)
  BY <1>2, <1>3, <1>4, SumToAgree
<1> QED BY <1>1, <1>5, <1>6, <1>7 DEF w, v, n, os2, OrderLocks

-----------------------------------------------------------------------------
\* The arithmetic of a lock

\* A lock that covers the worth of what remains pays for any part of it and
\* covers the rest.
LEMMA LockPays ==
  ASSUME NEW p \in Nat, NEW r \in Nat, NEW f \in 0..r, NEW l \in Nat, NEW sc \in ScaleRec,
         l * sc.unit >= Worth(p, r, sc)
  PROVE  /\ QuoteFloor(p, f, sc) <= l
         /\ (l - QuoteFloor(p, f, sc)) * sc.unit >= Worth(p, r - f, sc)
<1> DEFINE q == QuoteFloor(p, f, sc)
           u == sc.unit
           wr == Worth(p, r, sc)
           wf == Worth(p, f, sc)
           wl == Worth(p, r - f, sc)
<1>1. f \in Nat /\ f <= r /\ u \in Nat \ {0}
  BY DEF ScaleRec
<1>2. /\ wr \in Nat /\ wf \in Nat /\ wl \in Nat /\ wr = wf + wl
      /\ q \in Nat /\ q * u <= wf
  <2>1. wr \in Nat /\ wf \in Nat
    BY <1>1, WorthNat
  <2>2. wl \in Nat /\ wr = wf + wl
    BY WorthRest, Zenon
  <2>3. q \in Nat /\ q * u <= wf
    BY <1>1, QuoteFloorBounds
  <2> QED BY <2>1, <2>2, <2>3
<1>3. l * u >= wr
  OBVIOUS
<1> HIDE DEF q, u, wr, wf, wl
<1>4. q * u \in Nat /\ l * u \in Nat
  BY <1>1, <1>2, ProductNat
<1>5. ASSUME l + 1 <= q PROVE FALSE
  <2>1. (l + 1) * u <= q * u
    BY <1>1, <1>2, <1>5, Monotone
  <2>2. (l + 1) * u = l * u + u
    BY <1>1, SMT
  <2> QED BY <1>1, <1>2, <1>3, <1>4, <2>1, <2>2
<1>6. q <= l
  BY <1>2, <1>5
<1>7. (l - q) * u = l * u - q * u
  BY <1>1, <1>2, SMT
<1>8. (l - q) * u >= wl
  BY <1>2, <1>3, <1>4, <1>7
<1> QED BY <1>6, <1>8 DEF q, u, wl

\* A lock computed without a remainder is no larger than one that covers.
LEMMA ExactLockFits ==
  ASSUME NEW p \in Nat, NEW a \in Nat, NEW l \in Nat, NEW sc \in ScaleRec,
         l * sc.unit >= Worth(p, a, sc), QuoteIsExact(p, a, sc)
  PROVE  QuoteFloor(p, a, sc) <= l
<1> DEFINE q == QuoteFloor(p, a, sc)
           u == sc.unit
<1>1. u \in Nat \ {0} /\ q \in Nat /\ q * u <= l * u
  BY QuoteExact, QuoteFloorBounds DEF ScaleRec
<1> HIDE DEF q, u
<1>2. ASSUME l + 1 <= q PROVE FALSE
  <2>1. (l + 1) * u <= q * u
    BY <1>1, <1>2, Monotone
  <2>2. (l + 1) * u = l * u + u /\ l * u \in Nat /\ q * u \in Nat
    BY <1>1, SMT
  <2> QED BY <1>1, <2>1, <2>2
<1> QED BY <1>1, <1>2 DEF q

\* Something is worth something, so a lock that covers it is not zero.
LEMMA CoverIsPositive ==
  ASSUME NEW p \in Nat \ {0}, NEW a \in Nat \ {0}, NEW l \in Nat, NEW sc \in ScaleRec,
         l * sc.unit >= Worth(p, a, sc)
  PROVE  l > 0
<1>1. p * a \in Nat \ {0} /\ sc.quote \in Nat \ {0} /\ sc.unit \in Nat
  BY SMT DEF ScaleRec
<1>2. Worth(p, a, sc) > 0 /\ Worth(p, a, sc) \in Nat
  BY <1>1, SMT DEF Worth
<1>3. l = 0 => l * sc.unit = 0
  BY <1>1, SMT
<1> QED BY <1>2, <1>3

-----------------------------------------------------------------------------
\* The inductive invariant

RowSound(o) == OrderCovered(o) /\ (IsOpen(o) => o.price > 0)
RowsSound(os) == \A i \in DOMAIN os : RowSound(os[i])

Backs(lk, os) == \A u \in Users, a \in Assets : OrderLocks(os, u, a) <= lk[u][a]

\* The rows still to visit are open orders of the other side of the market.
Targeted ==
  phase = "MATCH" =>
    \A i \in toVisit : /\ IsOpen(orders[i])
                       /\ orders[i].market = taker.market
                       /\ orders[i].side = Opposite(taker.side)

\* A limit order in the making locks enough for what remains of it ...
LimitSound(o) ==
  /\ o.price > 0 /\ o.amount > 0
  /\ CoversRest(o)
  /\ o.remaining = 0 => o.locked = 0
  /\ o.filled + o.remaining = o.amount

\* ... and the user of a market order has enough available for what is left.
MarketSound(o) ==
  avail[o.user][SpendAsset(o)] >= IF o.side = "BUY" THEN QuoteLeft(o) ELSE o.remaining

TakerSound ==
  /\ phase # "IDLE" /\ taker.type = "LIMIT" => LimitSound(taker)
  /\ phase = "MATCH" /\ taker.type = "MARKET" => MarketSound(taker)

LockInv ==
  /\ TypeInv
  /\ RowsSound(orders)
  /\ LocksBacked
  /\ phase = "MATCH" => RowsSound(saved.orders) /\ Backs(saved.locked, saved.orders)
  /\ Targeted
  /\ TakerSound
  /\ answer \notin {"OVERSPEND", "FUNDS_SHORT"}

-----------------------------------------------------------------------------
\* A fill takes from each lock no more than the lock has

\* What a fill of f base units takes off the lock of order o.
Pays(o, f) == IF o.side = "BUY" THEN QuoteFloor(o.price, f, Scale[o.market]) ELSE f

LEMMA RowPays ==
  ASSUME NEW o \in OrderRec, NEW f \in 0..o.remaining, CoversRest(o)
  PROVE  /\ Pays(o, f) \in 0..o.locked
         /\ o.side = "BUY" =>
              (o.locked - Pays(o, f)) * Scale[o.market].unit
                >= Worth(o.price, o.remaining - f, Scale[o.market])
         /\ o.side # "BUY" => o.locked - Pays(o, f) = o.remaining - f
<1> DEFINE sc == Scale[o.market]
<1>1. /\ o.market \in Markets /\ o.price \in Nat /\ o.remaining \in Nat /\ o.locked \in Nat
  BY DEF OrderRec
<1>2. sc \in ScaleRec /\ f \in Nat
  BY <1>1, NumbersAssumption
<1>3. CASE o.side = "BUY"
  <2>1. o.locked * sc.unit >= Worth(o.price, o.remaining, sc) /\ Pays(o, f) = QuoteFloor(o.price, f, sc)
    BY <1>3 DEF CoversRest, Pays
  <2> HIDE DEF sc
  <2>2. /\ QuoteFloor(o.price, f, sc) <= o.locked
        /\ (o.locked - QuoteFloor(o.price, f, sc)) * sc.unit >= Worth(o.price, o.remaining - f, sc)
    BY <1>1, <1>2, <2>1, LockPays
  <2>3. QuoteFloor(o.price, f, sc) \in Nat
    BY <1>1, <1>2, QuoteFloorBounds
  <2> QED BY <1>1, <1>3, <2>1, <2>2, <2>3 DEF sc
<1>4. CASE o.side # "BUY"
  BY <1>1, <1>2, <1>4 DEF CoversRest, Pays
<1> QED BY <1>3, <1>4

\* The parties of a fill and what it takes from them.
DealPays(d) ==
  LET maker == orders[d.maker]
  IN  /\ DealSound(d)
      /\ maker \in OrderRec /\ RowSound(maker) /\ IsOpen(maker)
      /\ maker.market = taker.market /\ maker.side = Opposite(taker.side)
      /\ d.buyer = IF taker.side = "BUY" THEN taker.user ELSE maker.user
      /\ d.seller = IF taker.side = "BUY" THEN maker.user ELSE taker.user
      /\ d.quote = QuoteFloor(maker.price, d.fill, Scale[taker.market])
      /\ maker.side = "BUY" => d.release = Pays(maker, d.fill)
      /\ maker.side # "BUY" => d.fill = Pays(maker, d.fill)
      /\ taker.type = "LIMIT" /\ taker.side = "BUY" => d.release = Pays(taker, d.fill)
      /\ taker.type = "LIMIT" /\ taker.side # "BUY" => d.fill = Pays(taker, d.fill)

LEMMA DealPaysLocks ==
  ASSUME LockInv, Looping, ~MeetsOwnOrder
  PROVE  DealPays(Deal(NextMaker))
<1> DEFINE d == Deal(NextMaker)
           maker == orders[NextMaker]
           sc == Scale[taker.market]
<1>1. DealSound(d) /\ d.maker = NextMaker /\ phase = "MATCH" /\ TypeOK
  BY DealIsSound DEF LockInv, Looping, TypeInv
<1>2. NextMaker \in toVisit /\ NextMaker \in DOMAIN orders
  BY <1>1 DEF TypeOK, DealSound
<1>3. /\ IsOpen(maker) /\ maker.market = taker.market /\ maker.side = Opposite(taker.side)
      /\ RowSound(maker)
  BY <1>1, <1>2 DEF LockInv, Targeted, RowsSound
<1>4. taker \in OrderRec /\ maker \in OrderRec
  BY <1>1, <1>2, RowTypes
<1>5. taker.side \in Side
  BY <1>4 DEF OrderRec
<1>6. /\ d.quote = QuoteFloor(maker.price, d.fill, sc)
      /\ d.release = IF taker.type = "LIMIT" /\ taker.side = "BUY" /\ taker.price # maker.price
                       THEN QuoteFloor(taker.price, d.fill, sc) ELSE d.quote
      /\ d.buyer = IF taker.side = "BUY" THEN taker.user ELSE maker.user
      /\ d.seller = IF taker.side = "BUY" THEN maker.user ELSE taker.user
  BY DEF Deal
<1> HIDE DEF d
<1>7. maker.side = "BUY" => taker.side # "BUY"
  BY <1>3, <1>5 DEF Opposite
<1>8. /\ maker.side = "BUY" => d.release = Pays(maker, d.fill)
      /\ maker.side # "BUY" => d.fill = Pays(maker, d.fill)
      /\ taker.type = "LIMIT" /\ taker.side = "BUY" => d.release = Pays(taker, d.fill)
      /\ taker.type = "LIMIT" /\ taker.side # "BUY" => d.fill = Pays(taker, d.fill)
  BY <1>3, <1>6, <1>7 DEF Pays
<1> QED BY <1>1, <1>3, <1>4, <1>6, <1>8 DEF DealPays, d

\* So no fill ever fails for want of funds: the resting order's lock and the
\* limit taker's pay for it, and a market taker has kept enough available.
LEMMA FillsAreFunded ==
  ASSUME LockInv, Looping, ~MeetsOwnOrder
  PROVE  /\ Funded(Deal(NextMaker))
         /\ ~Overspends(Deal(NextMaker))
<1> DEFINE d == Deal(NextMaker)
           maker == orders[d.maker]
           base == Base[taker.market]
           quote == Quote[taker.market]
<1>1. DealPays(d)
  BY DealPaysLocks
<1>2. d.quote <= QuoteLeft(taker) \/ ~BuyerPaysAvailable
  <2>1. SUFFICES ASSUME BuyerPaysAvailable PROVE d.quote <= QuoteLeft(taker)
    OBVIOUS
  <2> DEFINE row == orders[NextMaker]
             sc == Scale[taker.market]
  <2>2. TypeOK /\ phase = "MATCH" /\ WantsMore(taker) /\ d.maker = NextMaker
    BY DealIsSound DEF LockInv, TypeInv, Looping
  <2>3. row \in OrderRec /\ taker \in OrderRec /\ sc \in ScaleRec
    BY <1>1, <2>2, RowTypes DEF DealPays
  <2>4. QuoteLeft(taker) \in Nat /\ row.price \in Nat /\ row.remaining \in Nat
    BY <2>1, <2>2, <2>3 DEF WantsMore, QuoteLeft, BuyerPaysAvailable, OrderRec
  <2>5. d.quote = QuoteFloor(row.price, MarketBuyFill(QuoteLeft(taker), row.price, row.remaining, sc), sc)
    BY <2>1 DEF Deal, BuyerPaysAvailable
  <2> HIDE DEF d, sc, row
  <2> QED BY <2>3, <2>4, <2>5, MarketBuyWithinSpend
<1> HIDE DEF d
<1>3. /\ TypeOK /\ phase = "MATCH" /\ LocksBacked /\ TakerSound
      /\ orders \in Seq(OrderRec) /\ d.maker \in 1..Len(orders)
  <2>1. orders \in Seq(OrderRec) /\ d.maker \in DOMAIN orders
    BY <1>1 DEF LockInv, TypeInv, TypeOK, TheTables, TablesRec, DealPays, DealSound
  <2> QED BY <2>1, LenProperties DEF LockInv, TypeInv, Looping
<1>4. /\ taker \in OrderRec /\ maker \in OrderRec
      /\ base \in Assets /\ quote \in Assets
  BY <1>1, <1>3, RowTypes DEF DealPays
<1>5. /\ taker.side \in Side /\ taker.user \in Users /\ taker.locked \in Nat
      /\ taker.type \in {"LIMIT", "MARKET"} /\ taker.remaining \in Nat
      /\ maker.user \in Users /\ maker.locked \in Nat /\ maker.remaining \in Nat
      /\ maker.side \in Side
  BY <1>4 DEF OrderRec
<1>6. d.fill \in 0..maker.remaining /\ (~BuyerPaysAvailable => d.fill \in 0..taker.remaining)
      /\ d.quote \in Nat /\ d.release \in Nat
  BY <1>1, <1>5 DEF DealPays, DealSound
<1>7. Pays(maker, d.fill) <= locked[maker.user][SpendAsset(maker)]
  <2>1. CoversRest(maker)
    BY <1>1 DEF DealPays, RowSound, OrderCovered
  <2>2. Pays(maker, d.fill) \in 0..maker.locked
    BY <1>4, <1>6, <2>1, RowPays
  <2> DEFINE u == maker.user
             a == SpendAsset(maker)
  <2>3. u \in Users /\ a \in Assets
    BY <1>1, <1>4, <1>5 DEF SpendAsset, DealPays
  <2>4. LockOf(maker, u, a) = maker.locked
    BY DEF LockOf
  <2> HIDE DEF u, a
  <2>5. maker.locked <= OrderLocks(orders, u, a) /\ OrderLocks(orders, u, a) \in Nat
    BY <1>3, <2>4, OrderLocksNat
  <2>6. TakerLock(u, a) \in Nat /\ locked[u][a] \in Nat
    BY <1>3, <1>5, <2>3 DEF TakerLock, TypeOK, TheTables, TablesRec, Balances
  <2>7. OrderLocks(orders, u, a) + TakerLock(u, a) <= locked[u][a]
    BY <1>3, <2>3 DEF LocksBacked
  <2> QED BY <1>5, <2>2, <2>5, <2>6, <2>7 DEF u, a
<1>8. taker.type = "LIMIT" => Pays(taker, d.fill) <= locked[taker.user][SpendAsset(taker)]
  <2>1. SUFFICES ASSUME taker.type = "LIMIT"
                 PROVE  Pays(taker, d.fill) <= locked[taker.user][SpendAsset(taker)]
    OBVIOUS
  <2>2. CoversRest(taker) /\ ~BuyerPaysAvailable
    BY <1>3, <2>1 DEF TakerSound, LimitSound, BuyerPaysAvailable
  <2>3. Pays(taker, d.fill) \in 0..taker.locked
    BY <1>4, <1>6, <2>2, RowPays
  <2> DEFINE u == taker.user
             a == SpendAsset(taker)
  <2>4. u \in Users /\ a \in Assets
    BY <1>4, <1>5 DEF SpendAsset
  <2>5. TakerLock(u, a) = taker.locked
    BY <1>3 DEF TakerLock
  <2> HIDE DEF u, a
  <2>6. OrderLocks(orders, u, a) \in Nat /\ locked[u][a] \in Nat
    BY <1>3, <2>4, OrderLocksNat DEF TypeOK, TheTables, TablesRec, Balances
  <2>7. OrderLocks(orders, u, a) + TakerLock(u, a) <= locked[u][a]
    BY <1>3, <2>4 DEF LocksBacked
  <2> QED BY <1>5, <2>3, <2>5, <2>6, <2>7 DEF u, a
<1>9. /\ BuyerPaysAvailable => avail[taker.user][quote] >= d.quote
      /\ SellerPaysAvailable => avail[taker.user][base] >= d.fill
  <2>1. taker.type = "MARKET" => MarketSound(taker)
    BY <1>3 DEF TakerSound
  <2>2. \A a \in Assets : avail[taker.user][a] \in Nat
    BY <1>3, <1>5 DEF TypeOK, TheTables, TablesRec, Balances
  <2>3. BuyerPaysAvailable => avail[taker.user][quote] >= QuoteLeft(taker) /\ QuoteLeft(taker) \in Int
    BY <1>4, <2>1 DEF MarketSound, BuyerPaysAvailable, SpendAsset, QuoteLeft, OrderRec
  <2>4. SellerPaysAvailable => avail[taker.user][base] >= taker.remaining /\ ~BuyerPaysAvailable
    BY <2>1 DEF MarketSound, BuyerPaysAvailable, SellerPaysAvailable, SpendAsset
  <2> QED BY <1>2, <1>4, <1>5, <1>6, <2>2, <2>3, <2>4
<1>10. Funded(d)
  <2>1. /\ d.buyer = IF taker.side = "BUY" THEN taker.user ELSE maker.user
        /\ d.seller = IF taker.side = "BUY" THEN maker.user ELSE taker.user
        /\ maker.market = taker.market /\ maker.side = Opposite(taker.side)
        /\ maker.side = "BUY" => d.release = Pays(maker, d.fill)
        /\ maker.side # "BUY" => d.fill = Pays(maker, d.fill)
        /\ taker.type = "LIMIT" /\ taker.side = "BUY" => d.release = Pays(taker, d.fill)
        /\ taker.type = "LIMIT" /\ taker.side # "BUY" => d.fill = Pays(taker, d.fill)
    BY <1>1 DEF DealPays
  <2>2. CASE taker.side = "BUY"
    <3>1. maker.side = "SELL" /\ SpendAsset(maker) = base /\ SpendAsset(taker) = quote
      BY <2>1, <2>2 DEF Opposite, SpendAsset
    <3>2. locked[d.seller][base] >= d.fill
      BY <1>7, <2>1, <2>2, <3>1
    <3>3. taker.type = "LIMIT" => locked[d.buyer][quote] >= d.release
      BY <1>8, <2>1, <2>2, <3>1
    <3>4. taker.type = "MARKET" => avail[d.buyer][quote] >= d.quote
      BY <1>9, <2>1, <2>2 DEF BuyerPaysAvailable
    <3> QED BY <1>5, <2>2, <3>2, <3>3, <3>4 DEF Funded, BuyerPaysAvailable, SellerPaysAvailable
  <2>3. CASE taker.side = "SELL"
    <3>1. maker.side = "BUY" /\ SpendAsset(maker) = quote /\ SpendAsset(taker) = base
      BY <2>1, <2>3 DEF Opposite, SpendAsset
    <3>2. locked[d.buyer][quote] >= d.release
      BY <1>7, <2>1, <2>3, <3>1
    <3>3. taker.type = "LIMIT" => locked[d.seller][base] >= d.fill
      BY <1>8, <2>1, <2>3, <3>1
    <3>4. taker.type = "MARKET" => avail[d.seller][base] >= d.fill
      BY <1>9, <2>1, <2>3 DEF SellerPaysAvailable
    <3> QED BY <1>5, <2>3, <3>2, <3>3, <3>4 DEF Funded, BuyerPaysAvailable, SellerPaysAvailable
  <2> QED BY <1>5, <2>2, <2>3 DEF Side
<1>11. ~Overspends(d)
  <2>1. BuyerPaysAvailable => QuoteLeft(taker) \in Int
    BY <1>4 DEF QuoteLeft, OrderRec
  <2> QED BY <1>2, <1>6, <2>1 DEF Overspends
<1> QED BY <1>10, <1>11 DEF d

-----------------------------------------------------------------------------
\* ... and leaves in it what the rest of the order needs

\* Lock l is right for order o after a fill of f base units.
LockFits(o, f, l) ==
  /\ l \in 0..(o.locked - Pays(o, f))
  /\ o.remaining = f => l = 0
  /\ o.side = "BUY" =>
       l * Scale[o.market].unit >= Worth(o.price, o.remaining - f, Scale[o.market])
  /\ o.side # "BUY" => l = o.remaining - f

LEMMA Left ==
  ASSUME NEW r \in Nat, NEW f \in 0..r
  PROVE  f \in Nat /\ r - f \in Nat /\ (r - f = 0 <=> r = f)
  BY SMT

\* The lock calculateRemainingLockedAmount computes, when it does not throw.
LEMMA ExactLock ==
  ASSUME NEW o \in OrderRec, NEW f \in 0..o.remaining, CoversRest(o),
         LockIsExact(o, o.remaining - f)
  PROVE  LockFits(o, f, LockFor(o, o.remaining - f))
<1> DEFINE sc == Scale[o.market]
           left == o.remaining - f
           l == LockFor(o, left)
<1>1. /\ o.market \in Markets /\ o.price \in Nat /\ o.remaining \in Nat /\ o.locked \in Nat
  BY DEF OrderRec
<1>2. sc \in ScaleRec /\ f \in Nat /\ left \in Nat /\ (left = 0 <=> o.remaining = f)
  <2>1. f \in 0..o.remaining
    OBVIOUS
  <2> QED BY <1>1, <2>1, Left, NumbersAssumption
<1>3. /\ Pays(o, f) \in 0..o.locked
      /\ o.side = "BUY" => (o.locked - Pays(o, f)) * sc.unit >= Worth(o.price, left, sc)
      /\ o.side # "BUY" => o.locked - Pays(o, f) = left
  BY RowPays
<1>4. CASE o.side # "BUY"
  BY <1>1, <1>2, <1>3, <1>4 DEF LockFits, LockFor
<1>5. CASE o.side = "BUY"
  <2>1. l = QuoteFloor(o.price, left, sc)
    BY <1>5 DEF LockFor
  <2>2. CASE left = 0
    <3>1. l = 0
      BY <2>1, <2>2 DEF QuoteFloor
    <3>2. Worth(o.price, left, sc) = 0 /\ l * sc.unit = 0
      <4>1. o.price * 0 = 0 /\ sc.unit \in Nat /\ sc.quote \in Nat
        BY <1>1, <1>2, SMT DEF ScaleRec
      <4> QED BY <2>2, <3>1, <4>1, SMT DEF Worth
    <3> QED BY <1>1, <1>3, <1>5, <3>1, <3>2 DEF LockFits
  <2>3. CASE left > 0
    <3>1. QuoteIsExact(o.price, left, sc)
      BY <1>5, <2>3 DEF LockIsExact
    <3> DEFINE room == o.locked - Pays(o, f)
    <3>2. room \in Nat /\ room * sc.unit >= Worth(o.price, left, sc)
      BY <1>1, <1>3, <1>5
    <3> HIDE DEF room, sc, left, l
    <3>3. l <= room /\ l \in Nat
      BY <1>1, <1>2, <2>1, <3>1, <3>2, ExactLockFits, QuoteFloorBounds
    <3>4. l * sc.unit >= Worth(o.price, left, sc)
      <4>1. l * sc.unit = Worth(o.price, left, sc) /\ Worth(o.price, left, sc) \in Nat
        BY <1>1, <1>2, <2>1, <3>1, QuoteExact, WorthNat
      <4> QED BY <4>1
    <3>5. l \in 0..room
      BY <3>2, <3>3
    <3> QED BY <1>2, <1>5, <2>3, <3>4, <3>5 DEF LockFits, room, sc, left, l
  <2> QED BY <1>2, <2>2, <2>3
<1> QED BY <1>4, <1>5

\* The lock a market fill leaves.
LEMMA MarketLock ==
  ASSUME NEW o \in OrderRec, NEW d, d.fill \in 0..o.remaining, CoversRest(o),
         d.quote = QuoteFloor(o.price, d.fill, Scale[o.market])
  PROVE  LockFits(o, d.fill, LockAfterMarketFill(o, d))
<1> DEFINE sc == Scale[o.market]
           f == d.fill
           left == o.remaining - f
           l == LockAfterMarketFill(o, d)
<1>1. /\ o.market \in Markets /\ o.price \in Nat /\ o.remaining \in Nat /\ o.locked \in Nat
      /\ o.side \in Side
  BY DEF OrderRec
<1>2. sc \in ScaleRec /\ f \in Nat /\ left \in Nat /\ (left = 0 <=> o.remaining = f)
  <2>1. f \in 0..o.remaining
    OBVIOUS
  <2> QED BY <1>1, <2>1, Left, NumbersAssumption
<1>3. /\ Pays(o, f) \in 0..o.locked
      /\ o.side = "BUY" => (o.locked - Pays(o, f)) * sc.unit >= Worth(o.price, left, sc)
      /\ o.side # "BUY" => o.locked - Pays(o, f) = left
  BY RowPays
<1>4. CASE o.side = "SELL"
  <2>1. l = left
    BY <1>4 DEF LockAfterMarketFill
  <2> QED BY <1>1, <1>2, <1>3, <1>4, <2>1 DEF LockFits
<1>5. CASE o.side = "BUY"
  <2>1. Pays(o, f) = d.quote /\ ~(o.locked < d.quote)
    BY <1>1, <1>3, <1>5 DEF Pays
  <2>2. CASE left = 0
    <3>1. l = 0
      BY <1>5, <2>2 DEF LockAfterMarketFill
    <3>2. Worth(o.price, left, sc) = 0 /\ l * sc.unit = 0
      <4>1. o.price * 0 = 0 /\ sc.unit \in Nat /\ sc.quote \in Nat
        BY <1>1, <1>2, SMT DEF ScaleRec
      <4> QED BY <2>2, <3>1, <4>1, SMT DEF Worth
    <3> QED BY <1>1, <1>3, <1>5, <3>1, <3>2 DEF LockFits
  <2>3. CASE left # 0
    <3>1. l = o.locked - Pays(o, f)
      BY <1>5, <2>1, <2>3 DEF LockAfterMarketFill
    <3>2. l \in 0..(o.locked - Pays(o, f))
      BY <1>1, <1>3, <3>1
    <3> HIDE DEF l
    <3> QED BY <1>2, <1>3, <1>5, <2>3, <3>1, <3>2 DEF LockFits, l
  <2> QED BY <2>2, <2>3
<1> QED BY <1>1, <1>4, <1>5 DEF Side

\* The resting order is sound after the fill, open or not.
LEMMA AfterFillSound ==
  ASSUME NEW o \in OrderRec, NEW f \in 0..o.remaining, NEW l \in Nat,
         RowSound(o), IsOpen(o), LockFits(o, f, l)
  PROVE  LET row == AfterFill(o, f, l)
         IN  /\ row \in OrderRec /\ RowSound(row) /\ row.locked = l
             /\ row.user = o.user /\ row.market = o.market /\ row.side = o.side
<1> DEFINE row == AfterFill(o, f, l)
           sc == Scale[o.market]
           left == o.remaining - f
           status == IF o.remaining = f THEN "FILLED" ELSE "PARTIAL_FILLED"
<1>1. /\ o.market \in Markets /\ o.price \in Nat /\ o.remaining \in Nat /\ o.locked \in Nat
      /\ o.filled \in Nat
  BY DEF OrderRec
<1>2. sc \in ScaleRec /\ f \in Nat /\ left \in Nat /\ (left = 0 <=> o.remaining = f)
      /\ o.filled + f \in Nat
  <2>1. f \in Nat /\ left \in Nat /\ (left = 0 <=> o.remaining = f)
    BY <1>1, Left
  <2> QED BY <1>1, <2>1, NumbersAssumption
<1>3. row = [o EXCEPT !.filled = o.filled + f, !.remaining = left, !.locked = l, !.status = status]
  BY DEF AfterFill
<1>4. status \in OrderStatus
  BY DEF OrderStatus
<1> HIDE DEF row, left, status
<1>5. /\ row \in OrderRec /\ row.locked = l /\ row.remaining = left /\ row.status = status
      /\ row.user = o.user /\ row.market = o.market /\ row.side = o.side
      /\ row.price = o.price /\ row.type = o.type
  BY <1>2, <1>3, <1>4 DEF OrderRec
<1>6. CASE o.remaining = f
  <2>1. ~IsOpen(row) /\ l = 0
    BY <1>5, <1>6 DEF IsOpen, LockFits, status
  <2> QED BY <1>5, <2>1 DEF RowSound, OrderCovered, row
<1>7. CASE o.remaining # f
  <2>1. o.price > 0 /\ o.type = "LIMIT"
    BY DEF RowSound, OrderCovered
  <2>2. left > 0
    BY <1>2, <1>7
  <2>3. CoversRest(row)
    BY <1>5 DEF CoversRest, LockFits, left
  <2>4. l > 0
    <3>1. CASE o.side = "BUY"
      <4>1. l * sc.unit >= Worth(o.price, left, sc)
        BY <3>1 DEF LockFits, left
      <4> HIDE DEF sc
      <4> QED BY <1>1, <1>2, <2>1, <2>2, <4>1, CoverIsPositive
    <3>2. CASE o.side # "BUY"
      BY <2>2, <3>2 DEF LockFits, left
    <3> QED BY <3>1, <3>2
  <2>5. IsOpen(row)
    BY <1>5, <1>7 DEF IsOpen, status
  <2>6. RowSound(row)
    BY <1>5, <2>1, <2>2, <2>3, <2>4, <2>5 DEF RowSound, OrderCovered
  <2> QED BY <1>5, <2>6 DEF row
<1> QED BY <1>6, <1>7

-----------------------------------------------------------------------------
\* The steps

\* The taker's row after a fill.
LEMMA TakerAfterFill ==
  ASSUME taker \in OrderRec, NEW d, NEW makerLock, NEW takerLock, Settle(d, makerLock, takerLock)
  PROVE  /\ taker'.filled = taker.filled + d.fill
         /\ taker'.remaining = IF BuyerPaysAvailable THEN taker.remaining
                                                     ELSE taker.remaining - d.fill
         /\ taker'.spent = IF taker.type = "MARKET" THEN taker.spent + d.quote ELSE taker.spent
         /\ taker'.locked = takerLock
         /\ taker'.user = taker.user /\ taker'.market = taker.market /\ taker'.side = taker.side
         /\ taker'.type = taker.type /\ taker'.price = taker.price
         /\ taker'.amount = taker.amount /\ taker'.requested = taker.requested
<1> DEFINE r == IF BuyerPaysAvailable THEN taker.remaining ELSE taker.remaining - d.fill
           s == IF taker.type = "MARKET" THEN taker.spent + d.quote ELSE taker.spent
<1>1. taker' = [taker EXCEPT !.filled = taker.filled + d.fill, !.remaining = r,
                             !.spent = s, !.locked = takerLock]
  BY DEF Settle
<1> HIDE DEF r, s
<1>2. /\ taker'.filled = taker.filled + d.fill /\ taker'.remaining = r
      /\ taker'.spent = s /\ taker'.locked = takerLock
      /\ taker'.user = taker.user /\ taker'.market = taker.market /\ taker'.side = taker.side
      /\ taker'.type = taker.type /\ taker'.price = taker.price
      /\ taker'.amount = taker.amount /\ taker'.requested = taker.requested
  BY <1>1 DEF OrderRec
<1> QED BY <1>2 DEF r, s

\* What a fill takes off the locked balances: from the resting order's wallet
\* what its lock pays, from a limit taker's likewise, from no other any.
LEMMA DealTakes ==
  ASSUME NEW d, DealPays(d), taker \in OrderRec, Base[taker.market] # Quote[taker.market],
         orders[d.maker].user # taker.user, NEW u, NEW a
  PROVE  LET maker == orders[d.maker]
         IN  LockedMoved(d, u, a) =
               IF maker.user = u /\ SpendAsset(maker) = a THEN -Pays(maker, d.fill)
               ELSE IF taker.user = u /\ SpendAsset(taker) = a /\ taker.type = "LIMIT"
                 THEN -Pays(taker, d.fill) ELSE 0
<1> DEFINE maker == orders[d.maker]
           base == Base[taker.market]
           quote == Quote[taker.market]
<1>1. /\ d.buyer = IF taker.side = "BUY" THEN taker.user ELSE maker.user
      /\ d.seller = IF taker.side = "BUY" THEN maker.user ELSE taker.user
      /\ maker.side = "BUY" => d.release = Pays(maker, d.fill)
      /\ maker.side # "BUY" => d.fill = Pays(maker, d.fill)
      /\ taker.type = "LIMIT" /\ taker.side = "BUY" => d.release = Pays(taker, d.fill)
      /\ taker.type = "LIMIT" /\ taker.side # "BUY" => d.fill = Pays(taker, d.fill)
      /\ maker.market = taker.market /\ maker.side = Opposite(taker.side)
  BY DEF DealPays
<1>2. taker.side \in Side /\ taker.type \in {"LIMIT", "MARKET"}
  BY DEF OrderRec
<1>3. CASE taker.side = "BUY"
  <2>1. maker.side = "SELL" /\ SpendAsset(maker) = base /\ SpendAsset(taker) = quote
    BY <1>1, <1>3 DEF Opposite, SpendAsset
  <2>2. LockedMoved(d, u, a) =
          IF u = taker.user /\ a = quote THEN (IF taker.type = "MARKET" THEN 0 ELSE -d.release)
          ELSE IF u = maker.user /\ a = base THEN -d.fill ELSE 0
    BY <1>1, <1>3 DEF LockedMoved, BuyerPaysAvailable, SellerPaysAvailable
  <2> QED BY <1>1, <1>2, <1>3, <2>1, <2>2
<1>4. CASE taker.side = "SELL"
  <2>1. maker.side = "BUY" /\ SpendAsset(maker) = quote /\ SpendAsset(taker) = base
    BY <1>1, <1>4 DEF Opposite, SpendAsset
  <2>2. LockedMoved(d, u, a) =
          IF u = maker.user /\ a = quote THEN -d.release
          ELSE IF u = taker.user /\ a = base THEN (IF taker.type = "MARKET" THEN 0 ELSE -d.fill)
          ELSE 0
    BY <1>1, <1>4 DEF LockedMoved, BuyerPaysAvailable, SellerPaysAvailable
  <2> QED BY <1>1, <1>2, <1>4, <2>1, <2>2
<1> QED BY <1>2, <1>3, <1>4 DEF Side

\* A settlement with fitting locks keeps the invariant.
LEMMA FillLocks ==
  ASSUME LockInv, TypeInv', Looping, ~MeetsOwnOrder, NEW makerLock, NEW takerLock,
         Settle(Deal(NextMaker), makerLock, takerLock),
         LockFits(orders[Deal(NextMaker).maker], Deal(NextMaker).fill, makerLock),
         taker.type = "LIMIT" => LockFits(taker, Deal(NextMaker).fill, takerLock),
         taker.type = "MARKET" => takerLock = 0
  PROVE  LockInv'
<1> DEFINE d == Deal(NextMaker)
           maker == orders[d.maker]
           row == AfterFill(maker, d.fill, makerLock)
           base == Base[taker.market]
           quote == Quote[taker.market]
<1>1. DealPays(d) /\ Funded(d) /\ ~Overspends(d)
  BY DealPaysLocks, FillsAreFunded
<1> HIDE DEF d
<1>2. /\ DealSound(d) /\ RowSound(maker) /\ IsOpen(maker)
      /\ maker.market = taker.market /\ maker.side = Opposite(taker.side)
      /\ maker \in OrderRec
  BY <1>1 DEF DealPays
<1>3. /\ TypeOK /\ phase = "MATCH" /\ LocksBacked /\ TakerSound /\ Targeted /\ RowsSound(orders)
      /\ orders \in Seq(OrderRec) /\ d.maker \in 1..Len(orders) /\ DOMAIN orders = 1..Len(orders)
  <2>1. orders \in Seq(OrderRec) /\ d.maker \in DOMAIN orders
    BY <1>2 DEF LockInv, TypeInv, TypeOK, TheTables, TablesRec, DealSound
  <2> QED BY <2>1, LenProperties DEF LockInv, TypeInv, Looping
<1>4. /\ taker \in OrderRec /\ base \in Assets /\ quote \in Assets /\ base # quote
  BY <1>3, RowTypes
<1>5. /\ taker.side \in Side /\ taker.user \in Users /\ taker.locked \in Nat
      /\ taker.type \in {"LIMIT", "MARKET"} /\ taker.remaining \in Nat /\ taker.filled \in Nat
      /\ taker.requested \in Nat /\ taker.spent \in Nat /\ taker.amount \in Nat
      /\ maker.user \in Users /\ maker.locked \in Nat /\ maker.remaining \in Nat
  BY <1>2, <1>4 DEF OrderRec
<1>6. d.fill \in 0..maker.remaining /\ (~BuyerPaysAvailable => d.fill \in 0..taker.remaining)
      /\ d.quote \in Nat /\ d.release \in Nat /\ d.fill \in Nat
  BY <1>2, <1>5 DEF DealSound
<1>7. Settle(d, makerLock, takerLock) /\ LockFits(maker, d.fill, makerLock)
      /\ (taker.type = "LIMIT" => LockFits(taker, d.fill, takerLock))
  BY DEF d
<1>8. Pays(maker, d.fill) \in 0..maker.locked
      /\ (taker.type = "LIMIT" => Pays(taker, d.fill) \in 0..taker.locked)
  <2>1. CoversRest(maker)
    BY <1>2 DEF RowSound, OrderCovered
  <2>2. taker.type = "LIMIT" => CoversRest(taker) /\ ~BuyerPaysAvailable
    BY <1>3 DEF TakerSound, LimitSound, BuyerPaysAvailable
  <2> QED BY <1>2, <1>4, <1>6, <2>1, <2>2, RowPays
<1>9. /\ makerLock \in Nat /\ makerLock <= maker.locked - Pays(maker, d.fill)
      /\ taker.type = "LIMIT" =>
           takerLock \in Nat /\ takerLock <= taker.locked - Pays(taker, d.fill)
  BY <1>5, <1>7, <1>8 DEF LockFits
<1>10. /\ row \in OrderRec /\ RowSound(row) /\ row.locked = makerLock
       /\ row.user = maker.user /\ row.market = maker.market /\ row.side = maker.side
  BY <1>2, <1>6, <1>7, <1>9, AfterFillSound
<1>11. orders' = [orders EXCEPT ![d.maker] = row]
  BY <1>7 DEF Settle
<1> HIDE DEF row
<1>12. /\ Len(orders') = Len(orders) /\ DOMAIN orders' = DOMAIN orders
       /\ \A i \in DOMAIN orders : orders'[i] = IF i = d.maker THEN row ELSE orders[i]
  BY <1>3, <1>10, <1>11, ExceptSeq
<1>13. /\ phase' = "MATCH" /\ saved' = saved /\ answer' = answer
       /\ toVisit' = toVisit \ {d.maker}
  BY <1>3, <1>7 DEF Settle
<1>14. /\ taker'.filled = taker.filled + d.fill
       /\ taker'.remaining = IF BuyerPaysAvailable THEN taker.remaining
                                                   ELSE taker.remaining - d.fill
       /\ taker'.spent = IF taker.type = "MARKET" THEN taker.spent + d.quote ELSE taker.spent
       /\ taker'.locked = takerLock
       /\ taker'.user = taker.user /\ taker'.market = taker.market /\ taker'.side = taker.side
       /\ taker'.type = taker.type /\ taker'.price = taker.price
       /\ taker'.amount = taker.amount /\ taker'.requested = taker.requested
  BY <1>4, <1>7, TakerAfterFill
<1>15. \A u \in Users, a \in Assets :
         /\ avail'[u][a] = avail[u][a] + AvailMoved(d, u, a)
         /\ locked'[u][a] = locked[u][a] + LockedMoved(d, u, a)
         /\ avail[u][a] \in Nat /\ locked[u][a] \in Nat
  <2>1. avail \in Balances /\ locked \in Balances
    BY <1>3 DEF TypeOK, TheTables, TablesRec
  <2> QED BY <1>1, <1>2, <1>3, <1>7, <2>1, SettleBalances DEF Balances
<1>16. RowsSound(orders)'
  BY <1>3, <1>10, <1>12 DEF RowsSound
<1>17. Targeted'
  <2> SUFFICES ASSUME NEW i \in toVisit'
               PROVE  /\ IsOpen(orders'[i])
                      /\ orders'[i].market = taker'.market
                      /\ orders'[i].side = Opposite(taker'.side)
    BY DEF Targeted, IsOpen
  <2>1. i \in toVisit /\ i # d.maker /\ i \in DOMAIN orders
    BY <1>3, <1>13 DEF TypeOK
  <2>2. orders'[i] = orders[i]
    BY <1>12, <2>1
  <2> QED BY <1>3, <1>14, <2>1, <2>2 DEF Targeted
<1>18. LocksBacked'
  <2> SUFFICES ASSUME NEW u \in Users, NEW a \in Assets
               PROVE  OrderLocks(orders', u, a) + TakerLock(u, a)' <= locked'[u][a]
    BY DEF LocksBacked
  <2> DEFINE mine == maker.user = u /\ SpendAsset(maker) = a
             his == taker.user = u /\ SpendAsset(taker) = a
             old == OrderLocks(orders, u, a)
  <2>1. OrderLocks(orders', u, a) = old - LockOf(maker, u, a) + LockOf(row, u, a)
    <3>1. Replaces(orders, orders', d.maker, row)
      BY <1>3, <1>10, <1>11 DEF Replaces
    <3> QED BY <3>1, OrderLocksUpdate
  <2>2. old \in Nat
    BY <1>3, OrderLocksNat
  <2>3. old + TakerLock(u, a) <= locked[u][a]
    BY <1>3 DEF LocksBacked
  <2>4. LockOf(maker, u, a) = (IF mine THEN maker.locked ELSE 0)
        /\ LockOf(row, u, a) = (IF mine THEN makerLock ELSE 0)
    BY <1>10 DEF LockOf, SpendAsset
  <2>5. TakerLock(u, a) = (IF his THEN taker.locked ELSE 0)
        /\ TakerLock(u, a)' = (IF his THEN takerLock ELSE 0)
    BY <1>3, <1>13, <1>14 DEF TakerLock, SpendAsset
  <2>6. maker.user # taker.user
    BY DEF MeetsOwnOrder, d, Deal
  <2>7. LockedMoved(d, u, a) =
          IF mine THEN -Pays(maker, d.fill)
          ELSE IF his /\ taker.type = "LIMIT" THEN -Pays(taker, d.fill) ELSE 0
    BY <1>1, <1>4, <2>6, DealTakes
  <2>8. locked'[u][a] = locked[u][a] + LockedMoved(d, u, a) /\ locked[u][a] \in Nat
    BY <1>15
  <2>9. taker.type = "MARKET" => taker.locked = 0 /\ takerLock = 0
    BY <1>3 DEF LockInv, TypeInv, MarketLocksNothing
  <2> HIDE DEF old
  <2>10. CASE mine
    <3>1. ~his
      BY <2>6, <2>10
    <3> HIDE DEF mine, his
    <3> QED BY <1>5, <1>8, <1>9, <2>1, <2>2, <2>3, <2>4, <2>5, <2>7, <2>8, <2>10, <3>1
  <2>11. CASE ~mine
    <3> HIDE DEF mine, his
    <3> QED BY <1>5, <1>8, <1>9, <2>1, <2>2, <2>3, <2>4, <2>5, <2>7, <2>8, <2>9, <2>11
  <2> QED BY <2>10, <2>11
<1>19. TakerSound'
  <2>1. CASE taker.type = "LIMIT"
    <3>1. LimitSound(taker) /\ ~BuyerPaysAvailable
      BY <1>3, <2>1 DEF TakerSound, BuyerPaysAvailable
    <3>2. taker'.remaining = taker.remaining - d.fill
          /\ (taker.remaining - d.fill = 0 <=> taker.remaining = d.fill)
      BY <1>5, <1>6, <1>14, <3>1
    <3>3. LockFits(taker, d.fill, takerLock)
      BY <1>7, <2>1
    <3>4. CoversRest(taker')
      BY <1>14, <3>2, <3>3 DEF CoversRest, LockFits
    <3>5. taker'.remaining = 0 => taker'.locked = 0
      BY <1>14, <3>2, <3>3 DEF LockFits
    <3>6. taker'.filled + taker'.remaining = taker'.amount
      BY <1>5, <1>6, <1>14, <3>1, <3>2 DEF LimitSound
    <3>7. LimitSound(taker')
      BY <1>14, <3>1, <3>4, <3>5, <3>6 DEF LimitSound
    <3> QED BY <1>14, <2>1, <3>7 DEF TakerSound
  <2>2. CASE taker.type = "MARKET"
    <3> DEFINE a == SpendAsset(taker)
               u == taker.user
    <3>1. MarketSound(taker)
      BY <1>3, <2>2 DEF TakerSound
    <3>2. /\ d.buyer = IF taker.side = "BUY" THEN taker.user ELSE maker.user
          /\ d.seller = IF taker.side = "BUY" THEN maker.user ELSE taker.user
      BY <1>1 DEF DealPays
    <3>3. u \in Users /\ a \in Assets
      BY <1>4, <1>5 DEF SpendAsset
    <3>4. maker.user # taker.user
      BY DEF MeetsOwnOrder, d, Deal
    <3>5. AvailMoved(d, u, a) = IF taker.side = "BUY" THEN -d.quote ELSE -d.fill
      <4>1. CASE taker.side = "BUY"
        BY <2>2, <3>2, <4>1 DEF AvailMoved, SpendAsset, BuyerPaysAvailable
      <4>2. CASE taker.side = "SELL"
        <5>1. a = base /\ d.seller = u /\ d.buyer # u /\ SellerPaysAvailable
          BY <2>2, <3>2, <3>4, <4>2 DEF SpendAsset, SellerPaysAvailable
        <5> HIDE DEF a, u
        <5> QED BY <1>4, <4>2, <5>1 DEF AvailMoved
      <4> QED BY <1>5, <4>1, <4>2 DEF Side
    <3>6. avail'[u][a] = avail[u][a] + AvailMoved(d, u, a) /\ avail[u][a] \in Nat
      BY <1>15, <3>3
    <3>7. SpendAsset(taker') = a /\ taker'.user = u
      BY <1>14 DEF SpendAsset
    <3>8. CASE taker.side = "BUY"
      <4>1. QuoteLeft(taker') = QuoteLeft(taker) - d.quote /\ QuoteLeft(taker) \in Int
        BY <1>5, <1>6, <1>14, <2>2 DEF QuoteLeft
      <4>2. avail[u][a] >= QuoteLeft(taker)
        BY <3>1, <3>8 DEF MarketSound
      <4> HIDE DEF u, a
      <4>3. avail'[u][a] >= QuoteLeft(taker')
        BY <1>6, <3>5, <3>6, <3>8, <4>1, <4>2
      <4> QED BY <1>14, <2>2, <3>7, <3>8, <4>3 DEF TakerSound, MarketSound
    <3>9. CASE taker.side = "SELL"
      <4>1. taker'.remaining = taker.remaining - d.fill
        BY <1>14, <3>9 DEF BuyerPaysAvailable
      <4>2. avail[u][a] >= taker.remaining
        BY <3>1, <3>9 DEF MarketSound
      <4> HIDE DEF u, a
      <4>3. avail'[u][a] >= taker'.remaining
        BY <1>5, <1>6, <3>5, <3>6, <3>9, <4>1, <4>2
      <4> QED BY <1>14, <2>2, <3>7, <3>9, <4>3 DEF TakerSound, MarketSound
    <3> QED BY <1>5, <3>8, <3>9 DEF Side
  <2> QED BY <1>5, <2>1, <2>2
<1> QED BY <1>3, <1>13, <1>16, <1>17, <1>18, <1>19 DEF LockInv

LEMMA LimitFillLocks ==
  ASSUME LockInv, TypeInv', LimitFill
  PROVE  LockInv'
<1> DEFINE d == Deal(NextMaker)
           maker == orders[d.maker]
           makerLock == LockFor(maker, maker.remaining - d.fill)
           takerLock == LockFor(taker, taker.remaining - d.fill)
<1>1. /\ Looping /\ ~MeetsOwnOrder /\ taker.type = "LIMIT" /\ phase = "MATCH" /\ TypeOK
      /\ Fault(d) = "NONE" /\ Settle(d, makerLock, takerLock)
  BY DEF LimitFill, Looping, LockInv, TypeInv
<1>2. DealPays(d)
  BY <1>1, DealPaysLocks
<1> HIDE DEF d
<1>3. LocksAreExact(d)
  BY <1>1 DEF Fault
<1>4. /\ taker \in OrderRec /\ maker \in OrderRec /\ RowSound(maker) /\ IsOpen(maker)
      /\ d.fill \in 0..maker.remaining /\ d.fill <= taker.remaining
  BY <1>1, <1>2, RowTypes DEF DealPays, DealSound, BuyerPaysAvailable
<1>5. d.fill \in 0..taker.remaining
  <2>1. maker.remaining \in Nat /\ taker.remaining \in Nat
    BY <1>4 DEF OrderRec
  <2> QED BY <1>4, <2>1
<1>6. CoversRest(maker) /\ CoversRest(taker)
  BY <1>1, <1>4 DEF RowSound, OrderCovered, LockInv, TakerSound, LimitSound
<1>7. LockIsExact(maker, maker.remaining - d.fill) /\ LockIsExact(taker, taker.remaining - d.fill)
  BY <1>3 DEF LocksAreExact
<1>8. LockFits(maker, d.fill, makerLock) /\ LockFits(taker, d.fill, takerLock)
  BY <1>4, <1>5, <1>6, <1>7, ExactLock
<1> HIDE DEF makerLock, takerLock
<1>9. taker.type # "MARKET"
  BY <1>1
<1> QED BY <1>1, <1>8, <1>9, FillLocks DEF d

LEMMA MarketFillLocks ==
  ASSUME LockInv, TypeInv', MarketFill
  PROVE  LockInv'
<1> DEFINE d == Deal(NextMaker)
           maker == orders[d.maker]
           makerLock == LockAfterMarketFill(maker, d)
<1>1. /\ Looping /\ ~MeetsOwnOrder /\ taker.type = "MARKET"
      /\ Settle(d, makerLock, 0)
  BY DEF MarketFill, Looping
<1>2. DealPays(d)
  BY <1>1, DealPaysLocks
<1> HIDE DEF d
<1>3. /\ maker \in OrderRec /\ CoversRest(maker) /\ d.fill \in 0..maker.remaining
      /\ d.quote = QuoteFloor(maker.price, d.fill, Scale[maker.market])
  BY <1>2 DEF DealPays, DealSound, RowSound, OrderCovered
<1>4. LockFits(maker, d.fill, makerLock)
  BY <1>3, MarketLock
<1> HIDE DEF makerLock
<1>5. taker.type # "LIMIT"
  BY <1>1
<1> QED BY <1>1, <1>4, <1>5, FillLocks DEF d

LEMMA InitLocks == Init => LockInv
<1> SUFFICES ASSUME Init PROVE LockInv
  OBVIOUS
<1>1. TypeInv /\ phase = "IDLE" /\ orders = <<>> /\ answer = "NONE"
      /\ locked = [u \in Users |-> [a \in Assets |-> 0]]
  BY InitType DEF Init
<1>2. RowsSound(orders)
  BY <1>1 DEF RowsSound
<1>3. ASSUME NEW u \in Users, NEW a \in Assets
      PROVE  OrderLocks(orders, u, a) + TakerLock(u, a) <= locked[u][a]
  <2> DEFINE w == LockWeights(orders, u, a)
  <2>1. orders \in Seq(OrderRec) /\ Len(orders) = 0
    BY <1>1, EmptySeq
  <2>2. \A i \in Nat : w[i] \in Int
    <3>1. \A i \in Nat : w[i] \in Nat
      BY <2>1, LockWeightsNat
    <3> HIDE DEF w
    <3> QED BY <3>1
  <2> HIDE DEF w
  <2>3. SumTo(w, 0) = 0
    BY <2>2, SumToDef
  <2>4. OrderLocks(orders, u, a) = 0
    BY <2>1, <2>3 DEF w, OrderLocks
  <2>5. TakerLock(u, a) = 0 /\ locked[u][a] = 0
    BY <1>1 DEF TakerLock
  <2> QED BY <2>4, <2>5
<1> QED BY <1>1, <1>2, <1>3 DEF LockInv, LocksBacked, Targeted, TakerSound

\* Outside the matching loop wallets back the order rows alone.
LEMMA TablesBacked ==
  ASSUME TypeOK, LocksBacked, phase # "MATCH"
  PROVE  Backs(locked, orders)
<1> SUFFICES ASSUME NEW u \in Users, NEW a \in Assets
             PROVE  OrderLocks(orders, u, a) <= locked[u][a]
  BY DEF Backs
<1>1. TakerLock(u, a) = 0
  BY DEF TakerLock
<1>2. OrderLocks(orders, u, a) \in Nat
  BY OrderLocksNat DEF TypeOK, TheTables, TablesRec
<1>3. OrderLocks(orders, u, a) + TakerLock(u, a) <= locked[u][a]
  BY DEF LocksBacked
<1> QED BY <1>1, <1>2, <1>3

\* A step that ends a placement, or takes place outside its loop, and leaves
\* sound rows backed by the wallets.
LEMMA RestLocks ==
  ASSUME TypeInv', RowsSound(orders'), Backs(locked', orders'), phase' # "MATCH",
         answer' \notin {"OVERSPEND", "FUNDS_SHORT"}, TakerSound'
  PROVE  LockInv'
<1>1. LocksBacked'
  <2>1. TypeOK'
    BY DEF TypeInv
  <2> SUFFICES ASSUME NEW u \in Users, NEW a \in Assets
               PROVE  OrderLocks(orders', u, a) + TakerLock(u, a)' <= locked'[u][a]
    BY DEF LocksBacked
  <2>2. TakerLock(u, a)' = 0
    BY DEF TakerLock
  <2>3. orders' \in Seq(OrderRec)
    BY <2>1 DEF TypeOK, TheTables, TablesRec
  <2>4. OrderLocks(orders', u, a) \in Nat
    BY <2>3, OrderLocksNat
  <2>5. OrderLocks(orders', u, a) <= locked'[u][a]
    BY DEF Backs
  <2> QED BY <2>2, <2>4, <2>5
<1>2. Targeted'
  BY DEF Targeted
<1>3. RowsSound(orders)'
  BY DEF RowsSound
<1> QED BY <1>1, <1>2, <1>3 DEF LockInv

LEMMA QuietLocks ==
  ASSUME LockInv, TypeInv', toVisit' \subseteq toVisit,
         UNCHANGED <<avail, locked, orders, phase, taker, saved, answer>>
  PROVE  LockInv'
<1>1. LocksBacked' /\ RowsSound(orders)'
  BY DEF LockInv, LocksBacked, TakerLock, SpendAsset, RowsSound
<1>2. Targeted'
  BY DEF LockInv, Targeted, IsOpen
<1>3. TakerSound'
  BY DEF LockInv, TakerSound, MarketSound, SpendAsset, QuoteLeft
<1> QED BY <1>1, <1>2, <1>3 DEF LockInv

LEMMA AbortLocks ==
  ASSUME LockInv, TypeInv', phase = "MATCH", NEW reason, Abort(reason),
         reason \notin {"OVERSPEND", "FUNDS_SHORT"}
  PROVE  LockInv'
<1>1. /\ locked' = saved.locked /\ orders' = saved.orders /\ phase' = "IDLE" /\ answer' = reason
  BY DEF Abort, Done
<1>2. RowsSound(orders') /\ Backs(locked', orders')
  BY <1>1 DEF LockInv
<1>3. TakerSound'
  BY <1>1 DEF TakerSound
<1> QED BY <1>1, <1>2, <1>3, RestLocks

LEMMA RejectLocks ==
  ASSUME LockInv, TypeInv', RejectFunds
  PROVE  LockInv'
<1>1. /\ locked' = locked /\ orders' = orders /\ phase = "CHECKED" /\ phase' = "IDLE"
      /\ answer' = "INSUFFICIENT"
  BY DEF RejectFunds, Done, tables
<1>2. RowsSound(orders') /\ Backs(locked', orders')
  BY <1>1, TablesBacked DEF LockInv, TypeInv
<1>3. TakerSound'
  BY <1>1 DEF TakerSound
<1> QED BY <1>1, <1>2, <1>3, RestLocks

LEMMA RequestsLocks ==
  ASSUME LockInv, TypeInv', Requests
  PROVE  LockInv'
<1>1. PICK u \in Users, m \in Markets, s \in Side :
        \/ \E p \in Prices, a \in Amounts : ReceiveLimit(u, m, s, p, a)
        \/ \E q \in (IF s = "BUY" THEN Spends ELSE Amounts) : ReceiveMarket(u, m, s, q)
  BY DEF Requests
<1>2. /\ locked' = locked /\ orders' = orders /\ phase = "IDLE" /\ phase' = "CHECKED"
      /\ answer' = "NONE"
  BY <1>1 DEF ReceiveLimit, ReceiveMarket, Receive, MayRequest, tables
<1>3. RowsSound(orders') /\ Backs(locked', orders')
  BY <1>2, TablesBacked DEF LockInv, TypeInv
<1>4. TakerSound'
  <2>1. CASE \E p \in Prices, a \in Amounts : ReceiveLimit(u, m, s, p, a)
    <3>1. PICK p \in Prices, a \in Amounts : ReceiveLimit(u, m, s, p, a)
      BY <2>1
    <3> DEFINE o == LimitOrder(u, m, s, p, a)
    <3>2. taker' = o /\ QuoteIsExact(p, a, Scale[m])
      BY <3>1 DEF ReceiveLimit, Receive
    <3>3. p \in Nat \ {0} /\ a \in Nat \ {0} /\ Scale[m] \in ScaleRec
      BY NumbersAssumption
    <3>4. /\ o.price = p /\ o.amount = a /\ o.filled = 0 /\ o.remaining = a /\ o.side = s
          /\ o.market = m /\ o.type = "LIMIT"
          /\ o.locked = IF s = "BUY" THEN QuoteFloor(p, a, Scale[m]) ELSE a
      BY DEF LimitOrder
    <3> HIDE DEF o
    <3>5. CoversRest(o)
      <4>1. QuoteFloor(p, a, Scale[m]) * Scale[m].unit = Worth(p, a, Scale[m])
            /\ Worth(p, a, Scale[m]) \in Nat
        BY <3>2, <3>3, QuoteExact, WorthNat
      <4>2. QuoteFloor(p, a, Scale[m]) * Scale[m].unit >= Worth(p, a, Scale[m])
        BY <4>1
      <4> QED BY <3>4, <4>2 DEF CoversRest
    <3>6. LimitSound(o)
      BY <3>3, <3>4, <3>5 DEF LimitSound
    <3> QED BY <1>2, <3>2, <3>4, <3>6 DEF TakerSound
  <2>2. CASE \E q \in (IF s = "BUY" THEN Spends ELSE Amounts) : ReceiveMarket(u, m, s, q)
    <3>1. taker'.type = "MARKET"
      BY <2>2 DEF ReceiveMarket, Receive, MarketOrder
    <3> QED BY <1>2, <3>1 DEF TakerSound
  <2> QED BY <1>1, <2>1, <2>2
<1> QED BY <1>2, <1>3, <1>4, RestLocks

LEMMA CommitLocks ==
  ASSUME LockInv, TypeInv', phase = "MATCH", NEW row \in OrderRec, Commit(row), RowSound(row),
         row.user = taker.user, row.market = taker.market, row.side = taker.side,
         row.locked = taker.locked
  PROVE  LockInv'
<1>1. /\ locked' = locked /\ orders' = Append(orders, row) /\ phase' = "IDLE" /\ answer' = "PLACED"
  BY DEF Commit, Done
<1>2. TypeOK /\ orders \in Seq(OrderRec) /\ taker \in OrderRec
  BY DEF LockInv, TypeInv, TypeOK, TheTables, TablesRec
<1>3. /\ Len(orders) \in Nat /\ DOMAIN orders = 1..Len(orders)
      /\ orders' \in Seq(OrderRec) /\ DOMAIN orders' = 1..(Len(orders) + 1)
      /\ \A i \in 1..Len(orders) : orders'[i] = orders[i]
      /\ orders'[Len(orders) + 1] = row
  BY <1>1, <1>2, AppendProperties, LenProperties
<1>4. RowsSound(orders')
  <2> SUFFICES ASSUME NEW i \in DOMAIN orders' PROVE RowSound(orders'[i])
    BY DEF RowsSound
  <2>1. CASE i \in 1..Len(orders)
    BY <1>3, <2>1 DEF LockInv, RowsSound
  <2>2. CASE i = Len(orders) + 1
    BY <1>3, <2>2
  <2> QED BY <1>3, <2>1, <2>2
<1>5. ASSUME NEW u \in Users, NEW a \in Assets
      PROVE  OrderLocks(orders', u, a) <= locked'[u][a]
  <2>1. OrderLocks(orders', u, a) = OrderLocks(orders, u, a) + LockOf(row, u, a)
    BY <1>1, <1>2, OrderLocksAppend
  <2>2. LockOf(row, u, a) = TakerLock(u, a)
    BY DEF LockOf, TakerLock, SpendAsset
  <2>3. OrderLocks(orders, u, a) + TakerLock(u, a) <= locked[u][a]
    BY DEF LockInv, LocksBacked
  <2> QED BY <1>1, <2>1, <2>2, <2>3
<1>6. TakerSound'
  BY <1>1 DEF TakerSound
<1> QED BY <1>1, <1>4, <1>5, <1>6, RestLocks DEF Backs

LEMMA FinishLocks ==
  ASSUME LockInv, TypeInv', FinishLimit \/ FinishMarket
  PROVE  LockInv'
<1>1. TypeOK /\ TakerSound /\ phase = "MATCH"
  BY DEF LockInv, TypeInv, FinishLimit, FinishMarket, LoopEnded
<1>2. taker \in OrderRec /\ Scale[taker.market] \in ScaleRec
  BY <1>1, RowTypes
<1>3. /\ taker.price \in Nat /\ taker.amount \in Nat /\ taker.filled \in Nat
      /\ taker.remaining \in Nat /\ taker.locked \in Nat /\ taker.spent \in Nat
  BY <1>2 DEF OrderRec
<1>4. CASE FinishLimit
  <2> DEFINE status == IF taker.filled = 0 THEN "OPEN"
                       ELSE IF taker.remaining = 0 THEN "FILLED" ELSE "PARTIAL_FILLED"
             row == [taker EXCEPT !.status = status]
  <2>1. Commit(row) /\ taker.type = "LIMIT"
    BY <1>4 DEF FinishLimit
  <2>2. status \in OrderStatus
    BY DEF OrderStatus
  <2> HIDE DEF status
  <2>3. /\ row \in OrderRec /\ row.status = status /\ row.type = "LIMIT"
        /\ row.user = taker.user /\ row.market = taker.market /\ row.side = taker.side
        /\ row.locked = taker.locked /\ row.remaining = taker.remaining /\ row.price = taker.price
    BY <1>2, <2>1, <2>2 DEF OrderRec
  <2> HIDE DEF row
  <2>4. LimitSound(taker)
    BY <1>1, <2>1 DEF TakerSound
  <2>5. IsOpen(row) => taker.remaining > 0
    <3>1. taker.filled = 0 => taker.remaining > 0
      BY <1>3, <2>4 DEF LimitSound
    <3> QED BY <1>3, <2>3, <3>1 DEF IsOpen, status
  <2>6. taker.remaining > 0 => taker.locked > 0
    <3>1. CoversRest(taker) /\ taker.price > 0
      BY <2>4 DEF LimitSound
    <3>2. CASE taker.side = "BUY"
      <4>1. taker.locked * Scale[taker.market].unit
              >= Worth(taker.price, taker.remaining, Scale[taker.market])
        BY <3>1, <3>2 DEF CoversRest
      <4> QED BY <1>2, <1>3, <3>1, <4>1, CoverIsPositive
    <3>3. CASE taker.side # "BUY"
      BY <3>1, <3>3 DEF CoversRest
    <3> QED BY <3>2, <3>3
  <2>7. CoversRest(row)
    BY <2>3, <2>4 DEF CoversRest, LimitSound
  <2>8. ~IsOpen(row) => taker.locked = 0
    BY <2>3, <2>4 DEF IsOpen, status, LimitSound
  <2>9. RowSound(row)
    BY <2>3, <2>4, <2>5, <2>6, <2>7, <2>8 DEF RowSound, OrderCovered, LimitSound
  <2> QED BY <1>1, <2>1, <2>3, <2>9, CommitLocks
<1>5. CASE FinishMarket
  <2> DEFINE amount == IF taker.side = "BUY" THEN taker.filled ELSE taker.amount
             average == AveragePrice(taker.spent, taker.filled, Scale[taker.market])
             status == IF WantsMore(taker) THEN "PARTIAL_FILLED_CANCELLED" ELSE "FILLED"
             row == [taker EXCEPT !.amount = amount, !.averagePrice = average, !.status = status]
  <2>1. Commit(row) /\ taker.type = "MARKET" /\ taker.locked = 0
    BY <1>1, <1>5 DEF FinishMarket, LockInv, TypeInv, MarketLocksNothing
  <2>2. amount \in Nat /\ average \in Nat /\ status \in {"PARTIAL_FILLED_CANCELLED", "FILLED"}
    BY <1>2, <1>3, AveragePriceNat
  <2> HIDE DEF amount, average, status
  <2>3. /\ row \in OrderRec /\ row.status = status
        /\ row.user = taker.user /\ row.market = taker.market /\ row.side = taker.side
        /\ row.locked = taker.locked
    BY <1>2, <2>2 DEF OrderRec, OrderStatus
  <2> HIDE DEF row
  <2>4. RowSound(row)
    BY <2>1, <2>2, <2>3 DEF RowSound, OrderCovered, IsOpen
  <2> QED BY <1>1, <2>1, <2>3, <2>4, CommitLocks
<1> QED BY <1>4, <1>5

LEMMA PlaceLocks ==
  ASSUME LockInv, TypeInv', Place
  PROVE  LockInv'
<1> DEFINE u == taker.user
           c == SpendAsset(taker)
<1>1. TypeOK /\ phase = "CHECKED" /\ LocksBacked /\ TakerSound /\ RowsSound(orders)
      /\ orders \in Seq(OrderRec) /\ avail \in Balances /\ locked \in Balances
  BY DEF LockInv, TypeInv, TypeOK, TheTables, TablesRec, Place
<1>2. taker \in OrderRec /\ Base[taker.market] \in Assets /\ Quote[taker.market] \in Assets
  BY <1>1, RowTypes
<1>3. /\ u \in Users /\ c \in Assets /\ taker.locked \in Nat /\ taker.requested \in Nat
      /\ taker.type \in {"LIMIT", "MARKET"} /\ taker.remaining \in Nat
  BY <1>2 DEF OrderRec, SpendAsset
<1>4. avail[u][c] \in Nat /\ locked[u][c] \in Nat
  BY <1>1, <1>3 DEF Balances
<1>5. avail[u][c] >= Needed(taker)
  BY DEF Place
<1>6. taker.type = "MARKET" => taker.locked = 0
  BY <1>1 DEF LockInv, TypeInv, MarketLocksNothing
<1>7. /\ avail' = Change(avail, u, c, -taker.locked) /\ locked' = Change(locked, u, c, taker.locked)
      /\ orders' = orders /\ taker' = taker /\ answer' = answer
      /\ toVisit' = Resting(taker) /\ saved' = TheTables /\ phase' = "MATCH"
  BY DEF Place
<1>8. avail[u][c] + (-taker.locked) >= 0 /\ locked[u][c] + taker.locked >= 0
      /\ -taker.locked \in Int /\ taker.locked \in Int
  BY <1>3, <1>4, <1>5, <1>6 DEF Needed
<1>9. \A v \in Users, b \in Assets :
        locked'[v][b] = IF v = u /\ b = c THEN locked[u][c] + taker.locked ELSE locked[v][b]
  <2> HIDE DEF u, c
  <2> QED BY <1>1, <1>3, <1>7, <1>8, ChangeBalance
<1>10. avail'[u][c] = avail[u][c] + (-taker.locked)
  <2> HIDE DEF u, c
  <2> QED BY <1>1, <1>3, <1>7, <1>8, ChangeBalance
<1>11. LocksBacked'
  <2> SUFFICES ASSUME NEW v \in Users, NEW b \in Assets
               PROVE  OrderLocks(orders, v, b) + TakerLock(v, b)' <= locked'[v][b]
    BY <1>7 DEF LocksBacked
  <2>1. TakerLock(v, b) = 0
    BY <1>1 DEF TakerLock
  <2>2. TakerLock(v, b)' = IF v = u /\ b = c THEN taker.locked ELSE 0
    BY <1>7 DEF TakerLock, SpendAsset
  <2>3. OrderLocks(orders, v, b) \in Nat /\ locked[v][b] \in Nat
    BY <1>1, OrderLocksNat DEF Balances
  <2>4. OrderLocks(orders, v, b) + TakerLock(v, b) <= locked[v][b]
    BY <1>1 DEF LocksBacked
  <2> HIDE DEF u, c
  <2> QED BY <1>3, <1>9, <2>1, <2>2, <2>3, <2>4
<1>12. RowsSound(saved'.orders) /\ Backs(saved'.locked, saved'.orders)
  BY <1>1, <1>7, TablesBacked DEF TheTables
<1>13. Targeted'
  BY <1>7 DEF Targeted, Resting, Rests, IsOpen, Opposite
<1>14. TakerSound'
  <2>1. taker.type = "MARKET" =>
          avail'[u][c] >= IF taker.side = "BUY" THEN QuoteLeft(taker) ELSE taker.remaining
    <3>1. SUFFICES ASSUME taker.type = "MARKET"
                   PROVE  avail'[u][c] >= IF taker.side = "BUY" THEN QuoteLeft(taker) ELSE taker.remaining
      OBVIOUS
    <3>2. avail'[u][c] = avail[u][c]
      BY <1>4, <1>6, <1>10, <3>1
    <3>3. QuoteLeft(taker) \in Int /\ QuoteLeft(taker) <= taker.requested
      BY <1>2, <1>3 DEF QuoteLeft, OrderRec
    <3>4. Needed(taker) = IF taker.side = "BUY" THEN taker.requested ELSE taker.remaining
      BY <3>1 DEF Needed
    <3> QED BY <1>3, <1>4, <1>5, <3>2, <3>3, <3>4
  <2>2. SpendAsset(taker)' = c
    BY <1>7 DEF SpendAsset
  <2> QED BY <1>1, <1>7, <2>1, <2>2 DEF TakerSound, MarketSound, QuoteLeft
<1>15. RowsSound(orders)'
  BY <1>1, <1>7 DEF RowsSound
<1> QED BY <1>7, <1>11, <1>12, <1>13, <1>14, <1>15 DEF LockInv

LEMMA CancelLocks ==
  ASSUME LockInv, TypeInv', NEW i \in DOMAIN orders, Cancel(i)
  PROVE  LockInv'
<1> DEFINE o == orders[i]
           row == [o EXCEPT !.status = "CANCELLED", !.locked = 0]
           u == o.user
           c == SpendAsset(o)
           x == o.locked
<1>1. TypeOK /\ LocksBacked /\ TakerSound /\ RowsSound(orders) /\ phase # "MATCH"
      /\ orders \in Seq(OrderRec) /\ locked \in Balances
      /\ DOMAIN orders = 1..Len(orders)
  BY LenProperties DEF LockInv, TypeInv, TypeOK, TheTables, TablesRec, Cancel, MayCancel
<1>2. o \in OrderRec
  BY <1>1, ElementOfSeq
<1>3. u \in Users /\ c \in Assets /\ x \in Nat
  BY <1>2, TablesAssumption DEF OrderRec, SpendAsset
<1>4. /\ locked[u][c] >= x /\ locked' = Change(locked, u, c, -x)
      /\ orders' = [orders EXCEPT ![i] = row]
      /\ UNCHANGED <<request, answer>>
  BY DEF Cancel, CanRelease
<1>5. /\ row \in OrderRec /\ row.status = "CANCELLED" /\ row.locked = 0
      /\ row.user = u /\ SpendAsset(row) = c
  BY <1>2 DEF OrderRec, OrderStatus, SpendAsset
<1> HIDE DEF row
<1>6. RowSound(row)
  BY <1>5 DEF RowSound, OrderCovered, IsOpen
<1>7. /\ DOMAIN orders' = DOMAIN orders
      /\ \A j \in DOMAIN orders : orders'[j] = IF j = i THEN row ELSE orders[j]
  BY <1>1, <1>4, <1>5, ExceptSeq
<1>8. RowsSound(orders')
  BY <1>1, <1>6, <1>7 DEF RowsSound
<1>9. ASSUME NEW v \in Users, NEW b \in Assets
      PROVE  OrderLocks(orders', v, b) <= locked'[v][b]
  <2>1. OrderLocks(orders', v, b)
          = OrderLocks(orders, v, b) - LockOf(o, v, b) + LockOf(row, v, b)
    <3>1. Replaces(orders, orders', i, row)
      BY <1>1, <1>4, <1>5 DEF Replaces
    <3> QED BY <3>1, OrderLocksUpdate
  <2>2. LockOf(o, v, b) = (IF v = u /\ b = c THEN x ELSE 0) /\ LockOf(row, v, b) = 0
    BY <1>5 DEF LockOf
  <2>3. OrderLocks(orders, v, b) \in Nat /\ locked[v][b] \in Nat
    BY <1>1, OrderLocksNat DEF Balances
  <2>4. OrderLocks(orders, v, b) <= locked[v][b]
    BY <1>1, TablesBacked DEF Backs
  <2>5. locked'[v][b] = IF v = u /\ b = c THEN locked[u][c] + (-x) ELSE locked[v][b]
    <3>1. locked[u][c] \in Nat /\ -x \in Int /\ locked[u][c] + (-x) >= 0
      BY <1>1, <1>3, <1>4 DEF Balances
    <3> HIDE DEF u, c, x
    <3> QED BY <1>1, <1>3, <1>4, <3>1, ChangeBalance
  <2> HIDE DEF u, c, x
  <2> QED BY <1>3, <2>1, <2>2, <2>3, <2>4, <2>5
<1>10. TakerSound' /\ phase' # "MATCH" /\ answer' = answer
  BY <1>1, <1>4 DEF request, TakerSound
<1> QED BY <1>8, <1>9, <1>10, RestLocks DEF Backs, LockInv

LEMMA ErrorLocks ==
  ASSUME LockInv, TypeInv', MatchError \/ NoLiquidity
  PROVE  LockInv'
<1>1. CASE MatchError
  <2>1. Fault(Deal(NextMaker)) \notin {"OVERSPEND", "FUNDS_SHORT"}
    BY <1>1, FillsAreFunded DEF MatchError, Fault
  <2> QED BY <1>1, <2>1, AbortLocks DEF MatchError, Looping
<1>2. CASE NoLiquidity
  BY <1>2, AbortLocks DEF NoLiquidity, LoopEnded
<1> QED BY <1>1, <1>2

LEMMA NextLocks == LockInv /\ [Next]_vars => LockInv'
<1> SUFFICES ASSUME LockInv, [Next]_vars PROVE LockInv'
  OBVIOUS
<1>1. TypeInv /\ TypeInv'
  BY NextType DEF LockInv
<1>2. CASE UNCHANGED vars
  BY <1>1, <1>2, QuietLocks DEF vars, request, tables
<1>3. CASE Requests
  BY <1>1, <1>3, RequestsLocks
<1>4. CASE Cancellations
  BY <1>1, <1>4, CancelLocks DEF Cancellations
<1>5. CASE Administration
  <2>1. UNCHANGED <<tables, request, answer>>
    BY <1>5 DEF Administration, SetUserStatus, SetMarketStatus, SetAssetStatus, UpdateFeeSettings
  <2> QED BY <1>1, <2>1, QuietLocks DEF tables, request
<1>6. CASE Progress
  <2>1. CASE SkipOwn \/ MarketStop
    BY <1>1, <2>1, QuietLocks DEF SkipOwn, MarketStop, tables
  <2> QED BY <1>1, <1>6, <2>1, PlaceLocks, RejectLocks, LimitFillLocks, MarketFillLocks,
             ErrorLocks, FinishLocks DEF Progress
<1> QED BY <1>2, <1>3, <1>4, <1>5, <1>6 DEF Next

-----------------------------------------------------------------------------

\* In every market and at every point of a matching loop a wallet's locked
\* balance backs the locks of all its user's orders, although each order is
\* released, refunded and re-locked on its own.
THEOREM WalletsBackTheLocks == Spec => []LocksBacked
<1>1. LockInv => LocksBacked
  BY DEF LockInv
<1> QED BY <1>1, InitLocks, NextLocks, PTL DEF Spec

\* Whatever mix of exact and rounded fills an order has seen, its lock still
\* pays for all that remains of it at its own price; a closed order locks
\* nothing.
THEOREM OrdersStayCovered == Spec => []OrdersCovered
<1>1. LockInv => OrdersCovered
  BY DEF LockInv, RowsSound, RowSound, OrdersCovered
<1> QED BY <1>1, InitLocks, NextLocks, PTL DEF Spec

\* The errors by which settlement and cancellation report a balance below what
\* they reserved themselves are dead code: no history of requests raises them.
THEOREM NothingFallsShort == Spec => []NoInternalShortfall
<1>1. LockInv => NoInternalShortfall
  <2> SUFFICES ASSUME LockInv, NEW i \in DOMAIN orders, MayCancel(i)
               PROVE  CanRelease(orders[i])
    BY DEF LockInv, NoInternalShortfall
  <2> DEFINE o == orders[i]
             u == o.user
             c == SpendAsset(o)
  <2>1. /\ TypeOK /\ LocksBacked /\ phase # "MATCH" /\ orders \in Seq(OrderRec)
        /\ i \in 1..Len(orders) /\ locked \in Balances
    BY LenProperties DEF LockInv, TypeInv, TypeOK, TheTables, TablesRec, MayCancel
  <2>2. o \in OrderRec
    BY <2>1, ElementOfSeq
  <2>3. u \in Users /\ c \in Assets /\ o.locked \in Nat
    BY <2>2, TablesAssumption DEF OrderRec, SpendAsset
  <2>4. LockOf(o, u, c) = o.locked
    BY DEF LockOf
  <2>5. OrderLocks(orders, u, c) <= locked[u][c]
    BY <2>1, <2>3, TablesBacked DEF Backs
  <2>6. o.locked <= OrderLocks(orders, u, c) /\ OrderLocks(orders, u, c) \in Nat
    BY <2>1, <2>4, OrderLocksNat
  <2>7. locked[u][c] \in Nat
    BY <2>1, <2>3 DEF Balances
  <2>8. locked[u][c] >= o.locked
    <3> HIDE DEF u, c
    <3> QED BY <2>3, <2>5, <2>6, <2>7
  <2> QED BY <2>8 DEF CanRelease
<1> QED BY <1>1, InitLocks, NextLocks, PTL DEF Spec

=============================================================================
