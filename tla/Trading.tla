------------------------------- MODULE Trading -------------------------------
(***************************************************************************)
(* Order placement, matching, settlement and cancellation                  *)
(* (orders/orders.service.ts), with the fee settings, the trade rows and   *)
(* the account, market and asset switches of the administrator.            *)
(*                                                                         *)
(* Placing an order is one database transaction.  The model takes it apart:*)
(*   CHECKED  the user and the market have been read and the request has   *)
(*            been validated, no row is locked yet;                        *)
(*   MATCH    the spend wallet and the opposite side of the book are locked*)
(*            and the matching loop runs, one resting order per step.      *)
(* A thrown error rolls back to `saved'.  Administrator requests and       *)
(* cancellations interleave with it as far as the row locks let them; two  *)
(* placements do not overlap, and a cancellation waits for a matching loop.*)
(*                                                                         *)
(* Definitions with an underscore in their name (Needed_Unchecked) are     *)
(* wrong variants of the definition that follows them.  Nothing uses them: *)
(* README.md says which property fails when one takes its place.           *)
(***************************************************************************)
EXTENDS Sequences, Money, Sums

CONSTANTS
  Roster,        \* the users, in order of registration
  Assets,        \* assets rows
  Markets,       \* markets rows
  Base, Quote,   \* the base and the quote asset of a market
  Scale,         \* the decimals of a market, as Money uses them
  MinOrder,      \* minOrderAmount and minNotional of a market, 0 for none
  Funds,         \* the balances users start with
  Prices, Amounts, Spends,   \* the requests users may send
  FeeRates,      \* the fee rates (basis points) an administrator may set
  Freezable,     \* the users an administrator may freeze and unfreeze
  Pausable,      \* the markets and assets an administrator may pause
  MaxOrders      \* bound on the number of orders

Users == {Roster[i] : i \in DOMAIN Roster}

ASSUME TablesAssumption ==
  /\ Roster \in Seq(Users)
  /\ \A i, j \in DOMAIN Roster : Roster[i] = Roster[j] => i = j
  /\ Base \in [Markets -> Assets]
  /\ Quote \in [Markets -> Assets]
  /\ \A m \in Markets : Base[m] # Quote[m]

ASSUME NumbersAssumption ==
  /\ Scale \in [Markets -> ScaleRec]
  /\ MinOrder \in [Markets -> [amount : Nat, notional : Nat]]
  /\ Funds \in [Users -> [Assets -> Nat]]
  /\ Prices \subseteq Nat \ {0}
  /\ Amounts \subseteq Nat \ {0}
  /\ Spends \subseteq Nat \ {0}
  /\ FeeRates \subseteq 0..MaxFeeRate
  /\ FeeRates # {}

VARIABLES
  userStatus,    \* users.status; FROZEN stands for BANNED too
  marketStatus,  \* markets.status
  assetStatus,   \* assets.is_active, as ACTIVE or PAUSED
  feeRates,      \* fee_settings: the buyer's and the seller's rate per market
  avail, locked, \* wallets of type MAIN: available and locked balance
  feeWallet,     \* available balance of the administrator's FEE wallets
  orders,        \* orders rows, in order of creation
  trades,        \* trades rows
  phase,         \* how far the placement in progress is
  taker,         \* its order row, which other transactions do not see yet
  rows,          \* the resting orders its matching query returned and locked
  toVisit,       \* those of them the loop has still to visit
  rates,         \* the fee rates it has read, once per placement
  saved,         \* the tables as they were before its first write
  answer         \* how the last request was answered

switches == <<userStatus, marketStatus, assetStatus, feeRates>>
tables == <<avail, locked, feeWallet, orders, trades>>
request == <<phase, taker, rows, toVisit, rates, saved>>
vars == <<switches, tables, request, answer>>

-----------------------------------------------------------------------------
\* Rows

Side == {"BUY", "SELL"}
OrderStatus == {"OPEN", "PARTIAL_FILLED", "FILLED", "CANCELLED",
                "PARTIAL_FILLED_CANCELLED"}

OrderRec ==
  [user : Users, market : Markets, side : Side, type : {"LIMIT", "MARKET"},
   price : Nat, amount : Nat, filled : Nat, remaining : Nat,
   requested : Nat, spent : Nat, averagePrice : Nat,
   locked : Nat, status : OrderStatus]

TradeRec ==
  [market : Markets, buyOrder : Nat, sellOrder : Nat, price : Nat,
   amount : Nat, quote : Nat, buyerFee : Nat, sellerFee : Nat]

RateRec == [buyer : 0..MaxFeeRate, seller : 0..MaxFeeRate]

NoOrder == [type |-> "NONE"]
NoRates == [read |-> FALSE]
TheTables == [avail |-> avail, locked |-> locked, feeWallet |-> feeWallet,
              orders |-> orders, trades |-> trades]

\* updateWallet, of a wallet locked by ensureWalletForUpdate.
Change(w, u, a, x) == [w EXCEPT ![u][a] = @ + x]

Opposite(s) == IF s = "BUY" THEN "SELL" ELSE "BUY"
IsOpen(o) == o.status \in {"OPEN", "PARTIAL_FILLED"}
SpendAsset(o) == IF o.side = "BUY" THEN Quote[o.market] ELSE Base[o.market]

\* The asset row and the market row a new order needs to be ACTIVE.
MarketOpen(m) ==
  /\ marketStatus[m] = "ACTIVE"
  /\ assetStatus[Base[m]] = "ACTIVE"
  /\ assetStatus[Quote[m]] = "ACTIVE"

\* The order row a validated limit request inserts.
LimitOrder(u, m, s, p, a) ==
  [user |-> u, market |-> m, side |-> s, type |-> "LIMIT",
   price |-> p, amount |-> a, filled |-> 0, remaining |-> a,
   requested |-> 0, spent |-> 0, averagePrice |-> 0,
   locked |-> IF s = "BUY" THEN QuoteFloor(p, a, Scale[m]) ELSE a,
   status |-> "OPEN"]

\* The order row a market request inserts: a BUY names the quote it spends,
\* a SELL the base it sells, and neither locks anything.
MarketOrder(u, m, s, q) ==
  LET base == IF s = "BUY" THEN 0 ELSE q
      quote == IF s = "BUY" THEN q ELSE 0
  IN  [user |-> u, market |-> m, side |-> s, type |-> "MARKET",
       price |-> 0, amount |-> base, filled |-> 0, remaining |-> base,
       requested |-> quote, spent |-> 0, averagePrice |-> 0,
       locked |-> 0, status |-> "OPEN"]

Needed_Unchecked(o) == 0

\* What the spend wallet must have available when the order is placed.
Needed(o) ==
  IF o.type = "LIMIT" THEN o.locked
  ELSE IF o.side = "BUY" THEN o.requested ELSE o.remaining

QuoteLeft_Requested(o) == o.requested

\* The quote a market BUY has still to spend.
QuoteLeft(o) == o.requested - o.spent

WantsMore(o) ==
  IF o.type = "MARKET" /\ o.side = "BUY" THEN QuoteLeft(o) > 0
                                         ELSE o.remaining > 0

-----------------------------------------------------------------------------
\* The book

Rests_AnyStatus(o) == o.type = "LIMIT" /\ o.remaining > 0
Rests(o) == o.type = "LIMIT" /\ IsOpen(o) /\ o.remaining > 0

Crosses_AnyPrice(o, r) == TRUE

\* A market order crosses every price.
Crosses(o, r) ==
  \/ o.type = "MARKET"
  \/ o.side = "BUY" /\ r.price <= o.price
  \/ o.side = "SELL" /\ r.price >= o.price

\* The rows the matching query of o selects and locks.
Resting(o) ==
  {i \in DOMAIN orders :
     /\ orders[i].market = o.market
     /\ orders[i].side = Opposite(o.side)
     /\ Rests(orders[i])
     /\ userStatus[orders[i].user] = "ACTIVE"
     /\ Crosses(o, orders[i])}

Before_NewestFirst(o, i, j) ==
  IF orders[i].price = orders[j].price THEN i > j
  ELSE IF o.side = "BUY" THEN orders[i].price < orders[j].price
                         ELSE orders[i].price > orders[j].price

\* The order of the query: best price for the taker first, then oldest.
Before(o, i, j) ==
  IF orders[i].price = orders[j].price THEN i < j
  ELSE IF o.side = "BUY" THEN orders[i].price < orders[j].price
                         ELSE orders[i].price > orders[j].price

\* The row the loop visits next.
NextMaker == CHOOSE i \in toVisit : \A j \in toVisit \ {i} : Before(taker, i, j)

\* The fee rates of a placement: the first fill reads them, the others reuse them.
Rate_Reread(m) == feeRates[m]
Rate(m) == IF rates = NoRates THEN feeRates[m] ELSE rates

\* What goes back to a buyer whose lock released more than the fill cost.
Refund_None(release, quote) == 0
Refund(release, quote) == IF release > quote THEN release - quote ELSE 0

\* Everything one fill of the taker against resting order i moves.  `release'
\* is what the fill takes off the buyer's lock: a limit BUY that gets a better
\* price releases the worth at its own price and is refunded the difference.
Deal(i) ==
  LET m == taker.market
      sc == Scale[m]
      maker == orders[i]
      buying == taker.side = "BUY"
      fill == IF taker.type = "MARKET" /\ buying
                THEN MarketBuyFill(QuoteLeft(taker), maker.price, maker.remaining, sc)
                ELSE Lesser(taker.remaining, maker.remaining)
      quote == QuoteFloor(maker.price, fill, sc)
      release == IF taker.type = "LIMIT" /\ buying /\ taker.price # maker.price
                   THEN QuoteFloor(taker.price, fill, sc) ELSE quote
      rate == Rate(m)
  IN  [maker |-> i, fill |-> fill, quote |-> quote, release |-> release,
       refund |-> Refund(release, quote),
       buyer |-> IF buying THEN taker.user ELSE maker.user,
       seller |-> IF buying THEN maker.user ELSE taker.user,
       buyerFee |-> Fee(fill, rate.buyer),
       sellerFee |-> Fee(quote, rate.seller),
       rate |-> rate]

\* A market taker pays out of the available balance, every other party out
\* of the balance its limit order locked.
BuyerPaysAvailable == taker.type = "MARKET" /\ taker.side = "BUY"
SellerPaysAvailable == taker.type = "MARKET" /\ taker.side = "SELL"

\* The checks of settleBuyerSide and settleSellerSide.
Funded(d) ==
  LET base == Base[taker.market]
      quote == Quote[taker.market]
  IN  /\ IF BuyerPaysAvailable THEN avail[d.buyer][quote] >= d.quote
                               ELSE locked[d.buyer][quote] >= d.release
      /\ IF SellerPaysAvailable THEN avail[d.seller][base] >= d.fill
                                ELSE locked[d.seller][base] >= d.fill

\* The totals matchIncomingOrder computes before it settles a fill have no
\* remainder.
DealIsExact(d) ==
  LET sc == Scale[taker.market]
      p == orders[d.maker].price
  IN  /\ QuoteIsExact(p, d.fill, sc)
      /\ taker.side = "BUY" /\ taker.price # p => QuoteIsExact(taker.price, d.fill, sc)

\* calculateRemainingLockedAmount: the lock of a limit order that has `left'
\* base units to go, and when it is computed without an error.
LockFor_Stale(o, left) == o.locked
LockFor(o, left) ==
  IF o.side = "BUY" THEN QuoteFloor(o.price, left, Scale[o.market]) ELSE left
LockIsExact(o, left) ==
  left > 0 /\ o.side = "BUY" => QuoteIsExact(o.price, left, Scale[o.market])

\* The totals it computes after the settlement have no remainder either.
LocksAreExact(d) ==
  /\ LockIsExact(taker, taker.remaining - d.fill)
  /\ LockIsExact(orders[d.maker], orders[d.maker].remaining - d.fill)

\* What a market fill leaves locked for the resting order.
LockAfterMarketFill_Kept(o, d) == o.locked
LockAfterMarketFill_Floor(o, d) == LockFor(o, o.remaining - d.fill)
LockAfterMarketFill(o, d) ==
  LET left == o.remaining - d.fill
  IN  IF o.side = "SELL" THEN left
      ELSE IF left = 0 \/ o.locked < d.quote THEN 0 ELSE o.locked - d.quote

-----------------------------------------------------------------------------
\* Placing an order: the checks before any row is locked.  A request that
\* fails them changes nothing and is no action.

MayRequest(u, m) ==
  /\ phase = "IDLE"
  /\ Len(orders) < MaxOrders
  /\ userStatus[u] = "ACTIVE"
  /\ MarketOpen(m)

Receive(o) ==
  /\ phase' = "CHECKED"
  /\ taker' = o
  /\ answer' = "NONE"
  /\ UNCHANGED <<switches, tables, rows, toVisit, rates, saved>>

ReceiveLimit(u, m, s, p, a) ==
  /\ MayRequest(u, m)
  /\ QuoteIsExact(p, a, Scale[m])
  /\ a >= MinOrder[m].amount
  /\ QuoteFloor(p, a, Scale[m]) >= MinOrder[m].notional
  /\ Receive(LimitOrder(u, m, s, p, a))

\* Market requests are not held to the minimums of the market.
ReceiveMarket(u, m, s, q) ==
  /\ MayRequest(u, m)
  /\ Receive(MarketOrder(u, m, s, q))

\* The placement is over: nothing of it is left but its answer.
Done(reason) ==
  /\ phase' = "IDLE"
  /\ taker' = NoOrder
  /\ rows' = {}
  /\ toVisit' = {}
  /\ rates' = NoRates
  /\ saved' = <<>>
  /\ answer' = reason

\* An error after the first write: the transaction rolls back.
Abort_KeepsTrades(reason) ==
  /\ avail' = saved.avail
  /\ locked' = saved.locked
  /\ feeWallet' = saved.feeWallet
  /\ orders' = saved.orders
  /\ UNCHANGED <<switches, trades>>
  /\ Done(reason)

Abort(reason) ==
  /\ avail' = saved.avail
  /\ locked' = saved.locked
  /\ feeWallet' = saved.feeWallet
  /\ orders' = saved.orders
  /\ trades' = saved.trades
  /\ UNCHANGED switches
  /\ Done(reason)

\* The spend wallet is locked and checked, a limit order moves its lock, the
\* order row is inserted and the resting orders are selected for update.
Place ==
  /\ phase = "CHECKED"
  /\ LET u == taker.user
         a == SpendAsset(taker)
     IN  /\ avail[u][a] >= Needed(taker)
         /\ avail' = Change(avail, u, a, -taker.locked)
         /\ locked' = Change(locked, u, a, taker.locked)
  /\ phase' = "MATCH"
  /\ rows' = Resting(taker)
  /\ toVisit' = Resting(taker)
  /\ saved' = TheTables
  /\ UNCHANGED <<switches, feeWallet, orders, trades, taker, rates, answer>>

RejectFunds ==
  /\ phase = "CHECKED"
  /\ avail[taker.user][SpendAsset(taker)] < Needed(taker)
  /\ UNCHANGED <<switches, tables>>
  /\ Done("INSUFFICIENT")

-----------------------------------------------------------------------------
\* The matching loop

Looping == phase = "MATCH" /\ WantsMore(taker) /\ toVisit # {}

MeetsOwnOrder == orders[NextMaker].user = taker.user

SkipOwn_Stops ==
  /\ Looping
  /\ MeetsOwnOrder
  /\ toVisit' = {}
  /\ UNCHANGED <<switches, tables, phase, taker, rows, rates, saved, answer>>

SkipOwn ==
  /\ Looping
  /\ MeetsOwnOrder
  /\ toVisit' = toVisit \ {NextMaker}
  /\ UNCHANGED <<switches, tables, phase, taker, rows, rates, saved, answer>>

\* The row of a resting order after a fill.
AfterFill(o, fill, lock) ==
  [o EXCEPT !.filled = o.filled + fill, !.remaining = o.remaining - fill, !.locked = lock,
            !.status = IF o.remaining = fill THEN "FILLED" ELSE "PARTIAL_FILLED"]

\* The trade row, the wallets of both sides, the fees, the resting order and
\* the loop's own totals.  The settlement never touches the taker's row.
Settle(d, makerLock, takerLock) ==
  LET base == Base[taker.market]
      quote == Quote[taker.market]
      new == Len(orders) + 1
      buying == taker.side = "BUY"
      spent == Change(avail, d.buyer, quote,
                      IF BuyerPaysAvailable THEN -d.quote ELSE d.refund)
      bought == Change(spent, d.buyer, base, d.fill - d.buyerFee)
      delivered == Change(bought, d.seller, base, IF SellerPaysAvailable THEN -d.fill ELSE 0)
      released == Change(locked, d.buyer, quote, IF BuyerPaysAvailable THEN 0 ELSE -d.release)
  IN  /\ avail' = Change(delivered, d.seller, quote, d.quote - d.sellerFee)
      /\ locked' = Change(released, d.seller, base, IF SellerPaysAvailable THEN 0 ELSE -d.fill)
      /\ feeWallet' = [feeWallet EXCEPT ![base] = @ + d.buyerFee,
                                        ![quote] = @ + d.sellerFee]
      /\ orders' = [orders EXCEPT ![d.maker] = AfterFill(orders[d.maker], d.fill, makerLock)]
      /\ trades' = Append(trades,
           [market |-> taker.market,
            buyOrder |-> IF buying THEN new ELSE d.maker,
            sellOrder |-> IF buying THEN d.maker ELSE new,
            price |-> orders[d.maker].price, amount |-> d.fill, quote |-> d.quote,
            buyerFee |-> d.buyerFee, sellerFee |-> d.sellerFee])
      /\ taker' = [taker EXCEPT
           !.filled = @ + d.fill,
           !.remaining = IF BuyerPaysAvailable THEN @ ELSE @ - d.fill,
           !.spent = IF taker.type = "MARKET" THEN @ + d.quote ELSE @,
           !.locked = takerLock]
      /\ toVisit' = toVisit \ {d.maker}
      /\ rates' = d.rate
      /\ UNCHANGED <<switches, phase, rows, saved, answer>>

\* A market order rounds the quote of a fill down, and its loop stops at the
\* first order that is worth nothing to it.
IsWorthless(d) == taker.type = "MARKET" /\ (d.fill = 0 \/ d.quote = 0)
Overspends(d) == BuyerPaysAvailable /\ d.quote > QuoteLeft(taker)

\* The error a fill ends in, in the order the code meets them.
Fault(d) ==
  IF taker.type = "LIMIT"
    THEN IF ~DealIsExact(d) THEN "INEXACT_TOTAL"
         ELSE IF ~Funded(d) THEN "FUNDS_SHORT"
         ELSE IF ~LocksAreExact(d) THEN "INEXACT_TOTAL" ELSE "NONE"
    ELSE IF IsWorthless(d) THEN "NONE"
         ELSE IF Overspends(d) THEN "OVERSPEND"
         ELSE IF ~Funded(d) THEN "FUNDS_SHORT" ELSE "NONE"

LimitFill ==
  /\ Looping
  /\ taker.type = "LIMIT"
  /\ ~MeetsOwnOrder
  /\ LET d == Deal(NextMaker)
         maker == orders[d.maker]
     IN  /\ Fault(d) = "NONE"
         /\ Settle(d, LockFor(maker, maker.remaining - d.fill),
                      LockFor(taker, taker.remaining - d.fill))

MarketFill ==
  /\ Looping
  /\ taker.type = "MARKET"
  /\ ~MeetsOwnOrder
  /\ LET d == Deal(NextMaker)
     IN  /\ ~IsWorthless(d)
         /\ Fault(d) = "NONE"
         /\ Settle(d, LockAfterMarketFill(orders[d.maker], d), 0)

MarketStop ==
  /\ Looping
  /\ ~MeetsOwnOrder
  /\ IsWorthless(Deal(NextMaker))
  /\ toVisit' = {}
  /\ UNCHANGED <<switches, tables, phase, taker, rows, rates, saved, answer>>

\* An error undoes the whole placement, earlier fills included.
MatchError ==
  /\ Looping
  /\ ~MeetsOwnOrder
  /\ LET f == Fault(Deal(NextMaker)) IN f # "NONE" /\ Abort(f)

-----------------------------------------------------------------------------
\* The end of the loop

LoopEnded_AllVisited == phase = "MATCH" /\ toVisit = {}
LoopEnded == phase = "MATCH" /\ ~(WantsMore(taker) /\ toVisit # {})

Commit(row) ==
  /\ orders' = Append(orders, row)
  /\ UNCHANGED <<switches, avail, locked, feeWallet, trades>>
  /\ Done("PLACED")

FinishLimit ==
  /\ LoopEnded
  /\ taker.type = "LIMIT"
  /\ Commit([taker EXCEPT !.status =
       IF taker.filled = 0 THEN "OPEN"
       ELSE IF taker.remaining = 0 THEN "FILLED" ELSE "PARTIAL_FILLED"])

FinishMarket ==
  /\ LoopEnded
  /\ taker.type = "MARKET"
  /\ taker.filled > 0
  /\ Commit([taker EXCEPT
       !.amount = IF taker.side = "BUY" THEN taker.filled ELSE @,
       !.averagePrice = AveragePrice(taker.spent, taker.filled, Scale[taker.market]),
       !.status = IF WantsMore(taker) THEN "PARTIAL_FILLED_CANCELLED" ELSE "FILLED"])

\* Without a fill the row would become REJECTED, but the handler throws.
NoLiquidity ==
  /\ LoopEnded
  /\ taker.type = "MARKET"
  /\ taker.filled = 0
  /\ Abort("NO_LIQUIDITY")

-----------------------------------------------------------------------------
\* Cancellation: the owner, of an order that still rests.  Works on a paused
\* market, not for a frozen user.  A cancellation whose wallet has less locked
\* than the order changes nothing and is no action.

MayCancel(i) ==
  /\ phase # "MATCH"
  /\ userStatus[orders[i].user] = "ACTIVE"
  /\ IsOpen(orders[i])
  /\ orders[i].type = "LIMIT"
  /\ orders[i].locked > 0

CanRelease(o) == locked[o.user][SpendAsset(o)] >= o.locked

Cancel(i) ==
  LET o == orders[i]
      a == SpendAsset(o)
  IN  /\ MayCancel(i)
      /\ CanRelease(o)
      /\ avail' = Change(avail, o.user, a, o.locked)
      /\ locked' = Change(locked, o.user, a, -o.locked)
      /\ orders' = [orders EXCEPT ![i] = [o EXCEPT !.status = "CANCELLED", !.locked = 0]]
      /\ UNCHANGED <<switches, feeWallet, trades, request, answer>>

-----------------------------------------------------------------------------
\* The administrator's switches.  Each takes its row FOR UPDATE, so it waits
\* for a placement that holds the row: the users of the matched orders, and
\* the user, the market and the spend asset the new order refers to.

UserRowHeld_TakerOnly(u) == phase = "MATCH" /\ u = taker.user
UserRowHeld(u) ==
  phase = "MATCH" /\ (u = taker.user \/ \E i \in rows : orders[i].user = u)

MarketRowHeld(m) == phase = "MATCH" /\ m = taker.market

AssetRowHeld(a) ==
  /\ phase = "MATCH"
  /\ \/ a = SpendAsset(taker)
     \/ rates # NoRates /\ a \in {Base[taker.market], Quote[taker.market]}

SetUserStatus(u) ==
  /\ ~UserRowHeld(u)
  /\ userStatus' = [userStatus EXCEPT ![u] = IF @ = "ACTIVE" THEN "FROZEN" ELSE "ACTIVE"]
  /\ UNCHANGED <<marketStatus, assetStatus, feeRates, tables, request, answer>>

SetMarketStatus(m) ==
  /\ ~MarketRowHeld(m)
  /\ marketStatus' = [marketStatus EXCEPT ![m] = IF @ = "ACTIVE" THEN "PAUSED" ELSE "ACTIVE"]
  /\ UNCHANGED <<userStatus, assetStatus, feeRates, tables, request, answer>>

SetAssetStatus(a) ==
  /\ ~AssetRowHeld(a)
  /\ assetStatus' = [assetStatus EXCEPT ![a] = IF @ = "ACTIVE" THEN "PAUSED" ELSE "ACTIVE"]
  /\ UNCHANGED <<userStatus, marketStatus, feeRates, tables, request, answer>>

\* A placement reads the fee row without locking it.
UpdateFeeSettings(m, b, s) ==
  /\ feeRates' = [feeRates EXCEPT ![m] = [buyer |-> b, seller |-> s]]
  /\ UNCHANGED <<userStatus, marketStatus, assetStatus, tables, request, answer>>

-----------------------------------------------------------------------------

Init ==
  /\ userStatus = [u \in Users |-> "ACTIVE"]
  /\ marketStatus = [m \in Markets |-> "ACTIVE"]
  /\ assetStatus = [a \in Assets |-> "ACTIVE"]
  /\ \E r \in FeeRates : feeRates = [m \in Markets |-> [buyer |-> r, seller |-> r]]
  /\ avail = Funds
  /\ locked = [u \in Users |-> [a \in Assets |-> 0]]
  /\ feeWallet = [a \in Assets |-> 0]
  /\ orders = <<>>
  /\ trades = <<>>
  /\ phase = "IDLE"
  /\ taker = NoOrder
  /\ rows = {}
  /\ toVisit = {}
  /\ rates = NoRates
  /\ saved = <<>>
  /\ answer = "NONE"

Requests ==
  \E u \in Users, m \in Markets, s \in Side :
    \/ \E p \in Prices, a \in Amounts : ReceiveLimit(u, m, s, p, a)
    \/ \E q \in (IF s = "BUY" THEN Spends ELSE Amounts) : ReceiveMarket(u, m, s, q)

\* The steps of the placement in progress.
Progress ==
  \/ Place \/ RejectFunds
  \/ SkipOwn \/ LimitFill \/ MarketFill \/ MarketStop \/ MatchError
  \/ FinishLimit \/ FinishMarket \/ NoLiquidity

Cancellations == \E i \in DOMAIN orders : Cancel(i)

Administration ==
  \/ \E u \in Freezable : SetUserStatus(u)
  \/ \E m \in Pausable \cap Markets : SetMarketStatus(m)
  \/ \E a \in Pausable \cap Assets : SetAssetStatus(a)
  \/ \E m \in Markets, b \in FeeRates, s \in FeeRates : UpdateFeeSettings(m, b, s)

Next == Requests \/ Progress \/ Cancellations \/ Administration

Spec == Init /\ [][Next]_vars

\* The handler runs to the end of its transaction: after each statement the
\* database answers and the loop goes on.
FairSpec == Spec /\ WF_vars(Progress)

=============================================================================
