------------------------------- MODULE Preview -------------------------------
(***************************************************************************)
(* What POST /orders/preview and GET /order-book answer on the rows that   *)
(* other transactions see (Committed), and what they promise of the        *)
(* placements of Trading.  A preview reads without locks and writes        *)
(* nothing, so it is a function of the tables.                             *)
(*                                                                         *)
(* The walk of a preview is a function of the rows, the rates and the      *)
(* request it is given (os, found, rate, r), none of them a variable: the  *)
(* lemmas of TradingBookProofs about it hold in every state.               *)
(***************************************************************************)
EXTENDS TradingProperties, FiniteSets

\* The rows a preview of o selects.
PreviewRows(o) ==
  {i \in DOMAIN Committed :
     /\ Committed[i].market = o.market
     /\ Committed[i].side = Opposite(o.side)
     /\ Rests(Committed[i])
     /\ userStatus[Committed[i].user] = "ACTIVE"}

\* The order it walks them in: best price first, then oldest.
Ahead(os, side, i, j) ==
  IF os[i].price = os[j].price THEN i < j
  ELSE IF side = "BUY" THEN os[i].price < os[j].price
                       ELSE os[i].price > os[j].price
FirstOf(os, side, todo) == CHOOSE i \in todo : \A j \in todo \ {i} : Ahead(os, side, i, j)

\* What a market order asks for: the quote to spend, or the base to sell.
Asked(o) ==
  [user |-> o.user, market |-> o.market, side |-> o.side,
   left |-> IF o.side = "BUY" THEN o.requested ELSE o.amount]

\* getFeeRatesForPreview.
PreviewRates(o) == feeRates[o.market]

\* The fill of request r against row i that a preview counts next.
PreviewFill(os, rate, r, i, left) ==
  LET sc == Scale[r.market]
      fill == IF r.side = "BUY" THEN MarketBuyFill(left, os[i].price, os[i].remaining, sc)
                                ELSE Lesser(left, os[i].remaining)
      quote == QuoteFloor(os[i].price, fill, sc)
  IN  [maker |-> i, amount |-> fill, quote |-> quote,
       buyerFee |-> Fee(fill, rate.buyer), sellerFee |-> Fee(quote, rate.seller)]

\* What is left to spend, or to sell, after a fill.
PreviewLeft_Same(r, left, fill) == left
PreviewLeft(r, left, fill) == left - (IF r.side = "BUY" THEN fill.quote ELSE fill.amount)

\* One turn of the loop of previewMarketOrder: own rows are passed over, and the
\* first fill that is worth nothing ends it.
Turn(os, rate, r, w) ==
  LET i == FirstOf(os, r.side, w.todo)
      next == PreviewFill(os, rate, r, i, w.left)
  IN  IF w.todo = {} \/ w.left <= 0 THEN w
      ELSE IF os[i].user = r.user
        THEN [todo |-> w.todo \ {i}, left |-> w.left, fills |-> w.fills]
      ELSE IF next.amount = 0 \/ next.quote = 0
        THEN [todo |-> {}, left |-> w.left, fills |-> w.fills]
      ELSE [todo |-> w.todo \ {i}, left |-> PreviewLeft(r, w.left, next),
            fills |-> Append(w.fills, next)]

\* The loop: where it stands after n turns over the rows found.
Walk(os, found, rate, r) ==
  LET w[n \in Nat] == IF n = 0 THEN [todo |-> found, left |-> r.left, fills |-> <<>>]
                                ELSE Turn(os, rate, r, w[n - 1])
  IN  w
PreviewEnd(o) ==
  Walk(Committed, PreviewRows(o), PreviewRates(o), Asked(o))[Cardinality(PreviewRows(o))]
PreviewFills(o) == PreviewEnd(o).fills

\* determineMarketOrderStatus, and the liquidity shown with it.
PreviewStatus(o) ==
  IF PreviewFills(o) = <<>> THEN "REJECTED"
  ELSE IF PreviewEnd(o).left = 0 THEN "FILLED" ELSE "PARTIAL_FILLED_CANCELLED"
Liquidity(o) ==
  CASE PreviewStatus(o) = "REJECTED" -> "NONE"
    [] PreviewStatus(o) = "FILLED" -> "FULL"
    [] OTHER -> "PARTIAL"

\* limitOrderMayMatchImmediately.
MayMatchImmediately(o) ==
  \E i \in PreviewRows(o) : Crosses(o, Committed[i]) /\ Committed[i].user # o.user

\* buildBookSide: the open orders of a side by price, the levels told apart by
\* it. Orders of accounts that are not ACTIVE stay in it, although nothing
\* matches them.
BookRows(m, s) ==
  {i \in DOMAIN Committed :
     Committed[i].market = m /\ Committed[i].side = s /\ Rests(Committed[i])}
RestingAt(os, on, p) ==
  SumTo([i \in Nat |-> IF i \in on THEN IF os[i].price = p THEN os[i].remaining ELSE 0 ELSE 0],
        Len(os))
Level(m, s, p) ==
  [price |-> p, amount |-> RestingAt(Committed, BookRows(m, s), p),
   orderCount |-> Cardinality({i \in BookRows(m, s) : Committed[i].price = p})]
BookSide(m, s) == {Level(m, s, Committed[i].price) : i \in BookRows(m, s)}

-----------------------------------------------------------------------------
\* The trades of the placement in progress.
FillsSoFar == [t \in 1..(Len(trades) - Len(saved.trades)) |-> trades[Len(saved.trades) + t]]

SameFill(t, f) ==
  /\ f.maker \in {t.buyOrder, t.sellOrder}
  /\ t.amount = f.amount /\ t.quote = f.quote
  /\ t.buyerFee = f.buyerFee /\ t.sellerFee = f.sellerFee

\* What fills take at price p.
TakenAt(os, fills, p) ==
  SumTo([t \in Nat |-> IF t \in DOMAIN fills
                         THEN IF os[fills[t].maker].price = p THEN fills[t].amount ELSE 0
                         ELSE 0], Len(fills))

\* A preview takes nothing that the order book does not show.
WithinBook(o, fills) ==
  \A t \in DOMAIN fills : \E level \in BookSide(o.market, Opposite(o.side)) :
    /\ level.price = Committed[fills[t].maker].price
    /\ TakenAt(Committed, fills, level.price) <= level.amount

\* What the confirmation dialog shows is what a placement does on the book it
\* was computed from: a market order makes the previewed fills in the previewed
\* order, all of them and no other, and ends with the previewed status; a limit
\* order trades at once exactly when the preview says that it may. The order book
\* beside it has at each price all that the preview takes there.
PreviewForetells ==
  phase = "MATCH" =>
    IF taker.type = "MARKET"
    THEN LET fills == PreviewFills(taker)
         IN  /\ WithinBook(taker, fills)
             /\ Len(FillsSoFar) <= Len(fills)
             /\ \A t \in DOMAIN FillsSoFar : SameFill(FillsSoFar[t], fills[t])
             /\ LoopEnded => /\ Len(FillsSoFar) = Len(fills)
                             /\ (Liquidity(taker) = "FULL") = ~WantsMore(taker)
    ELSE LoopEnded => (taker.filled > 0) = MayMatchImmediately(taker)

=============================================================================
