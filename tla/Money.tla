-------------------------------- MODULE Money --------------------------------
(***************************************************************************)
(* The integer arithmetic of prices, amounts and fees (common/money.ts and *)
(* the private helpers of orders.service.ts and fees.service.ts).          *)
(*                                                                         *)
(* Every price, amount and balance is a natural number of minimal units.   *)
(* A market converts with two powers of ten: sc.quote is 10 to the decimals*)
(* of the quote asset, sc.unit is 10 to the price decimals plus the        *)
(* decimals of the base asset, so that `a' base units at price p are worth *)
(* p * a * sc.quote / sc.unit quote units.  Nothing below needs them to be *)
(* powers of ten, only positive.                                           *)
(***************************************************************************)
EXTENDS Integers

ScaleRec == [quote : Nat \ {0}, unit : Nat \ {0}]

FeeRateDenominator == 10000
MaxFeeRate == 500

Lesser(a, b) == IF a < b THEN a ELSE b

\* The worth of `a' base units at price p, in 1/sc.unit of a quote unit.
Worth(p, a, sc) == p * a * sc.quote

\* calculateQuoteTotalMinimalUnitsRoundedDown.
QuoteFloor(p, a, sc) == IF p <= 0 \/ a <= 0 THEN 0 ELSE Worth(p, a, sc) \div sc.unit

\* calculateQuoteTotalMinimalUnits returns QuoteFloor when this holds, and
\* throws otherwise: the total must be positive and have no remainder.
QuoteIsExact(p, a, sc) ==
  /\ p > 0
  /\ a > 0
  /\ Worth(p, a, sc) >= sc.unit
  /\ Worth(p, a, sc) % sc.unit = 0

\* calculateBaseAmountForQuoteRoundedDown.
BaseForQuote(q, p, sc) ==
  IF q <= 0 \/ p <= 0 THEN 0 ELSE (q * sc.unit) \div (p * sc.quote)

\* calculateMarketBuyFillAmount: what q quote units buy of an ask.
MarketBuyFill(q, p, remaining, sc) == Lesser(BaseForQuote(q, p, sc), remaining)

\* calculateAveragePrice.
AveragePrice(spent, filled, sc) ==
  IF spent <= 0 \/ filled <= 0 THEN 0
  ELSE (spent * sc.unit) \div (filled * sc.quote)

\* calculateFee, in the asset the party receives.
Fee(amount, bps) ==
  IF amount <= 0 \/ bps <= 0 THEN 0 ELSE (amount * bps) \div FeeRateDenominator

=============================================================================
