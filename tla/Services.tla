------------------------------ MODULE Services ------------------------------
(***************************************************************************)
(* Seven services around trading, each an instance of its own module over    *)
(* variables of its own, with the property each of them promises.  They    *)
(* share no table, only the two halves of the trade page share the market  *)
(* that is selected.                                                       *)
(***************************************************************************)
EXTENDS Integers

CONSTANTS
  People, Calls,                              \* EmailVerification, AuditTrail
  MaxTokens, MaxClock,
  Limit, MaxWindow, MaxLate,                  \* AuthRateLimit
  Admin, Assets, DefaultAssets, Markets,      \* Catalog
  DefaultMarkets, Pair, Types,
  Legacy, LegacyFees, SeedCall, Pausable,
  Values, Default, NoOne, MaxAudit,           \* AuditTrail
  Symbols, FirstSymbol, Sides, Inputs,        \* TradeForm
  NoInput, NoneYet, MaxReviews, MaxEstimates,
  Intervals, FirstInterval, Blank,            \* TradeView
  MaxLoads, MaxActing,
  Placements, Prices, Amounts, Interval, Day, \* MarketData
  NoTrade, LastTime, MaxTrades

\* A window and its limit are counted.
ASSUME LimitsAssumption == Limit \in Nat /\ MaxWindow \in Nat

\* The seed is one of the calls, and the old account does not owe.
ASSUME TablesAssumption == SeedCall \in Calls /\ LegacyFees \in Nat

\* A row that is locked is locked by a call.
ASSUME TrailAssumption == NoOne \notin Calls

\* The page starts with a market it offers, and there is a side to trade on.
ASSUME FormAssumption == FirstSymbol \in Symbols /\ Sides # {}

VARIABLES
  clock, verified, tokens, mailed, call,      \* EmailVerification
  window, row, counting, admitted, late,      \* AuthRateLimit
  users, assets, wallets, markets, priced,    \* Catalog
  legacy, fee, task, cut,
  stored, holder, change, audit, events,      \* AuditTrail
  symbol, form, estimate, estimating, timer,  \* TradeForm
  asking, reviews, waiting, pending,
  submitting, sent, orders,
  interval, polls, shown, chart,              \* TradeView
  chartLoading, chartError, loads, acting,
  time, began, trades, ticker, quiet          \* MarketData

Mails == INSTANCE EmailVerification WITH Users <- People
Limits == INSTANCE AuthRateLimit
Tables == INSTANCE Catalog WITH call <- task
Trail == INSTANCE AuditTrail
Form == INSTANCE TradeForm
View == INSTANCE TradeView
Market == INSTANCE MarketData WITH None <- NoTrade

\* Prices and amounts are counted in minimal units, candles have a length, and no
\* trade is not one.
ASSUME DataAssumption ==
  /\ Prices \subseteq Nat /\ Amounts \subseteq Nat
  /\ Interval \in Nat \ {0} /\ Day \in Int /\ LastTime \in Nat /\ MaxTrades \in Nat
  /\ NoTrade \notin Market!Trades /\ NoTrade \notin Prices

mail == <<clock, verified, tokens, mailed, call>>
limit == <<window, row, counting, admitted, late>>
tables == <<users, assets, wallets, markets, priced, legacy, fee, task, cut>>
trail == <<stored, holder, change, audit, events>>
formOnly == <<form, estimate, estimating, timer, asking, reviews, waiting, pending,
              submitting, sent, orders>>
viewOnly == <<interval, polls, shown, chart, chartLoading, chartError, loads, acting>>
page == <<symbol, formOnly, viewOnly>>
prints == <<time, began, trades, ticker, quiet>>

-----------------------------------------------------------------------------
\* Confirmations that overlap keep the time of the first (EmailVerification).
FirstVerificationStays == Mails!FirstVerificationStays
\* A window admits its limit, plus one limit for each late count (AuthRateLimit).
AdmittedPerWindow == Limits!AdmittedPerWindow
\* A listing shows every wallet that is due (Catalog).
ListingsComplete == Tables!ListingsComplete
\* The fees of the old system account are moved once (Catalog).
LegacyMovedOnce == Tables!LegacyMovedOnce
\* The audit logs of a row chain, up to what is stored (AuditTrail).
AuditExplains == Trail!AuditExplains
\* A review of an order leads to one order at most (TradeForm).
OneOrderPerReview == Form!OneOrderPerReview
\* An estimate that stays is the one of the fields and the market (TradeForm).
EstimateSettles == Form!EstimateSettles
\* What was selected before comes back to the page by what is under way only (TradeView).
NoStrangerReturns == View!NoStrangerReturns
\* No commit changes a candle that has settled (MarketData).
CandlesSettle == Market!CandlesSettle
\* Ticker and candles computed from the same trades agree (MarketData).
TickerAgreesWithChart == Market!TickerAgreesWithChart

=============================================================================
