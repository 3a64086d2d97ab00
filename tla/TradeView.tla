------------------------------ MODULE TradeView ------------------------------
(***************************************************************************)
(* What the trade page shows of a market (apps/web/app/trade/page.tsx): two*)
(* effects load its tables and its candles and poll both, a choice in the  *)
(* market selector clears the page, and a cancellation or an order loads   *)
(* them again with the market of the render it was started in.             *)
(*                                                                         *)
(* A load is silent when a timer sends it.  Of the tables that decides a   *)
(* notice only, which is left out; of the candles it decides whether the   *)
(* answer ends the chart's loading state or its error.                     *)
(***************************************************************************)
EXTENDS Naturals, FiniteSets

CONSTANTS
  Symbols,
  Intervals,    \* candle intervals
  FirstSymbol, FirstInterval,
  Blank,
  MaxLoads,     \* bound on the loads under way at once
  MaxActing     \* bound on the cancellations and orders under way at once

VARIABLES
  symbol,       \* selectedMarketSymbol
  interval,     \* candleInterval
  polls,        \* what the two interval timers load
  shown,        \* the market the ticker, book, trades and orders are of
  chart,        \* the market and interval the candles are of
  chartLoading, \* isCandlesLoading
  chartError,   \* candleError is set
  loads,        \* loads under way
  acting        \* cancellations and orders under way, with what was selected for them

viewVars == <<symbol, interval, polls, shown, chart, chartLoading, chartError, loads, acting>>

Table(s) == [panel |-> "TABLES", market |-> s, interval |-> Blank, silent |-> TRUE]
Candles(s, i, q) == [panel |-> "CANDLES", market |-> s, interval |-> i, silent |-> q]
Timers(s, i) == {Table(s), Candles(s, i, TRUE)}
Reload(s, i) == {Table(s), Candles(s, i, FALSE)}

\* A load that leaves while the same one is under way changes nothing more: the
\* answers are alike.
Begin(ls) == loads' = loads \union ls /\ Cardinality(loads') <= MaxLoads

\* A market named in the page's address is selected after the effects have run for
\* the first one, which is ChangeMarket on the page as it begins; so is the effect
\* that selects the default when the summaries do not list the selected market.
Init ==
  /\ symbol = FirstSymbol /\ interval = FirstInterval
  /\ polls = Timers(symbol, interval) /\ loads = Reload(symbol, interval)
  /\ shown = Blank /\ chart = Blank /\ chartLoading = TRUE /\ chartError = FALSE
  /\ acting = {}

\* The timers of an effect when its market or interval changes: the clean-up of
\* the former run clears its own.
Polls_Added(former, ls) == former \union ls
Polls(former, ls) == ls

\* handleMarketChange clears the page, whatever entry of the selector was chosen.
\* The two effects follow, with a first load of each, only if the market is another.
ChangeMarket ==
  /\ \E s \in Symbols :
       /\ symbol' = s
       /\ IF s = symbol
          THEN UNCHANGED <<polls, loads>>
          ELSE polls' = Polls(polls, Timers(s, interval)) /\ Begin(Reload(s, interval))
  /\ shown' = Blank /\ chart' = Blank /\ chartLoading' = TRUE /\ chartError' = FALSE
  /\ UNCHANGED <<interval, acting>>

\* Another interval of the chart: only the candles' effect runs again.
ChangeInterval ==
  /\ \E i \in Intervals \ {interval} :
       /\ interval' = i
       /\ polls' = Polls(polls, Timers(symbol, i))
       /\ Begin({Candles(symbol, i, FALSE)})
  /\ chart' = Blank /\ chartLoading' = TRUE /\ chartError' = FALSE
  /\ UNCHANGED <<symbol, shown, acting>>

Poll(l) ==
  /\ l \in polls /\ Begin({l})
  /\ UNCHANGED <<symbol, interval, polls, shown, chart, chartLoading, chartError, acting>>

\* The answer of a load is shown, whatever the page is on by then.
Loaded(l) ==
  /\ l \in loads /\ loads' = loads \ {l}
  /\ IF l.panel = "TABLES"
     THEN shown' = l.market /\ UNCHANGED <<chart, chartLoading, chartError>>
     ELSE /\ chart' = <<l.market, l.interval>> /\ UNCHANGED shown
          /\ chartLoading' = (chartLoading /\ l.silent)
          /\ chartError' = (chartError /\ l.silent)
  /\ UNCHANGED <<symbol, interval, polls, acting>>

\* A load is refused, or gives up after its time: only a load of the candles that
\* was not silent says so.
LoadFails(l) ==
  /\ l \in loads /\ loads' = loads \ {l}
  /\ chartLoading' = (chartLoading /\ l.silent)
  /\ chartError' = (chartError \/ ~l.silent)
  /\ UNCHANGED <<symbol, interval, polls, shown, chart, acting>>

\* cancelOrder, cancelOpenOrders or confirmOrder begins, in a render of this market
\* and interval.
Action(s, i) == [market |-> s, interval |-> i]

Act ==
  /\ acting' = acting \union {Action(symbol, interval)} /\ Cardinality(acting') <= MaxActing
  /\ UNCHANGED <<symbol, interval, polls, shown, chart, chartLoading, chartError, loads>>

\* It succeeds and loads again what its render was of; so does a bulk cancellation
\* of which some have failed.
ActAndReload(a) ==
  /\ a \in acting /\ acting' = acting \ {a}
  /\ Begin(Reload(a.market, a.interval)) /\ chartLoading' = TRUE
  /\ UNCHANGED <<symbol, interval, polls, shown, chart, chartError>>

\* A single one fails: nothing is loaded.
ActFails(a) ==
  /\ a \in acting /\ acting' = acting \ {a}
  /\ UNCHANGED <<symbol, interval, polls, shown, chart, chartLoading, chartError, loads>>

Next ==
  \/ ChangeMarket \/ ChangeInterval \/ Act
  \/ \E l \in polls : Poll(l)
  \/ \E l \in loads : Loaded(l) \/ LoadFails(l)
  \/ \E a \in acting : ActAndReload(a) \/ ActFails(a)

Spec == Init /\ [][Next]_viewVars

-----------------------------------------------------------------------------
LoadsOf(s, i) == Timers(s, i) \union Reload(s, i)

\* Loads that were begun for another market, or another interval.
Strangers == loads \ LoadsOf(symbol, interval)

\* Nothing of another market or interval is on the page.
OwnOnly == shown \in {symbol, Blank} /\ chart \in {<<symbol, interval>>, Blank}

\* While the selection stays, even if the selected market is chosen again, nothing else
\* is asked for, except by the end of an action begun before the selection; and nothing
\* else comes on the page, except by the answer to a load begun before it.
NoStrangerReturns ==
  [][symbol' = symbol /\ interval' = interval
       => /\ Strangers' \ Strangers
               \subseteq UNION {Reload(a.market, a.interval) : a \in acting \ acting'}
          /\ OwnOnly /\ ~OwnOnly' => (loads \ loads') \intersect Strangers # {}]_viewVars

=============================================================================
