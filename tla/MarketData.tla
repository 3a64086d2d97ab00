------------------------------ MODULE MarketData ------------------------------
(***************************************************************************)
(* Ticker and candles of one market, computed on demand from its trades    *)
(* (markets.service.ts).  A trade carries the time its transaction began   *)
(* and a random id, and is seen when the transaction commits: a long       *)
(* placement adds trades to the past.  A ticker is five queries, each of   *)
(* which sees what is committed when it runs; its best bid and ask are the *)
(* best levels of Preview's BookSide.                                      *)
(***************************************************************************)
EXTENDS Sums, FiniteSetsExt

CONSTANTS
  Placements,  \* placements that may be in progress
  Prices, Amounts,
  Interval,    \* length of a candle
  Day,         \* length of the window of a ticker: 24 hours
  None,        \* no trade
  LastTime,    \* bound: the clock
  MaxTrades    \* bound: trades, and the ids they may get

VARIABLES
  time,    \* the clock
  began,   \* when a placement began, None when it has ended
  trades,  \* trades rows of the market, all of them SETTLED
  ticker,  \* the ticker being computed, or computed last
  quiet    \* history: nothing was committed while it was

data == <<time, began, trades, ticker, quiet>>

Ids == 1..MaxTrades
Trades == [at : 0..LastTime, id : Ids, price : Prices, amount : Amounts]

\* ORDER BY created_at, id: the first row and the last.
Earlier(s, t) == s.at < t.at \/ (s.at = t.at /\ s.id < t.id)
First(ts) == CHOOSE t \in ts : \A s \in ts \ {t} : Earlier(t, s)
Last(ts) == CHOOSE t \in ts : \A s \in ts \ {t} : Earlier(s, t)

\* ORDER BY created_at DESC, id DESC LIMIT 1.
Newest_AnyOfLatest(ts) ==
  IF ts = {} THEN None
  ELSE CHOOSE t \in ts : \A s \in ts \ {t} : s.at < t.at \/ (s.at = t.at /\ s.id > t.id)
Newest(ts) == IF ts = {} THEN None ELSE Last(ts)

Volume(ts) ==
  SumTo([i \in Nat |-> IF \E t \in ts : t.id = i THEN (CHOOSE t \in ts : t.id = i).amount
                       ELSE 0], MaxTrades)

-----------------------------------------------------------------------------
\* getCandles: all there are, by their starts. The code answers the last of them.

Start_Inclusive(t) == ((t.at - 1) \div Interval) * Interval
Start(t) == (t.at \div Interval) * Interval

\* A new candle of its first trade, and a candle with one more trade.
Candle(t) == [open |-> t.price, high |-> t.price, low |-> t.price,
              close |-> t.price, volume |-> t.amount, count |-> 1]
Extended(c, t) == [c EXCEPT !.high = IF t.price > @ THEN t.price ELSE @,
                            !.low = IF t.price < @ THEN t.price ELSE @,
                            !.close = t.price, !.volume = @ + t.amount, !.count = @ + 1]

Added(cs, t) ==
  [s \in DOMAIN cs \cup {Start(t)} |->
     IF s # Start(t) THEN cs[s] ELSE IF s \in DOMAIN cs THEN Extended(cs[s], t) ELSE Candle(t)]
\* The rows are gone through in their order, the last of them last.
Drawn(ts) ==
  LET c[u \in SUBSET ts] == IF u = {} THEN <<>> ELSE Added(c[u \ {Last(u)}], Last(u)) IN c
Candles(ts) == Drawn(ts)[ts]
CandleAt(ts, s) == IF s \in DOMAIN Candles(ts) THEN Candles(ts)[s] ELSE None

-----------------------------------------------------------------------------
\* getTicker.

Queries == {"last", "window", "reference", "total"}
Selected(q, from) ==
  CASE q = "last" -> {Newest(trades)}
    [] q = "window" -> {t \in trades : t.at >= from}
    [] q = "reference" -> {Newest({t \in trades : t.at <= from})}
    [] q = "total" -> trades

\* What is answered when all the queries are back: k[q] is the result of q.
LastOf(k) == CHOOSE t \in k["last"] : TRUE
ReferencePrice(k) ==
  LET before == CHOOSE t \in k["reference"] : TRUE
  IN  IF before # None THEN before.price
      ELSE IF k["window"] = {} THEN None ELSE First(k["window"]).price
Answer(k) ==
  LET prices == {t.price : t \in k["window"]}
  IN  [last |-> IF LastOf(k) = None THEN None ELSE LastOf(k).price,
       high |-> IF prices = {} THEN None ELSE Max(prices),
       low |-> IF prices = {} THEN None ELSE Min(prices),
       volume |-> Volume(k["window"]),
       count |-> Cardinality(k["window"]),
       change |-> IF LastOf(k) = None \/ ReferencePrice(k) = None THEN None
                  ELSE LastOf(k).price - ReferencePrice(k),
       total |-> Cardinality(k["total"])]

NoTicker == [from |-> None, got |-> <<>>]
Open(tk) == tk.from # None /\ DOMAIN tk.got # Queries

\* Bound: one ticker.
Ask ==
  /\ ticker = NoTicker
  /\ ticker' = [from |-> time - Day, got |-> <<>>]
  /\ quiet' = TRUE
  /\ UNCHANGED <<time, began, trades>>

Query(q) ==
  /\ Open(ticker) /\ q \notin DOMAIN ticker.got
  /\ ticker' = [ticker EXCEPT !.got =
       [p \in DOMAIN @ \cup {q} |-> IF p = q THEN Selected(q, ticker.from) ELSE @[p]]]
  /\ UNCHANGED <<time, began, trades, quiet>>

-----------------------------------------------------------------------------
Begin(p) ==
  /\ began[p] = None
  /\ began' = [began EXCEPT ![p] = time]
  /\ UNCHANGED <<time, trades, ticker, quiet>>

\* A placement commits the trades new, which createTradeRecord has stamped.
Commit(p, new) ==
  /\ began[p] # None
  /\ trades' = trades \cup new
  /\ began' = [began EXCEPT ![p] = None]
  /\ quiet' = (quiet /\ new = {})
  /\ UNCHANGED <<time, ticker>>

\* The fills of a placement that began at t: free ids, any prices.
FillSets(t) ==
  LET free == Ids \ {s.id : s \in trades}
      fills == {[at |-> t, id |-> i, price |-> x, amount |-> n] :
                  i \in free, x \in Prices, n \in Amounts}
  IN  {{}} \cup {{s} : s \in fills} \cup
      {f \in {{r, s} : r \in fills, s \in fills} : Cardinality({s.id : s \in f}) = 2}

Tick ==
  /\ time < LastTime
  /\ time' = time + 1
  /\ UNCHANGED <<began, trades, ticker, quiet>>

Init ==
  /\ time = 0 /\ trades = {} /\ ticker = NoTicker /\ quiet = TRUE
  /\ began = [p \in Placements |-> None]

Next ==
  \/ Ask \/ Tick
  \/ \E q \in Queries : Query(q)
  \/ \E p \in Placements : Begin(p) \/ \E new \in FillSets(began[p]) : Commit(p, new)

Spec == Init /\ [][Next]_data

-----------------------------------------------------------------------------
\* A candle settles: once its interval has passed and every placement that began
\* in it has ended, no later commit changes it.
Settled(s) ==
  /\ time >= s + Interval
  /\ \A p \in Placements : began[p] # None => began[p] \notin s..(s + Interval - 1)
CandlesSettle ==
  [][\A k \in 0..(LastTime \div Interval) :
       Settled(k * Interval) => CandleAt(trades', k * Interval) = CandleAt(trades, k * Interval)]_data

\* The candles in S taken together.
VolumeOf(cs, S) ==
  SumTo([k \in Nat |-> IF (k - 1) * Interval \in S THEN cs[(k - 1) * Interval].volume ELSE 0],
        LastTime + 1)
CountOf(cs, S) ==
  SumTo([k \in Nat |-> IF (k - 1) * Interval \in S THEN cs[(k - 1) * Interval].count ELSE 0],
        LastTime + 1)

\* The ticker and the chart tell the same story when nothing was committed while
\* the ticker was asked for: the last price is the close of the newest candle,
\* and over a window that starts with a candle the high, the low, the volume and
\* the number of trades are those of the candles in it, and the change is from
\* the open of the first of them or from the close of the one before.
TickerAgreesWithChart ==
  LET got == Answer(ticker.got)
      cs == Candles(trades)
      starts == DOMAIN cs
      inside == {s \in starts : s >= ticker.from}
      before == {s \in starts : s < ticker.from}
      onTime == \E t \in trades : t.at = ticker.from
  IN  ticker.from # None /\ ~Open(ticker) /\ quiet /\ trades # {} =>
        /\ got.last = cs[Max(starts)].close
        /\ got.total = CountOf(cs, starts)
        /\ ticker.from % Interval = 0 =>
             /\ got.count = CountOf(cs, inside)
             /\ got.volume = VolumeOf(cs, inside)
             /\ inside # {} => /\ got.high = Max({cs[s].high : s \in inside})
                               /\ got.low = Min({cs[s].low : s \in inside})
             /\ ~onTime => got.change = cs[Max(starts)].close -
                  (IF before = {} THEN cs[Min(starts)].open ELSE cs[Max(before)].close)
=============================================================================
