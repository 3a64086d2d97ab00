----------------------------- MODULE MoneyProofs -----------------------------
(***************************************************************************)
(* What the roundings of Money promise for every price, amount, rate and   *)
(* scale, and what SumTo computes for every number of rows.  Induction is  *)
(* done with sets: the counterexamples to a statement form a set of        *)
(* naturals, and such a set has a least element (LeastElement), which is   *)
(* no counterexample.                                                      *)
(***************************************************************************)
EXTENDS Money, Sums, TLAPS, WellFoundedInduction

\* Integer division in terms of quotient and remainder.
LEMMA Division ==
  ASSUME NEW n \in Nat, NEW d \in Nat \ {0}
  PROVE  /\ n \div d \in Nat
         /\ (n \div d) * d \in Nat
         /\ n % d \in 0..(d - 1)
         /\ n = (n \div d) * d + (n % d)
         /\ (n \div d) * d <= n
         /\ n < (n \div d) * d + d
<1>1. /\ n \div d \in Nat
      /\ n % d \in 0..(d - 1)
      /\ n = (n \div d) * d + (n % d)
  BY SMT
<1>2. (n \div d) * d \in Nat
  BY <1>1, SMT
<1> QED BY <1>1, <1>2, SMT

\* A product of naturals is monotone in each factor.
LEMMA Monotone ==
  ASSUME NEW a \in Nat, NEW b \in Nat, NEW c \in Nat, a <= b
  PROVE  a * c <= b * c
  BY SMT

LEMMA ProductNat ==
  ASSUME NEW a \in Nat, NEW b \in Nat
  PROVE  a * b \in Nat
  BY SMT

\* A quotient is bounded by a multiple: used with f, the factor left out.
LEMMA QuotientBound ==
  ASSUME NEW n \in Nat, NEW d \in Nat \ {0}, NEW k \in Nat, n <= k * d
  PROVE  n \div d <= k
<1>1. (n \div d) * d <= k * d
  BY Division, SMT
<1>2. ASSUME n \div d >= k + 1 PROVE FALSE
  <2>0. n \div d \in Nat
    BY Division
  <2>1. (k + 1) * d <= (n \div d) * d
    BY <1>2, <2>0, Monotone
  <2>2. (k + 1) * d = k * d + d
    BY SMT
  <2> QED BY <1>1, <2>1, <2>2, Division, ProductNat, SMT
<1> QED BY <1>2, Division

\* calculateFee never takes more than the amount it is charged on.
THEOREM FeeWithinAmount ==
  ASSUME NEW amount \in Nat, NEW bps \in 0..MaxFeeRate
  PROVE  Fee(amount, bps) \in 0..amount
<1>1. amount * bps \in Nat
  BY ProductNat DEF MaxFeeRate
<1>2. amount * bps <= amount * FeeRateDenominator
  BY SMT DEF MaxFeeRate, FeeRateDenominator
<1>3. (amount * bps) \div FeeRateDenominator \in Nat
  <2>1. FeeRateDenominator \in Nat \ {0}
    BY DEF FeeRateDenominator
  <2> QED BY <1>1, <2>1, Division
<1>4. (amount * bps) \div FeeRateDenominator <= amount
  BY <1>1, <1>2, QuotientBound DEF FeeRateDenominator
<1> QED BY <1>3, <1>4 DEF Fee

LEMMA WorthNat ==
  ASSUME NEW p \in Nat, NEW a \in Nat, NEW sc \in ScaleRec
  PROVE  Worth(p, a, sc) \in Nat
  BY ProductNat DEF Worth, ScaleRec

\* What is left of an amount is worth what is left of its worth.
LEMMA WorthSplit ==
  ASSUME NEW p \in Nat, NEW a \in Nat, NEW b \in Nat, NEW sc \in ScaleRec, b <= a
  PROVE  /\ Worth(p, a - b, sc) \in Nat
         /\ Worth(p, a, sc) = Worth(p, b, sc) + Worth(p, a - b, sc)
<1>1. a - b \in Nat
  BY SMT
<1>2. p * a = p * b + p * (a - b)
  BY SMT
<1>3. p * b \in Nat /\ p * (a - b) \in Nat /\ sc.quote \in Nat
  BY <1>1, ProductNat DEF ScaleRec
<1>4. \A x, y, z \in Nat : (x + y) * z = x * z + y * z
  BY SMT
<1> QED BY <1>1, <1>2, <1>3, <1>4, WorthNat DEF Worth

LEMMA WorthRest ==
  ASSUME NEW p \in Nat, NEW a \in Nat, NEW b \in 0..a, NEW sc \in ScaleRec
  PROVE  /\ Worth(p, a - b, sc) \in Nat
         /\ Worth(p, a, sc) = Worth(p, b, sc) + Worth(p, a - b, sc)
<1>1. b \in Nat /\ b <= a
  BY SMT
<1> QED BY <1>1, WorthSplit

\* A higher price is worth no less.
LEMMA WorthMonotone ==
  ASSUME NEW p \in Nat, NEW q \in Nat, NEW a \in Nat, NEW sc \in ScaleRec, p <= q
  PROVE  Worth(p, a, sc) <= Worth(q, a, sc)
<1>1. p * a \in Nat /\ q * a \in Nat /\ p * a <= q * a
  BY Monotone, ProductNat
<1> QED BY <1>1, Monotone DEF Worth, ScaleRec

\* Rounding down: the quote of a fill, in full units, is worth no more than
\* the fill, and less than one unit is lost.
LEMMA QuoteFloorBounds ==
  ASSUME NEW p \in Nat, NEW a \in Nat, NEW sc \in ScaleRec
  PROVE  /\ QuoteFloor(p, a, sc) \in Nat
         /\ QuoteFloor(p, a, sc) * sc.unit <= Worth(p, a, sc)
         /\ Worth(p, a, sc) < QuoteFloor(p, a, sc) * sc.unit + sc.unit
<1> DEFINE w == Worth(p, a, sc)
<1>1. w \in Nat /\ sc.unit \in Nat \ {0}
  BY WorthNat DEF ScaleRec
<1>2. CASE p = 0 \/ a = 0
  <2>1. p * a = 0
    BY <1>2, SMT
  <2>2. w = 0
    BY <2>1, SMT DEF Worth, ScaleRec
  <2> QED BY <1>1, <1>2, <2>2, SMT DEF QuoteFloor
<1>3. CASE p # 0 /\ a # 0
  <2>1. QuoteFloor(p, a, sc) = w \div sc.unit
    BY <1>3 DEF QuoteFloor
  <2> HIDE DEF w
  <2>2. /\ w \div sc.unit \in Nat
        /\ (w \div sc.unit) * sc.unit <= w
        /\ w < (w \div sc.unit) * sc.unit + sc.unit
    BY <1>1, Division
  <2> QED BY <2>1, <2>2 DEF w
<1> QED BY <1>2, <1>3

\* calculateQuoteTotalMinimalUnits, when it does not throw, loses nothing.
LEMMA QuoteExact ==
  ASSUME NEW p \in Nat, NEW a \in Nat, NEW sc \in ScaleRec, QuoteIsExact(p, a, sc)
  PROVE  /\ QuoteFloor(p, a, sc) * sc.unit = Worth(p, a, sc)
         /\ QuoteFloor(p, a, sc) > 0
<1> DEFINE w == Worth(p, a, sc)
<1>1. w \in Nat /\ sc.unit \in Nat \ {0}
  BY WorthNat DEF ScaleRec
<1>2. w % sc.unit = 0 /\ w >= sc.unit /\ QuoteFloor(p, a, sc) = w \div sc.unit
  BY DEF QuoteIsExact, QuoteFloor
<1> HIDE DEF w
<1>3. w \div sc.unit \in Nat /\ w = (w \div sc.unit) * sc.unit
  <2>1. /\ w \div sc.unit \in Nat
        /\ (w \div sc.unit) * sc.unit \in Nat
        /\ w = (w \div sc.unit) * sc.unit + (w % sc.unit)
    BY <1>1, Division
  <2> QED BY <1>2, <2>1, SMT
<1>4. w \div sc.unit # 0
  <2>1. 0 * sc.unit = 0
    BY <1>1, SMT
  <2> QED BY <1>1, <1>2, <1>3, <2>1
<1> QED BY <1>2, <1>3, <1>4 DEF w

\* A market buy is offered no more than the ask has, and the quote it pays is
\* within what it has left to spend, although both conversions round.
THEOREM MarketBuyWithinSpend ==
  ASSUME NEW q \in Nat, NEW p \in Nat, NEW r \in Nat, NEW sc \in ScaleRec
  PROVE  /\ MarketBuyFill(q, p, r, sc) \in 0..r
         /\ QuoteFloor(p, MarketBuyFill(q, p, r, sc), sc) <= q
<1> DEFINE b == BaseForQuote(q, p, sc)
           f == MarketBuyFill(q, p, r, sc)
<1>1. sc.unit \in Nat \ {0} /\ sc.quote \in Nat \ {0}
  BY DEF ScaleRec
<1>2. CASE q = 0 \/ p = 0
  <2>1. b = 0 /\ f = 0
    BY <1>2 DEF BaseForQuote, MarketBuyFill, Lesser
  <2>2. QuoteFloor(p, f, sc) = 0
    BY <2>1 DEF QuoteFloor
  <2> QED BY <2>1, <2>2
<1>3. CASE q # 0 /\ p # 0
  <2>1. p * sc.quote \in Nat \ {0} /\ q * sc.unit \in Nat
    BY <1>1, <1>3, SMT
  <2>2. b = (q * sc.unit) \div (p * sc.quote)
    BY <1>3 DEF BaseForQuote
  <2>3. b \in Nat /\ b * (p * sc.quote) <= q * sc.unit
    <3> DEFINE n == q * sc.unit
               d == p * sc.quote
    <3>1. n \in Nat /\ d \in Nat \ {0}
      BY <2>1
    <3> HIDE DEF n, d
    <3>2. n \div d \in Nat /\ (n \div d) * d <= n
      BY <3>1, Division
    <3> QED BY <2>2, <3>2 DEF n, d
  <2> HIDE DEF b
  <2>4. f \in Nat /\ f <= b /\ f <= r
    BY <2>3 DEF b, MarketBuyFill, Lesser
  <2> HIDE DEF f
  <2>5. Worth(p, f, sc) <= q * sc.unit
    <3>1. f * (p * sc.quote) <= b * (p * sc.quote)
      BY <2>1, <2>3, <2>4, Monotone
    <3>2. Worth(p, f, sc) = f * (p * sc.quote)
      BY <1>1, <2>4, SMT DEF Worth
    <3>3. f * (p * sc.quote) \in Nat /\ b * (p * sc.quote) \in Nat
      BY <2>1, <2>3, <2>4, ProductNat
    <3> QED BY <2>1, <2>3, <3>1, <3>2, <3>3
  <2>6. QuoteFloor(p, f, sc) <= q
    <3>1. Worth(p, f, sc) \in Nat
      BY <2>4, WorthNat
    <3>2. Worth(p, f, sc) \div sc.unit <= q
      BY <1>1, <2>5, <3>1, QuotientBound
    <3> QED BY <3>2 DEF QuoteFloor
  <2> QED BY <2>4, <2>6 DEF f
<1> QED BY <1>2, <1>3

-----------------------------------------------------------------------------
\* Sums

Below == {p \in Nat \X Nat : p[1] < p[2]}

\* Every nonempty set of naturals has a least element.
LEMMA LeastElement ==
  ASSUME NEW T \in SUBSET Nat, T # {}
  PROVE  \E m \in T : \A k \in T : m <= k
<1>1. IsWellFoundedOn(Below, Nat)
  BY NatLessThanWellFounded DEF OpToRel, Below
<1>2. PICK m \in T : \A k \in T : ~ (<<k, m>> \in Below)
  BY <1>1, WFMin, Zenon
<1>3. \A k \in T : <<k, m>> \in Below <=> k < m
  BY DEF Below
<1>4. \A k \in T : ~ (k < m)
  BY <1>2, <1>3, Zenon
<1>5. \A k \in T : m <= k
  BY <1>4
<1> QED BY <1>5, Zenon

\* Induction, for a set given as a value: a set that holds 0 and the
\* successor of each of its naturals holds every natural.
LEMMA SetInduction ==
  ASSUME NEW S, 0 \in S, \A n \in Nat : n \in S => n + 1 \in S
  PROVE  \A n \in Nat : n \in S
<1> DEFINE T == {n \in Nat : n \notin S}
<1>1. SUFFICES ASSUME T # {} PROVE FALSE
  OBVIOUS
<1>2. PICK m \in T : \A k \in T : m <= k
  BY <1>1, LeastElement
<1>3. m \in Nat /\ m \notin S /\ m # 0
  BY <1>2
<1>4. m - 1 \in Nat /\ m - 1 \notin T
  BY <1>2, <1>3
<1>5. m - 1 \in S /\ (m - 1) + 1 = m
  BY <1>3, <1>4
<1> QED BY <1>3, <1>4, <1>5

\* f is the sequence of the first n partial sums of w.
Partial(f, w, n) ==
  /\ f \in [0..n -> Int]
  /\ f[0] = 0
  /\ \A i \in 1..n : f[i] = f[i - 1] + w[i]

IsRunning(f, w) == f = [i \in Nat |-> IF i = 0 THEN 0 ELSE f[i - 1] + w[i]]

LEMMA PartialExists ==
  ASSUME NEW w, \A i \in Nat : w[i] \in Int
  PROVE  \A n \in Nat : \E f : Partial(f, w, n)
<1> DEFINE S == {n \in Nat : \E f : Partial(f, w, n)}
<1>1. 0 \in S
  <2>1. Partial([i \in 0..0 |-> 0], w, 0)
    BY DEF Partial
  <2> QED BY <2>1
<1>2. ASSUME NEW n \in Nat, n \in S PROVE n + 1 \in S
  <2>1. PICK f : Partial(f, w, n)
    BY <1>2
  <2> DEFINE g == [i \in 0..(n + 1) |-> IF i = n + 1 THEN f[n] + w[n + 1] ELSE f[i]]
  <2>2. Partial(g, w, n + 1)
    BY <2>1 DEF Partial
  <2> QED BY <2>2
<1>3. \A n \in Nat : n \in S
  <2> HIDE DEF S
  <2> QED BY <1>1, <1>2, SetInduction
<1> QED BY <1>3

\* Two sequences of partial sums of the same weights agree where both are
\* defined.
LEMMA PartialUnique ==
  ASSUME NEW w, NEW f, NEW g, NEW n \in Nat, NEW m \in Nat,
         Partial(f, w, n), Partial(g, w, m)
  PROVE  \A i \in Nat : i <= n /\ i <= m => f[i] = g[i]
<1> DEFINE S == {i \in Nat : i <= n /\ i <= m => f[i] = g[i]}
<1>1. 0 \in S
  BY DEF Partial
<1>2. ASSUME NEW i \in Nat, i \in S PROVE i + 1 \in S
  <2>1. CASE i + 1 <= n /\ i + 1 <= m
    <3>1. f[i] = g[i]
      BY <1>2, <2>1
    <3>2. f[i + 1] = f[i] + w[i + 1] /\ g[i + 1] = g[i] + w[i + 1]
      BY <2>1 DEF Partial
    <3> QED BY <3>1, <3>2
  <2>2. CASE ~ (i + 1 <= n /\ i + 1 <= m)
    BY <2>2
  <2> QED BY <2>1, <2>2
<1>3. \A i \in Nat : i \in S
  <2> HIDE DEF S
  <2> QED BY <1>1, <1>2, SetInduction
<1> QED BY <1>3

\* The recursive function of Sums exists: it takes at n the value of any
\* sequence of n partial sums.
LEMMA RunningExists ==
  ASSUME NEW w, \A i \in Nat : w[i] \in Int
  PROVE  \E f : IsRunning(f, w) /\ f \in [Nat -> Int]
<1> DEFINE P(n) == CHOOSE g : Partial(g, w, n)
           f == [n \in Nat |-> P(n)[n]]
<1>1. \A n \in Nat : Partial(P(n), w, n)
  BY PartialExists
<1> HIDE DEF P
<1>2. f \in [Nat -> Int]
  BY <1>1 DEF Partial
<1>3. f[0] = 0
  BY <1>1 DEF Partial
<1>4. ASSUME NEW i \in Nat, i # 0
      PROVE  f[i] = f[i - 1] + w[i]
  <2>1. i - 1 \in Nat
    BY <1>4
  <2>2. Partial(P(i), w, i) /\ Partial(P(i - 1), w, i - 1)
    BY <1>1, <2>1
  <2>3. P(i)[i - 1] = P(i - 1)[i - 1]
    BY <2>1, <2>2, PartialUnique
  <2>4. P(i)[i] = P(i)[i - 1] + w[i]
    BY <1>4, <2>2 DEF Partial
  <2> QED BY <2>1, <2>3, <2>4
<1>5. f = [i \in Nat |-> IF i = 0 THEN 0 ELSE f[i - 1] + w[i]]
  BY <1>2, <1>3, <1>4
<1> HIDE DEF f
<1> QED BY <1>2, <1>5 DEF IsRunning

LEMMA RunningDef ==
  ASSUME NEW w, \A i \in Nat : w[i] \in Int
  PROVE  IsRunning(Running(w), w)
<1>1. Running(w) = CHOOSE f : IsRunning(f, w)
  BY DEF Running, IsRunning
<1>2. \E f : IsRunning(f, w)
  BY RunningExists
<1> QED BY <1>1, <1>2

\* The equations SumTo is used through.
LEMMA SumToDef ==
  ASSUME NEW w, \A i \in Nat : w[i] \in Int
  PROVE  /\ SumTo(w, 0) = 0
         /\ \A n \in Nat : SumTo(w, n + 1) = SumTo(w, n) + w[n + 1]
<1> DEFINE f == Running(w)
<1>1. f = [i \in Nat |-> IF i = 0 THEN 0 ELSE f[i - 1] + w[i]]
  BY RunningDef DEF IsRunning
<1> HIDE DEF f
<1>2. f[0] = 0 /\ \A n \in Nat : f[n + 1] = f[n] + w[n + 1]
  <2>1. f[0] = 0
    BY <1>1
  <2>2. ASSUME NEW n \in Nat PROVE f[n + 1] = f[n] + w[n + 1]
    <3>1. n + 1 \in Nat /\ n + 1 # 0 /\ (n + 1) - 1 = n
      OBVIOUS
    <3> QED BY <1>1, <3>1
  <2> QED BY <2>1, <2>2
<1> QED BY <1>2 DEF SumTo, f

LEMMA SumToInt ==
  ASSUME NEW w, \A i \in Nat : w[i] \in Int
  PROVE  \A n \in Nat : SumTo(w, n) \in Int
<1> DEFINE S == {n \in Nat : SumTo(w, n) \in Int}
<1>1. 0 \in S
  BY SumToDef
<1>2. ASSUME NEW n \in Nat, n \in S PROVE n + 1 \in S
  BY <1>2, SumToDef
<1>3. \A n \in Nat : n \in S
  <2> HIDE DEF S
  <2> QED BY <1>1, <1>2, SetInduction
<1> QED BY <1>3

\* A sum of naturals is a natural, and at least each of its members.
LEMMA SumToNat ==
  ASSUME NEW w, \A i \in Nat : w[i] \in Nat
  PROVE  \A n \in Nat : /\ SumTo(w, n) \in Nat
                        /\ \A k \in 1..n : w[k] <= SumTo(w, n)
<1> DEFINE S == {n \in Nat : /\ SumTo(w, n) \in Nat
                             /\ \A k \in 1..n : w[k] <= SumTo(w, n)}
<1>1. 0 \in S
  BY SumToDef
<1>2. ASSUME NEW n \in Nat, n \in S PROVE n + 1 \in S
  <2>1. SumTo(w, n + 1) = SumTo(w, n) + w[n + 1]
    BY SumToDef
  <2>2. SumTo(w, n) \in Nat /\ w[n + 1] \in Nat
    BY <1>2
  <2>3. ASSUME NEW k \in 1..(n + 1) PROVE w[k] <= SumTo(w, n + 1)
    <3>1. CASE k = n + 1
      BY <2>1, <2>2, <3>1
    <3>2. CASE k # n + 1
      <4>1. w[k] \in Nat /\ w[k] <= SumTo(w, n)
        BY <1>2, <3>2
      <4> QED BY <2>1, <2>2, <4>1
    <3> QED BY <3>1, <3>2
  <2> QED BY <2>1, <2>2, <2>3
<1>3. \A n \in Nat : n \in S
  <2> HIDE DEF S
  <2> QED BY <1>1, <1>2, SetInduction
<1> QED BY <1>3

\* Weights that agree on the first n rows have the same sum there.
LEMMA SumToAgree ==
  ASSUME NEW w, NEW v, NEW n \in Nat,
         \A i \in Nat : w[i] \in Int /\ v[i] \in Int,
         \A i \in 1..n : w[i] = v[i]
  PROVE  SumTo(w, n) = SumTo(v, n)
<1> DEFINE S == {i \in Nat : i <= n => SumTo(w, i) = SumTo(v, i)}
<1>1. 0 \in S
  BY SumToDef
<1>2. ASSUME NEW i \in Nat, i \in S PROVE i + 1 \in S
  <2>1. CASE i + 1 <= n
    <3>1. w[i + 1] = v[i + 1] /\ SumTo(w, i) = SumTo(v, i)
      BY <1>2, <2>1
    <3>2. SumTo(w, i + 1) = SumTo(w, i) + w[i + 1]
      BY SumToDef
    <3>3. SumTo(v, i + 1) = SumTo(v, i) + v[i + 1]
      BY SumToDef
    <3> QED BY <3>1, <3>2, <3>3
  <2>2. CASE ~ (i + 1 <= n)
    BY <2>2
  <2> QED BY <2>1, <2>2
<1>3. \A i \in Nat : i \in S
  <2> HIDE DEF S
  <2> QED BY <1>1, <1>2, SetInduction
<1> QED BY <1>3

\* Changing the weight of row k alone changes the sum by the difference.
LEMMA SumToUpdate ==
  ASSUME NEW w, NEW v, NEW n \in Nat, NEW k \in 1..n,
         \A i \in Nat : w[i] \in Int /\ v[i] \in Int,
         \A i \in Nat : i # k => w[i] = v[i]
  PROVE  SumTo(v, n) = SumTo(w, n) - w[k] + v[k]
<1> DEFINE S == {i \in Nat : k <= i => SumTo(v, i) = SumTo(w, i) - w[k] + v[k]}
<1>1. 0 \in S
  OBVIOUS
<1>2. ASSUME NEW i \in Nat, i \in S PROVE i + 1 \in S
  <2>1. SumTo(w, i + 1) = SumTo(w, i) + w[i + 1] /\ SumTo(w, i) \in Int
    BY SumToDef, SumToInt
  <2>2. SumTo(v, i + 1) = SumTo(v, i) + v[i + 1] /\ SumTo(v, i) \in Int
    BY SumToDef, SumToInt
  <2>3. CASE k <= i
    <3>1. SumTo(v, i) = SumTo(w, i) - w[k] + v[k] /\ w[i + 1] = v[i + 1]
      BY <1>2, <2>3
    <3> QED BY <2>1, <2>2, <3>1
  <2>4. CASE k = i + 1
    <3>1. SumTo(w, i) = SumTo(v, i)
      BY <2>4, SumToAgree
    <3> QED BY <2>1, <2>2, <2>4, <3>1
  <2>5. CASE k > i + 1
    BY <2>5
  <2> QED BY <2>3, <2>4, <2>5
<1>3. \A i \in Nat : i \in S
  <2> HIDE DEF S
  <2> QED BY <1>1, <1>2, SetInduction
<1> QED BY <1>3

\* Taking weights away takes their sum away.
LEMMA SumToMinus ==
  ASSUME NEW w, NEW v, NEW d, NEW n \in Nat,
         \A i \in Nat : w[i] \in Int /\ v[i] \in Int /\ d[i] \in Int,
         \A i \in 1..n : v[i] = w[i] - d[i]
  PROVE  SumTo(v, n) = SumTo(w, n) - SumTo(d, n)
<1> DEFINE S == {i \in Nat : i <= n => SumTo(v, i) = SumTo(w, i) - SumTo(d, i)}
<1>1. 0 \in S
  BY SumToDef
<1>2. ASSUME NEW i \in Nat, i \in S PROVE i + 1 \in S
  <2>1. SumTo(w, i + 1) = SumTo(w, i) + w[i + 1] /\ SumTo(w, i) \in Int
    BY SumToDef, SumToInt
  <2>2. SumTo(v, i + 1) = SumTo(v, i) + v[i + 1] /\ SumTo(v, i) \in Int
    BY SumToDef, SumToInt
  <2>3. SumTo(d, i + 1) = SumTo(d, i) + d[i + 1] /\ SumTo(d, i) \in Int
    BY SumToDef, SumToInt
  <2>4. CASE i + 1 <= n
    <3>1. v[i + 1] = w[i + 1] - d[i + 1] /\ SumTo(v, i) = SumTo(w, i) - SumTo(d, i)
      BY <1>2, <2>4
    <3> QED BY <2>1, <2>2, <2>3, <3>1
  <2>5. CASE ~ (i + 1 <= n)
    BY <2>5
  <2> QED BY <2>4, <2>5
<1>3. \A i \in Nat : i \in S
  <2> HIDE DEF S
  <2> QED BY <1>1, <1>2, SetInduction
<1> QED BY <1>3

\* More rows weigh no less.
LEMMA SumToGrows ==
  ASSUME NEW w, \A i \in Nat : w[i] \in Nat, NEW k \in Nat
  PROVE  \A n \in Nat : k <= n => SumTo(w, k) <= SumTo(w, n)
<1> DEFINE S == {n \in Nat : k <= n => SumTo(w, k) <= SumTo(w, n)}
<1>1. 0 \in S
  BY SumToNat
<1>2. ASSUME NEW n \in Nat, n \in S PROVE n + 1 \in S
  <2>1. SumTo(w, n + 1) = SumTo(w, n) + w[n + 1]
    BY SumToDef
  <2>2. SumTo(w, n) \in Nat /\ SumTo(w, n + 1) \in Nat /\ SumTo(w, k) \in Nat /\ w[n + 1] \in Nat
    BY SumToNat
  <2>3. CASE k = n + 1
    BY <2>2, <2>3
  <2>4. CASE k <= n
    BY <1>2, <2>1, <2>2, <2>4
  <2> QED BY <2>3, <2>4
<1>3. \A n \in Nat : n \in S
  <2> HIDE DEF S
  <2> QED BY <1>1, <1>2, SetInduction
<1> QED BY <1>3

\* No weight, no sum.
LEMMA SumToZero ==
  ASSUME NEW w, \A i \in Nat : w[i] = 0
  PROVE  \A n \in Nat : SumTo(w, n) = 0
<1> DEFINE S == {n \in Nat : SumTo(w, n) = 0}
<1>1. 0 \in S
  BY SumToDef
<1>2. ASSUME NEW n \in Nat, n \in S PROVE n + 1 \in S
  <2>1. SumTo(w, n + 1) = SumTo(w, n) + w[n + 1]
    BY SumToDef
  <2> QED BY <1>2, <2>1
<1>3. \A n \in Nat : n \in S
  <2> HIDE DEF S
  <2> QED BY <1>1, <1>2, SetInduction
<1> QED BY <1>3

=============================================================================
