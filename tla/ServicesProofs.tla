--------------------------- MODULE ServicesProofs ---------------------------
(***************************************************************************)
(* What the services around trading promise, proved of any number of calls *)
(* and for every bound.  Each section strengthens one promise to an        *)
(* invariant of its service's steps.                                       *)
(***************************************************************************)
EXTENDS Services, Sequences, MoneyProofs, FiniteSetTheorems

-----------------------------------------------------------------------------
(***************************************************************************)
(* AuthRateLimit.  The window the row counts has admitted what the row     *)
(* says, besides a limit for each late count; the window the clock is in,  *)
(* when the row counts another one, only the late ones.                    *)
(***************************************************************************)
LimitTypes ==
  /\ window \in Nat /\ late \in Nat
  /\ row \in [window : Nat, attempts : Nat]
  /\ counting \in [Calls -> Nat]
  /\ admitted \in [Limits!Windows -> Nat]

WindowsInOrder ==
  /\ row.window <= window
  /\ \A c \in Calls : counting[c] <= window
  /\ \A w \in Limits!Windows : w > window => admitted[w] = 0

AdmittedAsCounted ==
  \A w \in Limits!Windows :
    /\ admitted[w] <= Limit * late + Limit
    /\ w = row.window => admitted[w] <= Limit * late + row.attempts
    /\ w = window /\ w # row.window => admitted[w] <= Limit * late

LimitInv == LimitTypes /\ WindowsInOrder /\ AdmittedAsCounted

LEMMA Allowance ==
  ASSUME NEW n \in Nat
  PROVE  /\ Limit \in Nat /\ Limit * n \in Nat
         /\ Limit * (n + 1) = Limit * n + Limit /\ Limit * (1 + n) = Limit * n + Limit
  BY LimitsAssumption

LEMMA CountStays ==
  ASSUME NEW S, NEW f \in [S -> Nat], NEW x
  PROVE  [f EXCEPT ![x] = @ + 1] \in [S -> Nat]
  <1>1. \A y \in S : [f EXCEPT ![x] = @ + 1][y] \in Nat
    BY f \in [S -> Nat]
  <1> QED
    BY <1>1

LEMMA LimitInit == Limits!Init => LimitInv
  <1>1. Limit \in Nat /\ Limit * 0 = 0 /\ MaxWindow \in Nat
    BY LimitsAssumption
  <1> QED
    BY <1>1 DEF Limits!Init, Limits!Windows, LimitInv, LimitTypes, WindowsInOrder,
                AdmittedAsCounted

LEMMA LimitStep == LimitInv /\ [Limits!Next]_limit => LimitInv'
  <1> SUFFICES ASSUME LimitInv, [Limits!Next]_limit PROVE LimitInv'
    OBVIOUS
  <1> USE DEF LimitInv, LimitTypes, WindowsInOrder, AdmittedAsCounted
  <1>0. /\ Limit \in Nat /\ Limit * late \in Nat /\ MaxWindow \in Nat
        /\ Limit * (late + 1) = Limit * late + Limit
        /\ Limits!Windows \subseteq Nat \ {0}
    BY Allowance, LimitsAssumption DEF Limits!Windows
  <1>1. CASE Limits!NextWindow
    BY <1>0, <1>1 DEF Limits!NextWindow
  <1>2. CASE Limits!Cleanup
    BY <1>0, <1>2 DEF Limits!Cleanup
  <1>3. ASSUME NEW c \in Calls, Limits!Begin(c) PROVE LimitInv'
    BY <1>0, <1>3 DEF Limits!Begin
  <1>4. ASSUME NEW c \in Calls, Limits!Count(c) PROVE LimitInv'
    <2> DEFINE cw == counting[c]
               before == Limit * late
               after == Limit * late'
    <2>1. /\ cw \in Nat \ {0} /\ cw <= window
          /\ window' = window /\ counting' = [counting EXCEPT ![c] = 0]
          /\ row' = Limits!Counted(cw)
          /\ admitted' = IF row'.attempts <= Limit THEN [admitted EXCEPT ![cw] = @ + 1]
                         ELSE admitted
      BY <1>4 DEF Limits!Count
    <2>2. row' \in [window : Nat, attempts : Nat] /\ row'.window = cw
      BY <2>1 DEF Limits!Counted
    <2>3. /\ late' \in Nat /\ before \in Nat
          /\ cw < window => after = before + Limit
          /\ ~(cw < window) => after = before
      BY <1>0, <1>4 DEF Limits!Count
    <2>4. LimitTypes'
      <3>1. admitted' \in [Limits!Windows -> Nat]
        <4>1. [admitted EXCEPT ![cw] = @ + 1] \in [Limits!Windows -> Nat]
          BY CountStays
        <4> QED
          BY <2>1, <4>1
      <3>2. counting' \in [Calls -> Nat]
        BY <2>1
      <3> QED
        BY <2>1, <2>2, <2>3, <3>1, <3>2 DEF Limits!Windows
    <2>5. WindowsInOrder'
      BY <1>0, <2>1, <2>2, <2>4
    <2>6. ASSUME NEW w \in Limits!Windows
          PROVE  /\ admitted'[w] <= after + Limit
                 /\ w = cw => admitted'[w] <= after + row'.attempts
                 /\ w = window /\ w # cw => admitted'[w] <= after
      <3>1. /\ admitted[w] \in Nat /\ w \in Nat
            /\ admitted'[w] = IF w = cw /\ row'.attempts <= Limit THEN admitted[w] + 1
                              ELSE admitted[w]
        BY <1>0, <2>1
      <3>2. /\ admitted[w] <= before + Limit
            /\ w = row.window => admitted[w] <= before + row.attempts
            /\ w = window /\ w # row.window => admitted[w] <= before
        OBVIOUS
      <3>3. CASE row.window = cw
        <4>1. row'.attempts = IF row.attempts <= Limit THEN row.attempts + 1 ELSE row.attempts
          BY <2>1, <3>3 DEF Limits!Counted
        <4> HIDE DEF before, after, cw
        <4> QED
          BY <1>0, <2>1, <2>2, <2>3, <3>1, <3>2, <3>3, <4>1
      <3>4. CASE row.window # cw
        <4>1. row'.attempts = 1
          BY <2>1, <3>4 DEF Limits!Counted
        <4> HIDE DEF before, after, cw
        <4> QED
          BY <1>0, <2>1, <2>2, <2>3, <3>1, <3>2, <3>4, <4>1
      <3> QED
        BY <3>3, <3>4
    <2>7. AdmittedAsCounted'
      BY <2>1, <2>2, <2>6 DEF Limits!Windows
    <2> QED
      BY <2>4, <2>5, <2>7
  <1>5. CASE UNCHANGED limit
    BY <1>5 DEF limit, Limits!Windows
  <1> QED
    BY <1>1, <1>2, <1>3, <1>4, <1>5 DEF Limits!Next

LEMMA LimitHolds == Limits!Spec => []LimitInv
  <1>1. UNCHANGED limit <=> UNCHANGED Limits!limits
    BY DEF limit, Limits!limits
  <1> QED
    BY LimitInit, LimitStep, <1>1, PTL DEF Limits!Spec

\* A window admits no more calls than its limit, and one limit more for each
\* call that was counted after its window had ended (check).
THEOREM WindowsAdmitTheirLimit == Limits!Spec => []AdmittedPerWindow
  <1>1. LimitInv => AdmittedPerWindow
    BY Allowance DEF LimitInv, LimitTypes, AdmittedAsCounted, AdmittedPerWindow,
                     Limits!AdmittedPerWindow
  <1> QED
    BY <1>1, LimitHolds, PTL

-----------------------------------------------------------------------------
(***************************************************************************)
(* EmailVerification.  Only a confirmation writes the time of a user, under*)
(* his lock, and keeps the one it finds.                                   *)
(***************************************************************************)
MailInv == DOMAIN verified = People

LEMMA MailStep ==
  ASSUME MailInv, [Mails!Next]_mail
  PROVE  /\ MailInv'
         /\ \A u \in People : verified[u] # 0 => verified'[u] = verified[u]
  <1> USE DEF MailInv
  <1>1. ASSUME NEW c \in Calls, Mails!Verify(c)
        PROVE  /\ MailInv'
               /\ \A u \in People : verified[u] # 0 => verified'[u] = verified[u]
    BY <1>1 DEF Mails!Verify, Mails!VerifiedAt
  <1>2. CASE UNCHANGED verified
    BY <1>2
  <1>3. ASSUME NEW c \in Calls, Mails!Invalidate(c) \/ Mails!Store(c) \/ Mails!Mail(c)
        PROVE  UNCHANGED verified
    BY <1>3 DEF Mails!Invalidate, Mails!Store, Mails!Mail
  <1>4. ASSUME NEW c \in Calls, NEW u \in People, Mails!Request(c, u)
        PROVE  UNCHANGED verified
    BY <1>4 DEF Mails!Request
  <1>5. ASSUME NEW c \in Calls, NEW t \in tokens, Mails!Confirm(c, t)
        PROVE  UNCHANGED verified
    BY <1>5 DEF Mails!Confirm
  <1>6. ASSUME NEW t \in tokens, Mails!Expire(t)
        PROVE  UNCHANGED verified
    BY <1>6 DEF Mails!Expire
  <1>7. CASE UNCHANGED mail
    BY <1>7 DEF mail
  <1> QED
    BY <1>1, <1>2, <1>3, <1>4, <1>5, <1>6, <1>7 DEF Mails!Next

\* Whatever confirmations of a user overlap, the time of his first one stays
\* (confirmVerification).
THEOREM FirstTimeStays == Mails!Spec => FirstVerificationStays
  <1>1. Mails!Init => MailInv
    BY DEF Mails!Init, MailInv
  <1>2. UNCHANGED mail <=> UNCHANGED Mails!email
    BY DEF mail, Mails!email
  <1>3. MailInv /\ [Mails!Next]_mail
          => MailInv' /\ [\A u \in People : verified[u] # 0 => verified'[u] = verified[u]]_mail
    BY MailStep
  <1> QED
    BY <1>1, <1>2, <1>3, PTL DEF Mails!Spec, FirstVerificationStays, Mails!FirstVerificationStays

-----------------------------------------------------------------------------
(***************************************************************************)
(* TradeView.  The timers of the page poll what is selected and nothing    *)
(* else; what else is loaded comes from an action, and loads what the      *)
(* render of the action showed.  What an answer brings is what its load    *)
(* asked for.                                                              *)
(***************************************************************************)
ViewInv == polls = View!Timers(symbol, interval)

\* What the end of an action may ask for, and what came of loads that were strange.
Asked == UNION {View!Reload(a.market, a.interval) : a \in acting \ acting'}
NothingStrange ==
  /\ View!Strangers' \ View!Strangers \subseteq Asked
  /\ View!OwnOnly /\ ~View!OwnOnly' => (loads \ loads') \intersect View!Strangers # {}

LEMMA ViewStep ==
  ASSUME ViewInv, [View!Next]_View!viewVars
  PROVE  /\ ViewInv'
         /\ symbol' = symbol /\ interval' = interval => NothingStrange
  <1> USE DEF ViewInv, NothingStrange, View!Timers, View!LoadsOf, View!Strangers, View!OwnOnly
  <1>1. CASE View!ChangeMarket
    BY <1>1 DEF View!ChangeMarket, View!Polls
  <1>2. CASE View!ChangeInterval
    BY <1>2 DEF View!ChangeInterval, View!Polls
  <1>3. ASSUME NEW l \in polls, View!Poll(l)
        PROVE  ViewInv' /\ NothingStrange
    BY <1>3 DEF View!Poll, View!Begin
  <1>4. ASSUME NEW l \in loads, View!Loaded(l)
        PROVE  ViewInv' /\ NothingStrange
    BY <1>4 DEF View!Loaded, View!Reload, View!Table, View!Candles
  <1>5. ASSUME NEW l \in loads, View!LoadFails(l)
        PROVE  ViewInv' /\ NothingStrange
    BY <1>5 DEF View!LoadFails
  <1>6. CASE View!Act
    BY <1>6 DEF View!Act
  <1>7. ASSUME NEW a \in acting, View!ActAndReload(a)
        PROVE  ViewInv' /\ NothingStrange
    <2>1. a \in acting \ acting'
      BY <1>7 DEF View!ActAndReload
    <2>2. View!Reload(a.market, a.interval) \subseteq Asked
      BY <2>1 DEF Asked
    <2> QED
      BY <1>7, <2>2 DEF View!ActAndReload, View!Begin
  <1>8. ASSUME NEW a \in acting, View!ActFails(a)
        PROVE  ViewInv' /\ NothingStrange
    BY <1>8 DEF View!ActFails
  <1>9. CASE UNCHANGED View!viewVars
    BY <1>9 DEF View!viewVars
  <1> QED
    BY <1>1, <1>2, <1>3, <1>4, <1>5, <1>6, <1>7, <1>8, <1>9 DEF View!Next

\* While a market and an interval stay selected, whatever entry of the selector is
\* chosen, nothing else is asked for but by the end of an action begun before, and
\* nothing else is shown but by the answer to such a load (the clean-ups of the two
\* effects).
THEOREM PageKeepsItsMarket == View!Spec => NoStrangerReturns
  <1>1. View!Init => ViewInv
    BY DEF View!Init, ViewInv
  <1>2. ViewInv /\ [View!Next]_View!viewVars
          => ViewInv' /\ [symbol' = symbol /\ interval' = interval => NothingStrange]_View!viewVars
    BY ViewStep
  <1> QED
    BY <1>1, <1>2, PTL DEF View!Spec, NoStrangerReturns, View!NoStrangerReturns, NothingStrange, Asked

-----------------------------------------------------------------------------
(***************************************************************************)
(* AuditTrail.  A change that locks its row to read it still has what it   *)
(* read when it commits: the columns of its kind are written by no other   *)
(* kind, and their row by no other call.                                   *)
(***************************************************************************)
Statuses == {"ASSET_STATUS", "MARKET_STATUS"}
Snapshot(k) == [Trail!ColumnsOf[k] -> Values \cup {Default}]
LogRec(k) == [kind : {k}, before : Snapshot(k), after : Snapshot(k)]
LogRecs == UNION {LogRec(k) : k \in Trail!Kinds}
ReadRec(k) == [step : {"READ"}, kind : {k}, input : Trail!ChangesTo(k)]
WorkRec(k) == [step : {"WRITE", "COMMIT", "EVENT"}, kind : {k},
               before : Snapshot(k), after : Snapshot(k)]

TrailTypes ==
  /\ stored \in [Trail!Columns -> Values \cup {Default}]
  /\ DOMAIN holder = Trail!Rows
  /\ DOMAIN change = Calls
  /\ \A c \in Calls : \/ change[c] = Trail!Idle
                      \/ \E k \in Trail!Kinds : change[c] \in ReadRec(k) \cup WorkRec(k)
  /\ audit \in Seq(LogRecs)

\* Tells and Log, of any trail.
Says(log, n, k, v) ==
  \/ v = Trail!AtFirst(k) /\ \A i \in 1..n : log[i].kind # k
  \/ \E i \in 1..n : /\ log[i].kind = k /\ log[i].after = v
                     /\ \A j \in (i + 1)..n : log[j].kind # k
Told(log, e) == \E i \in 1..Len(log) : log[i] = e

ReadUnderLock ==
  \A c \in Calls : change[c].step \in {"WRITE", "COMMIT"} =>
    /\ Trail!LocksToRead(change[c].kind) =>
         /\ holder[Trail!RowOf[change[c].kind]] = c
         /\ change[c].before = Trail!Current(change[c].kind)
    /\ change[c].kind \in Statuses => change[c].before # change[c].after

EventsAreLogged ==
  /\ \A c \in Calls : change[c].step = "EVENT" => Told(audit, Trail!Log(change[c]))
  /\ \A e \in events : Told(audit, e)

LogsChain ==
  /\ \A k \in Trail!Kinds : Says(audit, Len(audit), k, Trail!Current(k))
  /\ \A i \in 1..Len(audit) :
       /\ audit[i].kind # "FEES" => Says(audit, i - 1, audit[i].kind, audit[i].before)
       /\ audit[i].kind \in Statuses => audit[i].before # audit[i].after

TrailInv == TrailTypes /\ ReadUnderLock /\ EventsAreLogged /\ LogsChain

LEMMA KindsApart ==
  /\ \A k \in Trail!Kinds : /\ Trail!ColumnsOf[k] \subseteq Trail!Columns
                            /\ Trail!RowOf[k] \in Trail!Rows
  /\ \A k, l \in Trail!Kinds : k # l => Trail!ColumnsOf[k] \cap Trail!ColumnsOf[l] = {}
  /\ \A k \in Trail!Kinds : k # "FEES" => Trail!RowOf[k] # Trail!RowOf["FEES"]
  BY DEF Trail!Kinds, Trail!ColumnsOf, Trail!RowOf, Trail!Rows, Trail!Columns

LEMMA SaysLonger ==
  ASSUME NEW S, NEW log \in Seq(S), NEW l \in S, NEW n \in 0..Len(log), NEW k, NEW v
  PROVE  Says(Append(log, l), n, k, v) <=> Says(log, n, k, v)
  <1>1. \A i \in 1..n : Append(log, l)[i] = log[i]
    OBVIOUS
  <1> QED
    BY <1>1 DEF Says

LEMMA SaysStill ==
  ASSUME NEW S, NEW log \in Seq(S), NEW l \in S, NEW k, NEW v,
         l.kind # k, Says(log, Len(log), k, v)
  PROVE  Says(Append(log, l), Len(log) + 1, k, v)
  <1>1. /\ \A i \in 1..Len(log) : Append(log, l)[i] = log[i]
        /\ Append(log, l)[Len(log) + 1] = l
        /\ Len(log) \in Nat
    OBVIOUS
  <1> QED
    BY <1>1 DEF Says

LEMMA SaysNewest ==
  ASSUME NEW S, NEW log \in Seq(S), NEW l \in S
  PROVE  Says(Append(log, l), Len(log) + 1, l.kind, l.after)
  <1>1. Append(log, l)[Len(log) + 1] = l /\ Len(log) \in Nat
    OBVIOUS
  <1> QED
    BY <1>1 DEF Says

LEMMA ToldLonger ==
  ASSUME NEW S, NEW log \in Seq(S), NEW l \in S
  PROVE  /\ Told(Append(log, l), l)
         /\ \A e : Told(log, e) => Told(Append(log, l), e)
  <1>1. /\ \A i \in 1..Len(log) : Append(log, l)[i] = log[i]
        /\ Append(log, l)[Len(log) + 1] = l
        /\ Len(log) \in Nat /\ Len(Append(log, l)) = Len(log) + 1
    OBVIOUS
  <1> QED
    BY <1>1 DEF Told

LEMMA TrailInit == Trail!Init => TrailInv
  <1> SUFFICES ASSUME Trail!Init PROVE TrailInv
    OBVIOUS
  <1>1. TrailTypes
    BY DEF Trail!Init, TrailTypes
  <1>2. ReadUnderLock /\ EventsAreLogged
    BY DEF Trail!Init, Trail!Idle, ReadUnderLock, EventsAreLogged
  <1>3. \A k \in Trail!Kinds : Trail!Current(k) = Trail!AtFirst(k)
    BY KindsApart DEF Trail!Init, Trail!Current, Trail!AtFirst
  <1>4. LogsChain
    BY <1>3 DEF Trail!Init, LogsChain, Says
  <1> QED
    BY <1>1, <1>2, <1>4 DEF TrailInv

LEMMA CallForms ==
  ASSUME TrailTypes, NEW c \in Calls
  PROVE  /\ change[c].step = "READ" =>
              /\ change[c].kind \in Trail!Kinds
              /\ change[c].input \in Trail!ChangesTo(change[c].kind)
         /\ change[c].step \in {"WRITE", "COMMIT", "EVENT"} =>
              /\ change[c].kind \in Trail!Kinds
              /\ change[c] \in WorkRec(change[c].kind)
              /\ change[c].before \in Snapshot(change[c].kind)
              /\ change[c].after \in Snapshot(change[c].kind)
              /\ Trail!Log(change[c]) \in LogRecs
  <1>1. CASE change[c] = Trail!Idle
    BY <1>1 DEF Trail!Idle
  <1>2. ASSUME NEW k \in Trail!Kinds, change[c] \in ReadRec(k)
        PROVE  /\ change[c].step = "READ" /\ change[c].kind = k
               /\ change[c].input \in Trail!ChangesTo(k)
    BY <1>2 DEF ReadRec
  <1>3. ASSUME NEW k \in Trail!Kinds, change[c] \in WorkRec(k)
        PROVE  /\ change[c].step # "READ" /\ change[c].kind = k
               /\ change[c].before \in Snapshot(k) /\ change[c].after \in Snapshot(k)
               /\ Trail!Log(change[c]) \in LogRecs
    BY <1>3 DEF WorkRec, Trail!Log, LogRec, LogRecs
  <1> QED
    BY <1>1, <1>2, <1>3 DEF TrailTypes

LEMMA CurrentTyped ==
  ASSUME TrailTypes, NEW k \in Trail!Kinds
  PROVE  /\ Trail!Current(k) \in Snapshot(k)
         /\ \A input \in Trail!ChangesTo(k) : Trail!Merged(input, Trail!Current(k)) \in Snapshot(k)
  <1>1. Trail!Current(k) \in Snapshot(k)
    BY KindsApart DEF TrailTypes, Snapshot, Trail!Current
  <1>2. ASSUME NEW input \in Trail!ChangesTo(k)
        PROVE  Trail!Merged(input, Trail!Current(k)) \in Snapshot(k)
    <2>1. PICK cs \in SUBSET Trail!ColumnsOf[k] : input \in [cs -> Values]
      BY DEF Trail!ChangesTo
    <2> HIDE DEF Trail!Current
    <2> QED
      BY <1>1, <2>1 DEF Snapshot, Trail!Merged
  <1> QED
    BY <1>1, <1>2

\* A call goes on to r, and nothing is committed.
LEMMA TrailGoes ==
  ASSUME TrailInv, NEW c \in Calls, NEW r,
         Trail!Goes(c, r), UNCHANGED <<stored, audit>>,
         events' \subseteq events \cup {Trail!Log(change[c])},
         events' # events => change[c].step = "EVENT",
         r = Trail!Idle \/ \E k \in Trail!Kinds : r \in ReadRec(k) \cup WorkRec(k),
         r.step # "EVENT",
         DOMAIN holder' = Trail!Rows,
         \A n \in Trail!Rows : holder[n] \in Calls \ {c} => holder'[n] = holder[n],
         r.step \in {"WRITE", "COMMIT"} =>
           /\ Trail!LocksToRead(r.kind) =>
                holder'[Trail!RowOf[r.kind]] = c /\ r.before = Trail!Current(r.kind)
           /\ r.kind \in Statuses => r.before # r.after
  PROVE  TrailInv'
  <1> USE DEF TrailInv
  <1>1. /\ change' = [change EXCEPT ![c] = r] /\ DOMAIN change = Calls
        /\ \A k : Trail!Current(k)' = Trail!Current(k)
    BY DEF TrailTypes, Trail!Goes, Trail!Current
  <1>2. TrailTypes'
    BY <1>1 DEF TrailTypes
  <1>3. ReadUnderLock'
    <2>1. ASSUME NEW d \in Calls, d # c, change[d].step \in {"WRITE", "COMMIT"},
                 Trail!LocksToRead(change[d].kind)
          PROVE  holder'[Trail!RowOf[change[d].kind]] = d
      BY <2>1, CallForms, KindsApart DEF ReadUnderLock
    <2> QED
      BY <1>1, <2>1 DEF ReadUnderLock
  <1>4. EventsAreLogged'
    BY <1>1 DEF EventsAreLogged, Trail!Log
  <1>5. LogsChain'
    BY <1>1 DEF LogsChain
  <1> QED
    BY <1>2, <1>3, <1>4, <1>5

LEMMA ReceiveStep ==
  ASSUME TrailInv, NEW c \in Calls, NEW k \in Trail!Kinds, NEW input \in Trail!ChangesTo(k),
         Trail!Receive(c, k, input)
  PROVE  TrailInv'
  <1> DEFINE r == [step |-> "READ", kind |-> k, input |-> input]
  <1>1. Trail!Goes(c, r) /\ UNCHANGED <<stored, holder, audit, events>>
    BY DEF Trail!Receive
  <1>2. r \in ReadRec(k) /\ r.step = "READ" /\ DOMAIN holder = Trail!Rows
    BY DEF ReadRec, TrailInv, TrailTypes
  <1> HIDE DEF r
  <1> QED
    BY <1>1, <1>2, TrailGoes

LEMMA ReadStep ==
  ASSUME TrailInv, NEW c \in Calls, Trail!Read(c)
  PROVE  TrailInv'
  <1> DEFINE k == change[c].kind
             now == Trail!Current(k)
             after == Trail!Merged(change[c].input, now)
             r == [step |-> "WRITE", kind |-> k, before |-> now, after |-> after]
  <1>1. /\ change[c].step = "READ"
        /\ Trail!LocksToRead(k) => Trail!Free(Trail!RowOf[k], c)
        /\ UNCHANGED <<stored, audit, events>>
        /\ \/ Trail!Goes(c, Trail!Idle) /\ UNCHANGED holder
           \/ /\ ~Trail!Unchanged(k, change[c].input, now) /\ Trail!Goes(c, r)
              /\ holder' = IF Trail!LocksToRead(k) THEN [holder EXCEPT ![Trail!RowOf[k]] = c]
                           ELSE holder
    BY DEF Trail!Read
  <1>2. /\ k \in Trail!Kinds /\ change[c].input \in Trail!ChangesTo(k)
        /\ now \in Snapshot(k) /\ after \in Snapshot(k)
        /\ DOMAIN holder = Trail!Rows /\ Trail!RowOf[k] \in Trail!Rows
    BY <1>1, CallForms, CurrentTyped, KindsApart DEF TrailInv, TrailTypes
  <1>3. CASE Trail!Goes(c, Trail!Idle) /\ UNCHANGED holder
    <2>1. Trail!Idle.step = "IDLE"
      BY DEF Trail!Idle
    <2> QED
      BY <1>1, <1>2, <1>3, <2>1, TrailGoes
  <1>4. CASE /\ ~Trail!Unchanged(k, change[c].input, now) /\ Trail!Goes(c, r)
             /\ holder' = IF Trail!LocksToRead(k) THEN [holder EXCEPT ![Trail!RowOf[k]] = c]
                          ELSE holder
    <2>1. /\ r \in WorkRec(k) /\ r.step = "WRITE" /\ r.kind = k
          /\ r.before = now /\ r.after = after
      BY <1>2 DEF WorkRec
    <2>2. k \in Statuses => now # after
      BY <1>4 DEF Trail!Unchanged, Statuses
    <2>3. /\ DOMAIN holder' = Trail!Rows
          /\ Trail!LocksToRead(k) => holder'[Trail!RowOf[k]] = c
          /\ \A n \in Trail!Rows : holder[n] \in Calls \ {c} => holder'[n] = holder[n]
      BY <1>1, <1>2, <1>4, TrailAssumption DEF Trail!Free
    <2> HIDE DEF r, now, after, k
    <2>4. /\ r.step \in {"WRITE", "COMMIT"} =>
               /\ Trail!LocksToRead(r.kind) =>
                    holder'[Trail!RowOf[r.kind]] = c /\ r.before = Trail!Current(r.kind)
               /\ r.kind \in Statuses => r.before # r.after
          /\ r.step # "EVENT"
      BY <2>1, <2>2, <2>3 DEF now
    <2> QED
      BY <1>1, <1>2, <1>4, <2>1, <2>3, <2>4, TrailGoes
  <1> QED
    BY <1>1, <1>3, <1>4

LEMMA WriteStep ==
  ASSUME TrailInv, NEW c \in Calls, Trail!Write(c)
  PROVE  TrailInv'
  <1> DEFINE k == change[c].kind
             r == [change[c] EXCEPT !.step = "COMMIT"]
  <1>1. /\ change[c].step = "WRITE" /\ Trail!Free(Trail!RowOf[k], c)
        /\ holder' = [holder EXCEPT ![Trail!RowOf[k]] = c]
        /\ Trail!Goes(c, r) /\ UNCHANGED <<stored, audit, events>>
    BY DEF Trail!Write
  <1>2. /\ k \in Trail!Kinds /\ change[c] \in WorkRec(k)
        /\ DOMAIN holder = Trail!Rows /\ Trail!RowOf[k] \in Trail!Rows
    BY <1>1, CallForms, KindsApart DEF TrailInv, TrailTypes
  <1>3. /\ r \in WorkRec(k) /\ r.step = "COMMIT" /\ r.kind = k
        /\ r.before = change[c].before /\ r.after = change[c].after
    BY <1>2 DEF WorkRec
  <1>4. /\ DOMAIN holder' = Trail!Rows
        /\ holder'[Trail!RowOf[k]] = c
        /\ \A n \in Trail!Rows : holder[n] \in Calls \ {c} => holder'[n] = holder[n]
    BY <1>1, <1>2, TrailAssumption DEF Trail!Free
  <1> HIDE DEF r
  <1>5. /\ r.step \in {"WRITE", "COMMIT"} =>
             /\ Trail!LocksToRead(r.kind) =>
                  holder'[Trail!RowOf[r.kind]] = c /\ r.before = Trail!Current(r.kind)
             /\ r.kind \in Statuses => r.before # r.after
        /\ r.step # "EVENT"
    BY <1>1, <1>3, <1>4 DEF TrailInv, ReadUnderLock
  <1> QED
    BY <1>1, <1>2, <1>3, <1>4, <1>5, TrailGoes

LEMMA EventStep ==
  ASSUME TrailInv, NEW c \in Calls, Trail!Event(c)
  PROVE  TrailInv'
  <1>1. /\ change[c].step = "EVENT" /\ Trail!Goes(c, Trail!Idle)
        /\ events' \in {events, events \cup {Trail!Log(change[c])}}
        /\ UNCHANGED <<stored, holder, audit>>
    BY DEF Trail!Event
  <1>2. Trail!Idle.step = "IDLE" /\ DOMAIN holder = Trail!Rows
    BY DEF Trail!Idle, TrailInv, TrailTypes
  <1> QED
    BY <1>1, <1>2, TrailGoes

LEMMA AbandonStep ==
  ASSUME TrailInv, NEW c \in Calls, Trail!Crash(c)
  PROVE  TrailInv'
  <1>1. /\ holder' = Trail!Released(c) /\ Trail!Goes(c, Trail!Idle)
        /\ UNCHANGED <<stored, audit, events>>
    BY DEF Trail!Crash
  <1>2. Trail!Idle.step = "IDLE"
    BY DEF Trail!Idle
  <1>3. /\ DOMAIN holder' = Trail!Rows
        /\ \A n \in Trail!Rows : holder[n] \in Calls \ {c} => holder'[n] = holder[n]
    BY <1>1 DEF Trail!Released
  <1> QED
    BY <1>1, <1>2, <1>3, TrailGoes

LEMMA CommitStep ==
  ASSUME TrailInv, NEW c \in Calls, Trail!Commit(c)
  PROVE  TrailInv'
  <1> DEFINE r == change[c]
             k == r.kind
             l == Trail!Log(r)
             n == Len(audit)
  <1>1. /\ r.step = "COMMIT"
        /\ stored' = [m \in Trail!Columns |-> IF m \in DOMAIN r.after THEN r.after[m]
                                              ELSE stored[m]]
        /\ audit' = Append(audit, l)
        /\ holder' = Trail!Released(c)
        /\ Trail!Goes(c, IF k = "ASSET_METADATA" THEN Trail!Idle ELSE [r EXCEPT !.step = "EVENT"])
        /\ UNCHANGED events
    BY DEF Trail!Commit
  <1>2. /\ k \in Trail!Kinds /\ r \in WorkRec(k) /\ l \in LogRecs
        /\ r.before \in Snapshot(k) /\ r.after \in Snapshot(k)
        /\ l.kind = k /\ l.before = r.before /\ l.after = r.after
    BY <1>1, CallForms DEF TrailInv, Trail!Log
  <1>3. /\ audit \in Seq(LogRecs) /\ n \in Nat /\ Len(audit') = n + 1 /\ n \in 0..n
        /\ \A i \in 1..n : audit'[i] = audit[i]
        /\ audit'[n + 1] = l
    BY <1>1, <1>2 DEF TrailInv, TrailTypes
  <1>4. PICK e : /\ change' = [change EXCEPT ![c] = e]
                 /\ \/ e = Trail!Idle /\ e.step = "IDLE"
                    \/ e \in WorkRec(k) /\ e.step = "EVENT" /\ Trail!Log(e) = l
    <2>1. LET e == [r EXCEPT !.step = "EVENT"] IN
            e \in WorkRec(k) /\ e.step = "EVENT" /\ Trail!Log(e) = l
      BY <1>2 DEF WorkRec, Trail!Log
    <2>2. Trail!Idle.step = "IDLE"
      BY DEF Trail!Idle
    <2> QED
      BY <1>1, <2>1, <2>2 DEF Trail!Goes
  <1>5. ASSUME NEW j \in Trail!Kinds
        PROVE  [m \in Trail!ColumnsOf[j] |-> stored'[m]]
                 = IF j = k THEN r.after ELSE Trail!Current(j)
    BY <1>1, <1>2, KindsApart DEF Snapshot, Trail!Current
  <1>6. TrailTypes'
    <2>1. stored' \in [Trail!Columns -> Values \cup {Default}]
      BY <1>1, <1>2 DEF TrailInv, TrailTypes, Snapshot
    <2>2. DOMAIN holder' = Trail!Rows
      BY <1>1 DEF Trail!Released
    <2>3. audit' \in Seq(LogRecs)
      BY <1>1, <1>2, <1>3
    <2> QED
      BY <1>2, <1>4, <2>1, <2>2, <2>3 DEF TrailInv, TrailTypes
  <1>7. ReadUnderLock'
    <2> SUFFICES ASSUME NEW d \in Calls, change'[d].step \in {"WRITE", "COMMIT"}
                 PROVE  /\ Trail!LocksToRead(change'[d].kind) =>
                             /\ holder'[Trail!RowOf[change'[d].kind]] = d
                             /\ change'[d].before =
                                  [m \in Trail!ColumnsOf[change'[d].kind] |-> stored'[m]]
                        /\ change'[d].kind \in Statuses => change'[d].before # change'[d].after
      BY DEF ReadUnderLock, Trail!Current
    <2>1. d # c /\ change'[d] = change[d]
      BY <1>4 DEF TrailInv, TrailTypes
    <2>2. change[d].kind \in Trail!Kinds
      BY <2>1, CallForms DEF TrailInv
    <2>3. ASSUME Trail!LocksToRead(change[d].kind)
          PROVE  /\ holder'[Trail!RowOf[change[d].kind]] = d
                 /\ change[d].before = [m \in Trail!ColumnsOf[change[d].kind] |-> stored'[m]]
      <3>1. holder[Trail!RowOf[change[d].kind]] = d
        BY <2>1, <2>3 DEF TrailInv, ReadUnderLock
      <3>2. holder'[Trail!RowOf[change[d].kind]] = d
        BY <1>1, <2>1, <2>2, <3>1, KindsApart DEF Trail!Released
      <3>3. change[d].kind # k
        BY <1>1, <2>1, <2>3, <3>1 DEF TrailInv, ReadUnderLock
      <3> QED
        BY <1>5, <2>1, <2>2, <2>3, <3>2, <3>3 DEF TrailInv, ReadUnderLock
    <2> QED
      BY <2>1, <2>3 DEF TrailInv, ReadUnderLock
  <1>8. EventsAreLogged'
    <2>1. Told(audit', l) /\ \A g : Told(audit, g) => Told(audit', g)
      BY <1>1, <1>2, <1>3, ToldLonger
    <2>2. ASSUME NEW d \in Calls, change'[d].step = "EVENT"
          PROVE  Told(audit', Trail!Log(change'[d]))
      BY <1>4, <2>1, <2>2 DEF TrailInv, TrailTypes, EventsAreLogged
    <2>3. \A g \in events : Told(audit', g)
      BY <2>1 DEF TrailInv, EventsAreLogged
    <2> QED
      BY <1>1, <2>2, <2>3 DEF EventsAreLogged, Trail!Log
  <1>9. LogsChain'
    <2>1. ASSUME NEW j \in Trail!Kinds
          PROVE  Says(audit', n + 1, j, [m \in Trail!ColumnsOf[j] |-> stored'[m]])
      <3>1. CASE j = k
        <4>1. Says(Append(audit, l), n + 1, l.kind, l.after)
          BY <1>2, <1>3, SaysNewest
        <4> HIDE DEF l
        <4> QED
          BY <1>1, <1>2, <1>5, <3>1, <4>1
      <3>2. CASE j # k
        <4>1. Says(audit, n, j, Trail!Current(j))
          BY DEF TrailInv, LogsChain
        <4>2. Says(audit', n + 1, j, Trail!Current(j))
          BY <1>1, <1>2, <1>3, <3>2, <4>1, SaysStill
        <4> QED
          BY <1>5, <3>2, <4>2
      <3> QED
        BY <3>1, <3>2
    <2>2. ASSUME NEW i \in 1..n
          PROVE  /\ audit'[i].kind # "FEES" =>
                      Says(audit', i - 1, audit'[i].kind, audit'[i].before)
                 /\ audit'[i].kind \in Statuses => audit'[i].before # audit'[i].after
      <3>1. i - 1 \in 0..n /\ audit'[i] = audit[i]
        BY <1>3
      <3>2. Says(audit', i - 1, audit[i].kind, audit[i].before)
              <=> Says(audit, i - 1, audit[i].kind, audit[i].before)
        BY <1>1, <1>2, <1>3, <3>1, SaysLonger
      <3> QED
        BY <3>1, <3>2 DEF TrailInv, LogsChain
    <2>3. /\ k # "FEES" => Says(audit', n, k, r.before)
          /\ k \in Statuses => r.before # r.after
      <3>1. k # "FEES" => r.before = Trail!Current(k) /\ Says(audit, n, k, r.before)
        BY <1>1, <1>2 DEF TrailInv, ReadUnderLock, LogsChain, Trail!LocksToRead
      <3>2. Says(audit', n, k, r.before) <=> Says(audit, n, k, r.before)
        BY <1>1, <1>2, <1>3, SaysLonger
      <3> QED
        BY <1>1, <3>1, <3>2 DEF TrailInv, ReadUnderLock
    <2>4. (n + 1) - 1 = n /\ \A i \in 1..(n + 1) : i = n + 1 \/ i \in 1..n
      BY <1>3
    <2>5. \A i \in 1..(n + 1) :
            /\ audit'[i].kind # "FEES" =>
                 Says(audit', i - 1, audit'[i].kind, audit'[i].before)
            /\ audit'[i].kind \in Statuses => audit'[i].before # audit'[i].after
      BY <1>2, <1>3, <2>2, <2>3, <2>4
    <2> QED
      BY <1>3, <2>1, <2>5 DEF LogsChain, Trail!Current
  <1> QED
    BY <1>6, <1>7, <1>8, <1>9 DEF TrailInv

LEMMA TrailHolds == Trail!Spec => []TrailInv
  <1>1. TrailInv /\ [Trail!Next]_trail => TrailInv'
    <2> SUFFICES ASSUME TrailInv, [Trail!Next]_trail PROVE TrailInv'
      OBVIOUS
    <2>1. CASE Trail!Next
      BY <2>1, ReceiveStep, ReadStep, WriteStep, CommitStep, EventStep, AbandonStep
         DEF Trail!Next
    <2>2. CASE UNCHANGED trail
      <3>1. UNCHANGED <<stored, holder, change, audit, events>>
        BY <2>2 DEF trail
      <3>2. \A k : Trail!Current(k)' = Trail!Current(k)
        BY <3>1 DEF Trail!Current
      <3> QED
        BY <3>1, <3>2 DEF TrailInv, TrailTypes, ReadUnderLock, EventsAreLogged, LogsChain
    <2> QED
      BY <2>1, <2>2
  <1>2. UNCHANGED trail <=> UNCHANGED Trail!trail
    BY DEF trail, Trail!trail
  <1> QED
    BY TrailInit, <1>1, <1>2, PTL DEF Trail!Spec

\* The audit logs of an asset and of a market chain, from the values they started
\* with to those stored now; security events tell of what was committed only
\* (updateAssetStatus, updateAssetMetadata, updateMarketStatus).
THEOREM LogsExplainTheRows == Trail!Spec => []AuditExplains
  <1>1. TrailInv => AuditExplains
    <2> SUFFICES ASSUME TrailInv PROVE AuditExplains
      OBVIOUS
    <2>1. DOMAIN audit = 1..Len(audit)
      BY DEF TrailInv, TrailTypes
    <2>2. \A n, k, v : Says(audit, n, k, v) <=> Trail!Tells(n, k, v)
      BY DEF Says, Trail!Tells
    <2> QED
      BY <2>1, <2>2 DEF TrailInv, EventsAreLogged, LogsChain, Told, Statuses,
                        AuditExplains, Trail!AuditExplains
  <1> QED
    BY <1>1, TrailHolds, PTL

-----------------------------------------------------------------------------
(***************************************************************************)
(* TradeForm.  A review is in one place at a time: waiting for its answer, *)
(* in the dialog, or sent; and it has no order before it leaves the last.  *)
(***************************************************************************)
BodyRec == [market : Symbols, kind : Form!Kinds, side : Sides, input : Inputs \cup {NoInput}]

FormTypes ==
  /\ symbol \in Symbols /\ form \in Form!FormRec
  /\ reviews \in Seq(BodyRec)
  /\ orders \in Seq(Nat) /\ Len(orders) = Len(reviews)
  /\ waiting \subseteq 1..Len(reviews)
  /\ pending \in 0..Len(reviews) /\ sent \in 0..Len(reviews)

ReviewsInOnePlace ==
  /\ \A r \in waiting : r # pending /\ r # sent /\ orders[r] = 0
  /\ pending # 0 => orders[pending] = 0
  /\ sent # 0 => submitting /\ orders[sent] = 0
  /\ \A r \in 1..Len(orders) : orders[r] <= 1

FormInv == FormTypes /\ ReviewsInOnePlace

LEMMA ChangedTyped ==
  ASSUME NEW f \in Form!FormRec, NEW s \in Symbols, NEW e, Form!Changed(f, s, e)
  PROVE  form' \in Form!FormRec /\ symbol' \in Symbols
  BY DEF Form!Changed

LEMMA FieldsTyped ==
  ASSUME FormTypes
  PROVE  /\ Form!Edited \subseteq Form!FormRec
         /\ [form EXCEPT !.limit = NoInput, !.spend = NoInput] \in Form!FormRec
         /\ [form EXCEPT !.spend = NoInput] \in Form!FormRec
         /\ [form EXCEPT !.limit = NoInput] \in Form!FormRec
         /\ Form!Body(form, symbol) \in BodyRec
  <1> USE DEF FormTypes, Form!FormRec
  <1>1. Form!Edited \subseteq Form!FormRec
    <2>1. ASSUME NEW k \in Form!Kinds, NEW s \in Sides, NEW x \in Inputs \cup {NoInput}
          PROVE  /\ [form EXCEPT !.kind = k] \in Form!FormRec
                 /\ [form EXCEPT !.side = s] \in Form!FormRec
                 /\ [form EXCEPT !.kind = "LIMIT", !.limit = x] \in Form!FormRec
                 /\ [form EXCEPT !.spend = x] \in Form!FormRec
      BY DEF Form!Kinds
    <2>2. form.spend \in Inputs \cup {NoInput}
      OBVIOUS
    <2> HIDE DEF Form!FormRec
    <2>3. /\ {[form EXCEPT !.kind = k] : k \in Form!Kinds} \subseteq Form!FormRec
          /\ {[form EXCEPT !.side = s] : s \in Sides} \subseteq Form!FormRec
      BY <2>1, FormAssumption DEF Form!Kinds
    <2>4. {[form EXCEPT !.kind = "LIMIT", !.limit = x] : x \in Inputs \cup {NoInput}}
             \subseteq Form!FormRec
      BY <2>1, FormAssumption DEF Form!Kinds
    <2>5. {[form EXCEPT !.spend = x] :
              x \in IF form.kind = "MARKET" THEN Inputs \cup {NoInput} ELSE {form.spend}}
             \subseteq Form!FormRec
      BY <2>1, <2>2, FormAssumption DEF Form!Kinds
    <2> QED
      BY <2>3, <2>4, <2>5 DEF Form!Edited
  <1>2. /\ [form EXCEPT !.limit = NoInput, !.spend = NoInput] \in Form!FormRec
        /\ [form EXCEPT !.spend = NoInput] \in Form!FormRec
        /\ [form EXCEPT !.limit = NoInput] \in Form!FormRec
    OBVIOUS
  <1>3. Form!Body(form, symbol) \in BodyRec
    BY DEF Form!Body, BodyRec
  <1> QED
    BY <1>1, <1>2, <1>3

\* The invariant in numbers: what is left of it when the lengths are known.
LEMMA FormCounts ==
  ASSUME NEW n \in Nat, Len(reviews) = n, FormTypes
  PROVE  /\ Len(orders) = n /\ \A r \in 1..n : orders[r] \in Nat
         /\ waiting \subseteq 1..n /\ pending \in 0..n /\ sent \in 0..n
  BY DEF FormTypes

LEMMA FormInit == Form!Init => FormInv
  <1>1. (CHOOSE s \in Sides : TRUE) \in Sides
    BY FormAssumption
  <1> QED
    BY <1>1, FormAssumption DEF Form!Init, FormInv, FormTypes, ReviewsInOnePlace,
                                Form!FormRec, Form!Kinds

\* An order is taken of the review that was sent, and it leaves the dialog.
LEMMA TakenStep ==
  ASSUME FormInv, sent # 0, orders' \in {orders, Form!Taken(sent)},
         pending' = 0, sent' = 0, UNCHANGED <<reviews, waiting>>,
         form' \in Form!FormRec, symbol' \in Symbols
  PROVE  FormInv'
  <1>1. /\ orders' \in Seq(Nat) /\ Len(orders') = Len(orders)
        /\ \A r \in 1..Len(orders) :
             orders'[r] = IF orders' # orders /\ r = sent THEN orders[r] + 1 ELSE orders[r]
    <2>1. CASE orders' = orders
      BY <2>1 DEF FormInv, FormTypes
    <2>2. CASE orders' = Form!Taken(sent)
      BY <2>2 DEF FormInv, FormTypes, Form!Taken
    <2> QED
      BY <2>1, <2>2
  <1> DEFINE n == Len(reviews)
  <1>2. n \in Nat
    BY DEF FormInv, FormTypes
  <1>3. /\ \A r \in 1..n : orders[r] \in Nat
        /\ waiting \subseteq 1..n /\ sent \in 0..n /\ Len(orders) = n
    BY <1>2, FormCounts DEF FormInv
  <1>4. FormTypes'
    BY <1>1, <1>2 DEF FormInv, FormTypes
  <1> HIDE DEF n
  <1>5. /\ \A r \in waiting : orders'[r] = 0
        /\ \A r \in 1..n : orders'[r] <= 1
    BY <1>1, <1>2, <1>3 DEF FormInv, ReviewsInOnePlace
  <1>6. \A r \in waiting : r # 0
    BY <1>2, <1>3
  <1> QED
    BY <1>1, <1>3, <1>4, <1>5, <1>6 DEF FormInv, ReviewsInOnePlace

LEMMA FormStep == FormInv /\ [Form!Next]_Form!formVars => FormInv'
  <1> SUFFICES ASSUME FormInv, [Form!Next]_Form!formVars PROVE FormInv'
    OBVIOUS
  <1> USE DEF FormInv
  <1>1. CASE Form!Edit
    <2>1. form' \in Form!FormRec /\ symbol' \in Symbols
      BY <1>1, ChangedTyped, FieldsTyped DEF Form!Edit, FormTypes
    <2> QED
      BY <1>1, <2>1 DEF Form!Edit, Form!dialog, FormTypes, ReviewsInOnePlace
  <1>2. CASE Form!ChangeMarket
    <2>1. form' \in Form!FormRec /\ symbol' \in Symbols
      BY <1>2, ChangedTyped, FieldsTyped DEF Form!ChangeMarket
    <2> QED
      BY <1>2, <2>1 DEF Form!ChangeMarket, FormTypes, ReviewsInOnePlace
  <1>3. CASE Form!Ask \/ Form!Estimated
    BY <1>3 DEF Form!Ask, Form!Estimated, Form!dialog, FormTypes, ReviewsInOnePlace
  <1>4. CASE Form!Review
    <2> DEFINE n == Len(reviews)
    <2>1. /\ reviews' \in Seq(BodyRec) /\ orders' \in Seq(Nat)
          /\ Len(reviews') = n + 1 /\ Len(orders') = n + 1 /\ n \in Nat
          /\ orders'[n + 1] = 0 /\ \A r \in 1..n : orders'[r] = orders[r]
      BY <1>4, FieldsTyped DEF Form!Review, FormTypes
    <2>2. /\ waiting' = waiting \cup {n + 1}
          /\ UNCHANGED <<symbol, form, pending, submitting, sent>>
      BY <1>4 DEF Form!Review
    <2>3. /\ Len(orders) = n /\ \A r \in 1..n : orders[r] \in Nat
          /\ waiting \subseteq 1..n /\ pending \in 0..n /\ sent \in 0..n
      BY <2>1, FormCounts
    <2> HIDE DEF n
    <2>4. /\ waiting' \subseteq 1..(n + 1)
          /\ pending' \in 0..(n + 1) /\ sent' \in 0..(n + 1)
          /\ form' \in Form!FormRec /\ symbol' \in Symbols
      BY <2>1, <2>2, <2>3 DEF FormTypes
    <2>5. FormTypes'
      BY <2>1, <2>4 DEF FormTypes
    <2>6. /\ \A r \in waiting' : r # pending' /\ r # sent' /\ orders'[r] = 0
          /\ pending' # 0 => orders'[pending'] = 0
          /\ sent' # 0 => submitting' /\ orders'[sent'] = 0
      BY <2>1, <2>2, <2>3 DEF ReviewsInOnePlace
    <2>7. \A r \in 1..Len(orders') : orders'[r] <= 1
      BY <2>1, <2>3 DEF ReviewsInOnePlace
    <2> QED
      BY <2>5, <2>6, <2>7 DEF ReviewsInOnePlace
  <1>5. CASE Form!Reviewed
    BY <1>5 DEF Form!Reviewed, FormTypes, ReviewsInOnePlace
  <1>6. CASE Form!Leave \/ Form!Confirm
    BY <1>6 DEF Form!Leave, Form!Confirm, FormTypes, ReviewsInOnePlace
  <1>7. CASE Form!Placed
    <2>1. form' \in Form!FormRec /\ symbol' \in Symbols
      BY <1>7, ChangedTyped, FieldsTyped DEF Form!Placed, FormTypes
    <2> QED
      BY <1>7, <2>1, TakenStep DEF Form!Placed
  <1>8. CASE Form!Reloaded
    BY <1>8 DEF Form!Reloaded, FormTypes, ReviewsInOnePlace
  <1>9. CASE Form!Failed
    BY <1>9, TakenStep DEF Form!Failed, Form!AfterFailure, FormTypes
  <1>10. CASE UNCHANGED Form!formVars
    BY <1>10 DEF Form!formVars, FormTypes, ReviewsInOnePlace
  <1> QED
    BY <1>1, <1>2, <1>3, <1>4, <1>5, <1>6, <1>7, <1>8, <1>9, <1>10 DEF Form!Next

LEMMA FormHolds == Form!Spec => []FormInv
  BY FormInit, FormStep, PTL DEF Form!Spec

\* A review of an order leads to one order at most, however late its answers come
\* and however often its dialog is confirmed (handleSubmit, confirmOrder).
THEOREM ReviewsOrderOnce == Form!Spec => []OneOrderPerReview
  <1>1. FormInv => OneOrderPerReview
    BY DEF FormInv, FormTypes, ReviewsInOnePlace, OneOrderPerReview, Form!OneOrderPerReview
  <1> QED
    BY <1>1, FormHolds, PTL

-----------------------------------------------------------------------------
(***************************************************************************)
(* TradeForm, its estimate.  Every estimate still wanted is the one of the *)
(* fields and the market, so there is one at most; none is wanted while    *)
(* the timer is set.                                                       *)
(***************************************************************************)
EstimateInv ==
  /\ form \in Form!FormRec
  /\ asking \subseteq [body : BodyRec, active : BOOLEAN]
  /\ \A a \in asking : a.active => ~timer /\ ~Form!Bare(form) /\ a.body = Form!Body(form, symbol)
  /\ timer => ~Form!Bare(form)
  /\ EstimateSettles

\* The fields an estimate depends on have changed, or have not.
LEMMA ChangedStep ==
  ASSUME EstimateInv, NEW f \in Form!FormRec, NEW s, NEW e \in {estimate, NoneYet},
         Form!Changed(f, s, e)
  PROVE  EstimateInv'
  <1> DEFINE Same == f.kind = form.kind /\ f.side = form.side /\ f.spend = form.spend /\ s = symbol
  <1> USE DEF EstimateInv
  <1>1. form' = f /\ symbol' = s /\ f \in Form!FormRec /\ form \in Form!FormRec
    BY DEF Form!Changed
  <1>2. CASE Same
    <2>1. /\ estimate' = e /\ UNCHANGED <<estimating, timer, asking>>
      BY <1>2 DEF Form!Changed
    <2>2. /\ Form!Bare(f) <=> Form!Bare(form)
          /\ ~Form!Bare(f) => Form!Body(f, s) = Form!Body(form, symbol)
      BY <1>1, <1>2 DEF Form!Bare, Form!Body, Form!FormRec, Form!Kinds
    <2>3. /\ Form!Bare(form)' = Form!Bare(f)
          /\ Form!Body(form, symbol)' = Form!Body(f, s)
          /\ Form!Wanted' = Form!Wanted
      BY <1>1, <2>1 DEF Form!Bare, Form!Body, Form!Wanted
    <2> QED
      BY <1>1, <2>1, <2>2, <2>3 DEF EstimateSettles, Form!EstimateSettles
  <1>3. CASE ~Same
    <2>1. /\ asking' = Form!Ignored /\ timer' = ~Form!Bare(f)
          /\ Form!Bare(f) => estimate' = NoneYet /\ estimating' = FALSE
      BY <1>3 DEF Form!Changed
    <2>2. \A a \in asking' : a \in [body : BodyRec, active : BOOLEAN] /\ ~a.active
      BY <2>1 DEF Form!Ignored
    <2>3. Form!Bare(form)' = Form!Bare(f) /\ Form!Wanted' = {}
      BY <1>1, <2>2 DEF Form!Bare, Form!Wanted
    <2> QED
      BY <1>1, <2>1, <2>2, <2>3 DEF EstimateSettles, Form!EstimateSettles
  <1> QED
    BY <1>2, <1>3

LEMMA AskStep ==
  ASSUME EstimateInv, FormTypes, Form!Ask
  PROVE  EstimateInv'
  <1> DEFINE a == [body |-> Form!Body(form, symbol), active |-> TRUE]
  <1> USE DEF EstimateInv
  <1>1. /\ timer /\ ~timer' /\ asking' = asking \cup {a}
        /\ form' = form /\ symbol' = symbol
    BY DEF Form!Ask
  <1>2. a \in [body : BodyRec, active : BOOLEAN] /\ a.body = Form!Body(form, symbol) /\ a.active
    BY FieldsTyped
  <1> HIDE DEF a
  <1>3. /\ Form!Bare(form)' = Form!Bare(form)
        /\ Form!Body(form, symbol)' = Form!Body(form, symbol)
        /\ Form!Wanted' # {}
    BY <1>1, <1>2 DEF Form!Bare, Form!Body, Form!Wanted
  <1> QED
    BY <1>1, <1>2, <1>3 DEF EstimateSettles, Form!EstimateSettles

LEMMA EstimatedStep ==
  ASSUME EstimateInv, Form!Estimated
  PROVE  EstimateInv'
  <1> USE DEF EstimateInv
  <1>1. PICK a \in asking, result \in {"LIQUID", "NONE", "ERROR"} :
          /\ asking' = asking \ {a}
          /\ IF a.active THEN estimate' = [body |-> a.body, result |-> result] /\ estimating' = FALSE
                         ELSE UNCHANGED <<estimate, estimating>>
    BY DEF Form!Estimated
  <1>2. form' = form /\ symbol' = symbol /\ timer' = timer
    BY DEF Form!Estimated
  <1>3. /\ Form!Bare(form)' = Form!Bare(form)
        /\ Form!Body(form, symbol)' = Form!Body(form, symbol)
    BY <1>2 DEF Form!Bare, Form!Body
  <1>4. CASE a.active
    <2>1. ~estimating' /\ estimate'.body = a.body
      BY <1>1, <1>4
    <2> QED
      BY <1>1, <1>2, <1>3, <1>4, <2>1 DEF EstimateSettles, Form!EstimateSettles
  <1>5. CASE ~a.active
    <2>1. Form!Wanted' = Form!Wanted /\ UNCHANGED <<estimate, estimating>>
      BY <1>1, <1>5 DEF Form!Wanted
    <2> QED
      BY <1>1, <1>2, <1>3, <2>1 DEF EstimateSettles, Form!EstimateSettles
  <1> QED
    BY <1>4, <1>5

LEMMA EstimateStep ==
  EstimateInv /\ FormInv /\ [Form!Next]_Form!formVars => EstimateInv'
  <1> SUFFICES ASSUME EstimateInv, FormInv, [Form!Next]_Form!formVars PROVE EstimateInv'
    OBVIOUS
  <1>0. FormTypes
    BY DEF FormInv
  <1>1. CASE Form!Edit
    BY <1>0, <1>1, ChangedStep, FieldsTyped DEF Form!Edit
  <1>2. CASE Form!ChangeMarket
    BY <1>0, <1>2, ChangedStep, FieldsTyped DEF Form!ChangeMarket
  <1>3. CASE Form!Placed
    BY <1>0, <1>3, ChangedStep, FieldsTyped DEF Form!Placed
  <1>4. CASE Form!Ask
    BY <1>0, <1>4, AskStep
  <1>5. CASE Form!Estimated
    BY <1>5, EstimatedStep
  <1>6. CASE UNCHANGED <<symbol, form, estimate, estimating, timer, asking>>
    BY <1>6 DEF EstimateInv, EstimateSettles, Form!EstimateSettles, Form!Wanted, Form!Bare,
                Form!Body
  <1>7. CASE \/ Form!Review \/ Form!Reviewed \/ Form!Leave \/ Form!Confirm \/ Form!Reloaded
             \/ Form!Failed \/ UNCHANGED Form!formVars
    BY <1>6, <1>7 DEF Form!Review, Form!Reviewed, Form!Leave, Form!Confirm, Form!Reloaded,
                      Form!Failed, Form!formVars
  <1> QED
    BY <1>1, <1>2, <1>3, <1>4, <1>5, <1>7 DEF Form!Next

\* Once no estimate is due or wanted, the one the page shows is of its fields and
\* its market: a late answer never stays (loadMarketPreview).
THEOREM EstimatesSettle == Form!Spec => []EstimateSettles
  <1>1. Form!Init => EstimateInv
    <2>1. (CHOOSE s \in Sides : TRUE) \in Sides
      BY FormAssumption
    <2> QED
      BY <2>1 DEF Form!Init, EstimateInv, EstimateSettles, Form!EstimateSettles,
                  Form!FormRec, Form!Kinds
  <1>2. EstimateInv => EstimateSettles
    BY DEF EstimateInv
  <1> QED
    BY <1>1, <1>2, EstimateStep, FormHolds, PTL DEF Form!Spec

-----------------------------------------------------------------------------
(***************************************************************************)
(* Catalog, its listings.  The assets a listing owes wallets of stay       *)
(* ACTIVE, because only an asset without a row is ever inserted, by one    *)
(* call at a time; and of the users whose assets it has read, each wallet  *)
(* is there or about to be inserted.                                       *)
(***************************************************************************)
Fields == {"step", "whose", "left", "types", "todo", "always"}
Adding(r) == r.step \in {"ADDED", "COVERED"}

\* What a call has still to do suits the assets as and the wallets ws.
Suits(r, as, ws) ==
  /\ "step" \in DOMAIN r
  /\ r.step = "ENSURE" =>
       /\ DOMAIN r = Fields
       /\ \A a \in r.always : a \in Assets /\ as[a] = "ACTIVE"
       /\ \A u \in r.whose \ r.left, a \in r.always, t \in r.types :
            <<u, a, t>> \in ws \cup r.todo
  /\ Adding(r) => as[r.asset] = "NONE"
  /\ r.step = "SHOWN" => r.missing = {}

ListingInv ==
  /\ DOMAIN task = Calls /\ DOMAIN assets = Assets
  /\ \A c \in Calls : Suits(task[c], assets, wallets)
  /\ \A c, d \in Calls :
       c # d /\ Adding(task[c]) /\ Adding(task[d]) => task[c].asset # task[d].asset

LEMMA MoreWallets ==
  ASSUME NEW r, NEW as, NEW ws, NEW more, ws \subseteq more, Suits(r, as, ws)
  PROVE  Suits(r, as, more)
  BY DEF Suits

\* A call goes on, no asset changes and no wallet goes.
LEMMA GoesOn ==
  ASSUME ListingInv, NEW c \in Calls, NEW r,
         Tables!Goes(c, r), assets' = assets, wallets \subseteq wallets',
         Suits(r, assets, wallets'),
         Adding(r) => \A d \in Calls \ {c} : Adding(task[d]) => task[d].asset # r.asset
  PROVE  ListingInv'
  <1>1. \A d \in Calls : task'[d] = IF d = c THEN r ELSE task[d]
    BY DEF ListingInv, Tables!Goes
  <1>2. \A d \in Calls : Suits(task'[d], assets', wallets')
    BY <1>1, MoreWallets DEF ListingInv
  <1>3. \A d, e \in Calls :
          d # e /\ Adding(task'[d]) /\ Adding(task'[e]) => task'[d].asset # task'[e].asset
    BY <1>1 DEF ListingInv
  <1>4. DOMAIN task' = Calls /\ DOMAIN assets' = Assets
    BY DEF ListingInv, Tables!Goes
  <1> QED
    BY <1>2, <1>3, <1>4 DEF ListingInv, Suits, Adding

LEMMA RestsListed ==
  ASSUME ListingInv, task' = task, assets' = assets, wallets \subseteq wallets'
  PROVE  ListingInv'
  <1>1. \A c \in Calls : Suits(task[c], assets, wallets')
    BY MoreWallets DEF ListingInv
  <1> QED
    BY <1>1 DEF ListingInv, Suits, Adding

LEMMA EnsuresStep ==
  ASSUME ListingInv, NEW c \in Calls, Tables!Ensures(c)
  PROVE  ListingInv'
  <1> DEFINE new(us, ts) == [step |-> "ENSURE", whose |-> us, left |-> us, types |-> ts,
                             todo |-> {}, always |-> Tables!Active]
  <1>1. ASSUME NEW us, NEW ts, Tables!Goes(c, Tables!Ensuring(us, ts)),
               assets' = assets, wallets' = wallets
        PROVE  ListingInv'
    <2>1. Suits(new(us, ts), assets, wallets) /\ ~Adding(new(us, ts))
      BY DEF Suits, Adding, Fields, Tables!Active
    <2>2. Tables!Goes(c, new(us, ts))
      BY <1>1 DEF Tables!Ensuring
    <2> HIDE DEF new
    <2> QED
      BY <1>1, <2>1, <2>2, GoesOn
  <1>2. ASSUME NEW u \in Tables!Humans, Tables!ReadAssets(c, u)
        PROVE  ListingInv'
    <2> DEFINE todo == Tables!WalletsOf({u}, Tables!Active, task[c].types)
               r == [task[c] EXCEPT !.left = @ \ {u}, !.todo = todo]
    <2>1. /\ Tables!Goes(c, r) /\ assets' = assets /\ wallets' = wallets
          /\ task[c].step = "ENSURE" /\ task[c].todo = {}
      BY <1>2 DEF Tables!ReadAssets
    <2>2. DOMAIN task[c] = Fields /\ Suits(task[c], assets, wallets)
      BY <2>1 DEF ListingInv, Suits
    <2>3. /\ DOMAIN r = Fields /\ r.step = "ENSURE" /\ r.whose = task[c].whose
          /\ r.left = task[c].left \ {u} /\ r.types = task[c].types
          /\ r.always = task[c].always /\ r.todo = todo
      BY <2>1, <2>2 DEF Fields
    <2>4. \A a \in task[c].always, t \in task[c].types : <<u, a, t>> \in todo
      BY <2>1, <2>2 DEF Suits, Tables!WalletsOf, Tables!Active
    <2> HIDE DEF r, todo
    <2>5. Suits(r, assets, wallets) /\ ~Adding(r)
      BY <2>1, <2>2, <2>3, <2>4 DEF Suits, Adding, Fields
    <2> QED
      BY <2>1, <2>5, GoesOn
  <1>3. CASE Tables!InsertWallet(c)
    <2> DEFINE w == Tables!First(task[c].todo)
               r == [task[c] EXCEPT !.todo = @ \ {w}]
    <2>1. /\ Tables!Goes(c, r) /\ assets' = assets /\ wallets' = wallets \cup {w}
          /\ task[c].step = "ENSURE"
      BY <1>3 DEF Tables!InsertWallet
    <2>2. DOMAIN task[c] = Fields /\ Suits(task[c], assets, wallets)
      BY <2>1 DEF ListingInv, Suits
    <2>3. /\ DOMAIN r = Fields /\ r.step = "ENSURE" /\ r.whose = task[c].whose
          /\ r.left = task[c].left /\ r.types = task[c].types
          /\ r.always = task[c].always /\ r.todo = task[c].todo \ {w}
      BY <2>1, <2>2 DEF Fields
    <2> HIDE DEF r, w
    <2>4. Suits(r, assets, wallets') /\ ~Adding(r)
      BY <2>1, <2>2, <2>3 DEF Suits, Adding, Fields
    <2> QED
      BY <2>1, <2>4, GoesOn
  <1>4. CASE Tables!Show(c)
    <2> DEFINE r == [step |-> "SHOWN",
                     missing |-> Tables!WalletsOf(task[c].whose, task[c].always, task[c].types)
                                   \ wallets]
    <2>1. /\ Tables!Goes(c, r) /\ assets' = assets /\ wallets' = wallets
          /\ task[c].step = "ENSURE" /\ task[c].todo = {} /\ task[c].left = {}
      BY <1>4 DEF Tables!Show
    <2>2. \A u \in task[c].whose, a \in task[c].always, t \in task[c].types :
            <<u, a, t>> \in wallets
      BY <2>1 DEF ListingInv, Suits
    <2>3. r.step = "SHOWN" /\ "step" \in DOMAIN r /\ r.missing = {}
      BY <2>2 DEF Tables!WalletsOf
    <2> HIDE DEF r
    <2> QED
      BY <2>1, <2>3, GoesOn DEF Suits, Adding
  <1>5. CASE Tables!ListBuckets(c)
    BY <1>1, <1>5 DEF Tables!ListBuckets
  <1>6. ASSUME NEW u \in People, Tables!Register(c, u) PROVE ListingInv'
    BY <1>1, <1>6 DEF Tables!Register
  <1>7. ASSUME NEW us, Tables!List(c, us) PROVE ListingInv'
    BY <1>1, <1>7 DEF Tables!List
  <1> QED
    BY <1>2, <1>3, <1>4, <1>5, <1>6, <1>7 DEF Tables!Ensures

\* What a call has still to do says nothing of wallets.
Plain(r) == "step" \in DOMAIN r /\ r.step \notin {"ENSURE", "ADDED", "COVERED", "SHOWN"}

LEMMA PlainSuits ==
  ASSUME NEW r, Plain(r), NEW as, NEW ws
  PROVE  Suits(r, as, ws) /\ ~Adding(r)
  BY DEF Plain, Suits, Adding

LEMMA GoesPlainly ==
  ASSUME ListingInv, NEW c \in Calls, NEW r, Plain(r),
         Tables!Goes(c, r), assets' = assets, wallets \subseteq wallets'
  PROVE  ListingInv'
  BY PlainSuits, GoesOn

\* A row of an asset is inserted, by the one call that may.
LEMMA AssetInserted ==
  ASSUME ListingInv, NEW c \in Calls, NEW r, Plain(r), NEW a, NEW st,
         Tables!Goes(c, r), wallets \subseteq wallets',
         assets[a] = "NONE", assets' = [assets EXCEPT ![a] = st],
         \A d \in Calls \ {c} : Adding(task[d]) => task[d].asset # a
  PROVE  ListingInv'
  <1>1. \A d \in Calls : task'[d] = IF d = c THEN r ELSE task[d]
    BY DEF ListingInv, Tables!Goes
  <1>2. ASSUME NEW d \in Calls \ {c} PROVE Suits(task[d], assets', wallets')
    <2>1. Suits(task[d], assets, wallets) /\ (Adding(task[d]) => task[d].asset # a)
      BY DEF ListingInv
    <2>2. Adding(task[d]) => assets'[task[d].asset] = "NONE"
      BY <2>1 DEF Suits, ListingInv
    <2>3. task[d].step = "ENSURE" => \A b \in task[d].always : assets'[b] = "ACTIVE"
      BY <2>1 DEF Suits, ListingInv
    <2> QED
      BY <2>1, <2>2, <2>3 DEF Suits
  <1>3. \A d \in Calls : Suits(task'[d], assets', wallets')
    BY <1>1, <1>2, PlainSuits
  <1>4. \A d, e \in Calls :
          d # e /\ Adding(task'[d]) /\ Adding(task'[e]) => task'[d].asset # task'[e].asset
    BY <1>1, PlainSuits DEF ListingInv
  <1>5. DOMAIN task' = Calls /\ DOMAIN assets' = Assets
    BY DEF ListingInv, Tables!Goes
  <1> QED
    BY <1>3, <1>4, <1>5 DEF ListingInv, Suits, Adding

LEMMA CreatesStep ==
  ASSUME ListingInv, NEW c \in Calls, Tables!Creates(c)
  PROVE  ListingInv'
  <1>1. ASSUME NEW a \in Assets, Tables!BeginAsset(c, a) PROVE ListingInv'
    <2> DEFINE r == [step |-> "ADDED", asset |-> a]
    <2>1. /\ Tables!Goes(c, r) /\ assets' = assets /\ wallets' = wallets
          /\ assets[a] = "NONE"
          /\ \A d \in Calls : Adding(task[d]) => task[d].asset # a
      BY <1>1 DEF Tables!BeginAsset, Adding
    <2>2. r.step = "ADDED" /\ r.asset = a /\ "step" \in DOMAIN r
      OBVIOUS
    <2> HIDE DEF r
    <2>3. Suits(r, assets, wallets)
      BY <2>1, <2>2 DEF Suits, Adding
    <2> QED
      BY <2>1, <2>2, <2>3, GoesOn
  <1>2. CASE Tables!CoverAsset(c)
    <2> DEFINE r == [step |-> "COVERED", asset |-> task[c].asset,
                     rows |-> Tables!Coverage(users, {task[c].asset})]
    <2>1. /\ Tables!Goes(c, r) /\ assets' = assets /\ wallets' = wallets
          /\ Adding(task[c])
      BY <1>2 DEF Tables!CoverAsset, Adding
    <2>2. r.step = "COVERED" /\ r.asset = task[c].asset /\ "step" \in DOMAIN r
      OBVIOUS
    <2> HIDE DEF r
    <2>3. Suits(r, assets, wallets)
      BY <2>1, <2>2 DEF Suits, Adding, ListingInv
    <2>4. \A d \in Calls \ {c} : Adding(task[d]) => task[d].asset # r.asset
      BY <2>1, <2>2 DEF ListingInv
    <2> QED
      BY <2>1, <2>3, <2>4, GoesOn
  <1>3. ASSUME NEW st, Tables!CommitAsset(c, st) PROVE ListingInv'
    <2>1. /\ Tables!Goes(c, Tables!Idle) /\ wallets \subseteq wallets'
          /\ assets' = [assets EXCEPT ![task[c].asset] = st] /\ Adding(task[c])
      BY <1>3 DEF Tables!CommitAsset, Adding
    <2>2. /\ assets[task[c].asset] = "NONE"
          /\ \A d \in Calls \ {c} : Adding(task[d]) => task[d].asset # task[c].asset
      BY <2>1 DEF ListingInv, Suits
    <2>3. Plain(Tables!Idle)
      BY DEF Plain, Tables!Idle
    <2> QED
      BY <2>1, <2>2, <2>3, AssetInserted
  <1>4. ASSUME NEW m \in Markets, NEW st, Tables!BeginMarket(c, m, st) PROVE ListingInv'
    <2> DEFINE r == [step |-> "MARKET", market |-> m]
    <2>1. Plain(r)
      BY DEF Plain
    <2>2. Tables!Goes(c, r) /\ assets' = assets /\ wallets' = wallets
      BY <1>4 DEF Tables!BeginMarket
    <2> HIDE DEF r
    <2> QED
      BY <2>1, <2>2, GoesPlainly
  <1>5. CASE Tables!CommitMarket(c)
    <2>1. Plain(Tables!Idle)
      BY DEF Plain, Tables!Idle
    <2> QED
      BY <1>5, <2>1, GoesPlainly DEF Tables!CommitMarket
  <1> QED
    BY <1>1, <1>2, <1>3, <1>4, <1>5 DEF Tables!Creates

LEMMA SetAssetStep ==
  ASSUME ListingInv, NEW a \in Pausable, NEW st, Tables!SetAsset(a, st)
  PROVE  ListingInv'
  <1>1. /\ assets[a] # "NONE" /\ assets' = [assets EXCEPT ![a] = st]
        /\ task' = [c \in Calls |-> IF task[c].step = "ENSURE"
                      THEN [task[c] EXCEPT !.always = @ \ {a}] ELSE task[c]]
        /\ wallets' = wallets
    BY DEF Tables!SetAsset
  <1>2. ASSUME NEW c \in Calls
        PROVE  /\ Suits(task'[c], assets', wallets')
               /\ Adding(task'[c]) <=> Adding(task[c])
               /\ Adding(task[c]) => task'[c] = task[c]
    <2>1. Suits(task[c], assets, wallets)
      BY DEF ListingInv
    <2>2. CASE task[c].step = "ENSURE"
      <3> DEFINE r == [task[c] EXCEPT !.always = @ \ {a}]
      <3>1. DOMAIN task[c] = Fields /\ task'[c] = r
        BY <1>1, <2>1, <2>2 DEF Suits
      <3>2. /\ DOMAIN r = Fields /\ r.step = "ENSURE" /\ r.whose = task[c].whose
            /\ r.left = task[c].left /\ r.types = task[c].types
            /\ r.todo = task[c].todo /\ r.always = task[c].always \ {a}
        BY <2>2, <3>1 DEF Fields
      <3> HIDE DEF r
      <3>3. \A b \in r.always : b \in Assets /\ assets'[b] = "ACTIVE"
        BY <1>1, <2>1, <2>2, <3>2 DEF Suits, ListingInv
      <3> QED
        BY <1>1, <2>1, <2>2, <3>1, <3>2, <3>3 DEF Suits, Adding, Fields
    <2>3. CASE task[c].step # "ENSURE"
      <3>1. task'[c] = task[c]
        BY <1>1, <2>3
      <3>2. Adding(task[c]) => assets'[task[c].asset] = "NONE"
        BY <1>1, <2>1 DEF Suits, ListingInv
      <3> QED
        BY <1>1, <2>1, <2>3, <3>1, <3>2 DEF Suits
    <2> QED
      BY <2>2, <2>3
  <1>3. DOMAIN task' = Calls /\ DOMAIN assets' = Assets
    BY <1>1 DEF ListingInv
  <1>4. \A c, d \in Calls :
          c # d /\ Adding(task'[c]) /\ Adding(task'[d]) => task'[c].asset # task'[d].asset
    BY <1>2 DEF ListingInv
  <1> QED
    BY <1>2, <1>3, <1>4 DEF ListingInv, Suits, Adding

\* A row that is worked off keeps its step.
LEMMA TodoKeepsStep ==
  ASSUME NEW r, "step" \in DOMAIN r, NEW x
  PROVE  [r EXCEPT !.todo = x].step = r.step /\ "step" \in DOMAIN [r EXCEPT !.todo = x]
  OBVIOUS

LEMMA SeedsStep ==
  ASSUME ListingInv, Tables!Seeds
  PROVE  ListingInv'
  <1> DEFINE s == task[SeedCall]
  <1>0. SeedCall \in Calls /\ "step" \in DOMAIN s
    BY TablesAssumption DEF ListingInv, Suits
  <1> USE DEF Tables!SeedGoes, Tables!Seeding
  <1>1. CASE Tables!Seed
    <2> DEFINE r == [step |-> "SEED_ASSETS", todo |-> DefaultAssets]
    <2>1. Plain(r) /\ Tables!Goes(SeedCall, r) /\ assets' = assets /\ wallets' = wallets
      BY <1>1 DEF Tables!Seed, Plain
    <2> HIDE DEF r
    <2> QED
      BY <1>0, <2>1, GoesPlainly
  <1>2. ASSUME NEW a \in Assets, Tables!SeedAsset(a) PROVE ListingInv'
    <2> DEFINE r == [s EXCEPT !.todo = @ \ {a}]
    <2>1. /\ s.step = "SEED_ASSETS" /\ Tables!Goes(SeedCall, r) /\ wallets' = wallets
          /\ \A d \in Calls : Adding(task[d]) => task[d].asset # a
          /\ assets' = IF assets[a] = "NONE" THEN [assets EXCEPT ![a] = "ACTIVE"] ELSE assets
      BY <1>2 DEF Tables!SeedAsset, Adding
    <2>2. Plain(r)
      BY <1>0, <2>1, TodoKeepsStep DEF Plain
    <2> HIDE DEF r
    <2>3. CASE assets[a] = "NONE"
      BY <1>0, <2>1, <2>2, <2>3, AssetInserted
    <2>4. CASE assets[a] # "NONE"
      BY <1>0, <2>1, <2>2, <2>4, GoesPlainly
    <2> QED
      BY <2>3, <2>4
  <1>3. CASE Tables!SeedAdmin
    <2> DEFINE r == [step |-> "SEED_BUCKETS", rows |-> Tables!Listed, active |-> Tables!Active,
                     todo |-> Tables!WalletsOf({Admin}, Tables!Listed, Types)]
    <2>1. Plain(r) /\ Tables!Goes(SeedCall, r) /\ assets' = assets /\ wallets' = wallets
      BY <1>3 DEF Tables!SeedAdmin, Plain
    <2> HIDE DEF r
    <2> QED
      BY <1>0, <2>1, GoesPlainly
  <1>4. CASE Tables!SeedWallet
    <2> DEFINE w == Tables!First(s.todo)
               r == [s EXCEPT !.todo = @ \ {w}]
    <2>1. /\ s.step \in {"SEED_BUCKETS", "SEED_USERS"} /\ Tables!Goes(SeedCall, r)
          /\ assets' = assets /\ wallets' = wallets \cup {w}
      BY <1>4 DEF Tables!SeedWallet
    <2>2. Plain(r)
      BY <1>0, <2>1, TodoKeepsStep DEF Plain
    <2> HIDE DEF r
    <2> QED
      BY <1>0, <2>1, <2>2, GoesPlainly
  <1>5. CASE Tables!SeedReadsLegacy
    <2> DEFINE r == [step |-> IF legacy = 0 THEN "SEED_MARKETS" ELSE "SEED_CREDIT",
                     held |-> legacy, active |-> s.active]
    <2>1. Plain(r) /\ Tables!Goes(SeedCall, r) /\ assets' = assets /\ wallets' = wallets
      BY <1>5 DEF Tables!SeedReadsLegacy, Plain
    <2> HIDE DEF r
    <2> QED
      BY <1>0, <2>1, GoesPlainly
  <1>6. CASE Tables!SeedCredit
    <2> DEFINE r == [s EXCEPT !.step = "SEED_EMPTY"]
    <2>1. Plain(r) /\ Tables!Goes(SeedCall, r) /\ assets' = assets /\ wallets' = wallets
      BY <1>0, <1>6 DEF Tables!SeedCredit, Plain
    <2> HIDE DEF r
    <2> QED
      BY <1>0, <2>1, GoesPlainly
  <1>7. CASE Tables!SeedEmpty
    <2> DEFINE r == [s EXCEPT !.step = "SEED_MARKETS"]
    <2>1. Plain(r) /\ Tables!Goes(SeedCall, r) /\ assets' = assets /\ wallets' = wallets
      BY <1>0, <1>7 DEF Tables!SeedEmpty, Plain
    <2> HIDE DEF r
    <2> QED
      BY <1>0, <2>1, GoesPlainly
  <1>8. ASSUME NEW m \in Markets, Tables!SeedMarket(m) PROVE ListingInv'
    BY <1>8, RestsListed DEF Tables!SeedMarket
  <1>9. CASE Tables!SeedReadsMarkets
    <2> DEFINE r == [step |-> "SEED_FEES", todo |-> markets, active |-> s.active]
    <2>1. Plain(r) /\ Tables!Goes(SeedCall, r) /\ assets' = assets /\ wallets' = wallets
      BY <1>9 DEF Tables!SeedReadsMarkets, Plain
    <2> HIDE DEF r
    <2> QED
      BY <1>0, <2>1, GoesPlainly
  <1>10. ASSUME NEW m \in Markets, Tables!SeedFee(m) PROVE ListingInv'
    <2> DEFINE r == [s EXCEPT !.todo = @ \ {m}]
    <2>1. /\ s.step = "SEED_FEES" /\ Tables!Goes(SeedCall, r)
          /\ assets' = assets /\ wallets' = wallets
      BY <1>10 DEF Tables!SeedFee
    <2>2. Plain(r)
      BY <1>0, <2>1, TodoKeepsStep DEF Plain
    <2> HIDE DEF r
    <2> QED
      BY <1>0, <2>1, <2>2, GoesPlainly
  <1>11. CASE Tables!SeedReadsUsers
    <2> DEFINE r == [step |-> "SEED_USERS",
                     todo |-> Tables!WalletsOf(users, s.active, {"MAIN"})]
    <2>1. Plain(r) /\ Tables!Goes(SeedCall, r) /\ assets' = assets /\ wallets' = wallets
      BY <1>11 DEF Tables!SeedReadsUsers, Plain
    <2> HIDE DEF r
    <2> QED
      BY <1>0, <2>1, GoesPlainly
  <1>12. CASE Tables!SeedEnds
    <2>1. Plain(Tables!Idle)
      BY DEF Plain, Tables!Idle
    <2> QED
      BY <1>0, <1>12, <2>1, GoesPlainly DEF Tables!SeedEnds
  <1> QED
    BY <1>1, <1>2, <1>3, <1>4, <1>5, <1>6, <1>7, <1>8, <1>9, <1>10, <1>11, <1>12
       DEF Tables!Seeds

LEMMA ListingHolds == Tables!Spec => []ListingInv
  <1>1. Tables!Init => ListingInv
    <2>1. Plain(Tables!Idle)
      BY DEF Plain, Tables!Idle
    <2> QED
      BY <2>1, PlainSuits DEF Tables!Init, ListingInv
  <1>2. ListingInv /\ [Tables!Next]_tables => ListingInv'
    <2> SUFFICES ASSUME ListingInv, [Tables!Next]_tables PROVE ListingInv'
      OBVIOUS
    <2>1. ASSUME NEW c \in Calls, Tables!Crash(c) PROVE ListingInv'
      <3>1. Plain(Tables!Idle)
        BY DEF Plain, Tables!Idle
      <3> QED
        BY <2>1, <3>1, GoesPlainly DEF Tables!Crash
    <2>2. ASSUME NEW m \in Markets, Tables!UseFeeSetting(m) PROVE ListingInv'
      BY <2>2, RestsListed DEF Tables!UseFeeSetting
    <2>3. CASE UNCHANGED tables
      BY <2>3, RestsListed DEF tables
    <2> QED
      BY <2>1, <2>2, <2>3, EnsuresStep, CreatesStep, SeedsStep, SetAssetStep DEF Tables!Next
  <1>3. UNCHANGED tables <=> UNCHANGED Tables!catalog
    BY DEF tables, Tables!catalog
  <1> QED
    BY <1>1, <1>2, <1>3, PTL DEF Tables!Spec

\* A listing, and a registration, ends with a wallet of every asset that was ACTIVE
\* all the while (ensureWalletsForUser, ensureAdminBucketWallets).
THEOREM ListingsShowAll == Tables!Spec => []ListingsComplete
  <1>1. ListingInv => ListingsComplete
    BY DEF ListingInv, Suits, ListingsComplete, Tables!ListingsComplete
  <1> QED
    BY <1>1, ListingHolds, PTL

-----------------------------------------------------------------------------
(***************************************************************************)
(* Catalog, the fees of the old account.  The seed credits what it has read*)
(* only while nothing has been credited, and reads nothing once they have  *)
(* moved; between its two statements both accounts hold the fees, and a cut*)
(* there leaves them in both.                                              *)
(***************************************************************************)
Twice == IF cut THEN LegacyFees ELSE 0

LegacyInv ==
  LET s == task[SeedCall] IN
  /\ s.step = "SEED_CREDIT" => s.held = LegacyFees /\ legacy = LegacyFees /\ fee = Twice
  /\ s.step = "SEED_EMPTY" => legacy = LegacyFees /\ fee = LegacyFees + Twice
  /\ s.step \notin {"SEED_CREDIT", "SEED_EMPTY"} =>
       \/ legacy = LegacyFees /\ fee = Twice
       \/ legacy = 0 /\ fee = LegacyFees + Twice
  /\ \A c \in Calls : task[c].step = "SEED_EMPTY" => c = SeedCall

\* A call goes on without either statement.
LEMMA GoesUnpaid ==
  ASSUME ListingInv, LegacyInv, NEW c \in Calls, NEW r, Tables!Goes(c, r),
         UNCHANGED <<legacy, fee, cut>>,
         task[c].step # "SEED_EMPTY", r.step \notin {"SEED_CREDIT", "SEED_EMPTY"}
  PROVE  LegacyInv'
  BY TablesAssumption DEF ListingInv, LegacyInv, Twice, Tables!Goes

LEMMA EnsuresUnpaid ==
  ASSUME ListingInv, LegacyInv, NEW c \in Calls, Tables!Ensures(c)
  PROVE  LegacyInv'
  <1>0. ASSUME task[c].step = "ENSURE" PROVE DOMAIN task[c] = Fields
    BY <1>0 DEF ListingInv, Suits
  <1>1. ASSUME NEW us, NEW ts, Tables!Free(c), Tables!Goes(c, Tables!Ensuring(us, ts)),
               UNCHANGED <<legacy, fee, cut>>
        PROVE  LegacyInv'
    <2>1. Tables!Ensuring(us, ts).step = "ENSURE" /\ task[c].step # "SEED_EMPTY"
      BY <1>1 DEF Tables!Ensuring, Tables!Free
    <2> QED
      BY <1>1, <2>1, GoesUnpaid
  <1>2. ASSUME NEW u \in Tables!Humans, Tables!ReadAssets(c, u) PROVE LegacyInv'
    <2> DEFINE r == [task[c] EXCEPT !.left = @ \ {u},
                       !.todo = Tables!WalletsOf({u}, Tables!Active, task[c].types)]
    <2>1. /\ Tables!Goes(c, r) /\ UNCHANGED <<legacy, fee, cut>> /\ task[c].step = "ENSURE"
          /\ r.step = "ENSURE"
      BY <1>0, <1>2 DEF Tables!ReadAssets, Fields
    <2> HIDE DEF r
    <2> QED
      BY <2>1, GoesUnpaid
  <1>3. CASE Tables!InsertWallet(c)
    <2> DEFINE r == [task[c] EXCEPT !.todo = @ \ {Tables!First(task[c].todo)}]
    <2>1. /\ Tables!Goes(c, r) /\ UNCHANGED <<legacy, fee, cut>> /\ task[c].step = "ENSURE"
          /\ r.step = "ENSURE"
      BY <1>0, <1>3 DEF Tables!InsertWallet, Fields
    <2> HIDE DEF r
    <2> QED
      BY <2>1, GoesUnpaid
  <1>4. CASE Tables!Show(c)
    BY <1>4, GoesUnpaid DEF Tables!Show
  <1>5. CASE Tables!ListBuckets(c)
    BY <1>1, <1>5 DEF Tables!ListBuckets
  <1>6. ASSUME NEW u \in People, Tables!Register(c, u) PROVE LegacyInv'
    BY <1>1, <1>6 DEF Tables!Register
  <1>7. ASSUME NEW us, Tables!List(c, us) PROVE LegacyInv'
    BY <1>1, <1>7 DEF Tables!List
  <1> QED
    BY <1>2, <1>3, <1>4, <1>5, <1>6, <1>7 DEF Tables!Ensures

LEMMA CreatesUnpaid ==
  ASSUME ListingInv, LegacyInv, NEW c \in Calls, Tables!Creates(c)
  PROVE  LegacyInv'
  <1>1. ASSUME NEW a \in Assets, Tables!BeginAsset(c, a) PROVE LegacyInv'
    BY <1>1, GoesUnpaid DEF Tables!BeginAsset, Tables!Free
  <1>2. CASE Tables!CoverAsset(c)
    BY <1>2, GoesUnpaid DEF Tables!CoverAsset
  <1>3. ASSUME NEW st, Tables!CommitAsset(c, st) PROVE LegacyInv'
    BY <1>3, GoesUnpaid DEF Tables!CommitAsset, Tables!Idle
  <1>4. ASSUME NEW m \in Markets, NEW st, Tables!BeginMarket(c, m, st) PROVE LegacyInv'
    BY <1>4, GoesUnpaid DEF Tables!BeginMarket, Tables!Free
  <1>5. CASE Tables!CommitMarket(c)
    BY <1>5, GoesUnpaid DEF Tables!CommitMarket, Tables!Idle
  <1> QED
    BY <1>1, <1>2, <1>3, <1>4, <1>5 DEF Tables!Creates

LEMMA SeedsLegacy ==
  ASSUME ListingInv, LegacyInv, Tables!Seeds
  PROVE  LegacyInv'
  <1> DEFINE s == task[SeedCall]
  <1>0. SeedCall \in Calls /\ "step" \in DOMAIN s /\ DOMAIN task = Calls
    BY TablesAssumption DEF ListingInv, Suits
  <1> USE DEF Tables!SeedGoes, Tables!Seeding
  <1>1. ASSUME NEW x, Tables!Goes(SeedCall, [s EXCEPT !.todo = x]),
               UNCHANGED <<legacy, fee, cut>>,
               s.step \notin {"SEED_CREDIT", "SEED_EMPTY"}
        PROVE  LegacyInv'
    <2> DEFINE r == [s EXCEPT !.todo = x]
    <2>1. r.step \notin {"SEED_CREDIT", "SEED_EMPTY"}
      BY <1>0, <1>1, TodoKeepsStep
    <2> HIDE DEF r
    <2> QED
      BY <1>0, <1>1, <2>1, GoesUnpaid DEF r
  <1>2. CASE Tables!Seed
    BY <1>0, <1>2, GoesUnpaid DEF Tables!Seed, Tables!Free
  <1>3. ASSUME NEW a \in Assets, Tables!SeedAsset(a) PROVE LegacyInv'
    BY <1>1, <1>3 DEF Tables!SeedAsset
  <1>4. CASE Tables!SeedAdmin
    BY <1>0, <1>4, GoesUnpaid DEF Tables!SeedAdmin
  <1>5. CASE Tables!SeedWallet
    BY <1>1, <1>5 DEF Tables!SeedWallet
  <1>6. CASE Tables!SeedReadsLegacy
    <2> DEFINE r == [step |-> IF legacy = 0 THEN "SEED_MARKETS" ELSE "SEED_CREDIT",
                     held |-> legacy, active |-> s.active]
    <2>1. /\ task'[SeedCall] = r /\ UNCHANGED <<legacy, fee, cut>>
          /\ s.step = "SEED_BUCKETS" /\ \A d \in Calls \ {SeedCall} : task'[d] = task[d]
      BY <1>0, <1>6 DEF Tables!SeedReadsLegacy, Tables!Goes
    <2>2. r.held = legacy /\ r.step = IF legacy = 0 THEN "SEED_MARKETS" ELSE "SEED_CREDIT"
      OBVIOUS
    <2> HIDE DEF r
    <2> QED
      BY <2>1, <2>2 DEF LegacyInv, Twice
  <1>7. CASE Tables!SeedCredit
    <2>1. /\ s.step = "SEED_CREDIT" /\ fee' = fee + s.held /\ UNCHANGED <<legacy, cut>>
          /\ task'[SeedCall].step = "SEED_EMPTY"
          /\ \A d \in Calls \ {SeedCall} : task'[d] = task[d]
      BY <1>0, <1>7 DEF Tables!SeedCredit, Tables!Goes
    <2> QED
      BY <2>1, TablesAssumption DEF LegacyInv, Twice
  <1>8. CASE Tables!SeedEmpty
    <2>1. /\ s.step = "SEED_EMPTY" /\ legacy' = 0 /\ UNCHANGED <<fee, cut>>
          /\ task'[SeedCall].step = "SEED_MARKETS"
          /\ \A d \in Calls \ {SeedCall} : task'[d] = task[d]
      BY <1>0, <1>8 DEF Tables!SeedEmpty, Tables!Goes
    <2> QED
      BY <2>1 DEF LegacyInv, Twice
  <1>9. ASSUME NEW m \in Markets, Tables!SeedMarket(m) PROVE LegacyInv'
    BY <1>9 DEF Tables!SeedMarket, LegacyInv, Twice
  <1>10. CASE Tables!SeedReadsMarkets
    BY <1>0, <1>10, GoesUnpaid DEF Tables!SeedReadsMarkets
  <1>11. ASSUME NEW m \in Markets, Tables!SeedFee(m) PROVE LegacyInv'
    BY <1>1, <1>11 DEF Tables!SeedFee
  <1>12. CASE Tables!SeedReadsUsers
    BY <1>0, <1>12, GoesUnpaid DEF Tables!SeedReadsUsers
  <1>13. CASE Tables!SeedEnds
    BY <1>0, <1>13, GoesUnpaid DEF Tables!SeedEnds, Tables!Idle
  <1> QED
    BY <1>2, <1>3, <1>4, <1>5, <1>6, <1>7, <1>8, <1>9, <1>10, <1>11, <1>12, <1>13
       DEF Tables!Seeds

\* The fees of the old account reach the administrator once, and once more if a run of
\* the seed is cut between its two statements (seed).
THEOREM LegacyFeesMoveOnce == Tables!Spec => []LegacyMovedOnce
  <1>1. Tables!Init => LegacyInv
    BY TablesAssumption DEF Tables!Init, Tables!Idle, LegacyInv, Twice
  <1>2. ListingInv /\ LegacyInv /\ [Tables!Next]_tables => LegacyInv'
    <2> SUFFICES ASSUME ListingInv, LegacyInv, [Tables!Next]_tables PROVE LegacyInv'
      OBVIOUS
    <2>1. ASSUME NEW c \in Calls, Tables!Crash(c) PROVE LegacyInv'
      <3>1. /\ task' = [task EXCEPT ![c] = Tables!Idle] /\ Tables!Idle.step = "IDLE"
            /\ DOMAIN task = Calls /\ UNCHANGED <<legacy, fee>>
            /\ cut' = (cut \/ task[c].step = "SEED_EMPTY")
            /\ task[c].step = "SEED_EMPTY" => ~cut
        BY <2>1 DEF Tables!Crash, Tables!Goes, Tables!Idle, ListingInv
      <3>2. CASE task[c].step = "SEED_EMPTY"
        <4>1. c = SeedCall /\ legacy = LegacyFees /\ fee = LegacyFees
          BY <3>1, <3>2, TablesAssumption DEF LegacyInv, Twice
        <4>2. Twice' = LegacyFees
          BY <3>1, <3>2 DEF Twice
        <4>3. \A d \in Calls : task'[d].step = IF d = SeedCall THEN "IDLE" ELSE task[d].step
          BY <3>1, <4>1
        <4> QED
          BY <3>1, <4>1, <4>2, <4>3, TablesAssumption DEF LegacyInv
      <3>3. CASE task[c].step # "SEED_EMPTY"
        <4>1. Twice' = Twice
          BY <3>1, <3>3 DEF Twice
        <4> QED
          BY <3>1, <3>3, <4>1, TablesAssumption DEF LegacyInv
      <3> QED
        BY <3>2, <3>3
    <2>2. ASSUME NEW m \in Markets, Tables!UseFeeSetting(m) PROVE LegacyInv'
      BY <2>2 DEF Tables!UseFeeSetting, LegacyInv, Twice
    <2>3. ASSUME NEW a \in Pausable, NEW st, Tables!SetAsset(a, st) PROVE LegacyInv'
      <3>1. UNCHANGED <<legacy, fee, cut>>
        BY <2>3 DEF Tables!SetAsset
      <3>2. ASSUME NEW c \in Calls
            PROVE  \/ task'[c] = task[c]
                   \/ task[c].step = "ENSURE" /\ task'[c].step = "ENSURE"
        <4>1. /\ task'[c] = IF task[c].step = "ENSURE"
                            THEN [task[c] EXCEPT !.always = @ \ {a}] ELSE task[c]
              /\ task[c].step = "ENSURE" => DOMAIN task[c] = Fields
          BY <2>3 DEF Tables!SetAsset, ListingInv, Suits
        <4> QED
          BY <4>1 DEF Fields
      <3> QED
        BY <3>1, <3>2, TablesAssumption DEF LegacyInv, Twice
    <2>4. CASE UNCHANGED tables
      BY <2>4 DEF tables, LegacyInv, Twice
    <2> QED
      BY <2>1, <2>2, <2>3, <2>4, EnsuresUnpaid, CreatesUnpaid, SeedsLegacy DEF Tables!Next
  <1>3. LegacyInv => LegacyMovedOnce
    <2>1. LegacyFees \in Nat /\ Twice \in {0, LegacyFees}
      BY TablesAssumption DEF Twice
    <2>2. LegacyInv => fee + legacy = LegacyFees + Twice
                         + (IF Tables!Seeding("SEED_EMPTY") THEN LegacyFees ELSE 0)
      BY <2>1 DEF LegacyInv, Tables!Seeding
    <2> QED
      BY <2>2 DEF Twice, LegacyMovedOnce, Tables!LegacyMovedOnce
  <1>4. UNCHANGED tables <=> UNCHANGED Tables!catalog
    BY DEF tables, Tables!catalog
  <1> QED
    BY <1>1, <1>2, <1>3, <1>4, ListingHolds, PTL DEF Tables!Spec

-----------------------------------------------------------------------------
(***************************************************************************)
(* MarketData.  The candles are built by adding one trade after another;   *)
(* what comes out is told by the trades of each interval alone.            *)
(***************************************************************************)
Rows(ts) ==
  /\ ts \subseteq Market!Trades /\ IsFiniteSet(ts)
  /\ \A s, t \in ts : s.id = t.id => s = t

LEMMA SameCount ==
  ASSUME NEW S
  PROVE  Market!Cardinality(S) = Cardinality(S)
  BY DEF Market!Cardinality, Cardinality

LEMMA SameSum ==
  ASSUME NEW w, NEW n
  PROVE  Market!SumTo(w, n) = SumTo(w, n)
  BY DEF Market!SumTo, SumTo, Market!Running, Running

LEMMA TradeTyped ==
  ASSUME NEW t \in Market!Trades
  PROVE  /\ t.at \in 0..LastTime /\ t.id \in 1..MaxTrades /\ t.price \in Nat /\ t.amount \in Nat
         /\ t.at \in Nat /\ t.id \in Nat /\ LastTime \in Nat /\ MaxTrades \in Nat
         /\ t.price # NoTrade /\ t # NoTrade
<1>1. /\ t.at \in 0..LastTime /\ t.id \in 1..MaxTrades /\ t.price \in Prices
      /\ t.amount \in Amounts
  BY DEF Market!Trades, Market!Ids
<1>2. t # NoTrade
  BY DataAssumption
<1>3. LastTime \in Nat /\ MaxTrades \in Nat /\ Prices \subseteq Nat /\ Amounts \subseteq Nat
  BY DataAssumption
<1>4. t.at \in Nat /\ t.id \in Nat /\ t.price \in Nat /\ t.amount \in Nat
  <2>1. t.at \in Nat /\ t.id \in Nat
    BY <1>1, <1>3, SMT
  <2>2. t.price \in Nat /\ t.amount \in Nat
    BY <1>1, <1>3, Zenon
  <2> QED BY <2>1, <2>2
<1>5. t.price # NoTrade
  BY <1>1, DataAssumption
<1> QED BY <1>1, <1>2, <1>3, <1>4, <1>5

\* A trade is in the interval that its candle starts.
LEMMA StartBounds ==
  ASSUME NEW t \in Market!Trades
  PROVE  /\ Market!Start(t) = (t.at \div Interval) * Interval /\ t.at \div Interval \in Nat
         /\ Market!Start(t) \in Nat
         /\ Market!Start(t) <= t.at /\ t.at < Market!Start(t) + Interval
<1>1. t.at \in Nat /\ Interval \in Nat \ {0}
  BY TradeTyped, DataAssumption
<1> DEFINE a == t.at
<1>2. a \in Nat
  BY <1>1
<1> HIDE DEF a
<1> DEFINE q == a \div Interval
           b == q * Interval
<1>3. /\ q \in Nat /\ b \in Nat /\ b <= a /\ a < b + Interval
  BY <1>1, <1>2, Division
<1>4. Market!Start(t) = b
  BY DEF Market!Start, a
<1> QED BY <1>1, <1>3, <1>4 DEF a

\* Intervals are disjoint, and begin at their starts.
LEMMA SameInterval ==
  ASSUME NEW t \in Market!Trades, NEW k \in Nat
  PROVE  /\ k * Interval \in Nat
         /\ Market!Start(t) = k * Interval <=> t.at \in (k * Interval)..(k * Interval + Interval - 1)
<1>1. Interval \in Nat \ {0}
  BY DataAssumption
<1> DEFINE q == t.at \div Interval
<1>2. /\ q \in Nat /\ Market!Start(t) = q * Interval
      /\ q * Interval <= t.at /\ t.at < q * Interval + Interval /\ t.at \in Nat
  BY StartBounds, TradeTyped
<1> HIDE DEF q
<1>3. k * Interval \in Nat /\ q * Interval \in Nat
  BY <1>1, <1>2, ProductNat
<1>4. ASSUME q < k PROVE q * Interval + Interval <= k * Interval
  <2>1. (q + 1) * Interval <= k * Interval
    BY <1>1, <1>2, <1>4, Monotone
  <2>2. (q + 1) * Interval = q * Interval + Interval
    BY <1>1, <1>2, SMT
  <2> QED BY <2>1, <2>2
<1>5. ASSUME k < q PROVE k * Interval + Interval <= q * Interval
  <2>1. (k + 1) * Interval <= q * Interval
    BY <1>1, <1>2, <1>5, Monotone
  <2>2. (k + 1) * Interval = k * Interval + Interval
    BY <1>1, <1>2, SMT
  <2> QED BY <2>1, <2>2
<1> DEFINE a == t.at
           x == q * Interval
           y == k * Interval
<1>6. a \in Nat /\ x \in Nat /\ y \in Nat /\ x <= a /\ a < x + Interval
  BY <1>2, <1>3
<1>7. (q < k => x + Interval <= y) /\ (k < q => y + Interval <= x) /\ (q = k => x = y)
  BY <1>4, <1>5
<1> HIDE DEF a, x, y
<1>8. x = y <=> a \in y..(y + Interval - 1)
  BY <1>1, <1>2, <1>6, <1>7
<1> QED BY <1>2, <1>3, <1>8 DEF a, x, y

\* Numbers that are bounded have a greatest one, and finitely many are bounded.
LEMMA GreatestElement ==
  ASSUME NEW S \in SUBSET Nat, S # {}, NEW b \in Nat, \A x \in S : x <= b
  PROVE  \E m \in S : \A x \in S : x <= m
<1> DEFINE T == {b - x : x \in S}
<1>1. T \in SUBSET Nat /\ T # {}
  <2>1. \A x \in S : b - x \in Nat
    OBVIOUS
  <2> QED BY <2>1
<1>2. PICK d \in T : \A k \in T : d <= k
  <2> HIDE DEF T
  <2> QED BY <1>1, LeastElement
<1>3. PICK m \in S : d = b - m
  OBVIOUS
<1>4. ASSUME NEW x \in S PROVE x <= m
  <2>1. b - x \in T
    OBVIOUS
  <2>2. b - m <= b - x
    BY <1>2, <1>3, <2>1
  <2>3. b \in Nat /\ m \in Nat /\ x \in Nat
    OBVIOUS
  <2> QED BY <2>2, <2>3
<1> QED BY <1>4

LEMMA OneLess ==
  ASSUME NEW U, IsFiniteSet(U), NEW y \in U, NEW n \in Nat, Cardinality(U) = n + 1
  PROVE  IsFiniteSet(U \ {y}) /\ Cardinality(U \ {y}) = n
<1>1. IsFiniteSet(U \ {y}) /\ Cardinality(U \ {y}) = Cardinality(U) - 1
  BY FS_RemoveElement
<1>2. n + 1 - 1 = n
  BY SMT
<1> QED BY <1>1, <1>2

LEMMA FiniteBounded ==
  ASSUME NEW T, T \in SUBSET Nat, IsFiniteSet(T)
  PROVE  \E b \in Nat : \A x \in T : x <= b
<1> DEFINE S == {n \in Nat : \A U \in SUBSET Nat : IsFiniteSet(U) /\ Cardinality(U) = n
                                  => \E b \in Nat : \A x \in U : x <= b}
<1>1. 0 \in S
  BY FS_EmptySet
<1>2. ASSUME NEW n \in Nat, n \in S PROVE n + 1 \in S
  <2>1. ASSUME NEW U \in SUBSET Nat, IsFiniteSet(U), Cardinality(U) = n + 1
        PROVE  \E b \in Nat : \A x \in U : x <= b
    <3>1. U # {}
      BY <2>1, FS_EmptySet
    <3>2. PICK y \in U : TRUE
      BY <3>1
    <3>3. IsFiniteSet(U \ {y}) /\ Cardinality(U \ {y}) = n
      BY <2>1, OneLess
    <3>4. PICK b \in Nat : \A x \in U \ {y} : x <= b
      BY <1>2, <3>3
    <3>5. CASE y <= b
      BY <3>4, <3>5
    <3>6. CASE b < y
      BY <3>4, <3>6
    <3> QED BY <3>5, <3>6
  <2> QED BY <1>2, <2>1
<1>3. \A n \in Nat : n \in S
  <2> HIDE DEF S
  <2> QED BY <1>1, <1>2, SetInduction
<1>4. Cardinality(T) \in Nat
  BY FS_CardinalityType
<1> QED BY <1>3, <1>4

LEMMA MaxIs ==
  ASSUME NEW S \in SUBSET Nat, S # {}, NEW b \in Nat, \A x \in S : x <= b
  PROVE  Market!Max(S) \in S /\ \A x \in S : x <= Market!Max(S)
<1>1. PICK m \in S : \A x \in S : x <= m
  BY GreatestElement
<1>2. \A x \in S : m >= x
  BY <1>1
<1>3. Market!Max(S) = CHOOSE x \in S : \A y \in S : x >= y
  BY DEF Market!Max
<1>4. Market!Max(S) \in S /\ \A y \in S : Market!Max(S) >= y
  BY <1>2, <1>3
<1> QED BY <1>4

LEMMA MinIs ==
  ASSUME NEW S \in SUBSET Nat, S # {}
  PROVE  Market!Min(S) \in S /\ \A x \in S : Market!Min(S) <= x
<1>1. PICK m \in S : \A x \in S : m <= x
  BY LeastElement
<1>2. Market!Min(S) = CHOOSE x \in S : \A y \in S : x <= y
  BY DEF Market!Min
<1> QED BY <1>1, <1>2

\* Rows have a first and a last one.
LEMMA EarlierOrders ==
  ASSUME NEW s \in Market!Trades, NEW t \in Market!Trades
  PROVE  /\ Market!Earlier(s, t) => ~Market!Earlier(t, s) /\ s.at <= t.at
         /\ s.id # t.id => Market!Earlier(s, t) \/ Market!Earlier(t, s)
         /\ s.at < t.at => Market!Earlier(s, t)
         /\ \A r \in Market!Trades : Market!Earlier(r, s) /\ Market!Earlier(s, t)
                                       => Market!Earlier(r, t)
  BY TradeTyped DEF Market!Earlier

LEMMA FirstIs ==
  ASSUME NEW ts, Rows(ts), ts # {}
  PROVE  /\ Market!First(ts) \in ts
         /\ \A s \in ts \ {Market!First(ts)} : Market!Earlier(Market!First(ts), s)
<1> DEFINE A == {t.at : t \in ts}
<1>1. ts \subseteq Market!Trades /\ \A s, t \in ts : s.id = t.id => s = t
  BY DEF Rows
<1>2. A \in SUBSET Nat /\ A # {}
  BY <1>1, TradeTyped
<1>3. PICK a \in A : \A x \in A : a <= x
  <2> HIDE DEF A
  <2> QED BY <1>2, LeastElement
<1> DEFINE us == {t \in ts : t.at = a}
           I == {t.id : t \in us}
<1>4. I \in SUBSET Nat /\ I # {}
  BY <1>1, TradeTyped
<1>5. PICK i \in I : \A x \in I : i <= x
  <2> HIDE DEF I
  <2> QED BY <1>4, LeastElement
<1>6. PICK t \in us : t.id = i
  OBVIOUS
<1>7. ASSUME NEW s \in ts \ {t} PROVE Market!Earlier(t, s)
  <2>1. s.id # t.id /\ s \in Market!Trades /\ t \in Market!Trades
    BY <1>1
  <2>2. a <= s.at /\ t.at = a
    BY <1>3
  <2>3. s.at = a => t.id <= s.id
    BY <1>5, <1>6
  <2> QED BY <2>1, <2>2, <2>3, TradeTyped DEF Market!Earlier
<1>8. Market!First(ts) = CHOOSE x \in ts : \A s \in ts \ {x} : Market!Earlier(x, s)
  BY DEF Market!First
<1> QED BY <1>7, <1>8

LEMMA LastIs ==
  ASSUME NEW ts, Rows(ts), ts # {}
  PROVE  /\ Market!Last(ts) \in ts
         /\ \A s \in ts \ {Market!Last(ts)} : Market!Earlier(s, Market!Last(ts))
<1> DEFINE A == {t.at : t \in ts}
<1>1. ts \subseteq Market!Trades /\ \A s, t \in ts : s.id = t.id => s = t
  BY DEF Rows
<1>2. A \in SUBSET Nat /\ A # {} /\ \A x \in A : x <= LastTime
  BY <1>1, TradeTyped
<1>3. PICK a \in A : \A x \in A : x <= a
  <2> HIDE DEF A
  <2> QED BY <1>2, DataAssumption, GreatestElement
<1> DEFINE us == {t \in ts : t.at = a}
           I == {t.id : t \in us}
<1>4. I \in SUBSET Nat /\ I # {} /\ \A x \in I : x <= MaxTrades
  BY <1>1, TradeTyped
<1>5. PICK i \in I : \A x \in I : x <= i
  <2> HIDE DEF I
  <2> QED BY <1>4, DataAssumption, GreatestElement
<1>6. PICK t \in us : t.id = i
  OBVIOUS
<1>7. ASSUME NEW s \in ts \ {t} PROVE Market!Earlier(s, t)
  <2>1. s.id # t.id /\ s \in Market!Trades /\ t \in Market!Trades
    BY <1>1
  <2>2. s.at <= a /\ t.at = a
    BY <1>3
  <2>3. s.at = a => s.id <= t.id
    BY <1>5, <1>6
  <2> QED BY <2>1, <2>2, <2>3, TradeTyped DEF Market!Earlier
<1>8. Market!Last(ts) = CHOOSE x \in ts : \A s \in ts \ {x} : Market!Earlier(s, x)
  BY DEF Market!Last
<1> QED BY <1>7, <1>8

\* The last row is told by coming after all others.
LEMMA LastOnly ==
  ASSUME NEW ts, Rows(ts), NEW t \in ts, \A s \in ts \ {t} : Market!Earlier(s, t)
  PROVE  Market!Last(ts) = t
<1>1. /\ Market!Last(ts) \in ts
      /\ \A s \in ts \ {Market!Last(ts)} : Market!Earlier(s, Market!Last(ts))
  BY LastIs
<1>2. \A s \in ts : s \in Market!Trades
  BY DEF Rows
<1> QED BY <1>1, <1>2, EarlierOrders

LEMMA FirstOnly ==
  ASSUME NEW ts, Rows(ts), NEW t \in ts, \A s \in ts \ {t} : Market!Earlier(t, s)
  PROVE  Market!First(ts) = t
<1>1. /\ Market!First(ts) \in ts
      /\ \A s \in ts \ {Market!First(ts)} : Market!Earlier(Market!First(ts), s)
  BY FirstIs
<1>2. \A s \in ts : s \in Market!Trades
  BY DEF Rows
<1> QED BY <1>1, <1>2, EarlierOrders

\* What the trades amount to, trade by trade.
AmountAt(ts) ==
  [i \in Nat |-> IF \E t \in ts : t.id = i THEN (CHOOSE t \in ts : t.id = i).amount ELSE 0]

LEMMA RowsSubset ==
  ASSUME NEW ts, Rows(ts), NEW us \in SUBSET ts
  PROVE  Rows(us)
<1>1. IsFiniteSet(us)
  BY FS_Subset DEF Rows
<1> QED BY <1>1 DEF Rows

LEMMA AmountTyped ==
  ASSUME NEW ts, Rows(ts)
  PROVE  /\ \A i \in Nat : AmountAt(ts)[i] \in Nat
         /\ Market!Volume(ts) = SumTo(AmountAt(ts), MaxTrades)
         /\ Market!Volume(ts) \in Nat
<1>1. ASSUME NEW i \in Nat PROVE AmountAt(ts)[i] \in Nat
  <2>1. CASE \E t \in ts : t.id = i
    <3>1. (CHOOSE t \in ts : t.id = i) \in ts
      BY <2>1
    <3>2. (CHOOSE t \in ts : t.id = i).amount \in Nat
      BY <3>1, TradeTyped DEF Rows
    <3> QED BY <2>1, <3>2 DEF AmountAt
  <2>2. CASE ~\E t \in ts : t.id = i
    BY <2>2 DEF AmountAt
  <2> QED BY <2>1, <2>2
<1>2. Market!Volume(ts) = SumTo(AmountAt(ts), MaxTrades)
  BY SameSum DEF Market!Volume, AmountAt
<1>3. SumTo(AmountAt(ts), MaxTrades) \in Nat
  BY <1>1, SumToNat, DataAssumption
<1> QED BY <1>1, <1>2, <1>3

LEMMA VolumeAdds ==
  ASSUME NEW ts, NEW t, Rows(ts \cup {t}), t \notin ts
  PROVE  /\ Market!Volume(ts) \in Nat /\ t.amount \in Nat
         /\ Market!Volume(ts \cup {t}) = Market!Volume(ts) + t.amount
<1> DEFINE us == ts \cup {t}
           w == AmountAt(ts)
           v == AmountAt(us)
           k == t.id
<1>1. Rows(us) /\ Rows(ts)
  BY RowsSubset
<1>2. t \in Market!Trades /\ k \in 1..MaxTrades /\ k \in Nat /\ t.amount \in Nat
  BY <1>1, TradeTyped DEF Rows
<1>3. /\ \A i \in Nat : w[i] \in Nat /\ v[i] \in Nat
      /\ Market!Volume(ts) = SumTo(w, MaxTrades) /\ Market!Volume(us) = SumTo(v, MaxTrades)
      /\ Market!Volume(ts) \in Nat
  BY <1>1, AmountTyped
<1>4. \A s \in us : s.id = k => s = t
  BY <1>1 DEF Rows
<1>5. w[k] = 0
  BY <1>2, <1>4 DEF AmountAt
<1>6. v[k] = t.amount
  <2>1. (CHOOSE s \in us : s.id = k) = t
    BY <1>4
  <2> QED BY <1>2, <2>1 DEF AmountAt
<1>7. ASSUME NEW i \in Nat, i # k PROVE w[i] = v[i]
  <2>1. \A s : s \in us /\ s.id = i <=> s \in ts /\ s.id = i
    BY <1>7
  <2>2. (CHOOSE s \in us : s.id = i) = CHOOSE s \in ts : s.id = i
    BY <2>1
  <2> QED BY <2>1, <2>2 DEF AmountAt
<1> HIDE DEF w, v, us, k
<1>8. SumTo(v, MaxTrades) = SumTo(w, MaxTrades) - w[k] + v[k]
  <2>1. \A i \in Nat : w[i] \in Int /\ v[i] \in Int
    BY <1>3
  <2> QED BY <1>2, <1>7, <2>1, DataAssumption, SumToUpdate
<1>9. \A x, y \in Nat : x - 0 + y = x + y
  BY SMT
<1> QED BY <1>2, <1>3, <1>5, <1>6, <1>8, <1>9 DEF us

-----------------------------------------------------------------------------
\* The candle of the trades of one interval, told without going through them.
PricesOf(u) == {t.price : t \in u}
Of(u) ==
  [open |-> Market!First(u).price, high |-> Market!Max(PricesOf(u)),
   low |-> Market!Min(PricesOf(u)), close |-> Market!Last(u).price,
   volume |-> Market!Volume(u), count |-> Cardinality(u)]

LEMMA PricesTyped ==
  ASSUME NEW u, Rows(u), u # {}
  PROVE  /\ PricesOf(u) \in SUBSET Nat /\ PricesOf(u) # {}
         /\ IsFiniteSet(PricesOf(u))
         /\ Market!Max(PricesOf(u)) \in PricesOf(u)
         /\ \A x \in PricesOf(u) : x <= Market!Max(PricesOf(u))
         /\ Market!Min(PricesOf(u)) \in PricesOf(u)
         /\ \A x \in PricesOf(u) : Market!Min(PricesOf(u)) <= x
<1>1. PricesOf(u) \in SUBSET Nat /\ PricesOf(u) # {}
  BY TradeTyped DEF PricesOf, Rows
<1>2. IsFiniteSet(PricesOf(u))
  <2> DEFINE f == [t \in u |-> t.price]
  <2>1. f \in Surjection(u, PricesOf(u))
    BY DEF PricesOf, Surjection
  <2> HIDE DEF f
  <2> QED BY <2>1, FS_Surjection DEF Rows
<1>3. PICK b \in Nat : \A x \in PricesOf(u) : x <= b
  BY <1>1, <1>2, FiniteBounded
<1> QED BY <1>1, <1>2, <1>3, MaxIs, MinIs

LEMMA MaxOnly ==
  ASSUME NEW S \in SUBSET Nat, NEW m \in S, \A x \in S : x <= m
  PROVE  Market!Max(S) = m
<1>1. m \in Nat
  OBVIOUS
<1>2. Market!Max(S) \in S /\ \A x \in S : x <= Market!Max(S)
  BY <1>1, MaxIs
<1>3. Market!Max(S) <= m /\ m <= Market!Max(S) /\ Market!Max(S) \in Nat
  BY <1>2
<1> QED BY <1>1, <1>3

LEMMA MinOnly ==
  ASSUME NEW S \in SUBSET Nat, NEW m \in S, \A x \in S : m <= x
  PROVE  Market!Min(S) = m
<1>1. Market!Min(S) \in S /\ \A x \in S : Market!Min(S) <= x
  BY MinIs
<1>2. Market!Min(S) <= m /\ m <= Market!Min(S) /\ Market!Min(S) \in Nat /\ m \in Nat
  BY <1>1
<1> QED BY <1>2

LEMMA OfOne ==
  ASSUME NEW t, Rows({t})
  PROVE  Of({t}) = Market!Candle(t)
<1>1. Market!First({t}) = t /\ Market!Last({t}) = t
  BY FirstOnly, LastOnly
<1>2. t.price \in Nat
  BY TradeTyped DEF Rows
<1>3. PricesOf({t}) = {t.price}
  BY DEF PricesOf
<1>4. Market!Max({t.price}) = t.price /\ Market!Min({t.price}) = t.price
  BY <1>2, MaxOnly, MinOnly
<1>5. Market!Volume({t}) = t.amount
  <2>1. Rows({} \cup {t}) /\ Rows({}) /\ {} \cup {t} = {t}
    BY RowsSubset
  <2>2. Market!Volume({}) = 0
    <3>1. \A i \in Nat : AmountAt({})[i] = 0
      BY DEF AmountAt
    <3> QED BY <2>1, <3>1, AmountTyped, SumToZero, DataAssumption
  <2>3. t.amount \in Nat /\ Market!Volume({} \cup {t}) = Market!Volume({}) + t.amount
    BY <2>1, VolumeAdds
  <2> QED BY <2>1, <2>2, <2>3
<1>6. Cardinality({t}) = 1
  BY FS_Singleton
<1> QED BY <1>1, <1>3, <1>4, <1>5, <1>6 DEF Of, Market!Candle

LEMMA ExtendedIs ==
  ASSUME NEW o, NEW h, NEW l, NEW c, NEW x, NEW n, NEW t
  PROVE  Market!Extended([open |-> o, high |-> h, low |-> l, close |-> c, volume |-> x,
                          count |-> n], t)
           = [open |-> o, high |-> IF t.price > h THEN t.price ELSE h,
              low |-> IF t.price < l THEN t.price ELSE l, close |-> t.price,
              volume |-> x + t.amount, count |-> n + 1]
<1> DEFINE r == [open |-> o, high |-> h, low |-> l, close |-> c, volume |-> x, count |-> n]
           hi == IF t.price > h THEN t.price ELSE h
           lo == IF t.price < l THEN t.price ELSE l
           cl == t.price
           vo == x + t.amount
           co == n + 1
<1>1. r.high = h /\ r.low = l /\ r.volume = x /\ r.count = n
  OBVIOUS
<1>2. Market!Extended(r, t) = [r EXCEPT !.high = hi, !.low = lo, !.close = cl, !.volume = vo,
                                        !.count = co]
  <2> HIDE DEF r
  <2> QED BY <1>1 DEF Market!Extended, hi, lo, cl, vo, co
<1>3. [r EXCEPT !.high = hi, !.low = lo, !.close = cl, !.volume = vo, !.count = co]
        = [open |-> o, high |-> hi, low |-> lo, close |-> cl, volume |-> vo, count |-> co]
  <2> HIDE DEF hi, lo, cl, vo, co
  <2> DEFINE r1 == [r EXCEPT !.high = hi]
             r2 == [r1 EXCEPT !.low = lo]
             r3 == [r2 EXCEPT !.close = cl]
             r4 == [r3 EXCEPT !.volume = vo]
             r5 == [r4 EXCEPT !.count = co]
  <2>1. r1 = [open |-> o, high |-> hi, low |-> l, close |-> c, volume |-> x, count |-> n]
    OBVIOUS
  <2> HIDE DEF r1
  <2>2. r2 = [open |-> o, high |-> hi, low |-> lo, close |-> c, volume |-> x, count |-> n]
    BY <2>1
  <2> HIDE DEF r2
  <2>3. r3 = [open |-> o, high |-> hi, low |-> lo, close |-> cl, volume |-> x, count |-> n]
    BY <2>2
  <2> HIDE DEF r3
  <2>4. r4 = [open |-> o, high |-> hi, low |-> lo, close |-> cl, volume |-> vo, count |-> n]
    BY <2>3
  <2> HIDE DEF r4
  <2>5. r5 = [open |-> o, high |-> hi, low |-> lo, close |-> cl, volume |-> vo, count |-> co]
    BY <2>4
  <2> QED BY <2>5 DEF r1, r2, r3, r4
<1> HIDE DEF r, hi, lo, cl, vo, co
<1>4. Market!Extended(r, t)
        = [open |-> o, high |-> hi, low |-> lo, close |-> cl, volume |-> vo, count |-> co]
  BY <1>2, <1>3, Zenon
<1> QED BY <1>4, Zenon DEF r, hi, lo, cl, vo, co

LEMMA OfExtended ==
  ASSUME NEW u, NEW t, Rows(u \cup {t}), t \notin u, u # {},
         \A s \in u : Market!Earlier(s, t)
  PROVE  Of(u \cup {t}) = Market!Extended(Of(u), t)
<1> DEFINE v == u \cup {t}
           f == Market!First(u)
           p == t.price
           hi == Market!Max(PricesOf(u))
           lo == Market!Min(PricesOf(u))
<1>1. Rows(v) /\ Rows(u) /\ t \in Market!Trades /\ u \subseteq Market!Trades /\ v # {}
  BY RowsSubset DEF Rows
<1>2. Market!Last(v) = t
  BY <1>1, LastOnly
<1>3. Market!First(v) = f
  <2>1. f \in u /\ \A s \in u \ {f} : Market!Earlier(f, s)
    BY <1>1, FirstIs
  <2>2. \A s \in v \ {f} : Market!Earlier(f, s)
    BY <2>1
  <2> HIDE DEF f
  <2> QED BY <1>1, <2>1, <2>2, FirstOnly
<1>4. p \in Nat /\ PricesOf(v) = PricesOf(u) \cup {p} /\ PricesOf(v) \in SUBSET Nat
  BY <1>1, TradeTyped, PricesTyped DEF PricesOf
<1>5. /\ hi \in PricesOf(u) /\ \A x \in PricesOf(u) : x <= hi
      /\ lo \in PricesOf(u) /\ \A x \in PricesOf(u) : lo <= x
      /\ PricesOf(u) \in SUBSET Nat /\ hi \in Nat /\ lo \in Nat
  BY <1>1, PricesTyped
<1> HIDE DEF hi, lo, p
<1>6. Market!Max(PricesOf(v)) = IF p > hi THEN p ELSE hi
  <2>1. CASE p > hi
    <3>1. \A x \in PricesOf(v) : x <= p
      BY <1>4, <1>5, <2>1
    <3> QED BY <1>4, <2>1, <3>1, MaxOnly
  <2>2. CASE ~(p > hi)
    <3>1. \A x \in PricesOf(v) : x <= hi
      BY <1>4, <1>5, <2>2
    <3> QED BY <1>4, <1>5, <2>2, <3>1, MaxOnly
  <2> QED BY <2>1, <2>2
<1>7. Market!Min(PricesOf(v)) = IF p < lo THEN p ELSE lo
  <2>1. CASE p < lo
    <3>1. \A x \in PricesOf(v) : p <= x
      BY <1>4, <1>5, <2>1
    <3> QED BY <1>4, <2>1, <3>1, MinOnly
  <2>2. CASE ~(p < lo)
    <3>1. \A x \in PricesOf(v) : lo <= x
      BY <1>4, <1>5, <2>2
    <3> QED BY <1>4, <1>5, <2>2, <3>1, MinOnly
  <2> QED BY <2>1, <2>2
<1>8. Market!Volume(v) = Market!Volume(u) + t.amount
  BY <1>1, VolumeAdds
<1>9. Cardinality(v) = Cardinality(u) + 1
  BY <1>1, FS_AddElement DEF Rows
<1>10. Of(u) = [open |-> f.price, high |-> hi, low |-> lo, close |-> Market!Last(u).price,
               volume |-> Market!Volume(u), count |-> Cardinality(u)]
  BY DEF Of, f, hi, lo
<1>11. Of(v) = [open |-> f.price, high |-> IF p > hi THEN p ELSE hi,
               low |-> IF p < lo THEN p ELSE lo, close |-> p,
               volume |-> Market!Volume(u) + t.amount, count |-> Cardinality(u) + 1]
  BY <1>2, <1>3, <1>6, <1>7, <1>8, <1>9 DEF Of, p
<1> HIDE DEF f, v
<1>12. Market!Extended(Of(u), t) = Of(v)
  BY <1>10, <1>11, ExtendedIs DEF p
<1> QED BY <1>12 DEF v

\* The trades of the interval that begins at s, and a candle of each interval that
\* has any.
At(ts, s) == {t \in ts : Market!Start(t) = s}
Starts(ts) == {Market!Start(t) : t \in ts}
Chart(ts) == IF ts = {} THEN <<>> ELSE [s \in Starts(ts) |-> Of(At(ts, s))]

LEMMA ChartDomain ==
  ASSUME NEW ts
  PROVE  /\ DOMAIN Chart(ts) = Starts(ts)
         /\ \A s \in Starts(ts) : Chart(ts)[s] = Of(At(ts, s))
         /\ \A s : s \in Starts(ts) <=> At(ts, s) # {}
<1>1. CASE ts = {}
  <2>1. Starts(ts) = {} /\ \A s : At(ts, s) = {}
    BY <1>1 DEF Starts, At
  <2>2. DOMAIN Chart(ts) = {}
    BY <1>1 DEF Chart
  <2> QED BY <2>1, <2>2
<1>2. CASE ts # {}
  BY <1>2 DEF Chart, Starts, At
<1> QED BY <1>1, <1>2

LEMMA AddedLast ==
  ASSUME NEW ts, Rows(ts), ts # {}
  PROVE  Chart(ts) = Market!Added(Chart(ts \ {Market!Last(ts)}), Market!Last(ts))
<1> DEFINE t == Market!Last(ts)
           us == ts \ {t}
           z == Market!Start(t)
           cs == Chart(us)
<1>1. t \in ts /\ \A s \in us : Market!Earlier(s, t)
  BY LastIs
<1>2. Rows(us) /\ \A s : Rows(At(ts, s)) /\ Rows(At(us, s))
  BY RowsSubset DEF At
<1> HIDE DEF t
<1>3. Starts(ts) = Starts(us) \cup {z}
  BY <1>1 DEF Starts
<1>4. /\ DOMAIN cs = Starts(us) /\ \A s \in Starts(us) : cs[s] = Of(At(us, s))
      /\ \A s : s \in Starts(us) <=> At(us, s) # {}
  BY ChartDomain
<1>5. \A s : s # z => At(ts, s) = At(us, s)
  BY DEF At
<1>6. At(ts, z) = At(us, z) \cup {t} /\ t \notin At(us, z)
  BY <1>1 DEF At
<1>7. Of(At(ts, z)) = IF z \in DOMAIN cs THEN Market!Extended(cs[z], t) ELSE Market!Candle(t)
  <2>1. CASE z \in DOMAIN cs
    <3>1. At(us, z) # {} /\ cs[z] = Of(At(us, z))
      BY <1>4, <2>1
    <3>2. \A s \in At(us, z) : Market!Earlier(s, t)
      BY <1>1 DEF At
    <3>3. Rows(At(us, z) \cup {t})
      BY <1>2, <1>6
    <3> HIDE DEF z, us, cs
    <3>4. Of(At(us, z) \cup {t}) = Market!Extended(Of(At(us, z)), t)
      BY <1>6, <3>1, <3>2, <3>3, OfExtended
    <3> QED BY <1>6, <2>1, <3>1, <3>4
  <2>2. CASE z \notin DOMAIN cs
    <3>1. At(ts, z) = {t}
      BY <1>4, <1>6, <2>2
    <3>2. Rows({t})
      BY <1>2, <3>1
    <3> QED BY <2>2, <3>1, <3>2, OfOne
  <2> QED BY <2>1, <2>2
<1> HIDE DEF z, us, cs
<1>8. Market!Added(cs, t)
        = [s \in DOMAIN cs \cup {z} |->
             IF s # z THEN cs[s]
             ELSE IF s \in DOMAIN cs THEN Market!Extended(cs[s], t) ELSE Market!Candle(t)]
  BY DEF Market!Added, z
<1>9. \A s \in Starts(ts) :
        Of(At(ts, s)) = IF s # z THEN cs[s]
                        ELSE IF s \in DOMAIN cs THEN Market!Extended(cs[s], t)
                        ELSE Market!Candle(t)
  BY <1>3, <1>4, <1>5, <1>7
<1>10. Market!Added(cs, t) = [s \in Starts(ts) |-> Of(At(ts, s))]
  BY <1>3, <1>4, <1>8, <1>9
<1>11. Chart(ts) = Market!Added(cs, t)
  BY <1>10 DEF Chart
<1> QED BY <1>11 DEF cs, us, t

\* Drawing the candles trade by trade ends with the chart.
IsDrawn(c, ts) ==
  c = [u \in SUBSET ts |-> IF u = {} THEN <<>>
         ELSE Market!Added(c[u \ {Market!Last(u)}], Market!Last(u))]

LEMMA DrawnExists ==
  ASSUME NEW ts, Rows(ts)
  PROVE  IsDrawn([u \in SUBSET ts |-> Chart(u)], ts)
<1> DEFINE f == [u \in SUBSET ts |-> Chart(u)]
<1>1. ASSUME NEW u \in SUBSET ts, u # {}
      PROVE  Chart(u) = Market!Added(f[u \ {Market!Last(u)}], Market!Last(u))
  <2>1. Rows(u)
    BY RowsSubset
  <2>2. f[u \ {Market!Last(u)}] = Chart(u \ {Market!Last(u)})
    OBVIOUS
  <2> QED BY <1>1, <2>1, <2>2, AddedLast
<1>2. Chart({}) = <<>>
  BY DEF Chart
<1> HIDE DEF f
<1>3. \A u \in SUBSET ts :
        Chart(u) = IF u = {} THEN <<>>
                   ELSE Market!Added(f[u \ {Market!Last(u)}], Market!Last(u))
  BY <1>1, <1>2
<1>4. [u \in SUBSET ts |-> Chart(u)]
        = [u \in SUBSET ts |-> IF u = {} THEN <<>>
             ELSE Market!Added(f[u \ {Market!Last(u)}], Market!Last(u))]
  BY <1>3
<1> QED BY <1>4 DEF IsDrawn, f

LEMMA DrawnUnique ==
  ASSUME NEW ts, Rows(ts), NEW c, IsDrawn(c, ts)
  PROVE  \A u \in SUBSET ts : c[u] = Chart(u)
<1> DEFINE S == {n \in Nat : \A u \in SUBSET ts : Cardinality(u) = n => c[u] = Chart(u)}
<1>1. \A u \in SUBSET ts : Rows(u) /\ IsFiniteSet(u) /\ Cardinality(u) \in Nat
  <2>1. \A u \in SUBSET ts : Rows(u)
    BY RowsSubset
  <2> QED BY <2>1, FS_CardinalityType DEF Rows
<1>2. \A u \in SUBSET ts :
        c[u] = IF u = {} THEN <<>>
               ELSE Market!Added(c[u \ {Market!Last(u)}], Market!Last(u))
  BY Zenon DEF IsDrawn
<1>3. 0 \in S
  <2>1. ASSUME NEW u \in SUBSET ts, Cardinality(u) = 0 PROVE c[u] = Chart(u)
    <3>1. u = {}
      BY <1>1, <2>1, FS_EmptySet
    <3> QED BY <1>2, <3>1 DEF Chart
  <2> QED BY <2>1
<1>4. ASSUME NEW n \in Nat, n \in S PROVE n + 1 \in S
  <2>1. ASSUME NEW u \in SUBSET ts, Cardinality(u) = n + 1 PROVE c[u] = Chart(u)
    <3> DEFINE t == Market!Last(u)
    <3>1. u # {}
      BY <2>1, FS_EmptySet
    <3>2. t \in u
      BY <1>1, <3>1, LastIs
    <3>3. Chart(u) = Market!Added(Chart(u \ {t}), t)
      BY <1>1, <3>1, AddedLast
    <3>4. c[u] = Market!Added(c[u \ {t}], t)
      BY <1>2, <3>1
    <3> HIDE DEF t
    <3>5. Cardinality(u \ {t}) = n
      BY <1>1, <2>1, <3>2, OneLess
    <3>6. c[u \ {t}] = Chart(u \ {t})
      BY <1>4, <3>5
    <3> QED BY <3>3, <3>4, <3>6
  <2> QED BY <1>4, <2>1
<1>5. \A n \in Nat : n \in S
  <2> HIDE DEF S
  <2> QED BY <1>3, <1>4, SetInduction
<1> QED BY <1>1, <1>5

\* What the chart shows is told by the trades of each interval.
LEMMA CandlesAre ==
  ASSUME NEW ts, Rows(ts)
  PROVE  Market!Candles(ts) = Chart(ts)
<1> DEFINE c == Market!Drawn(ts)
<1>1. c = CHOOSE d : IsDrawn(d, ts)
  BY DEF Market!Drawn, IsDrawn
<1>2. IsDrawn(c, ts)
  BY <1>1, DrawnExists
<1> HIDE DEF c
<1>3. c[ts] = Chart(ts)
  BY <1>2, DrawnUnique
<1> QED BY <1>3 DEF Market!Candles, c

LEMMA CandleAtIs ==
  ASSUME NEW ts, Rows(ts), NEW s
  PROVE  Market!CandleAt(ts, s) = IF At(ts, s) # {} THEN Of(At(ts, s)) ELSE NoTrade
  BY CandlesAre, ChartDomain DEF Market!CandleAt

-----------------------------------------------------------------------------
\* A trade is stamped with the time its placement began at, which is over.
PrintTypes ==
  /\ time \in 0..LastTime
  /\ began \in [Placements -> 0..time \cup {NoTrade}]
  /\ Rows(trades)

LEMMA FillsAre ==
  ASSUME NEW a \in 0..LastTime, NEW new \in Market!FillSets(a), Rows(trades)
  PROVE  Rows(trades \cup new) /\ \A t \in new : t.at = a
<1> DEFINE free == Market!Ids \ {s.id : s \in trades}
           fills == {[at |-> a, id |-> i, price |-> x, amount |-> n] :
                       i \in free, x \in Prices, n \in Amounts}
<1>1. \A t \in fills : /\ t \in Market!Trades /\ t.at = a
                       /\ \A s \in trades : s.id # t.id
  <2>1. ASSUME NEW i \in free, NEW x \in Prices, NEW n \in Amounts,
               NEW t, t = [at |-> a, id |-> i, price |-> x, amount |-> n]
        PROVE  t \in Market!Trades /\ t.at = a /\ t.id \in free
    <3>1. t.id \in free
      BY <2>1, Zenon
    <3> QED BY <2>1, <3>1 DEF Market!Trades
  <2>2. \A t \in fills : t \in Market!Trades /\ t.at = a /\ t.id \in free
    BY <2>1
  <2>3. \A i \in free : \A s \in trades : s.id # i
    OBVIOUS
  <2> HIDE DEF free, fills
  <2> QED BY <2>2, <2>3
<1>2. \/ new = {}
      \/ \E s \in fills : new = {s}
      \/ \E r, s \in fills : new = {r, s} /\ Market!Cardinality({q.id : q \in new}) = 2
  <2>1. Market!FillSets(a)
          = {{}} \cup {{s} : s \in fills}
            \cup {f \in {{r, s} : r \in fills, s \in fills} :
                    Market!Cardinality({q.id : q \in f}) = 2}
    BY DEF Market!FillSets
  <2> HIDE DEF fills
  <2> DEFINE pairs == {{r, s} : r \in fills, s \in fills}
             twos == {f \in pairs : Market!Cardinality({q.id : q \in f}) = 2}
  <2>2. new = {} \/ new \in {{s} : s \in fills} \/ new \in twos
    <3> HIDE DEF twos
    <3> QED BY <2>1 DEF twos
  <2>3. new \in twos => new \in pairs /\ Market!Cardinality({q.id : q \in new}) = 2
    OBVIOUS
  <2>4. new \in pairs => \E r, s \in fills : new = {r, s}
    OBVIOUS
  <2> HIDE DEF twos, pairs
  <2> QED BY <2>2, <2>3, <2>4
<1> HIDE DEF fills
<1>3. CASE new = {}
  <2>1. trades \cup new = trades
    BY <1>3
  <2> QED BY <1>3, <2>1
<1>4. CASE \E s \in fills : new = {s}
  <2>1. PICK s \in fills : new = {s}
    BY <1>4
  <2>2. IsFiniteSet(trades \cup new)
    BY <2>1, FS_AddElement DEF Rows
  <2>3. \A r, t \in trades \cup new : r.id = t.id => r = t
    BY <1>1, <2>1 DEF Rows
  <2>4. trades \cup new \subseteq Market!Trades
    BY <1>1, <2>1 DEF Rows
  <2>5. Rows(trades \cup new)
    BY <2>2, <2>3, <2>4 DEF Rows
  <2> QED BY <1>1, <2>1, <2>5
<1>5. CASE \E r, s \in fills : new = {r, s} /\ Market!Cardinality({q.id : q \in new}) = 2
  <2>1. PICK r \in fills, s \in fills :
          new = {r, s} /\ Market!Cardinality({q.id : q \in new}) = 2
    BY <1>5
  <2>2. r.id # s.id
    <3>1. ASSUME r.id = s.id PROVE FALSE
      <4>1. {q.id : q \in new} = {r.id}
        BY <2>1, <3>1
      <4>2. Cardinality({r.id}) = 1
        BY FS_Singleton
      <4> QED BY <2>1, <4>1, <4>2, SameCount
    <3> QED BY <3>1
  <2>3. IsFiniteSet(trades \cup new)
    <3>1. IsFiniteSet(trades \cup {r})
      BY FS_AddElement DEF Rows
    <3>2. IsFiniteSet((trades \cup {r}) \cup {s})
      BY <3>1, FS_AddElement
    <3>3. (trades \cup {r}) \cup {s} = trades \cup new
      BY <2>1
    <3> QED BY <3>2, <3>3
  <2>4. \A q, t \in trades \cup new : q.id = t.id => q = t
    BY <1>1, <2>1, <2>2 DEF Rows
  <2>5. trades \cup new \subseteq Market!Trades
    BY <1>1, <2>1 DEF Rows
  <2>6. Rows(trades \cup new)
    BY <2>3, <2>4, <2>5 DEF Rows
  <2> QED BY <1>1, <2>1, <2>6
<1> QED BY <1>2, <1>3, <1>4, <1>5

LEMMA CommitStamps ==
  ASSUME PrintTypes, NEW p \in Placements, NEW new \in Market!FillSets(began[p]),
         Market!Commit(p, new)
  PROVE  /\ began[p] \in 0..time /\ Rows(trades')
         /\ trades' = trades \cup new /\ \A t \in new : t.at = began[p]
<1>1. began[p] # NoTrade /\ trades' = trades \cup new
  BY DEF Market!Commit
<1>2. began[p] \in 0..time /\ began[p] \in 0..LastTime
  BY <1>1, DataAssumption DEF PrintTypes
<1> QED BY <1>1, <1>2, FillsAre DEF PrintTypes

LEMMA PrintInit == Market!Init => PrintTypes
<1> SUFFICES ASSUME Market!Init PROVE PrintTypes
  OBVIOUS
<1>1. Rows({})
  BY FS_EmptySet DEF Rows
<1> QED BY <1>1, DataAssumption DEF Market!Init, PrintTypes

LEMMA PrintStep == PrintTypes /\ [Market!Next]_prints => PrintTypes'
<1> SUFFICES ASSUME PrintTypes, [Market!Next]_prints PROVE PrintTypes'
  OBVIOUS
<1>1. ASSUME UNCHANGED <<time, began, trades>> PROVE PrintTypes'
  BY <1>1 DEF PrintTypes, Rows
<1>2. CASE Market!Ask
  BY <1>1, <1>2 DEF Market!Ask
<1>3. CASE Market!Tick
  <2>1. /\ time < LastTime /\ time' = time + 1 /\ began' = began /\ trades' = trades
    BY <1>3 DEF Market!Tick
  <2>2. time' \in 0..LastTime /\ 0..time \subseteq 0..time'
    BY <2>1, DataAssumption DEF PrintTypes
  <2>3. began' \in [Placements -> 0..time' \cup {NoTrade}]
    BY <2>1, <2>2 DEF PrintTypes
  <2> QED BY <2>1, <2>2, <2>3 DEF PrintTypes, Rows
<1>4. ASSUME NEW q \in Market!Queries, Market!Query(q) PROVE PrintTypes'
  BY <1>1, <1>4 DEF Market!Query
<1>5. ASSUME NEW p \in Placements, Market!Begin(p) PROVE PrintTypes'
  <2>1. /\ began' = [began EXCEPT ![p] = time] /\ time' = time /\ trades' = trades
    BY <1>5 DEF Market!Begin
  <2>2. time \in 0..time
    BY DataAssumption DEF PrintTypes
  <2> QED BY <2>1, <2>2 DEF PrintTypes, Rows
<1>6. ASSUME NEW p \in Placements, NEW new \in Market!FillSets(began[p]), Market!Commit(p, new)
      PROVE  PrintTypes'
  <2>1. began' = [began EXCEPT ![p] = NoTrade] /\ time' = time
    BY <1>6 DEF Market!Commit
  <2>2. Rows(trades')
    BY <1>6, CommitStamps
  <2> QED BY <2>1, <2>2 DEF PrintTypes, Rows
<1>7. CASE UNCHANGED prints
  BY <1>1, <1>7 DEF prints
<1> QED BY <1>2, <1>3, <1>4, <1>5, <1>6, <1>7 DEF Market!Next

LEMMA PrintsHold == Market!Spec => []PrintTypes
<1>1. UNCHANGED prints <=> UNCHANGED Market!data
  BY DEF prints, Market!data
<1> QED BY PrintInit, PrintStep, <1>1, PTL DEF Market!Spec

\* What a step adds belongs to no interval that has settled.
LEMMA SettledStays ==
  ASSUME PrintTypes, Market!Next, NEW k \in Nat, Market!Settled(k * Interval)
  PROVE  Rows(trades') /\ At(trades', k * Interval) = At(trades, k * Interval)
<1>1. CASE UNCHANGED trades
  BY <1>1 DEF PrintTypes, Rows, At
<1>2. CASE \E p \in Placements : \E new \in Market!FillSets(began[p]) : Market!Commit(p, new)
  <2>1. PICK p \in Placements : \E new \in Market!FillSets(began[p]) : Market!Commit(p, new)
    BY <1>2
  <2>2. PICK new \in Market!FillSets(began[p]) : Market!Commit(p, new)
    BY <2>1
  <2>3. /\ began[p] \in 0..time /\ Rows(trades')
        /\ trades' = trades \cup new /\ \A t \in new : t.at = began[p]
    BY <2>2, CommitStamps
  <2>4. began[p] # NoTrade
    BY <2>2 DEF Market!Commit
  <2>5. began[p] \notin (k * Interval)..(k * Interval + Interval - 1)
    BY <2>4 DEF Market!Settled
  <2>6. \A t \in new : t \in Market!Trades
    BY <2>3 DEF Rows
  <2>7. ASSUME NEW t \in new PROVE Market!Start(t) # k * Interval
    BY <2>3, <2>5, <2>6, SameInterval
  <2>8. At(trades \cup new, k * Interval) = At(trades, k * Interval)
    BY <2>7 DEF At
  <2>9. At(trades', k * Interval) = At(trades \cup new, k * Interval)
    BY <2>3 DEF At
  <2> QED BY <2>3, <2>8, <2>9
<1> QED BY <1>1, <1>2 DEF Market!Next, Market!Ask, Market!Tick, Market!Query, Market!Begin

\* Once its interval has passed and the placements that began in it have ended, no
\* commit changes a candle (getCandles), however many trades come late.
THEOREM SettledCandlesStay == Market!Spec => CandlesSettle
<1>1. PrintTypes /\ [Market!Next]_prints =>
        [\A k \in 0..(LastTime \div Interval) :
           Market!Settled(k * Interval)
             => Market!CandleAt(trades', k * Interval)
                  = Market!CandleAt(trades, k * Interval)]_prints
  <2> SUFFICES ASSUME PrintTypes, Market!Next, NEW k \in 0..(LastTime \div Interval),
                      Market!Settled(k * Interval)
               PROVE  Market!CandleAt(trades', k * Interval)
                        = Market!CandleAt(trades, k * Interval)
    OBVIOUS
  <2>1. k \in Nat
    <3>1. LastTime \div Interval \in Nat
      BY DataAssumption, Division
    <3> QED BY <3>1
  <2>2. Rows(trades') /\ At(trades', k * Interval) = At(trades, k * Interval)
    BY <2>1, SettledStays
  <2>3. Rows(trades)
    BY DEF PrintTypes
  <2>4. \A ts, s : Rows(ts) => Market!CandleAt(ts, s)
                                 = IF At(ts, s) # {} THEN Of(At(ts, s)) ELSE NoTrade
    BY CandleAtIs
  <2> QED BY <2>2, <2>3, <2>4
<1>2. UNCHANGED prints <=> UNCHANGED Market!data
  BY DEF prints, Market!data
<1> QED BY <1>1, <1>2, PrintsHold, PTL DEF Market!Spec, CandlesSettle, Market!CandlesSettle

-----------------------------------------------------------------------------
\* A trade is at or after the beginning of an interval when its own interval is.
LEMMA IntervalsOrdered ==
  ASSUME NEW t \in Market!Trades, NEW k \in Nat
  PROVE  k * Interval <= t.at <=> k * Interval <= Market!Start(t)
<1>1. Interval \in Nat \ {0}
  BY DataAssumption
<1> DEFINE q == t.at \div Interval
<1>2. /\ q \in Nat /\ Market!Start(t) = q * Interval
      /\ q * Interval <= t.at /\ t.at < q * Interval + Interval /\ t.at \in Nat
  BY StartBounds, TradeTyped
<1> HIDE DEF q
<1>3. k * Interval \in Nat /\ q * Interval \in Nat
  BY <1>1, <1>2, ProductNat
<1>4. ASSUME q < k PROVE q * Interval + Interval <= k * Interval
  <2>1. (q + 1) * Interval <= k * Interval
    BY <1>1, <1>2, <1>4, Monotone
  <2>2. (q + 1) * Interval = q * Interval + Interval
    BY <1>1, <1>2, SMT
  <2> QED BY <2>1, <2>2
<1>5. ASSUME k <= q PROVE k * Interval <= q * Interval
  BY <1>1, <1>2, <1>5, Monotone
<1> DEFINE a == t.at
           x == q * Interval
           y == k * Interval
<1>6. a \in Nat /\ x \in Nat /\ y \in Nat /\ x <= a /\ a < x + Interval
  BY <1>2, <1>3
<1>7. (q < k => x + Interval <= y) /\ (k <= q => y <= x)
  BY <1>4, <1>5
<1> HIDE DEF a, x, y
<1>8. y <= a <=> y <= x
  BY <1>1, <1>2, <1>6, <1>7
<1> QED BY <1>2, <1>8 DEF a, x, y

LEMMA StartsOrdered ==
  ASSUME NEW s \in Market!Trades, NEW t \in Market!Trades, s.at <= t.at
  PROVE  Market!Start(s) <= Market!Start(t)
<1> DEFINE k == s.at \div Interval
<1>1. k \in Nat /\ Market!Start(s) = k * Interval /\ k * Interval <= s.at /\ k * Interval \in Nat
  BY StartBounds
<1>2. s.at \in Nat /\ t.at \in Nat
  BY TradeTyped
<1> HIDE DEF k
<1>3. k * Interval <= t.at
  BY <1>1, <1>2
<1> QED BY <1>1, <1>3, IntervalsOrdered

\* A window that begins with an interval has whole intervals.
LEMMA Aligned ==
  ASSUME NEW t \in Market!Trades, NEW from \in Int, from % Interval = 0
  PROVE  t.at >= from <=> Market!Start(t) >= from
<1>1. t.at \in Nat /\ Market!Start(t) \in Nat
  BY TradeTyped, StartBounds
<1>2. CASE from < 0
  BY <1>1, <1>2
<1>3. CASE from >= 0
  <2> DEFINE k == from \div Interval
             y == k * Interval
  <2>1. from \in Nat /\ Interval \in Nat \ {0}
    BY <1>3, DataAssumption
  <2>2. k \in Nat /\ y \in Nat /\ from = y + (from % Interval)
    BY <2>1, Division
  <2>3. from = y
    BY <2>2
  <2>4. y <= t.at <=> y <= Market!Start(t)
    BY <2>2, IntervalsOrdered
  <2> HIDE DEF y
  <2> QED BY <1>1, <2>2, <2>3, <2>4
<1> QED BY <1>2, <1>3

\* The newest candle closes with the newest trade, the oldest opens with the first.
LEMMA ClosesLast ==
  ASSUME NEW ts, Rows(ts), ts # {}
  PROVE  /\ Market!Max(Starts(ts)) \in Starts(ts)
         /\ Market!Last(At(ts, Market!Max(Starts(ts)))) = Market!Last(ts)
<1> DEFINE t == Market!Last(ts)
           z == Market!Start(t)
<1>1. t \in ts /\ \A s \in ts \ {t} : Market!Earlier(s, t)
  BY LastIs
<1>2. \A s \in ts : s \in Market!Trades
  BY DEF Rows
<1> HIDE DEF t
<1>3. Starts(ts) \in SUBSET Nat /\ z \in Starts(ts)
  BY <1>1, <1>2, StartBounds DEF Starts
<1>4. ASSUME NEW s \in ts PROVE Market!Start(s) <= z
  <2>1. s.at <= t.at
    BY <1>1, <1>2, TradeTyped, EarlierOrders
  <2> QED BY <1>1, <1>2, <2>1, StartsOrdered
<1>5. \A x \in Starts(ts) : x <= z
  BY <1>4 DEF Starts
<1> HIDE DEF z
<1>6. Market!Max(Starts(ts)) = z
  BY <1>3, <1>5, MaxOnly
<1>7. Rows(At(ts, z)) /\ t \in At(ts, z) /\ \A s \in At(ts, z) \ {t} : Market!Earlier(s, t)
  BY <1>1, RowsSubset DEF At, z
<1>8. Market!Last(At(ts, z)) = t
  BY <1>7, LastOnly
<1> QED BY <1>3, <1>6, <1>8 DEF t

LEMMA OpensFirst ==
  ASSUME NEW ts, Rows(ts), ts # {}
  PROVE  /\ Market!Min(Starts(ts)) \in Starts(ts)
         /\ Market!First(At(ts, Market!Min(Starts(ts)))) = Market!First(ts)
<1> DEFINE t == Market!First(ts)
           z == Market!Start(t)
<1>1. t \in ts /\ \A s \in ts \ {t} : Market!Earlier(t, s)
  BY FirstIs
<1>2. \A s \in ts : s \in Market!Trades
  BY DEF Rows
<1> HIDE DEF t
<1>3. Starts(ts) \in SUBSET Nat /\ z \in Starts(ts)
  BY <1>1, <1>2, StartBounds DEF Starts
<1>4. ASSUME NEW s \in ts PROVE z <= Market!Start(s)
  <2>1. t.at <= s.at
    BY <1>1, <1>2, TradeTyped, EarlierOrders
  <2> QED BY <1>1, <1>2, <2>1, StartsOrdered
<1>5. \A x \in Starts(ts) : z <= x
  BY <1>4 DEF Starts
<1> HIDE DEF z
<1>6. Market!Min(Starts(ts)) = z
  BY <1>3, <1>5, MinOnly
<1>7. Rows(At(ts, z)) /\ t \in At(ts, z) /\ \A s \in At(ts, z) \ {t} : Market!Earlier(t, s)
  BY <1>1, RowsSubset DEF At, z
<1>8. Market!First(At(ts, z)) = t
  BY <1>7, FirstOnly
<1> QED BY <1>3, <1>6, <1>8 DEF t

\* The highest of the highs is the highest price of all, the lowest likewise.
LEMMA Extremes ==
  ASSUME NEW ts, Rows(ts), ts # {}
  PROVE  /\ Market!Max({Market!Max(PricesOf(At(ts, s))) : s \in Starts(ts)})
              = Market!Max(PricesOf(ts))
         /\ Market!Min({Market!Min(PricesOf(At(ts, s))) : s \in Starts(ts)})
              = Market!Min(PricesOf(ts))
<1> DEFINE P(s) == PricesOf(At(ts, s))
           H == {Market!Max(P(s)) : s \in Starts(ts)}
           L == {Market!Min(P(s)) : s \in Starts(ts)}
           m == Market!Max(PricesOf(ts))
           l == Market!Min(PricesOf(ts))
<1>1. ASSUME NEW s \in Starts(ts)
      PROVE  /\ P(s) \in SUBSET PricesOf(ts) /\ P(s) \in SUBSET Nat
             /\ Market!Max(P(s)) \in P(s) /\ \A x \in P(s) : x <= Market!Max(P(s))
             /\ Market!Min(P(s)) \in P(s) /\ \A x \in P(s) : Market!Min(P(s)) <= x
  <2>1. Rows(At(ts, s)) /\ At(ts, s) # {} /\ At(ts, s) \subseteq ts
    BY RowsSubset DEF Starts, At
  <2> QED BY <2>1, PricesTyped DEF PricesOf
<1>2. /\ PricesOf(ts) \in SUBSET Nat
      /\ m \in PricesOf(ts) /\ \A x \in PricesOf(ts) : x <= m
      /\ l \in PricesOf(ts) /\ \A x \in PricesOf(ts) : l <= x
  BY PricesTyped
<1>3. \A x \in PricesOf(ts) : \E s \in Starts(ts) : x \in P(s)
  BY DEF PricesOf, Starts, At
<1> HIDE DEF P, m, l
<1>4. H \in SUBSET Nat /\ (\A x \in H : x <= m) /\ L \in SUBSET Nat /\ \A x \in L : l <= x
  BY <1>1, <1>2
<1>5. m \in H
  <2>1. PICK s \in Starts(ts) : m \in P(s)
    BY <1>2, <1>3
  <2>2. Market!Max(P(s)) = m
    <3>1. m <= Market!Max(P(s)) /\ Market!Max(P(s)) <= m /\ m \in Nat /\ Market!Max(P(s)) \in Nat
      BY <1>1, <1>2, <2>1
    <3> QED BY <3>1
  <2> QED BY <2>2
<1>6. l \in L
  <2>1. PICK s \in Starts(ts) : l \in P(s)
    BY <1>2, <1>3
  <2>2. Market!Min(P(s)) = l
    <3>1. l <= Market!Min(P(s)) /\ Market!Min(P(s)) <= l /\ l \in Nat /\ Market!Min(P(s)) \in Nat
      BY <1>1, <1>2, <2>1
    <3> QED BY <3>1
  <2> QED BY <2>2
<1> HIDE DEF H, L
<1>7. Market!Max(H) = m /\ Market!Min(L) = l
  BY <1>4, <1>5, <1>6, MaxOnly, MinOnly
<1> QED BY <1>7 DEF H, L, P, m, l

\* What is counted trade by trade is counted candle by candle. f[u] is the count, or
\* the volume, of the trades u, and d[t] what the trade t adds to it.
ByStarts(f, ts, S) ==
  [k \in Nat |-> IF (k - 1) * Interval \in S THEN f[At(ts, (k - 1) * Interval)] ELSE 0]

LEMMA StartsApart ==
  ASSUME NEW a \in Nat, NEW k \in Nat
  PROVE  (k - 1) * Interval = a * Interval <=> k = a + 1
<1> USE DataAssumption
<1>1. CASE k = 0
  <2>1. \A i \in Nat \ {0} : (0 - 1) * i < 0
    BY SMT
  <2>2. a * Interval \in Nat
    BY ProductNat
  <2> QED BY <1>1, <2>1, <2>2
<1>2. CASE k # 0
  <2> DEFINE b == k - 1
  <2>1. b \in Nat /\ k = b + 1
    BY <1>2
  <2> HIDE DEF b
  <2>2. \A x, y, i \in Nat : i # 0 /\ x < y => x * i < y * i
    <3> TAKE x, y, i \in Nat
    <3> HAVE i # 0 /\ x < y
    <3>1. (x + 1) * i <= y * i
      BY Monotone
    <3>2. (x + 1) * i = x * i + i /\ x * i \in Nat /\ y * i \in Nat
      BY SMT
    <3> QED BY <3>1, <3>2
  <2>3. a * Interval \in Nat /\ b * Interval \in Nat
    BY <2>1, ProductNat
  <2>4. b * Interval = a * Interval <=> b = a
    <3>1. b < a => b * Interval < a * Interval
      BY <2>1, <2>2
    <3>2. a < b => a * Interval < b * Interval
      BY <2>1, <2>2
    <3> DEFINE x == a * Interval
               y == b * Interval
    <3>3. x \in Nat /\ y \in Nat /\ (b < a => y < x) /\ (a < b => x < y) /\ (a = b => x = y)
      BY <2>3, <3>1, <3>2
    <3> HIDE DEF x, y
    <3>4. y = x <=> b = a
      BY <2>1, <3>3
    <3> QED BY <3>4 DEF x, y
  <2> QED BY <2>1, <2>4 DEF b
<1> QED BY <1>1, <1>2

\* The candle of a trade is one of those that are summed.
LEMMA StartInRange ==
  ASSUME NEW t \in Market!Trades
  PROVE  /\ t.at \div Interval \in Nat /\ t.at \div Interval + 1 \in 1..(LastTime + 1)
         /\ \A k \in Nat : (k - 1) * Interval = Market!Start(t) <=> k = t.at \div Interval + 1
<1> DEFINE q == t.at \div Interval
<1>1. q \in Nat /\ Market!Start(t) = q * Interval /\ q * Interval <= t.at
  BY StartBounds
<1>2. t.at \in Nat /\ t.at <= LastTime /\ LastTime \in Nat /\ Interval \in Nat \ {0}
  BY TradeTyped, DataAssumption
<1> HIDE DEF q
<1>3. q <= q * Interval
  <2>1. 1 * q <= Interval * q
    BY <1>1, <1>2, Monotone
  <2>2. 1 * q = q /\ Interval * q = q * Interval
    BY <1>1, <1>2, SMT
  <2> QED BY <2>1, <2>2
<1>4. q * Interval \in Nat
  BY <1>1, <1>2, ProductNat
<1> DEFINE x == q * Interval
           a == t.at
<1>5. x \in Nat /\ a \in Nat /\ q <= x /\ x <= a /\ a <= LastTime
  BY <1>1, <1>2, <1>3, <1>4
<1> HIDE DEF x, a
<1>6. q + 1 \in 1..(LastTime + 1)
  BY <1>1, <1>2, <1>5
<1>7. \A k \in Nat : (k - 1) * Interval = q * Interval <=> k = q + 1
  BY <1>1, StartsApart
<1> QED BY <1>1, <1>6, <1>7 DEF q

Additive(f, d, ts) ==
  /\ f \in [SUBSET ts -> Nat] /\ f[{}] = 0 /\ d \in [ts -> Nat]
  /\ \A u \in SUBSET ts : \A t \in ts \ u : f[u \cup {t}] = f[u] + d[t]

LEMMA SumAdds ==
  ASSUME NEW ts, Rows(ts), NEW f, NEW d, Additive(f, d, ts), NEW S,
         NEW us \in SUBSET ts, NEW t \in us,
         SumTo(ByStarts(f, us \ {t}, S), LastTime + 1)
           = f[{r \in us \ {t} : Market!Start(r) \in S}]
  PROVE  SumTo(ByStarts(f, us, S), LastTime + 1) = f[{r \in us : Market!Start(r) \in S}]
<1> DEFINE vs == us \ {t}
           z == Market!Start(t)
           k0 == t.at \div Interval + 1
           w == ByStarts(f, vs, S)
           v == ByStarts(f, us, S)
           U == {r \in us : Market!Start(r) \in S}
           V == {r \in vs : Market!Start(r) \in S}
<1>1. t \in Market!Trades /\ vs \in SUBSET ts /\ t \notin vs /\ us = vs \cup {t}
  BY DEF Rows
<1>2. /\ k0 \in 1..(LastTime + 1) /\ k0 \in Nat /\ LastTime + 1 \in Nat
      /\ \A k \in Nat : (k - 1) * Interval = z <=> k = k0
  BY <1>1, StartInRange, DataAssumption
<1> HIDE DEF k0, z
<1>3. \A s : s # z => At(us, s) = At(vs, s)
  BY <1>1 DEF At, z
<1>4. At(us, z) = At(vs, z) \cup {t} /\ t \notin At(vs, z)
  BY <1>1 DEF At, z
<1>5. \A s : At(us, s) \in SUBSET ts /\ At(vs, s) \in SUBSET ts
  BY DEF At
<1>6. \A i \in Nat : w[i] \in Nat /\ v[i] \in Nat /\ w[i] \in Int /\ v[i] \in Int
  <2>1. \A u \in SUBSET ts : f[u] \in Nat /\ f[u] \in Int
    BY DEF Additive
  <2>2. ASSUME NEW i \in Nat, NEW rs, \A s : At(rs, s) \in SUBSET ts
        PROVE  ByStarts(f, rs, S)[i] \in Nat /\ ByStarts(f, rs, S)[i] \in Int
    <3>1. f[At(rs, (i - 1) * Interval)] \in Nat /\ f[At(rs, (i - 1) * Interval)] \in Int
      BY <2>1, <2>2
    <3> QED BY <3>1 DEF ByStarts
  <2> QED BY <1>5, <2>2
<1>7. \A i \in Nat : i # k0 => w[i] = v[i]
  BY <1>2, <1>3 DEF ByStarts
<1>8. v[k0] = w[k0] + (IF z \in S THEN d[t] ELSE 0)
  <2>1. f[At(us, z)] = f[At(vs, z)] + d[t] /\ f[At(vs, z)] \in Nat
    <3> DEFINE a == At(us, z)
               b == At(vs, z)
    <3>1. a = b \cup {t} /\ b \in SUBSET ts /\ t \in ts \ b
      BY <1>4, <1>5
    <3> HIDE DEF a, b
    <3>2. f[b \cup {t}] = f[b] + d[t] /\ f[b] \in Nat
      BY <3>1 DEF Additive
    <3> QED BY <3>1, <3>2 DEF a, b
  <2>2. (k0 - 1) * Interval = z
    BY <1>2
  <2>3. w[k0] = (IF z \in S THEN f[At(vs, z)] ELSE 0) /\ v[k0] = IF z \in S THEN f[At(us, z)] ELSE 0
    BY <1>2, <2>2 DEF ByStarts
  <2> QED BY <2>1, <2>3
<1>9. f[U] = f[V] + (IF z \in S THEN d[t] ELSE 0)
  <2>1. U \in SUBSET ts /\ V \in SUBSET ts /\ t \notin V /\ f[V] \in Nat
    BY DEF Additive
  <2>2. CASE z \in S
    <3>1. U = V \cup {t}
      BY <2>2 DEF z
    <3> HIDE DEF U, V
    <3>2. f[V \cup {t}] = f[V] + d[t]
      BY <2>1 DEF Additive
    <3> QED BY <2>2, <3>1, <3>2
  <2>3. CASE z \notin S
    <3>1. U = V
      BY <2>3 DEF z
    <3> QED BY <2>1, <2>3, <3>1
  <2> QED BY <2>2, <2>3
<1> HIDE DEF w, v, U, V
<1>10. SumTo(v, LastTime + 1) = SumTo(w, LastTime + 1) - w[k0] + v[k0]
  BY <1>2, <1>6, <1>7, SumToUpdate
<1>11. SumTo(w, LastTime + 1) = f[V]
  BY DEF w, V
<1>12. w[k0] \in Nat /\ v[k0] \in Nat /\ f[V] \in Nat /\ (IF z \in S THEN d[t] ELSE 0) \in Nat
  BY <1>2, <1>6 DEF Additive, V
<1> QED
  <2> DEFINE e == IF z \in S THEN d[t] ELSE 0
             x == f[V]
             a == w[k0]
  <2>1. x \in Nat /\ a \in Nat /\ e \in Nat
    BY <1>12
  <2> HIDE DEF e
  <2>2. SumTo(v, LastTime + 1) = x - a + (a + e) /\ f[U] = x + e
    BY <1>8, <1>9, <1>10, <1>11 DEF e
  <2> HIDE DEF x, a
  <2>3. x - a + (a + e) = x + e
    BY <2>1, SMT
  <2>4. SumTo(v, LastTime + 1) = f[U]
    BY <2>2, <2>3
  <2> QED BY <2>4 DEF v, U

LEMMA SumOver ==
  ASSUME NEW ts, Rows(ts), NEW f, NEW d, Additive(f, d, ts), NEW S
  PROVE  SumTo(ByStarts(f, ts, S), LastTime + 1) = f[{r \in ts : Market!Start(r) \in S}]
<1> DEFINE G(us) == SumTo(ByStarts(f, us, S), LastTime + 1)
                      = f[{r \in us : Market!Start(r) \in S}]
           N == {n \in Nat : \A us \in SUBSET ts : Cardinality(us) = n => G(us)}
<1>1. \A us \in SUBSET ts : IsFiniteSet(us) /\ Cardinality(us) \in Nat
  <2>1. \A us \in SUBSET ts : IsFiniteSet(us)
    BY FS_Subset DEF Rows
  <2> QED BY <2>1, FS_CardinalityType
<1>2. 0 \in N
  <2>1. G({})
    <3>1. \A s : At({}, s) = {}
      BY DEF At
    <3>2. \A k \in Nat : ByStarts(f, {}, S)[k] = 0
      BY <3>1 DEF ByStarts, Additive
    <3>3. LastTime + 1 \in Nat
      BY DataAssumption
    <3>4. SumTo(ByStarts(f, {}, S), LastTime + 1) = 0
      BY <3>2, <3>3, SumToZero
    <3>5. {r \in {} : Market!Start(r) \in S} = {}
      OBVIOUS
    <3> QED BY <3>4, <3>5 DEF Additive
  <2> HIDE DEF G
  <2>2. \A us \in SUBSET ts : Cardinality(us) = 0 => us = {}
    BY <1>1, FS_EmptySet
  <2> QED BY <2>1, <2>2
<1>3. ASSUME NEW n \in Nat, n \in N PROVE n + 1 \in N
  <2>1. ASSUME NEW us \in SUBSET ts, Cardinality(us) = n + 1 PROVE G(us)
    <3>1. us # {}
      BY <2>1, FS_EmptySet
    <3>2. PICK t \in us : TRUE
      BY <3>1
    <3>3. Cardinality(us \ {t}) = n
      BY <1>1, <2>1, OneLess
    <3>4. G(us \ {t})
      <4> HIDE DEF G
      <4> QED BY <1>3, <3>3
    <3> QED BY <3>4, SumAdds
  <2> HIDE DEF G
  <2> QED BY <1>3, <2>1
<1>4. \A n \in Nat : n \in N
  <2> HIDE DEF N
  <2> QED BY <1>2, <1>3, SetInduction
<1>5. G(ts)
  <2> HIDE DEF G
  <2> QED BY <1>1, <1>4
<1> QED BY <1>5

\* The count and the volume of the candles in S are those of their trades.
LEMMA CountOver ==
  ASSUME NEW ts, Rows(ts), NEW S \in SUBSET Starts(ts)
  PROVE  Market!CountOf(Chart(ts), S) = Cardinality({t \in ts : Market!Start(t) \in S})
<1> DEFINE f == [u \in SUBSET ts |-> Cardinality(u)]
           d == [t \in ts |-> 1]
           w == [k \in Nat |-> IF (k - 1) * Interval \in S
                               THEN Chart(ts)[(k - 1) * Interval].count ELSE 0]
<1>1. Additive(f, d, ts)
  <2>1. \A u \in SUBSET ts : IsFiniteSet(u) /\ Cardinality(u) \in Nat
    <3>1. \A u \in SUBSET ts : IsFiniteSet(u)
      BY FS_Subset DEF Rows
    <3> QED BY <3>1, FS_CardinalityType
  <2>2. ASSUME NEW u \in SUBSET ts, NEW t \in ts \ u
        PROVE  Cardinality(u \cup {t}) = Cardinality(u) + 1
    BY <2>1, FS_AddElement
  <2>3. Cardinality({}) = 0
    BY FS_EmptySet
  <2>4. ASSUME NEW u \in SUBSET ts, NEW t \in ts \ u PROVE f[u \cup {t}] = f[u] + d[t]
    <3>1. u \cup {t} \in SUBSET ts
      OBVIOUS
    <3> QED BY <2>2, <3>1
  <2> QED BY <2>1, <2>3, <2>4 DEF Additive
<1>2. ASSUME NEW s \in S PROVE Chart(ts)[s].count = f[At(ts, s)]
  <2>1. Chart(ts)[s] = Of(At(ts, s))
    BY ChartDomain
  <2>2. At(ts, s) \in SUBSET ts
    BY DEF At
  <2> QED BY <2>1, <2>2 DEF Of
<1>3. w = ByStarts(f, ts, S)
  <2> HIDE DEF f
  <2> QED BY <1>2 DEF ByStarts
<1>4. Market!CountOf(Chart(ts), S) = SumTo(w, LastTime + 1)
  BY SameSum DEF Market!CountOf
<1> HIDE DEF w, f, d
<1>5. Market!CountOf(Chart(ts), S) = f[{t \in ts : Market!Start(t) \in S}]
  BY <1>1, <1>3, <1>4, SumOver
<1> QED BY <1>5 DEF f

LEMMA VolumeOver ==
  ASSUME NEW ts, Rows(ts), NEW S \in SUBSET Starts(ts)
  PROVE  Market!VolumeOf(Chart(ts), S) = Market!Volume({t \in ts : Market!Start(t) \in S})
<1> DEFINE f == [u \in SUBSET ts |-> Market!Volume(u)]
           d == [t \in ts |-> t.amount]
           w == [k \in Nat |-> IF (k - 1) * Interval \in S
                               THEN Chart(ts)[(k - 1) * Interval].volume ELSE 0]
<1>1. Additive(f, d, ts)
  <2>1. \A u \in SUBSET ts : Rows(u) /\ Market!Volume(u) \in Nat
    <3>1. \A u \in SUBSET ts : Rows(u)
      BY RowsSubset
    <3> QED BY <3>1, AmountTyped
  <2>2. ASSUME NEW u \in SUBSET ts, NEW t \in ts \ u
        PROVE  Market!Volume(u \cup {t}) = Market!Volume(u) + t.amount
    <3>1. Rows(u \cup {t})
      <4>1. u \cup {t} \in SUBSET ts
        OBVIOUS
      <4> QED BY <2>1, <4>1
    <3> QED BY <3>1, VolumeAdds
  <2>3. Market!Volume({}) = 0
    <3>1. \A i \in Nat : AmountAt({})[i] = 0
      BY DEF AmountAt
    <3>2. Market!Volume({}) = SumTo(AmountAt({}), MaxTrades)
      BY <2>1, AmountTyped
    <3> QED BY <3>1, <3>2, SumToZero, DataAssumption
  <2>4. ASSUME NEW u \in SUBSET ts, NEW t \in ts \ u PROVE f[u \cup {t}] = f[u] + d[t]
    <3>1. u \cup {t} \in SUBSET ts
      OBVIOUS
    <3> QED BY <2>2, <3>1
  <2>5. \A t \in ts : t.amount \in Nat
    BY TradeTyped DEF Rows
  <2> QED BY <2>1, <2>3, <2>4, <2>5 DEF Additive
<1>2. ASSUME NEW s \in S PROVE Chart(ts)[s].volume = f[At(ts, s)]
  <2>1. Chart(ts)[s] = Of(At(ts, s))
    BY ChartDomain
  <2>2. At(ts, s) \in SUBSET ts
    BY DEF At
  <2> QED BY <2>1, <2>2 DEF Of
<1>3. w = ByStarts(f, ts, S)
  <2> HIDE DEF f
  <2> QED BY <1>2 DEF ByStarts
<1>4. Market!VolumeOf(Chart(ts), S) = SumTo(w, LastTime + 1)
  BY SameSum DEF Market!VolumeOf
<1> HIDE DEF w, f, d
<1>5. Market!VolumeOf(Chart(ts), S) = f[{t \in ts : Market!Start(t) \in S}]
  BY <1>1, <1>3, <1>4, SumOver
<1> QED BY <1>5 DEF f

-----------------------------------------------------------------------------
\* While nothing is committed, what the queries have got is what they would get now.
TickerInv ==
  /\ ticker = [from |-> ticker.from, got |-> ticker.got]
  /\ ticker.from \in Int \cup {NoTrade}
  /\ quiet => \A q \in DOMAIN ticker.got : ticker.got[q] = Market!Selected(q, ticker.from)

LEMMA TickerInit == Market!Init => TickerInv
<1> SUFFICES ASSUME Market!Init PROVE TickerInv
  OBVIOUS
<1>1. ticker = [from |-> NoTrade, got |-> <<>>]
  BY DEF Market!Init, Market!NoTicker
<1>2. ticker.from = NoTrade /\ ticker.got = <<>>
  BY <1>1
<1>3. DOMAIN ticker.got = {}
  BY <1>2
<1> QED BY <1>1, <1>2, <1>3 DEF TickerInv

LEMMA TickerStep == PrintTypes /\ TickerInv /\ [Market!Next]_prints => TickerInv'
<1> SUFFICES ASSUME PrintTypes, TickerInv, [Market!Next]_prints PROVE TickerInv'
  OBVIOUS
<1>1. ASSUME UNCHANGED <<trades, ticker>>, quiet' => quiet PROVE TickerInv'
  BY <1>1 DEF TickerInv, Market!Selected
<1>2. CASE Market!Ask
  <2>1. ticker' = [from |-> time - Day, got |-> <<>>]
    BY <1>2 DEF Market!Ask
  <2>2. ticker'.from = time - Day /\ ticker'.got = <<>>
    BY <2>1
  <2>3. time - Day \in Int
    BY DataAssumption DEF PrintTypes
  <2>4. DOMAIN ticker'.got = {}
    BY <2>2
  <2> QED BY <2>1, <2>2, <2>3, <2>4 DEF TickerInv
<1>3. ASSUME NEW q \in Market!Queries, Market!Query(q) PROVE TickerInv'
  <2> DEFINE g == [p \in DOMAIN ticker.got \cup {q} |->
                     IF p = q THEN Market!Selected(q, ticker.from) ELSE ticker.got[p]]
  <2>1. ticker' = [ticker EXCEPT !.got = g] /\ trades' = trades /\ quiet' = quiet
    BY <1>3 DEF Market!Query
  <2>2. ticker = [from |-> ticker.from, got |-> ticker.got]
    BY DEF TickerInv
  <2>3. quiet => \A p \in DOMAIN g : g[p] = Market!Selected(p, ticker.from)
    BY DEF TickerInv
  <2> HIDE DEF g
  <2>4. ticker' = [from |-> ticker.from, got |-> g]
    BY <2>1, <2>2
  <2>5. ticker'.from = ticker.from /\ ticker'.got = g
    BY <2>4
  <2> QED BY <2>1, <2>3, <2>4, <2>5 DEF TickerInv, Market!Selected
<1>4. CASE Market!Tick
  BY <1>1, <1>4 DEF Market!Tick
<1>5. ASSUME NEW p \in Placements, Market!Begin(p) PROVE TickerInv'
  BY <1>1, <1>5 DEF Market!Begin
<1>6. ASSUME NEW p \in Placements, NEW new \in Market!FillSets(began[p]), Market!Commit(p, new)
      PROVE  TickerInv'
  <2>1. /\ ticker' = ticker /\ trades' = trades \cup new
        /\ quiet' => quiet /\ new = {}
    BY <1>6 DEF Market!Commit
  <2>2. CASE quiet'
    <3>1. trades' = trades
      BY <2>1, <2>2
    <3> QED BY <1>1, <2>1, <2>2, <3>1
  <2>3. CASE ~quiet'
    BY <2>1, <2>3 DEF TickerInv
  <2> QED BY <2>2, <2>3
<1>7. CASE UNCHANGED prints
  BY <1>1, <1>7 DEF prints
<1> QED BY <1>2, <1>3, <1>4, <1>5, <1>6, <1>7 DEF Market!Next

LEMMA TickerHolds == Market!Spec => [](PrintTypes /\ TickerInv)
<1>1. UNCHANGED prints <=> UNCHANGED Market!data
  BY DEF prints, Market!data
<1> QED BY PrintInit, PrintStep, TickerInit, TickerStep, <1>1, PTL DEF Market!Spec

\* What a ticker asked for while nothing is committed answers.
Answers(ts, from) ==
  LET recent == {t \in ts : t.at >= from}
      before == {t \in ts : t.at <= from}
      reference == IF before # {} THEN Market!Last(before).price ELSE Market!First(recent).price
  IN  /\ Market!Answer(ticker.got).last = Market!Last(ts).price
      /\ Market!Answer(ticker.got).total = Cardinality(ts)
      /\ Market!Answer(ticker.got).count = Cardinality(recent)
      /\ Market!Answer(ticker.got).volume = Market!Volume(recent)
      /\ recent # {} => /\ Market!Answer(ticker.got).high = Market!Max(PricesOf(recent))
                        /\ Market!Answer(ticker.got).low = Market!Min(PricesOf(recent))
      /\ Market!Answer(ticker.got).change = Market!Last(ts).price - reference

LEMMA TickerAnswers ==
  ASSUME PrintTypes, TickerInv, ticker.from # NoTrade, ~Market!Open(ticker), quiet, trades # {}
  PROVE  ticker.from \in Int /\ Answers(trades, ticker.from)
<1> DEFINE k == ticker.got
           from == ticker.from
           recent == {t \in trades : t.at >= from}
           before == {t \in trades : t.at <= from}
           last == Market!Last(trades)
<1>1. Rows(trades) /\ from \in Int
  BY DEF PrintTypes, TickerInv
<1>2. DOMAIN k = {"last", "window", "reference", "total"}
  BY DEF Market!Open, Market!Queries
<1>3. /\ k["last"] = Market!Selected("last", from) /\ k["window"] = Market!Selected("window", from)
      /\ k["reference"] = Market!Selected("reference", from)
      /\ k["total"] = Market!Selected("total", from)
  BY <1>2 DEF TickerInv
<1>4. /\ k["last"] = {last} /\ k["window"] = recent /\ k["total"] = trades
      /\ k["reference"] = {Market!Newest(before)}
  BY <1>3 DEF Market!Selected, Market!Newest
<1>5. /\ last \in trades /\ last \in Market!Trades /\ last # NoTrade
      /\ last.price # NoTrade
  <2>1. last \in trades
    BY <1>1, LastIs
  <2> QED BY <1>1, <2>1, TradeTyped DEF Rows
<1> HIDE DEF k, last
<1>6. Market!LastOf(k) = last
  BY <1>4 DEF Market!LastOf
<1> DEFINE reference == IF before # {} THEN Market!Last(before).price
                        ELSE Market!First(recent).price
<1>7. Market!ReferencePrice(k) = reference /\ reference # NoTrade
  <2>1. (CHOOSE t \in k["reference"] : TRUE) = Market!Newest(before)
    BY <1>4
  <2>2. Market!ReferencePrice(k)
          = IF Market!Newest(before) # NoTrade THEN Market!Newest(before).price
            ELSE IF recent = {} THEN NoTrade ELSE Market!First(recent).price
    BY <1>4, <2>1 DEF Market!ReferencePrice
  <2>3. Rows(before) /\ Rows(recent)
    BY <1>1, RowsSubset
  <2>4. CASE before # {}
    <3>1. Market!Last(before) \in before
      BY <2>3, <2>4, LastIs
    <3>2. Market!Last(before) \in Market!Trades
      BY <2>3, <3>1 DEF Rows
    <3>3. Market!Last(before) # NoTrade /\ Market!Last(before).price # NoTrade
      BY <3>2, TradeTyped
    <3>4. Market!Newest(before) = Market!Last(before)
      BY <2>4 DEF Market!Newest
    <3> HIDE DEF before
    <3> QED BY <2>2, <2>4, <3>3, <3>4
  <2>5. CASE before = {}
    <3>1. Market!Newest(before) = NoTrade
      BY <2>5 DEF Market!Newest
    <3>2. recent # {}
      <4>1. last.at \in Int
        BY <1>5, TradeTyped
      <4>2. ~(last.at <= from)
        BY <1>5, <2>5
      <4>3. last.at >= from
        BY <1>1, <4>1, <4>2
      <4> QED BY <1>5, <4>3
    <3>3. Market!First(recent) \in recent
      BY <2>3, <3>2, FirstIs
    <3>4. Market!First(recent) \in Market!Trades
      BY <2>3, <3>3 DEF Rows
    <3>5. Market!First(recent).price # NoTrade
      BY <3>4, TradeTyped
    <3> HIDE DEF before, recent
    <3> QED BY <2>2, <2>5, <3>1, <3>2, <3>5
  <2> QED BY <2>4, <2>5
<1>8. {t.price : t \in k["window"]} = PricesOf(recent)
  BY <1>4 DEF PricesOf
<1>9. recent # {} => PricesOf(recent) # {}
  BY DEF PricesOf
<1> DEFINE a == Market!Answer(k)
<1>10. a = [last |-> last.price,
            high |-> IF PricesOf(recent) = {} THEN NoTrade ELSE Market!Max(PricesOf(recent)),
            low |-> IF PricesOf(recent) = {} THEN NoTrade ELSE Market!Min(PricesOf(recent)),
            volume |-> Market!Volume(recent), count |-> Cardinality(recent),
            change |-> last.price - reference, total |-> Cardinality(trades)]
  <2> HIDE DEF reference, recent
  <2> QED BY <1>4, <1>5, <1>6, <1>7, <1>8, SameCount DEF Market!Answer
<1> HIDE DEF reference, recent, a
<1>11. /\ a.last = last.price /\ a.total = Cardinality(trades) /\ a.count = Cardinality(recent)
       /\ a.volume = Market!Volume(recent) /\ a.change = last.price - reference
       /\ recent # {} => /\ a.high = Market!Max(PricesOf(recent))
                         /\ a.low = Market!Min(PricesOf(recent))
  BY <1>9, <1>10
<1> QED BY <1>1, <1>11 DEF Answers, a, k, last, reference, recent

\* What the chart tells of all trades, and of a window that begins with an interval.
LEMMA ChartOfAll ==
  ASSUME NEW ts, Rows(ts), ts # {}
  PROVE  /\ Chart(ts)[Market!Max(Starts(ts))].close = Market!Last(ts).price
         /\ Chart(ts)[Market!Min(Starts(ts))].open = Market!First(ts).price
         /\ Market!CountOf(Chart(ts), Starts(ts)) = Cardinality(ts)
<1>1. /\ Market!Max(Starts(ts)) \in Starts(ts)
      /\ Market!Last(At(ts, Market!Max(Starts(ts)))) = Market!Last(ts)
  BY ClosesLast
<1>2. /\ Market!Min(Starts(ts)) \in Starts(ts)
      /\ Market!First(At(ts, Market!Min(Starts(ts)))) = Market!First(ts)
  BY OpensFirst
<1>3. \A s \in Starts(ts) : /\ Chart(ts)[s].close = Market!Last(At(ts, s)).price
                            /\ Chart(ts)[s].open = Market!First(At(ts, s)).price
  <2>1. ASSUME NEW s \in Starts(ts)
        PROVE  /\ Chart(ts)[s].close = Market!Last(At(ts, s)).price
               /\ Chart(ts)[s].open = Market!First(At(ts, s)).price
    <3>1. Chart(ts)[s] = Of(At(ts, s))
      BY ChartDomain
    <3> QED BY <3>1 DEF Of
  <2> QED BY <2>1
<1>4. {t \in ts : Market!Start(t) \in Starts(ts)} = ts
  BY DEF Starts
<1>5. Market!CountOf(Chart(ts), Starts(ts)) = Cardinality(ts)
  BY <1>4, CountOver
<1> QED BY <1>1, <1>2, <1>3, <1>5

LEMMA ChartOfWindow ==
  ASSUME NEW ts, Rows(ts), NEW from \in Int, from % Interval = 0
  PROVE  LET recent == {t \in ts : t.at >= from}
             inside == {s \in Starts(ts) : s >= from}
         IN  /\ Market!CountOf(Chart(ts), inside) = Cardinality(recent)
             /\ Market!VolumeOf(Chart(ts), inside) = Market!Volume(recent)
             /\ inside # {} =>
                  /\ recent # {}
                  /\ Market!Max({Chart(ts)[s].high : s \in inside}) = Market!Max(PricesOf(recent))
                  /\ Market!Min({Chart(ts)[s].low : s \in inside}) = Market!Min(PricesOf(recent))
<1> DEFINE recent == {t \in ts : t.at >= from}
           inside == {s \in Starts(ts) : s >= from}
<1>1. ts \subseteq Market!Trades /\ recent \subseteq ts /\ Rows(recent)
  BY RowsSubset DEF Rows
<1>2. \A t \in ts : t.at >= from <=> Market!Start(t) >= from
  BY <1>1, Aligned
<1>3. {t \in ts : Market!Start(t) \in inside} = recent
  BY <1>2 DEF Starts
<1>4. Starts(recent) = inside /\ \A s \in inside : At(recent, s) = At(ts, s)
  BY <1>2 DEF Starts, At
<1>5. inside \in SUBSET Starts(ts)
  OBVIOUS
<1> HIDE DEF recent, inside
<1>6. /\ Market!CountOf(Chart(ts), inside) = Cardinality(recent)
      /\ Market!VolumeOf(Chart(ts), inside) = Market!Volume(recent)
  BY <1>3, <1>5, CountOver, VolumeOver
<1>7. ASSUME inside # {}
      PROVE  /\ recent # {}
             /\ Market!Max({Chart(ts)[s].high : s \in inside}) = Market!Max(PricesOf(recent))
             /\ Market!Min({Chart(ts)[s].low : s \in inside}) = Market!Min(PricesOf(recent))
  <2>1. recent # {}
    BY <1>4, <1>7 DEF Starts
  <2>2. /\ Market!Max({Market!Max(PricesOf(At(recent, s))) : s \in Starts(recent)})
             = Market!Max(PricesOf(recent))
        /\ Market!Min({Market!Min(PricesOf(At(recent, s))) : s \in Starts(recent)})
             = Market!Min(PricesOf(recent))
    BY <1>1, <2>1, Extremes
  <2>3. ASSUME NEW s \in inside
        PROVE  /\ Chart(ts)[s].high = Market!Max(PricesOf(At(recent, s)))
               /\ Chart(ts)[s].low = Market!Min(PricesOf(At(recent, s)))
    <3>1. Chart(ts)[s] = Of(At(ts, s))
      BY <1>5, ChartDomain
    <3> QED BY <1>4, <3>1 DEF Of
  <2>4. {Chart(ts)[s].high : s \in inside}
          = {Market!Max(PricesOf(At(recent, s))) : s \in Starts(recent)}
    BY <1>4, <2>3
  <2>5. {Chart(ts)[s].low : s \in inside}
          = {Market!Min(PricesOf(At(recent, s))) : s \in Starts(recent)}
    BY <1>4, <2>3
  <2> QED BY <2>1, <2>2, <2>4, <2>5
<1> QED BY <1>6, <1>7 DEF recent, inside

LEMMA ChartBefore ==
  ASSUME NEW ts, Rows(ts), ts # {}, NEW from \in Int, from % Interval = 0,
         \A t \in ts : t.at # from
  PROVE  LET recent == {t \in ts : t.at >= from}
             before == {t \in ts : t.at <= from}
             earlier == {s \in Starts(ts) : s < from}
         IN  (IF before # {} THEN Market!Last(before).price ELSE Market!First(recent).price)
               = IF earlier = {} THEN Chart(ts)[Market!Min(Starts(ts))].open
                 ELSE Chart(ts)[Market!Max(earlier)].close
<1> DEFINE recent == {t \in ts : t.at >= from}
           before == {t \in ts : t.at <= from}
           earlier == {s \in Starts(ts) : s < from}
<1>1. ts \subseteq Market!Trades /\ Rows(before)
  BY RowsSubset DEF Rows
<1>2. ASSUME NEW t \in ts
      PROVE  /\ t.at <= from <=> Market!Start(t) < from
             /\ t.at >= from <=> ~(t.at <= from)
  <2>1. t.at >= from <=> Market!Start(t) >= from
    BY <1>1, Aligned
  <2>2. t.at \in Int /\ Market!Start(t) \in Int /\ t.at # from
    BY <1>1, TradeTyped, StartBounds
  <2> DEFINE a == t.at
             x == Market!Start(t)
  <2> HIDE DEF a, x
  <2>3. a \in Int /\ x \in Int /\ a # from /\ (a >= from <=> x >= from)
    BY <2>1, <2>2 DEF a, x
  <2>4. (a <= from <=> x < from) /\ (a >= from <=> ~(a <= from))
    BY <2>3
  <2> QED BY <2>4 DEF a, x
<1>3. Starts(before) = earlier /\ \A s \in earlier : At(before, s) = At(ts, s)
  BY <1>2 DEF Starts, At
<1>4. before = {} <=> earlier = {}
  BY <1>3 DEF Starts
<1>5. earlier \in SUBSET Starts(ts)
  OBVIOUS
<1>6. CASE before = {}
  <2>1. recent = ts
    BY <1>2, <1>6
  <2> HIDE DEF recent, before, earlier
  <2>2. Chart(ts)[Market!Min(Starts(ts))].open = Market!First(recent).price
    BY <2>1, ChartOfAll
  <2> QED BY <1>4, <1>6, <2>2 DEF recent, before, earlier
<1>7. CASE before # {}
  <2> HIDE DEF before, earlier
  <2>1. /\ Market!Max(earlier) \in earlier
        /\ Market!Last(At(before, Market!Max(earlier))) = Market!Last(before)
    BY <1>1, <1>3, <1>7, ClosesLast
  <2>2. At(before, Market!Max(earlier)) = At(ts, Market!Max(earlier))
    BY <1>3, <2>1
  <2>3. Chart(ts)[Market!Max(earlier)] = Of(At(ts, Market!Max(earlier)))
    BY <1>5, <2>1, ChartDomain
  <2>4. Chart(ts)[Market!Max(earlier)].close = Market!Last(before).price
    BY <2>1, <2>2, <2>3 DEF Of
  <2> QED BY <1>4, <1>7, <2>4 DEF before, earlier
<1> QED BY <1>6, <1>7

LEMMA TickerAgrees == PrintTypes /\ TickerInv => TickerAgreesWithChart
<1> SUFFICES ASSUME PrintTypes, TickerInv, ticker.from # NoTrade, ~Market!Open(ticker), quiet,
                    trades # {}
             PROVE  Market!TickerAgreesWithChart
  BY DEF TickerAgreesWithChart, Market!TickerAgreesWithChart
<1> DEFINE a == Market!Answer(ticker.got)
           from == ticker.from
           cs == Market!Candles(trades)
           starts == Starts(trades)
           inside == {s \in starts : s >= from}
           earlier == {s \in starts : s < from}
           recent == {t \in trades : t.at >= from}
           before == {t \in trades : t.at <= from}
           reference == IF before # {} THEN Market!Last(before).price
                        ELSE Market!First(recent).price
<1>1. Rows(trades) /\ from \in Int
  BY TickerAnswers DEF PrintTypes
<1>2. /\ a.last = Market!Last(trades).price /\ a.total = Cardinality(trades)
      /\ a.count = Cardinality(recent) /\ a.volume = Market!Volume(recent)
      /\ recent # {} => /\ a.high = Market!Max(PricesOf(recent))
                        /\ a.low = Market!Min(PricesOf(recent))
      /\ a.change = Market!Last(trades).price - reference
  BY TickerAnswers DEF Answers
<1>3. cs = Chart(trades) /\ DOMAIN cs = starts
  BY <1>1, CandlesAre, ChartDomain
<1>4. \A ts : Rows(ts) /\ ts # {} =>
        /\ Chart(ts)[Market!Max(Starts(ts))].close = Market!Last(ts).price
        /\ Market!CountOf(Chart(ts), Starts(ts)) = Cardinality(ts)
  BY ChartOfAll
<1>5. /\ cs[Market!Max(starts)].close = Market!Last(trades).price
      /\ Market!CountOf(cs, starts) = Cardinality(trades)
  BY <1>1, <1>3, <1>4
<1>6. ASSUME from % Interval = 0
      PROVE  /\ a.count = Market!CountOf(cs, inside) /\ a.volume = Market!VolumeOf(cs, inside)
             /\ inside # {} => /\ a.high = Market!Max({cs[s].high : s \in inside})
                               /\ a.low = Market!Min({cs[s].low : s \in inside})
  <2>1. /\ Market!CountOf(Chart(trades), inside) = Cardinality(recent)
        /\ Market!VolumeOf(Chart(trades), inside) = Market!Volume(recent)
        /\ inside # {} =>
             /\ recent # {}
             /\ Market!Max({Chart(trades)[s].high : s \in inside}) = Market!Max(PricesOf(recent))
             /\ Market!Min({Chart(trades)[s].low : s \in inside}) = Market!Min(PricesOf(recent))
    BY <1>1, <1>6, ChartOfWindow
  <2> HIDE DEF cs, inside, recent, a
  <2> QED BY <1>2, <1>3, <2>1
<1>7. ASSUME from % Interval = 0, ~\E t \in trades : t.at = from
      PROVE  a.change = cs[Market!Max(starts)].close
                          - (IF earlier = {} THEN cs[Market!Min(starts)].open
                             ELSE cs[Market!Max(earlier)].close)
  <2>1. reference = IF earlier = {} THEN Chart(trades)[Market!Min(starts)].open
                    ELSE Chart(trades)[Market!Max(earlier)].close
    BY <1>1, <1>7, ChartBefore
  <2> HIDE DEF cs, earlier, recent, before, starts, reference, a
  <2> QED BY <1>2, <1>3, <1>5, <2>1
<1> HIDE DEF a, cs
<1>8. Market!TickerAgreesWithChart
  BY <1>2, <1>3, <1>5, <1>6, <1>7, Zenon DEF Market!TickerAgreesWithChart, a, cs
<1> QED BY <1>8

\* A ticker asked for while nothing is committed (getTicker) tells what the candles
\* (getCandles) tell, of any trades at any prices, in any order of commits.
THEOREM TickersAgree == Market!Spec => []TickerAgreesWithChart
  BY TickerHolds, TickerAgrees, PTL

=============================================================================
