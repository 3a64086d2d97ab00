------------------------------ MODULE AuditTrail ------------------------------
(***************************************************************************)
(* How an administrator changes an asset, a market or the fees, and what   *)
(* the trail says of it (admin.service.ts, fees.service.ts).  A change is  *)
(* one transaction that reads the row, writes it and inserts an audit log; *)
(* its security event is recorded after the commit, and may be lost.       *)
(* The rows of assets and markets are locked when they are read, the fee   *)
(* setting only when it is written.                                        *)
(***************************************************************************)
EXTENDS Integers, Sequences

CONSTANTS
  Calls,    \* requests that may overlap
  Values,   \* values of a column
  Default,  \* the value every column starts with
  NoOne,    \* nobody holds a row
  MaxAudit  \* bound: changes committed

VARIABLES
  stored,  \* the columns of the rows
  holder,  \* who has locked a row
  change,  \* the request a call works on
  audit,   \* admin_audit_logs, in the order of the commits
  events   \* security_events, as the audit logs they are about

trail == <<stored, holder, change, audit, events>>

\* Asset status and metadata, market status, and fees: the columns they write.
Kinds == {"ASSET_STATUS", "ASSET_METADATA", "MARKET_STATUS", "FEES"}
ColumnsOf == [ASSET_STATUS |-> {"isActive"}, ASSET_METADATA |-> {"displayName", "iconUrl"},
              MARKET_STATUS |-> {"status"}, FEES |-> {"rates"}]
RowOf == [ASSET_STATUS |-> "asset", ASSET_METADATA |-> "asset",
          MARKET_STATUS |-> "market", FEES |-> "feeSetting"]
Rows == {"asset", "market", "feeSetting"}
Columns == UNION {ColumnsOf[k] : k \in Kinds}

\* A request names a new value for some columns: only metadata has several.
ChangesTo(k) == UNION {[cs -> Values] : cs \in SUBSET ColumnsOf[k] \ {{}}}
Current(k) == [c \in ColumnsOf[k] |-> stored[c]]
Merged(input, before) ==
  [c \in DOMAIN before |-> IF c \in DOMAIN input THEN input[c] ELSE before[c]]
\* A status that is asked for again is answered without a change.
Unchanged(k, input, before) ==
  k \in {"ASSET_STATUS", "MARKET_STATUS"} /\ Merged(input, before) = before

LocksToRead_Never(k) == FALSE
\* SELECT ... FOR UPDATE.
LocksToRead(k) == k # "FEES"

Idle == [step |-> "IDLE"]
Goes(c, r) == change' = [change EXCEPT ![c] = r]
Free(r, c) == holder[r] \in {NoOne, c}

-----------------------------------------------------------------------------
Receive(c, k, input) ==
  /\ change[c] = Idle /\ Len(audit) < MaxAudit
  /\ Goes(c, [step |-> "READ", kind |-> k, input |-> input])
  /\ UNCHANGED <<stored, holder, audit, events>>

Read(c) ==
  LET k == change[c].kind IN
  /\ change[c].step = "READ"
  /\ LocksToRead(k) => Free(RowOf[k], c)
  /\ IF Unchanged(k, change[c].input, Current(k))
     THEN Goes(c, Idle) /\ UNCHANGED holder
     ELSE /\ Goes(c, [step |-> "WRITE", kind |-> k, before |-> Current(k),
                      after |-> Merged(change[c].input, Current(k))])
          /\ holder' = IF LocksToRead(k) THEN [holder EXCEPT ![RowOf[k]] = c] ELSE holder
  /\ UNCHANGED <<stored, audit, events>>

\* UPDATE locks the row if the SELECT has not; the audit log is inserted.
Write(c) ==
  /\ change[c].step = "WRITE" /\ Free(RowOf[change[c].kind], c)
  /\ holder' = [holder EXCEPT ![RowOf[change[c].kind]] = c]
  /\ Goes(c, [change[c] EXCEPT !.step = "COMMIT"])
  /\ UNCHANGED <<stored, audit, events>>

Released(c) == [r \in Rows |-> IF holder[r] = c THEN NoOne ELSE holder[r]]
Log(r) == [kind |-> r.kind, before |-> r.before, after |-> r.after]

Commit(c) ==
  LET r == change[c] IN
  /\ r.step = "COMMIT" /\ Len(audit) < MaxAudit
  /\ stored' = [n \in Columns |-> IF n \in DOMAIN r.after THEN r.after[n] ELSE stored[n]]
  /\ audit' = Append(audit, Log(r))
  /\ holder' = Released(c)
  /\ Goes(c, IF r.kind = "ASSET_METADATA" THEN Idle ELSE [r EXCEPT !.step = "EVENT"])
  /\ UNCHANGED events

\* recordEvent swallows its errors.
Event(c) ==
  /\ change[c].step = "EVENT"
  /\ events' \in {events, events \cup {Log(change[c])}}
  /\ Goes(c, Idle)
  /\ UNCHANGED <<stored, holder, audit>>

\* A statement fails or the process dies: the transaction is rolled back.
Crash(c) ==
  /\ change[c] # Idle
  /\ holder' = Released(c)
  /\ Goes(c, Idle)
  /\ UNCHANGED <<stored, audit, events>>

Init ==
  /\ stored = [n \in Columns |-> Default]
  /\ holder = [r \in Rows |-> NoOne]
  /\ change = [c \in Calls |-> Idle]
  /\ audit = <<>> /\ events = {}

Next ==
  \E c \in Calls :
    \/ \E k \in Kinds : \E input \in ChangesTo(k) : Receive(c, k, input)
    \/ Read(c) \/ Write(c) \/ Commit(c) \/ Event(c) \/ Crash(c)

Spec == Init /\ [][Next]_trail

-----------------------------------------------------------------------------
AtFirst(k) == [c \in ColumnsOf[k] |-> Default]

\* The first n audit logs say that the columns of kind k have the values v: the
\* newest of them of that kind left them, or none is of that kind.
Tells(n, k, v) ==
  \/ v = AtFirst(k) /\ \A i \in 1..n : audit[i].kind # k
  \/ \E i \in 1..n : /\ audit[i].kind = k /\ audit[i].after = v
                     /\ \A j \in (i + 1)..n : audit[j].kind # k

\* The audit logs of an asset and of a market explain it: each starts from the
\* values the one before left, none repeats a status, and the last one has the
\* values stored now, those a partial change of the metadata left alone included.
\* Of the fees, whose row is read without a lock, only the last holds. Security
\* events tell only of what was committed.
AuditExplains ==
  /\ \A e \in events : \E i \in DOMAIN audit : audit[i] = e
  /\ \A k \in Kinds : Tells(Len(audit), k, Current(k))
  /\ \A i \in DOMAIN audit :
       /\ audit[i].kind # "FEES" => Tells(i - 1, audit[i].kind, audit[i].before)
       /\ audit[i].kind \in {"ASSET_STATUS", "MARKET_STATUS"} => audit[i].before # audit[i].after

=============================================================================
