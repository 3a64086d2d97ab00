# SW Exchange: formal models and proofs

TLA+ modules for SW Exchange: the trading core, the movement of funds, the
administration, authentication and services of `src/apps/api`, and the pages of
`src/apps/web` that decide something; the TLC configurations that check them on small
instances, and TLAPS proofs of the properties that matter most for every instance. `PROJECT.json` maps every
definition to the lines it models and lists the runs, the theorems, the hazards
and the findings.

## 1. The system

SW Exchange is a simulated spot exchange: a NestJS API over PostgreSQL, a web
client, and no other process. Every operation is an HTTP request whose handler
runs, in most cases, one database transaction at READ COMMITTED. There is no
queue, no worker and no matching engine of its own: **the request that places
an order also matches and settles it**. All shared state is in the database, so
what makes the system hard is which rows a transaction has locked when it
decides, and what it does when it fails half way.

| Component | State | Operations that change it | Correct when |
|---|---|---|---|
| Orders (`orders/orders.service.ts`) | `orders`, and through it `wallets`, `trades`, `ledger_entries` | `createOrder` (limit, market), `cancelOrder`, `previewOrder` (reads) | price-time priority; nothing traded beyond a limit, an amount or a budget; locks back orders; a failure leaves no trace |
| Money arithmetic (`common/money.ts`) | none | totals, roundings | rounding never favours the taker over what was reserved |
| Fees (`fees/fees.service.ts`) | `fee_settings`, FEE wallets | `updateFeeSettings`, `calculateFee`, `creditFee` | a fee never exceeds what is received; one rate per placement; fees collected are fees charged |
| Trades (`trades/trades.service.ts`) | `trades` | `createTradeRecord` | trade rows add up to what orders say they filled |
| Wallets (`wallets/wallets.service.ts`) | `wallets` | creation for a user, an administrator's buckets or an asset; every listing completes them | a listing shows a wallet for each asset that was active all the while; balances never negative |
| Transfers (`transfers/transfers.service.ts`) | `wallets`, `transfers`, `ledger_entries` | `create` | money moves and is never made |
| Ledger (`ledger/ledger.service.ts`) | `ledger_entries` | written with every wallet update | the snapshots are the history of the balance |
| Administration (`admin/admin.service.ts`) | `users.status`, `markets.status`, `assets.is_active`, `wallets` | status switches, airdrop, bucket transfer, asset and market creation | a switch takes effect at a definite point; bucket moves conserve |
| Admin roles (`admin-roles/`) | `user_admin_roles`, `users.role`, `auth_version` | `setRoles`, status authorization | the last active super-admin survives; nobody grants above himself |
| Two-factor (`auth/two-factor.service.ts`) | factor columns of `users`, challenges, recovery codes, reauthentication tokens | `setup`, `enable`, `manage`, `completeLogin`, `reauthenticate` | each code and proof works once; sessions of an older version are dead |
| Email verification | `email_verification_tokens` | request, confirm | the latest token only, once, before it expires |
| Login, registration, rate limits | `users`, `auth_rate_limits` | `register`, `login`, `check` | a budget per window that no retry escapes |
| Markets and candles (`markets/markets.service.ts`) | none; reads `trades` | `getTicker`, `getCandles` | a candle settles; the ticker agrees with the chart |
| Security events, mail (`security/`, `mail/`) | log rows, printed mails | `recordEvent` after a commit | no secret in the log; events only of what was committed |
| Scripts (`scripts/seed.ts`, `bootstrap-admin-roles.ts`) | all tables | the seed, run before the service and again; the role bootstrap | a second run changes nothing |
| Trade page (`web/app/trade/page.tsx`) | React state of one browser | form, estimate, review, confirmation; loads every 5 seconds, cancellations | one order per review; a market left behind is asked for and shown no more once what was under way has ended |
| Fees and verification pages, session provider | React state | load and save fees; confirm a link | what a dialog says is what it does; a link is answered |
| Feature flags, other pages, shared types | flags | flag updates; the rest reads or renders | see section 7 |

How they interact: `createOrder` calls into money, fees and trades inside its
own transaction; it shares the `wallets` rows with transfers, airdrops and
bucket transfers, and the `users`, `markets`, `assets` and `fee_settings` rows
with the administrator's requests. Administrator changes are authorized by the
roles, which are confirmed by two-factor proofs, which are bound to the session
version that role and factor changes raise. The browser is a client like any
other: it may send a request and lose the answer, send it again, or receive
answers in another order than it asked.

Hard behaviours, all listed with their lines as hazards in `PROJECT.json`:
rows read without a lock at the start of a transaction and relied on until its
end; locks of an order computed exactly on some paths and rounded on others;
errors in the middle of a matching loop; the order in which joins and wallet
reads take row locks; single-use tokens checked outside the transaction that
consumes them; the last super-admin under concurrent removals; trades that
commit after the candle they belong to was shown; answers that reach a page
after the user has moved on.

## 2. Plan

In order of importance, with what each module composes:

1. `Money`, `Sums`, **`Trading`**, `TradingProperties`, `MCTrading`: placement,
   matching, settlement, cancellation, switches. *Done.* Theorems: types,
   conservation, locks. *Done.*
2. `WalletLedger`, `AccountBook` (abstract), **`Funds`**: transfers, airdrops,
   bucket transfers and the wallets they insert, as overlapping transactions with
   row locks; the ledger as the history of the balances. *Done.* Theorems: the
   refinement, the ledger, where deadlocks come from. *Done.*
3. **`OrderOverlap`**: placements and cancellations at once, with the row locks
   their statements take and the READ COMMITTED reads: deadlocks that PostgreSQL
   resolves by aborting one side, a book crossed at rest. *Done.* Theorems: wallets
   and book agree, only overlaps cross. *Done.*
4. `Administrators`, `AdminAuthority` (abstract), **`AdminRoles`** (last
   super-admin, no escalation, stale sessions, with the status changes of
   accounts). *Done.* Theorems: the refinement, the last super-admin. *Done.*
5. `TwoFactor` (setup, codes, challenges, proofs), `EmailVerification` (the token
   is checked outside the transaction), `AuthRateLimit` (windows). *Done.*
6. `Preview`: the unlocked walk of a preview against the execution on the same
   book; `Catalog`: users, assets and markets created at the same time, and the
   seed; `AuditTrail`, `SecurityEvents`, `MarketData`. *Done.*
7. The browser: `TradeForm`, `TradeView`, `FeesPage`, `VerifyPage`. *Done.*
8. Theorems about the book (priority, fills, rates, makers, an uncrossed book,
   previews) and exact locks, about `TwoFactor`, about the services that keep
   state, and about the candles and the ticker. *Done.*
9. Left: the log's redaction and liveness stay with TLC (section 6).

## 3. The modules

| Module | What it holds |
|---|---|
| `Money` | the integer arithmetic of totals, roundings, averages and fees |
| `Sums` | sums over table rows, as a recursive function |
| `Trading` | the state machine of placing, matching, settling, cancelling, switching |
| `TradingProperties` | what it promises, and the promises of the documents it breaks |
| `Preview` | the previews and the order book as functions of the tables of `Trading`, and what they foretell |
| `OrderOverlap`, `MCOrderOverlap` | placements and cancellations as overlapping transactions with row locks; an instance |
| `MCTrading` | instances for TLC |
| `Administrators` | accounts, registry of roles and the authority they give; shared by the next two |
| `AdminAuthority` | the abstract specification: atomic, authorised changes of accounts |
| `AdminRoles` | role replacements, status changes, proofs, sessions and the bootstrap script as locked transactions |
| `AdminRolesProperties`, `MCAdminRoles` | what it promises, and instances for TLC |
| `AdminRolesProofs` | types, the checks that stay true, the refinement and what follows from it |
| `WalletLedger` | the wallets of one asset and their ledger; shared by the next two |
| `AccountBook` | the abstract specification: money moves in one step, with its entries |
| `Funds` | transfers, airdrops and bucket transfers as transactions that insert, lock, read and write wallet rows |
| `FundsProperties`, `MCFunds` | what it promises, and an instance for TLC |
| `FundsProofs` | types, reads that stay current, the refinement, the ledger, deadlocks |
| `TwoFactor`, `TwoFactorProperties` | one user's factor, codes, challenges, proofs and sessions |
| `EmailVerification` | overlapping requests and confirmations of verification tokens |
| `AuthRateLimit` | the counter of one key and its windows |
| `Catalog` | who has which wallet: registrations, listings, new assets and markets, the seed |
| `MarketData` | trades that commit late, the candles, the ticker and its five queries |
| `AuditTrail` | status, metadata and fee changes with their audit rows and events |
| `SecurityEvents` | what the log keeps of nested metadata |
| `TradeForm`, `TradeView` | the trade page: form, estimate, review, confirmation; loads, polls, actions |
| `FeesPage`, `VerifyPage` | the administrator's fees page; the page of a verification link |
| `Services` | one instance each of `EmailVerification`, `AuthRateLimit`, `Catalog`, `AuditTrail`, `TradeForm`, `TradeView`, `MarketData`, with variables of their own and their properties |
| `MCServices` | one instance of the nine parts from `TwoFactor` to `TradeView`, for TLC; a behaviour moves one of them |
| `ServicesProofs` | what the seven of `Services` promise |
| `TwoFactorProofs` | types, current sessions and proofs, factors spent once |
| `MoneyProofs` | lemmas on sums, division, roundings; the bounds of fees and market buys |
| `TradingProofs` | types of `Trading`, conservation, locks, shortfalls |
| `TradingBookProofs` | exact locks, priority, fills, rates, makers, rows that advance, an uncrossed book, previews |
| `OverlapProofs` | locks that match the book and orders that cross, in `OrderOverlap` |

### How `Trading` follows the code

`createOrder` is one transaction. The model cuts it where another transaction
can come between: `ReceiveLimit`/`ReceiveMarket` are the unlocked reads of user
and market with the validation (`phase = "CHECKED"`); `Place` locks and checks
the spend wallet, moves the lock, inserts the row and runs the locking query of
the matching loop (`phase = "MATCH"`); then one step per visited resting order:
`SkipOwn`, `LimitFill`, `MarketFill`, `MarketStop` (a market order meets an
order worth nothing to it and leaves the loop), `MatchError` (a total with a
remainder, or a check of the settlement). `FinishLimit` and `FinishMarket`
compute the final status and commit; `NoLiquidity` is the market order without
a fill, which throws. `Abort` restores `saved`, the tables as they were before
the first write: that is the roll-back.

* **Variables are tables.** `avail`, `locked`: MAIN wallets; `feeWallet`: FEE
  wallets; `orders`, `trades`: rows in order of creation, so that comparing
  indexes is comparing `created_at` (the start of the transaction, and
  placements do not overlap). The row of the placement in progress is `taker`:
  no other transaction sees it before the commit. `rates` is the fee object the
  loop reads at its first fill.
* **Row locks** decide what interleaves with a loop (`UserRowHeld`,
  `MarketRowHeld`, `AssetRowHeld`). The matching query's `FOR UPDATE` covers
  its join with `users`, so the makers' user rows are held; inserting the order
  holds the taker's user row and the market row against an update
  (foreign-key locks); a wallet read holds the asset row it joins, first only
  the spend asset's, both after a fill. Fee rows are never held. A cancellation
  waits for a loop.
* **Fills.** `Deal(i)` is all that one fill moves; `Settle` applies it, wallets
  one after the other as `settleBuyerSide` and `settleSellerSide` do, so a user
  who appears twice is updated twice. `LockFor` is the lock of a limit order
  recomputed from price and remainder, `LockAfterMarketFill` the subtraction of
  the market loop: that the code has two rules for the same column is the
  reason for most of the properties.
* **Fault** lists the errors of one fill in the order the code meets them.
* **Data.** Amounts are natural numbers of minimal units. The columns are
  `numeric(78,0)` and the code uses `bigint`, so there is no overflow to model.
  A market's decimals are two positive numbers (`Scale`); the theorems hold for
  any, powers of ten or not. `FROZEN` stands for `BANNED` too: the code treats
  them alike in everything modelled here. A request that fails a check before
  its first write changes nothing and is no action. Wallet rows always exist
  (a missing row is created with zeros before it is used). Timestamps, ids,
  notes and formatted output are left out. Ledger entries, which repeat each
  wallet update, are left out here.
* **Bounds.** `MaxOrders` bounds the number of placements (a guard of
  `MayRequest`); nothing else is bounded in the module. The inputs come from
  `Prices`, `Amounts`, `Spends` and `FeeRates`.

Definitions with an underscore (`LockFor_Stale`) are wrong variants that no
definition uses; section 5 says which property each one breaks.

### How `AdminRoles` follows the code

A request that replaces roles or changes a status is a record in `request` that
passes through the steps the code can be interrupted between.

* `AdmitProve`, `AdmitRoles`, `AdmitStatus` are the guard: the token's version
  is the account's, the account is an ACTIVE administrator with the permission
  of the route. It locks nothing, so all it saw may have changed at the next step.
* `Lock` is the wait for `ADMIN_SECURITY_LOCK`, and for the two user rows in
  `setRoles`; `Check` and `Refuse` are everything the transaction then verifies
  (`MaySetRoles`, `MayChangeStatus`); `WriteRoles`, `WriteStatus` are its writes
  and the commit, `RefuseProof` the proof that `consumeReauth` does not accept.
  Checks and writes are separate steps because nothing but locks keeps other
  transactions out between them: `RowHeld` says which rows they have.
  `updateUserStatus` locks its target and reads the actor without a lock.
* `Prove` issues a proof for one replacement (`reauthenticate`, under the user's
  row only), `Expire` is its five minutes, `ChangeFactor` the end of all sessions
  when the second factor is enabled or disabled, `Bootstrap` the operator's
  script (with `--recover`), `Abandon` a lost connection, `SetEnforcement` the
  flag.
* **Data.** `Registry` is the deployed registry of roles, `Grants` what registry
  and database both allow; the two may differ, as `access()` and `setRoles` treat
  them differently. Roles and permissions are the members of two sets. System
  accounts are refused on every path and are not in `Users`; `FROZEN` stands for
  `BANNED` too, so a user who would be refused a proof for being banned may get
  one in the model. A session is its version. A request whose proof is for another
  replacement is refused and changes nothing, so `AdmitRoles` starts from a
  proof, used or not. Passwords, codes and limits of attempts are left out: they
  only refuse.
* **Bounds.** `MaxVersion` on the versions with which requests are admitted and
  sessions ended, `MaxProofs` on proofs issued, both guards of those actions.

`AdminAuthority` has the same accounts and none of the machinery: each change is
one step with all of its conditions at that step. `Authority == INSTANCE
AdminAuthority` maps every variable to itself; requests, proofs, locks and the flag
are what the detailed module adds.

### How `Funds` follows the code

The three handlers that move money outside of trading have one shape: insert the
wallet rows that may be missing, `SELECT ... FOR UPDATE` the rows to change,
compute the new balances in the service from what was selected, write them and the
ledger, commit. The model has one asset, since no handler touches two, and a
record per transaction: `request`, `made` (rows inserted and not committed),
`todo` (rows still to insert, then to lock), `held`, `read`.

* `Begin` is the validation and the unlocked reads of users and asset. These may
  change at any time, so every request that could ever be valid is admitted at
  every point, and a request that is refused here, having done nothing, is no
  action. `Accepted` is the check that matters to the balances: the two wallets
  differ.
* `Ensure` is one row of the insertion. `ON CONFLICT DO NOTHING` passes over a
  committed row, locked or not, and waits for a row that another transaction is
  inserting (`Insertable`). A bucket transfer inserts both rows in the order of
  the request.
* `Select` fixes the rows the query finds, `Visible`, and the order in which it
  will lock them: a transfer sorts by `user_id`, a bucket transfer does not sort
  and any order is possible (`LockOrders`). The rows committed by then include one
  that an insertion waited for.
* `Lock` locks one row and reads its latest version, as READ COMMITTED does after
  a wait. `CommitMove` and `CommitAirdrop` are the checks on what was read, the
  writes computed from it, and the commit; `Refuse` is a missing wallet or too
  little money.
* `Crash` is a lost connection or process at any point before the commit; `Victim`
  is PostgreSQL aborting a transaction of a deadlock; `CreateWallet` is one row
  inserted by a listing or by the creation of an asset, each a statement of its own.
* **Data.** A user is a number, so that `<` is the order of ids. The ledger table
  does not say which bucket an entry is about; the audit row it refers to does, and
  the model's entry carries the wallet. Locked balances are passed through
  unchanged by all three handlers and are left out. The writes of a transaction
  and its commit are one step: until the commit nobody can read them, and the rows
  are locked from before they were read. `opening` exists for the properties only.
* **Bounds.** `Transactions` is the number of requests; nothing else is bounded.

`AccountBook` has the balances and the ledger and nothing else; `Book == INSTANCE
AccountBook` maps each variable to itself, and locks, insertions, waits and
roll-backs are stuttering steps of the book.

### How `Preview` and `OrderOverlap` follow the code

`Preview` has no state: its operators are the loops of `previewMarketOrder`,
`limitOrderMayMatchImmediately` and `buildBookSide`, which repeat matching in code
of their own, over the committed rows of `Trading`. The loop is `Walk`, a recursive
function of the number of turns; a turn (`Turn`) passes over an own row, ends at a fill
that is worth nothing, or takes the fill. Walk and turn are operators of the rows, the
rates and the request, not of the variables, so that what is proved of them holds in
every state. `PreviewForetells` compares them at every step of a placement with what
the placement does.

`OrderOverlap` answers what `Trading` leaves out, where one placement runs at a
time. A transaction is in `pc`; `held` and `shared` are the rows it has locked.
`FOR UPDATE` on a join locks all joined rows: the wallet read of `Begin` locks the
wallet and its asset, the matching query of `Select` locks the orders and their
owners, `selectOrderRows` of a cancellation locks market and assets. `Insert` takes
`FOR KEY SHARE` of user and market through the foreign keys. `needs` is what a
statement has still to lock, in its order (`Sorted` is the query's); `Lock` takes one
and waits for nothing else; `Read` reads the latest version of what was locked, as
READ COMMITTED does; `Settle` locks the other wallets, `Commit` makes it all
visible, `Deadlocked` is PostgreSQL aborting one member of a cycle of waits. Two
placements that spend the same asset are in sequence from the wallet read to the
commit, because both lock the asset's row; a BUY and a SELL are not, neither sees
the other's order, and the book may stay crossed. The module counts base units
only: balance checks, fees and rounding are those of `Trading`.

### How the services follow the code

* **`TwoFactor`.** Every operation is one transaction that begins with the user's
  row (`lockedUser`), hence one action each: `PasswordLogin`, `CompleteLogin` and
  `FailLogin`, `Reauthenticate` (with a factor, once there is one), `Setup`,
  `Enable`, `Regenerate`, `Disable`, and from outside `SetStatus`, `SetRoles`,
  `UseRoleProof`. `Accepts` is what `consumeFactor` takes: a code of a later time
  step than the last, or an unused recovery code. A session is the version it was
  signed with. `spent`, `enrolled` exist for the properties only.
* **`EmailVerification`.** `Invalidate`, `Store`, `Mail` are separate steps because
  only the first two are one transaction and neither sees a token the other has
  not committed; `Confirm` is the checks outside the transaction, `Verify` the
  transaction.
* **`AuthRateLimit`.** `Begin` computes the window in the service, `Count` is the
  upsert, so a call can be counted after its window has ended (`late`).
* **`Catalog`.** `Register` commits the user before any wallet. `ReadAssets` and
  `InsertWallet` are the loops that complete wallets, one statement each;
  `BeginAsset`, `CoverAsset`, `CommitAsset` a transaction that sees the users
  committed by its second statement. The seed is one action per statement, and
  `Crash` may cut it, or any call, between two.
* **`MarketData`.** `Begin` fixes the time of a placement's trades, `Commit` makes
  them visible later. `Query` is one of the ticker's queries. `Candles` goes through any
  set of trades in the order of the query (`Drawn`, one trade `Added` after another to
  what the code keeps in a Map by the start of the interval); the code answers with the
  last of them, as many as were asked for, which leaves each of them as it is.
* **`AuditTrail`.** `Read` locks the row (`LocksToRead`; the fee row is read without
  a lock), `Write` and `Log` follow it, `Commit` ends the transaction and `Event`
  comes after it or never.
* **`SecurityEvents`.** Values are trees of texts, lists and objects up to
  `InputDepth`; a key is sensitive or not, a text looks like a secret or not.

### How the pages follow the code

A page is its React state; an action is an event handler up to its first `await`,
an effect, or the rest of a handler after the answer. `apiRequest` gives up after
10 seconds, so `Failed` and `LoadFails` are possible whether or not the service did
what it was asked (`Taken`). `TradeForm` leaves out what is shown of an order.
`TradeView` keeps which market the tables are of (they are set together) and which
market and interval the candles are of, with `isCandlesLoading` and whether
`candleError` is set; a load carries what it asks for and whether it is silent.
`ChangeMarket` is `handleMarketChange` with the two effects after it: the selector
calls it for the selected market too (`market-selector.tsx:189`), which clears the page
and, since no dependency changes, runs no effect. `Loaded` writes whatever comes,
`LoadFails` says so only if the load was not silent; `Act` keeps the market and the
interval of the render in which a cancellation or an order began, which its end loads.
`FeesPage` has one load per selection and the
dialog with its pending action. `VerifyPage` has the effect that confirms a token,
with its clean-up, and the renders of `AuthProvider` that cause it.

## 4. The runs

| Run | Instance | What it shows |
|---|---|---|
| `exact` | 3 users alike, 2 markets alike that spend SWC, which may be paused, whole totals, an order minimum, prices 1-2, scarce funds, 3 orders | locks equal reservations also across markets, price-time priority, book never crossed |
| `rounded` | 2 users, up to 4 orders, prices of 15 and 30 tenths, amounts 3 and 6, spends of 2 | locks, cover and conservation where market fills round down and limit fills fail half way; previews foretell placements; roll-backs leave no trace in committed orders |
| `switches` | a user freezes, the market pauses, fees change between 0 and 5 %, all at any step, 3 orders at one price, with `FairSpec` | makers trade only while ACTIVE, one pair of rates per placement, every placement is answered |
| `admin_roles` | a super-admin and a legacy administrator who owns the FEE wallets, the flag and the bootstrap script, 2 requests at a time, 1 proof, versions to 2, with `FairSpec` | a super-admin survives and the fee principal keeps his role; every transaction is an atomic change of `AdminAuthority`; proofs die with sessions; every request is answered |
| `funds` | an administrator with one bucket, a user, 3 requests, all wallets or only one present, with `FairSpec` of `Funds` | overlapping requests are moves of the book, one after the other; reads stay current; deadlocks need two bucket transfers, and are survived |
| `overlap` | 3 placements and a cancellation of 2 users, prices 1-2, buys of 2 and sells of 1 | locks agree with the book through waits, deadlocks and aborts; only orders that overlapped may cross; nothing stops but at the end (deadlock is checked) |
| `services` | see below | second factor, verification, attempt counters, audit trail, security log, wallet tables under the seed, candles and ticker, the trade page |

`services` runs `MCServices`: a behaviour moves one of nine parts, chosen in the initial
state. They share no table that both model, so their states add up and do not multiply.
`TwoFactor`: one user, a recovery code per set, one attempt, lifetimes of one tick, 2
ticks, 3 versions, 2 secrets: enabling, disabling and enabling again, with a proof or
challenge left over from before; a password login begins with fewer than 3 sessions. `EmailVerification`: 2 calls, 3 tokens.
`AuthRateLimit`: 2 calls, limit 2, 3 windows, 2 late counts. `Catalog`: a user and the
administrator, 2 assets of which one may be paused, a market, 2 calls, one of them
the seed, run again after a cut; a call takes users and rows in one order. `MarketData`: 2 placements of 2 trades at most,
candles of 2 ticks. `AuditTrail`: 2 calls, 2 audit rows, 2 values. `SecurityEvents`:
inputs 4 deep where the code's cut is at 2, one item per list. `TradeForm`: 2 markets,
2 reviews, 2 estimates under way. `TradeView`: 2 markets, 2 intervals, 3 loads under way,
which is the two of a selection and one that comes late.

The bounds are small but reach the cases the properties are about: three orders
give a taker with two makers (two fills of one placement, hence partial fills,
a roll-back after a fill, priority between makers and an own order in between);
four orders give a resting order that was first filled by a rounding market
order and then by an exact limit order, which is where its lock and its cover
could drift apart. Three users let two makers and a taker differ. Amounts 10
and 20 with fees of 5 % make fees that are zero by rounding and fees that are
not. In `rounded`, at a price of 15 tenths a limit order of 6 has a whole total and
one of 3 has not; a market sell of 3 against an order of 6 is settled with a
rounded-down total and leaves 3 that no exact fill can take, while 3 at 30 tenths
is exact: a limit sell of 6 fills that first and fails on the second order, so
its roll-back has a fill to undo. A market buy of 2 gets one unit for 1 and has 1
left that buys nothing.
In `admin_roles` two accounts are enough for the property at stake (each removing
the other), and two requests for every overlap of two transactions.
In `funds` two users and three wallets give opposite transfers, a transfer
against the bucket transfers of the same administrator, and an airdrop to either;
three transactions let two deadlock while a third waits for one of them, and let
a row be inserted by one, waited for by another and rolled back. The amount 2
against balances of 3 and 1 makes requests covered or not depending on their
order. From the opening with a single wallet every other row is inserted on the
way.
In `overlap` three placements are two that overlap and one that meets what they
leave, or a maker and two takers that meet in a cycle of locks; the cancellation
races the fill of its order.
`CHECK_DEADLOCK FALSE` is set because the trading system stops when `MaxOrders` is
reached and no open order is left to cancel, the administrators' and the services'
when their counters are at their bounds; in `Funds` every transaction is used once,
so it stops when all are answered and all wallets exist. That nothing stops earlier
is what the liveness properties say. In `overlap` deadlock is checked.

**Fairness.** `FairSpec` adds weak fairness of `Progress`: once a request has
been received its handler runs to the end, because each statement is answered
by the database and the handler has no wait of its own. Nothing is assumed of
users or of administrators. It is used for `PlacementsAnswered` only (every
placement ends, whatever own orders, dust and exhausted rows the loop meets)
and, where a temporal formula is refuted, to show that the refutation is no
stuttering.

In `AdminRoles`, `FairSpec` is strong fairness of the handler of each client:
PostgreSQL queues the waiters of a lock and grants it in their order, so a request
that finds the lock free again and again gets it. It is used for `RequestsAnswered`.

In `Funds`, `FairSpec` is weak fairness of all transactions together: as long as
some statement can run or some deadlock can be resolved, one is. Nothing is
assumed about which, nor that a transaction is ever preferred to another; that
suffices for `RequestsEnd` because every transaction has a bounded number of
steps, and it excludes that a set of them waits for ever.

In `VerifyPage`, `FairSpec` is weak fairness of each of its actions: React renders,
effects run, requests are answered or given up. That the page is stuck all the same
is the finding.

### Runs that find a disagreement

Each of these checks one sentence of the documentation and TLC finds it broken
by what the code does. `PROJECT.json` "findings" quotes the sentences.

| Run | What the code does |
|---|---|
| `stranded_lock` | Market sells take rounded-down totals off a resting buy. When its last fill closes it the remainder stays in the wallet's locked balance and belongs to no order: no request releases it. (Proved: `LocksBacked`, the inequality, always; `LocksExact` itself as long as no such total was rounded, so nothing else strands money.) |
| `partial_fill` | A limit order whose fill, or whose remaining lock, is no whole number of quote units is refused as a whole, earlier fills included. A market order that leaves an odd remainder at the top of the book makes crossing limit orders fail until that order is cancelled. |
| `frozen_user` | A user frozen after the status was read still places and matches the order. |
| `fee_page` | The answer to a load of a market selected earlier fills form and settings of the one selected now: the dialog names one market and gives the current fees of another. |
| `verify_page` | A render while the confirmation is under way makes the page drop its answer and never ask again. |

## 5. What the properties are about

* `LocksBacked`, `LocksExact`, `OrdersCovered`: the reservation of an order is
  kept in two places, `orders.locked_amount` and `wallets.locked_balance`, by
  two loops with two rules. They must not drift apart in the direction that
  lets one order spend another's money or lets an order rest without the money
  to fill it. Broken by `LockFor_Stale` (the lock of a filled order is not
  recomputed), `LockAfterMarketFill_Kept` (a market fill does not lower it),
  `LockAfterMarketFill_Floor` (it is recomputed rounded down).
* `NoInternalShortfall`: the code's own "cannot happen" errors do not happen.
  Broken by `LockAfterMarketFill_Kept`.
* `Conservation`: also between two fills of a loop and after a roll-back.
  Broken by `Refund_None` (price improvement is not given back).
* `FillsAccounted`: relates trade rows to the orders they name. Broken by
  `Abort_KeepsTrades` (a roll-back that forgets a table).
* `PriceTimePriority`, `BookNotCrossed`: what the locking query's order and the
  skipping of own orders must guarantee. Broken by `Before_NewestFirst` and
  `SkipOwn_Stops`.
* `PreviewForetells`: two loops over the same book must agree. Broken by
  `PreviewLeft_Same` (the preview does not subtract what it has taken).
* `OrdersOnlyAdvance`, about committed rows across placements, roll-backs and
  cancellations. Broken by `Rests_AnyStatus` (closed orders match again).
* `MakersStayActive`, `OneRatePerPlacement`, `PlacementsAnswered`: interleavings
  with the administrator. Broken by `UserRowHeld_TakerOnly`, `Rate_Reread`,
  `LoopEnded_AllVisited`.
* `LocksMatchBook`: broken by `CancelRows_WalletOnly` (a cancellation locks the wallet
  and not the order and its market: it gives back what a fill has taken).
  `CrossNeedsOverlap`: broken by `Matches_BestOnly` (the matching query stops at the
  best price).

* `SuperAdminSurvives`, `FeePrincipalStays`: what no sequence of individually
  allowed changes by several administrators may reach. Broken by
  `LockFree_Always` (the advisory lock is not taken), `KeepsFeePrincipal_Ignored`.
* `ChecksStayTrue`: between check and write. Broken by `RowHeld_TargetOnly`
  (`setRoles` locks only its target: the actor's session ends in between) and
  `LockFree_Always`.
* `ProofsAreCurrent`: broken by `ProofsWithout_Kept` (a change leaves the proofs).
* `ReadsStayCurrent`, `MovesAreAtomic`: balances are computed outside the
  database from a read and written later; only the row locks make that a move.
  Broken by `Lockable_Always` (the `SELECT` does not lock: an update is lost).
* `LedgerExplainsBalances`: each entry's balance follows from the one before it on
  its wallet, and the last is the balance. Broken by `Accepted_Self` (a transfer to
  oneself writes one row twice).
* `DeadlocksNeedTwoBuckets`: broken by `LockOrders_RequestOrder` (transfers lock the
  sender first). `RequestsEnd`: broken by `End_KeepsRows` (a transaction ends with
  its locks).
* `ChangesAreAtomic`: the refinement. Broken by `May_GuardOnly` (the transaction
  trusts the guard). `RequestsAnswered`: broken by `End_KeepsLock`.

* `SecondFactorHolds` (no session of a user with a factor was opened without it),
  `FactorsSpentOnce`, `OpenProofsAreCurrent`: over enabling, disabling, regenerating,
  suspension and role changes. Broken by `Enabled_SameVersion` (enabling leaves old
  sessions alive), `AfterFactor_KeepsCounter`, `WithoutProofs_Kept`.
* `FirstVerificationStays`: two confirmations that both passed the checks. Broken by
  `VerifiedAt_AsRead` (the time is computed from the row read before).
* `AdmittedPerWindow`: exactly what late counts cost. Broken by `Counted_FromZero`.
* `ListingsComplete`, `LegacyMovedOnce`: wallets and the moved fees survive what was
  created at the same time, and cuts; a seed cut between its two statements costs the
  amount once more, which the property counts. Broken by `ReadAssets_Main`,
  `SeedEmpty_Kept`.
* `CandlesSettle`, `TickerAgreesWithChart`: two computations over the same trades,
  which commit late. Broken by `Start_Inclusive`, `Newest_AnyOfLatest`.
* `AuditExplains`: overlapping changes of one row chain up. Broken by
  `LocksToRead_Never`. `SecretsStayOut`: broken by `Normalize_LeavesOnly` (only leaves
  under a sensitive key are looked at).
* `OneOrderPerReview`, `EstimateSettles`: answers that are lost or come late. Broken by
  `AfterFailure_StaysOpen`, `Ignored_Kept`.
* `NoStrangerReturns`: while a market and an interval stay selected, whatever entry of
  the selector is chosen, nothing of another one is asked for but by the end of an action
  begun before, and nothing of another one is shown but by the answer to a load begun
  before. It does not say that the page always shows what is selected: late answers are
  shown until the next poll, and choosing the selected market again leaves the page empty
  until then. Broken by `Polls_Added` (the clean-up of the effects leaves the old timers
  running).

## 6. What is proved

The proofs about `Trading` are for all users, assets, markets, scales, minimums, funds, request
sets and any `MaxOrders`. They rest on `TablesAssumption` (a user is listed
once, a market's base and quote differ) and `NumbersAssumption` (scales are
positive, funds natural, rates at most `MaxFeeRate`), both of which TLC
evaluates in every run, and on nothing else.

* **`TypesHold`**: `Spec => []TypeOK`. The inductive invariant `TypeInv` adds
  only that a market order locks nothing. No balance gets negative because every
  subtraction is preceded by a check (`Funded`, `Needed`, `CanRelease`), because
  a fee is at most what it is taken from (`FeeWithinAmount`), and because a fill
  is at most what either side has left. The lemma `ChangeBalance` gives the
  value of a wallet table after one update; `SettleBalances` composes the four.
* **`MoneyIsConserved`**: `Spec => []Conservation`. `MoneyInv` adds the same of
  `saved`, so that a roll-back conserves, and `RowsCross`: the rows the loop
  holds are still priced within the taker's limit. Without it a release could be
  less than the cost of the fill and the refund, cut off at zero, would not be
  the difference (`RefundIsTheDifference`).
* **`WalletsBackTheLocks`, `OrdersStayCovered`, `NothingFallsShort`**: one
  inductive invariant, `LockInv`. A wallet's locked balance covers the sum of
  its orders' locks; each order's lock covers what is left of it at its own
  price; the taker's row satisfies the same while it is being matched; the same
  holds of `saved`; and the rows still to visit are open and on the taker's
  market and side. The argument: an exact fill takes `price * fill` off a lock
  that is recomputed exactly, a rounded fill takes at most that and the lock is
  reduced by exactly what was taken, so covers and sums go down together
  (`LockPays`, `ExactLockFits`, `DealPaysLocks`). Covered rows make every check
  of the settlement pass (`FillsAreFunded`), hence no shortfall is ever raised;
  a lock that is positive and backed makes every cancellation possible.
* **`OnlyRemaindersStrand`, `LocksStayExact`**: `Spec => [](NoRemainders => LocksExact)`
  says when the equality that `stranded_lock` refutes does hold: at least until a market
  sell takes a total off a resting buy that was rounded down. The second theorem needs
  no trades: where every price times amount is whole, `LocksExact` holds for ever. (Its
  hypothesis is about a market's decimals; the scale of the run `exact` satisfies it.)
  `ExactInv` adds to `LockInv` that every trade's quote is the floor of its worth, that
  an open buy whose sales were all whole locks exactly what is left of it, that the
  taker's row does, and all of it of `saved`. A whole total is what the lock was
  recomputed from, so nothing remains of it (`ExactRest`).
* **`MarketBuyWithinSpend`**: rounding from quote to base and back never costs
  more than what is left to spend.

The theorems of `TradingBookProofs` share one invariant, `BookInv`, on top of
`LockInv`:

* **`MakersTradeActive`**: the owners of all rows the loop holds are ACTIVE
  (`MakersActive`), since a switch waits for `UserRowHeld`.
* **`OrdersAdvance`**: every row is ahead of the same row of `saved` and those still to
  visit are equal to it (`SavedBefore`), so what a commit shows has advanced and what
  a roll-back restores is what others saw all along.
* **`OneRateHolds`**: the trades of the placement are charged by `rates`, which is set at
  the first of them (`RatesKept`); trades of earlier placements name only earlier rows
  (`TradesRefer`).
* **`PriorityIsKept`**: a loop that goes on has emptied every row it visited, save the
  taker's own (`PriorityKept`), and it visits in the order of `Before`. That is where
  a market buy, which may leave a crumb it cannot pay, is excepted.
* **`FillsAddUp`**: for every row, of `orders`, of `saved` and the taker's, the trades that
  name it sum to what it says (`FillsKept`); one more trade adds to two of the sums.
* **`BookStaysUncrossed`**, for systems where no account can be frozen: `UncrossedInv`
  says that the query found every row a limit taker would trade with (`AllFound`), and
  that one left behind means the taker has nothing left. The hypothesis is needed: orders
  of a frozen user are skipped, and cross once he is active again.
* **`PreviewsForetell`**, while no frozen account comes back and no fee rate changes
  between the selection of the rows and the end of the loop (`CalmPlacements`; TLC
  refutes the property without that, in a few steps, once an account may be frozen).
  `PreviewInv` adds to `BookInv` that the rows a placement selected are still the rows
  a preview finds (`PreviewKept`) and that, after some number of turns, the walk of the
  preview stands where the loop stands (`Foretold`): the same rows to visit, as much
  left, and fills that are the trades so far. A row to visit is as it was committed
  (`SavedBefore`) and both take the first of them (`SameRowNext`), so the next deal is
  the next fill (`DealForetold`). Later turns only add fills and none once the walk has
  ended (`WalkGrows`), hence the prefix while the loop runs and all of them at its end.
  A walk never has more fills at a price, with the rows still to do, than the rows it
  found have there (`Walked`), and the order book shows at least those. Freezing an
  account needs no hypothesis: the accounts of the selected rows are locked.

The proofs about `OrderOverlap` are for any number of users, placements and
cancellations and all that they may ask for, from `RequestsAssumption` (amounts are
positive) and `TransactionsAssumption` (finitely many placements, which are no
cancellations).

* **`BooksMatchLocks`**: the inductive invariant `OverlapInv` says that a row is held by
  one transaction at most (`RowsExclusive`) and, in `ReadUnderLock`, that a transaction
  has locked, or has still to lock before it goes on (`WillHold`), every order that it
  will fill or cancel; past its read it holds them all, and what it read is what is
  there. Hence `OthersStay`: a commit changes only orders its transaction holds, or its
  own, which nobody has selected, so nobody else's reads go stale. A commit
  then takes from the wallets what it takes from the orders (`CommitLocks`,
  `CancelLocks`). Shared locks and waits matter to progress only: the invariant does not
  speak of them.
* **`OnlyOverlapsCross`**: a placement found every order it saw that crosses and still rests
  (`Selected`), once each, and if it comes to rest itself it has taken all that each of
  them offered (`Fills`). Its own order was seen by nobody before its commit
  (`BookSound`).

The lemmas on sums (`SumToUpdate`, `SumToAgree`, ...) are proved from the
recursive function of `Sums`, by the least element of a set of naturals:
theorems with an operator parameter cannot be used. That the walk of a preview exists
and takes one turn after another (`TurnsExist`, `TurnsUnique`, `WalkDef`) is proved from
its recursive function in the same way.

The proofs about `AdminRoles` are for all users, registries, sets of requests,
clients and bounds, from `AuthorityAssumption` (the database grants at most what
the registry does) and `RequestsAssumption` (one initial administrator is a
super-admin, the fee principal is an administrator).

* **`AdminTypesHold`, `ChecksHoldUntilWritten`**: `TypeOK /\ ChecksStayTrue` is
  inductive. `TypeOK` says that a request past the lock is its holder, so there is
  at most one, and only the writes of that one, or an end of sessions, change
  accounts meanwhile (`QuietStep`, `EntitledKept`). An actor who has the
  permission to manage roles has a role, which is why the flag does not matter
  to what he may do (`ManagersHaveRoles`).
* **`TransactionsAreAtomic`**: `Spec => ChangesAreAtomic`, from that invariant:
  a write of an entitled request is `Replace`, `ChangeUser` or `ChangeAdmin`; a
  write to oneself changes nothing.
* **`ASuperAdminSurvives`, `TheFeePrincipalStays`**: proved of `AdminAuthority`'s
  steps and carried over by the refinement.
* **`ProofsStayCurrent`**: every step that raises a version deletes the proofs.

The proofs about `Funds` are for all users, buckets, amounts, openings and any set of
transactions, from `LedgerAssumption` (users are numbers up to `LastUser`, amounts
are positive, administrators are users) and `OpeningsAssumption` (a wallet that does
not exist has nothing).

* **`FundsTypesHold`, `ReadsHoldUntilWritten`**: the inductive invariant `IInv` adds
  two things to `TypeOK` and `ReadsStayCurrent`: no row is held by two transactions
  (`RowsAreExclusive`), and each transaction is `Disciplined`, that is, the rows it
  has and has still to take are its request's, its step says what it may hold, and a
  transfer holds only rows of users below those it has yet to lock. A write changes
  only rows the writer holds, so nobody else's reads go stale.
* **`FundsImplementTheBook`**: `Spec => MovesAreAtomic`. At a commit what was read is
  the balance, so the write is a `Move` or a `Credit`; every other step leaves the
  book alone.
* **`LedgerAlwaysExplains`**: proved of the steps of `AccountBook` alone and carried
  over by the refinement; `OneMoreEntry` is the step for one entry, and a move is two.
* **`OnlyBucketsDeadlock`**: among transactions that wait for one another, a transfer
  or an airdrop that is still inserting holds nothing and is waited for by nobody
  (`InserterHoldsNothing`). If none waits for a row lock, all that are waited for are
  bucket transfers. Otherwise take the one that waits for the row of the latest user
  (`LastWaiter`): its blocker, were it no bucket transfer, would wait for a still later
  one; so it is a bucket transfer that holds a MAIN row and waits for its other row,
  which only another bucket transfer locks (`BucketWaitsForBucket`). Two bucket
  transfers can cross, which the code leaves to PostgreSQL.

The proofs about `TwoFactor` are for all users, purposes, lifetimes, numbers of attempts
and bounds, from `TwoFactorAssumption` (administrators are users, the numbers are
numbers, the purposes are those of the code).

* **`OpenProofsStayCurrent`, `SecondFactorIsProved`**: `VersionInv` adds `SessionsKept`: no
  session has a version its account has not reached, a session of the current version
  with a second factor was signed for the current secret, and an account that has a
  factor has a secret. Whatever changes the secret or the switch raises the version, so
  the sessions before it are behind, and a login after it without a factor cannot be of
  an account that has one.
* **`FactorsAreSpentOnce`**: `SpentInv` relates `spent` to what may still be accepted. A
  period spent of a secret is not later than the counter of the account that has the
  secret (`PeriodsBehind`); secrets, pending ones included, are nobody else's and never
  come again (`SecretsApart`), so that resetting the counter with a new secret is safe;
  a recovery code in the table is not spent, and no two users share one (`CodesUnspent`).

The proofs about `Services` are for all calls, users, assets, markets, inputs, trades and
bounds, from five assumptions (a limit is a number, the seed is a call, a row is locked by
a call, the page starts with a market it offers, prices and amounts are numbers and a
candle has a length).

* **`WindowsAdmitTheirLimit`**: `LimitInv` has three allowances: any window has admitted a
  limit more than the late counts explain; the window the row is of, as many as the row
  counts; a current window the row is not of, none beyond the late counts. A late count
  moves the row back, which turns the second into the first at the price of one limit.
* **`FirstTimeStays`** needs no invariant but a domain: `Verify` writes under the row's
  lock and keeps what it finds. Its requests and tokens are left to TLC.
* **`ListingsShowAll`**: a listing still has in `todo` or already has in `wallets` whatever
  it will be asked about (`Suits`); an
  asset that is being added is not ACTIVE yet, so no listing is asked for it, and two calls
  never add the same one.
* **`LegacyFeesMoveOnce`**: between the seed's two statements both accounts hold the fees;
  outside, exactly one does, and the seed reads again only what is there. A cut in
  between leaves the fees in both, once more than they were (`Twice`), and only the seed
  can be there; a later run moves what is left and adds nothing.
* **`LogsExplainTheRows`**: a change that locked its row to read it still has what is stored
  (`ReadUnderLock`), so its log continues the chain (`LogsChain`); kinds of changes of
  one row have columns of their own (`KindsApart`). Of the fees, read without a lock,
  only the last log is claimed, by the property as by the proof.
* **`ReviewsOrderOnce`**: a review is in one place: asked for, on the screen, being sent, or
  done with at most one order (`ReviewsInOnePlace`).
* **`EstimatesSettle`**: an estimate still wanted is for the fields and the market shown, and
  none is wanted while the timer is set. **`PageKeepsItsMarket`**: the
  timers load what is selected and nothing else, which is what `ViewInv` adds; choosing the
  selected market again leaves them and what is under way as they are.
* **`SettledCandlesStay`, `TickersAgree`**: drawing the candles trade by trade comes to the
  same as making each candle of the trades of its interval (`Chart`, `CandlesAre`): the chart
  itself satisfies the equation of the loop, one trade at a time (`AddedLast`), and nothing
  else does (`DrawnUnique`, by induction on the number of trades). A late commit adds trades
  with the time its placement began at (`PrintTypes`), hence to no settled interval. For the
  ticker, what its queries got while nothing was committed is what they would get now
  (`TickerInv`); the rest is about any set of trades: the newest candle closes with the newest
  trade (`ClosesLast`), counts and volumes add up candle by candle as they do trade by trade
  (`SumOver`, for any count that adds up), the highest high is the highest price
  (`Extremes`), and a window that begins with an interval cuts none (`Aligned`).

The four theorems about types prove `TypeOK` of their modules, which no run lists:
TLC would check it beside properties that imply most of it.

Only model-checked:

* `PlacementsAnswered`, `RequestsAnswered`, `RequestsEnd`: liveness under fairness and ENABLED
  are out of this prover's reach.
* `SecretsStayOut`: `SecurityEvents` declares RECURSIVE operators over nested metadata; no
  module with a theorem reaches it.
* The findings' properties, which are false, and what TLC refutes of them needs no proof.

## 7. What is not modelled, and why

* Balances under overlapping placements: `Trading` is serial, `OrderOverlap` has the
  locks and counts base units only. That a placement holds its spend asset's row from
  the wallet read to the commit is what makes the serial model of balances fair for
  placements that spend the same asset; the book's own properties are stated for
  serial placements, and `CrossNeedsOverlap` says what overlap may change.
* Funds and orders on the same wallets at once: both change a wallet only under its
  row lock, but the two modules do not share their tables. `Funds` has no ledger
  entries of orders and no locked balances, and does not read the statuses of users
  and assets (section 3), which transfers read without a lock
  (`transfers.service.ts:60`).
* The order in which the ledger lists entries: `created_at` is when a transaction
  began, so overlapping entries may be listed out of order; the model's history is
  in the order of commits. A request that is repeated after its answer was lost is
  a new request; the code has no key to recognise it by.
* The enforcement flag of roles is read without a lock in the middle of the checks
  (`admin-roles.service.ts:43`) and may flip before the write; `admin_roles` switches
  it at every step, and no property refers to it after the check.
* That a market paused after it was read still matches (`orders.service.ts:695`), and
  that a market buy may leave a crumb of a cheaper ask and move on
  (`orders.service.ts:987`): the models have both, no property is stated about them.
* Two verification tokens left pending by overlapping requests
  (`email-verification.service.ts:88`): the model has them; the documents say that a
  request invalidates older ones.
* Listings, reports, coverage counts and statistics other than ticker and candles:
  reads.
* Feature flags other than the enforcement flag close an endpoint. Mail is printed.
* Cryptography (TOTP, hashes, encryption, JWT): external; the models say which codes
  are accepted when.
* Migrations run offline, alone. `src/scripts/smoke.ts` (3043 lines) is a sequential
  test of the service, read as documentation.
* The web client beyond the four modules: layout, tables and forms that send one
  request and show its answer (`markets`, `admin/assets`, `admin/markets` and others),
  `lib/api-types.ts`, which is types. Two loads that overwrite a change just made on
  the asset and market pages, the dialog that takes its symbols from a ticker still
  of the former market (`trade/page.tsx:119`), tabs that share the stored token and a logout
  overtaken by an answer (`auth-provider.tsx:145`, `184`) are known and left out. So is
  a registration answered between a session lookup and its answer: `register`
  (`auth-provider.tsx:174`), unlike `acceptSession`, does not retire the lookup.
* What `TradeView` has and no property is about: Cancel All asks about the selected market
  and goes through the orders on the page (`trade/page.tsx:560`), which after a late answer
  are those of the former one, where `docs/EVENT_FLOW.md:160` says "current-market"; the
  loading state that choosing the selected market again starts (`trade/page.tsx:354`) is
  not ended by the silent polls that bring the candles (`:296`), so the chart stays hidden
  until a load that is not silent ends (another selection, an order, a cancellation); an error of the chart likewise stays
  over candles that a silent poll brings (`:290`).

The mapped lines are about a fifth of the implementation. Of the rest, most is
rendering, input validation, formatting, listings, types and the smoke test, which
keep no state a property could be about.
