------------------------------- MODULE Catalog -------------------------------
(***************************************************************************)
(* The rows everything else refers to: users, assets, markets, their fee   *)
(* settings and the wallets.  Registration, the listings that create the   *)
(* wallets they miss and the seed script run without a transaction, each   *)
(* statement by itself; a new asset or market is one transaction, whose    *)
(* rows others see when it commits.  Any of them may be cut short.         *)
(***************************************************************************)
EXTENDS Integers, FiniteSets

CONSTANTS
  People,         \* accounts that may register
  Admin,          \* the account of ADMIN_EMAIL
  Assets,         \* asset symbols
  DefaultAssets,  \* those the seed inserts
  Markets,        \* market symbols
  DefaultMarkets, \* those the seed inserts
  Pair,           \* the base and the quote asset of a market
  Types,          \* wallet types; normal users have MAIN only
  Legacy,         \* the asset the system account FEE_ACCOUNT may hold
  LegacyFees,     \* what it holds at first
  Calls,          \* the calls that may overlap
  SeedCall,       \* the one of them that may be the seed script
  Pausable        \* bound: the assets an administrator pauses and resumes

\* The seed's markets trade its assets, Legacy is one of those, Admin is none of
\* People, and Types has at least MAIN and FEE.

VARIABLES
  users,    \* users rows
  assets,   \* assets.is_active, NONE for an asset without a row
  wallets,  \* wallets rows: user, asset and type
  markets,  \* markets rows
  priced,   \* markets with a fee_settings row
  legacy,   \* what FEE_ACCOUNT holds of the asset Legacy
  fee,      \* what the administrator's FEE wallet holds of it
  call,     \* what a call has still to do
  cut       \* history: the seed was cut between crediting and emptying

catalog == <<users, assets, wallets, markets, priced, legacy, fee, call, cut>>

Humans == People \cup {Admin}
TypesOf(u) == IF u = Admin THEN Types ELSE {"MAIN"}
Active == {a \in Assets : assets[a] = "ACTIVE"}
Listed == {a \in Assets : assets[a] # "NONE"}
WalletsOf(us, as, ts) == us \X as \X ts

\* The wallets of users us in assets as: MAIN, and every type of an administrator.
Coverage(us, as) == UNION {WalletsOf({u}, as, TypesOf(u)) : u \in us}

Idle == [step |-> "IDLE"]
Free(c) == call[c].step \in {"IDLE", "SHOWN"}
Goes(c, r) == call' = [call EXCEPT ![c] = r]

-----------------------------------------------------------------------------
\* Registration and listings ensure the wallets of users.  `whose' are those a
\* call answers for, `left' those whose assets it has not read, `todo' the rows
\* it has yet to insert; `always' are the assets ACTIVE since it began.

Ensuring(us, ts) ==
  [step |-> "ENSURE", whose |-> us, left |-> us, types |-> ts, todo |-> {}, always |-> Active]

\* A taken email or username is refused, at the latest by the unique index.
Register(c, u) ==
  /\ Free(c) /\ u \notin users
  /\ users' = users \cup {u}
  /\ Goes(c, Ensuring({u}, {"MAIN"}))
  /\ UNCHANGED <<assets, wallets, markets, priced, legacy, fee, cut>>

\* One's own wallets and their valuation; all users' in the administration.
List(c, us) ==
  /\ Free(c) /\ us # {} /\ us \subseteq users
  /\ Goes(c, Ensuring(us, {"MAIN"}))
  /\ UNCHANGED <<users, assets, wallets, markets, priced, legacy, fee, cut>>

\* The administrator's buckets.
ListBuckets(c) ==
  /\ Free(c) /\ Admin \in users
  /\ Goes(c, Ensuring({Admin}, Types))
  /\ UNCHANGED <<users, assets, wallets, markets, priced, legacy, fee, cut>>

\* Users and rows come in no particular order. Bound: in one of them.
First(todo) == CHOOSE w \in todo : TRUE

ReadAssets_Main(c, u) ==
  /\ call[c].step = "ENSURE" /\ call[c].todo = {}
  /\ call[c].left # {} /\ u = First(call[c].left)
  /\ Goes(c, [call[c] EXCEPT !.left = @ \ {u}, !.todo = WalletsOf({u}, Active, {"MAIN"})])
  /\ UNCHANGED <<users, assets, wallets, markets, priced, legacy, fee, cut>>

ReadAssets(c, u) ==
  /\ call[c].step = "ENSURE" /\ call[c].todo = {}
  /\ call[c].left # {} /\ u = First(call[c].left)
  /\ Goes(c, [call[c] EXCEPT !.left = @ \ {u}, !.todo = WalletsOf({u}, Active, call[c].types)])
  /\ UNCHANGED <<users, assets, wallets, markets, priced, legacy, fee, cut>>

\* INSERT ... ON CONFLICT DO NOTHING, row by row.
InsertWallet(c) ==
  LET w == First(call[c].todo) IN
  /\ call[c].step = "ENSURE" /\ call[c].todo # {}
  /\ wallets' = wallets \cup {w}
  /\ Goes(c, [call[c] EXCEPT !.todo = @ \ {w}])
  /\ UNCHANGED <<users, assets, markets, priced, legacy, fee, cut>>

\* The answer has the wallets there are now: what it misses of those due.
Show(c) ==
  /\ call[c].step = "ENSURE" /\ call[c].todo = {} /\ call[c].left = {}
  /\ Goes(c, [step |-> "SHOWN",
       missing |-> WalletsOf(call[c].whose, call[c].always, call[c].types) \ wallets])
  /\ UNCHANGED <<users, assets, wallets, markets, priced, legacy, fee, cut>>

-----------------------------------------------------------------------------
\* createAsset. A second insert of one symbol waits for the first, and fails
\* when it commits.
BeginAsset(c, a) ==
  /\ Free(c) /\ Admin \in users
  /\ assets[a] = "NONE"
  /\ \A d \in Calls : call[d].step \in {"ADDED", "COVERED"} => call[d].asset # a
  /\ Goes(c, [step |-> "ADDED", asset |-> a])
  /\ UNCHANGED <<users, assets, wallets, markets, priced, legacy, fee, cut>>

\* ensureWalletCoverageForAsset reads the users committed by now.
CoverAsset(c) ==
  /\ call[c].step = "ADDED"
  /\ Goes(c, [step |-> "COVERED", asset |-> call[c].asset,
              rows |-> Coverage(users, {call[c].asset})])
  /\ UNCHANGED <<users, assets, wallets, markets, priced, legacy, fee, cut>>

CommitAsset(c, st) ==
  /\ call[c].step = "COVERED"
  /\ assets' = [assets EXCEPT ![call[c].asset] = st]
  /\ wallets' = wallets \cup call[c].rows
  /\ Goes(c, Idle)
  /\ UNCHANGED <<users, markets, priced, legacy, fee, cut>>

\* createMarket: its assets are read, and for an ACTIVE one must be ACTIVE.
BeginMarket(c, m, st) ==
  /\ Free(c) /\ Admin \in users
  /\ m \notin markets
  /\ \A d \in Calls : call[d].step = "MARKET" => call[d].market # m
  /\ {Pair[m][1], Pair[m][2]} \subseteq (IF st = "ACTIVE" THEN Active ELSE Listed)
  /\ Goes(c, [step |-> "MARKET", market |-> m])
  /\ UNCHANGED <<users, assets, wallets, markets, priced, legacy, fee, cut>>

\* The market comes with its default fee setting, or with the one it finds.
CommitMarket(c) ==
  /\ call[c].step = "MARKET"
  /\ IF call[c].market \in markets
     THEN UNCHANGED <<markets, priced>>
     ELSE markets' = markets \cup {call[c].market} /\ priced' = priced \cup {call[c].market}
  /\ Goes(c, Idle)
  /\ UNCHANGED <<users, assets, wallets, legacy, fee, cut>>

\* The fee page, and the first fill of a market, repair a missing fee setting
\* and the FEE wallets, in their own transaction.
UseFeeSetting(m) ==
  /\ m \in markets /\ Admin \in users
  /\ priced' = priced \cup {m}
  /\ wallets' = wallets \cup WalletsOf({Admin}, Active, {"FEE"})
  /\ UNCHANGED <<users, assets, markets, legacy, fee, call, cut>>

\* updateAssetStatus, of any asset: a call that began before has seen both.
SetAsset(a, st) ==
  /\ assets[a] \notin {"NONE", st}
  /\ assets' = [assets EXCEPT ![a] = st]
  /\ call' = [c \in Calls |-> IF call[c].step = "ENSURE"
                THEN [call[c] EXCEPT !.always = @ \ {a}] ELSE call[c]]
  /\ UNCHANGED <<users, wallets, markets, priced, legacy, fee, cut>>

-----------------------------------------------------------------------------
\* The seed script, statement by statement; only one runs at a time.

SeedGoes(r) == Goes(SeedCall, r)
Seeding(s) == call[SeedCall].step = s

Seed ==
  /\ Free(SeedCall)
  /\ SeedGoes([step |-> "SEED_ASSETS", todo |-> DefaultAssets])
  /\ UNCHANGED <<users, assets, wallets, markets, priced, legacy, fee, cut>>

\* An asset that exists keeps its status. The insert of one that createAsset is
\* adding waits, and fails with the script when that commits.
SeedAsset(a) ==
  /\ Seeding("SEED_ASSETS") /\ a \in call[SeedCall].todo
  /\ \A d \in Calls : call[d].step \in {"ADDED", "COVERED"} => call[d].asset # a
  /\ assets' = IF assets[a] = "NONE" THEN [assets EXCEPT ![a] = "ACTIVE"] ELSE assets
  /\ SeedGoes([call[SeedCall] EXCEPT !.todo = @ \ {a}])
  /\ UNCHANGED <<users, wallets, markets, priced, legacy, fee, cut>>

\* From here on the script works with the assets it reads now. The account of
\* the administrator is inserted, and its five wallets of each asset follow.
SeedAdmin ==
  /\ Seeding("SEED_ASSETS") /\ call[SeedCall].todo = {}
  /\ users' = users \cup {Admin}
  /\ SeedGoes([step |-> "SEED_BUCKETS", rows |-> Listed, active |-> Active,
               todo |-> WalletsOf({Admin}, Listed, Types)])
  /\ UNCHANGED <<assets, wallets, markets, priced, legacy, fee, cut>>

SeedWallet ==
  LET w == First(call[SeedCall].todo) IN
  /\ call[SeedCall].step \in {"SEED_BUCKETS", "SEED_USERS"} /\ call[SeedCall].todo # {}
  /\ wallets' = wallets \cup {w}
  /\ SeedGoes([call[SeedCall] EXCEPT !.todo = @ \ {w}])
  /\ UNCHANGED <<users, assets, markets, priced, legacy, fee, cut>>

SeedReadsLegacy ==
  /\ Seeding("SEED_BUCKETS") /\ call[SeedCall].todo = {}
  /\ SeedGoes([step |-> IF legacy = 0 THEN "SEED_MARKETS" ELSE "SEED_CREDIT", held |-> legacy,
               active |-> call[SeedCall].active])
  /\ UNCHANGED <<users, assets, wallets, markets, priced, legacy, fee, cut>>

\* Two statements: the administrator is credited, then the account is emptied.
SeedCredit ==
  /\ Seeding("SEED_CREDIT")
  /\ fee' = fee + call[SeedCall].held
  /\ SeedGoes([call[SeedCall] EXCEPT !.step = "SEED_EMPTY"])
  /\ UNCHANGED <<users, assets, wallets, markets, priced, legacy, cut>>

SeedEmpty_Kept ==
  /\ Seeding("SEED_EMPTY")
  /\ SeedGoes([call[SeedCall] EXCEPT !.step = "SEED_MARKETS"])
  /\ UNCHANGED <<users, assets, wallets, markets, priced, legacy, fee, cut>>

SeedEmpty ==
  /\ Seeding("SEED_EMPTY")
  /\ legacy' = 0
  /\ SeedGoes([call[SeedCall] EXCEPT !.step = "SEED_MARKETS"])
  /\ UNCHANGED <<users, assets, wallets, markets, priced, fee, cut>>

SeedMarket(m) ==
  /\ Seeding("SEED_MARKETS") /\ m \in DefaultMarkets \ markets
  /\ \A d \in Calls : call[d].step = "MARKET" => call[d].market # m
  /\ markets' = markets \cup {m}
  /\ UNCHANGED <<users, assets, wallets, priced, legacy, fee, call, cut>>

SeedReadsMarkets ==
  /\ Seeding("SEED_MARKETS") /\ DefaultMarkets \subseteq markets
  /\ SeedGoes([step |-> "SEED_FEES", todo |-> markets, active |-> call[SeedCall].active])
  /\ UNCHANGED <<users, assets, wallets, markets, priced, legacy, fee, cut>>

SeedFee(m) ==
  /\ Seeding("SEED_FEES") /\ m \in call[SeedCall].todo
  /\ priced' = priced \cup {m}
  /\ SeedGoes([call[SeedCall] EXCEPT !.todo = @ \ {m}])
  /\ UNCHANGED <<users, assets, wallets, markets, legacy, fee, cut>>

SeedReadsUsers ==
  /\ Seeding("SEED_FEES") /\ call[SeedCall].todo = {}
  /\ SeedGoes([step |-> "SEED_USERS", todo |-> WalletsOf(users, call[SeedCall].active, {"MAIN"})])
  /\ UNCHANGED <<users, assets, wallets, markets, priced, legacy, fee, cut>>

SeedEnds ==
  /\ Seeding("SEED_USERS") /\ call[SeedCall].todo = {}
  /\ SeedGoes(Idle)
  /\ UNCHANGED <<users, assets, wallets, markets, priced, legacy, fee, cut>>

\* The process of a call dies, or a statement fails: what was committed stays.
\* Bound: the seed is cut between its two statements once.
Crash(c) ==
  /\ ~Free(c)
  /\ call[c].step = "SEED_EMPTY" => ~cut
  /\ Goes(c, Idle)
  /\ cut' = (cut \/ call[c].step = "SEED_EMPTY")
  /\ UNCHANGED <<users, assets, wallets, markets, priced, legacy, fee>>

-----------------------------------------------------------------------------
Init ==
  /\ users = {} /\ wallets = {} /\ markets = {} /\ priced = {}
  /\ assets = [a \in Assets |-> "NONE"]
  /\ legacy = LegacyFees /\ fee = 0
  /\ call = [c \in Calls |-> Idle]
  /\ cut = FALSE

Ensures(c) ==
  \/ \E u \in People : Register(c, u)
  \/ \E us \in {{u} : u \in users} \cup {users} : List(c, us)
  \/ ListBuckets(c)
  \/ InsertWallet(c)
  \/ \E u \in Humans : ReadAssets(c, u)
  \/ Show(c)

Creates(c) ==
  \/ \E a \in Assets : BeginAsset(c, a)
  \/ CoverAsset(c)
  \/ \E st \in {"ACTIVE", "PAUSED"} : CommitAsset(c, st) \/ \E m \in Markets : BeginMarket(c, m, st)
  \/ CommitMarket(c)

Seeds ==
  \/ Seed \/ SeedAdmin \/ SeedReadsLegacy \/ SeedCredit \/ SeedEmpty
  \/ SeedReadsMarkets \/ SeedReadsUsers \/ SeedEnds
  \/ \E a \in Assets : SeedAsset(a)
  \/ SeedWallet
  \/ \E m \in Markets : SeedMarket(m) \/ SeedFee(m)

Next ==
  \/ \E c \in Calls : Ensures(c) \/ Creates(c) \/ Crash(c)
  \/ Seeds
  \/ \E m \in Markets : UseFeeSetting(m)
  \/ \E a \in Pausable, st \in {"ACTIVE", "PAUSED"} : SetAsset(a, st)

Spec == Init /\ [][Next]_catalog

-----------------------------------------------------------------------------
\* A listing, and a registration, ends with a wallet for every asset that was
\* ACTIVE all the while, whatever was created, paused or cut short around it.
ListingsComplete ==
  \A c \in Calls : call[c].step = "SHOWN" => call[c].missing = {}

\* The fees of the old system account reach the administrator exactly once, whatever
\* runs beside the seed and wherever a run of it stops, but between its two
\* statements, which no transaction joins: that costs the amount once more, and no
\* later run makes it worse.
LegacyMovedOnce ==
  fee + legacy = LegacyFees + (IF cut THEN LegacyFees ELSE 0)
                            + (IF Seeding("SEED_EMPTY") THEN LegacyFees ELSE 0)
=============================================================================
