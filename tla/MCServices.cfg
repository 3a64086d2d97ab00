\* One user with a second factor, two overlapping calls on his email address, on one
\* counter, on the rows that are audited and on the tables, one of them the seed; what
\* is logged; trades, candles and the ticker of one market; the trade page of a user.
SPECIFICATION MCSpec
CONSTANTS
  Users = {u1}
  Admins = {u1}
  None = None
  CodesPerSet = 1
  MaxAttempts = 1
  ProofLife = 1
  SetupLife = 1
  Purposes = {"2fa-setup", "2fa-enable", "2fa-disable", "2fa-recovery-regenerate", "admin-roles"}
  MaxTime = 2
  MaxVersion = 3
  MaxSecrets = 2
  MaxSets = 2
  MaxProofs = 1
  MaxSessions = 3
  Calls = {c1, c2}
  MaxTokens = 3
  MaxClock = 5
  Limit = 2
  MaxWindow = 3
  MaxLate = 2
  People = {u1}
  Admin = admin
  Assets = {swc, swx}
  DefaultAssets = {swc, swx}
  swc = swc
  swx = swx
  Markets = {m}
  DefaultMarkets = {m}
  Pair <- OneBase
  Types = {"MAIN", "FEE"}
  Legacy = swc
  LegacyFees = 2
  SeedCall = c1
  Pausable = {swx}
  Placements = {p1, p2}
  Prices = {1, 2}
  Amounts = {3}
  Interval = 2
  Day = 1
  LastTime = 2
  MaxTrades = 2
  NoTrade = NoTrade
  Values = {0, 1}
  Default = 0
  NoOne = NoOne
  MaxAudit = 2
  MaxDepth = 2
  MaxItems = 1
  InputDepth = 4
  Symbols = {"m", "n"}
  FirstSymbol = "m"
  Sides = {"BUY"}
  Inputs = {1}
  NoInput = NoInput
  NoneYet = NoneYet
  MaxReviews = 2
  MaxEstimates = 2
  Intervals = {1, 5}
  FirstInterval = 1
  Blank = Blank
  MaxLoads = 3
  MaxActing = 1
SYMMETRY PlacementsAlike
INVARIANTS
  SecondFactorHolds
  FactorsSpentOnce
  OpenProofsAreCurrent
  AdmittedPerWindow
  AuditExplains
  SecretsStayOut
  ListingsComplete
  LegacyMovedOnce
  TickerAgreesWithChart
  OneOrderPerReview
  EstimateSettles
PROPERTIES
  FirstVerificationStays
  CandlesSettle
  NoStrangerReturns
CHECK_DEADLOCK FALSE
