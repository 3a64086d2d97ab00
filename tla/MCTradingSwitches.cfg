\* Accounts and the market are switched and the fees changed at any time.
SPECIFICATION FairSpec
CONSTANTS
  u1 = u1
  u2 = u2
  u3 = u3
  swc = swc
  swl = swl
  swd = swd
  lunaMarket = lunaMarket
  dogeMarket = dogeMarket
  Roster <- TwoUsers
  Assets = {swc, swl}
  Markets = {lunaMarket}
  Base <- BaseAsset
  Quote <- QuoteAsset
  Scale <- ExactScale
  MinOrder <- NoMinimum
  Funds <- RichFunds
  Prices = {2}
  Amounts = {10, 20}
  Spends = {20}
  FeeRates = {0, 500}
  Freezable = {u1}
  Pausable = {lunaMarket}
  MaxOrders = 3
INVARIANTS
  OneRatePerPlacement
PROPERTIES
  MakersStayActive
  PlacementsAnswered
CHECK_DEADLOCK FALSE
