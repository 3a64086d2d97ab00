SPECIFICATION Spec
CONSTANTS
  u1 = u1
  u2 = u2
  u3 = u3
  swc = swc
  swl = swl
  swd = swd
  lunaMarket = lunaMarket
  dogeMarket = dogeMarket
  Roster <- TwoUsers
  Assets = {swc, swl}
  Markets = {lunaMarket}
  Base <- BaseAsset
  Quote <- QuoteAsset
  Scale <- TenthScale
  MinOrder <- NoMinimum
  Funds <- RichFunds
  Prices = {5, 15}
  Amounts = {3, 4}
  Spends = {2}
  FeeRates = {0}
  Freezable = {}
  Pausable = {}
  MaxOrders = 4
INVARIANT
  LocksExact
CHECK_DEADLOCK FALSE
