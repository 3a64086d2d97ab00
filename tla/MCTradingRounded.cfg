SPECIFICATION Spec
CONSTANTS
  u1 = u1
  u2 = u2
  u3 = u3
  swc = swc
  swl = swl
  swd = swd
  lunaMarket = lunaMarket
  dogeMarket = dogeMarket
  Roster <- TwoUsers
  Assets = {swc, swl}
  Markets = {lunaMarket}
  Base <- BaseAsset
  Quote <- QuoteAsset
  Scale <- TenthScale
  MinOrder <- NoMinimum
  Funds <- RichFunds
  Prices = {15, 30}
  Amounts = {3, 6}
  Spends = {2}
  FeeRates = {500}
  Freezable = {}
  Pausable = {}
  MaxOrders = 4
SYMMETRY UsersAlike
INVARIANTS
  LocksBacked
  OrdersCovered
  NoInternalShortfall
  Conservation
  FillsAccounted
  PreviewForetells
PROPERTIES
  OrdersOnlyAdvance
CHECK_DEADLOCK FALSE
