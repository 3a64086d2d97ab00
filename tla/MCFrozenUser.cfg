SPECIFICATION FairSpec
CONSTANTS
  u1 = u1
  u2 = u2
  u3 = u3
  swc = swc
  swl = swl
  swd = swd
  lunaMarket = lunaMarket
  dogeMarket = dogeMarket
  Roster <- TwoUsers
  Assets = {swc, swl}
  Markets = {lunaMarket}
  Base <- BaseAsset
  Quote <- QuoteAsset
  Scale <- ExactScale
  MinOrder <- NoMinimum
  Funds <- RichFunds
  Prices = {1}
  Amounts = {10}
  Spends = {}
  FeeRates = {0}
  Freezable = {u1}
  Pausable = {}
  MaxOrders = 2
PROPERTY
  FrozenUsersPlaceNothing
CHECK_DEADLOCK FALSE
