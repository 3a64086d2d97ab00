\* Three users on two markets that spend one asset, which may be paused, where no
\* total needs rounding; fees of 5 percent, so that 20 base units cost a fee of 1.
SPECIFICATION Spec
CONSTANTS
  u1 = u1
  u2 = u2
  u3 = u3
  swc = swc
  swl = swl
  swd = swd
  lunaMarket = lunaMarket
  dogeMarket = dogeMarket
  Roster <- ThreeUsers
  Assets = {swc, swl, swd}
  Markets = {lunaMarket, dogeMarket}
  Base <- BaseAsset
  Quote <- QuoteAsset
  Scale <- ExactScale
  MinOrder <- SomeMinimum
  Funds <- PoorFunds
  Prices = {1, 2}
  Amounts = {10, 20}
  Spends = {20}
  FeeRates = {500}
  Freezable = {}
  Pausable = {swc}
  MaxOrders = 3
SYMMETRY UsersAndMarketsAlike
INVARIANTS
  LocksExact
  PriceTimePriority
  BookNotCrossed
CHECK_DEADLOCK FALSE
