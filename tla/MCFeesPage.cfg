\* Two markets with different rates and two loads under way.
SPECIFICATION Spec
CONSTANTS
  Listed = {m, n}
  DefaultOne = m
  Rates = {1, 2}
  FirstRate = 1
  NoMarket = NoMarket
  Unread = Unread
  MaxAsked = 2
INVARIANT DialogShowsItsMarket
CHECK_DEADLOCK FALSE
