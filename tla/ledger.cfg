CONSTANTS
  Symbols <- OneSymbol
  Prices <- TwoPrices
  Deposits <- Cash
  MaxQty = 2
  MaxOrders = 3
  MaxResets = 1
SPECIFICATION Spec
INVARIANTS DriftBounded NoOverdraft PositionsFromKnownOrders
CHECK_DEADLOCK FALSE
