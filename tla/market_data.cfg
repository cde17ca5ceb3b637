CONSTANTS
  Intervals <- Lengths
  MaxHistory = 3
  Cooldown = 2
  MaxTime = 5
  TradeInput <- Inputs
  Exceeding <- NoneOrBoth
  MaxTrades = 4
  MaxResets = 1
SPECIFICATION Spec
INVARIANTS TypeOK BarsAreTheTrades BarsTileTime AlertsApart
CHECK_DEADLOCK FALSE
