\* Take-profit and trailing orders on both sides, which trade with a resting
\* order; several events wait in the queue while users act.
CONSTANTS
  Prices = {1, 3}
  MaxQty = 1
  MaxOrders = 2
  MaxFills = 1
  MaxBatch = 2
  NoPrice = NoPrice
  Requests <- Watching
  OcoRequests <- None
SPECIFICATION Spec
INVARIANTS WatchedIffUntriggered LoopSurvives
PROPERTIES TrailingStopRatchets FillsReachPortfolio
