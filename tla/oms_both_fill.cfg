\* Brackets whose resting leg fills while the other triggers.
CONSTANTS
  Prices = {1, 2}
  MaxQty = 2
  MaxOrders = 3
  MaxFills = 2
  MaxBatch = 1
  NoPrice = NoPrice
  Requests <- Resting
  OcoRequests <- Brackets
SPECIFICATION Spec
INVARIANT AtMostOneLegFills
