\* A user order trades after the agents have.
CONSTANTS
  Prices = {1, 2}
  MaxQty = 2
  MaxOrders = 1
  MaxFills = 2
  MaxBatch = 1
  NoPrice = NoPrice
  Requests <- BuyTwo
  OcoRequests <- None
SPECIFICATION Spec
INVARIANT EveryFillBooked
