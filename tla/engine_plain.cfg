\* Anonymous orders, three prices, every time in force.
CONSTANTS
  Prices = {1, 2, 3}
  MaxQty = 2
  MaxOrders = 4
  Participants = {}
  Policies = {"NONE"}
  Tifs = {"GTC", "IOC", "FOK"}
SPECIFICATION Spec
INVARIANTS TypeOK BookUncrossed DepthViewExact EventsAccountForOrders
PROPERTIES PriceTimePriority FokFillsCompletely ImplementsAuction
