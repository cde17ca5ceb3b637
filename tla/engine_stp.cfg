\* One participant trading with itself under every policy; quantities up to 3 so
\* that overlaps are partial.
CONSTANTS
  Prices = {1, 2}
  MaxQty = 3
  MaxOrders = 3
  Participants = {"p1"}
  Policies = {"NONE", "CANCEL_NEWEST", "CANCEL_OLDEST", "DECREMENT_AND_CANCEL"}
  Tifs = {"GTC", "IOC"}
SPECIFICATION Spec
INVARIANTS LevelsMatchOrders
PROPERTIES CallReturns
