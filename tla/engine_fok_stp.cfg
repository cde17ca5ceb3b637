\* CANCEL_OLDEST with FOK: is an accepted FOK order always filled completely?
CONSTANTS
  Prices = {1, 2}
  MaxQty = 2
  MaxOrders = 3
  Participants = {"p1"}
  Policies = {"CANCEL_OLDEST"}
  Tifs = {"GTC", "FOK"}
SPECIFICATION Spec
PROPERTIES FokFillsCompletely
