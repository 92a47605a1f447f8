SPECIFICATION Spec
CONSTANTS
  Products = {p1}
  Capacity = 3
  Threshold = 2
  Target = 3
  Quantities = {1, 3}
  MaxSales = 3
  MaxRestocks = 2
  MaxUpdates = 1
  MaxDisruptions = 1
INVARIANTS InventoryInv PassedAreDecided DecidedOnce AcceptedAreContinued QuietRestocksLand OneRefillAtATime
CHECK_DEADLOCK FALSE
