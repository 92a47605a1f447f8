CONSTANTS
  Customers = {c1}
  Orders = {o1, o2}
  Trucks = {t1, t2}
  NumZones = 1
  Quantities = {2}
  MaxOpenOrders = 2
  MaxReminders = 0
  MinBatch = 1
  Capacity = 4
  MaxInvoices = 2
  MaxRestarts = 1
SPECIFICATION FairStartSpec
INVARIANTS
  SteadyInv
  OneTruckPerOrder
  OnlyLaggingGoWrong
  OnlyReloadsRefused
PROPERTIES
  TrucksStillReturn
CONSTRAINT FewOrders
ACTION_CONSTRAINT UntilLastRestart
