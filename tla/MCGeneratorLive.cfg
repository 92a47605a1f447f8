CONSTANTS
  Customers = {c1}
  Orders = {o1, o2}
  Trucks = {t1}
  NumZones = 1
  Quantities = {3}
  MaxOpenOrders = 1
  MaxReminders = 1
  MinBatch = 2
  Capacity = 2
  MaxInvoices = 1
SPECIFICATION FairSpec
PROPERTIES
  OrdersFinish
  TrucksReturn
