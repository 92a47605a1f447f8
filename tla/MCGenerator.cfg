CONSTANTS
  Customers = {c1, c2}
  Orders = {o1, o2}
  Trucks = {t1}
  NumZones = 1
  Quantities = {1, 3}
  MaxOpenOrders = 1
  MaxReminders = 1
  MinBatch = 2
  Capacity = 3
  MaxInvoices = 1
SPECIFICATION Spec
SYMMETRY Symmetry
INVARIANTS
  PaymentAgrees
  OpenOrdersExact
