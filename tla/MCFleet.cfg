CONSTANTS
  Customers = {c1}
  Orders = {o1, o2}
  Trucks = {t1, t2}
  NumZones = 2
  Quantities = {1}
  MaxOpenOrders = 2
  MaxReminders = 1
  MinBatch = 2
  Capacity = 2
  MaxInvoices = 2
SPECIFICATION Spec
SYMMETRY Symmetry
INVARIANTS
  SentInv
  CallbacksNeverRaise
  NoOrderStranded
  ParentsConfirmed
  SilverAcceptsHistory
PROPERTIES
  ImplementsFulfilment
