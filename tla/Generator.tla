------------------------------- MODULE Generator -------------------------------
(***************************************************************************)
(* The data generator: one single-threaded process that simulates the      *)
(* order-to-delivery business and publishes every step to Kafka.           *)
(*                                                                         *)
(* Each pass of the loop of main.py runs the same phases in order: fire    *)
(* the due timers, drift the customers, perhaps place an order, invoice    *)
(* the orders the pipeline has confirmed, dispatch, move the trucks, drop  *)
(* terminal orders.  The pipeline behind Kafka (bronze and silver jobs) is *)
(* a separate process that lags by any amount: here silver is how far into *)
(* each topic it has got, and it loses nothing.                            *)
(*                                                                         *)
(* Time is abstract.  A timer, a wait or a journey that has a duration in  *)
(* the code may take any number of passes here, so whether it is due in a  *)
(* pass is a free choice; fairness says that it is due eventually.         *)
(***************************************************************************)
EXTENDS Lifecycles, Sequences, FiniteSets, Functions, FiniteSetsExt

CONSTANTS
  Customers,     \* customers that may register
  Orders,        \* identities of purchase orders that may be placed
  Trucks,        \* the fleet
  NumZones,      \* active delivery zones, 1..NumZones in zone_id order
  Quantities,    \* total units an order may ask for
  MaxOpenOrders, \* orders.max_concurrent_orders_per_customer
  MaxReminders,  \* invoices.max_reminders
  MinBatch,      \* dispatch.min_batch_size
  Capacity,      \* trucks.capacity_products
  MaxInvoices    \* bound: invoices that one order may ever be given

NoTruck == "no truck"
NoCustomer == "no customer"

ASSUME CustomersAssumption == NoCustomer \notin Customers
ASSUME OrdersAssumption == IsFiniteSet(Orders)
ASSUME TrucksAssumption == IsFiniteSet(Trucks) /\ NoTruck \notin Trucks
ASSUME ZonesAssumption == NumZones \in Nat \ {0}
ASSUME QuantitiesAssumption == Quantities \subseteq Nat
ASSUME BoundsAssumption ==
  /\ MaxOpenOrders \in Nat
  /\ MaxReminders \in Nat
  /\ MinBatch \in Nat
  /\ Capacity \in Nat
  /\ MaxInvoices \in Nat \ {0}

Zones == 1..NumZones

\* An invoice is the n-th one its order was given.
Invoices == Orders \X (1..MaxInvoices)

Phases == {"scheduler", "customers", "orders", "invoicing", "dispatch",
           "trucks", "gc"}

VARIABLES
  phase,           \* the step of main()'s loop body about to run
  zoneCursor       \* the zone Dispatcher.tick() looks at next
loopVars == <<phase, zoneCursor>>

VARIABLES
  registered,      \* the customers dict of main()
  verified,        \* Customer.verified_account
  disabled,        \* Customer.disabled_account
  verifyTimers,    \* customers whose verify_account() is scheduled
  openOrderIds     \* Customer.open_order_ids
customerVars == <<registered, verified, disabled, verifyTimers, openOrderIds>>

VARIABLES
  orders,          \* ids in the orders dict of main()
  status,          \* PurchaseOrder.status
  owner,           \* PurchaseOrder.customer_id
  zoneId,          \* PurchaseOrder.zone_id
  quantity,        \* units over all of PurchaseOrder.line_items
  truckId,         \* PurchaseOrder.truck_id
  claimed,         \* orders whose PurchaseOrder.claimed is set
  ahead,           \* orders that were waiting for a truck when this one began to:
                   \* those whose PurchaseOrder.updated_at is earlier
  sales            \* history: units decrement_for_sale() took for the order
orderVars == <<orders, status, owner, zoneId, quantity, truckId, claimed,
               ahead, sales>>

VARIABLES
  invoices,        \* the invoices dict of main()
  istatus,         \* Invoice.status
  paymentReminder, \* Invoice.payment_reminder
  dueTimers        \* invoices whose _on_due() is scheduled
invoiceVars == <<invoices, istatus, paymentReminder, dueTimers>>

VARIABLES
  tstatus,         \* Truck.status
  manifest,        \* Truck.manifest
  loadStep,        \* callbacks of start_run() that have fired
  stops,           \* zones of Truck.route from route_index on
  freeTrucks       \* Dispatcher.free_trucks
truckVars == <<tstatus, manifest, loadStep, stops, freeTrucks>>

VARIABLES
  poTopic,         \* statuses sent on iot.purchase_order_events, per order
  ivTopic,         \* <<status, reminder>> sent on iot.invoice_events, per invoice
  liTopic          \* units of each order's items on iot.product_on_order_events
topicVars == <<poTopic, ivTopic, liTopic>>

VARIABLES
  poSeen,          \* events of each order that silver has applied
  customersSeen    \* customer_ids in silver.customers_current
silverVars == <<poSeen, customersSeen>>

vars == <<loopVars, customerVars, orderVars, invoiceVars, truckVars, topicVars,
          silverVars>>

-------------------------------------------------------------------------------
(* Helpers.                                                                *)

\* set_status() for a set of orders: each of them sends these statuses in turn.
SendStatus(S, statuses) ==
  poTopic' = [o \in Orders |-> IF o \in S THEN poTopic[o] \o statuses
                                          ELSE poTopic[o]]

SetStatus(S, s) ==
  status' = [o \in Orders |-> IF o \in S THEN s ELSE status[o]]

\* The guard of Lifecycle.set_status(): anything else raises ValueError.
OrderMay(o, s) == s \in OrderTransitions[status[o]]
InvoiceMay(i, s) == s \in InvoiceTransitions[istatus[i]]

Aboard(t) == Range(manifest[t])

\* silver.purchase_orders_current.status, NoStatus while there is no row.
SilverStatus(o) == IF poSeen[o] = 0 THEN NoStatus ELSE poTopic[o][poSeen[o]]

OrderInSilver(o) == SilverStatus(o) # NoStatus

PaidInSilver(o) == SilverStatus(o) \notin {NoStatus, "created", "invoiced"}

InvoicesOf(o) == {i \in Invoices : i[1] = o}

\* The first invoice slot of o not used yet (a fresh uuid in the code).
NextInvoice(o) ==
  <<o, 1 + Cardinality({i \in InvoicesOf(o) : istatus[i] # NoStatus})>>

OnHold == {o \in orders : status[o] = "on-hold"}

-------------------------------------------------------------------------------
(* Initial state: an empty stack, the bootstrap read found nothing.        *)

Init ==
  /\ phase = "scheduler"
  /\ zoneCursor = 1
  /\ registered = {} /\ verified = {} /\ disabled = {} /\ verifyTimers = {}
  /\ openOrderIds = [c \in Customers |-> {}]
  /\ orders = {} /\ claimed = {}
  /\ status = [o \in Orders |-> NoStatus]
  /\ owner = [o \in Orders |-> NoCustomer]
  /\ zoneId = [o \in Orders |-> 1]
  /\ quantity = [o \in Orders |-> 0]
  /\ truckId = [o \in Orders |-> NoTruck]
  /\ ahead = [o \in Orders |-> {}]
  /\ sales = [o \in Orders |-> 0]
  /\ invoices = {} /\ dueTimers = {}
  /\ istatus = [i \in Invoices |-> NoStatus]
  /\ paymentReminder = [i \in Invoices |-> 0]
  /\ tstatus = [t \in Trucks |-> "free"]
  /\ manifest = [t \in Trucks |-> << >>]
  /\ loadStep = [t \in Trucks |-> 0]
  /\ stops = [t \in Trucks |-> {}]
  /\ freeTrucks = Trucks
  /\ poTopic = [o \in Orders |-> << >>]
  /\ ivTopic = [i \in Invoices |-> << >>]
  /\ liTopic = [o \in Orders |-> 0]
  /\ poSeen = [o \in Orders |-> 0]
  /\ customersSeen = {}

-------------------------------------------------------------------------------
(* Phase "scheduler": Scheduler.tick() runs the callbacks that are due.  A *)
(* callback that raises ends the pass: the rest stay in the heap.          *)

Raises == phase' = "customers"
Returns == phase' = phase

VerifyAccount(c) ==
  /\ phase = "scheduler"
  /\ c \in verifyTimers
  /\ verified' = verified \cup {c}
  /\ verifyTimers' = verifyTimers \ {c}
  /\ UNCHANGED <<loopVars, registered, disabled, openOrderIds, orderVars,
                 invoiceVars, truckVars, topicVars, silverVars>>

\* Mutants of MarkPaid: the stock is taken twice; on-hold is sent before paid.
MarkPaidTwiceMutant(o) ==
  /\ SetStatus({o}, "on-hold")
  /\ SendStatus({o}, <<"paid", "on-hold">>)
  /\ sales' = [sales EXCEPT ![o] = @ + 2 * quantity[o]]
  /\ ahead' = [ahead EXCEPT ![o] = OnHold \ claimed]

MarkPaidSwappedMutant(o) ==
  /\ SetStatus({o}, "on-hold")
  /\ SendStatus({o}, <<"on-hold", "paid">>)
  /\ sales' = [sales EXCEPT ![o] = @ + quantity[o]]
  /\ ahead' = [ahead EXCEPT ![o] = OnHold \ claimed]

\* PurchaseOrder.mark_paid(): paid, stock taken for its line items, and straight
\* on to on-hold.
\* Its new updated_at makes it the last of those waiting for a truck.
MarkPaid(o) ==
  /\ SetStatus({o}, "on-hold")
  /\ SendStatus({o}, <<"paid", "on-hold">>)
  /\ sales' = [sales EXCEPT ![o] = @ + quantity[o]]
  /\ ahead' = [ahead EXCEPT ![o] = OnHold \ claimed]

InvoiceEvent(i, s, n) ==
  /\ istatus' = [istatus EXCEPT ![i] = s]
  /\ ivTopic' = [ivTopic EXCEPT ![i] = Append(@, <<s, n>>)]

\* _on_due() finds the invoice paid: settle(), then mark_paid() of its order.
\* The invoice is settled even if the order refuses the payment.  (That the
\* early return of _on_due(), no longer pending, is never taken is part of
\* CallbacksNeverRaise.)
InvoiceSettles(i) ==
  /\ phase = "scheduler"
  /\ i \in dueTimers
  /\ istatus[i] = "pending"
  /\ dueTimers' = dueTimers \ {i}
  /\ InvoiceEvent(i, "settled", paymentReminder[i])
  /\ LET o == i[1] IN
       \/ /\ OrderMay(o, "paid")
          /\ MarkPaid(o)
          /\ Returns
       \/ /\ ~OrderMay(o, "paid")
          /\ Raises
          /\ UNCHANGED <<status, poTopic, sales, ahead>>
  /\ UNCHANGED <<zoneCursor, customerVars, orders, owner, zoneId, quantity,
                 truckId, claimed, invoices, paymentReminder, truckVars,
                 liTopic, silverVars>>

\* _on_due() finds it unpaid: _remind() re-arms the timer.  (A re-armed timer
\* may fire again in the same pass here, as with due_minutes = 0.)
InvoiceReminds(i) ==
  /\ phase = "scheduler"
  /\ i \in dueTimers
  /\ istatus[i] = "pending"
  /\ paymentReminder[i] < MaxReminders
  /\ paymentReminder' = [paymentReminder EXCEPT ![i] = @ + 1]
  /\ InvoiceEvent(i, "pending", paymentReminder[i] + 1)
  /\ UNCHANGED <<loopVars, customerVars, orderVars, invoices, dueTimers,
                 truckVars, poTopic, liTopic, silverVars>>

\* _remind() of an invoice out of reminders: the invoice is cancelled, and
\* with it its order if the order may still be cancelled.
InvoiceCancels(i) ==
  /\ phase = "scheduler"
  /\ i \in dueTimers
  /\ istatus[i] = "pending"
  /\ paymentReminder[i] >= MaxReminders
  /\ dueTimers' = dueTimers \ {i}
  /\ InvoiceEvent(i, "cancelled", paymentReminder[i])
  /\ LET S == {o \in {i[1]} : OrderMay(o, "cancelled")} IN
       /\ SetStatus(S, "cancelled")
       /\ SendStatus(S, <<"cancelled">>)
  /\ UNCHANGED <<loopVars, customerVars, orders, owner, zoneId, quantity,
                 truckId, claimed, ahead, sales, invoices, paymentReminder,
                 truckVars, liTopic, silverVars>>

\* start_run()'s callback for the next order: assign_truck().
LoadOrder(t) ==
  /\ phase = "scheduler"
  /\ tstatus[t] = "loading"
  /\ loadStep[t] < Len(manifest[t])
  /\ loadStep' = [loadStep EXCEPT ![t] = @ + 1]
  /\ LET o == manifest[t][loadStep[t] + 1] IN
       /\ truckId' = [truckId EXCEPT ![o] = t]
       /\ \/ /\ OrderMay(o, "loaded")
             /\ SetStatus({o}, "loaded")
             /\ SendStatus({o}, <<"loaded">>)
             /\ Returns
          \/ /\ ~OrderMay(o, "loaded")
             /\ Raises
             /\ UNCHANGED <<status, poTopic>>
  /\ UNCHANGED <<zoneCursor, customerVars, orders, owner, zoneId, quantity,
                 claimed, ahead, sales, invoiceVars, tstatus, manifest,
                 stops, freeTrucks, ivTopic, liTopic, silverVars>>

\* start_run()'s last callback: _depart().  The orders before the first one
\* that refuses to depart do; the exception leaves the others behind it.
Depart(t) ==
  /\ phase = "scheduler"
  /\ tstatus[t] = "loading"
  /\ loadStep[t] = Len(manifest[t])
  /\ tstatus' = [tstatus EXCEPT ![t] = "in_transit"]
  /\ loadStep' = [loadStep EXCEPT ![t] = 0]
  /\ LET Refuses(k) == ~OrderMay(manifest[t][k], "in-transit")
         gone == {manifest[t][k] : k \in {k \in DOMAIN manifest[t] :
                                            \A j \in 1..k : ~Refuses(j)}} IN
       /\ SetStatus(gone, "in-transit")
       /\ SendStatus(gone, <<"in-transit">>)
       /\ IF \E k \in DOMAIN manifest[t] : Refuses(k) THEN Raises ELSE Returns
  /\ UNCHANGED <<zoneCursor, customerVars, orders, owner, zoneId, quantity,
                 truckId, claimed, ahead, sales, invoiceVars, manifest,
                 stops, freeTrucks, ivTopic, liTopic, silverVars>>

\* No further callback is due in this pass.
EndSchedulerTick ==
  /\ phase = "scheduler"
  /\ phase' = "customers"
  /\ UNCHANGED <<zoneCursor, customerVars, orderVars, invoiceVars, truckVars,
                 topicVars, silverVars>>

-------------------------------------------------------------------------------
(* Phase "customers" (steps 2 and 3 of the loop): at most one customer     *)
(* registers, then each may be disabled or enabled.  Profile and price     *)
(* updates change nothing that this module keeps.                          *)

CustomersTick ==
  /\ phase = "customers"
  /\ phase' = "orders"
  /\ \E new \in {{}} \cup {{c} : c \in Customers \ registered} :
       /\ registered' = registered \cup new
       /\ verifyTimers' = verifyTimers \cup new
       /\ \E flips \in SUBSET registered' :
            disabled' = (disabled \ flips) \cup (flips \ disabled)
  /\ UNCHANGED <<zoneCursor, verified, openOrderIds, orderVars, invoiceVars,
                 truckVars, topicVars, silverVars>>

(* Phase "orders" (step 4).                                                *)

\* Mutant of CanCreatePurchaseOrder: off by one at the cap.
CanCreateMutant(c) ==
  /\ c \in verified
  /\ c \notin disabled
  /\ Cardinality(openOrderIds[c]) <= MaxOpenOrders

CanCreatePurchaseOrder(c) ==
  /\ c \in verified
  /\ c \notin disabled
  /\ Cardinality(openOrderIds[c]) < MaxOpenOrders

\* PurchaseOrder.create(): the header event and, in the same call, its items.
CreateOrder(o, c, z, q) ==
  /\ phase = "orders"
  /\ phase' = "invoicing"
  /\ status[o] = NoStatus
  /\ c \in registered
  /\ CanCreatePurchaseOrder(c)
  /\ c \in customersSeen
  /\ orders' = orders \cup {o}
  /\ openOrderIds' = [openOrderIds EXCEPT ![c] = @ \cup {o}]
  /\ SetStatus({o}, "created")
  /\ SendStatus({o}, <<"created">>)
  /\ liTopic' = [liTopic EXCEPT ![o] = q]
  /\ owner' = [owner EXCEPT ![o] = c]
  /\ zoneId' = [zoneId EXCEPT ![o] = z]
  /\ quantity' = [quantity EXCEPT ![o] = q]
  /\ UNCHANGED <<zoneCursor, registered, verified, disabled, verifyTimers,
                 truckId, claimed, ahead, sales, invoiceVars, truckVars,
                 ivTopic, silverVars>>

\* No order arrives, or the chosen customer is not in silver yet.
SkipOrder ==
  /\ phase = "orders"
  /\ phase' = "invoicing"
  /\ UNCHANGED <<zoneCursor, customerVars, orderVars, invoiceVars, truckVars,
                 topicVars, silverVars>>

(* Phase "invoicing" (step 4b): _process_pending_invoices().               *)

\* Mutant of Invoiceable: silver is not asked.
InvoiceableMutant ==
  {o \in orders : /\ status[o] = "created"
                  /\ invoices \cap InvoicesOf(o) = {}}

Invoiceable ==
  {o \in orders : /\ status[o] = "created"
                  /\ invoices \cap InvoicesOf(o) = {}
                  /\ OrderInSilver(o)}

\* create_invoice() and Invoice.create() for every order in P: the invoice is
\* created and made pending at once, and its due timer armed.
CreateInvoices(P) ==
  LET new == {NextInvoice(o) : o \in P} IN
    /\ SetStatus(P, "invoiced")
    /\ SendStatus(P, <<"invoiced">>)
    /\ invoices' = invoices \cup new
    /\ dueTimers' = dueTimers \cup new
    /\ istatus' = [i \in Invoices |->
                     IF i \in new THEN "pending" ELSE istatus[i]]
    /\ ivTopic' = [i \in Invoices |->
                     IF i \in new
                     THEN ivTopic[i] \o <<<<"created", 0>>, <<"pending", 0>>>>
                     ELSE ivTopic[i]]
    /\ UNCHANGED paymentReminder

ProcessPendingInvoices ==
  /\ phase = "invoicing"
  /\ phase' = "dispatch"
  /\ CreateInvoices(Invoiceable)
  /\ UNCHANGED <<zoneCursor, customerVars, orders, owner, zoneId, quantity,
                 truckId, claimed, ahead, sales, truckVars, liTopic,
                 silverVars>>

-------------------------------------------------------------------------------
(* Phase "dispatch" (step 5): Dispatcher.tick(), zone by zone.             *)

\* Mutant of Queue: the `claimed` flag is not looked at.
QueueMutant(z) == {o \in OnHold : zoneId[o] = z /\ PaidInSilver(o)}

\* The orders a zone may ship.  The code asks silver once for all zones;
\* asking for each zone only lets in what silver has confirmed meanwhile.
Queue(z) == {o \in OnHold \ claimed : zoneId[o] = z /\ PaidInSilver(o)}

\* sorted(): those of Q from the one that has waited longest.
Sorted(Q) ==
  {s \in Bijection(1..Cardinality(Q), Q) :
     \A j, k \in DOMAIN s : j < k => s[j] \in ahead[s[k]]}

\* used_capacity after n iterations of the loop over the queue s.
UsedCapacity(s, n) == MapThenSumSet(LAMBDA k : quantity[s[k]], 1..n)

\* The k-th iteration ends the loop: there is a batch, and its order does not fit.
Breaks(s, k) == k > 1 /\ UsedCapacity(s, k - 1) + quantity[s[k]] > Capacity

\* m is the batch when the loop over s has come to a break or to the end.
IsBatch(m, s) ==
  \E n \in DOMAIN s :
    /\ m = SubSeq(s, 1, n)
    /\ \A k \in 1..n : ~Breaks(s, k)
    /\ n = Len(s) \/ Breaks(s, n + 1)

Batches(Q) ==
  {m \in UNION {[1..n -> Q] : n \in 1..Cardinality(Q)} :
     \E s \in Sorted(Q) : IsBatch(m, s)}

NextZone ==
  IF zoneCursor = NumZones THEN phase' = "trucks" /\ zoneCursor' = 1
                           ELSE zoneCursor' = zoneCursor + 1 /\ Returns

\* The early return when no truck is free.
DispatchNoTruck ==
  /\ phase = "dispatch"
  /\ freeTrucks = {}
  /\ phase' = "trucks"
  /\ zoneCursor' = 1
  /\ UNCHANGED <<customerVars, orderVars, invoiceVars, truckVars, topicVars,
                 silverVars>>

\* Nothing to dispatch, or too few orders and none has waited long enough.
SkipZone ==
  /\ phase = "dispatch"
  /\ freeTrucks # {}
  /\ \/ Queue(zoneCursor) = {}
     \/ Cardinality(Queue(zoneCursor)) < MinBatch
  /\ NextZone
  /\ UNCHANGED <<customerVars, orderVars, invoiceVars, truckVars, topicVars,
                 silverVars>>

\* The queue is long enough or its oldest order has waited max_wait_minutes:
\* a free truck gets the batch, its orders are claimed, start_run() is called.
\* freeTrucks is a set: which of the free trucks goes makes no difference.
DispatchZone(z) ==
  /\ phase = "dispatch"
  /\ zoneCursor = z
  /\ \E t \in freeTrucks, m \in Batches(Queue(z)) :
       /\ freeTrucks' = freeTrucks \ {t}
       /\ claimed' = claimed \cup Range(m)
       /\ manifest' = [manifest EXCEPT ![t] = m]
       /\ tstatus' = [tstatus EXCEPT ![t] = "loading"]
       /\ loadStep' = [loadStep EXCEPT ![t] = 0]
       /\ stops' = [stops EXCEPT ![t] = {zoneId[o] : o \in Range(m)}]
  /\ NextZone
  /\ UNCHANGED <<customerVars, orders, status, owner, zoneId, quantity,
                 truckId, ahead, sales, invoiceVars, topicVars, silverVars>>

-------------------------------------------------------------------------------
(* Phase "trucks" (step 5): Truck.tick() of every truck.  A are the trucks *)
(* whose leg ends in this pass; the others only move and send positions.   *)

\* The nearest of the stops left, a fixed choice that depends only on them.
NextStop(t) == CHOOSE z \in stops[t] : TRUE

\* Mutant of AtStop: a truck at its last stop is taken to be home.
AtStopMutant(A) == {t \in A : Cardinality(stops[t]) > 1}

AtStop(A) == {t \in A : tstatus[t] = "in_transit"}

\* Mutant of Unloading: only the first order of the manifest.
UnloadingMutant(t) == {o \in {manifest[t][1]} : zoneId[o] = NextStop(t)}

Unloading(t) == {o \in Aboard(t) : zoneId[o] = NextStop(t)}

\* Mutant of StopsLeft: route_index is not advanced.
StopsLeftMutant(A, t) == stops[t]

StopsLeft(A, t) == IF t \in AtStop(A) THEN stops[t] \ {NextStop(t)} ELSE stops[t]

\* deliver() of every order of the stop; one that refuses is skipped.
TrucksTick(A) ==
  /\ phase = "trucks"
  /\ phase' = "gc"
  /\ A \subseteq {t \in Trucks : tstatus[t] \in {"in_transit", "returning"}}
  /\ LET home == A \ AtStop(A)
         delivered == {o \in UNION {Unloading(t) : t \in AtStop(A)} :
                         OrderMay(o, "delivered")} IN
       /\ SetStatus(delivered, "closed")
       /\ SendStatus(delivered, <<"delivered", "closed">>)
       /\ stops' = [t \in Trucks |-> StopsLeft(A, t)]
       /\ tstatus' = [t \in Trucks |->
                        IF t \in home THEN "free"
                        ELSE IF t \in AtStop(A) /\ StopsLeft(A, t) = {} THEN "returning"
                        ELSE tstatus[t]]
       /\ manifest' = [t \in Trucks |->
                         IF t \in home THEN << >> ELSE manifest[t]]
       /\ freeTrucks' = freeTrucks \cup home
  /\ UNCHANGED <<zoneCursor, customerVars, orders, owner, zoneId, quantity,
                 truckId, claimed, ahead, sales, invoiceVars, loadStep,
                 ivTopic, liTopic, silverVars>>

(* Phase "gc" (step 6): forget terminal orders, and one invoice of each.   *)

\* Mutant of Terminal: cancelled orders are kept.
TerminalMutant == {o \in orders : status[o] = "closed"}

Terminal == {o \in orders : status[o] \in {"closed", "cancelled"}}

\* The invoice of o that comes first in the invoices dict.
FirstInvoice(o) ==
  {i \in invoices \cap InvoicesOf(o) :
     \A j \in invoices \cap InvoicesOf(o) : i[2] <= j[2]}

CollectTerminal ==
  /\ phase = "gc"
  /\ phase' = "scheduler"
  /\ orders' = orders \ Terminal
  /\ openOrderIds' = [c \in Customers |->
                        openOrderIds[c] \ {o \in Terminal : owner[o] = c}]
  /\ invoices' = invoices \ UNION {FirstInvoice(o) : o \in Terminal}
  /\ UNCHANGED <<zoneCursor, registered, verified, disabled, verifyTimers,
                 status, owner, zoneId, quantity, truckId, claimed, ahead,
                 sales, istatus, paymentReminder, dueTimers, truckVars,
                 topicVars, silverVars>>

-------------------------------------------------------------------------------
(* The pipeline: silver advances over what is in the topics, whole batches *)
(* at a time, each order and each customer at its own pace.                *)

SilverOrders(o, n) ==
  /\ poSeen[o] < n
  /\ poSeen' = [poSeen EXCEPT ![o] = n]
  /\ UNCHANGED <<loopVars, customerVars, orderVars, invoiceVars, truckVars,
                 topicVars, customersSeen>>

SilverCustomers(c) ==
  /\ c \in registered \ customersSeen
  /\ customersSeen' = customersSeen \cup {c}
  /\ UNCHANGED <<loopVars, customerVars, orderVars, invoiceVars, truckVars,
                 topicVars, poSeen>>

-------------------------------------------------------------------------------
Callback ==
  \/ \E c \in Customers : VerifyAccount(c)
  \/ \E i \in Invoices :
       \/ InvoiceSettles(i)
       \/ InvoiceReminds(i)
       \/ InvoiceCancels(i)
  \/ \E t \in Trucks : LoadOrder(t) \/ Depart(t)

Step ==
  \/ EndSchedulerTick
  \/ CustomersTick
  \/ \E o \in Orders, c \in Customers, z \in Zones, q \in Quantities :
       CreateOrder(o, c, z, q)
  \/ SkipOrder
  \/ ProcessPendingInvoices
  \/ DispatchNoTruck
  \/ SkipZone
  \/ \E z \in Zones : DispatchZone(z)
  \/ \E A \in SUBSET Trucks : TrucksTick(A)
  \/ CollectTerminal

Pipeline ==
  \/ \E o \in Orders : \E n \in 1..Len(poTopic[o]) : SilverOrders(o, n)
  \/ \E c \in Customers : SilverCustomers(c)

Next == Callback \/ Step \/ Pipeline

Spec == Init /\ [][Next]_vars
-------------------------------------------------------------------------------
(* Type invariant.                                                         *)

TypeOK ==
  /\ phase \in Phases /\ zoneCursor \in Zones
  /\ registered \in SUBSET Customers /\ verified \in SUBSET Customers
  /\ disabled \in SUBSET Customers /\ verifyTimers \in SUBSET Customers
  /\ openOrderIds \in [Customers -> SUBSET Orders]
  /\ orders \in SUBSET Orders /\ claimed \in SUBSET Orders
  /\ status \in [Orders -> OrderStatus \cup {NoStatus}]
  /\ owner \in [Orders -> Customers \cup {NoCustomer}]
  /\ zoneId \in [Orders -> Zones]
  /\ quantity \in [Orders -> Nat]
  /\ truckId \in [Orders -> Trucks \cup {NoTruck}]
  /\ ahead \in [Orders -> SUBSET Orders] /\ sales \in [Orders -> Nat]
  /\ invoices \in SUBSET Invoices /\ dueTimers \in SUBSET Invoices
  /\ istatus \in [Invoices -> InvoiceStatus \cup {NoStatus}]
  /\ paymentReminder \in [Invoices -> 0..MaxReminders]
  /\ tstatus \in [Trucks -> {"free", "loading", "in_transit", "returning"}]
  /\ manifest \in [Trucks -> Seq(Orders)]
  /\ loadStep \in [Trucks -> Nat]
  /\ stops \in [Trucks -> SUBSET Zones]
  /\ freeTrucks \in SUBSET Trucks
  /\ poTopic \in [Orders -> Seq(OrderStatus)]
  /\ ivTopic \in [Invoices -> Seq(InvoiceStatus \X (0..MaxReminders))]
  /\ liTopic \in [Orders -> Nat]
  /\ poSeen \in [Orders -> Nat] /\ customersSeen \in SUBSET Customers

-------------------------------------------------------------------------------
(* Safety.                                                                 *)

\* No scheduled callback and no truck can ever ask a Lifecycle for a status
\* change that it refuses: the ValueError that set_status() raises, which
\* would abort a scheduler pass, leave a truck half departed or skip a
\* delivery, never happens while the process runs.
CallbacksNeverRaise ==
  /\ \A i \in dueTimers : /\ istatus[i] = "pending"
                           /\ OrderMay(i[1], "paid")
                           /\ OrderMay(i[1], "cancelled")
  /\ \A t \in Trucks : tstatus[t] = "loading" =>
       \A k \in DOMAIN manifest[t] :
         OrderMay(manifest[t][k],
                  IF k <= loadStep[t] THEN "in-transit" ELSE "loaded")
  /\ \A t \in Trucks : tstatus[t] = "in_transit" =>
       \A o \in Aboard(t) : zoneId[o] \in stops[t] => OrderMay(o, "delivered")

\* No order is ever on two trucks or twice on one: what `claimed` is for.
OneTruckPerOrder ==
  /\ \A t, u \in Trucks : t # u => Aboard(t) \cap Aboard(u) = {}
  /\ \A t \in Trucks : \A j, k \in DOMAIN manifest[t] :
       j # k => manifest[t][j] # manifest[t][k]

\* An order that has left its zone's queue is on a truck that has yet to
\* reach its zone: it can always still be delivered.
NoOrderStranded ==
  \A o \in Orders :
    \/ status[o] \in {"loaded", "in-transit"}
    \/ status[o] = "on-hold" /\ o \in claimed
    => \E t \in Trucks : /\ tstatus[t] \in {"loading", "in_transit"}
                         /\ o \in Aboard(t)
                         /\ zoneId[o] \in stops[t]

\* free_trucks is exactly the trucks that stand empty at the warehouse: none
\* is lost to the dispatcher and none is offered while it is on a run.
FreeListExact ==
  /\ freeTrucks = {t \in Trucks : tstatus[t] = "free"}
  /\ \A t \in freeTrucks : manifest[t] = << >> /\ stops[t] = {}

Paid == {"paid", "on-hold", "loaded", "in-transit", "delivered", "closed"}

InvoicesWith(o, s) == {i \in InvoicesOf(o) : istatus[i] = s}

\* Order and invoice, two objects that change status in separate calls, never
\* disagree about the money: an invoiced order has one pending invoice with an
\* armed timer, a paid one has one settled invoice and the stock of its line
\* items was taken once, a cancelled one has one cancelled invoice and no stock
\* was taken.
PaymentAgrees ==
  \A o \in Orders :
    /\ status[o] \in {NoStatus, "created"} =>
         \A i \in InvoicesOf(o) : istatus[i] = NoStatus
    /\ status[o] = "invoiced" =>
         \E i \in dueTimers : InvoicesWith(o, "pending") = {i}
    /\ status[o] \in Paid =>
         \E i \in Invoices : InvoicesWith(o, "settled") = {i}
    /\ status[o] = "cancelled" =>
         \E i \in Invoices : InvoicesWith(o, "cancelled") = {i}
    /\ Cardinality({i \in InvoicesOf(o) : istatus[i] # NoStatus}) <= 1
    /\ sales[o] = IF status[o] \in Paid THEN liTopic[o] ELSE 0

\* The per-customer bookkeeping follows the orders dict exactly, so that the
\* cap on concurrent orders holds and never blocks a customer for good.
OpenOrdersExact ==
  \A c \in Customers :
    /\ openOrderIds[c] = {o \in orders : owner[o] = c}
    /\ Cardinality(openOrderIds[c]) <= MaxOpenOrders

\* Orphan avoidance: an event that refers to a parent row is sent only once
\* silver has that row - the order behind every invoice, the payment behind
\* every truck run, the customer behind every order.  (Line items are sent with
\* their order and wait for nothing; see AirflowDags.)
ParentsConfirmed ==
  /\ \A i \in Invoices : ivTopic[i] # << >> => OrderInSilver(i[1])
  /\ \A t \in Trucks : \A o \in Aboard(t) : PaidInSilver(o)
  /\ \A o \in Orders : poTopic[o] # << >> => owner[o] \in customersSeen

\* Whatever two rows of one key meet in a silver batch, in sending order, the
\* independent re-validation of the silver jobs accepts the second one.
SilverAcceptsHistory ==
  /\ \A o \in Orders : \A j, k \in DOMAIN poTopic[o] :
       j < k => SilverOrderValid(poTopic[o][j], poTopic[o][k])
  /\ \A i \in Invoices : \A j, k \in DOMAIN ivTopic[i] :
       j < k => SilverInvoiceValid(ivTopic[i][j][1], ivTopic[i][j][2],
                                   ivTopic[i][k][1], ivTopic[i][k][2])

\* The statuses of an order that is delivered, and how many events an order of
\* some status has sent: a cancelled one left the path after "invoiced".
Path == <<"created", "invoiced", "paid", "on-hold", "loaded", "in-transit",
          "delivered", "closed">>

Progress(s) ==
  CASE s = NoStatus -> 0
    [] s = "cancelled" -> 3
    [] OTHER -> CHOOSE k \in 1..8 : Path[k] = s

OrderSent(o) ==
  /\ Len(poTopic[o]) = Progress(status[o])
  /\ poSeen[o] <= Progress(status[o])
  /\ \A k \in 1..Progress(status[o]) :
       poTopic[o][k] = IF status[o] = "cancelled" /\ k = 3 THEN "cancelled" ELSE Path[k]

\* The k-th event of an invoice that has status s after r reminders.
InvoiceEventAt(k, s, r) ==
  IF k = 1 THEN <<"created", 0>>
  ELSE IF k <= 2 + r THEN <<"pending", k - 2>>
  ELSE <<s, r>>

InvoiceSent(i) ==
  LET last == 2 + paymentReminder[i] IN
    /\ istatus[i] = NoStatus => Len(ivTopic[i]) = 0 /\ paymentReminder[i] = 0
    /\ istatus[i] = "pending" => Len(ivTopic[i]) = last
    /\ istatus[i] \notin {NoStatus, "pending"} => Len(ivTopic[i]) = last + 1
    /\ \A k \in 1..Len(ivTopic[i]) :
         ivTopic[i][k] = InvoiceEventAt(k, istatus[i], paymentReminder[i])

\* What was sent of an order or an invoice is all there is on the way to its
\* status, each step once: the topics, on which silver relies, never miss or
\* repeat a step that the objects in memory have made.
TopicsFollowStatus ==
  /\ \A o \in Orders : OrderSent(o)
  /\ \A i \in Invoices : InvoiceSent(i)

-------------------------------------------------------------------------------
(* The inductive invariant behind the properties above (GeneratorProofs).  *)

\* What the status of an order says about the dispatcher's flag and the queue.
OrderShape ==
  \A o \in Orders :
    /\ status[o] \notin {"paid", "delivered"}
    /\ o \in claimed =>
         status[o] \in {"on-hold", "loaded", "in-transit", "closed"}
    /\ status[o] \in {"loaded", "in-transit"} => o \in claimed
    /\ status[o] = NoStatus => o \notin orders
    /\ o \notin ahead[o]

\* Where a truck is in its run says where each order of its manifest is.
RunShape(t) ==
  /\ loadStep[t] \in 0..Len(manifest[t])
  /\ tstatus[t] # "loading" => loadStep[t] = 0
  /\ tstatus[t] = "free" => manifest[t] = << >> /\ stops[t] = {}
  /\ tstatus[t] = "loading" =>
       /\ manifest[t] # << >>
       /\ \A k \in DOMAIN manifest[t] :
            /\ zoneId[manifest[t][k]] \in stops[t]
            /\ status[manifest[t][k]] = IF k <= loadStep[t] THEN "loaded"
                                                            ELSE "on-hold"
  /\ tstatus[t] = "in_transit" =>
       /\ stops[t] # {}
       /\ \A o \in Aboard(t) :
            status[o] = IF zoneId[o] \in stops[t] THEN "in-transit" ELSE "closed"
  /\ tstatus[t] = "returning" =>
       stops[t] = {} /\ \A o \in Aboard(t) : status[o] = "closed"

\* Every truck is somewhere in a run of orders that were claimed for it.
TruckShape == \A t \in Trucks : Aboard(t) \subseteq claimed /\ RunShape(t)

\* What the status of an order says about its invoices and its stock.
InvoiceShape ==
  /\ dueTimers = {i \in Invoices : istatus[i] = "pending"}
  /\ \A i \in Invoices :
       /\ i[2] # 1 => istatus[i] = NoStatus
       /\ i[2] = 1 =>
            /\ istatus[i] = NoStatus <=> status[i[1]] \in {NoStatus, "created"}
            /\ istatus[i] = "pending" <=> status[i[1]] = "invoiced"
            /\ istatus[i] = "settled" <=> status[i[1]] \in Paid
            /\ istatus[i] = "cancelled" <=> status[i[1]] = "cancelled"
  /\ \A o \in Orders : /\ quantity[o] = liTopic[o]
                        /\ sales[o] = IF status[o] \in Paid THEN quantity[o] ELSE 0

IndInv ==
  /\ TypeOK
  /\ OrderShape
  /\ TruckShape
  /\ InvoiceShape
  /\ OneTruckPerOrder
  /\ NoOrderStranded
  /\ freeTrucks = {t \in Trucks : tstatus[t] = "free"}

\* With what was sent: the topics tell all of a status.
SentInv == IndInv /\ TopicsFollowStatus
-------------------------------------------------------------------------------
(* Implementation of the abstract specification.                           *)

Stage ==
  [o \in Orders |->
     CASE status[o] = NoStatus                -> "absent"
       [] status[o] \in {"created", "invoiced"} -> "open"
       [] status[o] = "cancelled"               -> "void"
       [] status[o] \in {"delivered", "closed"} -> "done"
       [] status[o] \in {"paid", "on-hold"} /\ o \notin claimed -> "ready"
       [] OTHER                                 -> "shipping"]

Load == [t \in Trucks |-> Aboard(t)]

Abstract == INSTANCE Fulfilment WITH stage <- Stage, load <- Load

\* The generator implements Fulfilment: seen through Stage and Load, each step
\* of the loop, of a callback or of the pipeline is a step of it or changes
\* nothing in it.
ImplementsFulfilment == Abstract!AbstractSpec

-------------------------------------------------------------------------------
(* Liveness.  main() loops for ever; what is due in bounded time - a timer, *)
(* the wait of a queued order, the leg of a journey - is due eventually;   *)
(* and the DAGs that fill silver run on a schedule.  All but the loop      *)
(* itself and the pipeline can only happen in one phase of a pass, which   *)
(* is why their fairness is strong.                                        *)

OnDue(i) == InvoiceSettles(i) \/ InvoiceReminds(i) \/ InvoiceCancels(i)

Arrives(t) == \E A \in SUBSET Trucks : t \in A /\ TrucksTick(A)

TruckFairness ==
  /\ WF_vars(Step)
  /\ \A t \in Trucks : SF_vars(LoadOrder(t) \/ Depart(t) \/ Arrives(t))

Fairness ==
  /\ TruckFairness
  /\ \A c \in Customers : SF_vars(VerifyAccount(c)) /\ WF_vars(SilverCustomers(c))
  /\ \A i \in Invoices : SF_vars(OnDue(i))
  /\ \A z \in Zones : SF_vars(DispatchZone(z))
  /\ \A o \in Orders : WF_vars(\E n \in 1..Len(poTopic[o]) : SilverOrders(o, n))

FairSpec == Spec /\ Fairness

\* Every order that is placed is eventually delivered or cancelled, and its
\* slot in its customer's cap is given back.
OrdersFinish ==
  \A o \in Orders :
    status[o] = "created"
      ~> /\ status[o] \in {"closed", "cancelled"}
         /\ o \notin orders
         /\ \A c \in Customers : o \notin openOrderIds[c]

\* A truck that starts a run is eventually back on the free list.
TrucksReturn ==
  \A t \in Trucks : tstatus[t] = "loading" ~> t \in freeTrucks
===============================================================================
