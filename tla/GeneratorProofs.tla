---------------------------- MODULE GeneratorProofs ----------------------------
(***************************************************************************)
(* Theorems about Generator, for every number of customers, orders, trucks *)
(* and zones and every value of the configuration: about its objects, then *)
(* about what it has sent and the abstract specification it implements.    *)
(***************************************************************************)
EXTENDS Generator, FiniteSetTheorems, TLAPS

-------------------------------------------------------------------------------
(* Lemmas about sequences and about the batches of the dispatcher.         *)

\* A function on 1..n is a sequence.
LEMMA FunctionIsSeq ==
  ASSUME NEW S, NEW n \in Nat, NEW m \in [1..n -> S]
  PROVE  /\ m \in Seq(S)
         /\ Len(m) = n
         /\ DOMAIN m = 1..n
OBVIOUS

\* The elements of a sequence are those at its positions.
LEMMA RangeOfSeq ==
  ASSUME NEW S, NEW m \in Seq(S)
  PROVE  /\ DOMAIN m = 1..Len(m)
         /\ Len(m) \in Nat
         /\ Range(m) \subseteq S
         /\ \A k \in DOMAIN m : m[k] \in Range(m)
         /\ \A x \in Range(m) : \E k \in DOMAIN m : x = m[k]
         /\ m # << >> => 1 \in DOMAIN m
BY DEF Range

\* Appending one or two statuses to a topic leaves a sequence of statuses.
LEMMA TopicGrows ==
  ASSUME NEW S, NEW m \in Seq(S), NEW a \in S, NEW b \in S
  PROVE  /\ m \o <<a>> \in Seq(S)
         /\ m \o <<a, b>> \in Seq(S)
         /\ Append(m, a) \in Seq(S)
OBVIOUS

\* A batch is a nonempty sequence over the queue it was taken from.
LEMMA BatchTyped ==
  ASSUME NEW Q \in SUBSET Orders, NEW m \in Batches(Q)
  PROVE  /\ m \in Seq(Orders)
         /\ m # << >>
         /\ Range(m) \subseteq Q
<1>1. PICK n \in 1..Cardinality(Q) : m \in [1..n -> Q]
  BY DEF Batches
<1>2. n \in Nat /\ n >= 1
  BY <1>1
<1>3. m \in Seq(Q) /\ DOMAIN m = 1..n
  BY <1>1, <1>2, FunctionIsSeq
<1>4. m \in Seq(Orders) /\ Range(m) \subseteq Q
  BY <1>1, <1>2, <1>3, FunctionIsSeq, RangeOfSeq
<1> QED
  BY <1>2, <1>3, <1>4

\* No order is twice in a batch: it is once in the sorted queue.
LEMMA BatchDistinct ==
  ASSUME NEW Q \in SUBSET Orders, NEW m \in Batches(Q),
         NEW j \in DOMAIN m, NEW k \in DOMAIN m, j # k
  PROVE  m[j] # m[k]
<1>1. PICK s \in Sorted(Q) : IsBatch(m, s)
  BY DEF Batches
<1>2. PICK n \in DOMAIN s : m = SubSeq(s, 1, n)
  BY <1>1 DEF IsBatch
<1>3. /\ DOMAIN s = 1..Cardinality(Q)
      /\ \A a, b \in DOMAIN s : s[a] = s[b] => a = b
  BY DEF Sorted, Bijection, Injection, IsInjective, Surjection
<1>4. DOMAIN m = 1..n /\ 1..n \subseteq DOMAIN s /\ \A i \in 1..n : m[i] = s[i]
  <2>1. Cardinality(Q) \in Nat
    BY OrdersAssumption, FS_Subset, FS_CardinalityType
  <2>2. n \in 1..Cardinality(Q)
    BY <1>3
  <2>3. m = [i \in 1..n |-> s[i]]
    BY <1>2, <2>1, <2>2
  <2> QED
    BY <1>3, <2>1, <2>2, <2>3
<1>5. j \in DOMAIN s /\ k \in DOMAIN s /\ m[j] = s[j] /\ m[k] = s[k]
  BY <1>4
<1> QED
  BY <1>3, <1>5, Zenon

\* Every zone's queue holds on-hold orders that no truck has claimed.
LEMMA QueueTyped ==
  ASSUME TypeOK, NEW z
  PROVE  /\ Queue(z) \in SUBSET Orders
         /\ \A o \in Queue(z) :
              o \notin claimed /\ status[o] = "on-hold" /\ zoneId[o] = z
BY DEF TypeOK, Queue, OnHold

-------------------------------------------------------------------------------
(* Type correctness.                                                       *)

\* The initial state is well typed.
LEMMA TypeInit == Init => TypeOK
BY CustomersAssumption, TrucksAssumption, ZonesAssumption, BoundsAssumption
   DEF Init, TypeOK, Phases, Zones, Invoices, OrderStatus, InvoiceStatus, NoStatus

\* set_status() of any orders to one or two statuses keeps the types.
LEMMA SetStatusTyped ==
  ASSUME TypeOK, NEW S, NEW a \in OrderStatus, NEW b \in OrderStatus
  PROVE  /\ SetStatus(S, a) => status' \in [Orders -> OrderStatus \cup {NoStatus}]
         /\ SendStatus(S, <<a>>) => poTopic' \in [Orders -> Seq(OrderStatus)]
         /\ SendStatus(S, <<a, b>>) => poTopic' \in [Orders -> Seq(OrderStatus)]
<1>1. SetStatus(S, a) => status' \in [Orders -> OrderStatus \cup {NoStatus}]
  BY DEF TypeOK, SetStatus
<1>2. \A o \in Orders : /\ poTopic[o] \in Seq(OrderStatus)
                        /\ poTopic[o] \o <<a>> \in Seq(OrderStatus)
                        /\ poTopic[o] \o <<a, b>> \in Seq(OrderStatus)
  BY TopicGrows DEF TypeOK
<1> QED
  BY <1>1, <1>2 DEF SendStatus

\* So does sending an invoice event.
LEMMA InvoiceEventTyped ==
  ASSUME TypeOK, NEW i \in Invoices, NEW s \in InvoiceStatus,
         NEW n \in 0..MaxReminders, InvoiceEvent(i, s, n)
  PROVE  /\ istatus' \in [Invoices -> InvoiceStatus \cup {NoStatus}]
         /\ ivTopic' \in [Invoices -> Seq(InvoiceStatus \X (0..MaxReminders))]
<1>1. Append(ivTopic[i], <<s, n>>) \in Seq(InvoiceStatus \X (0..MaxReminders))
  BY TopicGrows DEF TypeOK
<1> QED
  BY <1>1 DEF TypeOK, InvoiceEvent

\* An order that is still "created" has no invoice: its first slot is free.
LEMMA FirstInvoiceSlot ==
  ASSUME InvoiceShape, NEW o \in Orders, status[o] = "created"
  PROVE  NextInvoice(o) = <<o, 1>> /\ NextInvoice(o) \in Invoices
<1>1. {i \in InvoicesOf(o) : istatus[i] # NoStatus} = {}
  BY DEF InvoiceShape, InvoicesOf
<1>2. Cardinality({}) = 0
  BY FS_EmptySet
<1>3. <<o, 1>> \in Invoices
  BY BoundsAssumption DEF Invoices
<1> QED
  BY <1>1, <1>2, <1>3 DEF NextInvoice

\* The bound on invoices leaves room for those that are due.
SlotsLeft == \A o \in Invoiceable : NextInvoice(o) \in Invoices

\* Every step keeps the state well typed.
LEMMA TypeStep == TypeOK /\ SlotsLeft /\ [Next]_vars => TypeOK'
<1> SUFFICES ASSUME TypeOK, SlotsLeft, [Next]_vars
             PROVE  TypeOK'
  OBVIOUS
<1> USE DEF TypeOK, loopVars, customerVars, orderVars, invoiceVars, truckVars,
            topicVars, silverVars, Raises, Returns
<1>1. ASSUME NEW c \in Customers, VerifyAccount(c) \/ SilverCustomers(c)
      PROVE  TypeOK'
  BY <1>1 DEF VerifyAccount, SilverCustomers
<1>2. ASSUME NEW i \in Invoices, InvoiceSettles(i)
      PROVE  TypeOK'
  <2>1. i[1] \in Orders
    BY DEF Invoices
  <2>2. InvoiceEvent(i, "settled", paymentReminder[i])
    BY <1>2 DEF InvoiceSettles
  <2>3. /\ istatus' \in [Invoices -> InvoiceStatus \cup {NoStatus}]
        /\ ivTopic' \in [Invoices -> Seq(InvoiceStatus \X (0..MaxReminders))]
    BY <2>2, InvoiceEventTyped DEF InvoiceStatus
  <2>4. CASE MarkPaid(i[1]) /\ phase' = phase
    <3>1. /\ status' \in [Orders -> OrderStatus \cup {NoStatus}]
          /\ poTopic' \in [Orders -> Seq(OrderStatus)]
      BY <2>4, SetStatusTyped DEF MarkPaid, OrderStatus
    <3>2. /\ ahead' \in [Orders -> SUBSET Orders]
          /\ sales' \in [Orders -> Nat]
      BY <2>4, <2>1 DEF MarkPaid, OnHold
    <3> QED
      BY <1>2, <2>3, <2>4, <3>1, <3>2 DEF InvoiceSettles
  <2>5. CASE UNCHANGED <<status, poTopic, sales, ahead>> /\ phase' = "customers"
    BY <1>2, <2>3, <2>5 DEF InvoiceSettles, Phases
  <2> QED
    BY <1>2, <2>4, <2>5 DEF InvoiceSettles
<1>3. ASSUME NEW i \in Invoices, InvoiceReminds(i)
      PROVE  TypeOK'
  <2>1. paymentReminder[i] + 1 \in 0..MaxReminders
    BY <1>3, BoundsAssumption DEF InvoiceReminds
  <2>2. InvoiceEvent(i, "pending", paymentReminder[i] + 1)
    BY <1>3 DEF InvoiceReminds
  <2> QED
    BY <1>3, <2>1, <2>2, InvoiceEventTyped DEF InvoiceReminds, InvoiceStatus
<1>4. ASSUME NEW i \in Invoices, InvoiceCancels(i)
      PROVE  TypeOK'
  <2>1. PICK S : SetStatus(S, "cancelled") /\ SendStatus(S, <<"cancelled">>)
    BY <1>4 DEF InvoiceCancels
  <2>2. InvoiceEvent(i, "cancelled", paymentReminder[i])
    BY <1>4 DEF InvoiceCancels
  <2>3. /\ status' \in [Orders -> OrderStatus \cup {NoStatus}]
        /\ poTopic' \in [Orders -> Seq(OrderStatus)]
    BY <2>1, SetStatusTyped DEF OrderStatus
  <2> QED
    BY <1>4, <2>2, <2>3, InvoiceEventTyped DEF InvoiceCancels, InvoiceStatus
<1>5. ASSUME NEW t \in Trucks, LoadOrder(t)
      PROVE  TypeOK'
  <2> DEFINE o == manifest[t][loadStep[t] + 1]
  <2>1. \/ SetStatus({o}, "loaded") /\ SendStatus({o}, <<"loaded">>)
        \/ UNCHANGED <<status, poTopic>>
    BY <1>5 DEF LoadOrder
  <2>2. /\ status' \in [Orders -> OrderStatus \cup {NoStatus}]
        /\ poTopic' \in [Orders -> Seq(OrderStatus)]
    BY <2>1, SetStatusTyped DEF OrderStatus
  <2>3. phase' \in Phases
    BY <1>5 DEF LoadOrder, Phases
  <2> QED
    <3>1. truckId' \in [Orders -> Trucks \cup {NoTruck}]
      BY <1>5 DEF LoadOrder
    <3>2. loadStep' \in [Trucks -> Nat]
      BY <1>5 DEF LoadOrder
    <3> QED
      BY <1>5, <2>2, <2>3, <3>1, <3>2 DEF LoadOrder
<1>6. ASSUME NEW t \in Trucks, Depart(t)
      PROVE  TypeOK'
  <2>1. PICK S : SetStatus(S, "in-transit") /\ SendStatus(S, <<"in-transit">>)
    BY <1>6 DEF Depart
  <2>2. /\ status' \in [Orders -> OrderStatus \cup {NoStatus}]
        /\ poTopic' \in [Orders -> Seq(OrderStatus)]
    BY <2>1, SetStatusTyped DEF OrderStatus
  <2> QED
    BY <1>6, <2>2 DEF Depart, Phases
<1>7. CASE EndSchedulerTick \/ CustomersTick \/ SkipOrder
  BY <1>7 DEF EndSchedulerTick, CustomersTick, SkipOrder, Phases
<1>8. ASSUME NEW o \in Orders, NEW c \in Customers, NEW z \in Zones,
             NEW q \in Quantities, CreateOrder(o, c, z, q)
      PROVE  TypeOK'
  <2>1. poTopic' \in [Orders -> Seq(OrderStatus)]
    BY <1>8, TopicGrows DEF CreateOrder, SendStatus, OrderStatus
  <2> QED
    BY <1>8, <2>1, QuantitiesAssumption
       DEF CreateOrder, SetStatus, OrderStatus, Phases
<1>9. CASE ProcessPendingInvoices
  <2>1. CreateInvoices(Invoiceable)
    BY <1>9 DEF ProcessPendingInvoices
  <2>2. /\ status' \in [Orders -> OrderStatus \cup {NoStatus}]
        /\ poTopic' \in [Orders -> Seq(OrderStatus)]
    BY <2>1, SetStatusTyped DEF CreateInvoices, OrderStatus
  <2> DEFINE Events == InvoiceStatus \X (0..MaxReminders)
  <2>3. <<"created", 0>> \in Events /\ <<"pending", 0>> \in Events
    BY BoundsAssumption DEF InvoiceStatus
  <2>4. \A i \in Invoices :
          ivTopic[i] \o <<<<"created", 0>>, <<"pending", 0>>>> \in Seq(Events)
    <3> HIDE DEF Events
    <3>1. ASSUME NEW i \in Invoices, ivTopic[i] \in Seq(Events)
          PROVE  ivTopic[i] \o <<<<"created", 0>>, <<"pending", 0>>>> \in Seq(Events)
      BY <2>3, <3>1, TopicGrows
    <3>2. \A i \in Invoices : ivTopic[i] \in Seq(Events)
      BY DEF Events
    <3> QED
      BY <3>1, <3>2
  <2>5. ivTopic' \in [Invoices -> Seq(Events)]
    BY <2>1, <2>4 DEF CreateInvoices
  <2>6. istatus' \in [Invoices -> InvoiceStatus \cup {NoStatus}]
    BY <2>1 DEF CreateInvoices, InvoiceStatus
  <2>7. \A o \in Invoiceable : NextInvoice(o) \in Invoices
    BY DEF SlotsLeft
  <2>8. invoices' \in SUBSET Invoices /\ dueTimers' \in SUBSET Invoices
    BY <2>1, <2>7 DEF CreateInvoices
  <2> QED
    BY <1>9, <2>1, <2>2, <2>5, <2>6, <2>8
       DEF ProcessPendingInvoices, CreateInvoices, Phases
<1>10. CASE DispatchNoTruck \/ SkipZone
  <2>1. phase' \in Phases /\ zoneCursor' \in Zones
    BY <1>10, ZonesAssumption
       DEF DispatchNoTruck, SkipZone, NextZone, Phases, Zones
  <2> QED
    BY <1>10, <2>1 DEF DispatchNoTruck, SkipZone
<1>11. ASSUME NEW z \in Zones, DispatchZone(z)
       PROVE  TypeOK'
  <2>1. PICK t \in freeTrucks, m \in Batches(Queue(z)) :
          /\ freeTrucks' = freeTrucks \ {t}
          /\ claimed' = claimed \cup Range(m)
          /\ manifest' = [manifest EXCEPT ![t] = m]
          /\ tstatus' = [tstatus EXCEPT ![t] = "loading"]
          /\ loadStep' = [loadStep EXCEPT ![t] = 0]
          /\ stops' = [stops EXCEPT ![t] = {zoneId[o] : o \in Range(m)}]
    BY <1>11 DEF DispatchZone
  <2>2. m \in Seq(Orders) /\ Range(m) \subseteq Orders
    <3>1. Queue(z) \in SUBSET Orders
      BY QueueTyped
    <3> QED
      BY <2>1, <3>1, BatchTyped
  <2>3. phase' \in Phases /\ zoneCursor' \in Zones
    BY <1>11, ZonesAssumption DEF DispatchZone, NextZone, Phases, Zones
  <2>4. /\ claimed' \in SUBSET Orders
        /\ manifest' \in [Trucks -> Seq(Orders)]
        /\ tstatus' \in [Trucks -> {"free", "loading", "in_transit", "returning"}]
        /\ loadStep' \in [Trucks -> Nat]
        /\ freeTrucks' \in SUBSET Trucks
    BY <2>1, <2>2
  <2>5. {zoneId[o] : o \in Range(m)} \in SUBSET Zones
    BY <2>2
  <2>6. stops' \in [Trucks -> SUBSET Zones]
    BY <2>1, <2>5
  <2> QED
    BY <1>11, <2>3, <2>4, <2>6 DEF DispatchZone
<1>12. ASSUME NEW A \in SUBSET Trucks, TrucksTick(A)
       PROVE  TypeOK'
  <2>1. poTopic' \in [Orders -> Seq(OrderStatus)]
    BY <1>12, TopicGrows DEF TrucksTick, SendStatus, OrderStatus
  <2> QED
    BY <1>12, <2>1 DEF TrucksTick, StopsLeft, SetStatus, OrderStatus, Phases
<1>13. CASE CollectTerminal
  BY <1>13 DEF CollectTerminal, Phases
<1>14. ASSUME NEW o \in Orders, NEW n \in 1..Len(poTopic[o]), SilverOrders(o, n)
       PROVE  TypeOK'
  BY <1>14 DEF SilverOrders
<1>15. CASE UNCHANGED vars
  BY <1>15 DEF vars
<1> QED
  BY <1>1, <1>2, <1>3, <1>4, <1>5, <1>6, <1>7, <1>8, <1>9, <1>10,
     <1>11, <1>12, <1>13, <1>14, <1>15 DEF Next, Callback, Step, Pipeline

-------------------------------------------------------------------------------
(* The inductive invariant.  An order is either still in the hands of the  *)
(* callbacks of its invoice (it is not claimed) or in those of one truck   *)
(* (it is).  The two lemmas below say what each half leaves alone.         *)

Shape ==
  /\ OrderShape
  /\ TruckShape
  /\ InvoiceShape
  /\ OneTruckPerOrder
  /\ NoOrderStranded
  /\ freeTrucks = {t \in Trucks : tstatus[t] = "free"}

\* The invariant holds when the process starts on an empty stack.
LEMMA ShapeInit == Init => Shape
<1> SUFFICES ASSUME Init PROVE Shape
  OBVIOUS
<1>1. TypeOK
  BY TypeInit
<1>2. \A t \in Trucks : Aboard(t) = {} /\ Len(manifest[t]) = 0
  BY DEF Init, Aboard, Range
<1>3. OrderShape
  BY DEF Init, OrderShape, NoStatus
<1>6. InvoiceShape
  <2>1. \A i \in Invoices : i[1] \in Orders /\ istatus[i] = NoStatus
    BY DEF Init, Invoices
  <2>2. \A o \in Orders : /\ status[o] = NoStatus /\ sales[o] = 0
                           /\ quantity[o] = 0 /\ liTopic[o] = 0
    BY DEF Init
  <2>3. dueTimers = {}
    BY DEF Init
  <2> QED
    BY <2>1, <2>2, <2>3 DEF InvoiceShape, Paid, NoStatus
<1>4. TruckShape /\ OneTruckPerOrder
  BY <1>2 DEF Init, TruckShape, RunShape, OneTruckPerOrder
<1>5. NoOrderStranded /\ freeTrucks = {t \in Trucks : tstatus[t] = "free"}
  BY DEF Init, NoOrderStranded, NoStatus
<1> QED
  BY <1>3, <1>4, <1>5, <1>6 DEF Shape

\* A step that touches only orders that no truck has claimed, and loads none
\* of them, changes nothing for the trucks.
LEMMA UnclaimedStep ==
  ASSUME IndInv, TypeOK',
         UNCHANGED <<claimed, truckVars>>,
         \A o \in claimed : status'[o] = status[o] /\ zoneId'[o] = zoneId[o],
         \A o \in Orders \ claimed : status'[o] \notin {"loaded", "in-transit"}
  PROVE  /\ TruckShape' /\ OneTruckPerOrder' /\ NoOrderStranded'
         /\ freeTrucks' = {t \in Trucks : tstatus'[t] = "free"}
<1>1. \A t \in Trucks : /\ DOMAIN manifest[t] = 1..Len(manifest[t])
                        /\ \A k \in DOMAIN manifest[t] : manifest[t][k] \in Aboard(t)
                        /\ Aboard(t) \subseteq claimed
                        /\ Aboard(t)' = Aboard(t)
  BY RangeOfSeq DEF IndInv, TypeOK, TruckShape, RunShape, Aboard, truckVars
<1>2. TruckShape'
  BY <1>1 DEF IndInv, TruckShape, RunShape, truckVars
<1>3. OneTruckPerOrder'
  BY <1>1 DEF IndInv, OneTruckPerOrder, truckVars
<1>4. NoOrderStranded'
  BY <1>1 DEF IndInv, NoOrderStranded, truckVars, TypeOK
<1>5. freeTrucks' = {t \in Trucks : tstatus'[t] = "free"}
  BY DEF IndInv, truckVars
<1> QED
  BY <1>2, <1>3, <1>4, <1>5

\* A step that only moves paid orders along changes nothing for the invoices.
LEMMA PaidStep ==
  ASSUME IndInv,
         UNCHANGED <<istatus, dueTimers, sales, quantity, liTopic>>,
         \A o \in Orders : \/ status'[o] = status[o]
                           \/ status[o] \in Paid /\ status'[o] \in Paid
  PROVE  InvoiceShape'
<1>1. \A i \in Invoices : i[1] \in Orders
  BY DEF Invoices
<1> QED
  BY <1>1 DEF IndInv, InvoiceShape, Paid, NoStatus

\* Steps that change neither a status nor a truck.
LEMMA ShapeIdle ==
  ASSUME IndInv, TypeOK', orders' \subseteq orders,
         UNCHANGED <<status, zoneId, claimed, ahead, sales, quantity, liTopic,
                     istatus, dueTimers, truckVars>>
  PROVE  Shape'
<1>1. \A o \in Orders \ claimed : status[o] \notin {"loaded", "in-transit"}
  BY DEF IndInv, OrderShape
<1>2. /\ TruckShape' /\ OneTruckPerOrder' /\ NoOrderStranded'
      /\ freeTrucks' = {t \in Trucks : tstatus'[t] = "free"}
  BY <1>1, UnclaimedStep
<1>3. OrderShape'
  BY DEF IndInv, OrderShape
<1>4. InvoiceShape'
  BY PaidStep
<1> QED
  BY <1>2, <1>3, <1>4 DEF Shape

\* A pending invoice is the first one of an order that waits for its payment.
LEMMA PendingInvoice ==
  ASSUME IndInv, NEW i \in Invoices, istatus[i] = "pending"
  PROVE  /\ i[1] \in Orders /\ i[2] = 1
         /\ status[i[1]] = "invoiced"
         /\ i[1] \notin claimed
         /\ i \in dueTimers
         /\ \A j \in Invoices : j[2] = 1 /\ j[1] = i[1] => j = i
<1>1. i[1] \in Orders /\ \A j \in Invoices : j = <<j[1], j[2]>>
  BY DEF Invoices
<1> QED
  BY <1>1 DEF IndInv, InvoiceShape, OrderShape, NoStatus

\* The payment of an invoice.
LEMMA ShapeInvoiceSettles ==
  ASSUME IndInv, TypeOK', NEW i \in Invoices, InvoiceSettles(i)
  PROVE  Shape'
<1> DEFINE o == i[1]
<1>1. /\ o \in Orders /\ i[2] = 1 /\ status[o] = "invoiced" /\ o \notin claimed
      /\ \A j \in Invoices : j[2] = 1 /\ j[1] = o => j = i
  BY PendingInvoice DEF InvoiceSettles
<1>2. OrderMay(o, "paid")
  BY <1>1 DEF OrderMay, OrderTransitions, OrderStatus, NoStatus
<1>3. MarkPaid(o)
  BY <1>2 DEF InvoiceSettles
<1>4. /\ \A p \in Orders : status'[p] = IF p = o THEN "on-hold" ELSE status[p]
      /\ \A p \in Orders : sales'[p] = IF p = o THEN sales[o] + quantity[o] ELSE sales[p]
      /\ \A p \in Orders \ {o} : ahead'[p] = ahead[p]
      /\ o \notin ahead'[o]
  BY <1>1, <1>3 DEF MarkPaid, SetStatus, OnHold, IndInv, TypeOK
<1>5. /\ \A j \in Invoices : istatus'[j] = IF j = i THEN "settled" ELSE istatus[j]
      /\ dueTimers' = dueTimers \ {i}
      /\ UNCHANGED <<claimed, zoneId, orders, quantity, liTopic, truckVars>>
  BY DEF InvoiceSettles, InvoiceEvent, IndInv, TypeOK
<1>6. /\ TruckShape' /\ OneTruckPerOrder' /\ NoOrderStranded'
      /\ freeTrucks' = {t \in Trucks : tstatus'[t] = "free"}
  <2>1. \A p \in claimed : status'[p] = status[p] /\ zoneId'[p] = zoneId[p]
    BY <1>1, <1>4, <1>5 DEF IndInv, TypeOK
  <2>2. \A p \in Orders \ claimed : status'[p] \notin {"loaded", "in-transit"}
    BY <1>1, <1>4 DEF IndInv, TypeOK, OrderShape
  <2> QED
    BY <1>5, <2>1, <2>2, UnclaimedStep
<1>7. OrderShape'
  BY <1>1, <1>4, <1>5 DEF IndInv, OrderShape, NoStatus
<1>8. InvoiceShape'
  <2>1. \A j \in Invoices : j[1] \in Orders
    BY DEF Invoices
  <2>2. dueTimers' = {j \in Invoices : istatus'[j] = "pending"}
    BY <1>5 DEF IndInv, InvoiceShape
  <2>3. \A p \in Orders : /\ quantity'[p] = liTopic'[p]
                           /\ sales'[p] = IF status'[p] \in Paid THEN quantity'[p] ELSE 0
    <3>1. quantity \in [Orders -> Nat]
      BY DEF IndInv, TypeOK
    <3> QED
      BY <1>1, <1>4, <1>5, <3>1 DEF IndInv, InvoiceShape, Paid
  <2> QED
    BY <1>1, <1>4, <1>5, <2>1, <2>2, <2>3
       DEF IndInv, InvoiceShape, Paid, NoStatus
<1> QED
  BY <1>6, <1>7, <1>8 DEF Shape

\* The cancellation of an invoice that stayed unpaid.
LEMMA ShapeInvoiceCancels ==
  ASSUME IndInv, TypeOK', NEW i \in Invoices, InvoiceCancels(i)
  PROVE  Shape'
<1> DEFINE o == i[1]
<1>1. /\ o \in Orders /\ i[2] = 1 /\ status[o] = "invoiced" /\ o \notin claimed
      /\ \A j \in Invoices : j[2] = 1 /\ j[1] = o => j = i
  BY PendingInvoice DEF InvoiceCancels
<1>2. OrderMay(o, "cancelled")
  BY <1>1 DEF OrderMay, OrderTransitions, OrderStatus, NoStatus
<1>3. \A p \in Orders : status'[p] = IF p = o THEN "cancelled" ELSE status[p]
  BY <1>2 DEF InvoiceCancels, SetStatus
<1>4. /\ \A j \in Invoices : istatus'[j] = IF j = i THEN "cancelled" ELSE istatus[j]
      /\ dueTimers' = dueTimers \ {i}
      /\ UNCHANGED <<claimed, zoneId, orders, ahead, sales, quantity, liTopic, truckVars>>
  BY DEF InvoiceCancels, InvoiceEvent, IndInv, TypeOK
<1>5. /\ TruckShape' /\ OneTruckPerOrder' /\ NoOrderStranded'
      /\ freeTrucks' = {t \in Trucks : tstatus'[t] = "free"}
  <2>1. \A p \in claimed : status'[p] = status[p] /\ zoneId'[p] = zoneId[p]
    BY <1>1, <1>3, <1>4 DEF IndInv, TypeOK
  <2>2. \A p \in Orders \ claimed : status'[p] \notin {"loaded", "in-transit"}
    BY <1>1, <1>3 DEF IndInv, OrderShape
  <2> QED
    BY <1>4, <2>1, <2>2, UnclaimedStep
<1>6. OrderShape'
  BY <1>1, <1>3, <1>4 DEF IndInv, OrderShape, NoStatus
<1>7. InvoiceShape'
  <2>1. \A j \in Invoices : j[1] \in Orders
    BY DEF Invoices
  <2>2. dueTimers' = {j \in Invoices : istatus'[j] = "pending"}
    BY <1>4 DEF IndInv, InvoiceShape
  <2>3. \A p \in Orders : /\ quantity'[p] = liTopic'[p]
                           /\ sales'[p] = IF status'[p] \in Paid THEN quantity'[p] ELSE 0
    BY <1>1, <1>3, <1>4 DEF IndInv, InvoiceShape, Paid
  <2> QED
    BY <1>1, <1>3, <1>4, <2>1, <2>2, <2>3
       DEF IndInv, InvoiceShape, Paid, NoStatus
<1> QED
  BY <1>5, <1>6, <1>7 DEF Shape

\* A new order.
LEMMA ShapeCreateOrder ==
  ASSUME IndInv, TypeOK', NEW o \in Orders, NEW c \in Customers, NEW z \in Zones,
         NEW q \in Quantities, CreateOrder(o, c, z, q)
  PROVE  Shape'
<1>1. o \notin claimed /\ status[o] = NoStatus
  BY DEF CreateOrder, IndInv, OrderShape, NoStatus
<1>2. /\ \A p \in Orders : status'[p] = IF p = o THEN "created" ELSE status[p]
      /\ \A p \in Orders \ {o} : zoneId'[p] = zoneId[p]
      /\ \A p \in Orders : /\ quantity'[p] = IF p = o THEN q ELSE quantity[p]
                           /\ liTopic'[p] = IF p = o THEN q ELSE liTopic[p]
      /\ orders' = orders \cup {o}
      /\ UNCHANGED <<claimed, ahead, sales, istatus, dueTimers, truckVars>>
  BY DEF CreateOrder, SetStatus, IndInv, TypeOK, invoiceVars
<1>3. /\ TruckShape' /\ OneTruckPerOrder' /\ NoOrderStranded'
      /\ freeTrucks' = {t \in Trucks : tstatus'[t] = "free"}
  <2>1. \A p \in claimed : status'[p] = status[p] /\ zoneId'[p] = zoneId[p]
    BY <1>1, <1>2 DEF IndInv, TypeOK
  <2>2. \A p \in Orders \ claimed : status'[p] \notin {"loaded", "in-transit"}
    BY <1>1, <1>2 DEF IndInv, OrderShape
  <2> QED
    BY <1>2, <2>1, <2>2, UnclaimedStep
<1>4. OrderShape'
  BY <1>1, <1>2 DEF IndInv, OrderShape, NoStatus
<1>5. InvoiceShape'
  <2>1. \A j \in Invoices : j[1] \in Orders
    BY DEF Invoices
  <2> QED
    BY <1>1, <1>2, <2>1 DEF IndInv, InvoiceShape, Paid, NoStatus
<1> QED
  BY <1>3, <1>4, <1>5 DEF Shape

\* The invoicing of every order that silver has confirmed.
LEMMA ShapeProcessPendingInvoices ==
  ASSUME IndInv, TypeOK', ProcessPendingInvoices
  PROVE  Shape'
<1> DEFINE new == {NextInvoice(o) : o \in Invoiceable}
<1>1. \A o \in Invoiceable : /\ o \in Orders /\ status[o] = "created"
                             /\ o \notin claimed
  BY DEF Invoiceable, IndInv, TypeOK, OrderShape
<1>2. \A o \in Invoiceable : NextInvoice(o) = <<o, 1>> /\ NextInvoice(o) \in Invoices
  BY <1>1, FirstInvoiceSlot DEF IndInv
<1>3. \A i \in Invoices : i \in new <=> i[2] = 1 /\ i[1] \in Invoiceable
  <2>1. \A i \in Invoices : i = <<i[1], i[2]>>
    BY DEF Invoices
  <2>2. new = {<<o, 1>> : o \in Invoiceable}
    BY <1>2
  <2> HIDE DEF new
  <2> QED
    BY <2>1, <2>2
<1>4. /\ CreateInvoices(Invoiceable)
      /\ UNCHANGED <<claimed, zoneId, orders, ahead, sales, quantity, liTopic, truckVars>>
  BY DEF ProcessPendingInvoices
<1>5. \A o \in Orders :
        status'[o] = IF o \in Invoiceable THEN "invoiced" ELSE status[o]
  BY <1>4 DEF CreateInvoices, SetStatus
<1>6. /\ \A i \in Invoices : istatus'[i] = IF i \in new THEN "pending" ELSE istatus[i]
      /\ dueTimers' = dueTimers \cup new
      /\ new \subseteq Invoices
  BY <1>2, <1>4 DEF CreateInvoices
<1> HIDE DEF new
<1>7. /\ TruckShape' /\ OneTruckPerOrder' /\ NoOrderStranded'
      /\ freeTrucks' = {t \in Trucks : tstatus'[t] = "free"}
  <2>1. \A p \in claimed : status'[p] = status[p] /\ zoneId'[p] = zoneId[p]
    BY <1>1, <1>4, <1>5 DEF IndInv, TypeOK
  <2>2. \A p \in Orders \ claimed : status'[p] \notin {"loaded", "in-transit"}
    BY <1>5 DEF IndInv, OrderShape
  <2> QED
    BY <1>4, <2>1, <2>2, UnclaimedStep
<1>8. OrderShape'
  BY <1>1, <1>4, <1>5 DEF IndInv, OrderShape, NoStatus
<1>9. InvoiceShape'
  <2>1. \A j \in Invoices : j[1] \in Orders
    BY DEF Invoices
  <2>2. dueTimers' = {j \in Invoices : istatus'[j] = "pending"}
    BY <1>6 DEF IndInv, InvoiceShape
  <2>3. \A p \in Orders : /\ quantity'[p] = liTopic'[p]
                           /\ sales'[p] = IF status'[p] \in Paid THEN quantity'[p] ELSE 0
    BY <1>1, <1>4, <1>5 DEF IndInv, InvoiceShape, Paid
  <2>4. \A i \in Invoices :
          /\ i[2] # 1 => istatus'[i] = istatus[i]
          /\ i[2] = 1 => istatus'[i] = IF i[1] \in Invoiceable THEN "pending"
                                                               ELSE istatus[i]
    BY <1>3, <1>6
  <2> QED
    BY <1>1, <1>5, <2>1, <2>2, <2>3, <2>4
       DEF IndInv, InvoiceShape, Paid, NoStatus
<1> QED
  BY <1>7, <1>8, <1>9 DEF Shape

\* What TruckShape and OneTruckPerOrder say about positions in manifests.
LEMMA ManifestFacts ==
  ASSUME IndInv, NEW t \in Trucks
  PROVE  /\ manifest[t] \in Seq(Orders)
         /\ DOMAIN manifest[t] = 1..Len(manifest[t])
         /\ Len(manifest[t]) \in Nat
         /\ loadStep[t] \in 0..Len(manifest[t])
         /\ Aboard(t) \subseteq Orders
         /\ \A k \in DOMAIN manifest[t] : manifest[t][k] \in Aboard(t)
         /\ \A o \in Aboard(t) : \E k \in DOMAIN manifest[t] : o = manifest[t][k]
         /\ \A u \in Trucks \ {t} : Aboard(t) \cap Aboard(u) = {}
BY RangeOfSeq DEF IndInv, TypeOK, TruckShape, RunShape, OneTruckPerOrder, Aboard

\* A step that only changes the status of orders of one truck's manifest
\* leaves the other trucks as they were.
LEMMA OtherTrucks ==
  ASSUME IndInv, NEW t \in Trucks,
         UNCHANGED <<claimed, zoneId, manifest>>,
         \A p \in Orders \ Aboard(t) : status'[p] = status[p],
         NEW u \in Trucks \ {t},
         /\ tstatus'[u] = tstatus[u] /\ loadStep'[u] = loadStep[u]
         /\ stops'[u] = stops[u]
  PROVE  Aboard(u)' \subseteq claimed' /\ RunShape(u)'
<1>1. /\ Aboard(u)' = Aboard(u) /\ Aboard(u) \subseteq Orders \ Aboard(t)
      /\ \A k \in DOMAIN manifest[u] : manifest[u][k] \in Aboard(u)
  <2>1. Aboard(u)' = Aboard(u)
    BY DEF Aboard
  <2>2. /\ Aboard(u) \subseteq Orders
        /\ \A k \in DOMAIN manifest[u] : manifest[u][k] \in Aboard(u)
        /\ Aboard(u) \cap Aboard(t) = {}
    BY ManifestFacts
  <2> QED
    BY <2>1, <2>2
<1>2. \A o \in Aboard(u) : status'[o] = status[o]
  BY <1>1
<1> QED
  BY <1>1, <1>2 DEF IndInv, TruckShape, RunShape

\* The next order of a manifest is loaded.
LEMMA ShapeLoadOrder ==
  ASSUME IndInv, TypeOK', NEW t \in Trucks, LoadOrder(t)
  PROVE  Shape'
<1> DEFINE k == loadStep[t] + 1
           o == manifest[t][k]
<1>1. /\ k \in DOMAIN manifest[t] /\ o \in Aboard(t) /\ o \in Orders
      /\ o \in claimed /\ status[o] = "on-hold" /\ tstatus[t] = "loading"
  BY ManifestFacts DEF LoadOrder, IndInv, TruckShape, RunShape
<1>2. OrderMay(o, "loaded")
  BY <1>1 DEF OrderMay, OrderTransitions, OrderStatus, NoStatus
<1>3. /\ \A p \in Orders : status'[p] = IF p = o THEN "loaded" ELSE status[p]
      /\ \A u \in Trucks : loadStep'[u] = IF u = t THEN k ELSE loadStep[u]
      /\ UNCHANGED <<claimed, zoneId, orders, ahead, sales, quantity, liTopic, istatus,
                     dueTimers, tstatus, manifest, stops, freeTrucks>>
  BY <1>2 DEF LoadOrder, SetStatus, invoiceVars, IndInv, TypeOK
<1> HIDE DEF o
<1>4. OrderShape'
  BY <1>1, <1>3 DEF IndInv, OrderShape, NoStatus
<1>5. InvoiceShape'
  BY <1>1, <1>3, PaidStep DEF Paid
<1>6. OneTruckPerOrder' /\ freeTrucks' = {u \in Trucks : tstatus'[u] = "free"}
  BY <1>3 DEF IndInv, OneTruckPerOrder, Aboard
<1>7. NoOrderStranded'
  <2>1. \A u \in Trucks : Aboard(u)' = Aboard(u)
    BY <1>3 DEF Aboard
  <2> QED
    BY <1>1, <1>3, <2>1 DEF IndInv, NoOrderStranded
<1>8. TruckShape'
  <2>1. \A p \in Orders \ Aboard(t) : status'[p] = status[p]
    BY <1>1, <1>3
  <2>2. \A j \in DOMAIN manifest[t] : j # k => manifest[t][j] # o
    BY <1>1 DEF IndInv, OneTruckPerOrder, o
  <2>3. /\ Aboard(t)' \subseteq claimed' /\ loadStep'[t] \in 0..Len(manifest'[t])
        /\ tstatus'[t] = "loading" /\ manifest'[t] # << >>
    BY <1>1, <1>3, ManifestFacts DEF IndInv, TruckShape, RunShape, Aboard
  <2>4. ASSUME NEW j \in DOMAIN manifest'[t]
        PROVE  /\ zoneId'[manifest'[t][j]] \in stops'[t]
               /\ status'[manifest'[t][j]] = IF j <= loadStep'[t] THEN "loaded"
                                                                  ELSE "on-hold"
    <3>1. /\ j \in DOMAIN manifest[t] /\ j \in Nat /\ loadStep[t] \in Nat
          /\ manifest[t][j] \in Orders
      BY <1>3, ManifestFacts
    <3>2. /\ zoneId[manifest[t][j]] \in stops[t]
          /\ status[manifest[t][j]] = IF j <= loadStep[t] THEN "loaded"
                                                          ELSE "on-hold"
      BY <1>1, <3>1 DEF IndInv, TruckShape, RunShape
    <3>3. CASE j = k
      BY <1>1, <1>3, <3>1, <3>2, <3>3 DEF o
    <3>4. CASE j # k
      BY <1>3, <2>2, <3>1, <3>2, <3>4
    <3> QED
      BY <3>3, <3>4
  <2> QED
    BY <1>3, <2>1, <2>3, <2>4, OtherTrucks DEF TruckShape, RunShape
<1> QED
  BY <1>4, <1>5, <1>6, <1>7, <1>8 DEF Shape

\* A loaded truck departs.
LEMMA ShapeDepart ==
  ASSUME IndInv, TypeOK', NEW t \in Trucks, Depart(t)
  PROVE  Shape'
<1>1. /\ tstatus[t] = "loading"
      /\ \A k \in DOMAIN manifest[t] : /\ manifest[t][k] \in Aboard(t)
                                       /\ status[manifest[t][k]] = "loaded"
                                       /\ zoneId[manifest[t][k]] \in stops[t]
      /\ Aboard(t) \subseteq claimed
      /\ manifest[t] # << >>
  BY ManifestFacts DEF Depart, IndInv, TruckShape, RunShape
<1>2. \A o \in Aboard(t) : /\ o \in Orders /\ status[o] = "loaded"
                           /\ zoneId[o] \in stops[t]
  BY <1>1, ManifestFacts
<1>3. \A k \in DOMAIN manifest[t] : OrderMay(manifest[t][k], "in-transit")
  BY <1>1 DEF OrderMay, OrderTransitions, OrderStatus, NoStatus
<1>4. {manifest[t][k] : k \in {k \in DOMAIN manifest[t] :
         \A j \in 1..k : OrderMay(manifest[t][j], "in-transit")}} = Aboard(t)
  <2>1. \A k \in DOMAIN manifest[t] : \A j \in 1..k : j \in DOMAIN manifest[t]
    BY ManifestFacts
  <2> QED
    BY <1>3, <2>1, ManifestFacts
<1>5. /\ SetStatus(Aboard(t), "in-transit")
      /\ tstatus' = [tstatus EXCEPT ![t] = "in_transit"]
      /\ loadStep' = [loadStep EXCEPT ![t] = 0]
      /\ UNCHANGED <<claimed, zoneId, orders, ahead, sales, quantity, liTopic, istatus,
                     dueTimers, manifest, stops, freeTrucks>>
  BY <1>4 DEF Depart, invoiceVars
<1>6. /\ \A p \in Orders :
           status'[p] = IF p \in Aboard(t) THEN "in-transit" ELSE status[p]
      /\ \A u \in Trucks \ {t} : tstatus'[u] = tstatus[u] /\ loadStep'[u] = loadStep[u]
      /\ tstatus'[t] = "in_transit" /\ loadStep'[t] = 0
      /\ \A u \in Trucks : Aboard(u)' = Aboard(u)
  BY <1>5 DEF SetStatus, IndInv, TypeOK, Aboard
<1>7. OrderShape'
  BY <1>1, <1>2, <1>5, <1>6 DEF IndInv, OrderShape, NoStatus
<1>8. InvoiceShape'
  BY <1>2, <1>5, <1>6, PaidStep DEF Paid
<1>9. OneTruckPerOrder' /\ freeTrucks' = {u \in Trucks : tstatus'[u] = "free"}
  BY <1>1, <1>5, <1>6 DEF IndInv, OneTruckPerOrder
<1>10. NoOrderStranded'
  BY <1>1, <1>2, <1>5, <1>6 DEF IndInv, NoOrderStranded
<1>11. TruckShape'
  <2>1. stops[t] # {}
    BY <1>1, RangeOfSeq, ManifestFacts
  <2>2. loadStep'[t] \in 0..Len(manifest'[t])
    BY <1>5, <1>6, ManifestFacts
  <2>3. \A p \in Orders \ Aboard(t) : status'[p] = status[p]
    BY <1>6
  <2> QED
    BY <1>1, <1>2, <1>5, <1>6, <2>1, <2>2, <2>3, OtherTrucks DEF TruckShape, RunShape
<1> QED
  BY <1>7, <1>8, <1>9, <1>10, <1>11 DEF Shape

\* A free truck takes a batch of a zone's queue.
LEMMA ShapeDispatchZone ==
  ASSUME IndInv, TypeOK', NEW z \in Zones, DispatchZone(z)
  PROVE  Shape'
<1>1. PICK t \in freeTrucks, m \in Batches(Queue(z)) :
        /\ freeTrucks' = freeTrucks \ {t}
        /\ claimed' = claimed \cup Range(m)
        /\ manifest' = [manifest EXCEPT ![t] = m]
        /\ tstatus' = [tstatus EXCEPT ![t] = "loading"]
        /\ loadStep' = [loadStep EXCEPT ![t] = 0]
        /\ stops' = [stops EXCEPT ![t] = {zoneId[o] : o \in Range(m)}]
  BY DEF DispatchZone
<1>2. UNCHANGED <<status, zoneId, orders, ahead, sales, quantity, liTopic, istatus,
                  dueTimers>>
  BY DEF DispatchZone, invoiceVars, topicVars
<1>3. t \in Trucks /\ tstatus[t] = "free"
  BY DEF IndInv
<1>4. /\ Queue(z) \in SUBSET Orders
      /\ \A o \in Queue(z) : o \notin claimed /\ status[o] = "on-hold"
  BY QueueTyped DEF IndInv
<1>5. /\ m \in Seq(Orders) /\ m # << >> /\ Range(m) \subseteq Queue(z)
      /\ DOMAIN m = 1..Len(m) /\ Len(m) \in Nat
      /\ \A k \in DOMAIN m : m[k] \in Range(m)
      /\ \A x \in Range(m) : \E k \in DOMAIN m : x = m[k]
  BY <1>4, BatchTyped, RangeOfSeq
<1>6. \A j, k \in DOMAIN m : j # k => m[j] # m[k]
  BY <1>4, BatchDistinct
<1>7. /\ \A u \in Trucks \ {t} :
           /\ tstatus'[u] = tstatus[u] /\ manifest'[u] = manifest[u]
           /\ loadStep'[u] = loadStep[u] /\ stops'[u] = stops[u]
           /\ Aboard(u)' = Aboard(u)
      /\ tstatus'[t] = "loading" /\ manifest'[t] = m /\ loadStep'[t] = 0
      /\ stops'[t] = {zoneId[o] : o \in Range(m)}
      /\ Aboard(t)' = Range(m)
  BY <1>1, <1>3 DEF IndInv, TypeOK, Aboard
<1>8. OrderShape'
  BY <1>1, <1>2, <1>4, <1>5 DEF IndInv, OrderShape
<1>9. InvoiceShape'
  BY <1>2, PaidStep
<1>10. TruckShape'
  <2>1. ASSUME NEW k \in DOMAIN manifest'[t]
        PROVE  /\ zoneId'[manifest'[t][k]] \in stops'[t]
               /\ status'[manifest'[t][k]] = IF k <= loadStep'[t] THEN "loaded"
                                                                  ELSE "on-hold"
    BY <1>2, <1>4, <1>5, <1>7
  <2>2. /\ Aboard(t)' \subseteq claimed' /\ loadStep'[t] \in 0..Len(manifest'[t])
        /\ manifest'[t] # << >>
    BY <1>1, <1>5, <1>7
  <2>3. ASSUME NEW u \in Trucks \ {t}
        PROVE  /\ Aboard(u)' \subseteq claimed'
               /\ \A k \in DOMAIN manifest[u] : manifest[u][k] \in Orders
    BY <1>1, <1>7, ManifestFacts DEF IndInv, TruckShape, RunShape
  <2>4. \A u \in Trucks \ {t} :
          tstatus'[u] # "loading" => loadStep'[u] = 0
    BY <1>7 DEF IndInv, TruckShape, RunShape
  <2> QED
    BY <1>2, <1>7, <2>1, <2>2, <2>3, <2>4 DEF IndInv, TruckShape, RunShape
<1>11. OneTruckPerOrder'
  <2>1. \A u \in Trucks \ {t} : Aboard(u) \cap Range(m) = {}
    BY <1>4, <1>5 DEF IndInv, TruckShape, RunShape
  <2> QED
    BY <1>6, <1>7, <2>1 DEF IndInv, OneTruckPerOrder
<1>12. NoOrderStranded'
  <2>1. ASSUME NEW o \in Orders,
               \/ status'[o] \in {"loaded", "in-transit"}
               \/ status'[o] = "on-hold" /\ o \in claimed'
        PROVE  \E u \in Trucks : /\ tstatus'[u] \in {"loading", "in_transit"}
                                 /\ o \in Aboard(u)'
                                 /\ zoneId'[o] \in stops'[u]
    <3>1. CASE o \in Range(m)
      BY <1>2, <1>3, <1>7, <3>1
    <3>2. CASE o \notin Range(m)
      <4>1. PICK u \in Trucks : /\ tstatus[u] \in {"loading", "in_transit"}
                                /\ o \in Aboard(u)
                                /\ zoneId[o] \in stops[u]
        BY <1>1, <1>2, <2>1, <3>2 DEF IndInv, NoOrderStranded
      <4> QED
        BY <1>2, <1>3, <1>7, <4>1
    <3> QED
      BY <3>1, <3>2
  <2> QED
    BY <2>1 DEF NoOrderStranded
<1>13. freeTrucks' = {u \in Trucks : tstatus'[u] = "free"}
  BY <1>1, <1>3, <1>7 DEF IndInv
<1> QED
  BY <1>8, <1>9, <1>10, <1>11, <1>12, <1>13 DEF Shape

\* Trucks arrive at a stop or at the warehouse.
LEMMA ShapeTrucksTick ==
  ASSUME IndInv, TypeOK', NEW A \in SUBSET Trucks, TrucksTick(A)
  PROVE  Shape'
<1> DEFINE home == A \ AtStop(A)
           delivered == {o \in UNION {Unloading(t) : t \in AtStop(A)} :
                           OrderMay(o, "delivered")}
<1>1. /\ SetStatus(delivered, "closed")
      /\ stops' = [t \in Trucks |-> StopsLeft(A, t)]
      /\ tstatus' = [t \in Trucks |->
                       IF t \in home THEN "free"
                       ELSE IF t \in AtStop(A) /\ StopsLeft(A, t) = {} THEN "returning"
                       ELSE tstatus[t]]
      /\ manifest' = [t \in Trucks |->
                        IF t \in home THEN << >> ELSE manifest[t]]
      /\ freeTrucks' = freeTrucks \cup home
      /\ UNCHANGED <<zoneId, orders, claimed, ahead, sales, quantity, liTopic, istatus,
                     dueTimers, loadStep>>
  BY DEF TrucksTick, invoiceVars
<1>2. /\ AtStop(A) \subseteq Trucks /\ home \subseteq Trucks
      /\ \A t \in AtStop(A) : tstatus[t] = "in_transit"
      /\ \A t \in home : tstatus[t] = "returning"
  BY DEF TrucksTick, AtStop
<1>3. \A t \in AtStop(A) : NextStop(t) \in stops[t]
  BY <1>2 DEF IndInv, TruckShape, RunShape, NextStop
\* What is delivered is what the trucks that have arrived carry for the stop.
<1>4. ASSUME NEW t \in Trucks, NEW o \in Aboard(t)
      PROVE  o \in delivered <=> /\ t \in AtStop(A)
                                 /\ zoneId[o] = NextStop(t)
  <2>1. ASSUME NEW u \in Trucks, o \in Aboard(u)
        PROVE  u = t
    BY <2>1 DEF IndInv, OneTruckPerOrder
  <2>2. o \in delivered => t \in AtStop(A) /\ zoneId[o] = NextStop(t)
    BY <1>2, <2>1 DEF Unloading
  <2>3. ASSUME t \in AtStop(A), zoneId[o] = NextStop(t)
        PROVE  o \in delivered
    <3>1. status[o] = "in-transit"
      BY <1>2, <1>3, <2>3 DEF IndInv, TruckShape, RunShape
    <3>2. OrderMay(o, "delivered")
      BY <3>1 DEF OrderMay, OrderTransitions, OrderStatus, NoStatus
    <3> QED
      BY <2>3, <3>2 DEF Unloading
  <2> QED
    BY <2>2, <2>3
<1>5. \A o \in delivered : \E t \in AtStop(A) : o \in Aboard(t) /\ zoneId[o] = NextStop(t)
  BY DEF Unloading
<1>6. \A o \in delivered : o \in Orders /\ o \in claimed /\ status[o] = "in-transit"
  <2> SUFFICES ASSUME NEW o \in delivered
               PROVE  o \in Orders /\ o \in claimed /\ status[o] = "in-transit"
    OBVIOUS
  <2>1. PICK t \in AtStop(A) : o \in Aboard(t) /\ zoneId[o] = NextStop(t)
    BY <1>5
  <2> QED
    BY <1>2, <1>3, <2>1, ManifestFacts DEF IndInv, TruckShape, RunShape
<1>7. \A o \in Orders : status'[o] = IF o \in delivered THEN "closed" ELSE status[o]
  BY <1>1 DEF SetStatus
<1> HIDE DEF delivered
<1>8. \A t \in Trucks : /\ t \in home => Aboard(t)' = {} /\ Len(manifest'[t]) = 0
                        /\ t \notin home => /\ Aboard(t)' = Aboard(t)
                                            /\ manifest'[t] = manifest[t]
  BY <1>1 DEF Aboard, Range
<1>9. OrderShape'
  BY <1>1, <1>6, <1>7 DEF IndInv, OrderShape, NoStatus
<1>10. InvoiceShape'
  BY <1>1, <1>6, <1>7, PaidStep DEF Paid
<1>11. OneTruckPerOrder'
  <2>1. \A t \in Trucks : t \in home => DOMAIN manifest'[t] = {}
    BY <1>1
  <2> QED
    BY <1>8, <2>1 DEF IndInv, OneTruckPerOrder
<1>12. freeTrucks' = {t \in Trucks : tstatus'[t] = "free"}
  BY <1>1, <1>2 DEF IndInv
<1>13. NoOrderStranded'
  <2>1. ASSUME NEW o \in Orders,
               \/ status'[o] \in {"loaded", "in-transit"}
               \/ status'[o] = "on-hold" /\ o \in claimed'
        PROVE  \E u \in Trucks : /\ tstatus'[u] \in {"loading", "in_transit"}
                                 /\ o \in Aboard(u)'
                                 /\ zoneId'[o] \in stops'[u]
    <3>1. o \notin delivered /\ status'[o] = status[o]
      BY <1>7, <2>1
    <3>2. PICK u \in Trucks : /\ tstatus[u] \in {"loading", "in_transit"}
                              /\ o \in Aboard(u)
                              /\ zoneId[o] \in stops[u]
      BY <1>1, <2>1, <3>1 DEF IndInv, NoOrderStranded
    <3>3. u \notin home /\ zoneId[o] \in StopsLeft(A, u)
      BY <1>2, <1>4, <3>1, <3>2 DEF StopsLeft
    <3> QED
      BY <1>1, <1>8, <3>2, <3>3
  <2> QED
    BY <2>1 DEF NoOrderStranded
<1>14. TruckShape'
  <2> SUFFICES ASSUME NEW t \in Trucks
               PROVE  Aboard(t)' \subseteq claimed' /\ RunShape(t)'
    BY DEF TruckShape
  <2>1. \A o \in Aboard(t) : o \in Orders
    BY ManifestFacts
  <2>2. CASE t \in home
    BY <1>1, <1>2, <1>8, <2>2 DEF IndInv, TruckShape, RunShape, StopsLeft
  <2>3. CASE t \in AtStop(A)
    <3>1. /\ stops'[t] = stops[t] \ {NextStop(t)}
          /\ tstatus'[t] = IF stops'[t] = {} THEN "returning" ELSE "in_transit"
      BY <1>1, <1>2, <2>3 DEF StopsLeft
    <3>2. \A o \in Aboard(t) :
            status'[o] = IF zoneId[o] \in stops[t] \ {NextStop(t)}
                         THEN "in-transit" ELSE "closed"
      BY <1>2, <1>4, <1>7, <2>1, <2>3 DEF IndInv, TruckShape, RunShape
    <3> QED
      BY <1>1, <1>2, <1>8, <2>3, <3>1, <3>2 DEF IndInv, TruckShape, RunShape
  <2>4. CASE t \notin home /\ t \notin AtStop(A)
    <3>1. \A o \in Aboard(t) : status'[o] = status[o]
      BY <1>4, <1>7, <2>1, <2>4
    <3>2. /\ stops'[t] = stops[t] /\ tstatus'[t] = tstatus[t]
          /\ manifest'[t] = manifest[t] /\ Aboard(t)' = Aboard(t)
      BY <1>1, <1>8, <2>4 DEF StopsLeft
    <3>3. \A k \in DOMAIN manifest[t] : manifest[t][k] \in Aboard(t)
      BY ManifestFacts
    <3> QED
      BY <1>1, <3>1, <3>2, <3>3 DEF IndInv, TruckShape, RunShape
  <2> QED
    BY <2>2, <2>3, <2>4
<1> QED
  BY <1>9, <1>10, <1>11, <1>12, <1>13, <1>14 DEF Shape

\* Every step preserves the inductive invariant.
LEMMA IndInvStep == IndInv /\ [Next]_vars => IndInv'
<1> SUFFICES ASSUME IndInv, [Next]_vars
             PROVE  IndInv'
  OBVIOUS
<1>1. TypeOK'
  <2>1. \A o \in Invoiceable : o \in Orders /\ status[o] = "created"
    BY DEF Invoiceable, IndInv, TypeOK
  <2>2. SlotsLeft
    BY <2>1, FirstInvoiceSlot DEF SlotsLeft, IndInv
  <2> QED
    BY <2>2, TypeStep DEF IndInv
<1>2. Shape'
  <2>1. ASSUME NEW c \in Customers, VerifyAccount(c) \/ SilverCustomers(c)
        PROVE  Shape'
    BY <1>1, <2>1, ShapeIdle
       DEF VerifyAccount, SilverCustomers, orderVars, invoiceVars, topicVars
  <2>2. ASSUME NEW i \in Invoices, InvoiceReminds(i)
        PROVE  Shape'
    <3>1. istatus' = istatus
      BY <2>2 DEF InvoiceReminds, InvoiceEvent, IndInv, TypeOK
    <3> QED
      BY <1>1, <2>2, <3>1, ShapeIdle DEF InvoiceReminds, orderVars
  <2>3. ASSUME NEW i \in Invoices, InvoiceSettles(i) \/ InvoiceCancels(i)
        PROVE  Shape'
    BY <1>1, <2>3, ShapeInvoiceSettles, ShapeInvoiceCancels
  <2>4. ASSUME NEW t \in Trucks, LoadOrder(t) \/ Depart(t)
        PROVE  Shape'
    BY <1>1, <2>4, ShapeLoadOrder, ShapeDepart
  <2>5. CASE \/ EndSchedulerTick \/ CustomersTick \/ SkipOrder
             \/ DispatchNoTruck \/ SkipZone
    BY <1>1, <2>5, ShapeIdle
       DEF EndSchedulerTick, CustomersTick, SkipOrder, DispatchNoTruck,
           SkipZone, orderVars, invoiceVars, topicVars
  <2>6. ASSUME NEW o \in Orders, NEW c \in Customers, NEW z \in Zones,
               NEW q \in Quantities, CreateOrder(o, c, z, q)
        PROVE  Shape'
    BY <1>1, <2>6, ShapeCreateOrder
  <2>7. CASE ProcessPendingInvoices
    BY <1>1, <2>7, ShapeProcessPendingInvoices
  <2>8. ASSUME NEW z \in Zones, DispatchZone(z)
        PROVE  Shape'
    BY <1>1, <2>8, ShapeDispatchZone
  <2>9. ASSUME NEW A \in SUBSET Trucks, TrucksTick(A)
        PROVE  Shape'
    BY <1>1, <2>9, ShapeTrucksTick
  <2>10. CASE CollectTerminal
    BY <1>1, <2>10, ShapeIdle DEF CollectTerminal, topicVars
  <2>11. ASSUME NEW o \in Orders, NEW n \in 1..Len(poTopic[o]), SilverOrders(o, n)
         PROVE  Shape'
    BY <1>1, <2>11, ShapeIdle DEF SilverOrders, orderVars, invoiceVars, topicVars
  <2>12. CASE UNCHANGED vars
    BY <1>1, <2>12, ShapeIdle DEF vars, orderVars, invoiceVars, topicVars
  <2> QED
    BY <2>1, <2>2, <2>3, <2>4, <2>5, <2>6, <2>7, <2>8, <2>9, <2>10, <2>11,
       <2>12 DEF Next, Callback, Step, Pipeline
<1> QED
  BY <1>1, <1>2 DEF IndInv, Shape

\* The inductive invariant holds in every reachable state.
THEOREM Invariance == Spec => []IndInv
<1>1. Init => IndInv
  BY TypeInit, ShapeInit DEF IndInv, Shape
<1> QED
  BY <1>1, IndInvStep, PTL DEF Spec

-------------------------------------------------------------------------------
(* What follows from it.                                                   *)

\* Every variable always has its type.
THEOREM TypeCorrect == Spec => []TypeOK
<1>1. IndInv => TypeOK
  BY DEF IndInv
<1> QED
  BY <1>1, Invariance, PTL

\* No callback and no truck ever asks for a status change that set_status()
\* refuses.
THEOREM NoCallbackRaises == Spec => []CallbacksNeverRaise
<1>1. ASSUME IndInv PROVE CallbacksNeverRaise
  <2>1. ASSUME NEW i \in dueTimers
        PROVE  /\ istatus[i] = "pending"
               /\ OrderMay(i[1], "paid") /\ OrderMay(i[1], "cancelled")
    <3>1. i \in Invoices /\ istatus[i] = "pending"
      BY <1>1 DEF IndInv, InvoiceShape
    <3>2. status[i[1]] = "invoiced"
      BY <1>1, <3>1, PendingInvoice
    <3> QED
      BY <3>1, <3>2 DEF OrderMay, OrderTransitions, OrderStatus, NoStatus
  <2>2. ASSUME NEW t \in Trucks, tstatus[t] = "loading",
               NEW k \in DOMAIN manifest[t]
        PROVE  OrderMay(manifest[t][k],
                        IF k <= loadStep[t] THEN "in-transit" ELSE "loaded")
    <3>1. status[manifest[t][k]] = IF k <= loadStep[t] THEN "loaded" ELSE "on-hold"
      BY <1>1, <2>2 DEF IndInv, TruckShape, RunShape
    <3> QED
      BY <3>1 DEF OrderMay, OrderTransitions, OrderStatus, NoStatus
  <2>3. ASSUME NEW t \in Trucks, tstatus[t] = "in_transit",
               NEW o \in Aboard(t), zoneId[o] \in stops[t]
        PROVE  OrderMay(o, "delivered")
    <3>1. status[o] = "in-transit"
      BY <1>1, <2>3 DEF IndInv, TruckShape, RunShape
    <3> QED
      BY <3>1 DEF OrderMay, OrderTransitions, OrderStatus, NoStatus
  <2> QED
    BY <2>1, <2>2, <2>3 DEF CallbacksNeverRaise
<1> QED
  BY <1>1, Invariance, PTL

\* No order is ever on two trucks, or twice on one.
THEOREM NoDoubleDispatch == Spec => []OneTruckPerOrder
<1>1. IndInv => OneTruckPerOrder
  BY DEF IndInv
<1> QED
  BY <1>1, Invariance, PTL

\* Whatever has left its queue is on a truck that still has to reach its zone.
THEOREM NothingStranded == Spec => []NoOrderStranded
<1>1. IndInv => NoOrderStranded
  BY DEF IndInv
<1> QED
  BY <1>1, Invariance, PTL

\* The dispatcher's free list is exactly the trucks that stand empty.
THEOREM FreeListCorrect == Spec => []FreeListExact
<1>1. IndInv => FreeListExact
  BY DEF IndInv, TruckShape, RunShape, FreeListExact
<1> QED
  BY <1>1, Invariance, PTL

\* Order, invoice, timer and stock never disagree about the payment.
THEOREM PaymentCorrect == Spec => []PaymentAgrees
<1>1. ASSUME IndInv, NEW o \in Orders
      PROVE  /\ status[o] \in {NoStatus, "created"} =>
                  \A i \in InvoicesOf(o) : istatus[i] = NoStatus
             /\ status[o] = "invoiced" =>
                  \E i \in dueTimers : InvoicesWith(o, "pending") = {i}
             /\ status[o] \in Paid =>
                  \E i \in Invoices : InvoicesWith(o, "settled") = {i}
             /\ status[o] = "cancelled" =>
                  \E i \in Invoices : InvoicesWith(o, "cancelled") = {i}
             /\ Cardinality({i \in InvoicesOf(o) : istatus[i] # NoStatus}) <= 1
             /\ sales[o] = IF status[o] \in Paid THEN liTopic[o] ELSE 0
  <2> DEFINE first == <<o, 1>>
             used == {i \in InvoicesOf(o) : istatus[i] # NoStatus}
  <2>1. /\ first \in InvoicesOf(o) /\ first \in Invoices
        /\ \A i \in InvoicesOf(o) : i[2] = 1 => i = first
    BY BoundsAssumption DEF Invoices, InvoicesOf
  <2>2. \A i \in InvoicesOf(o) : i \in Invoices /\ i[1] = o
    BY DEF InvoicesOf
  <2>3. \A i \in InvoicesOf(o) : istatus[i] # NoStatus => i = first
    BY <1>1, <2>1, <2>2 DEF IndInv, InvoiceShape
  <2>4. /\ istatus[first] = NoStatus <=> status[o] \in {NoStatus, "created"}
        /\ istatus[first] = "pending" <=> status[o] = "invoiced"
        /\ istatus[first] = "settled" <=> status[o] \in Paid
        /\ istatus[first] = "cancelled" <=> status[o] = "cancelled"
    BY <1>1, <2>1 DEF IndInv, InvoiceShape
  <2> HIDE DEF first
  <2>5. status[o] \in {NoStatus, "created"} =>
          \A i \in InvoicesOf(o) : istatus[i] = NoStatus
    BY <2>3, <2>4
  <2>6. ASSUME NEW s \in InvoiceStatus, istatus[first] = s
        PROVE  InvoicesWith(o, s) = {first}
    BY <2>1, <2>3, <2>6 DEF InvoicesWith, InvoiceStatus, NoStatus
  <2>7. istatus[first] = "pending" => first \in dueTimers
    BY <1>1, <2>1 DEF IndInv, InvoiceShape
  <2>8. Cardinality(used) <= 1
    <3>1. used \subseteq {first}
      BY <2>3
    <3>2. used = {} \/ used = {first}
      BY <3>1
    <3>3. Cardinality({}) = 0 /\ Cardinality({first}) = 1
      BY FS_EmptySet, FS_Singleton
    <3> HIDE DEF used
    <3> QED
      BY <3>2, <3>3
  <2>9. sales[o] = IF status[o] \in Paid THEN liTopic[o] ELSE 0
    BY <1>1 DEF IndInv, InvoiceShape
  <2> QED
    BY <2>1, <2>4, <2>5, <2>6, <2>7, <2>8, <2>9 DEF InvoiceStatus
<1>2. IndInv => PaymentAgrees
  BY <1>1 DEF PaymentAgrees
<1> QED
  BY <1>2, Invariance, PTL

-------------------------------------------------------------------------------
(* The cap on concurrent orders, an invariant of its own.                  *)

OpenOrdersInv == IndInv /\ OpenOrdersExact

\* An order is new when it is placed, so adding it to its customer's set
\* counts it once; nothing else adds to the set.
LEMMA OpenOrdersStep == OpenOrdersInv /\ [Next]_vars => OpenOrdersInv'
<1> SUFFICES ASSUME OpenOrdersInv, [Next]_vars
             PROVE  OpenOrdersInv'
  OBVIOUS
<1>1. IndInv'
  BY IndInvStep DEF OpenOrdersInv
<1>2. \A c \in Customers : IsFiniteSet(openOrderIds[c])
  BY OrdersAssumption, FS_Subset DEF OpenOrdersInv, IndInv, TypeOK
<1>3. CASE UNCHANGED <<openOrderIds, orders, owner>>
  BY <1>1, <1>3 DEF OpenOrdersInv, OpenOrdersExact
<1>4. ASSUME NEW o \in Orders, NEW c \in Customers, NEW z \in Zones,
             NEW q \in Quantities, CreateOrder(o, c, z, q)
      PROVE  OpenOrdersExact'
  <2>1. /\ o \notin orders
        /\ Cardinality(openOrderIds[c]) < MaxOpenOrders
    BY <1>4 DEF CreateOrder, CanCreatePurchaseOrder, OpenOrdersInv, IndInv,
                OrderShape
  <2>2. /\ \A d \in Customers :
             openOrderIds'[d] = IF d = c THEN openOrderIds[c] \cup {o}
                                         ELSE openOrderIds[d]
        /\ \A p \in Orders : owner'[p] = IF p = o THEN c ELSE owner[p]
        /\ orders' = orders \cup {o}
    BY <1>4 DEF CreateOrder, OpenOrdersInv, IndInv, TypeOK
  <2>3. \A d \in Customers : openOrderIds'[d] = {p \in orders' : owner'[p] = d}
    <3>1. orders \subseteq Orders
      BY DEF OpenOrdersInv, IndInv, TypeOK
    <3>2. \A d \in Customers : openOrderIds[d] = {p \in orders : owner[p] = d}
      BY DEF OpenOrdersInv, OpenOrdersExact
    <3>3. \A p \in orders' : owner'[p] = IF p = o THEN c ELSE owner[p]
      BY <2>2, <3>1
    <3>4. {p \in orders' : owner'[p] = c} = openOrderIds[c] \cup {o}
      BY <2>1, <2>2, <3>2, <3>3
    <3>5. \A d \in Customers \ {c} :
            {p \in orders' : owner'[p] = d} = openOrderIds[d]
      BY <2>1, <2>2, <3>2, <3>3
    <3> QED
      BY <2>2, <3>4, <3>5
  <2>4. Cardinality(openOrderIds[c] \cup {o}) <= MaxOpenOrders
    <3>1. IsFiniteSet(openOrderIds[c])
      BY <1>2
    <3>2. Cardinality(openOrderIds[c]) \in Nat
      BY <3>1, FS_CardinalityType
    <3>3. Cardinality(openOrderIds[c] \cup {o}) =
            IF o \in openOrderIds[c] THEN Cardinality(openOrderIds[c])
                                     ELSE Cardinality(openOrderIds[c]) + 1
      BY <3>1, FS_AddElement
    <3> QED
      BY <2>1, <3>2, <3>3, BoundsAssumption
  <2> QED
    BY <2>2, <2>3, <2>4 DEF OpenOrdersInv, OpenOrdersExact
<1>5. CASE CollectTerminal
  <2>1. \A c \in Customers :
          openOrderIds'[c] = openOrderIds[c] \ {o \in Terminal : owner[o] = c}
    BY <1>5 DEF CollectTerminal
  <2>2. \A c \in Customers : openOrderIds'[c] = {o \in orders' : owner'[o] = c}
    BY <1>5, <2>1
       DEF CollectTerminal, Terminal, OpenOrdersInv, OpenOrdersExact
  <2>3. ASSUME NEW c \in Customers
        PROVE  Cardinality(openOrderIds'[c]) <= MaxOpenOrders
    <3>1. /\ IsFiniteSet(openOrderIds'[c])
          /\ Cardinality(openOrderIds'[c]) <= Cardinality(openOrderIds[c])
      BY <1>2, <2>1, FS_Subset
    <3>2. /\ Cardinality(openOrderIds'[c]) \in Nat
          /\ Cardinality(openOrderIds[c]) \in Nat
      BY <1>2, <3>1, FS_CardinalityType
    <3> QED
      BY <3>1, <3>2, BoundsAssumption DEF OpenOrdersInv, OpenOrdersExact
  <2> QED
    BY <1>1, <2>2, <2>3 DEF OpenOrdersInv, OpenOrdersExact
<1>6. \/ \E o \in Orders, c \in Customers, z \in Zones, q \in Quantities :
           CreateOrder(o, c, z, q)
      \/ CollectTerminal
      \/ UNCHANGED <<openOrderIds, orders, owner>>
  BY DEF Next, Callback, Step, Pipeline, vars, VerifyAccount, InvoiceSettles,
         InvoiceReminds, InvoiceCancels, LoadOrder, Depart, EndSchedulerTick,
         CustomersTick, SkipOrder, ProcessPendingInvoices, DispatchNoTruck,
         SkipZone, DispatchZone, TrucksTick, SilverOrders, SilverCustomers,
         customerVars, orderVars
<1> QED
  BY <1>1, <1>3, <1>4, <1>5, <1>6 DEF OpenOrdersInv

\* The set of open orders of a customer is exact and never exceeds the cap.
THEOREM OpenOrdersCorrect == Spec => []OpenOrdersExact
<1>1. Init => OpenOrdersInv
  BY TypeInit, ShapeInit, FS_EmptySet, BoundsAssumption
     DEF Init, IndInv, Shape, OpenOrdersInv, OpenOrdersExact
<1>2. OpenOrdersInv => OpenOrdersExact
  BY DEF OpenOrdersInv
<1> QED
  BY <1>1, <1>2, OpenOrdersStep, PTL DEF Spec

-------------------------------------------------------------------------------
(* What has been sent to Kafka, and the abstract specification that is     *)
(* implemented: first the path of an order.                                *)

\* The place of each status on the path.
LEMMA PathFacts ==
  /\ Path[1] = "created" /\ Path[2] = "invoiced" /\ Path[3] = "paid"
  /\ Path[4] = "on-hold" /\ Path[5] = "loaded" /\ Path[6] = "in-transit"
  /\ Path[7] = "delivered" /\ Path[8] = "closed"
BY DEF Path

\* How many events bring an order to each status.
LEMMA ProgressFacts ==
  /\ Progress(NoStatus) = 0 /\ Progress("created") = 1 /\ Progress("invoiced") = 2
  /\ Progress("paid") = 3 /\ Progress("on-hold") = 4 /\ Progress("loaded") = 5
  /\ Progress("in-transit") = 6 /\ Progress("delivered") = 7
  /\ Progress("closed") = 8 /\ Progress("cancelled") = 3
<1>1. \A k \in 1..8 : k = 1 \/ k = 2 \/ k = 3 \/ k = 4 \/ k = 5 \/ k = 6 \/ k = 7 \/ k = 8
  OBVIOUS
<1>2. \A j, k \in 1..8 : Path[j] = Path[k] => j = k
  BY <1>1, PathFacts
<1>3. ASSUME NEW k \in 1..8 PROVE (CHOOSE j \in 1..8 : Path[j] = Path[k]) = k
  BY <1>2
<1> QED
  BY <1>1, <1>3, PathFacts DEF Progress, NoStatus

\* Silver's table ranks the path in its order, cancellation aside.
LEMMA PathRank ==
  \A k \in 1..8 : /\ Path[k] \in OrderStatus /\ Path[k] # "cancelled"
                  /\ Path[k] # NoStatus
                  /\ OrderRank(Path[k]) = k - 1
<1>1. \A k \in 1..8 : k = 1 \/ k = 2 \/ k = 3 \/ k = 4 \/ k = 5 \/ k = 6 \/ k = 7 \/ k = 8
  OBVIOUS
<1> QED
  BY <1>1, PathFacts DEF OrderRank, OrderStatus, NoStatus

\* Appending one or two events to a topic keeps those that are there.
LEMMA TopicIndices ==
  ASSUME NEW S, NEW m \in Seq(S), NEW a \in S, NEW b \in S
  PROVE  /\ Len(m) \in Nat /\ DOMAIN m = 1..Len(m)
         /\ Len(m \o <<a>>) = Len(m) + 1
         /\ Len(Append(m, a)) = Len(m) + 1
         /\ Len(m \o <<a, b>>) = Len(m) + 2
         /\ \A k \in 1..Len(m) : /\ (m \o <<a>>)[k] = m[k]
                                 /\ Append(m, a)[k] = m[k]
                                 /\ (m \o <<a, b>>)[k] = m[k]
         /\ (m \o <<a>>)[Len(m) + 1] = a
         /\ Append(m, a)[Len(m) + 1] = a
         /\ (m \o <<a, b>>)[Len(m) + 1] = a
         /\ (m \o <<a, b>>)[Len(m) + 2] = b
OBVIOUS

\* Which statuses allow a change of status.
LEMMA MayFacts ==
  ASSUME TypeOK, NEW o \in Orders
  PROVE  /\ OrderMay(o, "paid") => status[o] = "invoiced"
         /\ OrderMay(o, "loaded") => status[o] = "on-hold"
         /\ OrderMay(o, "in-transit") => status[o] = "loaded"
         /\ OrderMay(o, "delivered") => status[o] = "in-transit"
BY DEF TypeOK, OrderMay, OrderTransitions, OrderStatus, NoStatus

-------------------------------------------------------------------------------
(* The topics.                                                             *)

\* The ways in which an order moves: from a status, sending these, to another.
Moves ==
  {<<NoStatus, <<"created">>, "created">>,
   <<"created", <<"invoiced">>, "invoiced">>,
   <<"invoiced", <<"paid", "on-hold">>, "on-hold">>,
   <<"invoiced", <<"cancelled">>, "cancelled">>,
   <<"on-hold", <<"loaded">>, "loaded">>,
   <<"loaded", <<"in-transit">>, "in-transit">>,
   <<"in-transit", <<"delivered", "closed">>, "closed">>}

\* Each of them sends the next events of the path, or ends it.
LEMMA OrderMoves ==
  ASSUME TypeOK, NEW o \in Orders, OrderSent(o),
         NEW to, NEW sent, <<status[o], sent, to>> \in Moves,
         status'[o] = to, poTopic'[o] = poTopic[o] \o sent, poSeen'[o] = poSeen[o]
  PROVE  OrderSent(o)'
<1> DEFINE m == poTopic[o]
           n == Progress(status[o])
<1>1. m \in Seq(OrderStatus) /\ Len(m) = n /\ poSeen[o] \in Nat
  BY DEF TypeOK, OrderSent
<1>2. \A k \in 1..n : m[k] = IF status[o] = "cancelled" /\ k = 3 THEN "cancelled"
                                                               ELSE Path[k]
  BY DEF OrderSent
<1>3. ASSUME NEW a \in OrderStatus, sent = <<a>>, n \in Nat, status[o] # "cancelled",
             Progress(to) = n + 1, to = "cancelled" => n = 2 /\ a = "cancelled",
             to # "cancelled" => a = Path[n + 1]
      PROVE  OrderSent(o)'
  <2>1. /\ Len(poTopic'[o]) = n + 1 /\ \A k \in 1..n : poTopic'[o][k] = m[k]
        /\ poTopic'[o][n + 1] = a
    BY <1>1, <1>3, TopicIndices
  <2>2. \A k \in 1..(n + 1) :
          poTopic'[o][k] = IF to = "cancelled" /\ k = 3 THEN "cancelled" ELSE Path[k]
    BY <1>2, <1>3, <2>1
  <2> HIDE DEF n
  <2> QED
    BY <1>1, <1>3, <2>1, <2>2 DEF OrderSent, n
<1>4. ASSUME NEW a \in OrderStatus, NEW b \in OrderStatus, sent = <<a, b>>, n \in Nat,
             status[o] # "cancelled", to # "cancelled",
             Progress(to) = n + 2, a = Path[n + 1], b = Path[n + 2]
      PROVE  OrderSent(o)'
  <2>1. /\ Len(poTopic'[o]) = n + 2 /\ \A k \in 1..n : poTopic'[o][k] = m[k]
        /\ poTopic'[o][n + 1] = a /\ poTopic'[o][n + 2] = b
    <3>1. poTopic'[o] = m \o <<a, b>>
      BY <1>4
    <3> HIDE DEF m, n
    <3>2. /\ Len(m \o <<a, b>>) = n + 2 /\ \A k \in 1..n : (m \o <<a, b>>)[k] = m[k]
          /\ (m \o <<a, b>>)[n + 1] = a /\ (m \o <<a, b>>)[n + 2] = b
      BY <1>1, <1>4, TopicIndices
    <3> QED
      BY <3>1, <3>2
  <2>2. \A k \in 1..(n + 2) : poTopic'[o][k] = Path[k]
    BY <1>2, <1>4, <2>1
  <2>3. poSeen[o] <= n
    BY DEF OrderSent
  <2> HIDE DEF n
  <2>4. poSeen'[o] <= n + 2 /\ n + 2 = Progress(status'[o])
    BY <1>1, <1>4, <2>3
  <2> QED
    BY <1>4, <2>1, <2>2, <2>4 DEF OrderSent
<1>5. \/ \E a \in OrderStatus :
           /\ sent = <<a>> /\ n \in Nat /\ status[o] # "cancelled"
           /\ Progress(to) = n + 1 /\ (to = "cancelled" => n = 2 /\ a = "cancelled")
           /\ (to # "cancelled" => a = Path[n + 1])
      \/ \E a \in OrderStatus, b \in OrderStatus :
           /\ sent = <<a, b>> /\ n \in Nat /\ status[o] # "cancelled"
           /\ to # "cancelled" /\ Progress(to) = n + 2
           /\ a = Path[n + 1] /\ b = Path[n + 2]
  <2>1. /\ status[o] = NoStatus => sent = <<"created">> /\ to = "created"
        /\ status[o] = "created" => sent = <<"invoiced">> /\ to = "invoiced"
        /\ status[o] = "invoiced" => \/ sent = <<"paid", "on-hold">> /\ to = "on-hold"
                                     \/ sent = <<"cancelled">> /\ to = "cancelled"
        /\ status[o] = "on-hold" => sent = <<"loaded">> /\ to = "loaded"
        /\ status[o] = "loaded" => sent = <<"in-transit">> /\ to = "in-transit"
        /\ status[o] = "in-transit" => sent = <<"delivered", "closed">> /\ to = "closed"
        /\ status[o] \in {NoStatus, "created", "invoiced", "on-hold", "loaded",
                          "in-transit"}
    BY DEF Moves, NoStatus
  <2> HIDE DEF m
  <2>2. CASE status[o] = NoStatus
    BY <2>1, <2>2, PathFacts, ProgressFacts DEF OrderStatus, NoStatus
  <2>3. CASE status[o] = "created"
    BY <2>1, <2>3, PathFacts, ProgressFacts DEF OrderStatus
  <2>4. CASE status[o] = "invoiced"
    BY <2>1, <2>4, PathFacts, ProgressFacts DEF OrderStatus
  <2>5. CASE status[o] = "on-hold"
    BY <2>1, <2>5, PathFacts, ProgressFacts DEF OrderStatus
  <2>6. CASE status[o] = "loaded"
    BY <2>1, <2>6, PathFacts, ProgressFacts DEF OrderStatus
  <2>7. CASE status[o] = "in-transit"
    BY <2>1, <2>7, PathFacts, ProgressFacts DEF OrderStatus
  <2> QED
    BY <2>1, <2>2, <2>3, <2>4, <2>5, <2>6, <2>7
<1> QED
  BY <1>3, <1>4, <1>5

\* The same for a set of orders that move together.
LEMMA OrdersMove ==
  ASSUME TypeOK, TopicsFollowStatus, NEW S, NEW sent, NEW to,
         \A o \in S : <<status[o], sent, to>> \in Moves,
         SetStatus(S, to), SendStatus(S, sent), UNCHANGED poSeen
  PROVE  \A o \in Orders : OrderSent(o)'
<1> TAKE o \in Orders
<1>1. OrderSent(o)
  BY DEF TopicsFollowStatus
<1>2. CASE o \in S
  <2>1. status'[o] = to /\ poTopic'[o] = poTopic[o] \o sent /\ poSeen'[o] = poSeen[o]
    BY <1>2 DEF SetStatus, SendStatus
  <2> QED
    BY <1>1, <1>2, <2>1, OrderMoves
<1>3. CASE o \notin S
  <2>1. status'[o] = status[o] /\ poTopic'[o] = poTopic[o] /\ poSeen'[o] = poSeen[o]
    BY <1>3 DEF SetStatus, SendStatus
  <2> QED
    BY <1>1, <2>1 DEF OrderSent
<1> QED
  BY <1>2, <1>3

\* Every step keeps the orders' topics in line.
LEMMA OrdersSentStep ==
  ASSUME IndInv, TopicsFollowStatus, [Next]_vars
  PROVE  \A o \in Orders : OrderSent(o)'
<1> USE DEF IndInv
<1>1. ASSUME NEW i \in Invoices, InvoiceSettles(i)
      PROVE  \A o \in Orders : OrderSent(o)'
  <2>1. CASE UNCHANGED <<status, poTopic, poSeen>>
    BY <2>1 DEF TopicsFollowStatus, OrderSent
  <2>2. CASE OrderMay(i[1], "paid") /\ MarkPaid(i[1])
    <3>1. <<status[i[1]], <<"paid", "on-hold">>, "on-hold">> \in Moves
      BY <2>2, MayFacts DEF Moves, Invoices
    <3> QED
      BY <1>1, <2>2, <3>1, OrdersMove DEF MarkPaid, InvoiceSettles, silverVars
  <2> QED
    BY <1>1, <2>1, <2>2 DEF InvoiceSettles, silverVars
<1>2. ASSUME NEW i \in Invoices, InvoiceCancels(i)
      PROVE  \A o \in Orders : OrderSent(o)'
  <2>1. status[i[1]] = "invoiced"
    BY <1>2, PendingInvoice DEF InvoiceCancels
  <2>2. <<status[i[1]], <<"cancelled">>, "cancelled">> \in Moves
    BY <2>1 DEF Moves
  <2> QED
    BY <1>2, <2>2, OrdersMove DEF InvoiceCancels, silverVars
<1>3. ASSUME NEW t \in Trucks, LoadOrder(t)
      PROVE  \A o \in Orders : OrderSent(o)'
  <2> DEFINE o == manifest[t][loadStep[t] + 1]
  <2>1. o \in Orders
    BY <1>3, ManifestFacts DEF LoadOrder
  <2>2. CASE UNCHANGED <<status, poTopic, poSeen>>
    BY <2>2 DEF TopicsFollowStatus, OrderSent
  <2>3. CASE OrderMay(o, "loaded") /\ SetStatus({o}, "loaded") /\ SendStatus({o}, <<"loaded">>)
    <3>1. <<status[o], <<"loaded">>, "loaded">> \in Moves
      BY <2>1, <2>3, MayFacts DEF Moves
    <3> QED
      BY <1>3, <2>3, <3>1, OrdersMove DEF LoadOrder, silverVars
  <2> QED
    BY <1>3, <2>2, <2>3 DEF LoadOrder, silverVars
<1>4. ASSUME NEW t \in Trucks, Depart(t)
      PROVE  \A o \in Orders : OrderSent(o)'
  <2> DEFINE Refuses(k) == ~OrderMay(manifest[t][k], "in-transit")
             gone == {manifest[t][k] : k \in {k \in DOMAIN manifest[t] :
                                                \A j \in 1..k : ~Refuses(j)}}
  <2>1. \A k \in DOMAIN manifest[t] : k \in 1..k /\ manifest[t][k] \in Orders
    BY ManifestFacts
  <2>2. \A o \in gone : <<status[o], <<"in-transit">>, "in-transit">> \in Moves
    BY <2>1, MayFacts DEF Moves
  <2>3. SetStatus(gone, "in-transit") /\ SendStatus(gone, <<"in-transit">>) /\ UNCHANGED poSeen
    BY <1>4 DEF Depart, silverVars
  <2> HIDE DEF gone
  <2> QED
    BY <2>2, <2>3, OrdersMove
<1>5. ASSUME NEW o \in Orders, NEW c, NEW z, NEW q, CreateOrder(o, c, z, q)
      PROVE  \A p \in Orders : OrderSent(p)'
  <2>1. <<status[o], <<"created">>, "created">> \in Moves
    BY <1>5 DEF CreateOrder, Moves
  <2> QED
    BY <1>5, <2>1, OrdersMove DEF CreateOrder, silverVars
<1>6. CASE ProcessPendingInvoices
  <2>1. \A o \in Invoiceable : <<status[o], <<"invoiced">>, "invoiced">> \in Moves
    BY DEF Invoiceable, Moves
  <2> QED
    BY <1>6, <2>1, OrdersMove DEF ProcessPendingInvoices, CreateInvoices, silverVars
<1>7. ASSUME NEW A \in SUBSET Trucks, TrucksTick(A)
      PROVE  \A o \in Orders : OrderSent(o)'
  <2> DEFINE delivered == {o \in UNION {Unloading(t) : t \in AtStop(A)} :
                             OrderMay(o, "delivered")}
  <2>1. \A o \in delivered : o \in Orders
    BY ManifestFacts DEF Unloading, AtStop
  <2>2. \A o \in delivered : <<status[o], <<"delivered", "closed">>, "closed">> \in Moves
    BY <2>1, MayFacts DEF Moves
  <2>3. /\ SetStatus(delivered, "closed") /\ SendStatus(delivered, <<"delivered", "closed">>)
        /\ UNCHANGED poSeen
    BY <1>7 DEF TrucksTick, silverVars
  <2> HIDE DEF delivered
  <2> QED
    BY <2>2, <2>3, OrdersMove
<1>8. ASSUME NEW o \in Orders, NEW n \in 1..Len(poTopic[o]), SilverOrders(o, n)
      PROVE  \A p \in Orders : OrderSent(p)'
  <2>1. UNCHANGED <<status, poTopic>>
    BY <1>8 DEF SilverOrders, orderVars, topicVars
  <2>2. n <= Progress(status[o])
    BY DEF TopicsFollowStatus, OrderSent
  <2>3. \A p \in Orders : poSeen'[p] = IF p = o THEN n ELSE poSeen[p]
    BY <1>8 DEF SilverOrders, TypeOK
  <2> QED
    BY <2>1, <2>2, <2>3 DEF TopicsFollowStatus, OrderSent
<1>9. CASE UNCHANGED <<status, poTopic, poSeen>>
  BY <1>9 DEF TopicsFollowStatus, OrderSent
<1>10. CASE \/ \E c \in Customers : VerifyAccount(c) \/ SilverCustomers(c)
            \/ \E i \in Invoices : InvoiceReminds(i)
            \/ EndSchedulerTick \/ CustomersTick \/ SkipOrder
            \/ DispatchNoTruck \/ SkipZone \/ CollectTerminal
            \/ \E z \in Zones : DispatchZone(z)
            \/ UNCHANGED vars
  BY <1>9, <1>10
     DEF VerifyAccount, SilverCustomers, InvoiceReminds, EndSchedulerTick, CustomersTick,
         SkipOrder, DispatchNoTruck, SkipZone, CollectTerminal, DispatchZone, vars,
         orderVars, topicVars, silverVars
<1> QED
  BY <1>1, <1>2, <1>3, <1>4, <1>5, <1>6, <1>7, <1>8, <1>10
     DEF Next, Callback, Step, Pipeline

\* Every step keeps the invoices' topics in line.
LEMMA InvoicesSentStep ==
  ASSUME IndInv, TopicsFollowStatus, [Next]_vars
  PROVE  \A i \in Invoices : InvoiceSent(i)'
<1> USE DEF IndInv
<1> DEFINE Events == InvoiceStatus \X (0..MaxReminders)
<1>t. \A i \in Invoices : /\ ivTopic[i] \in Seq(Events)
                          /\ paymentReminder[i] \in 0..MaxReminders
                          /\ paymentReminder[i] \in Nat
                          /\ InvoiceSent(i)
  BY BoundsAssumption DEF TypeOK, TopicsFollowStatus
\* An event of one invoice.
<1>1. ASSUME NEW i \in Invoices, NEW s \in {"pending", "settled", "cancelled"},
             NEW n \in 0..MaxReminders, istatus[i] = "pending",
             InvoiceEvent(i, s, n),
             IF s = "pending" THEN n = paymentReminder[i] + 1 ELSE n = paymentReminder[i],
             paymentReminder' = [paymentReminder EXCEPT ![i] = n],
             NEW j \in Invoices
      PROVE  InvoiceSent(j)'
  <2>1. CASE j # i
    <3>1. /\ istatus'[j] = istatus[j] /\ ivTopic'[j] = ivTopic[j]
          /\ paymentReminder'[j] = paymentReminder[j]
      BY <1>1, <2>1 DEF InvoiceEvent, TypeOK
    <3> QED
      BY <1>t, <3>1 DEF InvoiceSent
  <2>2. CASE j = i
    <3> DEFINE m == ivTopic[i]
               r == paymentReminder[i]
    <3>1. /\ istatus'[i] = s /\ ivTopic'[i] = Append(m, <<s, n>>)
          /\ paymentReminder'[i] = n
      BY <1>1 DEF InvoiceEvent, TypeOK
    <3>2. m \in Seq(Events) /\ r \in Nat /\ InvoiceSent(i)
      BY <1>t
    <3>3. Len(m) = 2 + r /\ \A k \in 1..(2 + r) : m[k] = InvoiceEventAt(k, "pending", r)
      BY <1>1, <3>2 DEF InvoiceSent, NoStatus
    <3>4. <<s, n>> \in Events
      BY DEF InvoiceStatus
    <3>5. n \in Nat /\ \/ s = "pending" /\ n = r + 1
                       \/ s \in {"settled", "cancelled"} /\ n = r
      BY <1>1, <3>2
    <3> HIDE DEF m, r, Events
    <3>6. /\ Len(Append(m, <<s, n>>)) = 3 + r
          /\ \A k \in 1..(2 + r) : Append(m, <<s, n>>)[k] = m[k]
          /\ Append(m, <<s, n>>)[3 + r] = <<s, n>>
      BY <3>2, <3>3, <3>4, TopicIndices
    <3>7. \A k \in 1..(2 + r) : InvoiceEventAt(k, s, n) = InvoiceEventAt(k, "pending", r)
      BY <3>2, <3>5 DEF InvoiceEventAt
    <3>8. InvoiceEventAt(3 + r, s, n) = <<s, n>>
      BY <3>2, <3>5 DEF InvoiceEventAt
    <3>9. /\ Len(ivTopic'[i]) = 3 + r
          /\ \A k \in 1..(3 + r) : ivTopic'[i][k] = InvoiceEventAt(k, s, n)
      <4>1. \A k \in 1..(3 + r) : k \in 1..(2 + r) \/ k = 3 + r
        BY <3>2
      <4> QED
        BY <3>1, <3>3, <3>6, <3>7, <3>8, <4>1
    <3> QED
      BY <2>2, <3>1, <3>2, <3>5, <3>9 DEF InvoiceSent, NoStatus
  <2> QED
    BY <2>1, <2>2
<1>2. ASSUME NEW i \in Invoices, InvoiceSettles(i) \/ InvoiceReminds(i) \/ InvoiceCancels(i)
      PROVE  \A j \in Invoices : InvoiceSent(j)'
  <2>1. CASE InvoiceReminds(i)
    <3>1. paymentReminder[i] + 1 \in 0..MaxReminders
      BY <1>t, <2>1, BoundsAssumption DEF InvoiceReminds
    <3>2. /\ istatus[i] = "pending" /\ InvoiceEvent(i, "pending", paymentReminder[i] + 1)
          /\ paymentReminder' = [paymentReminder EXCEPT ![i] = paymentReminder[i] + 1]
      BY <2>1 DEF InvoiceReminds
    <3> QED
      BY <1>1, <3>1, <3>2
  <2>2. ASSUME NEW s \in {"settled", "cancelled"}, InvoiceEvent(i, s, paymentReminder[i]),
               istatus[i] = "pending", UNCHANGED paymentReminder
        PROVE  \A j \in Invoices : InvoiceSent(j)'
    <3>1. paymentReminder' = [paymentReminder EXCEPT ![i] = paymentReminder[i]]
      BY <2>2 DEF TypeOK
    <3> QED
      BY <1>1, <1>t, <2>2, <3>1
  <2> QED
    BY <1>2, <2>1, <2>2 DEF InvoiceSettles, InvoiceCancels
<1>3. CASE ProcessPendingInvoices
  <2> DEFINE new == {NextInvoice(o) : o \in Invoiceable}
  <2>1. \A o \in Invoiceable : o \in Orders /\ status[o] = "created"
    BY DEF Invoiceable, TypeOK
  <2>2. \A o \in Invoiceable : NextInvoice(o) = <<o, 1>> /\ NextInvoice(o) \in Invoices
    BY <2>1, FirstInvoiceSlot
  <2>3. \A i \in new : i \in Invoices /\ istatus[i] = NoStatus
    <3>1. \A o \in Invoiceable : istatus[<<o, 1>>] = NoStatus
      BY <2>1, <2>2 DEF InvoiceShape
    <3> QED
      BY <2>2, <3>1
  <2>4. /\ \A i \in Invoices :
             /\ istatus'[i] = IF i \in new THEN "pending" ELSE istatus[i]
             /\ ivTopic'[i] = IF i \in new
                              THEN ivTopic[i] \o <<<<"created", 0>>, <<"pending", 0>>>>
                              ELSE ivTopic[i]
        /\ UNCHANGED paymentReminder
    BY <1>3 DEF ProcessPendingInvoices, CreateInvoices
  <2> HIDE DEF new
  <2>5. ASSUME NEW i \in Invoices, i \in new PROVE InvoiceSent(i)'
    <3>1. Len(ivTopic[i]) = 0 /\ paymentReminder[i] = 0
      BY <1>t, <2>3, <2>5 DEF InvoiceSent
    <3>2. <<"created", 0>> \in Events /\ <<"pending", 0>> \in Events
      BY BoundsAssumption DEF InvoiceStatus
    <3>3. /\ Len(ivTopic'[i]) = 2 /\ DOMAIN ivTopic'[i] = 1..2
          /\ ivTopic'[i][1] = <<"created", 0>> /\ ivTopic'[i][2] = <<"pending", 0>>
      <4> HIDE DEF Events
      <4>1. ivTopic'[i] = ivTopic[i] \o <<<<"created", 0>>, <<"pending", 0>>>>
        BY <2>4, <2>5
      <4>2. ivTopic'[i] \in Seq(Events)
        BY <1>t, <3>2, <4>1, TopicGrows
      <4>3. /\ Len(ivTopic'[i]) = 0 + 2
            /\ ivTopic'[i][0 + 1] = <<"created", 0>> /\ ivTopic'[i][0 + 2] = <<"pending", 0>>
        BY <1>t, <3>1, <3>2, <4>1, TopicIndices
      <4> QED
        BY <4>2, <4>3
    <3> QED
      BY <2>4, <2>5, <3>1, <3>3 DEF InvoiceSent, InvoiceEventAt, NoStatus
  <2>6. ASSUME NEW i \in Invoices, i \notin new PROVE InvoiceSent(i)'
    BY <1>t, <2>4, <2>6 DEF InvoiceSent
  <2> QED
    BY <2>5, <2>6
<1>4. CASE UNCHANGED <<istatus, ivTopic, paymentReminder>>
  BY <1>t, <1>4 DEF InvoiceSent
<1>5. \/ \E i \in Invoices : InvoiceSettles(i) \/ InvoiceReminds(i) \/ InvoiceCancels(i)
      \/ ProcessPendingInvoices
      \/ UNCHANGED <<istatus, ivTopic, paymentReminder>>
  BY DEF Next, Callback, Step, Pipeline, vars, VerifyAccount, LoadOrder, Depart,
         EndSchedulerTick, CustomersTick, CreateOrder, SkipOrder, DispatchNoTruck,
         SkipZone, DispatchZone, TrucksTick, CollectTerminal, SilverOrders,
         SilverCustomers, invoiceVars, topicVars
<1> QED
  BY <1>2, <1>3, <1>4, <1>5

\* The topics of an empty stack are empty.
LEMMA SentInit == Init => SentInv
<1> SUFFICES ASSUME Init PROVE SentInv
  OBVIOUS
<1>1. IndInv
  BY TypeInit, ShapeInit DEF IndInv, Shape
<1>2. \A o \in Orders : Progress(status[o]) = 0 /\ Len(poTopic[o]) = 0 /\ poSeen[o] = 0
  BY ProgressFacts DEF Init
<1>3. \A i \in Invoices : /\ istatus[i] = NoStatus /\ paymentReminder[i] = 0
                          /\ Len(ivTopic[i]) = 0
  BY DEF Init
<1>4. \A o \in Orders : OrderSent(o)
  BY <1>2 DEF OrderSent
<1>5. \A i \in Invoices : InvoiceSent(i)
  BY <1>3 DEF InvoiceSent, NoStatus
<1> QED
  BY <1>1, <1>4, <1>5 DEF SentInv, TopicsFollowStatus

\* The topics and the objects in memory stay in line.
THEOREM SentInvariance == Spec => []SentInv
<1>1. SentInv /\ [Next]_vars => SentInv'
  BY IndInvStep, OrdersSentStep, InvoicesSentStep DEF SentInv, TopicsFollowStatus
<1> QED
  BY <1>1, SentInit, PTL DEF Spec

\* Kafka holds each step on the way to the status of an order or an invoice, once.
THEOREM TopicsComplete == Spec => []TopicsFollowStatus
<1>1. SentInv => TopicsFollowStatus
  BY DEF SentInv
<1> QED
  BY <1>1, SentInvariance, PTL

-------------------------------------------------------------------------------
(* What silver makes of the topics.                                        *)

\* Of any two events of an order, silver accepts the second after the first.
LEMMA OrderHistoryAccepted ==
  ASSUME SentInv, NEW o \in Orders, NEW j \in DOMAIN poTopic[o],
         NEW k \in DOMAIN poTopic[o], j < k
  PROVE  SilverOrderValid(poTopic[o][j], poTopic[o][k])
<1>1. status[o] \in OrderStatus \cup {NoStatus} /\ poTopic[o] \in Seq(OrderStatus)
  BY DEF SentInv, IndInv, TypeOK
<1>2. Progress(status[o]) \in 0..8 /\ (status[o] = "cancelled" => Progress(status[o]) = 3)
  BY <1>1, ProgressFacts DEF OrderStatus
<1>3. /\ j \in 1..8 /\ k \in 1..8
      /\ j <= Progress(status[o]) /\ k <= Progress(status[o])
      /\ DOMAIN poTopic[o] = 1..Progress(status[o])
  BY <1>1, <1>2 DEF SentInv, TopicsFollowStatus, OrderSent
<1>4. \A n \in DOMAIN poTopic[o] :
        poTopic[o][n] = IF status[o] = "cancelled" /\ n = 3 THEN "cancelled" ELSE Path[n]
  BY <1>3 DEF SentInv, TopicsFollowStatus, OrderSent
<1>5. /\ Path[j] # "cancelled" /\ Path[j] # NoStatus /\ OrderRank(Path[j]) = j - 1
      /\ Path[k] # "cancelled" /\ OrderRank(Path[k]) = k - 1
  BY <1>3, PathRank
<1>6. CASE status[o] = "cancelled" /\ k = 3
  <2>1. poTopic[o][k] = "cancelled" /\ poTopic[o][j] = Path[j] /\ j - 1 <= 3
    BY <1>2, <1>3, <1>4, <1>6
  <2> QED
    BY <1>5, <2>1 DEF SilverOrderValid, OrderCancellableMaxRank
<1>7. CASE ~(status[o] = "cancelled" /\ k = 3)
  <2>1. poTopic[o][k] = Path[k] /\ poTopic[o][j] = Path[j] /\ j - 1 <= k - 1
    BY <1>2, <1>3, <1>4, <1>7
  <2> QED
    BY <1>5, <2>1 DEF SilverOrderValid
<1> QED
  BY <1>6, <1>7

\* Of any two events of an invoice too.
LEMMA InvoiceHistoryAccepted ==
  ASSUME SentInv, NEW i \in Invoices, NEW j \in DOMAIN ivTopic[i],
         NEW k \in DOMAIN ivTopic[i], j < k
  PROVE  SilverInvoiceValid(ivTopic[i][j][1], ivTopic[i][j][2],
                            ivTopic[i][k][1], ivTopic[i][k][2])
<1> DEFINE s == istatus[i]
           r == paymentReminder[i]
<1>1. /\ s \in InvoiceStatus \cup {NoStatus} /\ r \in Nat
      /\ ivTopic[i] \in Seq(InvoiceStatus \X (0..MaxReminders))
      /\ InvoiceSent(i)
  BY BoundsAssumption DEF SentInv, IndInv, TypeOK, TopicsFollowStatus
<1>2. DOMAIN ivTopic[i] = 1..Len(ivTopic[i]) /\ Len(ivTopic[i]) \in Nat
  BY <1>1
<1>3. s # NoStatus
  BY <1>1, <1>2 DEF InvoiceSent
<1>4. \/ s = "pending" /\ Len(ivTopic[i]) = 2 + r
      \/ s \in {"settled", "cancelled"} /\ Len(ivTopic[i]) = 3 + r
      \/ s = "created"
  BY <1>1, <1>3 DEF InvoiceSent, InvoiceStatus
<1>5. s # "created"
  <2>1. i[1] \in Orders
    BY DEF Invoices
  <2>2. status[i[1]] \in OrderStatus \cup {NoStatus}
    BY <2>1 DEF SentInv, IndInv, TypeOK
  <2>3. /\ status[i[1]] \in {NoStatus, "created"} => s = NoStatus
        /\ status[i[1]] = "invoiced" => s = "pending"
        /\ status[i[1]] \in Paid => s = "settled"
        /\ status[i[1]] = "cancelled" => s = "cancelled"
    BY <1>3 DEF SentInv, IndInv, InvoiceShape
  <2> QED
    BY <1>3, <2>2, <2>3 DEF OrderStatus, Paid, NoStatus
<1>6. /\ ivTopic[i][j] = InvoiceEventAt(j, s, r) /\ ivTopic[i][k] = InvoiceEventAt(k, s, r)
      /\ j \in Nat /\ k \in Nat /\ 1 <= j /\ j <= 2 + r /\ 2 <= k /\ k <= 3 + r
      /\ k = 3 + r => s \in {"settled", "cancelled"}
  <2>1. j \in 1..Len(ivTopic[i]) /\ k \in 1..Len(ivTopic[i])
    BY <1>2
  <2>2. ivTopic[i][j] = InvoiceEventAt(j, s, r) /\ ivTopic[i][k] = InvoiceEventAt(k, s, r)
    BY <1>1, <2>1 DEF InvoiceSent
  <2> DEFINE n == Len(ivTopic[i])
  <2>3. /\ \/ n = 2 + r /\ s = "pending"
           \/ n = 3 + r /\ s \in {"settled", "cancelled"}
        /\ n \in Nat /\ r \in Nat /\ j \in 1..n /\ k \in 1..n /\ j < k
    BY <1>1, <1>2, <1>4, <1>5, <2>1
  <2> HIDE DEF s, r, n
  <2>4. /\ j \in Nat /\ k \in Nat /\ 1 <= j /\ j <= 2 + r /\ 2 <= k /\ k <= 3 + r
        /\ k = 3 + r => n = 3 + r
    BY <2>3
  <2>5. n = 3 + r => s \in {"settled", "cancelled"}
    BY <2>3
  <2> QED
    BY <2>2, <2>4, <2>5
<1> HIDE DEF s, r
<1>7. \/ j = 1 /\ InvoiceEventAt(j, s, r) = <<"created", 0>>
      \/ j >= 2 /\ InvoiceEventAt(j, s, r) = <<"pending", j - 2>>
  BY <1>1, <1>6 DEF InvoiceEventAt
<1>8. \/ k <= 2 + r /\ InvoiceEventAt(k, s, r) = <<"pending", k - 2>>
      \/ k = 3 + r /\ InvoiceEventAt(k, s, r) = <<s, r>>
  BY <1>1, <1>6 DEF InvoiceEventAt
<1>9. /\ \/ ivTopic[i][j][1] = "created" /\ ivTopic[i][j][2] = 0
         \/ ivTopic[i][j][1] = "pending" /\ ivTopic[i][j][2] = j - 2 /\ j >= 2
      /\ \/ ivTopic[i][k][1] = "pending" /\ ivTopic[i][k][2] = k - 2
         \/ ivTopic[i][k][1] \in {"settled", "cancelled"} /\ ivTopic[i][k][2] = r
  BY <1>6, <1>7, <1>8
<1>10. /\ ivTopic[i][j][2] <= ivTopic[i][k][2]
       /\ ivTopic[i][j][1] \in {"created", "pending"}
       /\ ivTopic[i][k][1] \in {"pending", "settled", "cancelled"}
  BY <1>1, <1>6, <1>9
<1> QED
  BY <1>10 DEF SilverInvoiceValid, InvoiceRank, InvoiceCancellableMaxRank, NoStatus

\* However the topics are cut into batches, and whatever a batch lacks, silver's own
\* status machines accept the order in which the generator sends its events.
THEOREM SilverAccepts == Spec => []SilverAcceptsHistory
<1>1. SentInv => SilverAcceptsHistory
  BY OrderHistoryAccepted, InvoiceHistoryAccepted DEF SilverAcceptsHistory
<1> QED
  BY <1>1, SentInvariance, PTL

-------------------------------------------------------------------------------
(* Orphan avoidance.                                                       *)

\* Silver shows an order when it has seen an event of it, and its payment when it
\* has seen three.
LEMMA SeenStatus ==
  ASSUME SentInv, NEW o \in Orders
  PROVE  /\ OrderInSilver(o) <=> poSeen[o] > 0
         /\ poSeen[o] \in Nat /\ poSeen[o] <= Len(poTopic[o])
         /\ PaidInSilver(o) <=> poSeen[o] >= 3
<1>1. status[o] \in OrderStatus \cup {NoStatus} /\ poSeen[o] \in Nat
  BY DEF SentInv, IndInv, TypeOK
<1>2. Progress(status[o]) \in 0..8
  BY <1>1, ProgressFacts DEF OrderStatus
<1>3. poSeen[o] <= Progress(status[o]) /\ Len(poTopic[o]) = Progress(status[o])
  BY DEF SentInv, TopicsFollowStatus, OrderSent
<1>4. CASE poSeen[o] = 0
  BY <1>3, <1>4, <1>2 DEF OrderInSilver, PaidInSilver, SilverStatus
<1>5. CASE poSeen[o] # 0
  <2>1. poSeen[o] \in 1..8 /\ poSeen[o] \in 1..Progress(status[o])
    BY <1>1, <1>2, <1>3, <1>5
  <2>2. SilverStatus(o) =
          IF status[o] = "cancelled" /\ poSeen[o] = 3 THEN "cancelled" ELSE Path[poSeen[o]]
    BY <1>5, <2>1 DEF SilverStatus, SentInv, TopicsFollowStatus, OrderSent
  <2>3. \A k \in 1..8 : /\ Path[k] # NoStatus
                        /\ Path[k] \in {"created", "invoiced"} <=> k < 3
    <3>1. \A k \in 1..8 : k = 1 \/ k = 2 \/ k = 3 \/ k = 4 \/ k = 5 \/ k = 6 \/ k = 7 \/ k = 8
      OBVIOUS
    <3> QED
      BY <3>1, PathFacts DEF NoStatus
  <2> QED
    BY <1>1, <1>3, <1>5, <2>1, <2>2, <2>3 DEF OrderInSilver, PaidInSilver, NoStatus
<1> QED
  BY <1>4, <1>5

\* The same of all orders, and which topics are empty.
SeenAsSent ==
  /\ \A o \in Orders : /\ OrderInSilver(o) <=> poSeen[o] > 0
                       /\ PaidInSilver(o) <=> poSeen[o] >= 3
                       /\ poTopic[o] # << >> <=> status[o] # NoStatus
                       /\ poSeen[o] \in Nat
  /\ \A i \in Invoices : ivTopic[i] # << >> <=> istatus[i] # NoStatus

\* These facts hold of a state and of the next one.
LEMMA SentFacts == SentInv => SeenAsSent
<1> SUFFICES ASSUME SentInv
             PROVE  /\ \A o \in Orders : poTopic[o] # << >> <=> status[o] # NoStatus
                    /\ \A i \in Invoices : ivTopic[i] # << >> <=> istatus[i] # NoStatus
  BY SeenStatus DEF SeenAsSent
<1>1. ASSUME NEW o \in Orders PROVE poTopic[o] # << >> <=> status[o] # NoStatus
  <2>1. status[o] \in OrderStatus \cup {NoStatus} /\ poTopic[o] \in Seq(OrderStatus)
    BY DEF SentInv, IndInv, TypeOK
  <2>2. Len(poTopic[o]) = Progress(status[o])
    BY DEF SentInv, TopicsFollowStatus, OrderSent
  <2>3. Progress(status[o]) = 0 <=> status[o] = NoStatus
    BY <2>1, ProgressFacts DEF OrderStatus, NoStatus
  <2> QED
    BY <2>1, <2>2, <2>3
<1>2. ASSUME NEW i \in Invoices PROVE ivTopic[i] # << >> <=> istatus[i] # NoStatus
  <2>1. /\ ivTopic[i] \in Seq(InvoiceStatus \X (0..MaxReminders))
        /\ paymentReminder[i] \in Nat
    BY BoundsAssumption DEF SentInv, IndInv, TypeOK
  <2>2. istatus[i] = NoStatus <=> Len(ivTopic[i]) = 0
    BY <2>1 DEF SentInv, TopicsFollowStatus, InvoiceSent
  <2> QED
    BY <2>1, <2>2
<1> QED
  BY <1>1, <1>2

\* Silver and its view of an order only move forward.
LEMMA SeenGrows ==
  ASSUME IndInv, [Next]_vars
  PROVE  /\ \A o \in Orders : poSeen[o] <= poSeen'[o]
         /\ customersSeen \subseteq customersSeen'
<1>1. poSeen \in [Orders -> Nat]
  BY DEF IndInv, TypeOK
<1>2. ASSUME NEW o \in Orders, NEW n \in 1..Len(poTopic[o]), SilverOrders(o, n)
      PROVE  /\ \A p \in Orders : poSeen[p] <= poSeen'[p]
             /\ customersSeen \subseteq customersSeen'
  BY <1>1, <1>2 DEF SilverOrders
<1>3. CASE UNCHANGED poSeen /\ customersSeen \subseteq customersSeen'
  BY <1>1, <1>3
<1>4. \/ \E o \in Orders : \E n \in 1..Len(poTopic[o]) : SilverOrders(o, n)
      \/ UNCHANGED poSeen /\ customersSeen \subseteq customersSeen'
  BY DEF Next, Callback, Step, Pipeline, vars, VerifyAccount, InvoiceSettles,
         InvoiceReminds, InvoiceCancels, LoadOrder, Depart, EndSchedulerTick,
         CustomersTick, CreateOrder, SkipOrder, ProcessPendingInvoices,
         DispatchNoTruck, SkipZone, DispatchZone, TrucksTick, CollectTerminal,
         SilverCustomers, silverVars
<1> QED
  BY <1>2, <1>3, <1>4

\* An order gets its first status when it is placed.
LEMMA OnlyCreated ==
  ASSUME IndInv, [Next]_vars, NEW o \in Orders, status[o] = NoStatus,
         ~ \E c \in Customers, z \in Zones, q \in Quantities : CreateOrder(o, c, z, q)
  PROVE  status'[o] = NoStatus
<1> USE DEF IndInv
<1>1. \A S, s : (\A p \in S : status[p] # NoStatus) /\ SetStatus(S, s) => status'[o] = NoStatus
  BY DEF SetStatus
<1>2. ASSUME NEW i \in Invoices, InvoiceSettles(i) \/ InvoiceCancels(i)
      PROVE  status'[o] = NoStatus
  <2>1. \A p \in {i[1]} : status[p] # NoStatus
    BY <1>2, PendingInvoice DEF InvoiceSettles, InvoiceCancels, NoStatus
  <2>2. \/ UNCHANGED status
        \/ SetStatus({i[1]}, "on-hold")
        \/ SetStatus({p \in {i[1]} : OrderMay(p, "cancelled")}, "cancelled")
    BY <1>2 DEF InvoiceSettles, InvoiceCancels, MarkPaid
  <2> QED
    BY <1>1, <2>1, <2>2
<1>3. ASSUME NEW t \in Trucks, LoadOrder(t) PROVE status'[o] = NoStatus
  <2> DEFINE p == manifest[t][loadStep[t] + 1]
  <2>1. p \in Orders
    BY <1>3, ManifestFacts DEF LoadOrder
  <2>2. \/ UNCHANGED status
        \/ OrderMay(p, "loaded") /\ SetStatus({p}, "loaded")
    BY <1>3 DEF LoadOrder
  <2>3. OrderMay(p, "loaded") => \A q \in {p} : status[q] # NoStatus
    BY <2>1, MayFacts DEF NoStatus
  <2> HIDE DEF p
  <2> QED
    BY <1>1, <2>2, <2>3
<1>4. ASSUME NEW t \in Trucks, Depart(t) PROVE status'[o] = NoStatus
  <2> DEFINE Refuses(k) == ~OrderMay(manifest[t][k], "in-transit")
             gone == {manifest[t][k] : k \in {k \in DOMAIN manifest[t] :
                                                \A j \in 1..k : ~Refuses(j)}}
  <2>1. \A k \in DOMAIN manifest[t] : k \in 1..k /\ manifest[t][k] \in Orders
    BY ManifestFacts
  <2>2. \A p \in gone : status[p] # NoStatus
    BY <2>1, MayFacts DEF NoStatus
  <2>3. SetStatus(gone, "in-transit")
    BY <1>4 DEF Depart
  <2> HIDE DEF gone
  <2> QED
    BY <1>1, <2>2, <2>3
<1>5. ASSUME NEW A \in SUBSET Trucks, TrucksTick(A) PROVE status'[o] = NoStatus
  <2> DEFINE delivered == {p \in UNION {Unloading(t) : t \in AtStop(A)} :
                             OrderMay(p, "delivered")}
  <2>1. \A p \in delivered : p \in Orders
    BY ManifestFacts DEF Unloading, AtStop
  <2>2. \A p \in delivered : status[p] # NoStatus
    BY <2>1, MayFacts DEF NoStatus
  <2>3. SetStatus(delivered, "closed")
    BY <1>5 DEF TrucksTick
  <2> HIDE DEF delivered
  <2> QED
    BY <1>1, <2>2, <2>3
<1>6. CASE ProcessPendingInvoices
  <2>1. \A p \in Invoiceable : status[p] # NoStatus
    BY DEF Invoiceable, NoStatus
  <2> QED
    BY <1>1, <1>6, <2>1 DEF ProcessPendingInvoices, CreateInvoices
<1>7. ASSUME NEW p \in Orders, NEW c \in Customers, NEW z \in Zones, NEW q \in Quantities,
             CreateOrder(p, c, z, q)
      PROVE  status'[o] = NoStatus
  <2>1. p # o
    BY <1>7
  <2> QED
    BY <1>7, <2>1 DEF CreateOrder, SetStatus
<1>8. CASE UNCHANGED status
  BY <1>8
<1>9. \/ \E i \in Invoices : InvoiceSettles(i) \/ InvoiceCancels(i)
      \/ \E t \in Trucks : LoadOrder(t) \/ Depart(t)
      \/ \E A \in SUBSET Trucks : TrucksTick(A)
      \/ ProcessPendingInvoices
      \/ \E p \in Orders, c \in Customers, z \in Zones, q \in Quantities :
           CreateOrder(p, c, z, q)
      \/ UNCHANGED status
  BY DEF Next, Callback, Step, Pipeline, vars, VerifyAccount, InvoiceReminds,
         EndSchedulerTick, CustomersTick, SkipOrder, DispatchNoTruck, SkipZone,
         DispatchZone, CollectTerminal, SilverOrders, SilverCustomers, orderVars
<1> QED
  BY <1>2, <1>3, <1>4, <1>5, <1>6, <1>7, <1>9

ParentsInv == SentInv /\ ParentsConfirmed

\* Every step sends what refers to a row of silver only when the row is there.
LEMMA ParentsStep == ParentsInv /\ [Next]_vars => ParentsInv'
<1> SUFFICES ASSUME ParentsInv, [Next]_vars PROVE ParentsInv'
  OBVIOUS
<1>1. SentInv /\ IndInv
  BY DEF ParentsInv, SentInv
<1>2. SentInv'
  BY <1>1, IndInvStep, OrdersSentStep, InvoicesSentStep DEF SentInv, TopicsFollowStatus
<1>3. SeenAsSent
  BY <1>1, SentFacts
<1>4. SeenAsSent'
  <2>1. SentInv' => SeenAsSent'
    BY SentFacts, PTL
  <2> QED
    BY <1>2, <2>1
<1>5. /\ \A o \in Orders : poSeen[o] <= poSeen'[o]
      /\ customersSeen \subseteq customersSeen'
  BY <1>1, SeenGrows
\* The order of an invoice.
<1>6. ASSUME NEW i \in Invoices, ivTopic'[i] # << >> PROVE OrderInSilver(i[1])'
  <2>1. i[1] \in Orders
    BY DEF Invoices
  <2>2. CASE istatus[i] # NoStatus
    BY <1>3, <1>4, <1>5, <2>1, <2>2 DEF ParentsInv, ParentsConfirmed, SeenAsSent
  <2>3. CASE istatus[i] = NoStatus
    <3>1. istatus'[i] # istatus[i]
      BY <1>4, <1>6, <2>3 DEF SeenAsSent
    <3>2. \A j \in Invoices : \A s, n :
            istatus[j] = "pending" /\ InvoiceEvent(j, s, n) => istatus'[i] = istatus[i]
      BY <1>1, <2>3 DEF InvoiceEvent, IndInv, TypeOK, NoStatus
    <3>3. ProcessPendingInvoices
      BY <3>1, <3>2
         DEF Next, Callback, Step, Pipeline, vars, VerifyAccount, InvoiceSettles,
             InvoiceReminds, InvoiceCancels, LoadOrder, Depart, EndSchedulerTick,
             CustomersTick, CreateOrder, SkipOrder, DispatchNoTruck, SkipZone,
             DispatchZone, TrucksTick, CollectTerminal, SilverOrders, SilverCustomers,
             invoiceVars
    <3>4. PICK o \in Invoiceable : i = NextInvoice(o)
      BY <3>1, <3>3 DEF ProcessPendingInvoices, CreateInvoices
    <3>5. o \in Orders /\ OrderInSilver(o) /\ i[1] = o
      BY <1>1, <3>4, FirstInvoiceSlot DEF Invoiceable, IndInv, TypeOK
    <3> QED
      BY <1>3, <1>4, <1>5, <3>5 DEF SeenAsSent
  <2> QED
    BY <2>2, <2>3
\* The payment of an order on a truck.
<1>7. ASSUME NEW t \in Trucks, NEW o \in Aboard(t)' PROVE PaidInSilver(o)'
  <2>1. \A u \in Trucks : Aboard(u) \subseteq Orders
    BY <1>1, ManifestFacts
  <2>2. \A p \in Orders : PaidInSilver(p) => PaidInSilver(p)'
    BY <1>3, <1>4, <1>5 DEF SeenAsSent
  <2>3. CASE o \in Aboard(t)
    BY <2>1, <2>2, <2>3 DEF ParentsInv, ParentsConfirmed
  <2>4. CASE o \notin Aboard(t)
    <3>1. manifest'[t] # manifest[t]
      BY <2>4 DEF Aboard
    <3>2. ASSUME NEW A \in SUBSET Trucks, TrucksTick(A) PROVE FALSE
      <4>1. manifest'[t] = << >>
        BY <3>1, <3>2 DEF TrucksTick
      <4> QED
        BY <4>1 DEF Aboard, Range
    <3>3. PICK z \in Zones : DispatchZone(z)
      BY <3>1, <3>2
         DEF Next, Callback, Step, Pipeline, vars, VerifyAccount, InvoiceSettles,
             InvoiceReminds, InvoiceCancels, LoadOrder, Depart, EndSchedulerTick,
             CustomersTick, CreateOrder, SkipOrder, ProcessPendingInvoices,
             DispatchNoTruck, SkipZone, CollectTerminal, SilverOrders, SilverCustomers,
             truckVars
    <3>4. PICK m \in Batches(Queue(z)) : manifest'[t] = m
      BY <1>1, <3>1, <3>3 DEF DispatchZone, IndInv, TypeOK
    <3>5. o \in Queue(z) /\ o \in Orders
      BY <1>1, <3>4, QueueTyped, BatchTyped DEF Aboard, IndInv
    <3> QED
      BY <2>2, <3>5 DEF Queue
  <2> QED
    BY <2>3, <2>4
\* The customer of an order.
<1>8. ASSUME NEW o \in Orders, poTopic'[o] # << >> PROVE owner'[o] \in customersSeen'
  <2>1. status'[o] # NoStatus
    BY <1>4, <1>8 DEF SeenAsSent
  <2>2. ASSUME NEW c \in Customers, NEW z, NEW q, CreateOrder(o, c, z, q)
        PROVE  owner'[o] \in customersSeen'
    BY <1>1, <1>5, <2>2 DEF CreateOrder, IndInv, TypeOK
  <2>3. CASE ~ \E c \in Customers, z \in Zones, q \in Quantities : CreateOrder(o, c, z, q)
    <3>1. status[o] # NoStatus
      BY <1>1, <2>1, <2>3, OnlyCreated
    <3>2. ASSUME NEW p \in Orders, NEW c \in Customers, NEW z \in Zones,
                 NEW q \in Quantities, CreateOrder(p, c, z, q)
          PROVE  owner'[o] = owner[o]
      <4>1. p # o
        BY <2>3, <3>2
      <4> QED
        BY <1>1, <3>2, <4>1 DEF CreateOrder, IndInv, TypeOK
    <3>3. \/ \E p \in Orders, c \in Customers, z \in Zones, q \in Quantities :
               CreateOrder(p, c, z, q)
          \/ UNCHANGED owner
      BY DEF Next, Callback, Step, Pipeline, vars, VerifyAccount, InvoiceSettles,
             InvoiceReminds, InvoiceCancels, LoadOrder, Depart, EndSchedulerTick,
             CustomersTick, SkipOrder, ProcessPendingInvoices, DispatchNoTruck,
             SkipZone, DispatchZone, TrucksTick, CollectTerminal, SilverOrders,
             SilverCustomers, orderVars
    <3>4. owner'[o] = owner[o]
      BY <3>2, <3>3
    <3> QED
      BY <1>3, <1>5, <3>1, <3>4 DEF ParentsInv, ParentsConfirmed, SeenAsSent
  <2> QED
    BY <2>2, <2>3
<1> QED
  BY <1>2, <1>6, <1>7, <1>8 DEF ParentsInv, ParentsConfirmed

\* No invoice is sent before silver has its order, no order loaded before silver has
\* its payment, and no order sent before silver has its customer, whatever the lag:
\* the generator's reads of silver are behind the topics it has filled, never ahead.
THEOREM ParentsAlwaysConfirmed == Spec => []ParentsConfirmed
<1>1. Init => ParentsInv
  <2> SUFFICES ASSUME Init PROVE ParentsInv
    OBVIOUS
  <2>1. /\ \A i \in Invoices : ivTopic[i] = << >>
        /\ \A o \in Orders : poTopic[o] = << >>
    BY DEF Init
  <2>2. \A t \in Trucks : Aboard(t) = {}
    BY DEF Init, Aboard, Range
  <2> QED
    BY <2>1, <2>2, SentInit DEF ParentsInv, ParentsConfirmed
<1>2. ParentsInv => ParentsConfirmed
  BY DEF ParentsInv
<1> QED
  BY <1>1, <1>2, ParentsStep, PTL DEF Spec

-------------------------------------------------------------------------------
(* The abstract specification.                                             *)

\* Where an order stands follows from its status and the dispatcher's flag.
StageFacts ==
  \A o \in Orders :
    /\ status[o] = NoStatus => Stage[o] = "absent"
    /\ status[o] \in {"created", "invoiced"} => Stage[o] = "open"
    /\ status[o] = "cancelled" => Stage[o] = "void"
    /\ status[o] = "closed" => Stage[o] = "done"
    /\ status[o] = "on-hold" /\ o \notin claimed => Stage[o] = "ready"
    /\ status[o] = "on-hold" /\ o \in claimed => Stage[o] = "shipping"
    /\ status[o] \in {"loaded", "in-transit"} => Stage[o] = "shipping"

\* These facts hold of a state and of the next one.
LEMMA StageOfStatus == TypeOK => StageFacts
BY DEF StageFacts, Stage, NoStatus

\* Orders that change neither status nor flag stay where they are.
LEMMA StageKept ==
  ASSUME NEW o \in Orders, status'[o] = status[o], o \in claimed' <=> o \in claimed
  PROVE  Stage'[o] = Stage[o]
BY DEF Stage

\* A move of some orders, with nothing else to be seen, is one of the specification.
LEMMA StageMove ==
  ASSUME NEW S \in SUBSET Orders, NEW from, NEW to,
         \A o \in S : Stage[o] = from /\ Stage'[o] = to,
         \A o \in Orders \ S : Stage'[o] = Stage[o]
  PROVE  Abstract!Move(S, from, to)
<1>1. Stage' = [o \in Orders |-> Stage'[o]]
  BY DEF Stage
<1> QED
  BY <1>1 DEF Abstract!Move

\* Each step is one of the abstract specification or changes nothing in it.
LEMMA FulfilmentStep ==
  ASSUME IndInv, IndInv', [Next]_vars
  PROVE  [Abstract!AbstractNext]_(Abstract!abstractVars)
<1> USE DEF IndInv
<1>1. StageFacts /\ StageFacts'
  <2>1. TypeOK' => StageFacts'
    BY StageOfStatus, PTL
  <2> QED
    BY <2>1, StageOfStatus
<1>2. /\ UNCHANGED <<status, claimed>> => UNCHANGED Stage
      /\ UNCHANGED manifest => UNCHANGED Load
  BY DEF Stage, Load, Aboard
\* Steps that only change where orders stand.
<1>3. ASSUME NEW S \in SUBSET Orders, NEW s, SetStatus(S, s), UNCHANGED <<claimed, manifest>>,
             \A o \in S : Stage[o] = Stage'[o]
      PROVE  UNCHANGED Abstract!abstractVars
  <2>1. \A o \in Orders \ S : Stage'[o] = Stage[o]
    BY <1>3, StageKept DEF SetStatus
  <2>2. Stage = [o \in Orders |-> Stage[o]] /\ Stage' = [o \in Orders |-> Stage'[o]]
    BY DEF Stage
  <2>3. UNCHANGED Stage
    BY <1>3, <2>1, <2>2
  <2> QED
    BY <1>2, <1>3, <2>3 DEF Abstract!abstractVars
<1>4. ASSUME NEW o \in Orders, NEW s, SetStatus({o}, s), UNCHANGED <<claimed, manifest>>,
             \/ Stage[o] = "absent" /\ Stage'[o] = "open"
             \/ Stage[o] = "open" /\ Stage'[o] = "ready"
             \/ Stage[o] = "open" /\ Stage'[o] = "void"
      PROVE  Abstract!AbstractNext
  <2>1. \A p \in Orders \ {o} : Stage'[p] = Stage[p]
    BY <1>4, StageKept DEF SetStatus
  <2>2. UNCHANGED Load
    BY <1>2, <1>4
  <2>3. Abstract!Place(o) \/ Abstract!Pay(o) \/ Abstract!Void(o)
    BY <1>4, <2>1, <2>2, StageMove DEF Abstract!Place, Abstract!Pay, Abstract!Void
  <2> QED
    BY <2>3 DEF Abstract!AbstractNext
<1>5. ASSUME NEW i \in Invoices, InvoiceSettles(i) \/ InvoiceCancels(i)
      PROVE  Abstract!AbstractNext \/ UNCHANGED Abstract!abstractVars
  <2>1. /\ i[1] \in Orders /\ status[i[1]] = "invoiced" /\ i[1] \notin claimed
        /\ UNCHANGED <<claimed, manifest>>
    BY <1>5, PendingInvoice DEF InvoiceSettles, InvoiceCancels, truckVars
  <2>2. CASE UNCHANGED status
    BY <1>2, <2>1, <2>2 DEF Abstract!abstractVars
  <2>3. CASE SetStatus({i[1]}, "on-hold")
    <3>1. status'[i[1]] = "on-hold"
      BY <2>1, <2>3 DEF SetStatus
    <3>2. Stage[i[1]] = "open" /\ Stage'[i[1]] = "ready"
      BY <1>1, <2>1, <3>1 DEF StageFacts
    <3> QED
      BY <1>4, <2>1, <2>3, <3>2
  <2>4. CASE SetStatus({i[1]}, "cancelled")
    <3>1. status'[i[1]] = "cancelled"
      BY <2>1, <2>4 DEF SetStatus
    <3>2. Stage[i[1]] = "open" /\ Stage'[i[1]] = "void"
      BY <1>1, <2>1, <3>1 DEF StageFacts
    <3> QED
      BY <1>4, <2>1, <2>4, <3>2
  <2>5. OrderMay(i[1], "cancelled")
    BY <2>1 DEF OrderMay, OrderTransitions, OrderStatus, NoStatus
  <2>6. {o \in {i[1]} : OrderMay(o, "cancelled")} = {i[1]}
    BY <2>5
  <2> QED
    BY <1>5, <2>2, <2>3, <2>4, <2>6 DEF InvoiceSettles, InvoiceCancels, MarkPaid
<1>6. ASSUME NEW t \in Trucks, LoadOrder(t) PROVE UNCHANGED Abstract!abstractVars
  <2> DEFINE o == manifest[t][loadStep[t] + 1]
  <2>1. o \in Aboard(t) /\ o \in Orders /\ o \in claimed
    BY <1>6, ManifestFacts DEF LoadOrder, TruckShape, RunShape
  <2>2. UNCHANGED <<claimed, manifest>>
    BY <1>6 DEF LoadOrder
  <2>3. CASE UNCHANGED status
    BY <1>2, <2>2, <2>3 DEF Abstract!abstractVars
  <2>4. CASE OrderMay(o, "loaded") /\ SetStatus({o}, "loaded")
    <3>1. status[o] = "on-hold" /\ status'[o] = "loaded"
      BY <2>1, <2>4, MayFacts DEF SetStatus
    <3>2. Stage[o] = "shipping" /\ Stage'[o] = "shipping"
      BY <1>1, <2>1, <3>1 DEF StageFacts
    <3> QED
      BY <1>3, <2>1, <2>2, <2>4, <3>2
  <2> QED
    BY <1>6, <2>3, <2>4 DEF LoadOrder
<1>7. ASSUME NEW t \in Trucks, Depart(t) PROVE UNCHANGED Abstract!abstractVars
  <2> DEFINE Refuses(k) == ~OrderMay(manifest[t][k], "in-transit")
             gone == {manifest[t][k] : k \in {k \in DOMAIN manifest[t] :
                                                \A j \in 1..k : ~Refuses(j)}}
  <2>1. \A k \in DOMAIN manifest[t] : k \in 1..k /\ manifest[t][k] \in Orders
    BY ManifestFacts
  <2>2. \A o \in gone : o \in Orders /\ status[o] = "loaded"
    BY <2>1, MayFacts
  <2>3. SetStatus(gone, "in-transit") /\ UNCHANGED <<claimed, manifest>>
    BY <1>7 DEF Depart
  <2> HIDE DEF gone
  <2>4. \A o \in gone : status'[o] = "in-transit"
    BY <2>2, <2>3 DEF SetStatus
  <2>5. \A o \in gone : Stage[o] = "shipping" /\ Stage'[o] = "shipping"
    BY <1>1, <2>2, <2>4 DEF StageFacts
  <2> QED
    BY <1>3, <2>2, <2>3, <2>5
<1>8. ASSUME NEW o \in Orders, NEW c, NEW z, NEW q, CreateOrder(o, c, z, q)
      PROVE  Abstract!AbstractNext
  <2>1. /\ status[o] = NoStatus /\ SetStatus({o}, "created")
        /\ UNCHANGED <<claimed, manifest>>
    BY <1>8 DEF CreateOrder, truckVars
  <2>2. status'[o] = "created"
    BY <2>1 DEF SetStatus
  <2>3. Stage[o] = "absent" /\ Stage'[o] = "open"
    BY <1>1, <2>1, <2>2 DEF StageFacts
  <2> QED
    BY <1>4, <2>1, <2>3
<1>9. CASE ProcessPendingInvoices
  <2>1. /\ Invoiceable \in SUBSET Orders /\ SetStatus(Invoiceable, "invoiced")
        /\ UNCHANGED <<claimed, manifest>>
        /\ \A o \in Invoiceable : status[o] = "created"
    BY <1>9 DEF ProcessPendingInvoices, CreateInvoices, Invoiceable, truckVars, TypeOK
  <2>2. \A o \in Invoiceable : status'[o] = "invoiced"
    BY <2>1 DEF SetStatus
  <2>3. \A o \in Invoiceable : Stage[o] = "open" /\ Stage'[o] = "open"
    BY <1>1, <2>1, <2>2 DEF StageFacts
  <2> QED
    BY <1>3, <2>1, <2>3
<1>10. ASSUME NEW z \in Zones, DispatchZone(z) PROVE Abstract!AbstractNext
  <2>1. PICK t \in freeTrucks, m \in Batches(Queue(z)) :
          /\ claimed' = claimed \cup Range(m)
          /\ manifest' = [manifest EXCEPT ![t] = m]
    BY <1>10 DEF DispatchZone
  <2>2. UNCHANGED status
    BY <1>10 DEF DispatchZone
  <2>3. /\ m \in Seq(Orders) /\ m # << >> /\ Range(m) \subseteq Queue(z)
        /\ Range(m) \in SUBSET Orders
        /\ \A o \in Range(m) : status[o] = "on-hold" /\ o \notin claimed
    BY BatchTyped, QueueTyped
  <2>4. Range(m) # {}
    BY <2>3, RangeOfSeq
  <2>5. \A o \in Range(m) : Stage[o] = "ready" /\ Stage'[o] = "shipping"
    BY <1>1, <2>1, <2>2, <2>3 DEF StageFacts
  <2>6. \A o \in Orders \ Range(m) : Stage'[o] = Stage[o]
    BY <2>1, <2>2, StageKept
  <2>7. Abstract!Move(Range(m), "ready", "shipping")
    BY <2>3, <2>5, <2>6, StageMove
  <2>8. t \in Trucks /\ manifest[t] = << >>
    BY DEF TruckShape, RunShape
  <2>9. Load[t] = {}
    <3>1. DOMAIN manifest[t] = {}
      BY <2>8
    <3> QED
      BY <2>8, <3>1 DEF Load, Aboard, Range
  <2>10. Load' = [Load EXCEPT ![t] = Range(m)]
    BY <2>1, <2>8 DEF Load, Aboard, TypeOK
  <2> QED
    BY <2>3, <2>4, <2>7, <2>8, <2>9, <2>10 DEF Abstract!AbstractNext, Abstract!Ship
<1>11. ASSUME NEW A \in SUBSET Trucks, TrucksTick(A) PROVE Abstract!AbstractNext
  <2> DEFINE home == A \ AtStop(A)
             delivered == {o \in UNION {Unloading(t) : t \in AtStop(A)} :
                             OrderMay(o, "delivered")}
  <2>1. /\ SetStatus(delivered, "closed")
        /\ manifest' = [t \in Trucks |-> IF t \in home THEN << >> ELSE manifest[t]]
        /\ UNCHANGED claimed
        /\ home \in SUBSET Trucks
        /\ \A t \in home : tstatus[t] = "returning"
    BY <1>11 DEF TrucksTick, AtStop
  <2>2. \A o \in delivered : o \in Orders
    BY ManifestFacts DEF Unloading, AtStop
  <2>3. \A o \in delivered : status[o] = "in-transit"
    BY <2>2, MayFacts
  <2> HIDE DEF delivered, home
  <2>4. \A o \in delivered : status'[o] = "closed"
    BY <2>1, <2>2 DEF SetStatus
  <2>5. \A o \in delivered : Stage[o] = "shipping" /\ Stage'[o] = "done"
    BY <1>1, <2>2, <2>3, <2>4 DEF StageFacts
  <2>6. \A o \in Orders \ delivered : Stage'[o] = Stage[o]
    BY <2>1, StageKept DEF SetStatus
  <2>7. Abstract!Move(delivered, "shipping", "done")
    BY <2>2, <2>5, <2>6, StageMove
  <2>8. \A t \in home : \A o \in Load[t] : Stage[o] = "done"
    <3>1. \A t \in home : \A o \in Aboard(t) : o \in Orders /\ status[o] = "closed"
      BY <2>1, ManifestFacts DEF TruckShape, RunShape
    <3> QED
      BY <1>1, <2>1, <3>1 DEF StageFacts, Load
  <2>9. Load' = [t \in Trucks |-> IF t \in home THEN {} ELSE Load[t]]
    <3>1. ASSUME NEW t \in Trucks PROVE Aboard(t)' = IF t \in home THEN {} ELSE Aboard(t)
      BY <2>1 DEF Aboard, Range
    <3> QED
      BY <3>1 DEF Load
  <2>10. Abstract!Unload(delivered, home)
    BY <2>7, <2>8, <2>9 DEF Abstract!Unload
  <2> QED
    BY <2>1, <2>2, <2>10 DEF Abstract!AbstractNext
<1>12. CASE UNCHANGED <<status, claimed, manifest>>
  BY <1>2, <1>12 DEF Abstract!abstractVars
<1>13. CASE \/ \E c \in Customers : VerifyAccount(c) \/ SilverCustomers(c)
            \/ \E i \in Invoices : InvoiceReminds(i)
            \/ EndSchedulerTick \/ CustomersTick \/ SkipOrder
            \/ DispatchNoTruck \/ SkipZone \/ CollectTerminal
            \/ \E o \in Orders : \E n \in 1..Len(poTopic[o]) : SilverOrders(o, n)
            \/ UNCHANGED vars
  BY <1>12, <1>13
     DEF VerifyAccount, SilverCustomers, InvoiceReminds, EndSchedulerTick, CustomersTick,
         SkipOrder, DispatchNoTruck, SkipZone, CollectTerminal, SilverOrders, vars,
         orderVars, truckVars
<1> QED
  BY <1>5, <1>6, <1>7, <1>8, <1>9, <1>10, <1>11, <1>13
     DEF Next, Callback, Step, Pipeline

\* Seen through where orders stand and what trucks carry, the generator with its
\* invoices, timers, queues and lagging pipeline does what Fulfilment promises.
THEOREM GeneratorRefinesFulfilment == Spec => ImplementsFulfilment
<1>1. Init => Abstract!AbstractInit
  <2> SUFFICES ASSUME Init PROVE Abstract!AbstractInit
    OBVIOUS
  <2>1. TypeOK
    BY TypeInit
  <2>2. Stage = [o \in Orders |-> "absent"]
    <3>1. \A o \in Orders : status[o] = NoStatus
      BY DEF Init
    <3>2. \A o \in Orders : Stage[o] = "absent"
      BY <2>1, <3>1, StageOfStatus DEF StageFacts
    <3>3. Stage = [o \in Orders |-> Stage[o]]
      BY DEF Stage
    <3> QED
      BY <3>2, <3>3
  <2>3. Load = [t \in Trucks |-> {}]
    <3>1. \A t \in Trucks : Aboard(t) = {}
      BY DEF Init, Aboard, Range
    <3> QED
      BY <3>1 DEF Load
  <2> QED
    BY <2>2, <2>3 DEF Abstract!AbstractInit
<1>2. IndInv /\ IndInv' /\ [Next]_vars => [Abstract!AbstractNext]_(Abstract!abstractVars)
  BY FulfilmentStep
<1> QED
  BY <1>1, <1>2, Invariance, PTL DEF Spec, Abstract!AbstractSpec, ImplementsFulfilment
===============================================================================
