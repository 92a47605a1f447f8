------------------------- MODULE GeneratorRestartProofs -------------------------
(***************************************************************************)
(* Theorems about GeneratorRestart, for any number of restarts and however *)
(* far each table of silver lags behind at each of them.                   *)
(***************************************************************************)
EXTENDS GeneratorRestart, GeneratorProofs

-------------------------------------------------------------------------------
(* What is read from silver.                                               *)

\* Silver shows an order once it has applied an event of it, and then a status.
SilverShows ==
  /\ \A o \in Orders : /\ OrderInSilver(o) <=> poSeen[o] > 0
                       /\ SilverStatus(o) \in OrderStatus \cup {NoStatus}
  /\ \A i \in Invoices : /\ SilverInvoice(i)[2] \in 0..MaxReminders
                         /\ SilverInvoice(i)[1] = "pending" => ivTopic[i] # << >>

\* The same of a state and of the next one.
LEMMA ShownBySilver ==
  TypeOK /\ SeenWasSent /\ ivSeen \in [Invoices -> Nat] => SilverShows
<1> SUFFICES ASSUME TypeOK, SeenWasSent, ivSeen \in [Invoices -> Nat]
             PROVE  SilverShows
  OBVIOUS
<1>1. ASSUME NEW o \in Orders
      PROVE  /\ OrderInSilver(o) <=> poSeen[o] > 0
             /\ SilverStatus(o) \in OrderStatus \cup {NoStatus}
  <2>1. poTopic[o] \in Seq(OrderStatus) /\ poSeen[o] \in Nat /\ poSeen[o] <= Len(poTopic[o])
    BY DEF TypeOK, SeenWasSent
  <2>2. poSeen[o] > 0 => poTopic[o][poSeen[o]] \in OrderStatus
    BY <2>1
  <2> QED
    BY <2>1, <2>2 DEF SilverStatus, OrderInSilver, OrderStatus, NoStatus
<1>2. ASSUME NEW i \in Invoices
      PROVE  /\ SilverInvoice(i)[2] \in 0..MaxReminders
             /\ SilverInvoice(i)[1] = "pending" => ivTopic[i] # << >>
  <2>1. /\ ivTopic[i] \in Seq(InvoiceStatus \X (0..MaxReminders))
        /\ ivSeen[i] \in Nat /\ ivSeen[i] <= Len(ivTopic[i])
    BY DEF TypeOK, SeenWasSent
  <2>2. CASE ivSeen[i] = 0
    BY <2>2, BoundsAssumption DEF SilverInvoice, NoStatus
  <2>3. CASE ivSeen[i] # 0
    <3>1. ivTopic[i][ivSeen[i]] \in InvoiceStatus \X (0..MaxReminders)
      BY <2>1, <2>3
    <3>2. ivTopic[i] # << >>
      BY <2>1, <2>3
    <3> QED
      BY <2>3, <3>1, <3>2 DEF SilverInvoice
  <2> QED
    BY <2>2, <2>3
<1> QED
  BY <1>1, <1>2 DEF SilverShows

\* What an order due for its invoice has in common with others: its first slot.
LEMMA InvoiceableHasNone ==
  ASSUME TypeOK, ExistAsSent, NEW o \in Invoiceable
  PROVE  /\ o \in Orders /\ status[o] = "created" /\ OrderInSilver(o)
         /\ NextInvoice(o) = <<o, 1>> /\ NextInvoice(o) \in Invoices
<1>1. /\ o \in Orders /\ o \in orders /\ status[o] = "created" /\ OrderInSilver(o)
      /\ invoices \cap InvoicesOf(o) = {}
  BY DEF Invoiceable, TypeOK
<1>2. {i \in InvoicesOf(o) : istatus[i] # NoStatus} = {}
  BY <1>1 DEF ExistAsSent
<1>3. Cardinality({}) = 0
  BY FS_EmptySet
<1>4. <<o, 1>> \in Invoices
  BY <1>1, BoundsAssumption DEF Invoices
<1> QED
  BY <1>1, <1>2, <1>3, <1>4 DEF NextInvoice

-------------------------------------------------------------------------------
(* What a step of the generator does to the orders and to the invoices.    *)

\* The statuses that end a move, and those that allow none.
MoveEnds == {"invoiced", "on-hold", "loaded", "in-transit", "closed", "cancelled"}
Ended == {NoStatus, "closed", "cancelled"}

\* An order that is moved on is open, and sends events up to its new status.
MovedOn(o) ==
  /\ status[o] \notin Ended
  /\ status'[o] \in MoveEnds
  /\ Len(poTopic[o]) < Len(poTopic'[o])
  /\ LastSent(o)' = status'[o]

Untouched(o) == status'[o] = status[o] /\ poTopic'[o] = poTopic[o]

Placed(o) == \E c \in Customers, z \in Zones, q \in Quantities : CreateOrder(o, c, z, q)

\* Setting the status of open orders moves these on and no other.
LEMMA SetMovesOn ==
  ASSUME TypeOK, NEW S, NEW s \in MoveEnds, NEW statuses \in Seq(OrderStatus),
         Len(statuses) > 0, statuses[Len(statuses)] = s,
         \A o \in S : status[o] \notin Ended,
         SetStatus(S, s), SendStatus(S, statuses)
  PROVE  \A o \in Orders : MovedOn(o) \/ Untouched(o)
<1> SUFFICES ASSUME NEW o \in Orders PROVE MovedOn(o) \/ Untouched(o)
  OBVIOUS
<1>1. poTopic[o] \in Seq(OrderStatus)
  BY DEF TypeOK
<1> DEFINE topic == poTopic[o] \o statuses
<1>2. /\ Len(poTopic[o]) < Len(topic) /\ topic # << >>
      /\ topic[Len(topic)] = statuses[Len(statuses)]
  BY <1>1
<1>3. CASE o \in S
  <2>1. status'[o] = s /\ poTopic'[o] = topic
    BY <1>3 DEF SetStatus, SendStatus
  <2> HIDE DEF topic
  <2>2. LastSent(o)' = s
    BY <1>2, <2>1 DEF LastSent
  <2> QED
    BY <1>2, <1>3, <2>1, <2>2 DEF MovedOn
<1>4. CASE o \notin S
  BY <1>4 DEF SetStatus, SendStatus, Untouched
<1> QED
  BY <1>3, <1>4

\* Which statuses a change of status needs.
LEMMA MaySomething ==
  ASSUME TypeOK, NEW o \in Orders
  PROVE  /\ OrderMay(o, "paid") => status[o] = "invoiced"
         /\ \A s \in {"paid", "loaded", "in-transit", "delivered", "cancelled"} :
              OrderMay(o, s) => status[o] \notin Ended
BY DEF TypeOK, OrderMay, OrderTransitions, OrderStatus, NoStatus, Ended

\* What is on a truck are orders.
LEMMA AboardTyped ==
  ASSUME TypeOK, NEW t \in Trucks
  PROVE  /\ Aboard(t) \subseteq Orders
         /\ Len(manifest[t]) \in Nat
         /\ DOMAIN manifest[t] = 1..Len(manifest[t])
         /\ \A k \in DOMAIN manifest[t] : manifest[t][k] \in Orders
<1>1. manifest[t] \in Seq(Orders)
  BY DEF TypeOK
<1> QED
  BY <1>1, RangeOfSeq DEF Aboard

\* An order is moved on, placed, or left as it is.
LEMMA OrdersStep ==
  ASSUME TypeOK, Next
  PROVE  \A o \in Orders : MovedOn(o) \/ Untouched(o) \/ Placed(o)
<1> DEFINE Goal == \A o \in Orders : MovedOn(o) \/ Untouched(o) \/ Placed(o)
<1> SUFFICES Goal
  OBVIOUS
<1>1. /\ \A s \in OrderStatus :
           <<s>> \in Seq(OrderStatus) /\ Len(<<s>>) = 1 /\ <<s>>[1] = s
      /\ \A r, s \in OrderStatus :
           <<r, s>> \in Seq(OrderStatus) /\ Len(<<r, s>>) = 2 /\ <<r, s>>[2] = s
  OBVIOUS
<1>2. /\ "paid" \in OrderStatus /\ "delivered" \in OrderStatus
      /\ MoveEnds \subseteq OrderStatus
      /\ {"invoiced", "on-hold", "loaded", "in-transit", "closed", "cancelled"} \subseteq MoveEnds
  BY DEF OrderStatus, MoveEnds
<1>3. ASSUME NEW S, NEW r \in OrderStatus, NEW s \in MoveEnds,
             \A o \in S : status[o] \notin Ended, SetStatus(S, s),
             SendStatus(S, <<s>>) \/ SendStatus(S, <<r, s>>)
      PROVE  Goal
  <2>1. PICK statuses \in Seq(OrderStatus) :
          /\ Len(statuses) > 0 /\ statuses[Len(statuses)] = s
          /\ SendStatus(S, statuses)
    <3>1. s \in OrderStatus
      BY <1>2, <1>3
    <3>2. <<s>> \in Seq(OrderStatus) /\ Len(<<s>>) > 0 /\ <<s>>[Len(<<s>>)] = s
      BY <1>1, <3>1
    <3>3. /\ <<r, s>> \in Seq(OrderStatus) /\ Len(<<r, s>>) > 0
          /\ <<r, s>>[Len(<<r, s>>)] = s
      BY <1>1, <1>3, <3>1
    <3>4. CASE SendStatus(S, <<s>>)
      BY <3>2, <3>4
    <3>5. CASE SendStatus(S, <<r, s>>)
      BY <3>3, <3>5
    <3> QED
      BY <1>3, <3>4, <3>5
  <2> QED
    BY <1>3, <2>1, SetMovesOn
<1>4. CASE UNCHANGED <<status, poTopic>>
  BY <1>4 DEF Untouched
<1>5. ASSUME NEW i \in Invoices, InvoiceSettles(i) PROVE Goal
  <2>1. i[1] \in Orders
    BY DEF Invoices
  <2>2. \/ OrderMay(i[1], "paid") /\ MarkPaid(i[1])
        \/ UNCHANGED <<status, poTopic>>
    BY <1>5 DEF InvoiceSettles
  <2>3. ASSUME OrderMay(i[1], "paid"), MarkPaid(i[1]) PROVE Goal
    <3> DEFINE S == {i[1]}
    <3>1. \A o \in S : status[o] \notin Ended
      BY <2>1, <2>3, MaySomething
    <3>2. SetStatus(S, "on-hold") /\ SendStatus(S, <<"paid", "on-hold">>)
      BY <2>3 DEF MarkPaid
    <3> HIDE DEF Goal, S
    <3> QED
      BY <1>2, <1>3, <3>1, <3>2
  <2> HIDE DEF Goal
  <2> QED
    BY <1>4, <2>2, <2>3
<1>6. ASSUME NEW i \in Invoices, InvoiceCancels(i) PROVE Goal
  <2> DEFINE S == {o \in {i[1]} : OrderMay(o, "cancelled")}
  <2>1. i[1] \in Orders
    BY DEF Invoices
  <2>2. \A o \in S : status[o] \notin Ended
    BY <2>1, MaySomething
  <2>3. SetStatus(S, "cancelled") /\ SendStatus(S, <<"cancelled">>)
    BY <1>6 DEF InvoiceCancels
  <2> HIDE DEF Goal, S
  <2> QED
    BY <1>2, <1>3, <2>2, <2>3
<1>7. ASSUME NEW t \in Trucks, LoadOrder(t) PROVE Goal
  <2> DEFINE p == manifest[t][loadStep[t] + 1]
  <2>1. p \in Orders
    BY <1>7, AboardTyped DEF LoadOrder, TypeOK
  <2>2. \/ /\ OrderMay(p, "loaded")
           /\ SetStatus({p}, "loaded") /\ SendStatus({p}, <<"loaded">>)
        \/ UNCHANGED <<status, poTopic>>
    BY <1>7 DEF LoadOrder
  <2>3. ASSUME OrderMay(p, "loaded"), SetStatus({p}, "loaded"),
               SendStatus({p}, <<"loaded">>)
        PROVE  Goal
    <3> DEFINE S == {p}
    <3> HIDE DEF p
    <3>1. \A o \in S : status[o] \notin Ended
      BY <2>1, <2>3, MaySomething
    <3>2. SetStatus(S, "loaded") /\ SendStatus(S, <<"loaded">>)
      BY <2>3
    <3> HIDE DEF Goal, S
    <3> QED
      BY <1>2, <1>3, <3>1, <3>2
  <2> HIDE DEF Goal, p
  <2> QED
    BY <1>4, <2>2, <2>3
<1>8. ASSUME NEW t \in Trucks, Depart(t) PROVE Goal
  <2> DEFINE Refuses(k) == ~OrderMay(manifest[t][k], "in-transit")
             gone == {manifest[t][k] : k \in {k \in DOMAIN manifest[t] :
                                                \A j \in 1..k : ~Refuses(j)}}
  <2>1. \A k \in DOMAIN manifest[t] : k \in 1..k /\ manifest[t][k] \in Orders
    BY AboardTyped
  <2>2. \A o \in gone : status[o] \notin Ended
    BY <2>1, MaySomething
  <2>3. SetStatus(gone, "in-transit") /\ SendStatus(gone, <<"in-transit">>)
    BY <1>8 DEF Depart
  <2> HIDE DEF Goal, gone
  <2> QED
    BY <1>2, <1>3, <2>2, <2>3
<1>9. ASSUME NEW A \in SUBSET Trucks, TrucksTick(A) PROVE Goal
  <2> DEFINE delivered == {p \in UNION {Unloading(t) : t \in AtStop(A)} :
                             OrderMay(p, "delivered")}
  <2>1. \A p \in delivered : p \in Orders
    BY AboardTyped DEF Unloading, AtStop
  <2>2. \A p \in delivered : status[p] \notin Ended
    BY <2>1, MaySomething
  <2>3. SetStatus(delivered, "closed") /\ SendStatus(delivered, <<"delivered", "closed">>)
    BY <1>9 DEF TrucksTick
  <2> HIDE DEF Goal, delivered
  <2> QED
    BY <1>2, <1>3, <2>2, <2>3
<1>10. CASE ProcessPendingInvoices
  <2>1. \A p \in Invoiceable : status[p] \notin Ended
    BY DEF Invoiceable, NoStatus, Ended
  <2>2. SetStatus(Invoiceable, "invoiced") /\ SendStatus(Invoiceable, <<"invoiced">>)
    BY <1>10 DEF ProcessPendingInvoices, CreateInvoices
  <2> HIDE DEF Goal
  <2> QED
    BY <1>2, <1>3, <2>1, <2>2
<1>11. ASSUME NEW p \in Orders, NEW c \in Customers, NEW z \in Zones,
              NEW q \in Quantities, CreateOrder(p, c, z, q)
       PROVE  Goal
  <2>1. \A o \in Orders : o # p => Untouched(o)
    BY <1>11 DEF CreateOrder, SetStatus, SendStatus, Untouched
  <2> QED
    BY <1>11, <2>1 DEF Placed
<1>12. \/ \E i \in Invoices : InvoiceSettles(i) \/ InvoiceCancels(i)
       \/ \E t \in Trucks : LoadOrder(t) \/ Depart(t)
       \/ \E A \in SUBSET Trucks : TrucksTick(A)
       \/ ProcessPendingInvoices
       \/ \E o \in Orders, c \in Customers, z \in Zones, q \in Quantities :
            CreateOrder(o, c, z, q)
       \/ UNCHANGED <<status, poTopic>>
  BY DEF Next, Callback, Step, Pipeline, vars, VerifyAccount, InvoiceReminds,
         EndSchedulerTick, CustomersTick, SkipOrder, DispatchNoTruck, SkipZone,
         DispatchZone, CollectTerminal, SilverOrders, SilverCustomers, orderVars,
         topicVars
<1> HIDE DEF Goal
<1> QED
  BY <1>4, <1>5, <1>6, <1>7, <1>8, <1>9, <1>10, <1>11, <1>12

\* An invoice that is moved on has a status and sends an event.
InvoiceMovedOn(i) ==
  /\ istatus[i] # NoStatus /\ istatus'[i] # NoStatus
  /\ Len(ivTopic[i]) < Len(ivTopic'[i])

InvoiceUntouched(i) == istatus'[i] = istatus[i] /\ ivTopic'[i] = ivTopic[i]

InvoiceCreated(i) ==
  /\ ProcessPendingInvoices
  /\ istatus'[i] = "pending"
  /\ Len(ivTopic'[i]) = Len(ivTopic[i]) + 2
  /\ \E o \in Invoiceable : i = NextInvoice(o)

\* An invoice is moved on, created for an order that is due for it, or left as it is.
LEMMA InvoicesStep ==
  ASSUME TypeOK, Next
  PROVE  \A i \in Invoices : InvoiceMovedOn(i) \/ InvoiceUntouched(i) \/ InvoiceCreated(i)
<1> SUFFICES ASSUME NEW i \in Invoices
             PROVE  InvoiceMovedOn(i) \/ InvoiceUntouched(i) \/ InvoiceCreated(i)
  OBVIOUS
<1>1. /\ ivTopic[i] \in Seq(InvoiceStatus \X (0..MaxReminders))
      /\ Len(ivTopic[i]) \in Nat
  BY DEF TypeOK
<1>2. ASSUME NEW j \in Invoices, NEW s \in InvoiceStatus, NEW n,
             istatus[j] = "pending", InvoiceEvent(j, s, n)
      PROVE  InvoiceMovedOn(i) \/ InvoiceUntouched(i)
  <2>1. CASE i = j
    <3>1. Len(Append(ivTopic[i], <<s, n>>)) = Len(ivTopic[i]) + 1
      BY <1>1
    <3> QED
      BY <1>1, <1>2, <2>1, <3>1
         DEF InvoiceEvent, InvoiceMovedOn, TypeOK, InvoiceStatus, NoStatus
  <2>2. CASE i # j
    BY <1>2, <2>2 DEF InvoiceEvent, InvoiceUntouched, TypeOK
  <2> QED
    BY <2>1, <2>2
<1>3. CASE ProcessPendingInvoices
  <2> DEFINE new == {NextInvoice(o) : o \in Invoiceable}
  <2>1. Len(ivTopic[i] \o <<<<"created", 0>>, <<"pending", 0>>>>) = Len(ivTopic[i]) + 2
    BY <1>1
  <2>2. CASE i \in new
    BY <1>3, <2>1, <2>2 DEF ProcessPendingInvoices, CreateInvoices, InvoiceCreated
  <2>3. CASE i \notin new
    BY <1>3, <2>3 DEF ProcessPendingInvoices, CreateInvoices, InvoiceUntouched
  <2> QED
    BY <2>2, <2>3
<1>4. CASE UNCHANGED <<istatus, ivTopic>>
  BY <1>4 DEF InvoiceUntouched
<1>5. \/ \E j \in Invoices, s \in InvoiceStatus : \E n :
           istatus[j] = "pending" /\ InvoiceEvent(j, s, n)
      \/ ProcessPendingInvoices
      \/ UNCHANGED <<istatus, ivTopic>>
  BY DEF Next, Callback, Step, Pipeline, vars, VerifyAccount, InvoiceSettles,
         InvoiceReminds, InvoiceCancels, LoadOrder, Depart, EndSchedulerTick,
         CustomersTick, CreateOrder, SkipOrder, DispatchNoTruck, SkipZone,
         DispatchZone, TrucksTick, CollectTerminal, SilverOrders, SilverCustomers,
         invoiceVars, topicVars, InvoiceStatus
<1> QED
  BY <1>2, <1>3, <1>4, <1>5

\* Line items are sent when their order is placed, and only then.
LEMMA ItemsSent ==
  TypeOK /\ Next => \A o \in Orders : Placed(o) \/ liTopic'[o] = liTopic[o]
<1> SUFFICES ASSUME TypeOK, Next PROVE \A o \in Orders : Placed(o) \/ liTopic'[o] = liTopic[o]
  OBVIOUS
<1>1. liTopic \in [Orders -> Nat]
  BY DEF TypeOK
<1>2. \/ \E p \in Orders : \E c \in Customers, z \in Zones, q \in Quantities :
           CreateOrder(p, c, z, q)
      \/ liTopic' = liTopic
  BY DEF Next, Callback, Step, Pipeline, vars, VerifyAccount, InvoiceSettles,
         InvoiceReminds, InvoiceCancels, LoadOrder, Depart, EndSchedulerTick,
         CustomersTick, SkipOrder, ProcessPendingInvoices, DispatchNoTruck, SkipZone,
         DispatchZone, TrucksTick, CollectTerminal, SilverOrders, SilverCustomers,
         topicVars
<1>3. ASSUME NEW p \in Orders, NEW c \in Customers, NEW z \in Zones,
             NEW q \in Quantities, CreateOrder(p, c, z, q)
      PROVE  \A o \in Orders : Placed(o) \/ liTopic'[o] = liTopic[o]
  <2>1. liTopic' = [liTopic EXCEPT ![p] = q]
    BY <1>3 DEF CreateOrder
  <2>2. Placed(p)
    BY <1>3 DEF Placed
  <2> QED
    BY <1>1, <2>1, <2>2
<1> QED
  BY <1>2, <1>3

-------------------------------------------------------------------------------
(* A step of the generator, one conjunct of the invariant after the other. *)

\* What the proofs use of the invariant in every step.
LEMMA InvParts ==
  RestartInv => /\ TypeOK /\ SeenWasSent /\ ExistAsSent /\ ClaimsHold
                /\ OneTruckPerOrder /\ OpenOrdersMatch /\ ParentsStillConfirmed
                /\ ivSeen \in [Invoices -> Nat]
                /\ SilverShows /\ SlotsLeft
<1> SUFFICES ASSUME RestartInv PROVE SilverShows /\ SlotsLeft
  BY DEF RestartInv
<1>1. TypeOK /\ SeenWasSent /\ ExistAsSent /\ ivSeen \in [Invoices -> Nat]
  BY DEF RestartInv
<1> QED
  BY <1>1, ShownBySilver, InvoiceableHasNone DEF SlotsLeft

\* Topics only grow, and silver applies what is there.
LEMMA SeenStep == RestartInv /\ GeneratorStep => TypeOK' /\ SeenWasSent'
<1> SUFFICES ASSUME RestartInv, GeneratorStep PROVE TypeOK' /\ SeenWasSent'
  OBVIOUS
<1>1. TypeOK /\ SeenWasSent /\ SlotsLeft /\ ivSeen \in [Invoices -> Nat]
  BY InvParts
<1>2. Next /\ ivSeen' = ivSeen
  BY DEF GeneratorStep
<1>3. TypeOK'
  BY <1>1, <1>2, TypeStep
<1>4. ASSUME NEW o \in Orders PROVE Len(poTopic[o]) <= Len(poTopic'[o])
  <2>1. poTopic[o] \in Seq(OrderStatus) /\ poTopic'[o] \in Seq(OrderStatus)
    BY <1>1, <1>3 DEF TypeOK
  <2>2. CASE MovedOn(o) \/ Untouched(o)
    BY <2>1, <2>2 DEF MovedOn, Untouched
  <2>3. CASE Placed(o)
    <3>1. poTopic'[o] = poTopic[o] \o <<"created">>
      BY <2>3 DEF Placed, CreateOrder, SendStatus
    <3> QED
      BY <2>1, <3>1
  <2> QED
    BY <1>1, <1>2, <2>2, <2>3, OrdersStep
<1>5. ASSUME NEW i \in Invoices PROVE Len(ivTopic[i]) <= Len(ivTopic'[i])
  <2>1. /\ ivTopic[i] \in Seq(InvoiceStatus \X (0..MaxReminders))
        /\ ivTopic'[i] \in Seq(InvoiceStatus \X (0..MaxReminders))
    BY <1>1, <1>3 DEF TypeOK
  <2> QED
    BY <1>1, <1>2, <2>1, InvoicesStep
       DEF InvoiceMovedOn, InvoiceUntouched, InvoiceCreated
<1>6. ASSUME NEW o \in Orders PROVE poSeen'[o] <= Len(poTopic'[o])
  <2>1. /\ poSeen[o] \in Nat /\ poSeen[o] <= Len(poTopic[o])
        /\ Len(poTopic[o]) \in Nat /\ Len(poTopic'[o]) \in Nat
    BY <1>1, <1>3 DEF TypeOK, SeenWasSent
  <2>2. CASE poSeen' = poSeen
    BY <1>4, <2>1, <2>2
  <2>3. ASSUME NEW p \in Orders, NEW n \in 1..Len(poTopic[p]), SilverOrders(p, n)
        PROVE  poSeen'[o] <= Len(poTopic'[o])
    <3>1. /\ poTopic' = poTopic
          /\ poSeen'[o] = IF o = p THEN n ELSE poSeen[o]
      BY <1>1, <2>3 DEF SilverOrders, TypeOK, topicVars
    <3> QED
      BY <2>1, <2>3, <3>1
  <2>4. \/ poSeen' = poSeen
        \/ \E p \in Orders : \E n \in 1..Len(poTopic[p]) : SilverOrders(p, n)
    BY <1>2
       DEF Next, Callback, Step, Pipeline, VerifyAccount, InvoiceSettles,
           InvoiceReminds, InvoiceCancels, LoadOrder, Depart, EndSchedulerTick,
           CustomersTick, CreateOrder, SkipOrder, ProcessPendingInvoices,
           DispatchNoTruck, SkipZone, DispatchZone, TrucksTick, CollectTerminal,
           SilverCustomers, silverVars
  <2> QED
    BY <2>2, <2>3, <2>4
<1>7. ASSUME NEW i \in Invoices PROVE ivSeen'[i] <= Len(ivTopic'[i])
  <2>1. /\ ivSeen[i] \in Nat /\ ivSeen[i] <= Len(ivTopic[i])
        /\ Len(ivTopic[i]) \in Nat /\ Len(ivTopic'[i]) \in Nat
    BY <1>1, <1>3 DEF TypeOK, SeenWasSent
  <2> QED
    BY <1>2, <1>5, <2>1
<1>8. ASSUME NEW o \in Orders PROVE liSeen'[o] <= liTopic'[o]
  <2>1. /\ liSeen[o] \in Nat /\ liSeen[o] <= liTopic[o] /\ liTopic'[o] \in Nat
        /\ liSeen' = liSeen
    BY <1>1, <1>3 DEF TypeOK, SeenWasSent, RestartInv, GeneratorStep
  <2>2. status[o] = NoStatus => liTopic[o] = 0
    BY InvParts DEF ExistAsSent
  <2>3. Placed(o) => status[o] = NoStatus
    BY DEF Placed, CreateOrder
  <2>4. Placed(o) \/ liTopic'[o] = liTopic[o]
    BY <1>1, <1>2, ItemsSent
  <2> QED
    BY <2>1, <2>2, <2>3, <2>4
<1> QED
  BY <1>3, <1>6, <1>7, <1>8 DEF SeenWasSent

\* What silver shows stays there.
LEMMA ShownStays ==
  ASSUME RestartInv, GeneratorStep
  PROVE  /\ \A o \in Orders : OrderInSilver(o) => OrderInSilver(o)'
         /\ customersSeen \subseteq customersSeen'
<1>1. SilverShows /\ TypeOK /\ ivSeen \in [Invoices -> Nat]
  BY InvParts
<1>2. TypeOK' /\ SeenWasSent' /\ ivSeen' \in [Invoices -> Nat]
  BY <1>1, SeenStep DEF GeneratorStep
<1>3. SilverShows'
  <2>1. (TypeOK /\ SeenWasSent /\ ivSeen \in [Invoices -> Nat])' => SilverShows'
    BY ShownBySilver, PTL
  <2> QED
    BY <1>2, <2>1
<1>4. \/ UNCHANGED poSeen /\ customersSeen \subseteq customersSeen'
      \/ \E p \in Orders : \E n \in 1..Len(poTopic[p]) : SilverOrders(p, n)
  BY DEF GeneratorStep, Next, Callback, Step, Pipeline, VerifyAccount, InvoiceSettles,
         InvoiceReminds, InvoiceCancels, LoadOrder, Depart, EndSchedulerTick,
         CustomersTick, CreateOrder, SkipOrder, ProcessPendingInvoices,
         DispatchNoTruck, SkipZone, DispatchZone, TrucksTick, CollectTerminal,
         SilverCustomers, silverVars
<1>5. ASSUME NEW p \in Orders, NEW n \in 1..Len(poTopic[p]), SilverOrders(p, n)
      PROVE  /\ \A o \in Orders : poSeen[o] > 0 => poSeen'[o] > 0
             /\ customersSeen \subseteq customersSeen'
  BY <1>1, <1>5 DEF SilverOrders, TypeOK
<1>6. \A o \in Orders : poSeen[o] > 0 => poSeen'[o] > 0
  BY <1>4, <1>5
<1> QED
  BY <1>1, <1>3, <1>4, <1>5, <1>6 DEF SilverShows

\* An order exists from its first event on, and is due for one invoice only.
LEMMA ExistStep == RestartInv /\ GeneratorStep => ExistAsSent'
<1> SUFFICES ASSUME RestartInv, GeneratorStep PROVE ExistAsSent'
  OBVIOUS
<1>1. TypeOK /\ ExistAsSent /\ SlotsLeft /\ Next
  BY InvParts DEF GeneratorStep
<1>2. TypeOK'
  BY SeenStep
<1>3. /\ \A o \in Orders : MovedOn(o) \/ Untouched(o) \/ Placed(o)
      /\ \A i \in Invoices : InvoiceMovedOn(i) \/ InvoiceUntouched(i) \/ InvoiceCreated(i)
  BY <1>1, OrdersStep, InvoicesStep
<1>4. /\ \A o \in Orders : /\ poTopic[o] \in Seq(OrderStatus)
                           /\ poTopic'[o] \in Seq(OrderStatus)
      /\ \A i \in Invoices : /\ ivTopic[i] \in Seq(InvoiceStatus \X (0..MaxReminders))
                             /\ ivTopic'[i] \in Seq(InvoiceStatus \X (0..MaxReminders))
  BY <1>1, <1>2 DEF TypeOK
<1>5. ASSUME NEW o \in Orders PROVE status'[o] = NoStatus <=> poTopic'[o] = << >>
  <2>1. CASE MovedOn(o)
    <3>1. Len(poTopic'[o]) > 0
      BY <1>4, <2>1 DEF MovedOn
    <3> QED
      BY <2>1, <3>1 DEF MovedOn, MoveEnds, NoStatus
  <2>2. CASE Untouched(o)
    BY <1>1, <2>2 DEF Untouched, ExistAsSent
  <2>3. CASE Placed(o)
    <3>1. poTopic'[o] = poTopic[o] \o <<"created">> /\ status'[o] = "created"
      BY <2>3 DEF Placed, CreateOrder, SendStatus, SetStatus
    <3>2. poTopic'[o] # << >>
      BY <1>4, <3>1
    <3> QED
      BY <3>1, <3>2 DEF NoStatus
  <2> QED
    BY <1>3, <2>1, <2>2, <2>3
<1>6. ASSUME NEW i \in Invoices PROVE istatus'[i] = NoStatus <=> ivTopic'[i] = << >>
  <2>1. CASE InvoiceMovedOn(i) \/ InvoiceCreated(i)
    <3>1. Len(ivTopic'[i]) > 0
      BY <1>4, <2>1 DEF InvoiceMovedOn, InvoiceCreated
    <3> QED
      BY <2>1, <3>1 DEF InvoiceMovedOn, InvoiceCreated, NoStatus
  <2>2. CASE InvoiceUntouched(i)
    BY <1>1, <2>2 DEF InvoiceUntouched, ExistAsSent
  <2> QED
    BY <1>3, <2>1, <2>2
<1>7. /\ \A o \in orders' \ orders : Placed(o)
      /\ \/ invoices \subseteq invoices'
         \/ CollectTerminal
  BY <1>1
     DEF Next, Callback, Step, Pipeline, VerifyAccount, InvoiceSettles,
         InvoiceReminds, InvoiceCancels, LoadOrder, Depart, EndSchedulerTick,
         CustomersTick, CreateOrder, SkipOrder, ProcessPendingInvoices, CreateInvoices,
         DispatchNoTruck, SkipZone, DispatchZone, TrucksTick, CollectTerminal,
         SilverOrders, SilverCustomers, orderVars, invoiceVars, Placed
<1>8. ASSUME NEW o \in Orders, status'[o] = NoStatus
      PROVE  o \notin orders' /\ liTopic'[o] = 0
  <2>1. Untouched(o) /\ ~Placed(o)
    BY <1>3, <1>8 DEF MovedOn, MoveEnds, Placed, CreateOrder, SetStatus, NoStatus
  <2>2. liTopic'[o] = liTopic[o]
    BY <1>1, <2>1, ItemsSent
  <2> QED
    BY <1>1, <1>7, <1>8, <2>1, <2>2 DEF Untouched, ExistAsSent
\* An order that has no invoice yet was not due for one in this step.
<1>9. ASSUME NEW o \in Orders, NEW i \in InvoicesOf(o),
             \/ status'[o] = NoStatus
             \/ /\ status'[o] = "created" /\ o \in orders'
                /\ invoices' \cap InvoicesOf(o) = {}
      PROVE  istatus'[i] = NoStatus
  <2>1. i \in Invoices /\ i[1] = o
    BY DEF InvoicesOf
  <2>2. istatus[i] = NoStatus
    <3>1. CASE Placed(o)
      <4>1. status[o] = NoStatus
        BY <3>1 DEF Placed, CreateOrder
      <4> QED
        BY <1>1, <4>1 DEF ExistAsSent
    <3>2. CASE ~Placed(o)
      <4>1. Untouched(o)
        BY <1>3, <1>9, <3>2 DEF MovedOn, MoveEnds, NoStatus
      <4>2. CASE status'[o] = NoStatus
        BY <1>1, <4>1, <4>2 DEF Untouched, ExistAsSent
      <4>3. CASE status'[o] # NoStatus
        <5>1. status[o] = "created" /\ o \in orders /\ o \in orders'
          BY <1>7, <1>9, <3>2, <4>1, <4>3 DEF Untouched
        <5>2. invoices \cap InvoicesOf(o) = {}
          <6>1. CASE invoices \subseteq invoices'
            BY <1>9, <4>3, <6>1
          <6>2. CASE CollectTerminal
            <7>1. o \notin Terminal
              BY <5>1 DEF Terminal
            <7>2. ASSUME NEW p \in Terminal, NEW j \in FirstInvoice(p), j \in InvoicesOf(o)
                  PROVE  FALSE
              BY <7>1, <7>2 DEF FirstInvoice, InvoicesOf
            <7>3. invoices' = invoices \ UNION {FirstInvoice(p) : p \in Terminal}
              BY <6>2 DEF CollectTerminal
            <7> QED
              BY <1>9, <4>3, <7>2, <7>3
          <6> QED
            BY <1>7, <6>1, <6>2
        <5> QED
          BY <1>1, <5>1, <5>2 DEF ExistAsSent
      <4> QED
        BY <4>2, <4>3
    <3> QED
      BY <3>1, <3>2
  <2>3. ~InvoiceCreated(i)
    <3>1. SUFFICES ASSUME InvoiceCreated(i) PROVE FALSE
      OBVIOUS
    <3>2. PICK p \in Invoiceable : i = NextInvoice(p)
      BY <3>1 DEF InvoiceCreated
    <3>3. p = o
      BY <2>1, <3>2 DEF NextInvoice
    <3>4. status'[o] = "invoiced"
      BY <3>1, <3>2, <3>3
         DEF InvoiceCreated, ProcessPendingInvoices, CreateInvoices, SetStatus
    <3> QED
      BY <1>9, <3>4 DEF NoStatus
  <2> QED
    BY <1>3, <2>1, <2>2, <2>3 DEF InvoiceMovedOn, InvoiceUntouched
<1> QED
  BY <1>5, <1>6, <1>8, <1>9 DEF ExistAsSent

\* A truck takes orders that no truck has claimed, each of them once.
LEMMA TrucksStep == RestartInv /\ GeneratorStep => ClaimsHold' /\ OneTruckPerOrder'
<1> SUFFICES ASSUME RestartInv, GeneratorStep PROVE ClaimsHold' /\ OneTruckPerOrder'
  OBVIOUS
<1>1. TypeOK /\ ClaimsHold /\ OneTruckPerOrder /\ Next
  BY InvParts DEF GeneratorStep
<1>2. \A o \in Orders : o \notin ahead'[o]
  <2>1. ASSUME NEW i \in Invoices, MarkPaid(i[1]), OrderMay(i[1], "paid")
        PROVE  \A o \in Orders : o \notin ahead'[o]
    <3>1. i[1] \in Orders
      BY DEF Invoices
    <3>2. i[1] \notin OnHold
      BY <1>1, <2>1, <3>1, MaySomething DEF OnHold
    <3>3. ahead' = [ahead EXCEPT ![i[1]] = OnHold \ claimed]
      BY <2>1 DEF MarkPaid
    <3> QED
      BY <1>1, <3>1, <3>2, <3>3 DEF ClaimsHold, TypeOK
  <2>2. \/ UNCHANGED ahead
        \/ \E i \in Invoices : MarkPaid(i[1]) /\ OrderMay(i[1], "paid")
    BY <1>1
       DEF Next, Callback, Step, Pipeline, VerifyAccount, InvoiceSettles,
           InvoiceReminds, InvoiceCancels, LoadOrder, Depart, EndSchedulerTick,
           CustomersTick, CreateOrder, SkipOrder, ProcessPendingInvoices,
           DispatchNoTruck, SkipZone, DispatchZone, TrucksTick, CollectTerminal,
           SilverOrders, SilverCustomers, orderVars
  <2> QED
    BY <1>1, <2>1, <2>2 DEF ClaimsHold
<1>3. CASE UNCHANGED <<manifest, claimed>>
  <2>1. \A t \in Trucks : Aboard(t)' = Aboard(t)
    BY <1>3 DEF Aboard
  <2> QED
    BY <1>1, <1>2, <1>3, <2>1 DEF ClaimsHold, OneTruckPerOrder
<1>4. ASSUME NEW z \in Zones, DispatchZone(z) PROVE ClaimsHold' /\ OneTruckPerOrder'
  <2>1. PICK t \in freeTrucks, m \in Batches(Queue(z)) :
          /\ claimed' = claimed \cup Range(m)
          /\ manifest' = [manifest EXCEPT ![t] = m]
    BY <1>4 DEF DispatchZone
  <2>2. /\ t \in Trucks
        /\ \A u \in Trucks : manifest'[u] = IF u = t THEN m ELSE manifest[u]
    BY <1>1, <2>1 DEF TypeOK
  <2>3. \A u \in Trucks : Aboard(u)' = IF u = t THEN Range(m) ELSE Aboard(u)
    BY <2>2 DEF Aboard
  <2>4. Range(m) \cap claimed = {}
    <3>1. Queue(z) \in SUBSET Orders /\ \A o \in Queue(z) : o \notin claimed
      BY <1>1, QueueTyped
    <3> QED
      BY <2>1, <3>1, BatchTyped
  <2>5. \A j, k \in DOMAIN m : j # k => m[j] # m[k]
    <3>1. Queue(z) \in SUBSET Orders
      BY <1>1, QueueTyped
    <3> QED
      BY <1>1, <2>1, <3>1, BatchDistinct DEF ClaimsHold
  <2>6. ClaimsHold'
    BY <1>1, <1>2, <2>1, <2>3 DEF ClaimsHold
  <2>7. \A u, v \in Trucks : u # v => Aboard(u)' \cap Aboard(v)' = {}
    BY <1>1, <2>3, <2>4 DEF ClaimsHold, OneTruckPerOrder
  <2>8. \A u \in Trucks : \A j, k \in DOMAIN manifest'[u] :
          j # k => manifest'[u][j] # manifest'[u][k]
    BY <1>1, <2>2, <2>5 DEF OneTruckPerOrder
  <2> QED
    BY <2>6, <2>7, <2>8 DEF OneTruckPerOrder
<1>5. ASSUME NEW A \in SUBSET Trucks, TrucksTick(A) PROVE ClaimsHold' /\ OneTruckPerOrder'
  <2>1. claimed' = claimed
    BY <1>5 DEF TrucksTick
  <2>2. \A t \in Trucks : manifest'[t] = << >> \/ manifest'[t] = manifest[t]
    BY <1>5 DEF TrucksTick
  <2>3. \A t \in Trucks : Aboard(t)' = {} \/ Aboard(t)' = Aboard(t)
    BY <2>2 DEF Aboard, Range
  <2>4. ClaimsHold'
    BY <1>1, <1>2, <2>1, <2>3 DEF ClaimsHold
  <2>5. \A u, v \in Trucks : u # v => Aboard(u)' \cap Aboard(v)' = {}
    BY <1>1, <2>3 DEF OneTruckPerOrder
  <2>6. ASSUME NEW u \in Trucks, NEW j \in DOMAIN manifest'[u], NEW k \in DOMAIN manifest'[u],
               j # k
        PROVE  manifest'[u][j] # manifest'[u][k]
    <3>1. manifest'[u] = manifest[u]
      BY <2>2, <2>6
    <3> QED
      BY <1>1, <2>6, <3>1 DEF OneTruckPerOrder
  <2> QED
    BY <2>4, <2>5, <2>6 DEF OneTruckPerOrder
<1>6. \/ UNCHANGED <<manifest, claimed>>
      \/ \E z \in Zones : DispatchZone(z)
      \/ \E A \in SUBSET Trucks : TrucksTick(A)
  BY <1>1
     DEF Next, Callback, Step, Pipeline, VerifyAccount, InvoiceSettles,
         InvoiceReminds, InvoiceCancels, LoadOrder, Depart, EndSchedulerTick,
         CustomersTick, CreateOrder, SkipOrder, ProcessPendingInvoices,
         DispatchNoTruck, SkipZone, CollectTerminal, SilverOrders, SilverCustomers,
         orderVars, truckVars
<1> QED
  BY <1>3, <1>4, <1>5, <1>6

\* Orders and the sets of open orders change together.
LEMMA OpenOrdersFollow == RestartInv /\ GeneratorStep => OpenOrdersMatch'
<1> SUFFICES ASSUME RestartInv, GeneratorStep PROVE OpenOrdersMatch'
  OBVIOUS
<1>1. TypeOK /\ ExistAsSent /\ OpenOrdersMatch /\ Next
  BY InvParts DEF GeneratorStep
<1>2. CASE UNCHANGED <<openOrderIds, orders, owner>>
  BY <1>1, <1>2 DEF OpenOrdersMatch
<1>3. ASSUME NEW o \in Orders, NEW c \in Customers, NEW z \in Zones,
             NEW q \in Quantities, CreateOrder(o, c, z, q)
      PROVE  OpenOrdersMatch'
  <2>1. o \notin orders
    BY <1>1, <1>3 DEF CreateOrder, ExistAsSent
  <2>2. /\ \A d \in Customers :
             openOrderIds'[d] = IF d = c THEN openOrderIds[c] \cup {o}
                                         ELSE openOrderIds[d]
        /\ \A p \in Orders : owner'[p] = IF p = o THEN c ELSE owner[p]
        /\ orders' = orders \cup {o} /\ orders \subseteq Orders
    BY <1>1, <1>3 DEF CreateOrder, TypeOK
  <2>3. \A d \in Customers : openOrderIds[d] = {p \in orders : owner[p] = d}
    BY <1>1 DEF OpenOrdersMatch
  <2>4. \A p \in orders' : owner'[p] = IF p = o THEN c ELSE owner[p]
    BY <2>2
  <2>5. {p \in orders' : owner'[p] = c} = openOrderIds[c] \cup {o}
    BY <2>1, <2>2, <2>3, <2>4
  <2>6. \A d \in Customers \ {c} : {p \in orders' : owner'[p] = d} = openOrderIds[d]
    BY <2>1, <2>2, <2>3, <2>4
  <2> QED
    BY <2>2, <2>5, <2>6 DEF OpenOrdersMatch
<1>4. CASE CollectTerminal
  BY <1>1, <1>4 DEF CollectTerminal, Terminal, OpenOrdersMatch
<1>5. \/ \E o \in Orders, c \in Customers, z \in Zones, q \in Quantities :
           CreateOrder(o, c, z, q)
      \/ CollectTerminal
      \/ UNCHANGED <<openOrderIds, orders, owner>>
  BY <1>1
     DEF Next, Callback, Step, Pipeline, VerifyAccount, InvoiceSettles,
         InvoiceReminds, InvoiceCancels, LoadOrder, Depart, EndSchedulerTick,
         CustomersTick, SkipOrder, ProcessPendingInvoices, DispatchNoTruck,
         SkipZone, DispatchZone, TrucksTick, SilverOrders, SilverCustomers,
         customerVars, orderVars
<1> QED
  BY <1>2, <1>3, <1>4, <1>5

\* An invoice is sent for an order, and an order for a customer, that silver has.
LEMMA ParentsFollow == RestartInv /\ GeneratorStep => ParentsStillConfirmed'
<1> SUFFICES ASSUME RestartInv, GeneratorStep PROVE ParentsStillConfirmed'
  OBVIOUS
<1>1. TypeOK /\ ExistAsSent /\ ParentsStillConfirmed /\ Next
  BY InvParts DEF GeneratorStep
<1>2. ExistAsSent'
  BY ExistStep
<1>3. /\ \A o \in Orders : OrderInSilver(o) => OrderInSilver(o)'
      /\ customersSeen \subseteq customersSeen'
  BY ShownStays
<1>4. ASSUME NEW i \in Invoices, ivTopic'[i] # << >> PROVE OrderInSilver(i[1])'
  <2>1. i[1] \in Orders
    BY DEF Invoices
  <2>2. CASE istatus[i] # NoStatus
    BY <1>1, <1>3, <2>1, <2>2 DEF ExistAsSent, ParentsStillConfirmed
  <2>3. CASE istatus[i] = NoStatus
    <3>1. InvoiceCreated(i)
      BY <1>1, <1>2, <1>4, <2>3, InvoicesStep
         DEF ExistAsSent, InvoiceMovedOn, InvoiceUntouched
    <3>2. PICK o \in Invoiceable : i = NextInvoice(o)
      BY <3>1 DEF InvoiceCreated
    <3>3. i[1] = o /\ OrderInSilver(o)
      BY <3>2 DEF NextInvoice, Invoiceable
    <3> QED
      BY <1>3, <2>1, <3>3
  <2> QED
    BY <2>2, <2>3
<1>5. ASSUME NEW o \in Orders, poTopic'[o] # << >> PROVE owner'[o] \in customersSeen'
  <2>1. CASE Placed(o)
    BY <1>1, <1>3, <2>1 DEF Placed, CreateOrder, TypeOK
  <2>2. CASE ~Placed(o)
    <3>1. status[o] # NoStatus
      <4>1. status'[o] # NoStatus
        BY <1>2, <1>5 DEF ExistAsSent
      <4> QED
        BY <1>1, <2>2, <4>1, OrdersStep DEF MovedOn, Ended, Untouched
    <3>2. owner'[o] = owner[o]
      <4>1. ASSUME NEW p \in Orders, NEW c \in Customers, NEW z \in Zones,
                   NEW q \in Quantities, CreateOrder(p, c, z, q)
            PROVE  owner'[o] = owner[o]
        <5>1. p # o
          BY <2>2, <4>1 DEF Placed
        <5> QED
          BY <1>1, <4>1, <5>1 DEF CreateOrder, TypeOK
      <4>2. \/ \E p \in Orders, c \in Customers, z \in Zones, q \in Quantities :
                 CreateOrder(p, c, z, q)
            \/ UNCHANGED owner
        BY <1>1
           DEF Next, Callback, Step, Pipeline, VerifyAccount, InvoiceSettles,
               InvoiceReminds, InvoiceCancels, LoadOrder, Depart, EndSchedulerTick,
               CustomersTick, SkipOrder, ProcessPendingInvoices, DispatchNoTruck,
               SkipZone, DispatchZone, TrucksTick, CollectTerminal, SilverOrders,
               SilverCustomers, orderVars
      <4> QED
        BY <4>1, <4>2
    <3> QED
      BY <1>1, <1>3, <3>1, <3>2 DEF ExistAsSent, ParentsStillConfirmed
  <2> QED
    BY <2>1, <2>2
<1> QED
  BY <1>4, <1>5 DEF ParentsStillConfirmed

\* Together: a step of the generator keeps the invariant.
LEMMA GeneratorStepKeeps == RestartInv /\ GeneratorStep => RestartInv'
<1> SUFFICES ASSUME RestartInv, GeneratorStep PROVE RestartInv'
  OBVIOUS
<1>1. TypeOK' /\ SeenWasSent' /\ ExistAsSent' /\ ClaimsHold' /\ OneTruckPerOrder'
      /\ OpenOrdersMatch' /\ ParentsStillConfirmed'
  BY SeenStep, ExistStep, TrucksStep, OpenOrdersFollow, ParentsFollow
<1>2. /\ ivSeen' \in [Invoices -> Nat] /\ liSeen' \in [Orders -> Nat]
      /\ verifiedSeen' \subseteq Customers
      /\ restarts' \in 0..MaxRestarts /\ lagged' \subseteq Orders
  BY DEF RestartInv, GeneratorStep
<1>3. verifiedSent' \subseteq Customers
  BY <1>1 DEF RestartInv, GeneratorStep, TypeOK
<1>4. shared' \subseteq Orders
  <2>1. \A t \in Trucks : Aboard(t)' \subseteq Orders
    <3>1. \A t \in Trucks : manifest'[t] \in Seq(Orders)
      BY <1>1 DEF TypeOK
    <3> QED
      BY <3>1, RangeOfSeq DEF Aboard
  <2>2. shared \subseteq Orders
    BY DEF RestartInv
  <2>3. \A o \in shared' : o \in shared \/ \E t \in Trucks : o \in Aboard(t)'
    BY DEF GeneratorStep
  <2> QED
    BY <2>1, <2>2, <2>3
<1> QED
  BY <1>1, <1>2, <1>3, <1>4 DEF RestartInv

-------------------------------------------------------------------------------
(* The bootstrap, and what silver applies meanwhile.                       *)

\* What is resumed exists: silver shows a status of it, and its customer.
LEMMA ResumedFacts ==
  ASSUME RestartInv
  PROVE  /\ OpenInSilver \subseteq Orders /\ PendingInSilver \subseteq Invoices
         /\ ResumedInvoiceable \subseteq OpenInSilver
         /\ \A o \in OpenInSilver : /\ OrderInSilver(o) /\ poTopic[o] # << >>
                                    /\ ResumedStatus(o) \in OrderStatus
                                    /\ owner[o] \in customersSeen
         /\ \A i \in PendingInSilver : i[1] \in OpenInSilver /\ ivTopic[i] # << >>
<1>1. /\ TypeOK /\ SeenWasSent /\ ParentsStillConfirmed /\ SilverShows
  BY InvParts
<1>2. /\ OpenInSilver \subseteq Orders /\ PendingInSilver \subseteq Invoices
      /\ ResumedInvoiceable \subseteq OpenInSilver
  BY DEF OpenInSilver, PendingInSilver, ResumedInvoiceable
<1>3. ASSUME NEW o \in OpenInSilver
      PROVE  /\ OrderInSilver(o) /\ poTopic[o] # << >>
             /\ ResumedStatus(o) \in OrderStatus
             /\ owner[o] \in customersSeen
  <2>1. o \in Orders /\ SilverStatus(o) \in OrderStatus /\ OrderInSilver(o)
    BY <1>1 DEF OpenInSilver, SilverShows, OrderInSilver
  <2>2. poTopic[o] # << >>
    <3>1. poTopic[o] \in Seq(OrderStatus)
      BY <1>1, <2>1 DEF TypeOK
    <3>2. poSeen[o] \in Nat /\ poSeen[o] > 0 /\ poSeen[o] <= Len(poTopic[o])
      BY <1>1, <2>1 DEF TypeOK, SeenWasSent, SilverShows
    <3>3. Len(poTopic[o]) \in Nat /\ (poTopic[o] = << >> => Len(poTopic[o]) = 0)
      BY <3>1
    <3> QED
      BY <3>2, <3>3
  <2>3. ResumedStatus(o) \in OrderStatus
    BY <2>1 DEF ResumedStatus, OrderStatus
  <2> QED
    BY <1>1, <2>1, <2>2, <2>3 DEF ParentsStillConfirmed
<1>4. \A i \in PendingInSilver : i[1] \in OpenInSilver /\ ivTopic[i] # << >>
  BY <1>1, <1>2 DEF PendingInSilver, SilverShows
<1> QED
  BY <1>2, <1>3, <1>4

\* What the bootstrap rebuilds has the types, whatever silver lacks.
LEMMA RestartTypes == RestartInv /\ Restart => TypeOK'
<1> SUFFICES ASSUME RestartInv, Restart PROVE TypeOK'
  OBVIOUS
<1> DEFINE new == {NextInvoice(o) : o \in ResumedInvoiceable}
           Events == InvoiceStatus \X (0..MaxReminders)
<1>1. TypeOK /\ SilverShows
  BY InvParts
<1>2. /\ OpenInSilver \subseteq Orders /\ PendingInSilver \subseteq Invoices
      /\ ResumedInvoiceable \subseteq OpenInSilver
      /\ \A o \in OpenInSilver : ResumedStatus(o) \in OrderStatus
  BY ResumedFacts
<1>3. new \subseteq Invoices
  BY DEF Restart
<1>4. /\ phase' \in Phases /\ zoneCursor' \in Zones
      /\ registered' \in SUBSET Customers /\ verified' \in SUBSET Customers
      /\ disabled' \in SUBSET Customers /\ verifyTimers' \in SUBSET Customers
  BY <1>1, ZonesAssumption DEF Restart, RestartInv, TypeOK, Zones
<1>5. openOrderIds' \in [Customers -> SUBSET Orders]
  BY <1>2 DEF Restart, ResumedOpenOrderIds
<1>6. orders' \in SUBSET Orders /\ claimed' \in SUBSET Orders
  BY <1>2 DEF Restart
<1>7. status' \in [Orders -> OrderStatus \cup {NoStatus}]
  <2>1. \A o \in Orders : status[o] \in OrderStatus \cup {NoStatus}
    BY <1>1 DEF TypeOK
  <2>2. \A o \in Orders :
          (CASE o \in ResumedInvoiceable -> "invoiced"
             [] o \in OpenInSilver \ ResumedInvoiceable -> ResumedStatus(o)
             [] OTHER -> status[o]) \in OrderStatus \cup {NoStatus}
    BY <1>2, <2>1 DEF OrderStatus
  <2>3. status' = [o \in Orders |->
                     CASE o \in ResumedInvoiceable -> "invoiced"
                       [] o \in OpenInSilver \ ResumedInvoiceable -> ResumedStatus(o)
                       [] OTHER -> status[o]]
    BY DEF Restart
  <2> QED
    BY <2>2, <2>3
<1>8. truckId' \in [Orders -> Trucks \cup {NoTruck}]
  BY <1>1 DEF Restart, TypeOK
<1>9. ahead' \in [Orders -> SUBSET Orders]
  <2>1. PICK r : ahead' = [o \in Orders |->
                             IF o \in ResumedOnHold THEN {p \in ResumedOnHold : r[p] < r[o]}
                                                    ELSE ahead[o]]
    BY DEF Restart
  <2>2. ResumedOnHold \subseteq Orders
    BY <1>2 DEF ResumedOnHold
  <2> QED
    BY <1>1, <2>1, <2>2 DEF TypeOK
<1>10. invoices' \in SUBSET Invoices /\ dueTimers' \in SUBSET Invoices
  BY <1>2, <1>3 DEF Restart
<1>11. istatus' \in [Invoices -> InvoiceStatus \cup {NoStatus}]
  BY <1>1 DEF Restart, TypeOK, InvoiceStatus
<1>12. paymentReminder' \in [Invoices -> 0..MaxReminders]
  <2>1. \A i \in Invoices : SilverInvoice(i)[2] \in 0..MaxReminders
    BY <1>1 DEF SilverShows
  <2>2. \A i \in Invoices : paymentReminder[i] \in 0..MaxReminders
    BY <1>1 DEF TypeOK
  <2> QED
    BY <2>1, <2>2 DEF Restart
<1>13. ivTopic' \in [Invoices -> Seq(Events)]
  <2>1. <<"created", 0>> \in Events /\ <<"pending", 0>> \in Events
    BY BoundsAssumption DEF InvoiceStatus
  <2>2. \A i \in Invoices : ivTopic[i] \in Seq(Events)
    BY <1>1 DEF TypeOK
  <2>3. \A i \in Invoices :
          ivTopic[i] \o <<<<"created", 0>>, <<"pending", 0>>>> \in Seq(Events)
    <3> HIDE DEF Events
    <3>1. ASSUME NEW i \in Invoices
          PROVE  ivTopic[i] \o <<<<"created", 0>>, <<"pending", 0>>>> \in Seq(Events)
      BY <2>1, <2>2, TopicGrows
    <3> QED
      BY <3>1
  <2>4. ivTopic' = [i \in Invoices |->
                      IF i \in new
                      THEN ivTopic[i] \o <<<<"created", 0>>, <<"pending", 0>>>>
                      ELSE ivTopic[i]]
    BY DEF Restart
  <2> HIDE DEF Events, new
  <2> QED
    BY <2>2, <2>3, <2>4
<1>14. poTopic' \in [Orders -> Seq(OrderStatus)]
  <2>1. SendStatus(ResumedInvoiceable, <<"invoiced">>)
    BY DEF Restart
  <2> QED
    BY <1>1, <2>1, SetStatusTyped DEF OrderStatus
<1>15. /\ tstatus' \in [Trucks -> {"free", "loading", "in_transit", "returning"}]
       /\ manifest' \in [Trucks -> Seq(Orders)]
       /\ loadStep' \in [Trucks -> Nat] /\ stops' \in [Trucks -> SUBSET Zones]
       /\ freeTrucks' \in SUBSET Trucks
  BY DEF Restart
<1>16. /\ owner' \in [Orders -> Customers \cup {NoCustomer}]
       /\ zoneId' \in [Orders -> Zones] /\ quantity' \in [Orders -> Nat]
       /\ sales' \in [Orders -> Nat] /\ liTopic' \in [Orders -> Nat]
       /\ poSeen' \in [Orders -> Nat] /\ customersSeen' \in SUBSET Customers
  <2>1. quantity \in [Orders -> Nat] /\ liSeen \in [Orders -> Nat]
    BY <1>1 DEF TypeOK, RestartInv
  <2>2. quantity' \in [Orders -> Nat]
    BY <2>1 DEF Restart, ResumedQuantity
  <2> QED
    BY <1>1, <2>2 DEF Restart, TypeOK, silverVars
<1> QED
  BY <1>4, <1>5, <1>6, <1>7, <1>8, <1>9, <1>10, <1>11, <1>12, <1>13, <1>14, <1>15,
     <1>16 DEF TypeOK

\* A restart sends the invoices of the orders it repairs, and nothing else.
LEMMA RestartSends ==
  ASSUME RestartInv, Restart
  PROVE  /\ \A o \in Orders : /\ Len(poTopic[o]) <= Len(poTopic'[o])
                              /\ o \notin ResumedInvoiceable => poTopic'[o] = poTopic[o]
                              /\ o \in ResumedInvoiceable => poTopic'[o] # << >>
         /\ \A i \in Invoices :
              \/ i[1] \in ResumedInvoiceable /\ istatus'[i] = "pending"
                 /\ Len(ivTopic'[i]) = Len(ivTopic[i]) + 2
              \/ i \in PendingInSilver /\ istatus'[i] = "pending" /\ ivTopic'[i] = ivTopic[i]
              \/ istatus'[i] = istatus[i] /\ ivTopic'[i] = ivTopic[i]
<1> DEFINE new == {NextInvoice(o) : o \in ResumedInvoiceable}
<1>1. TypeOK
  BY InvParts
<1>2. ASSUME NEW o \in Orders
      PROVE  /\ Len(poTopic[o]) <= Len(poTopic'[o])
             /\ o \notin ResumedInvoiceable => poTopic'[o] = poTopic[o]
             /\ o \in ResumedInvoiceable => poTopic'[o] # << >>
  <2>1. poTopic[o] \in Seq(OrderStatus)
    BY <1>1 DEF TypeOK
  <2>2. /\ Len(poTopic[o] \o <<"invoiced">>) = Len(poTopic[o]) + 1
        /\ poTopic[o] \o <<"invoiced">> # << >>
        /\ Len(poTopic[o]) \in Nat
    BY <2>1
  <2>3. poTopic'[o] = IF o \in ResumedInvoiceable THEN poTopic[o] \o <<"invoiced">>
                                                  ELSE poTopic[o]
    BY DEF Restart, SendStatus
  <2> QED
    BY <2>2, <2>3
<1>3. ASSUME NEW i \in Invoices
      PROVE  \/ i[1] \in ResumedInvoiceable /\ istatus'[i] = "pending"
                /\ Len(ivTopic'[i]) = Len(ivTopic[i]) + 2
             \/ i \in PendingInSilver /\ istatus'[i] = "pending" /\ ivTopic'[i] = ivTopic[i]
             \/ istatus'[i] = istatus[i] /\ ivTopic'[i] = ivTopic[i]
  <2>1. ivTopic[i] \in Seq(InvoiceStatus \X (0..MaxReminders))
    BY <1>1 DEF TypeOK
  <2>2. Len(ivTopic[i] \o <<<<"created", 0>>, <<"pending", 0>>>>) = Len(ivTopic[i]) + 2
    BY <2>1
  <2>3. ASSUME i \in new PROVE i[1] \in ResumedInvoiceable
    <3>1. PICK o \in ResumedInvoiceable : i = NextInvoice(o)
      BY <2>3
    <3>2. NextInvoice(o)[1] = o
      BY DEF NextInvoice
    <3> QED
      BY <3>1, <3>2
  <2>4. /\ istatus'[i] = IF i \in PendingInSilver \cup new THEN "pending" ELSE istatus[i]
        /\ ivTopic'[i] = IF i \in new
                         THEN ivTopic[i] \o <<<<"created", 0>>, <<"pending", 0>>>>
                         ELSE ivTopic[i]
    BY DEF Restart
  <2> HIDE DEF new
  <2>5. CASE i \in new
    BY <2>2, <2>3, <2>4, <2>5
  <2>6. CASE i \in PendingInSilver /\ i \notin new
    BY <2>4, <2>6
  <2>7. CASE i \notin PendingInSilver \cup new
    BY <2>4, <2>7
  <2> QED
    BY <2>5, <2>6, <2>7
<1> QED
  BY <1>2, <1>3

\* The next process starts in the invariant, however far silver is behind.
LEMMA RestartKeeps == RestartInv /\ Restart => RestartInv'
<1> SUFFICES ASSUME RestartInv, Restart PROVE RestartInv'
  OBVIOUS
<1>1. /\ TypeOK /\ SeenWasSent /\ ExistAsSent /\ ClaimsHold /\ ParentsStillConfirmed
      /\ ivSeen \in [Invoices -> Nat] /\ SilverShows
  BY InvParts
<1>2. TypeOK'
  BY RestartTypes
<1>3. /\ OpenInSilver \subseteq Orders /\ PendingInSilver \subseteq Invoices
      /\ ResumedInvoiceable \subseteq OpenInSilver
      /\ \A o \in OpenInSilver : /\ OrderInSilver(o) /\ poTopic[o] # << >>
                                 /\ ResumedStatus(o) \in OrderStatus
                                 /\ owner[o] \in customersSeen
      /\ \A i \in PendingInSilver : i[1] \in OpenInSilver /\ ivTopic[i] # << >>
  BY ResumedFacts
<1>4. /\ \A o \in Orders : /\ Len(poTopic[o]) <= Len(poTopic'[o])
                           /\ o \notin ResumedInvoiceable => poTopic'[o] = poTopic[o]
                           /\ o \in ResumedInvoiceable => poTopic'[o] # << >>
      /\ \A i \in Invoices :
           \/ i[1] \in ResumedInvoiceable /\ istatus'[i] = "pending"
              /\ Len(ivTopic'[i]) = Len(ivTopic[i]) + 2
           \/ i \in PendingInSilver /\ istatus'[i] = "pending" /\ ivTopic'[i] = ivTopic[i]
           \/ istatus'[i] = istatus[i] /\ ivTopic'[i] = ivTopic[i]
  BY RestartSends
<1>5. /\ \A o \in Orders : /\ poTopic[o] \in Seq(OrderStatus)
                           /\ poTopic'[o] \in Seq(OrderStatus)
      /\ \A i \in Invoices : /\ ivTopic[i] \in Seq(InvoiceStatus \X (0..MaxReminders))
                             /\ ivTopic'[i] \in Seq(InvoiceStatus \X (0..MaxReminders))
                             /\ i[1] \in Orders
  BY <1>1, <1>2 DEF TypeOK, Invoices
<1>6. UNCHANGED <<poSeen, customersSeen, ivSeen, owner>>
  BY DEF Restart, silverVars
<1>7. SeenWasSent'
  <2>0. UNCHANGED <<liSeen, liTopic>>
    BY DEF Restart
  <2>1. ASSUME NEW o \in Orders PROVE poSeen'[o] <= Len(poTopic'[o])
    <3>1. /\ Len(poTopic[o]) \in Nat /\ Len(poTopic'[o]) \in Nat /\ poSeen[o] \in Nat
          /\ poSeen[o] <= Len(poTopic[o]) /\ Len(poTopic[o]) <= Len(poTopic'[o])
      BY <1>1, <1>4, <1>5 DEF TypeOK, SeenWasSent
    <3> QED
      BY <1>6, <3>1
  <2>2. ASSUME NEW i \in Invoices PROVE ivSeen'[i] <= Len(ivTopic'[i])
    <3>1. /\ Len(ivTopic[i]) \in Nat /\ Len(ivTopic'[i]) \in Nat /\ ivSeen[i] \in Nat
          /\ ivSeen[i] <= Len(ivTopic[i])
      BY <1>1, <1>5 DEF SeenWasSent
    <3>2. Len(ivTopic[i]) <= Len(ivTopic'[i])
      BY <1>4, <3>1
    <3> QED
      BY <1>6, <3>1, <3>2
  <2> QED
    BY <1>1, <2>0, <2>1, <2>2 DEF SeenWasSent
<1>8. \A o \in Orders :
        /\ o \in OpenInSilver => status'[o] \in OrderStatus
        /\ o \in ResumedInvoiceable => status'[o] = "invoiced"
        /\ o \in OpenInSilver \ ResumedInvoiceable => status'[o] = ResumedStatus(o)
        /\ o \notin OpenInSilver => status'[o] = status[o] /\ o \notin ResumedInvoiceable
  BY <1>3 DEF Restart, OrderStatus
<1>9. ExistAsSent'
  <2>1. ASSUME NEW o \in Orders
        PROVE  /\ status'[o] = NoStatus <=> poTopic'[o] = << >>
               /\ status'[o] = NoStatus => o \notin orders' /\ liTopic'[o] = 0
    <3>1. orders' = OpenInSilver /\ liTopic' = liTopic
      BY DEF Restart
    <3>2. CASE o \in OpenInSilver
      BY <1>3, <1>4, <1>8, <3>2 DEF OrderStatus, NoStatus
    <3>3. CASE o \notin OpenInSilver
      BY <1>1, <1>4, <1>8, <3>1, <3>3 DEF ExistAsSent
    <3> QED
      BY <3>2, <3>3
  <2>2. ASSUME NEW i \in Invoices PROVE istatus'[i] = NoStatus <=> ivTopic'[i] = << >>
    <3>1. Len(ivTopic'[i]) = Len(ivTopic[i]) + 2 => ivTopic'[i] # << >>
      BY <1>5
    <3> QED
      BY <1>1, <1>3, <1>4, <3>1 DEF ExistAsSent, NoStatus
  <2>3. ASSUME NEW o \in Orders, NEW i \in InvoicesOf(o), status'[o] = NoStatus
        PROVE  istatus'[i] = NoStatus
    <3>1. o \notin OpenInSilver /\ status[o] = NoStatus
      BY <1>8, <2>3 DEF OrderStatus, NoStatus
    <3>2. i \in Invoices /\ i[1] = o
      BY DEF InvoicesOf
    <3>3. istatus'[i] = istatus[i]
      BY <1>3, <1>4, <3>1, <3>2
    <3> QED
      BY <1>1, <3>1, <3>3 DEF ExistAsSent
  \* Orders resumed as "created" have a pending invoice, or get one at once.
  <2>4. ASSUME NEW o \in Orders, status'[o] = "created", o \in orders'
        PROVE  invoices' \cap InvoicesOf(o) # {}
    <3>1. o \in OpenInSilver /\ o \notin ResumedInvoiceable /\ ResumedStatus(o) = "created"
      BY <1>8, <2>4 DEF Restart
    <3>2. InvoicesOf(o) \cap PendingInSilver # {}
      BY <3>1 DEF ResumedInvoiceable
    <3>3. PendingInSilver \subseteq invoices'
      BY DEF Restart
    <3> QED
      BY <3>2, <3>3
  <2> QED
    BY <2>1, <2>2, <2>3, <2>4 DEF ExistAsSent, InvoicesOf
<1>10. ClaimsHold' /\ OneTruckPerOrder'
  <2>1. \A t \in Trucks : manifest'[t] = << >>
    BY DEF Restart
  <2>2. \A t \in Trucks : Aboard(t)' = {}
    BY <2>1 DEF Aboard, Range
  <2>3. ASSUME NEW o \in Orders PROVE o \notin ahead'[o]
    <3>1. PICK r \in Bijection(ResumedOnHold, 1..Cardinality(ResumedOnHold)) :
            ahead' = [p \in Orders |->
                        IF p \in ResumedOnHold THEN {q \in ResumedOnHold : r[q] < r[p]}
                                               ELSE ahead[p]]
      BY DEF Restart
    <3>2. CASE o \in ResumedOnHold
      <4>1. r[o] \in 1..Cardinality(ResumedOnHold)
        BY <3>1, <3>2 DEF Bijection, Injection
      <4>2. ~(r[o] < r[o])
        BY <4>1
      <4> QED
        BY <3>1, <3>2, <4>2
    <3>3. CASE o \notin ResumedOnHold
      BY <1>1, <3>1, <3>3 DEF ClaimsHold
    <3> QED
      BY <3>2, <3>3
  <2> QED
    BY <2>1, <2>2, <2>3 DEF ClaimsHold, OneTruckPerOrder
<1>11. OpenOrdersMatch'
  <2>1. \A c \in Customers : openOrderIds'[c] = ResumedOpenOrderIds(c)
    BY DEF Restart
  <2>2. \A c \in Customers : ResumedOpenOrderIds(c) = {o \in OpenInSilver : owner[o] = c}
    BY <1>3 DEF ResumedOpenOrderIds
  <2>3. orders' = OpenInSilver
    BY DEF Restart
  <2> QED
    BY <1>6, <2>1, <2>2, <2>3 DEF OpenOrdersMatch
<1>12. ParentsStillConfirmed'
  <2>1. SilverShows'
    <3>1. (TypeOK /\ SeenWasSent /\ ivSeen \in [Invoices -> Nat])' => SilverShows'
      BY ShownBySilver, PTL
    <3> QED
      BY <1>1, <1>2, <1>6, <1>7, <3>1
  <2>2. \A o \in Orders : OrderInSilver(o) => OrderInSilver(o)'
    BY <1>1, <1>6, <2>1 DEF SilverShows
  <2>3. ASSUME NEW i \in Invoices, ivTopic'[i] # << >> PROVE OrderInSilver(i[1])'
    <3>1. i[1] \in ResumedInvoiceable \/ ivTopic'[i] = ivTopic[i]
      BY <1>4
    <3> QED
      BY <1>1, <1>3, <1>5, <2>2, <2>3, <3>1 DEF ParentsStillConfirmed
  <2>4. ASSUME NEW o \in Orders, poTopic'[o] # << >> PROVE owner'[o] \in customersSeen'
    BY <1>1, <1>3, <1>4, <1>6, <2>4 DEF ParentsStillConfirmed
  <2> QED
    BY <2>3, <2>4 DEF ParentsStillConfirmed
<1>13. /\ ivSeen' \in [Invoices -> Nat] /\ liSeen' \in [Orders -> Nat]
       /\ verifiedSent' \subseteq Customers /\ verifiedSeen' \subseteq Customers
       /\ restarts' \in 0..MaxRestarts /\ lagged' \cup shared' \subseteq Orders
  BY RestartsAssumption DEF RestartInv, Restart
<1> QED
  BY <1>2, <1>7, <1>9, <1>10, <1>11, <1>12, <1>13 DEF RestartInv

\* What silver applies of invoices and verifications nothing above refers to.
LEMMA SilverKeeps ==
  ASSUME RestartInv,
         \/ \E i \in Invoices : \E n \in 1..Len(ivTopic[i]) : SilverInvoices(i, n)
         \/ \E o \in Orders : \E n \in 1..liTopic[o] : SilverItems(o, n)
         \/ \E c \in Customers : SilverVerified(c)
         \/ UNCHANGED allVars
  PROVE  RestartInv'
<1>1. UNCHANGED <<vars, verifiedSent, restarts, lagged, shared>>
  BY DEF SilverInvoices, SilverItems, SilverVerified, allVars, restartVars
<1>2. /\ ivSeen' \in [Invoices -> Nat] /\ verifiedSeen' \subseteq Customers
      /\ liSeen' \in [Orders -> Nat]
      /\ \A i \in Invoices : ivSeen'[i] <= Len(ivTopic[i])
      /\ \A o \in Orders : liSeen'[o] <= liTopic[o]
  <2>1. /\ ivSeen \in [Invoices -> Nat] /\ verifiedSeen \subseteq Customers
        /\ liSeen \in [Orders -> Nat]
        /\ \A i \in Invoices : ivSeen[i] <= Len(ivTopic[i])
        /\ \A o \in Orders : liSeen[o] <= liTopic[o]
    BY DEF RestartInv, SeenWasSent
  <2>2. ASSUME NEW i \in Invoices, NEW n \in 1..Len(ivTopic[i]), SilverInvoices(i, n)
        PROVE  /\ ivSeen' \in [Invoices -> Nat] /\ UNCHANGED <<verifiedSeen, liSeen>>
               /\ \A j \in Invoices : ivSeen'[j] <= Len(ivTopic[j])
    <3>1. Len(ivTopic[i]) \in Nat
      BY DEF RestartInv, TypeOK
    <3> QED
      BY <2>1, <2>2, <3>1 DEF SilverInvoices
  <2>3. ASSUME NEW c \in Customers, SilverVerified(c)
        PROVE  UNCHANGED <<ivSeen, liSeen>> /\ verifiedSeen' \subseteq Customers
    BY <2>1, <2>3 DEF SilverVerified
  <2>4. CASE UNCHANGED allVars
    BY <2>1, <2>4 DEF allVars, restartVars
  <2>5. ASSUME NEW o \in Orders, NEW n \in 1..liTopic[o], SilverItems(o, n)
        PROVE  /\ liSeen' \in [Orders -> Nat] /\ UNCHANGED <<verifiedSeen, ivSeen>>
               /\ \A p \in Orders : liSeen'[p] <= liTopic[p]
    <3>1. liTopic[o] \in Nat
      BY DEF RestartInv, TypeOK
    <3> QED
      BY <2>1, <2>5, <3>1 DEF SilverItems
  <2> QED
    BY <2>1, <2>2, <2>3, <2>4, <2>5
<1>3. TypeOK' = TypeOK
  BY <1>1 DEF vars, loopVars, customerVars, orderVars, invoiceVars, truckVars, topicVars,
              silverVars, TypeOK
<1>4. SeenWasSent'
  BY <1>1, <1>2 DEF RestartInv, SeenWasSent, vars, topicVars, silverVars
<1>5. ExistAsSent' /\ ClaimsHold' /\ OneTruckPerOrder'
  BY <1>1 DEF RestartInv, ExistAsSent, ClaimsHold, OneTruckPerOrder, Aboard, vars,
              orderVars, invoiceVars, truckVars, topicVars
<1>6. OpenOrdersMatch' /\ ParentsStillConfirmed'
  BY <1>1 DEF RestartInv, OpenOrdersMatch, ParentsStillConfirmed, OrderInSilver,
              SilverStatus, vars, customerVars, orderVars, topicVars, silverVars
<1> QED
  BY <1>1, <1>2, <1>3, <1>4, <1>5, <1>6 DEF RestartInv

-------------------------------------------------------------------------------
(* The theorems.                                                           *)

\* The first process starts in the invariant.
LEMMA RestartInvInit == RestartInit => RestartInv
<1> SUFFICES ASSUME RestartInit PROVE RestartInv
  OBVIOUS
<1>1. Init
  BY DEF RestartInit
<1>2. TypeOK
  BY <1>1, TypeInit
<1>3. /\ \A o \in Orders : /\ status[o] = NoStatus /\ poTopic[o] = << >>
                           /\ poSeen[o] = 0 /\ ahead[o] = {}
      /\ \A i \in Invoices : /\ istatus[i] = NoStatus /\ ivTopic[i] = << >>
                             /\ ivSeen[i] = 0
      /\ \A o \in Orders : liSeen[o] = 0 /\ liTopic[o] = 0
      /\ orders = {}
      /\ \A t \in Trucks : manifest[t] = << >>
  BY <1>1 DEF Init, RestartInit
<1>4. \A t \in Trucks : Aboard(t) = {}
  BY <1>3 DEF Aboard, Range
<1>5. SeenWasSent /\ ExistAsSent /\ ClaimsHold /\ OneTruckPerOrder
  BY <1>3, <1>4 DEF SeenWasSent, ExistAsSent, ClaimsHold, OneTruckPerOrder, InvoicesOf
<1>6. OpenOrdersMatch /\ ParentsStillConfirmed
  BY <1>1, <1>3 DEF Init, OpenOrdersMatch, ParentsStillConfirmed
<1> QED
  BY <1>2, <1>5, <1>6, RestartsAssumption DEF RestartInit, RestartInv

\* The inductive invariant holds in every process, the first and all that follow.
THEOREM RestartInvariance == RestartSpec => []RestartInv
<1>1. RestartInv /\ [RestartNext]_allVars => RestartInv'
  BY GeneratorStepKeeps, RestartKeeps, SilverKeeps DEF RestartNext
<1> QED
  BY <1>1, RestartInvInit, PTL DEF RestartSpec

\* No restart puts an order on two trucks, or twice on one, although all claims are
\* forgotten and what was on a truck is queued again.
THEOREM OneTruckAfterRestarts == RestartSpec => []OneTruckPerOrder
<1>1. RestartInv => OneTruckPerOrder
  BY DEF RestartInv
<1> QED
  BY <1>1, RestartInvariance, PTL

\* The sets of open orders are rebuilt exactly: of what silver shows, every order
\* finds its customer.
THEOREM OpenOrdersRebuilt == RestartSpec => []OpenOrdersMatch
<1>1. RestartInv => OpenOrdersMatch
  BY DEF RestartInv
<1> QED
  BY <1>1, RestartInvariance, PTL

\* Invoices, those that a restart repairs among them, are sent only when silver has
\* their order, and orders only when it has their customer.
THEOREM ParentsConfirmedAfterRestarts == RestartSpec => []ParentsStillConfirmed
<1>1. RestartInv => ParentsStillConfirmed
  BY DEF RestartInv
<1> QED
  BY <1>1, RestartInvariance, PTL

-------------------------------------------------------------------------------
(* The steady orders: a step of the generator.                             *)

\* What the proofs use of the invariant and of the step.
LEMMA SteadyParts ==
  ASSUME SteadyInv, GeneratorStep
  PROVE  /\ RestartInv /\ TypeOK /\ ExistAsSent /\ ClaimsHold /\ OneTruckPerOrder
         /\ SteadyOrders /\ SteadyInvoices /\ SteadyTrucks
         /\ TypeOK' /\ Next
         /\ lagged' = lagged /\ Steady' = Steady /\ shared \subseteq shared'
<1>1. RestartInv /\ SteadyOrders /\ SteadyInvoices /\ SteadyTrucks
  BY DEF SteadyInv
<1>2. Next /\ lagged' = lagged /\ shared \subseteq shared'
  BY DEF GeneratorStep
<1> QED
  BY <1>1, <1>2, InvParts, SeenStep DEF Steady

\* Orders stay in the dict until they are closed or cancelled.
LEMMA SteadyOrdersStep == SteadyInv /\ GeneratorStep => SteadyOrders'
<1> SUFFICES ASSUME SteadyInv, GeneratorStep, NEW o \in Steady
             PROVE  /\ status'[o] \notin {"paid", "delivered"}
                    /\ status'[o] \notin {NoStatus, "closed", "cancelled"} => o \in orders'
                    /\ \/ status'[o] = LastSent(o)'
                       \/ /\ status'[o] = "on-hold"
                          /\ LastSent(o)' \in {"loaded", "in-transit"}
  BY SteadyParts DEF SteadyOrders
<1>1. TypeOK /\ SteadyOrders /\ Next /\ o \in Orders
  BY SteadyParts DEF Steady
<1>2. o \in orders => o \in orders' \/ status[o] \in {"closed", "cancelled"}
  BY <1>1
     DEF Next, Callback, Step, Pipeline, VerifyAccount, InvoiceSettles, InvoiceReminds,
         InvoiceCancels, LoadOrder, Depart, EndSchedulerTick, CustomersTick, CreateOrder,
         SkipOrder, ProcessPendingInvoices, DispatchNoTruck, SkipZone, DispatchZone,
         TrucksTick, CollectTerminal, Terminal, SilverOrders, SilverCustomers, orderVars
<1>3. CASE MovedOn(o)
  BY <1>1, <1>2, <1>3 DEF SteadyOrders, MovedOn, MoveEnds, Ended
<1>4. CASE Untouched(o)
  <2>1. LastSent(o)' = LastSent(o)
    BY <1>4 DEF Untouched, LastSent
  <2> QED
    BY <1>1, <1>2, <1>4, <2>1 DEF SteadyOrders, Untouched
<1>5. CASE Placed(o)
  <2>1. /\ status'[o] = "created" /\ o \in orders'
        /\ poTopic'[o] = poTopic[o] \o <<"created">>
    BY <1>1, <1>5 DEF Placed, CreateOrder, SetStatus, SendStatus
  <2>2. poTopic[o] \in Seq(OrderStatus)
    BY <1>1 DEF TypeOK
  <2>3. LastSent(o)' = "created"
    <3> DEFINE topic == poTopic[o] \o <<"created">>
    <3>1. topic # << >> /\ topic[Len(topic)] = "created"
      BY <2>2
    <3> HIDE DEF topic
    <3> QED
      BY <2>1, <3>1 DEF LastSent, topic
  <2> QED
    BY <2>1, <2>3
<1> QED
  BY <1>1, <1>3, <1>4, <1>5, OrdersStep

-------------------------------------------------------------------------------
(* Their invoices.                                                         *)

\* A timer of a steady order is that of its one invoice, which it waits for.
LEMMA SteadyTimer ==
  ASSUME SteadyInv, NEW i \in Invoices, i \in dueTimers, i[1] \in Steady
  PROVE  /\ i[2] = 1 /\ istatus[i] = "pending" /\ status[i[1]] = "invoiced"
         /\ \A j \in Invoices : j[2] = 1 /\ j[1] = i[1] => j = i
<1>1. \A j \in Invoices : j = <<j[1], j[2]>>
  BY DEF Invoices
<1> QED
  BY <1>1 DEF SteadyInv, SteadyInvoices, NoStatus

\* What sending an event of an invoice changes.
LEMMA EventSent ==
  ASSUME TypeOK, NEW i \in Invoices, NEW s \in InvoiceStatus, NEW n, InvoiceEvent(i, s, n)
  PROVE  \A j \in Invoices : /\ istatus'[j] = IF j = i THEN s ELSE istatus[j]
                             /\ LastInvoice(j)' = IF j = i THEN s ELSE LastInvoice(j)
<1> SUFFICES ASSUME NEW j \in Invoices
             PROVE  /\ istatus'[j] = IF j = i THEN s ELSE istatus[j]
                    /\ LastInvoice(j)' = IF j = i THEN s ELSE LastInvoice(j)
  OBVIOUS
<1> DEFINE topic == Append(ivTopic[i], <<s, n>>)
<1>1. /\ istatus'[j] = IF j = i THEN s ELSE istatus[j]
      /\ ivTopic'[j] = IF j = i THEN topic ELSE ivTopic[j]
  BY DEF InvoiceEvent, TypeOK
<1>2. topic # << >> /\ topic[Len(topic)] = <<s, n>>
  <2>1. ivTopic[i] \in Seq(InvoiceStatus \X (0..MaxReminders))
    BY DEF TypeOK
  <2> QED
    BY <2>1
<1> HIDE DEF topic
<1> QED
  BY <1>1, <1>2 DEF LastInvoice

\* What an order may do unnoticed by its invoices: it is placed, or moved along paid.
SamePayment(o) ==
  \/ /\ \/ status'[o] = status[o]
        \/ status[o] \in Paid /\ status'[o] \in Paid
     /\ quantity'[o] = quantity[o] /\ liTopic'[o] = liTopic[o]
  \/ /\ status[o] = NoStatus /\ status'[o] = "created"
     /\ quantity'[o] = liTopic'[o]

\* An order has the line items that were sent, and their stock was taken when it was paid.
ItemsTaken(o) ==
  /\ quantity[o] = liTopic[o]
  /\ sales[o] = IF status[o] \in Paid THEN quantity[o] ELSE 0

\* A step that does nothing else keeps the invoices as they should be.
LEMMA SteadyPaid ==
  ASSUME SteadyInv, GeneratorStep, UNCHANGED <<istatus, ivTopic, dueTimers, sales>>,
         \A o \in Steady : SamePayment(o)
  PROVE  SteadyInvoices'
<1>1. SteadyInvoices /\ Steady' = Steady
  BY SteadyParts
<1>2. \A i \in Invoices : LastInvoice(i)' = LastInvoice(i)
  BY DEF LastInvoice
<1> QED
  BY <1>1, <1>2 DEF SteadyInvoices, SamePayment, ItemsTaken, Paid, NoStatus

\* The payment of an invoice: that of a steady order is never refused.
LEMMA SteadySettles ==
  ASSUME SteadyInv, GeneratorStep, NEW i \in Invoices, InvoiceSettles(i)
  PROVE  SteadyInvoices'
<1> DEFINE o == i[1]
<1>1. TypeOK /\ SteadyInvoices /\ Steady' = Steady /\ o \in Orders
  BY SteadyParts DEF Invoices
<1>2. sales \in [Orders -> Nat] /\ quantity[o] \in Nat /\ UNCHANGED <<quantity, liTopic>>
  BY <1>1 DEF TypeOK, InvoiceSettles
<1>3. \A p \in Orders \ {o} : status'[p] = status[p] /\ sales'[p] = sales[p]
  <2>1. MarkPaid(o) \/ UNCHANGED <<status, sales>>
    BY DEF InvoiceSettles
  <2> QED
    BY <1>2, <2>1 DEF MarkPaid, SetStatus
<1>4. ASSUME o \in Steady
      PROVE  /\ i[2] = 1 /\ status[o] = "invoiced" /\ istatus[i] = "pending"
             /\ \A j \in Invoices : j[2] = 1 /\ j[1] = o => j = i
             /\ status'[o] = "on-hold" /\ sales'[o] = sales[o] + quantity[o]
  <2>1. /\ i[2] = 1 /\ status[o] = "invoiced" /\ istatus[i] = "pending"
        /\ \A j \in Invoices : j[2] = 1 /\ j[1] = o => j = i
    BY <1>4, SteadyTimer DEF InvoiceSettles
  <2>2. OrderMay(o, "paid")
    BY <2>1 DEF OrderMay, OrderTransitions, OrderStatus, NoStatus
  <2>3. MarkPaid(o)
    BY <2>2 DEF InvoiceSettles
  <2> QED
    BY <1>1, <1>2, <2>1, <2>3 DEF MarkPaid, SetStatus
<1>5. /\ \A j \in Invoices : /\ istatus'[j] = IF j = i THEN "settled" ELSE istatus[j]
                             /\ LastInvoice(j)' = IF j = i THEN "settled"
                                                           ELSE LastInvoice(j)
      /\ dueTimers' = dueTimers \ {i}
  BY <1>1, EventSent DEF InvoiceSettles, InvoiceStatus
<1>6. \A j \in Invoices : j[1] \in Orders
  BY DEF Invoices
<1>7. \A p \in Steady : ItemsTaken(p)'
  <2>1. o \in Steady => sales[o] = 0
    BY <1>1, <1>4 DEF SteadyInvoices, Paid
  <2> QED
    BY <1>1, <1>2, <1>3, <1>4, <2>1 DEF SteadyInvoices, ItemsTaken, Paid, Steady
<1>8. ASSUME NEW j \in Invoices, j[1] \in Steady
      PROVE  /\ istatus'[j] = LastInvoice(j)'
             /\ istatus'[j] = "pending" <=> j \in dueTimers'
             /\ j[2] # 1 => istatus'[j] = NoStatus
             /\ j[2] = 1 =>
                  /\ istatus'[j] = NoStatus <=> status'[j[1]] \in {NoStatus, "created"}
                  /\ istatus'[j] = "pending" <=> status'[j[1]] = "invoiced"
                  /\ istatus'[j] = "settled" <=> status'[j[1]] \in Paid
                  /\ istatus'[j] = "cancelled" <=> status'[j[1]] = "cancelled"
  <2>1. CASE j[1] = o
    BY <1>1, <1>4, <1>5, <1>8, <2>1 DEF SteadyInvoices, Paid, NoStatus
  <2>2. CASE j[1] # o
    BY <1>1, <1>3, <1>5, <1>6, <1>8, <2>2 DEF SteadyInvoices, Steady
  <2> QED
    BY <2>1, <2>2
<1> HIDE DEF o
<1> QED
  BY <1>1, <1>7, <1>8 DEF SteadyInvoices, ItemsTaken

\* The cancellation of an invoice cancels the order: a steady one still waits for it.
LEMMA SteadyCancels ==
  ASSUME SteadyInv, GeneratorStep, NEW i \in Invoices, InvoiceCancels(i)
  PROVE  SteadyInvoices'
<1> DEFINE o == i[1]
<1>1. TypeOK /\ SteadyInvoices /\ Steady' = Steady /\ o \in Orders
  BY SteadyParts DEF Invoices
<1>2. /\ \A p \in Orders \ {o} : status'[p] = status[p]
      /\ UNCHANGED <<sales, quantity, liTopic>>
  BY <1>1 DEF InvoiceCancels, SetStatus
<1>3. ASSUME o \in Steady
      PROVE  /\ i[2] = 1 /\ status[o] = "invoiced" /\ istatus[i] = "pending"
             /\ \A j \in Invoices : j[2] = 1 /\ j[1] = o => j = i
             /\ status'[o] = "cancelled"
  <2>1. /\ i[2] = 1 /\ status[o] = "invoiced" /\ istatus[i] = "pending"
        /\ \A j \in Invoices : j[2] = 1 /\ j[1] = o => j = i
    BY <1>3, SteadyTimer DEF InvoiceCancels
  <2>2. OrderMay(o, "cancelled")
    BY <2>1 DEF OrderMay, OrderTransitions, OrderStatus, NoStatus
  <2> QED
    BY <1>1, <2>1, <2>2 DEF InvoiceCancels, SetStatus
<1>4. /\ \A j \in Invoices : /\ istatus'[j] = IF j = i THEN "cancelled" ELSE istatus[j]
                             /\ LastInvoice(j)' = IF j = i THEN "cancelled"
                                                           ELSE LastInvoice(j)
      /\ dueTimers' = dueTimers \ {i}
  BY <1>1, EventSent DEF InvoiceCancels, InvoiceStatus
<1>5. \A j \in Invoices : j[1] \in Orders
  BY DEF Invoices
<1>6. \A p \in Steady : ItemsTaken(p)'
  BY <1>1, <1>2, <1>3 DEF SteadyInvoices, ItemsTaken, Paid, Steady
<1>7. ASSUME NEW j \in Invoices, j[1] \in Steady
      PROVE  /\ istatus'[j] = LastInvoice(j)'
             /\ istatus'[j] = "pending" <=> j \in dueTimers'
             /\ j[2] # 1 => istatus'[j] = NoStatus
             /\ j[2] = 1 =>
                  /\ istatus'[j] = NoStatus <=> status'[j[1]] \in {NoStatus, "created"}
                  /\ istatus'[j] = "pending" <=> status'[j[1]] = "invoiced"
                  /\ istatus'[j] = "settled" <=> status'[j[1]] \in Paid
                  /\ istatus'[j] = "cancelled" <=> status'[j[1]] = "cancelled"
  <2>1. CASE j[1] = o
    BY <1>1, <1>3, <1>4, <1>7, <2>1 DEF SteadyInvoices, Paid, NoStatus
  <2>2. CASE j[1] # o
    BY <1>1, <1>2, <1>4, <1>5, <1>7, <2>2 DEF SteadyInvoices, Steady
  <2> QED
    BY <2>1, <2>2
<1> HIDE DEF o
<1> QED
  BY <1>1, <1>6, <1>7 DEF SteadyInvoices, ItemsTaken

\* A reminder: the invoice is pending as before.
LEMMA SteadyReminds ==
  ASSUME SteadyInv, GeneratorStep, NEW i \in Invoices, InvoiceReminds(i)
  PROVE  SteadyInvoices'
<1>1. TypeOK /\ SteadyInvoices /\ Steady' = Steady
  BY SteadyParts
<1>2. /\ istatus[i] = "pending"
      /\ UNCHANGED <<status, sales, dueTimers, quantity, liTopic>>
  BY DEF InvoiceReminds, orderVars
<1>3. \A j \in Invoices : /\ istatus'[j] = IF j = i THEN "pending" ELSE istatus[j]
                          /\ LastInvoice(j)' = IF j = i THEN "pending"
                                                        ELSE LastInvoice(j)
  BY <1>1, EventSent DEF InvoiceReminds, InvoiceStatus
<1>4. \A j \in Invoices : /\ istatus'[j] = istatus[j]
                          /\ j[1] \in Steady => LastInvoice(j)' = LastInvoice(j)
  BY <1>1, <1>2, <1>3 DEF SteadyInvoices
<1> QED
  BY <1>1, <1>2, <1>4 DEF SteadyInvoices

\* The invoicing of the orders that silver has confirmed: each gets its first one.
LEMMA SteadyInvoiced ==
  ASSUME SteadyInv, GeneratorStep, ProcessPendingInvoices
  PROVE  SteadyInvoices'
<1> DEFINE new == {NextInvoice(o) : o \in Invoiceable}
<1>1. TypeOK /\ ExistAsSent /\ SteadyInvoices /\ Steady' = Steady
  BY SteadyParts
<1>2. \A o \in Invoiceable : /\ o \in Orders /\ status[o] = "created"
                             /\ NextInvoice(o) = <<o, 1>> /\ NextInvoice(o) \in Invoices
  BY <1>1, InvoiceableHasNone
<1>3. \A i \in Invoices : i \in new <=> i[2] = 1 /\ i[1] \in Invoiceable
  <2>1. \A i \in Invoices : i = <<i[1], i[2]>>
    BY DEF Invoices
  <2>2. new = {<<o, 1>> : o \in Invoiceable}
    BY <1>2
  <2> HIDE DEF new
  <2> QED
    BY <2>1, <2>2
<1>4. /\ CreateInvoices(Invoiceable)
      /\ UNCHANGED <<sales, quantity, liTopic>>
  BY DEF ProcessPendingInvoices
<1>5. \A o \in Orders :
        status'[o] = IF o \in Invoiceable THEN "invoiced" ELSE status[o]
  BY <1>4 DEF CreateInvoices, SetStatus
<1>6. /\ \A i \in Invoices : istatus'[i] = IF i \in new THEN "pending" ELSE istatus[i]
      /\ dueTimers' = dueTimers \cup new
  BY <1>4 DEF CreateInvoices
<1>7. ASSUME NEW i \in Invoices
      PROVE  LastInvoice(i)' = IF i \in new THEN "pending" ELSE LastInvoice(i)
  <2> DEFINE topic == ivTopic[i] \o <<<<"created", 0>>, <<"pending", 0>>>>
  <2>1. ivTopic[i] \in Seq(InvoiceStatus \X (0..MaxReminders))
    BY <1>1 DEF TypeOK
  <2>2. topic # << >> /\ topic[Len(topic)] = <<"pending", 0>>
    <3>1. Len(topic) = Len(ivTopic[i]) + 2 /\ Len(ivTopic[i]) \in Nat
      BY <2>1
    <3>2. topic[Len(ivTopic[i]) + 2] = <<"pending", 0>>
      BY <2>1
    <3> QED
      BY <3>1, <3>2
  <2>3. ivTopic'[i] = IF i \in new THEN topic ELSE ivTopic[i]
    BY <1>4 DEF CreateInvoices
  <2> HIDE DEF topic, new
  <2> QED
    BY <2>2, <2>3 DEF LastInvoice
<1> HIDE DEF new
<1>8. \A i \in Invoices : i[1] \in Orders
  BY DEF Invoices
<1>9. \A o \in Steady : ItemsTaken(o)'
  BY <1>1, <1>2, <1>4, <1>5 DEF SteadyInvoices, ItemsTaken, Paid, Steady
<1>10. ASSUME NEW j \in Invoices, j[1] \in Steady
       PROVE  /\ istatus'[j] = LastInvoice(j)'
              /\ istatus'[j] = "pending" <=> j \in dueTimers'
              /\ j[2] # 1 => istatus'[j] = NoStatus
              /\ j[2] = 1 =>
                   /\ istatus'[j] = NoStatus <=> status'[j[1]] \in {NoStatus, "created"}
                   /\ istatus'[j] = "pending" <=> status'[j[1]] = "invoiced"
                   /\ istatus'[j] = "settled" <=> status'[j[1]] \in Paid
                   /\ istatus'[j] = "cancelled" <=> status'[j[1]] = "cancelled"
  <2>1. CASE j \in new
    <3>1. j[2] = 1 /\ j[1] \in Invoiceable
      BY <1>3, <2>1
    <3> QED
      BY <1>5, <1>6, <1>7, <1>8, <2>1, <3>1 DEF Paid, NoStatus
  <2>2. CASE j \notin new
    <3>1. j[2] # 1 \/ status'[j[1]] = status[j[1]]
      BY <1>3, <1>5, <1>8, <2>2
    <3> QED
      BY <1>1, <1>6, <1>7, <1>10, <2>2, <3>1 DEF SteadyInvoices
  <2> QED
    BY <2>1, <2>2
<1> QED
  BY <1>1, <1>9, <1>10 DEF SteadyInvoices, ItemsTaken

\* Every step of the generator keeps the steady orders and their invoices together.
LEMMA SteadyInvoicesStep == SteadyInv /\ GeneratorStep => SteadyInvoices'
<1> SUFFICES ASSUME SteadyInv, GeneratorStep PROVE SteadyInvoices'
  OBVIOUS
<1>1. TypeOK /\ Next /\ Steady \subseteq Orders
  BY SteadyParts DEF Steady
<1>2. CASE UNCHANGED <<istatus, ivTopic, dueTimers, sales, status, quantity, liTopic>>
  BY <1>2, SteadyPaid DEF SamePayment
<1>3. ASSUME NEW o \in Orders, NEW c \in Customers, NEW z \in Zones,
             NEW q \in Quantities, CreateOrder(o, c, z, q)
      PROVE  SteadyInvoices'
  <2>1. /\ UNCHANGED <<istatus, ivTopic, dueTimers, sales>>
        /\ status[o] = NoStatus /\ SetStatus({o}, "created")
        /\ quantity' = [quantity EXCEPT ![o] = q] /\ liTopic' = [liTopic EXCEPT ![o] = q]
    BY <1>3 DEF CreateOrder, invoiceVars
  <2>2. quantity \in [Orders -> Nat] /\ liTopic \in [Orders -> Nat]
    BY <1>1 DEF TypeOK
  <2>3. \A p \in Steady : SamePayment(p)
    BY <1>1, <2>1, <2>2 DEF SetStatus, SamePayment
  <2> QED
    BY <2>1, <2>3, SteadyPaid
<1>4. ASSUME NEW t \in Trucks, LoadOrder(t) PROVE SteadyInvoices'
  <2> DEFINE p == manifest[t][loadStep[t] + 1]
  <2>1. p \in Orders
    BY <1>1, <1>4, AboardTyped DEF LoadOrder, TypeOK
  <2>2. \/ OrderMay(p, "loaded") /\ SetStatus({p}, "loaded")
        \/ status' = status
    BY <1>4 DEF LoadOrder
  <2>3. UNCHANGED <<istatus, ivTopic, dueTimers, sales, quantity, liTopic>>
    BY <1>4 DEF LoadOrder, invoiceVars, topicVars
  <2> HIDE DEF p
  <2>4. OrderMay(p, "loaded") => status[p] \in Paid
    BY <1>1, <2>1, MayFacts DEF Paid
  <2>5. \A o \in Steady : SamePayment(o)
    BY <1>1, <2>2, <2>3, <2>4 DEF SetStatus, SamePayment, Paid
  <2> QED
    BY <2>3, <2>5, SteadyPaid
<1>5. ASSUME NEW t \in Trucks, Depart(t) PROVE SteadyInvoices'
  <2> DEFINE Refuses(k) == ~OrderMay(manifest[t][k], "in-transit")
             gone == {manifest[t][k] : k \in {k \in DOMAIN manifest[t] :
                                                \A j \in 1..k : ~Refuses(j)}}
  <2>1. \A k \in DOMAIN manifest[t] : k \in 1..k /\ manifest[t][k] \in Orders
    BY <1>1, AboardTyped
  <2>2. \A o \in gone : status[o] \in Paid
    BY <1>1, <2>1, MayFacts DEF Paid
  <2>3. /\ SetStatus(gone, "in-transit")
        /\ UNCHANGED <<istatus, ivTopic, dueTimers, sales, quantity, liTopic>>
    BY <1>5 DEF Depart, invoiceVars, topicVars
  <2> HIDE DEF gone
  <2>4. \A o \in Steady : SamePayment(o)
    BY <1>1, <2>2, <2>3 DEF SetStatus, SamePayment, Paid
  <2> QED
    BY <2>3, <2>4, SteadyPaid
<1>6. ASSUME NEW A \in SUBSET Trucks, TrucksTick(A) PROVE SteadyInvoices'
  <2> DEFINE delivered == {p \in UNION {Unloading(t) : t \in AtStop(A)} :
                             OrderMay(p, "delivered")}
  <2>1. \A p \in delivered : p \in Orders
    BY <1>1, AboardTyped DEF Unloading, AtStop
  <2>2. \A p \in delivered : status[p] \in Paid
    BY <1>1, <2>1, MayFacts DEF Paid
  <2>3. /\ SetStatus(delivered, "closed")
        /\ UNCHANGED <<istatus, ivTopic, dueTimers, sales, quantity, liTopic>>
    BY <1>6 DEF TrucksTick, invoiceVars
  <2> HIDE DEF delivered
  <2>4. \A o \in Steady : SamePayment(o)
    BY <1>1, <2>2, <2>3 DEF SetStatus, SamePayment, Paid
  <2> QED
    BY <2>3, <2>4, SteadyPaid
<1>7. \/ UNCHANGED <<istatus, ivTopic, dueTimers, sales, status, quantity, liTopic>>
      \/ \E i \in Invoices : InvoiceSettles(i) \/ InvoiceReminds(i) \/ InvoiceCancels(i)
      \/ \E t \in Trucks : LoadOrder(t) \/ Depart(t)
      \/ \E A \in SUBSET Trucks : TrucksTick(A)
      \/ ProcessPendingInvoices
      \/ \E o \in Orders, c \in Customers, z \in Zones, q \in Quantities :
           CreateOrder(o, c, z, q)
  BY <1>1
     DEF Next, Callback, Step, Pipeline, VerifyAccount, EndSchedulerTick, CustomersTick,
         SkipOrder, DispatchNoTruck, SkipZone, DispatchZone, CollectTerminal,
         SilverOrders, SilverCustomers, orderVars, invoiceVars, topicVars
<1> QED
  BY <1>2, <1>3, <1>4, <1>5, <1>6, <1>7, SteadySettles, SteadyReminds, SteadyCancels,
     SteadyInvoiced

-------------------------------------------------------------------------------
(* Their trucks.                                                           *)

\* What is known of every truck, and of one that carries steady orders only.
LEMMA TruckFacts ==
  ASSUME SteadyInv, NEW t \in Trucks
  PROVE  /\ manifest[t] \in Seq(Orders)
         /\ DOMAIN manifest[t] = 1..Len(manifest[t])
         /\ Len(manifest[t]) \in Nat
         /\ Aboard(t) \subseteq Orders
         /\ \A k \in DOMAIN manifest[t] : manifest[t][k] \in Aboard(t)
         /\ \A o \in Aboard(t) : \E k \in DOMAIN manifest[t] : o = manifest[t][k]
         /\ \A u \in Trucks \ {t} : Aboard(t) \cap Aboard(u) = {}
         /\ Aboard(t) \subseteq Steady =>
              /\ RunShape(t)
              /\ \A o \in Aboard(t) :
                   status[o] \in {"on-hold", "loaded", "in-transit", "closed"}
<1>1. TypeOK /\ OneTruckPerOrder /\ SteadyTrucks
  BY InvParts DEF SteadyInv
<1>2. manifest[t] \in Seq(Orders)
  BY <1>1 DEF TypeOK
<1>3. /\ DOMAIN manifest[t] = 1..Len(manifest[t])
      /\ Len(manifest[t]) \in Nat
      /\ Aboard(t) \subseteq Orders
      /\ \A k \in DOMAIN manifest[t] : manifest[t][k] \in Aboard(t)
      /\ \A o \in Aboard(t) : \E k \in DOMAIN manifest[t] : o = manifest[t][k]
      /\ manifest[t] = << >> => Aboard(t) = {}
  BY <1>2, RangeOfSeq DEF Aboard
<1>4. Aboard(t) \subseteq Steady => RunShape(t)
  BY <1>1 DEF SteadyTrucks
<1>5. ASSUME RunShape(t), NEW o \in Aboard(t)
      PROVE  status[o] \in {"on-hold", "loaded", "in-transit", "closed"}
  <2>1. PICK k \in DOMAIN manifest[t] : o = manifest[t][k]
    BY <1>3
  <2>2. tstatus[t] \in {"free", "loading", "in_transit", "returning"}
    BY <1>1 DEF TypeOK
  <2> QED
    BY <1>3, <1>5, <2>1, <2>2 DEF RunShape
<1> QED
  BY <1>1, <1>2, <1>3, <1>4, <1>5 DEF OneTruckPerOrder

\* A truck that stands still, with orders that do, is where it was in its run.
LEMMA RunKept ==
  ASSUME SteadyInv, NEW t \in Trucks, RunShape(t),
         manifest'[t] = manifest[t], tstatus'[t] = tstatus[t],
         loadStep'[t] = loadStep[t], stops'[t] = stops[t],
         \A o \in Aboard(t) : status'[o] = status[o] /\ zoneId'[o] = zoneId[o]
  PROVE  RunShape(t)'
<1>1. \A k \in DOMAIN manifest[t] : manifest[t][k] \in Aboard(t)
  BY TruckFacts
<1>2. Aboard(t)' = Aboard(t)
  BY DEF Aboard
<1> QED
  BY <1>1, <1>2 DEF RunShape

\* Who shares a truck with an order that is not steady is remembered.
LEMMA SharedStep ==
  ASSUME SteadyInv, GeneratorStep, NEW t \in Trucks, ~(Aboard(t)' \subseteq Steady)
  PROVE  Aboard(t)' \subseteq shared'
<1>1. TypeOK'
  BY SteadyParts
<1>2. Aboard(t)' \subseteq Orders
  <2>1. manifest'[t] \in Seq(Orders)
    BY <1>1 DEF TypeOK
  <2> QED
    BY <2>1, RangeOfSeq DEF Aboard
<1>3. Aboard(t)' \cap lagged # {}
  BY <1>2 DEF Steady
<1> QED
  BY <1>3 DEF GeneratorStep

\* A step that no truck takes part in, and no order that is on one.
LEMMA SteadyTrucksIdle ==
  ASSUME SteadyInv, GeneratorStep, UNCHANGED truckVars,
         \A o \in Steady :
           \/ status'[o] = status[o] /\ zoneId'[o] = zoneId[o]
           \/ /\ status[o] \notin {"on-hold", "loaded", "in-transit", "closed"}
              /\ status'[o] \notin {"loaded", "in-transit"}
  PROVE  SteadyTrucks'
<1>1. SteadyTrucks /\ Steady' = Steady /\ shared \subseteq shared'
  BY SteadyParts
<1>2. UNCHANGED <<tstatus, manifest, loadStep, stops, freeTrucks>>
  BY DEF truckVars
<1>3. \A t \in Trucks : Aboard(t)' = Aboard(t)
  BY <1>2 DEF Aboard
<1>4. ASSUME NEW t \in Trucks, Aboard(t) \subseteq Steady PROVE RunShape(t)'
  <2>1. /\ RunShape(t)
        /\ \A o \in Aboard(t) :
             status[o] \in {"on-hold", "loaded", "in-transit", "closed"}
    BY <1>4, TruckFacts
  <2>2. \A o \in Aboard(t) : status'[o] = status[o] /\ zoneId'[o] = zoneId[o]
    BY <1>4, <2>1
  <2> QED
    BY <1>2, <2>1, <2>2, RunKept
<1>5. ASSUME NEW o \in Steady \ shared', status'[o] \in {"loaded", "in-transit"}
      PROVE  \E t \in Trucks : o \in Aboard(t)'
  <2>1. o \in Steady \ shared /\ status[o] \in {"loaded", "in-transit"}
    BY <1>1, <1>5
  <2> QED
    BY <1>1, <1>3, <2>1 DEF SteadyTrucks
<1>6. \A t \in Trucks : ~(Aboard(t)' \subseteq Steady) => Aboard(t)' \subseteq shared'
  BY SharedStep
<1> QED
  BY <1>1, <1>2, <1>3, <1>4, <1>5, <1>6 DEF SteadyTrucks

\* A step of one truck that is loading: its own orders are all that it touches.
LEMMA SteadyTruckMoves ==
  ASSUME SteadyInv, GeneratorStep, NEW t \in Trucks,
         UNCHANGED <<manifest, stops, zoneId, freeTrucks>>,
         \A p \in Orders \ Aboard(t) : status'[p] = status[p],
         \A u \in Trucks \ {t} : tstatus'[u] = tstatus[u] /\ loadStep'[u] = loadStep[u],
         tstatus[t] = "loading", tstatus'[t] \in {"loading", "in_transit"},
         tstatus'[t] # "loading" => loadStep'[t] = 0,
         Aboard(t) \subseteq Steady => RunShape(t)'
  PROVE  SteadyTrucks'
<1>1. SteadyTrucks /\ Steady' = Steady /\ shared \subseteq shared'
  BY SteadyParts
<1>2. \A u \in Trucks : Aboard(u)' = Aboard(u)
  BY DEF Aboard
<1>3. ASSUME NEW u \in Trucks \ {t}, Aboard(u) \subseteq Steady PROVE RunShape(u)'
  <2>1. \A o \in Aboard(u) : status'[o] = status[o]
    BY TruckFacts
  <2>2. RunShape(u)
    BY <1>3, TruckFacts
  <2> QED
    BY <2>1, <2>2, RunKept
<1>4. ASSUME NEW o \in Steady \ shared', status'[o] \in {"loaded", "in-transit"}
      PROVE  \E u \in Trucks : o \in Aboard(u)'
  <2>1. CASE o \in Aboard(t)
    BY <1>2, <2>1
  <2>2. CASE o \notin Aboard(t)
    BY <1>1, <1>2, <1>4, <2>2 DEF SteadyTrucks, Steady
  <2> QED
    BY <2>1, <2>2
<1>5. \A u \in Trucks : ~(Aboard(u)' \subseteq Steady) => Aboard(u)' \subseteq shared'
  BY SharedStep
<1>6. freeTrucks' = {u \in Trucks : tstatus'[u] = "free"}
  BY <1>1 DEF SteadyTrucks
<1>7. \A u \in Trucks :
        /\ tstatus'[u] # "loading" => loadStep'[u] = 0
        /\ tstatus'[u] = "free" => manifest'[u] = << >>
        /\ tstatus'[u] \in {"free", "returning"} => stops'[u] = {}
  BY <1>1 DEF SteadyTrucks
<1> QED
  BY <1>1, <1>2, <1>3, <1>4, <1>5, <1>6, <1>7 DEF SteadyTrucks

\* The next order of a manifest is loaded, or refuses.
LEMMA SteadyLoad ==
  ASSUME SteadyInv, GeneratorStep, NEW t \in Trucks, LoadOrder(t)
  PROVE  SteadyTrucks'
<1> DEFINE k == loadStep[t] + 1
           o == manifest[t][k]
<1>1. /\ TypeOK /\ OneTruckPerOrder
      /\ k \in DOMAIN manifest[t] /\ o \in Aboard(t) /\ o \in Orders
  <2>1. TypeOK /\ OneTruckPerOrder
    BY SteadyParts
  <2>2. k \in DOMAIN manifest[t]
    BY <2>1, TruckFacts DEF LoadOrder, TypeOK
  <2> QED
    BY <2>1, <2>2, TruckFacts
<1>2. /\ UNCHANGED <<manifest, stops, zoneId, freeTrucks, tstatus>>
      /\ tstatus[t] = "loading"
      /\ \A u \in Trucks : loadStep'[u] = IF u = t THEN k ELSE loadStep[u]
      /\ \/ OrderMay(o, "loaded") /\ SetStatus({o}, "loaded")
         \/ ~OrderMay(o, "loaded") /\ status' = status
  BY <1>1 DEF LoadOrder, TypeOK
<1>3. \A p \in Orders \ Aboard(t) : status'[p] = status[p]
  BY <1>1, <1>2 DEF SetStatus
<1>4. ASSUME Aboard(t) \subseteq Steady PROVE RunShape(t)'
  <2>1. RunShape(t) /\ status[o] = "on-hold"
    BY <1>1, <1>2, <1>4, TruckFacts DEF RunShape
  <2>2. OrderMay(o, "loaded")
    BY <2>1 DEF OrderMay, OrderTransitions, OrderStatus, NoStatus
  <2>3. \A p \in Orders : status'[p] = IF p = o THEN "loaded" ELSE status[p]
    BY <1>2, <2>2 DEF SetStatus
  <2>4. \A j \in DOMAIN manifest[t] : j # k => manifest[t][j] # o
    BY <1>1 DEF OneTruckPerOrder
  <2> HIDE DEF o
  <2>5. ASSUME NEW j \in DOMAIN manifest[t]
        PROVE  /\ zoneId[manifest[t][j]] \in stops[t]
               /\ status'[manifest[t][j]] = IF j <= k THEN "loaded" ELSE "on-hold"
    <3>1. /\ zoneId[manifest[t][j]] \in stops[t]
          /\ status[manifest[t][j]] = IF j <= loadStep[t] THEN "loaded" ELSE "on-hold"
          /\ loadStep[t] \in Nat
      BY <1>1, <1>2, <2>1 DEF RunShape, TypeOK
    <3>2. j \in Nat /\ manifest[t][j] \in Orders
      BY TruckFacts
    <3>3. CASE j = k
      BY <1>1, <2>3, <3>1, <3>2, <3>3 DEF o
    <3>4. CASE j # k
      BY <2>3, <2>4, <3>1, <3>2, <3>4
    <3> QED
      BY <3>3, <3>4
  <2>6. k \in 0..Len(manifest[t]) /\ manifest[t] # << >>
    BY <1>1, TruckFacts
  <2> HIDE DEF k
  <2> QED
    BY <1>2, <2>5, <2>6 DEF RunShape
<1> HIDE DEF k, o
<1> QED
  BY <1>2, <1>3, <1>4, SteadyTruckMoves

\* A loaded truck departs, with those that do not refuse.
LEMMA SteadyDepart ==
  ASSUME SteadyInv, GeneratorStep, NEW t \in Trucks, Depart(t)
  PROVE  SteadyTrucks'
<1> DEFINE Refuses(k) == ~OrderMay(manifest[t][k], "in-transit")
           gone == {manifest[t][k] : k \in {k \in DOMAIN manifest[t] :
                                              \A j \in 1..k : ~Refuses(j)}}
<1>1. TypeOK
  BY SteadyParts
<1>2. /\ SetStatus(gone, "in-transit")
      /\ UNCHANGED <<manifest, stops, zoneId, freeTrucks>>
      /\ tstatus[t] = "loading" /\ loadStep[t] = Len(manifest[t])
      /\ tstatus'[t] = "in_transit" /\ loadStep'[t] = 0
      /\ \A u \in Trucks \ {t} : tstatus'[u] = tstatus[u] /\ loadStep'[u] = loadStep[u]
  BY <1>1 DEF Depart, TypeOK
<1>3. gone \subseteq Aboard(t)
  BY TruckFacts
<1>4. ASSUME Aboard(t) \subseteq Steady PROVE RunShape(t)'
  <2>1. RunShape(t)
    BY <1>4, TruckFacts
  <2>2. \A k \in DOMAIN manifest[t] : /\ manifest[t][k] \in Aboard(t)
                                      /\ status[manifest[t][k]] = "loaded"
                                      /\ zoneId[manifest[t][k]] \in stops[t]
    BY <1>2, <2>1, TruckFacts DEF RunShape
  <2>3. \A k \in DOMAIN manifest[t] : ~Refuses(k)
    BY <2>2 DEF OrderMay, OrderTransitions, OrderStatus, NoStatus
  <2>4. gone = Aboard(t)
    <3>1. \A k \in DOMAIN manifest[t] : \A j \in 1..k : j \in DOMAIN manifest[t]
      BY TruckFacts
    <3> QED
      BY <2>3, <3>1, TruckFacts
  <2>5. Aboard(t)' = Aboard(t)
    BY <1>2 DEF Aboard
  <2>6. \A o \in Aboard(t) : status'[o] = "in-transit" /\ zoneId[o] \in stops[t]
    <3>1. \A o \in Aboard(t) : zoneId[o] \in stops[t] /\ o \in Orders
      BY <2>2, TruckFacts
    <3> QED
      BY <1>2, <2>4, <3>1 DEF SetStatus
  <2>7. stops[t] # {} /\ 0 \in 0..Len(manifest[t])
    <3>1. manifest[t] # << >>
      BY <1>2, <2>1 DEF RunShape
    <3>2. 1 \in DOMAIN manifest[t]
      BY <3>1, TruckFacts
    <3> QED
      BY <2>2, <3>2, TruckFacts
  <2> HIDE DEF gone
  <2> QED
    BY <1>2, <2>5, <2>6, <2>7 DEF RunShape
<1> HIDE DEF gone
<1>5. \A p \in Orders \ Aboard(t) : status'[p] = status[p]
  BY <1>2, <1>3 DEF SetStatus
<1> QED
  BY <1>2, <1>4, <1>5, SteadyTruckMoves

\* A free truck takes a batch of the queue, of steady and of other orders.
LEMMA SteadyDispatch ==
  ASSUME SteadyInv, GeneratorStep, NEW z \in Zones, DispatchZone(z)
  PROVE  SteadyTrucks'
<1>1. PICK t \in freeTrucks, m \in Batches(Queue(z)) :
        /\ freeTrucks' = freeTrucks \ {t}
        /\ manifest' = [manifest EXCEPT ![t] = m]
        /\ tstatus' = [tstatus EXCEPT ![t] = "loading"]
        /\ loadStep' = [loadStep EXCEPT ![t] = 0]
        /\ stops' = [stops EXCEPT ![t] = {zoneId[o] : o \in Range(m)}]
  BY DEF DispatchZone
<1>2. UNCHANGED <<status, zoneId>>
  BY DEF DispatchZone
<1>3. /\ TypeOK /\ SteadyTrucks /\ Steady' = Steady /\ shared \subseteq shared'
      /\ t \in Trucks /\ tstatus[t] = "free"
  BY SteadyParts DEF SteadyTrucks
<1>4. Queue(z) \in SUBSET Orders /\ \A o \in Queue(z) : status[o] = "on-hold"
  BY <1>3, QueueTyped
<1>5. /\ m \in Seq(Orders) /\ m # << >> /\ Range(m) \subseteq Queue(z)
      /\ DOMAIN m = 1..Len(m) /\ Len(m) \in Nat
      /\ \A k \in DOMAIN m : m[k] \in Range(m)
  BY <1>4, BatchTyped, RangeOfSeq
<1>6. /\ \A u \in Trucks \ {t} :
           /\ tstatus'[u] = tstatus[u] /\ manifest'[u] = manifest[u]
           /\ loadStep'[u] = loadStep[u] /\ stops'[u] = stops[u]
           /\ Aboard(u)' = Aboard(u)
      /\ tstatus'[t] = "loading" /\ manifest'[t] = m /\ loadStep'[t] = 0
      /\ stops'[t] = {zoneId[o] : o \in Range(m)}
  BY <1>1, <1>3 DEF TypeOK, Aboard
<1>7. RunShape(t)'
  <2>1. \A k \in DOMAIN m : /\ zoneId[m[k]] \in stops'[t]
                            /\ status[m[k]] = "on-hold"
                            /\ ~(k <= 0)
    BY <1>4, <1>5, <1>6
  <2>2. 0 \in 0..Len(m)
    BY <1>5
  <2> QED
    BY <1>2, <1>5, <1>6, <2>1, <2>2 DEF RunShape
<1>8. ASSUME NEW u \in Trucks \ {t}, Aboard(u) \subseteq Steady PROVE RunShape(u)'
  BY <1>2, <1>6, <1>8, TruckFacts, RunKept
<1>9. ASSUME NEW o \in Steady \ shared', status'[o] \in {"loaded", "in-transit"}
      PROVE  \E u \in Trucks : o \in Aboard(u)'
  <2>1. PICK u \in Trucks : o \in Aboard(u)
    BY <1>2, <1>3, <1>9 DEF SteadyTrucks
  <2>2. u # t
    <3>1. manifest[t] = << >>
      BY <1>3 DEF SteadyTrucks
    <3>2. Aboard(t) = {}
      BY <3>1 DEF Aboard, Range
    <3> QED
      BY <2>1, <3>2
  <2> QED
    BY <1>6, <2>1, <2>2
<1>10. \A u \in Trucks : ~(Aboard(u)' \subseteq Steady) => Aboard(u)' \subseteq shared'
  BY SharedStep
<1>11. freeTrucks' = {u \in Trucks : tstatus'[u] = "free"}
  BY <1>1, <1>3, <1>6 DEF SteadyTrucks
<1>12. \A u \in Trucks :
         /\ tstatus'[u] # "loading" => loadStep'[u] = 0
         /\ tstatus'[u] = "free" => manifest'[u] = << >>
         /\ tstatus'[u] \in {"free", "returning"} => stops'[u] = {}
  BY <1>3, <1>6 DEF SteadyTrucks
<1> QED
  BY <1>3, <1>6, <1>7, <1>8, <1>9, <1>10, <1>11, <1>12 DEF SteadyTrucks

\* Trucks arrive: what one delivers is aboard it, and one that carries steady orders
\* only has delivered them all when it is home.
LEMMA SteadyTick ==
  ASSUME SteadyInv, GeneratorStep, NEW A \in SUBSET Trucks, TrucksTick(A)
  PROVE  SteadyTrucks'
<1> DEFINE home == A \ AtStop(A)
           delivered == {o \in UNION {Unloading(t) : t \in AtStop(A)} :
                           OrderMay(o, "delivered")}
<1>1. /\ SetStatus(delivered, "closed")
      /\ stops' = [t \in Trucks |-> StopsLeft(A, t)]
      /\ tstatus' = [t \in Trucks |->
                       IF t \in home THEN "free"
                       ELSE IF t \in AtStop(A) /\ StopsLeft(A, t) = {} THEN "returning"
                       ELSE tstatus[t]]
      /\ manifest' = [t \in Trucks |->
                        IF t \in home THEN << >> ELSE manifest[t]]
      /\ freeTrucks' = freeTrucks \cup home
      /\ UNCHANGED <<zoneId, loadStep>>
  BY DEF TrucksTick
<1>2. /\ AtStop(A) \subseteq Trucks /\ home \subseteq Trucks
      /\ \A t \in AtStop(A) : tstatus[t] = "in_transit"
      /\ \A t \in home : tstatus[t] = "returning"
  BY DEF TrucksTick, AtStop
<1>3. SteadyTrucks /\ Steady' = Steady /\ shared \subseteq shared'
  BY SteadyParts
<1>4. ASSUME NEW t \in Trucks, NEW o \in Aboard(t), o \in delivered
      PROVE  t \in AtStop(A) /\ zoneId[o] = NextStop(t)
  <2>1. PICK u \in AtStop(A) : o \in Unloading(u)
    BY <1>4
  <2>2. u = t
    BY <1>2, <2>1, TruckFacts DEF Unloading
  <2> QED
    BY <2>1, <2>2 DEF Unloading
<1>5. \A o \in Orders : status'[o] = IF o \in delivered THEN "closed" ELSE status[o]
  BY <1>1 DEF SetStatus
<1>6. \A t \in Trucks : /\ t \in home => Aboard(t)' = {}
                        /\ t \notin home => /\ Aboard(t)' = Aboard(t)
                                            /\ manifest'[t] = manifest[t]
  BY <1>1 DEF Aboard, Range
<1>7. ASSUME NEW t \in AtStop(A), Aboard(t) \subseteq Steady PROVE RunShape(t)'
  <2>1. /\ t \in Trucks /\ t \notin home /\ tstatus[t] = "in_transit"
        /\ RunShape(t) /\ Aboard(t) \subseteq Orders
    BY <1>2, <1>7, TruckFacts
  <2>2. NextStop(t) \in stops[t]
    BY <2>1 DEF RunShape, NextStop
  <2>3. /\ stops'[t] = stops[t] \ {NextStop(t)}
        /\ tstatus'[t] = IF stops'[t] = {} THEN "returning" ELSE "in_transit"
        /\ loadStep'[t] = loadStep[t] /\ manifest'[t] = manifest[t]
        /\ Aboard(t)' = Aboard(t)
    BY <1>1, <1>6, <2>1 DEF StopsLeft
  <2>4. ASSUME NEW o \in Aboard(t)
        PROVE  status'[o] = IF zoneId[o] \in stops[t] \ {NextStop(t)}
                            THEN "in-transit" ELSE "closed"
    <3>1. status[o] = IF zoneId[o] \in stops[t] THEN "in-transit" ELSE "closed"
      BY <2>1 DEF RunShape
    <3>2. CASE zoneId[o] = NextStop(t)
      <4>1. OrderMay(o, "delivered")
        BY <2>2, <3>1, <3>2 DEF OrderMay, OrderTransitions, OrderStatus, NoStatus
      <4>2. o \in delivered
        BY <3>2, <4>1 DEF Unloading
      <4> QED
        BY <1>5, <2>1, <3>2, <4>2
    <3>3. CASE zoneId[o] # NextStop(t)
      <4>1. o \notin delivered
        BY <1>4, <2>1, <3>3
      <4> QED
        BY <1>5, <2>1, <3>1, <3>3, <4>1
    <3> QED
      BY <3>2, <3>3
  <2> HIDE DEF home, delivered
  <2> QED
    BY <1>1, <2>1, <2>3, <2>4 DEF RunShape
<1> HIDE DEF delivered
<1>8. ASSUME NEW t \in Trucks, t \notin A, Aboard(t) \subseteq Steady PROVE RunShape(t)'
  <2>1. t \notin home /\ t \notin AtStop(A) /\ Aboard(t) \subseteq Orders
    BY <1>8, TruckFacts DEF AtStop
  <2>2. \A o \in Aboard(t) : status'[o] = status[o] /\ zoneId'[o] = zoneId[o]
    BY <1>1, <1>4, <1>5, <2>1
  <2>3. /\ stops'[t] = stops[t] /\ tstatus'[t] = tstatus[t]
        /\ manifest'[t] = manifest[t] /\ loadStep'[t] = loadStep[t]
    BY <1>1, <2>1 DEF StopsLeft
  <2> QED
    BY <1>8, <2>2, <2>3, TruckFacts, RunKept
<1>9. ASSUME NEW t \in home PROVE RunShape(t)'
  <2>1. /\ t \in Trucks /\ tstatus[t] = "returning" /\ stops[t] = {} /\ loadStep[t] = 0
    BY <1>2, <1>3 DEF SteadyTrucks
  <2>2. /\ stops'[t] = {} /\ tstatus'[t] = "free" /\ manifest'[t] = << >>
        /\ loadStep'[t] = 0
    BY <1>1, <2>1 DEF StopsLeft
  <2> QED
    BY <2>2 DEF RunShape
<1>10. ASSUME NEW t \in Trucks, Aboard(t)' \subseteq Steady PROVE RunShape(t)'
  BY <1>6, <1>7, <1>8, <1>9, <1>10
<1>11. ASSUME NEW o \in Steady \ shared', status'[o] \in {"loaded", "in-transit"}
       PROVE  \E t \in Trucks : o \in Aboard(t)'
  <2>1. o \in Orders /\ status[o] \in {"loaded", "in-transit"} /\ o \notin shared
    BY <1>3, <1>5, <1>11 DEF Steady
  <2>2. PICK t \in Trucks : o \in Aboard(t)
    BY <1>3, <1>11, <2>1 DEF SteadyTrucks
  <2>3. t \notin home
    <3>1. RunShape(t)
      BY <1>3, <2>1, <2>2 DEF SteadyTrucks
    <3> QED
      BY <1>2, <2>1, <2>2, <3>1 DEF RunShape
  <2> QED
    BY <1>6, <2>2, <2>3
<1>12. \A t \in Trucks : ~(Aboard(t)' \subseteq Steady) => Aboard(t)' \subseteq shared'
  BY SharedStep
<1>13. freeTrucks' = {t \in Trucks : tstatus'[t] = "free"}
  BY <1>1, <1>2, <1>3 DEF SteadyTrucks
<1>14. ASSUME NEW t \in Trucks
       PROVE  /\ tstatus'[t] # "loading" => loadStep'[t] = 0
              /\ tstatus'[t] = "free" => manifest'[t] = << >>
              /\ tstatus'[t] \in {"free", "returning"} => stops'[t] = {}
  <2>1. CASE t \in home
    BY <1>9, <2>1, <1>1, <1>2 DEF RunShape
  <2>2. CASE t \in AtStop(A)
    BY <1>1, <1>2, <1>3, <2>2 DEF SteadyTrucks
  <2>3. CASE t \notin A
    <3>1. t \notin home /\ t \notin AtStop(A)
      BY <2>3 DEF AtStop
    <3> QED
      BY <1>1, <1>3, <3>1 DEF SteadyTrucks, StopsLeft
  <2> QED
    BY <2>1, <2>2, <2>3
<1> QED
  BY <1>3, <1>10, <1>11, <1>12, <1>13, <1>14 DEF SteadyTrucks

\* Every step of the generator.
LEMMA SteadyTrucksStep == SteadyInv /\ GeneratorStep => SteadyTrucks'
<1> SUFFICES ASSUME SteadyInv, GeneratorStep PROVE SteadyTrucks'
  OBVIOUS
<1> DEFINE Idle(o) ==
             \/ status'[o] = status[o] /\ zoneId'[o] = zoneId[o]
             \/ /\ status[o] \notin {"on-hold", "loaded", "in-transit", "closed"}
                /\ status'[o] \notin {"loaded", "in-transit"}
<1>1. TypeOK /\ Next /\ Steady \subseteq Orders
  BY SteadyParts DEF Steady
<1>2. CASE UNCHANGED <<truckVars, status, zoneId>>
  BY <1>2, SteadyTrucksIdle
<1>3. ASSUME NEW i \in Invoices, InvoiceSettles(i) \/ InvoiceCancels(i)
      PROVE  SteadyTrucks'
  <2>1. /\ UNCHANGED truckVars /\ zoneId' = zoneId
        /\ i \in dueTimers
        /\ \A o \in Orders \ {i[1]} : status'[o] = status[o]
        /\ \A o \in Orders : \/ status'[o] = status[o]
                             \/ status'[o] \in {"on-hold", "cancelled"}
    BY <1>3 DEF InvoiceSettles, InvoiceCancels, MarkPaid, SetStatus
  <2>2. i[1] \in Steady => status[i[1]] = "invoiced"
    BY <2>1, SteadyTimer
  <2>3. \A o \in Steady : Idle(o)
    BY <1>1, <2>1, <2>2
  <2> QED
    BY <2>1, <2>3, SteadyTrucksIdle
<1>4. CASE ProcessPendingInvoices
  <2>1. UNCHANGED truckVars /\ zoneId' = zoneId /\ SetStatus(Invoiceable, "invoiced")
    BY <1>4 DEF ProcessPendingInvoices, CreateInvoices
  <2>2. \A o \in Steady : Idle(o)
    BY <1>1, <2>1 DEF SetStatus, Invoiceable
  <2> QED
    BY <2>1, <2>2, SteadyTrucksIdle
<1>5. ASSUME NEW o \in Orders, NEW c \in Customers, NEW z \in Zones,
             NEW q \in Quantities, CreateOrder(o, c, z, q)
      PROVE  SteadyTrucks'
  <2>1. /\ UNCHANGED truckVars /\ SetStatus({o}, "created") /\ status[o] = NoStatus
        /\ \A p \in Orders \ {o} : zoneId'[p] = zoneId[p]
    BY <1>1, <1>5 DEF CreateOrder, TypeOK
  <2>2. \A p \in Steady : Idle(p)
    BY <1>1, <2>1 DEF SetStatus, NoStatus
  <2> QED
    BY <2>1, <2>2, SteadyTrucksIdle
<1>6. \/ UNCHANGED <<truckVars, status, zoneId>>
      \/ \E i \in Invoices : InvoiceSettles(i) \/ InvoiceCancels(i)
      \/ ProcessPendingInvoices
      \/ \E o \in Orders, c \in Customers, z \in Zones, q \in Quantities :
           CreateOrder(o, c, z, q)
      \/ \E t \in Trucks : LoadOrder(t) \/ Depart(t)
      \/ \E z \in Zones : DispatchZone(z)
      \/ \E A \in SUBSET Trucks : TrucksTick(A)
  BY <1>1
     DEF Next, Callback, Step, Pipeline, VerifyAccount, InvoiceReminds,
         EndSchedulerTick, CustomersTick, SkipOrder, DispatchNoTruck, SkipZone,
         CollectTerminal, SilverOrders, SilverCustomers, orderVars
<1> QED
  BY <1>2, <1>3, <1>4, <1>5, <1>6, SteadyLoad, SteadyDepart, SteadyDispatch, SteadyTick

-------------------------------------------------------------------------------
(* The steady orders: a restart.                                           *)

\* Of an order that silver is not behind with, it shows what was sent last.
LEMMA SteadySeen ==
  ASSUME RestartInv, NEW o \in Orders, ~Lagging(o)
  PROVE  /\ SilverStatus(o) = LastSent(o)
         /\ \A i \in Invoices : i[1] = o => SilverInvoice(i)[1] = LastInvoice(i)
<1>1. TypeOK /\ SeenWasSent /\ ivSeen \in [Invoices -> Nat]
  BY InvParts
<1>2. SilverStatus(o) = LastSent(o)
  <2>1. poTopic[o] \in Seq(OrderStatus) /\ poSeen[o] \in Nat /\ poSeen[o] <= Len(poTopic[o])
    BY <1>1 DEF TypeOK, SeenWasSent
  <2>2. Len(poTopic[o]) \in Nat /\ (Len(poTopic[o]) = 0 <=> poTopic[o] = << >>)
    BY <2>1
  <2>3. poSeen[o] = Len(poTopic[o])
    BY <2>1, <2>2 DEF Lagging
  <2> QED
    BY <2>2, <2>3 DEF SilverStatus, LastSent
<1>3. ASSUME NEW i \in Invoices, i[1] = o PROVE SilverInvoice(i)[1] = LastInvoice(i)
  <2>1. /\ ivTopic[i] \in Seq(InvoiceStatus \X (0..MaxReminders))
        /\ ivSeen[i] \in Nat /\ ivSeen[i] <= Len(ivTopic[i])
    BY <1>1 DEF TypeOK, SeenWasSent
  <2>2. Len(ivTopic[i]) \in Nat /\ (Len(ivTopic[i]) = 0 <=> ivTopic[i] = << >>)
    BY <2>1
  <2>3. ivSeen[i] = Len(ivTopic[i])
    BY <1>3, <2>1, <2>2 DEF Lagging, InvoicesOf
  <2> QED
    BY <2>2, <2>3 DEF SilverInvoice, LastInvoice
<1> QED
  BY <1>2, <1>3

\* How a restart resumes it: what had ended has, what waits for an invoice gets one,
\* and what had been paid is queued.
LEMMA SteadyResumed ==
  ASSUME SteadyInv, Restart, NEW o \in Steady'
  PROVE  /\ o \in Steady /\ ~Lagging(o)
         /\ o \in ResumedInvoiceable <=> status[o] = "created"
         /\ o \in OpenInSilver <=> status[o] \notin {NoStatus, "closed", "cancelled"}
         /\ \/ status[o] \in {NoStatus, "closed", "cancelled", "invoiced"}
               /\ status'[o] = status[o]
            \/ status[o] = "created" /\ status'[o] = "invoiced"
            \/ status[o] \in {"on-hold", "loaded", "in-transit"} /\ status'[o] = "on-hold"
<1>1. /\ RestartInv /\ TypeOK /\ ExistAsSent
      /\ SteadyOrders /\ SteadyInvoices
  BY InvParts DEF SteadyInv
<1>2. o \in Steady /\ o \in Orders /\ ~Lagging(o)
  BY DEF Restart, Steady
<1>3. /\ SilverStatus(o) = LastSent(o)
      /\ \A i \in Invoices : i[1] = o => SilverInvoice(i)[1] = istatus[i]
  BY <1>1, <1>2, SteadySeen DEF SteadyInvoices
<1>4. /\ status[o] \in OrderStatus \cup {NoStatus} /\ status[o] \notin {"paid", "delivered"}
      /\ \/ SilverStatus(o) = status[o]
         \/ status[o] = "on-hold" /\ SilverStatus(o) \in {"loaded", "in-transit"}
  BY <1>1, <1>2, <1>3 DEF TypeOK, SteadyOrders
<1>5. o \in OpenInSilver <=> status[o] \notin {NoStatus, "closed", "cancelled"}
  BY <1>2, <1>4 DEF OpenInSilver, NoStatus
<1>6. o \in OpenInSilver =>
        ResumedStatus(o) = IF status[o] \in {"on-hold", "loaded", "in-transit"} THEN "on-hold"
                                                                              ELSE status[o]
  BY <1>4 DEF ResumedStatus, Requeued
<1>7. o \in ResumedInvoiceable <=> status[o] = "created"
  <2>1. o \in ResumedInvoiceable => status[o] = "created"
    BY <1>6 DEF ResumedInvoiceable
  <2>2. ASSUME status[o] = "created" PROVE o \in ResumedInvoiceable
    <3>1. o \in OpenInSilver /\ ResumedStatus(o) = "created"
      BY <1>5, <1>6, <2>2 DEF NoStatus
    <3>2. \A i \in Invoices : i[1] = o => istatus[i] = NoStatus
      BY <1>1, <1>2, <2>2 DEF SteadyInvoices
    <3>3. InvoicesOf(o) \cap PendingInSilver = {}
      BY <1>3, <3>2 DEF InvoicesOf, PendingInSilver, NoStatus
    <3> QED
      BY <3>1, <3>3 DEF ResumedInvoiceable
  <2> QED
    BY <2>1, <2>2
<1>8. status'[o] = IF o \in ResumedInvoiceable THEN "invoiced"
                   ELSE IF o \in OpenInSilver THEN ResumedStatus(o)
                   ELSE status[o]
  <2>1. status'[o] = CASE o \in ResumedInvoiceable -> "invoiced"
                       [] o \in OpenInSilver \ ResumedInvoiceable -> ResumedStatus(o)
                       [] OTHER -> status[o]
    BY <1>2 DEF Restart
  <2> QED
    BY <2>1 DEF ResumedInvoiceable
<1>9. status[o] \in {NoStatus, "closed", "cancelled", "invoiced", "created", "on-hold",
                     "loaded", "in-transit"}
  BY <1>4 DEF OrderStatus
<1>10. \/ status[o] \in {NoStatus, "closed", "cancelled", "invoiced"}
          /\ status'[o] = status[o]
       \/ status[o] = "created" /\ status'[o] = "invoiced"
       \/ status[o] \in {"on-hold", "loaded", "in-transit"} /\ status'[o] = "on-hold"
  BY <1>5, <1>6, <1>7, <1>8, <1>9 DEF NoStatus
<1> QED
  BY <1>2, <1>5, <1>7, <1>10

\* The repair of an order that waits for its invoice gives it its first one.
LEMMA SteadyRepaired ==
  ASSUME SteadyInv, Restart, NEW o \in Steady', status[o] = "created"
  PROVE  NextInvoice(o) = <<o, 1>>
<1>1. o \in Steady /\ SteadyInvoices
  BY SteadyResumed DEF SteadyInv
<1>2. {i \in InvoicesOf(o) : istatus[i] # NoStatus} = {}
  BY <1>1 DEF SteadyInvoices, InvoicesOf
<1>3. Cardinality({}) = 0
  BY FS_EmptySet
<1> QED
  BY <1>2, <1>3 DEF NextInvoice

\* The orders after a restart.
LEMMA SteadyOrdersRestart == SteadyInv /\ Restart => SteadyOrders'
<1> SUFFICES ASSUME SteadyInv, Restart, NEW o \in Steady'
             PROVE  /\ status'[o] \notin {"paid", "delivered"}
                    /\ status'[o] \notin {NoStatus, "closed", "cancelled"} => o \in orders'
                    /\ \/ status'[o] = LastSent(o)'
                       \/ /\ status'[o] = "on-hold"
                          /\ LastSent(o)' \in {"loaded", "in-transit"}
  BY DEF SteadyOrders
<1>1. /\ o \in Steady
      /\ o \in ResumedInvoiceable <=> status[o] = "created"
      /\ o \in OpenInSilver <=> status[o] \notin {NoStatus, "closed", "cancelled"}
      /\ \/ status[o] \in {NoStatus, "closed", "cancelled", "invoiced"}
            /\ status'[o] = status[o]
         \/ status[o] = "created" /\ status'[o] = "invoiced"
         \/ status[o] \in {"on-hold", "loaded", "in-transit"} /\ status'[o] = "on-hold"
  BY SteadyResumed
<1>2. RestartInv /\ TypeOK /\ SteadyOrders /\ o \in Orders /\ orders' = OpenInSilver
  BY <1>1, InvParts DEF SteadyInv, Restart, Steady
<1>3. CASE status[o] = "created"
  <2> DEFINE topic == poTopic[o] \o <<"invoiced">>
  <2>1. poTopic[o] \in Seq(OrderStatus)
    BY <1>2 DEF TypeOK
  <2>2. topic # << >> /\ topic[Len(topic)] = "invoiced"
    BY <2>1
  <2>3. poTopic'[o] = topic
    BY <1>1, <1>2, <1>3 DEF Restart, SendStatus
  <2> HIDE DEF topic
  <2>4. LastSent(o)' = "invoiced"
    BY <2>2, <2>3 DEF LastSent
  <2> QED
    BY <1>1, <1>2, <1>3, <2>4 DEF NoStatus
<1>4. CASE status[o] # "created"
  <2>1. poTopic'[o] = poTopic[o]
    BY <1>1, <1>2, <1>4, RestartSends
  <2>2. LastSent(o)' = LastSent(o)
    BY <2>1 DEF LastSent
  <2> QED
    BY <1>1, <1>2, <1>4, <2>2 DEF SteadyOrders, NoStatus
<1> QED
  BY <1>3, <1>4

\* Their invoices: a pending one has a timer again, and there is no second one.
LEMMA SteadyInvoicesRestart == SteadyInv /\ Restart => SteadyInvoices'
<1> SUFFICES ASSUME SteadyInv, Restart PROVE SteadyInvoices'
  OBVIOUS
<1> DEFINE new == {NextInvoice(o) : o \in ResumedInvoiceable}
<1>1. RestartInv /\ TypeOK /\ SteadyInvoices
  BY InvParts DEF SteadyInv
<1>2. /\ dueTimers' = PendingInSilver \cup new
      /\ \A i \in Invoices :
           /\ istatus'[i] = IF i \in PendingInSilver \cup new THEN "pending" ELSE istatus[i]
           /\ ivTopic'[i] = IF i \in new
                            THEN ivTopic[i] \o <<<<"created", 0>>, <<"pending", 0>>>>
                            ELSE ivTopic[i]
      /\ UNCHANGED <<sales, liTopic>>
      /\ \A o \in Orders : quantity'[o] = quantity[o] \/ quantity'[o] = liSeen[o]
  BY DEF Restart, ResumedQuantity
<1>3. \A i \in new : \E o \in ResumedInvoiceable : i = NextInvoice(o) /\ i[1] = o
  <2>1. \A o \in ResumedInvoiceable : NextInvoice(o)[1] = o
    BY DEF NextInvoice
  <2> QED
    BY <2>1
<1>4. \A o \in ResumedInvoiceable : NextInvoice(o) \in new
  OBVIOUS
<1> HIDE DEF new
<1>5. ASSUME NEW o \in Steady'
      PROVE  /\ o \in Steady
             /\ o \in ResumedInvoiceable <=> status[o] = "created"
             /\ o \in OpenInSilver <=> status[o] \notin {NoStatus, "closed", "cancelled"}
             /\ \/ status[o] \in {NoStatus, "closed", "cancelled", "invoiced"}
                   /\ status'[o] = status[o]
                \/ status[o] = "created" /\ status'[o] = "invoiced"
                \/ /\ status[o] \in {"on-hold", "loaded", "in-transit"}
                   /\ status'[o] = "on-hold"
             /\ \A i \in Invoices : i[1] = o => SilverInvoice(i)[1] = istatus[i]
  <2>1. o \in Steady /\ o \in Orders /\ ~Lagging(o)
    BY SteadyResumed DEF Steady
  <2>2. \A i \in Invoices : i[1] = o => SilverInvoice(i)[1] = istatus[i]
    BY <1>1, <2>1, SteadySeen DEF SteadyInvoices
  <2> QED
    BY <2>1, <2>2, SteadyResumed
<1>6. ASSUME NEW o \in Steady' PROVE ItemsTaken(o)'
  <2>1. status'[o] \in Paid <=> status[o] \in Paid
    BY <1>5 DEF Paid, NoStatus
  <2>2. o \in Orders /\ ~Lagging(o)
    BY <1>5, SteadyResumed DEF Steady
  <2>3. liSeen[o] = liTopic[o]
    <3>1. liSeen[o] \in Nat /\ liTopic[o] \in Nat /\ liSeen[o] <= liTopic[o]
      BY <1>1, <2>2 DEF RestartInv, TypeOK, SeenWasSent
    <3> QED
      BY <2>2, <3>1 DEF Lagging
  <2>4. /\ quantity[o] = liTopic[o]
        /\ sales[o] = IF status[o] \in Paid THEN quantity[o] ELSE 0
    BY <1>1, <1>5 DEF SteadyInvoices
  <2>5. quantity'[o] = liTopic[o] /\ liTopic'[o] = liTopic[o] /\ sales'[o] = sales[o]
    BY <1>2, <2>2, <2>3, <2>4
  <2> QED
    BY <2>1, <2>4, <2>5 DEF ItemsTaken
<1>7. ASSUME NEW i \in Invoices, i[1] \in Steady'
      PROVE  /\ istatus'[i] = LastInvoice(i)'
             /\ istatus'[i] = "pending" <=> i \in dueTimers'
             /\ i[2] # 1 => istatus'[i] = NoStatus
             /\ i[2] = 1 =>
                  /\ istatus'[i] = NoStatus <=> status'[i[1]] \in {NoStatus, "created"}
                  /\ istatus'[i] = "pending" <=> status'[i[1]] = "invoiced"
                  /\ istatus'[i] = "settled" <=> status'[i[1]] \in Paid
                  /\ istatus'[i] = "cancelled" <=> status'[i[1]] = "cancelled"
  <2> DEFINE o == i[1]
  <2>1. /\ o \in Steady /\ istatus[i] = LastInvoice(i)
        /\ i[2] # 1 => istatus[i] = NoStatus
        /\ i[2] = 1 =>
             /\ istatus[i] = NoStatus <=> status[o] \in {NoStatus, "created"}
             /\ istatus[i] = "pending" <=> status[o] = "invoiced"
             /\ istatus[i] = "settled" <=> status[o] \in Paid
             /\ istatus[i] = "cancelled" <=> status[o] = "cancelled"
    BY <1>1, <1>5, <1>7 DEF SteadyInvoices
  <2>2. i \in PendingInSilver <=> istatus[i] = "pending"
    BY <1>5, <1>7, <2>1 DEF PendingInSilver, NoStatus
  <2>3. i \in new <=> status[o] = "created" /\ i[2] = 1
    <3>1. i = <<i[1], i[2]>>
      BY DEF Invoices
    <3>2. i \in new <=> o \in ResumedInvoiceable /\ i = NextInvoice(o)
      BY <1>3, <1>4
    <3>3. status[o] = "created" => NextInvoice(o) = <<o, 1>>
      BY <1>7, SteadyRepaired
    <3> QED
      BY <1>5, <1>7, <3>1, <3>2, <3>3
  <2>4. CASE i \in new
    <3> DEFINE topic == ivTopic[i] \o <<<<"created", 0>>, <<"pending", 0>>>>
    <3>1. ivTopic[i] \in Seq(InvoiceStatus \X (0..MaxReminders))
      BY <1>1 DEF TypeOK
    <3>2. topic # << >> /\ topic[Len(topic)] = <<"pending", 0>>
      <4>1. Len(topic) = Len(ivTopic[i]) + 2 /\ Len(ivTopic[i]) \in Nat
        BY <3>1
      <4>2. topic[Len(ivTopic[i]) + 2] = <<"pending", 0>>
        BY <3>1
      <4> QED
        BY <4>1, <4>2
    <3>3. ivTopic'[i] = topic /\ istatus'[i] = "pending" /\ i \in dueTimers'
      BY <1>2, <2>4
    <3> HIDE DEF topic
    <3>4. LastInvoice(i)' = "pending"
      BY <3>2, <3>3 DEF LastInvoice
    <3>5. i[2] = 1 /\ status'[o] = "invoiced"
      BY <1>5, <1>7, <2>3, <2>4 DEF NoStatus
    <3> QED
      BY <3>3, <3>4, <3>5 DEF Paid, NoStatus
  <2>5. CASE i \notin new
    <3>1. /\ istatus'[i] = istatus[i] /\ ivTopic'[i] = ivTopic[i]
          /\ i \in dueTimers' <=> istatus[i] = "pending"
      BY <1>2, <2>2, <2>5
    <3>2. LastInvoice(i)' = LastInvoice(i)
      BY <3>1 DEF LastInvoice
    <3>3. CASE i[2] # 1
      BY <2>1, <3>1, <3>2, <3>3 DEF NoStatus
    <3>4. CASE i[2] = 1
      <4>1. \/ status'[o] = status[o]
            \/ status[o] \in {"loaded", "in-transit"} /\ status'[o] = "on-hold"
        BY <1>5, <1>7, <2>3, <2>5, <3>4
      <4> HIDE DEF o
      <4>2. /\ istatus'[i] = NoStatus <=> status'[o] \in {NoStatus, "created"}
            /\ istatus'[i] = "pending" <=> status'[o] = "invoiced"
            /\ istatus'[i] = "settled" <=> status'[o] \in Paid
            /\ istatus'[i] = "cancelled" <=> status'[o] = "cancelled"
        BY <2>1, <3>1, <3>4, <4>1 DEF Paid, NoStatus
      <4> QED
        BY <2>1, <3>1, <3>2, <3>4, <4>2 DEF o
    <3> QED
      BY <3>3, <3>4
  <2> QED
    BY <2>4, <2>5
<1> QED
  BY <1>6, <1>7 DEF SteadyInvoices, ItemsTaken

\* Their trucks: all stand empty, and nothing is left on the way.
LEMMA SteadyTrucksRestart == SteadyInv /\ Restart => SteadyTrucks'
<1> SUFFICES ASSUME SteadyInv, Restart PROVE SteadyTrucks'
  OBVIOUS
<1>1. /\ freeTrucks' = Trucks
      /\ \A t \in Trucks : /\ tstatus'[t] = "free" /\ manifest'[t] = << >>
                            /\ loadStep'[t] = 0 /\ stops'[t] = {}
  BY DEF Restart
<1>2. \A t \in Trucks : Aboard(t)' = {}
  BY <1>1 DEF Aboard, Range
<1>3. \A t \in Trucks : RunShape(t)'
  BY <1>1 DEF RunShape
<1>4. \A o \in Steady' : status'[o] \notin {"loaded", "in-transit"}
  BY SteadyResumed DEF NoStatus
<1> QED
  BY <1>1, <1>2, <1>3, <1>4 DEF SteadyTrucks

-------------------------------------------------------------------------------
(* The topics of the steady orders and of their invoices.                  *)

\* Silver takes event e of an order after event d, but for the reload of a requeued one.
OrderTakes(d, e) == SilverOrderValid(d, e) \/ (d = "in-transit" /\ e = "loaded")

\* And event e of an invoice after event d.
InvoiceTakes(d, e) == SilverInvoiceValid(d[1], d[2], e[1], e[2])

\* What has been sent about an order is of a set, and silver takes each after each
\* earlier one.
OrderHistory(m, W) ==
  /\ Range(m) \subseteq W
  /\ \A j, k \in DOMAIN m : j < k => OrderTakes(m[j], m[k])

\* Another event may follow if silver takes it after all of the set.
LEMMA HistoryGrows ==
  ASSUME NEW m \in Seq(OrderStatus), NEW W, NEW a \in OrderStatus,
         OrderHistory(m, W), \A d \in W : OrderTakes(d, a)
  PROVE  /\ Append(m, a) \in Seq(OrderStatus)
         /\ OrderHistory(Append(m, a), W \cup {a})
         /\ Append(m, a)[Len(Append(m, a))] = a /\ Append(m, a) # << >>
<1> DEFINE n == Append(m, a)
<1>1. /\ n \in Seq(OrderStatus) /\ Len(m) \in Nat /\ DOMAIN m = 1..Len(m)
      /\ Len(n) = Len(m) + 1 /\ DOMAIN n = 1..Len(n)
      /\ \A k \in 1..Len(m) : n[k] = m[k]
      /\ n[Len(m) + 1] = a
  <2>1. n \in Seq(OrderStatus) /\ DOMAIN n = 1..Len(n)
    OBVIOUS
  <2> QED
    BY <2>1, TopicIndices
<1> HIDE DEF n
<1>2. \A k \in DOMAIN n : (k \in DOMAIN m /\ n[k] = m[k]) \/ (k = Len(m) + 1 /\ n[k] = a)
  BY <1>1
<1>3. \A k \in DOMAIN m : m[k] \in W
  BY DEF OrderHistory, Range
<1>4. Range(n) \subseteq W \cup {a}
  BY <1>2, <1>3 DEF Range
<1>5. ASSUME NEW j \in DOMAIN n, NEW k \in DOMAIN n, j < k PROVE OrderTakes(n[j], n[k])
  <2>1. j \in DOMAIN m /\ n[j] = m[j]
    BY <1>1, <1>5
  <2>2. CASE k \in DOMAIN m /\ n[k] = m[k]
    BY <1>5, <2>1, <2>2 DEF OrderHistory
  <2>3. CASE n[k] = a
    BY <1>3, <2>1, <2>3
  <2> QED
    BY <1>2, <2>2, <2>3
<1>6. n[Len(n)] = a /\ n # << >>
  BY <1>1
<1> QED
  BY <1>1, <1>4, <1>5, <1>6 DEF OrderHistory, n

\* The sets of which the topics are.
LEMMA SentByFacts ==
  /\ SentBy(NoStatus) = {}
  /\ SentBy("created") = {"created"}
  /\ SentBy("invoiced") = {"created", "invoiced"}
  /\ SentBy("cancelled") = {"created", "invoiced", "cancelled"}
  /\ SentBy("on-hold") = {"created", "invoiced", "paid", "on-hold"}
  /\ SentBy("loaded") = {"created", "invoiced", "paid", "on-hold", "loaded", "in-transit"}
  /\ SentBy("in-transit") = SentBy("loaded")
  /\ SentBy("closed") = SentBy("loaded") \cup {"delivered", "closed"}
BY DEF SentBy, OrderStatus, NoStatus

\* How silver ranks the statuses.
LEMMA OrderRanks ==
  /\ OrderRank("created") = 0 /\ OrderRank("invoiced") = 1 /\ OrderRank("paid") = 2
  /\ OrderRank("on-hold") = 3 /\ OrderRank("loaded") = 4 /\ OrderRank("in-transit") = 5
  /\ OrderRank("delivered") = 6 /\ OrderRank("closed") = 7
BY DEF OrderRank

\* An order moves, from what it had sent last, by events that silver takes.
LEMMA MovesTaken ==
  ASSUME NEW s, NEW sent, NEW to, <<s, sent, to>> \in Moves,
         NEW last, last = s \/ (s = "on-hold" /\ last \in {"loaded", "in-transit"})
  PROVE  \/ /\ sent = <<to>> /\ to \in OrderStatus
            /\ SentBy(last) \cup {to} \subseteq SentBy(to)
            /\ \A d \in SentBy(last) : OrderTakes(d, to)
         \/ \E a \in OrderStatus :
              /\ sent = <<a, to>> /\ to \in OrderStatus
              /\ SentBy(last) \cup {a, to} \subseteq SentBy(to)
              /\ \A d \in SentBy(last) : OrderTakes(d, a)
              /\ \A d \in SentBy(last) \cup {a} : OrderTakes(d, to)
<1> USE SentByFacts, OrderRanks DEF OrderTakes, SilverOrderValid, OrderCancellableMaxRank,
        OrderStatus, NoStatus
<1>1. CASE s = NoStatus /\ sent = <<"created">> /\ to = "created"
  BY <1>1
<1>2. CASE s = "created" /\ sent = <<"invoiced">> /\ to = "invoiced"
  BY <1>2
<1>3. CASE s = "invoiced" /\ sent = <<"paid", "on-hold">> /\ to = "on-hold"
  BY <1>3
<1>4. CASE s = "invoiced" /\ sent = <<"cancelled">> /\ to = "cancelled"
  BY <1>4
<1>5. CASE s = "on-hold" /\ sent = <<"loaded">> /\ to = "loaded"
  <2>1. SentBy(last) \cup {to} \subseteq SentBy("loaded")
    BY <1>5
  <2>2. \A d \in SentBy("loaded") : OrderTakes(d, "loaded")
    OBVIOUS
  <2> QED
    BY <1>5, <2>1, <2>2
<1>6. CASE s = "loaded" /\ sent = <<"in-transit">> /\ to = "in-transit"
  BY <1>6
<1>7. CASE s = "in-transit" /\ sent = <<"delivered", "closed">> /\ to = "closed"
  <2>1. SentBy(last) = SentBy("loaded")
    BY <1>7
  <2>2. \A d \in SentBy("loaded") : OrderTakes(d, "delivered")
    OBVIOUS
  <2>3. \A d \in SentBy("loaded") \cup {"delivered"} : OrderTakes(d, "closed")
    OBVIOUS
  <2>4. SentBy(last) \cup {"delivered", "closed"} \subseteq SentBy("closed")
    BY <2>1
  <2> HIDE SentByFacts, OrderRanks DEF OrderTakes, SilverOrderValid
  <2> QED
    BY <1>7, <2>1, <2>2, <2>3, <2>4
<1> QED
  BY <1>1, <1>2, <1>3, <1>4, <1>5, <1>6, <1>7 DEF Moves

\* What is sent about a steady order, kept by each of its moves.
LEMMA HistoryMoves ==
  ASSUME TypeOK, NEW o \in Orders, OrderHistory(poTopic[o], SentBy(LastSent(o))),
         \/ status[o] = LastSent(o)
         \/ status[o] = "on-hold" /\ LastSent(o) \in {"loaded", "in-transit"},
         NEW sent, NEW to, <<status[o], sent, to>> \in Moves,
         poTopic'[o] = poTopic[o] \o sent
  PROVE  OrderHistory(poTopic'[o], SentBy(LastSent(o)'))
<1> DEFINE m == poTopic[o]
           W == SentBy(LastSent(o))
<1>1. m \in Seq(OrderStatus) /\ OrderHistory(m, W)
  BY DEF TypeOK
<1>2. ASSUME NEW n \in Seq(OrderStatus), NEW V, poTopic'[o] = n, OrderHistory(n, V),
             V \subseteq SentBy(to), n # << >>, n[Len(n)] = to
      PROVE  OrderHistory(poTopic'[o], SentBy(LastSent(o)'))
  <2>1. LastSent(o)' = to
    BY <1>2 DEF LastSent
  <2> QED
    BY <1>2, <2>1 DEF OrderHistory
<1>3. CASE /\ sent = <<to>> /\ to \in OrderStatus
           /\ W \cup {to} \subseteq SentBy(to)
           /\ \A d \in W : OrderTakes(d, to)
  <2> DEFINE n == Append(m, to)
  <2> HIDE DEF W, m
  <2>1. /\ n \in Seq(OrderStatus) /\ OrderHistory(n, W \cup {to})
        /\ n[Len(n)] = to /\ n # << >>
    BY <1>1, <1>3, HistoryGrows
  <2>2. n = m \o <<to>>
    BY <1>1, <1>3
  <2>3. poTopic'[o] = n
    BY <1>3, <2>2 DEF m
  <2> HIDE DEF n
  <2> QED
    BY <1>2, <1>3, <2>1, <2>3
<1>4. ASSUME NEW a \in OrderStatus, sent = <<a, to>>, to \in OrderStatus,
             W \cup {a, to} \subseteq SentBy(to),
             \A d \in W : OrderTakes(d, a),
             \A d \in W \cup {a} : OrderTakes(d, to)
      PROVE  OrderHistory(poTopic'[o], SentBy(LastSent(o)'))
  <2> DEFINE l == Append(m, a)
             n == Append(l, to)
  <2> HIDE DEF W, m
  <2>1. l \in Seq(OrderStatus) /\ OrderHistory(l, W \cup {a})
    BY <1>1, <1>4, HistoryGrows
  <2>2. n = m \o <<a, to>>
    BY <1>1, <1>4
  <2> HIDE DEF l
  <2>3. /\ n \in Seq(OrderStatus) /\ OrderHistory(n, (W \cup {a}) \cup {to})
        /\ n[Len(n)] = to /\ n # << >>
    BY <1>4, <2>1, HistoryGrows
  <2>4. poTopic'[o] = n
    BY <1>4, <2>2 DEF m
  <2> HIDE DEF n
  <2> QED
    BY <1>2, <1>4, <2>3, <2>4
<1>5. \/ LastSent(o) = status[o]
      \/ status[o] = "on-hold" /\ LastSent(o) \in {"loaded", "in-transit"}
  OBVIOUS
<1> HIDE DEF m, W
<1> QED
  BY <1>3, <1>4, <1>5, MovesTaken DEF W

\* The topics of the steady ones in this form.
InvoiceHistory(i) ==
  /\ istatus[i] = NoStatus => paymentReminder[i] = 0
  /\ istatus[i] # NoStatus =>
       ivTopic[i][Len(ivTopic[i])] = <<istatus[i], paymentReminder[i]>>
  /\ \A k \in DOMAIN ivTopic[i] :
       /\ ivTopic[i][k][2] <= paymentReminder[i]
       /\ istatus[i] = "pending" => ivTopic[i][k][1] \in {"created", "pending"}
  /\ \A j, k \in DOMAIN ivTopic[i] : j < k => InvoiceTakes(ivTopic[i][j], ivTopic[i][k])

Histories ==
  /\ \A o \in Steady : OrderHistory(poTopic[o], SentBy(LastSent(o)))
  /\ \A i \in Invoices : i[1] \in Steady => InvoiceHistory(i)

\* It says the same as the two conjuncts of the invariant.
LEMMA HistoriesSame == Histories <=> SteadyTopics /\ OnlyReloadsRefused
<1>1. \A i \in Invoices : i[1] \in Orders
  BY DEF Invoices
<1>2. ASSUME NEW i \in Invoices
      PROVE  i[1] \in Steady <=> i[1] \notin lagged
  BY <1>1 DEF Steady
<1>3. ASSUME NEW o
      PROVE  OrderHistory(poTopic[o], SentBy(LastSent(o))) <=>
               /\ Range(poTopic[o]) \subseteq SentBy(LastSent(o))
               /\ \A j, k \in DOMAIN poTopic[o] :
                    j < k => \/ SilverOrderValid(poTopic[o][j], poTopic[o][k])
                             \/ poTopic[o][j] = "in-transit" /\ poTopic[o][k] = "loaded"
  BY DEF OrderHistory, OrderTakes
<1>4. (\A o \in Steady : OrderHistory(poTopic[o], SentBy(LastSent(o)))) <=>
        /\ \A o \in Steady : Range(poTopic[o]) \subseteq SentBy(LastSent(o))
        /\ \A o \in Orders \ lagged : \A j, k \in DOMAIN poTopic[o] :
             j < k => \/ SilverOrderValid(poTopic[o][j], poTopic[o][k])
                      \/ poTopic[o][j] = "in-transit" /\ poTopic[o][k] = "loaded"
  BY <1>3, Zenon DEF Steady
<1>5. ASSUME NEW i \in Invoices
      PROVE  InvoiceHistory(i) <=>
               /\ istatus[i] = NoStatus => paymentReminder[i] = 0
               /\ istatus[i] # NoStatus =>
                    ivTopic[i][Len(ivTopic[i])] = <<istatus[i], paymentReminder[i]>>
               /\ \A k \in DOMAIN ivTopic[i] :
                    /\ ivTopic[i][k][2] <= paymentReminder[i]
                    /\ istatus[i] = "pending" => ivTopic[i][k][1] \in {"created", "pending"}
               /\ \A j, k \in DOMAIN ivTopic[i] :
                    j < k => SilverInvoiceValid(ivTopic[i][j][1], ivTopic[i][j][2],
                                                ivTopic[i][k][1], ivTopic[i][k][2])
  BY DEF InvoiceHistory, InvoiceTakes
<1> QED
  BY <1>2, <1>4, <1>5, Zenon DEF Histories, SteadyTopics, OnlyReloadsRefused

\* What is sent about a set of orders keeps the histories of the steady ones if it moves
\* these.
LEMMA HistoriesMove ==
  ASSUME TypeOK, SteadyOrders, Histories, NEW S, NEW sent, NEW to,
         \A o \in S \cap Steady : <<status[o], sent, to>> \in Moves,
         SendStatus(S, sent), NEW o \in Steady
  PROVE  OrderHistory(poTopic'[o], SentBy(LastSent(o)'))
<1>1. /\ o \in Orders /\ OrderHistory(poTopic[o], SentBy(LastSent(o)))
      /\ \/ status[o] = LastSent(o)
         \/ status[o] = "on-hold" /\ LastSent(o) \in {"loaded", "in-transit"}
  BY DEF Histories, SteadyOrders, Steady
<1>2. CASE o \in S
  <2>1. poTopic'[o] = poTopic[o] \o sent /\ <<status[o], sent, to>> \in Moves
    BY <1>1, <1>2 DEF SendStatus
  <2> QED
    BY <1>1, <2>1, HistoryMoves
<1>3. CASE o \notin S
  <2>1. poTopic'[o] = poTopic[o]
    BY <1>1, <1>3 DEF SendStatus
  <2> QED
    BY <1>1, <2>1 DEF LastSent
<1> QED
  BY <1>2, <1>3

\* Every step of the generator keeps what is sent about steady orders in line.
LEMMA OrderHistoriesStep ==
  ASSUME SteadyInv, GeneratorStep, NEW o \in Steady
  PROVE  OrderHistory(poTopic'[o], SentBy(LastSent(o)'))
<1> DEFINE Goal == OrderHistory(poTopic'[o], SentBy(LastSent(o)'))
<1> SUFFICES Goal
  OBVIOUS
<1>1. /\ TypeOK /\ Next /\ SteadyOrders /\ Histories /\ Steady \subseteq Orders
      /\ OrderHistory(poTopic[o], SentBy(LastSent(o)))
  BY SteadyParts, HistoriesSame DEF SteadyInv, Steady, Histories
<1>2. CASE poTopic' = poTopic
  BY <1>1, <1>2 DEF LastSent
<1>3. ASSUME NEW i \in Invoices, InvoiceSettles(i) PROVE Goal
  <2>1. i[1] \in Orders
    BY DEF Invoices
  <2>2. CASE OrderMay(i[1], "paid") /\ MarkPaid(i[1])
    <3> DEFINE S == {i[1]}
               sent == <<"paid", "on-hold">>
    <3>1. \A p \in S \cap Steady : <<status[p], sent, "on-hold">> \in Moves
      BY <1>1, <2>1, <2>2, MayFacts DEF Moves
    <3>2. SendStatus(S, sent)
      BY <2>2 DEF MarkPaid
    <3> HIDE DEF S, sent
    <3> QED
      BY <1>1, <3>1, <3>2, HistoriesMove
  <2> HIDE DEF Goal
  <2> QED
    BY <1>2, <1>3, <2>2 DEF InvoiceSettles
<1>4. ASSUME NEW i \in Invoices, InvoiceCancels(i) PROVE Goal
  <2> DEFINE S == {p \in {i[1]} : OrderMay(p, "cancelled")}
             sent == <<"cancelled">>
  <2>1. i \in dueTimers
    BY <1>4 DEF InvoiceCancels
  <2>2. \A p \in S \cap Steady : status[p] = "invoiced"
    BY <2>1, SteadyTimer
  <2>3. \A p \in S \cap Steady : <<status[p], sent, "cancelled">> \in Moves
    BY <2>2 DEF Moves
  <2>4. SendStatus(S, sent)
    BY <1>4 DEF InvoiceCancels
  <2> HIDE DEF S, sent
  <2> QED
    BY <1>1, <2>3, <2>4, HistoriesMove
<1>5. ASSUME NEW t \in Trucks, LoadOrder(t) PROVE Goal
  <2> DEFINE p == manifest[t][loadStep[t] + 1]
             S == {p}
             sent == <<"loaded">>
  <2>1. p \in Orders
    BY <1>1, <1>5, AboardTyped DEF LoadOrder, TypeOK
  <2>2. (OrderMay(p, "loaded") /\ SendStatus(S, sent)) \/ poTopic' = poTopic
    BY <1>5 DEF LoadOrder
  <2> HIDE DEF p
  <2>3. OrderMay(p, "loaded") =>
          \A q \in S \cap Steady : <<status[q], sent, "loaded">> \in Moves
    BY <1>1, <2>1, MayFacts DEF Moves
  <2> HIDE DEF S, sent, Goal
  <2>4. CASE OrderMay(p, "loaded") /\ SendStatus(S, sent)
    BY <1>1, <2>3, <2>4, HistoriesMove DEF Goal
  <2> QED
    BY <1>2, <2>2, <2>4
<1>6. ASSUME NEW t \in Trucks, Depart(t) PROVE Goal
  <2> DEFINE Refuses(k) == ~OrderMay(manifest[t][k], "in-transit")
             gone == {manifest[t][k] : k \in {k \in DOMAIN manifest[t] :
                                                \A j \in 1..k : ~Refuses(j)}}
             sent == <<"in-transit">>
  <2>1. \A k \in DOMAIN manifest[t] : k \in 1..k /\ manifest[t][k] \in Orders
    BY <1>1, AboardTyped
  <2>2. \A p \in gone \cap Steady : <<status[p], sent, "in-transit">> \in Moves
    BY <1>1, <2>1, MayFacts DEF Moves
  <2>3. SendStatus(gone, sent)
    BY <1>6 DEF Depart
  <2> HIDE DEF gone, sent
  <2> QED
    BY <1>1, <2>2, <2>3, HistoriesMove
<1>7. ASSUME NEW A \in SUBSET Trucks, TrucksTick(A) PROVE Goal
  <2> DEFINE delivered == {p \in UNION {Unloading(t) : t \in AtStop(A)} :
                             OrderMay(p, "delivered")}
             sent == <<"delivered", "closed">>
  <2>1. \A p \in delivered : p \in Orders
    BY <1>1, AboardTyped DEF Unloading, AtStop
  <2>2. \A p \in delivered \cap Steady : <<status[p], sent, "closed">> \in Moves
    BY <1>1, <2>1, MayFacts DEF Moves
  <2>3. SendStatus(delivered, sent)
    BY <1>7 DEF TrucksTick
  <2> HIDE DEF delivered, sent
  <2> QED
    BY <1>1, <2>2, <2>3, HistoriesMove
<1>8. CASE ProcessPendingInvoices
  <2> DEFINE sent == <<"invoiced">>
  <2>1. \A p \in Invoiceable \cap Steady : <<status[p], sent, "invoiced">> \in Moves
    BY DEF Invoiceable, Moves
  <2>2. SendStatus(Invoiceable, sent)
    BY <1>8 DEF ProcessPendingInvoices, CreateInvoices
  <2> HIDE DEF sent
  <2> QED
    BY <1>1, <2>1, <2>2, HistoriesMove
<1>9. ASSUME NEW p \in Orders, NEW c \in Customers, NEW z \in Zones,
             NEW q \in Quantities, CreateOrder(p, c, z, q)
      PROVE  Goal
  <2> DEFINE S == {p}
             sent == <<"created">>
  <2>1. \A r \in S \cap Steady : <<status[r], sent, "created">> \in Moves
    BY <1>9 DEF CreateOrder, Moves
  <2>2. SendStatus(S, sent)
    BY <1>9 DEF CreateOrder
  <2> HIDE DEF S, sent
  <2> QED
    BY <1>1, <2>1, <2>2, HistoriesMove
<1>10. \/ \E i \in Invoices : InvoiceSettles(i) \/ InvoiceCancels(i)
       \/ \E t \in Trucks : LoadOrder(t) \/ Depart(t)
       \/ \E A \in SUBSET Trucks : TrucksTick(A)
       \/ ProcessPendingInvoices
       \/ \E p \in Orders, c \in Customers, z \in Zones, q \in Quantities :
            CreateOrder(p, c, z, q)
       \/ poTopic' = poTopic
  BY <1>1
     DEF Next, Callback, Step, Pipeline, vars, VerifyAccount, InvoiceReminds,
         EndSchedulerTick, CustomersTick, SkipOrder, DispatchNoTruck, SkipZone,
         DispatchZone, CollectTerminal, SilverOrders, SilverCustomers, topicVars
<1> HIDE DEF Goal
<1> QED
  BY <1>2, <1>3, <1>4, <1>5, <1>6, <1>7, <1>8, <1>9, <1>10

\* A pending invoice may send a reminder or its end.
LEMMA InvoiceHistoryMoves ==
  ASSUME TypeOK, NEW i \in Invoices, InvoiceHistory(i), istatus[i] = "pending",
         NEW s \in {"pending", "settled", "cancelled"}, NEW n \in 0..MaxReminders,
         paymentReminder[i] <= n, istatus'[i] = s, paymentReminder'[i] = n,
         ivTopic'[i] = Append(ivTopic[i], <<s, n>>)
  PROVE  InvoiceHistory(i)'
<1> DEFINE E == InvoiceStatus \X (0..MaxReminders)
           m == ivTopic[i]
           e == <<s, n>>
           l == Append(m, e)
<1>1. m \in Seq(E) /\ e \in E
  BY DEF TypeOK, InvoiceStatus
<1>2. e[1] = s /\ e[2] = n
  OBVIOUS
<1>3. /\ \A k \in DOMAIN m : /\ m[k] \in E
                             /\ m[k][2] <= paymentReminder[i]
                             /\ m[k][1] \in {"created", "pending"}
      /\ \A j, k \in DOMAIN m : j < k => InvoiceTakes(m[j], m[k])
  BY <1>1 DEF InvoiceHistory
<1>4. \A k \in DOMAIN m : m[k][2] \in Nat
  BY <1>3, BoundsAssumption
<1>5. paymentReminder[i] \in Nat /\ n \in Nat
  BY BoundsAssumption DEF TypeOK
<1> HIDE DEF e, E, m
<1>6. /\ Len(m) \in Nat /\ DOMAIN m = 1..Len(m) /\ Len(l) = Len(m) + 1
      /\ \A k \in 1..Len(m) : l[k] = m[k]
      /\ l[Len(m) + 1] = e
  BY <1>1, TopicIndices
<1>7. l \in Seq(E) /\ DOMAIN l = 1..Len(l)
  BY <1>1
<1> HIDE DEF l
<1>8. /\ l[Len(l)] = e
      /\ \A k \in DOMAIN l : (k \in DOMAIN m /\ l[k] = m[k]) \/ (k = Len(m) + 1 /\ l[k] = e)
  BY <1>6, <1>7
<1>9. ASSUME NEW k \in DOMAIN m PROVE InvoiceTakes(m[k], e) /\ m[k][2] <= n
  <2>1. m[k][2] <= n
    BY <1>3, <1>4, <1>5
  <2>2. SilverInvoiceValid(m[k][1], m[k][2], s, n)
    BY <1>3, <2>1 DEF SilverInvoiceValid, InvoiceRank, InvoiceCancellableMaxRank, NoStatus
  <2> QED
    BY <1>2, <2>1, <2>2 DEF InvoiceTakes
<1>10. ASSUME NEW j \in DOMAIN l, NEW k \in DOMAIN l, j < k PROVE InvoiceTakes(l[j], l[k])
  <2>1. j \in DOMAIN m /\ l[j] = m[j]
    BY <1>6, <1>7, <1>8, <1>10
  <2>2. CASE k \in DOMAIN m /\ l[k] = m[k]
    BY <1>3, <1>10, <2>1, <2>2
  <2>3. CASE l[k] = e
    BY <1>9, <2>1, <2>3
  <2> QED
    BY <1>8, <2>2, <2>3
<1>11. \A k \in DOMAIN l : /\ l[k][2] <= n
                           /\ s = "pending" => l[k][1] \in {"created", "pending"}
  BY <1>2, <1>3, <1>5, <1>8, <1>9
<1>12. ivTopic'[i] = l
  BY DEF l, m, e
<1> QED
  BY <1>8, <1>10, <1>11, <1>12 DEF InvoiceHistory, NoStatus, e

\* The history of an invoice starts with two events.
LEMMA InvoiceHistoryStarts ==
  ASSUME TypeOK, NEW i \in Invoices, ivTopic[i] = << >>,
         istatus'[i] = "pending", paymentReminder'[i] = 0,
         ivTopic'[i] = ivTopic[i] \o <<<<"created", 0>>, <<"pending", 0>>>>
  PROVE  InvoiceHistory(i)'
<1> DEFINE l == <<<<"created", 0>>, <<"pending", 0>>>>
<1>1. ivTopic'[i] = l
  OBVIOUS
<1>2. /\ Len(l) = 2 /\ DOMAIN l = 1..2
      /\ l[1] = <<"created", 0>> /\ l[2] = <<"pending", 0>>
  OBVIOUS
<1> HIDE DEF l
<1>3. \A k \in DOMAIN l : k = 1 \/ k = 2
  BY <1>2
<1>4. \A k \in DOMAIN l : l[k][2] <= 0 /\ l[k][1] \in {"created", "pending"}
  BY <1>2, <1>3
<1>5. ASSUME NEW j \in DOMAIN l, NEW k \in DOMAIN l, j < k PROVE InvoiceTakes(l[j], l[k])
  <2>1. j = 1 /\ k = 2
    BY <1>3, <1>5
  <2> QED
    BY <1>2, <2>1 DEF InvoiceTakes, SilverInvoiceValid, InvoiceRank
<1>6. l[Len(l)] = <<"pending", 0>>
  BY <1>2
<1> QED
  BY <1>1, <1>4, <1>5, <1>6 DEF InvoiceHistory, NoStatus

\* Every step of the generator keeps what is sent about their invoices in line.
LEMMA InvoiceHistoriesStep ==
  ASSUME SteadyInv, GeneratorStep, NEW i \in Invoices, i[1] \in Steady
  PROVE  InvoiceHistory(i)'
<1>1. TypeOK /\ ExistAsSent /\ Next /\ InvoiceHistory(i)
  BY SteadyParts, HistoriesSame DEF SteadyInv, Histories
<1>2. CASE /\ istatus'[i] = istatus[i] /\ ivTopic'[i] = ivTopic[i]
           /\ paymentReminder'[i] = paymentReminder[i]
  BY <1>1, <1>2 DEF InvoiceHistory
<1>3. paymentReminder[i] \in 0..MaxReminders /\ MaxReminders \in Nat
  BY <1>1, BoundsAssumption DEF TypeOK
<1>4. ASSUME NEW j \in Invoices, InvoiceSettles(j) \/ InvoiceCancels(j)
      PROVE  InvoiceHistory(i)'
  <2>1. /\ istatus[j] = "pending" /\ paymentReminder' = paymentReminder
        /\ \E s \in {"settled", "cancelled"} : InvoiceEvent(j, s, paymentReminder[j])
    BY <1>4 DEF InvoiceSettles, InvoiceCancels
  <2>2. PICK s \in {"settled", "cancelled"} : InvoiceEvent(j, s, paymentReminder[j])
    BY <2>1
  <2>3. CASE j = i
    <3>1. istatus'[i] = s /\ ivTopic'[i] = Append(ivTopic[i], <<s, paymentReminder[i]>>)
      BY <1>1, <2>2, <2>3 DEF InvoiceEvent, TypeOK
    <3> QED
      BY <1>1, <1>3, <2>1, <2>3, <3>1, InvoiceHistoryMoves
  <2>4. CASE j # i
    BY <1>1, <1>2, <2>1, <2>2, <2>4 DEF InvoiceEvent, TypeOK
  <2> QED
    BY <2>3, <2>4
<1>5. ASSUME NEW j \in Invoices, InvoiceReminds(j) PROVE InvoiceHistory(i)'
  <2>1. /\ istatus[j] = "pending" /\ paymentReminder[j] < MaxReminders
        /\ paymentReminder' = [paymentReminder EXCEPT ![j] = @ + 1]
        /\ InvoiceEvent(j, "pending", paymentReminder[j] + 1)
    BY <1>5 DEF InvoiceReminds
  <2>2. CASE j = i
    <3> DEFINE n == paymentReminder[i] + 1
    <3>1. /\ istatus'[i] = "pending" /\ ivTopic'[i] = Append(ivTopic[i], <<"pending", n>>)
          /\ paymentReminder'[i] = n
      BY <1>1, <2>1, <2>2 DEF InvoiceEvent, TypeOK
    <3>2. n \in 0..MaxReminders /\ paymentReminder[i] <= n
      BY <1>3, <2>1, <2>2
    <3> HIDE DEF n
    <3> QED
      BY <1>1, <2>1, <2>2, <3>1, <3>2, InvoiceHistoryMoves
  <2>3. CASE j # i
    BY <1>1, <1>2, <2>1, <2>3 DEF InvoiceEvent, TypeOK
  <2> QED
    BY <2>2, <2>3
<1>6. CASE ProcessPendingInvoices
  <2> DEFINE new == {NextInvoice(o) : o \in Invoiceable}
  <2>1. /\ paymentReminder' = paymentReminder
        /\ istatus'[i] = IF i \in new THEN "pending" ELSE istatus[i]
        /\ ivTopic'[i] = IF i \in new
                         THEN ivTopic[i] \o <<<<"created", 0>>, <<"pending", 0>>>>
                         ELSE ivTopic[i]
    BY <1>6 DEF ProcessPendingInvoices, CreateInvoices
  <2>2. CASE i \in new
    <3>1. PICK o \in Invoiceable : i = NextInvoice(o)
      BY <2>2
    <3>2. /\ o \in Orders /\ status[o] = "created" /\ i = <<o, 1>>
          /\ o \in orders /\ invoices \cap InvoicesOf(o) = {}
      BY <1>1, <3>1, InvoiceableHasNone DEF Invoiceable
    <3>3. i \in InvoicesOf(o)
      BY <3>2 DEF InvoicesOf
    <3>4. istatus[i] = NoStatus /\ ivTopic[i] = << >>
      BY <1>1, <3>2, <3>3 DEF ExistAsSent
    <3>5. paymentReminder'[i] = 0
      BY <1>1, <2>1, <3>4 DEF InvoiceHistory
    <3> HIDE DEF new
    <3> QED
      BY <1>1, <2>1, <2>2, <3>4, <3>5, InvoiceHistoryStarts
  <2>3. CASE i \notin new
    BY <1>2, <2>1, <2>3
  <2> QED
    BY <2>2, <2>3
<1>7. \/ \E j \in Invoices : InvoiceSettles(j) \/ InvoiceReminds(j) \/ InvoiceCancels(j)
      \/ ProcessPendingInvoices
      \/ UNCHANGED <<istatus, ivTopic, paymentReminder>>
  BY <1>1
     DEF Next, Callback, Step, Pipeline, VerifyAccount, LoadOrder, Depart, EndSchedulerTick,
         CustomersTick, CreateOrder, SkipOrder, DispatchNoTruck, SkipZone, DispatchZone,
         TrucksTick, CollectTerminal, SilverOrders, SilverCustomers, invoiceVars, topicVars
<1> QED
  BY <1>2, <1>4, <1>5, <1>6, <1>7

\* A restart goes on where the histories of steady orders and invoices end.
LEMMA HistoriesRestart == SteadyInv /\ Restart => Histories'
<1> SUFFICES ASSUME SteadyInv, Restart PROVE Histories'
  OBVIOUS
<1>1. /\ RestartInv /\ TypeOK /\ ExistAsSent /\ SteadyOrders /\ SteadyInvoices /\ Histories
      /\ Steady' \subseteq Orders
  BY InvParts, HistoriesSame DEF SteadyInv, Steady
<1>2. ASSUME NEW o \in Steady' PROVE OrderHistory(poTopic'[o], SentBy(LastSent(o)'))
  <2>1. o \in Steady /\ o \in Orders /\ (o \in ResumedInvoiceable <=> status[o] = "created")
    BY <1>1, <1>2, SteadyResumed
  <2>2. CASE o \in ResumedInvoiceable
    <3> DEFINE sent == <<"invoiced">>
    <3>1. <<status[o], sent, "invoiced">> \in Moves /\ poTopic'[o] = poTopic[o] \o sent
      BY <2>1, <2>2 DEF Restart, SendStatus, Moves
    <3>2. /\ OrderHistory(poTopic[o], SentBy(LastSent(o)))
          /\ \/ status[o] = LastSent(o)
             \/ status[o] = "on-hold" /\ LastSent(o) \in {"loaded", "in-transit"}
      BY <1>1, <2>1 DEF Histories, SteadyOrders
    <3> HIDE DEF sent
    <3> QED
      BY <1>1, <2>1, <3>1, <3>2, HistoryMoves
  <2>3. CASE o \notin ResumedInvoiceable
    <3>1. poTopic'[o] = poTopic[o]
      BY <1>1, <2>1, <2>3, RestartSends
    <3> QED
      BY <1>1, <2>1, <3>1 DEF Histories, LastSent
  <2> QED
    BY <2>2, <2>3
<1>3. ASSUME NEW i \in Invoices, i[1] \in Steady' PROVE InvoiceHistory(i)'
  <2> DEFINE o == i[1]
             new == {NextInvoice(p) : p \in ResumedInvoiceable}
  <2>1. o \in Steady /\ o \in Orders /\ ~Lagging(o)
        /\ (o \in ResumedInvoiceable <=> status[o] = "created")
    BY <1>1, <1>3, SteadyResumed
  <2>2. InvoiceHistory(i) /\ istatus[i] = LastInvoice(i)
    BY <1>1, <2>1 DEF Histories, SteadyInvoices
  <2>3. /\ istatus'[i] = IF i \in PendingInSilver \cup new THEN "pending" ELSE istatus[i]
        /\ paymentReminder'[i] = IF i \in PendingInSilver THEN SilverInvoice(i)[2]
                                                          ELSE paymentReminder[i]
        /\ ivTopic'[i] = IF i \in new
                         THEN ivTopic[i] \o <<<<"created", 0>>, <<"pending", 0>>>>
                         ELSE ivTopic[i]
    BY DEF Restart
  <2>4. SilverInvoice(i)[1] = LastInvoice(i)
    BY <1>1, <2>1, SteadySeen
  <2>5. ASSUME i \in new
        PROVE  istatus[i] = NoStatus /\ ivTopic[i] = << >> /\ i \notin PendingInSilver
    <3>1. PICK p \in ResumedInvoiceable : i = NextInvoice(p)
      BY <2>5
    <3>2. NextInvoice(p)[1] = p
      BY DEF NextInvoice
    <3>3. status[o] = "created" /\ p = o
      BY <2>1, <3>1, <3>2
    <3>4. istatus[i] = NoStatus
      <4>1. NextInvoice(o) = <<o, 1>>
        BY <1>3, <3>3, SteadyRepaired
      <4>2. i[2] = 1
        BY <3>1, <3>3, <4>1
      <4> QED
        BY <1>1, <2>1, <3>3, <4>2 DEF SteadyInvoices
    <3>5. i \notin PendingInSilver
      BY <2>2, <2>4, <3>4 DEF PendingInSilver, NoStatus
    <3> QED
      BY <1>1, <3>4, <3>5 DEF ExistAsSent
  <2> HIDE DEF new
  <2>6. CASE i \in new
    <3>1. paymentReminder'[i] = 0
      BY <2>2, <2>3, <2>5, <2>6 DEF InvoiceHistory
    <3> QED
      BY <1>1, <2>3, <2>5, <2>6, <3>1, InvoiceHistoryStarts
  <2>7. CASE i \in PendingInSilver /\ i \notin new
    <3>1. istatus[i] = "pending"
      BY <2>2, <2>4, <2>7 DEF PendingInSilver
    <3>2. SilverInvoice(i)[2] = paymentReminder[i]
      <4>1. ivTopic[i] \in Seq(InvoiceStatus \X (0..MaxReminders))
        BY <1>1 DEF TypeOK
      <4>2. ivSeen[i] \in Nat /\ ivSeen[i] <= Len(ivTopic[i])
        BY <1>1 DEF RestartInv, SeenWasSent
      <4>3. ivSeen[i] = Len(ivTopic[i])
        BY <2>1, <4>1, <4>2 DEF Lagging, InvoicesOf
      <4>4. ivTopic[i][Len(ivTopic[i])] = <<istatus[i], paymentReminder[i]>>
        BY <2>2, <3>1 DEF InvoiceHistory, NoStatus
      <4>5. SilverInvoice(i)[1] # NoStatus
        BY <2>7 DEF PendingInSilver, NoStatus
      <4>6. ivSeen[i] # 0
        BY <4>5 DEF SilverInvoice
      <4> QED
        BY <4>3, <4>4, <4>6 DEF SilverInvoice
    <3>3. /\ istatus'[i] = istatus[i] /\ ivTopic'[i] = ivTopic[i]
          /\ paymentReminder'[i] = paymentReminder[i]
      BY <2>3, <2>7, <3>1, <3>2
    <3> QED
      BY <2>2, <3>3 DEF InvoiceHistory
  <2>8. CASE i \notin PendingInSilver /\ i \notin new
    <3>1. /\ istatus'[i] = istatus[i] /\ ivTopic'[i] = ivTopic[i]
          /\ paymentReminder'[i] = paymentReminder[i]
      BY <2>3, <2>8
    <3> QED
      BY <2>2, <3>1 DEF InvoiceHistory
  <2> QED
    BY <2>6, <2>7, <2>8
<1> QED
  BY <1>2, <1>3 DEF Histories

\* The two conjuncts after a step.
LEMMA TopicsStep ==
  /\ SteadyInv /\ GeneratorStep => SteadyTopics' /\ OnlyReloadsRefused'
  /\ SteadyInv /\ Restart => SteadyTopics' /\ OnlyReloadsRefused'
<1>1. (Histories <=> SteadyTopics /\ OnlyReloadsRefused)'
  BY HistoriesSame, PTL
<1>2. ASSUME SteadyInv, GeneratorStep PROVE Histories'
  <2>1. Steady' = Steady
    BY <1>2, SteadyParts
  <2> QED
    BY <1>2, <2>1, OrderHistoriesStep, InvoiceHistoriesStep DEF Histories
<1> QED
  BY <1>1, <1>2, HistoriesRestart

-------------------------------------------------------------------------------
(* The theorems about steady orders.                                       *)

\* In the first process every order is steady, and there is none.
LEMMA SteadyInit == RestartInit => SteadyInv
<1> SUFFICES ASSUME RestartInit PROVE SteadyInv
  OBVIOUS
<1>1. Init /\ RestartInv
  BY RestartInvInit DEF RestartInit
<1>2. /\ \A o \in Orders : status[o] = NoStatus /\ poTopic[o] = << >>
                          /\ sales[o] = 0 /\ liTopic[o] = 0 /\ quantity[o] = 0
      /\ \A i \in Invoices : istatus[i] = NoStatus /\ ivTopic[i] = << >>
      /\ dueTimers = {}
      /\ \A t \in Trucks : /\ tstatus[t] = "free" /\ manifest[t] = << >>
                            /\ loadStep[t] = 0 /\ stops[t] = {}
      /\ freeTrucks = Trucks
      /\ Steady \subseteq Orders
  BY <1>1 DEF Init, Steady
<1>3. SteadyOrders
  BY <1>2 DEF SteadyOrders, LastSent, NoStatus
<1>4. SteadyInvoices
  <2>1. \A i \in Invoices : i[1] \in Orders
    BY DEF Invoices
  <2> QED
    BY <1>2, <2>1 DEF SteadyInvoices, LastInvoice, Paid, NoStatus
<1>5. SteadyTrucks
  <2>1. \A t \in Trucks : Aboard(t) = {}
    BY <1>2 DEF Aboard, Range
  <2>2. \A t \in Trucks : RunShape(t)
    BY <1>2 DEF RunShape
  <2> QED
    BY <1>2, <2>1, <2>2 DEF SteadyTrucks, NoStatus
<1>6. Histories
  <2>1. /\ \A o \in Orders : DOMAIN poTopic[o] = {} /\ Range(poTopic[o]) = {}
        /\ \A i \in Invoices : DOMAIN ivTopic[i] = {}
        /\ \A i \in Invoices : paymentReminder[i] = 0
    BY <1>1, <1>2 DEF Range, Init
  <2> QED
    BY <1>2, <2>1 DEF Histories, OrderHistory, InvoiceHistory
<1> QED
  BY <1>1, <1>3, <1>4, <1>5, <1>6, HistoriesSame DEF SteadyInv

\* What silver applies meanwhile changes nothing for them.
LEMMA SilverKeepsSteady ==
  ASSUME SteadyInv,
         \/ \E i \in Invoices : \E n \in 1..Len(ivTopic[i]) : SilverInvoices(i, n)
         \/ \E o \in Orders : \E n \in 1..liTopic[o] : SilverItems(o, n)
         \/ \E c \in Customers : SilverVerified(c)
         \/ UNCHANGED allVars
  PROVE  SteadyInv'
<1>1. RestartInv'
  BY SilverKeeps DEF SteadyInv
<1>2. UNCHANGED <<vars, lagged, shared>>
  BY DEF SilverInvoices, SilverItems, SilverVerified, allVars, restartVars
<1>3. SteadyOrders' /\ SteadyInvoices'
  BY <1>2 DEF SteadyInv, SteadyOrders, SteadyInvoices, Steady, LastSent, LastInvoice,
              vars, orderVars, invoiceVars, topicVars
<1>4. SteadyTrucks'
  BY <1>2 DEF SteadyInv, SteadyTrucks, Steady, RunShape, Aboard, vars, orderVars, truckVars
<1>5. SteadyTopics' /\ OnlyReloadsRefused'
  BY <1>2 DEF SteadyInv, SteadyTopics, OnlyReloadsRefused, Steady, LastSent, vars,
              invoiceVars, topicVars
<1> QED
  BY <1>1, <1>3, <1>4, <1>5 DEF SteadyInv

\* The invariant of the steady orders holds in every process.
THEOREM SteadyInvariance == RestartSpec => []SteadyInv
<1>1. SteadyInv /\ GeneratorStep => SteadyInv'
  BY GeneratorStepKeeps, SteadyOrdersStep, SteadyInvoicesStep, SteadyTrucksStep,
     TopicsStep DEF SteadyInv
<1>2. SteadyInv /\ Restart => SteadyInv'
  BY RestartKeeps, SteadyOrdersRestart, SteadyInvoicesRestart, SteadyTrucksRestart,
     TopicsStep DEF SteadyInv
<1>3. SteadyInv /\ [RestartNext]_allVars => SteadyInv'
  BY <1>1, <1>2, SilverKeepsSteady DEF RestartNext
<1> QED
  BY <1>3, SteadyInit, PTL DEF RestartSpec

\* No restart loses, doubles or jams an order that silver had caught up with, unless it
\* shares a truck with one that silver had not.
THEOREM OnlyLaggingAffected == RestartSpec => []OnlyLaggingGoWrong
<1>1. ASSUME SteadyInv PROVE OnlyLaggingGoWrong
  <2>1. /\ TypeOK /\ SteadyOrders /\ SteadyInvoices /\ SteadyTrucks
        /\ lagged \cup shared \subseteq Orders
    BY <1>1, InvParts DEF SteadyInv, RestartInv
  <2>2. ASSUME NEW o \in Orders, o \notin lagged \cup shared, o \in Abandoned PROVE FALSE
    <3>1. /\ o \in Steady /\ status[o] \notin {NoStatus, "closed", "cancelled"}
          /\ o \in orders /\ status[o] # "paid"
      BY <2>1, <2>2 DEF Abandoned, Steady, SteadyOrders
    <3>2. CASE status[o] = "invoiced" /\ \A i \in dueTimers : i[1] # o
      <4>1. /\ <<o, 1>> \in Invoices /\ <<o, 1>>[1] = o /\ <<o, 1>>[2] = 1
        BY BoundsAssumption DEF Invoices
      <4>2. <<o, 1>> \in dueTimers
        BY <2>1, <3>1, <3>2, <4>1 DEF SteadyInvoices
      <4> QED
        BY <3>2, <4>1, <4>2
    <3>3. CASE /\ status[o] \in {"loaded", "in-transit"}
               /\ \A t \in Trucks : o \notin Aboard(t)
      BY <2>1, <2>2, <3>1, <3>3 DEF SteadyTrucks
    <3> QED
      BY <2>2, <3>1, <3>2, <3>3 DEF Abandoned
  <2>3. ASSUME NEW o \in Orders \ lagged
        PROVE  Cardinality({i \in InvoicesOf(o) : istatus[i] # NoStatus}) <= 1
    <3> DEFINE S == {i \in InvoicesOf(o) : istatus[i] # NoStatus}
    <3>1. \A i \in S : i = <<o, 1>>
      <4>1. \A i \in Invoices : i = <<i[1], i[2]>>
        BY DEF Invoices
      <4> QED
        BY <2>1, <2>3, <4>1 DEF SteadyInvoices, InvoicesOf, Steady
    <3> HIDE DEF S
    <3>2. S = {} \/ S = {<<o, 1>>}
      BY <3>1
    <3>3. Cardinality({}) = 0 /\ Cardinality({<<o, 1>>}) = 1
      BY FS_EmptySet, FS_Singleton
    <3>4. Cardinality(S) <= 1
      BY <3>2, <3>3
    <3> QED
      BY <3>4 DEF S
  <2>4. ASSUME NEW o \in Orders \ lagged, NEW i \in dueTimers, i[1] = o
        PROVE  OrderMay(o, "paid") /\ OrderMay(o, "cancelled")
    <3>1. i \in Invoices
      BY <2>1 DEF TypeOK
    <3>2. status[o] = "invoiced"
      BY <1>1, <2>4, <3>1, SteadyTimer DEF Steady
    <3> QED
      BY <3>2 DEF OrderMay, OrderTransitions, OrderStatus, NoStatus
  <2>5. Abandoned \subseteq lagged \cup shared
    BY <2>2 DEF Abandoned
  <2> QED
    BY <2>3, <2>4, <2>5 DEF OnlyLaggingGoWrong
<1> QED
  BY <1>1, SteadyInvariance, PTL

\* Of an order that no restart was behind with, silver refuses the reload after a
\* restart and nothing else, however its events are cut into batches.
THEOREM OnlyReloadsAreRefused == RestartSpec => []OnlyReloadsRefused
<1>1. SteadyInv => OnlyReloadsRefused
  BY DEF SteadyInv
<1> QED
  BY <1>1, SteadyInvariance, PTL
===============================================================================
