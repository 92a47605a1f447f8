---------------------------- MODULE GeneratorRestart ----------------------------
(***************************************************************************)
(* The generator with restarts: the process stops between two passes, all  *)
(* it has sent is in Kafka (a graceful shutdown flushes the producer), and *)
(* _bootstrap() rebuilds the objects of the next process from silver,      *)
(* which may lag behind Kafka by any amount, each table by its own.        *)
(*                                                                         *)
(* An object that is not rebuilt keeps its last values here; it is out of  *)
(* the dicts (orders, invoices, dueTimers), so nothing acts on it.         *)
(***************************************************************************)
EXTENDS Generator

CONSTANT MaxRestarts \* bound: restarts in a behaviour

ASSUME RestartsAssumption == MaxRestarts \in Nat

VARIABLES
  ivSeen,        \* events of each invoice that silver has applied
  liSeen,        \* units of each order in silver.product_on_orders_current
  verifiedSent,  \* customers whose account_verified event was sent
  verifiedSeen,  \* silver.customers_current.verified_account
  restarts,
  lagged,        \* history: orders that silver was behind with at a restart
  shared         \* history: orders that were on a truck with one of these
restartVars == <<ivSeen, liSeen, verifiedSent, verifiedSeen, restarts, lagged, shared>>

allVars == <<vars, restartVars>>

RestartInit ==
  /\ Init
  /\ ivSeen = [i \in Invoices |-> 0]
  /\ liSeen = [o \in Orders |-> 0]
  /\ verifiedSent = {}
  /\ verifiedSeen = {}
  /\ restarts = 0
  /\ lagged = {}
  /\ shared = {}

-------------------------------------------------------------------------------
(* load_bootstrap_state(): what the next process reads.                    *)

OpenInSilver == {o \in Orders : SilverStatus(o) \notin {NoStatus, "closed", "cancelled"}}

\* silver.invoices_current: the last event of the invoice that was applied.
SilverInvoice(i) ==
  IF ivSeen[i] = 0 THEN <<NoStatus, 0>> ELSE ivTopic[i][ivSeen[i]]

\* A pending invoice is resumed only with its order.
PendingInSilver ==
  {i \in Invoices : SilverInvoice(i)[1] = "pending" /\ i[1] \in OpenInSilver}

\* Mutant of Requeued: what had left the warehouse is taken for delivered soon.
RequeuedMutant == {o \in OpenInSilver : SilverStatus(o) = "loaded"}

\* The trucks resume empty, so what was on one is queued again; nobody tells
\* Kafka.
Requeued == {o \in OpenInSilver : SilverStatus(o) \in {"loaded", "in-transit"}}

ResumedStatus(o) ==
  CASE o \in Requeued                 -> "on-hold"
    [] SilverStatus(o) = "delivered"  -> "closed"
    [] OTHER                          -> SilverStatus(o)

\* Mutant of ResumedInvoiceable: the repair does not ask for the order's status.
ResumedInvoiceableMutant ==
  {o \in OpenInSilver : InvoicesOf(o) \cap PendingInSilver = {}}

\* The repair at the end of _bootstrap(): orders resumed as "created" that no
\* resumed invoice belongs to.
ResumedInvoiceable ==
  {o \in OpenInSilver : /\ ResumedStatus(o) = "created"
                        /\ InvoicesOf(o) \cap PendingInSilver = {}}

\* An order whose customer has not been resumed is in nobody's set.
ResumedOpenOrderIds(c) == {o \in OpenInSilver : owner[o] = c /\ c \in customersSeen}

ResumedOnHold == {o \in OpenInSilver : ResumedStatus(o) = "on-hold"}

\* Mutant of ResumedQuantity: the order is resumed without its line items.
ResumedQuantityMutant(o) == 0

\* line_items_by_order: what silver has of the line items, which is less than was
\* ordered as long as they are on their way, and if they were quarantined.
ResumedQuantity(o) == liSeen[o]

\* Silver has not applied all that was sent about the order.
Lagging(o) ==
  \/ poSeen[o] < Len(poTopic[o])
  \/ liSeen[o] < liTopic[o]
  \/ \E i \in InvoicesOf(o) : ivSeen[i] < Len(ivTopic[i])

-------------------------------------------------------------------------------
Restart ==
  /\ phase = "scheduler"
  /\ restarts < MaxRestarts
  /\ restarts' = restarts + 1
  /\ lagged' = lagged \cup {o \in Orders : Lagging(o)}
  /\ \A o \in ResumedInvoiceable : NextInvoice(o) \in Invoices
  /\ zoneCursor' = 1
  /\ registered' = customersSeen
  /\ verified' = verifiedSeen
  /\ disabled' = disabled \cap customersSeen
  /\ verifyTimers' = {}
  /\ openOrderIds' = [c \in Customers |-> ResumedOpenOrderIds(c)]
  /\ orders' = OpenInSilver
  /\ claimed' = {}
  /\ status' = [o \in Orders |->
                  CASE o \in ResumedInvoiceable -> "invoiced"
                    [] o \in OpenInSilver \ ResumedInvoiceable -> ResumedStatus(o)
                    [] OTHER -> status[o]]
  /\ quantity' = [o \in Orders |-> IF o \in OpenInSilver THEN ResumedQuantity(o)
                                                         ELSE quantity[o]]
  /\ truckId' = [o \in Orders |-> IF o \in Requeued THEN NoTruck ELSE truckId[o]]
  \* updated_at comes from silver: some order of those that wait.
  /\ \E r \in Bijection(ResumedOnHold, 1..Cardinality(ResumedOnHold)) :
       ahead' = [o \in Orders |->
                   IF o \in ResumedOnHold THEN {p \in ResumedOnHold : r[p] < r[o]}
                                          ELSE ahead[o]]
  /\ LET new == {NextInvoice(o) : o \in ResumedInvoiceable} IN
       /\ invoices' = PendingInSilver \cup new
       /\ dueTimers' = PendingInSilver \cup new
       /\ istatus' = [i \in Invoices |->
                        IF i \in PendingInSilver \cup new THEN "pending"
                                                          ELSE istatus[i]]
       /\ paymentReminder' = [i \in Invoices |->
                                IF i \in PendingInSilver THEN SilverInvoice(i)[2]
                                                         ELSE paymentReminder[i]]
       /\ ivTopic' = [i \in Invoices |->
                        IF i \in new
                        THEN ivTopic[i] \o <<<<"created", 0>>, <<"pending", 0>>>>
                        ELSE ivTopic[i]]
  /\ SendStatus(ResumedInvoiceable, <<"invoiced">>)
  /\ tstatus' = [t \in Trucks |-> "free"]
  /\ manifest' = [t \in Trucks |-> << >>]
  /\ loadStep' = [t \in Trucks |-> 0]
  /\ stops' = [t \in Trucks |-> {}]
  /\ freeTrucks' = Trucks
  /\ UNCHANGED <<phase, owner, zoneId, sales, liTopic, silverVars, ivSeen,
                 liSeen, verifiedSent, verifiedSeen, shared>>

SilverInvoices(i, n) ==
  /\ ivSeen[i] < n
  /\ ivSeen' = [ivSeen EXCEPT ![i] = n]
  /\ UNCHANGED <<vars, liSeen, verifiedSent, verifiedSeen, restarts, lagged, shared>>

\* Line items come to silver one by one, and only behind their order; those that
\* were quarantined never do.
SilverItems(o, n) ==
  /\ OrderInSilver(o)
  /\ liSeen[o] < n
  /\ liSeen' = [liSeen EXCEPT ![o] = n]
  /\ UNCHANGED <<vars, ivSeen, verifiedSent, verifiedSeen, restarts, lagged, shared>>

SilverVerified(c) ==
  /\ c \in (verifiedSent \cap customersSeen) \ verifiedSeen
  /\ verifiedSeen' = verifiedSeen \cup {c}
  /\ UNCHANGED <<vars, ivSeen, liSeen, verifiedSent, restarts, lagged, shared>>

\* Any step of Generator; verify_account() also sends its event.
GeneratorStep ==
  /\ Next
  /\ verifiedSent' = verifiedSent \cup verified'
  /\ shared' = shared \cup UNION {Aboard(t)' : t \in {u \in Trucks :
                                                       Aboard(u)' \cap lagged # {}}}
  /\ UNCHANGED <<ivSeen, liSeen, verifiedSeen, restarts, lagged>>

RestartNext ==
  \/ GeneratorStep
  \/ Restart
  \/ \E i \in Invoices : \E n \in 1..Len(ivTopic[i]) : SilverInvoices(i, n)
  \/ \E o \in Orders : \E n \in 1..liTopic[o] : SilverItems(o, n)
  \/ \E c \in Customers : SilverVerified(c)

RestartSpec == RestartInit /\ [][RestartNext]_allVars

FairRestartSpec == RestartSpec /\ TruckFairness

-------------------------------------------------------------------------------
\* The bookkeeping of a restarted process is as tight as that of the first:
\* every open-order set is exactly its customer's orders.  (That is all: orders
\* that one restart forgot and the next resumes come on top of the cap.)
OpenOrdersMatch ==
  \A c \in Customers : openOrderIds[c] = {o \in orders : owner[o] = c}

\* Open orders that nothing in the process moves on: not in its dict, or invoiced
\* with no timer armed, or left at paid, or loaded on no truck.
Abandoned ==
  {o \in Orders :
     /\ status[o] \notin {NoStatus, "closed", "cancelled"}
     /\ \/ o \notin orders
        \/ status[o] = "invoiced" /\ \A i \in dueTimers : i[1] # o
        \/ status[o] = "paid"
        \/ status[o] \in {"loaded", "in-transit"} /\ \A t \in Trucks : o \notin Aboard(t)}

\* A restart loses, duplicates or jams an order only if silver was behind with
\* that order at some restart: otherwise the process drives it on, it has one invoice, and
\* every status change that its invoice will ask for is allowed.  The exception is
\* an order behind such a one on a truck: when that one refuses to depart, which
\* raises, the order stays "loaded", and it is not delivered.
OnlyLaggingGoWrong ==
  /\ Abandoned \subseteq lagged \cup shared
  /\ \A o \in Orders \ lagged :
       /\ Cardinality({i \in InvoicesOf(o) : istatus[i] # NoStatus}) <= 1
       /\ \A i \in dueTimers : i[1] = o => OrderMay(o, "paid") /\ OrderMay(o, "cancelled")

\* The orphan checks still hold across restarts: an invoice is sent only for
\* an order that silver has, an order only for a customer that silver has.
ParentsStillConfirmed ==
  /\ \A i \in Invoices : ivTopic[i] # << >> => OrderInSilver(i[1])
  /\ \A o \in Orders : poTopic[o] # << >> => owner[o] \in customersSeen

\* A requeued order is loaded again, and silver refuses that event when a batch has it
\* behind "in-transit" (or the rank of its row falls, when it has not).  That is all a
\* restart makes silver refuse of an order it was not behind with: of any other two
\* events of the order or of its invoices, in sending order, it accepts the second.
OnlyReloadsRefused ==
  /\ \A o \in Orders \ lagged : \A j, k \in DOMAIN poTopic[o] :
       j < k => \/ SilverOrderValid(poTopic[o][j], poTopic[o][k])
                \/ poTopic[o][j] = "in-transit" /\ poTopic[o][k] = "loaded"
  /\ \A i \in Invoices : i[1] \notin lagged => \A j, k \in DOMAIN ivTopic[i] :
       j < k => SilverInvoiceValid(ivTopic[i][j][1], ivTopic[i][j][2],
                                   ivTopic[i][k][1], ivTopic[i][k][2])

\* After a restart callbacks do raise (a second invoice may cancel an order
\* that is being loaded, for instance), and the try/except around the scheduler
\* and around deliver() are what isolates it: when the orders are used up, every
\* truck is home, whatever its orders refused.
TrucksStillReturn == <>[](freeTrucks = Trucks)

-------------------------------------------------------------------------------
(* The inductive invariant behind these (GeneratorRestartProofs).          *)

\* Silver is never ahead of what was sent.
SeenWasSent ==
  /\ \A o \in Orders : poSeen[o] <= Len(poTopic[o]) /\ liSeen[o] <= liTopic[o]
  /\ \A i \in Invoices : ivSeen[i] <= Len(ivTopic[i])

\* Whatever exists has sent an event, and the order its items; one that waits for its invoice has
\* never had one, in this process or in an earlier one.
ExistAsSent ==
  /\ \A o \in Orders :
       /\ status[o] = NoStatus <=> poTopic[o] = << >>
       /\ status[o] = NoStatus => o \notin orders /\ liTopic[o] = 0
       /\ \/ status[o] = NoStatus
          \/ /\ status[o] = "created" /\ o \in orders
             /\ invoices \cap InvoicesOf(o) = {}
          => \A i \in InvoicesOf(o) : istatus[i] = NoStatus
  /\ \A i \in Invoices : istatus[i] = NoStatus <=> ivTopic[i] = << >>

\* Whatever is on a truck was claimed for it, and no order waits for itself.
ClaimsHold ==
  /\ \A t \in Trucks : Aboard(t) \subseteq claimed
  /\ \A o \in Orders : o \notin ahead[o]

RestartInv ==
  /\ TypeOK
  /\ ivSeen \in [Invoices -> Nat] /\ liSeen \in [Orders -> Nat]
  /\ verifiedSent \subseteq Customers /\ verifiedSeen \subseteq Customers
  /\ restarts \in 0..MaxRestarts /\ lagged \cup shared \subseteq Orders
  /\ SeenWasSent
  /\ ExistAsSent
  /\ ClaimsHold
  /\ OneTruckPerOrder
  /\ OpenOrdersMatch
  /\ ParentsStillConfirmed
-------------------------------------------------------------------------------
(* What restarts cannot disturb: the orders and invoices that silver was   *)
(* never behind with at one, and the trucks that carry none of the others. *)

\* The newest event of an order and of an invoice, applied by silver or not.
LastSent(o) == IF poTopic[o] = << >> THEN NoStatus ELSE poTopic[o][Len(poTopic[o])]
LastInvoice(i) ==
  IF ivTopic[i] = << >> THEN NoStatus ELSE ivTopic[i][Len(ivTopic[i])][1]

Steady == Orders \ lagged

\* What an order is is what was sent last, unless it has been queued again, and as
\* long as it is open it is in the dict.
SteadyOrders ==
  \A o \in Steady :
    /\ status[o] \notin {"paid", "delivered"}
    /\ status[o] \notin {NoStatus, "closed", "cancelled"} => o \in orders
    /\ \/ status[o] = LastSent(o)
       \/ status[o] = "on-hold" /\ LastSent(o) \in {"loaded", "in-transit"}

\* It has one invoice in all its processes, which agrees with it on the money and has
\* a timer exactly as long as it is pending; it has the line items that were sent,
\* and the stock of these was taken once.
SteadyInvoices ==
  /\ \A i \in Invoices : i[1] \in Steady =>
       /\ istatus[i] = LastInvoice(i)
       /\ istatus[i] = "pending" <=> i \in dueTimers
       /\ i[2] # 1 => istatus[i] = NoStatus
       /\ i[2] = 1 =>
            /\ istatus[i] = NoStatus <=> status[i[1]] \in {NoStatus, "created"}
            /\ istatus[i] = "pending" <=> status[i[1]] = "invoiced"
            /\ istatus[i] = "settled" <=> status[i[1]] \in Paid
            /\ istatus[i] = "cancelled" <=> status[i[1]] = "cancelled"
  /\ \A o \in Steady : /\ quantity[o] = liTopic[o]
                        /\ sales[o] = IF status[o] \in Paid THEN quantity[o] ELSE 0

\* A truck that carries none of the others is as in a process that never stopped;
\* of a truck that does, this much is certain: it comes home empty.
SteadyTrucks ==
  /\ freeTrucks = {t \in Trucks : tstatus[t] = "free"}
  /\ \A t \in Trucks :
       /\ tstatus[t] # "loading" => loadStep[t] = 0
       /\ tstatus[t] = "free" => manifest[t] = << >>
       /\ tstatus[t] \in {"free", "returning"} => stops[t] = {}
       /\ Aboard(t) \subseteq Steady => RunShape(t)
       /\ ~(Aboard(t) \subseteq Steady) => Aboard(t) \subseteq shared
  /\ \A o \in Steady \ shared :
       status[o] \in {"loaded", "in-transit"} => \E t \in Trucks : o \in Aboard(t)

\* What may have been sent about an order whose newest event says s: the way
\* to it, of which a restart may repeat the truck's part.
SentBy(s) ==
  CASE s = NoStatus                    -> {}
    [] s = "created"                   -> {"created"}
    [] s = "invoiced"                  -> {"created", "invoiced"}
    [] s = "cancelled"                 -> {"created", "invoiced", "cancelled"}
    [] s \in {"loaded", "in-transit"}  -> OrderStatus \ {"delivered", "closed", "cancelled"}
    [] s = "closed"                    -> OrderStatus \ {"cancelled"}
    [] OTHER                           -> {"created", "invoiced", "paid", "on-hold"}

\* An order has sent no more than its way, and an invoice ends its history with what it
\* is, before which it was created or pending, with no more reminders.
SteadyTopics ==
  /\ \A o \in Steady : Range(poTopic[o]) \subseteq SentBy(LastSent(o))
  /\ \A i \in Invoices : i[1] \in Steady =>
       /\ istatus[i] = NoStatus => paymentReminder[i] = 0
       /\ istatus[i] # NoStatus =>
            ivTopic[i][Len(ivTopic[i])] = <<istatus[i], paymentReminder[i]>>
       /\ \A k \in DOMAIN ivTopic[i] :
            /\ ivTopic[i][k][2] <= paymentReminder[i]
            /\ istatus[i] = "pending" => ivTopic[i][k][1] \in {"created", "pending"}

\* With the invariant of all orders: the steady ones never go wrong.
SteadyInv ==
  /\ RestartInv
  /\ SteadyOrders
  /\ SteadyInvoices
  /\ SteadyTrucks
  /\ SteadyTopics
  /\ OnlyReloadsRefused
===============================================================================
