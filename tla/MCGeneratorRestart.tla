-------------------------- MODULE MCGeneratorRestart --------------------------
(***************************************************************************)
(* Model-checking instance of the generator with restarts: one order from  *)
(* the start, or two that meet on a truck after a restart.                 *)
(***************************************************************************)
EXTENDS GeneratorRestart, TLC

\* The order that silver is behind with.
Late == CHOOSE o \in Orders : TRUE

\* What each order of the second kind of initial state asks for.
Units == CHOOSE q \in Quantities : TRUE

(***************************************************************************)
(* The first state of a restarted process, in which two paid orders wait   *)
(* for a truck: silver has all events of both except that the invoice of   *)
(* the one is settled, so that one has its timer again.                    *)
(***************************************************************************)
TwoResumed ==
  /\ phase = "scheduler"
  /\ zoneCursor = 1
  /\ registered = Customers /\ verified = Customers
  /\ disabled = {} /\ verifyTimers = {}
  /\ owner \in [Orders -> Customers]
  /\ openOrderIds = [c \in Customers |-> {o \in Orders : owner[o] = c}]
  /\ orders = Orders /\ claimed = {}
  /\ status = [o \in Orders |-> "on-hold"]
  /\ zoneId = [o \in Orders |-> 1]
  /\ quantity = [o \in Orders |-> Units]
  /\ truckId = [o \in Orders |-> NoTruck]
  /\ \E first \in Orders :
       ahead = [o \in Orders |-> IF o = first THEN {} ELSE {first}]
  /\ sales = [o \in Orders |-> Units]
  /\ invoices = {<<Late, 1>>} /\ dueTimers = {<<Late, 1>>}
  /\ istatus = [i \in Invoices |-> IF i = <<Late, 1>> THEN "pending"
                                   ELSE IF i[2] = 1 THEN "settled" ELSE NoStatus]
  /\ paymentReminder = [i \in Invoices |-> 0]
  /\ tstatus = [t \in Trucks |-> "free"]
  /\ manifest = [t \in Trucks |-> << >>]
  /\ loadStep = [t \in Trucks |-> 0]
  /\ stops = [t \in Trucks |-> {}]
  /\ freeTrucks = Trucks
  /\ poTopic = [o \in Orders |-> SubSeq(Path, 1, 4)]
  /\ ivTopic = [i \in Invoices |->
                  IF i[2] = 1
                  THEN <<<<"created", 0>>, <<"pending", 0>>, <<"settled", 0>>>>
                  ELSE << >>]
  /\ liTopic = [o \in Orders |-> Units]
  /\ poSeen = [o \in Orders |-> 4]
  /\ customersSeen = Customers
  /\ ivSeen = [i \in Invoices |-> IF i[2] # 1 THEN 0 ELSE IF i[1] = Late THEN 2 ELSE 3]
  /\ liSeen = [o \in Orders |-> Units]
  /\ verifiedSent = Customers
  /\ verifiedSeen = Customers
  /\ restarts = MaxRestarts
  /\ lagged = {Late}
  /\ shared = {}

FairStartSpec ==
  (RestartInit \/ TwoResumed) /\ [][RestartNext]_allVars /\ TruckFairness

\* One order is placed at most.  When there are two, none is left to be placed,
\* and it makes no difference who is disabled.
FewOrders ==
  \/ \A o \in Orders \ {Late} : poTopic[o] = << >>
  \/ disabled = {} /\ \A o \in Orders : Len(poTopic[o]) >= 4

\* Only a restart reads these tables, so that it makes no difference how far they
\* get when there will be none.
UntilLastRestart ==
  restarts = MaxRestarts => UNCHANGED <<ivSeen, liSeen, verifiedSeen>>
===============================================================================
