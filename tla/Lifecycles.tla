------------------------------ MODULE Lifecycles ------------------------------
(***************************************************************************)
(* The two status machines of the simulation (purchase orders, invoices)   *)
(* and the independent re-validation of the same machines in the silver    *)
(* jobs.  The repository keeps the tables in two places on purpose; this   *)
(* module keeps both, and GeneratorProofs shows that what the one sends    *)
(* the other accepts.                                                      *)
(***************************************************************************)
EXTENDS Integers

\* Stands for Python's None: the object does not exist yet.
NoStatus == "none"

OrderStatus == {"created", "invoiced", "paid", "on-hold", "loaded",
                "in-transit", "delivered", "closed", "cancelled"}

InvoiceStatus == {"created", "pending", "settled", "cancelled"}

-------------------------------------------------------------------------------
(* data_generators: ALLOWED_TRANSITIONS of the two Lifecycle subclasses.   *)

OrderTransitions ==
  [s \in OrderStatus \cup {NoStatus} |->
     CASE s = NoStatus     -> {"created"}
       [] s = "created"    -> {"invoiced", "cancelled"}
       [] s = "invoiced"   -> {"paid", "cancelled"}
       [] s = "paid"       -> {"on-hold", "cancelled"}
       [] s = "on-hold"    -> {"loaded", "cancelled"}
       [] s = "loaded"     -> {"in-transit"}
       [] s = "in-transit" -> {"delivered"}
       [] s = "delivered"  -> {"closed"}
       [] OTHER            -> {}]

InvoiceTransitions ==
  [s \in InvoiceStatus \cup {NoStatus} |->
     CASE s = NoStatus  -> {"created"}
       [] s = "created" -> {"pending"}
       [] s = "pending" -> {"pending", "settled", "cancelled"}
       [] OTHER         -> {}]

-------------------------------------------------------------------------------
(* silver_processing: _RANK, _CANCELLABLE_MAX_RANK, _is_valid_transition.  *)
(* A batch compares each row with the previous row of the same key, NoStatus *)
(* when the row is the first of its key in the batch.                      *)

OrderRank(s) ==
  CASE s = "created"    -> 0
    [] s = "invoiced"   -> 1
    [] s = "paid"       -> 2
    [] s = "on-hold"    -> 3
    [] s = "loaded"     -> 4
    [] s = "in-transit" -> 5
    [] s = "delivered"  -> 6
    [] s = "closed"     -> 7

OrderCancellableMaxRank == 3

SilverOrderValid(prev, s) ==
  \/ prev = NoStatus
  \/ /\ s = "cancelled"
     /\ prev # "cancelled"
     /\ OrderRank(prev) <= OrderCancellableMaxRank
  \/ /\ s # "cancelled"
     /\ prev # "cancelled"
     /\ prev # NoStatus
     /\ OrderRank(prev) <= OrderRank(s)

InvoiceRank(s) ==
  CASE s = "created" -> 0
    [] s = "pending" -> 1
    [] s = "settled" -> 2

InvoiceCancellableMaxRank == 1

SilverInvoiceValid(prev, prevReminder, s, reminder) ==
  \/ prev = NoStatus
  \/ /\ s = "cancelled"
     /\ prev # "cancelled"
     /\ InvoiceRank(prev) <= InvoiceCancellableMaxRank
  \/ /\ s # "cancelled"
     /\ prev \notin {"cancelled", NoStatus}
     /\ prevReminder <= reminder
     /\ InvoiceRank(prev) <= InvoiceRank(s)
===============================================================================
