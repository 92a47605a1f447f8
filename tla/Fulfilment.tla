------------------------------ MODULE Fulfilment ------------------------------
(***************************************************************************)
(* What the order-to-delivery simulation promises, without invoices,       *)
(* timers, queues or the pipeline: an order is placed, then paid or        *)
(* voided; a paid order is put on one empty truck with others; it is       *)
(* delivered once; a truck takes a new load only when it has delivered all *)
(* of the last one.  Generator is shown to implement this.                 *)
(***************************************************************************)
EXTENDS FiniteSets

CONSTANTS Orders, Trucks

VARIABLES
  stage,  \* where each order stands
  load    \* the orders each truck was sent out with

abstractVars == <<stage, load>>

Stages == {"absent", "open", "ready", "shipping", "done", "void"}

AbstractTypeOK ==
  /\ stage \in [Orders -> Stages]
  /\ load \in [Trucks -> SUBSET Orders]

AbstractInit ==
  /\ stage = [o \in Orders |-> "absent"]
  /\ load = [t \in Trucks |-> {}]

Move(S, from, to) ==
  /\ \A o \in S : stage[o] = from
  /\ stage' = [o \in Orders |-> IF o \in S THEN to ELSE stage[o]]

Place(o) == Move({o}, "absent", "open") /\ UNCHANGED load
Pay(o)   == Move({o}, "open", "ready") /\ UNCHANGED load
Void(o)  == Move({o}, "open", "void") /\ UNCHANGED load

Ship(t, B) ==
  /\ load[t] = {}
  /\ B # {}
  /\ Move(B, "ready", "shipping")
  /\ load' = [load EXCEPT ![t] = B]

\* Trucks unload the orders D; trucks that had delivered everything before
\* come home and are empty again.
Unload(D, home) ==
  /\ Move(D, "shipping", "done")
  /\ \A t \in home : \A o \in load[t] : stage[o] = "done"
  /\ load' = [t \in Trucks |-> IF t \in home THEN {} ELSE load[t]]

AbstractNext ==
  \/ \E o \in Orders : Place(o) \/ Pay(o) \/ Void(o)
  \/ \E t \in Trucks, B \in SUBSET Orders : Ship(t, B)
  \/ \E D \in SUBSET Orders, home \in SUBSET Trucks : Unload(D, home)

AbstractSpec == AbstractInit /\ [][AbstractNext]_abstractVars
===============================================================================
