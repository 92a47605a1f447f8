------------------------------- MODULE SilverView -------------------------------
(***************************************************************************)
(* What the rest of the system relies on when it looks at a current-state  *)
(* table of silver: an order's row is the state after some event that was  *)
(* sent, and it only moves to events that were sent later.  How far it     *)
(* lags, and which events it skips, is left open.                          *)
(***************************************************************************)
EXTENDS Integers

CONSTANT Orders

VARIABLES
  sent,  \* events of each order that were sent
  seen   \* the event whose state silver shows, 0 while there is no row
viewVars == <<sent, seen>>

ViewInit ==
  /\ sent \in [Orders -> Nat]
  /\ seen = [o \in Orders |-> 0]

SendMore ==
  /\ sent' \in [Orders -> Nat]
  /\ \A o \in Orders : sent[o] <= sent'[o]
  /\ UNCHANGED seen

Advance ==
  /\ seen' \in [Orders -> Nat]
  /\ \A o \in Orders : seen[o] <= seen'[o] /\ seen'[o] <= sent[o]
  /\ UNCHANGED sent

ViewNext == SendMore \/ Advance

ViewSpec == ViewInit /\ [][ViewNext]_viewVars
===============================================================================
