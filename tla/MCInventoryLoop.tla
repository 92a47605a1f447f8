---------------------------- MODULE MCInventoryLoop ----------------------------
(* Model-checking instances of the stock loop. *)
EXTENDS InventoryLoop, TLC
===============================================================================
