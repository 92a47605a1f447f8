--------------------------- MODULE MCTruckPositions ----------------------------
(* Model-checking instance of the two writers of truck positions. *)
EXTENDS TruckPositions, TLC
===============================================================================
