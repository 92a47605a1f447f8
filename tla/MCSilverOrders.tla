----------------------------- MODULE MCSilverOrders -----------------------------
(* Model-checking instances of the bronze to silver job of purchase orders. *)
EXTENDS SilverOrders, TLC

\* What the generator sends without restarts: the end of a run, and an order that
\* is cancelled; the events before were sent long ago or never stored.
Legal == {<<"created", "invoiced", "cancelled">>, <<"paid", "on-hold", "loaded">>}

\* They follow the lifecycle, as SilverOrdersProofs assumes of them.
ASSUME LegalAssumption == LegalHistories

Symmetry == Permutations(Orders) \cup Permutations(Slices)
===============================================================================
