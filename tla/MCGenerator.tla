----------------------------- MODULE MCGenerator -----------------------------
(* Model-checking instance of the generator without restarts. *)
EXTENDS Generator, TLC

Symmetry == Permutations(Customers) \cup Permutations(Orders)
              \cup Permutations(Trucks)
===============================================================================
