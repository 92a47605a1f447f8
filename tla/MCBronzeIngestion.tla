-------------------------- MODULE MCBronzeIngestion --------------------------
(* Model-checking instances of the Kafka to bronze job. *)
EXTENDS BronzeIngestion, TLC

Symmetry == Permutations(Partitions)
===============================================================================
