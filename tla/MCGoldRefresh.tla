---------------------------- MODULE MCGoldRefresh -----------------------------
(* Model-checking instance of the silver DAGs and of gold. *)
EXTENDS GoldRefresh, TLC
===============================================================================
