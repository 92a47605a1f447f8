----------------------------- MODULE GoldRefresh ------------------------------
(***************************************************************************)
(* gold_dbt_dag.py above the silver DAGs: it runs when all of the trigger  *)
(* assets have been updated since it last did, and its incremental facts   *)
(* take over from silver the rows that are newer than all they have.       *)
(***************************************************************************)
EXTENDS AirflowDags

VARIABLES
  dbt,           \* "idle" or "running", as long as the run may change gold
  gold,          \* rows of gold.fact_purchase_orders
  overtaken      \* the own row came to silver after gold had a later one
goldVars == <<dbt, gold, overtaken>>

vars == <<dagVars, goldVars>>

Init == DagInit /\ dbt = "idle" /\ gold = {} /\ overtaken = FALSE

\* Mutant of GoldTriggers: ALL_SILVER_ASSETS; the fleet is updated once, at the start.
GoldTriggersMutant == Domains \cup {"truck_fleet"}

\* GOLD_TRIGGER_ASSETS
GoldTriggers == Domains

\* schedule=GOLD_TRIGGER_ASSETS: the events that start a run are used up by it.
GoldStarts ==
  /\ dbt = "idle"
  /\ GoldTriggers \subseteq events
  /\ events' = {}
  /\ dbt' = "running"
  /\ UNCHANGED <<bronzeVars, taskVars, outcomeVars, missed, failures, gold, overtaken>>

\* where updated_at > (select max(updated_at) from {{ this }})
Incremental ==
  IF "later" \in gold THEN silver \cap {"later"} ELSE silver

\* dbt_run; what dbt_test says after it does not matter to the next run.
GoldBuilds ==
  /\ dbt = "running"
  /\ dbt' = "idle"
  /\ gold' = gold \cup Incremental
  /\ UNCHANGED <<dagVars, overtaken>>

\* dbt_run or a task before it fails for good; the events of the run are gone.
GoldFails ==
  /\ dbt = "running"
  /\ failures < MaxFailures
  /\ failures' = failures + 1
  /\ dbt' = "idle"
  /\ UNCHANGED <<bronzeVars, taskVars, outcomeVars, events, missed, gold, overtaken>>

\* A step of a silver DAG, or of bronze.
SilverStep ==
  /\ overtaken' = (overtaken \/ ("own" \in silver' \ silver /\ "later" \in gold))
  /\ UNCHANGED <<dbt, gold>>

Gold == GoldStarts \/ GoldBuilds

Next == (DagNext /\ SilverStep) \/ Gold \/ GoldFails

Spec == Init /\ [][Next]_vars

\* The DAGs are scheduled and their tasks executed; the generator runs on, so that
\* there is something new of every trigger domain again and again.
FairSpec ==
  /\ Spec
  /\ WF_vars(Gold)
  /\ \A g \in Dags : WF_vars(Run(g) /\ SilverStep)
  /\ \A d \in Domains : WF_vars(OthersArrive(d) /\ SilverStep)
-------------------------------------------------------------------------------
\* A line item is quarantined, for good, only if its order was not in bronze yet
\* when the orders of the same run were fetched, or was passed by the watermark
\* unread, or was rejected: that the jobs are sequenced, and that a failed job stops
\* the next one, leaves no other way.
OrphansAreRaces ==
  [][quarantined' # quarantined =>
       missed' \/ "purchase_orders" \in dropped \/ rejected]_vars

\* As long as there are new orders, every line item that the watermark has not passed
\* is looked at in the end, even if its run is skipped for want of orders, or fails.
ItemsAreJudged ==
  <>[]("product_on_orders" \in arrived \ dropped => quarantined \/ itemInSilver)

\* Gold runs again and again, whichever domains are skipped or fail in a run and
\* although the fleet is not updated again: what is in silver comes to gold,
\* unless gold had a later row of another order before.
GoldCatchesUp == <>[]("own" \in silver => "own" \in gold \/ overtaken)
-------------------------------------------------------------------------------
\* Gold shows what silver has, and no order of silver is shut out by the
\* incremental filter but those that came after a later one had been built.
OnlyOvertakenShutOut ==
  /\ gold \subseteq silver
  /\ "later" \in gold /\ "own" \in silver \ gold => overtaken

\* The inductive invariant behind this and OrphansAreRaces (GoldProofs).
GoldInv ==
  /\ DagInv
  /\ dbt \in {"idle", "running"} /\ overtaken \in BOOLEAN
  /\ OnlyOvertakenShutOut
===============================================================================
