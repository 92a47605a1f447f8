----------------------------- MODULE AirflowDags ------------------------------
(***************************************************************************)
(* The silver DAGs: in each run, every domain has a check for new rows in  *)
(* bronze (a ShortCircuitOperator) and a Spark job, and the line items wait *)
(* for the purchase orders besides.  What the jobs do to an event is in    *)
(* SilverOrders; here it is when they run, on what, and who waits for whom. *)
(*                                                                         *)
(* One purchase order (its first event) and one line item of it, with a    *)
(* positive quantity, are followed, "own" rows, each in a transaction of   *)
(* its own, among those of others, of which there is no end.  ingested_at  *)
(* is the time at which the transaction of a row began, so that a row may  *)
(* come to bronze below a watermark that a later one has moved; what       *)
(* matters of the rows of others is which side of the own one they are.    *)
(* The own transactions have begun when the model starts: until they do,   *)
(* all rows are older, and the jobs are where they are here.               *)
(***************************************************************************)
EXTENDS Naturals, FiniteSets, FiniteSetsExt

CONSTANTS
  Domains,       \* the part of GOLD_TRIGGER_ASSETS that the instance has
  MaxFailures    \* bound: tasks that fail

ASSUME DomainsAssumption ==
  /\ Domains \subseteq {"customers", "products", "invoices", "inventory",
                        "truck_positions", "purchase_orders", "product_on_orders"}
  /\ {"purchase_orders", "product_on_orders"} \subseteq Domains
ASSUME FailuresAssumption == MaxFailures \in Nat

VARIABLES
  arrived,       \* own rows whose transaction is committed: they are in bronze
  waiting,       \* rows of bronze above the watermark, per domain
  watermark,     \* silver.watermarks
  dropped        \* history: own rows that the watermark passed unread
bronzeVars == <<arrived, waiting, watermark, dropped>>

VARIABLES
  check,         \* the short circuits of the current runs
  job,           \* their Spark jobs
  fetched,       \* rows that a running job has fetched
  written        \* ... and has written already
taskVars == <<check, job, fetched, written>>

VARIABLES
  silver,        \* rows of silver.purchase_orders_current
  rejected,      \* the own order is in silver.error_purchase_orders
  itemInSilver,  \* the own line item is in silver.product_on_orders_current
  quarantined,   \* the own line item is in silver.error_product_on_orders
  events,        \* asset events that gold has not used up
  missed,        \* the run's fetch of orders came before the own one was in bronze
  failures
outcomeVars == <<silver, rejected, itemInSilver, quarantined>>
silverVars == <<outcomeVars, events, missed, failures>>

dagVars == <<bronzeVars, taskVars, silverVars>>

-------------------------------------------------------------------------------
OrderTables == {"purchase_orders", "product_on_orders"}

\* A row by its ingested_at: before that of the own row, the own one, after it.
Older == 1
Own == 2
Newer == 3

Rows(d) == IF d \in OrderTables THEN {Older, Own, Newer} ELSE {Older}

\* Rows of silver and gold that matter to the own ones.
Followed == {"own", "later"}

Dag(d) ==
  IF d \in {"customers", "products"} THEN "silver_customers_products_dag"
  ELSE IF d \in OrderTables THEN "silver_purchase_orders_dag"
  ELSE d

\* Jobs that the job of d waits for.
Awaits(d) == IF d = "product_on_orders" THEN {"purchase_orders"} ELSE {}

\* Jobs that a short circuit skips: all those downstream of it.
Downstream(d) == {d} \cup {e \in Domains : d \in Awaits(e)}

Over == {"success", "skipped", "failed", "upstream_failed"}

DagInit ==
  /\ arrived = {} /\ dropped = {}
  /\ waiting = [d \in Domains |-> {}] /\ watermark = [d \in Domains |-> Older]
  /\ check = [d \in Domains |-> "success"]
  /\ job = [d \in Domains |-> "skipped"]
  /\ fetched = [d \in Domains |-> {}] /\ written = [d \in Domains |-> {}]
  /\ silver = {} /\ rejected = FALSE /\ itemInSilver = FALSE
  /\ quarantined = FALSE /\ events = {} /\ missed = FALSE
  /\ failures = 0

-------------------------------------------------------------------------------
(* Bronze.                                                                 *)

\* The order and its line item are sent together, but to two topics, and come with a
\* micro-batch of the stream of each: in time, or below the watermark.
OwnArrives(t) ==
  /\ t \notin arrived
  /\ arrived' = arrived \cup {t}
  /\ \/ /\ watermark[t] < Own
        /\ waiting' = [waiting EXCEPT ![t] = @ \cup {Own}]
        /\ UNCHANGED dropped
     \/ /\ watermark[t] > Own
        /\ dropped' = dropped \cup {t}
        /\ UNCHANGED waiting
  /\ UNCHANGED <<watermark, taskVars, silverVars>>

\* What comes in below the watermark, or below what waits there, changes nothing.
OthersArrive(d) ==
  /\ \E r \in Rows(d) \ {Own} :
       /\ r >= watermark[d]
       /\ \A q \in waiting[d] \ {Own} : r > q
       /\ waiting' = [waiting EXCEPT ![d] = @ \cup {r}]
  /\ UNCHANGED <<arrived, watermark, dropped, taskVars, silverVars>>

-------------------------------------------------------------------------------
(* A run of a DAG.                                                         *)

DomainsOf(g) == {d \in Domains : Dag(d) = g}
RunOver(g) == \A d \in DomainsOf(g) : check[d] # "none" /\ job[d] \in Over

\* schedule=SILVER_PROCESSING_SCHEDULE, max_active_runs=1
NewRun(g) ==
  /\ RunOver(g)
  /\ check' = [d \in Domains |-> IF d \in DomainsOf(g) THEN "none" ELSE check[d]]
  /\ job' = [d \in Domains |-> IF d \in DomainsOf(g) THEN "none" ELSE job[d]]
  /\ missed' = (missed /\ g # Dag("purchase_orders"))
  /\ UNCHANGED <<bronzeVars, fetched, written, outcomeVars, events, failures>>

\* has_new_bronze_data()
HasNewBronzeData(d) == waiting[d] # {}

Check(d) ==
  /\ check[d] = "none"
  /\ check' = [check EXCEPT ![d] = "success"]
  /\ job' = [e \in Domains |->
               IF ~HasNewBronzeData(d) /\ e \in Downstream(d) THEN "skipped" ELSE job[e]]
  /\ UNCHANGED <<bronzeVars, fetched, written, silverVars>>

\* Mutant of UpstreamMet: trigger_rule="all_done".
UpstreamMetMutant(d) == check[d] = "success" /\ \A e \in Awaits(d) : job[e] \in Over

\* "all_success", and "none_failed" for the line items
UpstreamMet(d) ==
  check[d] = "success" /\ \A e \in Awaits(d) : job[e] \in {"success", "skipped"}

UpstreamFailed(d) ==
  /\ job[d] = "none"
  /\ check[d] = "failed" \/ \E e \in Awaits(d) : job[e] \in {"failed", "upstream_failed"}
  /\ job' = [job EXCEPT ![d] = "upstream_failed"]
  /\ UNCHANGED <<bronzeVars, check, fetched, written, silverVars>>

\* The job reads what is above the watermark now: at least what the check has seen,
\* so that it never ends for want of rows.
JobFetches(d) ==
  /\ job[d] = "none"
  /\ UpstreamMet(d)
  /\ job' = [job EXCEPT ![d] = "running"]
  /\ fetched' = [fetched EXCEPT ![d] = waiting[d]]
  /\ missed' = IF d = "purchase_orders" THEN d \notin arrived ELSE missed
  /\ UNCHANGED <<bronzeVars, check, written, outcomeVars, events, failures>>

\* The line item's order is not in silver.purchase_orders_current.
Orphan == "own" \notin silver

\* The own order is upserted, or rejected if its customer is not in silver (which the
\* generator avoids, and the job does not rely on).
OrderIsJudged ==
  \/ silver' = silver \cup {"own"} /\ UNCHANGED rejected
  \/ rejected' = TRUE /\ UNCHANGED silver

\* Its line item is upserted or rejected.
ItemIsJudged ==
  \/ Orphan /\ quarantined' = TRUE /\ UNCHANGED itemInSilver
  \/ ~Orphan /\ itemInSilver' = TRUE /\ UNCHANGED quarantined

\* Rows of the fetch whose writing shows: of others, those that gold takes over.
ToWrite(d) == IF d = "purchase_orders" THEN fetched[d] ELSE fetched[d] \cap {Own}

\* The driver commits its rejects, tasks of foreachPartition commit their rows: when the
\* own row is written, and when the rows of others are.
JobWrites(d, S) ==
  /\ S # {} /\ S \subseteq ToWrite(d) \ written[d]
  /\ written' = [written EXCEPT ![d] = @ \cup S]
  /\ \/ /\ d = "purchase_orders" /\ S = {Own}
        /\ OrderIsJudged
        /\ UNCHANGED <<itemInSilver, quarantined>>
     \/ /\ d = "purchase_orders" /\ S # {Own}
        /\ \E rows \in SUBSET (Followed \ {"own"}) : silver' = silver \cup rows
        /\ UNCHANGED <<rejected, itemInSilver, quarantined>>
     \/ /\ d = "product_on_orders"
        /\ ItemIsJudged
        /\ UNCHANGED <<silver, rejected>>
  /\ UNCHANGED <<bronzeVars, check, job, fetched, events, missed, failures>>

\* Mutant of NextWatermark: the table is asked again after the writes.
NextWatermarkMutant(d) == Max(waiting[d])

\* max(ingested_at) of the rows that were fetched
NextWatermark(d) == Max(fetched[d])

\* write_watermark(), and the event of the outlet.  What has come in meanwhile below
\* the new watermark will not be read.
JobEnds(d) ==
  /\ job[d] = "running"
  /\ written[d] = ToWrite(d)
  /\ job' = [job EXCEPT ![d] = "success"]
  /\ fetched' = [fetched EXCEPT ![d] = {}]
  /\ written' = [written EXCEPT ![d] = {}]
  /\ watermark' = [watermark EXCEPT ![d] = NextWatermark(d)]
  /\ waiting' = [waiting EXCEPT ![d] = {r \in @ : r > NextWatermark(d)}]
  /\ dropped' = IF Own \in waiting[d] \ fetched[d] /\ NextWatermark(d) > Own
                THEN dropped \cup {d} ELSE dropped
  /\ events' = events \cup {d}
  /\ UNCHANGED <<arrived, check, outcomeVars, missed, failures>>

\* An attempt fails, the watermark is where it was: there is another, or it was the last.
JobFails(d) ==
  /\ job[d] = "running"
  /\ failures < MaxFailures
  /\ failures' = failures + 1
  /\ \E next \in {"none", "failed"} : job' = [job EXCEPT ![d] = next]
  /\ fetched' = [fetched EXCEPT ![d] = {}]
  /\ written' = [written EXCEPT ![d] = {}]
  /\ UNCHANGED <<bronzeVars, check, outcomeVars, events, missed>>

CheckFails(d) ==
  /\ check[d] = "none"
  /\ failures < MaxFailures
  /\ failures' = failures + 1
  /\ check' = [check EXCEPT ![d] = "failed"]
  /\ UNCHANGED <<bronzeVars, job, fetched, written, outcomeVars, events, missed>>

-------------------------------------------------------------------------------
Task(d) ==
  \/ Check(d) \/ UpstreamFailed(d) \/ JobFetches(d) \/ JobEnds(d)
  \/ \E S \in {ToWrite(d) \cap {Own}, ToWrite(d) \ {Own}} : JobWrites(d, S)

Run(g) == NewRun(g) \/ \E d \in DomainsOf(g) : Task(d)

Dags == {Dag(d) : d \in Domains}

DagNext ==
  \/ \E t \in OrderTables : OwnArrives(t)
  \/ \E d \in Domains : OthersArrive(d) \/ JobFails(d) \/ CheckFails(d)
  \/ \E g \in Dags : Run(g)
-------------------------------------------------------------------------------
(* What the DAGs keep (the proof is in GoldProofs).                        *)

DagTypeOK ==
  /\ arrived \in SUBSET OrderTables
  /\ waiting \in [Domains -> SUBSET {Older, Own, Newer}]
  /\ watermark \in [Domains -> {Older, Own, Newer}]
  /\ dropped \in SUBSET Domains
  /\ check \in [Domains -> {"none", "success", "failed"}]
  /\ job \in [Domains -> Over \cup {"none", "running"}]
  /\ fetched \in [Domains -> SUBSET {Older, Own, Newer}]
  /\ written \in [Domains -> SUBSET {Older, Own, Newer}]
  /\ silver \in SUBSET Followed
  /\ {rejected, itemInSilver, quarantined, missed} \subseteq BOOLEAN
  /\ events \in SUBSET Domains
  /\ failures \in 0..MaxFailures

\* A job runs after its check, with what it has fetched, which is never nothing, and
\* the job of the line items only after that of the orders: not after one that failed
\* or was skipped.
TasksInOrder ==
  /\ \A d \in Domains :
       /\ job[d] \in {"running", "success"} => check[d] = "success"
       /\ check[d] = "success" /\ job[d] \in {"none", "running"} => waiting[d] # {}
       /\ job[d] = "running" <=> fetched[d] # {}
       /\ written[d] \subseteq fetched[d] /\ fetched[d] \subseteq waiting[d]
  /\ job["purchase_orders"] = "skipped" => job["product_on_orders"] = "skipped"
  /\ job["product_on_orders"] = "running" => job["purchase_orders"] = "success"

\* What has become of the own row of a table.
Judged(t) ==
  IF t = "purchase_orders" THEN "own" \in silver \/ rejected
                           ELSE itemInSilver \/ quarantined

\* An own row in bronze is above the watermark, in silver or its error table, or was
\* passed by the watermark before it was read, which takes a row that began later and
\* was committed earlier.  A run of the orders' job that found the own one in bronze
\* ends only when that has been settled.
OwnRowsKept ==
  /\ \A t \in OrderTables :
       /\ t \in arrived => Own \in waiting[t] \/ Judged(t) \/ t \in dropped
       /\ Own \in waiting[t] => t \in arrived /\ watermark[t] < Own
       /\ Own \in written[t] => Judged(t)
  /\ LET d == "purchase_orders" IN
       /\ job[d] = "running" /\ ~missed =>
            Own \in fetched[d] \/ Judged(d) \/ d \in dropped
       /\ job[d] = "success" /\ ~missed => Judged(d) \/ d \in dropped

DagInv == DagTypeOK /\ TasksInOrder /\ OwnRowsKept
===============================================================================
