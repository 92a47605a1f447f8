# Verification of the medallion ETL

TLA+ models of the order-to-delivery simulator, the ingestion jobs, the silver
jobs and the DAGs that run them up to gold, the TLC runs that check them on small instances, and
TLAPS proofs of the properties that hold for every value of the constants.
Paths are relative to the repository's root (`src/` in `PROJECT.json`).

## The system

A single-threaded **data generator** simulates an order business and publishes
every step to Kafka. Airflow starts **bronze jobs** that copy topics to
append-only tables, **silver jobs** that validate bronze rows and keep
current-state tables, and **dbt** for gold. The generator closes the loop: it
asks silver whether a row has arrived before it sends an event that refers to
it, and it rebuilds itself from silver after a restart.

```
 generator --Kafka topics--> bronze jobs --iot.*--> silver jobs --silver.*--> dbt
     ^                                                                |
     +------ orphan checks on every pass, bootstrap at a start -------+
```

| Component | State it keeps | Operations | What makes it correct |
|---|---|---|---|
| Loop and scheduler (`data_generators/main.py`, `scheduler.py`) | dicts of customers, orders, invoices; a heap of timers | seven phases per pass; a callback that raises ends the scheduler's part of a pass | no callback raises; every order finishes |
| Orders, invoices (`purchase_order.py`, `invoice.py`, `lifecycle.py`) | `status`, `claimed`, reminders | `set_status`, `create_invoice`, `_on_due`, `mark_paid`, `cancel`, ... | order, invoice, timer and stock agree; silver accepts every history |
| Dispatcher, trucks (`dispatch.py`, `truck.py`) | `free_trucks`, `manifest`, `route`, `route_index` | `tick`, `start_run`, staggered loading, `_depart`, deliver, return | an order on one truck only; trucks return; an order that exceeds a truck is delivered all the same |
| Customers (`customer.py`) | verified, disabled, `open_order_ids` | create, verify, update, cap check | the cap holds and its slots come back |
| Bootstrap (`db.py`, `main._bootstrap`) | reads silver | resume, requeue, repair | nothing forgotten, invoiced twice or stuck |
| Products and stock (`product.py`, `inventory_to_silver.py`, `products_to_silver.py`, `restock_check.py`) | `qty`, silver stock and history, restock flag | sale, replay, flag, refill | each change decided once; what adds up is accepted; one refill at a time |
| Bronze batch job (`shared_ingestion_utils.py`) | `control.kafka_offsets`, `iot.*` | read offsets, read, append, record offsets, reset | nothing read twice matters, nothing lost |
| Silver jobs (`*_to_silver.py`, `shared_utils.py`) | `control.silver_watermarks`, `silver.*_current`, `silver.error_*` | fetch, validate, quarantine, upsert, advance | rows move forward only; each event reflected or quarantined |
| Truck positions (`ingest_truck_positions.py`, `shared_streaming_utils.py`, `truck_positions_to_silver.py`) | checkpoint, `iot.truck_position_events`, `silver.truck_current_position` | micro-batches, replay, batch pass | the map is never behind bronze; no ping is lost; deadlocks end |
| Airflow DAGs (`silver_*_dag.py`, `gold_dbt_dag.py`) | task states, watermarks, asset events | schedules, short circuits, trigger rules, retries, asset trigger | line items follow orders; each domain and gold get their run |
| dbt | snapshots, marts | run, snapshot, test | facts follow silver |
| Weather, dashboards, scripts, geometry | - | external calls, configuration | not a matter of order |

What is hard to test: interleavings of timers with the phases of the loop while
silver lags by an unknown amount; staggered loading against the next dispatch;
restarts in front of tables that lag independently of each other, an order's line
items behind the order; a Spark query
that is evaluated three times in one run; runs that die between two commits;
timestamps taken when a transaction begins, compared after it commits; batches
that cut an order's history anywhere; a stock that three processes keep, each behind
the others; row locks taken in different orders; runs skipped because of what
another domain has. `PROJECT.json` lists each at its line with
the properties that cover it.

## Modules

| Module | Models | Notes |
|---|---|---|
| `Lifecycles` | transition tables of orders and invoices and the silver jobs' own check of them | constant level; two independent tables in the code, as here |
| `Generator` | the generator process, with silver as a position in each topic | one action per callback and per phase |
| `Fulfilment` | the abstract promise: place, pay or void, ship, unload | `Generator!ImplementsFulfilment` |
| `GeneratorRestart` | `Generator` with restarts from a lagging silver | extends `Generator` |
| `BronzeIngestion` | one topic and its ingestion job | one action per step of `run_ingestion()` |
| `SilverOrders` | `purchase_orders_to_silver.py` next to the bronze transactions | one action per commit |
| `SilverView` | what a reader of silver relies on: rows move to later events | `SilverOrders!ImplementsView`; the rule by which `Generator!SilverOrders` moves `poSeen` |
| `InventoryLoop` | the stock of a product in the generator, in silver and in the refill | one action per commit of either job; bronze as in `BronzeIngestion`, shortened |
| `TruckPositions` | the two writers of `truck_current_position` | row locks, deadlocks and the stream's checkpoint are explicit |
| `AirflowDags` | runs of the silver DAGs: short circuits, trigger rules, retries, line items behind orders | one action per task state change; extended by the next |
| `GoldRefresh` | the asset trigger of gold and the incremental fact | composes `AirflowDags` with `gold_dbt_dag` |
| `GeneratorProofs`, `GeneratorRestartProofs` | theorems about `Generator` and `GeneratorRestart` | the second extends the first |
| `BronzeProofs`, `SilverOrdersProofs`, `InventoryProofs`, `TruckPositionsProofs`, `GoldProofs` | theorems about the component | |
| `SetLemmas` | lemmas about finite sets that several of these cite | |
| `MC*` | symmetry sets, histories and one initial state for TLC | |

Each module's comments say how its variables correspond to the code; `map` in
`PROJECT.json` gives the lines of every definition.

**Generator.** The loop is single-threaded, so a phase is one action, except that
each timer callback is an action of its own (any set of timers may be due in a
pass) and the dispatcher advances zone by zone. Time is abstract: whether a
timer is due, a queue has waited `max_wait_minutes` or a leg of a journey is over
is a free choice, and the order of `updated_at` is kept as `ahead`. A callback
that raises ends the scheduler phase, as in `scheduler.py`. `silver` is how many
events of each topic have been applied; between any two steps it may advance by
any amount. Here silver loses nothing; what the pipeline may lose is the subject
of `BronzeIngestion` and `SilverOrders`. A route has one zone, since the
dispatcher fills a batch from one zone's queue (`dispatch.py:63-98`): the
several stops that `truck.py` provides for do not occur. The dispatcher's batch is
what its loop over the sorted queue yields: `Breaks` is the condition of its break, in
each iteration, so that the first order is taken whatever its size.

**GeneratorRestart.** A restart replaces every object by what silver shows. The
events of customers, orders, line items and invoices reach silver independently:
`liSeen` is how many units of an order are in `product_on_orders_current`, behind
the order itself and for ever short of it if a line item was quarantined, and a
resumed order has these and no others (`ResumedQuantity`). Two history
variables say whom a restart may harm: `lagged` are the orders that silver was
behind with at a restart, in any of the three tables, `shared` those that were on a
truck with one of them.

**BronzeIngestion.** A DataFrame is a query with `endingOffsets = "latest"`.
`Read` is evaluated where an action of Spark evaluates it: `isEmpty()`, the
rows to write, the offsets to record. Appends are concurrent transactions;
a run may die between any two steps. Spark's two refusals of starting offsets
are modelled from the messages that the code looks for. Left out: offsets below
the earliest that a topic retains, and messages that are not JSON.

**SilverOrders.** `ingested_at` is `now()`, the start of a bronze transaction;
the transactions of one run are concurrent, begin and commit in any order, and
rows can be fetched only once committed. An event is identified by its position
in its order's history, which is the order of `event_at` (ties are left out: the
statuses of one order are sent one after another by one process).

**InventoryLoop.** A change is its place in the order of `changed_at`; the bronze
job may store any part of what it has read in one transaction and the rest later.
`Validate` fetches, judges with `lag()` over the batch and the seed, and commits
the rejects; history, stock and watermark follow in their order, in parts that
stand for the partitions of `repartition(N)`. A run that fails is abandoned and
starts again with its first step, and so does one that meets the foreign key of a
product that silver does not have yet. The restock flag is set when a product
event is processed and at no other time, from the stock of that moment. That
`ingested_at` is really the begin of a transaction is the subject of
`SilverOrders`; here it is the commit.

**TruckPositions.** A transaction locks the rows it writes one by one, in any order,
and holds them to its end; a request joins the queue of a row. A task of a
micro-batch writes bronze and silver in one transaction; the plan and the commit of
a micro-batch are Spark's checkpoint, so a driver that dies between the two runs it
again, with what Kafka still has. The upsert is one operator for both writers, as
their statements are the same. Spark, Kafka and Postgres are modelled as far as
the two jobs rely on them (`external` in `map`).

**AirflowDags, GoldRefresh.** The first event of one order and one line item of it
(with a positive quantity) are followed among the rows of others, of which there is
no end. `ingested_at` is when a row's bronze transaction began, as in `SilverOrders`,
and what a domain has above its watermark is a set of classes: rows older than the own
one, the own one, newer ones. The two own transactions have begun at the start of the
model (before that every row is older, which is where it starts) and are committed
at any time: if a newer row has been fetched and the watermark moved past it by
then, or between the fetch and the end of the job, the own row is `dropped`. The
orders' job upserts the own order or rejects it (`rejected`: an orphan of its customer,
which the generator avoids and the job does not rely on); the line items' job looks
for the order in silver and quarantines the item if it is not there. A DAG
has one run at a time, each domain a check and a job; a short circuit skips the
job and all that is downstream of it. A task that fails is tried again or fails
for good. Gold starts when it is idle and every trigger asset has an event that no
earlier run has used up. The slots of the executor and the checks of the error
rate are left out: only `restock_check` waits for one, and `InventoryLoop` has it.

## Runs

| Run | Module, cfg | Asks |
|---|---|---|
| `batching` | `MCGenerator.cfg` | Do order, invoice, timer and stock agree about the payment, do the per-customer sets follow the orders and the cap? Two customers with a cap of one, a reminder, quantities 1 and 3 against a capacity of 3. |
| `fleet` | `MCFleet.cfg` | Two trucks, two zones, a reminder: is `SentInv` an invariant; can a callback raise, an order be on two trucks or on none, a truck be lost, a topic and a status disagree, an event be an orphan, silver refuse a history; is `Fulfilment` implemented? |
| `liveness` | `MCGeneratorLive.cfg` | Does every order finish and give its slot back, though each exceeds the capacity of the truck alone, and does every truck return? |
| `restart` | `MCRestart.cfg` | What survives a restart from a silver that lags table by table: is `SteadyInv`, with `RestartInv` in it, an invariant? `OnlyLaggingGoWrong` says it exactly: an order is forgotten, stuck or invoiced twice only if silver was behind with that order (the order, its line items or its invoice), or stuck if it shared a truck with such an order. May silver refuse more of an order's history than the reload of a requeued one (`OnlyReloadsRefused`)? Do trucks come home although callbacks raise after a restart? |
| `bronze` | `MCBronze.cfg` | Which messages can be passed over for good, when partitions are added, the topic is created again and runs die anywhere, and does every other message arrive? |
| `bronze_reads` | `MCBronzeReads.cfg` | finding |
| `silver` | `MCSilver.cfg` | However a history is cut into transactions and batches, whatever fails: do rows move forward only (`SilverView`), is each row that the watermark passed reflected or quarantined unless it raced, how often is an error written, is a legal history ever rejected, is every stored row looked at in the end? |
| `silver_dropped`, `silver_created_at` | `MCSilverDropped.cfg`, `MCSilverCreatedAt.cfg` | findings |
| `inventory` | `MCInventory.cfg` | However changes reach silver: is each decided, and decided once, is silver's stock as new as what it accepted, does it accept what continues an accepted change and a refill decided on a settled stock, can a product be refilled twice? |
| `positions` | `MCPositions.cfg` | Is the map ever behind bronze, can the referential check of the batch pass find anything, which pings are lost, do all others arrive although transactions wait in circles and the stream dies? |
| `gold` | `MCGold.cfg` | Is `GoldInv` an invariant, by which races is a line item quarantined (its order `missed` by the fetch, `dropped` by the watermark or `rejected`), is every line item that the watermark has not passed looked at although runs are skipped, does gold catch up with silver? |

Every property of a passing run has a mutant of a mapped definition that violates
it under the run's own configuration: the module has the mutated form just before
the definition (`...Mutant`).

**Bounds.** Two orders are the fewest that can share a truck, compete for it or
be batched in part, and with a cap of one the fewest that can exceed it or reuse
a slot; two trucks and two zones the fewest for double dispatch and for a
dispatcher that skips a zone. One reminder reaches both ends of `_remind()`.
`MaxInvoices` 2 leaves room for a double invoice. Quantity 2 after a restart lets a resumed
order have all, some or none of its units; in `liveness` every order alone exceeds the
truck, so that a dispatcher which only took what fits would take none. One restart with one order
reaches every state of the bootstrap; it has no reminders, which the other runs have and
the proofs cover for any number. After a restart orders meet in the queue and
the cap, which the runs without restarts exercise, and on a truck: for that the run has a
second kind of initial state, the first one of a restarted process in which two paid
orders wait and silver is behind with the invoice of one (`TwoResumed`, a state of
`RestartInv`), since two orders from the start are too much for TLC. The constraint
`FewOrders` cuts off further orders, which the fairness of trucks does not depend
on; the action constraint `UntilLastRestart` freezes the tables that only a bootstrap
reads once no restart is left, since nobody looks at them again. In bronze two partitions with
three messages between them reach incremental reads, widening, refusal and both
kinds of loss, and one more topic is enough to reuse a name. In silver an order
with three events and two concurrent transactions has every order of begin,
commit and fetch; orders do not interact in that job except through the
watermark, which the slices of one order exercise. One failure comes in every
place, in bronze a second one after it. Three sales of 1 or 3 units against a
capacity of 3, two refills, one price update and a failure or a restart let a
sale be oversold, flagged, refilled, sold again and judged across two processes;
products meet only in the watermark and in a transaction, and the parts of one
product's changes exercise both. Two trucks, two tasks and the pass are the
fewest that make a circle within a micro-batch and one between the two jobs;
three pings leave a truck with two. Two domains are all that depend on each
other, and a trigger of gold that is skipped while the other goes on; one
failure, of a check, an attempt or a gold run, comes in every place and is retried or
not. Three classes of rows are all that a comparison with the own row tells apart.

**Fairness.** `main()` loops for ever (weak fairness of a pass); a timer, a wait
or a journey of bounded duration is due eventually, but can act only in its
phase (strong fairness, for a truck of its loading, departing and travelling
together); the DAGs run on a schedule with retries (weak fairness of the jobs,
whose failures are bounded). Docker restarts the stream, Postgres grants locks
and breaks circles, trucks reach silver by jobs of their own (weak fairness of
each). In `GoldRefresh` rows of others keep arriving in every trigger domain,
because the generator keeps on: without new orders `ItemsAreJudged` is false,
since a short circuit on the orders skips line items too. Customers, own orders,
pings and messages are under no obligation to appear.

Liveness that concerns a state which stays once reached is stated as `<>[]` of an
implication: the inputs of the instance are finite, and what is asked is what is
left when nothing new is asked for.

## Proofs

A theorem holds for all values of the constants that satisfy the named assumptions
of its component's module: any customers, finite sets of orders and trucks, any
zones, quantities and bounds. Every inductive invariant is checked by a run before
it is proved; each step of a component has a lemma, or a step of one.

**The generator.** `GeneratorProofs` proves `Spec => []IndInv` and from it
`CallbacksNeverRaise`, `OneTruckPerOrder`, `NoOrderStranded`, `FreeListExact`
(which no run checks by name, as a part of `SentInv`) and `PaymentAgrees`; `OpenOrdersExact` has an invariant of its own on top. None of
these is inductive: that no callback raises depends on where each loaded order of
each truck stands, so `TruckShape` ties the status of every order of a manifest to
the position of the truck in its run, `OrderShape` ties `claimed` to the statuses
in which an order is out of the queue, and `InvoiceShape` gives order, invoice and
timer one another's status.

**What it has sent.** A second part of the module adds `SentInv` to `IndInv`: an
order's topic is the part of its path that leads to its status, or ends in a
cancellation, an invoice's the creation, its reminders and its end. That is
`TopicsFollowStatus`, and as silver's table ranks the path in the same order, no two
events of a history are ever refused (`SilverAcceptsHistory`). With it
`ParentsConfirmed` is inductive: an order is invoiced only in a pass that found it in silver, and silver
does not forget. It is about invoices, truck runs and the customers of orders; line items
are sent with their order and refer to one that silver cannot have yet.
`Spec => ImplementsFulfilment` goes action by action: the orders that one moves are
those of one abstract step, and the other changes of status map to stutters.

**After restarts.** Most of `IndInv` is false once silver has lagged, since
callbacks do raise then. `GeneratorRestartProofs` proves what is left:
`RestartSpec => []RestartInv`. Silver shows no more than was sent, line items included
(`SeenWasSent`), so what is resumed exists; whatever exists has sent an event, and an order without an
invoice never had one (`ExistAsSent`), so an event of an invoice never precedes its
order's confirmation; what is on a truck is claimed (`ClaimsHold`), which the
bootstrap undoes for all at once. From it follow `OneTruckPerOrder`,
`OpenOrdersMatch` and `ParentsStillConfirmed`.

`RestartInv` says nothing of what an order does, since after a restart anything may
happen to one that silver was behind with. `OnlyLaggingGoWrong` is about the others,
and `SteadyInv` is what makes it inductive: it keeps for `Steady`, the orders that are not in
`lagged`, what `IndInv` says of all. What such an order is, is what was sent about it
last, or it waits in the queue again (`SteadyOrders`); it has one invoice in all
processes, with a timer as long as that is pending, and it has the line items that were sent, of which the
stock was taken once (`SteadyInvoices`); and a truck
that carries steady orders only is where `RunShape` puts it, whereas of a truck with one
of the others it is certain only that it comes home empty (`SteadyTrucks`). At a
restart silver has all that was sent about a steady order (`SteadySeen`), so what is
resumed is what there was. In between, a timer of another order cannot touch a
steady one, and a truck that takes a lagging order on board makes all it carries
`shared`, so that a callback that raises leaves only those behind. From
`RestartSpec => []SteadyInv` follows `OnlyLaggingGoWrong` (`OnlyLaggingAffected`).
The last two conjuncts are about the topics, in which a restart may repeat events, so
that they are no longer a part of the path: `SteadyTopics` bounds what has been sent by what was
sent last, and `HistoryGrows` shows that silver takes what a move adds after
anything in that bound, but for a reload (`OnlyReloadsRefused`).

**Bronze.** `BronzeProofs` proves `Spec => []BronzeInv` and hence
`OnlyExposedAreLost`: the step that matters is `UpdateOffsets`, where a message
below the new offset was either below the old one, or was read to be written, or
arrived after that read; `RunShape` carries the second and third case through the
run.

**Silver.** `SilverOrdersProofs` proves `Spec => []SilverInv` and from it
`PassedAreReflected` and `ErrorsPerAttempt`. The watermark moves to the latest row
of a batch, so what matters is what a run did not fetch: `FetchedAll` says that it
had been passed, is later than the whole batch, or raced; `RunShape` says that a
fetched row is quarantined or on its way. `LegalHistoriesPass` is proved for
histories any two of whose statuses silver's check accepts (`LegalHistories`), which
is what `SilverAcceptsHistory` proves of the generator; TLC evaluates it for the
histories of the run. `Spec => ImplementsView` is the refinement that justifies how
`Generator` moves `poSeen`.

**Stock.** `InventoryProofs` proves `Spec => []InventoryInv` and from it the five
invariants of the run. `BatchIsNext` says what a run has fetched and `StepsWritten`
what it has written; `Origins` says by which run a row is in history although the
watermark has not passed it, and that an abandoned run has left no earlier row
out. That makes `PassedAreDecided` and `DecidedOnce` inductive. `ContinuedAreValid` follows a
change that adds up with its predecessor through fetch and judgement,
`QuietAreValid` one of a refill, and `RefillsDecided` counts what the check has
refilled since the watermark.

**Positions.** `TruckPositionsProofs` proves `Spec => []PositionsInv`, in which
`MicroBatchCovered` says that a ping which a micro-batch plans is in bronze, in a
transaction under way, or gone from Kafka, and the foreign key gives every truck of bronze a
row in the fleet. `PositionNeverLags`, `PassFindsNoOrphan` and `OnlyExpiredAreLost`
are parts of it.

**DAGs and gold.** `GoldProofs` proves `Spec => []GoldInv`. `TasksInOrder` says that a
job runs after its check and the job of the line items after that of the orders
succeeded, whichever attempts failed; `OwnRowsKept` follows an order and its line item
from bronze through the fetch to where they are settled, unless the watermark `dropped`
them. Together they say that a line item that was fetched
after its order's job finds the order in silver unless the order was `missed`
by the fetch, `dropped`, or `rejected` (`OrphansAreRaces`). `OnlyOvertakenShutOut` says of the incremental fact
that what it never builds has been `overtaken`: the rows it passes over are
otherwise taken by the next run.

`SetLemmas` has the maximum of a finite set and what goes with it. The provers
cannot instantiate an induction principle, so its one induction is a minimal
counterexample: strict inclusion on the subsets of a finite set is well-founded.

Only model-checked: the liveness properties, which need fairness and `ENABLED`, which
the prover does not reason about. Every other property of a passing run is a theorem.

## Findings

Each is a run in which TLC violates what a comment of the code says.

| Run | What the code does |
|---|---|
| `bronze_reads` | Offsets are recorded by a later evaluation of the query than the one that was written: messages sent in between are never ingested. `shared_ingestion_utils.py:88-89` says that the next run picks up exactly where this one left off. |
| `silver_dropped` | `ingested_at` is when a bronze transaction began; its rows are dropped without trace if the watermark has passed that time before it commits. `shared_utils.py:90-91`: not dropped silently. |
| `silver_created_at` | A batch without an order's `created` row overwrites `created_at` with its earliest event. `purchase_orders_to_silver.py:23-26`: the stored value is left untouched. |

Met while modelling, and not a run of their own:

- An order whose invoice is not in silver yet gets a second one at a restart
  (`OnlyLaggingGoWrong` excepts it). `main.py:125-131` says that this is what the
  check guards against.
- An order that silver does not have yet is driven by nobody after a restart, and
  one that silver shows as paid, or as invoiced with its invoice settled, is
  resumed and never moves again, although `main.py:271-275` calls a restart
  gap-free and `main.py:226-230` means to leave no order stuck.
  `OnlyLaggingGoWrong` states when.
- A resumed order whose line items are not in silver yet, or were quarantined, is driven
  on with those that are, or with none, and then loads and sells nothing
  (`db.py:87-95`, `main.py:210-223`). `SteadyInvoices` excepts it as `lagged`;
  `main.py:271-275` calls a restart gap-free.
- A requeued order sends `loaded` after `in-transit`. Silver takes it (its rank
  falls, which `dbt/tests/assert_purchase_order_status_transitions_valid.sql`
  forbids) or, when both are in one batch, rejects it as an impossible transition
  (`purchase_orders_to_silver.py:5-8` says that there is none). `OnlyReloadsRefused`
  says that nothing else of a steady order is refused.
- After a restart an order may be cancelled while it is being loaded, by the timer of
  an invoice that silver did not yet show as settled. It then refuses to depart, and
  the loop over the manifest (`truck.py:155-156`) ends there: the orders behind it
  stay `loaded`, refuse to be delivered and are never moved again, although silver was
  up to date with them (`shared` in `OnlyLaggingGoWrong`).
- Orders that one restart forgets and the next resumes come on top of the cap.
- A topic created again that has outgrown the stored offset is not noticed
  (`reborn` in `BronzeIngestion`; `shared_ingestion_utils.py:77-80`).
- `main.py:286-288` says that the generator never queries Postgres again after
  bootstrap, and three of its phases do.
- `orders.cancellation_probability` is documented and read nowhere.
- A `ShortCircuitOperator` skips its indirect downstream tasks whatever their
  `trigger_rule`, so `silver_purchase_orders_dag.py:90-99` and
  `docs/AIRFLOW3_PROJECT.md:230-233` do not describe what happens to line items
  when there is no new order: they wait for the next one.
- `db.py:146-148` says that an order's line items are deferred until it is in
  silver; `purchase_order.py:138-150` sends them with the order, and
  `OrphansAreRaces` names the only ways in which one is quarantined for good: the
  run's fetch of orders missed its order, the watermark passed it, or it was rejected.
- Silver's stock check rejects every product's first sale, as there is no seed and
  nothing says that a product starts full (`coalesce(..., 0)`); a sale that is alone
  in each of its batches is rejected for ever after. A sale after a refill does not
  add up either, since the generator does not know of the refill; one that follows it
  in its batch does, and takes silver back to the generator's stock. `AcceptedAreContinued` says what
  can be relied on. `docs/DATA_SCHEMA.md:107` calls the history
  stock-consistency-validated.
- The neighbour that `lag()` returns may be a row that is itself rejected, and a run
  that is repeated may reject what it has put into the history (`retried`).
- `restock_required` is computed only when a product event is processed, so a product
  without one is not refilled however low its stock is.
- A repeated `restock_check` draws new event ids and refills twice.
- The foreign keys of silver do fire: a sale of a product, or a ping of a truck, that
  silver does not have yet stops the job (`01-init-schema.sql:305-308`: "these never
  actually fire"). For pings that makes the batch pass's check find nothing
  (`PassFindsNoOrphan`) and its upsert change nothing (`PositionNeverLags`).
- `fact_purchase_orders` takes what is later than all it has, by event time: a row
  that reaches silver after a later one is never built (`overtaken`);
  `docs/DBT_MODEL.md:39-41` says that rows changed since the last run are processed.
- A run of gold that fails has used up its events; the next needs new ones of every
  trigger domain.
- Two customers may draw one e-mail address if a restart has not seen the first; the
  unique index then fails `customers_to_silver.py` on every run.

## Not modelled, and the plan

1. What a refused reload leaves in silver's row and in the history that the dbt test
   reads: `OnlyReloadsRefused` says which events can be refused, and `SilverOrders`
   has histories without them.
2. Customers with e-mail addresses; the invoice job, which has the form of the
   purchase order job.

Not planned: weather enrichment (an external call and one upsert), the streaming
supervisor (it alerts and changes nothing), geometry, monitoring configuration and
scripts, and the SQL of the marts beyond what the order of runs can change.
