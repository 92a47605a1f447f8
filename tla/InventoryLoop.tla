----------------------------- MODULE InventoryLoop -----------------------------
(***************************************************************************)
(* The stock of a product, which three processes keep: the generator counts *)
(* it down (generators/product.py), inventory_to_silver.py replays the     *)
(* changes from bronze, and restock_check.py refills it in bronze when     *)
(* products_to_silver.py has raised a flag.  The generator never hears of  *)
(* a refill; it takes over silver's stock when it is restarted (db.py).    *)
(*                                                                         *)
(* A change is known by its place in the order of changed_at.  ingested_at *)
(* is the order in which the transactions that brought the rows committed; *)
(* that it is really when they began is the subject of SilverOrders.       *)
(***************************************************************************)
EXTENDS Integers, Sequences, FiniteSets, FiniteSetsExt, SequencesExt

CONSTANTS
  Products,
  Capacity,      \* nominal_capacity
  Threshold,     \* restock_threshold_pct of it
  Target,        \* restock_target_pct of it
  Quantities,    \* qty_on_order
  MaxSales, MaxRestocks, MaxUpdates,   \* bounds
  MaxDisruptions   \* bound: tasks that fail and restarts of the generator

ASSUME ProductsAssumption == IsFiniteSet(Products)
ASSUME CapacityAssumption ==
  Capacity \in Nat /\ Threshold \in 0..Capacity /\ Target \in 0..Capacity
ASSUME QuantitiesAssumption == Quantities \subseteq Nat \ {0}
ASSUME BoundsAssumption ==
  {MaxSales, MaxRestocks, MaxUpdates, MaxDisruptions} \subseteq Nat

VARIABLES
  catalog,       \* the products that the generator's process knows
  qty,           \* Product.qty
  process,       \* starts of the generator so far
  changes        \* sales and restocks, in the order of changed_at
generatorVars == <<catalog, qty, process, changes>>

VARIABLES
  reading,       \* changes that the bronze job has read and not yet committed
  ingestedAt,    \* iot.inventory_changes.ingested_at, of the rows that are there
  clock          \* transactions so far
bronzeVars == <<reading, ingestedAt, clock>>

VARIABLES
  pc,            \* what the inventory DAG does next
  batch,         \* rows that inventory_to_silver.py fetched
  valid,         \* those that is_valid holds for
  todo           \* valid rows still to be written by the current step
jobVars == <<pc, batch, valid, todo>>

VARIABLES
  history,       \* silver.inventory_history
  stockAt,       \* silver.inventory_current: the change it shows, 0 for no row
  quarantined,   \* silver.error_inventory_changes
  watermark      \* control.silver_watermarks
silverVars == <<history, stockAt, quarantined, watermark>>

VARIABLES
  events,        \* product events so far, per product, in the order of event_at
  sent,          \* those on their way from the generator to bronze
  fresh,         \* those in bronze that the products watermark has not passed
  taken,         \* those that a run of products_to_silver.py has fetched
  low,           \* products whose stock that run found below the threshold
  shown,         \* silver.products_current: the event it shows, 0 for no row
  flag           \* silver.products_current.restock_required
productVars == <<events, sent, fresh, taken, low, shown, flag>>

VARIABLES
  failures,
  retried,       \* history: changes of a batch that was abandoned half-way
  quiet          \* history: restocks of products with no other change on its way
historyVars == <<failures, retried, quiet>>

vars == <<generatorVars, bronzeVars, jobVars, silverVars, productVars, historyVars>>

Changes == 1..Len(changes)
Of(p) == {i \in Changes : changes[i].product = p}
Stored == DOMAIN ingestedAt
Passed(i) == i \in Stored /\ ingestedAt[i] <= watermark

InSilver == {p \in Products : shown[p] > 0}
HasStock == {p \in Products : stockAt[p] > 0}
Stock(p) == changes[stockAt[p]].stock

\* Bound: there may be another failure or restart.
Undisturbed == failures + process <= MaxDisruptions

Count(reason) == Cardinality({i \in Changes : changes[i].reason = reason})

Init ==
  /\ catalog = Products
  /\ qty = [p \in Products |-> Capacity]
  /\ process = 1
  /\ changes = << >>
  /\ reading = {} /\ ingestedAt = [i \in {} |-> 0] /\ clock = 0
  /\ pc = "idle" /\ batch = {} /\ valid = {} /\ todo = {}
  /\ history = {} /\ quarantined = {} /\ watermark = 0
  /\ stockAt = [p \in Products |-> 0]
  /\ events = [p \in Products |-> 1]
  /\ sent = [p \in Products |-> {1}]
  /\ fresh = [p \in Products |-> {}] /\ taken = [p \in Products |-> {}]
  /\ low = {}
  /\ shown = [p \in Products |-> 0] /\ flag = [p \in Products |-> FALSE]
  /\ failures = 0 /\ retried = {} /\ quiet = {}

-------------------------------------------------------------------------------
(* The generator.                                                          *)

\* Mutant of Left: the stock is not kept from falling below zero.
LeftMutant(p, quantity) == qty[p] - quantity

Left(p, quantity) == Max({qty[p] - quantity, 0})

\* decrement_for_sale(), from mark_paid(): an order may ask for more than there
\* is, and its event still says by how much it asked.
Sale(p, quantity) ==
  /\ p \in catalog
  /\ Count("sale") < MaxSales
  /\ qty' = [qty EXCEPT ![p] = Left(p, quantity)]
  /\ changes' = Append(changes, [product |-> p, delta |-> -quantity,
                                 stock |-> qty'[p], reason |-> "sale"])
  /\ UNCHANGED <<catalog, process, bronzeVars, jobVars, silverVars, productVars,
                 historyVars>>

\* maybe_update(): a price drifts.
Update(p) ==
  /\ p \in catalog
  /\ events[p] <= MaxUpdates
  /\ events' = [events EXCEPT ![p] = @ + 1]
  /\ sent' = [sent EXCEPT ![p] = @ \cup {events'[p]}]
  /\ UNCHANGED <<generatorVars, bronzeVars, jobVars, silverVars, fresh, taken, low,
                 shown, flag, historyVars>>

\* load_bootstrap_state(): the products of silver with silver's stock.  (If there
\* are none, a catalog of other products is seeded.)
Restart ==
  /\ Undisturbed
  /\ process' = process + 1
  /\ catalog' = InSilver
  /\ qty' = [p \in Products |-> IF p \in HasStock THEN Stock(p) ELSE Capacity]
  /\ UNCHANGED <<changes, bronzeVars, jobVars, silverVars, productVars, historyVars>>

-------------------------------------------------------------------------------
(* The bronze jobs.                                                        *)

\* A run reads what is new in iot.inventory_changes ...
BronzeReads ==
  /\ reading = {}
  /\ reading' = Changes \ Stored
  /\ reading' # {}
  /\ UNCHANGED <<generatorVars, ingestedAt, clock, jobVars, silverVars, productVars,
                 historyVars>>

Ingest(S) ==
  /\ clock' = clock + 1
  /\ ingestedAt' = [i \in Stored \cup S |->
                      IF i \in Stored THEN ingestedAt[i] ELSE clock']

\* ... and its concurrent tasks commit it in parts.
BronzeCommits(S) ==
  /\ S # {} /\ S \subseteq reading
  /\ reading' = reading \ S
  /\ Ingest(S)
  /\ UNCHANGED <<generatorVars, jobVars, silverVars, productVars, historyVars>>

BronzeFails ==
  /\ reading # {}
  /\ Undisturbed
  /\ failures' = failures + 1
  /\ reading' = {}
  /\ UNCHANGED <<generatorVars, ingestedAt, clock, jobVars, silverVars, productVars,
                 retried, quiet>>

\* The same for an event of iot.product_events.
ProductEventStored(p, k) ==
  /\ k \in sent[p]
  /\ sent' = [sent EXCEPT ![p] = @ \ {k}]
  /\ fresh' = [fresh EXCEPT ![p] = @ \cup {k}]
  /\ UNCHANGED <<generatorVars, bronzeVars, jobVars, silverVars, events, taken, low,
                 shown, flag, historyVars>>

-------------------------------------------------------------------------------
(* inventory_to_silver.py                                                  *)

New == {i \in Stored : ingestedAt[i] > watermark}

\* Mutant of ExpectedPrev: lag() without the seed from silver.
ExpectedPrevMutant(i) ==
  LET earlier == {j \in New \cap Of(changes[i].product) : j < i} IN
    IF earlier # {} THEN changes[Max(earlier)].stock ELSE 0

\* coalesce(lag(current_stock), seed_stock, 0): the row before may be a bad one.
ExpectedPrev(i) ==
  LET p == changes[i].product
      earlier == {j \in New \cap Of(p) : j < i}
  IN  IF earlier # {} THEN changes[Max(earlier)].stock
      ELSE IF p \in HasStock THEN Stock(p)
      ELSE 0

IsValid(i) ==
  /\ ExpectedPrev(i) + changes[i].delta = changes[i].stock
  /\ changes[i].stock >= 0

\* Fetches, reads the seeds (which only this job writes), and route_errors()
\* commits the bad rows.
Validate ==
  /\ pc = "idle"
  /\ New # {}
  /\ batch' = New
  /\ valid' = {i \in New : IsValid(i)}
  /\ quarantined' = quarantined \cup (batch' \ valid')
  /\ todo' = valid'
  /\ pc' = "history"
  /\ UNCHANGED <<generatorVars, bronzeVars, history, stockAt, watermark, productVars,
                 historyVars>>

\* The rows S of a partition, or no row at all when there is none to write.
Part(S) == S \subseteq todo /\ (S # {} \/ todo = {})

\* When all partitions are done, the next step writes the valid rows its way.
Proceed(S, next) ==
  LET rest == todo \ S IN
    /\ todo' = IF rest = {} THEN valid ELSE rest
    /\ pc' = IF rest = {} THEN next ELSE pc

\* _append_history_partition(); the rows refer to products_current.
AppendHistory(S) ==
  /\ pc = "history"
  /\ Part(S)
  /\ \A i \in S : changes[i].product \in InSilver
  /\ history' = history \cup S
  /\ Proceed(S, "stock")
  /\ UNCHANGED <<generatorVars, bronzeVars, batch, valid, stockAt, quarantined,
                 watermark, productVars, historyVars>>

\* Mutant of Newest: the upsert does not look at updated_at.
NewestMutant(p, S) == Max(S \cap Of(p))

\* The latest of a partition's rows, against WHERE EXCLUDED.updated_at > updated_at.
Newest(p, S) == Max({stockAt[p]} \cup (S \cap Of(p)))

\* _upsert_current_stock_partition()
UpsertStock(S) ==
  /\ pc = "stock"
  /\ Part(S)
  /\ stockAt' = [p \in Products |-> IF S \cap Of(p) = {} THEN stockAt[p] ELSE Newest(p, S)]
  /\ Proceed(S, "watermark")
  /\ UNCHANGED <<generatorVars, bronzeVars, batch, valid, history, quarantined,
                 watermark, productVars, historyVars>>

\* Mutant of NextWatermark: the first of the rows, not the last.
FirstWatermarkMutant == Min({ingestedAt[i] : i \in batch})

NextWatermark == Max({ingestedAt[i] : i \in batch})

WriteWatermark ==
  /\ pc = "watermark"
  /\ watermark' = NextWatermark
  /\ pc' = "restock"
  /\ batch' = {} /\ valid' = {} /\ todo' = {}
  /\ UNCHANGED <<generatorVars, bronzeVars, history, stockAt, quarantined, productVars,
                 historyVars>>

\* Whatever was committed stays; the task is started again from its first step.
Abandon ==
  /\ pc' = "idle"
  /\ batch' = {} /\ valid' = {} /\ todo' = {}
  /\ retried' = retried \cup batch
  /\ UNCHANGED <<generatorVars, bronzeVars, silverVars, productVars, quiet>>

InventoryFails ==
  /\ pc \in {"history", "stock", "watermark"}
  /\ Undisturbed
  /\ failures' = failures + 1
  /\ Abandon

\* A foreign key stops the run: the product's own event is still on its way.
UnknownProduct ==
  /\ pc = "history"
  /\ \E i \in todo : changes[i].product \notin InSilver
  /\ Abandon
  /\ UNCHANGED failures

-------------------------------------------------------------------------------
(* restock_check.py, the last task of the same DAG run.                    *)

Due == {p \in HasStock : flag[p] /\ Stock(p) < Target}

\* Bound: beyond MaxRestocks the check finds nothing.
RestocksLeft == Count("restock") + Cardinality(Due) <= MaxRestocks

Refill(p) == [product |-> p, delta |-> Target - Stock(p), stock |-> Target,
              reason |-> "restock"]

\* One transaction: an inventory change and a product event per product.
Restock ==
  LET first == Len(changes) + 1
      last  == Len(changes) + Cardinality(Due)
  IN  /\ changes' = changes \o SetToSeq({Refill(p) : p \in Due})
      /\ Ingest(first..last)
      /\ events' = [p \in Products |-> IF p \in Due THEN events[p] + 1 ELSE events[p]]
      /\ fresh' = [p \in Products |->
                     IF p \in Due THEN fresh[p] \cup {events'[p]} ELSE fresh[p]]
      /\ quiet' = quiet \cup {i \in first..last :
                                \A j \in Of(changes'[i].product) : Passed(j)}

RestockCheck ==
  /\ pc = "restock"
  /\ pc' = "idle"
  /\ IF Due # {} /\ RestocksLeft
       THEN Restock
       ELSE UNCHANGED <<changes, ingestedAt, clock, events, fresh, quiet>>
  /\ UNCHANGED <<catalog, qty, process, reading, batch, valid, todo, silverVars, sent,
                 taken, low, shown, flag, failures, retried>>

\* The task fails after its transaction is committed, and Airflow starts it again.
RestockRepeats ==
  /\ pc = "restock"
  /\ Due # {} /\ RestocksLeft
  /\ Undisturbed
  /\ failures' = failures + 1
  /\ Restock
  /\ UNCHANGED <<catalog, qty, process, reading, jobVars, silverVars, sent, taken, low,
                 shown, flag, retried>>

\* The task, or the check of the error rate before it, fails for good.
RestockFails ==
  /\ pc = "restock"
  /\ Undisturbed
  /\ failures' = failures + 1
  /\ pc' = "idle"
  /\ UNCHANGED <<generatorVars, bronzeVars, batch, valid, todo, silverVars, productVars,
                 retried, quiet>>

-------------------------------------------------------------------------------
(* products_to_silver.py, in a DAG of its own.                             *)

ProductsIdle == \A p \in Products : taken[p] = {}

\* Fetches the events, then the stock of their products (nominal without a row).
ProductsRead ==
  /\ ProductsIdle
  /\ taken' = fresh
  /\ \E p \in Products : taken'[p] # {}
  /\ low' = {p \in HasStock : taken'[p] # {} /\ Stock(p) < Threshold}
  /\ UNCHANGED <<generatorVars, bronzeVars, jobVars, silverVars, events, sent, fresh,
                 shown, flag, historyVars>>

Stale(p) == taken[p] # {} /\ shown[p] < Max(taken[p])

\* The latest event of the product, unless its row is later still.
ProductsUpsert(p) ==
  /\ Stale(p)
  /\ shown' = [shown EXCEPT ![p] = Max(taken[p])]
  /\ flag' = [flag EXCEPT ![p] = p \in low]
  /\ UNCHANGED <<generatorVars, bronzeVars, jobVars, silverVars, events, sent, fresh,
                 taken, low, historyVars>>

EndProducts ==
  /\ taken' = [p \in Products |-> {}]
  /\ low' = {}

ProductsWatermark ==
  /\ ~ProductsIdle
  /\ \A p \in Products : ~Stale(p)
  /\ fresh' = [p \in Products |-> fresh[p] \ taken[p]]
  /\ EndProducts
  /\ UNCHANGED <<generatorVars, bronzeVars, jobVars, silverVars, events, sent, shown,
                 flag, historyVars>>

ProductsFail ==
  /\ ~ProductsIdle
  /\ Undisturbed
  /\ failures' = failures + 1
  /\ EndProducts
  /\ UNCHANGED <<generatorVars, bronzeVars, jobVars, silverVars, events, sent, fresh,
                 shown, flag, retried, quiet>>

-------------------------------------------------------------------------------
Generator ==
  \/ \E p \in Products : Update(p) \/ \E quantity \in Quantities : Sale(p, quantity)
  \/ Restart

Bronze ==
  \/ BronzeReads
  \/ \E S \in SUBSET reading : BronzeCommits(S)

ProductArrives == \E p \in Products : \E k \in sent[p] : ProductEventStored(p, k)

Inventory ==
  \/ Validate
  \/ \E S \in SUBSET todo : AppendHistory(S) \/ UpsertStock(S)
  \/ WriteWatermark
  \/ UnknownProduct
  \/ RestockCheck

ProductsJob ==
  \/ ProductsRead
  \/ \E p \in Products : ProductsUpsert(p)
  \/ ProductsWatermark

Failure == BronzeFails \/ InventoryFails \/ RestockRepeats \/ RestockFails \/ ProductsFail

Next == Generator \/ Bronze \/ ProductArrives \/ Inventory \/ ProductsJob \/ Failure

Spec == Init /\ [][Next]_vars
-------------------------------------------------------------------------------
TypeOK ==
  /\ catalog \subseteq Products
  /\ qty \in [Products -> 0..Capacity]
  /\ process \in 1..MaxDisruptions + 1
  /\ changes \in Seq([product : Products, delta : Int, stock : 0..Capacity,
                      reason : {"sale", "restock"}])
  /\ clock \in Nat
  /\ Stored \subseteq Changes /\ reading \subseteq Changes \ Stored
  /\ \A i \in Stored : ingestedAt[i] \in 1..clock
  /\ \A i \in Changes : changes[i].reason = "restock" => i \in Stored
  /\ pc \in {"idle", "history", "stock", "watermark", "restock"}
  /\ batch \subseteq Stored /\ valid \subseteq batch /\ todo \subseteq valid
  /\ history \subseteq Stored /\ quarantined \subseteq Stored
  /\ stockAt \in [Products -> Nat]
  /\ \A p \in Products : stockAt[p] \in {0} \cup (history \cap Of(p))
  /\ watermark \in 0..clock
  /\ {sent, fresh, taken} \subseteq [Products -> SUBSET Nat]
  /\ {events, shown} \subseteq [Products -> Nat]
  /\ \A p \in Products :
       /\ sent[p] \cup fresh[p] \cup taken[p] \cup {shown[p]} \subseteq 0..events[p]
       /\ sent[p] \cap fresh[p] = {}
       /\ taken[p] \subseteq fresh[p]
  /\ low \subseteq Products
  /\ flag \in [Products -> BOOLEAN]
  /\ failures \in 0..MaxDisruptions
  /\ retried \subseteq Stored /\ quiet \subseteq Stored

\* A change that the watermark has passed is in the history or in quarantine, and
\* silver's stock is never older than a change it accepted, in whatever order and
\* parts the rows were stored and written - but a run that is repeated may reject
\* what the run before has put into the history.
PassedAreDecided ==
  \A i \in Changes :
    Passed(i) => /\ i \in history \cup quarantined
                 /\ i \in history \ retried => stockAt[changes[i].product] >= i

\* The job accepts or rejects a change, but not both - unless it ran twice over it.
DecidedOnce == history \cap quarantined \subseteq retried

Previous(i) == Max({0} \cup {j \in Of(changes[i].product) : j < i})

\* The change starts from the stock that the one before it left: it is a sale for
\* no more than there was, or a refill of what silver knew.
Continues(i) ==
  LET j == Previous(i) IN
    j # 0 /\ changes[i].stock = changes[j].stock + changes[i].delta

\* No earlier change is stored after its predecessor, no later one before it.
InOrder(i) ==
  LET before == Previous(i) IN
    /\ {i, before} \subseteq Stored
    /\ ingestedAt[before] <= ingestedAt[i]
    /\ \A j \in Of(changes[i].product) \cap Stored :
         /\ j < i => ingestedAt[j] <= ingestedAt[before]
         /\ j > i => ingestedAt[j] >= ingestedAt[i]

\* Once silver has accepted a change, it accepts the one that continues it, if
\* none was stored out of turn and no run failed on it.
AcceptedAreContinued ==
  \A i \in Changes :
    Passed(i) /\ Continues(i) /\ InOrder(i) /\ Previous(i) \in history \ retried
      => i \in history

\* A refill that was decided on a stock without pending changes is accepted.
QuietRestocksLand == \A i \in quiet : Passed(i) => i \in history

\* A product is refilled again only when silver has decided on its last refill,
\* except that a task may be repeated after it has committed.
Undecided(p) == {i \in Of(p) : changes[i].reason = "restock" /\ ~Passed(i)}

OneRefillAtATime == \A p \in Products : Cardinality(Undecided(p)) <= 1 + failures

-------------------------------------------------------------------------------
(* What else is true of every state, for the proofs of the above.          *)

Working == pc \in {"history", "stock", "watermark"}

\* A run works on all rows up to some transaction that the watermark has not
\* passed, every refill among them.
BatchIsNext ==
  /\ IF Working THEN batch # {} ELSE batch = {}
  /\ \A i \in batch :
       /\ ~Passed(i)
       /\ \A k \in Stored \ batch : Passed(k) \/ ingestedAt[k] > ingestedAt[i]
  /\ batch \ valid \subseteq quarantined
  /\ Working => \A i \in Changes : changes[i].reason = "restock" => i \in batch \/ Passed(i)

\* What a step of the job has written, the next one finds.
StepsWritten ==
  /\ pc = "history" => valid \ todo \subseteq history
  /\ pc \in {"stock", "watermark"} => valid \subseteq history
  /\ pc = "stock" => \A i \in valid \ todo : stockAt[changes[i].product] >= i
  /\ pc = "watermark" => \A i \in valid : stockAt[changes[i].product] >= i

\* What silver shows of changes that the watermark has not passed is by this run
\* or by one that was abandoned; the latter left no earlier row out.
Origins ==
  /\ \A i \in history : Passed(i) \/ i \in retried \cup valid
  /\ \A i \in quarantined : Passed(i) \/ i \in retried \cup (batch \ valid)
  /\ \A p \in HasStock : \/ Passed(stockAt[p])
                         \/ stockAt[p] \in retried
                         \/ stockAt[p] \in valid /\ pc \in {"stock", "watermark"}
  /\ \A i \in retried : \A k \in Stored :
       ingestedAt[k] <= ingestedAt[i] => Passed(k) \/ k \in retried

\* A change that continues an accepted one is valid in its batch, and until it is
\* in the history the stock does not overtake it.
ContinuedAreValid ==
  \A i \in Changes :
    Continues(i) /\ InOrder(i) =>
      /\ i \in batch /\ Previous(i) \in batch \cup (history \ retried)
           => i \in valid \cup history
      /\ Previous(i) \in history \ retried
           => i \in history \/ stockAt[changes[i].product] < i

\* Silver's stock is what a quiet refill started from until the refill is in the
\* history: all changes before it are decided, all after it are stored later.
QuietAreValid ==
  \A i \in quiet :
    LET p == changes[i].product IN
      /\ \A j \in Of(p) : j < i => Passed(j)
      /\ \A j \in Of(p) \cap Stored : j > i => ingestedAt[j] > ingestedAt[i]
      /\ i \in batch => i \in valid \cup history
      /\ i \notin history => /\ p \in HasStock
                             /\ Stock(p) + changes[i].delta = changes[i].stock

\* When the check runs, it has refilled nothing since the watermark was written.
RefillsDecided == pc = "restock" => \A p \in Products : Cardinality(Undecided(p)) <= failures

\* The inductive invariant.
InventoryInv ==
  /\ TypeOK
  /\ BatchIsNext /\ StepsWritten /\ Origins
  /\ PassedAreDecided /\ DecidedOnce
  /\ ContinuedAreValid /\ AcceptedAreContinued
  /\ QuietAreValid /\ QuietRestocksLand
  /\ RefillsDecided /\ OneRefillAtATime
===============================================================================
