------------------------------ MODULE SilverOrders ------------------------------
(***************************************************************************)
(* Purchase orders from bronze to silver: purchase_orders_to_silver.py     *)
(* with the helpers of shared_utils.py, one run at a time, next to the     *)
(* transactions of the bronze job that fill iot.purchase_order_events.     *)
(*                                                                         *)
(* Progress is a timestamp: a run takes the rows whose ingested_at is      *)
(* later than the watermark, and moves the watermark to the latest of      *)
(* them.  ingested_at is now(), the time at which a bronze transaction     *)
(* began, and a row can be read only once its transaction has committed.   *)
(***************************************************************************)
EXTENDS Lifecycles, Sequences, FiniteSets, FiniteSetsExt

CONSTANTS
  Orders,       \* purchase_order_ids
  Histories,    \* sequences of statuses that an order may send
  Slices,       \* partitions_per_topic: concurrent transactions of a bronze run
  MaxFailures   \* bound: runs of either job that fail half-way

ASSUME OrdersAssumption == IsFiniteSet(Orders)
ASSUME HistoriesAssumption == Histories \subseteq Seq(OrderStatus) \ {<< >>}
ASSUME SlicesAssumption == IsFiniteSet(Slices)
ASSUME FailuresAssumption == MaxFailures \in Nat

VARIABLES
  history,     \* the statuses that each order sends, in the order of event_at
  missing,     \* parent rows not in silver yet: "customer", "truck"
  now          \* the clock of Postgres
worldVars == <<history, missing, now>>

VARIABLES
  slice,       \* rows of each open transaction of the bronze job
  began,       \* its now(), 0 while it has not begun
  ingestedAt   \* iot.purchase_order_events.ingested_at, of the rows that are there
bronzeVars == <<slice, began, ingestedAt>>

VARIABLES
  pc,          \* what the silver job does next
  batch,       \* rows it fetched
  valid,       \* valid_rows
  todo         \* orders whose row is still to be upserted
jobVars == <<pc, batch, valid, todo>>

VARIABLES
  row,         \* silver.purchase_orders_current: the event of updated_at, 0 for no row
  createdAt,   \* the event whose event_at is created_at
  errors,      \* rows of silver.error_purchase_orders, per event and reason_code
  watermark    \* control.silver_watermarks
silverVars == <<row, createdAt, errors, watermark>>

VARIABLES
  failures,
  raced        \* history: rows committed when a later now() had been fetched
historyVars == <<failures, raced>>

vars == <<worldVars, bronzeVars, jobVars, silverVars, historyVars>>

\* The k-th event of an order; its event_at is later than that of the (k-1)-th.
Events == UNION {{o} \X (1..Len(history[o])) : o \in Orders}

Status(e) == history[e[1]][e[2]]

Reasons == {"orphan_customer", "orphan_truck", "invalid_status_transition"}

Stored == DOMAIN ingestedAt

Init ==
  /\ history \in [Orders -> Histories]
  /\ missing \in SUBSET {"customer", "truck"}
  /\ now = 0
  /\ slice = [s \in Slices |-> {}] /\ began = [s \in Slices |-> 0]
  /\ ingestedAt = [e \in {} |-> 0]
  /\ pc = "idle" /\ batch = {} /\ valid = {} /\ todo = {}
  /\ row = [o \in Orders |-> 0]
  /\ createdAt = [o \in Orders |-> 0]
  /\ errors = [x \in Events \X Reasons |-> 0]
  /\ watermark = 0
  /\ failures = 0 /\ raced = {}

-------------------------------------------------------------------------------
(* The bronze job, as far as its transactions go: run_ingestion() gives    *)
(* the rows it read to concurrent tasks, round-robin.                      *)

BronzeIdle == \A s \in Slices : slice[s] = {}

\* The rows of a run: all that was sent up to some point of each order and is
\* not stored.  (What a failed run left behind is read again.)
BronzeReads(upTo) ==
  LET rows == {e \in Events : e[2] <= upTo[e[1]]} \ Stored IN
    /\ BronzeIdle
    /\ rows # {}
    /\ \A e \in Stored : e[2] <= upTo[e[1]]
    /\ \E split \in [rows -> Slices] :
         slice' = [s \in Slices |-> {e \in rows : split[e] = s}]
    /\ UNCHANGED <<worldVars, began, ingestedAt, jobVars, silverVars, historyVars>>

BronzeBegins(s) ==
  /\ slice[s] # {}
  /\ began[s] = 0
  /\ now' = now + 1
  /\ began' = [began EXCEPT ![s] = now']
  /\ UNCHANGED <<history, missing, slice, ingestedAt, jobVars, silverVars,
                 historyVars>>

\* The latest now() that the silver job has fetched a row of.
HighWater == Max({watermark} \cup {ingestedAt[e] : e \in batch})

BronzeCommits(s) ==
  /\ began[s] # 0
  /\ ingestedAt' = [e \in Stored \cup slice[s] |->
                      IF e \in Stored THEN ingestedAt[e] ELSE began[s]]
  /\ slice' = [slice EXCEPT ![s] = {}]
  /\ began' = [began EXCEPT ![s] = 0]
  /\ raced' = IF began[s] < HighWater THEN raced \cup slice[s] ELSE raced
  /\ UNCHANGED <<worldVars, jobVars, silverVars, failures>>

BronzeFails ==
  /\ ~BronzeIdle
  /\ failures < MaxFailures
  /\ failures' = failures + 1
  /\ slice' = [s \in Slices |-> {}]
  /\ began' = [s \in Slices |-> 0]
  /\ UNCHANGED <<worldVars, ingestedAt, jobVars, silverVars, raced>>

\* The customers or the truck-fleet job brings a parent row to silver.
ParentArrives(p) ==
  /\ p \in missing
  /\ missing' = missing \ {p}
  /\ UNCHANGED <<history, now, bronzeVars, jobVars, silverVars, historyVars>>

-------------------------------------------------------------------------------
(* The silver job.                                                         *)

\* read_watermark() and fetch_incremental(); the job has nothing to do, and the
\* ShortCircuitOperator before it skips it, when no row is new.
Fetch ==
  /\ pc = "idle"
  /\ batch' = {e \in Stored : ingestedAt[e] > watermark}
  /\ batch' # {}
  /\ pc' = "validate"
  /\ UNCHANGED <<worldVars, bronzeVars, valid, todo, silverVars, historyVars>>

\* Mutant of PrevStatus: the window is sorted the other way.
PrevStatusMutant(e) ==
  LET later == {f \in batch : f[1] = e[1] /\ f[2] > e[2]} IN
    IF later = {} THEN NoStatus
    ELSE Status(CHOOSE f \in later : \A g \in later : g[2] >= f[2])

\* lag(status) over the rows of the same order in the batch.
PrevStatus(e) ==
  LET earlier == {f \in batch : f[1] = e[1] /\ f[2] < e[2]} IN
    IF earlier = {} THEN NoStatus
    ELSE Status(CHOOSE f \in earlier : \A g \in earlier : g[2] <= f[2])

\* assign_truck() sets truck_id, and every event from then on carries it.
OnTruck(e) == Status(e) \in {"loaded", "in-transit", "delivered", "closed"}

\* The checks of main(), in their order: a row has at most one reason.
Rejects(e, reason) ==
  CASE reason = "orphan_customer" -> "customer" \in missing
    [] reason = "orphan_truck" ->
         /\ "customer" \notin missing
         /\ OnTruck(e) /\ "truck" \in missing
    [] reason = "invalid_status_transition" ->
         /\ "customer" \notin missing
         /\ ~(OnTruck(e) /\ "truck" \in missing)
         /\ ~SilverOrderValid(PrevStatus(e), Status(e))

\* Reads the known customers and trucks, sorts the rows, route_errors().
Validate ==
  /\ pc = "validate"
  /\ valid' = {e \in batch : \A r \in Reasons : ~Rejects(e, r)}
  /\ errors' = [x \in Events \X Reasons |->
                  IF x[1] \in batch /\ Rejects(x[1], x[2]) THEN errors[x] + 1
                                                           ELSE errors[x]]
  /\ todo' = {e[1] : e \in valid'}
  /\ pc' = "upsert"
  /\ UNCHANGED <<worldVars, bronzeVars, batch, row, createdAt, watermark,
                 historyVars>>

ValidOf(o) == {e[2] : e \in {e \in valid : e[1] = o}}

\* Of the rows of one order, the latest is written ...
Latest(o) == Max(ValidOf(o))

\* ... with the event_at of its "created" row, or else of its earliest one.
CreatedAt(o) ==
  LET created == {k \in ValidOf(o) : history[o][k] = "created"} IN
    IF created # {} THEN Max(created) ELSE Min(ValidOf(o))

\* Mutant of Newer: no late-row check.
NewerMutant(o) == TRUE

\* WHERE EXCLUDED.updated_at > table.updated_at.
Newer(o) == row[o] = 0 \/ Latest(o) > row[o]

\* upsert(): the tasks of foreachPartition() commit the rows of the orders S.
Upsert(S) ==
  /\ pc = "upsert"
  /\ S # {} /\ S \subseteq todo
  /\ row' = [o \in Orders |-> IF o \in S /\ Newer(o) THEN Latest(o) ELSE row[o]]
  /\ createdAt' = [o \in Orders |->
                     IF o \in S /\ Newer(o) THEN CreatedAt(o) ELSE createdAt[o]]
  /\ todo' = todo \ S
  /\ UNCHANGED <<worldVars, bronzeVars, pc, batch, valid, errors, watermark,
                 historyVars>>

EndRun ==
  /\ pc' = "idle"
  /\ batch' = {} /\ valid' = {} /\ todo' = {}

\* Mutants of NextWatermark: the time of the run, not of its rows; the first of
\* its rows, not the last.
NowWatermarkMutant == now
FirstWatermarkMutant == Min({ingestedAt[e] : e \in batch})

NextWatermark == Max({ingestedAt[e] : e \in batch})

WriteWatermark ==
  /\ pc = "upsert"
  /\ todo = {}
  /\ watermark' = NextWatermark
  /\ EndRun
  /\ UNCHANGED <<worldVars, bronzeVars, row, createdAt, errors, historyVars>>

SilverFails ==
  /\ pc # "idle"
  /\ failures < MaxFailures
  /\ failures' = failures + 1
  /\ EndRun
  /\ UNCHANGED <<worldVars, bronzeVars, silverVars, raced>>

Bronze ==
  \/ \E upTo \in [Orders -> 0..Max({Len(h) : h \in Histories})] : BronzeReads(upTo)
  \/ \E s \in Slices : BronzeBegins(s) \/ BronzeCommits(s)

Silver ==
  \/ Fetch
  \/ Validate
  \/ \E S \in SUBSET todo : Upsert(S)
  \/ WriteWatermark

Next ==
  \/ Bronze
  \/ Silver
  \/ \E p \in missing : ParentArrives(p)
  \/ BronzeFails
  \/ SilverFails

Spec == Init /\ [][Next]_vars

\* The DAG runs the silver job every few minutes and retries a failed run.
FairSpec == Spec /\ WF_vars(Silver)
-------------------------------------------------------------------------------
TypeOK ==
  /\ history \in [Orders -> Histories]
  /\ missing \subseteq {"customer", "truck"}
  /\ now \in Nat
  /\ slice \in [Slices -> SUBSET Events] /\ began \in [Slices -> 0..now]
  /\ Stored \subseteq Events /\ \A e \in Stored : ingestedAt[e] \in 1..now
  /\ pc \in {"idle", "validate", "upsert"}
  /\ batch \subseteq Stored /\ valid \subseteq batch /\ todo \subseteq Orders
  /\ row \in [Orders -> Nat] /\ createdAt \in [Orders -> Nat]
  /\ \A o \in Orders : row[o] \in 0..Len(history[o]) /\ createdAt[o] \in 0..row[o]
  /\ errors \in [Events \X Reasons -> Nat]
  /\ watermark \in {0} \cup {ingestedAt[e] : e \in Stored}
  /\ failures \in 0..MaxFailures /\ raced \subseteq Events

Quarantined(e) == \E r \in Reasons : errors[<<e, r>>] > 0

\* No run will look at the row again.
Passed(e) == e \in Stored /\ ingestedAt[e] <= watermark

\* A row that the watermark has passed is quarantined, or its order's row in
\* silver is that of this event or of a later one, whatever failed in between
\* and in whatever order the events were stored - unless it raced.
PassedAreReflected ==
  \A e \in Events :
    Passed(e) /\ e \notin raced => Quarantined(e) \/ row[e[1]] >= e[2]

\* A rejected row is written to the error table once, and once more only for a
\* failure that made its batch be read again.
ErrorsPerAttempt ==
  \A x \in Events \X Reasons : errors[x] <= 1 + failures

\* With its customers and trucks in silver, an order whose events follow its
\* lifecycle has none of them rejected, however they are cut into batches.
LegalHistoriesPass ==
  \A e \in Events : errors[<<e, "invalid_status_transition">>] = 0

\* What it means that histories follow the lifecycle: silver's check accepts any
\* two statuses of one in their order (Generator!SilverAcceptsHistory).
LegalHistories ==
  \A h \in Histories : \A j, k \in DOMAIN h : j < k => SilverOrderValid(h[j], h[k])

(* The inductive invariant behind these (SilverOrdersProofs).              *)

\* Each bronze transaction has a time of its own.
NowsDistinct ==
  /\ \A s, t \in Slices : s # t /\ began[s] = began[t] => began[s] = 0
  /\ \A s \in Slices : \A e \in Stored : began[s] # ingestedAt[e]

\* A fetched row is on its way to be quarantined or reflected in silver.
RunShape ==
  /\ pc = "idle" <=> batch = {}
  /\ pc # "upsert" => valid = {}
  /\ todo \subseteq {e[1] : e \in valid}
  /\ pc = "upsert" =>
       \A e \in batch : IF e \in valid THEN e[1] \in todo \/ row[e[1]] >= e[2]
                                       ELSE Quarantined(e)

\* What a run did not fetch had been passed, is later than all it did, or raced.
FetchedAll ==
  /\ \A e \in batch : ingestedAt[e] > watermark
  /\ \A e \in Stored \ (batch \cup raced) :
       ingestedAt[e] > watermark => \A f \in batch : ingestedAt[e] > ingestedAt[f]

\* A row counts once more than runs have failed when it is passed or will be.
ErrorsCounted ==
  \A e \in Events, r \in Reasons :
    errors[<<e, r>>] <=
      failures + (IF Passed(e) \/ (pc = "upsert" /\ e \in batch) THEN 1 ELSE 0)

SilverInv ==
  /\ TypeOK
  /\ NowsDistinct
  /\ RunShape
  /\ FetchedAll
  /\ ErrorsCounted
  /\ PassedAreReflected

\* The row of an order in silver moves through the order's events as SilverView
\* says, which is what Generator assumes of it.
SentEvents == [o \in Orders |-> Len(history[o])]

View == INSTANCE SilverView WITH sent <- SentEvents, seen <- row

ImplementsView == View!ViewSpec

\* Every row that bronze stores is eventually quarantined or reflected in silver,
\* unless it raced.
StoredAreReflected ==
  \A o \in Orders : \A k \in 1..3 :
    <<o, k>> \in Stored
      ~> \/ <<o, k>> \in raced
         \/ Quarantined(<<o, k>>)
         \/ row[o] >= k

-------------------------------------------------------------------------------
(* What the comments of the code say, and the code does not do.            *)

\* "Bad rows are quarantined, not dropped silently": no row is passed over
\* without being looked at.
NoneDroppedSilently ==
  \A e \in Events : Passed(e) => Quarantined(e) \/ row[e[1]] >= e[2]

\* created_at comes from the "created" row alone, and "the existing stored value"
\* is left "untouched on every later batch" without that row.
CreatedAtStable ==
  [][\A o \in Orders : createdAt[o] # 0 => createdAt'[o] = createdAt[o]]_vars
===============================================================================
