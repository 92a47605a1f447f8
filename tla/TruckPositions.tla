---------------------------- MODULE TruckPositions -----------------------------
(***************************************************************************)
(* Two writers of silver.truck_current_position: the streaming job          *)
(* (ingest_truck_positions.py, shared_streaming_utils.py), whose tasks put *)
(* pings into bronze and silver in one transaction each, and the batch pass *)
(* (truck_positions_to_silver.py) over the rows that bronze then has.      *)
(*                                                                         *)
(* A ping is <<truck, k>>, the k-th of its truck by event_at.  Rows of     *)
(* trucks are locked one by one as a statement reaches them, in whatever   *)
(* order a partition or a query returns them, and until the end of the     *)
(* transaction; a transaction that waits in a circle is ended by Postgres. *)
(***************************************************************************)
EXTENDS Naturals, FiniteSets, FiniteSetsExt

CONSTANTS
  Trucks,
  Tasks,         \* partitions_per_topic: tasks of a micro-batch
  Pass,          \* the transaction of the batch pass
  NoTruck,
  MaxPings, MaxPerTruck, MaxExpired, MaxFailures   \* bounds

ASSUME TrucksAssumption == IsFiniteSet(Trucks) /\ NoTruck \notin Trucks
ASSUME TasksAssumption == IsFiniteSet(Tasks) /\ Pass \notin Tasks
ASSUME BoundsAssumption == {MaxPings, MaxPerTruck, MaxExpired, MaxFailures} \subseteq Nat

VARIABLES
  pings,         \* pings sent, per truck
  expired,       \* pings that Kafka no longer has
  fleet          \* silver.truck_fleet_current
worldVars == <<pings, expired, fleet>>

VARIABLES
  stream,        \* "new", "idle" or "running" (a micro-batch)
  start,         \* pings from before the first start, per truck
  planned,       \* the checkpoint's offset log, per truck
  done           \* the checkpoint's commit log, per truck
streamVars == <<stream, start, planned, done>>

VARIABLES
  rows,          \* pings that each transaction has still to write
  held,          \* trucks whose row it has locked
  wants          \* the truck whose row it waits for
lockVars == <<rows, held, wants>>

VARIABLES
  bronze,        \* iot.truck_position_events
  position,      \* silver.truck_current_position: the ping it shows, 0 for no row
  batch,         \* rows that the pass fetched and has not passed yet
  passed,        \* rows that its watermark has passed
  orphans        \* silver.error_truck_positions
tableVars == <<bronze, position, batch, passed, orphans>>

VARIABLE failures

vars == <<worldVars, streamVars, lockVars, tableVars, failures>>

Pings == Trucks \X (1..MaxPerTruck)
Sent == {e \in Pings : e[2] <= pings[e[1]]}
Gone == {e \in Pings : e[2] <= expired[e[1]]}
Transactions == Tasks \cup {Pass}
TrucksOf(S) == {e[1] : e \in S}

Init ==
  /\ pings = [t \in Trucks |-> 0] /\ expired = [t \in Trucks |-> 0]
  /\ fleet = {}
  /\ stream = "new"
  /\ start = [t \in Trucks |-> 0]
  /\ planned = [t \in Trucks |-> 0] /\ done = [t \in Trucks |-> 0]
  /\ rows = [x \in Transactions |-> {}]
  /\ held = [x \in Transactions |-> {}]
  /\ wants = [x \in Transactions |-> NoTruck]
  /\ bronze = {} /\ position = [t \in Trucks |-> 0]
  /\ batch = {} /\ passed = {} /\ orphans = {}
  /\ failures = 0

-------------------------------------------------------------------------------
(* The world around the two jobs.                                          *)

\* Truck._ping()
Ping(t) ==
  /\ pings[t] < MaxPerTruck /\ Cardinality(Sent) < MaxPings
  /\ pings' = [pings EXCEPT ![t] = @ + 1]
  /\ UNCHANGED <<expired, fleet, streamVars, lockVars, tableVars, failures>>

\* KAFKA_LOG_RETENTION_HOURS have gone by.
Expire(t) ==
  /\ expired[t] < pings[t]
  /\ Cardinality(Gone) < MaxExpired
  /\ expired' = [expired EXCEPT ![t] = @ + 1]
  /\ UNCHANGED <<pings, fleet, streamVars, lockVars, tableVars, failures>>

\* The truck-fleet jobs bring the truck to silver.
FleetArrives(t) ==
  /\ t \notin fleet
  /\ fleet' = fleet \cup {t}
  /\ UNCHANGED <<pings, expired, streamVars, lockVars, tableVars, failures>>

-------------------------------------------------------------------------------
(* Transactions, of tasks and of the pass alike.                           *)

Needs(x) == TrucksOf(rows[x])

Held(t) == \E y \in Transactions : t \in held[y]
Awaited(t) == \E y \in Transactions : wants[y] = t

\* The statement reaches the row of another truck, and gets it or joins the queue;
\* one that is free belongs to the first of the queue.
Lock(x, t) ==
  /\ wants[x] = NoTruck
  /\ t \in Needs(x) \ held[x]
  /\ \/ /\ Held(t)
        /\ wants' = [wants EXCEPT ![x] = t]
        /\ UNCHANGED held
     \/ /\ ~Held(t) /\ ~Awaited(t)
        /\ held' = [held EXCEPT ![x] = @ \cup {t}]
        /\ UNCHANGED wants
  /\ UNCHANGED <<worldVars, streamVars, rows, tableVars, failures>>

\* The row is given to one that waits for it.
Granted(x) ==
  /\ wants[x] # NoTruck
  /\ ~Held(wants[x])
  /\ held' = [held EXCEPT ![x] = @ \cup {wants[x]}]
  /\ wants' = [wants EXCEPT ![x] = NoTruck]
  /\ UNCHANGED <<worldVars, streamVars, rows, tableVars, failures>>

Locked(x) == rows[x] # {} /\ held[x] = Needs(x)

\* The locks of S are given back; they have nothing more to write.
Ended(S) ==
  /\ rows' = [x \in Transactions |-> IF x \in S THEN {} ELSE rows[x]]
  /\ held' = [x \in Transactions |-> IF x \in S THEN {} ELSE held[x]]
  /\ wants' = [x \in Transactions |-> IF x \in S THEN NoTruck ELSE wants[x]]

Latest(x, t) == Max({e[2] : e \in {e \in rows[x] : e[1] = t}})

\* Mutant of Newer: the upsert does not look at updated_at.
NewerMutant(x, t) == TRUE

\* WHERE EXCLUDED.updated_at > silver.truck_current_position.updated_at
Newer(x, t) == Latest(x, t) > position[t]

\* The upsert of the latest ping per truck, by either writer.
UpsertPositions(x) ==
  position' = [t \in Trucks |-> IF t \in Needs(x) /\ Newer(x, t)
                                  THEN Latest(x, t) ELSE position[t]]

Waits(x, y) == wants[x] \in held[y]

\* In a circle, each waits for one and is waited for.
Deadlocked(x) ==
  \E S \in SUBSET Transactions :
    /\ x \in S
    /\ \A y \in S : (\E z \in S : Waits(y, z)) /\ (\E z \in S : Waits(z, y))

-------------------------------------------------------------------------------
(* The streaming job.                                                      *)

\* startingOffsets = "latest", as there is no checkpoint yet.
FirstStart ==
  /\ stream = "new"
  /\ stream' = "idle"
  /\ start' = pings /\ planned' = pings /\ done' = pings
  /\ UNCHANGED <<worldVars, lockVars, tableVars, failures>>

\* The trigger fires: the end of the micro-batch is written to the offset log.
Plan ==
  /\ stream = "idle"
  /\ planned = done
  /\ pings # done
  /\ planned' = pings
  /\ UNCHANGED <<worldVars, stream, start, done, lockVars, tableVars, failures>>

\* What Kafka still has of the micro-batch (failOnDataLoss = false).
Readable == {e \in Pings : e[2] > Max({done[e[1]], expired[e[1]]}) /\ e[2] <= planned[e[1]]}

\* It is read and repartitioned.
Read ==
  /\ stream = "idle"
  /\ planned # done
  /\ stream' = "running"
  /\ \E split \in [Readable -> Tasks] :
       rows' = [x \in Transactions |->
                  IF x = Pass THEN rows[x] ELSE {e \in Readable : split[e] = x}]
  /\ UNCHANGED <<worldVars, start, planned, done, held, wants, tableVars, failures>>

\* Mutant of Known: silver has no foreign key to the fleet.
KnownMutant(x) == TRUE

\* The foreign key of silver.truck_current_position.
Known(x) == Needs(x) \subseteq fleet

\* write_truck_positions_batch(): bronze and silver in one transaction.
TaskCommits(w) ==
  /\ Locked(w)
  /\ Known(w)
  /\ bronze' = bronze \cup rows[w]
  /\ UpsertPositions(w)
  /\ Ended({w})
  /\ UNCHANGED <<worldVars, streamVars, batch, passed, orphans, failures>>

\* Mutant of Replay: the next driver goes on behind the micro-batch that failed.
ReplayMutant == done' = planned

\* A micro-batch that was planned and not committed is run again ...
Replay == UNCHANGED done

\* Mutant of Down: the transactions of the tasks are not rolled back.
DownMutant ==
  /\ stream' = "idle"
  /\ Replay
  /\ UNCHANGED <<worldVars, start, planned, lockVars, tableVars>>

\* ... by the next driver (restart: unless-stopped).
Down ==
  /\ stream' = "idle"
  /\ Replay
  /\ Ended(Tasks)
  /\ UNCHANGED <<worldVars, start, planned, tableVars>>

\* A truck that is not in silver yet: the task fails, and with it the query.
UnknownTruck(w) ==
  /\ Locked(w)
  /\ ~Known(w)
  /\ Down
  /\ UNCHANGED failures

\* Spark tries the task again ...
TaskRetries(w) ==
  /\ Deadlocked(w)
  /\ held' = [held EXCEPT ![w] = {}]
  /\ wants' = [wants EXCEPT ![w] = NoTruck]
  /\ UNCHANGED <<worldVars, streamVars, rows, tableVars, failures>>

\* ... a few times; or the container stops for any other reason.
StreamDies ==
  /\ stream = "running"
  /\ failures < MaxFailures
  /\ failures' = failures + 1
  /\ Down

\* All tasks are through: the commit log.
BatchDone ==
  /\ stream = "running"
  /\ \A w \in Tasks : rows[w] = {}
  /\ stream' = "idle"
  /\ done' = planned
  /\ UNCHANGED <<worldVars, start, planned, lockVars, tableVars, failures>>

-------------------------------------------------------------------------------
(* The batch pass.                                                         *)

\* Fetches, and commits the rows of unknown trucks to the error table.
PassFetches ==
  /\ batch = {}
  /\ batch' = bronze \ passed
  /\ batch' # {}
  /\ orphans' = orphans \cup {e \in batch' : e[1] \notin fleet}
  /\ rows' = [rows EXCEPT ![Pass] = {e \in batch' : e[1] \in fleet}]
  /\ UNCHANGED <<worldVars, streamVars, held, wants, bronze, position, passed, failures>>

PassCommits ==
  /\ Locked(Pass)
  /\ UpsertPositions(Pass)
  /\ Ended({Pass})
  /\ UNCHANGED <<worldVars, streamVars, bronze, batch, passed, orphans, failures>>

PassWatermark ==
  /\ batch # {}
  /\ rows[Pass] = {}
  /\ passed' = passed \cup batch
  /\ batch' = {}
  /\ UNCHANGED <<worldVars, streamVars, lockVars, bronze, position, orphans, failures>>

PassAbandoned ==
  /\ batch' = {}
  /\ Ended({Pass})
  /\ UNCHANGED <<worldVars, streamVars, bronze, position, passed, orphans>>

PassDeadlocked ==
  /\ Deadlocked(Pass)
  /\ PassAbandoned
  /\ UNCHANGED failures

PassFails ==
  /\ batch # {}
  /\ failures < MaxFailures
  /\ failures' = failures + 1
  /\ PassAbandoned

-------------------------------------------------------------------------------
Locking(x) == Granted(x) \/ \E t \in Trucks : Lock(x, t)

Stream ==
  \/ Plan \/ Read \/ BatchDone
  \/ \E w \in Tasks : TaskCommits(w) \/ UnknownTruck(w)

BatchPass == PassFetches \/ PassCommits \/ PassWatermark

DeadlockEnds == PassDeadlocked \/ \E w \in Tasks : TaskRetries(w)

World == \E t \in Trucks : Ping(t) \/ Expire(t) \/ FleetArrives(t)

Next ==
  \/ World
  \/ FirstStart \/ Stream \/ StreamDies
  \/ BatchPass \/ PassFails
  \/ DeadlockEnds
  \/ \E x \in Transactions : Locking(x)

Spec == Init /\ [][Next]_vars

\* Docker restarts the stream and its trigger fires; Postgres serves its locks and
\* looks for circles; the pass is scheduled; the trucks' own events come through.
FairSpec ==
  /\ Spec
  /\ WF_vars(Stream)
  /\ WF_vars(BatchPass)
  /\ WF_vars(DeadlockEnds)
  /\ WF_vars(\E x \in Transactions : Locking(x))
  /\ WF_vars(\E t \in Trucks : FleetArrives(t))
-------------------------------------------------------------------------------
\* Besides the types: a row is locked by one transaction, which needs it.
TypeOK ==
  /\ {pings, expired, start, planned, done, position}
       \subseteq [Trucks -> 0..MaxPerTruck]
  /\ fleet \subseteq Trucks
  /\ stream \in {"new", "idle", "running"}
  /\ \A t \in Trucks :
       /\ expired[t] \in 0..pings[t]
       /\ planned[t] \in 0..pings[t]
       /\ done[t] \in 0..planned[t]
       /\ start[t] \in 0..done[t]
  /\ rows \in [Transactions -> SUBSET Pings]
  /\ held \in [Transactions -> SUBSET Trucks]
  /\ wants \in [Transactions -> Trucks \cup {NoTruck}]
  /\ \A x \in Transactions :
       /\ held[x] \subseteq Needs(x)
       /\ wants[x] \in {NoTruck} \cup (Needs(x) \ held[x])
       /\ \A y \in Transactions \ {x} : held[x] \cap held[y] = {}
  /\ stream # "running" => \A w \in Tasks : rows[w] = {}
  /\ bronze \subseteq Pings
  /\ batch \subseteq bronze /\ passed \subseteq bronze /\ rows[Pass] \subseteq batch
  /\ orphans \subseteq bronze
  /\ failures \in 0..MaxFailures

\* The map is never behind bronze, although the pings of a truck are spread over
\* concurrent tasks, tasks and micro-batches are repeated, and a pass writes old
\* rows: what the pass upserts is there already.
PositionNeverLags == \A e \in bronze : position[e[1]] >= e[2]

\* A row comes to bronze in the transaction that has satisfied silver's foreign
\* key, so the referential check of the pass, made for it, finds nothing.
PassFindsNoOrphan == orphans = {}

\* Once the job runs, a ping that its checkpoint has passed is in bronze, unless
\* Kafka has deleted it, whatever was repeated.
OnlyExpiredAreLost ==
  \A e \in Pings :
    e[2] > start[e[1]] /\ e[2] <= done[e[1]] => e \in bronze \cup Gone

(* The inductive invariant behind the three (TruckPositionsProofs): what a *)
(* running micro-batch has planned is written, gone, or still to be written *)
(* by one of its tasks, and bronze holds no truck that silver lacks.       *)

MicroBatchCovered ==
  stream = "running" =>
    \A e \in Pings :
      e[2] > done[e[1]] /\ e[2] <= planned[e[1]]
        => e \in bronze \cup Gone \cup UNION {rows[w] : w \in Tasks}

PositionsInv ==
  /\ TypeOK
  /\ TrucksOf(bronze) \subseteq fleet
  /\ MicroBatchCovered
  /\ PositionNeverLags
  /\ PassFindsNoOrphan
  /\ OnlyExpiredAreLost

\* Once the job runs, all pings get to bronze in the end, although it dies as often
\* as a truck is not in silver yet and transactions wait for one another in circles.
PingsArrive ==
  <>[](stream # "new" =>
         \A e \in Sent : e[2] > start[e[1]] => e \in bronze \cup Gone)
===============================================================================
