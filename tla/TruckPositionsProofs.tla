-------------------------- MODULE TruckPositionsProofs --------------------------
(***************************************************************************)
(* Theorems about TruckPositions, for every fleet, every number of tasks   *)
(* and every value of the bounds.                                          *)
(***************************************************************************)
EXTENDS TruckPositions, SetLemmas

-------------------------------------------------------------------------------
(* Lemmas about transactions.                                              *)

\* Every truck that a transaction has to write has a latest ping in it.
LEMMA LatestPing ==
  ASSUME NEW x, rows[x] \subseteq Pings, NEW t \in Needs(x)
  PROVE  /\ Latest(x, t) \in 1..MaxPerTruck
         /\ \A e \in rows[x] : e[1] = t => e[2] <= Latest(x, t)
<1> DEFINE S == {e[2] : e \in {e \in rows[x] : e[1] = t}}
<1>1. S \subseteq 1..MaxPerTruck /\ S # {}
  BY DEF Pings, Needs, TrucksOf
<1>2. S \in SUBSET (0..MaxPerTruck) /\ MaxPerTruck \in Nat
  BY <1>1, BoundsAssumption
<1>3. Max(S) \in S /\ \A k \in S : k <= Max(S)
  <2> HIDE DEF S
  <2> QED
    BY <1>1, <1>2, ExtremaUpTo
<1> QED
  BY <1>1, <1>3 DEF Latest

\* An upsert never takes the map back, and takes it to all that was written.
LEMMA UpsertAdvances ==
  ASSUME TypeOK, NEW x \in Transactions, UpsertPositions(x)
  PROVE  /\ position' \in [Trucks -> 0..MaxPerTruck]
         /\ \A t \in Trucks : position[t] <= position'[t]
         /\ \A e \in rows[x] : e[2] <= position'[e[1]]
<1>1. rows[x] \subseteq Pings /\ position \in [Trucks -> 0..MaxPerTruck]
  BY DEF TypeOK
<1>2. \A t \in Needs(x) : /\ Latest(x, t) \in 1..MaxPerTruck
                          /\ \A e \in rows[x] : e[1] = t => e[2] <= Latest(x, t)
  BY <1>1, LatestPing
<1>3. \A t \in Trucks :
        position'[t] = IF t \in Needs(x) /\ Latest(x, t) > position[t]
                         THEN Latest(x, t) ELSE position[t]
  BY DEF UpsertPositions, Newer
<1>4. ASSUME NEW e \in rows[x] PROVE e[2] <= position'[e[1]]
  <2>1. e[1] \in Needs(x) /\ e[1] \in Trucks /\ e[2] \in Nat
    BY <1>1 DEF Needs, TrucksOf, Pings
  <2>2. e[2] <= Latest(x, e[1]) /\ Latest(x, e[1]) \in Nat
    BY <1>2, <2>1
  <2> QED
    BY <1>1, <1>3, <2>1, <2>2, BoundsAssumption
<1>5. position' \in [Trucks -> 0..MaxPerTruck]
  BY <1>1, <1>2, BoundsAssumption DEF UpsertPositions
<1>6. \A t \in Trucks : position[t] <= position'[t]
  BY <1>1, <1>2, <1>3, BoundsAssumption
<1> QED
  BY <1>4, <1>5, <1>6

-------------------------------------------------------------------------------
(* The inductive invariant.                                                *)

\* It holds initially.
LEMMA PositionsInit == Init => PositionsInv
<1> SUFFICES ASSUME Init PROVE PositionsInv
  OBVIOUS
<1>1. TypeOK
  <2>1. /\ \A x \in Transactions : rows[x] = {} /\ held[x] = {} /\ wants[x] = NoTruck
        /\ \A w \in Tasks : rows[w] = {}
        /\ rows[Pass] = {}
    BY DEF Init, Transactions
  <2>2. {pings, expired, start, planned, done, position} \subseteq [Trucks -> 0..MaxPerTruck]
    BY BoundsAssumption DEF Init
  <2>3. failures \in 0..MaxFailures
    BY BoundsAssumption DEF Init
  <2>4. \A t \in Trucks : /\ expired[t] \in 0..pings[t] /\ planned[t] \in 0..pings[t]
                          /\ done[t] \in 0..planned[t] /\ start[t] \in 0..done[t]
    BY DEF Init
  <2>5. /\ rows \in [Transactions -> SUBSET Pings]
        /\ held \in [Transactions -> SUBSET Trucks]
        /\ wants \in [Transactions -> Trucks \cup {NoTruck}]
    BY DEF Init
  <2> QED
    BY <2>1, <2>2, <2>3, <2>4, <2>5 DEF Init, TypeOK, Needs, TrucksOf
<1>2. TrucksOf(bronze) \subseteq fleet /\ PositionNeverLags /\ PassFindsNoOrphan
  BY DEF Init, TrucksOf, PositionNeverLags, PassFindsNoOrphan
<1>3. MicroBatchCovered
  BY DEF Init, MicroBatchCovered
<1>4. OnlyExpiredAreLost
  BY DEF Init, OnlyExpiredAreLost, Pings
<1> QED
  BY <1>1, <1>2, <1>3, <1>4 DEF PositionsInv

\* What a step that leaves the locks alone has to show about its types.
LocksOK ==
  /\ rows \in [Transactions -> SUBSET Pings]
  /\ held \in [Transactions -> SUBSET Trucks]
  /\ wants \in [Transactions -> Trucks \cup {NoTruck}]
  /\ \A x \in Transactions :
       /\ held[x] \subseteq Needs(x)
       /\ wants[x] \in {NoTruck} \cup (Needs(x) \ held[x])
       /\ \A y \in Transactions \ {x} : held[x] \cap held[y] = {}

\* Locks are given and given back as their owners need them.
LEMMA LocksStep ==
  ASSUME LocksOK
  PROVE  /\ \A x \in Transactions, t \in Trucks : Lock(x, t) => LocksOK'
         /\ \A x \in Transactions : Granted(x) => LocksOK'
         /\ \A S : Ended(S) => LocksOK'
         /\ \A w \in Tasks : TaskRetries(w) => LocksOK'
<1> USE DEF LocksOK, Needs
<1>1. ASSUME NEW x \in Transactions, NEW t \in Trucks, Lock(x, t) PROVE LocksOK'
  <2>1. UNCHANGED rows /\ t \in Needs(x) \ held[x]
    BY <1>1 DEF Lock
  <2>2. CASE wants' = [wants EXCEPT ![x] = t] /\ UNCHANGED held
    BY <2>1, <2>2
  <2>3. CASE ~Held(t) /\ held' = [held EXCEPT ![x] = @ \cup {t}] /\ UNCHANGED wants
    BY <1>1, <2>1, <2>3 DEF Held, Lock
  <2> QED
    BY <1>1, <2>2, <2>3 DEF Lock
<1>2. ASSUME NEW x \in Transactions, Granted(x) PROVE LocksOK'
  BY <1>2 DEF Granted, Held
<1>3. ASSUME NEW S, Ended(S) PROVE LocksOK'
  BY <1>3 DEF Ended, TrucksOf
<1>4. ASSUME NEW w \in Tasks, TaskRetries(w) PROVE LocksOK'
  BY <1>4 DEF TaskRetries, Transactions
<1> QED
  BY <1>1, <1>2, <1>3, <1>4

\* Every step keeps the types.
LEMMA PositionsTypeStep == TypeOK /\ [Next]_vars => TypeOK'
<1> SUFFICES ASSUME TypeOK, [Next]_vars PROVE TypeOK'
  OBVIOUS
<1> USE DEF worldVars, streamVars, lockVars, tableVars
<1>a. LocksOK
  BY DEF TypeOK, LocksOK
<1>b. UNCHANGED lockVars => LocksOK'
  BY <1>a DEF LocksOK, Needs, TrucksOf
<1>1. ASSUME NEW t \in Trucks, Ping(t) \/ Expire(t) \/ FleetArrives(t) PROVE TypeOK'
  <2>1. LocksOK'
    BY <1>1, <1>b DEF Ping, Expire, FleetArrives
  <2>2. CASE Ping(t)
    <3>1. pings[t] + 1 \in 0..MaxPerTruck
      BY <2>2, BoundsAssumption DEF Ping, TypeOK
    <3>2. \A u \in Trucks : pings'[u] \in 0..MaxPerTruck /\ pings[u] <= pings'[u]
      BY <2>2, <3>1, BoundsAssumption DEF Ping, TypeOK
    <3>3. pings' \in [Trucks -> 0..MaxPerTruck]
      BY <2>2, <3>1 DEF Ping, TypeOK
    <3>4. \A u \in Trucks :
            /\ expired[u] \in 0..pings'[u]
            /\ planned[u] \in 0..pings'[u]
      BY <3>2, BoundsAssumption DEF TypeOK
    <3> QED
      BY <2>1, <2>2, <3>3, <3>4 DEF Ping, TypeOK, LocksOK
  <2>3. CASE Expire(t)
    <3>1. \A u \in Trucks : expired'[u] \in 0..pings[u] /\ pings[u] \in 0..MaxPerTruck
      BY <2>3, BoundsAssumption DEF Expire, TypeOK
    <3>2. expired' \in [Trucks -> 0..MaxPerTruck]
      BY <2>3, <3>1, BoundsAssumption DEF Expire, TypeOK
    <3> QED
      BY <2>1, <2>3, <3>1, <3>2 DEF Expire, TypeOK, LocksOK
  <2>4. CASE FleetArrives(t)
    BY <2>1, <2>4 DEF FleetArrives, TypeOK, LocksOK
  <2> QED
    BY <1>1, <2>2, <2>3, <2>4
<1>2. CASE FirstStart \/ Plan \/ BatchDone
  <2>1. LocksOK'
    BY <1>2, <1>b DEF FirstStart, Plan, BatchDone
  <2> QED
    BY <1>2, <2>1, BoundsAssumption DEF FirstStart, Plan, BatchDone, TypeOK, LocksOK
<1>3. CASE Read
  <2>1. PICK split \in [Readable -> Tasks] :
          rows' = [x \in Transactions |->
                     IF x = Pass THEN rows[x] ELSE {e \in Readable : split[e] = x}]
    BY <1>3 DEF Read
  <2>2. rows' \in [Transactions -> SUBSET Pings] /\ rows'[Pass] = rows[Pass]
    BY <2>1 DEF Readable, TypeOK, Transactions
  <2>3. \A w \in Tasks : rows[w] = {} /\ held[w] = {} /\ wants[w] = NoTruck
    BY <1>3 DEF Read, TypeOK, Needs, TrucksOf, Transactions
  <2>4. LocksOK'
    <3>1. \A x \in Transactions : held[x] # {} \/ wants[x] # NoTruck => x = Pass
      BY <2>3 DEF Transactions
    <3>2. Needs(Pass)' = Needs(Pass)
      BY <2>2 DEF Needs
    <3> QED
      BY <1>3, <1>a, <2>2, <3>1, <3>2 DEF Read, LocksOK
  <2> QED
    BY <1>3, <2>2, <2>4 DEF Read, TypeOK, LocksOK
<1>4. ASSUME NEW w \in Tasks, TaskCommits(w) PROVE TypeOK'
  <2>1. w \in Transactions /\ rows[w] \subseteq Pings
    BY DEF Transactions, TypeOK
  <2>2. LocksOK'
    BY <1>4, <1>a, LocksStep DEF TaskCommits
  <2>3. position' \in [Trucks -> 0..MaxPerTruck]
    BY <1>4, <2>1, UpsertAdvances DEF TaskCommits
  <2>4. rows'[Pass] \subseteq rows[Pass] /\ \A v \in Tasks : rows'[v] \subseteq rows[v]
    BY <1>4 DEF TaskCommits, Ended, Transactions
  <2> QED
    BY <1>4, <2>1, <2>2, <2>3, <2>4 DEF TaskCommits, TypeOK, LocksOK
<1>5. CASE (\E w \in Tasks : UnknownTruck(w)) \/ StreamDies
  <2>1. Down /\ failures' \in 0..MaxFailures
    BY <1>5, BoundsAssumption DEF UnknownTruck, StreamDies, TypeOK
  <2>2. LocksOK'
    BY <2>1, <1>a, LocksStep DEF Down
  <2>3. rows'[Pass] = rows[Pass] /\ \A w \in Tasks : rows'[w] = {}
    BY <2>1, TasksAssumption DEF Down, Ended, Transactions
  <2> QED
    BY <2>1, <2>2, <2>3 DEF Down, Replay, TypeOK, LocksOK
<1>6. CASE \/ \E w \in Tasks : TaskRetries(w)
           \/ \E x \in Transactions : Locking(x)
  <2>1. LocksOK'
    BY <1>6, <1>a, LocksStep DEF Locking
  <2>2. UNCHANGED <<worldVars, streamVars, rows, tableVars, failures>>
    BY <1>6 DEF TaskRetries, Locking, Granted, Lock
  <2> QED
    BY <2>1, <2>2 DEF TypeOK, LocksOK
<1>7. CASE PassFetches
  <2>1. rows[Pass] = {} /\ held[Pass] = {} /\ wants[Pass] = NoTruck
    BY <1>7 DEF PassFetches, TypeOK, Needs, TrucksOf, Transactions
  <2>2. /\ rows' \in [Transactions -> SUBSET Pings]
        /\ \A w \in Tasks : rows'[w] = rows[w]
        /\ \A x \in Transactions \ {Pass} : rows'[x] = rows[x]
        /\ rows'[Pass] \subseteq batch'
    BY <1>7, TasksAssumption DEF PassFetches, TypeOK, Transactions
  <2>3. LocksOK'
    BY <1>7, <1>a, <2>1, <2>2 DEF PassFetches, LocksOK, Needs
  <2> QED
    BY <1>7, <2>2, <2>3 DEF PassFetches, TypeOK, LocksOK
<1>8. CASE PassCommits
  <2>1. Pass \in Transactions
    BY DEF Transactions
  <2>2. LocksOK' /\ position' \in [Trucks -> 0..MaxPerTruck]
    BY <1>8, <1>a, <2>1, LocksStep, UpsertAdvances DEF PassCommits
  <2>3. rows'[Pass] = {} /\ \A w \in Tasks : rows'[w] = rows[w]
    BY <1>8, TasksAssumption DEF PassCommits, Ended, Transactions
  <2> QED
    BY <1>8, <2>2, <2>3 DEF PassCommits, TypeOK, LocksOK
<1>9. CASE PassWatermark
  BY <1>9, <1>b DEF PassWatermark, TypeOK, LocksOK
<1>10. CASE PassDeadlocked \/ PassFails
  <2>1. PassAbandoned /\ failures' \in 0..MaxFailures
    BY <1>10, BoundsAssumption DEF PassDeadlocked, PassFails, TypeOK
  <2>2. LocksOK'
    BY <2>1, <1>a, LocksStep DEF PassAbandoned
  <2>3. rows'[Pass] = {} /\ \A w \in Tasks : rows'[w] = rows[w]
    BY <2>1, TasksAssumption DEF PassAbandoned, Ended, Transactions
  <2> QED
    BY <2>1, <2>2, <2>3 DEF PassAbandoned, TypeOK, LocksOK
<1>11. CASE UNCHANGED vars
  BY <1>11, <1>b DEF vars, TypeOK, LocksOK
<1> QED
  BY <1>1, <1>2, <1>3, <1>4, <1>5, <1>6, <1>7, <1>8, <1>9, <1>10, <1>11
     DEF Next, World, Stream, BatchPass, DeadlockEnds

\* Every step keeps the rest of the inductive invariant.
LEMMA PositionsStep == PositionsInv /\ [Next]_vars => PositionsInv'
<1> SUFFICES ASSUME PositionsInv, [Next]_vars PROVE PositionsInv'
  OBVIOUS
<1> USE DEF worldVars, streamVars, lockVars, tableVars
<1>t. TypeOK /\ TypeOK'
  BY PositionsTypeStep DEF PositionsInv
<1>n. \A e \in Pings :
        /\ e[1] \in Trucks /\ e[2] \in Nat
        /\ pings[e[1]] \in Nat /\ expired[e[1]] \in Nat /\ position[e[1]] \in Nat
        /\ start[e[1]] \in Nat /\ planned[e[1]] \in Nat /\ done[e[1]] \in Nat
  BY <1>t, BoundsAssumption DEF TypeOK, Pings
<1>1. TrucksOf(bronze') \subseteq fleet' /\ PassFindsNoOrphan'
  <2>1. ASSUME NEW w \in Tasks, TaskCommits(w)
        PROVE  TrucksOf(bronze') \subseteq fleet' /\ PassFindsNoOrphan'
    BY <2>1 DEF TaskCommits, Known, Needs, TrucksOf, PositionsInv, PassFindsNoOrphan
  <2>2. CASE PassFetches
    BY <2>2 DEF PassFetches, TrucksOf, PositionsInv, PassFindsNoOrphan
  <2>3. CASE UNCHANGED <<bronze, orphans>> /\ fleet \subseteq fleet'
    BY <2>3 DEF TrucksOf, PositionsInv, PassFindsNoOrphan
  <2>4. \/ \E w \in Tasks : TaskCommits(w)
        \/ PassFetches
        \/ UNCHANGED <<bronze, orphans>> /\ fleet \subseteq fleet'
    BY DEF Next, World, Stream, BatchPass, DeadlockEnds, Locking, vars, Ping, Expire,
           FleetArrives, FirstStart, Plan, Read, BatchDone, UnknownTruck, StreamDies,
           Down, TaskRetries, PassCommits, PassWatermark, PassDeadlocked, PassFails,
           PassAbandoned, Lock, Granted
  <2> QED
    BY <2>1, <2>2, <2>3, <2>4
<1>2. PositionNeverLags'
  <2>1. ASSUME NEW w \in Tasks, TaskCommits(w) PROVE PositionNeverLags'
    <3>1. /\ \A t \in Trucks : position[t] <= position'[t]
          /\ \A e \in rows[w] : e[2] <= position'[e[1]]
      BY <2>1, <1>t, UpsertAdvances DEF TaskCommits, Transactions
    <3>2. \A e \in bronze : e \in Pings /\ position[e[1]] >= e[2]
      BY <1>t DEF TypeOK, PositionsInv, PositionNeverLags
    <3>3. \A e \in rows[w] : e \in Pings
      BY DEF Transactions, TypeOK, PositionsInv
    <3>4. \A e \in Pings : position'[e[1]] \in Nat
      BY <1>t, BoundsAssumption DEF TypeOK, Pings
    <3>5. bronze' = bronze \cup rows[w]
      BY <2>1 DEF TaskCommits
    <3> QED
      BY <1>n, <3>1, <3>2, <3>3, <3>4, <3>5 DEF PositionNeverLags
  <2>2. CASE PassCommits
    <3>1. \A t \in Trucks : position[t] <= position'[t]
      BY <2>2, <1>t, UpsertAdvances DEF PassCommits, Transactions
    <3>2. \A e \in bronze : e \in Pings /\ position[e[1]] >= e[2]
      BY <1>t DEF TypeOK, PositionsInv, PositionNeverLags
    <3>3. \A e \in Pings : position'[e[1]] \in Nat
      BY <1>t, BoundsAssumption DEF TypeOK, Pings
    <3> QED
      BY <2>2, <1>n, <3>1, <3>2, <3>3 DEF PassCommits, PositionNeverLags
  <2>3. CASE UNCHANGED <<bronze, position>>
    BY <2>3 DEF PositionsInv, PositionNeverLags
  <2>4. \/ \E w \in Tasks : TaskCommits(w)
        \/ PassCommits
        \/ UNCHANGED <<bronze, position>>
    BY DEF Next, World, Stream, BatchPass, DeadlockEnds, Locking, vars, Ping, Expire,
           FleetArrives, FirstStart, Plan, Read, BatchDone, UnknownTruck, StreamDies,
           Down, TaskRetries, PassFetches, PassWatermark, PassDeadlocked, PassFails,
           PassAbandoned, Lock, Granted
  <2> QED
    BY <2>1, <2>2, <2>3, <2>4
<1> DEFINE Rest == MicroBatchCovered /\ OnlyExpiredAreLost
           TaskRows == UNION {rows[w] : w \in Tasks}
<1>3. Rest'
  <2>1. CASE World
    <3>1. UNCHANGED <<stream, start, planned, done, rows, bronze>>
      BY <2>1 DEF World, Ping, Expire, FleetArrives
    <3>2. \A u \in Trucks : expired[u] <= expired'[u]
      BY <2>1, <1>t, BoundsAssumption DEF World, Ping, Expire, FleetArrives, TypeOK
    <3>3. Gone \subseteq Gone'
      BY <3>2, <1>n, <1>t, BoundsAssumption DEF Gone, TypeOK, Pings
    <3> QED
      BY <3>1, <3>3 DEF PositionsInv, MicroBatchCovered, OnlyExpiredAreLost
  <2>2. CASE FirstStart
    BY <2>2, <1>n DEF FirstStart, MicroBatchCovered, OnlyExpiredAreLost
  <2>3. CASE Plan
    BY <2>3, <1>n DEF Plan, MicroBatchCovered, OnlyExpiredAreLost, PositionsInv, Gone
  <2>4. CASE Read
    <3>1. PICK split \in [Readable -> Tasks] :
            rows' = [x \in Transactions |->
                       IF x = Pass THEN rows[x] ELSE {e \in Readable : split[e] = x}]
      BY <2>4 DEF Read
    <3>2. ASSUME NEW e \in Readable PROVE e \in TaskRows'
      <4>1. split[e] \in Tasks /\ split[e] \in Transactions /\ split[e] # Pass
        BY <3>1, TasksAssumption DEF Transactions
      <4>2. e \in rows'[split[e]]
        BY <3>1, <4>1
      <4> QED
        BY <4>1, <4>2
    <3>3. ASSUME NEW e \in Pings, e[2] > done[e[1]], e[2] <= planned[e[1]]
          PROVE  e \in Readable \cup Gone
      <4>1. {done[e[1]], expired[e[1]]} \in SUBSET (0..MaxPerTruck) /\ MaxPerTruck \in Nat
        BY <1>n, <1>t, BoundsAssumption DEF TypeOK
      <4>2. Max({done[e[1]], expired[e[1]]}) \in {done[e[1]], expired[e[1]]}
        BY <4>1, ExtremaUpTo
      <4> QED
        BY <1>n, <3>3, <4>2 DEF Readable, Gone
    <3> QED
      BY <2>4, <3>2, <3>3
         DEF Read, PositionsInv, MicroBatchCovered, OnlyExpiredAreLost, Gone
  <2>5. ASSUME NEW w \in Tasks, TaskCommits(w) PROVE Rest'
    <3>1. \A v \in Tasks : rows'[v] = IF v = w THEN {} ELSE rows[v]
      BY <2>5 DEF TaskCommits, Ended, Transactions
    <3>2. TaskRows \subseteq TaskRows' \cup rows[w]
      BY <3>1
    <3> QED
      BY <2>5, <3>2
         DEF TaskCommits, PositionsInv, MicroBatchCovered, OnlyExpiredAreLost, Gone
  <2>6. CASE (\E w \in Tasks : UnknownTruck(w)) \/ StreamDies
    <3>1. Down
      BY <2>6 DEF UnknownTruck, StreamDies
    <3> QED
      BY <3>1
         DEF Down, Replay, PositionsInv, MicroBatchCovered, OnlyExpiredAreLost, Gone
  <2>7. CASE BatchDone
    <3>1. TaskRows = {}
      BY <2>7 DEF BatchDone
    <3> QED
      BY <2>7, <3>1, <1>n
         DEF BatchDone, PositionsInv, MicroBatchCovered, OnlyExpiredAreLost, Gone
  <2>8. CASE /\ UNCHANGED <<pings, expired, streamVars, bronze>>
             /\ \A w \in Tasks : rows'[w] = rows[w]
    BY <2>8 DEF PositionsInv, MicroBatchCovered, OnlyExpiredAreLost, Gone
  <2>9. BatchPass \/ PassFails \/ DeadlockEnds \/ (\E x \in Transactions : Locking(x))
          \/ UNCHANGED vars
        => /\ UNCHANGED <<pings, expired, streamVars, bronze>>
           /\ \A w \in Tasks : rows'[w] = rows[w]
    BY <1>t, TasksAssumption
       DEF BatchPass, DeadlockEnds, Locking, vars, TaskRetries, PassFetches, PassCommits,
           PassWatermark, PassDeadlocked, PassFails, PassAbandoned, Lock, Granted, Ended,
           Transactions, TypeOK
  <2> QED
    BY <2>1, <2>2, <2>3, <2>4, <2>5, <2>6, <2>7, <2>8, <2>9 DEF Next, Stream
<1> QED
  BY <1>t, <1>1, <1>2, <1>3 DEF PositionsInv

-------------------------------------------------------------------------------
\* The inductive invariant holds in every reachable state.
THEOREM PositionsInvariance == Spec => []PositionsInv
<1> QED
  BY PositionsInit, PositionsStep, PTL DEF Spec

\* Type correctness, and with it the locks: a row is locked by one transaction.
THEOREM PositionsTypes == Spec => []TypeOK
<1>1. PositionsInv => TypeOK
  BY DEF PositionsInv
<1> QED
  BY <1>1, PositionsInvariance, PTL

\* No ping of bronze is later than the one its truck is shown at on the map.
THEOREM MapNeverLags == Spec => []PositionNeverLags
<1>1. PositionsInv => PositionNeverLags
  BY DEF PositionsInv
<1> QED
  BY <1>1, PositionsInvariance, PTL

\* The referential check of the batch pass never finds anything.
THEOREM NoOrphanPings == Spec => []PassFindsNoOrphan
<1>1. PositionsInv => PassFindsNoOrphan
  BY DEF PositionsInv
<1> QED
  BY <1>1, PositionsInvariance, PTL

\* The checkpoint passes no ping that is neither in bronze nor deleted by Kafka.
THEOREM OnlyExpiredLost == Spec => []OnlyExpiredAreLost
<1>1. PositionsInv => OnlyExpiredAreLost
  BY DEF PositionsInv
<1> QED
  BY <1>1, PositionsInvariance, PTL
===============================================================================
