--------------------------- MODULE SilverOrdersProofs ---------------------------
(***************************************************************************)
(* Theorems about SilverOrders, for any orders, histories and numbers of   *)
(* concurrent transactions and failures.                                   *)
(***************************************************************************)
EXTENDS SilverOrders, SetLemmas

-------------------------------------------------------------------------------
(* Lemmas about the operators of the job.                                  *)

\* An event is a place in the history of its order.
LEMMA EventFacts ==
  ASSUME TypeOK
  PROVE  /\ \A o \in Orders : /\ history[o] \in Seq(OrderStatus)
                              /\ Len(history[o]) \in Nat
                              /\ DOMAIN history[o] = 1..Len(history[o])
         /\ \A e \in Events : /\ e = <<e[1], e[2]>> /\ e[1] \in Orders
                              /\ e[2] \in 1..Len(history[e[1]])
                              /\ e[2] \in Nat
                              /\ Status(e) \in OrderStatus
         /\ \A o \in Orders : \A k \in 1..Len(history[o]) : <<o, k>> \in Events
<1>1. \A o \in Orders : /\ history[o] \in Seq(OrderStatus)
                        /\ Len(history[o]) \in Nat
                        /\ DOMAIN history[o] = 1..Len(history[o])
  BY HistoriesAssumption DEF TypeOK
<1>2. \A e \in Events : /\ e = <<e[1], e[2]>> /\ e[1] \in Orders
                        /\ e[2] \in 1..Len(history[e[1]])
  BY DEF Events
<1>3. \A o \in Orders : \A k \in 1..Len(history[o]) : <<o, k>> \in Events
  BY DEF Events
<1>4. ASSUME NEW e \in Events PROVE Status(e) \in OrderStatus /\ e[2] \in Nat
  BY <1>1, <1>2 DEF Status
<1> QED
  BY <1>1, <1>2, <1>3, <1>4

\* The batch has a latest row, and the new watermark is its time.
LEMMA WatermarkIsLatest ==
  ASSUME TypeOK, batch # {}
  PROVE  /\ \E e \in batch : NextWatermark = ingestedAt[e]
         /\ \A e \in batch : ingestedAt[e] <= NextWatermark
<1> DEFINE S == {ingestedAt[e] : e \in batch}
<1>1. S \in SUBSET (0..now) /\ now \in Nat /\ S # {}
  BY DEF TypeOK
<1>2. Max(S) \in S /\ \A x \in S : x <= Max(S)
  <2> HIDE DEF S
  <2> QED
    BY <1>1, ExtremaUpTo
<1> QED
  BY <1>2 DEF NextWatermark

\* The same of what a transaction is compared with when it commits.
LEMMA HighWaterIsLatest ==
  ASSUME TypeOK
  PROVE  /\ HighWater \in {watermark} \cup {ingestedAt[e] : e \in batch}
         /\ HighWater \in 0..now
         /\ watermark <= HighWater
         /\ \A e \in batch : ingestedAt[e] <= HighWater
<1> DEFINE S == {watermark} \cup {ingestedAt[e] : e \in batch}
<1>1. S \in SUBSET (0..now) /\ now \in Nat /\ S # {} /\ watermark \in S
  BY DEF TypeOK
<1>2. Max(S) \in S /\ \A x \in S : x <= Max(S)
  <2> HIDE DEF S
  <2> QED
    BY <1>1, ExtremaUpTo
<1> QED
  BY <1>1, <1>2 DEF HighWater

\* The row that is written for an order with valid rows is the latest of them.
LEMMA LatestOfOrder ==
  ASSUME TypeOK, NEW o \in Orders, \E e \in valid : e[1] = o
  PROVE  /\ Latest(o) \in 1..Len(history[o])
         /\ CreatedAt(o) \in 1..Latest(o)
         /\ \A e \in valid : e[1] = o => e[2] <= Latest(o)
<1> DEFINE created == {k \in ValidOf(o) : history[o][k] = "created"}
<1>1. \A e \in valid : e[1] = o => e[2] \in 1..Len(history[o]) /\ e[2] \in ValidOf(o)
  BY EventFacts DEF TypeOK, ValidOf
<1>2. ValidOf(o) # {} /\ ValidOf(o) \subseteq 1..Len(history[o])
  BY <1>1 DEF ValidOf
<1>3. Len(history[o]) \in Nat /\ ValidOf(o) \in SUBSET (0..Len(history[o]))
  BY <1>2, EventFacts
<1>4. /\ Latest(o) \in ValidOf(o) /\ \A k \in ValidOf(o) : k <= Latest(o)
      /\ Min(ValidOf(o)) \in ValidOf(o)
  BY <1>2, <1>3, ExtremaUpTo DEF Latest
<1>5. CreatedAt(o) \in ValidOf(o)
  <2>1. created \in SUBSET (0..Len(history[o])) /\ created \subseteq ValidOf(o)
    BY <1>3
  <2>2. created # {} => Max(created) \in created
    <3> HIDE DEF created
    <3> QED
      BY <1>3, <2>1, ExtremaUpTo
  <2> QED
    BY <1>4, <2>1, <2>2 DEF CreatedAt
<1> QED
  BY <1>1, <1>2, <1>3, <1>4, <1>5

\* What comes before a row in its batch is an earlier event of its order.
LEMMA PrevStatusEarlier ==
  ASSUME TypeOK, NEW e \in batch
  PROVE  \/ PrevStatus(e) = NoStatus
         \/ \E k \in 1..Len(history[e[1]]) :
              k < e[2] /\ PrevStatus(e) = history[e[1]][k]
<1> DEFINE earlier == {f \in batch : f[1] = e[1] /\ f[2] < e[2]}
           places == {f[2] : f \in earlier}
           IsLast(f) == \A g \in earlier : g[2] <= f[2]
<1>1. e \in Events /\ batch \subseteq Events
  BY DEF TypeOK
<1>2. places \in SUBSET (0..Len(history[e[1]])) /\ Len(history[e[1]]) \in Nat
  BY <1>1, EventFacts
<1>3. CASE earlier = {}
  BY <1>3 DEF PrevStatus
<1>4. CASE earlier # {}
  <2>1. places # {}
    BY <1>4
  <2>2. Max(places) \in places /\ \A k \in places : k <= Max(places)
    <3> HIDE DEF places
    <3> QED
      BY <1>2, <2>1, ExtremaUpTo
  <2>3. \E f \in earlier : IsLast(f)
    BY <2>2
  <2>4. (CHOOSE f \in earlier : IsLast(f)) \in earlier
    BY <2>3
  <2>5. PrevStatus(e) = Status(CHOOSE f \in earlier : IsLast(f))
    BY <1>4 DEF PrevStatus
  <2> QED
    BY <1>1, <2>4, <2>5, EventFacts DEF Status
<1> QED
  BY <1>3, <1>4

-------------------------------------------------------------------------------
(* Type correctness.                                                       *)

\* The types hold initially.
LEMMA SilverTypeInit == Init => TypeOK
<1> SUFFICES ASSUME Init PROVE TypeOK
  OBVIOUS
<1>1. Stored = {}
  BY DEF Init, Stored
<1>2. \A o \in Orders : Len(history[o]) \in Nat
  BY HistoriesAssumption DEF Init
<1>3. errors \in [Events \X Reasons -> Nat]
  BY DEF Init
<1> QED
  BY <1>1, <1>2, <1>3, FailuresAssumption DEF Init, TypeOK

\* An upsert writes a later event of the order's own, or leaves its row alone.
LEMMA UpsertAdvances ==
  ASSUME TypeOK, RunShape, NEW S, Upsert(S)
  PROVE  /\ row' \in [Orders -> Nat] /\ createdAt' \in [Orders -> Nat]
         /\ \A o \in Orders : /\ row[o] <= row'[o] /\ row'[o] \in 0..Len(history[o])
                              /\ createdAt'[o] \in 0..row'[o]
         /\ \A e \in valid : e[1] \in S => e[2] <= row'[e[1]]
<1>1. S \subseteq todo /\ todo \subseteq {e[1] : e \in valid} /\ S \subseteq Orders
  BY DEF Upsert, RunShape, TypeOK
<1>2. \A o \in S : /\ Latest(o) \in 1..Len(history[o])
                   /\ CreatedAt(o) \in 1..Latest(o)
                   /\ \A e \in valid : e[1] = o => e[2] <= Latest(o)
  BY <1>1, LatestOfOrder
<1>3. \A o \in Orders : /\ Len(history[o]) \in Nat /\ row[o] \in Nat
                        /\ row[o] \in 0..Len(history[o])
                        /\ createdAt[o] \in 0..row[o]
  BY EventFacts DEF TypeOK
<1>4. \A o \in Orders :
        /\ row'[o] = IF o \in S /\ Newer(o) THEN Latest(o) ELSE row[o]
        /\ createdAt'[o] = IF o \in S /\ Newer(o) THEN CreatedAt(o) ELSE createdAt[o]
  BY DEF Upsert
<1>5. \A o \in Orders : /\ row[o] <= row'[o] /\ row'[o] \in 0..Len(history[o])
                        /\ createdAt'[o] \in 0..row'[o]
  BY <1>2, <1>3, <1>4 DEF Newer
<1>6. row' \in [Orders -> Nat] /\ createdAt' \in [Orders -> Nat]
  BY <1>3, <1>5 DEF Upsert
<1>7. ASSUME NEW e \in valid, e[1] \in S PROVE e[2] <= row'[e[1]]
  <2>1. e[1] \in Orders /\ e[2] \in Nat /\ e[2] <= Latest(e[1])
    BY <1>1, <1>2, <1>7, EventFacts DEF TypeOK
  <2> QED
    BY <1>2, <1>3, <1>4, <1>7, <2>1 DEF Newer
<1> QED
  BY <1>5, <1>6, <1>7

\* Every step keeps the types.
LEMMA SilverTypeStep == TypeOK /\ RunShape /\ [Next]_vars => TypeOK'
<1> SUFFICES ASSUME TypeOK, RunShape, [Next]_vars PROVE TypeOK'
  OBVIOUS
<1> USE DEF worldVars, bronzeVars, jobVars, silverVars, historyVars
<1>e. UNCHANGED history => Events' = Events
  BY DEF Events
<1>s. UNCHANGED ingestedAt => Stored' = Stored
  BY DEF Stored
<1>1. ASSUME NEW upTo, BronzeReads(upTo) PROVE TypeOK'
  <2>1. slice' \in [Slices -> SUBSET Events]
    BY <1>1 DEF BronzeReads
  <2> QED
    BY <1>1, <1>e, <1>s, <2>1 DEF BronzeReads, TypeOK
<1>2. ASSUME NEW s \in Slices, BronzeBegins(s) PROVE TypeOK'
  <2>1. began' \in [Slices -> 0..now'] /\ now' \in Nat
    BY <1>2 DEF BronzeBegins, TypeOK
  <2>2. \A e \in Stored : ingestedAt[e] \in 1..now'
    BY <1>2 DEF BronzeBegins, TypeOK
  <2> QED
    BY <1>2, <1>e, <1>s, <2>1, <2>2 DEF BronzeBegins, TypeOK
<1>3. ASSUME NEW s \in Slices, BronzeCommits(s) PROVE TypeOK'
  <2>1. /\ Stored' = Stored \cup slice[s]
        /\ \A e \in Stored' :
             ingestedAt'[e] = IF e \in Stored THEN ingestedAt[e] ELSE began[s]
    BY <1>3 DEF BronzeCommits, Stored
  <2>2. began[s] \in 1..now
    BY <1>3 DEF BronzeCommits, TypeOK
  <2>3. \A e \in Stored : ingestedAt'[e] = ingestedAt[e]
    BY <2>1
  <2>4. watermark \in {0} \cup {ingestedAt'[e] : e \in Stored'}
    BY <2>1, <2>3 DEF TypeOK
  <2>5. Stored' \subseteq Events /\ \A e \in Stored' : ingestedAt'[e] \in 1..now
    BY <2>1, <2>2 DEF TypeOK
  <2>6. slice' \in [Slices -> SUBSET Events] /\ began' \in [Slices -> 0..now]
        /\ raced' \subseteq Events
    BY <1>3 DEF BronzeCommits, TypeOK
  <2> QED
    BY <1>3, <1>e, <2>1, <2>4, <2>5, <2>6 DEF BronzeCommits, TypeOK
<1>4. CASE BronzeFails
  BY <1>4, <1>e, <1>s, FailuresAssumption DEF BronzeFails, TypeOK
<1>5. ASSUME NEW p \in missing, ParentArrives(p) PROVE TypeOK'
  BY <1>5, <1>e, <1>s DEF ParentArrives, TypeOK
<1>6. CASE Fetch
  BY <1>6, <1>e, <1>s DEF Fetch, RunShape, TypeOK
<1>7. CASE Validate
  <2>1. valid' \subseteq batch /\ todo' \subseteq Orders
    BY <1>7, EventFacts DEF Validate, TypeOK
  <2>2. errors' \in [Events \X Reasons -> Nat]
    BY <1>7 DEF Validate, TypeOK
  <2> QED
    BY <1>7, <1>e, <1>s, <2>1, <2>2 DEF Validate, TypeOK
<1>8. ASSUME NEW S \in SUBSET todo, Upsert(S) PROVE TypeOK'
  <2>1. /\ row' \in [Orders -> Nat] /\ createdAt' \in [Orders -> Nat]
        /\ \A o \in Orders : row'[o] \in 0..Len(history[o]) /\ createdAt'[o] \in 0..row'[o]
    BY <1>8, UpsertAdvances
  <2> QED
    BY <1>8, <1>e, <1>s, <2>1 DEF Upsert, TypeOK
<1>9. CASE WriteWatermark
  <2>1. batch # {}
    BY <1>9 DEF WriteWatermark, RunShape
  <2>2. watermark' \in {ingestedAt[e] : e \in Stored}
    BY <1>9, <2>1, WatermarkIsLatest DEF WriteWatermark, TypeOK
  <2> QED
    BY <1>9, <1>e, <1>s, <2>2 DEF WriteWatermark, EndRun, TypeOK
<1>10. CASE SilverFails
  BY <1>10, <1>e, <1>s, FailuresAssumption DEF SilverFails, EndRun, TypeOK
<1>11. CASE UNCHANGED vars
  BY <1>11, <1>e, <1>s DEF vars, TypeOK
<1> QED
  BY <1>1, <1>2, <1>3, <1>4, <1>5, <1>6, <1>7, <1>8, <1>9, <1>10, <1>11
     DEF Next, Bronze, Silver

-------------------------------------------------------------------------------
(* The inductive invariant.                                                *)

\* It holds initially.
LEMMA SilverInit == Init => SilverInv
<1> SUFFICES ASSUME Init PROVE SilverInv
  OBVIOUS
<1>1. TypeOK
  BY SilverTypeInit
<1>2. Stored = {}
  BY DEF Init, Stored
<1>3. NowsDistinct /\ RunShape /\ FetchedAll
  BY <1>2 DEF Init, NowsDistinct, RunShape, FetchedAll
<1>4. ErrorsCounted
  BY <1>2 DEF Init, ErrorsCounted, Passed
<1>5. PassedAreReflected
  BY <1>2 DEF PassedAreReflected, Passed
<1> QED
  BY <1>1, <1>3, <1>4, <1>5 DEF SilverInv

\* A count of errors stays within its bound while more rows are passed or fetched
\* ones are judged, and when a run has failed since.
LEMMA CountKept ==
  ASSUME TypeOK, ErrorsCounted, UNCHANGED <<history, errors>>,
         failures' \in {failures, failures + 1},
         \A e \in Events :
           Passed(e) \/ (pc = "upsert" /\ e \in batch)
             => \/ Passed(e)' \/ (pc' = "upsert" /\ e \in batch')
                \/ failures' = failures + 1
  PROVE  ErrorsCounted'
<1>1. Events' = Events
  BY DEF Events
<1> DEFINE judged(e) == Passed(e) \/ (pc = "upsert" /\ e \in batch)
<1>2. ASSUME NEW e \in Events, NEW r \in Reasons
      PROVE  errors[<<e, r>>] <= failures' + (IF judged(e)' THEN 1 ELSE 0)
  <2>1. errors[<<e, r>>] \in Nat /\ failures \in Nat
    BY DEF TypeOK
  <2>2. errors[<<e, r>>] <= failures + (IF judged(e) THEN 1 ELSE 0)
    BY DEF ErrorsCounted
  <2>3. judged(e) => judged(e)' \/ failures' = failures + 1
    OBVIOUS
  <2> HIDE DEF judged
  <2> QED
    BY <2>1, <2>2, <2>3
<1> QED
  BY <1>1, <1>2 DEF ErrorsCounted

\* Steps of the bronze job.  A transaction that commits after a later one was
\* fetched has raced; any other is later than all that the job has seen.
LEMMA SilverInvBronze ==
  ASSUME SilverInv, TypeOK',
         \/ \E upTo : BronzeReads(upTo)
         \/ \E s \in Slices : BronzeBegins(s) \/ BronzeCommits(s)
         \/ BronzeFails
  PROVE  SilverInv'
<1> USE DEF SilverInv, worldVars, bronzeVars, jobVars, silverVars, historyVars
<1>1. UNCHANGED <<history, pc, batch, valid, todo, row, errors, watermark>>
  BY DEF BronzeReads, BronzeBegins, BronzeCommits, BronzeFails
<1>2. RunShape'
  BY <1>1 DEF RunShape, Quarantined
<1>3. Events' = Events
  BY <1>1 DEF Events
<1>4. CASE \/ \E upTo : BronzeReads(upTo)
           \/ \E s \in Slices : BronzeBegins(s)
           \/ BronzeFails
  <2>1. UNCHANGED <<ingestedAt, raced>> /\ failures' \in {failures, failures + 1}
    BY <1>4 DEF BronzeReads, BronzeBegins, BronzeFails
  <2>2. Stored' = Stored /\ \A e \in Stored : ingestedAt'[e] = ingestedAt[e]
    BY <2>1 DEF Stored
  <2>3. NowsDistinct'
    <3>1. CASE UNCHANGED began \/ began' = [s \in Slices |-> 0]
      <4>1. \A s \in Slices : began'[s] = began[s] \/ began'[s] = 0
        BY <3>1
      <4>2. \A e \in Stored : ingestedAt[e] # 0
        BY DEF TypeOK
      <4>3. began' = began \/ \A s \in Slices : began'[s] = 0
        BY <3>1
      <4> QED
        BY <2>2, <4>1, <4>2, <4>3 DEF NowsDistinct
    <3>2. ASSUME NEW s \in Slices, BronzeBegins(s) PROVE NowsDistinct'
      <4>1. \A t \in Slices : /\ began[t] \in 0..now
                              /\ began'[t] = IF t = s THEN now + 1 ELSE began[t]
        BY <3>2 DEF BronzeBegins, TypeOK
      <4>2. now \in Nat /\ \A e \in Stored : ingestedAt[e] \in 1..now
        BY DEF TypeOK
      <4> QED
        BY <2>2, <4>1, <4>2 DEF NowsDistinct
    <3> QED
      BY <1>4, <3>1, <3>2 DEF BronzeReads, BronzeFails
  <2>4. FetchedAll'
    BY <1>1, <2>1, <2>2 DEF FetchedAll, TypeOK
  <2>5. \A e : Passed(e)' <=> Passed(e)
    BY <1>1, <2>2 DEF Passed
  <2>6. PassedAreReflected'
    BY <1>1, <1>3, <2>1, <2>5 DEF PassedAreReflected, Quarantined
  <2>7. ErrorsCounted'
    BY <1>1, <2>1, <2>5, CountKept
  <2> QED
    BY <1>2, <2>3, <2>4, <2>6, <2>7
<1>5. ASSUME NEW s \in Slices, BronzeCommits(s) PROVE SilverInv'
  <2>1. /\ Stored' = Stored \cup slice[s]
        /\ \A e \in Stored' :
             ingestedAt'[e] = IF e \in Stored THEN ingestedAt[e] ELSE began[s]
        /\ began[s] \in 1..now
        /\ UNCHANGED failures
    BY <1>5 DEF BronzeCommits, Stored, TypeOK
  <2>2. \A t \in Slices : began'[t] = IF t = s THEN 0 ELSE began[t]
    BY <1>5 DEF BronzeCommits, TypeOK
  <2>3. NowsDistinct'
    <3>1. \A t, u \in Slices : t # u /\ began'[t] = began'[u] => began'[t] = 0
      BY <2>1, <2>2 DEF NowsDistinct
    <3>2. ASSUME NEW t \in Slices, NEW e \in Stored' PROVE began'[t] # ingestedAt'[e]
      <4>1. began[t] \in 0..now /\ now \in Nat /\ (e \in Stored => ingestedAt[e] \in 1..now)
        BY DEF TypeOK
      <4>2. e \in Stored => began[t] # ingestedAt[e]
        BY DEF NowsDistinct
      <4>3. t # s /\ began[t] = began[s] => began[t] = 0
        BY DEF NowsDistinct
      <4> QED
        BY <2>1, <2>2, <4>1, <4>2, <4>3
    <3> QED
      BY <3>1, <3>2 DEF NowsDistinct
  <2>4. /\ HighWater \in 0..now /\ watermark <= HighWater
        /\ \A e \in batch : ingestedAt[e] <= HighWater
    BY HighWaterIsLatest
  <2>5. /\ began[s] # watermark
        /\ \A e \in batch : began[s] # ingestedAt[e]
    BY <2>1 DEF NowsDistinct, TypeOK
  <2>6. ASSUME NEW e \in Stored' \ Stored, e \notin raced'
        PROVE  /\ ingestedAt'[e] > watermark
               /\ \A f \in batch : ingestedAt'[e] > ingestedAt[f]
    <3>1. ~(began[s] < HighWater)
      BY <1>5, <2>1, <2>6 DEF BronzeCommits
    <3> QED
      BY <2>1, <2>4, <2>5, <3>1 DEF TypeOK
  <2>7. raced \subseteq raced' /\ \A e \in Stored : ingestedAt'[e] = ingestedAt[e]
    BY <1>5, <2>1 DEF BronzeCommits
  <2>8. batch \subseteq Stored /\ Stored' \subseteq Events
        /\ \A e \in Stored' : ingestedAt'[e] \in Nat
    BY <1>3, <2>1 DEF TypeOK
  <2>9. FetchedAll'
    <3>1. \A e \in batch : ingestedAt'[e] > watermark
      BY <2>7, <2>8 DEF FetchedAll
    <3>2. ASSUME NEW e \in Stored' \ (batch \cup raced'), ingestedAt'[e] > watermark,
                 NEW f \in batch
          PROVE  ingestedAt'[e] > ingestedAt'[f]
      <4>1. CASE e \in Stored
        BY <2>7, <2>8, <3>2, <4>1 DEF FetchedAll
      <4>2. CASE e \notin Stored
        BY <2>6, <2>7, <2>8, <3>2, <4>2
      <4> QED
        BY <4>1, <4>2
    <3> QED
      BY <1>1, <3>1, <3>2 DEF FetchedAll
  <2>10. \A e \in Events : Passed(e)' /\ e \notin raced' => Passed(e)
    BY <1>1, <2>6, <2>7, <2>8 DEF Passed, TypeOK
  <2>11. \A e \in Events : Passed(e) => Passed(e)'
    BY <1>1, <2>1, <2>7 DEF Passed
  <2>12. PassedAreReflected'
    BY <1>1, <1>3, <2>7, <2>10 DEF PassedAreReflected, Quarantined
  <2>13. ErrorsCounted'
    BY <1>1, <2>1, <2>11, CountKept
  <2> QED
    BY <1>2, <2>3, <2>9, <2>12, <2>13
<1> QED
  BY <1>4, <1>5

\* Steps of the silver job, and of those that bring a parent to silver.
LEMMA SilverInvRun ==
  ASSUME SilverInv, TypeOK',
         \/ \E p \in missing : ParentArrives(p)
         \/ Silver
         \/ SilverFails
  PROVE  SilverInv'
<1> USE DEF SilverInv, worldVars, bronzeVars, jobVars, silverVars, historyVars
<1>1. UNCHANGED <<history, began, ingestedAt, raced>>
  BY DEF ParentArrives, Silver, SilverFails, Fetch, Validate, Upsert, WriteWatermark
<1>2. Events' = Events /\ Stored' = Stored /\ \A e \in Stored : ingestedAt'[e] = ingestedAt[e]
  BY <1>1 DEF Events, Stored
<1>3. NowsDistinct'
  BY <1>1, <1>2 DEF NowsDistinct
<1>4. /\ \A e \in Stored : ingestedAt[e] \in Nat
      /\ batch \subseteq Stored /\ Stored \subseteq Events
      /\ watermark \in Nat /\ failures \in Nat
      /\ \A x \in Events \X Reasons : errors[x] \in Nat
      /\ \A e \in Events : e[1] \in Orders /\ e[2] \in Nat /\ row[e[1]] \in Nat
  <2>1. \A e \in Stored : ingestedAt[e] \in Nat
    BY DEF TypeOK
  <2>2. watermark \in Nat
    BY <2>1 DEF TypeOK
  <2>3. \A x \in Events \X Reasons : errors[x] \in Nat
    BY DEF TypeOK
  <2>4. batch \subseteq Stored /\ Stored \subseteq Events /\ failures \in Nat
    BY FailuresAssumption DEF TypeOK
  <2>5. \A e \in Events : e[1] \in Orders /\ e[2] \in Nat /\ row[e[1]] \in Nat
    BY EventFacts DEF TypeOK
  <2> QED
    BY <2>1, <2>2, <2>3, <2>4, <2>5
<1>5. ASSUME NEW p \in missing, ParentArrives(p) PROVE SilverInv'
  <2>1. UNCHANGED <<pc, batch, valid, todo, row, errors, watermark, failures>>
    BY <1>5 DEF ParentArrives
  <2>2. RunShape' /\ FetchedAll'
    BY <1>1, <1>2, <2>1 DEF RunShape, Quarantined, FetchedAll
  <2>3. \A e : Passed(e)' <=> Passed(e)
    BY <1>1, <1>2, <2>1 DEF Passed
  <2>4. ErrorsCounted'
    BY <1>1, <2>1, <2>3, CountKept
  <2>5. PassedAreReflected'
    BY <1>1, <1>2, <2>1, <2>3 DEF PassedAreReflected, Quarantined
  <2> QED
    BY <1>3, <2>2, <2>4, <2>5
<1>6. CASE Fetch
  <2>1. /\ UNCHANGED <<valid, todo, row, errors, watermark, failures>>
        /\ pc = "idle" /\ pc' = "validate" /\ batch' # {}
        /\ batch' = {e \in Stored : ingestedAt[e] > watermark}
    BY <1>6 DEF Fetch
  <2>2. RunShape'
    BY <2>1 DEF RunShape
  <2>3. FetchedAll'
    BY <1>2, <2>1 DEF FetchedAll
  <2>4. \A e : Passed(e)' <=> Passed(e)
    BY <1>1, <1>2, <2>1 DEF Passed
  <2>5. ErrorsCounted'
    BY <1>1, <2>1, <2>4, CountKept
  <2>6. PassedAreReflected'
    BY <1>1, <1>2, <2>1, <2>4 DEF PassedAreReflected, Quarantined
  <2> QED
    BY <1>3, <2>2, <2>3, <2>5, <2>6
<1>7. CASE Validate
  <2>1. /\ UNCHANGED <<batch, row, watermark, failures>>
        /\ pc = "validate" /\ pc' = "upsert"
        /\ valid' = {e \in batch : \A r \in Reasons : ~Rejects(e, r)}
        /\ todo' = {e[1] : e \in valid'}
    BY <1>7 DEF Validate
  <2>2. \A x \in Events \X Reasons :
          errors'[x] = IF x[1] \in batch /\ Rejects(x[1], x[2]) THEN errors[x] + 1
                                                                 ELSE errors[x]
    BY <1>7 DEF Validate
  <2>3. ASSUME NEW e \in batch, e \notin valid' PROVE Quarantined(e)'
    <3>1. PICK r \in Reasons : Rejects(e, r)
      BY <2>1, <2>3
    <3>2. <<e, r>> \in Events \X Reasons
      BY <1>4
    <3>3. errors'[<<e, r>>] = errors[<<e, r>>] + 1
      BY <2>2, <3>1, <3>2
    <3> QED
      BY <1>4, <3>2, <3>3 DEF Quarantined
  <2>4. RunShape'
    BY <2>1, <2>3 DEF RunShape
  <2>5. FetchedAll'
    BY <1>1, <1>2, <2>1 DEF FetchedAll
  <2>6. \A e : Passed(e)' <=> Passed(e)
    BY <1>1, <1>2, <2>1 DEF Passed
  <2>7. ErrorsCounted'
    <3>1. ASSUME NEW e \in Events, NEW r \in Reasons
          PROVE  errors'[<<e, r>>]
                   <= failures + (IF Passed(e) \/ e \in batch THEN 1 ELSE 0)
      <4>1. errors[<<e, r>>] \in Nat /\ <<e, r>> \in Events \X Reasons
        BY <1>4
      <4>2. errors'[<<e, r>>] = IF e \in batch /\ Rejects(e, r) THEN errors[<<e, r>>] + 1
                                                                ELSE errors[<<e, r>>]
        BY <2>2, <4>1
      <4>3. errors[<<e, r>>] <= failures + (IF Passed(e) THEN 1 ELSE 0)
        BY <2>1 DEF ErrorsCounted
      <4>4. e \in batch => ~Passed(e)
        BY <1>4 DEF FetchedAll, Passed
      <4> HIDE DEF Passed, Rejects
      <4> QED
        BY <1>4, <4>1, <4>2, <4>3, <4>4
    <3> QED
      BY <1>2, <2>1, <2>6, <3>1 DEF ErrorsCounted
  <2>8. PassedAreReflected'
    <3>1. \A e \in Events : Quarantined(e) => Quarantined(e)'
      <4>1. \A x \in Events \X Reasons : errors[x] > 0 => errors'[x] > 0
        BY <1>4, <2>2
      <4> QED
        BY <4>1 DEF Quarantined
    <3> QED
      BY <1>1, <1>2, <2>1, <2>6, <3>1 DEF PassedAreReflected
  <2> QED
    BY <1>3, <2>4, <2>5, <2>7, <2>8
<1>8. ASSUME NEW S \in SUBSET todo, Upsert(S) PROVE SilverInv'
  <2>1. /\ UNCHANGED <<pc, batch, valid, errors, watermark, failures>>
        /\ pc = "upsert" /\ todo' = todo \ S
    BY <1>8 DEF Upsert
  <2>2. /\ \A o \in Orders : row[o] <= row'[o] /\ row'[o] \in 0..Len(history[o])
        /\ \A e \in valid : e[1] \in S => e[2] <= row'[e[1]]
    BY <1>8, UpsertAdvances
  <2>3. \A e \in Events : row[e[1]] <= row'[e[1]] /\ row'[e[1]] \in Nat
    BY <1>4, <2>2, EventFacts
  <2>4. RunShape'
    <3>1. todo' \subseteq {e[1] : e \in valid}
      BY <2>1 DEF RunShape
    <3>2. \A e \in batch : IF e \in valid THEN e[1] \in todo' \/ row'[e[1]] >= e[2]
                                          ELSE Quarantined(e)
      <4>1. ASSUME NEW e \in batch, e \in valid, e[1] \notin todo' PROVE row'[e[1]] >= e[2]
        <5>1. e[1] \in S \/ row[e[1]] >= e[2]
          BY <2>1, <4>1 DEF RunShape
        <5> QED
          BY <1>4, <2>2, <2>3, <4>1, <5>1
      <4> QED
        BY <2>1, <4>1 DEF RunShape
    <3> QED
      BY <2>1, <3>1, <3>2 DEF RunShape, Quarantined
  <2>5. FetchedAll'
    BY <1>1, <1>2, <2>1 DEF FetchedAll
  <2>6. \A e : Passed(e)' <=> Passed(e)
    BY <1>1, <1>2, <2>1 DEF Passed
  <2>7. ErrorsCounted'
    BY <1>1, <2>1, <2>6, CountKept
  <2>8. PassedAreReflected'
    <3>1. \A e \in Events : row[e[1]] >= e[2] => row'[e[1]] >= e[2]
      BY <1>4, <2>3
    <3> QED
      BY <1>1, <1>2, <2>1, <2>6, <3>1 DEF PassedAreReflected, Quarantined
  <2> QED
    BY <1>3, <2>4, <2>5, <2>7, <2>8
<1>9. CASE WriteWatermark
  <2>1. /\ UNCHANGED <<row, errors, failures>>
        /\ pc = "upsert" /\ todo = {} /\ watermark' = NextWatermark
        /\ pc' = "idle" /\ batch' = {} /\ valid' = {} /\ todo' = {}
    BY <1>9 DEF WriteWatermark, EndRun
  <2>2. /\ watermark' \in Nat /\ watermark < watermark'
        /\ \A e \in batch : ingestedAt[e] <= watermark'
    <3>1. batch # {}
      BY <2>1 DEF RunShape
    <3>2. PICK f \in batch : NextWatermark = ingestedAt[f]
      BY <3>1, WatermarkIsLatest
    <3> QED
      BY <1>4, <2>1, <3>1, <3>2, WatermarkIsLatest DEF FetchedAll
  <2>3. RunShape'
    BY <2>1 DEF RunShape
  <2>4. ASSUME NEW e \in Stored \ raced, ingestedAt[e] <= watermark'
        PROVE  Passed(e) \/ e \in batch
    <3>1. PICK f \in batch : NextWatermark = ingestedAt[f]
      BY <2>1, WatermarkIsLatest DEF RunShape
    <3> QED
      BY <1>4, <2>1, <2>4, <3>1 DEF FetchedAll, Passed
  <2>5. FetchedAll'
    BY <2>1 DEF FetchedAll
  <2>6. \A e \in Events : Passed(e) \/ e \in batch => Passed(e)'
    BY <1>2, <1>4, <2>2 DEF Passed
  <2>7. ErrorsCounted'
    BY <1>1, <2>1, <2>6, CountKept
  <2>8. PassedAreReflected'
    <3>1. ASSUME NEW e \in Events, Passed(e)', e \notin raced
          PROVE  Quarantined(e) \/ row[e[1]] >= e[2]
      <4>1. Passed(e) \/ e \in batch
        BY <1>2, <2>4, <3>1 DEF Passed
      <4> QED
        BY <2>1, <3>1, <4>1 DEF PassedAreReflected, RunShape
    <3> QED
      BY <1>1, <1>2, <2>1, <3>1 DEF PassedAreReflected, Quarantined
  <2> QED
    BY <1>3, <2>3, <2>5, <2>7, <2>8
<1>10. CASE SilverFails
  <2>1. /\ UNCHANGED <<row, errors, watermark>> /\ failures' = failures + 1
        /\ pc' = "idle" /\ batch' = {} /\ valid' = {} /\ todo' = {}
    BY <1>10 DEF SilverFails, EndRun
  <2>2. RunShape' /\ FetchedAll'
    BY <2>1 DEF RunShape, FetchedAll
  <2>3. \A e : Passed(e)' <=> Passed(e)
    BY <1>1, <1>2, <2>1 DEF Passed
  <2>4. ErrorsCounted'
    BY <1>1, <2>1, CountKept
  <2>5. PassedAreReflected'
    BY <1>1, <1>2, <2>1, <2>3 DEF PassedAreReflected, Quarantined
  <2> QED
    BY <1>3, <2>2, <2>4, <2>5
<1> QED
  BY <1>5, <1>6, <1>7, <1>8, <1>9, <1>10 DEF Silver

\* Every step keeps the inductive invariant.
LEMMA SilverStep == SilverInv /\ [Next]_vars => SilverInv'
<1> SUFFICES ASSUME SilverInv, [Next]_vars PROVE SilverInv'
  OBVIOUS
<1>1. TypeOK'
  BY SilverTypeStep DEF SilverInv
<1>2. CASE UNCHANGED vars
  <2> USE DEF vars, worldVars, bronzeVars, jobVars, silverVars, historyVars, SilverInv
  <2>1. Events' = Events /\ Stored' = Stored
    BY <1>2 DEF Events, Stored
  <2>2. \A e : (Passed(e)' <=> Passed(e)) /\ (Quarantined(e)' <=> Quarantined(e))
    BY <1>2, <2>1 DEF Passed, Quarantined
  <2>3. NowsDistinct' /\ FetchedAll'
    BY <1>2, <2>1 DEF NowsDistinct, FetchedAll
  <2>4. RunShape'
    BY <1>2, <2>2 DEF RunShape
  <2>5. ErrorsCounted' /\ PassedAreReflected'
    BY <1>2, <2>1, <2>2 DEF ErrorsCounted, PassedAreReflected
  <2> QED
    BY <1>1, <2>3, <2>4, <2>5
<1> QED
  BY <1>1, <1>2, SilverInvBronze, SilverInvRun DEF Next, Bronze

-------------------------------------------------------------------------------
\* The inductive invariant holds in every reachable state.
THEOREM SilverInvariance == Spec => []SilverInv
<1> QED
  BY SilverInit, SilverStep, PTL DEF Spec

\* A row that the watermark has passed is quarantined, or silver shows its event
\* or a later one of its order, unless it was committed after a later row had been
\* fetched.
THEOREM PassedReflected == Spec => []PassedAreReflected
<1>1. SilverInv => PassedAreReflected
  BY DEF SilverInv
<1> QED
  BY <1>1, SilverInvariance, PTL

\* The error table counts a row once, and once more for each failed run at most.
THEOREM ErrorsBounded == Spec => []ErrorsPerAttempt
<1>1. SilverInv => ErrorsPerAttempt
  <2> SUFFICES ASSUME SilverInv, NEW x \in Events \X Reasons
               PROVE  errors[x] <= 1 + failures
    BY DEF ErrorsPerAttempt
  <2>1. PICK e \in Events, r \in Reasons : x = <<e, r>>
    OBVIOUS
  <2>2. errors[x] \in Nat /\ failures \in Nat
    BY FailuresAssumption DEF SilverInv, TypeOK
  <2>3. errors[x] <= failures + 0 \/ errors[x] <= failures + 1
    BY <2>1 DEF SilverInv, ErrorsCounted
  <2> QED
    BY <2>2, <2>3
<1> QED
  BY <1>1, SilverInvariance, PTL

\* While orders keep to their lifecycle, the batches that bring their events, and
\* in which earlier ones are missing, make the job reject none of them as illegal.
THEOREM LegalOrdersPass ==
  ASSUME LegalHistories
  PROVE  Spec => []LegalHistoriesPass
<1>1. Init => LegalHistoriesPass
  BY DEF Init, LegalHistoriesPass, Reasons
<1>2. ASSUME SilverInv, LegalHistoriesPass, [Next]_vars PROVE LegalHistoriesPass'
  <2>1. CASE Validate
    <3>1. Events' = Events
      BY <2>1 DEF Validate, Events, worldVars
    <3>2. ASSUME NEW e \in batch
          PROVE  ~Rejects(e, "invalid_status_transition")
      <4>1. TypeOK /\ e \in Events
        BY <1>2 DEF SilverInv, TypeOK
      <4>2. /\ e[1] \in Orders /\ e[2] \in 1..Len(history[e[1]])
            /\ history[e[1]] \in Histories
            /\ DOMAIN history[e[1]] = 1..Len(history[e[1]])
        BY <4>1, EventFacts DEF TypeOK
      <4>3. SilverOrderValid(PrevStatus(e), Status(e))
        <5>1. CASE PrevStatus(e) = NoStatus
          BY <5>1 DEF SilverOrderValid
        <5>2. CASE \E k \in 1..Len(history[e[1]]) :
                     k < e[2] /\ PrevStatus(e) = history[e[1]][k]
          BY <4>2, <5>2 DEF LegalHistories, Status
        <5> QED
          BY <4>1, <5>1, <5>2, PrevStatusEarlier
      <4> QED
        BY <4>3 DEF Rejects
    <3>3. \A e \in Events :
            errors'[<<e, "invalid_status_transition">>]
              = errors[<<e, "invalid_status_transition">>]
      BY <2>1, <3>2 DEF Validate, Reasons
    <3> QED
      BY <1>2, <3>1, <3>3 DEF LegalHistoriesPass
  <2>2. CASE UNCHANGED <<history, errors>>
    BY <1>2, <2>2 DEF LegalHistoriesPass, Events
  <2>3. Validate \/ UNCHANGED <<history, errors>>
    BY <1>2 DEF Next, Bronze, Silver, BronzeReads, BronzeBegins, BronzeCommits,
                BronzeFails, ParentArrives, Fetch, Upsert, WriteWatermark, SilverFails,
                vars, worldVars, bronzeVars, jobVars, silverVars, historyVars
  <2> QED
    BY <2>1, <2>2, <2>3
<1> QED
  BY <1>1, <1>2, SilverInvariance, PTL DEF Spec

-------------------------------------------------------------------------------
(* The table refines what the rest of the system assumes of it.            *)

\* Silver shows an event of each order that was sent, and moves to later ones only.
THEOREM SilverRefinesView == Spec => ImplementsView
<1> USE DEF SentEvents
<1>1. Init => View!ViewInit
  <2> SUFFICES ASSUME Init PROVE View!ViewInit
    OBVIOUS
  <2>1. \A o \in Orders : Len(history[o]) \in Nat
    BY HistoriesAssumption DEF Init
  <2> QED
    BY <2>1 DEF Init, View!ViewInit
<1>2. ASSUME SilverInv, [Next]_vars PROVE [View!ViewNext]_(View!viewVars)
  <2>1. ASSUME NEW S \in SUBSET todo, Upsert(S) PROVE View!Advance
    <3>1. /\ row' \in [Orders -> Nat]
          /\ \A o \in Orders : row[o] <= row'[o] /\ row'[o] \in 0..Len(history[o])
      BY <1>2, <2>1, UpsertAdvances DEF SilverInv
    <3>2. \A o \in Orders : Len(history[o]) \in Nat
      BY <1>2, EventFacts DEF SilverInv
    <3>3. UNCHANGED history
      BY <2>1 DEF Upsert, worldVars
    <3> QED
      BY <3>1, <3>2, <3>3 DEF View!Advance
  <2>2. CASE UNCHANGED <<history, row>>
    BY <2>2 DEF View!viewVars
  <2>3. (\E S \in SUBSET todo : Upsert(S)) \/ UNCHANGED <<history, row>>
    BY <1>2 DEF Next, Bronze, Silver, BronzeReads, BronzeBegins, BronzeCommits,
                BronzeFails, ParentArrives, Fetch, Validate, WriteWatermark, SilverFails,
                vars, worldVars, bronzeVars, jobVars, silverVars, historyVars
  <2> QED
    BY <2>1, <2>2, <2>3 DEF View!ViewNext
<1> QED
  BY <1>1, <1>2, SilverInvariance, PTL DEF Spec, View!ViewSpec, ImplementsView
===============================================================================
