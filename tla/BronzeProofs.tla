------------------------------ MODULE BronzeProofs ------------------------------
(***************************************************************************)
(* Proofs about BronzeIngestion, for every set of partitions and every     *)
(* value of the bounds: the only messages a run can pass over are those    *)
(* sent between its two reads and those of a topic created again.          *)
(***************************************************************************)
EXTENDS BronzeIngestion, TLAPS

\* The initial states satisfy the inductive invariant.
LEMMA BronzeInit == Init => BronzeInv
  BY OffsetsAssumption, TopicsAssumption, FailuresAssumption
     DEF Init, BronzeInv, TypeOK, RunShape, OnlyExposedAreLost, Passed, Messages

\* What a read returns, and where it leaves the offset of a partition.
LEMMA ReadTyped ==
  ASSUME TypeOK
  PROVE  /\ Read \subseteq Messages
         /\ \A p \in Partitions : NextOffset(p) \in 0..MaxOffset
  BY DEF TypeOK, Read, NextOffset

\* Every step keeps the types.
LEMMA BronzeTypeStep == TypeOK /\ [Next]_vars => TypeOK'
<1> SUFFICES ASSUME TypeOK, [Next]_vars PROVE TypeOK'
  OBVIOUS
<1> USE OffsetsAssumption, TopicsAssumption, FailuresAssumption
<1>1. ASSUME NEW p \in Partitions, Send(p) PROVE TypeOK'
  <2>1. latest[p] \in 0..(MaxOffset - 1) /\ latest[p] + 1 \in 0..MaxOffset
    BY <1>1 DEF TypeOK, Send
  <2>2. <<topic, p, latest[p]>> \in Messages
    BY <2>1 DEF TypeOK, Messages
  <2> QED
    BY <1>1, <2>1, <2>2 DEF Send, TypeOK, tableVars, jobVars
<1>2. ASSUME NEW p \in Partitions, Widen(p) PROVE TypeOK'
  BY <1>2 DEF Widen, TypeOK, tableVars, jobVars, historyVars
<1>3. CASE Recreate
  BY <1>3 DEF Recreate, TypeOK, tableVars, jobVars, historyVars
<1>4. CASE Begin
  BY <1>4 DEF Begin, TypeOK, kafkaVars, tableVars, historyVars
<1>5. CASE Check
  BY <1>5 DEF Check, EndRun, TypeOK, kafkaVars, historyVars
<1>6. CASE ReadRows
  BY <1>6, ReadTyped DEF ReadRows, TypeOK, kafkaVars, tableVars, historyVars
<1>7. ASSUME NEW S \in SUBSET toWrite, AppendRows(S) PROVE TypeOK'
  BY <1>7 DEF AppendRows, TypeOK, kafkaVars, historyVars
<1>8. CASE AppendDone
  BY <1>8 DEF AppendDone, TypeOK, kafkaVars, tableVars, historyVars
<1>9. CASE UpdateOffsets
  <2>1. {m[2] : m \in Read} \subseteq Partitions
    BY ReadTyped DEF Messages
  <2> QED
    BY <1>9, <2>1, ReadTyped DEF UpdateOffsets, EndRun, TypeOK, kafkaVars, historyVars
<1>10. CASE EvaluationRaises
  BY <1>10 DEF EvaluationRaises, EndRun, TypeOK, kafkaVars, tableVars, historyVars
<1>11. CASE Fail
  BY <1>11 DEF Fail, EndRun, TypeOK, kafkaVars, tableVars, historyVars
<1>12. CASE UNCHANGED vars
  BY <1>12 DEF vars, TypeOK, kafkaVars, tableVars, jobVars, historyVars
<1> QED
  BY <1>1, <1>2, <1>3, <1>4, <1>5, <1>6, <1>7, <1>8, <1>9, <1>10, <1>11, <1>12
     DEF Next, Job

\* Every step keeps the rest of the inductive invariant.
LEMMA BronzeStep == BronzeInv /\ [Next]_vars => BronzeInv'
<1> SUFFICES ASSUME BronzeInv, [Next]_vars PROVE (RunShape /\ OnlyExposedAreLost)'
  BY BronzeTypeStep DEF BronzeInv
<1> USE DEF BronzeInv
<1>1. ASSUME NEW p \in Partitions, Send(p) PROVE (RunShape /\ OnlyExposedAreLost)'
  <2> DEFINE new == <<topic, p, latest[p]>>
  <2>1. \A q \in Partitions : latest'[q] = IF q = p THEN latest[q] + 1 ELSE latest[q]
    BY <1>1 DEF Send, TypeOK
  <2>2. \A m \in Messages : m[1] = topic /\ m[3] < latest'[m[2]] /\ m # new
                              => m[3] < latest[m[2]]
    BY <2>1 DEF Messages, TypeOK
  <2>3. RunShape'
    <3>1. \A m \in Messages : Start(m[2])' = Start(m[2])
      BY <1>1 DEF Send, Start, jobVars
    <3>2. late' = IF pc \in {"write", "record"} THEN late \cup {new} ELSE late
      BY <1>1 DEF Send
    <3> QED
      BY <1>1, <2>1, <2>2, <3>1, <3>2 DEF Send, RunShape, tableVars, jobVars
  <2>4. OnlyExposedAreLost'
    <3>1. reborn' = IF p \in recorded /\ latest[p] < lastOffset[p]
                    THEN reborn \cup {new} ELSE reborn
      BY <1>1 DEF Send
    <3>2. late \subseteq late'
      BY <1>1 DEF Send
    <3> QED
      BY <1>1, <2>2, <3>1, <3>2 DEF Send, OnlyExposedAreLost, Passed, tableVars
  <2> QED
    BY <2>3, <2>4
<1>2. ASSUME NEW p \in Partitions, Widen(p) PROVE (RunShape /\ OnlyExposedAreLost)'
  BY <1>2 DEF Widen, RunShape, OnlyExposedAreLost, Passed, Start, tableVars, jobVars,
              historyVars
<1>3. CASE Recreate
  <2>1. \A m \in Messages : latest'[m[2]] = 0 /\ ~(m[3] < latest'[m[2]])
    BY <1>3 DEF Recreate, Messages
  <2> QED
    BY <1>3, <2>1 DEF Recreate, RunShape, OnlyExposedAreLost, Passed, tableVars,
                      jobVars
<1>4. CASE Begin
  BY <1>4 DEF Begin, TypeOK, RunShape, OnlyExposedAreLost, Passed, kafkaVars,
              tableVars, historyVars
<1>5. CASE Check
  BY <1>5 DEF Check, EndRun, RunShape, OnlyExposedAreLost, Passed, kafkaVars,
              historyVars
<1>6. CASE ReadRows
  <2>1. \A m \in Messages : m[1] = topic /\ Start(m[2]) <= m[3] /\ m[3] < latest[m[2]]
                              => m \in Read
    BY DEF Read, RunShape, Messages
  <2>2. \A m \in Messages : Start(m[2])' = Start(m[2])
    BY <1>6 DEF ReadRows, Start
  <2> QED
    BY <1>6, <2>1, <2>2 DEF ReadRows, RunShape, OnlyExposedAreLost, Passed,
                            kafkaVars, tableVars, historyVars
<1>7. ASSUME NEW S \in SUBSET toWrite, AppendRows(S)
      PROVE (RunShape /\ OnlyExposedAreLost)'
  <2>1. \A m \in Messages : Start(m[2])' = Start(m[2])
    BY <1>7 DEF AppendRows, Start
  <2> QED
    BY <1>7, <2>1 DEF AppendRows, RunShape, OnlyExposedAreLost, Passed, kafkaVars,
                      historyVars
<1>8. CASE AppendDone
  <2>1. \A m \in Messages : Start(m[2])' = Start(m[2])
    BY <1>8 DEF AppendDone, Start
  <2> QED
    BY <1>8, <2>1 DEF AppendDone, RunShape, OnlyExposedAreLost, Passed, kafkaVars,
                      tableVars, historyVars
<1>9. CASE UpdateOffsets
  <2>1. RunShape'
    BY <1>9 DEF UpdateOffsets, EndRun, RunShape, kafkaVars
  <2>2. ASSUME NEW m \in Passed' PROVE m \in bronze \cup late \cup reborn
    <3>1. /\ m \in Messages /\ m[1] = topic /\ m[2] \in recorded'
          /\ m[3] < latest[m[2]] /\ m[3] < lastOffset'[m[2]]
      BY <1>9, <2>2 DEF UpdateOffsets, Passed, kafkaVars
    <3>2. m[2] \in Partitions /\ m[3] \in Nat
      BY <3>1, OffsetsAssumption DEF Messages
    <3>3. CASE Start(m[2]) <= m[3]
      BY <1>9, <3>1, <3>3 DEF UpdateOffsets, RunShape
    <3>4. CASE ~(Start(m[2]) <= m[3])
      <4>1. m[2] \in named /\ m[3] < starting[m[2]]
        BY <3>2, <3>4 DEF Start, TypeOK
      <4>2. m[2] \in recorded /\ m[3] < lastOffset[m[2]]
        BY <1>9, <4>1 DEF UpdateOffsets, RunShape
      <4> QED
        BY <3>1, <4>2 DEF OnlyExposedAreLost, Passed
    <3> QED
      BY <3>3, <3>4
  <2> QED
    BY <1>9, <2>1, <2>2 DEF UpdateOffsets, OnlyExposedAreLost, historyVars
<1>10. CASE EvaluationRaises
  BY <1>10 DEF EvaluationRaises, EndRun, RunShape, OnlyExposedAreLost, Passed,
               kafkaVars, tableVars, historyVars
<1>11. CASE Fail
  BY <1>11 DEF Fail, EndRun, RunShape, OnlyExposedAreLost, Passed, kafkaVars,
               tableVars, historyVars
<1>12. CASE UNCHANGED vars
  BY <1>12 DEF vars, RunShape, OnlyExposedAreLost, Passed, Start, kafkaVars,
               tableVars, jobVars, historyVars
<1> QED
  BY <1>1, <1>2, <1>3, <1>4, <1>5, <1>6, <1>7, <1>8, <1>9, <1>10, <1>11, <1>12
     DEF Next, Job

\* The inductive invariant holds in every reachable state.
THEOREM BronzeInvariance == Spec => []BronzeInv
<1>1. Init => BronzeInv
  BY BronzeInit
<1>2. BronzeInv /\ [Next]_vars => BronzeInv'
  BY BronzeStep
<1> QED
  BY <1>1, <1>2, PTL DEF Spec

\* A message that the recorded offsets have passed and that is not in bronze was
\* sent between the two reads of a run, or to a topic created again: no failure
\* of a run, between any two of its steps, loses one.
THEOREM OnlyExposedLost == Spec => []OnlyExposedAreLost
<1>1. BronzeInv => OnlyExposedAreLost
  BY DEF BronzeInv
<1> QED
  BY <1>1, BronzeInvariance, PTL

\* Type correctness of the bronze job.
THEOREM BronzeTypes == Spec => []TypeOK
<1>1. BronzeInv => TypeOK
  BY DEF BronzeInv
<1> QED
  BY <1>1, BronzeInvariance, PTL
===============================================================================
