---------------------------- MODULE BronzeIngestion ----------------------------
(***************************************************************************)
(* One Kafka topic and the batch job that copies it to its bronze table:   *)
(* run_ingestion() of shared_ingestion_utils.py, started again and again   *)
(* by its DAG, one run at a time.                                          *)
(*                                                                         *)
(* A Spark DataFrame is a query, not a result.  run_ingestion() evaluates  *)
(* the same kafka_df three times (is it empty, the rows to write, the      *)
(* offsets to record) and every evaluation asks Kafka for "latest" anew,   *)
(* so each may see more of the topic than the one before.                  *)
(***************************************************************************)
EXTENDS Integers, FiniteSets

CONSTANTS
  Partitions,   \* partitions that the topic may have
  MaxOffset,    \* bound: messages in one partition
  MaxMessages,  \* bound: messages in one topic
  MaxTopics,    \* bound: how often the topic is created, counting the first
  MaxFailures   \* bound: runs of the job that fail half-way

ASSUME PartitionsAssumption == IsFiniteSet(Partitions) /\ Partitions # {}
ASSUME OffsetsAssumption == MaxOffset \in Nat /\ MaxMessages \in Nat
ASSUME TopicsAssumption == MaxTopics \in Nat \ {0}
ASSUME FailuresAssumption == MaxFailures \in Nat

\* A message is the k-th of a partition of the topic's n-th creation; its
\* event_id tells it from all others.
Messages == (1..MaxTopics) \X Partitions \X (0..(MaxOffset - 1))

VARIABLES
  topic,     \* which creation of the topic this is
  assigned,  \* the partitions it has
  latest     \* end offset of each partition
kafkaVars == <<topic, assigned, latest>>

VARIABLES
  recorded,   \* partitions with a row in control.kafka_offsets
  lastOffset, \* control.kafka_offsets.last_offset of those
  bronze      \* event_ids in the bronze table
tableVars == <<recorded, lastOffset, bronze>>

VARIABLES
  pc,         \* what the job does next
  named,      \* partitions that startingOffsets names, {} for "earliest"
  starting,   \* startingOffsets of those
  toWrite,    \* rows that were read and are not in bronze yet
  failures
jobVars == <<pc, named, starting, toWrite, failures>>

VARIABLES
  late,       \* history: messages sent between the read that is written and
              \* the read that is recorded
  reborn      \* history: messages of a topic created again, below the offset
              \* recorded for the one before
historyVars == <<late, reborn>>

vars == <<kafkaVars, tableVars, jobVars, historyVars>>

Init ==
  /\ topic = 1
  /\ assigned \in SUBSET Partitions \ {{}}
  /\ latest = [p \in Partitions |-> 0]
  /\ recorded = {} /\ lastOffset = [p \in Partitions |-> 0]
  /\ bronze = {}
  /\ pc = "idle" /\ named = {} /\ starting = [p \in Partitions |-> 0]
  /\ toWrite = {} /\ failures = 0
  /\ late = {} /\ reborn = {}

-------------------------------------------------------------------------------
(* Kafka: the generator sends; a topic that kafka-init finds too narrow is *)
(* widened; a topic may be deleted and created again.                      *)

InKafka == {m \in Messages : m[1] = topic /\ m[3] < latest[m[2]]}

Send(p) ==
  /\ p \in assigned
  /\ latest[p] < MaxOffset /\ Cardinality(InKafka) < MaxMessages
  /\ latest' = [latest EXCEPT ![p] = @ + 1]
  /\ LET m == <<topic, p, latest[p]>> IN
       /\ late' = IF pc \in {"write", "record"} THEN late \cup {m} ELSE late
       /\ reborn' = IF p \in recorded /\ latest[p] < lastOffset[p]
                    THEN reborn \cup {m} ELSE reborn
  /\ UNCHANGED <<topic, assigned, tableVars, jobVars>>

Widen(p) ==
  /\ p \notin assigned
  /\ assigned' = assigned \cup {p}
  /\ UNCHANGED <<topic, latest, tableVars, jobVars, historyVars>>

Recreate ==
  /\ topic < MaxTopics
  /\ topic' = topic + 1
  /\ assigned' \in SUBSET Partitions \ {{}}
  /\ latest' = [p \in Partitions |-> 0]
  /\ UNCHANGED <<tableVars, jobVars, historyVars>>

-------------------------------------------------------------------------------
(* The job.                                                                *)

\* Where startingOffsets makes a read of partition p begin.
Start(p) == IF p \in named THEN starting[p] ELSE 0

\* What an evaluation of kafka_df returns now.
Read == {m \in Messages : /\ m[1] = topic
                          /\ m[2] \in assigned
                          /\ Start(m[2]) <= m[3]
                          /\ m[3] < latest[m[2]]}

\* Spark refuses explicit starting offsets beyond the end of a partition, and
\* starting offsets that do not name every partition.
AfterEnd == \E p \in named \cap assigned : starting[p] > latest[p]
NotAllNamed == named # {} /\ named # assigned
Refused == AfterEnd \/ NotAllNamed

\* max(offset) + 1 of what a partition returns; its row stays if that is nothing.
NextOffset(p) == IF \E m \in Read : m[2] = p THEN latest[p] ELSE lastOffset[p]

\* The run is over, and with it its DataFrames.
EndRun ==
  /\ pc' = "idle"
  /\ named' = {}
  /\ starting' = [p \in Partitions |-> 0]
  /\ toWrite' = {}

\* Mutant of StaleWatermark: written before topics were widened.
StaleWatermarkMutant == AfterEnd

\* The two reasons that stale_watermark_reasons lists.
StaleWatermark == AfterEnd \/ NotAllNamed

\* get_starting_offsets_json().
Begin ==
  /\ pc = "idle"
  /\ pc' = "check"
  /\ named' = recorded
  /\ starting' = [p \in Partitions |-> IF p \in recorded THEN lastOffset[p] ELSE 0]
  /\ UNCHANGED <<kafkaVars, tableVars, toWrite, failures, historyVars>>

\* The first evaluation, isEmpty(): a refusal is taken for a stale watermark,
\* which is dropped, and the run ends; so does a run with nothing to read.
\* (A refusal for another reason is raised again, and nothing was done.)
Check ==
  /\ pc = "check"
  /\ recorded' = IF Refused /\ StaleWatermark THEN {} ELSE recorded
  /\ IF Refused \/ Read = {} THEN EndRun
     ELSE pc' = "read" /\ UNCHANGED <<named, starting, toWrite>>
  /\ UNCHANGED <<kafkaVars, lastOffset, bronze, failures, historyVars>>

\* Mutant of ReadRows: the offsets are recorded before the rows are written.
ReadRowsMutant ==
  /\ pc = "read"
  /\ ~Refused
  /\ toWrite' = Read
  /\ recorded' = recorded \cup {m[2] : m \in Read}
  /\ lastOffset' = [p \in Partitions |-> NextOffset(p)]
  /\ pc' = "write"
  /\ UNCHANGED <<kafkaVars, bronze, named, starting, failures, historyVars>>

\* The evaluation behind foreachPartition(): the rows that will be written.
ReadRows ==
  /\ pc = "read"
  /\ ~Refused
  /\ toWrite' = Read
  /\ pc' = "write"
  /\ UNCHANGED <<kafkaVars, tableVars, named, starting, failures, historyVars>>

\* One of the concurrent tasks commits its slice: append_rows(), whose
\* ON CONFLICT DO NOTHING lets rows pass that are there already.
AppendRows(S) ==
  /\ pc = "write"
  /\ S # {} /\ S \subseteq toWrite
  /\ bronze' = bronze \cup S
  /\ toWrite' = toWrite \ S
  /\ UNCHANGED <<kafkaVars, recorded, lastOffset, pc, named, starting, failures,
                 historyVars>>

AppendDone ==
  /\ pc = "write"
  /\ toWrite = {}
  /\ pc' = "record"
  /\ UNCHANGED <<kafkaVars, tableVars, named, starting, toWrite, failures,
                 historyVars>>

\* update_offsets(): max(offset) + 1 of every partition that the third
\* evaluation returns rows of.
UpdateOffsets ==
  /\ pc = "record"
  /\ ~Refused
  /\ recorded' = recorded \cup {m[2] : m \in Read}
  /\ lastOffset' = [p \in Partitions |-> NextOffset(p)]
  /\ EndRun
  /\ UNCHANGED <<kafkaVars, bronze, failures, historyVars>>

\* A later evaluation is refused: only the first one is guarded.
EvaluationRaises ==
  /\ pc \in {"read", "record"}
  /\ Refused
  /\ EndRun
  /\ UNCHANGED <<kafkaVars, tableVars, failures, historyVars>>

\* A run dies: what its tasks have committed stays, the rest is dropped.
Fail ==
  /\ pc # "idle"
  /\ failures < MaxFailures
  /\ failures' = failures + 1
  /\ EndRun
  /\ UNCHANGED <<kafkaVars, tableVars, historyVars>>

Job ==
  \/ Begin
  \/ Check
  \/ ReadRows
  \/ \E S \in SUBSET toWrite : AppendRows(S)
  \/ AppendDone
  \/ UpdateOffsets
  \/ EvaluationRaises

Next ==
  \/ \E p \in Partitions : Send(p) \/ Widen(p)
  \/ Recreate
  \/ Job
  \/ Fail

Spec == Init /\ [][Next]_vars

\* The DAG starts a run every few minutes, and a failed one is retried.
FairSpec == Spec /\ WF_vars(Job)
-------------------------------------------------------------------------------
TypeOK ==
  /\ topic \in 1..MaxTopics
  /\ assigned \in SUBSET Partitions
  /\ latest \in [Partitions -> 0..MaxOffset]
  /\ recorded \in SUBSET Partitions
  /\ lastOffset \in [Partitions -> 0..MaxOffset]
  /\ bronze \in SUBSET Messages
  /\ pc \in {"idle", "check", "read", "write", "record"}
  /\ named \in SUBSET Partitions
  /\ starting \in [Partitions -> 0..MaxOffset]
  /\ toWrite \in SUBSET Messages
  /\ failures \in 0..MaxFailures
  /\ late \in SUBSET Messages /\ reborn \in SUBSET Messages

\* The messages in Kafka that no later run will read.
Passed == {m \in Messages : /\ m[1] = topic
                            /\ m[2] \in recorded
                            /\ m[3] < latest[m[2]]
                            /\ m[3] < lastOffset[m[2]]}

\* Whatever fails between the steps of a run, however often, and however the
\* topic changes: a message that is passed over without being in bronze was sent
\* between a run's two reads, or to a new topic below the old topic's offset.
OnlyExposedAreLost == Passed \subseteq bronze \cup late \cup reborn

\* The inductive invariant behind it (BronzeProofs): while a run goes on, its
\* starting offsets are those that are recorded, and what it did not read to
\* write was sent after it did.
RunShape ==
  /\ \A p \in Partitions \ assigned : latest[p] = 0
  /\ pc # "idle" => /\ named = recorded
                    /\ \A p \in named : starting[p] = lastOffset[p]
  /\ pc = "record" => toWrite = {}
  /\ pc \in {"write", "record"} =>
       \A m \in Messages :
         m[1] = topic /\ Start(m[2]) <= m[3] /\ m[3] < latest[m[2]]
           => m \in toWrite \cup bronze \cup late

BronzeInv == TypeOK /\ RunShape /\ OnlyExposedAreLost

\* When all is sent, every message of the topic that was not exposed in one of those
\* two ways is in bronze in the end; a refused watermark, a widened or a new topic
\* and a run that fails do not stop the job for good.
UnexposedArrive ==
  <>[](\A m \in Messages :
         /\ m[1] = topic /\ m[2] \in assigned /\ m[3] < latest[m[2]]
         /\ m \notin late \cup reborn
         => m \in bronze)

-------------------------------------------------------------------------------
(* What a comment of the code says, and the code does not do.              *)

\* update_offsets(): "so the next run picks up exactly where this one left off".
NothingLostBetweenReads == Passed \subseteq bronze \cup reborn
===============================================================================
