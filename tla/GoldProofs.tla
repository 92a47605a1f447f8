------------------------------ MODULE GoldProofs ------------------------------
(***************************************************************************)
(* Theorems about the silver DAGs and gold, for every set of trigger       *)
(* domains and any number of failed tasks.                                 *)
(***************************************************************************)
EXTENDS GoldRefresh, SetLemmas, TLAPS

\* The two domains that wait for each other are tasks of one DAG.
LEMMA OrderDomains ==
  /\ "purchase_orders" \in Domains /\ "product_on_orders" \in Domains
  /\ Dag("purchase_orders") = Dag("product_on_orders")
  /\ \A d \in Domains : Downstream(d) \subseteq Domains /\ d \in Downstream(d)
  /\ \A d \in Domains : \A e \in Downstream(d) :
       e = d \/ (d = "purchase_orders" /\ e = "product_on_orders")
  /\ "product_on_orders" \in Downstream("purchase_orders")
  /\ OrderTables \subseteq Domains
BY DomainsAssumption DEF Dag, OrderTables, Downstream, Awaits

\* The latest of the rows that a job has fetched.
LEMMA MaxOfRows ==
  ASSUME NEW S \in SUBSET {Older, Own, Newer}, S # {}
  PROVE  Max(S) \in S /\ \A x \in S : x <= Max(S)
<1>1. 3 \in Nat /\ S \in SUBSET (0..3)
  BY DEF Older, Own, Newer
<1> QED
  BY <1>1, ExtremaUpTo

-------------------------------------------------------------------------------
(* The steps of the DAGs, one lemma for each.                              *)

\* The DAGs start with nothing in bronze and no run.
LEMMA DagInvInit == DagInit => DagInv
<1> SUFFICES ASSUME DagInit PROVE DagInv
  OBVIOUS
<1>1. DagTypeOK
  <2>1. {rejected, itemInSilver, quarantined, missed} \subseteq BOOLEAN
    BY Zenon DEF DagInit
  <2>2. job \in [Domains -> Over \cup {"none", "running"}]
    BY DEF DagInit, Over
  <2>3. failures \in 0..MaxFailures
    BY FailuresAssumption DEF DagInit
  <2> QED
    BY <2>1, <2>2, <2>3 DEF DagInit, DagTypeOK
<1>2. TasksInOrder
  BY OrderDomains DEF DagInit, TasksInOrder
<1>3. OwnRowsKept
  BY OrderDomains DEF DagInit, OwnRowsKept, OrderTables
<1> QED
  BY <1>1, <1>2, <1>3 DEF DagInv

\* New rows come to bronze.
LEMMA ArrivalKeeps ==
  ASSUME DagInv,
         \/ \E t \in OrderTables : OwnArrives(t)
         \/ \E d \in Domains : OthersArrive(d)
  PROVE  DagInv'
<1>1. /\ UNCHANGED <<check, job, fetched, written, watermark, missed, failures, events>>
      /\ UNCHANGED <<silver, rejected, itemInSilver, quarantined>>
  BY DEF OwnArrives, OthersArrive, taskVars, silverVars, outcomeVars
<1>2. \A t : Judged(t)' = Judged(t)
  BY <1>1 DEF Judged
<1>3. ASSUME NEW t \in OrderTables, OwnArrives(t) PROVE DagInv'
  <2>1. /\ arrived' = arrived \cup {t}
        /\ \A d \in Domains \ {t} : waiting'[d] = waiting[d]
        /\ waiting[t] \subseteq waiting'[t] /\ waiting'[t] \subseteq waiting[t] \cup {Own}
        /\ waiting' \in [Domains -> SUBSET {Older, Own, Newer}]
        /\ Own \in waiting'[t] => Own \in waiting[t] \/ watermark[t] < Own
        /\ Own \in waiting'[t] \/ t \in dropped'
        /\ dropped \subseteq dropped' /\ dropped' \subseteq dropped \cup {t}
    <3>1. /\ waiting \in [Domains -> SUBSET {Older, Own, Newer}]
          /\ t \in Domains /\ arrived' = arrived \cup {t}
      BY <1>3, OrderDomains DEF OwnArrives, DagInv, DagTypeOK
    <3>2. CASE /\ watermark[t] < Own
               /\ waiting' = [waiting EXCEPT ![t] = @ \cup {Own}]
               /\ UNCHANGED dropped
      BY <3>1, <3>2
    <3>3. CASE dropped' = dropped \cup {t} /\ UNCHANGED waiting
      BY <3>1, <3>3
    <3> QED
      BY <1>3, <3>2, <3>3 DEF OwnArrives
  <2>2. DagTypeOK'
    BY <1>1, <2>1, OrderDomains DEF DagInv, DagTypeOK
  <2>3. \A d \in Domains : waiting[d] \subseteq waiting'[d]
    BY <2>1
  <2>4. TasksInOrder'
    BY <1>1, <2>3 DEF DagInv, TasksInOrder
  <2>5. OwnRowsKept'
    BY <1>1, <1>2, <2>1, OrderDomains DEF DagInv, OwnRowsKept
  <2> QED
    BY <2>2, <2>4, <2>5 DEF DagInv
<1>4. ASSUME NEW d \in Domains, OthersArrive(d) PROVE DagInv'
  <2>1. PICK r \in Rows(d) \ {Own} : waiting' = [waiting EXCEPT ![d] = @ \cup {r}]
    BY <1>4 DEF OthersArrive
  <2>2. r \in {Older, Newer}
    BY <2>1 DEF Rows
  <2>3. /\ UNCHANGED <<arrived, dropped>>
        /\ waiting' \in [Domains -> SUBSET {Older, Own, Newer}]
        /\ \A e \in Domains : /\ waiting[e] \subseteq waiting'[e]
                              /\ Own \in waiting'[e] => Own \in waiting[e]
    BY <1>4, <2>1, <2>2 DEF OthersArrive, DagInv, DagTypeOK, Older, Own, Newer
  <2>4. DagTypeOK'
    BY <1>1, <2>3 DEF DagInv, DagTypeOK
  <2>5. TasksInOrder'
    BY <1>1, <2>3 DEF DagInv, TasksInOrder
  <2>6. OwnRowsKept'
    BY <1>1, <1>2, <2>3, OrderDomains DEF DagInv, OwnRowsKept
  <2> QED
    BY <2>4, <2>5, <2>6 DEF DagInv
<1> QED
  BY <1>3, <1>4

\* A run starts when all tasks of the last one are over.
LEMMA NewRunKeeps ==
  ASSUME DagInv, NEW g, NewRun(g)
  PROVE  DagInv'
<1>1. DagTypeOK'
  BY DEF DagInv, DagTypeOK, NewRun, bronzeVars, outcomeVars, Over
<1>2. \A d \in Domains :
        \/ /\ d \in DomainsOf(g) /\ check'[d] = "none" /\ job'[d] = "none"
           /\ job[d] # "running"
        \/ d \notin DomainsOf(g) /\ check'[d] = check[d] /\ job'[d] = job[d]
  BY DEF NewRun, RunOver, DomainsOf, Over
<1>3. "purchase_orders" \in DomainsOf(g) <=> "product_on_orders" \in DomainsOf(g)
  BY OrderDomains DEF DomainsOf
<1>4. /\ UNCHANGED <<arrived, waiting, watermark, dropped, fetched, written>>
      /\ \A t : Judged(t)' = Judged(t)
      /\ missed' = missed \/ "purchase_orders" \in DomainsOf(g)
  BY OrderDomains DEF NewRun, bronzeVars, outcomeVars, Judged, DomainsOf, DagInv, DagTypeOK
<1>5. TasksInOrder'
  BY <1>2, <1>3, <1>4, OrderDomains DEF DagInv, TasksInOrder
<1>6. OwnRowsKept'
  BY <1>2, <1>4, OrderDomains DEF DagInv, OwnRowsKept
<1> QED
  BY <1>1, <1>5, <1>6 DEF DagInv

\* A check succeeds, and skips what is downstream of it if there is nothing new, or
\* it fails.
LEMMA CheckKeeps ==
  ASSUME DagInv, NEW d \in Domains, Check(d) \/ CheckFails(d)
  PROVE  DagInv'
<1>1. /\ UNCHANGED <<arrived, waiting, watermark, dropped, fetched, written, missed>>
      /\ \A t : Judged(t)' = Judged(t)
  BY DEF Check, CheckFails, bronzeVars, silverVars, outcomeVars, Judged
<1>2. /\ check[d] = "none" /\ job[d] \notin {"running", "success"}
      /\ \A e \in Domains \ {d} : check'[e] = check[e]
  BY DEF Check, CheckFails, DagInv, DagTypeOK, TasksInOrder
\* What is skipped did not run: its check, or that of its upstream, was still to come.
<1>3. \A e \in Domains :
        \/ job'[e] = job[e]
        \/ e \in Downstream(d) /\ job'[e] = "skipped" /\ job[e] # "running"
  <2>1. \A e \in Downstream(d) : job[e] # "running"
    BY <1>2, OrderDomains DEF DagInv, TasksInOrder
  <2> QED
    BY <2>1 DEF Check, CheckFails
<1>4. DagTypeOK'
  BY FailuresAssumption
     DEF Check, CheckFails, DagInv, DagTypeOK, Over, bronzeVars, silverVars, outcomeVars
<1>5. job'["purchase_orders"] = "skipped" => job'["product_on_orders"] = "skipped"
  <2>1. CASE Check(d) /\ ~HasNewBronzeData(d) /\ d = "purchase_orders"
    BY <2>1, OrderDomains DEF Check
  <2>2. CASE ~(Check(d) /\ ~HasNewBronzeData(d) /\ d = "purchase_orders")
    <3>1. job'["purchase_orders"] = job["purchase_orders"]
      BY <2>2, OrderDomains DEF Check, CheckFails
    <3> QED
      BY <1>3, <3>1, OrderDomains DEF DagInv, TasksInOrder
  <2> QED
    BY <2>1, <2>2
<1>6. job'["product_on_orders"] = "running" => job'["purchase_orders"] = "success"
  <2>1. job["purchase_orders"] = "success" => job'["purchase_orders"] = "success"
    <3>1. CASE d = "purchase_orders"
      BY <1>2, <3>1
    <3>2. CASE d # "purchase_orders"
      BY <1>3, <3>2, OrderDomains
    <3> QED
      BY <3>1, <3>2
  <2> QED
    BY <1>3, <2>1, OrderDomains DEF DagInv, TasksInOrder
<1>7. \A e \in Domains :
        /\ job'[e] \in {"running", "success"} => check'[e] = "success"
        /\ check'[e] = "success" /\ job'[e] \in {"none", "running"} => waiting'[e] # {}
        /\ job'[e] = "running" <=> fetched'[e] # {}
        /\ written'[e] \subseteq fetched'[e] /\ fetched'[e] \subseteq waiting'[e]
  <2>1. \A e \in Domains : /\ job'[e] \in {"running", "success", "none"} => job'[e] = job[e]
                           /\ job'[e] = "running" <=> job[e] = "running"
    BY <1>3
  <2>2. check'[d] = "success" /\ job'[d] = "none" => waiting[d] # {}
    BY OrderDomains DEF Check, CheckFails, HasNewBronzeData, DagInv, DagTypeOK
  <2> QED
    BY <1>1, <1>2, <1>3, <2>1, <2>2 DEF DagInv, TasksInOrder
<1>8. OwnRowsKept'
  <2>1. job'["purchase_orders"] \in {"running", "success"}
          => job'["purchase_orders"] = job["purchase_orders"]
    BY <1>3, OrderDomains
  <2> QED
    BY <1>1, <2>1 DEF DagInv, OwnRowsKept
<1> QED
  BY <1>4, <1>5, <1>6, <1>7, <1>8 DEF DagInv, TasksInOrder

\* A job is not started since one that it waits for has failed.
LEMMA UpstreamFailedKeeps ==
  ASSUME DagInv, NEW d \in Domains, UpstreamFailed(d)
  PROVE  DagInv'
<1>1. /\ job[d] = "none"
      /\ \A e \in Domains : job'[e] = IF e = d THEN "upstream_failed" ELSE job[e]
      /\ UNCHANGED <<arrived, waiting, watermark, dropped, check, fetched, written, missed>>
      /\ \A t : Judged(t)' = Judged(t)
  BY DEF UpstreamFailed, DagInv, DagTypeOK, bronzeVars, silverVars, outcomeVars, Judged
<1>2. DagTypeOK'
  BY DEF UpstreamFailed, DagInv, DagTypeOK, Over, bronzeVars, silverVars, outcomeVars
<1>3. TasksInOrder'
  BY <1>1, OrderDomains DEF DagInv, TasksInOrder
<1>4. OwnRowsKept'
  BY <1>1, OrderDomains DEF DagInv, OwnRowsKept
<1> QED
  BY <1>2, <1>3, <1>4 DEF DagInv

\* A job fetches what is above its watermark.
LEMMA JobFetchesKeeps ==
  ASSUME DagInv, NEW d \in Domains, JobFetches(d)
  PROVE  DagInv'
<1>1. /\ job[d] = "none" /\ check[d] = "success" /\ fetched[d] = {} /\ waiting[d] # {}
      /\ \A e \in Domains : /\ job'[e] = IF e = d THEN "running" ELSE job[e]
                            /\ fetched'[e] = IF e = d THEN waiting[d] ELSE fetched[e]
      /\ missed' = IF d = "purchase_orders" THEN d \notin arrived ELSE missed
      /\ UNCHANGED <<arrived, waiting, watermark, dropped, check, written>>
      /\ \A t : Judged(t)' = Judged(t)
  BY DEF JobFetches, UpstreamMet, DagInv, DagTypeOK, TasksInOrder, bronzeVars, outcomeVars,
         Judged
<1>2. DagTypeOK'
  BY DEF JobFetches, DagInv, DagTypeOK, Over, bronzeVars, outcomeVars
<1>3. d = "product_on_orders" => job["purchase_orders"] = "success"
  BY <1>1 DEF JobFetches, UpstreamMet, Awaits, DagInv, TasksInOrder
<1>4. d = "purchase_orders" => job["product_on_orders"] # "running"
  BY <1>1 DEF DagInv, TasksInOrder
<1>5. TasksInOrder'
  <2>1. written[d] \subseteq {}
    BY <1>1 DEF DagInv, TasksInOrder
  <2> QED
    BY <1>1, <1>3, <1>4, <2>1, OrderDomains DEF DagInv, TasksInOrder
<1>6. OwnRowsKept'
  BY <1>1, OrderDomains DEF DagInv, OwnRowsKept, OrderTables
<1> QED
  BY <1>2, <1>5, <1>6 DEF DagInv

\* A job writes its own row, or its reject, or the rows of others.
LEMMA JobWritesKeeps ==
  ASSUME DagInv, NEW d \in Domains, NEW S \in {ToWrite(d) \cap {Own}, ToWrite(d) \ {Own}},
         JobWrites(d, S)
  PROVE  DagInv'
<1>1. /\ S \subseteq fetched[d] /\ (Own \in S => S = {Own})
      /\ \A e \in Domains :
           written'[e] = IF e = d THEN written[d] \cup S ELSE written[e]
      /\ UNCHANGED <<arrived, waiting, watermark, dropped, check, job, fetched, missed,
                     events, failures>>
  BY DEF JobWrites, ToWrite, bronzeVars, DagInv, DagTypeOK
<1>2. \A t \in OrderTables : /\ Judged(t) => Judged(t)'
                             /\ d = t /\ S = {Own} => Judged(t)'
  <2>1. /\ silver \subseteq silver'
        /\ rejected => rejected'
        /\ itemInSilver => itemInSilver'
        /\ quarantined => quarantined'
    BY DEF JobWrites, OrderIsJudged, ItemIsJudged
  <2>2. d = "purchase_orders" /\ S = {Own} => Judged("purchase_orders")'
    BY DEF JobWrites, OrderIsJudged, Judged
  <2>3. d = "product_on_orders" => Judged("product_on_orders")'
    BY DEF JobWrites, ItemIsJudged, Judged
  <2> QED
    BY <2>1, <2>2, <2>3 DEF Judged, OrderTables
<1>3. DagTypeOK'
  <2>1. /\ silver' \in SUBSET Followed
        /\ {rejected', itemInSilver', quarantined'} \subseteq BOOLEAN
    <3>1. /\ silver \in SUBSET Followed
          /\ {rejected, itemInSilver, quarantined} \subseteq BOOLEAN
      BY DEF DagInv, DagTypeOK
    <3>2. CASE OrderIsJudged /\ UNCHANGED <<itemInSilver, quarantined>>
      BY <3>1, <3>2, Zenon DEF OrderIsJudged, Followed
    <3>3. CASE ItemIsJudged /\ UNCHANGED <<silver, rejected>>
      BY <3>1, <3>3, Zenon DEF ItemIsJudged
    <3>4. CASE /\ \E rows \in SUBSET (Followed \ {"own"}) : silver' = silver \cup rows
               /\ UNCHANGED <<rejected, itemInSilver, quarantined>>
      BY <3>1, <3>4
    <3> QED
      BY <3>2, <3>3, <3>4 DEF JobWrites
  <2>2. written' \in [Domains -> SUBSET {Older, Own, Newer}]
    BY <1>1 DEF JobWrites, DagInv, DagTypeOK
  <2> QED
    BY <1>1, <2>1, <2>2 DEF DagInv, DagTypeOK
<1>4. TasksInOrder'
  BY <1>1 DEF DagInv, TasksInOrder
<1>5. OwnRowsKept'
  BY <1>1, <1>2, OrderDomains DEF DagInv, OwnRowsKept, OrderTables
<1> QED
  BY <1>3, <1>4, <1>5 DEF DagInv

\* A job ends when all that it has fetched is written: the watermark passes that, and
\* what has come in meanwhile below the latest of it.
LEMMA JobEndsKeeps ==
  ASSUME DagInv, NEW d \in Domains, JobEnds(d)
  PROVE  DagInv'
<1> DEFINE w == NextWatermark(d)
<1>1. /\ job[d] = "running" /\ written[d] = ToWrite(d) /\ check[d] = "success"
      /\ \A e \in Domains : /\ job'[e] = IF e = d THEN "success" ELSE job[e]
                            /\ fetched'[e] = IF e = d THEN {} ELSE fetched[e]
                            /\ written'[e] = IF e = d THEN {} ELSE written[e]
                            /\ watermark'[e] = IF e = d THEN w ELSE watermark[e]
                            /\ waiting'[e] = IF e = d THEN {r \in waiting[d] : r > w}
                                                     ELSE waiting[e]
      /\ dropped' = IF Own \in waiting[d] \ fetched[d] /\ w > Own
                    THEN dropped \cup {d} ELSE dropped
      /\ UNCHANGED <<arrived, check, missed>>
      /\ \A t : Judged(t)' = Judged(t)
  BY DEF JobEnds, outcomeVars, DagInv, DagTypeOK, TasksInOrder, Judged
<1>2. w \in fetched[d] /\ w \in {Older, Own, Newer}
  <2>1. fetched[d] \in SUBSET {Older, Own, Newer} /\ fetched[d] # {}
    BY <1>1 DEF DagInv, DagTypeOK, TasksInOrder
  <2> QED
    BY <2>1, MaxOfRows DEF NextWatermark
<1> HIDE DEF w
\* The own row is written, comes up again, or has just been passed.
<1>3. ASSUME Own \in waiting[d], d \in OrderTables
      PROVE  \/ Own \in waiting'[d] /\ w < Own
             \/ Judged(d)
             \/ d \in dropped'
  <2>1. CASE Own \in fetched[d]
    <3>1. Own \in written[d]
      BY <1>1, <2>1 DEF ToWrite
    <3> QED
      BY <1>3, <3>1 DEF DagInv, OwnRowsKept
  <2>2. CASE Own \notin fetched[d]
    <3>1. w < Own \/ w > Own
      BY <1>2, <2>2 DEF Older, Own, Newer
    <3> QED
      BY <1>1, <1>3, <2>2, <3>1
  <2> QED
    BY <2>1, <2>2
<1>4. "purchase_orders" = d /\ Own \in fetched[d] => Judged(d)
  BY <1>1 DEF ToWrite, DagInv, OwnRowsKept, OrderTables
<1>5. DagTypeOK'
  <2>1. /\ watermark' \in [Domains -> {Older, Own, Newer}]
        /\ waiting' \in [Domains -> SUBSET {Older, Own, Newer}]
    <3>1. /\ watermark \in [Domains -> {Older, Own, Newer}]
          /\ waiting \in [Domains -> SUBSET {Older, Own, Newer}]
      BY DEF DagInv, DagTypeOK
    <3>2. /\ watermark' = [watermark EXCEPT ![d] = w]
          /\ waiting' = [waiting EXCEPT ![d] = {r \in @ : r > w}]
      BY DEF JobEnds, w
    <3> QED
      BY <1>2, <3>1, <3>2
  <2>2. dropped' \in SUBSET Domains
    BY <1>1 DEF DagInv, DagTypeOK
  <2> QED
    BY <1>1, <2>1, <2>2 DEF JobEnds, outcomeVars, DagInv, DagTypeOK, Over
<1>6. TasksInOrder'
  <2>1. ASSUME NEW e \in Domains
        PROVE  /\ job'[e] \in {"running", "success"} => check'[e] = "success"
               /\ check'[e] = "success" /\ job'[e] \in {"none", "running"} => waiting'[e] # {}
               /\ job'[e] = "running" <=> fetched'[e] # {}
               /\ written'[e] \subseteq fetched'[e] /\ fetched'[e] \subseteq waiting'[e]
    <3>1. CASE e = d
      BY <1>1, <3>1
    <3>2. CASE e # d
      <4>1. /\ job'[e] = job[e] /\ fetched'[e] = fetched[e] /\ written'[e] = written[e]
            /\ waiting'[e] = waiting[e] /\ check' = check
        BY <1>1, <3>2
      <4> QED
        BY <4>1 DEF DagInv, TasksInOrder
    <3> QED
      BY <3>1, <3>2
  <2>2. /\ job'["purchase_orders"] = "skipped" => job'["product_on_orders"] = "skipped"
        /\ job'["product_on_orders"] = "running" => job'["purchase_orders"] = "success"
    BY <1>1, OrderDomains DEF DagInv, TasksInOrder
  <2> QED
    BY <2>1, <2>2 DEF TasksInOrder
<1>7. OwnRowsKept'
  <2>1. dropped \subseteq dropped'
    BY <1>1
  <2>2. ASSUME NEW t \in OrderTables
        PROVE  /\ t \in arrived => Own \in waiting'[t] \/ Judged(t)' \/ t \in dropped'
               /\ Own \in waiting'[t] => t \in arrived /\ watermark'[t] < Own
               /\ Own \in written'[t] => Judged(t)'
    <3>1. CASE t = d
      <4>1. Own \in waiting'[d] => Own \in waiting[d] /\ w < Own
        BY <1>1, <1>2 DEF Older, Own, Newer
      <4> QED
        BY <1>1, <1>3, <2>1, <2>2, <3>1, <4>1 DEF DagInv, OwnRowsKept
    <3>2. CASE t # d
      BY <1>1, <2>1, <2>2, <3>2, OrderDomains DEF DagInv, OwnRowsKept
    <3> QED
      BY <3>1, <3>2
  <2> QED
    BY <1>1, <1>4, <2>1, <2>2, OrderDomains DEF DagInv, OwnRowsKept
<1> QED
  BY <1>5, <1>6, <1>7 DEF DagInv

\* An attempt fails: the watermark is where it was.
LEMMA JobFailsKeeps ==
  ASSUME DagInv, NEW d \in Domains, JobFails(d)
  PROVE  DagInv'
<1>1. /\ job[d] = "running"
      /\ \A e \in Domains : /\ e # d => job'[e] = job[e]
                            /\ fetched'[e] = IF e = d THEN {} ELSE fetched[e]
                            /\ written'[e] = IF e = d THEN {} ELSE written[e]
      /\ job'[d] \in {"none", "failed"}
      /\ UNCHANGED <<arrived, waiting, watermark, dropped, check, missed>>
      /\ \A t : Judged(t)' = Judged(t)
  BY DEF JobFails, bronzeVars, outcomeVars, Judged, DagInv, DagTypeOK
<1>2. DagTypeOK'
  BY FailuresAssumption
     DEF JobFails, bronzeVars, outcomeVars, DagInv, DagTypeOK, Over
<1>3. TasksInOrder'
  BY <1>1, OrderDomains DEF DagInv, TasksInOrder
<1>4. OwnRowsKept'
  BY <1>1, OrderDomains DEF DagInv, OwnRowsKept
<1> QED
  BY <1>2, <1>3, <1>4 DEF DagInv

\* Together: no step of bronze or of a silver DAG leaves the invariant.
LEMMA DagStepKeeps == DagInv /\ DagNext => DagInv'
<1> SUFFICES ASSUME DagInv, DagNext PROVE DagInv'
  OBVIOUS
<1>1. ASSUME NEW g, Run(g) PROVE DagInv'
  <2>1. CASE NewRun(g)
    BY <2>1, NewRunKeeps
  <2>2. ASSUME NEW d \in DomainsOf(g), Task(d) PROVE DagInv'
    <3>1. d \in Domains
      BY DEF DomainsOf
    <3> QED
      BY <2>2, <3>1, CheckKeeps, UpstreamFailedKeeps, JobFetchesKeeps, JobEndsKeeps,
         JobWritesKeeps DEF Task
  <2> QED
    BY <1>1, <2>1, <2>2 DEF Run
<1> QED
  BY <1>1, ArrivalKeeps, JobFailsKeeps, CheckKeeps DEF DagNext

-------------------------------------------------------------------------------
(* With gold.                                                              *)

\* Silver keeps its rows.
LEMMA SilverGrows ==
  DagInv /\ DagNext => silver \subseteq silver' /\ silver' \subseteq Followed
<1> SUFFICES ASSUME DagInv, DagNext PROVE silver \subseteq silver'
  BY DagStepKeeps DEF DagInv, DagTypeOK
<1>1. \/ silver' = silver
      \/ \E d \in Domains : \E S : JobWrites(d, S)
  BY DEF DagNext, Run, Task, DomainsOf, OwnArrives, OthersArrive, NewRun, Check,
         UpstreamFailed, JobFetches, JobEnds, JobFails, CheckFails, silverVars, outcomeVars
<1> QED
  BY <1>1 DEF JobWrites, OrderIsJudged

\* Every step of the whole keeps the invariant.
LEMMA GoldStepKeeps == GoldInv /\ [Next]_vars => GoldInv'
<1> SUFFICES ASSUME GoldInv, [Next]_vars PROVE GoldInv'
  OBVIOUS
<1>1. CASE DagNext /\ SilverStep
  <2>1. DagInv' /\ silver \subseteq silver'
    BY <1>1, DagStepKeeps, SilverGrows DEF GoldInv
  <2>2. /\ gold' = gold /\ dbt' = dbt
        /\ overtaken' = (overtaken \/ ("own" \in silver' \ silver /\ "later" \in gold))
    BY <1>1 DEF SilverStep
  <2>3. OnlyOvertakenShutOut'
    BY <2>1, <2>2 DEF GoldInv, OnlyOvertakenShutOut
  <2> QED
    BY <2>1, <2>2, <2>3 DEF GoldInv
<1>2. CASE GoldStarts \/ GoldFails
  <2>1. /\ UNCHANGED <<arrived, waiting, watermark, dropped, check, job, fetched, written,
                       silver, rejected, itemInSilver, quarantined, missed, gold, overtaken>>
        /\ events' \in SUBSET Domains /\ failures' \in 0..MaxFailures
        /\ dbt' \in {"idle", "running"}
    BY <1>2, FailuresAssumption
       DEF GoldStarts, GoldFails, bronzeVars, taskVars, outcomeVars, GoldInv, DagInv, DagTypeOK
  <2>2. DagInv'
    BY <2>1 DEF GoldInv, DagInv, DagTypeOK, TasksInOrder, OwnRowsKept, Judged
  <2> QED
    BY <2>1, <2>2 DEF GoldInv, OnlyOvertakenShutOut
<1>3. CASE GoldBuilds
  <2>1. UNCHANGED <<dagVars, overtaken>> /\ dbt' = "idle" /\ gold' = gold \cup Incremental
    BY <1>3 DEF GoldBuilds
  <2>2. DagInv' = DagInv /\ silver' = silver
    BY <2>1 DEF dagVars, bronzeVars, taskVars, silverVars, outcomeVars, DagInv, DagTypeOK,
                TasksInOrder, OwnRowsKept, Judged
  \* As long as gold has no later row, it takes all that silver has.
  <2>3. OnlyOvertakenShutOut'
    BY <2>1, <2>2 DEF GoldInv, OnlyOvertakenShutOut, Incremental
  <2> QED
    BY <2>1, <2>2, <2>3 DEF GoldInv
<1>4. CASE UNCHANGED vars
  BY <1>4 DEF vars, goldVars, dagVars, bronzeVars, taskVars, silverVars, outcomeVars, GoldInv,
              DagInv, DagTypeOK, TasksInOrder, OwnRowsKept, Judged, OnlyOvertakenShutOut
<1> QED
  BY <1>1, <1>2, <1>3, <1>4 DEF Next, Gold

-------------------------------------------------------------------------------
(* The theorems.                                                           *)

\* The tasks of the silver DAGs run in order, an own row in bronze is settled or waits,
\* whichever attempts fail, unless the watermark passed it before it was committed or
\* read, and gold misses no row of silver but the overtaken.
THEOREM GoldInvariance == Spec => []GoldInv
<1>1. Init => GoldInv
  BY DagInvInit DEF Init, DagInit, GoldInv, OnlyOvertakenShutOut
<1> QED
  BY <1>1, GoldStepKeeps, PTL DEF Spec

\* No row of silver is shut out of gold by the incremental filter unless a later one
\* had been built before it came.
THEOREM ShutOutOnlyOvertaken == Spec => []OnlyOvertakenShutOut
<1>1. GoldInv => OnlyOvertakenShutOut
  BY DEF GoldInv
<1> QED
  BY <1>1, GoldInvariance, PTL

\* A line item is quarantined only if its order was not in bronze when its run fetched
\* the orders, or was passed by the watermark, or rejected.
THEOREM OrphansOnlyByRaces == Spec => OrphansAreRaces
<1> DEFINE Excused == missed' \/ "purchase_orders" \in dropped \/ rejected
<1>1. ASSUME GoldInv, [Next]_vars PROVE [quarantined' # quarantined => Excused]_vars
  <2>1. SUFFICES ASSUME quarantined' # quarantined PROVE Excused
    OBVIOUS
  <2>2. PICK d \in Domains : \E S : JobWrites(d, S)
    BY <1>1, <2>1
       DEF Next, Gold, GoldStarts, GoldBuilds, GoldFails, DagNext, Run, Task, DomainsOf,
           OwnArrives, OthersArrive, NewRun, Check, UpstreamFailed, JobFetches, JobEnds,
           JobFails, CheckFails, vars, dagVars, silverVars, outcomeVars
  <2>3. /\ d = "product_on_orders" /\ "own" \notin silver /\ fetched[d] # {}
        /\ missed' = missed
    BY <2>1, <2>2 DEF JobWrites, ItemIsJudged, Orphan, ToWrite, outcomeVars
  <2>4. job["purchase_orders"] = "success"
    BY <1>1, <2>3 DEF GoldInv, DagInv, TasksInOrder
  <2>5. ~missed => Judged("purchase_orders") \/ "purchase_orders" \in dropped
    BY <1>1, <2>4 DEF GoldInv, DagInv, OwnRowsKept
  <2> QED
    BY <2>3, <2>5 DEF Judged
<1>2. GoldInv /\ [Next]_vars => [quarantined' # quarantined => Excused]_vars
  BY <1>1
<1> QED
  BY <1>2, GoldInvariance, PTL DEF Spec, OrphansAreRaces
===============================================================================
