---------------------------- MODULE InventoryProofs ----------------------------
(***************************************************************************)
(* Theorems about InventoryLoop, for any products, quantities and numbers  *)
(* of sales, refills, failures and restarts.                               *)
(***************************************************************************)
EXTENDS InventoryLoop, SetLemmas

Change == [product : Products, delta : Int, stock : 0..Capacity,
           reason : {"sale", "restock"}]

-------------------------------------------------------------------------------
(* Lemmas about the operators.                                             *)

\* SetToSeq lists each element of a finite set once.
LEMMA SequenceOfSet ==
  ASSUME NEW S, IsFiniteSet(S)
  PROVE  /\ SetToSeq(S) \in [1..Cardinality(S) -> S]
         /\ Cardinality(S) \in Nat
         /\ \A a, b \in 1..Cardinality(S) : SetToSeq(S)[a] = SetToSeq(S)[b] => a = b
<1>1. Cardinality(S) \in Nat /\ ExistsBijection(1..Cardinality(S), S)
  BY FS_CardinalityType
<1>2. \E f \in [1..Cardinality(S) -> S] : IsInjective(f)
  BY <1>1 DEF ExistsBijection, Bijection, Injection, IsInjective
<1>3. SetToSeq(S) \in [1..Cardinality(S) -> S] /\ IsInjective(SetToSeq(S))
  BY <1>2 DEF SetToSeq
<1> QED
  BY <1>1, <1>3 DEF IsInjective

\* What a place in the order of changes is.
LEMMA ChangeFacts ==
  ASSUME TypeOK
  PROVE  /\ Len(changes) \in Nat
         /\ changes \in Seq(Change)
         /\ \A i \in Changes : /\ i \in Nat /\ 0 < i /\ i <= Len(changes)
                               /\ changes[i] \in Change
                               /\ changes[i].product \in Products
                               /\ changes[i].delta \in Int
                               /\ changes[i].stock \in 0..Capacity
                               /\ i \in Of(changes[i].product)
         /\ \A p \in Products : \A i \in Of(p) : i \in Changes /\ changes[i].product = p
<1>1. changes \in Seq(Change)
  BY DEF TypeOK, Change
<1>2. Len(changes) \in Nat /\ \A i \in Changes : changes[i] \in Change
  BY <1>1 DEF Changes
<1>3. \A i \in Changes : i \in Nat /\ 0 < i /\ i <= Len(changes)
  BY <1>2 DEF Changes
<1> QED
  BY <1>1, <1>2, <1>3 DEF Change, Of

\* The part of them that is needed of the next state.
ProductsKnown == \A i \in Changes : changes[i].product \in Products

\* Every change is one of a known product's.
LEMMA ChangesHaveProducts == TypeOK => ProductsKnown
BY ChangeFacts DEF ProductsKnown

\* The change before is the last of the earlier ones of its product, if any.
LEMMA PreviousFacts ==
  ASSUME TypeOK, NEW i \in Changes
  PROVE  /\ Previous(i) \in Nat /\ Previous(i) < i
         /\ Previous(i) # 0 => Previous(i) \in Of(changes[i].product)
         /\ \A j \in Of(changes[i].product) : j < i => j <= Previous(i)
<1> DEFINE S == {0} \cup {j \in Of(changes[i].product) : j < i}
<1>1. Len(changes) \in Nat /\ i \in Nat /\ 0 < i
  BY ChangeFacts
<1>2. S \in SUBSET (0..Len(changes)) /\ S # {}
  BY <1>1 DEF Of, Changes
<1>3. Max(S) \in S /\ \A x \in S : x <= Max(S)
  <2> HIDE DEF S
  <2> QED
    BY <1>1, <1>2, ExtremaUpTo
<1> QED
  BY <1>1, <1>2, <1>3 DEF Previous

\* The batch has a latest row, and the new watermark is its time.
LEMMA WatermarkIsLatest ==
  ASSUME TypeOK, batch # {}
  PROVE  /\ \E i \in batch : NextWatermark = ingestedAt[i]
         /\ \A i \in batch : ingestedAt[i] <= NextWatermark
         /\ NextWatermark \in 0..clock
<1> DEFINE S == {ingestedAt[i] : i \in batch}
<1>1. S \in SUBSET (0..clock) /\ clock \in Nat /\ S # {}
  <2>1. clock \in Nat /\ \A i \in batch : ingestedAt[i] \in 1..clock
    BY DEF TypeOK
  <2> QED
    BY <2>1
<1>2. Max(S) \in S /\ \A x \in S : x <= Max(S)
  <2> HIDE DEF S
  <2> QED
    BY <1>1, ExtremaUpTo
<1>3. NextWatermark = Max(S)
  BY DEF NextWatermark
<1>4. \A i \in batch : ingestedAt[i] \in S
  OBVIOUS
<1>5. \A x \in S : \E i \in batch : x = ingestedAt[i]
  OBVIOUS
<1> HIDE DEF S
<1> QED
  BY <1>1, <1>2, <1>3, <1>4, <1>5

\* The upsert keeps the latest of the row and the partition.
LEMMA NewestFacts ==
  ASSUME TypeOK, NEW p \in Products, NEW S \in SUBSET Changes
  PROVE  /\ Newest(p, S) \in {stockAt[p]} \cup (S \cap Of(p))
         /\ Newest(p, S) \in Nat
         /\ stockAt[p] <= Newest(p, S)
         /\ \A i \in S \cap Of(p) : i <= Newest(p, S)
<1> DEFINE T == {stockAt[p]} \cup (S \cap Of(p))
<1>1. Len(changes) \in Nat
  BY ChangeFacts
<1>2. stockAt[p] \in 0..Len(changes)
  <2>1. stockAt[p] \in {0} \cup Of(p)
    BY DEF TypeOK
  <2> QED
    BY <1>1, <2>1 DEF Of, Changes
<1>3. T \in SUBSET (0..Len(changes)) /\ T # {}
  <2>1. S \in SUBSET (0..Len(changes))
    BY <1>1 DEF Changes
  <2> QED
    BY <1>2, <2>1
<1>4. Max(T) \in T /\ \A x \in T : x <= Max(T)
  <2> HIDE DEF T
  <2> QED
    BY <1>1, <1>3, ExtremaUpTo
<1>5. Newest(p, S) = Max(T)
  BY DEF Newest
<1>6. Newest(p, S) \in T /\ \A x \in T : x <= Newest(p, S)
  <2> HIDE DEF T
  <2> QED
    BY <1>4, <1>5
<1> QED
  BY <1>3, <1>6

\* A sale leaves a stock that the product can have.
LEMMA LeftFacts ==
  ASSUME TypeOK, NEW p \in Products, NEW quantity \in Quantities
  PROVE  Left(p, quantity) \in 0..Capacity
<1> DEFINE T == {qty[p] - quantity, 0}
<1>1. qty[p] \in 0..Capacity /\ quantity \in Nat /\ 0 < quantity /\ Capacity \in Nat
  <2>1. quantity \in Nat \ {0}
    BY QuantitiesAssumption
  <2>2. qty[p] \in 0..Capacity
    BY DEF TypeOK
  <2> QED
    BY <2>1, <2>2, CapacityAssumption
<1>2. T \in SUBSET Int /\ T # {}
  BY <1>1
<1>3. IsFiniteSet(T)
  <2>1. IsFiniteSet({0})
    BY FS_Singleton
  <2>2. IsFiniteSet({0} \cup {qty[p] - quantity})
    BY <2>1, FS_AddElement
  <2>3. T = {0} \cup {qty[p] - quantity}
    OBVIOUS
  <2> QED
    BY <2>2, <2>3
<1>4. Max(T) \in T /\ \A x \in T : x <= Max(T)
  <2> HIDE DEF T
  <2> QED
    BY <1>2, <1>3, MaxOfFinite
<1> QED
  BY <1>1, <1>4 DEF Left

\* The stock that silver shows is one that a change left.
LEMMA StockFacts ==
  ASSUME TypeOK, NEW p \in HasStock
  PROVE  /\ p \in Products
         /\ stockAt[p] \in history \cap Of(p)
         /\ stockAt[p] \in Changes /\ stockAt[p] \in Stored
         /\ Stock(p) \in 0..Capacity
<1>1. p \in Products /\ stockAt[p] > 0
  BY DEF HasStock
<1>2. stockAt[p] \in history \cap Of(p)
  BY <1>1 DEF TypeOK
<1>3. stockAt[p] \in Changes /\ stockAt[p] \in Stored
  BY <1>2 DEF TypeOK
<1> QED
  BY <1>1, <1>2, <1>3, ChangeFacts DEF Stock

-------------------------------------------------------------------------------
(* Refills.                                                                *)

\* What a transaction of the restock check adds: one refill per product that is
\* due, at the end of the changes, and stored at once.
RefillsAdded ==
  /\ changes' \in Seq(Change)
  /\ Len(changes) <= Len(changes')
  /\ \A i \in Changes : changes'[i] = changes[i]
  /\ \A i \in Changes' \ Changes :
       \E p \in Due : p \in Products /\ changes'[i] = Refill(p)
  /\ \A i, k \in Changes' \ Changes :
       changes'[i].product = changes'[k].product => i = k
  /\ clock' = clock + 1
  /\ Stored' = Stored \cup (Changes' \ Changes)
  /\ \A i \in Stored : ingestedAt'[i] = ingestedAt[i]
  /\ \A i \in Changes' \ Changes : ingestedAt'[i] = clock'
  /\ quiet' = quiet \cup {i \in Changes' \ Changes :
                            \A j \in Of(changes'[i].product) : Passed(j)}

\* The order that SetToSeq picks for the products does not matter.
LEMMA RestockAdds == TypeOK /\ Restock => RefillsAdded
<1> SUFFICES ASSUME TypeOK, Restock PROVE RefillsAdded
  OBVIOUS
<1> DEFINE n == Len(changes)
           c == Cardinality(Due)
           refills == {Refill(p) : p \in Due}
           s == SetToSeq(refills)
<1>1. n \in Nat /\ changes \in Seq(Change)
  BY ChangeFacts
<1>2. \A p \in Due : /\ p \in Products /\ p \in HasStock
                     /\ Refill(p) \in Change
                     /\ Refill(p).product = p
  <2> SUFFICES ASSUME NEW p \in Due
               PROVE  /\ p \in Products /\ p \in HasStock
                      /\ Refill(p) \in Change /\ Refill(p).product = p
    OBVIOUS
  <2>1. p \in HasStock
    BY DEF Due
  <2>2. p \in Products /\ Stock(p) \in 0..Capacity
    BY <2>1, StockFacts
  <2>3. Target - Stock(p) \in Int /\ Target \in 0..Capacity
    BY <2>2, CapacityAssumption
  <2> QED
    BY <2>1, <2>2, <2>3 DEF Refill, Change
<1>3. IsFiniteSet(Due) /\ c \in Nat
  <2>1. Due \in SUBSET Products
    BY <1>2
  <2>2. IsFiniteSet(Due)
    BY <2>1, ProductsAssumption, FS_Subset
  <2> QED
    BY <2>2, FS_CardinalityType
<1>4. IsFiniteSet(refills) /\ Cardinality(refills) = c
  <2> DEFINE f == [p \in Due |-> Refill(p)]
  <2>1. f \in Bijection(Due, refills)
    <3>1. f \in [Due -> refills] /\ \A r \in refills : \E p \in Due : f[p] = r
      OBVIOUS
    <3>2. \A a, b \in Due : f[a] = f[b] => a = b
      BY <1>2
    <3> HIDE DEF f, refills
    <3> QED
      BY <3>1, <3>2 DEF Bijection, Injection, Surjection, IsInjective
  <2>2. ExistsBijection(Due, refills)
    BY <2>1 DEF ExistsBijection
  <2> HIDE DEF refills
  <2> QED
    BY <1>3, <2>2, FS_Bijection
<1>5. /\ s \in [1..c -> refills]
      /\ \A a, b \in 1..c : s[a] = s[b] => a = b
  <2> HIDE DEF refills
  <2> QED
    BY <1>4, SequenceOfSet
<1>6. \A a \in 1..c : \E p \in Due : s[a] = Refill(p)
  BY <1>5
<1>7. s \in Seq(Change) /\ Len(s) = c
  <2>1. \A a \in 1..c : s[a] \in Change
    BY <1>2, <1>6
  <2>2. s \in [1..c -> Change]
    BY <1>5, <2>1
  <2> HIDE DEF s
  <2> QED
    BY <1>3, <2>2
<1>8. changes' = changes \o s
  BY DEF Restock
<1>9. /\ changes' \in Seq(Change) /\ Len(changes') = n + c
      /\ \A i \in 1..n : changes'[i] = changes[i]
      /\ \A i \in n + 1 .. n + c : changes'[i] = s[i - n]
  <2> HIDE DEF s, c
  <2> QED
    BY <1>1, <1>3, <1>7, <1>8
<1>10. Changes' = 1..(n + c) /\ Changes' \ Changes = n + 1 .. n + c
  BY <1>1, <1>3, <1>9 DEF Changes
<1>11. \A i \in Changes' \ Changes : \E p \in Due : p \in Products /\ changes'[i] = Refill(p)
  <2>1. \A i \in n + 1 .. n + c : i - n \in 1..c
    BY <1>1, <1>3
  <2> HIDE DEF s, c, n
  <2> QED
    BY <1>2, <1>6, <1>9, <1>10, <2>1
<1>12. ASSUME NEW i \in Changes' \ Changes, NEW k \in Changes' \ Changes,
              changes'[i].product = changes'[k].product
       PROVE  i = k
  <2>1. i - n \in 1..c /\ k - n \in 1..c
    BY <1>1, <1>3, <1>10
  <2>2. changes'[i] = s[i - n] /\ changes'[k] = s[k - n]
    BY <1>9, <1>10
  <2>3. changes'[i] = changes'[k]
    BY <1>2, <1>11, <1>12
  <2>4. i - n = k - n
    <3> HIDE DEF s, c, n
    <3> QED
      BY <1>5, <2>1, <2>2, <2>3
  <2> QED
    BY <1>1, <1>10, <2>4
<1>13. /\ clock' = clock + 1
       /\ ingestedAt' = [i \in Stored \cup (n + 1 .. n + c) |->
                           IF i \in Stored THEN ingestedAt[i] ELSE clock']
       /\ quiet' = quiet \cup {i \in n + 1 .. n + c :
                                 \A j \in Of(changes'[i].product) : Passed(j)}
  BY DEF Restock, Ingest
<1>14. Stored \subseteq Changes
  BY DEF TypeOK
<1>15. /\ Stored' = Stored \cup (Changes' \ Changes)
       /\ \A i \in Stored : ingestedAt'[i] = ingestedAt[i]
       /\ \A i \in Changes' \ Changes : ingestedAt'[i] = clock'
  BY <1>10, <1>13, <1>14 DEF Stored
<1>16. Len(changes) <= Len(changes') /\ \A i \in Changes : changes'[i] = changes[i]
  <2> HIDE DEF c
  <2> QED
    BY <1>1, <1>3, <1>9 DEF Changes
<1> QED
  BY <1>9, <1>10, <1>11, <1>12, <1>13, <1>15, <1>16 DEF RefillsAdded

-------------------------------------------------------------------------------
(* Types.                                                                  *)

\* The parts of TypeOK that are about what is stored of the changes.
ChangeTypes ==
  /\ changes \in Seq(Change)
  /\ clock \in Nat
  /\ Stored \subseteq Changes /\ reading \subseteq Changes \ Stored
  /\ \A i \in Stored : ingestedAt[i] \in 1..clock
  /\ \A i \in Changes : changes[i].reason = "restock" => i \in Stored

JobTypes ==
  /\ pc \in {"idle", "history", "stock", "watermark", "restock"}
  /\ batch \subseteq Stored /\ valid \subseteq batch /\ todo \subseteq valid
  /\ history \subseteq Stored /\ quarantined \subseteq Stored
  /\ stockAt \in [Products -> Nat]
  /\ \A p \in Products : stockAt[p] \in {0} \cup (history \cap Of(p))
  /\ watermark \in 0..clock
  /\ retried \subseteq Stored /\ quiet \subseteq Stored

ProductTypes ==
  /\ {sent, fresh, taken} \subseteq [Products -> SUBSET Nat]
  /\ {events, shown} \subseteq [Products -> Nat]
  /\ \A p \in Products :
       /\ sent[p] \cup fresh[p] \cup taken[p] \cup {shown[p]} \subseteq 0..events[p]
       /\ sent[p] \cap fresh[p] = {}
       /\ taken[p] \subseteq fresh[p]
  /\ low \subseteq Products
  /\ flag \in [Products -> BOOLEAN]

ProcessTypes ==
  /\ catalog \subseteq Products
  /\ qty \in [Products -> 0..Capacity]
  /\ process \in 1..MaxDisruptions + 1
  /\ failures \in 0..MaxDisruptions

\* TypeOK is the conjunction of four parts, each about one process's variables.
LEMMA TypeParts == TypeOK <=> ChangeTypes /\ JobTypes /\ ProductTypes /\ ProcessTypes
BY DEF TypeOK, ChangeTypes, JobTypes, ProductTypes, ProcessTypes, Change

\* The same of the next state.
LEMMA TypePartsNext ==
  TypeOK' <=> ChangeTypes' /\ JobTypes' /\ ProductTypes' /\ ProcessTypes'
BY TypeParts, PTL

\* Nothing that the parts speak of changes.
LEMMA TypeFrames ==
  ASSUME TypeOK
  PROVE  /\ UNCHANGED <<changes, bronzeVars>> => ChangeTypes'
         /\ UNCHANGED <<changes, ingestedAt, clock, jobVars, silverVars, retried, quiet>>
              => JobTypes'
         /\ UNCHANGED productVars => ProductTypes'
         /\ UNCHANGED <<catalog, qty, process, failures>> => ProcessTypes'
<1>1. ChangeTypes /\ JobTypes /\ ProductTypes /\ ProcessTypes
  BY TypeParts
<1>2. UNCHANGED <<changes, bronzeVars>> => ChangeTypes'
  BY <1>1 DEF ChangeTypes, bronzeVars, Stored, Changes
<1>3. UNCHANGED <<changes, ingestedAt, clock, jobVars, silverVars, retried, quiet>> => JobTypes'
  BY <1>1 DEF JobTypes, jobVars, silverVars, Stored, Of, Changes
<1>4. UNCHANGED productVars => ProductTypes'
  BY <1>1 DEF ProductTypes, productVars
<1>5. UNCHANGED <<catalog, qty, process, failures>> => ProcessTypes'
  BY <1>1 DEF ProcessTypes
<1> QED
  BY <1>2, <1>3, <1>4, <1>5

\* Changes are only added, at the end, and rows are only stored; nothing that the
\* inventory job writes is touched.
Grows ==
  /\ Len(changes) <= Len(changes') /\ Len(changes') \in Nat
  /\ \A i \in Changes : changes'[i] = changes[i]
  /\ Stored \subseteq Stored'
  /\ \A i \in Stored : ingestedAt'[i] = ingestedAt[i]
  /\ clock' \in Nat /\ clock <= clock'
  /\ \A i \in Stored' \ Stored : ingestedAt'[i] = clock' /\ clock < clock'
  /\ Working => \A i \in Changes' \ Changes : changes'[i].reason # "restock"
  /\ UNCHANGED <<batch, valid, todo, silverVars, retried>>
  /\ pc' = pc \/ (pc = "restock" /\ pc' = "idle")

\* Earlier changes keep their places in what was added to.
LEMMA GrowsFacts ==
  ASSUME TypeOK, Grows
  PROVE  /\ Changes \subseteq Changes'
         /\ \A i \in Changes' \ Changes : Len(changes) < i
         /\ \A p \in Products : Of(p) = Of(p)' \cap Changes
<1>1. Len(changes) \in Nat /\ Len(changes') \in Nat /\ Len(changes) <= Len(changes')
  BY ChangeFacts DEF Grows
<1>2. Changes \subseteq Changes' /\ \A i \in Changes' \ Changes : Len(changes) < i
  BY <1>1 DEF Changes
<1> QED
  BY <1>2 DEF Grows, Of

\* Then the job's rows are still what they were.
LEMMA GrowsJobTypes ==
  ASSUME TypeOK, Grows, quiet' \subseteq Stored'
  PROVE  JobTypes'
<1>1. JobTypes /\ ChangeTypes
  BY TypeParts
<1>2. \A p \in Products : Of(p) \subseteq Of(p)'
  BY GrowsFacts
<1>3. \A p \in Products : stockAt'[p] \in {0} \cup (history' \cap Of(p)')
  BY <1>1, <1>2 DEF JobTypes, Grows, silverVars
<1>4. watermark' \in 0..clock'
  BY <1>1 DEF JobTypes, ChangeTypes, Grows, silverVars
<1> QED
  BY <1>1, <1>3, <1>4 DEF JobTypes, Grows, silverVars

\* Steps that neither add a change nor store one nor run the inventory job.
Elsewhere ==
  /\ UNCHANGED <<changes, ingestedAt, clock, batch, valid, todo, silverVars, retried, quiet>>
  /\ \/ pc' = pc
     \/ pc = "restock" /\ pc' = "idle"
  /\ failures <= failures'

\* A step that touches neither the changes nor silver is a case of growth by nothing.
LEMMA ElsewhereGrows == TypeOK /\ Elsewhere => Grows
<1> SUFFICES ASSUME TypeOK, Elsewhere PROVE Grows
  OBVIOUS
<1>1. Len(changes) \in Nat /\ clock \in Nat
  BY ChangeFacts DEF TypeOK
<1>2. Stored' = Stored /\ Changes' = Changes
  BY DEF Elsewhere, Stored, Changes
<1> QED
  BY <1>1, <1>2 DEF Elsewhere, Grows

\* Steps of the generator's updates, of the bronze job that only reads, and of the
\* products job are such.
ElsewhereStep ==
  \/ \E p \in Products : Update(p)
  \/ Restart
  \/ BronzeReads \/ BronzeFails
  \/ \E p \in Products : \E k \in sent[p] : ProductEventStored(p, k)
  \/ ProductsRead \/ \E p \in Products : ProductsUpsert(p)
  \/ ProductsWatermark \/ ProductsFail
  \/ RestockFails
  \/ UNCHANGED vars

\* The processes around the inventory job leave its rows and tables alone.
LEMMA StepsElsewhere == TypeOK /\ ElsewhereStep => Elsewhere
<1> SUFFICES ASSUME TypeOK, ElsewhereStep PROVE Elsewhere
  OBVIOUS
<1>1. failures \in Nat
  BY BoundsAssumption DEF TypeOK
<1> QED
  BY <1>1 DEF Elsewhere, ElsewhereStep, Update, Restart, BronzeReads, BronzeFails,
     ProductEventStored, ProductsRead, ProductsUpsert, ProductsWatermark, ProductsFail,
     RestockFails, vars, generatorVars, bronzeVars, jobVars, silverVars, productVars,
     historyVars

\* They keep the types.
LEMMA ElsewhereTypes == TypeOK /\ ElsewhereStep => TypeOK'
<1> SUFFICES ASSUME TypeOK, ElsewhereStep PROVE TypeOK'
  OBVIOUS
<1>1. ChangeTypes /\ JobTypes /\ ProductTypes /\ ProcessTypes
  BY TypeParts
<1>2. Elsewhere /\ Grows
  BY StepsElsewhere, ElsewhereGrows
<1>3. JobTypes'
  <2>1. quiet' \subseteq Stored'
    BY <1>1, <1>2 DEF Elsewhere, JobTypes, Stored
  <2> QED
    BY <1>2, <2>1, GrowsJobTypes
<1>4. ChangeTypes'
  <2>1. CASE BronzeReads
    BY <1>1, <2>1 DEF BronzeReads, ChangeTypes, generatorVars, Stored, Changes
  <2>2. CASE BronzeFails
    BY <1>1, <2>2 DEF BronzeFails, ChangeTypes, generatorVars, Stored, Changes
  <2>3. CASE UNCHANGED <<changes, bronzeVars>>
    BY <2>3, TypeFrames
  <2> QED
    BY <2>1, <2>2, <2>3 DEF ElsewhereStep, Update, Restart, ProductEventStored,
       ProductsRead, ProductsUpsert, ProductsWatermark, ProductsFail, RestockFails,
       vars, generatorVars
<1>5. ProcessTypes'
  <2>1. /\ MaxDisruptions \in Nat /\ failures \in Nat /\ process \in Nat /\ 1 <= process
        /\ failures <= MaxDisruptions
    BY BoundsAssumption DEF TypeOK
  <2>2. CASE Restart
    <3>1. \A p \in Products :
            (IF p \in HasStock THEN Stock(p) ELSE Capacity) \in 0..Capacity
      BY StockFacts, CapacityAssumption
    <3>2. process + 1 \in 1..MaxDisruptions + 1
      BY <2>1, <2>2 DEF Restart, Undisturbed
    <3>3. InSilver \subseteq Products
      BY DEF InSilver
    <3>4. failures' = failures
      BY <2>2 DEF Restart, historyVars
    <3> QED
      BY <1>1, <2>2, <3>1, <3>2, <3>3, <3>4 DEF Restart, ProcessTypes
  <2>3. CASE UNCHANGED <<catalog, qty, process, failures>>
    BY <2>3, TypeFrames
  <2>4. CASE Undisturbed /\ failures' = failures + 1 /\ UNCHANGED <<catalog, qty, process>>
    <3>1. failures' \in 0..MaxDisruptions
      BY <2>1, <2>4 DEF Undisturbed
    <3> QED
      BY <1>1, <2>4, <3>1 DEF ProcessTypes
  <2> QED
    BY <2>2, <2>3, <2>4 DEF ElsewhereStep, Update, BronzeReads, BronzeFails,
       ProductEventStored, ProductsRead, ProductsUpsert, ProductsWatermark,
       ProductsFail, RestockFails, vars, generatorVars, historyVars
<1>6. ProductTypes'
  <2>0. \A p \in Products :
          /\ events[p] \in Nat /\ shown[p] \in Nat
          /\ sent[p] \in SUBSET Nat /\ fresh[p] \in SUBSET Nat /\ taken[p] \in SUBSET Nat
          /\ sent[p] \subseteq 0..events[p] /\ fresh[p] \subseteq 0..events[p]
          /\ taken[p] \subseteq fresh[p] /\ shown[p] <= events[p]
          /\ sent[p] \cap fresh[p] = {}
    BY <1>1 DEF ProductTypes
  <2>1. ASSUME NEW p \in Products, Update(p) PROVE ProductTypes'
    <3>1. /\ events' = [events EXCEPT ![p] = @ + 1]
          /\ sent' = [sent EXCEPT ![p] = @ \cup {events[p] + 1}]
          /\ UNCHANGED <<fresh, taken, shown, low, flag>>
      BY <1>1, <2>1 DEF Update, ProductTypes
    <3>2. events' \in [Products -> Nat] /\ sent' \in [Products -> SUBSET Nat]
      BY <1>1, <2>0, <3>1 DEF ProductTypes
    <3>3. ASSUME NEW q \in Products
          PROVE  /\ sent'[q] \cup fresh'[q] \cup taken'[q] \cup {shown'[q]} \subseteq 0..events'[q]
                 /\ sent'[q] \cap fresh'[q] = {}
                 /\ taken'[q] \subseteq fresh'[q]
      <4>1. /\ events'[q] = IF q = p THEN events[p] + 1 ELSE events[q]
            /\ sent'[q] = IF q = p THEN sent[p] \cup {events[p] + 1} ELSE sent[q]
            /\ fresh'[q] = fresh[q] /\ taken'[q] = taken[q] /\ shown'[q] = shown[q]
        BY <1>1, <3>1 DEF ProductTypes
      <4>2. 0..events[q] \subseteq 0..events'[q]
        BY <2>0, <4>1
      <4>3. events[p] + 1 \notin fresh[p] /\ events[p] + 1 \in Nat
        BY <2>0
      <4>4. sent'[q] \subseteq 0..events'[q] /\ sent'[q] \cap fresh'[q] = {}
        BY <2>0, <4>1, <4>2, <4>3
      <4>5. shown[q] \in 0..events[q]
        BY <2>0
      <4> QED
        BY <2>0, <4>1, <4>2, <4>4, <4>5
    <3> QED
      BY <1>1, <3>1, <3>2, <3>3 DEF ProductTypes
  <2>2. ASSUME NEW p \in Products, NEW k \in sent[p], ProductEventStored(p, k)
        PROVE  ProductTypes'
    <3>1. /\ sent' = [sent EXCEPT ![p] = @ \ {k}]
          /\ fresh' = [fresh EXCEPT ![p] = @ \cup {k}]
          /\ UNCHANGED <<events, taken, shown, low, flag>>
      BY <2>2 DEF ProductEventStored
    <3>2. sent' \in [Products -> SUBSET Nat] /\ fresh' \in [Products -> SUBSET Nat]
      BY <1>1, <2>0, <3>1 DEF ProductTypes
    <3>3. ASSUME NEW q \in Products
          PROVE  /\ sent'[q] \cup fresh'[q] \cup taken'[q] \cup {shown'[q]} \subseteq 0..events'[q]
                 /\ sent'[q] \cap fresh'[q] = {}
                 /\ taken'[q] \subseteq fresh'[q]
      <4>1. /\ sent'[q] = IF q = p THEN sent[p] \ {k} ELSE sent[q]
            /\ fresh'[q] = IF q = p THEN fresh[p] \cup {k} ELSE fresh[q]
            /\ events'[q] = events[q] /\ taken'[q] = taken[q] /\ shown'[q] = shown[q]
        BY <1>1, <3>1 DEF ProductTypes
      <4>2. shown[q] \in 0..events[q]
        BY <2>0
      <4> QED
        BY <2>0, <4>1, <4>2
    <3> QED
      BY <1>1, <3>1, <3>2, <3>3 DEF ProductTypes
  <2>3. CASE ProductsRead
    <3>1. taken' = fresh /\ low' \subseteq Products
      BY <2>3 DEF ProductsRead, HasStock
    <3>2. UNCHANGED <<events, sent, fresh, shown, flag>>
      BY <2>3 DEF ProductsRead
    <3> QED
      BY <1>1, <3>1, <3>2 DEF ProductTypes
  <2>4. ASSUME NEW p \in Products, ProductsUpsert(p) PROVE ProductTypes'
    <3>1. /\ shown' = [shown EXCEPT ![p] = Max(taken[p])]
          /\ flag' = [flag EXCEPT ![p] = p \in low]
          /\ taken[p] # {}
          /\ UNCHANGED <<events, sent, fresh, taken, low>>
      BY <2>4 DEF ProductsUpsert, Stale
    <3>2. Max(taken[p]) \in taken[p]
      <4>1. taken[p] \in SUBSET (0..events[p]) /\ events[p] \in Nat
        BY <2>0
      <4> QED
        BY <3>1, <4>1, ExtremaUpTo
    <3>3. Max(taken[p]) \in 0..events[p] /\ Max(taken[p]) \in Nat
      BY <2>0, <3>2
    <3>4. shown' \in [Products -> Nat] /\ flag' \in [Products -> BOOLEAN]
      BY <1>1, <3>1, <3>3 DEF ProductTypes
    <3>5. \A q \in Products : shown'[q] = IF q = p THEN Max(taken[p]) ELSE shown[q]
      BY <1>1, <3>1 DEF ProductTypes
    <3>6. \A q \in Products : shown'[q] \in 0..events[q]
      BY <2>0, <3>3, <3>5
    <3> QED
      BY <1>1, <3>1, <3>4, <3>6 DEF ProductTypes
  <2>5. CASE ProductsWatermark \/ ProductsFail
    <3>1. /\ taken' = [q \in Products |-> {}] /\ low' = {}
          /\ UNCHANGED <<events, sent, shown, flag>>
          /\ fresh' \in [Products -> SUBSET Nat]
          /\ \A q \in Products : fresh'[q] \subseteq fresh[q]
      BY <1>1, <2>0, <2>5 DEF ProductsWatermark, ProductsFail, EndProducts, ProductTypes
    <3> QED
      BY <1>1, <3>1 DEF ProductTypes
  <2>6. CASE UNCHANGED productVars
    BY <2>6, TypeFrames
  <2> QED
    BY <2>1, <2>2, <2>3, <2>4, <2>5, <2>6 DEF ElsewhereStep, Restart, BronzeReads,
       BronzeFails, RestockFails, vars
<1> QED
  BY <1>3, <1>4, <1>5, <1>6, TypePartsNext

\* A sale adds one change at the end, which is not stored.
LEMMA SaleAdds ==
  ASSUME TypeOK, NEW p \in Products, NEW quantity \in Quantities, Sale(p, quantity)
  PROVE  /\ Grows
         /\ Changes' = Changes \cup {Len(changes) + 1} /\ Len(changes) + 1 \notin Changes
         /\ changes'[Len(changes) + 1].reason = "sale"
         /\ UNCHANGED <<ingestedAt, clock, pc, quiet, failures>>
         /\ TypeOK'
<1> DEFINE n == Len(changes)
           row == [product |-> p, delta |-> -quantity, stock |-> qty'[p], reason |-> "sale"]
<1>1. ChangeTypes /\ JobTypes /\ ProductTypes /\ ProcessTypes
  BY TypeParts
<1>2. /\ qty' = [qty EXCEPT ![p] = Left(p, quantity)]
      /\ changes' = Append(changes, row)
      /\ UNCHANGED <<catalog, process, bronzeVars, jobVars, silverVars, productVars,
                     historyVars>>
  BY DEF Sale
<1>3. Left(p, quantity) \in 0..Capacity
  BY LeftFacts
<1>4. qty' \in [Products -> 0..Capacity] /\ qty'[p] \in 0..Capacity
  BY <1>1, <1>2, <1>3 DEF ProcessTypes
<1>5. row \in Change
  <2>1. -quantity \in Int
    <3>1. quantity \in Nat
      BY QuantitiesAssumption
    <3> QED
      BY <3>1
  <2> QED
    BY <1>4, <2>1 DEF Change
<1>6. n \in Nat /\ changes \in Seq(Change)
  BY ChangeFacts
<1>7. /\ changes' \in Seq(Change) /\ Len(changes') = n + 1
      /\ \A i \in 1..n : changes'[i] = changes[i]
      /\ changes'[n + 1] = row
  <2> HIDE DEF row
  <2> QED
    BY <1>2, <1>5, <1>6
<1>8. Changes' = Changes \cup {n + 1} /\ n + 1 \notin Changes
  BY <1>6, <1>7 DEF Changes
<1>9. Stored' = Stored
  BY <1>2 DEF Stored, bronzeVars
<1>10. Grows
  <2>1. n <= Len(changes') /\ Len(changes') \in Nat
    BY <1>6, <1>7
  <2>2. \A i \in Changes : changes'[i] = changes[i]
    BY <1>7 DEF Changes
  <2>3. \A i \in Changes' \ Changes : changes'[i].reason # "restock"
    BY <1>7, <1>8
  <2>4. clock' \in Nat /\ clock <= clock'
    BY <1>1, <1>2 DEF ChangeTypes, bronzeVars
  <2> QED
    BY <1>2, <1>9, <2>1, <2>2, <2>3, <2>4 DEF Grows, bronzeVars, jobVars, historyVars
<1>11. ChangeTypes'
  <2>1. \A i \in Changes' : changes'[i].reason = "restock" => i \in Stored'
    BY <1>1, <1>7, <1>8, <1>9, <1>10 DEF ChangeTypes, Grows
  <2>2. reading' \subseteq Changes' \ Stored' /\ Stored' \subseteq Changes'
    BY <1>1, <1>2, <1>8, <1>9 DEF ChangeTypes, bronzeVars
  <2> QED
    BY <1>1, <1>2, <1>7, <1>9, <2>1, <2>2 DEF ChangeTypes, bronzeVars
<1>12. JobTypes'
  <2>1. quiet' \subseteq Stored'
    BY <1>1, <1>2, <1>9 DEF JobTypes, historyVars
  <2> QED
    BY <1>10, <2>1, GrowsJobTypes
<1>13. ProcessTypes'
  BY <1>1, <1>2, <1>4 DEF ProcessTypes, historyVars
<1>14. ProductTypes'
  BY <1>2, TypeFrames
<1>15. TypeOK'
  BY <1>11, <1>12, <1>13, <1>14, TypePartsNext
<1>16. changes'[n + 1].reason = "sale"
  BY <1>7
<1> QED
  BY <1>2, <1>8, <1>10, <1>15, <1>16 DEF bronzeVars, jobVars, historyVars

\* A commit of the bronze job stores rows, which the watermark has not passed.
LEMMA BronzeAdds ==
  ASSUME TypeOK, NEW S \in SUBSET reading, BronzeCommits(S)
  PROVE  /\ Grows
         /\ UNCHANGED <<changes, pc, quiet, failures>>
         /\ TypeOK'
<1>1. ChangeTypes /\ JobTypes /\ ProductTypes /\ ProcessTypes
  BY TypeParts
<1>2. /\ reading' = reading \ S /\ Stored' = Stored \cup S
      /\ clock' = clock + 1
      /\ \A i \in Stored' : ingestedAt'[i] = IF i \in Stored THEN ingestedAt[i] ELSE clock'
      /\ UNCHANGED <<generatorVars, jobVars, silverVars, productVars, historyVars>>
  BY DEF BronzeCommits, Ingest, Stored
<1>3. Changes' = Changes /\ changes' = changes
  BY <1>2 DEF Changes, generatorVars
<1>4. Len(changes) \in Nat /\ clock \in Nat
  BY <1>1, ChangeFacts DEF ChangeTypes
<1>5. Grows
  BY <1>2, <1>3, <1>4 DEF Grows, jobVars, historyVars
<1>6. ChangeTypes'
  <2>1. \A i \in Stored' : ingestedAt'[i] \in 1..clock'
    BY <1>1, <1>2, <1>4 DEF ChangeTypes
  <2>2. S \subseteq Changes \ Stored
    BY <1>1 DEF ChangeTypes
  <2> QED
    BY <1>1, <1>2, <1>3, <1>4, <2>1, <2>2 DEF ChangeTypes
<1>7. JobTypes'
  <2>1. quiet' \subseteq Stored'
    BY <1>1, <1>2 DEF JobTypes, historyVars
  <2> QED
    BY <1>5, <2>1, GrowsJobTypes
<1>8. ProcessTypes' /\ ProductTypes'
  BY <1>2, TypeFrames DEF generatorVars, historyVars
<1> QED
  BY <1>2, <1>3, <1>5, <1>6, <1>7, <1>8, TypePartsNext DEF jobVars, historyVars

\* So does the check that refills; the end of its task may have been counted as a
\* failure.
Refilling ==
  /\ Restock
  /\ pc = "restock" /\ pc' \in {"restock", "idle"}
  /\ \/ failures' = failures /\ pc' = "idle"
     \/ Undisturbed /\ failures' = failures + 1
  /\ UNCHANGED <<catalog, qty, process, reading, batch, valid, todo, silverVars, sent,
                 taken, low, shown, flag, retried>>

\* A restock check, repeated or not, either refills or finds nothing due.
LEMMA RestockSteps ==
  ASSUME RestockCheck \/ RestockRepeats
  PROVE  \/ Refilling
         \/ RestockCheck /\ UNCHANGED <<changes, ingestedAt, clock, events, fresh, quiet>>
BY DEF RestockCheck, RestockRepeats, Refilling, jobVars

\* Refills are new changes at the end, which are stored at once with a new time.
LEMMA RefillingAdds ==
  ASSUME TypeOK, Refilling
  PROVE  Grows /\ RefillsAdded /\ TypeOK'
<1>1. ChangeTypes /\ JobTypes /\ ProductTypes /\ ProcessTypes
  BY TypeParts
<1>2. RefillsAdded
  BY RestockAdds DEF Refilling
<1>3. Len(changes) \in Nat /\ Len(changes') \in Nat /\ clock \in Nat
  BY <1>1, <1>2, ChangeFacts DEF RefillsAdded, ChangeTypes
<1>4. Grows
  BY <1>2, <1>3 DEF Grows, RefillsAdded, Refilling, Working
<1>5. Changes \subseteq Changes'
  BY <1>4, GrowsFacts
<1>6. ChangeTypes'
  <2>1. \A i \in Stored' : ingestedAt'[i] \in 1..clock'
    BY <1>1, <1>2, <1>3 DEF ChangeTypes, RefillsAdded
  <2>2. reading' \subseteq Changes' \ Stored' /\ Stored' \subseteq Changes'
    BY <1>1, <1>2, <1>5 DEF ChangeTypes, RefillsAdded, Refilling
  <2>3. \A i \in Changes' : changes'[i].reason = "restock" => i \in Stored'
    BY <1>1, <1>2 DEF ChangeTypes, RefillsAdded
  <2> QED
    BY <1>2, <1>3, <2>1, <2>2, <2>3 DEF ChangeTypes, RefillsAdded
<1>7. JobTypes'
  <2>1. quiet' \subseteq Stored'
    BY <1>1, <1>2 DEF JobTypes, RefillsAdded
  <2> QED
    BY <1>4, <2>1, GrowsJobTypes
<1>8. ProcessTypes'
  <2>1. /\ MaxDisruptions \in Nat /\ failures \in 0..MaxDisruptions /\ process \in Nat
        /\ 1 <= process
    BY BoundsAssumption DEF TypeOK
  <2>2. failures' \in 0..MaxDisruptions
    BY <2>1 DEF Refilling, Undisturbed
  <2> QED
    BY <1>1, <2>2 DEF ProcessTypes, Refilling
<1>9. ProductTypes'
  <2>1. /\ events' = [p \in Products |-> IF p \in Due THEN events[p] + 1 ELSE events[p]]
        /\ fresh' = [p \in Products |->
                       IF p \in Due THEN fresh[p] \cup {events'[p]} ELSE fresh[p]]
        /\ UNCHANGED <<sent, taken, shown, low, flag>>
    BY DEF Refilling, Restock
  <2>2. \A p \in Products :
          /\ events[p] \in Nat /\ shown[p] \in 0..events[p]
          /\ sent[p] \in SUBSET Nat /\ fresh[p] \in SUBSET Nat /\ taken[p] \in SUBSET Nat
          /\ sent[p] \subseteq 0..events[p] /\ fresh[p] \subseteq 0..events[p]
          /\ taken[p] \subseteq fresh[p]
          /\ sent[p] \cap fresh[p] = {}
    BY <1>1 DEF ProductTypes
  <2>3. ASSUME NEW q \in Products
        PROVE  /\ events'[q] \in Nat /\ fresh'[q] \in SUBSET Nat
               /\ sent[q] \cup fresh'[q] \cup taken[q] \cup {shown[q]} \subseteq 0..events'[q]
               /\ sent[q] \cap fresh'[q] = {}
               /\ taken[q] \subseteq fresh'[q]
    <3>1. CASE q \in Due
      <4>1. events'[q] = events[q] + 1 /\ fresh'[q] = fresh[q] \cup {events[q] + 1}
        BY <2>1, <3>1
      <4>2. events[q] + 1 \notin sent[q]
        BY <2>2
      <4>3. events'[q] \in Nat /\ 0..events[q] \subseteq 0..events'[q]
            /\ events[q] + 1 \in 0..events'[q]
        BY <2>2, <4>1
      <4> QED
        BY <2>2, <4>1, <4>2, <4>3
    <3>2. CASE q \notin Due
      <4>1. events'[q] = events[q] /\ fresh'[q] = fresh[q]
        BY <2>1, <3>2
      <4> QED
        BY <2>2, <4>1
    <3> QED
      BY <3>1, <3>2
  <2>4. events' \in [Products -> Nat] /\ fresh' \in [Products -> SUBSET Nat]
    BY <2>1, <2>3
  <2> QED
    BY <1>1, <2>1, <2>3, <2>4 DEF ProductTypes
<1> QED
  BY <1>2, <1>4, <1>6, <1>7, <1>8, <1>9, TypePartsNext

-------------------------------------------------------------------------------
(* What a run of the inventory job does to the types.                      *)

Abandoned ==
  /\ Abandon
  /\ \/ failures' = failures
     \/ Undisturbed /\ failures' = failures + 1

\* The steps of the inventory job.
JobStep ==
  \/ Validate
  \/ \E S \in SUBSET todo : AppendHistory(S) \/ UpsertStock(S)
  \/ WriteWatermark
  \/ pc \in {"history", "stock", "watermark"} /\ Abandoned

\* The inventory job's steps keep the types.
LEMMA JobTypesStep == TypeOK /\ BatchIsNext /\ StepsWritten /\ JobStep => TypeOK'
<1> SUFFICES ASSUME TypeOK, BatchIsNext, StepsWritten, JobStep PROVE TypeOK'
  OBVIOUS
<1>1. ChangeTypes /\ JobTypes /\ ProductTypes /\ ProcessTypes
  BY TypeParts
<1>2. UNCHANGED <<generatorVars, bronzeVars, productVars, quiet>>
  BY DEF JobStep, Validate, AppendHistory, UpsertStock, WriteWatermark, Abandoned,
         Abandon, historyVars
<1>3. ChangeTypes' /\ ProductTypes'
  BY <1>2, TypeFrames DEF generatorVars
<1>4. ProcessTypes'
  <2>1. /\ MaxDisruptions \in Nat /\ failures \in 0..MaxDisruptions /\ process \in Nat
        /\ 1 <= process
    BY BoundsAssumption DEF TypeOK
  <2>2. \/ failures' = failures
        \/ Undisturbed /\ failures' = failures + 1
    BY DEF JobStep, Validate, AppendHistory, UpsertStock, WriteWatermark, Abandoned,
           historyVars
  <2>3. failures' \in 0..MaxDisruptions
    BY <2>1, <2>2 DEF Undisturbed
  <2> QED
    BY <1>1, <1>2, <2>3 DEF ProcessTypes, generatorVars
<1>5. Stored' = Stored /\ Changes' = Changes /\ (\A p \in Products : Of(p)' = Of(p))
  BY <1>2 DEF Stored, Changes, Of, generatorVars, bronzeVars
<1>6. clock' = clock /\ quiet' = quiet
  BY <1>2 DEF bronzeVars
<1>7. JobTypes'
  <2>1. CASE Validate
    <3>1. New \subseteq Stored
      BY DEF New
    <3> QED
      BY <1>1, <1>5, <1>6, <2>1, <3>1 DEF Validate, JobTypes, historyVars
  <2>2. ASSUME NEW S \in SUBSET todo, AppendHistory(S) PROVE JobTypes'
    <3>1. todo' \subseteq valid /\ pc' \in {"history", "stock"}
      BY <1>1, <2>2 DEF AppendHistory, Proceed, JobTypes
    <3>2. history \subseteq history' /\ history' \subseteq Stored
      BY <1>1, <2>2 DEF AppendHistory, JobTypes
    <3>3. UNCHANGED <<batch, valid, stockAt, quarantined, watermark, retried>>
      BY <2>2 DEF AppendHistory, historyVars
    <3> QED
      BY <1>1, <1>5, <1>6, <3>1, <3>2, <3>3 DEF JobTypes
  <2>3. ASSUME NEW S \in SUBSET todo, UpsertStock(S) PROVE JobTypes'
    <3>1. todo' \subseteq valid /\ pc' \in {"stock", "watermark"}
      BY <1>1, <2>3 DEF UpsertStock, Proceed, JobTypes
    <3>2. UNCHANGED <<batch, valid, history, quarantined, watermark, retried>>
      BY <2>3 DEF UpsertStock, historyVars
    <3>3. S \subseteq Changes /\ S \subseteq history
      BY <1>1, <2>3 DEF JobTypes, ChangeTypes, UpsertStock, StepsWritten
    <3>4. \A p \in Products : /\ stockAt'[p] = IF S \cap Of(p) = {} THEN stockAt[p]
                                               ELSE Newest(p, S)
                              /\ stockAt[p] \in Nat
                              /\ stockAt[p] \in {0} \cup (history \cap Of(p))
      BY <1>1, <2>3 DEF UpsertStock, JobTypes
    <3>5. \A p \in Products : /\ Newest(p, S) \in {stockAt[p]} \cup (S \cap Of(p))
                              /\ Newest(p, S) \in Nat
      BY <3>3, NewestFacts
    <3>6. \A p \in Products : /\ stockAt'[p] \in Nat
                              /\ stockAt'[p] \in {0} \cup (history \cap Of(p))
      BY <3>3, <3>4, <3>5
    <3>7. stockAt' \in [Products -> Nat]
      BY <2>3, <3>6 DEF UpsertStock
    <3> QED
      BY <1>1, <1>5, <1>6, <3>1, <3>2, <3>6, <3>7 DEF JobTypes
  <2>4. CASE WriteWatermark
    <3>1. batch # {}
      BY <2>4 DEF WriteWatermark, BatchIsNext, Working
    <3>2. watermark' \in 0..clock
      BY <2>4, <3>1, WatermarkIsLatest DEF WriteWatermark
    <3> QED
      BY <1>1, <1>5, <1>6, <2>4, <3>2 DEF WriteWatermark, JobTypes, historyVars
  <2>5. CASE Abandoned
    BY <1>1, <1>5, <1>6, <2>5 DEF Abandoned, Abandon, JobTypes, silverVars
  <2> QED
    BY <2>1, <2>2, <2>3, <2>4, <2>5 DEF JobStep
<1> QED
  BY <1>3, <1>4, <1>7, TypePartsNext

-------------------------------------------------------------------------------
(* Steps outside the inventory job keep what it relies on.                 *)

\* What is known of a change once it is stored stays so.
GrowthFacts ==
  /\ Changes \subseteq Changes' /\ \A i \in Changes : changes'[i] = changes[i]
  /\ \A i \in Changes' \ Changes : \A j \in Changes : j < i
  /\ Stored \subseteq Stored' /\ \A i \in Stored : ingestedAt'[i] = ingestedAt[i]
  /\ \A i \in Stored' \ Stored : \A k \in Stored : ingestedAt[k] < ingestedAt'[i]
  /\ \A i : Passed(i)' <=> Passed(i)
  /\ \A i \in Stored' : ingestedAt'[i] \in Nat
  /\ \A i \in Changes : /\ Of(changes[i].product)' \cap Changes = Of(changes[i].product)
                        /\ Previous(i)' = Previous(i)
                        /\ Continues(i)' <=> Continues(i)
                        /\ i \in Stored /\ InOrder(i)' => InOrder(i)
  /\ HasStock' = HasStock
  /\ \A p \in HasStock : Stock(p)' = Stock(p)

\* What is added to the changes alters nothing that is said of the earlier ones.
LEMMA GrowsMeans ==
  ASSUME TypeOK, TypeOK', Grows
  PROVE  GrowthFacts
<1>0. /\ Stored \subseteq Changes /\ watermark \in 0..clock /\ clock \in Nat
      /\ \A i \in Stored : ingestedAt[i] \in 1..clock
  BY DEF TypeOK
<1>1. /\ Changes \subseteq Changes' /\ \A i \in Changes : changes'[i] = changes[i]
      /\ \A i \in Changes' \ Changes : \A j \in Changes : j < i
  <2>1. Changes \subseteq Changes' /\ \A i \in Changes' \ Changes : Len(changes) < i
    BY GrowsFacts
  <2>2. Len(changes) \in Nat /\ \A i \in Changes : i \in Nat /\ i <= Len(changes)
    BY ChangeFacts
  <2>3. \A i \in Changes' : i \in Nat
    BY DEF Changes
  <2> QED
    BY <2>1, <2>2, <2>3 DEF Grows
<1>2. /\ Stored \subseteq Stored' /\ \A i \in Stored : ingestedAt'[i] = ingestedAt[i]
      /\ \A i \in Stored' \ Stored : ingestedAt'[i] = clock' /\ clock < clock'
      /\ watermark' = watermark /\ stockAt' = stockAt /\ clock' \in Nat
  BY DEF Grows, silverVars
<1>3. \A i \in Stored' \ Stored : \A k \in Stored : ingestedAt[k] < ingestedAt'[i]
  BY <1>0, <1>2
<1>4. \A i : Passed(i)' <=> Passed(i)
  BY <1>0, <1>2 DEF Passed
<1>5. \A i \in Stored' : ingestedAt'[i] \in Nat
  BY <1>0, <1>2
<1>6. ASSUME NEW i \in Changes
      PROVE  /\ Of(changes[i].product)' \cap Changes = Of(changes[i].product)
             /\ Previous(i)' = Previous(i)
             /\ Continues(i)' <=> Continues(i)
             /\ i \in Stored /\ InOrder(i)' => InOrder(i)
  <2> DEFINE p == changes[i].product
  <2>1. p \in Products /\ i \in Nat /\ Len(changes) \in Nat
    BY ChangeFacts
  <2>2. changes'[i] = changes[i] /\ Of(p) = Of(p)' \cap Changes
    BY <1>1, <2>1, GrowsFacts
  <2>3. \A j \in Of(p)' : j < i => j \in Changes
    <3>1. \A j \in Of(p)' : j \in Nat /\ 0 < j
      BY DEF Of, Changes
    <3> QED
      BY <2>1, <3>1, ChangeFacts DEF Changes
  <2>4. {j \in Of(p)' : j < i} = {j \in Of(p) : j < i}
    BY <2>2, <2>3
  <2>5. Previous(i)' = Previous(i)
    BY <2>2, <2>4 DEF Previous
  <2>6. Previous(i) # 0 => Previous(i) \in Changes
    BY PreviousFacts DEF Of
  <2>7. Continues(i)' <=> Continues(i)
    BY <1>1, <2>2, <2>5, <2>6 DEF Continues
  <2>8. ASSUME i \in Stored, InOrder(i)' PROVE InOrder(i)
    <3> DEFINE before == Previous(i)
    <3>1. /\ {i, before} \subseteq Stored'
          /\ ingestedAt'[before] <= ingestedAt'[i]
          /\ \A j \in Of(p)' \cap Stored' :
               /\ j < i => ingestedAt'[j] <= ingestedAt'[before]
               /\ j > i => ingestedAt'[j] >= ingestedAt'[i]
      BY <2>2, <2>5, <2>8 DEF InOrder
    <3>2. before \in Stored
      <4>1. ingestedAt[i] \in Nat /\ ingestedAt'[i] = ingestedAt[i]
        BY <1>0, <1>2, <2>8
      <4>2. before \notin Stored => ingestedAt[i] < ingestedAt'[before]
        BY <1>3, <2>8, <3>1
      <4>3. ingestedAt'[before] \in Nat
        BY <1>5, <3>1
      <4> QED
        BY <3>1, <4>1, <4>2, <4>3
    <3>3. ingestedAt'[before] = ingestedAt[before] /\ ingestedAt'[i] = ingestedAt[i]
      BY <1>2, <2>8, <3>2
    <3>4. \A j \in Of(p) \cap Stored : j \in Of(p)' \cap Stored' /\ ingestedAt'[j] = ingestedAt[j]
      BY <1>2, <2>2
    <3> HIDE DEF before
    <3>5. /\ {i, before} \subseteq Stored
          /\ ingestedAt[before] <= ingestedAt[i]
          /\ \A j \in Of(p) \cap Stored :
               /\ j < i => ingestedAt[j] <= ingestedAt[before]
               /\ j > i => ingestedAt[j] >= ingestedAt[i]
      BY <2>8, <3>1, <3>2, <3>3, <3>4
    <3> QED
      BY <3>5 DEF InOrder, before
  <2> QED
    BY <2>2, <2>5, <2>7, <2>8
<1>7. HasStock' = HasStock
  BY <1>2 DEF HasStock
<1>8. \A p \in HasStock : Stock(p)' = Stock(p)
  BY <1>1, <1>2, StockFacts DEF Stock
<1> QED
  BY <1>1, <1>2, <1>3, <1>4, <1>5, <1>6, <1>7, <1>8 DEF GrowthFacts

\* So a step that only adds changes keeps the invariant's parts about decisions.
LEMMA GrowsKeeps ==
  ASSUME InventoryInv, TypeOK', Grows
  PROVE  /\ BatchIsNext' /\ StepsWritten' /\ Origins'
         /\ PassedAreDecided' /\ DecidedOnce'
         /\ ContinuedAreValid' /\ AcceptedAreContinued'
<1>1. GrowthFacts
  BY GrowsMeans DEF InventoryInv
<1>2. /\ TypeOK /\ BatchIsNext /\ StepsWritten /\ Origins
      /\ PassedAreDecided /\ DecidedOnce
      /\ ContinuedAreValid /\ AcceptedAreContinued
  BY DEF InventoryInv
<1>3. UNCHANGED <<batch, valid, todo, history, stockAt, quarantined, watermark, retried>>
  BY DEF Grows, silverVars
<1>4. /\ Stored \subseteq Changes /\ batch \subseteq Stored /\ valid \subseteq batch
      /\ todo \subseteq valid /\ history \subseteq Stored /\ quarantined \subseteq Stored
      /\ retried \subseteq Stored
      /\ \A i \in Stored : ingestedAt[i] \in Nat
  BY <1>2 DEF TypeOK
<1>5. /\ pc' = pc \/ (pc = "restock" /\ pc' = "idle")
      /\ Working' = Working
  BY DEF Grows, Working
<1>6. \A i \in Stored : i \in Changes /\ changes'[i] = changes[i]
                        /\ ingestedAt'[i] = ingestedAt[i]
  BY <1>1, <1>4 DEF GrowthFacts
<1>7. BatchIsNext'
  <2>1. IF Working' THEN batch' # {} ELSE batch' = {}
    BY <1>2, <1>3, <1>5 DEF BatchIsNext
  <2>2. ASSUME NEW i \in batch
        PROVE  /\ ~Passed(i)'
               /\ \A k \in Stored' \ batch : Passed(k)' \/ ingestedAt'[k] > ingestedAt'[i]
    <3>1. ~Passed(i)' /\ i \in Stored
      BY <1>1, <1>2, <1>4 DEF BatchIsNext, GrowthFacts
    <3>2. ASSUME NEW k \in Stored' \ batch
          PROVE  Passed(k)' \/ ingestedAt'[k] > ingestedAt'[i]
      <4>1. CASE k \in Stored
        BY <1>1, <1>2, <1>6, <3>1, <4>1 DEF BatchIsNext, GrowthFacts
      <4>2. CASE k \notin Stored
        <5>1. ingestedAt[i] < ingestedAt'[k] /\ ingestedAt'[k] \in Nat
          BY <1>1, <3>1, <4>2 DEF GrowthFacts
        <5> QED
          BY <1>4, <1>6, <3>1, <5>1
      <4> QED
        BY <4>1, <4>2
    <3> QED
      BY <3>1, <3>2
  <2>3. batch' \ valid' \subseteq quarantined'
    BY <1>2, <1>3 DEF BatchIsNext
  <2>4. ASSUME Working', NEW i \in Changes', changes'[i].reason = "restock"
        PROVE  i \in batch' \/ Passed(i)'
    <3>1. i \in Changes
      BY <1>5, <2>4 DEF Grows
    <3> QED
      BY <1>1, <1>2, <1>3, <1>5, <2>4, <3>1 DEF BatchIsNext, GrowthFacts
  <2> QED
    BY <1>3, <2>1, <2>2, <2>3, <2>4 DEF BatchIsNext
<1>8. StepsWritten'
  <2>1. \A i \in valid : changes'[i].product = changes[i].product
    BY <1>4, <1>6
  <2> QED
    BY <1>2, <1>3, <1>5, <2>1 DEF StepsWritten
<1>9. Origins'
  <2>1. \A i \in history' : Passed(i)' \/ i \in retried' \cup valid'
    BY <1>1, <1>2, <1>3 DEF Origins, GrowthFacts
  <2>2. \A i \in quarantined' : Passed(i)' \/ i \in retried' \cup (batch' \ valid')
    BY <1>1, <1>2, <1>3 DEF Origins, GrowthFacts
  <2>3. \A p \in HasStock' : \/ Passed(stockAt[p])'
                             \/ stockAt'[p] \in retried'
                             \/ stockAt'[p] \in valid' /\ pc' \in {"stock", "watermark"}
    <3> SUFFICES ASSUME NEW p \in HasStock
                 PROVE  \/ Passed(stockAt[p])'
                        \/ stockAt'[p] \in retried'
                        \/ stockAt'[p] \in valid' /\ pc' \in {"stock", "watermark"}
      BY <1>1 DEF GrowthFacts
    <3>1. Passed(stockAt[p]) => Passed(stockAt[p])'
      BY <1>3 DEF Passed, Grows
    <3> QED
      BY <1>2, <1>3, <1>5, <3>1 DEF Origins
  <2>4. ASSUME NEW i \in retried, NEW k \in Stored', ingestedAt'[k] <= ingestedAt'[i]
        PROVE  Passed(k)' \/ k \in retried'
    <3>1. i \in Stored /\ ingestedAt'[i] = ingestedAt[i] /\ ingestedAt[i] \in Nat
      BY <1>4, <1>6
    <3>2. k \in Stored
      BY <1>1, <2>4, <3>1 DEF GrowthFacts
    <3> QED
      BY <1>1, <1>2, <1>3, <1>6, <2>4, <3>1, <3>2 DEF Origins, GrowthFacts
  <2> QED
    BY <1>3, <2>1, <2>2, <2>3, <2>4 DEF Origins
<1>10. PassedAreDecided'
  <2>1. \A i : Passed(i) => i \in Stored
    BY DEF Passed
  <2> QED
    BY <1>1, <1>2, <1>3, <1>6, <2>1 DEF PassedAreDecided, GrowthFacts
<1>11. DecidedOnce'
  BY <1>2, <1>3 DEF DecidedOnce
<1>12. ContinuedAreValid'
  <2> SUFFICES ASSUME NEW i \in Changes', Continues(i)', InOrder(i)'
               PROVE  /\ i \in batch' /\ Previous(i)' \in batch' \cup (history' \ retried')
                           => i \in valid' \cup history'
                      /\ Previous(i)' \in history' \ retried'
                           => i \in history' \/ stockAt'[changes'[i].product] < i
    BY DEF ContinuedAreValid
  <2>1. CASE i \in Stored
    BY <1>1, <1>2, <1>3, <1>6, <2>1 DEF ContinuedAreValid, GrowthFacts
  <2>2. CASE i \notin Stored
    <3>1. i \notin batch
      BY <1>4, <2>2
    <3>0. changes'[i].product \in Products
      <4>1. TypeOK' => ProductsKnown'
        BY ChangesHaveProducts, PTL
      <4> QED
        BY <4>1 DEF ProductsKnown
    <3> PICK p \in Products : p = changes'[i].product
      BY <3>0
    <3>2. i \in Nat /\ i \in Of(p)'
      <4>1. i \in Nat
        BY DEF Changes
      <4>2. i \in Of(p)'
        BY DEF Of
      <4> QED
        BY <4>1, <4>2
    <3>3. stockAt[p] \in {0} \cup (history \cap Of(p))
      BY <1>2, <3>2 DEF TypeOK
    <3>4. CASE stockAt[p] = 0
      <4>1. 0 < i
        BY DEF Changes
      <4> QED
        BY <1>3, <3>1, <3>4, <4>1
    <3>5. CASE stockAt[p] # 0 /\ i \notin Changes
      <4>1. stockAt[p] \in Changes
        BY <3>3, <3>5 DEF Of
      <4> QED
        BY <1>1, <1>3, <3>1, <3>5, <4>1 DEF GrowthFacts
    <3>6. CASE stockAt[p] # 0 /\ i \in Changes
      <4>1. stockAt[p] \in Stored /\ stockAt[p] \in Of(p) /\ stockAt[p] \in Nat
        BY <1>2, <1>4, <3>2, <3>3, <3>6 DEF TypeOK
      <4>2. stockAt[p] # i
        BY <2>2, <4>1
      <4>3. stockAt[p] \in Of(p)' \cap Stored'
        BY <1>1, <3>6, <4>1 DEF GrowthFacts
      <4>4. i \in Stored' /\ (stockAt[p] > i => ingestedAt'[stockAt[p]] >= ingestedAt'[i])
        BY <4>3 DEF InOrder
      <4>5. ingestedAt[stockAt[p]] < ingestedAt'[i] /\ ingestedAt'[i] \in Nat
        BY <1>1, <2>2, <4>1, <4>4 DEF GrowthFacts
      <4>6. ingestedAt'[stockAt[p]] = ingestedAt[stockAt[p]] /\ ingestedAt[stockAt[p]] \in Nat
        BY <1>4, <1>6, <4>1
      <4>7. stockAt[p] < i
        BY <3>2, <4>1, <4>2, <4>4, <4>5, <4>6
      <4> QED
        BY <1>3, <3>1, <4>7
    <3> QED
      BY <3>4, <3>5, <3>6
  <2> QED
    BY <2>1, <2>2
<1>13. AcceptedAreContinued'
  <2>1. \A i : Passed(i) => i \in Stored
    BY DEF Passed
  <2> QED
    BY <1>1, <1>2, <1>3, <1>4, <2>1 DEF AcceptedAreContinued, GrowthFacts
<1> QED
  BY <1>7, <1>8, <1>9, <1>10, <1>11, <1>12, <1>13

-------------------------------------------------------------------------------
(* What a batch is judged by.                                              *)

\* A row whose predecessor is in the batch is compared with it.
LEMMA ExpectedInBatch ==
  ASSUME TypeOK, NEW i \in New, Previous(i) \in New
  PROVE  ExpectedPrev(i) = changes[Previous(i)].stock
<1> DEFINE p == changes[i].product
           earlier == {j \in New \cap Of(p) : j < i}
<1>1. New \subseteq Stored /\ Stored \subseteq Changes
  BY DEF New, TypeOK
<1>2. i \in Changes /\ Previous(i) \in Changes /\ Len(changes) \in Nat
  BY <1>1, ChangeFacts
<1>3. /\ Previous(i) \in Nat /\ Previous(i) < i
      /\ Previous(i) # 0 => Previous(i) \in Of(p)
      /\ \A j \in Of(p) : j < i => j <= Previous(i)
  BY <1>2, PreviousFacts
<1>4. Previous(i) \in earlier
  BY <1>2, <1>3, ChangeFacts
<1>5. earlier \in SUBSET (0..Len(changes))
  <2>1. New \in SUBSET (0..Len(changes))
    BY <1>1, <1>2 DEF Changes
  <2> HIDE DEF New
  <2> QED
    BY <2>1
<1>6. Max(earlier) \in earlier /\ \A x \in earlier : x <= Max(earlier)
  <2> HIDE DEF earlier
  <2> QED
    BY <1>2, <1>4, <1>5, ExtremaUpTo
<1>7. Max(earlier) = Previous(i)
  <2>1. Max(earlier) \in Nat /\ Previous(i) <= Max(earlier)
    BY <1>4, <1>5, <1>6
  <2>2. Max(earlier) <= Previous(i)
    BY <1>3, <1>6
  <2> QED
    BY <1>3, <2>1, <2>2
<1>8. ExpectedPrev(i) = IF earlier # {} THEN changes[Max(earlier)].stock
                        ELSE IF p \in HasStock THEN Stock(p)
                        ELSE 0
  BY DEF ExpectedPrev
<1> HIDE DEF earlier
<1> QED
  BY <1>4, <1>7, <1>8

\* The first row of a product is compared with silver's stock, if there is one.
LEMMA ExpectedOfFirst ==
  ASSUME NEW i \in New, changes[i].product \in HasStock,
         \A j \in Of(changes[i].product) : j < i => j \notin New
  PROVE  ExpectedPrev(i) = Stock(changes[i].product)
<1>1. {j \in New \cap Of(changes[i].product) : j < i} = {}
  OBVIOUS
<1> QED
  BY <1>1 DEF ExpectedPrev

\* A change in order that continues what silver has accepted, or a change of its
\* own batch, is valid, unless it is in the history.
LEMMA ContinuedIsValid ==
  ASSUME InventoryInv, pc = "idle", NEW i \in New, Continues(i), InOrder(i),
         Previous(i) \in New \cup (history \ retried), i \notin history
  PROVE  IsValid(i)
<1> DEFINE p == changes[i].product
           j == Previous(i)
<1>0. TypeOK /\ Origins /\ PassedAreDecided /\ ContinuedAreValid /\ BatchIsNext
  BY DEF InventoryInv
<1>1. /\ New \subseteq Stored /\ Stored \subseteq Changes /\ watermark \in Nat
      /\ \A k \in Stored : ingestedAt[k] \in Nat
      /\ valid = {}
  BY <1>0 DEF New, TypeOK, BatchIsNext, Working
<1>2. i \in Changes /\ i \in Stored /\ p \in Products /\ i \in Nat
  BY <1>0, <1>1, ChangeFacts
<1>3. /\ j \in Nat /\ j < i /\ j # 0 /\ j \in Of(p)
      /\ \A k \in Of(p) : k < i => k <= j
      /\ changes[i].stock = changes[j].stock + changes[i].delta
  BY <1>0, <1>2, PreviousFacts DEF Continues
<1>4. /\ changes[j].stock \in Nat /\ changes[i].stock \in Nat
  <2>1. j \in Changes
    BY <1>3 DEF Of
  <2>2. changes[j].stock \in 0..Capacity /\ changes[i].stock \in 0..Capacity
    BY <1>0, <1>2, <2>1, ChangeFacts
  <2> QED
    BY <2>2, CapacityAssumption
<1>5. ExpectedPrev(i) = changes[j].stock
  <2>1. CASE j \in New
    BY <1>0, <2>1, ExpectedInBatch
  <2>2. CASE j \notin New
    <3>1. j \in history \ retried /\ j \in Stored
      BY <2>2 DEF InOrder
    <3>2. Passed(j)
      BY <1>0, <1>1, <3>1 DEF Origins
    <3>3. ASSUME NEW k \in Of(p), k < i PROVE k \notin New
      <4>1. CASE k \in Stored
        <5>1. ingestedAt[k] <= ingestedAt[j] /\ ingestedAt[j] <= watermark
          BY <3>2, <3>3, <4>1 DEF InOrder, Passed
        <5>2. ingestedAt[k] <= watermark
          BY <1>1, <3>1, <4>1, <5>1
        <5> QED
          BY <1>1, <4>1, <5>2 DEF New
      <4> QED
        BY <1>1, <4>1
    <3>4. stockAt[p] >= j /\ stockAt[p] < i
      <4>1. changes[j].product = p /\ j \in Changes
        BY <1>3 DEF Of
      <4> QED
        BY <1>0, <1>2, <3>1, <3>2, <4>1 DEF PassedAreDecided, ContinuedAreValid
    <3>5. p \in HasStock
      <4>1. stockAt[p] \in Nat
        BY <1>0, <1>2 DEF TypeOK
      <4> QED
        BY <1>2, <1>3, <3>4, <4>1 DEF HasStock
    <3>6. stockAt[p] = j
      <4>1. stockAt[p] \in Of(p) /\ stockAt[p] \in Nat
        BY <1>0, <1>2, <3>5, StockFacts DEF TypeOK
      <4>2. stockAt[p] <= j
        BY <1>3, <3>4, <4>1
      <4> QED
        BY <1>3, <3>4, <4>1, <4>2
    <3>7. ExpectedPrev(i) = Stock(p)
      BY <3>3, <3>5, ExpectedOfFirst
    <3> QED
      BY <3>6, <3>7 DEF Stock
  <2> QED
    BY <2>1, <2>2
<1> QED
  BY <1>3, <1>4, <1>5 DEF IsValid

\* A quiet refill is valid, unless it is in the history.
LEMMA QuietIsValid ==
  ASSUME InventoryInv, NEW i \in quiet, i \in New, i \notin history
  PROVE  IsValid(i)
<1> DEFINE p == changes[i].product
<1>1. TypeOK /\ QuietAreValid
  BY DEF InventoryInv
<1>2. /\ New \subseteq Stored /\ Stored \subseteq Changes /\ watermark \in Nat
      /\ \A k \in Stored : ingestedAt[k] \in Nat
  BY <1>1 DEF New, TypeOK
<1>3. /\ \A j \in Of(p) : j < i => Passed(j)
      /\ p \in HasStock /\ Stock(p) + changes[i].delta = changes[i].stock
  BY <1>1 DEF QuietAreValid
<1>4. \A j \in Of(p) : j < i => j \notin New
  BY <1>2, <1>3 DEF Passed, New
<1>5. ExpectedPrev(i) = Stock(p)
  BY <1>3, <1>4, ExpectedOfFirst
<1>6. changes[i].stock >= 0
  <2>1. changes[i].stock \in 0..Capacity
    BY <1>1, <1>2, ChangeFacts
  <2> QED
    BY <2>1, CapacityAssumption
<1> QED
  BY <1>3, <1>5, <1>6 DEF IsValid

-------------------------------------------------------------------------------
(* The steps of the inventory job keep the invariant.                      *)

\* A step of the job leaves the changes and what is stored of them alone.
SameRows ==
  /\ UNCHANGED <<changes, ingestedAt>>
  /\ Changes' = Changes /\ Stored' = Stored
  /\ \A p : Of(p)' = Of(p)
  /\ \A i : /\ Previous(i)' = Previous(i)
            /\ Continues(i)' <=> Continues(i)
            /\ InOrder(i)' <=> InOrder(i)
  /\ watermark' = watermark => \A i : Passed(i)' <=> Passed(i)
  /\ watermark' = watermark => \A p : Undecided(p)' = Undecided(p)

\* A step that adds no change keeps all that is said of the rows.
LEMMA SameRowsFacts == ASSUME UNCHANGED <<changes, ingestedAt>> PROVE SameRows
<1>1. Changes' = Changes /\ Stored' = Stored /\ \A p : Of(p)' = Of(p)
  BY DEF Changes, Stored, Of
<1>2. \A i : Previous(i)' = Previous(i)
  BY <1>1 DEF Previous
<1>3. \A i : /\ Continues(i)' <=> Continues(i)
             /\ InOrder(i)' <=> InOrder(i)
  BY <1>1, <1>2 DEF Continues, InOrder
<1>4. watermark' = watermark => \A i : Passed(i)' <=> Passed(i)
  BY <1>1 DEF Passed
<1>5. watermark' = watermark => \A p : Undecided(p)' = Undecided(p)
  BY <1>1, <1>4 DEF Undecided
<1> QED
  BY <1>1, <1>2, <1>3, <1>4, <1>5 DEF SameRows

\* Fetching and judging a batch, and quarantining its rejects, keeps the invariant.
LEMMA ValidateStep == InventoryInv /\ Validate => InventoryInv'
<1> SUFFICES ASSUME InventoryInv, Validate PROVE InventoryInv'
  OBVIOUS
<1>0. /\ TypeOK /\ BatchIsNext /\ StepsWritten /\ Origins
      /\ PassedAreDecided /\ DecidedOnce
      /\ ContinuedAreValid /\ AcceptedAreContinued
      /\ QuietAreValid /\ QuietRestocksLand
      /\ OneRefillAtATime
  BY DEF InventoryInv
<1>1. TypeOK'
  BY <1>0, JobTypesStep DEF JobStep
<1>2. /\ pc = "idle" /\ pc' = "history" /\ New # {}
      /\ batch' = New /\ valid' = {i \in New : IsValid(i)} /\ todo' = valid'
      /\ quarantined' = quarantined \cup (batch' \ valid')
      /\ UNCHANGED <<changes, ingestedAt, history, stockAt, watermark, retried, quiet,
                     failures>>
  BY DEF Validate, generatorVars, bronzeVars, historyVars
<1>3. SameRows
  BY <1>2, SameRowsFacts
<1>4. /\ batch = {} /\ valid = {} /\ todo = {}
  BY <1>0, <1>2 DEF BatchIsNext, Working, TypeOK
<1>5. /\ New \subseteq Stored /\ Stored \subseteq Changes /\ watermark \in Nat
      /\ \A k \in Stored : ingestedAt[k] \in Nat
  BY <1>0 DEF New, TypeOK
<1>6. /\ \A i \in New : ~Passed(i)
      /\ \A i \in Stored \ New : Passed(i)
  BY <1>5 DEF New, Passed
<1>7. \A i : Passed(i)' <=> Passed(i)
  BY <1>2, <1>3 DEF SameRows
<1>8. BatchIsNext'
  <2>1. \A i \in Changes : changes[i].reason = "restock" => i \in Stored
    BY <1>0 DEF TypeOK
  <2> QED
    BY <1>2, <1>3, <1>6, <1>7, <2>1 DEF BatchIsNext, Working, SameRows
<1>9. StepsWritten'
  BY <1>2 DEF StepsWritten
<1>10. Origins'
  <2>1. \A i \in history' : Passed(i)' \/ i \in retried' \cup valid'
    BY <1>0, <1>2, <1>4, <1>7 DEF Origins
  <2>2. \A i \in quarantined' : Passed(i)' \/ i \in retried' \cup (batch' \ valid')
    BY <1>0, <1>2, <1>4, <1>7 DEF Origins
  <2>3. HasStock' = HasStock
    BY <1>2 DEF HasStock
  <2>4. \A p \in HasStock : Passed(stockAt[p])' <=> Passed(stockAt[p])
    BY <1>2, <1>3 DEF Passed, SameRows
  <2>5. \A p \in HasStock' : Passed(stockAt[p])' \/ stockAt'[p] \in retried'
    BY <1>0, <1>2, <2>3, <2>4 DEF Origins
  <2>6. \A i \in retried' : \A k \in Stored' :
          ingestedAt'[k] <= ingestedAt'[i] => Passed(k)' \/ k \in retried'
    BY <1>0, <1>2, <1>3, <1>7 DEF Origins, SameRows
  <2> QED
    BY <2>1, <2>2, <2>5, <2>6 DEF Origins
<1>11. PassedAreDecided'
  BY <1>0, <1>2, <1>3, <1>7 DEF PassedAreDecided, SameRows
<1>12. DecidedOnce'
  BY <1>0, <1>2, <1>4, <1>6 DEF DecidedOnce, Origins
<1>13. ContinuedAreValid'
  <2> SUFFICES ASSUME NEW i \in Changes, Continues(i), InOrder(i)
               PROVE  /\ i \in New /\ Previous(i) \in New \cup (history \ retried)
                           => i \in valid' \cup history
                      /\ Previous(i) \in history \ retried
                           => i \in history \/ stockAt[changes[i].product] < i
    BY <1>2, <1>3 DEF ContinuedAreValid, SameRows
  <2>1. i \in New /\ Previous(i) \in New \cup (history \ retried) => i \in valid' \cup history
    BY <1>2, ContinuedIsValid
  <2> QED
    BY <1>0, <2>1 DEF ContinuedAreValid
<1>14. AcceptedAreContinued'
  BY <1>0, <1>2, <1>3, <1>7 DEF AcceptedAreContinued, SameRows
<1>15. QuietAreValid'
  <2> SUFFICES ASSUME NEW i \in quiet
               PROVE  LET p == changes[i].product IN
                        /\ \A j \in Of(p) : j < i => Passed(j)
                        /\ \A j \in Of(p) \cap Stored : j > i => ingestedAt[j] > ingestedAt[i]
                        /\ i \in New => i \in valid' \cup history
                        /\ i \notin history => /\ p \in HasStock
                                               /\ Stock(p) + changes[i].delta = changes[i].stock
    BY <1>2, <1>3, <1>7 DEF QuietAreValid, SameRows, HasStock, Stock
  <2>1. i \in New => i \in valid' \cup history
    BY <1>2, QuietIsValid
  <2> QED
    BY <1>0, <2>1 DEF QuietAreValid
<1>16. QuietRestocksLand'
  BY <1>0, <1>2, <1>7 DEF QuietRestocksLand
<1>17. RefillsDecided' /\ OneRefillAtATime'
  BY <1>0, <1>2, <1>3 DEF RefillsDecided, OneRefillAtATime, SameRows
<1> QED
  BY <1>1, <1>8, <1>9, <1>10, <1>11, <1>12, <1>13, <1>14, <1>15, <1>16, <1>17 DEF InventoryInv

\* Writing a part of the valid rows to the history keeps the invariant.
LEMMA AppendHistoryStep ==
  ASSUME InventoryInv, NEW S \in SUBSET todo, AppendHistory(S)
  PROVE  InventoryInv'
<1>0. /\ TypeOK /\ BatchIsNext /\ StepsWritten /\ Origins
      /\ PassedAreDecided /\ DecidedOnce
      /\ ContinuedAreValid /\ AcceptedAreContinued
      /\ QuietAreValid /\ QuietRestocksLand
      /\ OneRefillAtATime
  BY DEF InventoryInv
<1>1. TypeOK'
  BY <1>0, JobTypesStep DEF JobStep
<1>2. /\ pc = "history" /\ history' = history \cup S
      /\ pc' = IF todo \ S = {} THEN "stock" ELSE "history"
      /\ todo' = IF todo \ S = {} THEN valid ELSE todo \ S
      /\ UNCHANGED <<changes, ingestedAt, batch, valid, stockAt, quarantined, watermark,
                     retried, quiet, failures>>
  BY DEF AppendHistory, Proceed, generatorVars, bronzeVars, historyVars
<1>3. SameRows
  BY <1>2, SameRowsFacts
<1>4. /\ S \subseteq valid /\ valid \subseteq batch /\ batch \subseteq Stored
      /\ Stored \subseteq Changes /\ watermark \in Nat
      /\ history \subseteq Stored /\ retried \subseteq Stored
      /\ \A k \in Stored : ingestedAt[k] \in Nat
  BY <1>0 DEF TypeOK
<1>5. \A i : Passed(i)' <=> Passed(i)
  BY <1>2, <1>3 DEF SameRows
<1>6. \A i \in S : ~Passed(i)
  BY <1>0, <1>4 DEF BatchIsNext
<1>7. BatchIsNext'
  BY <1>0, <1>2, <1>3, <1>5 DEF BatchIsNext, Working, SameRows
<1>8. StepsWritten'
  <2>1. CASE todo \ S = {}
    <3>1. valid \subseteq history'
      BY <1>0, <1>2, <2>1 DEF StepsWritten
    <3> QED
      BY <1>2, <2>1, <3>1 DEF StepsWritten
  <2>2. CASE todo \ S # {}
    <3>1. valid \ todo' \subseteq history'
      BY <1>0, <1>2, <2>2 DEF StepsWritten
    <3> QED
      BY <1>2, <2>2, <3>1 DEF StepsWritten
  <2> QED
    BY <2>1, <2>2
<1>9. Origins'
  <2>1. \A i \in history' : Passed(i)' \/ i \in retried' \cup valid'
    BY <1>0, <1>2, <1>4, <1>5 DEF Origins
  <2>2. \A i \in quarantined' : Passed(i)' \/ i \in retried' \cup (batch' \ valid')
    BY <1>0, <1>2, <1>5 DEF Origins
  <2>3. HasStock' = HasStock /\ \A p \in HasStock : Passed(stockAt[p])' <=> Passed(stockAt[p])
    BY <1>2, <1>3 DEF HasStock, Passed, SameRows
  <2>4. \A p \in HasStock' : Passed(stockAt[p])' \/ stockAt'[p] \in retried'
    BY <1>0, <1>2, <2>3 DEF Origins
  <2>5. \A i \in retried' : \A k \in Stored' :
          ingestedAt'[k] <= ingestedAt'[i] => Passed(k)' \/ k \in retried'
    BY <1>0, <1>2, <1>3, <1>5 DEF Origins, SameRows
  <2> QED
    BY <2>1, <2>2, <2>4, <2>5 DEF Origins
<1>10. PassedAreDecided'
  BY <1>0, <1>2, <1>3, <1>5, <1>6 DEF PassedAreDecided, SameRows
<1>11. DecidedOnce'
  BY <1>0, <1>2, <1>4, <1>6 DEF DecidedOnce, Origins
<1>12. ASSUME NEW i \in Changes, InOrder(i), Previous(i) \in S \ retried, i \notin history'
       PROVE  stockAt[changes[i].product] < i
  <2> DEFINE p == changes[i].product
             m == stockAt[p]
  <2>1. /\ p \in Products /\ i \in Nat /\ 0 < i /\ m \in Nat
        /\ m \in {0} \cup (history \cap Of(p))
    BY <1>0, ChangeFacts DEF TypeOK
  <2>2. CASE m <= i
    <3>1. m # i
      BY <1>2, <1>12, <2>1
    <3> QED
      BY <2>1, <2>2, <3>1
  <2>3. CASE m > i
    <3>1. m \in history \cap Of(p) /\ m \in Stored /\ p \in HasStock
      BY <1>4, <2>1, <2>3 DEF HasStock
    <3>2. /\ i \in Stored /\ Previous(i) \in Stored
          /\ ingestedAt[Previous(i)] <= ingestedAt[i] /\ ingestedAt[i] <= ingestedAt[m]
      BY <1>12, <2>3, <3>1 DEF InOrder
    <3>3. /\ ingestedAt[Previous(i)] <= ingestedAt[m]
          /\ watermark < ingestedAt[Previous(i)]
      BY <1>4, <1>6, <1>12, <3>1, <3>2 DEF Passed
    <3>4. ~Passed(m)
      BY <1>4, <3>1, <3>2, <3>3 DEF Passed
    <3>5. m \in retried
      BY <1>0, <1>2, <3>1, <3>4 DEF Origins
    <3>6. Previous(i) \in retried
      BY <1>0, <1>6, <1>12, <3>2, <3>3, <3>5 DEF Origins
    <3> QED
      BY <1>12, <3>6
  <2> QED
    BY <2>1, <2>2, <2>3
<1>13. ContinuedAreValid'
  <2> SUFFICES ASSUME NEW i \in Changes, Continues(i), InOrder(i)
               PROVE  /\ i \in batch /\ Previous(i) \in batch \cup (history' \ retried)
                           => i \in valid \cup history'
                      /\ Previous(i) \in history' \ retried
                           => i \in history' \/ stockAt[changes[i].product] < i
    BY <1>2, <1>3 DEF ContinuedAreValid, SameRows
  <2> QED
    BY <1>0, <1>2, <1>4, <1>12 DEF ContinuedAreValid
<1>14. AcceptedAreContinued'
  <2> SUFFICES ASSUME NEW i \in Changes, Passed(i), Continues(i), InOrder(i),
                      Previous(i) \in history' \ retried
               PROVE  i \in history'
    BY <1>2, <1>3, <1>5 DEF AcceptedAreContinued, SameRows
  <2>1. Passed(Previous(i))
    BY <1>4 DEF InOrder, Passed
  <2>2. Previous(i) \in history
    BY <1>2, <1>6, <2>1
  <2> QED
    BY <1>0, <1>2, <2>2 DEF AcceptedAreContinued
<1>15. QuietAreValid'
  <2>1. HasStock' = HasStock /\ \A p : Stock(p)' = Stock(p)
    BY <1>2 DEF HasStock, Stock
  <2> QED
    BY <1>0, <1>2, <1>3, <1>5, <2>1 DEF QuietAreValid, SameRows
<1>16. QuietRestocksLand'
  BY <1>0, <1>2, <1>5 DEF QuietRestocksLand
<1>17. RefillsDecided' /\ OneRefillAtATime'
  BY <1>0, <1>2, <1>3 DEF RefillsDecided, OneRefillAtATime, SameRows
<1> QED
  BY <1>1, <1>7, <1>8, <1>9, <1>10, <1>11, <1>13, <1>14, <1>15, <1>16, <1>17 DEF InventoryInv

\* Writing a part of the products' stock keeps the invariant.
LEMMA UpsertStockStep ==
  ASSUME InventoryInv, NEW S \in SUBSET todo, UpsertStock(S)
  PROVE  InventoryInv'
<1>0. /\ TypeOK /\ BatchIsNext /\ StepsWritten /\ Origins
      /\ PassedAreDecided /\ DecidedOnce
      /\ ContinuedAreValid /\ AcceptedAreContinued
      /\ QuietAreValid /\ QuietRestocksLand
      /\ OneRefillAtATime
  BY DEF InventoryInv
<1>1. TypeOK'
  BY <1>0, JobTypesStep DEF JobStep
<1>2. /\ pc = "stock"
      /\ pc' = IF todo \ S = {} THEN "watermark" ELSE "stock"
      /\ todo' = IF todo \ S = {} THEN valid ELSE todo \ S
      /\ \A p \in Products : stockAt'[p] = IF S \cap Of(p) = {} THEN stockAt[p]
                                           ELSE Newest(p, S)
      /\ UNCHANGED <<changes, ingestedAt, batch, valid, history, quarantined, watermark,
                     retried, quiet, failures>>
  BY DEF UpsertStock, Proceed, generatorVars, bronzeVars, historyVars
<1>3. SameRows
  BY <1>2, SameRowsFacts
<1>4. /\ S \subseteq valid /\ valid \subseteq batch /\ batch \subseteq Stored
      /\ Stored \subseteq Changes /\ watermark \in Nat /\ valid \subseteq history
      /\ quiet \subseteq Stored
      /\ \A k \in Stored : ingestedAt[k] \in Nat
      /\ \A p \in Products : stockAt[p] \in Nat
  BY <1>0, <1>2 DEF TypeOK, StepsWritten
<1>5. \A i : Passed(i)' <=> Passed(i)
  BY <1>2, <1>3 DEF SameRows
<1>6. \A p \in Products : /\ stockAt'[p] \in {stockAt[p]} \cup (S \cap Of(p))
                          /\ stockAt'[p] \in Nat /\ stockAt[p] <= stockAt'[p]
                          /\ \A i \in S \cap Of(p) : i <= stockAt'[p]
  <2> SUFFICES ASSUME NEW p \in Products
               PROVE  /\ stockAt'[p] \in {stockAt[p]} \cup (S \cap Of(p))
                      /\ stockAt'[p] \in Nat /\ stockAt[p] <= stockAt'[p]
                      /\ \A i \in S \cap Of(p) : i <= stockAt'[p]
    OBVIOUS
  <2>1. S \in SUBSET Changes
    BY <1>4
  <2>2. /\ Newest(p, S) \in {stockAt[p]} \cup (S \cap Of(p))
        /\ Newest(p, S) \in Nat /\ stockAt[p] <= Newest(p, S)
        /\ \A i \in S \cap Of(p) : i <= Newest(p, S)
    BY <1>0, <2>1, NewestFacts
  <2>3. CASE S \cap Of(p) = {}
    <3>1. stockAt'[p] = stockAt[p] /\ stockAt[p] \in Nat
      BY <1>2, <1>4, <2>3
    <3> QED
      BY <2>3, <3>1
  <2>4. CASE S \cap Of(p) # {}
    <3>1. stockAt'[p] = Newest(p, S)
      BY <1>2, <2>4
    <3> QED
      BY <2>2, <3>1
  <2> QED
    BY <2>3, <2>4
<1>7. BatchIsNext'
  BY <1>0, <1>2, <1>3, <1>5 DEF BatchIsNext, Working, SameRows
<1>8. StepsWritten'
  <2>1. ASSUME NEW i \in valid, i \notin todo \/ i \in S
        PROVE  stockAt'[changes[i].product] >= i
    <3>1. i \in Nat /\ changes[i].product \in Products /\ i \in Of(changes[i].product)
      BY <1>0, <1>4, ChangeFacts
    <3>2. CASE i \in S
      BY <1>6, <3>1, <3>2
    <3>3. CASE i \notin todo
      <4>1. stockAt[changes[i].product] >= i
        BY <1>0, <1>2, <3>3 DEF StepsWritten
      <4>2. /\ stockAt[changes[i].product] \in Nat /\ stockAt'[changes[i].product] \in Nat
            /\ stockAt[changes[i].product] <= stockAt'[changes[i].product]
        BY <1>4, <1>6, <3>1
      <4> QED
        BY <3>1, <4>1, <4>2
    <3> QED
      BY <2>1, <3>2, <3>3
  <2>2. CASE todo \ S = {}
    <3>1. \A i \in valid' : stockAt'[changes'[i].product] >= i
      BY <1>2, <2>1, <2>2
    <3> QED
      BY <1>2, <1>4, <2>2, <3>1 DEF StepsWritten
  <2>3. CASE todo \ S # {}
    <3>1. \A i \in valid' \ todo' : stockAt'[changes'[i].product] >= i
      BY <1>2, <2>1, <2>3
    <3> QED
      BY <1>2, <1>4, <2>3, <3>1 DEF StepsWritten
  <2> QED
    BY <2>2, <2>3
<1>9. Origins'
  <2>1. \A i \in history' : Passed(i)' \/ i \in retried' \cup valid'
    BY <1>0, <1>2, <1>5 DEF Origins
  <2>2. \A i \in quarantined' : Passed(i)' \/ i \in retried' \cup (batch' \ valid')
    BY <1>0, <1>2, <1>5 DEF Origins
  <2>3. ASSUME NEW p \in HasStock'
        PROVE  \/ Passed(stockAt[p])'
               \/ stockAt'[p] \in retried'
               \/ stockAt'[p] \in valid' /\ pc' \in {"stock", "watermark"}
    <3>1. p \in Products /\ stockAt'[p] > 0
      BY DEF HasStock
    <3>2. CASE stockAt'[p] \in S
      BY <1>2, <1>4, <3>2
    <3>3. CASE stockAt'[p] = stockAt[p]
      <4>1. p \in HasStock
        BY <3>1, <3>3 DEF HasStock
      <4>2. Passed(stockAt[p]) => Passed(stockAt[p])'
        BY <1>2, <1>3, <3>3 DEF Passed, SameRows
      <4> QED
        BY <1>0, <1>2, <3>3, <4>1, <4>2 DEF Origins
    <3> QED
      BY <1>6, <3>1, <3>2, <3>3
  <2>4. \A i \in retried' : \A k \in Stored' :
          ingestedAt'[k] <= ingestedAt'[i] => Passed(k)' \/ k \in retried'
    BY <1>0, <1>2, <1>3, <1>5 DEF Origins, SameRows
  <2> QED
    BY <2>1, <2>2, <2>3, <2>4 DEF Origins
<1>10. PassedAreDecided'
  <2> SUFFICES ASSUME NEW i \in Changes, Passed(i)
               PROVE  /\ i \in history \cup quarantined
                      /\ i \in history \ retried => stockAt'[changes[i].product] >= i
    BY <1>2, <1>3, <1>5 DEF PassedAreDecided, SameRows
  <2>1. i \in Nat /\ changes[i].product \in Products
    BY <1>0, ChangeFacts
  <2>2. /\ stockAt[changes[i].product] \in Nat /\ stockAt'[changes[i].product] \in Nat
        /\ stockAt[changes[i].product] <= stockAt'[changes[i].product]
    BY <1>4, <1>6, <2>1
  <2>3. /\ i \in history \cup quarantined
        /\ i \in history \ retried => stockAt[changes[i].product] >= i
    BY <1>0 DEF PassedAreDecided
  <2> QED
    BY <2>1, <2>2, <2>3
<1>11. DecidedOnce'
  BY <1>0, <1>2 DEF DecidedOnce
\* A row of the partition is in the history, not passed, and what is stored before
\* it is in the batch too or passed.
<1>12. \A m \in S : /\ m \in history /\ ~Passed(m) /\ m \in Stored /\ m \in Nat
                    /\ \A k \in Stored : ingestedAt[k] <= ingestedAt[m] => k \in batch \/ Passed(k)
  <2> SUFFICES ASSUME NEW m \in S
               PROVE  /\ m \in history /\ ~Passed(m) /\ m \in Stored /\ m \in Nat
                      /\ \A k \in Stored : ingestedAt[k] <= ingestedAt[m] => k \in batch \/ Passed(k)
    OBVIOUS
  <2>1. m \in batch /\ m \in Stored /\ m \in history /\ m \in Nat
    BY <1>0, <1>4, ChangeFacts
  <2>2. ~Passed(m) /\ \A k \in Stored \ batch : Passed(k) \/ ingestedAt[k] > ingestedAt[m]
    BY <1>0, <2>1 DEF BatchIsNext
  <2> QED
    BY <1>4, <2>1, <2>2
<1>13. ContinuedAreValid'
  <2> SUFFICES ASSUME NEW i \in Changes, Continues(i), InOrder(i)
               PROVE  /\ i \in batch /\ Previous(i) \in batch \cup (history \ retried)
                           => i \in valid \cup history
                      /\ Previous(i) \in history \ retried
                           => i \in history \/ stockAt'[changes[i].product] < i
    BY <1>2, <1>3 DEF ContinuedAreValid, SameRows
  <2>1. ASSUME Previous(i) \in history \ retried, i \notin history
        PROVE  stockAt'[changes[i].product] < i
    <3> DEFINE p == changes[i].product
    <3>1. p \in Products /\ i \in Nat
      BY <1>0, ChangeFacts
    <3>2. CASE stockAt'[p] = stockAt[p]
      BY <1>0, <2>1, <3>2 DEF ContinuedAreValid
    <3>3. CASE stockAt'[p] \in S \cap Of(p)
      <4>1. ASSUME NEW m \in S \cap Of(p), m > i PROVE FALSE
        <5>1. i \in Stored /\ ingestedAt[i] <= ingestedAt[m]
          BY <1>12, <4>1 DEF InOrder
        <5>2. i \in batch \/ Passed(i)
          BY <1>12, <5>1
        <5> QED
          BY <1>0, <1>4, <2>1, <5>2 DEF ContinuedAreValid, AcceptedAreContinued
      <4>2. stockAt'[p] # i /\ stockAt'[p] \in Nat
        BY <1>12, <2>1, <3>3
      <4> QED
        BY <3>1, <3>3, <4>1, <4>2
    <3> QED
      BY <1>6, <3>1, <3>2, <3>3
  <2> QED
    BY <1>0, <2>1 DEF ContinuedAreValid
<1>14. AcceptedAreContinued'
  BY <1>0, <1>2, <1>3, <1>5 DEF AcceptedAreContinued, SameRows
<1>15. QuietAreValid'
  <2>1. ASSUME NEW i \in quiet, i \notin history
        PROVE  stockAt'[changes[i].product] = stockAt[changes[i].product]
    <3> DEFINE p == changes[i].product
    <3>1. i \in Stored /\ i \in Changes /\ i \in Nat /\ p \in Products
      BY <1>0, <1>4, ChangeFacts
    <3>2. ASSUME NEW m \in S \cap Of(p) PROVE FALSE
      <4>1. m # i /\ ~Passed(m) /\ m \in Nat /\ m \in Stored
        BY <1>12, <2>1
      <4>2. m > i
        BY <1>0, <3>1, <4>1 DEF QuietAreValid
      <4>3. ingestedAt[i] <= ingestedAt[m]
        BY <1>0, <1>4, <3>1, <4>1, <4>2 DEF QuietAreValid
      <4>4. i \in batch \/ Passed(i)
        BY <1>12, <3>1, <4>3
      <4> QED
        BY <1>0, <1>4, <2>1, <4>4 DEF QuietAreValid, QuietRestocksLand
    <3> QED
      BY <1>2, <3>1, <3>2
  <2>2. ASSUME NEW i \in quiet, i \notin history, changes[i].product \in HasStock
        PROVE  /\ changes[i].product \in HasStock'
               /\ Stock(changes[i].product)' = Stock(changes[i].product)
    BY <1>2, <2>1, <2>2 DEF HasStock, Stock
  <2> SUFFICES ASSUME NEW i \in quiet
               PROVE  LET p == changes[i].product IN
                        /\ \A j \in Of(p) : j < i => Passed(j)
                        /\ \A j \in Of(p) \cap Stored : j > i => ingestedAt[j] > ingestedAt[i]
                        /\ i \in batch => i \in valid \cup history
                        /\ i \notin history => /\ p \in HasStock'
                                               /\ Stock(p)' + changes[i].delta = changes[i].stock
    BY <1>2, <1>3, <1>5 DEF QuietAreValid, SameRows
  <2> QED
    BY <1>0, <2>2 DEF QuietAreValid
<1>16. QuietRestocksLand'
  BY <1>0, <1>2, <1>5 DEF QuietRestocksLand
<1>17. RefillsDecided' /\ OneRefillAtATime'
  BY <1>0, <1>2, <1>3 DEF RefillsDecided, OneRefillAtATime, SameRows
<1> QED
  BY <1>1, <1>7, <1>8, <1>9, <1>10, <1>11, <1>13, <1>14, <1>15, <1>16, <1>17 DEF InventoryInv

\* Writing the watermark passes exactly the batch.
LEMMA WatermarkPasses ==
  ASSUME TypeOK, BatchIsNext, WriteWatermark
  PROVE  /\ batch # {}
         /\ \A i : Passed(i)' <=> Passed(i) \/ i \in batch
<1>1. /\ batch # {} /\ watermark' = NextWatermark /\ UNCHANGED ingestedAt
  BY DEF WriteWatermark, BatchIsNext, Working, bronzeVars
<1>2. /\ NextWatermark \in Nat /\ watermark \in Nat /\ batch \subseteq Stored
      /\ \A i \in Stored : ingestedAt[i] \in Nat
      /\ \E i \in batch : NextWatermark = ingestedAt[i]
      /\ \A i \in batch : ingestedAt[i] <= NextWatermark
  <2>1. /\ watermark \in Nat /\ batch \subseteq Stored /\ clock \in Nat
        /\ \A i \in Stored : ingestedAt[i] \in Nat
    BY DEF TypeOK
  <2>2. /\ NextWatermark \in 0..clock
        /\ \E i \in batch : NextWatermark = ingestedAt[i]
        /\ \A i \in batch : ingestedAt[i] <= NextWatermark
    BY <1>1, WatermarkIsLatest
  <2> QED
    BY <2>1, <2>2
<1>3. Stored' = Stored
  BY <1>1 DEF Stored
<1>4. \A i \in Stored : watermark < ingestedAt[i] <=> ~Passed(i)
  BY <1>2 DEF Passed
<1>5. ASSUME NEW i \in batch PROVE Passed(i)'
  BY <1>1, <1>2, <1>3 DEF Passed
<1>6. watermark < NextWatermark
  BY <1>2, <1>4 DEF BatchIsNext
<1>7. ASSUME NEW i, Passed(i) PROVE Passed(i)'
  BY <1>1, <1>2, <1>3, <1>6, <1>7 DEF Passed
<1>8. ASSUME NEW i, Passed(i)', i \notin batch PROVE Passed(i)
  <2>1. i \in Stored /\ ingestedAt[i] <= NextWatermark
    BY <1>1, <1>3, <1>8 DEF Passed
  <2> QED
    BY <1>2, <1>8, <2>1 DEF BatchIsNext
<1> QED
  BY <1>1, <1>5, <1>7, <1>8

\* Passing the batch keeps the invariant: all of it has been decided by then.
LEMMA WatermarkStep == InventoryInv /\ WriteWatermark => InventoryInv'
<1> SUFFICES ASSUME InventoryInv, WriteWatermark PROVE InventoryInv'
  OBVIOUS
<1>0. /\ TypeOK /\ BatchIsNext /\ StepsWritten /\ Origins
      /\ PassedAreDecided /\ DecidedOnce
      /\ ContinuedAreValid /\ AcceptedAreContinued
      /\ QuietAreValid /\ QuietRestocksLand
      /\ OneRefillAtATime
  BY DEF InventoryInv
<1>1. TypeOK'
  BY <1>0, JobTypesStep DEF JobStep
<1>2. /\ pc = "watermark" /\ pc' = "restock"
      /\ batch' = {} /\ valid' = {} /\ todo' = {}
      /\ UNCHANGED <<changes, ingestedAt, history, stockAt, quarantined, retried, quiet,
                     failures>>
  BY DEF WriteWatermark, generatorVars, bronzeVars, historyVars
<1>3. SameRows
  BY <1>2, SameRowsFacts
<1>4. /\ valid \subseteq batch /\ batch \subseteq Stored /\ Stored \subseteq Changes
      /\ valid \subseteq history /\ batch \ valid \subseteq quarantined
      /\ \A i \in valid : stockAt[changes[i].product] >= i
      /\ \A i \in batch : ~Passed(i)
      /\ failures \in Nat
  BY <1>0, <1>2 DEF TypeOK, StepsWritten, BatchIsNext
<1>5. \A i : Passed(i)' <=> Passed(i) \/ i \in batch
  BY <1>0, WatermarkPasses
<1>6. BatchIsNext' /\ StepsWritten'
  BY <1>2 DEF BatchIsNext, StepsWritten, Working
<1>7. Origins'
  <2>1. \A i \in history' : Passed(i)' \/ i \in retried' \cup valid'
    BY <1>0, <1>2, <1>4, <1>5 DEF Origins
  <2>2. \A i \in quarantined' : Passed(i)' \/ i \in retried' \cup (batch' \ valid')
    BY <1>0, <1>2, <1>5 DEF Origins
  <2>3. HasStock' = HasStock
    BY <1>2 DEF HasStock
  <2>4. \A p \in HasStock : Passed(stockAt[p]) \/ stockAt[p] \in batch => Passed(stockAt[p])'
    <3> SUFFICES ASSUME NEW p \in HasStock, NEW m, m = stockAt[p], Passed(m) \/ m \in batch
                 PROVE  Passed(stockAt[p])'
      OBVIOUS
    <3>1. Passed(m)'
      BY <1>5
    <3> QED
      BY <1>2, <3>1 DEF Passed
  <2>5. \A p \in HasStock' : Passed(stockAt[p])' \/ stockAt'[p] \in retried'
    BY <1>0, <1>2, <1>4, <2>3, <2>4 DEF Origins
  <2>6. \A i \in retried' : \A k \in Stored' :
          ingestedAt'[k] <= ingestedAt'[i] => Passed(k)' \/ k \in retried'
    BY <1>0, <1>2, <1>3, <1>5 DEF Origins, SameRows
  <2> QED
    BY <2>1, <2>2, <2>5, <2>6 DEF Origins
<1>8. PassedAreDecided'
  <2> SUFFICES ASSUME NEW i \in Changes, Passed(i) \/ i \in batch
               PROVE  /\ i \in history \cup quarantined
                      /\ i \in history \ retried => stockAt[changes[i].product] >= i
    BY <1>2, <1>3, <1>5 DEF PassedAreDecided, SameRows
  <2>1. CASE Passed(i)
    BY <1>0, <2>1 DEF PassedAreDecided
  <2>2. CASE i \in batch
    BY <1>0, <1>4, <2>2 DEF Origins
  <2> QED
    BY <2>1, <2>2
<1>9. DecidedOnce'
  BY <1>0, <1>2 DEF DecidedOnce
<1>10. ContinuedAreValid'
  BY <1>0, <1>2, <1>3 DEF ContinuedAreValid, SameRows
<1>11. AcceptedAreContinued'
  <2> SUFFICES ASSUME NEW i \in Changes, Passed(i) \/ i \in batch, Continues(i), InOrder(i),
                      Previous(i) \in history \ retried
               PROVE  i \in history
    BY <1>2, <1>3, <1>5 DEF AcceptedAreContinued, SameRows
  <2> QED
    BY <1>0, <1>4 DEF AcceptedAreContinued, ContinuedAreValid
<1>12. QuietAreValid'
  <2>1. HasStock' = HasStock /\ \A p : Stock(p)' = Stock(p)
    BY <1>2 DEF HasStock, Stock
  <2> QED
    BY <1>0, <1>2, <1>3, <1>5, <2>1 DEF QuietAreValid, SameRows
<1>13. QuietRestocksLand'
  BY <1>0, <1>2, <1>4, <1>5 DEF QuietRestocksLand, QuietAreValid
<1>14. RefillsDecided' /\ OneRefillAtATime'
  <2>1. \A p : Undecided(p)' = {}
    <3>1. \A i \in Changes : changes[i].reason = "restock" => i \in batch \/ Passed(i)
      BY <1>0, <1>2 DEF BatchIsNext, Working
    <3> QED
      BY <1>2, <1>3, <1>5, <3>1 DEF Undecided, Of, SameRows
  <2>2. \A p : Cardinality(Undecided(p)') = 0
    BY <2>1, FS_EmptySet
  <2> QED
    BY <1>2, <1>4, <2>2 DEF RefillsDecided, OneRefillAtATime
<1> QED
  BY <1>1, <1>6, <1>7, <1>8, <1>9, <1>10, <1>11, <1>12, <1>13, <1>14 DEF InventoryInv

\* There are finitely many changes.
LEMMA UndecidedIsFinite ==
  ASSUME TypeOK, NEW p \in Products
  PROVE  IsFiniteSet(Undecided(p)) /\ Cardinality(Undecided(p)) \in Nat
<1>1. Len(changes) \in Nat
  BY ChangeFacts
<1>2. IsFiniteSet(Changes)
  BY <1>1, FS_Interval DEF Changes
<1>3. Undecided(p) \in SUBSET Changes
  BY DEF Undecided, Of
<1>4. IsFiniteSet(Undecided(p))
  BY <1>2, <1>3, FS_Subset
<1> QED
  BY <1>4, FS_CardinalityType

\* A run that is given up leaves its writes behind and keeps the invariant.
LEMMA AbandonStep ==
  ASSUME InventoryInv, pc \in {"history", "stock", "watermark"}, Abandoned
  PROVE  InventoryInv'
<1>0. /\ TypeOK /\ BatchIsNext /\ StepsWritten /\ Origins
      /\ PassedAreDecided /\ DecidedOnce
      /\ ContinuedAreValid /\ AcceptedAreContinued
      /\ QuietAreValid /\ QuietRestocksLand
      /\ OneRefillAtATime
  BY DEF InventoryInv
<1>1. TypeOK'
  BY <1>0, JobTypesStep DEF JobStep
<1>2. /\ pc' = "idle" /\ batch' = {} /\ valid' = {} /\ todo' = {}
      /\ retried' = retried \cup batch
      /\ UNCHANGED <<changes, ingestedAt, history, stockAt, quarantined, watermark, quiet>>
  BY DEF Abandoned, Abandon, generatorVars, bronzeVars, silverVars
<1>3. SameRows
  BY <1>2, SameRowsFacts
<1>4. /\ valid \subseteq batch /\ batch \subseteq Stored /\ Stored \subseteq Changes
      /\ \A k \in Stored : ingestedAt[k] \in Nat
  BY <1>0 DEF TypeOK
<1>5. \A i : Passed(i)' <=> Passed(i)
  BY <1>2, <1>3 DEF SameRows
<1>6. BatchIsNext' /\ StepsWritten'
  BY <1>2 DEF BatchIsNext, StepsWritten, Working
<1>7. Origins'
  <2>1. \A i \in history' : Passed(i)' \/ i \in retried' \cup valid'
    BY <1>0, <1>2, <1>4, <1>5 DEF Origins
  <2>2. \A i \in quarantined' : Passed(i)' \/ i \in retried' \cup (batch' \ valid')
    BY <1>0, <1>2, <1>5 DEF Origins
  <2>3. HasStock' = HasStock /\ \A p \in HasStock : Passed(stockAt[p])' <=> Passed(stockAt[p])
    BY <1>2, <1>3 DEF HasStock, Passed, SameRows
  <2>4. \A p \in HasStock' : Passed(stockAt[p])' \/ stockAt'[p] \in retried'
    BY <1>0, <1>2, <1>4, <2>3 DEF Origins
  <2>5. ASSUME NEW i \in retried', NEW k \in Stored, ingestedAt[k] <= ingestedAt[i]
        PROVE  Passed(k) \/ k \in retried'
    <3>1. CASE i \in retried
      BY <1>0, <1>2, <2>5, <3>1 DEF Origins
    <3>2. CASE i \in batch
      BY <1>0, <1>2, <1>4, <2>5, <3>2 DEF BatchIsNext
    <3> QED
      BY <1>2, <3>1, <3>2
  <2> QED
    BY <1>2, <1>3, <1>5, <2>1, <2>2, <2>4, <2>5 DEF Origins, SameRows
<1>8. PassedAreDecided'
  BY <1>0, <1>2, <1>3, <1>5 DEF PassedAreDecided, SameRows
<1>9. DecidedOnce'
  BY <1>0, <1>2 DEF DecidedOnce
<1>10. ContinuedAreValid'
  BY <1>0, <1>2, <1>3 DEF ContinuedAreValid, SameRows
<1>11. AcceptedAreContinued'
  BY <1>0, <1>2, <1>3, <1>5 DEF AcceptedAreContinued, SameRows
<1>12. QuietAreValid'
  <2>1. HasStock' = HasStock /\ \A p : Stock(p)' = Stock(p)
    BY <1>2 DEF HasStock, Stock
  <2> QED
    BY <1>0, <1>2, <1>3, <1>5, <2>1 DEF QuietAreValid, SameRows
<1>13. QuietRestocksLand'
  BY <1>0, <1>2, <1>5 DEF QuietRestocksLand
<1>14. RefillsDecided' /\ OneRefillAtATime'
  <2>1. failures \in Nat /\ failures' \in Nat /\ failures <= failures'
    BY <1>0 DEF TypeOK, Abandoned
  <2>2. \A p \in Products : Cardinality(Undecided(p)) \in Nat
    BY <1>0, UndecidedIsFinite
  <2>3. \A p \in Products : Undecided(p)' = Undecided(p)
    BY <1>2, <1>3 DEF SameRows
  <2>4. OneRefillAtATime'
    BY <1>0, <2>1, <2>2, <2>3 DEF OneRefillAtATime
  <2> QED
    BY <1>2, <2>4 DEF RefillsDecided
<1> QED
  BY <1>1, <1>6, <1>7, <1>8, <1>9, <1>10, <1>11, <1>12, <1>13, <1>14 DEF InventoryInv

-------------------------------------------------------------------------------
(* Refills, as the other processes see them and as they are made.          *)

\* Steps that add no refill keep what is known of the refills there are.
LEMMA RefillsKept ==
  ASSUME InventoryInv, TypeOK', Grows, quiet' = quiet, failures <= failures',
         \A i \in Changes' \ Changes : changes'[i].reason # "restock"
  PROVE  QuietAreValid' /\ QuietRestocksLand' /\ RefillsDecided' /\ OneRefillAtATime'
<1>1. GrowthFacts
  BY GrowsMeans DEF InventoryInv
<1>2. /\ TypeOK /\ QuietAreValid /\ QuietRestocksLand /\ RefillsDecided /\ OneRefillAtATime
  BY DEF InventoryInv
<1>3. /\ Stored \subseteq Changes /\ quiet \subseteq Stored
      /\ \A i \in Stored : ingestedAt[i] \in Nat
      /\ UNCHANGED <<batch, valid, history>>
      /\ pc' = "restock" => pc = "restock"
  BY <1>2 DEF TypeOK, Grows, silverVars
<1>4. QuietAreValid'
  <2> SUFFICES ASSUME NEW i \in quiet
               PROVE  /\ \A j \in Of(changes[i].product)' : j < i => Passed(j)'
                      /\ \A j \in Of(changes[i].product)' \cap Stored' :
                           j > i => ingestedAt'[j] > ingestedAt'[i]
                      /\ i \in batch => i \in valid \cup history
                      /\ i \notin history =>
                           /\ changes[i].product \in HasStock'
                           /\ Stock(changes[i].product)' + changes[i].delta = changes[i].stock
    <3>1. \A i \in quiet : changes'[i] = changes[i]
      BY <1>1, <1>3 DEF GrowthFacts
    <3> QED
      BY <1>3, <3>1 DEF QuietAreValid
  <2> PICK p \in Products : p = changes[i].product
    BY <1>2, <1>3, ChangeFacts
  <2>1. i \in Stored /\ i \in Changes /\ i \in Nat
    BY <1>2, <1>3, ChangeFacts
  <2>2. /\ \A j \in Of(p) : j < i => Passed(j)
        /\ \A j \in Of(p) \cap Stored : j > i => ingestedAt[j] > ingestedAt[i]
        /\ i \in batch => i \in valid \cup history
        /\ i \notin history => /\ p \in HasStock
                               /\ Stock(p) + changes[i].delta = changes[i].stock
    BY <1>2 DEF QuietAreValid
  <2>3. Of(p) = Of(p)' \cap Changes
    BY <1>2, GrowsFacts
  <2>4. \A j \in Of(p)' : /\ j < i => j \in Changes
                          /\ j \in Nat
    <3>1. \A j \in Of(p)' : j \in Changes' /\ j \in Nat
      BY DEF Of, Changes
    <3>2. \A j \in Changes' \ Changes : i < j
      BY <1>1, <2>1 DEF GrowthFacts
    <3> QED
      BY <2>1, <3>1, <3>2
  <2>5. \A j \in Of(p)' : j < i => Passed(j)'
    BY <1>1, <2>2, <2>3, <2>4 DEF GrowthFacts
  <2>6. ASSUME NEW j \in Of(p)' \cap Stored', j > i PROVE ingestedAt'[j] > ingestedAt'[i]
    <3>1. ingestedAt'[i] = ingestedAt[i] /\ ingestedAt[i] \in Nat
      BY <1>1, <1>3, <2>1 DEF GrowthFacts
    <3>2. CASE j \in Stored
      BY <1>1, <1>3, <2>2, <2>3, <2>6, <3>1, <3>2 DEF GrowthFacts
    <3>3. CASE j \notin Stored
      <4>1. ingestedAt[i] < ingestedAt'[j] /\ ingestedAt'[j] \in Nat
        BY <1>1, <2>1, <3>3 DEF GrowthFacts
      <4> QED
        BY <3>1, <4>1
    <3> QED
      BY <3>2, <3>3
  <2>7. i \notin history => /\ p \in HasStock'
                            /\ Stock(p)' + changes[i].delta = changes[i].stock
    BY <1>1, <2>2 DEF GrowthFacts
  <2>8. changes'[i].product = p
    BY <1>1, <2>1 DEF GrowthFacts
  <2>9. /\ Of(p)' = Of(changes[i].product)'
        /\ Stock(p)' = Stock(changes[i].product)'
    BY <2>8
  <2> QED
    BY <2>2, <2>5, <2>6, <2>7, <2>9
<1>5. QuietRestocksLand'
  BY <1>1, <1>2, <1>3 DEF QuietRestocksLand, GrowthFacts
<1>6. \A p \in Products : Undecided(p)' = Undecided(p)
  <2> SUFFICES ASSUME NEW p \in Products PROVE Undecided(p)' = Undecided(p)
    OBVIOUS
  <2>1. Of(p) = Of(p)' \cap Changes /\ Of(p)' \subseteq Changes'
    BY <1>2, GrowsFacts DEF Of
  <2>2. \A i \in Of(p)' : changes'[i].reason = "restock" => i \in Of(p)
    BY <2>1
  <2>3. \A i \in Of(p) : changes'[i] = changes[i]
    BY <1>1 DEF GrowthFacts, Of
  <2> QED
    BY <1>1, <2>1, <2>2, <2>3 DEF Undecided, GrowthFacts
<1>7. /\ failures \in Nat /\ failures' \in Nat
      /\ \A p \in Products : Cardinality(Undecided(p)) \in Nat
  <2>1. failures \in Nat
    BY <1>2 DEF TypeOK
  <2>2. failures' \in Nat
    BY DEF TypeOK
  <2> QED
    BY <1>2, <2>1, <2>2, UndecidedIsFinite
<1>8. RefillsDecided'
  BY <1>2, <1>3, <1>6, <1>7 DEF RefillsDecided
<1>9. OneRefillAtATime'
  BY <1>2, <1>6, <1>7 DEF OneRefillAtATime
<1> QED
  BY <1>4, <1>5, <1>8, <1>9

\* A refill is quiet if it starts from silver's stock and nothing of its product
\* is left undecided; the check makes at most one for each product.
LEMMA RefillsMade ==
  ASSUME InventoryInv, Refilling
  PROVE  QuietAreValid' /\ QuietRestocksLand' /\ RefillsDecided' /\ OneRefillAtATime'
<1>0. TypeOK
  BY DEF InventoryInv
<1>1. TypeOK' /\ Grows /\ RefillsAdded /\ GrowthFacts
  BY <1>0, RefillingAdds, GrowsMeans
<1>2. /\ QuietAreValid /\ QuietRestocksLand /\ RefillsDecided
  BY DEF InventoryInv
<1>3. /\ Stored \subseteq Changes /\ quiet \subseteq Stored /\ batch \subseteq Stored
      /\ \A i \in Stored : ingestedAt[i] \in Nat
      /\ UNCHANGED <<batch, valid, history>>
  BY <1>0, <1>1 DEF TypeOK, Grows, silverVars
<1>4. quiet' = quiet \cup {i \in Changes' \ Changes :
                             \A j \in Of(changes'[i].product) : Passed(j)}
  BY <1>1 DEF RefillsAdded
<1>5. ASSUME NEW i \in quiet', NEW p \in Products, p = changes'[i].product
      PROVE  /\ \A j \in Of(p)' : j < i => Passed(j)'
             /\ \A j \in Of(p)' \cap Stored' : j > i => ingestedAt'[j] > ingestedAt'[i]
             /\ i \in batch => i \in valid \cup history
             /\ i \notin history =>
                  /\ p \in HasStock'
                  /\ Stock(p)' + changes'[i].delta = changes'[i].stock
  <2>1. Of(p) = Of(p)' \cap Changes
    BY <1>0, <1>1, GrowsFacts
  <2>2. \A j \in Of(p)' : j \in Changes' /\ j \in Nat /\ changes'[j].product = p
    BY DEF Of, Changes
  <2>3. CASE i \in quiet
    <3>1. i \in Stored /\ i \in Changes /\ i \in Nat /\ changes'[i] = changes[i]
          /\ ingestedAt'[i] = ingestedAt[i]
      BY <1>0, <1>1, <1>3, <2>3, ChangeFacts DEF GrowthFacts
    <3>2. /\ \A j \in Of(p) : j < i => Passed(j)
          /\ \A j \in Of(p) \cap Stored : j > i => ingestedAt[j] > ingestedAt[i]
          /\ i \in batch => i \in valid \cup history
          /\ i \notin history => /\ p \in HasStock
                                 /\ Stock(p) + changes[i].delta = changes[i].stock
      BY <1>2, <1>5, <2>3, <3>1 DEF QuietAreValid
    <3>3. \A j \in Of(p)' : j < i => j \in Changes
      <4>1. \A j \in Changes' \ Changes : i < j
        BY <1>1, <3>1 DEF GrowthFacts
      <4> QED
        BY <2>2, <3>1, <4>1
    <3>4. \A j \in Of(p)' : j < i => Passed(j)'
      BY <1>1, <2>1, <3>2, <3>3 DEF GrowthFacts
    <3>5. ASSUME NEW j \in Of(p)' \cap Stored', j > i PROVE ingestedAt'[j] > ingestedAt'[i]
      <4>1. CASE j \in Stored
        BY <1>1, <1>3, <2>1, <3>1, <3>2, <3>5, <4>1 DEF GrowthFacts
      <4>2. CASE j \notin Stored
        <5>1. ingestedAt[i] < ingestedAt'[j] /\ ingestedAt'[j] \in Nat /\ ingestedAt[i] \in Nat
          BY <1>1, <1>3, <3>1, <4>2 DEF GrowthFacts
        <5> QED
          BY <3>1, <5>1
      <4> QED
        BY <4>1, <4>2
    <3>6. i \notin history => /\ p \in HasStock'
                              /\ Stock(p)' + changes'[i].delta = changes'[i].stock
      BY <1>1, <3>1, <3>2 DEF GrowthFacts
    <3> QED
      BY <3>2, <3>4, <3>5, <3>6
  <2>4. CASE i \in Changes' \ Changes
    <3>1. \A j \in Of(p) : Passed(j)
      <4>1. i \notin quiet
        BY <1>3, <2>4
      <4> QED
        BY <1>4, <1>5, <4>1
    <3>2. i \in Nat /\ \A j \in Changes : j < i /\ j \in Nat
      BY <1>1, <2>4 DEF GrowthFacts, Changes
    <3>3. \A j \in Of(p)' : j \in Of(p) \/ j = i
      BY <1>1, <1>5, <2>1, <2>2, <2>4 DEF RefillsAdded
    <3>4. \A j \in Of(p)' : j < i => Passed(j)'
      BY <1>1, <3>1, <3>2, <3>3 DEF GrowthFacts
    <3>5. \A j \in Of(p)' : ~(j > i)
      BY <2>1, <3>2, <3>3
    <3>6. i \notin batch
      BY <1>3, <2>4
    <3>7. PICK q \in Due : q \in Products /\ changes'[i] = Refill(q)
      BY <1>1, <2>4 DEF RefillsAdded
    <3>8. q = p /\ p \in HasStock /\ Stock(p) \in 0..Capacity
      <4>1. q = p
        BY <1>5, <3>7 DEF Refill
      <4>2. p \in HasStock
        BY <4>1 DEF Due
      <4> QED
        BY <1>0, <4>1, <4>2, StockFacts
    <3>9. p \in HasStock' /\ Stock(p)' = Stock(p)
      BY <1>1, <3>8 DEF GrowthFacts
    <3>10. Stock(p)' + changes'[i].delta = changes'[i].stock
      <4>1. changes'[i].delta = Target - Stock(p) /\ changes'[i].stock = Target
        BY <3>7, <3>8 DEF Refill
      <4> QED
        BY <3>8, <3>9, <4>1, CapacityAssumption
    <3> QED
      BY <3>4, <3>5, <3>6, <3>9, <3>10
  <2> QED
    BY <1>4, <2>3, <2>4
<1>6. QuietAreValid'
  <2>1. \A i \in quiet' : changes'[i].product \in Products
    <3>1. ProductsKnown'
      <4>1. TypeOK' => ProductsKnown'
        BY ChangesHaveProducts, PTL
      <4> QED
        BY <1>1, <4>1
    <3>2. \A i \in quiet' : i \in Changes'
      BY <1>1, <1>3, <1>4 DEF GrowthFacts
    <3> QED
      BY <3>1, <3>2 DEF ProductsKnown
  <2> QED
    BY <1>3, <1>5, <2>1 DEF QuietAreValid
<1>7. QuietRestocksLand'
  <2>1. \A i \in Changes' \ Changes : ~Passed(i)
    BY <1>3 DEF Passed
  <2> QED
    BY <1>1, <1>2, <1>3, <1>4, <2>1 DEF QuietRestocksLand, GrowthFacts
<1>8. ASSUME NEW p \in Products
      PROVE  /\ Cardinality(Undecided(p)') \in Nat
             /\ Cardinality(Undecided(p)') <= failures + 1
  <2>1. Of(p) = Of(p)' \cap Changes /\ Of(p)' \subseteq Changes'
    BY <1>0, <1>1, GrowsFacts DEF Of
  <2>2. \E k : Of(p)' \subseteq Of(p) \cup {k}
    <3>1. \A i, k \in Of(p)' \ Changes : i = k
      BY <1>1, <2>1 DEF RefillsAdded, Of
    <3>2. CASE Of(p)' \ Changes = {}
      BY <2>1, <3>2
    <3>3. CASE Of(p)' \ Changes # {}
      <4>1. PICK k \in Of(p)' \ Changes : TRUE
        BY <3>3
      <4>2. Of(p)' \subseteq Of(p) \cup {k}
        BY <2>1, <3>1, <4>1
      <4> QED
        BY <4>2
    <3> QED
      BY <3>2, <3>3
  <2>3. PICK k : Of(p)' \subseteq Of(p) \cup {k}
    BY <2>2
  <2>4. Undecided(p)' \subseteq Undecided(p) \cup {k}
    <3>1. \A i \in Of(p) : changes'[i] = changes[i]
      BY <1>1 DEF GrowthFacts, Of
    <3>2. \A i \in Undecided(p)' : /\ i \in Of(p)' /\ ~Passed(i)'
                                   /\ changes'[i].reason = "restock"
      BY DEF Undecided
    <3>3. \A i \in Undecided(p)' : i \in Of(p) => i \in Undecided(p)
      BY <1>1, <3>1, <3>2 DEF Undecided, GrowthFacts
    <3> QED
      BY <2>3, <3>2, <3>3
  <2>5. /\ IsFiniteSet(Undecided(p)) /\ Cardinality(Undecided(p)) \in Nat
        /\ Cardinality(Undecided(p)) <= failures /\ failures \in Nat
    <3>1. IsFiniteSet(Undecided(p)) /\ Cardinality(Undecided(p)) \in Nat
      BY <1>0, UndecidedIsFinite
    <3>2. Cardinality(Undecided(p)) <= failures
      BY <1>2 DEF RefillsDecided, Refilling
    <3>3. failures \in Nat
      BY <1>0 DEF TypeOK
    <3> QED
      BY <3>1, <3>2, <3>3
  <2> DEFINE U == Undecided(p) \cup {k}
  <2>6. /\ IsFiniteSet(U) /\ Cardinality(U) \in Nat
        /\ Cardinality(U) <= Cardinality(Undecided(p)) + 1
    <3>1. /\ IsFiniteSet(U)
          /\ Cardinality(U) = IF k \in Undecided(p) THEN Cardinality(Undecided(p))
                              ELSE Cardinality(Undecided(p)) + 1
      BY <2>5, FS_AddElement
    <3> HIDE DEF U
    <3> QED
      BY <2>5, <3>1
  <2>7. /\ IsFiniteSet(Undecided(p)') /\ Cardinality(Undecided(p)') <= Cardinality(U)
    <3>1. Undecided(p)' \in SUBSET U
      BY <2>4
    <3> HIDE DEF U
    <3> QED
      BY <2>6, <3>1, FS_Subset
  <2>8. Cardinality(Undecided(p)') \in Nat
    BY <2>7, FS_CardinalityType
  <2> HIDE DEF U
  <2> QED
    BY <2>5, <2>6, <2>7, <2>8
<1>9. \/ failures' = failures /\ pc' = "idle"
      \/ failures' = failures + 1
  BY DEF Refilling
<1>10. failures \in Nat
  BY <1>0 DEF TypeOK
<1>11. RefillsDecided'
  BY <1>8, <1>9, <1>10 DEF RefillsDecided
<1>12. OneRefillAtATime'
  BY <1>8, <1>9, <1>10 DEF OneRefillAtATime
<1> QED
  BY <1>6, <1>7, <1>11, <1>12

-------------------------------------------------------------------------------
(* The theorems.                                                           *)

\* The invariant holds when nothing has been sold.
LEMMA InventoryInit == Init => InventoryInv
<1> SUFFICES ASSUME Init PROVE InventoryInv
  OBVIOUS
<1>1. Stored = {} /\ Len(changes) = 0 /\ Changes = {}
  <2>1. Stored = {} /\ Len(changes) = 0
    BY DEF Init, Stored
  <2> QED
    BY <2>1 DEF Changes
<1>2. TypeOK
  <2>1. ChangeTypes
    BY <1>1 DEF Init, ChangeTypes
  <2>2. JobTypes
    BY <1>1 DEF Init, JobTypes
  <2>3. ProcessTypes
    BY CapacityAssumption, BoundsAssumption DEF Init, ProcessTypes
  <2>4. ProductTypes
    BY DEF Init, ProductTypes
  <2> QED
    BY <2>1, <2>2, <2>3, <2>4, TypeParts
<1>3. BatchIsNext /\ StepsWritten /\ DecidedOnce
  BY <1>1 DEF Init, BatchIsNext, StepsWritten, DecidedOnce, Working
<1>4. Origins
  BY <1>1 DEF Init, Origins, HasStock
<1>5. PassedAreDecided /\ ContinuedAreValid /\ AcceptedAreContinued
  BY <1>1 DEF PassedAreDecided, ContinuedAreValid, AcceptedAreContinued
<1>6. QuietAreValid /\ QuietRestocksLand
  BY DEF Init, QuietAreValid, QuietRestocksLand
<1>7. OneRefillAtATime /\ RefillsDecided
  <2>1. \A p \in Products : Undecided(p) = {}
    BY <1>1 DEF Undecided, Of
  <2>2. \A p \in Products : Cardinality(Undecided(p)) = 0
    BY <2>1, FS_EmptySet
  <2> QED
    BY <2>2 DEF Init, OneRefillAtATime, RefillsDecided
<1> QED
  BY <1>2, <1>3, <1>4, <1>5, <1>6, <1>7 DEF InventoryInv

\* Every step of any of the processes keeps the invariant.
LEMMA InventoryStep == InventoryInv /\ [Next]_vars => InventoryInv'
<1> SUFFICES ASSUME InventoryInv, [Next]_vars PROVE InventoryInv'
  OBVIOUS
<1>0. TypeOK /\ BatchIsNext /\ StepsWritten
  BY DEF InventoryInv
\* The processes around the inventory job.
<1>1. ASSUME TypeOK', Grows, quiet' = quiet, failures <= failures',
             \A i \in Changes' \ Changes : changes'[i].reason # "restock"
      PROVE  InventoryInv'
  BY <1>1, GrowsKeeps, RefillsKept DEF InventoryInv
<1>2. ASSUME Elsewhere, TypeOK' PROVE InventoryInv'
  <2>1. quiet' = quiet /\ failures <= failures' /\ Changes' = Changes
    BY <1>2 DEF Elsewhere, Changes
  <2>2. Grows
    BY <1>0, <1>2, ElsewhereGrows
  <2> QED
    BY <1>1, <1>2, <2>1, <2>2
<1>3. CASE ElsewhereStep
  BY <1>0, <1>2, <1>3, StepsElsewhere, ElsewhereTypes
<1>4. ASSUME NEW p \in Products, NEW quantity \in Quantities, Sale(p, quantity)
      PROVE  InventoryInv'
  <2>1. /\ Grows /\ TypeOK' /\ quiet' = quiet /\ failures' = failures
        /\ Changes' = Changes \cup {Len(changes) + 1}
        /\ changes'[Len(changes) + 1].reason = "sale"
    BY <1>0, <1>4, SaleAdds
  <2>2. \A i \in Changes' \ Changes : changes'[i].reason # "restock"
    BY <2>1
  <2>3. failures <= failures'
    BY <1>0, <2>1 DEF TypeOK
  <2> QED
    BY <1>1, <2>1, <2>2, <2>3
<1>5. ASSUME NEW S \in SUBSET reading, BronzeCommits(S) PROVE InventoryInv'
  <2>1. /\ Grows /\ TypeOK' /\ quiet' = quiet /\ failures' = failures
        /\ changes' = changes
    BY <1>0, <1>5, BronzeAdds
  <2>2. Changes' = Changes /\ failures <= failures'
    BY <1>0, <2>1 DEF Changes, TypeOK
  <2> QED
    BY <1>1, <2>1, <2>2
<1>6. CASE RestockCheck \/ RestockRepeats
  <2>1. CASE Refilling
    BY <1>0, <2>1, RefillingAdds, GrowsKeeps, RefillsMade DEF InventoryInv
  <2>2. CASE RestockCheck /\ UNCHANGED <<changes, ingestedAt, clock, events, fresh, quiet>>
    <3>1. /\ pc = "restock" /\ pc' = "idle" /\ failures' = failures
          /\ UNCHANGED <<catalog, qty, process, bronzeVars, batch, valid, todo, silverVars,
                         productVars, retried, quiet, changes>>
      BY <2>2 DEF RestockCheck, bronzeVars, productVars
    <3>2. failures <= failures'
      BY <1>0, <3>1 DEF TypeOK
    <3>3. Elsewhere
      BY <3>1, <3>2 DEF Elsewhere, bronzeVars
    <3>4. TypeOK'
      <4>1. ChangeTypes' /\ ProductTypes' /\ ProcessTypes'
        BY <1>0, <3>1, TypeFrames
      <4>2. JobTypes'
        <5>1. quiet' \subseteq Stored'
          BY <1>0, <3>1 DEF TypeOK, bronzeVars, Stored
        <5> QED
          BY <1>0, <3>3, <5>1, ElsewhereGrows, GrowsJobTypes
      <4> QED
        BY <4>1, <4>2, TypePartsNext
    <3> QED
      BY <1>2, <3>3, <3>4
  <2> QED
    BY <1>6, <2>1, <2>2, RestockSteps
\* The inventory job.
<1>7. CASE InventoryFails \/ UnknownProduct
  <2>1. pc \in {"history", "stock", "watermark"} /\ Abandoned
    BY <1>7 DEF InventoryFails, UnknownProduct, Abandoned
  <2> QED
    BY <2>1, AbandonStep
<1>8. CASE Validate \/ WriteWatermark \/ \E S \in SUBSET todo : AppendHistory(S) \/ UpsertStock(S)
  BY <1>8, ValidateStep, WatermarkStep, AppendHistoryStep, UpsertStockStep
<1> QED
  BY <1>3, <1>4, <1>5, <1>6, <1>7, <1>8
     DEF Next, Generator, Bronze, ProductArrives, Inventory, ProductsJob, Failure,
         ElsewhereStep

\* The inductive invariant, and with it the types: however sales, updates, bronze
\* commits, the parts of both jobs, refills, failures and restarts interleave.
THEOREM InventoryInvariance == Spec => []InventoryInv
BY InventoryInit, InventoryStep, PTL DEF Spec

\* What the watermark has passed is decided, and the stock is not behind it.
THEOREM PassedDecided == Spec => []PassedAreDecided
<1>1. InventoryInv => PassedAreDecided
  BY DEF InventoryInv
<1> QED
  BY <1>1, InventoryInvariance, PTL

\* Only a run that is repeated can have both accepted and rejected a change.
THEOREM OnceDecided == Spec => []DecidedOnce
<1>1. InventoryInv => DecidedOnce
  BY DEF InventoryInv
<1> QED
  BY <1>1, InventoryInvariance, PTL

\* Acceptance carries over from a change to the one that continues it.
THEOREM ContinuationsAccepted == Spec => []AcceptedAreContinued
<1>1. InventoryInv => AcceptedAreContinued
  BY DEF InventoryInv
<1> QED
  BY <1>1, InventoryInvariance, PTL

\* A refill that started from a stock without pending changes is accepted.
THEOREM QuietRefillsAccepted == Spec => []QuietRestocksLand
<1>1. InventoryInv => QuietRestocksLand
  BY DEF InventoryInv
<1> QED
  BY <1>1, InventoryInvariance, PTL

\* Repeated tasks apart, a product has one refill that silver has not decided on.
THEOREM RefillsOneByOne == Spec => []OneRefillAtATime
<1>1. InventoryInv => OneRefillAtATime
  BY DEF InventoryInv
<1> QED
  BY <1>1, InventoryInvariance, PTL
===============================================================================
