-------------------------- MODULE KaringStore_proofs --------------------------
(***************************************************************************)
(* Theorems of KaringStore, for every number of slots, every set of data   *)
(* and every bound on time and records.                                    *)
(*                                                                         *)
(* Resequencing and a forced shrink put the used rows in the order of      *)
(* their ranks; the lemmas say what a rank is worth, the theorems follow   *)
(* action by action.                                                       *)
(***************************************************************************)
EXTENDS KaringStore, FiniteSetTheorems, TLAPS

-----------------------------------------------------------------------------
(* Ranks.                                                                  *)

\* The used slots are finitely many, at most one per slot.
LEMMA UsedFinite ==
  ASSUME TypeOK
  PROVE  /\ Slots = 1..maxItems
         /\ Used \subseteq 1..maxItems
         /\ IsFiniteSet(Used)
         /\ Cardinality(Used) \in Nat
<1>1. maxItems \in Nat \ {0}
  BY SlotsAssumption DEF TypeOK
<1>2. Slots = 1..maxItems /\ Used \subseteq 1..maxItems
  BY DEF TypeOK, Slots, Used
<1>3. IsFiniteSet(1..maxItems)
  BY <1>1, FS_Interval
<1>4. IsFiniteSet(Used)
  BY <1>2, <1>3, FS_Subset
<1> QED
  BY <1>2, <1>4, FS_CardinalityType

\* The rows a slot can hold, field by field.
LEMMA RowFacts ==
  ASSUME TypeOK, NEW i \in Slots
  PROVE  /\ i \in 1..maxItems /\ i \in Int
         /\ slots[i] \in UsedRow \union {BlankRow}
         /\ slots[i].stored \in Int /\ slots[i].seq \in Int
         /\ slots[i].used => slots[i] \in UsedRow
         /\ i \in Used <=> slots[i].used
<1>1. i \in 1..maxItems /\ maxItems \in Int
  BY UsedFinite, SlotsAssumption DEF TypeOK
<1>2. slots[i] \in UsedRow \union {BlankRow}
  BY <1>1 DEF TypeOK
<1>3. slots[i].stored \in Int /\ slots[i].seq \in Int
  <2>1. CASE slots[i] \in UsedRow
    <3>1. slots[i].stored \in 0..MaxClock /\ slots[i].seq \in 1..MaxMade
      BY <2>1 DEF UsedRow
    <3> QED
      BY <3>1
  <2>2. CASE slots[i] = BlankRow
    BY <2>2 DEF BlankRow
  <2> QED
    BY <1>2, <2>1, <2>2
<1>4. slots[i].used => slots[i] \in UsedRow
  BY <1>2 DEF BlankRow
<1> QED
  BY <1>1, <1>2, <1>3, <1>4 DEF Used

\* Ranks run from 1 to the number of used slots.
LEMMA RankRange ==
  ASSUME TypeOK, NEW i \in Used
  PROVE  Rank(i) \in 1..Cardinality(Used)
<1> DEFINE Below == {j \in Used : Precedes(j, i)}
<1>1. i \in Slots /\ i \in Int /\ slots[i].stored \in Int
  BY RowFacts DEF Used
<1>2. ~Precedes(i, i)
  BY <1>1 DEF Precedes
<1>3. Below \in SUBSET Used /\ Below # Used
  BY <1>2
<1>4. /\ IsFiniteSet(Below)
      /\ Cardinality(Below) <= Cardinality(Used)
      /\ Cardinality(Used) = Cardinality(Below) => Used = Below
  BY <1>3, UsedFinite, FS_Subset
<1>5. Cardinality(Below) \in Nat
  BY <1>4, FS_CardinalityType
<1>6. Cardinality(Below) < Cardinality(Used)
  BY <1>3, <1>4, <1>5, UsedFinite
<1> QED
  BY <1>5, <1>6, UsedFinite DEF Rank

\* A record of smaller rank is not the younger one.
LEMMA RankOrder ==
  ASSUME TypeOK, NEW i \in Used, NEW j \in Used, Rank(i) <= Rank(j)
  PROVE  slots[i].stored <= slots[j].stored
<1> DEFINE Below(k) == {m \in Used : Precedes(m, k)}
<1>1. \A k \in Used : k \in Int /\ slots[k].stored \in Int
  BY RowFacts DEF Used
<1>2. SUFFICES ASSUME slots[j].stored < slots[i].stored
               PROVE  FALSE
  BY <1>1
<1>3. \A m \in Used : Precedes(m, j) => Precedes(m, i)
  BY <1>1, <1>2 DEF Precedes
<1>4. Precedes(j, i) /\ ~Precedes(j, j)
  BY <1>1, <1>2 DEF Precedes
<1>5. Below(j) \in SUBSET Below(i) /\ Below(j) # Below(i)
  BY <1>3, <1>4
<1>6. IsFiniteSet(Below(i)) /\ IsFiniteSet(Below(j))
  BY UsedFinite, FS_Subset
<1>7. Cardinality(Below(i)) \in Nat /\ Cardinality(Below(j)) \in Nat
  BY <1>6, FS_CardinalityType
<1>8. /\ Cardinality(Below(j)) <= Cardinality(Below(i))
      /\ Cardinality(Below(i)) = Cardinality(Below(j)) => Below(i) = Below(j)
  BY <1>5, <1>6, FS_Subset
<1>9. Rank(i) = Cardinality(Below(i)) + 1 /\ Rank(j) = Cardinality(Below(j)) + 1
  BY DEF Rank
<1> HIDE DEF Below
<1> QED
  BY <1>5, <1>7, <1>8, <1>9

\* Ranks go up in the order of the records.
LEMMA RankRises ==
  ASSUME TypeOK, NEW i \in Used, NEW j \in Used, Precedes(i, j)
  PROVE  Rank(i) < Rank(j)
<1> DEFINE Below(k) == {m \in Used : Precedes(m, k)}
<1>1. \A k \in Used : k \in Int /\ slots[k].stored \in Int
  BY RowFacts DEF Used
<1>2. \A m \in Used : Precedes(m, i) => Precedes(m, j)
  BY <1>1 DEF Precedes
<1>3. ~Precedes(i, i)
  BY <1>1 DEF Precedes
<1>4. Below(i) \in SUBSET Below(j) /\ Below(i) # Below(j)
  BY <1>2, <1>3
<1>5. IsFiniteSet(Below(i)) /\ IsFiniteSet(Below(j))
  BY UsedFinite, FS_Subset
<1>6. Cardinality(Below(i)) \in Nat /\ Cardinality(Below(j)) \in Nat
  BY <1>5, FS_CardinalityType
<1>7. /\ Cardinality(Below(i)) <= Cardinality(Below(j))
      /\ Cardinality(Below(j)) = Cardinality(Below(i)) => Below(j) = Below(i)
  BY <1>4, <1>5, FS_Subset
<1>8. Rank(i) = Cardinality(Below(i)) + 1 /\ Rank(j) = Cardinality(Below(j)) + 1
  BY DEF Rank
<1> HIDE DEF Below
<1> QED
  BY <1>4, <1>6, <1>7, <1>8

\* No two used slots have the same rank.
LEMMA RanksDiffer ==
  ASSUME TypeOK, NEW i \in Used, NEW j \in Used, Rank(i) = Rank(j)
  PROVE  i = j
<1>1. \A k \in Used : k \in Int /\ slots[k].stored \in Int
  BY RowFacts DEF Used
<1>2. i = j \/ Precedes(i, j) \/ Precedes(j, i)
  BY <1>1 DEF Precedes
<1>3. Rank(i) \in Int /\ Rank(j) \in Int
  BY RankRange, UsedFinite
<1> QED
  BY <1>2, <1>3, RankRises

\* Every number from 1 to that of the used slots is a rank.
LEMMA RanksTaken ==
  ASSUME TypeOK, NEW n \in 1..Cardinality(Used)
  PROVE  \E i \in Used : Rank(i) = n
<1> DEFINE ranks == {Rank(i) : i \in Used}
           rank == [i \in Used |-> Rank(i)]
<1>1. IsFiniteSet(Used) /\ Cardinality(Used) \in Nat
  BY UsedFinite
<1>2. rank \in Bijection(Used, ranks)
  BY RanksDiffer DEF Bijection, Injection, Surjection, IsInjective
<1>3. IsFiniteSet(ranks) /\ Cardinality(ranks) = Cardinality(Used)
  BY <1>1, <1>2, FS_Bijection DEF ExistsBijection
<1>4. ranks \subseteq 1..Cardinality(Used)
  BY RankRange
<1>5. IsFiniteSet(1..Cardinality(Used)) /\ Cardinality(1..Cardinality(Used)) = Cardinality(Used)
  BY <1>1, FS_Interval
<1>6. ranks = 1..Cardinality(Used)
  BY <1>3, <1>4, <1>5, FS_Subset
<1> QED
  BY <1>6

-----------------------------------------------------------------------------
(* Compaction.                                                             *)

\* The slot the row at position p comes from.
Source(p, drop) == CHOOSE i \in Used : Rank(i) = p + drop

\* Every used row of a compaction is the row of the slot with that rank, and
\* the rest is blank.
LEMMA CompactedRows ==
  ASSUME TypeOK, NEW n \in Nat, NEW drop \in Nat, NEW p \in 1..n,
         Compacted(n, drop)[p].used
  PROVE  /\ Source(p, drop) \in Used
         /\ Rank(Source(p, drop)) = p + drop
         /\ Compacted(n, drop)[p] = slots[Source(p, drop)]
<1>1. \E i \in Used : Rank(i) = p + drop
  BY DEF Compacted, BlankRow
<1>2. Source(p, drop) \in Used /\ Rank(Source(p, drop)) = p + drop
  BY <1>1 DEF Source
<1> QED
  BY <1>1, <1>2 DEF Compacted, Source

\* Compaction yields rows, none younger than the clock.
LEMMA CompactedType ==
  ASSUME TypeOK, NEW n \in Nat, NEW drop \in Nat
  PROVE  /\ Compacted(n, drop) \in [1..n -> UsedRow \union {BlankRow}]
         /\ \A p \in 1..n : /\ Compacted(n, drop)[p].stored <= clock
                            /\ Compacted(n, drop)[p].seq <= made
<1>1. ASSUME NEW p \in 1..n
      PROVE  \/ Compacted(n, drop)[p] = BlankRow
             \/ \E i \in Used : Compacted(n, drop)[p] = slots[i]
  BY DEF Compacted
<1>2. \A i \in Used : /\ slots[i] \in UsedRow \union {BlankRow}
                      /\ slots[i].stored <= clock /\ slots[i].seq <= made
  BY UsedFinite DEF TypeOK
<1>3. BlankRow.stored <= clock /\ BlankRow.seq <= made
  BY TimeAssumption DEF TypeOK, BlankRow
<1>4. ASSUME NEW p \in 1..n
      PROVE  /\ Compacted(n, drop)[p] \in UsedRow \union {BlankRow}
             /\ Compacted(n, drop)[p].stored <= clock
             /\ Compacted(n, drop)[p].seq <= made
  BY <1>1, <1>2, <1>3
<1>5. Compacted(n, drop) = [p \in 1..n |-> Compacted(n, drop)[p]]
  BY DEF Compacted
<1> QED
  BY <1>4, <1>5

\* Compaction sorts: from one used position to a later one, time goes on.
LEMMA CompactedSorted ==
  ASSUME TypeOK, NEW n \in Nat, NEW drop \in Nat, NEW p \in 1..n, NEW q \in 1..n,
         Compacted(n, drop)[p].used, Compacted(n, drop)[q].used, p <= q
  PROVE  Compacted(n, drop)[p].stored <= Compacted(n, drop)[q].stored
<1>1. Rank(Source(p, drop)) <= Rank(Source(q, drop))
  BY CompactedRows
<1>2. slots[Source(p, drop)].stored <= slots[Source(q, drop)].stored
  BY <1>1, CompactedRows, RankOrder
<1> QED
  BY <1>2, CompactedRows

\* Compaction copies no record: two used positions come from two slots.
LEMMA CompactedDistinct ==
  ASSUME TypeOK, DistinctRecords, NEW n \in Nat, NEW drop \in Nat,
         NEW p \in 1..n, NEW q \in 1..n,
         Compacted(n, drop)[p].used, Compacted(n, drop)[q].used,
         Compacted(n, drop)[p].seq = Compacted(n, drop)[q].seq
  PROVE  p = q
<1>1. Source(p, drop) = Source(q, drop)
  BY CompactedRows DEF DistinctRecords
<1>2. p + drop = q + drop
  BY <1>1, CompactedRows
<1> QED
  BY <1>2

\* Without dropping any, the used positions are among the first ones.
LEMMA CompactedFront ==
  ASSUME TypeOK, NEW n \in Nat, NEW p \in 1..n, Compacted(n, 0)[p].used
  PROVE  p <= Cardinality(Used)
<1>1. Source(p, 0) \in Used /\ Rank(Source(p, 0)) = p
  BY CompactedRows
<1>2. Rank(Source(p, 0)) \in 1..Cardinality(Used)
  BY <1>1, RankRange
<1> QED
  BY <1>1, <1>2, UsedFinite

\* The rows of rank above drop all find a place, when there are enough.
LEMMA CompactedKeeps ==
  ASSUME TypeOK, NEW n \in Nat, NEW drop \in Nat, Cardinality(Used) <= n + drop,
         NEW i \in Used, ~(Rank(i) <= drop)
  PROVE  \E p \in 1..n : Rank(i) = p + drop /\ Compacted(n, drop)[p] = slots[i]
<1>1. Rank(i) \in 1..Cardinality(Used) /\ Cardinality(Used) \in Nat
  BY RankRange, UsedFinite
<1>2. PICK p \in 1..n : Rank(i) = p + drop
  <2>1. Rank(i) - drop \in 1..n /\ Rank(i) = (Rank(i) - drop) + drop
    BY <1>1
  <2> QED
    BY <2>1
<1>3. Source(p, drop) \in Used /\ Rank(Source(p, drop)) = p + drop
  BY <1>2 DEF Source
<1>4. Source(p, drop) = i
  BY <1>2, <1>3, RanksDiffer
<1>5. Compacted(n, drop)[p] = slots[Source(p, drop)]
  BY <1>2 DEF Compacted, Source
<1> QED
  BY <1>2, <1>4, <1>5

\* So many rows have a rank up to a number that there are.
LEMMA RanksCounted ==
  ASSUME TypeOK, NEW n \in 0..Cardinality(Used)
  PROVE  Cardinality({i \in Used : Rank(i) <= n}) = n
<1> DEFINE first == {i \in Used : Rank(i) <= n}
           rank == [i \in first |-> Rank(i)]
<1>1. IsFiniteSet(Used) /\ Cardinality(Used) \in Nat /\ n \in Nat
  BY UsedFinite
<1>2. IsFiniteSet(first)
  BY <1>1, FS_Subset
<1>3. \A i \in first : Rank(i) \in 1..n
  BY <1>1, RankRange
<1>4. \A m \in 1..n : \E i \in first : Rank(i) = m
  <2> SUFFICES ASSUME NEW m \in 1..n
               PROVE  \E i \in first : Rank(i) = m
    OBVIOUS
  <2>1. m \in 1..Cardinality(Used)
    BY <1>1
  <2>2. PICK i \in Used : Rank(i) = m
    BY <2>1, RanksTaken
  <2> QED
    BY <2>2
<1>5. \A i, j \in first : Rank(i) = Rank(j) => i = j
  BY RanksDiffer
<1> HIDE DEF first
<1>6. rank \in [first -> 1..n] /\ \A i \in first : rank[i] = Rank(i)
  BY <1>3
<1> HIDE DEF rank
<1>7. rank \in Bijection(first, 1..n)
  BY <1>4, <1>5, <1>6 DEF Bijection, Injection, Surjection, IsInjective
<1>8. Cardinality(1..n) = n
  BY <1>1, FS_Interval
<1>9. Cardinality(first) = Cardinality(1..n)
  BY <1>2, <1>7, FS_Bijection DEF ExistsBijection
<1> QED
  BY <1>8, <1>9 DEF first

\* The number of rows a forced shrink drops is a number.
LEMMA SurplusType ==
  ASSUME TypeOK, NEW n \in Nat
  PROVE  Surplus(n) \in Nat
BY UsedFinite DEF Surplus

\* PATCH is a PUT that keeps the kind of the record.
LEMMA UpdateIsReplace ==
  ASSUME TypeOK, Update
  PROVE  \E id \in Slots, kind \in Kinds, data \in Data : Replace(id, kind, data)
<1>1. PICK id \in Slots, data \in Data :
         Patch(id, data) \/ \E kind \in Kinds : Replace(id, kind, data)
  BY DEF Update
<1>2. CASE Patch(id, data)
  <2>1. slots[id].kind \in Kinds
    BY <1>2, RowFacts DEF Patch, UsedRow
  <2> QED
    BY <1>2, <2>1 DEF Patch
<1> QED
  BY <1>1, <1>2

-----------------------------------------------------------------------------
(* The type invariant.                                                     *)

\* Each operation leaves every slot with a row of the type, whatever it moves.
LEMMA StepKeepsType ==
  ASSUME TypeOK, [Next]_vars
  PROVE  TypeOK'
<1> USE SlotsAssumption, TimeAssumption
<1>0. Slots = 1..maxItems /\ maxItems \in Nat \ {0}
  BY UsedFinite DEF TypeOK
<1>1. ASSUME NEW kind \in Kinds, NEW data \in Data, Insert(kind, data)
      PROVE  TypeOK'
  <2> DEFINE row == [used |-> TRUE, kind |-> kind, data |-> data,
                     stored |-> clock, seq |-> made + 1]
  <2>1. row \in UsedRow /\ row.stored <= clock /\ row.seq <= made + 1
    BY <1>1 DEF Insert, UsedRow, TypeOK
  <2>2. slots' = [slots EXCEPT ![nextId] = row]
    BY <1>1 DEF Insert
  <2>3. slots' \in [1..maxItems -> UsedRow \union {BlankRow}]
    BY <2>1, <2>2 DEF TypeOK
  <2>4. \A i \in 1..maxItems : slots[i].seq \in Int
    BY RowFacts, <1>0
  <2>5. \A i \in 1..maxItems : slots'[i].stored <= clock /\ slots'[i].seq <= made + 1
    BY <2>1, <2>2, <2>4 DEF TypeOK
  <2>6. nextId' \in 1..maxItems
    BY <1>1 DEF Insert, NextSlot, TypeOK
  <2> QED
    BY <1>1, <2>3, <2>5, <2>6 DEF Insert, TypeOK
<1>2. ASSUME NEW id \in Slots, NEW kind \in Kinds, NEW data \in Data,
             Replace(id, kind, data)
      PROVE  TypeOK'
  <2>1. slots[id] \in UsedRow
    BY <1>2, RowFacts DEF Replace
  <2>2. /\ slots'[id] \in UsedRow
        /\ slots'[id].stored = slots[id].stored
        /\ slots'[id].seq = slots[id].seq
    BY <1>0, <1>2, <2>1 DEF Replace, UsedRow, TypeOK
  <2>3. slots' \in [1..maxItems -> UsedRow \union {BlankRow}]
    BY <1>0, <1>2, <2>2 DEF Replace, TypeOK
  <2>4. \A i \in 1..maxItems : slots'[i].stored <= clock /\ slots'[i].seq <= made
    BY <1>0, <1>2, <2>2 DEF Replace, TypeOK
  <2> QED
    BY <1>2, <2>3, <2>4 DEF Replace, TypeOK
<1>3. ASSUME NEW id \in Slots, Delete(id)
      PROVE  TypeOK'
  <2>1. BlankRow.stored <= clock /\ BlankRow.seq <= made
    BY DEF BlankRow, TypeOK
  <2> QED
    BY <1>0, <1>3, <2>1 DEF Delete, TypeOK
<1>4. CASE DeleteLatest
  <2>1. PrevSlot \in Slots
    BY <1>0 DEF PrevSlot, TypeOK
  <2> QED
    BY <1>3, <1>4, <2>1 DEF DeleteLatest
<1>5. ASSUME NEW i \in Slots, NEW j \in Slots, Swap(i, j)
      PROVE  TypeOK'
  BY <1>0, <1>5 DEF Swap, TypeOK
<1>6. CASE Resequence
  <2>1. nextId' \in 1..maxItems
    BY <1>6, UsedFinite DEF Resequence, TypeOK
  <2> QED
    BY <1>0, <1>6, <2>1, CompactedType DEF Resequence, TypeOK
<1>7. ASSUME NEW n \in 1..MaxSlots, Grow(n)
      PROVE  TypeOK'
  <2>1. BlankRow.stored <= clock /\ BlankRow.seq <= made
    BY DEF BlankRow, TypeOK
  <2>2. \A i \in 1..n : slots'[i] = IF i <= maxItems THEN slots[i] ELSE BlankRow
    BY <1>7 DEF Grow
  <2>3. \A i \in 1..n : /\ slots'[i] \in UsedRow \union {BlankRow}
                        /\ slots'[i].stored <= clock /\ slots'[i].seq <= made
    BY <1>0, <2>1, <2>2 DEF TypeOK
  <2>4. slots' \in [1..n -> UsedRow \union {BlankRow}]
    BY <1>7, <2>3 DEF Grow
  <2> QED
    BY <1>0, <1>7, <2>3, <2>4 DEF Grow, TypeOK
<1>8. ASSUME NEW n \in 1..MaxSlots, Shrink(n)
      PROVE  TypeOK'
  BY <1>0, <1>8 DEF Shrink, TypeOK
<1>9. ASSUME NEW n \in 1..MaxSlots, ForceShrink(n)
      PROVE  TypeOK'
  <2>1. n \in Nat /\ Surplus(n) \in Nat
    BY SurplusType
  <2>2. /\ slots' \in [1..n -> UsedRow \union {BlankRow}]
        /\ \A p \in 1..n : slots'[p].stored <= clock /\ slots'[p].seq <= made
    BY <1>9, <2>1, CompactedType DEF ForceShrink
  <2>3. maxItems' = n /\ nextId' = 1 /\ mixed' = FALSE /\ UNCHANGED <<clock, made>>
    BY <1>9 DEF ForceShrink
  <2>4. maxItems' \in 1..MaxSlots /\ nextId' \in 1..maxItems'
    BY <2>3
  <2>5. slots' \in [1..maxItems' -> UsedRow \union {BlankRow}]
    BY <2>2, <2>3
  <2> QED
    BY <2>2, <2>3, <2>4, <2>5 DEF TypeOK
<1>10. CASE Tick
  <2>1. \A i \in Slots : slots[i].stored \in Int
    BY RowFacts
  <2> QED
    BY <1>0, <1>10, <2>1 DEF Tick, TypeOK
<1>11. CASE UNCHANGED vars
  BY <1>11 DEF vars, TypeOK
<1>12. CASE Update
  BY <1>2, <1>12, UpdateIsReplace
<1> QED
  BY <1>1, <1>3, <1>4, <1>5, <1>6, <1>7, <1>8, <1>9, <1>10, <1>11, <1>12
  DEF Next, Resize

LEMMA InitType ==
  ASSUME Init
  PROVE  TypeOK
<1>1. BlankRow.stored = 0 /\ BlankRow.seq = 0
  BY DEF BlankRow
<1>2. maxItems \in 1..MaxSlots /\ nextId \in 1..maxItems
  BY SlotsAssumption DEF Init
<1>3. slots \in [1..maxItems -> UsedRow \union {BlankRow}]
  BY DEF Init
<1>4. \A i \in 1..maxItems : slots[i].stored <= clock /\ slots[i].seq <= made
  BY <1>1 DEF Init
<1>5. clock \in 0..MaxClock /\ made \in 0..MaxMade
  BY TimeAssumption DEF Init
<1>6. mixed \in BOOLEAN
  BY Zenon DEF Init
<1> QED
  BY <1>2, <1>3, <1>4, <1>5, <1>6 DEF TypeOK

\* Every row, the cursor and max_items keep their shape through every request
\* and every change of the limit; in particular the cursor always names a slot
\* there is, and no record is younger than the clock.
THEOREM TypeCorrect == Spec => []TypeOK
BY InitType, StepKeepsType, PTL DEF Spec

-----------------------------------------------------------------------------
(* No copies.                                                              *)

\* The next state of the used slots, written out.
LEMMA UsedNext ==
  ASSUME TypeOK, TypeOK'
  PROVE  /\ Used = {i \in 1..maxItems : slots[i].used}
         /\ Used' = {i \in 1..maxItems' : slots'[i].used}
BY DEF Used, Slots, TypeOK

\* No record is ever in two slots: nothing that moves rows (swap, resequence,
\* a change of the limit) leaves a copy behind.
THEOREM RecordsDistinct == Spec => []DistinctRecords
<1>1. Init => DistinctRecords
  BY DEF Init, DistinctRecords, Used, Slots, BlankRow
<1>2. TypeOK /\ TypeOK' /\ DistinctRecords /\ [Next]_vars => DistinctRecords'
  <2> SUFFICES ASSUME TypeOK, TypeOK', DistinctRecords, [Next]_vars
               PROVE  DistinctRecords'
    OBVIOUS
  <2>0. /\ Slots = 1..maxItems
        /\ \A i \in 1..maxItems : slots[i].used =>
              slots[i].seq \in Int /\ slots[i].seq <= made
        /\ maxItems \in Nat /\ made \in Nat
    <3>1. Slots = 1..maxItems
      BY UsedFinite
    <3>2. \A i \in 1..maxItems : slots[i].seq \in Int
      BY <3>1, RowFacts
    <3>3. \A i \in 1..maxItems : slots[i].seq <= made
      BY DEF TypeOK
    <3>4. maxItems \in Nat /\ made \in Nat
      BY SlotsAssumption, TimeAssumption DEF TypeOK
    <3> QED
      BY <3>1, <3>2, <3>3, <3>4
  <2>1. ASSUME NEW kind \in Kinds, NEW data \in Data, Insert(kind, data)
        PROVE  DistinctRecords'
    <3>1. /\ nextId \in 1..maxItems
          /\ slots'[nextId].seq = made + 1
          /\ \A i \in 1..maxItems : i # nextId => slots'[i] = slots[i]
          /\ maxItems' = maxItems
      BY <2>1 DEF Insert, TypeOK
    <3> QED
      BY <2>0, <3>1, UsedNext DEF DistinctRecords
  <2>2. ASSUME NEW id \in Slots, NEW kind \in Kinds, NEW data \in Data,
               Replace(id, kind, data)
        PROVE  DistinctRecords'
    <3>1. slots[id] \in UsedRow
      BY <2>2, RowFacts DEF Replace
    <3>2. \A i \in 1..maxItems : /\ slots'[i].seq = slots[i].seq
                                 /\ slots'[i].used = slots[i].used
      BY <2>0, <2>2, <3>1 DEF Replace, UsedRow, TypeOK
    <3>3. maxItems' = maxItems
      BY <2>2 DEF Replace
    <3> QED
      BY <3>2, <3>3, UsedNext DEF DistinctRecords
  <2>3. ASSUME NEW id \in Slots, Delete(id)
        PROVE  DistinctRecords'
    <3>1. \A i \in 1..maxItems : slots'[i].used => slots'[i] = slots[i]
      BY <2>0, <2>3 DEF Delete, TypeOK, BlankRow
    <3>2. maxItems' = maxItems
      BY <2>3 DEF Delete
    <3> QED
      BY <3>1, <3>2, UsedNext DEF DistinctRecords
  <2>4. CASE DeleteLatest
    <3>1. PrevSlot \in Slots
      BY <2>0 DEF PrevSlot, TypeOK
    <3> QED
      BY <2>3, <2>4, <3>1 DEF DeleteLatest
  <2>5. ASSUME NEW i \in Slots, NEW j \in Slots, Swap(i, j)
        PROVE  DistinctRecords'
    <3>1. \A m \in 1..maxItems : slots'[m] = IF m = j THEN slots[i]
                                             ELSE IF m = i THEN slots[j] ELSE slots[m]
      BY <2>0, <2>5 DEF Swap, TypeOK
    <3> DEFINE from(m) == IF m = j THEN i ELSE IF m = i THEN j ELSE m
    <3>2. \A m \in 1..maxItems : from(m) \in 1..maxItems /\ slots'[m] = slots[from(m)]
      BY <2>0, <3>1
    <3>3. \A m, k \in 1..maxItems : from(m) = from(k) => m = k
      OBVIOUS
    <3>4. maxItems' = maxItems
      BY <2>5 DEF Swap
    <3> HIDE DEF from
    <3> QED
      BY <3>2, <3>3, <3>4, UsedNext DEF DistinctRecords
  <2>6. CASE Resequence
    <3>1. slots' = Compacted(maxItems, 0) /\ maxItems' = maxItems
      BY <2>6 DEF Resequence
    <3> QED
      BY <2>0, <3>1, UsedNext, CompactedDistinct DEF DistinctRecords
  <2>7. ASSUME NEW n \in 1..MaxSlots, Grow(n)
        PROVE  DistinctRecords'
    <3>1. \A i \in 1..n : slots'[i].used => i \in 1..maxItems /\ slots'[i] = slots[i]
      BY <2>0, <2>7 DEF Grow, BlankRow
    <3> QED
      BY <2>7, <3>1, UsedNext DEF DistinctRecords, Grow
  <2>8. ASSUME NEW n \in 1..MaxSlots, Shrink(n)
        PROVE  DistinctRecords'
    <3>1. \A i \in 1..n : i \in 1..maxItems /\ slots'[i] = slots[i]
      BY <2>0, <2>8 DEF Shrink
    <3> QED
      BY <2>8, <3>1, UsedNext DEF DistinctRecords, Shrink
  <2>9. ASSUME NEW n \in 1..MaxSlots, ForceShrink(n)
        PROVE  DistinctRecords'
    <3>1. slots' = Compacted(n, Surplus(n)) /\ maxItems' = n
      BY <2>9 DEF ForceShrink
    <3>2. n \in Nat /\ Surplus(n) \in Nat
      BY SurplusType
    <3> QED
      BY <3>1, <3>2, UsedNext, CompactedDistinct DEF DistinctRecords
  <2>10. CASE Tick \/ UNCHANGED vars
    BY <2>10 DEF Tick, vars, DistinctRecords, Used, Slots
  <2>11. CASE Update
    BY <2>2, <2>11, UpdateIsReplace
  <2> QED
    BY <2>1, <2>3, <2>4, <2>5, <2>6, <2>7, <2>8, <2>9, <2>10, <2>11 DEF Next, Resize
<1> QED
  BY <1>1, <1>2, TypeCorrect, PTL DEF Spec

-----------------------------------------------------------------------------
(* The order of the ring.                                                  *)

\* RingOrder with its definitions written out over the slot numbers.
LEMMA RingOrderOver ==
  ASSUME TypeOK
  PROVE  RingOrder <=>
           (~mixed => \A p, q \in 1..maxItems :
              (slots[p].used /\ slots[q].used /\ RingBefore(p, q))
                => slots[p].stored <= slots[q].stored)
<1>1. Used = {i \in 1..maxItems : slots[i].used}
  BY DEF Used, Slots, TypeOK
<1> QED
  BY <1>1 DEF RingOrder

\* Read from the cursor on, the ring goes from the oldest record to the newest
\* unless a swap has mixed it: what insert and DELETE / rely on when they look
\* at nothing but the cursor.
THEOREM RingOrdered == Spec => []RingOrder
<1>1. Init => RingOrder
  BY DEF Init, RingOrder, Used, Slots, BlankRow
<1>2. TypeOK /\ TypeOK' /\ RingOrder /\ [Next]_vars => RingOrder'
  <2> SUFFICES ASSUME TypeOK, TypeOK', RingOrder, [Next]_vars
               PROVE  RingOrder'
    OBVIOUS
  <2> DEFINE Ordered(p, q) == slots[p].used /\ slots[q].used /\ RingBefore(p, q)
  <2> SUFFICES ASSUME ~mixed', NEW p \in 1..maxItems', NEW q \in 1..maxItems',
                      slots'[p].used, slots'[q].used, RingBefore(p, q)'
               PROVE  slots'[p].stored <= slots'[q].stored
    <3>1. Used' = {i \in 1..maxItems' : slots'[i].used}
      BY UsedNext
    <3> QED
      BY <3>1 DEF RingOrder
  <2>0. /\ Slots = 1..maxItems
        /\ maxItems \in Nat /\ nextId \in Nat /\ 1 <= nextId /\ nextId <= maxItems
        /\ maxItems' \in Nat /\ p \in Nat /\ q \in Nat /\ clock \in Nat
        /\ \A i \in 1..maxItems : slots[i].stored \in Int /\ slots[i].stored <= clock
    <3>1. Slots = 1..maxItems
      BY UsedFinite
    <3>2. \A i \in 1..maxItems : slots[i].stored \in Int
      BY <3>1, RowFacts
    <3> QED
      BY <3>1, <3>2, SlotsAssumption, TimeAssumption DEF TypeOK
  <2>01. ~mixed => \A i, j \in 1..maxItems :
           Ordered(i, j) => slots[i].stored <= slots[j].stored
    BY RingOrderOver
  <2> HIDE DEF Ordered
  <2>1. ASSUME NEW kind \in Kinds, NEW data \in Data, Insert(kind, data)
        PROVE  slots'[p].stored <= slots'[q].stored
    <3>1. /\ slots'[nextId].stored = clock
          /\ \A i \in 1..maxItems : i # nextId => slots'[i] = slots[i]
          /\ maxItems' = maxItems /\ mixed' = mixed
          /\ nextId' = NextSlot
      BY <2>1 DEF Insert, TypeOK
    <3>2. p \in 1..maxItems /\ q \in 1..maxItems
      BY <3>1
    <3>3. CASE q = nextId
      <4>1. slots'[p].stored <= clock
        BY <2>0, <3>1, <3>2
      <4> QED
        BY <3>1, <3>3, <4>1
    <3>4. CASE q # nextId
      <4>1. p # nextId /\ RingBefore(p, q)
        BY <2>0, <3>1, <3>2, <3>4 DEF RingBefore, NextSlot
      <4>2. Ordered(p, q)
        BY <3>1, <3>2, <3>4, <4>1 DEF Ordered
      <4> QED
        BY <2>01, <3>1, <3>2, <3>4, <4>1, <4>2
    <3> QED
      BY <3>3, <3>4
  <2>2. ASSUME NEW id \in Slots, NEW kind \in Kinds, NEW data \in Data,
               Replace(id, kind, data)
        PROVE  slots'[p].stored <= slots'[q].stored
    <3>1. slots[id] \in UsedRow
      BY <2>2, RowFacts DEF Replace
    <3>2. \A i \in 1..maxItems : /\ slots'[i].stored = slots[i].stored
                                 /\ slots'[i].used = slots[i].used
      BY <2>0, <2>2, <3>1 DEF Replace, UsedRow, TypeOK
    <3>3. maxItems' = maxItems /\ nextId' = nextId /\ mixed' = mixed
      BY <2>2 DEF Replace
    <3>4. Ordered(p, q)
      BY <3>2, <3>3 DEF Ordered, RingBefore
    <3> QED
      BY <2>01, <3>2, <3>3, <3>4
  <2>3. ASSUME NEW id \in Slots, Delete(id)
        PROVE  slots'[p].stored <= slots'[q].stored
    <3>1. maxItems' = maxItems /\ nextId' = nextId /\ mixed' = mixed
      BY <2>3 DEF Delete
    <3>2. \A i \in 1..maxItems : slots'[i].used => slots'[i] = slots[i]
      BY <2>0, <2>3 DEF Delete, TypeOK, BlankRow
    <3>3. slots'[p] = slots[p] /\ slots'[q] = slots[q]
      BY <3>1, <3>2
    <3>4. Ordered(p, q)
      BY <3>1, <3>3 DEF Ordered, RingBefore
    <3> QED
      BY <2>01, <3>1, <3>3, <3>4
  <2>4. CASE DeleteLatest
    <3>1. PrevSlot \in Slots
      BY <2>0 DEF PrevSlot
    <3> QED
      BY <2>3, <2>4, <3>1 DEF DeleteLatest
  <2>5. ASSUME NEW i \in Slots, NEW j \in Slots, Swap(i, j)
        PROVE  slots'[p].stored <= slots'[q].stored
    BY <2>5 DEF Swap
  <2>6. CASE Resequence
    <3>1. /\ slots' = Compacted(maxItems, 0) /\ maxItems' = maxItems
          /\ nextId' = IF Cardinality(Used) >= maxItems THEN 1 ELSE Cardinality(Used) + 1
      BY <2>6 DEF Resequence
    <3>2. p <= Cardinality(Used) /\ q <= Cardinality(Used)
      BY <2>0, <3>1, CompactedFront
    <3>3. p <= q
      BY <2>0, <3>1, <3>2, UsedFinite DEF RingBefore
    <3> QED
      BY <2>0, <3>1, <3>3, CompactedSorted
  <2>7. ASSUME NEW n \in 1..MaxSlots, Grow(n)
        PROVE  slots'[p].stored <= slots'[q].stored
    <3>1. maxItems' = n /\ nextId' = nextId /\ mixed' = mixed
      BY <2>7 DEF Grow
    <3>2. \A i \in 1..n : slots'[i].used => i \in 1..maxItems /\ slots'[i] = slots[i]
      BY <2>0, <2>7 DEF Grow, BlankRow
    <3>3. /\ p \in 1..maxItems /\ slots'[p] = slots[p]
          /\ q \in 1..maxItems /\ slots'[q] = slots[q]
      BY <3>1, <3>2
    <3>4. Ordered(p, q)
      BY <3>1, <3>3 DEF Ordered, RingBefore
    <3> QED
      BY <2>01, <3>1, <3>3, <3>4
  <2>8. ASSUME NEW n \in 1..MaxSlots, Shrink(n)
        PROVE  slots'[p].stored <= slots'[q].stored
    <3>1. /\ maxItems' = n /\ mixed' = mixed /\ n < maxItems /\ n \in Nat
          /\ nextId' = IF nextId > n THEN 1 ELSE nextId
      BY <2>8 DEF Shrink
    <3>2. \A i \in 1..n : i \in 1..maxItems /\ slots'[i] = slots[i]
      BY <2>0, <2>8 DEF Shrink
    <3>3. /\ p \in 1..maxItems /\ slots'[p] = slots[p]
          /\ q \in 1..maxItems /\ slots'[q] = slots[q]
      BY <3>1, <3>2
    <3>4. RingBefore(p, q)
      BY <2>0, <3>1 DEF RingBefore
    <3>5. Ordered(p, q)
      BY <3>3, <3>4 DEF Ordered
    <3> QED
      BY <2>01, <3>1, <3>3, <3>5
  <2>9. ASSUME NEW n \in 1..MaxSlots, ForceShrink(n)
        PROVE  slots'[p].stored <= slots'[q].stored
    <3>1. slots' = Compacted(n, Surplus(n)) /\ maxItems' = n /\ nextId' = 1
      BY <2>9 DEF ForceShrink
    <3>2. n \in Nat /\ Surplus(n) \in Nat
      BY SurplusType
    <3>3. p <= q
      BY <2>0, <3>1 DEF RingBefore
    <3> QED
      BY <3>1, <3>2, <3>3, CompactedSorted
  <2>10. CASE Tick \/ UNCHANGED vars
    <3>1. slots' = slots /\ maxItems' = maxItems /\ nextId' = nextId /\ mixed' = mixed
      BY <2>10 DEF Tick, vars
    <3>2. Ordered(p, q)
      BY <3>1 DEF Ordered, RingBefore
    <3> QED
      BY <2>01, <3>1, <3>2
  <2>11. CASE Update
    BY <2>2, <2>11, UpdateIsReplace
  <2> QED
    BY <2>1, <2>3, <2>4, <2>5, <2>6, <2>7, <2>8, <2>9, <2>10, <2>11 DEF Next, Resize
<1> QED
  BY <1>1, <1>2, TypeCorrect, PTL DEF Spec

-----------------------------------------------------------------------------
(* The two ends of the ring.                                               *)

\* The slot behind the cursor is the last of the ring, the one under it the
\* first.
LEMMA RingEnds ==
  ASSUME TypeOK, RingOrder, ~mixed
  PROVE  /\ PrevSlot \in Used => \A i \in Used : slots[i].stored <= slots[PrevSlot].stored
         /\ nextId \in Used => \A i \in Used : slots[nextId].stored <= slots[i].stored
<1>1. /\ maxItems \in Nat /\ nextId \in 1..maxItems
      /\ \A i \in Used : i \in 1..maxItems /\ slots[i].stored \in Int
  BY UsedFinite, RowFacts, SlotsAssumption DEF TypeOK
<1>2. \A i, j \in Used : RingBefore(i, j) => slots[i].stored <= slots[j].stored
  BY DEF RingOrder
<1>3. ASSUME PrevSlot \in Used, NEW i \in Used
      PROVE  slots[i].stored <= slots[PrevSlot].stored
  <2>1. i = PrevSlot \/ RingBefore(i, PrevSlot)
    BY <1>1, <1>3 DEF RingBefore, PrevSlot
  <2> QED
    BY <1>1, <1>2, <1>3, <2>1
<1>4. ASSUME nextId \in Used, NEW i \in Used
      PROVE  slots[nextId].stored <= slots[i].stored
  <2>1. i = nextId \/ RingBefore(nextId, i)
    BY <1>1 DEF RingBefore
  <2> QED
    BY <1>1, <1>2, <1>4, <2>1
<1> QED
  BY <1>3, <1>4

\* DELETE / takes a record that none is newer than: looking at the slot behind
\* the cursor is as good as comparing times.
THEOREM LatestDeletionIsNewest == Spec => DeleteLatestTakesNewest
<1>1. TypeOK /\ RingOrder =>
        ((~mixed /\ DeleteLatest) => \A i \in Used : slots[i].stored <= slots[PrevSlot].stored)
  <2> SUFFICES ASSUME TypeOK, RingOrder, ~mixed, DeleteLatest
               PROVE  \A i \in Used : slots[i].stored <= slots[PrevSlot].stored
    OBVIOUS
  <2>1. PrevSlot \in 1..maxItems
    BY SlotsAssumption DEF PrevSlot, TypeOK
  <2>2. PrevSlot \in Used
    BY <2>1 DEF DeleteLatest, Used, Slots, TypeOK
  <2> QED
    BY <2>2, RingEnds
<1> QED
  BY <1>1, TypeCorrect, RingOrdered, PTL DEF DeleteLatestTakesNewest

\* A record is only ever created by an insert.
LEMMA MadeByInsert ==
  ASSUME TypeOK, [Next]_vars, made' > made
  PROVE  \E kind \in Kinds, data \in Data : Insert(kind, data)
<1>1. made \in Int
  BY TimeAssumption DEF TypeOK
<1>2. made' # made
  BY <1>1
<1>3. ~DeleteLatest /\ ~Resequence /\ ~Tick /\ ~UNCHANGED vars
  BY <1>2 DEF DeleteLatest, Delete, Resequence, Tick, vars
<1>4. /\ \A id \in Slots : ~Delete(id)
      /\ \A i, j \in Slots : ~Swap(i, j)
  BY <1>2 DEF Delete, Swap
<1>5. ~Update
  BY <1>2, UpdateIsReplace DEF Replace
<1>6. ~Resize
  BY <1>2 DEF Resize, Grow, Shrink, ForceShrink
<1> QED
  BY <1>3, <1>4, <1>5, <1>6 DEF Next

\* Creating a record in a full ring gives up one that no other is older than.
THEOREM RotationIsOldest == Spec => RotationDropsOldest
<1>1. TypeOK /\ RingOrder /\ [Next]_vars =>
        ((~mixed /\ made' > made /\ Used = Slots) =>
           \A i \in Slots : slots[i] # slots'[i] =>
              \A j \in Slots : slots[i].stored <= slots[j].stored)
  <2> SUFFICES ASSUME TypeOK, RingOrder, [Next]_vars, ~mixed, made' > made,
                      Used = Slots,
                      NEW i \in Slots, slots[i] # slots'[i], NEW j \in Slots
               PROVE  slots[i].stored <= slots[j].stored
    OBVIOUS
  <2>1. PICK kind \in Kinds, data \in Data : Insert(kind, data)
    BY MadeByInsert
  <2>2. i = nextId
    BY <2>1, UsedFinite DEF Insert, TypeOK
  <2> QED
    BY <2>2, RingEnds
<1> QED
  BY <1>1, TypeCorrect, RingOrdered, PTL DEF RotationDropsOldest, Spec

-----------------------------------------------------------------------------
(* Resequencing and deleting.                                              *)

\* What a resequence does, slot by slot.
LEMMA ResequenceFacts ==
  ASSUME TypeOK, Resequence
  PROVE  /\ slots' = Compacted(maxItems, 0) /\ DOMAIN slots' = Slots
         /\ Slots = 1..maxItems /\ maxItems \in Nat
         /\ Cardinality(Used) \in Nat /\ Cardinality(Used) <= maxItems
         /\ Cardinality(Used) = maxItems <=> Used = Slots
         /\ \A p \in Slots : slots'[p].used <=> p <= Cardinality(Used)
<1>1. slots' = Compacted(maxItems, 0) /\ DOMAIN slots' = 1..maxItems
  BY DEF Resequence, Compacted
<1>2. /\ maxItems \in Nat /\ 0 \in Nat /\ Cardinality(Used) \in Nat
      /\ Slots = 1..maxItems
  BY UsedFinite, SlotsAssumption DEF TypeOK
<1>3. /\ Cardinality(Used) <= maxItems
      /\ Cardinality(Used) = maxItems <=> Used = Slots
  <2>1. IsFiniteSet(1..maxItems) /\ Cardinality(1..maxItems) = maxItems
    BY <1>2, FS_Interval, SMTT(30)
  <2>2. Used \in SUBSET (1..maxItems)
    BY UsedFinite
  <2>3. /\ Cardinality(Used) <= Cardinality(1..maxItems)
        /\ Cardinality(Used) = Cardinality(1..maxItems) => Used = 1..maxItems
    BY <2>1, <2>2, FS_Subset
  <2> QED
    BY <1>2, <2>1, <2>3
<1>4. ASSUME NEW p \in Slots, slots'[p].used
      PROVE  p <= Cardinality(Used)
  BY <1>1, <1>2, <1>4, CompactedFront
<1>5. ASSUME NEW p \in Slots, p <= Cardinality(Used)
      PROVE  slots'[p].used
  <2>1. p \in 1..Cardinality(Used) /\ p + 0 = p
    BY <1>2, <1>5
  <2>2. \E k \in Used : Rank(k) = p + 0
    BY <2>1, RanksTaken
  <2>3. Source(p, 0) \in Used /\ Compacted(maxItems, 0)[p] = slots[Source(p, 0)]
    BY <1>2, <2>2 DEF Source, Compacted
  <2> QED
    BY <1>1, <2>3 DEF Used
<1> QED
  BY <1>1, <1>2, <1>3, <1>4, <1>5

\* Each record of before has a slot after it, that of its rank.
LEMMA ResequencePlaces ==
  ASSUME TypeOK, Resequence, NEW i \in Used
  PROVE  \E p \in Slots : Rank(i) = p /\ slots'[p] = slots[i]
<1>1. /\ slots' = Compacted(maxItems, 0) /\ Slots = 1..maxItems /\ maxItems \in Nat
      /\ 0 \in Nat /\ Cardinality(Used) <= maxItems + 0
  BY ResequenceFacts
<1>2. ~(Rank(i) <= 0)
  BY RankRange, UsedFinite
<1>3. PICK p \in 1..maxItems : Rank(i) = p + 0 /\ Compacted(maxItems, 0)[p] = slots[i]
  BY <1>1, <1>2, CompactedKeeps
<1>4. p + 0 = p
  BY <1>1
<1> QED
  BY <1>1, <1>3, <1>4

\* A resequence costs no record and keeps their order, leaves no gap, and the
\* cursor is on the first slot behind them, or back on 1 when there is none
\* (entry_store.cpp, resequence).
THEOREM ResequencedIsSettled == Spec => ResequenceSettles
<1>1. ASSUME TypeOK, Resequence
      PROVE  /\ Records' = Records
             /\ \A i, j \in Used : Precedes(i, j) =>
                  \E a, b \in Slots : a < b /\ slots'[a] = slots[i] /\ slots'[b] = slots[j]
             /\ \A i \in Slots : slots'[i].used <=> (i < nextId' \/ Used = Slots)
             /\ Used = Slots => nextId' = 1
  <2>1. Records' = Records
    <3>1. \A i \in Used : \E p \in Slots : slots'[p] = slots[i] /\ slots[i].used
      BY <1>1, ResequencePlaces DEF Used
    <3>2. Used' = {p \in Slots : slots'[p].used}
      BY <1>1, ResequenceFacts DEF Used, Slots
    <3>3. \A p \in Slots : slots'[p].used => \E i \in Used : slots'[p] = slots[i]
      <4>1. /\ slots' = Compacted(maxItems, 0) /\ Slots = 1..maxItems /\ maxItems \in Nat
            /\ 0 \in Nat
        BY <1>1, ResequenceFacts
      <4> QED
        BY <1>1, <4>1, CompactedRows
    <3> QED
      BY <3>1, <3>2, <3>3 DEF Records
  <2>2. ASSUME NEW i \in Used, NEW j \in Used, Precedes(i, j)
        PROVE  \E a, b \in Slots : a < b /\ slots'[a] = slots[i] /\ slots'[b] = slots[j]
    <3>1. Rank(i) < Rank(j)
      BY <1>1, <2>2, RankRises
    <3> QED
      BY <1>1, <3>1, ResequencePlaces
  <2>3. /\ \A i \in Slots : slots'[i].used <=> (i < nextId' \/ Used = Slots)
        /\ Used = Slots => nextId' = 1
    <3>1. nextId' = IF Cardinality(Used) >= maxItems THEN 1 ELSE Cardinality(Used) + 1
      BY <1>1 DEF Resequence
    <3> QED
      BY <1>1, <3>1, ResequenceFacts
  <2> QED
    BY <2>1, <2>2, <2>3
<1> QED
  BY <1>1, TypeCorrect, PTL DEF ResequenceSettles

\* Once the slot behind the cursor is unused, nothing but a create, a swap, a
\* resequence or a resize puts a record there for DELETE / to take.
THEOREM DeletionDoesNotCascade == Spec => NoCascade
<1>1. TypeOK /\ [Next]_vars =>
        ((DeleteLatest \/ ~slots[PrevSlot].used) =>
           \/ ~slots'[PrevSlot'].used
           \/ made' > made
           \/ \E i, j \in Slots : Swap(i, j)
           \/ Resequence
           \/ maxItems' # maxItems)
  <2> SUFFICES ASSUME TypeOK, [Next]_vars, DeleteLatest \/ ~slots[PrevSlot].used,
                      ~(made' > made), ~\E i, j \in Slots : Swap(i, j),
                      ~Resequence, maxItems' = maxItems
               PROVE  ~slots'[PrevSlot'].used
    OBVIOUS
  <2>0. /\ PrevSlot \in Slots /\ Slots = DOMAIN slots /\ made \in Int
        /\ ~BlankRow.used
    BY UsedFinite, SlotsAssumption, TimeAssumption DEF PrevSlot, TypeOK, Slots, BlankRow
  <2>1. PrevSlot' = PrevSlot \/ nextId' # nextId
    BY DEF PrevSlot
  <2>2. CASE DeleteLatest
    BY <2>0, <2>1, <2>2 DEF DeleteLatest, Delete
  <2>3. ASSUME NEW kind \in Kinds, NEW data \in Data, Insert(kind, data)
        PROVE  FALSE
    BY <2>0, <2>3 DEF Insert
  <2>4. ASSUME ~slots[PrevSlot].used, NEW id \in Slots, Delete(id)
        PROVE  ~slots'[PrevSlot'].used
    BY <2>0, <2>1, <2>4 DEF Delete
  <2>5. ASSUME ~slots[PrevSlot].used, Update
        PROVE  ~slots'[PrevSlot'].used
    <3>1. PICK id \in Slots, kind \in Kinds, data \in Data : Replace(id, kind, data)
      BY <2>5, UpdateIsReplace
    <3>2. id # PrevSlot /\ nextId' = nextId
      BY <2>5, <3>1 DEF Replace, Used
    <3> QED
      BY <2>0, <2>1, <2>5, <3>1, <3>2 DEF Replace
  <2>6. ASSUME ~slots[PrevSlot].used, Tick \/ UNCHANGED vars
        PROVE  ~slots'[PrevSlot'].used
    BY <2>1, <2>6 DEF Tick, vars
  <2>7. ~Resize
    BY UsedFinite, SlotsAssumption DEF Resize, Grow, Shrink, ForceShrink, TypeOK
  <2> QED
    BY <2>2, <2>3, <2>4, <2>5, <2>6, <2>7 DEF Next
<1> QED
  BY <1>1, TypeCorrect, PTL DEF NoCascade, Spec

-----------------------------------------------------------------------------
(* What a resize keeps.                                                    *)

\* The limit changes only in a resize.
LEMMA LimitByResize ==
  ASSUME TypeOK, [Next]_vars, maxItems' # maxItems
  PROVE  \E n \in 1..MaxSlots : Grow(n) \/ Shrink(n) \/ ForceShrink(n)
<1>1. ~DeleteLatest /\ ~Resequence /\ ~Tick /\ ~UNCHANGED vars
  BY DEF DeleteLatest, Delete, Resequence, Tick, vars
<1>2. /\ \A id \in Slots : ~Delete(id)
      /\ \A i, j \in Slots : ~Swap(i, j)
      /\ \A kind \in Kinds, data \in Data : ~Insert(kind, data)
  BY DEF Delete, Swap, Insert
<1>3. ~Update
  BY UpdateIsReplace DEF Replace
<1> QED
  BY <1>1, <1>2, <1>3 DEF Next, Resize

\* Growing, and shrinking over unused slots, keep every record where it is.
LEMMA PlainResize ==
  ASSUME TypeOK, NEW n \in 1..MaxSlots, Grow(n) \/ Shrink(n)
  PROVE  /\ Used' = Used
         /\ \A i \in Used : slots'[i] = slots[i]
<1>1. /\ n \in Nat /\ maxItems \in Nat /\ Slots = 1..maxItems
      /\ \A i \in Used : i \in 1..maxItems /\ slots[i].used
      /\ ~BlankRow.used
  BY UsedFinite, SlotsAssumption DEF TypeOK, BlankRow, Used
<1>2. CASE Grow(n)
  <2>1. /\ n > maxItems
        /\ Slots' = 1..n
        /\ \A i \in 1..n : slots'[i] = IF i <= maxItems THEN slots[i] ELSE BlankRow
    BY <1>2 DEF Grow, Slots
  <2> QED
    BY <1>1, <2>1 DEF Used
<1>3. CASE Shrink(n)
  <2>1. /\ n < maxItems
        /\ Slots' = 1..n
        /\ \A i \in 1..n : slots'[i] = slots[i]
        /\ \A i \in Used : i <= n
    BY <1>3 DEF Shrink, Slots
  <2> QED
    BY <1>1, <2>1 DEF Used
<1> QED
  BY <1>2, <1>3

\* A forced shrink keeps the records past the surplus, and those only.
LEMMA ForcedResize ==
  ASSUME TypeOK, NEW n \in 1..MaxSlots, ForceShrink(n)
  PROVE  /\ Surplus(n) \in 0..Cardinality(Used)
         /\ Slots' = 1..n
         /\ \A i \in Used : ~(Rank(i) <= Surplus(n)) =>
              \E p \in 1..n : slots'[p] = slots[i]
         /\ \A p \in 1..n : slots'[p].used =>
              \E i \in Used : ~(Rank(i) <= Surplus(n)) /\ slots'[p] = slots[i]
<1> DEFINE drop == Surplus(n)
           new == Compacted(n, drop)
<1>1. /\ n \in Nat /\ Cardinality(Used) \in Nat /\ drop \in Nat
      /\ drop <= Cardinality(Used) /\ Cardinality(Used) <= n + drop
  BY UsedFinite DEF Surplus
<1>2. slots' = new
  BY DEF ForceShrink
<1>3. DOMAIN new = 1..n
  BY DEF Compacted
<1>4. \A i \in Used : ~(Rank(i) <= drop) => \E p \in 1..n : new[p] = slots[i]
  BY <1>1, CompactedKeeps
<1>5. ASSUME NEW p \in 1..n, new[p].used
      PROVE  \E i \in Used : ~(Rank(i) <= drop) /\ new[p] = slots[i]
  <2>1. /\ Source(p, drop) \in Used /\ Rank(Source(p, drop)) = p + drop
        /\ new[p] = slots[Source(p, drop)]
    BY <1>1, <1>5, CompactedRows
  <2>2. ~(Rank(Source(p, drop)) <= drop)
    BY <1>1, <2>1
  <2> QED
    BY <2>1, <2>2
<1> HIDE DEF new, drop
<1>6. Slots' = 1..n
  BY <1>2, <1>3 DEF Slots
<1>7. drop \in 0..Cardinality(Used)
  BY <1>1
<1> QED
  BY <1>2, <1>4, <1>5, <1>6, <1>7 DEF drop

\* Whatever a resize drops, nothing it keeps is older.
THEOREM ResizeKeepsNewest == Spec => ResizeDropsOldest
<1>1. TypeOK /\ [Next]_vars =>
        \A i \in Used : (maxItems' # maxItems /\ slots[i] \notin Records') =>
          \A row \in Records' : slots[i].stored <= row.stored
  <2> SUFFICES ASSUME TypeOK, [Next]_vars, maxItems' # maxItems,
                      NEW i \in Used, slots[i] \notin Records', NEW row \in Records'
               PROVE  slots[i].stored <= row.stored
    OBVIOUS
  <2>1. PICK n \in 1..MaxSlots : Grow(n) \/ Shrink(n) \/ ForceShrink(n)
    BY LimitByResize
  <2>2. Records' = {slots'[k] : k \in Used'}
    BY DEF Records
  <2>3. ForceShrink(n)
    BY <2>1, <2>2, PlainResize
  <2>4. PICK k \in Used' : row = slots'[k]
    BY <2>2
  <2>5. k \in 1..n /\ slots'[k].used
    BY <2>3, <2>4, ForcedResize DEF Used
  <2>6. PICK l \in Used : ~(Rank(l) <= Surplus(n)) /\ slots'[k] = slots[l]
    BY <2>3, <2>5, ForcedResize
  <2>7. Rank(i) <= Surplus(n)
    <3> SUFFICES ASSUME ~(Rank(i) <= Surplus(n)) PROVE FALSE
      OBVIOUS
    <3>1. PICK p \in 1..n : slots'[p] = slots[i]
      BY <2>3, ForcedResize
    <3>2. p \in Used'
      BY <2>3, <3>1, ForcedResize DEF Used
    <3> QED
      BY <2>2, <3>1, <3>2
  <2>8. Rank(i) <= Rank(l)
    <3>1. Rank(i) \in Int /\ Rank(l) \in Int /\ Surplus(n) \in Int
      BY RankRange, SurplusType
    <3> QED
      BY <2>6, <2>7, <3>1
  <2> QED
    BY <2>4, <2>6, <2>8, RankOrder
<1> QED
  BY <1>1, TypeCorrect, PTL DEF ResizeDropsOldest, Spec

-----------------------------------------------------------------------------
(* Conservation of records.                                                *)

\* The slots whose record a step loses or changes.
Left == {slots'[j] : j \in {k \in DOMAIN slots' : slots'[k].used}}
Lost == {i \in Used : slots[i] \notin Left}

Conserved ==
  /\ made' = made /\ ~Update => Records' \subseteq Records
  /\ \/ made' > made /\ Lost \subseteq {nextId}
     \/ maxItems' < maxItems /\ Cardinality(Lost) = Surplus(maxItems')
     \/ Update
     \/ (\E id \in Slots : Delete(id)) /\ Cardinality(Lost) <= 1
     \/ Lost = {}

\* Rows that only move are all there before and after.
LEMMA MovedConserved ==
  ASSUME \A i \in Used : \E k \in Used' : slots'[k] = slots[i],
         \A k \in Used' : \E i \in Used : slots'[k] = slots[i]
  PROVE  Records' \subseteq Records /\ Lost = {}
BY DEF Records, Lost, Left, Used, Slots

LEMMA InsertConserved ==
  ASSUME TypeOK, NEW kind \in Kinds, NEW data \in Data, Insert(kind, data)
  PROVE  Conserved
<1>1. made' = made + 1 /\ made \in Int
  BY TimeAssumption DEF Insert, TypeOK
<1>2. DOMAIN slots' = Slots /\ \A i \in Slots : i # nextId => slots'[i] = slots[i]
  BY DEF Insert, Slots
<1>3. Lost \subseteq {nextId}
  BY <1>2 DEF Lost, Left, Used
<1> QED
  BY <1>1, <1>3 DEF Conserved

LEMMA DeleteConserved ==
  ASSUME TypeOK, NEW id \in Slots, Delete(id)
  PROVE  Conserved
<1>1. /\ DOMAIN slots' = Slots /\ slots'[id] = BlankRow
      /\ \A i \in Slots : i # id => slots'[i] = slots[i]
  BY DEF Delete, Slots
<1>2. Lost \subseteq {id}
  BY <1>1 DEF Lost, Left, Used
<1>3. Cardinality(Lost) <= 1
  <2>1. IsFiniteSet({id}) /\ Cardinality({id}) = 1
    BY FS_Singleton
  <2>2. Cardinality(Lost) <= Cardinality({id})
    BY <1>2, <2>1, FS_Subset
  <2> QED
    BY <2>1, <2>2
<1>4. Records' \subseteq Records
  BY <1>1 DEF Records, Used, Slots, BlankRow
<1> QED
  BY <1>3, <1>4 DEF Conserved

LEMMA SwapConserved ==
  ASSUME TypeOK, NEW i \in Slots, NEW j \in Slots, Swap(i, j)
  PROVE  Conserved
<1> DEFINE other(k) == IF k = i THEN j ELSE IF k = j THEN i ELSE k
<1>1. /\ DOMAIN slots' = Slots
      /\ \A k \in Slots : /\ other(k) \in Slots
                          /\ slots'[k] = slots[other(k)] /\ slots[k] = slots'[other(k)]
  BY DEF Swap, Slots
<1> HIDE DEF other
<1>2. Records' \subseteq Records /\ Lost = {}
  <2>1. \A k \in Used : \E l \in Used' : slots'[l] = slots[k]
    BY <1>1 DEF Used, Slots
  <2>2. \A l \in Used' : \E k \in Used : slots'[l] = slots[k]
    BY <1>1 DEF Used, Slots
  <2> QED
    BY <2>1, <2>2, MovedConserved
<1> QED
  BY <1>2 DEF Conserved

LEMMA ResequenceConserved ==
  ASSUME TypeOK, Resequence
  PROVE  Conserved
<1>1. Used' = {p \in Slots : slots'[p].used} /\ \A i \in Used : slots[i].used
  BY ResequenceFacts DEF Used, Slots
<1>2. \A i \in Used : \E k \in Used' : slots'[k] = slots[i]
  BY <1>1, ResequencePlaces
<1>3. \A k \in Used' : \E i \in Used : slots'[k] = slots[i]
  <2>1. /\ slots' = Compacted(maxItems, 0) /\ Slots = 1..maxItems /\ maxItems \in Nat
        /\ 0 \in Nat
    BY ResequenceFacts
  <2> QED
    BY <1>1, <2>1, CompactedRows
<1>4. Records' \subseteq Records /\ Lost = {}
  BY <1>2, <1>3, MovedConserved
<1> QED
  BY <1>4 DEF Conserved

LEMMA PlainResizeConserved ==
  ASSUME TypeOK, NEW n \in 1..MaxSlots, Grow(n) \/ Shrink(n)
  PROVE  Conserved
<1>1. Records' \subseteq Records /\ Lost = {}
  BY PlainResize, MovedConserved
<1> QED
  BY <1>1 DEF Conserved

\* A forced shrink loses the records of the lowest ranks, a surplus of them.
LEMMA ForcedResizeConserved ==
  ASSUME TypeOK, DistinctRecords, NEW n \in 1..MaxSlots, ForceShrink(n)
  PROVE  Conserved
<1>1. \A i \in Used : ~(Rank(i) <= Surplus(n)) => \E k \in Used' : slots'[k] = slots[i]
  <2> SUFFICES ASSUME NEW i \in Used, ~(Rank(i) <= Surplus(n))
               PROVE  \E k \in Used' : slots'[k] = slots[i]
    OBVIOUS
  <2>1. PICK k \in 1..n : slots'[k] = slots[i]
    BY ForcedResize
  <2> QED
    BY <2>1, ForcedResize DEF Used
<1>2. \A k \in Used' : \E i \in Used : ~(Rank(i) <= Surplus(n)) /\ slots'[k] = slots[i]
  BY ForcedResize DEF Used
<1>3. Left = {slots'[k] : k \in Used'} /\ Records' = {slots'[k] : k \in Used'}
  BY DEF Left, Records, Used, Slots
<1>4. Lost = {i \in Used : Rank(i) <= Surplus(n)}
  <2>1. ASSUME NEW i \in Used, slots[i] \notin Left
        PROVE  Rank(i) <= Surplus(n)
    BY <1>1, <1>3, <2>1
  <2>2. ASSUME NEW i \in Used, Rank(i) <= Surplus(n)
        PROVE  slots[i] \notin Left
    <3> SUFFICES ASSUME NEW k \in Used', slots'[k] = slots[i] PROVE FALSE
      BY <1>3
    <3>1. PICK j \in Used : ~(Rank(j) <= Surplus(n)) /\ slots'[k] = slots[j]
      BY <1>2
    <3>2. i = j
      BY <3>1 DEF DistinctRecords
    <3> QED
      BY <2>2, <3>1, <3>2
  <2> QED
    BY <2>1, <2>2 DEF Lost
<1>5. Cardinality(Lost) = Surplus(n)
  BY <1>4, ForcedResize, RanksCounted
<1>6. maxItems' = n /\ n < maxItems
  BY DEF ForceShrink
<1>7. Records' \subseteq Records
  BY <1>2, <1>3 DEF Records
<1> QED
  BY <1>5, <1>6, <1>7 DEF Conserved

\* No record appears, changes or is lost but in the step that is meant to.
THEOREM RecordsAreConserved == Spec => RecordsConserved
<1>1. TypeOK /\ DistinctRecords /\ [Next]_vars => Conserved \/ UNCHANGED vars
  <2> SUFFICES ASSUME TypeOK, DistinctRecords, Next PROVE Conserved
    OBVIOUS
  <2>1. CASE DeleteLatest
    <3>1. PrevSlot \in Slots
      BY UsedFinite, SlotsAssumption DEF PrevSlot, TypeOK
    <3>2. Delete(PrevSlot)
      BY <2>1 DEF DeleteLatest
    <3>3. PICK id \in Slots : id = PrevSlot
      BY <3>1
    <3>4. Delete(id)
      BY <3>2, <3>3 DEF Delete
    <3> QED
      BY <3>4, DeleteConserved
  <2>2. CASE Update
    BY <2>2 DEF Conserved
  <2>3. CASE Tick
    <3>1. slots' = slots
      BY <2>3 DEF Tick
    <3>2. Records' \subseteq Records /\ Lost = {}
      BY <3>1, MovedConserved DEF Used, Slots
    <3> QED
      BY <3>2 DEF Conserved
  <2>4. CASE Resize
    BY <2>4, PlainResizeConserved, ForcedResizeConserved DEF Resize
  <2> QED
    BY <2>1, <2>2, <2>3, <2>4, InsertConserved, DeleteConserved, SwapConserved,
       ResequenceConserved DEF Next
<1>2. Conserved =>
        LET kept(i) == slots[i] \in {slots'[j] : j \in {k \in DOMAIN slots' : slots'[k].used}}
            lost == {i \in Used : ~kept(i)}
        IN  /\ made' = made /\ ~Update => Records' \subseteq Records
            /\ \/ made' > made /\ lost \subseteq {nextId}
               \/ maxItems' < maxItems /\ Cardinality(lost) = Surplus(maxItems')
               \/ Update
               \/ (\E id \in Slots : Delete(id)) /\ Cardinality(lost) <= 1
               \/ lost = {}
  BY Zenon DEF Conserved, Lost, Left
<1> QED
  BY <1>1, <1>2, TypeCorrect, RecordsDistinct, PTL DEF Spec, RecordsConserved
=============================================================================
