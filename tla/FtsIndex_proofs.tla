---------------------------- MODULE FtsIndex_proofs ----------------------------
(***************************************************************************)
(* Theorems of FtsIndex: the index does nothing to the store that the      *)
(* store would not do, and holds the words of every used row.              *)
(***************************************************************************)
EXTENDS FtsIndex, KaringStore_proofs

IndexInv == IndexTypeOK /\ NoMissedHit

\* With the index, a step of the store is a step of the store: its triggers
\* can only refuse it.
LEMMA IndexedStep ==
  ASSUME [FNext]_fvars
  PROVE  [Next]_vars
<1>1. CASE \E id \in Slots, kind \in Kinds, data \in Data : FReplace(id, kind, data)
  BY <1>1 DEF FReplace, Next, Update
<1>2. CASE ~\E id \in Slots, kind \in Kinds, data \in Data : FReplace(id, kind, data)
  BY <1>2
  DEF FNext, fvars, FInsert, FDelete, FDeleteLatest, FSwap, FResequence, FResize,
      FRestart, FTick, Next
<1> QED
  BY <1>1, <1>2

LEMMA IndexedSpec == FSpec => Spec
BY IndexedStep, PTL DEF FSpec, FInit, Spec

-----------------------------------------------------------------------------
(* The words of a row.                                                     *)

LEMMA WordsFacts ==
  ASSUME NEW row \in UsedRow \union {BlankRow}
  PROVE  /\ Words(row) \subseteq Data
         /\ row.used => row.data \in Words(row)
         /\ Weight(row) \in {0, 1}
<1>1. row.used => row.data \in Data
  <2>1. CASE row \in UsedRow
    BY <2>1 DEF UsedRow
  <2>2. CASE row = BlankRow
    BY <2>2 DEF BlankRow
  <2> QED
    BY <2>1, <2>2
<1>2. CASE row.used
  BY <1>1, <1>2 DEF Words, Weight
<1>3. CASE ~row.used
  BY <1>3 DEF Words, Weight
<1> QED
  BY <1>2, <1>3

\* Of the slots there are after a step, those that were used hold their words.
LEMMA TouchedKeeps ==
  ASSUME TypeOK, TypeOK', IndexInv, NEW id \in Slots, Touched(id),
         maxItems' = maxItems, \A i \in Slots : i # id => slots'[i] = slots[i]
  PROVE  IndexInv'
<1>0. /\ Slots = 1..maxItems /\ Slots' = 1..maxItems /\ maxItems \in Nat
      /\ rowCount \in 0..maxItems /\ postings \in [1..maxItems -> SUBSET Data]
  BY UsedFinite, SlotsAssumption DEF TypeOK, IndexInv, IndexTypeOK, Slots
<1>1. slots'[id] \in UsedRow \union {BlankRow}
  BY <1>0 DEF TypeOK
<1>2. /\ Words(slots'[id]) \subseteq Data
      /\ slots'[id].used => slots'[id].data \in Words(slots'[id])
      /\ Weight(slots'[id]) \in {0, 1}
  BY <1>1, WordsFacts
<1>3. /\ rowCount >= 1
      /\ postings' = [postings EXCEPT ![id] = @ \union Words(slots'[id])]
      /\ rowCount' = rowCount - 1 + Weight(slots'[id])
  BY DEF Touched
<1>4. IndexTypeOK'
  <2>1. rowCount' \in 0..maxItems
    BY <1>0, <1>2, <1>3
  <2>2. postings' \in [1..maxItems -> SUBSET Data]
    BY <1>0, <1>2, <1>3
  <2> QED
    BY <2>1, <2>2 DEF IndexTypeOK
<1>5. NoMissedHit'
  <2> SUFFICES ASSUME NEW i \in Slots, slots'[i].used
               PROVE  slots'[i].data \in postings'[i]
    BY <1>0 DEF NoMissedHit, Hits, Used
  <2>1. CASE i = id
    BY <1>0, <1>2, <1>3, <2>1
  <2>2. CASE i # id
    <3>1. slots[i].data \in postings[i]
      BY <2>2 DEF IndexInv, NoMissedHit, Hits, Used
    <3> QED
      BY <1>0, <1>3, <2>2, <3>1
  <2> QED
    BY <2>1, <2>2
<1> QED
  BY <1>4, <1>5 DEF IndexInv

LEMMA RebuiltKeeps ==
  ASSUME TypeOK', Rebuilt
  PROVE  IndexInv'
<1>0. /\ DOMAIN slots' = 1..maxItems' /\ maxItems' \in Nat
      /\ \A i \in 1..maxItems' : slots'[i] \in UsedRow \union {BlankRow}
  BY SlotsAssumption DEF TypeOK
<1>1. postings' = [i \in 1..maxItems' |-> Words(slots'[i])] /\ rowCount' = maxItems'
  BY <1>0 DEF Rebuilt
<1>2. \A i \in 1..maxItems' : /\ Words(slots'[i]) \subseteq Data
                              /\ slots'[i].used => slots'[i].data \in Words(slots'[i])
  BY <1>0, WordsFacts
<1>3. IndexTypeOK'
  BY <1>0, <1>1, <1>2 DEF IndexTypeOK
<1>4. NoMissedHit'
  BY <1>0, <1>1, <1>2 DEF NoMissedHit, Hits, Used, Slots
<1> QED
  BY <1>3, <1>4 DEF IndexInv

LEMMA SwapKeeps ==
  ASSUME TypeOK, TypeOK', IndexInv, NEW i \in Slots, NEW j \in Slots, FSwap(i, j)
  PROVE  IndexInv'
<1>0. /\ Slots = 1..maxItems /\ Slots' = Slots /\ maxItems \in Nat /\ maxItems' = maxItems
      /\ rowCount \in 0..maxItems /\ postings \in [1..maxItems -> SUBSET Data]
      /\ i # j
      /\ \A k \in Slots : slots'[k] = IF k = j THEN slots[i] ELSE IF k = i THEN slots[j] ELSE slots[k]
  BY UsedFinite, SlotsAssumption DEF TypeOK, IndexInv, IndexTypeOK, Slots, FSwap, Swap
<1>1. \A k \in Slots : slots[k] \in UsedRow \union {BlankRow}
  BY <1>0 DEF TypeOK
<1>2. \A k \in Slots : /\ Words(slots[k]) \subseteq Data
                       /\ slots[k].used => slots[k].data \in Words(slots[k])
                       /\ Weight(slots[k]) \in {0, 1}
  BY <1>1, WordsFacts
<1>3. /\ rowCount - 1 + Weight(slots[j]) >= 1
      /\ postings' = [postings EXCEPT ![i] = @ \union Words(slots[j]),
                                      ![j] = @ \union Words(slots[i])]
      /\ rowCount' = rowCount - 2 + Weight(slots[i]) + Weight(slots[j])
  BY DEF FSwap
<1>4. IndexTypeOK'
  <2>1. rowCount' \in 0..maxItems
    BY <1>0, <1>2, <1>3
  <2>2. postings' \in [1..maxItems -> SUBSET Data]
    BY <1>0, <1>2, <1>3
  <2> QED
    BY <1>0, <2>1, <2>2 DEF IndexTypeOK
<1>5. NoMissedHit'
  <2> SUFFICES ASSUME NEW k \in Slots, slots'[k].used
               PROVE  slots'[k].data \in postings'[k]
    BY <1>0 DEF NoMissedHit, Hits, Used
  <2>1. slots[k].used => slots[k].data \in postings[k]
    BY DEF IndexInv, NoMissedHit, Hits, Used
  <2> QED
    BY <1>0, <1>2, <1>3, <2>1
<1> QED
  BY <1>4, <1>5 DEF IndexInv

LEMMA IndexInvHolds == FSpec => []IndexInv
<1>1. FInit => IndexInv
  <2> SUFFICES ASSUME FInit PROVE IndexInv
    OBVIOUS
  <2>1. Slots = 1..maxItems /\ Used = {} /\ maxItems \in Nat
    BY SlotsAssumption DEF FInit, Init, Slots, Used, BlankRow
  <2> QED
    BY <2>1 DEF FInit, IndexInv, IndexTypeOK, NoMissedHit
<1>2. TypeOK /\ TypeOK' /\ IndexInv /\ [FNext]_fvars => IndexInv'
  <2> SUFFICES ASSUME TypeOK, TypeOK', IndexInv, [FNext]_fvars PROVE IndexInv'
    OBVIOUS
  <2>0. nextId \in Slots /\ PrevSlot \in Slots
    BY UsedFinite, SlotsAssumption DEF PrevSlot, TypeOK
  <2>1. ASSUME NEW kind \in Kinds, NEW data \in Data, FInsert(kind, data)
        PROVE  IndexInv'
    <3>1. PICK id \in Slots : id = nextId
      BY <2>0
    <3>2. Touched(id)
      BY <2>1, <3>1 DEF FInsert, Touched
    <3>3. maxItems' = maxItems /\ \A i \in Slots : i # id => slots'[i] = slots[i]
      BY <2>1, <3>1 DEF FInsert, Insert, Slots
    <3> QED
      BY <3>2, <3>3, TouchedKeeps
  <2>2. ASSUME NEW id \in Slots, NEW kind \in Kinds, NEW data \in Data,
               FReplace(id, kind, data)
        PROVE  IndexInv'
    BY <2>2, TouchedKeeps DEF FReplace, Replace, Slots
  <2>3. ASSUME NEW id \in Slots, FDelete(id)
        PROVE  IndexInv'
    BY <2>3, TouchedKeeps DEF FDelete, Delete, Slots
  <2>4. CASE FDeleteLatest
    <3>1. PICK id \in Slots : id = PrevSlot
      BY <2>0
    <3>2. Touched(id)
      BY <2>4, <3>1 DEF FDeleteLatest, Touched
    <3>3. maxItems' = maxItems /\ \A i \in Slots : i # id => slots'[i] = slots[i]
      BY <2>4, <3>1 DEF FDeleteLatest, DeleteLatest, Delete, Slots
    <3> QED
      BY <3>2, <3>3, TouchedKeeps
  <2>5. CASE FResequence \/ FResize \/ FRestart
    BY <2>5, RebuiltKeeps DEF FResequence, FResize, FRestart
  <2>6. CASE FTick \/ UNCHANGED fvars
    <3>1. UNCHANGED <<slots, maxItems, postings, rowCount>>
      BY <2>6 DEF FTick, Tick, fvars, vars
    <3> QED
      BY <3>1 DEF IndexInv, IndexTypeOK, NoMissedHit, Hits, Used, Slots
  <2> QED
    BY <2>1, <2>2, <2>3, <2>4, <2>5, <2>6, SwapKeeps DEF FNext
<1> QED
  BY <1>1, <1>2, IndexedSpec, TypeCorrect, PTL DEF FSpec

-----------------------------------------------------------------------------
\* The index has a place for every slot and no other, and FTS5's count of
\* indexed rows never goes below zero nor above the number of slots, however
\* often its 'delete' command is given too little to find the old words.
THEOREM IndexTypeCorrect == FSpec => []IndexTypeOK
BY IndexInvHolds, PTL DEF IndexInv

\* No search misses a record: the words a used row has now are in the index,
\* whatever was created, replaced, swapped, resequenced or resized.
THEOREM NoHitMissed == FSpec => []NoMissedHit
BY IndexInvHolds, PTL DEF IndexInv
=============================================================================
