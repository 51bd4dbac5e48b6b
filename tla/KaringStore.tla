----------------------------- MODULE KaringStore -----------------------------
(***************************************************************************)
(* What the record store of karing promises: a ring of numbered slots with *)
(* one cursor (the slot the next record goes to), where every operation of *)
(* entry_store and every resize at start-up happens in one step.           *)
(*                                                                         *)
(* A refused operation (slot unused, SQLite busy, disk full) is a stutter: *)
(* it leaves everything as it was.  EntryStore.tla is the step-by-step     *)
(* model of the same operations and implements this module.                *)
(*                                                                         *)
(* Columns no property here tells apart are left out: the name, MIME type, *)
(* size and updated_at of a row.  seq and mixed are history variables: the *)
(* order in which records were created, and whether a swap has disturbed   *)
(* that order since the slots were last sorted.                            *)
(***************************************************************************)
EXTENDS Integers, FiniteSets

CONSTANTS MaxSlots,   \* largest --limit an operator configures
          Data,       \* contents a record can have
          NoData,     \* the NULL columns of an unused row
          MaxAge,     \* seconds DELETE / reaches back (600 in the server)
          MaxClock,   \* bound: last second of the modelled time
          MaxMade     \* bound: number of records created

ASSUME SlotsAssumption == MaxSlots \in Nat \ {0}
ASSUME DataAssumption  == NoData \notin Data
ASSUME TimeAssumption  == MaxAge \in Nat /\ MaxClock \in Nat /\ MaxMade \in Nat

VARIABLES slots,      \* table entries: row of each id
          maxItems,   \* store_state.max_items
          nextId,     \* store_state.next_id
          clock,      \* now_epoch(), in seconds
          made,       \* records created so far
          mixed       \* a swap happened since the slots were last sorted

vars == <<slots, maxItems, nextId, clock, made, mixed>>

Kinds == {"text", "file"}

UsedRow == [used : {TRUE}, kind : Kinds, data : Data,
            stored : 0..MaxClock, seq : 1..MaxMade]

BlankRow == [used |-> FALSE, kind |-> "none", data |-> NoData,
             stored |-> 0, seq |-> 0]

TypeOK ==
  /\ maxItems \in 1..MaxSlots
  /\ nextId \in 1..maxItems
  /\ slots \in [1..maxItems -> UsedRow \union {BlankRow}]
  /\ clock \in 0..MaxClock
  /\ made \in 0..MaxMade
  /\ mixed \in BOOLEAN
  /\ \A i \in 1..maxItems : slots[i].stored <= clock /\ slots[i].seq <= made

-----------------------------------------------------------------------------
(* Order of the records and the two ends of the ring.                      *)

Slots == DOMAIN slots
Used  == {i \in Slots : slots[i].used}
Records == {slots[i] : i \in Used}

\* ORDER BY stored_at, id
Precedes(i, j) == \/ slots[i].stored < slots[j].stored
                  \/ slots[i].stored = slots[j].stored /\ i < j

Rank(i) == Cardinality({j \in Used : Precedes(j, i)}) + 1

\* The row GET / answers with: ORDER BY stored_at DESC, id DESC LIMIT 1.
IsLatest(i) == i \in Used /\ \A j \in Used \ {i} : Precedes(j, i)

\* MUTANT NextSlot: the cursor is let run one slot too far before it wraps.
NextSlotLate == IF nextId > maxItems THEN 1 ELSE nextId + 1
\* MUTANT NextSlot: the last slot is never used once the ring has wrapped.
NextSlotShort == IF nextId >= maxItems - 1 THEN 1 ELSE nextId + 1

NextSlot == IF nextId >= maxItems THEN 1 ELSE nextId + 1
PrevSlot == IF nextId = 1 THEN maxItems ELSE nextId - 1

\* Position of the used rows when ids 1..n are refilled in Precedes order and
\* the first drop rows are left out.
Compacted(n, drop) ==
  [p \in 1..n |-> IF \E i \in Used : Rank(i) = p + drop
                  THEN slots[CHOOSE i \in Used : Rank(i) = p + drop]
                  ELSE BlankRow]

Init ==
  /\ maxItems \in 1..MaxSlots
  /\ nextId = 1
  /\ slots = [i \in 1..maxItems |-> BlankRow]
  /\ clock = 0
  /\ made = 0
  /\ mixed = FALSE

-----------------------------------------------------------------------------
(* Operations of entry_store.                                              *)

\* POST /: a new record takes the slot under the cursor, whatever it holds.
Insert(kind, data) ==
  /\ made < MaxMade
  /\ slots' = [slots EXCEPT ![nextId] =
                 [used |-> TRUE, kind |-> kind, data |-> data,
                  stored |-> clock, seq |-> made + 1]]
  /\ nextId' = NextSlot
  /\ made' = made + 1
  /\ UNCHANGED <<maxItems, clock, mixed>>

\* MUTANT Replace: the replacement is stamped as if it were a new record.
ReplaceStamped(id, kind, data) ==
  /\ id \in Used
  /\ slots' = [slots EXCEPT ![id].kind = kind, ![id].data = data,
                            ![id].stored = clock]
  /\ UNCHANGED <<maxItems, nextId, clock, made, mixed>>

\* PUT /?id: the record keeps its place in time (stored_at is not written).
Replace(id, kind, data) ==
  /\ id \in Used
  /\ slots' = [slots EXCEPT ![id].kind = kind, ![id].data = data]
  /\ UNCHANGED <<maxItems, nextId, clock, made, mixed>>

\* PATCH /?id: text stays text and a file stays a file.
Patch(id, data) == id \in Used /\ Replace(id, slots[id].kind, data)

\* DELETE /?id: an unused slot is cleared again, without complaint.
Delete(id) ==
  /\ slots' = [slots EXCEPT ![id] = BlankRow]
  /\ UNCHANGED <<maxItems, nextId, clock, made, mixed>>

\* MUTANT DeleteLatest: the cursor is moved back over the deleted slot.
DeleteLatestRewind ==
  /\ slots[PrevSlot].used
  /\ clock - slots[PrevSlot].stored <= MaxAge
  /\ slots' = [slots EXCEPT ![PrevSlot] = BlankRow]
  /\ nextId' = PrevSlot
  /\ UNCHANGED <<maxItems, clock, made, mixed>>
\* MUTANT DeleteLatest: the slot under the cursor is taken for the latest.
DeleteLatestAtCursor ==
  /\ slots[nextId].used
  /\ clock - slots[nextId].stored <= MaxAge
  /\ Delete(nextId)

\* DELETE /: the slot behind the cursor, while its record is young enough.
DeleteLatest ==
  /\ slots[PrevSlot].used
  /\ clock - slots[PrevSlot].stored <= MaxAge
  /\ Delete(PrevSlot)

\* MUTANT Swap: the second row is written from the already changed first.
SwapClobber(i, j) ==
  /\ i # j
  /\ slots' = [slots EXCEPT ![i] = slots[j]]
  /\ mixed' = TRUE
  /\ UNCHANGED <<maxItems, nextId, clock, made>>

\* POST /swap: all columns change places, those of unused slots too.
Swap(i, j) ==
  /\ i # j
  /\ slots' = [slots EXCEPT ![i] = slots[j], ![j] = slots[i]]
  /\ mixed' = TRUE
  /\ UNCHANGED <<maxItems, nextId, clock, made>>

\* MUTANT Resequence: the cursor goes one slot too far.
ResequenceSkips ==
  /\ slots' = Compacted(maxItems, 0)
  /\ nextId' = IF Cardinality(Used) + 2 > maxItems THEN 1 ELSE Cardinality(Used) + 2
  /\ mixed' = FALSE
  /\ UNCHANGED <<maxItems, clock, made>>

\* POST /resequence: used rows go to 1..n by age, the cursor behind them.
Resequence ==
  /\ slots' = Compacted(maxItems, 0)
  /\ nextId' = IF Cardinality(Used) >= maxItems THEN 1 ELSE Cardinality(Used) + 1
  /\ mixed' = FALSE
  /\ UNCHANGED <<maxItems, clock, made>>

-----------------------------------------------------------------------------
(* Start-up with another --limit (init_sqlite_schema_file).                *)

\* A larger limit adds unused slots at the end; the cursor stays.
Grow(n) ==
  /\ n > maxItems
  /\ slots' = [i \in 1..n |-> IF i <= maxItems THEN slots[i] ELSE BlankRow]
  /\ maxItems' = n
  /\ UNCHANGED <<nextId, clock, made, mixed>>

\* A smaller limit without --force: only unused slots are cut off.
Shrink(n) ==
  /\ n < maxItems
  /\ \A i \in Used : i <= n
  /\ slots' = [i \in 1..n |-> slots[i]]
  /\ maxItems' = n
  /\ nextId' = IF nextId > n THEN 1 ELSE nextId
  /\ UNCHANGED <<clock, made, mixed>>

\* MUTANT Surplus: the forced shrink keeps the first records, not the last.
SurplusNone(n) == 0

\* Records a forced shrink to n slots has no room for.
Surplus(n) == IF Cardinality(Used) > n THEN Cardinality(Used) - n ELSE 0

\* A smaller limit with --force: the newest n records, oldest first, from 1.
ForceShrink(n) ==
  /\ n < maxItems
  /\ slots' = Compacted(n, Surplus(n))
  /\ maxItems' = n
  /\ nextId' = 1
  /\ mixed' = FALSE
  /\ UNCHANGED <<clock, made>>

\* The system clock is taken to be monotone.
Tick ==
  /\ clock < MaxClock
  /\ clock' = clock + 1
  /\ UNCHANGED <<slots, maxItems, nextId, made, mixed>>

Update == \E id \in Slots, data \in Data :
             Patch(id, data) \/ \E kind \in Kinds : Replace(id, kind, data)

Resize == \E n \in 1..MaxSlots : Grow(n) \/ Shrink(n) \/ ForceShrink(n)

Next ==
  \/ \E kind \in Kinds, data \in Data : Insert(kind, data)
  \/ Update
  \/ \E id \in Slots : Delete(id)
  \/ DeleteLatest
  \/ \E i, j \in Slots : Swap(i, j)
  \/ Resequence
  \/ Resize
  \/ Tick

Spec == Init /\ [][Next]_vars

-----------------------------------------------------------------------------
(* What the operations must keep true.                                     *)

\* No record is in two slots: swap, resequence and resize move rows around
\* without ever leaving a copy behind.
DistinctRecords ==
  \A i, j \in Used : slots[i].seq = slots[j].seq => i = j

\* Slot i comes before slot j when the ring is read from the cursor on.
RingBefore(i, j) == \/ i >= nextId /\ j < nextId
                    \/ i < j /\ (i >= nextId <=> j >= nextId)

\* Read from the cursor on, the ring goes from the oldest record to the
\* newest, through deletions, wrap-around, resequencing and every resize:
\* that is what lets insert take the slot under the cursor and DELETE / the
\* one behind it.  Only a swap breaks it, until the slots are next sorted.
RingOrder ==
  ~mixed => \A i, j \in Used : RingBefore(i, j) => slots[i].stored <= slots[j].stored

\* Creating a record in a full ring gives up one that no other is older
\* than (unless a swap has mixed the slots): "Insert or rotate".
RotationDropsOldest ==
  [][(~mixed /\ made' > made /\ Used = Slots) =>
       \A i \in Slots : slots[i] # slots'[i] =>
          \A j \in Slots : slots[i].stored <= slots[j].stored]_vars

\* No record appears or changes except through create, PUT, PATCH; and none
\* is lost except the one in the slot a create or a delete writes, and those
\* a forced shrink has no room for.
RecordsConserved ==
  [][LET kept(i) == slots[i] \in {slots'[j] : j \in {k \in DOMAIN slots' : slots'[k].used}}
         lost == {i \in Used : ~kept(i)}
     IN  /\ made' = made /\ ~Update => Records' \subseteq Records
         /\ \/ made' > made /\ lost \subseteq {nextId}
            \/ maxItems' < maxItems /\ Cardinality(lost) = Surplus(maxItems')
            \/ Update
            \/ (\E id \in Slots : Delete(id)) /\ Cardinality(lost) <= 1
            \/ lost = {}]_vars

\* "Force shrink by dropping oldest data": whatever a resize drops, nothing
\* it keeps is older.
ResizeDropsOldest ==
  [][\A i \in Used :
       (maxItems' # maxItems /\ slots[i] \notin Records') =>
          \A row \in Records' : slots[i].stored <= row.stored]_vars

\* DELETE / takes a record none is newer than (unless mixed by a swap).
DeleteLatestTakesNewest ==
  [][(~mixed /\ DeleteLatest) =>
       \A i \in Used : slots[i].stored <= slots[PrevSlot].stored]_vars

\* DELETE / "should not cascade": once the slot behind the cursor is unused
\* (after a DELETE / it is), deletes, updates and the passing of time offer
\* DELETE / no other record.
NoCascade ==
  [][(DeleteLatest \/ ~slots[PrevSlot].used) =>
       \/ ~slots'[PrevSlot'].used
       \/ made' > made
       \/ \E i, j \in Slots : Swap(i, j)
       \/ Resequence
       \/ maxItems' # maxItems]_vars

\* A resequence costs no record, keeps the order GET / and DELETE / go by,
\* leaves no gap, and puts the cursor on the first slot behind the records:
\* one further would skip a slot, one less overwrite the newest ("next_id
\* should become first empty slot").
ResequenceSettles ==
  [][Resequence =>
       /\ Records' = Records
       /\ \A i, j \in Used : Precedes(i, j) =>
            \E a, b \in Slots : a < b /\ slots'[a] = slots[i] /\ slots'[b] = slots[j]
       /\ \A i \in Slots : slots'[i].used <=> (i < nextId' \/ Used = Slots)
       /\ Used = Slots => nextId' = 1]_vars

-----------------------------------------------------------------------------
(* What README.md says and the operations do not keep.                     *)

\* README.md:70, GET / "returns the newest single item".
LatestIsNewest ==
  \A i, j \in Used : IsLatest(i) => slots[j].seq <= slots[i].seq

\* README.md:101, DELETE / "deletes only the latest created record".
DeletesLatestCreated ==
  [][DeleteLatest => \A i \in Used : slots[i].seq <= slots[PrevSlot].seq]_vars
=============================================================================
