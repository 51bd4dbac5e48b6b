------------------------------- MODULE FtsIndex -------------------------------
(***************************************************************************)
(* KaringStore composed with its FTS5 index: the triggers of               *)
(* schema_fts.sql run inside every statement that writes a row, and a      *)
(* statement whose trigger fails is refused.                               *)
(*                                                                         *)
(* data stands for the words of a record that are indexed: the text of a   *)
(* direct text, the name of a file.  FTS5 itself is external: a 'delete'   *)
(* command that is not given the old column values removes no words, takes *)
(* one off the number of indexed rows and fails with SQLITE_CORRUPT when   *)
(* that number is 0; 'rebuild' indexes every row of entries, used or not.  *)
(***************************************************************************)
EXTENDS KaringStore

VARIABLES postings,   \* words the index holds for each rowid
          rowCount    \* rows FTS5 believes it has indexed

fvars == <<vars, postings, rowCount>>

Words(row) == IF row.used THEN {row.data} ELSE {}
Weight(row) == IF row.used THEN 1 ELSE 0

IndexTypeOK ==
  /\ postings \in [1..maxItems -> SUBSET Data]
  /\ rowCount \in 0..maxItems

\* Search for one word: JOIN of the index with the used rows.
Hits(word) == {i \in Used : word \in postings[i]}

\* INSERT INTO entries_fts VALUES('rebuild'), after every change of limit and
\* every start-up as well: the index is dropped and built again.
Rebuilt ==
  /\ postings' = [i \in DOMAIN slots' |-> Words(slots'[i])]
  /\ rowCount' = maxItems'

\* MUTANT Touched: the row is indexed again only if it was not used before.
TouchedOnce(id) ==
  /\ rowCount >= 1
  /\ postings' = [postings EXCEPT ![id] =
                    IF slots[id].used THEN @ ELSE @ \union Words(slots'[id])]
  /\ rowCount' = rowCount - 1 + Weight(slots'[id])
\* MUTANT Touched: a deleted row is counted as if it were indexed again.
TouchedRecount(id) ==
  /\ rowCount >= 1
  /\ postings' = [postings EXCEPT ![id] = @ \union Words(slots'[id])]
  /\ rowCount' = rowCount + Weight(slots'[id])

\* One UPDATE of row id: entries_au deletes OLD.id and indexes the new row.
Touched(id) ==
  /\ rowCount >= 1
  /\ postings' = [postings EXCEPT ![id] = @ \union Words(slots'[id])]
  /\ rowCount' = rowCount - 1 + Weight(slots'[id])

FInit == Init /\ postings = [i \in Slots |-> {}] /\ rowCount = maxItems

FInsert(kind, data) == Insert(kind, data) /\ Touched(nextId)
FReplace(id, kind, data) == Replace(id, kind, data) /\ Touched(id)
FDelete(id) == Delete(id) /\ Touched(id)
FDeleteLatest == DeleteLatest /\ Touched(PrevSlot)

\* Two UPDATEs in one transaction; the second finds the count the first left.
FSwap(i, j) ==
  /\ Swap(i, j)
  /\ rowCount >= 1
  /\ rowCount - 1 + Weight(slots[j]) >= 1
  /\ postings' = [postings EXCEPT ![i] = @ \union Words(slots[j]),
                                  ![j] = @ \union Words(slots[i])]
  /\ rowCount' = rowCount - 2 + Weight(slots[i]) + Weight(slots[j])

\* One UPDATE per slot: the used rows first, which leave the count as it is,
\* then the empty ones, each of which takes one off; then the rebuild.
FResequence ==
  /\ Resequence
  /\ rowCount >= 1
  /\ rowCount >= maxItems - Cardinality(Used)
  /\ Rebuilt

FResize == Resize /\ Rebuilt
FRestart == UNCHANGED vars /\ Rebuilt
FTick == Tick /\ UNCHANGED <<postings, rowCount>>

FNext ==
  \/ \E kind \in Kinds, data \in Data : FInsert(kind, data)
  \/ \E id \in Slots, kind \in Kinds, data \in Data : FReplace(id, kind, data)
  \/ \E id \in Slots : FDelete(id)
  \/ FDeleteLatest
  \/ \E i, j \in Slots : FSwap(i, j)
  \/ FResequence
  \/ FResize
  \/ FRestart
  \/ FTick

FSpec == FInit /\ [][FNext]_fvars

-----------------------------------------------------------------------------
\* Search never misses a record: whatever was created, replaced, swapped,
\* resequenced or resized, the words a used row has now are in the index.
NoMissedHit == \A i \in Used : i \in Hits(slots[i].data)

-----------------------------------------------------------------------------
(* What README.md says and the index does not keep.                        *)

\* README.md:134, "Search targets are text bodies and filenames": a hit is a
\* record that has the word.
HitsHaveTheWord == \A word \in Data : \A i \in Hits(word) : slots[i].data = word

\* README.md:105, DELETE /?id "delete the specified ID": a stored record can
\* be deleted.
RecordsCanBeDeleted == \A id \in Used : ENABLED FDelete(id)
=============================================================================
