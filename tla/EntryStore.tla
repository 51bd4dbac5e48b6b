------------------------------ MODULE EntryStore ------------------------------
(***************************************************************************)
(* The record store step by step: each operation of entry_store reads the  *)
(* database, writes a file, changes the database in one transaction and    *)
(* then removes the file the row no longer names, and can stop between any *)
(* two of these steps.  Rows and files are two stores with no transaction  *)
(* over both; KaringStore.tla is what they promise together.               *)
(*                                                                         *)
(* A transaction (BEGIN IMMEDIATE ... COMMIT, or one autocommit UPDATE) is *)
(* one step: SQLite keeps other writers out and readers see the old rows   *)
(* until it commits.  It can always fail (SQLITE_BUSY: no busy timeout is  *)
(* set; I/O errors; errors of the search index).                           *)
(*                                                                         *)
(* A process is a server (whose requests run one after the other on its    *)
(* only event-loop thread) or a start-up with --init-db beside it.  seq    *)
(* and mixed are history variables, as in KaringStore; faults counts the   *)
(* crashes and file-system errors so far.                                  *)
(***************************************************************************)
EXTENDS Integers, FiniteSets

CONSTANTS Procs,      \* processes that share the database file
          MaxSlots, Data, NoData, MaxAge, MaxClock, MaxMade,
          Paths,      \* names write_for_slot can give a file
          NoPath,     \* file_path IS NULL, or the empty string in the code
          Partial,    \* what a failed or interrupted write leaves in a file
          Cut,        \* contents cut short by an error nobody looked at
          MaxFaults   \* bound: crashes and file-system errors

ASSUME ProcsAssumption == Procs # {}
ASSUME SlotsAssumption == MaxSlots \in Nat \ {0}
ASSUME DataAssumption  == /\ {NoData, Partial, Cut} \intersect Data = {}
                          /\ Cut \notin {NoData, Partial}
ASSUME PathAssumption  == NoPath \notin Paths
ASSUME TimeAssumption  == /\ MaxAge \in Nat /\ MaxClock \in Nat
                          /\ MaxMade \in Nat /\ MaxFaults \in Nat

VARIABLES rows,       \* table entries
          maxItems, nextId,   \* table store_state
          disk,       \* upload directory: contents of each file in it
          job,        \* what each process is doing
          clock, made, mixed, faults

vars == <<rows, maxItems, nextId, disk, job, clock, made, mixed, faults>>
db   == <<rows, maxItems, nextId, made, mixed>>

Kinds == {"text", "file"}

\* The contents that file_storage calls written, or read.
Filed == Data \union {Cut}

BlankRow == [used |-> FALSE, kind |-> "none", text |-> NoData, path |-> NoPath,
             stored |-> 0, seq |-> 0]

Row == [used : {TRUE}, kind : Kinds, text : Data \union {NoData},
        path : Paths \union {NoPath}, stored : 0..MaxClock, seq : 0..MaxMade]
       \union {BlankRow}

\* A process between two requests, and one that is not running.
Idle == [pc |-> "idle", op |-> "none", id |-> 0, kind |-> "none", data |-> NoData,
         old |-> NoPath, new |-> NoPath, junk |-> {}]
Down == [Idle EXCEPT !.pc = "down"]

Job == [pc : {"idle", "down", "oldpath", "check", "load", "blob", "write", "txn", "remove"},
        op : {"none", "insert", "update", "delete"},
        id : 0..MaxSlots, kind : Kinds \union {"none"}, data : Filed \union {NoData},
        old : Paths \union {NoPath}, new : Paths \union {NoPath}, junk : SUBSET Paths]

TypeOK ==
  /\ maxItems \in 1..MaxSlots
  /\ nextId \in 1..maxItems
  /\ rows \in [1..maxItems -> Row]
  /\ DOMAIN disk \subseteq Paths
  /\ \A f \in DOMAIN disk : disk[f] \in Filed \union {Partial}
  /\ job \in [Procs -> Job]
  /\ clock \in 0..MaxClock
  /\ made \in 0..MaxMade
  /\ mixed \in BOOLEAN
  /\ faults \in 0..MaxFaults

-----------------------------------------------------------------------------
Slots == DOMAIN rows
Used  == {i \in Slots : rows[i].used}
FilesOf(ids) == {rows[i].path : i \in ids} \ {NoPath}

Precedes(i, j) == \/ rows[i].stored < rows[j].stored
                  \/ rows[i].stored = rows[j].stored /\ i < j
Rank(i) == Cardinality({j \in Used : Precedes(j, i)}) + 1

\* MUTANT NextSlot: the cursor is let run one slot too far before it wraps.
NextSlotLate == IF nextId > maxItems THEN 1 ELSE nextId + 1

NextSlot == IF nextId >= maxItems THEN 1 ELSE nextId + 1
PrevSlot == IF nextId = 1 THEN maxItems ELSE nextId - 1

\* Names are made of the slot and the steady clock: no file, row or running
\* request has the new one yet.
FreePaths == Paths \ (DOMAIN disk \union FilesOf(Slots)
                      \union UNION {{job[p].old, job[p].new} \union job[p].junk : p \in Procs})
NewPath == CHOOSE f \in FreePaths : TRUE

StoreFile(f, data) == disk' = [g \in DOMAIN disk \union {f} |-> IF g = f THEN data ELSE disk[g]]

\* remove_if_any
RemoveFiles(fs) == disk' = [g \in DOMAIN disk \ fs |-> disk[g]]

Init ==
  /\ maxItems \in 1..MaxSlots
  /\ nextId = 1
  /\ rows = [i \in 1..maxItems |-> BlankRow]
  /\ disk = [f \in {} |-> Partial]
  /\ job = [p \in Procs |-> Idle]
  /\ clock = 0 /\ made = 0 /\ mixed = FALSE /\ faults = 0

-----------------------------------------------------------------------------
(* A request begins.                                                       *)

Begin(p, j) ==
  /\ job[p].pc = "idle"
  /\ job' = [job EXCEPT ![p] = j]
  /\ UNCHANGED <<db, disk, clock, faults>>

\* insert_text, insert_file: the slot is read first, outside the transaction.
BeginInsert(p, kind, data) ==
  /\ made < MaxMade
  /\ Begin(p, [Idle EXCEPT !.pc = "oldpath", !.op = "insert", !.id = nextId,
                           !.kind = kind, !.data = data])

\* update_text, update_file
BeginReplace(p, id, kind, data) ==
  Begin(p, [Idle EXCEPT !.pc = "load", !.op = "update", !.id = id,
                        !.kind = kind, !.data = data])

\* patch_text looks at the row and then goes through update_text, with the
\* content it was given or the content it has just read.
BeginPatchText(p, id, data) ==
  /\ id \in Used /\ rows[id].kind = "text"
  /\ BeginReplace(p, id, "text", data)

\* patch_file with new contents, and without: then the file is read first.
BeginPatchFile(p, id, data) ==
  /\ id \in Used /\ rows[id].path # NoPath
  /\ BeginReplace(p, id, "file", data)

BeginRename(p, id) ==
  /\ id \in Used /\ rows[id].path # NoPath
  /\ Begin(p, [Idle EXCEPT !.pc = "blob", !.op = "update", !.id = id,
                           !.kind = "file", !.old = rows[id].path])

\* logical_delete
BeginDelete(p, id) ==
  Begin(p, [Idle EXCEPT !.pc = "load", !.op = "delete", !.id = id])

\* logical_delete_latest_recent
BeginDeleteLatest(p) ==
  Begin(p, [Idle EXCEPT !.pc = "check", !.op = "delete", !.id = PrevSlot])

-----------------------------------------------------------------------------
(* Reads and the file write.                                               *)

Step(p, pc, j) ==
  /\ job[p].pc = pc
  /\ job' = [job EXCEPT ![p] = j]

\* Where a request goes when it knows its slot: files are written first.
AfterRead(j) == IF j.kind = "file" THEN "write" ELSE "txn"

\* read_entry_file_path; its result is ignored, so a failed read leaves the
\* old path empty and the insert goes on.
ReadOldPath(p) ==
  LET j == job[p] IN
  /\ \/ /\ Step(p, "oldpath", [j EXCEPT !.pc = AfterRead(j),
                 !.old = IF j.id \in Slots THEN rows[j.id].path ELSE NoPath])
        /\ UNCHANGED faults
     \/ /\ Step(p, "oldpath", [j EXCEPT !.pc = AfterRead(j)])
        /\ faults < MaxFaults
        /\ faults' = faults + 1
  /\ UNCHANGED <<db, disk, clock>>

\* The second half of logical_delete_latest_recent's reads.
CheckLatest(p) ==
  LET j == job[p] IN
  /\ j.id \in Used
  /\ clock - rows[j.id].stored <= MaxAge
  /\ Step(p, "check", [j EXCEPT !.pc = "load"])
  /\ UNCHANGED <<db, disk, clock, faults>>

\* patch_file keeps the contents it reads from the file of the row; an error
\* in the middle of the file is taken for its end.
ReadBlob(p) ==
  LET j == job[p] IN
  /\ j.old \in DOMAIN disk
  /\ \/ /\ Step(p, "blob", [j EXCEPT !.pc = "load", !.data = disk[j.old], !.old = NoPath])
        /\ UNCHANGED faults
     \/ /\ Step(p, "blob", [j EXCEPT !.pc = "load", !.data = Cut, !.old = NoPath])
        /\ faults < MaxFaults
        /\ faults' = faults + 1
  /\ UNCHANGED <<db, disk, clock>>

\* load_entry: updates need a used row, a delete takes any row there is.
LoadEntry(p) ==
  LET j == job[p] IN
  /\ j.id \in Slots
  /\ j.op = "update" => rows[j.id].used
  /\ Step(p, "load", [j EXCEPT !.pc = AfterRead(j), !.old = rows[j.id].path])
  /\ UNCHANGED <<db, disk, clock, faults>>

\* A row that is missing, unused or too old, a busy database or an unreadable
\* file: the operation returns false and has changed nothing.
Refuse(p) ==
  /\ job[p].pc \in {"check", "blob", "load"}
  /\ job' = [job EXCEPT ![p] = Idle]
  /\ UNCHANGED <<db, disk, clock, faults>>

\* write_for_slot returns true: the stream is asked before it is flushed, so
\* also when the last part of the file, or all of a small one, fails to be
\* written as the stream is closed.
WriteFile(p) ==
  /\ FreePaths # {}
  /\ Step(p, "write", [job[p] EXCEPT !.pc = "txn", !.new = NewPath])
  /\ \/ StoreFile(NewPath, job[p].data) /\ UNCHANGED faults
     \/ /\ faults < MaxFaults
        /\ StoreFile(NewPath, Cut)
        /\ faults' = faults + 1
  /\ UNCHANGED <<db, clock>>

\* write_for_slot returns false: the file cannot be opened, or an earlier part
\* of it not written, and is left as it is.
WriteFails(p) ==
  /\ Step(p, "write", Idle)
  /\ \/ UNCHANGED <<disk, faults>>
     \/ /\ faults < MaxFaults /\ FreePaths # {}
        /\ StoreFile(NewPath, Partial)
        /\ faults' = faults + 1
  /\ UNCHANGED <<db, clock>>

-----------------------------------------------------------------------------
(* Transactions.                                                           *)

\* MUTANT Leftover: the new file is taken for the one to remove.
LeftoverNew(j) == {j.new} \ {NoPath}
\* MUTANT Leftover: the replaced file is forgotten.
LeftoverNone(j) == {}

\* What a committed change leaves behind on disk, and what a failed one does.
Leftover(j) == {j.old} \ {NoPath}
Discarded(j) == {j.new} \ {NoPath}

Removing(files) == [Idle EXCEPT !.pc = "remove", !.junk = files]

\* The row a create or an update writes.
RowOf(j, stored, seq) ==
  [used |-> TRUE, kind |-> j.kind,
   text |-> IF j.kind = "text" THEN j.data ELSE NoData,
   path |-> j.new, stored |-> stored, seq |-> seq]

\* UPDATE of the slot read before, advance_next_id on what is there now.
CommitInsert(p) ==
  LET j == job[p] IN
  /\ j.op = "insert" /\ j.id \in Slots /\ made < MaxMade
  /\ Step(p, "txn", Removing(Leftover(j)))
  /\ rows' = [rows EXCEPT ![j.id] = RowOf(j, clock, made + 1)]
  /\ nextId' = NextSlot
  /\ made' = made + 1
  /\ UNCHANGED <<maxItems, mixed, disk, clock, faults>>

\* The UPDATE names the slot only: it does not ask whether it is still used.
CommitUpdate(p) ==
  LET j == job[p] IN
  /\ j.op = "update" /\ j.id \in Slots
  /\ Step(p, "txn", Removing(Leftover(j)))
  /\ rows' = [rows EXCEPT ![j.id] = RowOf(j, rows[j.id].stored, rows[j.id].seq)]
  /\ UNCHANGED <<maxItems, nextId, made, mixed, disk, clock, faults>>

CommitDelete(p) ==
  LET j == job[p] IN
  /\ j.op = "delete" /\ j.id \in Slots
  /\ Step(p, "txn", Removing(Leftover(j)))
  /\ rows' = [rows EXCEPT ![j.id] = BlankRow]
  /\ UNCHANGED <<maxItems, nextId, made, mixed, disk, clock, faults>>

\* The database is busy, the row is gone or the commit fails: ROLLBACK, and
\* the file written for the row is removed.
TxnFails(p) ==
  /\ Step(p, "txn", Removing(Discarded(job[p])))
  /\ UNCHANGED <<db, disk, clock, faults>>

\* remove_if_any and remove_files; errors are ignored.
Remove(p) ==
  /\ Step(p, "remove", Idle)
  /\ \/ RemoveFiles(job[p].junk) /\ UNCHANGED faults
     \/ faults < MaxFaults /\ faults' = faults + 1 /\ UNCHANGED disk
  /\ UNCHANGED <<db, clock>>

\* swap_entries: both rows are loaded and written in one transaction.
Swap(p, i, k) ==
  /\ job[p].pc = "idle" /\ i # k
  /\ rows' = [rows EXCEPT ![i] = rows[k], ![k] = rows[i]]
  /\ mixed' = TRUE
  /\ UNCHANGED <<maxItems, nextId, made, disk, job, clock, faults>>

\* MUTANT Compacted: a slot that no row moves to keeps what it held.
CompactedStale(n, drop) ==
  [q \in 1..n |-> IF \E i \in Used : Rank(i) = q + drop
                  THEN rows[CHOOSE i \in Used : Rank(i) = q + drop]
                  ELSE rows[q]]

Compacted(n, drop) ==
  [q \in 1..n |-> IF \E i \in Used : Rank(i) = q + drop
                  THEN rows[CHOOSE i \in Used : Rank(i) = q + drop]
                  ELSE BlankRow]

\* resequence_entries
Resequence(p) ==
  /\ job[p].pc = "idle"
  /\ rows' = Compacted(maxItems, 0)
  /\ nextId' = IF Cardinality(Used) >= maxItems THEN 1 ELSE Cardinality(Used) + 1
  /\ mixed' = FALSE
  /\ UNCHANGED <<maxItems, made, disk, job, clock, faults>>

-----------------------------------------------------------------------------
(* Start-up: the schema transaction, then the files of dropped rows.       *)

Restart(p, files) ==
  /\ Step(p, "down", Removing(files))
  /\ UNCHANGED <<made, disk, clock, faults>>

StartSame(p) ==
  /\ Restart(p, {})
  /\ UNCHANGED <<rows, maxItems, nextId, mixed>>

StartLarger(p, n) ==
  /\ n > maxItems
  /\ Restart(p, {})
  /\ rows' = [i \in 1..n |-> IF i <= maxItems THEN rows[i] ELSE BlankRow]
  /\ maxItems' = n
  /\ UNCHANGED <<nextId, mixed>>

StartSmaller(p, n) ==
  /\ n < maxItems
  /\ \A i \in Used : i <= n
  /\ Restart(p, {})
  /\ rows' = [i \in 1..n |-> rows[i]]
  /\ maxItems' = n
  /\ nextId' = IF nextId > n THEN 1 ELSE nextId
  /\ UNCHANGED mixed

\* MUTANT Surplus: one more row than there is room for counts as kept.
SurplusShort(n) == IF Cardinality(Used) > n THEN Cardinality(Used) - n - 1 ELSE 0

Surplus(n) == IF Cardinality(Used) > n THEN Cardinality(Used) - n ELSE 0

\* --force: the oldest rows are dropped, and their files after the commit.
StartForced(p, n) ==
  /\ n < maxItems
  /\ Restart(p, FilesOf({i \in Used : Rank(i) <= Surplus(n)}))
  /\ rows' = Compacted(n, Surplus(n))
  /\ maxItems' = n
  /\ nextId' = 1
  /\ mixed' = FALSE

-----------------------------------------------------------------------------
\* A process is killed: SQLite rolls an open transaction back, a file being
\* written stays as far as it got, nothing else is undone.
Crash(p) ==
  /\ job[p].pc # "down"
  /\ faults < MaxFaults
  /\ faults' = faults + 1
  /\ job' = [job EXCEPT ![p] = Down]
  /\ \/ UNCHANGED disk
     \/ job[p].pc = "write" /\ FreePaths # {} /\ StoreFile(NewPath, Partial)
  /\ UNCHANGED <<db, clock>>

\* An orderly stop, between two requests.
Stop(p) ==
  /\ Step(p, "idle", Down)
  /\ UNCHANGED <<db, disk, clock, faults>>

Tick ==
  /\ clock < MaxClock
  /\ clock' = clock + 1
  /\ UNCHANGED <<db, disk, job, faults>>

BeginRequest(p) ==
  \/ \E kind \in Kinds, data \in Data : BeginInsert(p, kind, data)
  \/ \E id \in Slots, data \in Data :
       \/ \E kind \in Kinds : BeginReplace(p, id, kind, data)
       \/ BeginPatchText(p, id, data)
       \/ BeginPatchFile(p, id, data)
  \/ \E id \in Slots : BeginRename(p, id) \/ BeginDelete(p, id)
  \/ BeginDeleteLatest(p)

Continue(p) ==
  \/ ReadOldPath(p) \/ CheckLatest(p) \/ ReadBlob(p) \/ LoadEntry(p) \/ Refuse(p)
  \/ WriteFile(p) \/ WriteFails(p)
  \/ CommitInsert(p) \/ CommitUpdate(p) \/ CommitDelete(p) \/ TxnFails(p)
  \/ Remove(p)

StartUp(p) ==
  \/ StartSame(p)
  \/ \E n \in 1..MaxSlots : StartLarger(p, n) \/ StartSmaller(p, n) \/ StartForced(p, n)

Next ==
  \/ \E p \in Procs : \/ BeginRequest(p) \/ Continue(p)
                      \/ \E i, k \in Slots : Swap(p, i, k)
                      \/ Resequence(p)
                      \/ StartUp(p) \/ Crash(p) \/ Stop(p)
  \/ Tick

Spec == Init /\ [][Next]_vars

-----------------------------------------------------------------------------
(* What must hold of rows and files together.                              *)

\* Every stored file record can be read: whatever step a request, a crash or
\* a failed write stopped at, its file is on disk and is not one whose write
\* was seen to fail or was interrupted.  Only an error that nobody looked at
\* can have cut it short: without any fault it is complete.
NoDanglingRow ==
  \A i \in Slots : rows[i].path # NoPath =>
    /\ rows[i].path \in DOMAIN disk
    /\ disk[rows[i].path] \in Filed
    /\ faults = 0 => disk[rows[i].path] \in Data

\* No two rows name the same file, so removing one row's file is no concern
\* of another row; a row without a record names none.
NoSharedFile ==
  \A i, k \in Slots : rows[i].path # NoPath =>
      /\ rows[i].used
      /\ rows[i].path = rows[k].path => i = k

\* A file that no request is about to remove and no row names is the trace
\* of a crash or of a file-system error: as long as there was none, the
\* upload directory of an idle store holds exactly the files of its rows.
NoOrphans ==
  (faults = 0 /\ \A p \in Procs : job[p].pc \in {"idle", "down"})
     => DOMAIN disk = FilesOf(Slots)

\* The row of KaringStore a row and its file stand for.
Contents(row) == IF row.path = NoPath THEN row.text
                 ELSE IF row.path \in DOMAIN disk THEN disk[row.path] ELSE Partial

Store == INSTANCE KaringStore WITH
  Data  <- Filed,
  slots <- [i \in Slots |-> [used |-> rows[i].used, kind |-> rows[i].kind,
                             data |-> Contents(rows[i]),
                             stored |-> rows[i].stored, seq |-> rows[i].seq]]

\* Rows and files together behave as the one-step store: every request takes
\* effect at its commit or not at all, and its other steps change nothing
\* that can be seen.  The store is one that may be given contents cut short;
\* a file that is missing or half-written is contents of no record.
ImplementsStore == Store!Spec
=============================================================================
