--------------------------- MODULE EntryStore_proofs ---------------------------
(***************************************************************************)
(* Theorems of EntryStore for any number of processes, crashes and file    *)
(* errors: rows and requests keep their shape, and no file gets into two   *)
(* rows.                                                                   *)
(***************************************************************************)
EXTENDS EntryStore, FiniteSetTheorems, TLAPS

Busy == {"oldpath", "check", "blob", "load", "write", "txn"}

\* What a request carries from one step to the next.
JobRight(j) ==
  /\ j.pc \in Busy => j.op # "none"
  /\ j.op \in {"insert", "update"} => j.kind \in Kinds
  /\ j.op = "delete" => j.kind = "none"
  /\ j.pc = "oldpath" => j.op = "insert"
  /\ j.pc = "check" => j.op = "delete"
  /\ j.pc = "blob" => j.op = "update" /\ j.kind = "file" /\ j.old # NoPath
  /\ j.pc = "load" => j.op \in {"update", "delete"}
  /\ j.pc = "write" => j.kind = "file"
  /\ j.pc \in {"oldpath", "load", "write", "txn"} /\ j.op # "delete" => j.data \in Filed
  /\ j.kind = "text" => j.data \in Data
  /\ j.pc = "txn" => (j.new # NoPath <=> j.kind = "file")
  /\ j.pc # "txn" => j.new = NoPath
  /\ j.pc # "remove" => j.junk = {}

JobsRight == \A p \in Procs : JobRight(job[p])

\* An interrupted write leaves its part of a file under a name that no row and
\* no request has.
PartialUnnamed ==
  \A f \in DOMAIN disk : disk[f] = Partial =>
    /\ f \notin FilesOf(Slots)
    /\ \A p \in Procs : f # job[p].old /\ f # job[p].new

\* The file a request has written is its own until it commits.
OwnFiles ==
  /\ \A p \in Procs : job[p].new # NoPath => job[p].new \notin FilesOf(Slots)
  /\ \A p, q \in Procs : job[p].new # NoPath /\ job[p].new = job[q].new => p = q

StoreInv == TypeOK /\ JobsRight /\ PartialUnnamed /\ OwnFiles /\ NoSharedFile

-----------------------------------------------------------------------------
(* Facts about the state.                                                  *)

LEMMA BlankFacts ==
  /\ BlankRow \in Row
  /\ BlankRow.path = NoPath /\ ~BlankRow.used
BY DEF BlankRow, Row

LEMMA RowShape ==
  ASSUME NEW row \in Row
  PROVE  /\ row.path \in Paths \union {NoPath}
         /\ row.stored \in 0..MaxClock /\ row.seq \in 0..MaxMade
         /\ row.used \in BOOLEAN
         /\ row.used => row.kind \in Kinds
<1>1. CASE row = BlankRow
  BY <1>1, TimeAssumption DEF BlankRow
<1>2. CASE row # BlankRow
  BY <1>2 DEF Row
<1> QED
  BY <1>1, <1>2

LEMMA SlotFacts ==
  ASSUME TypeOK
  PROVE  /\ Slots = 1..maxItems
         /\ maxItems \in Nat \ {0} /\ nextId \in Slots
         /\ Used = {i \in 1..maxItems : rows[i].used}
         /\ \A f : f \in FilesOf(Slots) <=>
              f # NoPath /\ \E i \in 1..maxItems : f = rows[i].path
         /\ FilesOf(Slots) \subseteq Paths
<1>1. Slots = 1..maxItems /\ maxItems \in Nat \ {0}
  BY SlotsAssumption DEF TypeOK, Slots
<1>2. \A i \in 1..maxItems : rows[i].path \in Paths \union {NoPath}
  BY RowShape DEF TypeOK
<1> QED
  BY <1>1, <1>2 DEF TypeOK, Used, FilesOf

LEMMA SlotsRange ==
  ASSUME TypeOK
  PROVE  Slots \subseteq 0..MaxSlots
<1>1. maxItems \in 1..MaxSlots
  BY DEF TypeOK
<1> QED
  BY <1>1, SlotFacts, SlotsAssumption

LEMMA RowFacts ==
  ASSUME TypeOK, NEW i \in Slots
  PROVE  /\ i \in 1..maxItems
         /\ rows[i] \in Row
         /\ rows[i].path \in Paths \union {NoPath}
         /\ rows[i].stored \in 0..MaxClock /\ rows[i].seq \in 0..MaxMade
         /\ rows[i].path # NoPath => rows[i].path \in FilesOf(Slots)
         /\ rows[i].used \in BOOLEAN
         /\ rows[i].used => rows[i].kind \in Kinds
<1>1. i \in 1..maxItems /\ rows[i] \in Row
  BY SlotFacts DEF TypeOK
<1>2. rows[i].path # NoPath => rows[i].path \in FilesOf(Slots)
  BY DEF FilesOf
<1> QED
  BY <1>1, <1>2, RowShape

\* The three ways a process can be without a request.
LEMMA RestFacts ==
  /\ Idle \in Job /\ JobRight(Idle) /\ Idle.old = NoPath /\ Idle.new = NoPath
  /\ Idle.kind = "none" /\ Idle.junk = {}
  /\ Down \in Job /\ JobRight(Down) /\ Down.old = NoPath /\ Down.new = NoPath
  /\ \A files \in SUBSET Paths :
       /\ Removing(files) \in Job /\ JobRight(Removing(files))
       /\ Removing(files).old = NoPath /\ Removing(files).new = NoPath
<1>1. /\ Idle \in Job /\ JobRight(Idle) /\ Idle.old = NoPath /\ Idle.new = NoPath
      /\ Idle.kind = "none" /\ Idle.junk = {}
      /\ Down \in Job /\ JobRight(Down) /\ Down.old = NoPath /\ Down.new = NoPath
  BY SlotsAssumption DEF Idle, Down, Job, JobRight, Busy
<1>2. ASSUME NEW files \in SUBSET Paths
      PROVE  /\ Removing(files) \in Job /\ JobRight(Removing(files))
             /\ Removing(files).old = NoPath /\ Removing(files).new = NoPath
  <2>1. Removing(files) \in Job
    BY <1>1 DEF Removing, Job
  <2>2. /\ Removing(files).pc = "remove" /\ Removing(files).op = Idle.op
        /\ Removing(files).kind = Idle.kind
        /\ Removing(files).new = NoPath /\ Removing(files).old = NoPath
    BY <1>1 DEF Removing, Job
  <2>3. Idle.op = "none"
    BY DEF Idle
  <2> QED
    BY <1>1, <2>1, <2>2, <2>3 DEF JobRight, Busy
<1> QED
  BY <1>1, <1>2

\* A name no file, row or request has.
LEMMA NewPathFree ==
  ASSUME TypeOK, FreePaths # {}
  PROVE  /\ NewPath \in Paths /\ NewPath # NoPath
         /\ NewPath \notin DOMAIN disk
         /\ NewPath \notin FilesOf(Slots)
         /\ \A p \in Procs : /\ NewPath # job[p].old /\ NewPath # job[p].new
                             /\ NewPath \notin job[p].junk
<1>1. NewPath \in FreePaths
  BY DEF NewPath
<1> QED
  BY <1>1, PathAssumption DEF FreePaths
-----------------------------------------------------------------------------
(* The kinds of steps there are, and that each keeps StoreInv.             *)

\* A request goes on, begins or ends, and no row and no file is touched.
LEMMA JobMoves ==
  ASSUME StoreInv, NEW p \in Procs, NEW j \in Job, JobRight(j),
         j.new \in {NoPath, job[p].new},
         j.old \in {NoPath, job[p].old} \union FilesOf(Slots),
         job' = [job EXCEPT ![p] = j], faults' \in 0..MaxFaults,
         UNCHANGED <<db, disk, clock>>
  PROVE  StoreInv'
<1>0. /\ job'[p] = j /\ \A q \in Procs \ {p} : job'[q] = job[q]
      /\ job' \in [Procs -> Job]
  BY DEF StoreInv, TypeOK
<1>1. TypeOK'
  BY <1>0 DEF StoreInv, TypeOK, db
<1>2. JobsRight'
  BY <1>0 DEF StoreInv, JobsRight, JobRight
<1>3. FilesOf(Slots)' = FilesOf(Slots)
  BY DEF FilesOf, Slots, db
<1>4. PartialUnnamed'
  <2> SUFFICES ASSUME NEW f \in DOMAIN disk, disk[f] = Partial, NEW q \in Procs
               PROVE  f \notin FilesOf(Slots) /\ f # job'[q].old /\ f # job'[q].new
    BY <1>3 DEF PartialUnnamed
  <2>1. /\ f \notin FilesOf(Slots) /\ f # NoPath
        /\ \A r \in Procs : f # job[r].old /\ f # job[r].new
    BY PathAssumption DEF StoreInv, PartialUnnamed, TypeOK
  <2> QED
    BY <1>0, <2>1
<1>5. OwnFiles'
  BY <1>0, <1>3 DEF StoreInv, OwnFiles
<1>6. NoSharedFile'
  BY DEF StoreInv, NoSharedFile, Slots, db
<1> QED
  BY <1>1, <1>2, <1>4, <1>5, <1>6 DEF StoreInv

\* A file is written, as far as it gets, under a new name.
LEMMA FileWritten ==
  ASSUME StoreInv, FreePaths # {}, NEW p \in Procs, NEW j \in Job, JobRight(j),
         j.old \in {NoPath, job[p].old},
         NEW data \in Filed \union {Partial}, StoreFile(NewPath, data),
         j.new = NoPath \/ (j.new = NewPath /\ data \in Filed),
         job' = [job EXCEPT ![p] = j], faults' \in 0..MaxFaults,
         UNCHANGED <<db, clock>>
  PROVE  StoreInv'
<1>0. /\ job'[p] = j /\ \A q \in Procs \ {p} : job'[q] = job[q]
      /\ job' \in [Procs -> Job]
  BY DEF StoreInv, TypeOK
<1>00. /\ DOMAIN disk' = DOMAIN disk \union {NewPath}
       /\ disk'[NewPath] = data
       /\ \A f \in DOMAIN disk : f # NewPath => disk'[f] = disk[f]
  BY DEF StoreFile
<1>01. /\ NewPath \in Paths /\ NewPath # NoPath
       /\ NewPath \notin FilesOf(Slots)
       /\ \A q \in Procs : NewPath # job[q].old /\ NewPath # job[q].new
  BY NewPathFree DEF StoreInv
<1>1. TypeOK'
  <2>1. /\ DOMAIN disk' \subseteq Paths
        /\ \A f \in DOMAIN disk' : disk'[f] \in Filed \union {Partial}
    BY <1>00, <1>01 DEF StoreInv, TypeOK
  <2> QED
    BY <1>0, <2>1 DEF StoreInv, TypeOK, db
<1>2. JobsRight'
  BY <1>0 DEF StoreInv, JobsRight, JobRight
<1>3. FilesOf(Slots)' = FilesOf(Slots)
  BY DEF FilesOf, Slots, db
<1>4. PartialUnnamed'
  <2> SUFFICES ASSUME NEW f \in DOMAIN disk', disk'[f] = Partial, NEW q \in Procs
               PROVE  f \notin FilesOf(Slots) /\ f # job'[q].old /\ f # job'[q].new
    BY <1>3 DEF PartialUnnamed
  <2>1. CASE f = NewPath
    <3>1. j.new = NoPath
      BY <1>00, <2>1, DataAssumption DEF Filed
    <3> QED
      BY <1>0, <1>01, <2>1, <3>1
  <2>2. CASE f # NewPath
    <3>1. f \in DOMAIN disk /\ disk[f] = Partial /\ f # NoPath
      BY <1>00, <2>2, PathAssumption DEF StoreInv, TypeOK
    <3>2. f \notin FilesOf(Slots) /\ \A r \in Procs : f # job[r].old /\ f # job[r].new
      BY <3>1 DEF StoreInv, PartialUnnamed
    <3> QED
      BY <1>0, <2>2, <3>1, <3>2
  <2> QED
    BY <2>1, <2>2
<1>5. OwnFiles'
  BY <1>0, <1>01, <1>3 DEF StoreInv, OwnFiles
<1>6. NoSharedFile'
  BY DEF StoreInv, NoSharedFile, Slots, db
<1> QED
  BY <1>1, <1>2, <1>4, <1>5, <1>6 DEF StoreInv

\* A transaction writes one row: blank, or with the file of its request.
LEMMA RowWritten ==
  ASSUME StoreInv, NEW p \in Procs, NEW id \in Slots, NEW row \in Row,
         row.path \in {NoPath, job[p].new}, row.path # NoPath => row.used,
         rows' = [rows EXCEPT ![id] = row],
         NEW files \in SUBSET Paths, job' = [job EXCEPT ![p] = Removing(files)],
         nextId' \in Slots, made' \in 0..MaxMade,
         UNCHANGED <<maxItems, mixed, disk, clock, faults>>
  PROVE  StoreInv'
<1>0. /\ job'[p] = Removing(files) /\ \A q \in Procs \ {p} : job'[q] = job[q]
      /\ job' \in [Procs -> Job]
      /\ job'[p].old = NoPath /\ job'[p].new = NoPath /\ JobRight(job'[p])
  BY RestFacts DEF StoreInv, TypeOK
<1>00. /\ rows'[id] = row /\ \A i \in Slots : i # id => rows'[i] = rows[i]
       /\ rows' \in [1..maxItems -> Row]
       /\ Slots' = Slots /\ Slots = 1..maxItems
  BY SlotFacts DEF StoreInv, TypeOK, Slots
<1>01. \A f \in FilesOf(Slots)' : f # NoPath /\ (f \in FilesOf(Slots) \/ f = job[p].new)
  <2>1. \A i \in Slots : rows'[i].path = rows[i].path \/ rows'[i].path \in {NoPath, job[p].new}
    BY <1>00
  <2> QED
    BY <1>00, <2>1 DEF FilesOf
<1>1. TypeOK'
  BY <1>0, <1>00 DEF StoreInv, TypeOK
<1>2. JobsRight'
  BY <1>0 DEF StoreInv, JobsRight, JobRight
<1>4. PartialUnnamed'
  <2> SUFFICES ASSUME NEW f \in DOMAIN disk, disk[f] = Partial
               PROVE  /\ f \notin FilesOf(Slots)'
                      /\ \A q \in Procs : f # job'[q].old /\ f # job'[q].new
    BY DEF PartialUnnamed
  <2>1. /\ f \notin FilesOf(Slots) /\ f # NoPath
        /\ \A r \in Procs : f # job[r].old /\ f # job[r].new
    BY PathAssumption DEF StoreInv, PartialUnnamed, TypeOK
  <2> QED
    BY <1>0, <1>01, <2>1
<1>5. OwnFiles'
  BY <1>0, <1>01 DEF StoreInv, OwnFiles
<1>6. NoSharedFile'
  <2> SUFFICES ASSUME NEW i \in Slots, NEW k \in Slots, rows'[i].path # NoPath
               PROVE  rows'[i].used /\ (rows'[i].path = rows'[k].path => i = k)
    BY <1>00 DEF NoSharedFile
  <2>1. \A m \in Slots : /\ rows[m].path # NoPath => rows[m].used
                         /\ rows[m].path # NoPath => rows[m].path # job[p].new
    BY DEF StoreInv, NoSharedFile, OwnFiles, FilesOf
  <2>2. \A m, n \in Slots : rows[m].path # NoPath /\ rows[m].path = rows[n].path => m = n
    BY DEF StoreInv, NoSharedFile
  <2> QED
    BY <1>00, <2>1, <2>2
<1> QED
  BY <1>1, <1>2, <1>4, <1>5, <1>6 DEF StoreInv

\* Rows change places, are blanked or left out.
LEMMA RowsMoved ==
  ASSUME StoreInv, NEW p \in Procs, NEW j \in Job, JobRight(j),
         j.new \in {NoPath, job[p].new}, j.old \in {NoPath, job[p].old},
         job' = [job EXCEPT ![p] = j],
         maxItems' \in 1..MaxSlots, nextId' \in 1..maxItems', mixed' \in BOOLEAN,
         rows' \in [1..maxItems' -> Row],
         \A q \in 1..maxItems' : rows'[q] = BlankRow \/ \E i \in Slots : rows'[q] = rows[i],
         \A q, r \in 1..maxItems' :
            rows'[q].path # NoPath /\ rows'[q].path = rows'[r].path => q = r,
         UNCHANGED <<made, disk, clock, faults>>
  PROVE  StoreInv'
<1>0. /\ job'[p] = j /\ \A q \in Procs \ {p} : job'[q] = job[q]
      /\ job' \in [Procs -> Job]
  BY DEF StoreInv, TypeOK
<1>00. Slots' = 1..maxItems'
  BY DEF Slots
<1>01. \A f \in FilesOf(Slots)' : f # NoPath /\ f \in FilesOf(Slots)
  BY <1>00, BlankFacts DEF FilesOf
<1>1. TypeOK'
  BY <1>0 DEF StoreInv, TypeOK
<1>2. JobsRight'
  BY <1>0 DEF StoreInv, JobsRight, JobRight
<1>4. PartialUnnamed'
  <2> SUFFICES ASSUME NEW f \in DOMAIN disk, disk[f] = Partial
               PROVE  /\ f \notin FilesOf(Slots)'
                      /\ \A q \in Procs : f # job'[q].old /\ f # job'[q].new
    BY DEF PartialUnnamed
  <2>1. /\ f \notin FilesOf(Slots) /\ f # NoPath
        /\ \A r \in Procs : f # job[r].old /\ f # job[r].new
    BY PathAssumption DEF StoreInv, PartialUnnamed, TypeOK
  <2> QED
    BY <1>0, <1>01, <2>1
<1>5. OwnFiles'
  BY <1>0, <1>01 DEF StoreInv, OwnFiles
<1>6. NoSharedFile'
  <2> SUFFICES ASSUME NEW q \in 1..maxItems', rows'[q].path # NoPath
               PROVE  rows'[q].used
    BY <1>00 DEF NoSharedFile
  <2>1. PICK i \in Slots : rows'[q] = rows[i]
    BY BlankFacts
  <2> QED
    BY <2>1 DEF StoreInv, NoSharedFile
<1> QED
  BY <1>1, <1>2, <1>4, <1>5, <1>6 DEF StoreInv

-----------------------------------------------------------------------------
(* Resequencing and forced shrinking.                                      *)

LEMMA SurplusType ==
  ASSUME TypeOK, NEW n \in Nat
  PROVE  /\ Cardinality(Used) \in Nat /\ IsFiniteSet(Used)
         /\ Surplus(n) \in Nat
<1>1. IsFiniteSet(1..maxItems)
  BY SlotFacts, FS_Interval
<1>2. IsFiniteSet(Used)
  BY <1>1, SlotFacts, FS_Subset
<1>3. Cardinality(Used) \in Nat
  BY <1>2, FS_CardinalityType
<1> QED
  BY <1>2, <1>3 DEF Surplus

\* The slot the row at position q comes from.
Source(q, drop) == CHOOSE i \in Used : Rank(i) = q + drop

\* A compaction holds blank rows and rows of the slots of the right rank.
LEMMA CompactedRows ==
  ASSUME TypeOK, NEW n \in Nat, NEW drop \in Nat, NEW q \in 1..n
  PROVE  \/ Compacted(n, drop)[q] = BlankRow
         \/ /\ Source(q, drop) \in Used
            /\ Rank(Source(q, drop)) = q + drop
            /\ Compacted(n, drop)[q] = rows[Source(q, drop)]
<1>1. CASE \E i \in Used : Rank(i) = q + drop
  <2>1. Source(q, drop) \in Used /\ Rank(Source(q, drop)) = q + drop
    BY <1>1 DEF Source
  <2> QED
    BY <1>1, <2>1 DEF Compacted, Source
<1>2. CASE ~\E i \in Used : Rank(i) = q + drop
  BY <1>2 DEF Compacted
<1> QED
  BY <1>1, <1>2

\* It is made of rows there were, and copies no file.
LEMMA CompactedMoved ==
  ASSUME StoreInv, NEW n \in Nat, NEW drop \in Nat
  PROVE  /\ Compacted(n, drop) \in [1..n -> Row]
         /\ \A q \in 1..n : \/ Compacted(n, drop)[q] = BlankRow
                            \/ \E i \in Slots : Compacted(n, drop)[q] = rows[i]
         /\ \A q, r \in 1..n :
              Compacted(n, drop)[q].path # NoPath
                /\ Compacted(n, drop)[q].path = Compacted(n, drop)[r].path => q = r
<1>0. TypeOK /\ Used \subseteq Slots
  BY DEF StoreInv, Used
<1>1. \A q \in 1..n : \/ Compacted(n, drop)[q] = BlankRow
                      \/ \E i \in Slots : Compacted(n, drop)[q] = rows[i]
  BY <1>0, CompactedRows
<1>2. \A q \in 1..n : Compacted(n, drop)[q] \in Row
  BY <1>0, <1>1, BlankFacts, RowFacts
<1>3. Compacted(n, drop) = [q \in 1..n |-> Compacted(n, drop)[q]]
  BY DEF Compacted
<1>4. ASSUME NEW q \in 1..n, NEW r \in 1..n, Compacted(n, drop)[q].path # NoPath,
             Compacted(n, drop)[q].path = Compacted(n, drop)[r].path
      PROVE  q = r
  <2>1. /\ Source(q, drop) \in Used /\ Rank(Source(q, drop)) = q + drop
        /\ Compacted(n, drop)[q] = rows[Source(q, drop)]
        /\ Source(r, drop) \in Used /\ Rank(Source(r, drop)) = r + drop
        /\ Compacted(n, drop)[r] = rows[Source(r, drop)]
    BY <1>0, <1>4, CompactedRows, BlankFacts
  <2>2. Source(q, drop) = Source(r, drop)
    <3>1. \A i, k \in Slots : rows[i].path # NoPath /\ rows[i].path = rows[k].path => i = k
      BY DEF StoreInv, NoSharedFile
    <3>2. Source(q, drop) \in Slots /\ Source(r, drop) \in Slots
      BY <2>1 DEF Used
    <3> HIDE DEF Source
    <3> QED
      BY <1>4, <2>1, <3>1, <3>2
  <2>3. q + drop = r + drop
    BY <2>1, <2>2, Zenon
  <2> QED
    BY <2>3
<1> QED
  BY <1>1, <1>2, <1>3, <1>4

-----------------------------------------------------------------------------
(* The steps, one by one.                                                  *)

LEMMA BeginStep ==
  ASSUME StoreInv, NEW p \in Procs, BeginRequest(p)
  PROVE  StoreInv'
<1>0. TypeOK /\ job[p] \in Job /\ faults \in 0..MaxFaults
  BY DEF StoreInv, TypeOK
<1>00. Slots = 1..maxItems /\ Slots \subseteq 0..MaxSlots /\ nextId \in Slots
  BY <1>0, SlotFacts, SlotsRange
<1>01. \A j : Begin(p, j) =>
         job' = [job EXCEPT ![p] = j] /\ UNCHANGED <<db, disk, clock, faults>>
  BY Zenon DEF Begin
<1> USE SlotsAssumption, RestFacts
<1>1. ASSUME NEW kind \in Kinds, NEW data \in Data, BeginInsert(p, kind, data)
      PROVE  StoreInv'
  <2> DEFINE j == [Idle EXCEPT !.pc = "oldpath", !.op = "insert", !.id = nextId,
                               !.kind = kind, !.data = data]
  <2>1. j \in Job /\ JobRight(j) /\ j.new = NoPath /\ j.old = NoPath
    <3>1. j \in Job
      BY <1>00 DEF Job, Filed
    <3>2. JobRight(j) /\ j.new = NoPath /\ j.old = NoPath
      BY DEF JobRight, Busy, Filed
    <3> QED
      BY <3>1, <3>2, Zenon
  <2>2. Begin(p, j)
    BY <1>1, Zenon DEF BeginInsert
  <2> HIDE DEF j
  <2>3. job' = [job EXCEPT ![p] = j] /\ UNCHANGED <<db, disk, clock, faults>>
    BY <1>01, <2>2, Zenon
  <2> QED
    BY <1>0, <2>1, <2>3, JobMoves
<1>2. ASSUME NEW id \in Slots, NEW kind \in Kinds, NEW data \in Data,
             BeginReplace(p, id, kind, data)
      PROVE  StoreInv'
  <2> DEFINE j == [Idle EXCEPT !.pc = "load", !.op = "update", !.id = id,
                               !.kind = kind, !.data = data]
  <2>1. j \in Job /\ JobRight(j) /\ j.new = NoPath /\ j.old = NoPath
    <3>1. j \in Job
      BY <1>00 DEF Job, Filed
    <3>2. JobRight(j) /\ j.new = NoPath /\ j.old = NoPath
      BY DEF JobRight, Busy, Filed
    <3> QED
      BY <3>1, <3>2, Zenon
  <2>2. Begin(p, j)
    BY <1>2, Zenon DEF BeginReplace
  <2> HIDE DEF j
  <2>3. job' = [job EXCEPT ![p] = j] /\ UNCHANGED <<db, disk, clock, faults>>
    BY <1>01, <2>2, Zenon
  <2> QED
    BY <1>0, <2>1, <2>3, JobMoves
<1>3. ASSUME NEW id \in Slots, NEW data \in Data,
             BeginPatchText(p, id, data) \/ BeginPatchFile(p, id, data)
      PROVE  StoreInv'
  BY <1>2, <1>3 DEF BeginPatchText, BeginPatchFile, Kinds
<1>4. ASSUME NEW id \in Slots, BeginRename(p, id)
      PROVE  StoreInv'
  <2> DEFINE j == [Idle EXCEPT !.pc = "blob", !.op = "update", !.id = id,
                               !.kind = "file", !.old = rows[id].path]
  <2>1. rows[id].path # NoPath /\ rows[id].path \in FilesOf(Slots) /\ rows[id].path \in Paths
    BY <1>0, <1>4, RowFacts DEF BeginRename
  <2>2. j \in Job /\ JobRight(j) /\ j.new = NoPath /\ j.old \in FilesOf(Slots)
    <3>1. j \in Job
      BY <1>00, <2>1 DEF Job, Kinds
    <3>2. JobRight(j) /\ j.new = NoPath
      BY <2>1 DEF JobRight, Busy, Kinds
    <3>3. j.old \in FilesOf(Slots)
      BY <2>1
    <3> QED
      BY <3>1, <3>2, <3>3, Zenon
  <2>3. Begin(p, j)
    BY <1>4, Zenon DEF BeginRename
  <2> HIDE DEF j
  <2>4. job' = [job EXCEPT ![p] = j] /\ UNCHANGED <<db, disk, clock, faults>>
    BY <1>01, <2>3, Zenon
  <2> QED
    BY <1>0, <2>2, <2>4, JobMoves
<1>5. ASSUME NEW id \in Slots, NEW pc \in {"load", "check"},
             Begin(p, [Idle EXCEPT !.pc = pc, !.op = "delete", !.id = id])
      PROVE  StoreInv'
  <2> DEFINE j == [Idle EXCEPT !.pc = pc, !.op = "delete", !.id = id]
  <2>1. j \in Job /\ JobRight(j) /\ j.new = NoPath /\ j.old = NoPath
    <3>1. j \in Job
      BY <1>00 DEF Job
    <3>2. JobRight(j) /\ j.new = NoPath /\ j.old = NoPath
      BY DEF JobRight, Busy
    <3> QED
      BY <3>1, <3>2, Zenon
  <2>2. job' = [job EXCEPT ![p] = j] /\ UNCHANGED <<db, disk, clock, faults>>
    BY <1>5 DEF Begin
  <2> QED
    BY <1>0, <2>1, <2>2, JobMoves
<1>6. PrevSlot \in Slots
  BY <1>0, <1>00, SlotFacts DEF PrevSlot
<1> QED
  BY <1>1, <1>2, <1>3, <1>4, <1>5, <1>6 DEF BeginRequest, BeginDelete, BeginDeleteLatest

\* Reading a row or a file, or giving up, moves only the request.
LEMMA ReadStep ==
  ASSUME StoreInv, NEW p \in Procs,
         \/ ReadOldPath(p) \/ CheckLatest(p) \/ ReadBlob(p) \/ LoadEntry(p)
         \/ Refuse(p) \/ TxnFails(p) \/ Stop(p)
  PROVE  StoreInv'
<1>0. TypeOK /\ job[p] \in Job /\ JobRight(job[p]) /\ faults \in 0..MaxFaults
  BY DEF StoreInv, TypeOK, JobsRight
<1> DEFINE Moves(j) == /\ j \in Job /\ JobRight(j) /\ j.new = NoPath
                       /\ j.old \in {NoPath, job[p].old} \union FilesOf(Slots)
                       /\ job' = [job EXCEPT ![p] = j]
                       /\ UNCHANGED <<db, disk, clock>>
<1>1. ASSUME NEW j \in Job, Moves(j), faults' = faults \/ (faults < MaxFaults /\ faults' = faults + 1)
      PROVE  StoreInv'
  <2>1. faults' \in 0..MaxFaults
    BY <1>0, <1>1, TimeAssumption
  <2> QED
    BY <1>1, <2>1, JobMoves
<1>2. CASE ReadOldPath(p)
  <2>0. /\ job[p].pc = "oldpath" /\ job[p].op = "insert"
        /\ AfterRead(job[p]) = IF job[p].kind = "file" THEN "write" ELSE "txn"
    BY <1>0, <1>2 DEF ReadOldPath, Step, JobRight, AfterRead
  <2>1. ASSUME NEW old \in {NoPath} \union FilesOf(Slots)
        PROVE  LET j == [job[p] EXCEPT !.pc = AfterRead(job[p]), !.old = old]
               IN  j \in Job /\ JobRight(j) /\ j.new = NoPath /\ j.old = old
    BY <1>0, <2>0, SlotFacts DEF Job, JobRight, Busy, Kinds
  <2>2. LET j == [job[p] EXCEPT !.pc = AfterRead(job[p])]
        IN  j \in Job /\ JobRight(j) /\ j.new = NoPath /\ j.old = job[p].old
    BY <1>0, <2>0 DEF Job, JobRight, Busy, Kinds
  <2>3. (IF job[p].id \in Slots THEN rows[job[p].id].path ELSE NoPath)
          \in {NoPath} \union FilesOf(Slots)
    BY <1>0, RowFacts
  <2> QED
    BY <1>1, <1>2, <2>1, <2>2, <2>3 DEF ReadOldPath, Step
<1>3. CASE CheckLatest(p)
  <2> DEFINE j == [job[p] EXCEPT !.pc = "load"]
  <2>1. job[p].pc = "check" /\ job' = [job EXCEPT ![p] = j] /\ UNCHANGED <<db, disk, clock, faults>>
    BY <1>3 DEF CheckLatest, Step
  <2>2. j \in Job /\ JobRight(j) /\ j.new = NoPath /\ j.old = job[p].old
    BY <1>0, <2>1 DEF Job, JobRight, Busy
  <2> QED
    BY <1>1, <2>1, <2>2
<1>4. CASE ReadBlob(p)
  <2> DEFINE j(data) == [job[p] EXCEPT !.pc = "load", !.data = data, !.old = NoPath]
  <2>1. /\ job[p].pc = "blob" /\ job[p].old \in DOMAIN disk
        /\ faults' = faults \/ (faults < MaxFaults /\ faults' = faults + 1)
        /\ UNCHANGED <<db, disk, clock>>
    BY <1>4 DEF ReadBlob, Step
  <2>2. disk[job[p].old] \in Filed
    BY <2>1 DEF StoreInv, TypeOK, PartialUnnamed
  <2>3. PICK data \in Filed : job' = [job EXCEPT ![p] = j(data)]
    BY <1>4, <2>2 DEF ReadBlob, Step, Filed
  <2>4. j(data) \in Job /\ JobRight(j(data)) /\ j(data).new = NoPath /\ j(data).old = NoPath
    BY <1>0, <2>1 DEF Job, JobRight, Busy
  <2> QED
    BY <1>1, <2>1, <2>3, <2>4
<1>5. CASE LoadEntry(p)
  <2> DEFINE j == [job[p] EXCEPT !.pc = AfterRead(job[p]), !.old = rows[job[p].id].path]
  <2>1. /\ job[p].pc = "load" /\ job[p].id \in Slots
        /\ job' = [job EXCEPT ![p] = j] /\ UNCHANGED <<db, disk, clock, faults>>
    BY <1>5 DEF LoadEntry, Step
  <2>2. rows[job[p].id].path \in {NoPath} \union FilesOf(Slots)
    BY <1>0, <2>1, RowFacts
  <2>3. j \in Job /\ JobRight(j) /\ j.new = NoPath /\ j.old \in {NoPath} \union FilesOf(Slots)
    BY <1>0, <2>1, <2>2, SlotFacts DEF Job, JobRight, Busy, Kinds, AfterRead
  <2> QED
    BY <1>1, <2>1, <2>3
<1>6. CASE Refuse(p) \/ Stop(p)
  <2>1. \E j \in {Idle, Down} : job' = [job EXCEPT ![p] = j] /\ UNCHANGED <<db, disk, clock, faults>>
    BY <1>6 DEF Refuse, Stop, Step
  <2> QED
    BY <1>1, <2>1, RestFacts
<1>7. CASE TxnFails(p)
  <2>1. Discarded(job[p]) \in SUBSET Paths
    BY <1>0 DEF Discarded, Job
  <2> QED
    BY <1>1, <1>7, <2>1, RestFacts DEF TxnFails, Step
<1> QED
  BY <1>2, <1>3, <1>4, <1>5, <1>6, <1>7

LEMMA WriteStep ==
  ASSUME StoreInv, NEW p \in Procs, WriteFile(p) \/ WriteFails(p) \/ Crash(p)
  PROVE  StoreInv'
<1>0. TypeOK /\ job[p] \in Job /\ JobRight(job[p]) /\ faults \in 0..MaxFaults
  BY DEF StoreInv, TypeOK, JobsRight
<1>1. faults < MaxFaults => faults + 1 \in 0..MaxFaults
  BY <1>0, TimeAssumption
<1>2. CASE WriteFile(p)
  <2> DEFINE j == [job[p] EXCEPT !.pc = "txn", !.new = NewPath]
  <2>1. /\ job[p].pc = "write" /\ FreePaths # {} /\ job' = [job EXCEPT ![p] = j]
        /\ UNCHANGED <<db, clock>> /\ faults' \in 0..MaxFaults
    BY <1>0, <1>1, <1>2 DEF WriteFile, Step
  <2>2. NewPath \in Paths /\ NewPath # NoPath
    BY <1>0, <2>1, NewPathFree
  <2>3. PICK data \in Filed : StoreFile(NewPath, data)
    BY <1>0, <1>2, <2>1 DEF WriteFile, JobRight, Filed
  <2>4. j \in Job /\ JobRight(j) /\ j.new = NewPath /\ j.old = job[p].old
    BY <1>0, <2>1, <2>2 DEF Job, JobRight, Busy
  <2> QED
    BY <1>0, <2>1, <2>3, <2>4, FileWritten
<1>3. CASE WriteFails(p) \/ Crash(p)
  <2>1. PICK j \in {Idle, Down} :
          /\ job' = [job EXCEPT ![p] = j] /\ UNCHANGED <<db, clock>>
          /\ faults' = faults \/ (faults < MaxFaults /\ faults' = faults + 1)
          /\ \/ UNCHANGED disk
             \/ FreePaths # {} /\ StoreFile(NewPath, Partial)
    BY <1>3 DEF WriteFails, Crash, Step
  <2>2. faults' \in 0..MaxFaults
    BY <1>0, <1>1, <2>1
  <2>3. CASE UNCHANGED disk
    BY <2>1, <2>2, <2>3, RestFacts, JobMoves
  <2>4. CASE FreePaths # {} /\ StoreFile(NewPath, Partial)
    BY <2>1, <2>2, <2>4, RestFacts, FileWritten
  <2> QED
    BY <2>1, <2>3, <2>4
<1> QED
  BY <1>2, <1>3

\* The row a create or an update writes.
LEMMA RowOfFacts ==
  ASSUME StoreInv, NEW p \in Procs, job[p].pc = "txn", job[p].op \in {"insert", "update"},
         NEW stored \in 0..MaxClock, NEW seq \in 0..MaxMade
  PROVE  LET row == RowOf(job[p], stored, seq)
         IN  row \in Row /\ row.used /\ row.path = job[p].new
<1>1. job[p] \in Job /\ JobRight(job[p])
  BY DEF StoreInv, TypeOK, JobsRight
<1> QED
  BY <1>1 DEF RowOf, Row, Job, JobRight

LEMMA CommitStep ==
  ASSUME StoreInv, NEW p \in Procs, CommitInsert(p) \/ CommitUpdate(p) \/ CommitDelete(p)
  PROVE  StoreInv'
<1>0. TypeOK /\ job[p] \in Job
  BY DEF StoreInv, TypeOK
<1>1. /\ job[p].pc = "txn" /\ job[p].id \in Slots
      /\ job' = [job EXCEPT ![p] = Removing(Leftover(job[p]))]
      /\ UNCHANGED <<maxItems, mixed, disk, clock, faults>>
  BY DEF CommitInsert, CommitUpdate, CommitDelete, Step
<1>2. Leftover(job[p]) \in SUBSET Paths
  BY <1>0 DEF Leftover, Job
<1>3. clock \in 0..MaxClock /\ made \in 0..MaxMade /\ nextId \in Slots
  BY <1>0, SlotFacts DEF TypeOK
<1>4. CASE CommitInsert(p)
  <2>1. /\ job[p].op = "insert" /\ made < MaxMade /\ made' = made + 1
        /\ rows' = [rows EXCEPT ![job[p].id] = RowOf(job[p], clock, made + 1)]
        /\ nextId' = NextSlot
    BY <1>4 DEF CommitInsert
  <2>2. made + 1 \in 0..MaxMade
    BY <1>3, <2>1, TimeAssumption
  <2>3. NextSlot \in Slots
    BY <1>0, <1>3, SlotFacts DEF NextSlot
  <2> QED
    BY <1>1, <1>2, <1>3, <2>1, <2>2, <2>3, RowOfFacts, RowWritten
<1>5. CASE CommitUpdate(p)
  <2>1. /\ job[p].op = "update" /\ nextId' = nextId /\ made' = made
        /\ rows' = [rows EXCEPT ![job[p].id] =
                      RowOf(job[p], rows[job[p].id].stored, rows[job[p].id].seq)]
    BY <1>5 DEF CommitUpdate
  <2> QED
    BY <1>0, <1>1, <1>2, <1>3, <2>1, RowFacts, RowOfFacts, RowWritten
<1>6. CASE CommitDelete(p)
  <2>1. rows' = [rows EXCEPT ![job[p].id] = BlankRow] /\ nextId' = nextId /\ made' = made
    BY <1>6 DEF CommitDelete
  <2> QED
    BY <1>1, <1>2, <1>3, <2>1, BlankFacts, RowWritten
<1> QED
  BY <1>4, <1>5, <1>6

LEMMA RemoveStep ==
  ASSUME StoreInv, NEW p \in Procs, Remove(p)
  PROVE  StoreInv'
<1>0. TypeOK /\ faults \in 0..MaxFaults
  BY DEF StoreInv, TypeOK
<1>1. job' = [job EXCEPT ![p] = Idle] /\ UNCHANGED <<db, clock>>
  BY DEF Remove, Step
<1>2. CASE UNCHANGED disk
  <2>1. faults' \in 0..MaxFaults
    BY <1>0, TimeAssumption DEF Remove
  <2> QED
    BY <1>1, <1>2, <2>1, RestFacts, JobMoves
<1>3. CASE RemoveFiles(job[p].junk) /\ UNCHANGED faults
  <2>0. /\ job'[p] = Idle /\ \A q \in Procs \ {p} : job'[q] = job[q]
        /\ job' \in [Procs -> Job]
    BY <1>1, RestFacts DEF StoreInv, TypeOK
  <2>1. /\ DOMAIN disk' \subseteq DOMAIN disk
        /\ \A f \in DOMAIN disk' : disk'[f] = disk[f]
    BY <1>3 DEF RemoveFiles
  <2>2. TypeOK'
    BY <1>1, <1>3, <2>0, <2>1 DEF StoreInv, TypeOK, db
  <2>3. JobsRight'
    BY <2>0, RestFacts DEF StoreInv, JobsRight, JobRight
  <2>4. FilesOf(Slots)' = FilesOf(Slots)
    BY <1>1 DEF FilesOf, Slots, db
  <2>5. PartialUnnamed'
    <3> SUFFICES ASSUME NEW f \in DOMAIN disk', disk'[f] = Partial, NEW q \in Procs
                 PROVE  f \notin FilesOf(Slots) /\ f # job'[q].old /\ f # job'[q].new
      BY <2>4 DEF PartialUnnamed
    <3>1. /\ f \notin FilesOf(Slots) /\ f # NoPath
          /\ \A r \in Procs : f # job[r].old /\ f # job[r].new
      BY <2>1, PathAssumption DEF StoreInv, PartialUnnamed, TypeOK
    <3> QED
      BY <2>0, <3>1, RestFacts
  <2>6. OwnFiles'
    BY <2>0, <2>4, RestFacts DEF StoreInv, OwnFiles
  <2>7. NoSharedFile'
    BY <1>1 DEF StoreInv, NoSharedFile, Slots, db
  <2> QED
    BY <2>2, <2>3, <2>5, <2>6, <2>7 DEF StoreInv
<1> QED
  BY <1>2, <1>3 DEF Remove

LEMMA SwapStep ==
  ASSUME StoreInv, NEW p \in Procs, NEW i \in Slots, NEW k \in Slots, Swap(p, i, k)
  PROVE  StoreInv'
<1>0. TypeOK /\ job[p] \in Job /\ JobRight(job[p]) /\ job' = [job EXCEPT ![p] = job[p]]
  BY DEF StoreInv, TypeOK, JobsRight, Swap
<1>1. /\ Slots = 1..maxItems /\ maxItems' = maxItems
      /\ \A q \in Slots : rows'[q] = IF q = k THEN rows[i] ELSE IF q = i THEN rows[k] ELSE rows[q]
      /\ rows' \in [1..maxItems' -> Row]
  BY <1>0, SlotFacts, RowFacts DEF Swap, TypeOK
<1>2. \A q, r \in Slots : rows'[q].path # NoPath /\ rows'[q].path = rows'[r].path => q = r
  BY <1>1 DEF StoreInv, NoSharedFile
<1>3. /\ maxItems' \in 1..MaxSlots /\ nextId' \in 1..maxItems' /\ mixed' \in BOOLEAN
      /\ UNCHANGED <<made, disk, clock, faults>>
  BY <1>0 DEF Swap, TypeOK
<1> QED
  BY <1>0, <1>1, <1>2, <1>3, RowsMoved

LEMMA ResequenceStep ==
  ASSUME StoreInv, NEW p \in Procs, Resequence(p)
  PROVE  StoreInv'
<1>0. TypeOK /\ job[p] \in Job /\ JobRight(job[p]) /\ job' = [job EXCEPT ![p] = job[p]]
  BY DEF StoreInv, TypeOK, JobsRight, Resequence
<1>1. /\ rows' = Compacted(maxItems, 0) /\ maxItems' = maxItems /\ maxItems \in Nat \ {0}
      /\ nextId' = IF Cardinality(Used) >= maxItems THEN 1 ELSE Cardinality(Used) + 1
      /\ mixed' = FALSE /\ UNCHANGED <<made, disk, clock, faults>>
  BY <1>0, SlotFacts DEF Resequence
<1>2. nextId' \in 1..maxItems' /\ maxItems' \in 1..MaxSlots
  <2>1. Cardinality(Used) \in Nat
    BY <1>0, <1>1, SurplusType
  <2> QED
    BY <1>0, <1>1, <2>1 DEF TypeOK
<1>3. /\ rows' \in [1..maxItems' -> Row]
      /\ \A q \in 1..maxItems' : rows'[q] = BlankRow \/ \E i \in Slots : rows'[q] = rows[i]
      /\ \A q, r \in 1..maxItems' :
           rows'[q].path # NoPath /\ rows'[q].path = rows'[r].path => q = r
  <2> DEFINE new == Compacted(maxItems, 0)
  <2>1. /\ new \in [1..maxItems -> Row]
        /\ \A q \in 1..maxItems : new[q] = BlankRow \/ \E i \in Slots : new[q] = rows[i]
        /\ \A q, r \in 1..maxItems : new[q].path # NoPath /\ new[q].path = new[r].path => q = r
    <3>1. maxItems \in Nat /\ 0 \in Nat
      BY <1>1
    <3> QED
      BY <3>1, CompactedMoved
  <2> HIDE DEF new
  <2>2. rows' = new /\ maxItems' = maxItems
    BY <1>1 DEF new
  <2> QED
    BY <2>1, <2>2
<1>4. mixed' \in BOOLEAN
  BY <1>1, Zenon
<1> QED
  BY <1>0, <1>1, <1>2, <1>3, <1>4, RowsMoved

LEMMA StartStep ==
  ASSUME StoreInv, NEW p \in Procs, StartUp(p)
  PROVE  StoreInv'
<1>0. TypeOK /\ Slots = 1..maxItems /\ maxItems \in Nat \ {0} /\ nextId \in Slots
  BY SlotFacts DEF StoreInv
<1>1. /\ rows \in [1..maxItems -> Row] /\ maxItems \in 1..MaxSlots /\ mixed \in BOOLEAN
      /\ \A q, r \in 1..maxItems : rows[q].path # NoPath /\ rows[q].path = rows[r].path => q = r
  BY <1>0 DEF TypeOK, StoreInv, NoSharedFile
<1>2. ASSUME NEW files \in SUBSET Paths, Restart(p, files),
             maxItems' \in 1..MaxSlots, nextId' \in 1..maxItems', mixed' \in BOOLEAN,
             rows' \in [1..maxItems' -> Row],
             \A q \in 1..maxItems' : rows'[q] = BlankRow \/ \E i \in Slots : rows'[q] = rows[i],
             \A q, r \in 1..maxItems' :
               rows'[q].path # NoPath /\ rows'[q].path = rows'[r].path => q = r
      PROVE  StoreInv'
  <2>1. job' = [job EXCEPT ![p] = Removing(files)] /\ UNCHANGED <<made, disk, clock, faults>>
    BY <1>2 DEF Restart, Step
  <2>2. Removing(files) \in Job /\ JobRight(Removing(files))
        /\ Removing(files).old = NoPath /\ Removing(files).new = NoPath
    BY RestFacts
  <2> QED
    BY <1>2, <2>1, <2>2, RowsMoved
<1>3. CASE StartSame(p)
  BY <1>0, <1>1, <1>2, <1>3 DEF StartSame
<1>4. ASSUME NEW n \in 1..MaxSlots, StartLarger(p, n)
      PROVE  StoreInv'
  <2>1. /\ Restart(p, {}) /\ maxItems' = n /\ n > maxItems /\ n \in Nat
        /\ nextId' = nextId /\ mixed' = mixed
        /\ rows' = [i \in 1..n |-> IF i <= maxItems THEN rows[i] ELSE BlankRow]
    BY <1>4 DEF StartLarger
  <2>2. /\ rows' \in [1..n -> Row]
        /\ \A q \in 1..n : \/ rows'[q] = BlankRow
                           \/ q \in 1..maxItems /\ rows'[q] = rows[q]
    BY <1>0, <1>1, <2>1, BlankFacts
  <2>3. \A q, r \in 1..n : rows'[q].path # NoPath /\ rows'[q].path = rows'[r].path => q = r
    BY <1>1, <2>2, BlankFacts
  <2> QED
    BY <1>0, <1>1, <1>2, <2>1, <2>2, <2>3
<1>5. ASSUME NEW n \in 1..MaxSlots, StartSmaller(p, n)
      PROVE  StoreInv'
  <2>1. /\ Restart(p, {}) /\ maxItems' = n /\ n < maxItems /\ n \in Nat /\ 1 \in 1..n
        /\ nextId' = IF nextId > n THEN 1 ELSE nextId
        /\ mixed' = mixed
        /\ rows' = [i \in 1..n |-> rows[i]]
    BY <1>5 DEF StartSmaller
  <2>2. /\ rows' \in [1..n -> Row]
        /\ \A q \in 1..n : q \in 1..maxItems /\ rows'[q] = rows[q]
    BY <1>0, <1>1, <2>1
  <2>3. nextId' \in 1..n
    BY <1>0, <2>1
  <2> QED
    BY <1>0, <1>1, <1>2, <2>1, <2>2, <2>3
<1>6. ASSUME NEW n \in 1..MaxSlots, StartForced(p, n)
      PROVE  StoreInv'
  <2> DEFINE files == FilesOf({i \in Used : Rank(i) <= Surplus(n)})
  <2>1. /\ Restart(p, files) /\ maxItems' = n /\ n \in Nat /\ 1 \in 1..n
        /\ nextId' = 1 /\ mixed' = FALSE
        /\ rows' = Compacted(n, Surplus(n))
    BY <1>6 DEF StartForced
  <2>2. Surplus(n) \in Nat
    BY <1>0, <2>1, SurplusType
  <2>3. files \in SUBSET Paths
    BY <1>0, SlotFacts, RowFacts DEF FilesOf, Used
  <2> HIDE DEF files
  <2>4. /\ rows' \in [1..maxItems' -> Row]
        /\ \A q \in 1..maxItems' : rows'[q] = BlankRow \/ \E i \in Slots : rows'[q] = rows[i]
        /\ \A q, r \in 1..maxItems' :
             rows'[q].path # NoPath /\ rows'[q].path = rows'[r].path => q = r
    <3> DEFINE new == Compacted(n, Surplus(n))
    <3>1. /\ new \in [1..n -> Row]
          /\ \A q \in 1..n : new[q] = BlankRow \/ \E i \in Slots : new[q] = rows[i]
          /\ \A q, r \in 1..n : new[q].path # NoPath /\ new[q].path = new[r].path => q = r
      BY <2>1, <2>2, CompactedMoved
    <3> HIDE DEF new
    <3>2. rows' = new /\ maxItems' = n
      BY <2>1 DEF new
    <3> QED
      BY <3>1, <3>2
  <2>5. mixed' \in BOOLEAN
    BY <2>1, Zenon
  <2> QED
    BY <1>2, <2>1, <2>3, <2>4, <2>5
<1> QED
  BY <1>3, <1>4, <1>5, <1>6 DEF StartUp

LEMMA TickStep ==
  ASSUME StoreInv, Tick \/ UNCHANGED vars
  PROVE  StoreInv'
<1>1. UNCHANGED <<rows, maxItems, nextId, disk, job, made, mixed, faults>>
  BY DEF Tick, vars, db
<1>2. clock' \in 0..MaxClock
  BY TimeAssumption DEF Tick, vars, StoreInv, TypeOK
<1>3. TypeOK'
  BY <1>1, <1>2 DEF StoreInv, TypeOK
<1> QED
  BY <1>1, <1>3 DEF StoreInv, JobsRight, PartialUnnamed, OwnFiles, NoSharedFile, FilesOf, Slots

LEMMA StoreInvHolds == Spec => []StoreInv
<1>1. Init => StoreInv
  <2> SUFFICES ASSUME Init PROVE StoreInv
    OBVIOUS
  <2>1. TypeOK
    <3>1. mixed \in BOOLEAN
      BY Zenon DEF Init
    <3>2. DOMAIN disk = {}
      BY DEF Init
    <3>3. /\ maxItems \in 1..MaxSlots /\ nextId \in 1..maxItems
          /\ clock \in 0..MaxClock /\ made \in 0..MaxMade /\ faults \in 0..MaxFaults
      BY SlotsAssumption, TimeAssumption DEF Init
    <3>4. rows \in [1..maxItems -> Row] /\ job \in [Procs -> Job]
      BY BlankFacts, RestFacts DEF Init
    <3> QED
      BY <3>1, <3>2, <3>3, <3>4 DEF TypeOK
  <2>2. Slots = 1..maxItems /\ FilesOf(Slots) = {}
    BY BlankFacts DEF Init, Slots, FilesOf
  <2>3. \A p \in Procs : job[p] = Idle
    BY DEF Init
  <2> QED
    BY <2>1, <2>2, <2>3, RestFacts, BlankFacts
    DEF Init, StoreInv, JobsRight, PartialUnnamed, OwnFiles, NoSharedFile
<1>2. StoreInv /\ [Next]_vars => StoreInv'
  <2> SUFFICES ASSUME StoreInv, [Next]_vars PROVE StoreInv'
    OBVIOUS
  <2>1. ASSUME NEW p \in Procs, Continue(p) PROVE StoreInv'
    BY <2>1, ReadStep, WriteStep, CommitStep, RemoveStep DEF Continue
  <2>2. ASSUME NEW p \in Procs,
               \/ BeginRequest(p) \/ Continue(p)
               \/ \E i, k \in Slots : Swap(p, i, k)
               \/ Resequence(p)
               \/ StartUp(p) \/ Crash(p) \/ Stop(p)
        PROVE  StoreInv'
    BY <2>1, <2>2, BeginStep, SwapStep, ResequenceStep, StartStep, WriteStep, ReadStep
  <2> QED
    BY <2>2, TickStep DEF Next
<1> QED
  BY <1>1, <1>2, PTL DEF Spec

-----------------------------------------------------------------------------
\* Rows, files and requests keep their shape, whatever the processes do to
\* each other and wherever they are stopped.
THEOREM StoreTypeCorrect == Spec => []TypeOK
BY StoreInvHolds, PTL DEF StoreInv

\* No two rows ever name one file, and no unused row names any: not even when
\* several processes write to the same slot.
THEOREM FilesUnshared == Spec => []NoSharedFile
BY StoreInvHolds, PTL DEF StoreInv
=============================================================================
