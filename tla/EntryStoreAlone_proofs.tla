------------------------ MODULE EntryStoreAlone_proofs ------------------------
(***************************************************************************)
(* Theorems of EntryStore for one process on the database, whatever        *)
(* crashes and file errors it meets: no row loses its file, no file is     *)
(* left over without a cause, and rows and files implement KaringStore.    *)
(* The run steps_two_processes shows that a second process costs a record  *)
(* its file, so that Alone is needed.                                      *)
(***************************************************************************)
EXTENDS EntryStore_proofs

\* No two processes use the database.
Alone == \A p, q \in Procs : p = q

\* What a request has read is still so, and what it has written is there.
Undisturbed(j) ==
  /\ j.pc \in {"oldpath", "write", "txn"} /\ j.op = "insert" => j.id = nextId
  /\ j.pc \in {"load", "write", "txn"} => j.id \in Slots
  /\ j.pc = "blob" => j.id \in Used /\ j.old = rows[j.id].path
  /\ j.pc \in {"write", "txn"} =>
       /\ j.op = "update" => j.id \in Used
       /\ j.old = rows[j.id].path \/ (j.old = NoPath /\ faults > 0)
  /\ j.pc \notin {"blob", "write", "txn"} => j.old = NoPath
  /\ j.new # NoPath => j.new \in DOMAIN disk /\ disk[j.new] \in Filed
  /\ j.junk \intersect FilesOf(Slots) = {}

\* A record has its contents in the row or in a file, by its kind.
KindsRight ==
  \A i \in Used : /\ rows[i].kind = "file" <=> rows[i].path # NoPath
                  /\ rows[i].kind = "text" => rows[i].text \in Data

\* Without a fault so far, every file is a row's or the request's own.
NoLeak ==
  faults = 0 => \A p \in Procs :
    DOMAIN disk = FilesOf(Slots) \union ({job[p].new} \ {NoPath}) \union job[p].junk

\* Every row's file is there, and was called written.
FilesThere ==
  \A i \in Slots : rows[i].path # NoPath =>
                     rows[i].path \in DOMAIN disk /\ disk[rows[i].path] \in Filed

AloneInv == /\ \A p \in Procs : Undisturbed(job[p])
            /\ KindsRight /\ FilesThere /\ NoLeak

-----------------------------------------------------------------------------
(* The kinds of steps there are.                                           *)

\* A request goes on, begins or ends, and no row and no file is touched.
LEMMA AloneJobMoves ==
  ASSUME Alone, StoreInv, AloneInv, NEW p \in Procs, NEW j, Undisturbed(j)',
         job' = [job EXCEPT ![p] = j],
         UNCHANGED <<rows, disk>>, faults' = faults \/ faults' > 0,
         faults' = 0 => ({j.new} \ {NoPath}) \union j.junk =
                          ({job[p].new} \ {NoPath}) \union job[p].junk
  PROVE  AloneInv'
<1>1. \A q \in Procs : job'[q] = j /\ q = p
  BY DEF Alone, StoreInv, TypeOK
<1>2. KindsRight' /\ FilesThere' /\ FilesOf(Slots)' = FilesOf(Slots)
  BY DEF AloneInv, KindsRight, FilesThere, Used, Slots, FilesOf
<1>3. NoLeak'
  <2> SUFFICES ASSUME faults' = 0
               PROVE  DOMAIN disk = FilesOf(Slots) \union ({j.new} \ {NoPath}) \union j.junk
    BY <1>1, <1>2 DEF NoLeak
  <2>1. DOMAIN disk = FilesOf(Slots) \union ({job[p].new} \ {NoPath}) \union job[p].junk
    BY DEF AloneInv, NoLeak
  <2> QED
    BY <2>1
<1> QED
  BY <1>1, <1>2, <1>3 DEF AloneInv

LEMMA AloneFileWritten ==
  ASSUME Alone, StoreInv, AloneInv, FreePaths # {}, NEW p \in Procs, NEW j, Undisturbed(j)',
         NEW data, StoreFile(NewPath, data),
         job' = [job EXCEPT ![p] = j], UNCHANGED rows,
         \/ faults' > 0
         \/ faults' = faults /\ j.new = NewPath /\ j.junk = {} /\ job[p].pc = "write"
  PROVE  AloneInv'
<1>1. \A q \in Procs : job'[q] = j /\ q = p
  BY DEF Alone, StoreInv, TypeOK
<1>2. NewPath \notin FilesOf(Slots) /\ NewPath # NoPath
  BY NewPathFree DEF StoreInv
<1>3. /\ DOMAIN disk' = DOMAIN disk \union {NewPath}
      /\ \A f \in DOMAIN disk : f # NewPath => disk'[f] = disk[f]
  BY DEF StoreFile
<1>4. FilesThere'
  <2> SUFFICES ASSUME NEW i \in Slots, rows[i].path # NoPath
               PROVE  rows[i].path \in DOMAIN disk' /\ disk'[rows[i].path] \in Filed
    BY DEF FilesThere, Slots
  <2>1. rows[i].path \in DOMAIN disk /\ disk[rows[i].path] \in Filed /\ rows[i].path # NewPath
    BY <1>2 DEF AloneInv, FilesThere, FilesOf
  <2> QED
    BY <1>3, <2>1
<1>5. KindsRight' /\ FilesOf(Slots)' = FilesOf(Slots)
  BY DEF AloneInv, KindsRight, Used, Slots, FilesOf
<1>6. NoLeak'
  <2> SUFFICES ASSUME faults' = 0
               PROVE  DOMAIN disk' = FilesOf(Slots) \union ({j.new} \ {NoPath}) \union j.junk
    BY <1>1, <1>5 DEF NoLeak
  <2>1. faults = 0 /\ j.new = NewPath /\ j.junk = {} /\ job[p].pc = "write"
    OBVIOUS
  <2>2. job[p].new = NoPath /\ job[p].junk = {}
    BY <2>1 DEF StoreInv, JobsRight, JobRight
  <2>3. DOMAIN disk = FilesOf(Slots) \union ({job[p].new} \ {NoPath}) \union job[p].junk
    BY <2>1 DEF AloneInv, NoLeak
  <2> QED
    BY <1>2, <1>3, <2>1, <2>2, <2>3
<1> QED
  BY <1>1, <1>4, <1>5, <1>6 DEF AloneInv

\* Rows change places, are blanked or left out, and their files are for the
\* process to remove.
LEMMA AloneRowsMoved ==
  ASSUME Alone, StoreInv, AloneInv, NEW p \in Procs, NEW j,
         j.pc = "idle" \/ j.pc = "remove",
         j.old = NoPath, j.new = NoPath,
         job[p].pc \in {"idle", "down"}, job' = [job EXCEPT ![p] = j],
         \A q \in Slots' : rows'[q] = BlankRow \/ \E i \in Slots : rows'[q] = rows[i],
         \A f \in j.junk : f \notin FilesOf(Slots)',
         \A f : f \in FilesOf(Slots) <=> f \in FilesOf(Slots)' \/ f \in j.junk,
         UNCHANGED <<disk, faults>>
  PROVE  AloneInv'
<1>1. \A q \in Procs : job'[q] = j /\ q = p
  BY DEF Alone, StoreInv, TypeOK
<1>2. Undisturbed(j)'
  BY DEF Undisturbed
<1>4. KindsRight' /\ FilesThere'
  BY BlankFacts DEF AloneInv, KindsRight, FilesThere, Used
<1>5. NoLeak'
  <2> SUFFICES ASSUME faults = 0
               PROVE  DOMAIN disk = FilesOf(Slots)' \union ({j.new} \ {NoPath}) \union j.junk
    BY <1>1 DEF NoLeak
  <2>1. job[p].new = NoPath /\ job[p].junk = {}
    BY DEF StoreInv, JobsRight, JobRight
  <2>2. DOMAIN disk = FilesOf(Slots) \union ({job[p].new} \ {NoPath}) \union job[p].junk
    BY DEF AloneInv, NoLeak
  <2> QED
    BY <2>1, <2>2
<1> QED
  BY <1>1, <1>2, <1>4, <1>5 DEF AloneInv

\* The request has read something or starts to: it has no file of its own.
LEMMA AloneReads ==
  ASSUME Alone, StoreInv, AloneInv, NEW p \in Procs, NEW j, Undisturbed(j),
         j.new = NoPath, j.junk = {}, job[p].pc \notin {"txn", "remove"},
         job' = [job EXCEPT ![p] = j], UNCHANGED <<db, disk, faults>>
  PROVE  AloneInv'
<1>1. Undisturbed(j)' /\ UNCHANGED rows
  BY DEF Undisturbed, FilesOf, Used, Slots, db
<1>2. job[p].new = NoPath /\ job[p].junk = {}
  BY DEF StoreInv, JobsRight, JobRight
<1> QED
  BY <1>1, <1>2, AloneJobMoves

-----------------------------------------------------------------------------
(* The steps, one by one.                                                  *)

LEMMA AloneBegin ==
  ASSUME Alone, StoreInv, AloneInv, NEW p \in Procs, BeginRequest(p)
  PROVE  AloneInv'
<1>0. TypeOK /\ nextId \in Slots
  BY SlotFacts DEF StoreInv
<1>00. /\ Idle.old = NoPath /\ Idle.new = NoPath /\ Idle.junk = {}
       /\ Idle \in Job
  BY RestFacts
<1>1. ASSUME NEW kind \in Kinds, NEW data \in Data, BeginInsert(p, kind, data)
      PROVE  AloneInv'
  <2> DEFINE j == [Idle EXCEPT !.pc = "oldpath", !.op = "insert", !.id = nextId,
                               !.kind = kind, !.data = data]
  <2>1. Undisturbed(j) /\ j.new = NoPath /\ j.junk = {}
    BY <1>00 DEF Undisturbed, Job
  <2>2. /\ job[p].pc = "idle" /\ job' = [job EXCEPT ![p] = j]
        /\ UNCHANGED <<db, disk, faults>>
    BY <1>1 DEF BeginInsert, Begin
  <2> QED
    BY <2>1, <2>2, AloneReads
<1>2. ASSUME NEW id \in Slots, NEW kind \in Kinds, NEW data \in Data,
             BeginReplace(p, id, kind, data)
      PROVE  AloneInv'
  <2> DEFINE j == [Idle EXCEPT !.pc = "load", !.op = "update", !.id = id,
                               !.kind = kind, !.data = data]
  <2>1. Undisturbed(j) /\ j.new = NoPath /\ j.junk = {}
    BY <1>00 DEF Undisturbed, Job
  <2>2. /\ job[p].pc = "idle" /\ job' = [job EXCEPT ![p] = j]
        /\ UNCHANGED <<db, disk, faults>>
    BY <1>2 DEF BeginReplace, Begin
  <2> QED
    BY <2>1, <2>2, AloneReads
<1>3. ASSUME NEW id \in Slots, NEW data \in Data,
             BeginPatchText(p, id, data) \/ BeginPatchFile(p, id, data)
      PROVE  AloneInv'
  BY <1>2, <1>3 DEF BeginPatchText, BeginPatchFile, Kinds
<1>4. ASSUME NEW id \in Slots, BeginRename(p, id)
      PROVE  AloneInv'
  <2> DEFINE j == [Idle EXCEPT !.pc = "blob", !.op = "update", !.id = id,
                               !.kind = "file", !.old = rows[id].path]
  <2>1. Undisturbed(j) /\ j.new = NoPath /\ j.junk = {}
    BY <1>00, <1>4 DEF Undisturbed, Job, BeginRename
  <2>2. /\ job[p].pc = "idle" /\ job' = [job EXCEPT ![p] = j]
        /\ UNCHANGED <<db, disk, faults>>
    BY <1>4 DEF BeginRename, Begin
  <2> QED
    BY <2>1, <2>2, AloneReads
<1>5. ASSUME NEW id \in Slots, NEW pc \in {"load", "check"},
             Begin(p, [Idle EXCEPT !.pc = pc, !.op = "delete", !.id = id])
      PROVE  AloneInv'
  <2> DEFINE j == [Idle EXCEPT !.pc = pc, !.op = "delete", !.id = id]
  <2>1. Undisturbed(j) /\ j.new = NoPath /\ j.junk = {}
    BY <1>00 DEF Undisturbed, Job
  <2>2. /\ job[p].pc = "idle" /\ job' = [job EXCEPT ![p] = j]
        /\ UNCHANGED <<db, disk, faults>>
    BY <1>5 DEF Begin
  <2> QED
    BY <2>1, <2>2, AloneReads
<1>6. PrevSlot \in Slots
  BY <1>0, SlotFacts DEF PrevSlot
<1> QED
  BY <1>1, <1>2, <1>3, <1>4, <1>5, <1>6 DEF BeginRequest, BeginDelete, BeginDeleteLatest

LEMMA AloneRead ==
  ASSUME Alone, StoreInv, AloneInv, NEW p \in Procs,
         \/ ReadOldPath(p) \/ CheckLatest(p) \/ ReadBlob(p) \/ LoadEntry(p)
         \/ Refuse(p) \/ Stop(p)
  PROVE  AloneInv'
<1>0. /\ TypeOK /\ job[p] \in Job /\ JobRight(job[p]) /\ Undisturbed(job[p])
      /\ faults \in Nat
  BY DEF StoreInv, TypeOK, JobsRight, AloneInv
<1>00. nextId \in Slots
  BY <1>0, SlotFacts
<1>1. CASE ReadOldPath(p)
  <2>1. /\ job[p].pc = "oldpath" /\ job[p].op = "insert" /\ job[p].id = nextId
        /\ job[p].old = NoPath /\ job[p].new = NoPath /\ job[p].junk = {}
        /\ UNCHANGED <<db, disk>>
    BY <1>0, <1>1 DEF ReadOldPath, Step, JobRight, Undisturbed
  <2>2. CASE UNCHANGED faults
    <3> DEFINE j == [job[p] EXCEPT !.pc = AfterRead(job[p]), !.old = rows[nextId].path]
    <3>1. job' = [job EXCEPT ![p] = j]
      BY <1>0, <1>00, <1>1, <2>1, <2>2 DEF ReadOldPath, Step
    <3>2. Undisturbed(j) /\ j.new = NoPath /\ j.junk = {}
      BY <1>0, <1>00, <2>1 DEF Undisturbed, Job, AfterRead
    <3> QED
      BY <2>1, <2>2, <3>1, <3>2, AloneReads
  <2>3. CASE faults' = faults + 1
    <3>1. PICK j : j = [job[p] EXCEPT !.pc = AfterRead(job[p])]
      OBVIOUS
    <3>2. job' = [job EXCEPT ![p] = j] /\ faults' > 0
      BY <1>0, <1>1, <2>3, <3>1 DEF ReadOldPath, Step
    <3>3. /\ j.pc \in {"write", "txn"} /\ j.op = "insert" /\ j.id = nextId
          /\ j.old = NoPath /\ j.new = NoPath /\ j.junk = {}
      BY <1>0, <2>1, <3>1 DEF Job, AfterRead
    <3>4. Undisturbed(j)' /\ UNCHANGED rows
      BY <1>00, <2>1, <3>2, <3>3 DEF Undisturbed, FilesOf, Used, Slots, db
    <3> QED
      BY <2>1, <3>2, <3>3, <3>4, AloneJobMoves
  <2> QED
    BY <1>1, <2>2, <2>3 DEF ReadOldPath
<1>2. CASE CheckLatest(p)
  <2> DEFINE j == [job[p] EXCEPT !.pc = "load"]
  <2>1. /\ job[p].pc = "check" /\ job[p].id \in Slots /\ job' = [job EXCEPT ![p] = j]
        /\ UNCHANGED <<db, disk, faults>>
    BY <1>2 DEF CheckLatest, Step, Used
  <2>2. Undisturbed(j) /\ j.new = NoPath /\ j.junk = {}
    BY <1>0, <2>1 DEF Undisturbed, Job, JobRight
  <2> QED
    BY <2>1, <2>2, AloneReads
<1>3. CASE ReadBlob(p)
  <2>0. faults' = faults \/ faults' > 0
    BY <1>0, <1>3 DEF ReadBlob
  <2>1. /\ job[p].pc = "blob" /\ UNCHANGED <<rows, disk>>
        /\ job[p].new = NoPath /\ job[p].junk = {}
    BY <1>0, <1>3 DEF ReadBlob, Step, JobRight, db
  <2>2. PICK data :
          job' = [job EXCEPT ![p] = [job[p] EXCEPT !.pc = "load", !.data = data, !.old = NoPath]]
    BY <1>3 DEF ReadBlob, Step
  <2>3. PICK j : j = [job[p] EXCEPT !.pc = "load", !.data = data, !.old = NoPath]
    OBVIOUS
  <2>4. /\ j.pc = "load" /\ j.id = job[p].id /\ j.old = NoPath /\ j.new = NoPath
        /\ j.junk = {} /\ job' = [job EXCEPT ![p] = j]
    BY <1>0, <2>1, <2>2, <2>3 DEF Job
  <2>5. Undisturbed(j)'
    BY <1>0, <2>1, <2>4 DEF Undisturbed, Used, Slots
  <2> QED
    BY <2>0, <2>1, <2>4, <2>5, AloneJobMoves
<1>4. CASE LoadEntry(p)
  <2> DEFINE j == [job[p] EXCEPT !.pc = AfterRead(job[p]), !.old = rows[job[p].id].path]
  <2>1. /\ job[p].pc = "load" /\ job[p].id \in Slots /\ job' = [job EXCEPT ![p] = j]
        /\ job[p].op = "update" => rows[job[p].id].used
        /\ job[p].op \in {"update", "delete"}
        /\ UNCHANGED <<db, disk, faults>>
    BY <1>0, <1>4 DEF LoadEntry, Step, JobRight
  <2>2. Undisturbed(j) /\ j.new = NoPath /\ j.junk = {}
    BY <1>0, <2>1 DEF Undisturbed, Job, JobRight, Used, AfterRead
  <2> QED
    BY <2>1, <2>2, AloneReads
<1>5. CASE Refuse(p) \/ Stop(p)
  <2>1. PICK j \in {Idle, Down} : /\ job' = [job EXCEPT ![p] = j]
                                  /\ UNCHANGED <<db, disk, faults>>
    BY <1>5 DEF Refuse, Stop, Step
  <2>2. /\ j.pc \in {"idle", "down"} /\ j.old = NoPath /\ j.new = NoPath /\ j.junk = {}
    BY RestFacts DEF Idle, Down
  <2>3. Undisturbed(j) /\ job[p].pc \notin {"txn", "remove"}
    BY <1>5, <2>2 DEF Undisturbed, Refuse, Stop, Step
  <2> QED
    BY <2>1, <2>2, <2>3, AloneReads
<1> QED
  BY <1>1, <1>2, <1>3, <1>4, <1>5

LEMMA AloneWrite ==
  ASSUME Alone, StoreInv, AloneInv, NEW p \in Procs,
         WriteFile(p) \/ WriteFails(p) \/ Crash(p)
  PROVE  AloneInv'
<1>0. /\ TypeOK /\ job[p] \in Job /\ JobRight(job[p]) /\ Undisturbed(job[p])
      /\ faults \in Nat
  BY DEF StoreInv, TypeOK, JobsRight, AloneInv
<1>1. CASE WriteFile(p)
  <2>0. PICK j : j = [job[p] EXCEPT !.pc = "txn", !.new = NewPath]
    OBVIOUS
  <2>1. /\ job[p].pc = "write" /\ FreePaths # {}
        /\ job' = [job EXCEPT ![p] = j] /\ UNCHANGED <<db, clock>>
    BY <1>1, <2>0 DEF WriteFile, Step
  <2>9. faults' = faults \/ faults' > 0
    BY <1>0, <1>1 DEF WriteFile
  <2>2. PICK new : new = NewPath
    OBVIOUS
  <2>3. /\ j.pc = "txn" /\ j.op = job[p].op /\ j.id = job[p].id /\ j.old = job[p].old
        /\ j.new = new /\ j.junk = {}
    BY <1>0, <2>0, <2>1, <2>2 DEF Job, JobRight
  <2>6. job[p].data \in Filed
    BY <1>0, <2>1 DEF JobRight
  <2>7. PICK data \in Filed : StoreFile(NewPath, data)
    BY <1>1, <2>6 DEF WriteFile, Filed
  <2>4. /\ new \in DOMAIN disk' /\ disk'[new] \in Filed
        /\ UNCHANGED <<rows, nextId>>
    BY <2>1, <2>2, <2>7 DEF StoreFile, db
  <2>5. Undisturbed(j)'
    BY <1>0, <2>1, <2>3, <2>4, <2>9 DEF Undisturbed, FilesOf, Used, Slots
  <2>8. \/ faults' > 0
        \/ faults' = faults /\ j.new = NewPath /\ j.junk = {} /\ job[p].pc = "write"
    BY <2>1, <2>2, <2>3, <2>9
  <2> QED
    BY <2>1, <2>4, <2>5, <2>7, <2>8, AloneFileWritten
<1>2. CASE WriteFails(p) \/ Crash(p)
  <2>1. PICK j \in {Idle, Down} :
          /\ job' = [job EXCEPT ![p] = j] /\ UNCHANGED <<db, clock>>
          /\ \/ UNCHANGED <<disk, faults>> /\ job[p].pc = "write"
             \/ faults' = faults + 1 /\ UNCHANGED disk
             \/ faults' = faults + 1 /\ FreePaths # {} /\ StoreFile(NewPath, Partial)
    BY <1>2 DEF WriteFails, Crash, Step
  <2>2. /\ j.pc \in {"idle", "down"} /\ j.old = NoPath /\ j.new = NoPath /\ j.junk = {}
    BY RestFacts DEF Idle, Down
  <2>3. Undisturbed(j)' /\ UNCHANGED rows
    BY <2>1, <2>2 DEF Undisturbed, db
  <2>4. faults' = faults + 1 => faults' > 0
    BY <1>0
  <2>5. CASE UNCHANGED disk
    <3>1. faults' = 0 => job[p].new = NoPath /\ job[p].junk = {} /\ faults' = faults
      BY <1>0, <2>1, <2>4 DEF JobRight
    <3> QED
      BY <1>0, <2>1, <2>2, <2>3, <2>4, <2>5, <3>1, AloneJobMoves
  <2>6. CASE faults' = faults + 1 /\ FreePaths # {} /\ StoreFile(NewPath, Partial)
    BY <2>1, <2>3, <2>4, <2>6, AloneFileWritten
  <2> QED
    BY <2>1, <2>5, <2>6
<1> QED
  BY <1>1, <1>2

\* The row a commit writes takes the place of the one the request has read,
\* and exactly the file of that one is left to remove.
LEMMA AloneRowWritten ==
  ASSUME Alone, StoreInv, AloneInv, NEW p \in Procs, job[p].pc = "txn",
         NEW id, id = job[p].id, id \in Slots,
         NEW row \in Row, row.path = job[p].new,
         row.used => /\ row.kind = "file" <=> row.path # NoPath
                     /\ row.kind = "text" => row.text \in Data,
         rows' = [rows EXCEPT ![id] = row],
         job' = [job EXCEPT ![p] = Removing(Leftover(job[p]))],
         UNCHANGED <<disk, faults>>
  PROVE  AloneInv'
<1>0. TypeOK /\ job[p] \in Job /\ JobRight(job[p]) /\ Undisturbed(job[p])
  BY DEF StoreInv, TypeOK, JobsRight, AloneInv
<1>1. PICK j : j = Removing(Leftover(job[p]))
  OBVIOUS
<1>2. PICK old \in Paths \union {NoPath} : old = job[p].old
  BY <1>0 DEF Job
<1>3. /\ j.pc = "remove" /\ j.junk = {old} \ {NoPath}
      /\ j.old = NoPath /\ j.new = NoPath
      /\ \A q \in Procs : job'[q] = j
  <2>1. Leftover(job[p]) = {old} \ {NoPath} /\ Leftover(job[p]) \in SUBSET Paths
    BY <1>2 DEF Leftover
  <2>2. j.pc = "remove" /\ j.junk = Leftover(job[p])
    BY <1>1, RestFacts DEF Removing, Job
  <2> QED
    BY <1>0, <1>1, <2>1, <2>2, RestFacts DEF Alone, TypeOK
<1>4. /\ Slots' = Slots /\ rows'[id] = row
      /\ \A i \in Slots : i # id => rows'[i] = rows[i]
  BY <1>0 DEF Slots, TypeOK
<1>5. /\ old = rows[id].path \/ (old = NoPath /\ faults > 0)
      /\ row.path # NoPath => row.path \in DOMAIN disk /\ disk[row.path] \in Filed
  BY <1>0, <1>2 DEF Undisturbed
<1>6. /\ \A i \in Slots : i # id /\ rows[id].path # NoPath => rows[i].path # rows[id].path
      /\ \A i \in Slots : row.path # NoPath => rows[i].path # row.path
  BY <1>0 DEF StoreInv, NoSharedFile, OwnFiles, FilesOf
<1>7. /\ FilesOf(Slots)' \union ({rows[id].path} \ {NoPath})
           = FilesOf(Slots) \union ({row.path} \ {NoPath})
      /\ rows[id].path # NoPath => rows[id].path \notin FilesOf(Slots)'
  BY <1>4, <1>6 DEF FilesOf
<1>8. Undisturbed(j)'
  BY <1>3, <1>5, <1>7 DEF Undisturbed
<1>9. KindsRight' /\ FilesThere'
  BY <1>4, <1>5 DEF AloneInv, KindsRight, FilesThere, Used
<1>10. NoLeak'
  <2> SUFFICES ASSUME faults = 0
               PROVE  DOMAIN disk = FilesOf(Slots)' \union ({j.new} \ {NoPath}) \union j.junk
    BY <1>3 DEF NoLeak
  <2>1. old = rows[id].path
    BY <1>5
  <2>2. job[p].junk = {}
    BY <1>0 DEF JobRight
  <2>3. DOMAIN disk = FilesOf(Slots) \union ({row.path} \ {NoPath})
    BY <2>2 DEF AloneInv, NoLeak
  <2> QED
    BY <1>3, <1>7, <2>1, <2>3
<1> QED
  BY <1>3, <1>8, <1>9, <1>10 DEF AloneInv

LEMMA AloneCommit ==
  ASSUME Alone, StoreInv, AloneInv, NEW p \in Procs,
         CommitInsert(p) \/ CommitUpdate(p) \/ CommitDelete(p)
  PROVE  AloneInv'
<1>0. /\ TypeOK /\ job[p] \in Job /\ JobRight(job[p])
      /\ clock \in 0..MaxClock /\ made \in 0..MaxMade
  BY DEF StoreInv, TypeOK, JobsRight
<1>1. /\ job[p].pc = "txn" /\ job[p].id \in Slots
      /\ job' = [job EXCEPT ![p] = Removing(Leftover(job[p]))]
      /\ UNCHANGED <<disk, faults>>
  BY DEF CommitInsert, CommitUpdate, CommitDelete, Step
<1>2. ASSUME NEW stored \in 0..MaxClock, NEW seq \in 0..MaxMade,
             job[p].op \in {"insert", "update"},
             rows' = [rows EXCEPT ![job[p].id] = RowOf(job[p], stored, seq)]
      PROVE  AloneInv'
  <2> DEFINE row == RowOf(job[p], stored, seq)
  <2>1. row \in Row /\ row.path = job[p].new
    BY <1>1, <1>2, RowOfFacts
  <2>2. /\ job[p].new # NoPath <=> job[p].kind = "file"
        /\ row.kind = job[p].kind
        /\ row.kind = "text" => row.text = job[p].data /\ job[p].data \in Data
    BY <1>0, <1>1, <1>2 DEF JobRight, RowOf
  <2> HIDE DEF row
  <2>3. rows' = [rows EXCEPT ![job[p].id] = row]
    BY <1>2 DEF row
  <2> QED
    BY <1>1, <2>1, <2>2, <2>3, AloneRowWritten
<1>3. CASE CommitInsert(p)
  <2>1. /\ job[p].op = "insert" /\ made + 1 \in 0..MaxMade
        /\ rows' = [rows EXCEPT ![job[p].id] = RowOf(job[p], clock, made + 1)]
    BY <1>0, <1>3, TimeAssumption DEF CommitInsert
  <2> QED
    BY <1>0, <1>2, <2>1
<1>4. CASE CommitUpdate(p)
  <2>1. /\ job[p].op = "update"
        /\ rows' = [rows EXCEPT ![job[p].id] =
                      RowOf(job[p], rows[job[p].id].stored, rows[job[p].id].seq)]
    BY <1>4 DEF CommitUpdate
  <2> QED
    BY <1>0, <1>1, <1>2, <2>1, RowFacts
<1>5. CASE CommitDelete(p)
  <2>1. job[p].op = "delete" /\ rows' = [rows EXCEPT ![job[p].id] = BlankRow]
    BY <1>5 DEF CommitDelete
  <2>2. job[p].new = NoPath
    BY <1>0, <1>1, <2>1 DEF JobRight
  <2> QED
    BY <1>1, <2>1, <2>2, BlankFacts, AloneRowWritten
<1> QED
  BY <1>3, <1>4, <1>5

\* A failed transaction leaves the request's own file to remove.
LEMMA AloneFails ==
  ASSUME Alone, StoreInv, AloneInv, NEW p \in Procs, TxnFails(p)
  PROVE  AloneInv'
<1>0. /\ job[p] \in Job /\ JobRight(job[p]) /\ job[p].pc = "txn" /\ job[p].junk = {}
      /\ UNCHANGED <<rows, disk, faults>>
  BY DEF StoreInv, TypeOK, JobsRight, JobRight, TxnFails, Step, db
<1>1. PICK j : j = Removing(Discarded(job[p]))
  OBVIOUS
<1>2. PICK new \in Paths \union {NoPath} : new = job[p].new
  BY <1>0 DEF Job
<1>3. /\ j.pc = "remove" /\ j.junk = {new} \ {NoPath} /\ j.old = NoPath /\ j.new = NoPath
      /\ job' = [job EXCEPT ![p] = j]
  <2>1. Discarded(job[p]) = {new} \ {NoPath} /\ Discarded(job[p]) \in SUBSET Paths
    BY <1>2 DEF Discarded
  <2>2. j.pc = "remove" /\ j.junk = Discarded(job[p])
    BY <1>1, RestFacts DEF Removing, Job
  <2> QED
    BY <1>1, <2>1, <2>2, RestFacts DEF TxnFails, Step
<1>4. new # NoPath => new \notin FilesOf(Slots)
  BY <1>2 DEF StoreInv, OwnFiles
<1>5. FilesOf(Slots)' = FilesOf(Slots)
  BY <1>0 DEF FilesOf, Slots
<1>6. Undisturbed(j)'
  BY <1>3, <1>4, <1>5 DEF Undisturbed
<1> QED
  BY <1>0, <1>2, <1>3, <1>6, AloneJobMoves

LEMMA AloneRemove ==
  ASSUME Alone, StoreInv, AloneInv, NEW p \in Procs, Remove(p)
  PROVE  AloneInv'
<1>0. /\ job[p] \in Job /\ JobRight(job[p]) /\ Undisturbed(job[p]) /\ faults \in Nat
      /\ job[p].pc = "remove" /\ job' = [job EXCEPT ![p] = Idle]
      /\ UNCHANGED rows
  BY DEF StoreInv, TypeOK, JobsRight, AloneInv, Remove, Step, db
<1>1. PICK j : j = Idle
  OBVIOUS
<1>2. /\ j.pc = "idle" /\ j.old = NoPath /\ j.new = NoPath /\ j.junk = {}
      /\ job' = [job EXCEPT ![p] = j] /\ \A q \in Procs : job'[q] = j
  BY <1>0, <1>1, RestFacts DEF Idle, Alone, StoreInv, TypeOK
<1>3. Undisturbed(j)'
  BY <1>2 DEF Undisturbed
<1>4. CASE faults' = faults + 1 /\ UNCHANGED disk
  <2>1. faults' > 0 /\ faults' # 0
    BY <1>0, <1>4
  <2> QED
    BY <1>0, <1>2, <1>3, <1>4, <2>1, AloneJobMoves
<1>5. CASE RemoveFiles(job[p].junk) /\ UNCHANGED faults
  <2>1. /\ DOMAIN disk' = DOMAIN disk \ job[p].junk
        /\ \A f \in DOMAIN disk' : disk'[f] = disk[f]
    BY <1>5 DEF RemoveFiles
  <2>2. FilesOf(Slots)' = FilesOf(Slots) /\ job[p].junk \intersect FilesOf(Slots) = {}
    BY <1>0 DEF FilesOf, Slots, Undisturbed
  <2>3. KindsRight'
    BY <1>0 DEF AloneInv, KindsRight, Used, Slots
  <2>4. FilesThere'
    BY <1>0, <2>1, <2>2 DEF AloneInv, FilesThere, Slots, FilesOf
  <2>5. NoLeak'
    <3> SUFFICES ASSUME faults = 0
                 PROVE  DOMAIN disk' = FilesOf(Slots) \union ({j.new} \ {NoPath}) \union j.junk
      BY <1>2, <1>5, <2>2 DEF NoLeak
    <3>1. job[p].new = NoPath
      BY <1>0 DEF JobRight
    <3>2. DOMAIN disk = FilesOf(Slots) \union ({job[p].new} \ {NoPath}) \union job[p].junk
      BY DEF AloneInv, NoLeak
    <3> QED
      BY <1>2, <2>1, <2>2, <3>1, <3>2
  <2> QED
    BY <1>2, <1>3, <2>3, <2>4, <2>5 DEF AloneInv
<1> QED
  BY <1>4, <1>5 DEF Remove

-----------------------------------------------------------------------------
(* Ranks, and what a compaction keeps.                                     *)

LEMMA RankRange ==
  ASSUME TypeOK, NEW i \in Used
  PROVE  Rank(i) \in 1..Cardinality(Used)
<1> DEFINE Below == {j \in Used : Precedes(j, i)}
<1>1. i \in Int /\ rows[i].stored \in Int
  BY SlotFacts, RowFacts, TimeAssumption DEF Used
<1>2. ~Precedes(i, i)
  BY <1>1 DEF Precedes
<1>3. Below \in SUBSET Used /\ Below # Used
  BY <1>2
<1>4. IsFiniteSet(Used) /\ Cardinality(Used) \in Nat
  <2>1. 0 \in Nat
    OBVIOUS
  <2> QED
    BY <2>1, SurplusType
<1>5. /\ IsFiniteSet(Below)
      /\ Cardinality(Below) <= Cardinality(Used)
      /\ Cardinality(Used) = Cardinality(Below) => Used = Below
  BY <1>3, <1>4, FS_Subset
<1>6. Cardinality(Below) \in Nat
  BY <1>5, FS_CardinalityType
<1>7. Rank(i) = Cardinality(Below) + 1
  BY DEF Rank
<1> HIDE DEF Below
<1> QED
  BY <1>3, <1>4, <1>5, <1>6, <1>7

LEMMA RanksDiffer ==
  ASSUME TypeOK, NEW i \in Used, NEW j \in Used, Rank(i) = Rank(j)
  PROVE  i = j
<1> DEFINE Below(k) == {m \in Used : Precedes(m, k)}
<1>1. \A k \in Used : k \in Int /\ rows[k].stored \in Int
  BY SlotFacts, RowFacts, TimeAssumption DEF Used
<1>2. ASSUME NEW k \in Used, NEW l \in Used, Precedes(k, l)
      PROVE  Rank(k) # Rank(l)
  <2>1. \A m \in Used : Precedes(m, k) => Precedes(m, l)
    BY <1>1, <1>2 DEF Precedes
  <2>2. ~Precedes(k, k)
    BY <1>1 DEF Precedes
  <2>3. Below(k) \in SUBSET Below(l) /\ Below(k) # Below(l)
    BY <1>2, <2>1, <2>2
  <2>4. IsFiniteSet(Below(k)) /\ IsFiniteSet(Below(l))
    <3>1. IsFiniteSet(Used)
      <4>1. 0 \in Nat
        OBVIOUS
      <4> QED
        BY <4>1, SurplusType
    <3> QED
      BY <3>1, FS_Subset
  <2>5. Cardinality(Below(k)) \in Nat /\ Cardinality(Below(l)) \in Nat
    BY <2>4, FS_CardinalityType
  <2>6. Cardinality(Below(l)) = Cardinality(Below(k)) => Below(l) = Below(k)
    BY <2>3, <2>4, FS_Subset
  <2>7. Rank(k) = Cardinality(Below(k)) + 1 /\ Rank(l) = Cardinality(Below(l)) + 1
    BY DEF Rank
  <2> HIDE DEF Below
  <2> QED
    BY <2>3, <2>5, <2>6, <2>7
<1>3. i = j \/ Precedes(i, j) \/ Precedes(j, i)
  BY <1>1 DEF Precedes
<1> QED
  BY <1>2, <1>3

\* The rows past the first drop all find a place, when there are enough.
LEMMA CompactedKeeps ==
  ASSUME TypeOK, NEW n \in Nat, NEW drop \in Nat, Cardinality(Used) <= n + drop,
         NEW i \in Used, ~(Rank(i) <= drop)
  PROVE  \E q \in 1..n : Compacted(n, drop)[q] = rows[i]
<1>1. Rank(i) \in 1..Cardinality(Used) /\ Cardinality(Used) \in Nat
  BY RankRange, SurplusType
<1>2. PICK q \in 1..n : Rank(i) = q + drop
  <2>1. Rank(i) - drop \in 1..n /\ Rank(i) = (Rank(i) - drop) + drop
    BY <1>1
  <2> QED
    BY <2>1
<1>3. Source(q, drop) \in Used /\ Rank(Source(q, drop)) = q + drop
  BY <1>2 DEF Source
<1>4. Source(q, drop) = i
  BY <1>2, <1>3, RanksDiffer
<1>5. Compacted(n, drop)[q] = rows[Source(q, drop)]
  BY <1>2 DEF Compacted, Source
<1> QED
  BY <1>4, <1>5

\* The files of a compaction and of the rows it drops are all files of rows.
LEMMA CompactedFiles ==
  ASSUME StoreInv, NEW n \in Nat, NEW drop \in Nat, Cardinality(Used) <= n + drop,
         NEW files, files = FilesOf({i \in Used : Rank(i) <= drop}),
         rows' = Compacted(n, drop)
  PROVE  /\ files \intersect FilesOf(Slots)' = {}
         /\ FilesOf(Slots) = FilesOf(Slots)' \union files
<1> DEFINE new == Compacted(n, drop)
           Old(i) == i \in Used /\ rows[i].path # NoPath
<1>0. TypeOK /\ \A i, k \in Slots : rows[i].path # NoPath =>
                  i \in Used /\ (rows[i].path = rows[k].path => i = k)
  BY DEF StoreInv, NoSharedFile, Used
<1>1. \A q \in 1..n : new[q].path # NoPath =>
        \E i \in Used : Rank(i) = q + drop /\ new[q] = rows[i]
  BY <1>0, CompactedRows, BlankFacts
<1>2. \A i \in Used : ~(Rank(i) <= drop) => \E q \in 1..n : new[q] = rows[i]
  BY <1>0, CompactedKeeps
<1>3. \A i \in Used : Rank(i) \in Int
  BY <1>0, RankRange
<1>4. DOMAIN new = 1..n
  BY DEF Compacted
<1> HIDE DEF new
<1>5. rows' = new
  BY DEF new
<1>6. \A f : f \in FilesOf(Slots)' <=> f # NoPath /\ \E q \in 1..n : f = new[q].path
  BY <1>4, <1>5 DEF FilesOf, Slots
<1>7. \A f : f \in FilesOf(Slots) <=> f # NoPath /\ \E i \in Used : f = rows[i].path
  BY <1>0 DEF FilesOf, Used
<1>8. \A f : f \in files <=>
        f # NoPath /\ \E i \in Used : Rank(i) <= drop /\ f = rows[i].path
  BY DEF FilesOf
<1>9. \A f \in FilesOf(Slots)' : \E i \in Used : ~(Rank(i) <= drop) /\ f = rows[i].path
  <2> SUFFICES ASSUME NEW f, f # NoPath, NEW q \in 1..n, f = new[q].path
               PROVE  \E i \in Used : ~(Rank(i) <= drop) /\ f = rows[i].path
    BY <1>6
  <2>1. PICK i \in Used : Rank(i) = q + drop /\ new[q] = rows[i]
    BY <1>1
  <2>2. ~(Rank(i) <= drop)
    BY <2>1
  <2> QED
    BY <2>1, <2>2
<1>10. \A f \in FilesOf(Slots) : f \in files \/ f \in FilesOf(Slots)'
  BY <1>2, <1>6, <1>7, <1>8
<1>11. files \intersect FilesOf(Slots)' = {}
  BY <1>0, <1>8, <1>9 DEF Used
<1>12. FilesOf(Slots)' \subseteq FilesOf(Slots) /\ files \subseteq FilesOf(Slots)
  BY <1>6, <1>7, <1>8, <1>9
<1> QED
  BY <1>10, <1>11, <1>12

-----------------------------------------------------------------------------
(* The steps that move rows.                                               *)

LEMMA AloneSwap ==
  ASSUME Alone, StoreInv, AloneInv, NEW p \in Procs,
         NEW i \in Slots, NEW k \in Slots, Swap(p, i, k)
  PROVE  AloneInv'
<1>0. /\ TypeOK /\ job[p].pc = "idle" /\ JobRight(job[p]) /\ Undisturbed(job[p])
      /\ job' = [job EXCEPT ![p] = job[p]] /\ UNCHANGED <<disk, faults>>
      /\ Slots = 1..maxItems /\ maxItems \in Nat
  BY SlotFacts DEF StoreInv, TypeOK, JobsRight, AloneInv, Swap
<1>1. job[p].old = NoPath /\ job[p].new = NoPath /\ job[p].junk = {}
  BY <1>0 DEF Undisturbed, JobRight
<1>2. /\ \A q \in Slots : rows'[q] = IF q = k THEN rows[i] ELSE IF q = i THEN rows[k] ELSE rows[q]
      /\ rows' \in [1..maxItems -> Row]
  BY <1>0, RowFacts DEF Swap, TypeOK
<1>3. FilesOf(Slots)' = FilesOf(Slots)
  <2> DEFINE other(q) == IF q = i THEN k ELSE IF q = k THEN i ELSE q
  <2>1. \A q \in Slots : /\ other(q) \in Slots
                         /\ rows'[q] = rows[other(q)] /\ rows[q] = rows'[other(q)]
    BY <1>2
  <2>2. Slots' = Slots
    BY <1>0, <1>2 DEF Slots
  <2> HIDE DEF other
  <2> QED
    BY <2>1, <2>2 DEF FilesOf
<1>4. \A q \in Slots' : rows'[q] = BlankRow \/ \E r \in Slots : rows'[q] = rows[r]
  BY <1>0, <1>2 DEF Slots
<1> QED
  BY <1>0, <1>1, <1>3, <1>4, AloneRowsMoved

LEMMA AloneResequence ==
  ASSUME Alone, StoreInv, AloneInv, NEW p \in Procs, Resequence(p)
  PROVE  AloneInv'
<1>0. /\ TypeOK /\ job[p].pc = "idle" /\ JobRight(job[p]) /\ Undisturbed(job[p])
      /\ job' = [job EXCEPT ![p] = job[p]] /\ UNCHANGED <<disk, faults>>
      /\ maxItems \in Nat /\ 0 \in Nat
      /\ rows' = Compacted(maxItems, 0)
  BY SlotFacts DEF StoreInv, TypeOK, JobsRight, AloneInv, Resequence
<1>1. job[p].old = NoPath /\ job[p].new = NoPath /\ job[p].junk = {}
  BY <1>0 DEF Undisturbed, JobRight
<1>2. Cardinality(Used) <= maxItems + 0
  <2>1. IsFiniteSet(1..maxItems) /\ Cardinality(1..maxItems) = maxItems
    BY <1>0, FS_Interval
  <2>2. Used \in SUBSET (1..maxItems)
    BY <1>0, SlotFacts
  <2>3. Cardinality(Used) <= Cardinality(1..maxItems)
    BY <2>1, <2>2, FS_Subset
  <2> QED
    BY <1>0, <2>1, <2>3
<1>3. FilesOf({i \in Used : Rank(i) <= 0}) = {}
  BY <1>0, RankRange DEF FilesOf
<1>4. FilesOf(Slots) = FilesOf(Slots)' \union {}
  <2> DEFINE files == FilesOf({i \in Used : Rank(i) <= 0})
  <2> HIDE DEF files
  <2>1. FilesOf(Slots) = FilesOf(Slots)' \union files
    BY <1>0, <1>2, CompactedFiles DEF files
  <2> QED
    BY <1>3, <2>1 DEF files
<1>5. \A q \in Slots' : rows'[q] = BlankRow \/ \E i \in Slots : rows'[q] = rows[i]
  <2> DEFINE new == Compacted(maxItems, 0)
  <2>1. /\ new \in [1..maxItems -> Row]
        /\ \A q \in 1..maxItems : new[q] = BlankRow \/ \E i \in Slots : new[q] = rows[i]
    BY <1>0, CompactedMoved
  <2> HIDE DEF new
  <2>2. rows' = new /\ Slots' = 1..maxItems
    BY <1>0, <2>1 DEF new, Slots
  <2> QED
    BY <2>1, <2>2
<1> QED
  BY <1>0, <1>1, <1>4, <1>5, AloneRowsMoved

LEMMA AloneStart ==
  ASSUME Alone, StoreInv, AloneInv, NEW p \in Procs, StartUp(p)
  PROVE  AloneInv'
<1>0. /\ TypeOK /\ Slots = 1..maxItems /\ maxItems \in Nat
      /\ rows \in [1..maxItems -> Row]
  BY SlotFacts DEF StoreInv, TypeOK
<1>1. ASSUME NEW files \in SUBSET Paths, Restart(p, files),
             \A q \in Slots' : rows'[q] = BlankRow \/ \E i \in Slots : rows'[q] = rows[i],
             files \intersect FilesOf(Slots)' = {},
             FilesOf(Slots) = FilesOf(Slots)' \union files
      PROVE  AloneInv'
  <2>1. /\ job[p].pc = "down" /\ job' = [job EXCEPT ![p] = Removing(files)]
        /\ UNCHANGED <<disk, faults>>
    BY <1>1 DEF Restart, Step
  <2>2. /\ Removing(files).old = NoPath /\ Removing(files).new = NoPath
        /\ Removing(files).pc = "remove" /\ Removing(files).junk = files
    BY RestFacts DEF Removing, Job
  <2> QED
    BY <1>1, <2>1, <2>2, AloneRowsMoved
<1>2. CASE StartSame(p)
  <2>1. Restart(p, {}) /\ rows' = rows
    BY <1>2 DEF StartSame
  <2>2. Slots' = Slots /\ FilesOf(Slots)' = FilesOf(Slots)
    BY <2>1 DEF FilesOf, Slots
  <2> QED
    BY <1>1, <2>1, <2>2
<1>3. ASSUME NEW n \in 1..MaxSlots, StartLarger(p, n)
      PROVE  AloneInv'
  <2>1. /\ Restart(p, {}) /\ n > maxItems /\ n \in Nat
        /\ rows' = [i \in 1..n |-> IF i <= maxItems THEN rows[i] ELSE BlankRow]
    BY <1>3 DEF StartLarger
  <2>2. /\ rows' \in [1..n -> Row] /\ Slots' = 1..n
        /\ \A q \in 1..n : \/ rows'[q] = BlankRow
                           \/ q \in Slots /\ rows'[q] = rows[q]
        /\ \A q \in Slots : q \in 1..n /\ rows'[q] = rows[q]
    BY <1>0, <2>1, BlankFacts DEF Slots
  <2>3. FilesOf(Slots)' = FilesOf(Slots)
    BY <2>2, BlankFacts DEF FilesOf
  <2> QED
    BY <1>1, <2>1, <2>2, <2>3
<1>4. ASSUME NEW n \in 1..MaxSlots, StartSmaller(p, n)
      PROVE  AloneInv'
  <2>1. /\ Restart(p, {}) /\ n < maxItems /\ n \in Nat
        /\ \A i \in Used : i <= n
        /\ rows' = [i \in 1..n |-> rows[i]]
    BY <1>4 DEF StartSmaller
  <2>2. /\ rows' \in [1..n -> Row] /\ Slots' = 1..n
        /\ \A q \in 1..n : q \in Slots /\ rows'[q] = rows[q]
    BY <1>0, <2>1 DEF Slots
  <2>3. \A i \in Slots : rows[i].path # NoPath => i \in 1..n
    BY <1>0, <2>1 DEF StoreInv, NoSharedFile, Used
  <2>4. FilesOf(Slots)' = FilesOf(Slots)
    BY <2>2, <2>3 DEF FilesOf
  <2> QED
    BY <1>1, <2>1, <2>2, <2>4
<1>5. ASSUME NEW n \in 1..MaxSlots, StartForced(p, n)
      PROVE  AloneInv'
  <2> DEFINE files == FilesOf({i \in Used : Rank(i) <= Surplus(n)})
             drop == Surplus(n)
             new == Compacted(n, drop)
  <2>1. /\ Restart(p, files) /\ n \in Nat
        /\ rows' = new
    BY <1>5 DEF StartForced
  <2>2. drop \in Nat /\ Cardinality(Used) <= n + drop
    BY <1>0, <2>1, SurplusType DEF Surplus
  <2>3. files \in SUBSET Paths
    BY <1>0, SlotFacts, RowFacts DEF FilesOf, Used
  <2>4. /\ files \intersect FilesOf(Slots)' = {}
        /\ FilesOf(Slots) = FilesOf(Slots)' \union files
    BY <2>1, <2>2, CompactedFiles
  <2>5. /\ new \in [1..n -> Row]
        /\ \A q \in 1..n : new[q] = BlankRow \/ \E i \in Slots : new[q] = rows[i]
    BY <2>1, <2>2, CompactedMoved
  <2> HIDE DEF files, new
  <2>6. \A q \in Slots' : rows'[q] = BlankRow \/ \E i \in Slots : rows'[q] = rows[i]
    BY <2>1, <2>5 DEF Slots
  <2> QED
    BY <1>1, <2>1, <2>3, <2>4, <2>6
<1> QED
  BY <1>2, <1>3, <1>4, <1>5 DEF StartUp

LEMMA AloneInvHolds == ASSUME Alone PROVE Spec => []AloneInv
<1>1. Init => AloneInv
  <2> SUFFICES ASSUME Init PROVE AloneInv
    OBVIOUS
  <2>1. /\ Slots = 1..maxItems /\ FilesOf(Slots) = {} /\ Used = {} /\ DOMAIN disk = {}
        /\ \A i \in Slots : rows[i] = BlankRow
    BY BlankFacts DEF Init, Slots, FilesOf, Used
  <2>2. \A p \in Procs : job[p] = Idle
    BY DEF Init
  <2>3. Idle.pc = "idle" /\ Idle.old = NoPath /\ Idle.new = NoPath /\ Idle.junk = {}
    BY DEF Idle
  <2>4. Undisturbed(Idle)
    BY <2>3 DEF Undisturbed
  <2> QED
    BY <2>1, <2>2, <2>3, <2>4, BlankFacts
    DEF AloneInv, KindsRight, FilesThere, NoLeak
<1>2. StoreInv /\ AloneInv /\ [Next]_vars => AloneInv'
  <2> SUFFICES ASSUME StoreInv, AloneInv, [Next]_vars PROVE AloneInv'
    OBVIOUS
  <2>1. ASSUME NEW p \in Procs, Continue(p) PROVE AloneInv'
    BY <2>1, AloneRead, AloneWrite, AloneCommit, AloneFails, AloneRemove DEF Continue
  <2>2. ASSUME NEW p \in Procs,
               \/ BeginRequest(p) \/ Continue(p)
               \/ \E i, k \in Slots : Swap(p, i, k)
               \/ Resequence(p)
               \/ StartUp(p) \/ Crash(p) \/ Stop(p)
        PROVE  AloneInv'
    BY <2>1, <2>2, AloneBegin, AloneSwap, AloneResequence, AloneStart, AloneWrite, AloneRead
  <2>3. CASE Tick \/ UNCHANGED vars
    <3>1. UNCHANGED <<rows, nextId, disk, job, faults>>
      BY <2>3 DEF Tick, vars, db
    <3> QED
      BY <3>1 DEF AloneInv, Undisturbed, KindsRight, FilesThere, NoLeak, FilesOf, Used, Slots
  <2> QED
    BY <2>2, <2>3 DEF Next
<1> QED
  BY <1>1, <1>2, StoreInvHolds, PTL DEF Spec

-----------------------------------------------------------------------------
\* As long as nothing failed, no file and no request has contents cut short,
\* however many processes there are.
CutByFault ==
  faults = 0 => /\ \A f \in DOMAIN disk : disk[f] # Cut
                /\ \A p \in Procs : job[p].data # Cut

\* What a process may do to keep it so.
LEMMA CutMoves ==
  ASSUME TypeOK, CutByFault, NEW p \in Procs,
         faults' = faults \/ faults' = faults + 1,
         faults' = faults =>
           /\ job' = job \/ \E j : j.data # Cut /\ job' = [job EXCEPT ![p] = j]
           /\ \A f \in DOMAIN disk' :
                (f \in DOMAIN disk /\ disk'[f] = disk[f]) \/ disk'[f] # Cut
  PROVE  CutByFault'
<1>1. faults \in Nat /\ job \in [Procs -> Job]
  BY DEF TypeOK
<1>2. faults' = 0 => faults = 0 /\ faults' = faults
  BY <1>1
<1> QED
  BY <1>1, <1>2 DEF CutByFault

LEMMA CutStep ==
  ASSUME TypeOK, CutByFault, [Next]_vars
  PROVE  CutByFault'
<1>0. /\ faults \in Nat /\ job \in [Procs -> Job]
      /\ Cut \notin Data /\ Cut # NoData /\ Cut # Partial
  BY DataAssumption DEF TypeOK
<1>1. Idle.data # Cut /\ Down.data # Cut /\ \A files : Removing(files).data # Cut
  BY <1>0 DEF Idle, Down, Removing
<1>2. ASSUME NEW p \in Procs, BeginRequest(p)
      PROVE  CutByFault'
  <2>1. ASSUME NEW j, j.data # Cut, Begin(p, j)
        PROVE  CutByFault'
    BY <2>1, CutMoves DEF Begin
  <2>2. ASSUME NEW data \in Data, NEW id, NEW kind,
               BeginInsert(p, kind, data) \/ BeginReplace(p, id, kind, data)
        PROVE  CutByFault'
    BY <1>0, <2>1, <2>2 DEF BeginInsert, BeginReplace, Idle
  <2>3. ASSUME NEW id, BeginRename(p, id) \/ BeginDelete(p, id) \/ BeginDeleteLatest(p)
        PROVE  CutByFault'
    BY <1>0, <2>1, <2>3 DEF BeginRename, BeginDelete, BeginDeleteLatest, Idle
  <2> QED
    BY <1>2, <2>2, <2>3 DEF BeginRequest, BeginPatchText, BeginPatchFile
<1>3. ASSUME NEW p \in Procs, ReadOldPath(p) \/ CheckLatest(p) \/ LoadEntry(p)
      PROVE  CutByFault'
  <2>1. UNCHANGED disk /\ (faults' = faults \/ faults' = faults + 1)
    BY <1>3 DEF ReadOldPath, CheckLatest, LoadEntry
  <2>2. PICK pc, old : \/ job' = [job EXCEPT ![p] = [job[p] EXCEPT !.pc = pc, !.old = old]]
                       \/ job' = [job EXCEPT ![p] = [job[p] EXCEPT !.pc = pc]]
    BY <1>3 DEF ReadOldPath, CheckLatest, LoadEntry, Step
  <2>3. /\ [job[p] EXCEPT !.pc = pc, !.old = old].data = job[p].data
        /\ [job[p] EXCEPT !.pc = pc].data = job[p].data
    BY <1>0 DEF Job
  <2>4. faults' = 0 => job[p].data # Cut
    BY <1>0, <2>1 DEF CutByFault
  <2>5. faults' = 0 => faults = 0
    BY <1>0, <2>1
  <2> QED
    BY <1>0, <2>1, <2>2, <2>3, <2>4, <2>5 DEF CutByFault
<1>4. ASSUME NEW p \in Procs, ReadBlob(p)
      PROVE  CutByFault'
  <2>1. UNCHANGED disk /\ (faults' = faults \/ faults' = faults + 1)
    BY <1>4 DEF ReadBlob
  <2>2. faults' = 0 =>
          /\ disk[job[p].old] # Cut
          /\ job' = [job EXCEPT ![p] = [job[p] EXCEPT !.pc = "load", !.data = disk[job[p].old],
                                                     !.old = NoPath]]
    BY <1>0, <1>4 DEF ReadBlob, Step, CutByFault
  <2>3. [job[p] EXCEPT !.pc = "load", !.data = disk[job[p].old], !.old = NoPath].data
          = disk[job[p].old]
    BY <1>0 DEF Job
  <2>4. faults' = 0 => faults = 0
    BY <1>0, <2>1
  <2>5. faults' = 0 => \A q \in Procs : job'[q].data # Cut
    BY <1>0, <2>2, <2>3, <2>4 DEF CutByFault
  <2> QED
    BY <2>1, <2>4, <2>5 DEF CutByFault
<1>5. ASSUME NEW p \in Procs, Refuse(p) \/ TxnFails(p) \/ Stop(p)
      PROVE  CutByFault'
  BY <1>1, <1>5, CutMoves DEF Refuse, TxnFails, Stop, Step
<1>6. ASSUME NEW p \in Procs, WriteFile(p)
      PROVE  CutByFault'
  <2>1. /\ faults' = faults \/ faults' = faults + 1
        /\ job' = [job EXCEPT ![p] = [job[p] EXCEPT !.pc = "txn", !.new = NewPath]]
    BY <1>6 DEF WriteFile, Step
  <2>2. faults' = faults => StoreFile(NewPath, job[p].data)
    BY <1>0, <1>6 DEF WriteFile
  <2>3. [job[p] EXCEPT !.pc = "txn", !.new = NewPath].data = job[p].data
    BY <1>0 DEF Job
  <2>4. faults' = 0 => faults = 0 /\ faults' = faults
    BY <1>0, <2>1
  <2>5. faults' = 0 => \A q \in Procs : job'[q].data = job[q].data /\ job[q].data # Cut
    BY <1>0, <2>1, <2>3, <2>4 DEF CutByFault
  <2>6. faults' = 0 => \A f \in DOMAIN disk' : disk'[f] # Cut
    BY <2>2, <2>4, <2>5 DEF CutByFault, StoreFile
  <2> QED
    BY <2>5, <2>6 DEF CutByFault
<1>7. ASSUME NEW p \in Procs, WriteFails(p) \/ Crash(p)
      PROVE  CutByFault'
  BY <1>0, <1>1, <1>7, CutMoves DEF WriteFails, Crash, Step, StoreFile
<1>8. ASSUME NEW p \in Procs, CommitInsert(p) \/ CommitUpdate(p) \/ CommitDelete(p)
      PROVE  CutByFault'
  BY <1>1, <1>8, CutMoves DEF CommitInsert, CommitUpdate, CommitDelete, Step
<1>9. ASSUME NEW p \in Procs, Remove(p)
      PROVE  CutByFault'
  BY <1>1, <1>9, CutMoves DEF Remove, Step, RemoveFiles
<1>10. ASSUME NEW p \in Procs, StartUp(p)
       PROVE  CutByFault'
  <2>1. ASSUME NEW files, Restart(p, files)
        PROVE  CutByFault'
    BY <1>1, <2>1, CutMoves DEF Restart, Step
  <2> QED
    BY <1>10, <2>1 DEF StartUp, StartSame, StartLarger, StartSmaller, StartForced
<1>11. ASSUME \/ \E p \in Procs : Resequence(p) \/ \E i, k \in Slots : Swap(p, i, k)
              \/ Tick \/ UNCHANGED vars
       PROVE  CutByFault'
  <2>1. UNCHANGED <<disk, job, faults>>
    BY <1>11 DEF Resequence, Swap, Tick, vars
  <2> QED
    BY <2>1 DEF CutByFault
<1> QED
  BY <1>2, <1>3, <1>4, <1>5, <1>6, <1>7, <1>8, <1>9, <1>10, <1>11 DEF Next, Continue

LEMMA CutHolds == Spec => []CutByFault
<1>1. Init => CutByFault
  BY DataAssumption DEF Init, Idle, CutByFault
<1> QED
  BY <1>1, CutStep, StoreTypeCorrect, PTL DEF Spec

\* While no second process uses the database, every row that names a file
\* finds it on disk, whatever step a request, a crash, a failed write or a
\* failed transaction stopped at: write_for_slot returns before the row is
\* committed, and only the file a committed change replaced is removed.  What
\* the file holds was called written, and without a fault it is complete.
THEOREM FilesOutliveRows == ASSUME Alone PROVE Spec => []NoDanglingRow
<1>1. TypeOK /\ AloneInv /\ CutByFault => NoDanglingRow
  BY DEF AloneInv, FilesThere, NoDanglingRow, CutByFault, Filed
<1> QED
  BY <1>1, AloneInvHolds, CutHolds, StoreTypeCorrect, PTL

\* While no second process uses the database and nothing failed, the upload
\* directory of an idle store holds the files of its rows and no other.
THEOREM RowsOutliveFiles == ASSUME Alone PROVE Spec => []NoOrphans
<1>1. StoreInv /\ AloneInv => NoOrphans
  <2> SUFFICES ASSUME StoreInv, AloneInv, faults = 0,
                      \A p \in Procs : job[p].pc \in {"idle", "down"}
               PROVE  DOMAIN disk = FilesOf(Slots)
    BY DEF NoOrphans
  <2>1. PICK p \in Procs : TRUE
    BY ProcsAssumption
  <2>2. job[p].new = NoPath /\ job[p].junk = {}
    BY DEF StoreInv, JobsRight, JobRight
  <2> QED
    BY <2>2 DEF AloneInv, NoLeak
<1> QED
  BY <1>1, AloneInvHolds, StoreInvHolds, PTL

-----------------------------------------------------------------------------
(* The refinement: every step is a step of KaringStore on the slots that   *)
(* the rows and their files stand for, or leaves them as they are.  With   *)
(* the theorems of KaringStore_proofs this carries every property of the   *)
(* one-step store over to the step-by-step one.                            *)

\* The slot of KaringStore a row and its file stand for.
SlotOf(row) == [used |-> row.used, kind |-> row.kind, data |-> Contents(row),
                stored |-> row.stored, seq |-> row.seq]
Seen == [i \in Slots |-> SlotOf(rows[i])]

-----------------------------------------------------------------------------
(* What the two modules have in common.                                    *)

LEMMA SameCardinality == ASSUME NEW S PROVE Store!Cardinality(S) = Cardinality(S)
BY DEF Store!Cardinality, Cardinality

LEMMA SameSlots ==
  ASSUME TypeOK
  PROVE  /\ Store!Slots = Slots /\ Store!Used = Used
         /\ Store!Kinds = Kinds
         /\ Store!NextSlot = NextSlot /\ Store!PrevSlot = PrevSlot
         /\ \A n \in Nat : Store!Surplus(n) = Surplus(n)
         /\ SlotOf(BlankRow) = Store!BlankRow
<1>1. Store!Slots = Slots
  BY DEF Store!Slots
<1>2. Store!Used = Used
  BY <1>1 DEF Store!Used, Store!Slots, Used
<1>3. \A n \in Nat : Store!Surplus(n) = Surplus(n)
  BY <1>2, SameCardinality DEF Store!Surplus, Surplus
<1>4. SlotOf(BlankRow) = Store!BlankRow
  BY DEF SlotOf, Contents, BlankRow, Store!BlankRow
<1> QED
  BY <1>1, <1>2, <1>3, <1>4
  DEF Store!Kinds, Kinds, Store!NextSlot, NextSlot, Store!PrevSlot, PrevSlot

LEMMA SameRank ==
  ASSUME TypeOK, NEW i \in Used
  PROVE  Store!Rank(i) = Rank(i)
<1>1. ASSUME NEW k \in Slots, NEW l \in Slots
      PROVE  Store!Precedes(k, l) <=> Precedes(k, l)
  BY DEF Store!Precedes, Precedes
<1>2. {j \in Store!Used : Store!Precedes(j, i)} = {j \in Used : Precedes(j, i)}
  BY <1>1, SameSlots DEF Used
<1>3. Store!Rank(i) = Store!Cardinality({j \in Store!Used : Store!Precedes(j, i)}) + 1
  BY DEF Store!Rank
<1> QED
  BY <1>2, <1>3, SameCardinality DEF Rank

-----------------------------------------------------------------------------
(* What a step shows.                                                      *)

\* Files come and go, but not those of rows: nothing is seen.
LEMMA Unseen ==
  ASSUME AloneInv, UNCHANGED <<rows, maxItems, nextId, clock, made, mixed>>,
         \A f \in FilesOf(Slots) : f \in DOMAIN disk => f \in DOMAIN disk' /\ disk'[f] = disk[f]
  PROVE  UNCHANGED Store!vars
<1>1. \A i \in Slots : rows[i].path # NoPath =>
        rows[i].path \in FilesOf(Slots) /\ rows[i].path \in DOMAIN disk
  BY DEF AloneInv, FilesThere, FilesOf
<1>2. \A i \in Slots : Contents(rows[i])' = Contents(rows[i])
  BY <1>1 DEF Contents
<1> QED
  BY <1>2 DEF Store!vars, Slots

\* Only rows change: the new slots are read off the new rows.
LEMMA RowsSeen ==
  ASSUME UNCHANGED disk
  PROVE  Seen' = [i \in DOMAIN rows' |-> SlotOf(rows'[i])]
BY DEF Seen, SlotOf, Contents, Slots

LEMMA OneRowSeen ==
  ASSUME TypeOK, UNCHANGED disk, NEW id \in Slots, NEW row, rows' = [rows EXCEPT ![id] = row]
  PROVE  Seen' = [Seen EXCEPT ![id] = SlotOf(row)]
<1>1. DOMAIN rows' = Slots /\ Slots = DOMAIN rows
  BY DEF Slots
<1>2. \A i \in Slots : rows'[i] = IF i = id THEN row ELSE rows[i]
  BY DEF Slots
<1> DEFINE new == [i \in Slots |-> SlotOf(rows'[i])]
<1>3. Seen' = new
  BY <1>1, RowsSeen
<1>4. \A i \in Slots : new[i] = IF i = id THEN SlotOf(row) ELSE SlotOf(rows[i])
  BY <1>2
<1>5. DOMAIN new = Slots /\ DOMAIN Seen = Slots /\ \A i \in Slots : Seen[i] = SlotOf(rows[i])
  BY DEF Seen
<1>6. new = [i \in Slots |-> new[i]]
  OBVIOUS
<1>7. Seen = [i \in Slots |-> Seen[i]]
  BY DEF Seen
<1> HIDE DEF new, Seen, SlotOf
<1> QED
  BY <1>3, <1>4, <1>5, <1>6, <1>7

-----------------------------------------------------------------------------
(* The steps, one by one.                                                  *)

\* What a request reads, writes to a file or removes shows nowhere: its own
\* file has a new name, and the file it removes is no row's any more.
LEMMA RequestUnseen ==
  ASSUME StoreInv, AloneInv, NEW p \in Procs,
         \/ BeginRequest(p) \/ Stop(p)
         \/ ReadOldPath(p) \/ CheckLatest(p) \/ ReadBlob(p) \/ LoadEntry(p) \/ Refuse(p)
         \/ WriteFile(p) \/ WriteFails(p) \/ TxnFails(p) \/ Crash(p) \/ Remove(p)
  PROVE  UNCHANGED Store!vars
<1>0. BeginRequest(p) => UNCHANGED <<db, clock, disk>>
  <2>1. \A j : Begin(p, j) => UNCHANGED <<db, clock, disk>>
    BY Zenon DEF Begin
  <2> HIDE DEF db
  <2>2. \A kind, data : BeginInsert(p, kind, data) => UNCHANGED <<db, clock, disk>>
    BY <2>1, Zenon DEF BeginInsert
  <2>3. \A id, kind, data : BeginReplace(p, id, kind, data) => UNCHANGED <<db, clock, disk>>
    BY <2>1, Zenon DEF BeginReplace
  <2>4. \A id, data : BeginPatchText(p, id, data) \/ BeginPatchFile(p, id, data)
                      => UNCHANGED <<db, clock, disk>>
    BY <2>3, Zenon DEF BeginPatchText, BeginPatchFile
  <2>5. \A id : BeginRename(p, id) \/ BeginDelete(p, id) => UNCHANGED <<db, clock, disk>>
    BY <2>1, Zenon DEF BeginRename, BeginDelete
  <2>6. BeginDeleteLatest(p) => UNCHANGED <<db, clock, disk>>
    BY <2>1, Zenon DEF BeginDeleteLatest
  <2> QED
    BY <2>2, <2>3, <2>4, <2>5, <2>6, Zenon DEF BeginRequest
<1>1. UNCHANGED <<rows, maxItems, nextId, clock, made, mixed>>
  <2>1. CASE BeginRequest(p)
    BY <1>0, <2>1, Zenon DEF db
  <2>2. CASE Stop(p) \/ ReadOldPath(p) \/ CheckLatest(p) \/ ReadBlob(p) \/ LoadEntry(p)
    BY <2>2 DEF Stop, ReadOldPath, CheckLatest, ReadBlob, LoadEntry, db
  <2>3. CASE Refuse(p) \/ TxnFails(p) \/ Crash(p)
    BY <2>3 DEF Refuse, TxnFails, Crash, db
  <2>4. CASE WriteFile(p) \/ WriteFails(p) \/ Remove(p)
    BY <2>4 DEF WriteFile, WriteFails, Remove, db
  <2> QED
    BY <2>1, <2>2, <2>3, <2>4
<1>2. \/ UNCHANGED disk
      \/ FreePaths # {} /\ \E data : StoreFile(NewPath, data)
      \/ job[p].pc = "remove" /\ RemoveFiles(job[p].junk)
  <2>1. CASE BeginRequest(p)
    BY <1>0, <2>1, Zenon
  <2>2. CASE Stop(p) \/ ReadOldPath(p) \/ CheckLatest(p) \/ ReadBlob(p) \/ LoadEntry(p)
    BY <2>2 DEF Stop, ReadOldPath, CheckLatest, ReadBlob, LoadEntry, Step
  <2>3. CASE Refuse(p) \/ TxnFails(p) \/ Crash(p)
    BY <2>3 DEF Refuse, TxnFails, Crash, Step
  <2>4. CASE WriteFile(p)
    BY <2>4 DEF WriteFile, Step
  <2>5. CASE WriteFails(p)
    BY <2>5 DEF WriteFails, Step
  <2>6. CASE Remove(p)
    BY <2>6 DEF Remove, Step
  <2> QED
    BY <2>1, <2>2, <2>3, <2>4, <2>5, <2>6
<1>3. CASE UNCHANGED disk
  BY <1>1, <1>3, Unseen
<1>4. CASE FreePaths # {} /\ \E data : StoreFile(NewPath, data)
  <2>1. NewPath \notin FilesOf(Slots)
    BY <1>4, NewPathFree DEF StoreInv
  <2>2. \A f \in DOMAIN disk : f # NewPath => f \in DOMAIN disk' /\ disk'[f] = disk[f]
    BY <1>4 DEF StoreFile
  <2>3. \A f \in FilesOf(Slots) : f \in DOMAIN disk => f \in DOMAIN disk' /\ disk'[f] = disk[f]
    BY <2>1, <2>2
  <2> QED
    BY <1>1, <2>3, Unseen
<1>5. CASE job[p].pc = "remove" /\ RemoveFiles(job[p].junk)
  <2>1. job[p].junk \intersect FilesOf(Slots) = {}
    BY DEF AloneInv, Undisturbed
  <2>2. \A f \in FilesOf(Slots) : f \in DOMAIN disk => f \in DOMAIN disk' /\ disk'[f] = disk[f]
    BY <1>5, <2>1 DEF RemoveFiles
  <2> QED
    BY <1>1, <2>2, Unseen
<1> QED
  BY <1>2, <1>3, <1>4, <1>5

\* A commit is the operation, in one step.
LEMMA CommitSeen ==
  ASSUME StoreInv, AloneInv, NEW p \in Procs,
         CommitInsert(p) \/ CommitUpdate(p) \/ CommitDelete(p)
  PROVE  Store!Next
<1>0. /\ TypeOK /\ job[p] \in Job /\ JobRight(job[p]) /\ Undisturbed(job[p])
      /\ job[p].pc = "txn"
  BY DEF StoreInv, TypeOK, JobsRight, AloneInv, CommitInsert, CommitUpdate, CommitDelete, Step
<1>1. UNCHANGED disk /\ job[p].id \in Slots
  BY DEF CommitInsert, CommitUpdate, CommitDelete
<1>2. PICK id \in Slots : id = job[p].id
  BY <1>1
<1>3. ASSUME NEW stored, NEW seq, job[p].op \in {"insert", "update"},
             NEW kind, kind = job[p].kind,
             NEW data, data = IF kind = "file" THEN disk[job[p].new] ELSE job[p].data
      PROVE  /\ kind \in Kinds /\ data \in Filed
             /\ SlotOf(RowOf(job[p], stored, seq)) =
                  [used |-> TRUE, kind |-> kind, data |-> data, stored |-> stored, seq |-> seq]
  <2>1. /\ kind \in Kinds /\ data \in Filed
        /\ job[p].new # NoPath <=> kind = "file"
        /\ job[p].new # NoPath => job[p].new \in DOMAIN disk /\ disk[job[p].new] = data
        /\ kind # "file" => job[p].data = data
    BY <1>0, <1>3 DEF JobRight, Undisturbed
  <2> QED
    BY <1>3, <2>1 DEF SlotOf, RowOf, Contents, Kinds
<1>4. CASE CommitInsert(p)
  <2>1. /\ job[p].op = "insert" /\ made < MaxMade /\ made' = made + 1
        /\ rows' = [rows EXCEPT ![id] = RowOf(job[p], clock, made + 1)]
        /\ nextId' = NextSlot /\ UNCHANGED <<maxItems, mixed, clock>>
    BY <1>2, <1>4 DEF CommitInsert
  <2>2. id = nextId
    BY <1>0, <1>2, <2>1 DEF Undisturbed
  <2>3. PICK kind, data : /\ kind = job[p].kind
                          /\ data = IF kind = "file" THEN disk[job[p].new] ELSE job[p].data
    OBVIOUS
  <2>4. /\ kind \in Kinds /\ data \in Filed
        /\ Seen' = [Seen EXCEPT ![id] = [used |-> TRUE, kind |-> kind, data |-> data,
                                         stored |-> clock, seq |-> made + 1]]
    <3>1. Seen' = [Seen EXCEPT ![id] = SlotOf(RowOf(job[p], clock, made + 1))]
      BY <1>0, <1>1, <2>1, OneRowSeen
    <3>2. /\ kind \in Kinds /\ data \in Filed
          /\ SlotOf(RowOf(job[p], clock, made + 1)) =
               [used |-> TRUE, kind |-> kind, data |-> data,
                stored |-> clock, seq |-> made + 1]
      BY <1>3, <2>1, <2>3
    <3> QED
      BY <3>1, <3>2
  <2>5. Store!Insert(kind, data)
    BY <1>0, <2>1, <2>2, <2>4, SameSlots DEF Store!Insert, Seen, SlotOf
  <2> QED
    BY <1>0, <2>4, <2>5, SameSlots DEF Store!Next
<1>5. CASE CommitUpdate(p)
  <2>1. /\ job[p].op = "update"
        /\ rows' = [rows EXCEPT ![id] = RowOf(job[p], rows[id].stored, rows[id].seq)]
        /\ UNCHANGED <<maxItems, nextId, made, mixed, clock>>
    BY <1>2, <1>5 DEF CommitUpdate
  <2>2. id \in Used
    BY <1>0, <1>2, <2>1 DEF Undisturbed
  <2>3. PICK kind, data : /\ kind = job[p].kind
                          /\ data = IF kind = "file" THEN disk[job[p].new] ELSE job[p].data
    OBVIOUS
  <2>4. /\ kind \in Kinds /\ data \in Filed
        /\ Seen' = [Seen EXCEPT ![id] =
                      [used |-> TRUE, kind |-> kind, data |-> data,
                       stored |-> rows[id].stored, seq |-> rows[id].seq]]
    <3>1. Seen' = [Seen EXCEPT ![id] =
                     SlotOf(RowOf(job[p], rows[id].stored, rows[id].seq))]
      BY <1>0, <1>1, <2>1, OneRowSeen
    <3>2. /\ kind \in Kinds /\ data \in Filed
          /\ SlotOf(RowOf(job[p], rows[id].stored, rows[id].seq)) =
               [used |-> TRUE, kind |-> kind, data |-> data,
                stored |-> rows[id].stored, seq |-> rows[id].seq]
      BY <1>3, <2>1, <2>3
    <3> QED
      BY <3>1, <3>2
  <2>5. rows[id].used = TRUE
    BY <1>0, <2>2, RowFacts DEF Used
  <2>6. Store!Replace(id, kind, data)
    BY <1>0, <2>1, <2>2, <2>4, <2>5, SameSlots DEF Store!Replace, Seen, SlotOf
  <2> QED
    BY <1>0, <2>4, <2>6, SameSlots DEF Store!Next, Store!Update
<1>6. CASE CommitDelete(p)
  <2>1. /\ rows' = [rows EXCEPT ![id] = BlankRow]
        /\ UNCHANGED <<maxItems, nextId, made, mixed, clock>>
    BY <1>2, <1>6 DEF CommitDelete
  <2>2. Seen' = [Seen EXCEPT ![id] = Store!BlankRow]
    BY <1>0, <1>1, <2>1, OneRowSeen, SameSlots
  <2>3. Store!Delete(id)
    BY <2>1, <2>2 DEF Store!Delete, Seen, SlotOf
  <2> QED
    BY <1>0, <2>3, SameSlots DEF Store!Next
<1> QED
  BY <1>4, <1>5, <1>6

LEMMA SwapSeen ==
  ASSUME StoreInv, NEW p \in Procs, NEW i \in Slots, NEW k \in Slots, Swap(p, i, k)
  PROVE  Store!Next
<1>0. TypeOK
  BY DEF StoreInv
<1>1. /\ i # k /\ mixed' = TRUE /\ UNCHANGED <<disk, maxItems, nextId, made, clock>>
      /\ DOMAIN rows' = Slots
      /\ \A q \in Slots : rows'[q] = IF q = k THEN rows[i] ELSE IF q = i THEN rows[k] ELSE rows[q]
  BY DEF Swap, Slots
<1>2. Seen' = [q \in Slots |-> SlotOf(rows'[q])]
  BY <1>1, RowsSeen
<1>3. Seen' = [Seen EXCEPT ![i] = Seen[k], ![k] = Seen[i]]
  BY <1>1, <1>2 DEF Seen
<1>4. Store!Swap(i, k)
  BY <1>1, <1>3 DEF Store!Swap, Seen, SlotOf
<1> QED
  BY <1>0, <1>4, SameSlots DEF Store!Next

\* Both modules choose the same row for a position: ranks differ.
LEMMA CompactedSeen ==
  ASSUME StoreInv, NEW n \in Nat, NEW drop \in Nat,
         rows' = Compacted(n, drop), UNCHANGED disk
  PROVE  Seen' = Store!Compacted(n, drop)
<1> DEFINE theirs(q) == CHOOSE i \in Store!Used : Store!Rank(i) = q + drop
           new == Compacted(n, drop)
<1>0. TypeOK
  BY DEF StoreInv
<1>1. ASSUME NEW q \in 1..n
      PROVE  SlotOf(new[q]) = IF \E i \in Store!Used : Store!Rank(i) = q + drop
                              THEN Seen[theirs(q)] ELSE Store!BlankRow
  <2>1. Store!Used = Used /\ \A i \in Used : Store!Rank(i) = Rank(i)
    BY <1>0, SameSlots, SameRank
  <2>2. CASE \E i \in Used : Rank(i) = q + drop
    <3>1. theirs(q) \in Used /\ Rank(theirs(q)) = q + drop
      BY <2>1, <2>2
    <3>2. Source(q, drop) \in Used /\ Rank(Source(q, drop)) = q + drop
      BY <2>2 DEF Source
    <3>3. Source(q, drop) = theirs(q)
      BY <1>0, <3>1, <3>2, RanksDiffer
    <3>4. new[q] = rows[Source(q, drop)]
      BY <2>2 DEF Compacted, Source
    <3>5. Seen[theirs(q)] = SlotOf(rows[theirs(q)])
      BY <3>1 DEF Seen, Used
    <3> HIDE DEF theirs, new
    <3> QED
      BY <2>1, <2>2, <3>3, <3>4, <3>5
  <2>3. CASE ~\E i \in Used : Rank(i) = q + drop
    <3>1. new[q] = BlankRow
      BY <2>3 DEF Compacted
    <3>2. SlotOf(BlankRow) = Store!BlankRow
      BY <1>0, SameSlots
    <3> HIDE DEF new
    <3> QED
      BY <2>1, <2>3, <3>1, <3>2
  <2> QED
    BY <2>2, <2>3
<1>2. DOMAIN new = 1..n
  BY DEF Compacted
<1>3. Store!Compacted(n, drop) =
        [q \in 1..n |-> IF \E i \in Store!Used : Store!Rank(i) = q + drop
                        THEN Seen[theirs(q)] ELSE Store!BlankRow]
  BY DEF Store!Compacted, Seen, SlotOf
<1> HIDE DEF new
<1>4. Seen' = [q \in 1..n |-> SlotOf(new[q])]
  <2>1. rows' = new
    BY DEF new
  <2> QED
    BY <1>2, <2>1, RowsSeen
<1> QED
  BY <1>1, <1>3, <1>4

LEMMA ResequenceSeen ==
  ASSUME StoreInv, NEW p \in Procs, Resequence(p)
  PROVE  Store!Next
<1>0. TypeOK /\ maxItems \in Nat /\ 0 \in Nat
  BY SlotFacts DEF StoreInv
<1>1. /\ rows' = Compacted(maxItems, 0) /\ UNCHANGED disk
      /\ nextId' = IF Cardinality(Used) >= maxItems THEN 1 ELSE Cardinality(Used) + 1
      /\ mixed' = FALSE /\ UNCHANGED <<maxItems, clock, made>>
  BY DEF Resequence
<1>2. Seen' = Store!Compacted(maxItems, 0)
  BY <1>0, <1>1, CompactedSeen
<1>3. nextId' = IF Store!Cardinality(Store!Used) >= maxItems THEN 1
                ELSE Store!Cardinality(Store!Used) + 1
  BY <1>0, <1>1, SameSlots, SameCardinality
<1>4. Store!Resequence
  BY <1>1, <1>2, <1>3 DEF Store!Resequence, Seen, SlotOf
<1> QED
  BY <1>4 DEF Store!Next

LEMMA StartSeen ==
  ASSUME StoreInv, AloneInv, NEW p \in Procs, StartUp(p)
  PROVE  Store!Next \/ UNCHANGED Store!vars
<1>0. TypeOK /\ Slots = 1..maxItems /\ maxItems \in Nat
  BY SlotFacts DEF StoreInv
<1>1. CASE StartSame(p)
  <2>1. UNCHANGED <<rows, maxItems, nextId, clock, made, mixed, disk>>
    BY <1>1 DEF StartSame, Restart
  <2> QED
    BY <2>1, Unseen
<1>2. ASSUME NEW n \in 1..MaxSlots, StartLarger(p, n)
      PROVE  Store!Next
  <2>1. /\ n > maxItems /\ n \in Nat /\ maxItems' = n
        /\ rows' = [i \in 1..n |-> IF i <= maxItems THEN rows[i] ELSE BlankRow]
        /\ UNCHANGED <<nextId, mixed, made, disk, clock>>
    BY <1>2 DEF StartLarger, Restart
  <2>2. Seen' = [i \in 1..n |-> SlotOf(rows'[i])]
    BY <2>1, RowsSeen
  <2>3. ASSUME NEW i \in 1..n
        PROVE  SlotOf(rows'[i]) = IF i <= maxItems THEN Seen[i] ELSE Store!BlankRow
    <3>1. rows'[i] = IF i <= maxItems THEN rows[i] ELSE BlankRow
      BY <2>1
    <3>2. i <= maxItems => Seen[i] = SlotOf(rows[i])
      BY <1>0, <2>1 DEF Seen
    <3> QED
      BY <1>0, <3>1, <3>2, SameSlots
  <2>4. Seen' = [i \in 1..n |-> IF i <= maxItems THEN Seen[i] ELSE Store!BlankRow]
    BY <2>2, <2>3
  <2>5. Store!Grow(n)
    BY <2>1, <2>4 DEF Store!Grow, Seen, SlotOf
  <2> QED
    BY <2>5 DEF Store!Next, Store!Resize
<1>3. ASSUME NEW n \in 1..MaxSlots, StartSmaller(p, n)
      PROVE  Store!Next
  <2>1. /\ n < maxItems /\ n \in Nat /\ maxItems' = n
        /\ \A i \in Used : i <= n
        /\ rows' = [i \in 1..n |-> rows[i]]
        /\ nextId' = IF nextId > n THEN 1 ELSE nextId
        /\ UNCHANGED <<mixed, made, disk, clock>>
    BY <1>3 DEF StartSmaller, Restart
  <2>2. Seen' = [i \in 1..n |-> SlotOf(rows'[i])]
    BY <2>1, RowsSeen
  <2>3. \A i \in 1..n : SlotOf(rows'[i]) = Seen[i]
    BY <1>0, <2>1 DEF Seen
  <2>4. Seen' = [i \in 1..n |-> Seen[i]]
    BY <2>2, <2>3
  <2>5. Store!Shrink(n)
    BY <1>0, <2>1, <2>4, SameSlots DEF Store!Shrink, Seen, SlotOf
  <2> QED
    BY <2>5 DEF Store!Next, Store!Resize
<1>4. ASSUME NEW n \in 1..MaxSlots, StartForced(p, n)
      PROVE  Store!Next
  <2>1. /\ n < maxItems /\ n \in Nat /\ maxItems' = n
        /\ rows' = Compacted(n, Surplus(n))
        /\ nextId' = 1 /\ mixed' = FALSE
        /\ UNCHANGED <<made, disk, clock>>
    BY <1>4 DEF StartForced, Restart
  <2>2. Surplus(n) \in Nat /\ Store!Surplus(n) = Surplus(n)
    BY <1>0, <2>1, SurplusType, SameSlots
  <2>3. Seen' = Store!Compacted(n, Store!Surplus(n))
    BY <2>1, <2>2, CompactedSeen
  <2>4. Store!ForceShrink(n)
    BY <2>1, <2>3 DEF Store!ForceShrink, Seen, SlotOf
  <2> QED
    BY <2>4 DEF Store!Next, Store!Resize
<1> QED
  BY <1>1, <1>2, <1>3, <1>4 DEF StartUp

LEMMA InitSeen == Init => Store!Init
<1> SUFFICES ASSUME Init PROVE Store!Init
  OBVIOUS
<1>1. /\ Slots = 1..maxItems /\ \A i \in Slots : rows[i] = BlankRow
  BY DEF Init, Slots
<1>2. SlotOf(BlankRow) = Store!BlankRow
  BY DEF SlotOf, Contents, BlankRow, Store!BlankRow
<1>3. Seen = [i \in 1..maxItems |-> Store!BlankRow]
  BY <1>1, <1>2 DEF Seen
<1> QED
  BY <1>3 DEF Init, Store!Init, Seen, SlotOf

\* Every step is a step of the one-step store or shows nothing.
LEMMA StepSeen ==
  ASSUME StoreInv, AloneInv, [Next]_vars
  PROVE  [Store!Next]_(Store!vars)
<1>1. ASSUME NEW p \in Procs,
             \/ BeginRequest(p) \/ Continue(p)
             \/ \E i, k \in Slots : Swap(p, i, k)
             \/ Resequence(p)
             \/ StartUp(p) \/ Crash(p) \/ Stop(p)
      PROVE  Store!Next \/ UNCHANGED Store!vars
  <2>1. Continue(p) => Store!Next \/ UNCHANGED Store!vars
    BY RequestUnseen, CommitSeen DEF Continue
  <2> QED
    BY <1>1, <2>1, RequestUnseen, SwapSeen, ResequenceSeen, StartSeen
<1>2. CASE Tick
  <2>1. /\ clock < MaxClock /\ clock' = clock + 1
        /\ UNCHANGED <<rows, maxItems, nextId, made, mixed, disk>>
    BY <1>2 DEF Tick, db
  <2>2. Seen' = Seen
    BY <2>1 DEF Seen, SlotOf, Contents, Slots
  <2>3. Store!Tick
    BY <2>1, <2>2 DEF Store!Tick, Seen, SlotOf
  <2> QED
    BY <2>3 DEF Store!Next
<1>3. CASE UNCHANGED vars
  <2>1. UNCHANGED <<rows, maxItems, nextId, clock, made, mixed, disk>>
    BY <1>3 DEF vars, db
  <2> QED
    BY <2>1, Unseen
<1> QED
  BY <1>1, <1>2, <1>3 DEF Next

-----------------------------------------------------------------------------
\* While no second process uses the database, entry_store with its files is
\* the one-step store: every request takes effect at its commit or not at all,
\* and crashes, half-finished requests and writes that were seen to fail show
\* nowhere.  An error that nobody looked at shows as contents that are cut
\* short (file_storage.cpp), and in no other way.
THEOREM StoreImplemented == ASSUME Alone PROVE Spec => ImplementsStore
BY InitSeen, StepSeen, StoreInvHolds, AloneInvHolds, PTL DEF Spec, ImplementsStore, Store!Spec
=============================================================================
