------------------------ MODULE RootController_proofs ------------------------
(***************************************************************************)
(* Theorems of RootController, for every set of bodies, every pair of      *)
(* limits and any other processes with the same limits: requests keep the  *)
(* types, every record is acceptable, and answers are what they should be. *)
(*                                                                         *)
(* What a handler does to the store is a step of KaringStore (StoreStep),  *)
(* so that every theorem of KaringStore_proofs holds of the server.        *)
(***************************************************************************)
EXTENDS RootController, KaringStore_proofs

\* What OnlyAcceptable asks of a record, by its kind and its contents.
Acceptable(kind, data) ==
  \/ kind = "text" /\ data.mime = "plain" /\ ~data.named /\ data.size \in 1..MaxText
  \/ kind = "file" /\ data.mime \in Supported /\ data.size \in 1..MaxFile

\* What a PATCH may carry: "none" and 0 are for what the record keeps.
Change(kind, data) ==
  /\ data.named \in BOOLEAN
  /\ \/ kind = "text" /\ data.mime = "plain" /\ ~data.named /\ data.size \in 0..MaxText
     \/ /\ kind = "file" /\ data.mime \in Supported \union {"none"}
        /\ data.size \in 0..MaxFile

\* What is known of a request at each point of its handler.
Pending(r) ==
  /\ r.pc = "latest" => r.op \in LatestReads
  /\ r.pc = "record" => r.op \in Reads \ {"download"}
  /\ r.pc = "blob" => r.op \in Reads \ JsonReads
  /\ r.pc = "write" => r.op \in Writes /\ ~r.done
  /\ r.pc = "write" /\ r.op \in {"post", "put"} =>
       r.data \in Contents /\ Acceptable(r.kind, r.data)
  /\ r.pc = "write" /\ r.op = "patch" => Change(r.kind, r.data)
  /\ r.pc \in {"first", "second"} => r.op = "swap" /\ r.done
  /\ r.pc = "second" => r.status \in {200, 404}
  /\ r.pc = "list" => r.op = "resequence" /\ r.done

RootInv == RootTypeOK /\ Pending(req) /\ OnlyAcceptable

-----------------------------------------------------------------------------
(* What the checks of the bodies let through.                              *)

LEMMA TypesFacts ==
  ASSUME NEW b \in Body
  PROVE  /\ TypeOf(b) \in Types
         /\ Guess[b.name] \in Supported \union {"none"}
         /\ KindOf(b) \in Kinds
         /\ b.form \in {"json", "list", "multipart", "other"} /\ b.size \in Nat
         /\ b.titled \in BOOLEAN
         /\ MaxText \in Nat /\ MaxFile \in Nat
         /\ Largest \in Nat /\ MaxText <= Largest /\ MaxFile <= Largest
<1>1. /\ b.name \in DOMAIN Guess /\ b.form \in {"json", "list", "multipart", "other"}
      /\ b.size \in 0..(Largest + 1) /\ b.titled \in BOOLEAN
  BY DEF Body
<1>2. DOMAIN Guess = {"txt", "js", "none", "empty"}
  BY DEF Guess
<1>3. /\ Guess["txt"] = "plain" /\ Guess["js"] = "json"
      /\ Guess["none"] = "none" /\ Guess["empty"] = "none"
  BY DEF Guess
<1>4. Guess[b.name] \in Supported \union {"none"}
  BY <1>1, <1>2, <1>3 DEF Supported
<1>5. TypeOf(b) \in Types
  BY DEF TypeOf, Types
<1>6. /\ MaxText \in Nat /\ MaxFile \in Nat
      /\ Largest \in Nat /\ MaxText <= Largest /\ MaxFile <= Largest
  BY SizeAssumption DEF Largest
<1>7. KindOf(b) \in Kinds
  BY DEF KindOf, Kinds
<1> QED
  BY <1>1, <1>4, <1>5, <1>6, <1>7

LEMMA CreatedAcceptable ==
  ASSUME NEW b \in Body
  PROVE  /\ CreateStatus(b) \in {0, 400, 413, 415, 500}
         /\ CreateStatus(b) = 0 => /\ Created(b) \in Contents
                                   /\ Acceptable(KindOf(b), Created(b))
<1>0. /\ TypeOf(b) \in Types
      /\ b.form \in {"json", "list", "multipart", "other"} /\ b.size \in Nat
      /\ MaxText \in Nat /\ MaxFile \in Nat
      /\ Largest \in Nat /\ MaxText <= Largest /\ MaxFile <= Largest
  BY TypesFacts
<1>1. CreateStatus(b) \in {0, 400, 413, 415, 500}
  BY DEF CreateStatus
<1>2. SUFFICES ASSUME CreateStatus(b) = 0
               PROVE  Created(b) \in Contents /\ Acceptable(KindOf(b), Created(b))
  BY <1>1
<1>3. /\ b.form \in {"json", "multipart"} /\ b.size # 0
      /\ b.form = "multipart" => TypeOf(b) \in Supported /\ b.size <= MaxFile
      /\ b.form = "json" => b.size <= MaxText
  BY <1>0, <1>2 DEF CreateStatus
<1>4. CASE b.form = "json"
  <2>1. /\ Created(b) = [mime |-> "plain", size |-> b.size, named |-> FALSE]
        /\ KindOf(b) = "text"
    BY <1>4 DEF Created, KindOf
  <2>2. b.size \in 1..MaxText /\ b.size \in 1..Largest
    BY <1>0, <1>3, <1>4
  <2> QED
    BY <2>1, <2>2 DEF Acceptable, Contents, Supported
<1>5. CASE b.form = "multipart"
  <2>1. PICK named \in BOOLEAN : named = (b.name # "empty")
    OBVIOUS
  <2>3. /\ Created(b) = [mime |-> TypeOf(b), size |-> b.size, named |-> named]
        /\ KindOf(b) = "file"
    BY <1>5, <2>1 DEF Created, KindOf
  <2>2. b.size \in 1..MaxFile /\ b.size \in 1..Largest
    BY <1>0, <1>3, <1>5
  <2> QED
    BY <1>3, <1>5, <2>2, <2>3 DEF Acceptable, Contents
<1> QED
  BY <1>3, <1>4, <1>5

LEMMA PatchedAcceptable ==
  ASSUME NEW b \in Body
  PROVE  /\ PatchStatus(b) \in {0, 400, 413, 415, 500}
         /\ PatchStatus(b) = 0 =>
              /\ Patch0(b) \in Sent
              /\ Change(KindOf(b), Patch0(b))
<1>0. /\ Guess[b.name] \in Supported \union {"none"} /\ b.titled \in BOOLEAN
      /\ b.form \in {"json", "list", "multipart", "other"} /\ b.size \in Nat
      /\ MaxText \in Nat /\ MaxFile \in Nat
      /\ Largest \in Nat /\ MaxText <= Largest /\ MaxFile <= Largest
  BY TypesFacts
<1>1. PatchStatus(b) \in {0, 400, 413, 415, 500}
  BY DEF PatchStatus
<1>2. SUFFICES ASSUME PatchStatus(b) = 0
               PROVE  /\ Patch0(b) \in Sent
                      /\ Change(KindOf(b), Patch0(b))
  BY <1>1
<1>3. /\ b.form \in {"json", "multipart"}
      /\ b.form = "multipart" => b.size <= MaxFile
      /\ b.form = "multipart" /\ b.mime # "none" => TypeOf(b) \in Supported
      /\ b.form = "json" => b.size <= MaxText
  BY <1>0, <1>2 DEF PatchStatus
<1>4. CASE b.form = "json"
  <2>1. /\ Patch0(b) = [mime |-> "plain", size |-> b.size, named |-> FALSE]
        /\ KindOf(b) = "text"
    BY <1>4 DEF Patch0, KindOf
  <2>2. b.size \in 0..MaxText /\ b.size \in 0..Largest
    BY <1>0, <1>3, <1>4
  <2> QED
    BY <2>1, <2>2 DEF Change, Supported, Sent
<1>5. CASE b.form = "multipart"
  <2>1. PICK mime \in Supported \union {"none"} :
          Patch0(b) = [mime |-> mime, size |-> b.size, named |-> b.titled]
    <3>1. CASE b.mime # "none"
      BY <1>0, <1>3, <1>5, <3>1 DEF Patch0
    <3>2. CASE b.mime = "none"
      BY <1>0, <1>5, <3>2 DEF Patch0
    <3> QED
      BY <3>1, <3>2
  <2>2. KindOf(b) = "file" /\ b.size \in 0..MaxFile /\ b.size \in 0..Largest
    BY <1>0, <1>3, <1>5 DEF KindOf
  <2> QED
    BY <1>0, <2>1, <2>2 DEF Change, Sent
<1> QED
  BY <1>3, <1>4, <1>5

\* A patched record has the type and the contents of one request or another.
LEMMA OverAcceptable ==
  ASSUME NEW kind \in Kinds, NEW old \in Contents, NEW new, Change(kind, new),
         Acceptable(kind, old)
  PROVE  Over(new, old) \in Contents /\ Acceptable(kind, Over(new, old))
<1>1. /\ MaxText \in Nat /\ MaxFile \in Nat
      /\ Largest \in Nat /\ MaxText <= Largest /\ MaxFile <= Largest
  BY SizeAssumption DEF Largest
<1> DEFINE mime == IF new.mime = "none" THEN old.mime ELSE new.mime
           size == IF new.size = 0 THEN old.size ELSE new.size
<1> DEFINE named == new.named \/ old.named
<1>2. /\ Over(new, old) = [mime |-> mime, size |-> size, named |-> named]
      /\ named \in BOOLEAN
  BY DEF Over
<1>3. CASE kind = "text"
  <2>1. mime = "plain" /\ ~named /\ size \in 1..MaxText
    BY <1>1, <1>3 DEF Change, Acceptable
  <2>2. size \in 1..Largest
    BY <1>1, <2>1
  <2> QED
    BY <1>2, <1>3, <2>1, <2>2 DEF Acceptable, Contents, Supported
<1>4. CASE kind = "file"
  <2>1. mime \in Supported /\ size \in 1..MaxFile
    BY <1>1, <1>4 DEF Change, Acceptable
  <2>2. size \in 1..Largest
    BY <1>1, <2>1
  <2> QED
    BY <1>2, <1>4, <2>1, <2>2 DEF Acceptable, Contents
<1> QED
  BY <1>3, <1>4 DEF Kinds

-----------------------------------------------------------------------------
(* What the handlers and other processes do to the store.                  *)

\* Another process does what the store can do.
LEMMA TheirsIsNext ==
  ASSUME Theirs!Next
  PROVE  Next
<1>1. Foreign \subseteq Data
  BY ContentsAssumption
<1>2. ASSUME NEW kind \in Kinds, NEW data \in Foreign, Theirs!Insert(kind, data)
      PROVE  Next
  BY <1>1, <1>2 DEF Theirs!Insert, Theirs!NextSlot, Next, Insert, NextSlot
<1>3. CASE Theirs!Update
  BY <1>1, <1>3
  DEF Theirs!Update, Theirs!Patch, Theirs!Replace, Theirs!Slots, Theirs!Used, Theirs!Kinds,
      Next, Update, Patch, Replace, Slots, Used, Kinds
<1>4. ASSUME NEW id \in Slots, Theirs!Delete(id)
      PROVE  Next
  BY <1>4 DEF Theirs!Delete, Theirs!BlankRow, Next, Delete, BlankRow
<1>5. CASE Theirs!DeleteLatest
  BY <1>5
  DEF Theirs!DeleteLatest, Theirs!Delete, Theirs!BlankRow, Theirs!PrevSlot,
      Next, DeleteLatest, Delete, BlankRow, PrevSlot
<1>6. ASSUME NEW i \in Slots, NEW j \in Slots, Theirs!Swap(i, j)
      PROVE  Next
  BY <1>6 DEF Theirs!Swap, Next, Swap
<1>7. /\ \A n, drop : Theirs!Compacted(n, drop) = Compacted(n, drop)
      /\ Theirs!Used = Used
      /\ \A S : Theirs!Cardinality(S) = Cardinality(S)
      /\ \A n : Theirs!Surplus(n) = Surplus(n)
  <2>1. \A S : Theirs!Cardinality(S) = Cardinality(S)
    BY DEF Theirs!Cardinality, Cardinality
  <2>2. Theirs!Used = Used /\ Theirs!BlankRow = BlankRow
    BY DEF Theirs!Used, Theirs!Slots, Theirs!BlankRow, Used, Slots, BlankRow
  <2>3. \A i : Theirs!Rank(i) = Rank(i)
    BY <2>1, <2>2 DEF Theirs!Rank, Theirs!Precedes, Rank, Precedes
  <2>4. \A n, drop : Theirs!Compacted(n, drop) = Compacted(n, drop)
    BY <2>2, <2>3 DEF Theirs!Compacted, Compacted
  <2>5. \A n : Theirs!Surplus(n) = Surplus(n)
    BY <2>1, <2>2 DEF Theirs!Surplus, Surplus
  <2> QED
    BY <2>1, <2>2, <2>4, <2>5
<1>8. CASE Theirs!Resequence
  BY <1>7, <1>8 DEF Theirs!Resequence, Next, Resequence
<1>9. ASSUME NEW n \in 1..MaxSlots,
             Theirs!Grow(n) \/ Theirs!Shrink(n) \/ Theirs!ForceShrink(n)
      PROVE  Next
  <2>1. Grow(n) \/ Shrink(n) \/ ForceShrink(n)
    BY <1>7, <1>9
    DEF Theirs!Grow, Theirs!Shrink, Theirs!ForceShrink, Theirs!BlankRow,
        Grow, Shrink, ForceShrink, BlankRow
  <2> QED
    BY <2>1 DEF Next, Resize
<1>10. CASE Theirs!Tick
  BY <1>10 DEF Theirs!Tick, Next, Tick
<1> QED
  BY <1>2, <1>3, <1>4, <1>5, <1>6, <1>8, <1>9, <1>10
  DEF Theirs!Next, Theirs!Resize, Theirs!Slots, Theirs!Kinds, Slots, Kinds

\* A handler only calls the store with what the store takes.
LEMMA StoreStep ==
  ASSUME TypeOK, RootInv, [RNext]_rvars
  PROVE  [Next]_vars
<1>1. CASE Request
  BY <1>1
  DEF Request, GetLatest, GetUnsupported, GetById, Post, Put, PatchKaring, DeleteKaring,
      SwapKaring, ResequenceKaring, Begin
<1>2. CASE Write
  <2>1. CASE WritePost
    <3>1. req.data \in Data /\ req.kind \in Kinds
      BY <2>1, ContentsAssumption
      DEF WritePost, Written, RootInv, Pending, Acceptable, Kinds
    <3> QED
      BY <2>1, <3>1 DEF WritePost, Next
  <2>2. CASE WritePut
    <3>1. req.data \in Data /\ req.kind \in Kinds
      BY <2>2, ContentsAssumption
      DEF WritePut, Written, RootInv, Pending, Acceptable, Kinds
    <3>2. req.id \in Slots
      BY <2>2 DEF WritePut, Replace, Used
    <3> QED
      BY <2>2, <3>1, <3>2 DEF WritePut, Next, Update
  <2>3. CASE WritePatch
    <3>1. /\ req.id \in Used /\ req.id \in Slots
          /\ Change(req.kind, req.data) /\ slots[req.id].kind = req.kind
      BY <2>3 DEF WritePatch, Written, RootInv, Pending, Used
    <3>2. slots[req.id].data \in Contents /\ req.kind \in Kinds
      BY <3>1, RowFacts, ContentsAssumption DEF UsedRow
    <3>3. Acceptable(req.kind, slots[req.id].data)
      BY <3>1 DEF RootInv, OnlyAcceptable, Acceptable
    <3>4. Over(req.data, slots[req.id].data) \in Data
      BY <3>1, <3>2, <3>3, OverAcceptable, ContentsAssumption
    <3> QED
      BY <2>3, <3>1, <3>4 DEF WritePatch, Next, Update
  <2>4. CASE WriteDelete
    BY <2>4 DEF WriteDelete, Next
  <2>5. CASE WriteSwap
    BY <2>5 DEF WriteSwap, Next
  <2>6. CASE WriteResequence
    BY <2>6 DEF WriteResequence, Next
  <2> QED
    BY <1>2, <2>1, <2>2, <2>3, <2>4, <2>5, <2>6 DEF Write
<1>3. CASE Elsewhere
  BY <1>3, TheirsIsNext DEF Elsewhere, Next
<1>4. CASE FindLatest \/ LoadRecord \/ ReadBlob \/ WriteRefused \/ ReadFirst \/ ReadSecond
           \/ ReadBack \/ UNCHANGED rvars
  BY <1>4
  DEF FindLatest, LoadRecord, ReadBlob, WriteRefused, ReadFirst, ReadSecond, ReadBack,
      Quiet, rvars
<1>5. CASE Forget
  BY <1>5 DEF Forget
<1> QED
  BY <1>1, <1>2, <1>3, <1>4, <1>5 DEF RNext, Handle

-----------------------------------------------------------------------------
(* Types, and what is known of a request, through every step.              *)

LEMMA HeldType ==
  ASSUME NEW n, NEW table \in [1..n -> UsedRow \union {BlankRow}], NEW id
  PROVE  Held(table, id) \subseteq [kind : Kinds, data : Contents]
<1>1. \A i \in 1..n : table[i].used => table[i] \in UsedRow
  BY DEF BlankRow
<1>2. \A i \in 1..n : table[i].used => table[i].kind \in Kinds /\ table[i].data \in Contents
  BY <1>1, ContentsAssumption DEF UsedRow
<1> QED
  BY <1>2 DEF Held

LEMMA WatchType ==
  ASSUME TypeOK', RootTypeOK, Watch
  PROVE  moments' \subseteq [kind : Kinds, data : Contents]
<1>1. Held(slots', req'.id) \subseteq [kind : Kinds, data : Contents]
  BY HeldType DEF TypeOK
<1> QED
  BY <1>1 DEF Watch, RootTypeOK

\* The numbers and words a request is made of.
LEMMA RequestValues ==
  /\ NoBody \in Sent /\ Contents \subseteq Sent
  /\ Empty \in Shown /\ \A data \in Contents : data \in Shown /\ CutShort(data) \in Shown
  /\ Idle \in Req
  /\ 1..MaxSlots \subseteq Ids
<1>1. Largest \in Nat
  BY SizeAssumption DEF Largest
<1>2. NoBody \in Sent /\ Contents \subseteq Sent
  BY <1>1 DEF NoBody, Contents, Sent
<1>3. "idle" \in Points /\ 0 \in Statuses
  BY DEF Points, Statuses
<1>6. Empty \in Shown /\ \A data \in Contents : data \in Shown /\ CutShort(data) \in Shown
  BY DEF Shown
<1>4. Idle \in Req
  BY <1>2, <1>3, <1>6 DEF Idle, Req
<1>5. 1..MaxSlots \subseteq Ids
  BY SlotsAssumption DEF Ids, Unparsable
<1> QED
  BY <1>2, <1>4, <1>5, <1>6

\* A request stays a request when one of its fields changes.
LEMMA RequestChanged ==
  ASSUME NEW q \in Req
  PROVE  /\ \A pc \in Points : [q EXCEPT !.pc = pc] \in Req
         /\ \A op \in Reads \union Writes \union {"none"} : [q EXCEPT !.op = op] \in Req
         /\ \A id \in Ids \union {Missing} : [q EXCEPT !.id = id] \in Req
         /\ \A id \in Ids \union {Missing} : [q EXCEPT !.other = id] \in Req
         /\ \A kind \in Kinds \union {"none"} : [q EXCEPT !.kind = kind] \in Req
         /\ \A data \in Sent : [q EXCEPT !.data = data] \in Req
         /\ [q EXCEPT !.done = TRUE] \in Req
         /\ \A status \in Statuses : [q EXCEPT !.status = status] \in Req
         /\ \A shown \in Shown : [q EXCEPT !.shown = shown] \in Req
<1>1. \A pc \in Points : [q EXCEPT !.pc = pc] \in Req
  BY DEF Req, Points
<1>2. \A op \in Reads \union Writes \union {"none"} : [q EXCEPT !.op = op] \in Req
  BY DEF Req
<1>3. \A id \in Ids \union {Missing} : [q EXCEPT !.id = id] \in Req
  BY DEF Req
<1>4. \A id \in Ids \union {Missing} : [q EXCEPT !.other = id] \in Req
  BY DEF Req
<1>5. \A kind \in Kinds \union {"none"} : [q EXCEPT !.kind = kind] \in Req
  BY DEF Req
<1>6. \A data \in Sent : [q EXCEPT !.data = data] \in Req
  BY DEF Req
<1>7. [q EXCEPT !.done = TRUE] \in Req
  BY DEF Req
<1>8. \A status \in Statuses : [q EXCEPT !.status = status] \in Req
  BY DEF Req, Statuses
<1>9. \A shown \in Shown : [q EXCEPT !.shown = shown] \in Req
  BY DEF Req
<1> QED
  BY <1>1, <1>2, <1>3, <1>4, <1>5, <1>6, <1>7, <1>8, <1>9

\* A request that has been answered.
LEMMA AnswerKeeps ==
  ASSUME NEW r \in Req, NEW status \in Statuses,
         Answer(status, r)
  PROVE  req' \in Req /\ Pending(req')
<1>1. req' \in Req
  <2>1. NoBody \in Sent /\ "idle" \in Points
    BY RequestValues DEF Points
  <2>2. req' = [[[[r EXCEPT !.pc = "idle"] EXCEPT !.status = status]
                   EXCEPT !.kind = "none"] EXCEPT !.data = NoBody]
    BY DEF Answer
  <2> QED
    BY <2>1, <2>2, RequestChanged
<1>2. req'.pc = "idle"
  BY DEF Answer, Req
<1> QED
  BY <1>1, <1>2 DEF Pending

Gone(r, pc) == [r EXCEPT !.pc = pc]

\* The handler of a request that passes the checks goes on with it.
LEMMA BeginKeeps ==
  ASSUME TypeOK, RootInv, NEW r \in Req, NEW pc, NEW status \in {0, 400, 413, 415, 500},
         Begin(r, pc, status),
         status # 0 \/ (pc \in Points /\ Pending(Gone(r, pc)))
  PROVE  RootInv'
<1>1. req' \in Req /\ Pending(req')
  <2>1. CASE status = 0
    <3>1. req' = Gone(r, pc)
      BY <2>1 DEF Begin, Go, Gone
    <3>2. Gone(r, pc) \in Req
      BY <2>1, RequestChanged DEF Gone
    <3> QED
      BY <2>1, <3>1, <3>2
  <2>2. CASE status # 0
    <3>1. PICK op \in Reads \union Writes \union {"none"} : op = r.op
      BY DEF Req
    <3>2. [Idle EXCEPT !.op = op] \in Req
      BY RequestValues, RequestChanged
    <3>3. status \in Statuses /\ Answer(status, [Idle EXCEPT !.op = op])
      BY <2>2, <3>1 DEF Begin, Statuses
    <3> QED
      BY <3>2, <3>3, AnswerKeeps
  <2> QED
    BY <2>1, <2>2
<1>2. moments' \subseteq [kind : Kinds, data : Contents]
  BY HeldType DEF Begin, TypeOK
<1>3. UNCHANGED <<slots, alone>>
  BY DEF Begin, vars
<1> QED
  BY <1>1, <1>2, <1>3 DEF RootInv, RootTypeOK, OnlyAcceptable, Used, Slots

\* How the handler of a request begins.
Begins(r, pc, status) ==
  /\ r \in Req /\ status \in {0, 400, 413, 415, 500}
  /\ Begin(r, pc, status)
  /\ status = 0 => /\ pc \in {"latest", "record", "blob", "write"}
                   /\ Pending(Gone(r, pc))
                   /\ pc \in {"record", "blob"} => r.op \notin LatestReads
Began == \E r, pc, status : Begins(r, pc, status)

\* Each request is checked before its handler goes on.
LEMMA RequestBegins ==
  ASSUME Request
  PROVE  Began
<1>0. Idle \in Req /\ NoBody \in Sent
  BY RequestValues
<1>1. CASE GetLatest
  <2>1. PICK op \in LatestReads : Begin([Idle EXCEPT !.op = op], "latest", 0)
    BY <1>1 DEF GetLatest
  <2> DEFINE r == [Idle EXCEPT !.op = op]
  <2>2. r \in Req
    BY <1>0, RequestChanged DEF Reads
  <2>3. Pending(Gone(r, "latest"))
    BY DEF Pending, Gone, Idle
  <2>4. Begin(r, "latest", 0)
    BY <2>1
  <2> HIDE DEF r
  <2> QED
    BY <2>2, <2>3, <2>4 DEF Began, Begins, Points
<1>2. CASE GetUnsupported
  <2> DEFINE r == [Idle EXCEPT !.op = "latest"]
  <2>1. r \in Req
    BY <1>0, RequestChanged DEF Reads, LatestReads
  <2>2. Begin(r, "idle", 400)
    BY <1>2 DEF GetUnsupported
  <2> HIDE DEF r
  <2> QED
    BY <2>1, <2>2 DEF Began, Begins, Points
<1>3. ASSUME NEW id \in Ids, NEW op \in Reads \ LatestReads, GetById(op, id)
      PROVE  Began
  <2> DEFINE r == [[Idle EXCEPT !.op = op] EXCEPT !.id = id]
             pc == IF op = "download" THEN "blob" ELSE "record"
  <2>1. r \in Req
    BY <1>0, RequestChanged
  <2>2. Pending(Gone(r, pc)) /\ pc \in Points
    BY DEF Pending, Gone, Idle, Reads, JsonReads, LatestReads, Points
  <2>3. IdStatus(id) \in {0, 400}
    BY DEF IdStatus
  <2>4. Begin(r, pc, IdStatus(id))
    BY <1>3 DEF GetById
  <2>5. r.op = op
    BY <1>0 DEF Req
  <2>6. pc \in {"record", "blob"}
    OBVIOUS
  <2> HIDE DEF r, pc
  <2> QED
    BY <2>1, <2>2, <2>3, <2>4, <2>5, <2>6 DEF Began, Begins, Points
<1>4. ASSUME NEW b \in Bodies, Post(b)
      PROVE  Began
  <2> DEFINE status == CreateStatus(b)
             data == IF status = 0 THEN Created(b) ELSE NoBody
             kind == KindOf(b)
             r == [[[Idle EXCEPT !.op = "post"] EXCEPT !.kind = kind] EXCEPT !.data = data]
  <2>1. b \in Body /\ status \in {0, 400, 413, 415, 500}
    BY BodyAssumption, CreatedAcceptable
  <2>2. /\ kind \in Kinds /\ data \in Sent
        /\ status = 0 => data \in Contents /\ Acceptable(kind, data)
    BY <1>0, <2>1, TypesFacts, CreatedAcceptable, RequestValues
  <2>3. Begin(r, "write", status)
    BY <1>4 DEF Post
  <2> HIDE DEF status, data, kind
  <2>4. r \in Req
    BY <1>0, <2>2, RequestChanged DEF Writes
  <2>5. status = 0 => Pending(Gone(r, "write"))
    BY <2>2 DEF Pending, Gone, Idle, Writes
  <2> HIDE DEF r
  <2> QED
    BY <2>1, <2>3, <2>4, <2>5 DEF Began, Begins, Points
<1>5. ASSUME NEW id \in Ids \union {Missing}, NEW b \in Bodies, Put(id, b)
      PROVE  Began
  <2> DEFINE status == First(IdStatus(id), CreateStatus(b))
             data == IF status = 0 THEN Created(b) ELSE NoBody
             kind == KindOf(b)
             r == [[[[Idle EXCEPT !.op = "put"] EXCEPT !.id = id]
                      EXCEPT !.kind = kind] EXCEPT !.data = data]
  <2>1. b \in Body /\ status \in {0, 400, 413, 415, 500} /\ (status = 0 => CreateStatus(b) = 0)
    BY BodyAssumption, CreatedAcceptable DEF First, IdStatus
  <2>2. /\ kind \in Kinds /\ data \in Sent
        /\ status = 0 => data \in Contents /\ Acceptable(kind, data)
    BY <1>0, <2>1, TypesFacts, CreatedAcceptable, RequestValues
  <2>3. Begin(r, "write", status)
    BY <1>5 DEF Put
  <2> HIDE DEF status, data, kind
  <2>4. r \in Req
    BY <1>0, <2>2, RequestChanged DEF Writes
  <2>5. status = 0 => Pending(Gone(r, "write"))
    BY <2>2 DEF Pending, Gone, Idle, Writes
  <2> HIDE DEF r
  <2> QED
    BY <2>1, <2>3, <2>4, <2>5 DEF Began, Begins, Points
<1>6. ASSUME NEW id \in Ids \union {Missing}, NEW b \in Bodies, PatchKaring(id, b)
      PROVE  Began
  <2> DEFINE status == First(IdStatus(id), PatchStatus(b))
             data == IF status = 0 THEN Patch0(b) ELSE NoBody
             kind == KindOf(b)
             r == [[[[Idle EXCEPT !.op = "patch"] EXCEPT !.id = id]
                      EXCEPT !.kind = kind] EXCEPT !.data = data]
  <2>1. b \in Body /\ status \in {0, 400, 413, 415, 500} /\ (status = 0 => PatchStatus(b) = 0)
    BY BodyAssumption, PatchedAcceptable DEF First, IdStatus
  <2>2. kind \in Kinds /\ data \in Sent /\ (status = 0 => Change(kind, data))
    BY <1>0, <2>1, TypesFacts, PatchedAcceptable
  <2>3. Begin(r, "write", status)
    BY <1>6 DEF PatchKaring
  <2> HIDE DEF status, data, kind
  <2>4. r \in Req
    BY <1>0, <2>2, RequestChanged DEF Writes
  <2>5. status = 0 => Pending(Gone(r, "write"))
    BY <2>2 DEF Pending, Gone, Idle, Writes
  <2> HIDE DEF r
  <2> QED
    BY <2>1, <2>3, <2>4, <2>5 DEF Began, Begins, Points
<1>7. ASSUME NEW id \in Ids \union {Missing}, DeleteKaring(id)
      PROVE  Began
  <2> DEFINE r == [[Idle EXCEPT !.op = "delete"] EXCEPT !.id = id]
             status == IF id = Unparsable THEN 400 ELSE 0
  <2>1. r \in Req
    BY <1>0, RequestChanged DEF Writes
  <2>2. Pending(Gone(r, "write"))
    BY DEF Pending, Gone, Idle, Writes
  <2>3. Begin(r, "write", status) /\ status \in {0, 400, 413, 415, 500}
    BY <1>7 DEF DeleteKaring
  <2> HIDE DEF r, status
  <2> QED
    BY <2>1, <2>2, <2>3 DEF Began, Begins, Points
<1>8. ASSUME NEW id1 \in Ids \union {Missing}, NEW id2 \in Ids \union {Missing},
             SwapKaring(id1, id2)
      PROVE  Began
  <2> DEFINE r == [[[Idle EXCEPT !.op = "swap"] EXCEPT !.id = id1] EXCEPT !.other = id2]
             status == First(First(IdStatus(id1), IdStatus(id2)), IF id1 = id2 THEN 400 ELSE 0)
  <2>1. r \in Req
    BY <1>0, RequestChanged DEF Writes
  <2>2. Pending(Gone(r, "write"))
    BY DEF Pending, Gone, Idle, Writes
  <2>3. status \in {0, 400, 413, 415, 500}
    BY DEF First, IdStatus
  <2>4. Begin(r, "write", status)
    BY <1>8 DEF SwapKaring
  <2> HIDE DEF r, status
  <2> QED
    BY <2>1, <2>2, <2>3, <2>4 DEF Began, Begins, Points
<1>9. CASE ResequenceKaring
  <2> DEFINE r == [Idle EXCEPT !.op = "resequence"]
  <2>1. r \in Req
    BY <1>0, RequestChanged DEF Writes
  <2>2. Pending(Gone(r, "write"))
    BY DEF Pending, Gone, Idle, Writes
  <2>3. Begin(r, "write", 0)
    BY <1>9 DEF ResequenceKaring
  <2> HIDE DEF r
  <2> QED
    BY <2>1, <2>2, <2>3 DEF Began, Begins, Points
<1> QED
  BY <1>1, <1>2, <1>3, <1>4, <1>5, <1>6, <1>7, <1>8, <1>9 DEF Request

LEMMA RequestKeeps ==
  ASSUME TypeOK, RootInv, Request
  PROVE  RootInv'
<1>1. PICK r, pc, status : Begins(r, pc, status)
  BY RequestBegins DEF Began
<1> QED
  BY <1>1, BeginKeeps DEF Begins, Points

LEMMA QuietKeeps ==
  ASSUME TypeOK, RootInv, Quiet, req' \in Req, Pending(req')
  PROVE  RootInv'
<1>1. UNCHANGED <<vars, alone>> /\ TypeOK'
  BY DEF Quiet, vars, TypeOK
<1>2. moments' \subseteq [kind : Kinds, data : Contents]
  BY <1>1, WatchType DEF Quiet, RootInv
<1> QED
  BY <1>1, <1>2 DEF RootInv, RootTypeOK, OnlyAcceptable, Used, Slots, vars

\* Records that are moved stay acceptable.
LEMMA MovedAcceptable ==
  ASSUME OnlyAcceptable,
         \A i \in Slots' : slots'[i].used =>
            \/ \E j \in Used : slots'[i] = slots[j]
            \/ Acceptable(slots'[i].kind, slots'[i].data)
  PROVE  OnlyAcceptable'
<1> SUFFICES ASSUME NEW i \in Used'
             PROVE  Acceptable(slots'[i].kind, slots'[i].data)
  BY DEF OnlyAcceptable, Acceptable
<1>1. i \in Slots' /\ slots'[i].used
  BY DEF Used
<1>2. \A j \in Used : Acceptable(slots[j].kind, slots[j].data)
  BY DEF OnlyAcceptable, Acceptable
<1> QED
  BY <1>1, <1>2

\* The steps that only read.
LEMMA ReadKeeps ==
  ASSUME TypeOK, RootInv, FindLatest \/ LoadRecord \/ ReadBlob \/ WriteRefused
                          \/ ReadFirst \/ ReadSecond \/ ReadBack
  PROVE  RootInv'
<1>0. req \in Req /\ Pending(req)
  BY DEF RootInv, RootTypeOK
<1>1. \A id \in Used : id \in Ids
  <2>1. maxItems \in 1..MaxSlots /\ MaxSlots \in Nat
    BY SlotsAssumption DEF TypeOK
  <2>2. \A id \in Used : id \in 1..MaxSlots
    BY <2>1, UsedFinite
  <2> QED
    BY <2>2, RequestValues
<1>2. \A id \in Used : slots[id].data \in Contents /\ slots[id].data \in Sent
  <2> SUFFICES ASSUME NEW id \in Used
               PROVE  slots[id].data \in Contents
    BY RequestValues
  <2>1. slots[id] \in UsedRow
    BY RowFacts DEF Used
  <2> QED
    BY <2>1, ContentsAssumption DEF UsedRow
<1>3. ASSUME NEW status \in Statuses, Answer(status, req)
      PROVE  req' \in Req /\ Pending(req')
  BY <1>0, <1>3, AnswerKeeps
<1>4. ASSUME NEW body \in Shown, Show(body)
      PROVE  req' \in Req /\ Pending(req')
  <2>1. [req EXCEPT !.shown = body] \in Req
    BY <1>0, RequestChanged
  <2> QED
    BY <1>4, <2>1, AnswerKeeps DEF Show, Statuses
<1>5. CASE FindLatest
  <2>1. ASSUME NEW id \in Used, Go("record", [req EXCEPT !.id = id])
        PROVE  req' \in Req /\ Pending(req')
    <3>1. [req EXCEPT !.id = id] \in Req
      BY <1>0, <1>1, RequestChanged
    <3>2. req' = [[req EXCEPT !.id = id] EXCEPT !.pc = "record"]
      BY <2>1 DEF Go
    <3>3. req' \in Req
      BY <3>1, <3>2, RequestChanged DEF Points
    <3>4. req'.pc = "record" /\ req'.op = req.op /\ req.op \in LatestReads
      BY <1>0, <1>5, <3>2 DEF FindLatest, Pending, Req
    <3> QED
      BY <3>3, <3>4 DEF Pending, Reads, LatestReads
  <2> QED
    <3>1. Quiet /\ ((\E id \in Used : Go("record", [req EXCEPT !.id = id])) \/ Answer(404, req))
      BY <1>5 DEF FindLatest
    <3>2. req' \in Req /\ Pending(req')
      <4>1. CASE Answer(404, req)
        BY <1>3, <4>1 DEF Statuses
      <4>2. CASE \E id \in Used : Go("record", [req EXCEPT !.id = id])
        <5>1. PICK id \in Used : Go("record", [req EXCEPT !.id = id])
          BY <4>2
        <5> QED
          BY <2>1, <5>1
      <4> QED
        BY <3>1, <4>1, <4>2
    <3> QED
      BY <3>1, <3>2, QuietKeeps
<1>6. CASE LoadRecord
  <2>1. ASSUME req.id \in Used, req.op \notin JsonReads,
               Go("blob", [req EXCEPT !.data = slots[req.id].data])
        PROVE  req' \in Req /\ Pending(req')
    <3>1. PICK data \in Sent : data = slots[req.id].data
      BY <1>2, <2>1
    <3>2. [req EXCEPT !.data = data] \in Req
      BY <1>0, RequestChanged
    <3>3. req' = [[req EXCEPT !.data = data] EXCEPT !.pc = "blob"]
      BY <2>1, <3>1 DEF Go
    <3>4. req' \in Req
      BY <3>2, <3>3, RequestChanged DEF Points
    <3>5. req'.pc = "blob" /\ req'.op = req.op /\ req.op \in Reads
      BY <1>0, <1>6, <3>3 DEF LoadRecord, Pending, Req
    <3> QED
      BY <2>1, <3>4, <3>5 DEF Pending
  <2> QED
    BY <1>2, <1>3, <1>4, <1>6, <2>1, RequestValues, QuietKeeps DEF LoadRecord, Statuses
<1>7. CASE ReadBlob
  BY <1>2, <1>3, <1>4, <1>7, RequestValues, QuietKeeps DEF ReadBlob, Statuses
<1>8. CASE WriteRefused
  <2>1. WriteStatus[req.op] \in Statuses
    <3>1. req.op \in Writes
      BY <1>0, <1>8 DEF WriteRefused, Pending
    <3> QED
      BY <3>1 DEF Writes, WriteStatus, Statuses
  <2> QED
    BY <1>3, <1>8, <2>1, QuietKeeps DEF WriteRefused
<1>9. CASE ReadFirst
  <2> DEFINE status == IF req.id \in Used THEN 200 ELSE 404
  <2>1. status \in {200, 404} /\ status \in Statuses
    BY DEF Statuses
  <2>2. req' = [[req EXCEPT !.status = status] EXCEPT !.pc = "second"]
    BY <1>9 DEF ReadFirst, Go
  <2> HIDE DEF status
  <2>3. [req EXCEPT !.status = status] \in Req
    <3>1. \A s \in Statuses : [req EXCEPT !.status = s] \in Req
      BY <1>0, RequestChanged, Zenon
    <3> QED
      BY <2>1, <3>1, Zenon
  <2>4. req' \in Req
    <3>1. "second" \in Points
      BY DEF Points
    <3> QED
      BY <2>2, <2>3, <3>1, RequestChanged, Zenon
  <2>5. /\ req'.pc = "second" /\ req'.status = status /\ req'.op = "swap" /\ req'.done
    BY <1>0, <1>9, <2>2 DEF ReadFirst, Pending, Req
  <2>6. Pending(req')
    BY <2>1, <2>4, <2>5 DEF Pending
  <2> QED
    BY <1>9, <2>4, <2>6, QuietKeeps DEF ReadFirst
<1>10. CASE ReadSecond
  <2>1. (IF req.other \in Used THEN req.status ELSE 404) \in Statuses
    BY <1>0, <1>10 DEF ReadSecond, Pending, Statuses
  <2> QED
    BY <1>3, <1>10, <2>1, QuietKeeps DEF ReadSecond
<1>11. CASE ReadBack
  <2>1. (IF 1..req.id \subseteq Used THEN 200 ELSE 500) \in Statuses
    BY DEF Statuses
  <2> QED
    BY <1>3, <1>11, <2>1, QuietKeeps DEF ReadBack
<1> QED
  BY <1>5, <1>6, <1>7, <1>8, <1>9, <1>10, <1>11

\* The steps that write: what a handler stores is acceptable.
LEMMA WriteKeeps ==
  ASSUME TypeOK, TypeOK', RootInv, Write
  PROVE  RootInv'
<1>0. /\ req \in Req /\ Pending(req) /\ OnlyAcceptable
      /\ UNCHANGED <<alone, moments>>
  BY DEF RootInv, RootTypeOK, Write
<1>1. SUFFICES req' \in Req /\ Pending(req') /\ OnlyAcceptable'
  BY <1>0 DEF RootInv, RootTypeOK
<1>2. Done \in Req
  BY <1>0, RequestChanged DEF Done
<1>3. ASSUME NEW status \in Statuses, Answer(status, Done)
      PROVE  req' \in Req /\ Pending(req')
  BY <1>2, <1>3, AnswerKeeps
<1>4. Slots = 1..maxItems /\ Slots' = 1..maxItems' /\ maxItems \in Nat /\ nextId \in Slots
  BY UsedFinite, SlotsAssumption DEF TypeOK, Slots
<1>5. BlankRow.used = FALSE
  BY DEF BlankRow
<1>6. ASSUME NEW id \in Slots, Delete(id)
      PROVE  OnlyAcceptable'
  BY <1>0, <1>4, <1>5, <1>6, MovedAcceptable DEF Delete, Slots, Used
<1>7. CASE WritePost
  <2>1. Acceptable(req.kind, req.data)
    BY <1>0, <1>7 DEF WritePost, Written, Pending
  <2>2. \A i \in Slots' : i # nextId => i \in Slots /\ slots'[i] = slots[i]
    <3>1. maxItems' = maxItems /\ \A i \in Slots : i # nextId => slots'[i] = slots[i]
      BY <1>7 DEF WritePost, Insert, Slots
    <3> QED
      BY <1>4, <3>1
  <2>3. slots'[nextId].kind = req.kind /\ slots'[nextId].data = req.data
    BY <1>4, <1>7 DEF WritePost, Insert, Slots
  <2>4. OnlyAcceptable'
    BY <1>0, <2>1, <2>2, <2>3, MovedAcceptable DEF Used
  <2> QED
    BY <1>3, <1>7, <2>4 DEF WritePost, Statuses
<1>8. ASSUME NEW id \in Used, NEW kind, NEW data, Acceptable(kind, data),
             slots' = [slots EXCEPT ![id].kind = kind, ![id].data = data]
      PROVE  OnlyAcceptable'
  <2>1. \A i \in Slots' : i # id => i \in Slots /\ slots'[i] = slots[i]
    BY <1>4, <1>8 DEF Slots
  <2>2. slots'[id].kind = kind /\ slots'[id].data = data
    <3>1. id \in Slots /\ slots[id] \in UsedRow
      BY RowFacts DEF Used
    <3> QED
      BY <1>4, <1>8, <3>1 DEF UsedRow, TypeOK
  <2> QED
    BY <1>0, <1>8, <2>1, <2>2, MovedAcceptable DEF Used
<1>9. CASE WritePut
  <2>1. Acceptable(req.kind, req.data)
    BY <1>0, <1>9 DEF WritePut, Written, Pending
  <2>2. PICK id, kind, data :
          /\ id \in Used /\ id = req.id /\ kind = req.kind /\ data = req.data
          /\ slots' = [slots EXCEPT ![id].kind = kind, ![id].data = data]
    BY <1>9 DEF WritePut, Replace
  <2>3. OnlyAcceptable'
    BY <1>8, <2>1, <2>2
  <2> QED
    BY <1>3, <1>9, <2>3 DEF WritePut, Statuses
<1>10. CASE WritePatch
  <2>1. PICK id, kind, old, data :
          /\ id \in Used /\ id = req.id /\ kind = slots[id].kind /\ old = slots[id].data
          /\ kind = req.kind /\ data = Over(req.data, old)
          /\ slots' = [slots EXCEPT ![id].kind = kind, ![id].data = data]
    BY <1>10 DEF WritePatch, Patch, Replace
  <2>2. Change(kind, req.data)
    BY <1>0, <1>10, <2>1 DEF WritePatch, Written, Pending
  <2>3. kind \in Kinds /\ old \in Contents /\ Acceptable(kind, old)
    <3>1. slots[id] \in UsedRow
      BY <2>1, RowFacts DEF Used
    <3> QED
      BY <1>0, <2>1, <3>1, ContentsAssumption DEF UsedRow, OnlyAcceptable, Acceptable
  <2>4. Acceptable(kind, data)
    BY <2>1, <2>2, <2>3, OverAcceptable
  <2>5. OnlyAcceptable'
    BY <1>8, <2>1, <2>4
  <2> QED
    BY <1>3, <1>10, <2>5 DEF WritePatch, Statuses
<1>11. CASE WriteDelete
  <2>1. PICK id \in Slots : Delete(id)
    <3>1. PrevSlot \in Slots
      BY <1>4 DEF PrevSlot
    <3> QED
      BY <1>11, <3>1 DEF WriteDelete, DeleteLatest
  <2> QED
    BY <1>3, <1>6, <1>11, <2>1 DEF WriteDelete, Statuses
<1>12. CASE WriteSwap
  <2>1. PICK i \in Slots, j \in Slots : Swap(i, j)
    BY <1>12 DEF WriteSwap
  <2>2. \A k \in Slots' : \E l \in Slots : slots'[k] = slots[l]
    BY <1>4, <2>1 DEF Swap, Slots
  <2>3. OnlyAcceptable'
    BY <1>0, <2>2, MovedAcceptable DEF Used
  <2>4. req' = [Done EXCEPT !.pc = "first"]
    BY <1>12 DEF WriteSwap, Go
  <2>5. req' \in Req
    BY <1>2, <2>4, RequestChanged DEF Points
  <2>6. req'.pc = "first" /\ req'.op = "swap" /\ req'.done
    BY <1>0, <1>12, <2>4 DEF WriteSwap, Written, Done, Req
  <2>7. Pending(req')
    BY <2>5, <2>6 DEF Pending
  <2> QED
    BY <2>3, <2>5, <2>7
<1>13. CASE WriteResequence
  <2>1. slots' = Compacted(maxItems, 0)
    BY <1>13 DEF WriteResequence, Resequence
  <2>2. \A p \in 1..maxItems : slots'[p].used => Source(p, 0) \in Used /\ slots'[p] = slots[Source(p, 0)]
    BY <1>4, <2>1, CompactedRows
  <2>3. Slots' = 1..maxItems
    BY <2>1 DEF Compacted, Slots
  <2>4. OnlyAcceptable'
    BY <1>0, <2>2, <2>3, MovedAcceptable
  <2>5. PICK n \in Ids : n = Cardinality(Used)
    <3>1. Used \subseteq 1..maxItems /\ maxItems \in 1..MaxSlots /\ MaxSlots \in Nat
      BY UsedFinite, SlotsAssumption DEF TypeOK
    <3>2. Cardinality(Used) <= maxItems /\ Cardinality(Used) \in Nat
      <4>1. IsFiniteSet(1..maxItems) /\ Cardinality(1..maxItems) = maxItems
        BY <3>1, FS_Interval
      <4>2. Cardinality(Used) <= Cardinality(1..maxItems)
        BY <3>1, <4>1, FS_Subset
      <4>3. Cardinality(Used) \in Nat
        BY UsedFinite
      <4> QED
        BY <4>1, <4>2, <4>3
    <3>3. Cardinality(Used) \in 0..(MaxSlots + 1)
      BY <3>1, <3>2
    <3> QED
      BY <3>3 DEF Ids, Unparsable
  <2>6. req' = [[Done EXCEPT !.id = n] EXCEPT !.pc = "list"]
    BY <1>13, <2>5 DEF WriteResequence, Go
  <2>7. [Done EXCEPT !.id = n] \in Req
    BY <1>2, RequestChanged
  <2>8. req' \in Req
    BY <2>6, <2>7, RequestChanged DEF Points
  <2>9. req'.pc = "list" /\ req'.op = "resequence" /\ req'.done
    BY <1>0, <1>13, <2>6 DEF WriteResequence, Written, Done, Req
  <2>10. Pending(req')
    BY <2>8, <2>9 DEF Pending
  <2> QED
    BY <2>4, <2>8, <2>10
<1> QED
  BY <1>7, <1>9, <1>10, <1>11, <1>12, <1>13 DEF Write

\* Another process, and time.
LEMMA ElsewhereKeeps ==
  ASSUME TypeOK, TypeOK', RootInv, Elsewhere
  PROVE  RootInv'
<1>1. OnlyAcceptable'
  BY DEF Elsewhere, Tick, RootInv, OnlyAcceptable, Used, Slots
<1>2. alone' = alone /\ req' = req /\ Watch
  BY DEF Elsewhere
<1>3. req' \in Req /\ Pending(req')
  BY <1>2 DEF RootInv, RootTypeOK
<1>4. moments' \subseteq [kind : Kinds, data : Contents]
  BY <1>2, WatchType DEF RootInv
<1> QED
  BY <1>1, <1>2, <1>3, <1>4 DEF RootInv, RootTypeOK

LEMMA ForgetKeeps ==
  ASSUME RootInv, Forget
  PROVE  RootInv'
<1>1. UNCHANGED <<slots, alone>> /\ req' = Idle /\ moments' = {}
  BY DEF Forget, vars
<1>2. Idle.pc = "idle"
  BY DEF Idle
<1>3. Pending(Idle)
  BY <1>2 DEF Pending
<1> QED
  BY <1>1, <1>3, RequestValues DEF RootInv, RootTypeOK, OnlyAcceptable, Used, Slots

\* With the store's own type invariant, RootInv is inductive.
LEMMA RootInvHolds == RSpec => [](TypeOK /\ RootInv)
<1>1. RInit => TypeOK /\ RootInv
  <2> SUFFICES ASSUME RInit PROVE TypeOK /\ RootInv
    OBVIOUS
  <2>1. TypeOK
    BY InitType DEF RInit
  <2>2. Used = {}
    BY DEF RInit, Init, Used, Slots, BlankRow
  <2>3. Idle \in Req /\ Pending(Idle)
    BY RequestValues DEF Pending, Idle
  <2> QED
    BY <2>1, <2>2, <2>3 DEF RInit, RootInv, RootTypeOK, OnlyAcceptable
<1>2. TypeOK /\ RootInv /\ [RNext]_rvars => (TypeOK /\ RootInv)'
  <2> SUFFICES ASSUME TypeOK, RootInv, [RNext]_rvars
               PROVE  TypeOK' /\ RootInv'
    OBVIOUS
  <2>1. TypeOK'
    <3>1. [Next]_vars
      BY StoreStep
    <3> QED
      BY <3>1, StepKeepsType
  <2>2. CASE UNCHANGED rvars
    BY <2>1, <2>2 DEF rvars, vars, RootInv, RootTypeOK, OnlyAcceptable, Used, Slots
  <2> QED
    BY <2>1, <2>2, RequestKeeps, ReadKeeps, WriteKeeps, ForgetKeeps, ElsewhereKeeps
    DEF RNext, Handle
<1> QED
  BY <1>1, <1>2, PTL DEF RSpec

-----------------------------------------------------------------------------
\* A request keeps its shape from the check of its body to its answer, and
\* what it is compared with is what a record can be: the store as the handlers
\* use it is KaringStore, with no other contents than the accepted ones.
THEOREM RootTypeCorrect == RSpec => []RootTypeOK
BY RootInvHolds, PTL DEF RootInv

\* No sequence of POST, PUT and PATCH, and of other processes with the same
\* limits, makes a record whose type or size its kind may not have, although
\* a PATCH joins the type of one request to the contents of another.
THEOREM AcceptableStored == RSpec => []OnlyAcceptable
BY RootInvHolds, PTL DEF RootInv

-----------------------------------------------------------------------------
(* What is answered.                                                       *)

\* Without another process, what a handler has found stays as it was.
Undisturbed ==
  alone =>
    /\ req.pc \in {"record", "blob"} /\ req.op \in LatestReads => IsLatest(req.id)
    /\ req.pc = "blob" /\ req.op \in LatestReads => slots[req.id].kind = "file"
    /\ req.pc = "second" => (req.status = 200 <=> req.id \in Used)
    /\ req.pc = "list" => 1..req.id \subseteq Used

AnswersInv == NoTornAnswer /\ LatestAnswered /\ StatusTellsTruth /\ Undisturbed

LEMMA AnswerFields ==
  ASSUME NEW r \in Req, NEW status, Answer(status, r)
  PROVE  /\ req'.pc = "idle" /\ req'.op = r.op /\ req'.id = r.id /\ req'.other = r.other
         /\ req'.done = r.done /\ req'.status = status /\ req'.shown = r.shown
BY DEF Answer, Req

LEMMA GoFields ==
  ASSUME NEW r \in Req, NEW pc, Go(pc, r)
  PROVE  /\ req'.pc = pc /\ req'.op = r.op /\ req'.id = r.id /\ req'.other = r.other
         /\ req'.done = r.done /\ req'.status = r.status
BY DEF Go, Req

\* Nothing is said of a request that is not answered; of a read, its status
\* says nothing, and of a write, what it shows says nothing.
LEMMA NotAnswered ==
  ASSUME req'.pc # "idle", Undisturbed'
  PROVE  AnswersInv'
BY DEF AnswersInv, NoTornAnswer, LatestAnswered, StatusTellsTruth, Answered

LEMMA OpsDiffer == \A op \in Writes : op \notin Reads /\ op \notin LatestReads
BY DEF Writes, Reads, LatestReads, JsonReads

LEMMA WriteAnswered ==
  ASSUME req'.pc = "idle", req'.op \in Writes, StatusTellsTruth'
  PROVE  AnswersInv'
BY OpsDiffer DEF AnswersInv, NoTornAnswer, LatestAnswered, Undisturbed

LEMMA ReadAnswered ==
  ASSUME req'.pc = "idle", req'.op \in Reads, NoTornAnswer', LatestAnswered'
  PROVE  AnswersInv'
BY OpsDiffer DEF AnswersInv, StatusTellsTruth, Undisturbed

LEMMA RequestAnswers ==
  ASSUME Request
  PROVE  AnswersInv'
<1>1. PICK r, pc, status : Begins(r, pc, status)
  BY RequestBegins DEF Began
<1>2. CASE status = 0
  <2>1. Go(pc, r) /\ r \in Req /\ pc \in {"latest", "record", "blob", "write"}
    BY <1>1, <1>2 DEF Begins, Begin
  <2>2. req'.pc = pc /\ req'.op = r.op
    BY <2>1, GoFields
  <2>3. pc \in {"record", "blob"} => r.op \notin LatestReads
    BY <1>1, <1>2 DEF Begins
  <2>4. Undisturbed'
    BY <2>1, <2>2, <2>3 DEF Undisturbed
  <2> QED
    BY <2>1, <2>2, <2>4, NotAnswered
<1>3. CASE status # 0
  <2>1. PICK op \in Reads \union Writes \union {"none"} : op = r.op
    BY <1>1 DEF Begins, Req
  <2> DEFINE refused == [Idle EXCEPT !.op = op]
  <2>2. Answer(status, refused) /\ status \in {400, 413, 415, 500}
    BY <1>1, <1>3, <2>1 DEF Begins, Begin
  <2>3. refused \in Req
    BY RequestValues, RequestChanged
  <2>4. refused.done = FALSE
    BY DEF Idle
  <2> HIDE DEF refused
  <2>5. req'.pc = "idle" /\ req'.status = status /\ req'.done = FALSE
    BY <2>2, <2>3, <2>4, AnswerFields
  <2> QED
    BY <2>2, <2>5
    DEF AnswersInv, NoTornAnswer, LatestAnswered, StatusTellsTruth, Undisturbed
<1> QED
  BY <1>2, <1>3

LEMMA ForgetAnswers ==
  ASSUME Forget
  PROVE  AnswersInv'
<1>1. req'.pc = "idle" /\ req'.op = "none"
  BY DEF Forget, Idle
<1> QED
  BY <1>1
  DEF AnswersInv, NoTornAnswer, LatestAnswered, StatusTellsTruth, Undisturbed, Answered

LEMMA ElsewhereAnswers ==
  ASSUME AnswersInv, Elsewhere
  PROVE  AnswersInv'
<1>1. req' = req /\ alone' = alone /\ ~Answered'
  BY DEF Elsewhere, Answered
<1>2. alone => slots' = slots
  BY DEF Elsewhere, Tick
<1>3. Undisturbed'
  BY <1>1, <1>2 DEF AnswersInv, Undisturbed, IsLatest, Used, Slots, Precedes
<1> QED
  BY <1>1, <1>3 DEF AnswersInv, NoTornAnswer, LatestAnswered, StatusTellsTruth

LEMMA FindAnswers ==
  ASSUME RootInv, FindLatest
  PROVE  AnswersInv'
<1>0. /\ req \in Req /\ req.op \in LatestReads /\ req.op \in Reads
      /\ UNCHANGED <<slots, alone>>
  BY DEF RootInv, RootTypeOK, FindLatest, Pending, Quiet, vars, Reads
<1>1. ASSUME NEW id \in Used, IsLatest(id), Go("record", [req EXCEPT !.id = id])
      PROVE  AnswersInv'
  <2>1. req' = [[req EXCEPT !.id = id] EXCEPT !.pc = "record"]
    BY <1>1 DEF Go
  <2>2. req'.pc = "record" /\ req'.id = id
    BY <1>0, <2>1 DEF Req
  <2>3. IsLatest(id)'
    BY <1>0, <1>1 DEF IsLatest, Used, Slots, Precedes
  <2>4. Undisturbed'
    BY <2>2, <2>3 DEF Undisturbed
  <2> QED
    BY <2>2, <2>4, NotAnswered
<1>2. ASSUME Used = {}, Answer(404, req)
      PROVE  AnswersInv'
  <2>1. req'.pc = "idle" /\ req'.op = req.op /\ req'.status = 404
    BY <1>0, <1>2, AnswerFields
  <2>2. NoTornAnswer' /\ LatestAnswered'
    BY <1>0, <1>2, <2>1 DEF NoTornAnswer, LatestAnswered, Used, Slots
  <2> QED
    BY <1>0, <2>1, <2>2, ReadAnswered
<1> QED
  BY <1>1, <1>2 DEF FindLatest

\* What a slot holds is a moment of the request that reads it.
LEMMA Watched ==
  ASSUME Quiet, req.op \in Reads, req'.id = req.id, req.id \in Used
  PROVE  [kind |-> slots[req.id].kind, data |-> slots[req.id].data] \in moments'
<1>1. slots' = slots /\ moments' = moments \union Held(slots, req.id)
  BY DEF Quiet, Watch, vars
<1>2. req.id \in {k \in {req.id} \intersect DOMAIN slots : slots[k].used}
  BY DEF Used, Slots
<1> QED
  BY <1>1, <1>2 DEF Held

LEMMA LoadAnswers ==
  ASSUME TypeOK, RootInv, AnswersInv, LoadRecord
  PROVE  AnswersInv'
<1>0. /\ req \in Req /\ req.pc = "record" /\ req.op \in Reads /\ req.op # "download"
      /\ UNCHANGED <<slots, alone>> /\ Quiet
  BY DEF RootInv, RootTypeOK, LoadRecord, Pending, Quiet, vars, Reads
<1> DEFINE row == slots[req.id]
           moment == [kind |-> row.kind, data |-> row.data]
<1>1. alone /\ req.op \in LatestReads => IsLatest(req.id)
  BY <1>0 DEF AnswersInv, Undisturbed
<1>2. req'.id = req.id /\ IsLatest(req.id) => IsLatest(req.id)'
  BY <1>0 DEF IsLatest, Used, Slots, Precedes
<1>3. ASSUME req.id \notin Used, Answer(404, req)
      PROVE  AnswersInv'
  <2>1. req'.pc = "idle" /\ req'.op = req.op /\ req'.status = 404
    BY <1>0, <1>3, AnswerFields
  <2>2. ~(alone /\ req.op \in LatestReads)
    BY <1>1, <1>3 DEF IsLatest
  <2>3. NoTornAnswer' /\ LatestAnswered'
    BY <1>0, <2>1, <2>2 DEF NoTornAnswer, LatestAnswered
  <2> QED
    BY <1>0, <2>1, <2>3, ReadAnswered
<1>4. ASSUME NEW body \in Shown, req.id \in Used, Show(body),
             body \in Views(req.op, moment)
      PROVE  AnswersInv'
  <2> DEFINE shown == [req EXCEPT !.shown = body]
  <2>1. shown \in Req /\ Answer(200, shown)
    BY <1>0, <1>4, RequestChanged DEF Show
  <2>2. shown.op = req.op /\ shown.id = req.id /\ shown.shown = body
    BY <1>0 DEF Req
  <2> HIDE DEF shown
  <2>3. /\ req'.pc = "idle" /\ req'.op = req.op /\ req'.id = req.id
        /\ req'.status = 200 /\ req'.shown = body
    BY <2>1, <2>2, AnswerFields
  <2>4. moment \in moments'
    BY <1>0, <1>4, <2>3, Watched
  <2>5. NoTornAnswer'
    BY <1>4, <2>3, <2>4 DEF NoTornAnswer
  <2>6. LatestAnswered'
    BY <1>0, <1>1, <1>2, <2>3 DEF LatestAnswered
  <2> QED
    BY <1>0, <2>3, <2>5, <2>6, ReadAnswered
<1>5. ASSUME row.kind = "file", Go("blob", [req EXCEPT !.data = row.data])
      PROVE  AnswersInv'
  <2>1. req' = [[req EXCEPT !.data = row.data] EXCEPT !.pc = "blob"]
    BY <1>5 DEF Go
  <2>2. req'.pc = "blob" /\ req'.op = req.op /\ req'.id = req.id
    BY <1>0, <2>1 DEF Req
  <2>3. Undisturbed'
    BY <1>0, <1>1, <1>2, <1>5, <2>2 DEF Undisturbed
  <2> QED
    BY <2>2, <2>3, NotAnswered
<1>6. req.id \in Used => row.data \in Contents
  <2>1. req.id \in Used => row \in UsedRow
    BY RowFacts DEF Used
  <2> QED
    BY <2>1, ContentsAssumption DEF UsedRow
<1>7. row.kind = "text" => row.data \in Views(req.op, moment)
  BY DEF Views
<1>8. row.kind = "file" /\ (req.op \in JsonReads \/ RowOnly(row.data)) =>
        Empty \in Views(req.op, moment)
  BY <1>0 DEF Views
<1> HIDE DEF moment
<1> QED
  BY <1>3, <1>4, <1>5, <1>6, <1>7, <1>8, RequestValues DEF LoadRecord

LEMMA BlobAnswers ==
  ASSUME TypeOK, RootInv, AnswersInv, ReadBlob
  PROVE  AnswersInv'
<1>0. /\ req \in Req /\ req.pc = "blob" /\ req.op \in Reads /\ req.op \notin JsonReads
      /\ UNCHANGED <<slots, alone>> /\ Quiet
  BY DEF RootInv, RootTypeOK, ReadBlob, Pending, Quiet, vars
<1> DEFINE row == slots[req.id]
           there == req.id \in Used /\ row.kind = "file"
           moment == [kind |-> row.kind, data |-> row.data]
<1>1. alone /\ req.op \in LatestReads => IsLatest(req.id) /\ there
  BY <1>0 DEF AnswersInv, Undisturbed, IsLatest
<1>2. req'.id = req.id /\ IsLatest(req.id) => IsLatest(req.id)'
  BY <1>0 DEF IsLatest, Used, Slots, Precedes
<1>3. ASSUME ~there \/ ~alone, Answer(404, req)
      PROVE  AnswersInv'
  <2>1. req'.pc = "idle" /\ req'.op = req.op /\ req'.status = 404
    BY <1>0, <1>3, AnswerFields
  <2>2. NoTornAnswer' /\ LatestAnswered'
    BY <1>0, <1>1, <1>3, <2>1 DEF NoTornAnswer, LatestAnswered
  <2> QED
    BY <1>0, <2>1, <2>2, ReadAnswered
<1>4. ASSUME there, NEW body \in {row.data, CutShort(row.data)}, Show(body)
      PROVE  AnswersInv'
  <2>1. body \in Shown /\ body \in Views(req.op, moment)
    <3>1. row \in UsedRow
      BY <1>4, RowFacts DEF Used
    <3>2. row.data \in Contents
      BY <3>1, ContentsAssumption DEF UsedRow
    <3> QED
      BY <1>0, <1>4, <3>2, RequestValues DEF Views
  <2> DEFINE shown == [req EXCEPT !.shown = body]
  <2>2. shown \in Req /\ Answer(200, shown)
    BY <1>0, <1>4, <2>1, RequestChanged DEF Show
  <2>3. shown.op = req.op /\ shown.id = req.id /\ shown.shown = body
    BY <1>0 DEF Req
  <2> HIDE DEF shown
  <2>4. /\ req'.pc = "idle" /\ req'.op = req.op /\ req'.id = req.id
        /\ req'.status = 200 /\ req'.shown = body
    BY <2>2, <2>3, AnswerFields
  <2>5. moment \in moments'
    BY <1>0, <1>4, <2>4, Watched
  <2>6. NoTornAnswer'
    BY <1>0, <2>1, <2>4, <2>5 DEF NoTornAnswer
  <2>7. LatestAnswered'
    BY <1>0, <1>1, <1>2, <2>4 DEF LatestAnswered
  <2> QED
    BY <1>0, <2>4, <2>6, <2>7, ReadAnswered
<1> QED
  BY <1>3, <1>4 DEF ReadBlob

\* A write that is refused has not been done, and is answered with an error.
LEMMA RefusedAnswers ==
  ASSUME RootInv, WriteRefused
  PROVE  AnswersInv'
<1>1. req \in Req /\ req.op \in Writes /\ ~req.done /\ Answer(WriteStatus[req.op], req)
  BY DEF RootInv, RootTypeOK, WriteRefused, Pending
<1>2. WriteStatus[req.op] \in {404, 409, 500}
  BY <1>1 DEF Writes, WriteStatus
<1>3. /\ req'.pc = "idle" /\ req'.op = req.op /\ req'.done = req.done
      /\ req'.status \in {404, 409, 500}
  BY <1>1, <1>2, AnswerFields
<1>4. StatusTellsTruth'
  BY <1>1, <1>3 DEF StatusTellsTruth
<1> QED
  BY <1>1, <1>3, <1>4, WriteAnswered

LEMMA WriteAnswers ==
  ASSUME TypeOK, RootInv, Write
  PROVE  AnswersInv'
<1>0. req \in Req /\ req.op \in Writes
  BY DEF RootInv, RootTypeOK, Pending, Write, Written, WritePost, WritePut, WritePatch,
         WriteDelete, WriteSwap, WriteResequence
<1>1. Done \in Req /\ Done.op = req.op /\ Done.done = TRUE
  BY <1>0, RequestChanged DEF Done, Req
<1>2. ASSUME NEW status \in {200, 201, 204}, Answer(status, Done)
      PROVE  AnswersInv'
  <2>1. req'.pc = "idle" /\ req'.op = req.op /\ req'.done = TRUE /\ req'.status = status
    BY <1>1, <1>2, AnswerFields
  <2>2. StatusTellsTruth'
    BY <2>1 DEF StatusTellsTruth
  <2> QED
    BY <1>0, <2>1, <2>2, WriteAnswered
<1>3. CASE WriteSwap
  <2>1. req'.pc = "first"
    BY <1>1, <1>3, GoFields DEF WriteSwap
  <2> QED
    BY <2>1, NotAnswered DEF Undisturbed
<1>4. CASE WriteResequence
  <2>1. PICK n : n = Cardinality(Used)
    OBVIOUS
  <2>2. req' = [[Done EXCEPT !.id = n] EXCEPT !.pc = "list"]
    BY <1>4, <2>1 DEF WriteResequence, Go
  <2>3. req'.pc = "list" /\ req'.id = n
    BY <1>1, <2>2 DEF Req
  <2>4. 1..n \subseteq Used'
    <3> SUFFICES ASSUME NEW p \in 1..n
                 PROVE  p \in Used'
      OBVIOUS
    <3>1. PICK i \in Used : Rank(i) = p
      BY <2>1, RanksTaken
    <3>2. n <= maxItems /\ n \in Nat /\ maxItems \in Nat
      <4>1. Used \subseteq 1..maxItems /\ maxItems \in Nat
        BY UsedFinite, SlotsAssumption DEF TypeOK
      <4>2. IsFiniteSet(1..maxItems) /\ Cardinality(1..maxItems) = maxItems
        BY <4>1, FS_Interval
      <4>3. Cardinality(Used) <= Cardinality(1..maxItems)
        BY <4>1, <4>2, FS_Subset
      <4> QED
        BY <2>1, <4>1, <4>2, <4>3, UsedFinite
    <3>3. p \in 1..maxItems
      BY <3>2
    <3>4. slots' = Compacted(maxItems, 0)
      BY <1>4 DEF WriteResequence, Resequence
    <3>5. \E k \in Used : Rank(k) = p + 0
      BY <3>1, <3>3
    <3>6. slots'[p] = slots[Source(p, 0)] /\ Source(p, 0) \in Used
      BY <3>3, <3>4, <3>5 DEF Compacted, Source
    <3>7. slots'[p].used /\ p \in DOMAIN slots'
      BY <3>3, <3>4, <3>6 DEF Compacted, Used
    <3> QED
      BY <3>7 DEF Used, Slots
  <2>5. Undisturbed'
    BY <2>3, <2>4 DEF Undisturbed
  <2> QED
    BY <2>3, <2>5, NotAnswered
<1> QED
  BY <1>2, <1>3, <1>4 DEF Write, WritePost, WritePut, WritePatch, WriteDelete

\* swap and resequence read back what they have done.
LEMMA ReadBackAnswers ==
  ASSUME RootInv, AnswersInv, ReadFirst \/ ReadSecond \/ ReadBack
  PROVE  AnswersInv'
<1>0. /\ req \in Req /\ UNCHANGED <<slots, alone>> /\ Used' = Used
      /\ req.pc \in {"first", "second"} => req.op = "swap" /\ req.done
      /\ req.pc = "second" => req.status \in {200, 404}
      /\ req.pc = "list" => req.op = "resequence" /\ req.done
  BY DEF RootInv, RootTypeOK, Pending, ReadFirst, ReadSecond, ReadBack, Quiet, vars, Used,
         Slots
<1>1. CASE ReadFirst
  <2> DEFINE status == IF req.id \in Used THEN 200 ELSE 404
  <2>1. req' = [[req EXCEPT !.status = status] EXCEPT !.pc = "second"]
    BY <1>1 DEF ReadFirst, Go
  <2>2. status = 200 <=> req.id \in Used
    OBVIOUS
  <2> HIDE DEF status
  <2>3. req'.pc = "second" /\ req'.status = status /\ req'.id = req.id
    BY <1>0, <2>1 DEF Req
  <2>4. Undisturbed'
    BY <1>0, <2>2, <2>3 DEF Undisturbed
  <2> QED
    BY <2>3, <2>4, NotAnswered
<1>2. CASE ReadSecond
  <2> DEFINE status == IF req.other \in Used THEN req.status ELSE 404
  <2>1. Answer(status, req) /\ req.pc = "second"
    BY <1>2 DEF ReadSecond
  <2>2. /\ req'.pc = "idle" /\ req'.op = req.op /\ req'.id = req.id /\ req'.other = req.other
        /\ req'.done = req.done /\ req'.status = status
    BY <1>0, <2>1, AnswerFields
  <2>3. req.op = "swap" /\ req.done /\ req.status \in {200, 404}
    BY <1>0, <2>1
  <2>4. alone => (req.status = 200 <=> req.id \in Used)
    BY <2>1 DEF AnswersInv, Undisturbed
  <2>5. alone => status = 200 \/ ~({req.id, req.other} \subseteq Used)
    BY <2>4
  <2> HIDE DEF status
  <2>6. StatusTellsTruth'
    BY <1>0, <2>2, <2>3, <2>5 DEF StatusTellsTruth
  <2> QED
    BY <2>2, <2>3, <2>6, WriteAnswered DEF Writes
<1>3. CASE ReadBack
  <2> DEFINE status == IF 1..req.id \subseteq Used THEN 200 ELSE 500
  <2>1. Answer(status, req) /\ req.pc = "list"
    BY <1>3 DEF ReadBack
  <2>2. /\ req'.pc = "idle" /\ req'.op = req.op /\ req'.done = req.done
        /\ req'.status = status
    BY <1>0, <2>1, AnswerFields
  <2>3. req.op = "resequence" /\ req.done
    BY <1>0, <2>1
  <2>4. alone => status = 200
    BY <2>1 DEF AnswersInv, Undisturbed
  <2> HIDE DEF status
  <2>5. StatusTellsTruth'
    BY <1>0, <2>2, <2>3, <2>4 DEF StatusTellsTruth
  <2> QED
    BY <2>2, <2>3, <2>5, WriteAnswered DEF Writes
<1> QED
  BY <1>1, <1>2, <1>3

LEMMA AnswersInvHolds == RSpec => []AnswersInv
<1>1. RInit => AnswersInv
  BY DEF RInit, Idle, AnswersInv, NoTornAnswer, LatestAnswered, StatusTellsTruth,
         Undisturbed, Answered
<1>2. TypeOK /\ RootInv /\ AnswersInv /\ [RNext]_rvars => AnswersInv'
  <2> SUFFICES ASSUME TypeOK, RootInv, AnswersInv, [RNext]_rvars
               PROVE  AnswersInv'
    OBVIOUS
  <2>1. CASE UNCHANGED rvars
    BY <2>1
    DEF rvars, vars, AnswersInv, NoTornAnswer, LatestAnswered, StatusTellsTruth,
        Undisturbed, Answered, IsLatest, Precedes, Used, Slots
  <2> QED
    BY <2>1, RequestAnswers, ForgetAnswers, ElsewhereAnswers, FindAnswers, LoadAnswers,
       BlobAnswers, RefusedAnswers, WriteAnswers, ReadBackAnswers
    DEF RNext, Handle
<1> QED
  BY <1>1, <1>2, RootInvHolds, PTL DEF RSpec

\* A 200 to a GET shows one record that the slot held at one moment of the
\* request, as that way of asking shows it (the contents or a beginning of
\* them, or no contents), although it is read in up to three calls and any
\* number of other processes may change the store between them.
THEOREM AnswerIsOneRecord == RSpec => []NoTornAnswer
BY AnswersInvHolds, PTL DEF AnswersInv

\* GET / of an undisturbed server answers 404 only when there is no record and
\* otherwise answers from the latest, for every order the records came in.
THEOREM LatestIsAnswered == RSpec => []LatestAnswered
BY AnswersInvHolds, PTL DEF AnswersInv

\* A client may go by the status of a write: below 300 exactly when the store
\* has done it, but for a swap with an unused slot, and for a swap or a
\* resequence whose records another process removes before they are read back.
THEOREM WriteStatusIsTrue == RSpec => []StatusTellsTruth
BY AnswersInvHolds, PTL DEF AnswersInv
=============================================================================
