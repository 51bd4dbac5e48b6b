---------------------------- MODULE RootController ----------------------------
(***************************************************************************)
(* The handlers of /, /swap and /resequence over the store: what a request *)
(* is checked for, which service calls it makes in which order, and what   *)
(* it answers.  The event loop of a server runs one handler at a time, but *)
(* each service call opens the database anew, so another process can come  *)
(* between two calls of one request.                                       *)
(*                                                                         *)
(* A call that writes is one step of KaringStore (EntryStore has its inner *)
(* steps), and may be refused by SQLite.  A record's data is its MIME      *)
(* type, its size and whether it has a filename.  "plain" is text/...,     *)
(* "json" the application types that count as text, "image" any other      *)
(* supported type, "odd" all others, and "none" stands for a type that is  *)
(* not given; sizes are classes, such as: fits a text and a file, one of   *)
(* them, neither.                                                          *)
(***************************************************************************)
EXTENDS KaringStore

CONSTANTS Empty,   \* a body without contents
          Bodies,  \* bodies that requests have
          Foreign, \* contents that another process stores
          MaxText, \* size class options.max_text_bytes allows
          MaxFile  \* size class options.max_file_bytes allows

ASSUME SizeAssumption == MaxText \in Nat /\ MaxFile \in Nat /\ Empty \notin Data

VARIABLES alone,   \* no other process works on the database
          req,     \* the request being handled, or the last one answered
          moments  \* history: what its slot held since the request began

rvars == <<vars, alone, req, moments>>

\* clamp_size looks at each limit by itself: either can be the larger one.
Largest == IF MaxText > MaxFile THEN MaxText ELSE MaxFile

Supported == {"plain", "json", "image"}
Types == Supported \union {"odd"}

\* Filenames, and the type their extension tells; "empty" is no filename.
Guess == [txt |-> "plain", js |-> "json", none |-> "none", empty |-> "none"]

Missing == -1      \* no such query parameter
Unparsable == 0    \* not an integer
Ids == Unparsable..(MaxSlots + 1)

\* Bodies: form is the content type, "list" a JSON body that is no object;
\* size 0 stands for no content or file; name is the parameter filename, or
\* without it (titled) the filename of the file.
Body == {b \in [form : {"json", "list", "multipart", "other"}, parsed : BOOLEAN,
                size : 0..(Largest + 1), mime : Types \union {"none", "octet"},
                name : DOMAIN Guess, titled : BOOLEAN] :
           b.titled => b.name # "empty"}
ASSUME BodyAssumption == Bodies \subseteq Body

LatestReads == {"latest", "latestjson"}
JsonReads   == {"json", "latestjson"}
Reads  == LatestReads \union JsonReads \union {"raw", "download"}
Writes == {"post", "put", "patch", "delete", "swap", "resequence"}
Contents == [mime : Supported, size : 1..Largest, named : BOOLEAN]
NoBody == [mime |-> "none", size |-> 0, named |-> FALSE]
Sent == [mime : Supported \union {"none"}, size : 0..Largest, named : BOOLEAN]

\* What an error in the middle of a file leaves of it to a reader:
\* file_storage::read takes the error for the end of the file.
CutShort(data) == [data EXCEPT !.size = 0]
Shown == Contents \union {CutShort(data) : data \in Contents} \union {Empty}

\* The store is KaringStore with these contents; Theirs is the same store as
\* another process works on it.
ASSUME ContentsAssumption == Data = Contents /\ Foreign \subseteq Contents
Theirs == INSTANCE KaringStore WITH Data <- Foreign

Idle == [pc |-> "idle", op |-> "none", id |-> Missing, other |-> Missing, kind |-> "none",
         data |-> NoBody, done |-> FALSE, status |-> 0, shown |-> Empty]

Points == {"idle", "latest", "record", "blob", "write", "first", "second", "list"}
Statuses == {0, 200, 201, 204, 400, 404, 409, 413, 415, 500}
Req == [pc : Points,
        op : Reads \union Writes \union {"none"},
        id : Ids \union {Missing}, other : Ids \union {Missing},
        kind : Kinds \union {"none"},
        data : Sent,
        done : BOOLEAN,
        status : Statuses,
        shown : Shown]

RootTypeOK ==
  /\ alone \in BOOLEAN
  /\ req \in Req
  /\ moments \subseteq [kind : Kinds, data : Contents]

-----------------------------------------------------------------------------
(* Checks of the bodies: the status of a refusal, 0 for a body that is     *)
(* taken.  Asking a JSON array or number for its member throws, and the    *)
(* framework answers 500.                                                  *)

\* normalise: a missing or general type gives way to the file extension's.
Normalise(mime, name) ==
  IF mime \notin {"none", "octet"} \/ Guess[name] = "none" THEN mime ELSE Guess[name]
TypeOf(b) == LET mime == Normalise(b.mime, b.name)
             IN  IF mime \in Supported THEN mime ELSE "odd"

\* MUTANT CreateStatus: any type of upload is taken.
CreateStatusAnyType(b) ==
  IF b.form = "other" THEN 415
  ELSE IF b.form = "list" THEN 500
  ELSE IF ~b.parsed \/ b.size = 0 THEN 400
  ELSE IF b.size > (IF b.form = "json" THEN MaxText ELSE MaxFile) THEN 413
  ELSE 0

CreateStatus(b) ==
  IF b.form = "other" THEN 415
  ELSE IF b.form = "list" THEN 500
  ELSE IF ~b.parsed \/ b.size = 0 THEN 400
  ELSE IF b.form = "multipart" /\ TypeOf(b) \notin Supported THEN 415
  ELSE IF b.size > (IF b.form = "json" THEN MaxText ELSE MaxFile) THEN 413
  ELSE 0

\* MUTANT PatchStatus: only the size of a text is looked at.
PatchStatusAnySize(b) ==
  IF b.form = "other" THEN 415
  ELSE IF b.form = "list" THEN 500
  ELSE IF ~b.parsed THEN 400
  ELSE IF b.form = "json" /\ b.size > MaxText THEN 413
  ELSE IF b.form = "multipart" /\ b.mime # "none" /\ TypeOf(b) \notin Supported THEN 415
  ELSE 0

\* PATCH can leave out the contents, the type or both.
PatchStatus(b) ==
  IF b.form = "other" THEN 415
  ELSE IF b.form = "list" THEN 500
  ELSE IF ~b.parsed THEN 400
  ELSE IF b.size > (IF b.form = "json" THEN MaxText ELSE MaxFile) THEN 413
  ELSE IF b.form = "multipart" /\ b.mime # "none" /\ TypeOf(b) \notin Supported THEN 415
  ELSE 0

KindOf(b) == IF b.form = "json" THEN "text" ELSE "file"
Created(b) == [mime |-> IF b.form = "json" THEN "plain" ELSE TypeOf(b), size |-> b.size,
               named |-> b.form = "multipart" /\ b.name # "empty"]

\* An extension that says nothing keeps the type the record has, and so does
\* a PATCH with neither file nor type; only the parameter filename renames.
Patch0(b) ==
  [mime |-> CASE b.form = "json" -> "plain"
              [] b.form # "json" /\ b.mime # "none" -> TypeOf(b)
              [] b.form # "json" /\ b.mime = "none" -> IF b.size > 0 THEN Guess[b.name] ELSE "none",
   size |-> b.size,
   named |-> b.form = "multipart" /\ b.titled]
Over(new, old) == [mime |-> IF new.mime = "none" THEN old.mime ELSE new.mime,
                   size |-> IF new.size = 0 THEN old.size ELSE new.size,
                   named |-> new.named \/ old.named]

-----------------------------------------------------------------------------
(* Steps of a handler.                                                     *)

\* What slot id of a table holds, as a reader sees it.
Held(table, id) ==
  {[kind |-> table[i].kind, data |-> table[i].data] :
     i \in {k \in {id} \intersect DOMAIN table : table[k].used}}

\* The slot a pending read is about is watched.
Watch == moments' = IF req.op \in Reads THEN moments \union Held(slots', req'.id) ELSE {}

Go(pc, r) == req' = [r EXCEPT !.pc = pc]
Answer(status, r) ==
  req' = [r EXCEPT !.pc = "idle", !.status = status, !.kind = "none", !.data = NoBody]
Show(body) == Answer(200, [req EXCEPT !.shown = body])

\* The next request; moments starts with what its slot holds now.
Begin(r, pc, status) ==
  /\ req = Idle
  /\ IF status = 0 THEN Go(pc, r) ELSE Answer(status, [Idle EXCEPT !.op = r.op])
  /\ moments' = IF r.op \in Reads THEN Held(slots, r.id) ELSE {}
  /\ UNCHANGED <<vars, alone>>

IdStatus(id) == IF id \in {Missing, Unparsable} THEN 400 ELSE 0
First(a, b) == IF a # 0 THEN a ELSE b

GetLatest == \E op \in LatestReads : Begin([Idle EXCEPT !.op = op], "latest", 0)
GetById(op, id) ==
  Begin([Idle EXCEPT !.op = op, !.id = id],
        IF op = "download" THEN "blob" ELSE "record", IdStatus(id))
GetUnsupported == Begin([Idle EXCEPT !.op = "latest"], "idle", 400)

Post(b) ==
  LET status == CreateStatus(b) IN
  Begin([Idle EXCEPT !.op = "post", !.kind = KindOf(b),
                     !.data = IF status = 0 THEN Created(b) ELSE NoBody], "write", status)
Put(id, b) ==
  LET status == First(IdStatus(id), CreateStatus(b)) IN
  Begin([Idle EXCEPT !.op = "put", !.id = id, !.kind = KindOf(b),
                     !.data = IF status = 0 THEN Created(b) ELSE NoBody], "write", status)
PatchKaring(id, b) ==
  LET status == First(IdStatus(id), PatchStatus(b)) IN
  Begin([Idle EXCEPT !.op = "patch", !.id = id, !.kind = KindOf(b),
                     !.data = IF status = 0 THEN Patch0(b) ELSE NoBody], "write", status)
\* Without id, DELETE is for the latest record.
DeleteKaring(id) ==
  Begin([Idle EXCEPT !.op = "delete", !.id = id], "write", IF id = Unparsable THEN 400 ELSE 0)
SwapKaring(id1, id2) ==
  Begin([Idle EXCEPT !.op = "swap", !.id = id1, !.other = id2], "write",
        First(First(IdStatus(id1), IdStatus(id2)), IF id1 = id2 THEN 400 ELSE 0))
ResequenceKaring == Begin([Idle EXCEPT !.op = "resequence"], "write", 0)

Quiet == UNCHANGED <<vars, alone>> /\ Watch

\* MUTANT FindLatest: the slot behind the cursor is taken for the latest.
FindLatestBehindCursor ==
  /\ req.pc = "latest"
  /\ \/ PrevSlot \in Used /\ Go("record", [req EXCEPT !.id = PrevSlot])
     \/ PrevSlot \notin Used /\ Answer(404, req)
  /\ Quiet

\* latest_record, first read: the id of the latest record.
FindLatest ==
  /\ req.pc = "latest"
  /\ \/ \E id \in Used : IsLatest(id) /\ Go("record", [req EXCEPT !.id = id])
     \/ Used = {} /\ Answer(404, req)
  /\ Quiet

\* Uploads that count as text although their contents are in a file: raw
\* output looks for the file only if the type is text/... and there is a name.
RowOnly(data) == data.mime = "json" \/ (data.mime = "plain" /\ ~data.named)

\* record_by_id: JSON shows what the row has, and so does raw output of what
\* counts as text; the row of an upload has no text.
LoadRecord ==
  /\ req.pc = "record"
  /\ LET row == slots[req.id] IN
     \/ req.id \notin Used /\ Answer(404, req)
     \/ /\ req.id \in Used /\ row.kind = "text"
        /\ Show(row.data)
     \/ /\ req.id \in Used /\ row.kind = "file"
        /\ req.op \in JsonReads \/ RowOnly(row.data)
        /\ Show(Empty)
     \/ /\ req.id \in Used /\ row.kind = "file"
        /\ req.op \notin JsonReads /\ ~RowOnly(row.data)
        /\ Go("blob", [req EXCEPT !.data = row.data])
  /\ Quiet

\* MUTANT ReadBlob: the type is the first read's, the contents the second's.
ReadBlobTyped ==
  /\ req.pc = "blob"
  /\ LET there == req.id \in Used /\ slots[req.id].kind = "file" IN
     \/ there /\ Show([slots[req.id].data EXCEPT !.mime = req.data.mime])
     \/ (~there \/ ~alone) /\ Answer(404, req)
  /\ Quiet
\* MUTANT ReadBlob: nothing is answered when there is no file.
ReadBlobSilent ==
  /\ req.pc = "blob"
  /\ req.id \in Used /\ slots[req.id].kind = "file"
  /\ Show(slots[req.id].data)
  /\ Quiet

\* file_blob_by_id: reads the row again, and with it the file, to its end or
\* to an error; another process may remove the file in between.
ReadBlob ==
  /\ req.pc = "blob"
  /\ LET there == req.id \in Used /\ slots[req.id].kind = "file" IN
     \/ there /\ (Show(slots[req.id].data) \/ Show(CutShort(slots[req.id].data)))
     \/ (~there \/ ~alone) /\ Answer(404, req)
  /\ Quiet

\* What a write answers when the store does not do it.
WriteStatus == [post |-> 500, put |-> 404, patch |-> 409, delete |-> 404,
                swap |-> 404, resequence |-> 500]

\* The call that writes: the store does it, and the handler answers or reads
\* back, or does not do it.
Written(op) == req.pc = "write" /\ req.op = op
Done == [req EXCEPT !.done = TRUE]

WritePost == Written("post") /\ Insert(req.kind, req.data) /\ Answer(201, Done)
WritePut == Written("put") /\ Replace(req.id, req.kind, req.data) /\ Answer(200, Done)
WritePatch ==
  /\ Written("patch")
  /\ req.id \in Used /\ slots[req.id].kind = req.kind
  /\ Patch(req.id, Over(req.data, slots[req.id].data))
  /\ Answer(200, Done)
WriteDelete ==
  /\ Written("delete")
  /\ \/ req.id = Missing /\ DeleteLatest
     \/ req.id \in Slots /\ Delete(req.id)
  /\ Answer(204, Done)
WriteSwap ==
  /\ Written("swap")
  /\ req.id \in Slots /\ req.other \in Slots /\ Swap(req.id, req.other)
  /\ Go("first", Done)
WriteResequence ==
  /\ Written("resequence")
  /\ Resequence
  /\ Go("list", [Done EXCEPT !.id = Cardinality(Used)])

Write == /\ \/ WritePost \/ WritePut \/ WritePatch
            \/ WriteDelete \/ WriteSwap \/ WriteResequence
         /\ UNCHANGED <<alone, moments>>

\* The slot is not there or not of that kind, the record too old, the
\* database busy or the disk full.
WriteRefused == req.pc = "write" /\ Answer(WriteStatus[req.op], req) /\ Quiet

\* swap: both records are read back, one call each.
ReadFirst ==
  /\ req.pc = "first"
  /\ Go("second", [req EXCEPT !.status = IF req.id \in Used THEN 200 ELSE 404])
  /\ Quiet
ReadSecond ==
  /\ req.pc = "second"
  /\ Answer(IF req.other \in Used THEN req.status ELSE 404, req)
  /\ Quiet

\* MUTANT ReadBack: one record more is read than there are.
ReadBackPast ==
  /\ req.pc = "list"
  /\ Answer(IF 1..(req.id + 1) \subseteq Used THEN 200 ELSE 500, req)
  /\ Quiet

\* resequence_entries reads the records 1..n back after its COMMIT.
ReadBack ==
  /\ req.pc = "list"
  /\ Answer(IF 1..req.id \subseteq Used THEN 200 ELSE 500, req)
  /\ Quiet

-----------------------------------------------------------------------------
\* Every record is of a type and a size that its kind may have, although its
\* type and its contents can come from different requests.
OnlyAcceptable ==
  \A i \in Used : LET data == slots[i].data IN
    \/ /\ slots[i].kind = "text" /\ data.mime = "plain" /\ ~data.named
       /\ data.size \in 1..MaxText
    \/ slots[i].kind = "file" /\ data.mime \in Supported /\ data.size \in 1..MaxFile

RInit == Init /\ alone \in BOOLEAN /\ req = Idle /\ moments = {}

Request ==
  \/ GetLatest \/ GetUnsupported
  \/ \E id \in Ids, op \in Reads \ LatestReads : GetById(op, id)
  \/ \E b \in Bodies : Post(b)
  \/ \E id \in Ids \union {Missing}, b \in Bodies : Put(id, b) \/ PatchKaring(id, b)
  \/ \E id \in Ids \union {Missing} : DeleteKaring(id)
  \/ \E id1, id2 \in Ids \union {Missing} : SwapKaring(id1, id2)
  \/ ResequenceKaring

Handle ==
  \/ FindLatest \/ LoadRecord \/ ReadBlob
  \/ Write \/ WriteRefused
  \/ ReadFirst \/ ReadSecond \/ ReadBack

\* An answer is looked at when it has been given, and then forgotten.
Answered == req.pc = "idle" /\ req.op # "none"
Forget == Answered /\ req' = Idle /\ moments' = {} /\ UNCHANGED <<vars, alone>>

\* Time passes, or another process (a server with the same limits, or a
\* start-up) does any operation of the store between two steps of a handler.
Elsewhere ==
  /\ ~Answered
  /\ Tick \/ (~alone /\ Theirs!Next /\ OnlyAcceptable')
  /\ UNCHANGED <<alone, req>> /\ Watch

RNext == Request \/ Handle \/ Forget \/ Elsewhere

\* The event loop runs every handler to its end.
RSpec == RInit /\ [][RNext]_rvars /\ WF_rvars(Handle)

-----------------------------------------------------------------------------
\* What a reader can see of a record: JSON has no file contents; the other
\* ways show its contents, as far as the file can be read, but raw output
\* has none of an upload that counts as text and is not asked for its file.
Views(op, m) ==
  IF m.kind = "text" THEN {m.data}
  ELSE IF op \in JsonReads THEN {Empty}
  ELSE {m.data, CutShort(m.data)}
         \union (IF RowOnly(m.data) /\ op # "download" THEN {Empty} ELSE {})

\* GET reads a record in up to three calls, and other processes may change it
\* between any two: a 200 nevertheless shows one record, its type and its
\* contents or a beginning of them, that the slot held at some moment of the
\* request.
NoTornAnswer ==
  (Answered /\ req.op \in Reads /\ req.status = 200) =>
    \E m \in moments : req.shown \in Views(req.op, m)

\* With no other process, and database and files that can be opened, GET /
\* answers 404 only if there is no record, and otherwise shows the latest.
LatestAnswered ==
  (alone /\ Answered /\ req.op \in LatestReads) =>
    /\ req.status = 404 => Used = {}
    /\ req.status = 200 => IsLatest(req.id)

\* The status of a write says whether the store has done it: a client may
\* repeat what was refused.  The exception is a swap with an unused slot,
\* which is done and answered 404; with other processes also a resequence or
\* a swap whose records are gone before they are read back.
StatusTellsTruth ==
  (Answered /\ req.op \in Writes) =>
    \/ req.status < 300 <=> req.done
    \/ req.op = "swap" /\ req.done /\ ~alone
    \/ req.op = "swap" /\ req.done /\ ~({req.id, req.other} \subseteq Used)
    \/ req.op = "resequence" /\ req.done /\ ~alone

\* Every request is answered, whatever other processes do to the record it
\* is about: no path through a handler ends without an answer.
EveryRequestAnswered == (req.pc # "idle") ~> (req.pc = "idle")

-----------------------------------------------------------------------------
(* What docs/requests.md says and the handlers do not keep.                *)

\* docs/requests.md:7, "RAW response: endpoints such as GET / return
\* text/plain or the file body directly".
RawShowsBody ==
  (Answered /\ req.op \in {"latest", "raw"} /\ req.status = 200) => req.shown # Empty
=============================================================================
