# karing: formal models

TLA+ models of karing, the small HTTP store for texts and files, checked with
TLC on bounded instances; the safety properties that hold are also proved with
TLAPS, for every value of the constants. Paths below are relative to the repository (`src/`).

## 1. The system

karing keeps at most `max_items` records in numbered slots. A record is a text
(kept in the row) or an uploaded file (kept in the upload directory, named by
the row). New records go to the slot under a cursor, `next_id`, which runs
round the slots: a full store rotates.

| component | state | operations | correct when |
|---|---|---|---|
| slot store (`sqlite/store/entry_store.cpp`, `sqlite/dao`) | tables `entries`, `store_state` | insert, PUT, PATCH, delete by id, delete latest, swap, resequence | the ring stays in order of age, no record is lost or copied, a refused request changes nothing |
| file storage (`sqlite/storage/file_storage.cpp`) | files of the upload directory | write, read, remove | a row's file is there and holds what was sent; a file without a row is the trace of a fault |
| initialisation and resize (`sqlite/db/db_init*.cpp`, `db_resize.cpp`) | the same tables | create, grow, shrink, forced shrink | only the oldest records are dropped, and only with `--force` |
| full-text index (`sqlite/sql/schema_fts.sql`) | FTS5 table `entries_fts`, maintained by triggers | index a row, forget a row, rebuild | finds what is stored, and only that; never refuses a request |
| record reads (`sqlite/repository/entry_repository.cpp`) | none | latest id, by id, lists, search | answers from committed rows in the stated order |
| search service and query builder (`server/services/search_service.cpp`, `server/utils/search_query.cpp`) | none | search, live search | limit, type filter, order and refusals as documented |
| root controller and service (`server/controllers/karing_root_controller.cpp`, `server/services/root_service.cpp`) | none | one handler per method | the status says what happened to the store |
| start-up (`server/init/bootstrap.cpp`, `server/utils/options.cpp`, `sqlite/db/db_path.cpp`) | process options, working directory | parse, resolve paths, initialise, run | no record is lost but by `--force`, and the same call finds the same database again |
| client (`cli/`) | the authentication cache in the temporary directory | get, add, mod, del, find, swap, resequence, health | the command line means what `docs/cli.md` says; concurrent invocations do not disturb each other |
| helpers (MIME types, request parameters, downloads, introspection) | none | pure functions and reads | they tell the types, ids and files apart as their callers rely on |
| Drogon, SQLite, FTS5 | external | | modelled from how `src/` uses them |

How they interact: the controllers call the services, these the DAO, which
opens a SQLite connection per call and, for uploads, writes the file *before*
the transaction that names it and removes the replaced file *after* the commit.
Triggers run inside the statements and can make them fail. Start-up runs
the resize before the server listens. Drogon's thread number is never set, so
one event loop runs the handlers of a server one after the other;
interleavings inside the store need a second process (another server, or a
start-up with `--init-db` or `--force` beside a running one). A handler that
makes several DAO calls can be interrupted by such a process between any two.
Clients are processes of their own: all invocations of one user share the
authentication cache, a file.

What is hard here: two stores (rows and files) without a common transaction,
crashes between their steps, the cursor through wrap-around, deletion,
resequencing and resizing, times in whole seconds, an index maintained by
triggers that run after the row has changed, reads made before the
transaction that uses them, requests that read in several calls, start-ups that
look for a database others may be creating, and retries of requests that may
already have been carried out. `PROJECT.json` lists each such hazard at its line
with the properties that cover it.

## 2. Modules

| module | what it models |
|---|---|
| `KaringStore` | the abstract specification: every store operation and resize in one step |
| `EntryStore` | the same operations step by step, with files, failures, crashes, start-ups and several processes; implements `KaringStore` |
| `FtsIndex` | `KaringStore` composed with the index and its triggers |
| `SearchQuery` | both query builders as operators over sequences of characters, FTS5's matching, and a reference reading of what a query asks for |
| `SearchService` | `FtsIndex` composed with `SearchQuery`: what `/search` and `/search/live` answer in every state of the index |
| `RootController` | the handlers of `/`, `/swap` and `/resequence` over `KaringStore`, call by call, beside another process |
| `Startup` | server processes from the command line to serving and back, over a disk they share |
| `CliClient` | the command line, the attempts behind a request, the cache file of overlapping invocations |
| `KaringStore_proofs` | theorems of `KaringStore`: the ring, its sorting operations, what is dropped |
| `EntryStore_proofs` | theorems of `EntryStore` for any number of processes, crashes and errors |
| `EntryStoreAlone_proofs` | its theorems for one process, the refinement of `KaringStore` among them |
| `FtsIndex_proofs` | theorems of `FtsIndex` |
| `SearchService_proofs` | theorems of `SearchService` and, as lemmas, what the query builders make of a query |
| `RootController_proofs` | theorems of `RootController` |
| `Startup_proofs` | theorems of `Startup` |
| `CliClient_proofs` | theorems of `CliClient` |
| `MC...` | the TLC instances; their `.cfg` files give the bounds |

### KaringStore

`slots`, `maxItems` and `nextId` are the tables `entries` and `store_state`,
`clock` is `now_epoch()`. `made` and the field `seq` of a row are history: the
order of creation, which the program does not keep. `mixed` is history too: a swap has
happened since the slots were last sorted by age. The actions are named for
the operations: `Insert` (`insert_text`, `insert_file`), `Replace` (PUT),
`Patch`, `Delete`, `DeleteLatest`, `Swap`, `Resequence`, and `Grow`, `Shrink`,
`ForceShrink` for `apply_resize`. A refused operation is a stuttering step.
Name, MIME type, size and `updated_at` of a row are left out: no property here
tells them apart. The NULL `stored_at` of an unused row is 0; it is never compared.

### EntryStore

`rows` and `disk` are the table and the upload directory, `job[p]` what process
`p` is doing: its program counter and the local variables of the handler (slot,
data, old path, new path, files to remove). Each handler is cut at the points
where another process, a crash or a failure can come between:

    insert   BeginInsert (fetch_state) - ReadOldPath - [WriteFile] - CommitInsert - Remove
    update   BeginReplace/Patch*/Rename - [ReadBlob] - LoadEntry - [WriteFile] - CommitUpdate - Remove
    delete   BeginDelete(Latest) - [CheckLatest] - LoadEntry - CommitDelete - Remove
    start    StartSame/Larger/Smaller/Forced (one transaction) - Remove

`Refuse`, `WriteFails` and `TxnFails` are the failing branches, `Crash` kills a
process anywhere. `write_for_slot` asks its stream before the last part is
flushed, and `read` takes an error for the end of a file: such an error is not
noticed, and leaves contents `Cut` short in a file, or in a row's next file, that
counts as written. `Partial` is what a write leaves that was seen to fail or was
interrupted. `Swap` and `Resequence` are one transaction and nothing else.
A transaction is one step: SQLite serialises writers and hides uncommitted rows.

`Store == INSTANCE KaringStore WITH slots <- ...` is the refinement mapping: a
slot's data is the text of its row or the contents of the file the row names
(`Partial` if it is missing). `ImplementsStore` says that every behaviour of
`EntryStore` is one of `KaringStore` over the contents that count as written,
`Filed`: each request takes effect at its commit or not at all, and a missing or
half-written file is no record's contents. `NoDanglingRow` adds that without a
fault nothing is cut.

### FtsIndex

`postings[i]` are the words the index holds for row `i`, `rowCount` the number
of rows FTS5 believes it has. `entries_au` is `AFTER UPDATE` on an external
content table and gives the `'delete'` command the rowid only; FTS5 then looks
for the old words in the row as it is now, removes none of them, takes one off its
count and fails with `SQLITE_CORRUPT` when the count is 0. A statement whose
trigger fails is refused, so each action is the store's action together with
`Touched`. Every start-up drops the index and rebuilds it (`Rebuilt`). This is
the one place where behaviour of external code matters; it was compared with
the repository's own `sqlite/` code linked with SQLite 3.40.1.

### SearchQuery and SearchService

A character is a word, a blank, a bar or a quote; letters are not told apart.
`ReadChar` is the body of the loop of `build_fts_query`, and `Reading(q)[n]` its
state after `n` characters; what it ends with is a sequence of alternatives of
terms, which stands for the string with its `AND`s and `OR`s. Beside it, `Quoted`, `Bars`, `Alternative` and
`WordsAsked` say without the loop what the user asks for: quotes are counted,
bars outside quotes separate. An empty alternative (`a | `) is a syntax error of
FTS5, which `search_fts` takes for the end of the hits: the answer is 200 and
empty. `Search` and `LiveSearch` follow the two functions of the service; they
change nothing, so they are operators on the state of `FtsIndex`, and the
properties quantify over all requests in every reachable state. `ORDER BY` is
said by places: row `i` is at place `n` when `n - 1` rows are ahead of it.

### RootController

`req` is the request a server is handling: the call it makes next and what it
has read so far. `alone` says whether this server has the database to itself;
if not, `Elsewhere` performs any `Next` of `KaringStore` between two calls. A
writing call is one step of `KaringStore` (what `EntryStore` shows it to be) or
is refused. `moments` is history: what the slot of a pending read has held since
the request began; `Forget` drops an answer once it has been given. A record's
data is its class of MIME type, its class of size (up to `Largest`, the larger of
the two limits) and whether it has a filename (`Contents`); raw output looks for
the file of a text only if there is a name (`RowOnly`). Bodies come from
`Bodies`, one for each way through the checks (a JSON body that is an array or a
number, which makes the handler throw, among them), and what the other process
stores from `Foreign`. `Views` says what each way of reading can show of a record.

### Startup

`proc[p]` is the start-up of a process between the points where another one can
come: `Launch` (options), `Look`, `Touch` (the second look of `touch_db_file`),
`Create`, `Enter` (working directory and link), `InitSchema` (one transaction),
`Configure`, and then `Serve`. `Stop` ends it anywhere. An invocation has its
command line, its environment, its `home` (`$XDG_DATA_HOME/karing`, else the
directory below `$HOME`, else none) and its working directory; without a home the
fallback is `Local[cwd]`. `Create` follows a link made meanwhile. A database is
reduced to its limit and its used slots. `by` (who initialised a file last),
`named` (an operator has named a database), `homes` (the fallback directories of
starts that named none) and the `seen` of a start-up (the names that led to a
file when it looked) are history. `Read` is what one option changes and
`Reading(call)[n]` the options after `n` of them, starting from the environment,
as in `parse`.

### CliClient

`Dispatch` maps a command line to the request it asks for, following
`parse_global`, `run` and the `run_*` commands (`Command`). `Takes` tells which words
are options that take the word after them, so that `Words` are what is left of
a line; `Names` says of a line that it names a record. `client[c]` is an invocation with
the attempt it is at: `Load` (the cache), `Send`, `Retry`, `Truncate` and `Write`
(the cache, emptied first; two writers at once can leave a `Mixed` one), `Settle`,
and `Fetch` for the second request of `get`. The server and whoever checks the keys are external: `Send` answers any
success or failure, `Reconfigure` changes the accepted scheme, `Overwrite` the
record, `Lose` loses a request or its answer, `Quit` ends an invocation anywhere.
`applied`, `seen`, `steady`, `changed` and `names` are history.

## 3. Runs

| run | shows | bounds |
|---|---|---|
| `store` | all properties of `KaringStore` | up to 3 slots, 3 seconds, `DELETE /` reaching 1 second back, 4 records: the largest ring wraps and a record grows too old |
| `steps` | `NoDanglingRow`, `NoSharedFile`, `NoOrphans`, `ImplementsStore` | 1 process, up to 2 slots, 2 contents, 2 records, 2 seconds, 5 file names, 1 crash or file error (at any step) |
| `search` | the index never misses a record; searches find what one alternative asks for, and only what the index has; live searches find no less; totals and the first of a list agree with the store | up to 2 slots, 2 words (one begins with the other), 3 records, 2 seconds; all queries of up to 2 characters and 12 longer ones; queries cut at 5 characters, live ones at 3 |
| `requests` | records keep acceptable types and sizes; a GET shows one record of one moment; GET / shows the latest; the status of a write tells whether it happened; every request is answered | up to 2 slots, 2 records, 17 bodies; a size class only a text may have, one both may and one neither (`MaxText` = 2, `MaxFile` = 1) |
| `startup` | no record is lost unforced, plain starts with one fallback directory keep to one database, `--check-db` writes nothing, servers of one database agree on the upload directory, the limit is the one asked for | 2 processes, 3 starts, 10 invocations from 2 working directories with and without a home, 2 names in 3 directories, limits below, at and above 1..2 |
| `client` | one invocation is carried out at most once, and ends if its transfers do; the cache costs no answer and holds only what worked; files are not printed while the slot keeps what it had; the latest record is deleted only by a line naming none | 2 overlapping invocations, 6 command lines, 3 policies of the server |
| `store_newest` | counterexample: GET / does not answer with the newest record | 2 slots, 3 records |
| `store_latest_created` | counterexample: DELETE / takes another record than the latest created | 2 slots, 3 records |
| `steps_two_processes` | counterexample: a record loses its file | 2 processes, 2 slots, no fault |
| `index_stale` | counterexample: a search finds an overwritten record | 2 slots, 3 records |
| `index_exhausted` | counterexample: a deletion is refused | 2 slots, 4 records |
| `requests_raw` | counterexample: a raw GET shows nothing of an uploaded JSON file | as `requests` |

The bounds suffice because the hazards are about neighbours in the ring: three
slots give a slot before, under and after the cursor, and one record more
than slots makes it wrap; two slots are enough for a file to be in the wrong
row, for a limit to cut a page, and for a swap. A single fault suffices because
each one ends the request it hits and the model is otherwise free to start from
what it left. Two processes or invocations are what the races on one file
take; three starts give one to create, one to restart and one beside it. One
clock value suffices for `requests`, where equal times already make slot numbers
decide. `MaxMade`, `MaxClock`, `MaxFaults`, `MaxStarts` and `MaxTyped` bound only
the guards of `Insert`, `Tick`, the faults, `Launch` and the queries tried.

### Fairness

`RootController` assumes weak fairness of `Handle`: the event loop of a server
runs every handler to its end, and nothing a handler does waits for another
request. `EveryRequestAnswered` is then about the paths through the handlers:
whatever another process does to the record, some step is possible and the path
is finite. `CliClient` assumes weak fairness of each invocation's own `Step`,
which waits for nothing, and none of `Transfer`: `http_client.cpp` sets no time
limit, so a server that neither answers nor closes holds an invocation as long
as it likes. `EveryInvocationEnds` is therefore about invocations none of whose
transfers lasts for ever: they do not go round the schemes without end nor wait
for the other invocation. The other specifications state no fairness: a store without
requests may rest for ever, and a start-up may be stopped at any point.

### What the counterexamples say

* `store_newest` (`README.md:70`): within one second GET / prefers the greater
  slot id; after a wrap-around in that second this is the older record.
* `store_latest_created` (`README.md:101`): DELETE / trusts the cursor; after
  a swap the slot behind it holds an older record.
* `steps_two_processes` (`karing_dao.h:79`): insert reads the old path outside
  its transaction; a swap by another process moves that file to another
  row, and the insert removes it. A forced shrink or a resequence in the other
  process does the same. A single server is safe, as the run `steps` shows.
* `index_stale` (`README.md:134`) and `index_exhausted` (`README.md:105`): the two
  effects of the trigger described above. After `max_items` deletions since
  start-up (deleting an unused slot again counts), inserts, updates and
  deletions all fail until a restart.
* `requests_raw` (`docs/requests.md:7`): an upload of an application type that counts
  as text (JSON, XML, YAML, TOML, JavaScript) is neither `is_file` nor "text/...", so
  the raw output is the row's text, which an upload does not have. An upload of
  text without a filename fares the same. Download requests are right.

### What else the code does that its documents do not say

Found while modelling; the modules follow the code, and no run is about them.

* `cli/app.cpp:73`: `karing --id 7` fetches the latest record, not record 7 as
  `docs/cli.md` says; line 97, which would, is unreachable. With any other word
  `--id` is refused, so no command changes a record it was not given.
* `server/init/bootstrap.cpp:191`: with the default database in
  `/var/lib/karing` uploads go below `$XDG_DATA_HOME` or `$HOME`, with any other
  database beside it; `README.md:52` names `<db directory>/uploads`, and
  `docs/option.md:17` the other place for the fallback only.
* `sqlite/db/db_path.cpp:27`: between the last look at a path and its opening for
  writing another start-up may create a database there and fill it, or link
  the name to one: it is emptied. `LossWasForced` names this exemption.
* `sqlite/storage/file_storage.cpp:24`: `ofs.good()` is returned before the stream is
  flushed. A small file on a full disk is called written, its row is committed and
  GET answers with an empty or cut file, where `docs/requests.md:7` has the file body
  (the second disjunct of `WriteFile`).
* `cli/commands/get_command.cpp:73`: a file put into the slot between the request for
  the metadata and that for the contents is printed as it is; `docs/cli.md:75` says
  that no file is. `BinaryIsNotPrinted` holds while the slot keeps what it had.
* `server/init/bootstrap.cpp:132`: the resize is committed before the size options
  are looked at; a start-up that is then refused has changed the store.
* `sqlite/db/db_resize.cpp:168`: a forced shrink puts the cursor on slot 1 even when
  later slots are free, and the next record replaces the oldest.
* `server/services/root_service.cpp:15`: beside another process GET / can answer 404
  although there are records, if the latest is deleted between its two reads.
* `server/controllers/karing_root_controller.cpp:279`: a PATCH with a new file whose
  extension says nothing keeps the type of the file that is gone.
* With neither `XDG_DATA_HOME` nor `HOME` set, which database a plain start opens
  depends on the directory it is started from (`sqlite/db/db_path.cpp:44`).
* A swap with an unused slot is carried out and answered 404 (named in
  `StatusTellsTruth`); a query that ends in a bar is answered 200 with no hits.

## 4. Proofs

Every invariant and every action property of a run that TLC passes is proved,
for every value of the constants, from the assumptions listed in section 5;
what is left to TLC alone is named at the end. Each proof has the same
shape: an inductive invariant with a name, a lemma per kind of step that it
survives it, and theorems that follow from it.

### KaringStore_proofs

| theorem | states |
|---|---|
| `TypeCorrect` | `Spec => []TypeOK` |
| `RecordsDistinct` | `Spec => []DistinctRecords` |
| `RingOrdered` | `Spec => []RingOrder` |
| `LatestDeletionIsNewest` | `Spec => DeleteLatestTakesNewest` |
| `RotationIsOldest` | `Spec => RotationDropsOldest` |
| `ResequencedIsSettled` | `Spec => ResequenceSettles` |
| `DeletionDoesNotCascade` | `Spec => NoCascade` |
| `ResizeKeepsNewest` | `Spec => ResizeDropsOldest` |
| `RecordsAreConserved` | `Spec => RecordsConserved` |

`TypeOK` carries the facts that no record is younger than the clock and none has
a number greater than `made`; with them `DistinctRecords` and `RingOrder` are
inductive: an insert writes a row at least as young and a number greater than
every other. The work is in the operations that sort: `Compacted` places the
used rows by `Rank`, a cardinality. `RankRange` and `RankOrder` say what a rank
is worth (from the cardinality theorems for finite sets), `RanksTaken` that each
is somebody's; `CompactedSorted`, `CompactedDistinct` and `CompactedFront` what a
compaction therefore yields; `RankRises` and `ResequencePlaces` that a resequence
keeps the order and leaves no gap. The action properties follow action by action, most
from `RingEnds`: under `RingOrder`, the slot behind the cursor is the last of
the ring and the one under it the first.

### EntryStore_proofs and EntryStoreAlone_proofs

| theorem | states |
|---|---|
| `StoreTypeCorrect` | `Spec => []TypeOK` |
| `FilesUnshared` | `Spec => []NoSharedFile` |
| `FilesOutliveRows` | `Alone => (Spec => []NoDanglingRow)` |
| `RowsOutliveFiles` | `Alone => (Spec => []NoOrphans)` |
| `StoreImplemented` | `Alone => (Spec => ImplementsStore)` |

The first two hold for any number of processes. A fault can cut the contents of a
file that counts as written; no theorem says otherwise. `FilesOutliveRows` says that
the file is there and was called written, and complete if there was no fault;
`StoreImplemented` is about the store over the contents that count as written.
 `StoreInv` is their invariant:
the file a request has written is named by no row and by no other request
(`OwnFiles`), so that its commit gives it to one row; a half-written file has a
name nobody uses (`PartialUnnamed`); and a request carries what its point needs
(`JobsRight`).

The others are about one process, which is what `Alone` says, a property of the
constant `Procs`. The hypothesis is needed: the run `steps_two_processes` shows a
second process costing a record its file. `AloneInv` says that what a request
has read is still so (`Undisturbed`): an insert still writes the slot under the
cursor, an update the row it has loaded, and no file it is about to remove is
named by a row; that a record has its contents where its kind says; and that
without a fault every file is a row's or the request's own (`NoLeak`), from which
`NoOrphans` follows.

`StoreImplemented` is the refinement: `InitSeen` maps the initial states,
`StepSeen` every step to a step of `KaringStore` or a stutter. The commit of a
request is the operation itself (`CommitSeen`); every other step leaves what a
reader sees of a slot, `SlotOf(row)`, as it is: writing and removing files
included, because of `OwnFiles` and `Undisturbed`. A start-up's transaction is a
resize. Through it the theorems of `KaringStore` say something of the
program step by step.

### FtsIndex_proofs

| theorem | states |
|---|---|
| `IndexTypeCorrect` | `FSpec => []IndexTypeOK` |
| `NoHitMissed` | `FSpec => []NoMissedHit` |

A step with the index is a step of the store or its refusal (`IndexedStep`), so
the theorems of `KaringStore` hold here too. The invariant is inductive: the
trigger only adds words to a row, and a rebuild gives each row exactly its own.

### SearchService_proofs

| theorem | states |
|---|---|
| `SearchFindsAsked` | `FSpec => []AskedIsFound` |
| `SearchFindsOnlyAsked` | `FSpec => []FoundWasAsked` |
| `LiveSearchFindsAll` | `FSpec => []LiveFindsAll` |
| `ListsAreRight` | `FSpec => []ListsAddUp` |
| `HeadIsLatest` | `FSpec => []ListHeadIsLatest` |

The last two are about pages: rows have different places, every place is taken
(`PlacesTaken`), so a sorted list holds each of its rows once and a page its
first ones. The first three are about queries of any length. `Made` is the
invariant of the loop of `build_fts_query`: after the characters before
position `p`, the loop is inside quotes exactly when the number of quotes is
odd (or it is between the two halves of an escaped quote); there are as many
alternatives as bars outside quotes, and one more; each holds the words that
are asked for between its bars; one in which something was written will not
be left empty; and if it is plain, each of its terms is one word. `MadeNext` shows
that a character keeps it, `QueryBuilt` what it means at the end. A live
search is compared with the finished one in `ReadPlain`: over words and blanks
the two loops go through the same states.

### RootController_proofs

| theorem | states |
|---|---|
| `RootTypeCorrect` | `RSpec => []RootTypeOK` |
| `AcceptableStored` | `RSpec => []OnlyAcceptable` |
| `AnswerIsOneRecord` | `RSpec => []NoTornAnswer` |
| `LatestIsAnswered` | `RSpec => []LatestAnswered` |
| `WriteStatusIsTrue` | `RSpec => []StatusTellsTruth` |

What a handler or the other process does to the store is a step of `KaringStore`
(`StoreStep`). `RootInv` adds to the types what a pending request has been
checked for (`Pending`): without it `OnlyAcceptable` is not inductive, since the
store would take any contents. `AnswersInv` adds that the answers so far were
right and that, while this server is alone, what a request has read is still so.

### Startup_proofs

| theorem | states |
|---|---|
| `StartTypeCorrect` | `SSpec => []StartTypeOK` |
| `UploadsShared` | `SSpec => []UploadsFollowDatabase` |
| `LimitIsTold` | `SSpec => []LimitTold` |
| `CheckLooksOnly` | `SSpec => CheckOnlyLooks` |
| `LossIsForced` | `SSpec => LossWasForced` |
| `PlainStartStays` | `SSpec => DefaultStays` |

`StartInv` says where each start-up stands: it has a path it can reach, what it
has seen is still there, and a link leads to a file. `LossWasForced` then follows
step by step: `Costs` is what a step that loses records has to be, `ServeLoses`
that a request is one record of the server's own database. `DefaultStays` is
proved for each fallback directory `s`: `Unnamed(s)` says that until an operator
names a database or a start-up has another fallback there are no links and two
candidates, and `Plain(s)` that who comes to create the second may not write the
first.
`LimitTold` needs `Told`: the limit a process works with is the clamped one of
its options, and still that of the database unless another process has
initialised it since.

### CliClient_proofs

| theorem | states |
|---|---|
| `ClientTypeCorrect` | `CSpec => []ClientTypeOK` |
| `AtMostOnce` | `CSpec => []AppliedOnce` |
| `CacheCostsNoAnswer` | `CSpec => []CacheIsOnlyAHint` |
| `NoBinaryPrinted` | `CSpec => []BinaryIsNotPrinted` |
| `LatestNeedsNoName` | `CSpec => []LatestOnlyUnnamed` |
| `CacheLearnsWhatWorked` | `CSpec => CacheWorked` |

The properties speak of the end of an invocation. `ClientInv` says what has to
be true before the end, separately for each invocation: `AttemptsRight`, that a
request has been carried out only when an answer other than 401 is held;
`RefusalsRight`, that whoever tries the last scheme has been refused under the
others (while the server keeps its policy, and unless the cache chose it);
`PartsRight`, that what a `get` was told of the record is still so while the
record is not overwritten. A step of one invocation leaves the others right
(`OneMoves`), so that each action has one lemma about its own.
`LatestNeedsNoName` is about every command line: a line that deletes without
an id has `del` as the only one of its words that is left, so that a number on it
is the value of `--url` or `--api-key`.

### Functions over sequences

What a loop computes (the options of a command line, the expression of a query,
the words an option takes) is a function defined by recursion in a `LET`. Such a
function is a `CHOOSE`; that one exists is shown by building it up to `n` steps,
and what holds after every step by taking the least step at which it would not
(`Least`). Two things in the models were found that way: a `CASE` in the reading
of options and one in the reading of a query had arms that overlap, and one
union was written in a way that can be read as two; they are unambiguous now.

### What is only model-checked

* `EveryRequestAnswered` and `EveryInvocationEnds`: liveness under fairness is
  out of reach of the prover.
* The counterexamples, which are about particular states.

`MaxMade`, `MaxClock`, `MaxFaults` and `MaxStarts` bound what TLC explores; in the
proofs they are any numbers, so that the theorems hold of every finite history.

## 5. Assumptions and limits

* The system clock is monotone; names from the steady clock are unique.
* A crash ends a process, not the machine: written files survive it.
* A proxy in front of the server lets a request through or answers 401 or 403; an
  error it gives on its own (429, 502) would be taken for an answer of karing.
* Of the environment of a start-up, `KARING_LIMIT`, `_DB_PATH`, `_MAX_FILE`,
  `_UPLOAD_PATH`, `XDG_DATA_HOME` and `HOME` are modelled; `_MAX_TEXT` is checked as
  `_MAX_FILE` is, and `_PORT`, `_LISTEN`, `_BASE_PATH` and `_LOG_PATH` touch nothing here.
* SQLite's atomic commit is taken as given; any transaction may fail.
* Permissions change only while no process is starting; a directory is writable
  with all its files or not at all.
* A second process of `RootController` runs with the same size limits.
* Each `ASSUME` says what the code gives or what the constants stand for:
  `SlotsAssumption`, `TimeAssumption`, `LimitAssumption`, `SizeAssumption`: at least one
  slot, natural bounds, a default limit in range (`limits.h` and the clamping in
  `bootstrap.cpp`); `DataAssumption`, `PathAssumption`, `ValueAssumption`,
  `NamesAssumption`: the values that stand for nothing, a half-written file or a torn
  cache are no data, paths or schemes; `ContentsAssumption`: what the other process
  stores is within the same limits; `InvocationsAssumption`: a command line is a
  sequence of the options `parse` knows or refuses; `LinesAssumption`: no number is a
  command or an option; `SearchAssumption`: blanks, bars and quotes are no
  words, every word begins with itself, limits are positive.
* Not modelled: the wording and layout of answers and of printed output, the
  tokenising of letters into words and ranking (FTS5), the tables of MIME
  types and extensions beyond their classes, the listener, the log directory and
  the base path, and reading files and standard input in the client. They hold
  no state and nothing above depends on them.

## 6. Plan

All safety properties of the runs are proved. What remains:

1. `EntryStore` with two processes: what still holds of acknowledged records.
   `NoSharedFile` is proved for them; `NoDanglingRow` is refuted; between the two,
   that a text record and a file nobody else touches keep their contents.
2. The index: how far `rowCount` can fall between two start-ups, for every number
   of slots, so that the bound on deletions in `index_exhausted` is a theorem.
3. `RootController` over `EntryStore` instead of `KaringStore`, by the refinement.
