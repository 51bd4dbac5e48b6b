------------------------------- MODULE Startup -------------------------------
(***************************************************************************)
(* The life of server processes from the command line to the event loop:   *)
(* reading the options, finding or creating the database, resizing it,     *)
(* choosing the directory for uploads; and the files that remain when the  *)
(* process has ended.  Several processes start, serve and stop over the    *)
(* same disk, in any interleaving.                                         *)
(*                                                                         *)
(* A database is reduced to its limit and the set of its used slots:       *)
(* KaringStore.tla has the rows.  A directory counts as writable with all  *)
(* its files; who may write changes only while no process is starting.     *)
(* Left out: exit codes, the log directory, listener and base path.        *)
(***************************************************************************)
EXTENDS Integers, FiniteSets, Sequences

CONSTANTS Procs,         \* server processes
          Var,           \* the directory /var/lib/karing
          Dirs,          \* directories, with Var among them
          Local,         \* working directory -> .local/share/karing below it
          Standard,      \* the file name karing.sqlite
          Other,         \* another name for a database file
          Here,          \* the "." of a relative path
          Nothing,       \* no value
          Junk,          \* a value std::stoi throws on
          Invocations,   \* command line, environment and working directory
          DefaultLimit,  \* kDefaultLimit (100 in the server)
          MaxLimit,      \* kMaxLimit (1000)
          MaxFile,       \* kMaxFileMb (100)
          MaxStarts      \* bound: processes launched

ASSUME LimitAssumption ==
  /\ MaxLimit \in Nat /\ DefaultLimit \in 1..MaxLimit
  /\ MaxFile \in Nat /\ MaxStarts \in Nat

VARIABLES files,     \* path -> what is there
          links,     \* directory -> the file its karing.sqlite is a link to
          writable,  \* directories the processes may write
          proc,      \* process -> where its start-up stands
          starts,    \* processes launched so far
          by,        \* path -> the process that last initialised it
          named,     \* history: an operator has named a database
          homes      \* history: fallback directories of starts without a name

svars == <<files, links, writable, proc, starts, by, named, homes>>

Paths == Dirs \X {Standard, Other}
Workdirs == DOMAIN Local

ASSUME NamesAssumption ==
  /\ Var \in Workdirs /\ Workdirs \subseteq Dirs /\ Standard # Other
  /\ \A d \in Workdirs : Local[d] \in Dirs \ {Var}
  /\ Here \notin Dirs
  /\ Nothing \notin Paths \union Dirs \union {Standard, Other, Here} \union Procs
  /\ Nothing \notin Nat \X Nat

File(state, limit, used) == [state |-> state, limit |-> limit, used |-> used]
Missing == File("missing", 0, {})
Blank   == File("blank", 0, {})      \* created, no table yet
Broken  == File("broken", 0, {})     \* not a database
Store(limit, used) == File("store", limit, used)

Exists(path) == files[path].state # "missing"
IsStore(path) == files[path].state = "store"

\* Where a name leads once links are followed, and whether a file is there.
Canonical(path) ==
  IF path[2] = Standard /\ links[path[1]] # Nothing
  THEN <<path[1], links[path[1]]>> ELSE path
There(path) == Exists(Canonical(path))

\* How a process is started: line is a sequence of <<option, value>>, env
\* holds KARING_LIMIT, _DB_PATH, _MAX_FILE and _UPLOAD_PATH, home is
\* $XDG_DATA_HOME/karing, or else ~/.local/share/karing, or else Nothing.
NoEnv == [limit |-> Nothing, db |-> Nothing, file |-> Nothing, upload |-> Nothing]
Bare == [line |-> <<>>, env |-> NoEnv, home |-> Nothing, cwd |-> Var]

\* Without either variable it is below the directory the process is in.
DataDir(call, cwd) == IF call.home # Nothing THEN call.home ELSE Local[cwd]

Idle == [pc |-> "idle", call |-> Bare, db |-> Nothing, seen |-> {},
         limit |-> 0, upload |-> Nothing]

-----------------------------------------------------------------------------
(* Options: the environment first, then the command line over it.          *)

Unread(env) ==
  [action |-> "run", db |-> env.db, force |-> FALSE, check |-> FALSE, init |-> FALSE,
   limit |-> IF env.limit \in {Nothing, Junk} THEN DefaultLimit ELSE env.limit,
   file |-> IF env.file \in {Nothing, Junk} THEN 1 ELSE env.file,
   upload |-> env.upload]

\* MUTANT Read: a limit of the environment outlives the command line's.
ReadKeeping(o, word) ==
  IF word[1] = "limit" /\ o.limit # DefaultLimit THEN o
  ELSE [o EXCEPT ![word[1]] = word[2]]

\* What one option changes.  Nothing after --help, --version or an unknown
\* option is read; --limit abc ends the process, --max-file abc is ignored.
Read(o, word) ==
  IF o.action # "run" \/ word = <<"file", Junk>> THEN o
  ELSE IF word = <<"limit", Junk>> THEN [o EXCEPT !.action = "abort"]
  ELSE [o EXCEPT ![word[1]] = word[2]]

\* The options before the first word and after every other one.
Reading(call) ==
  LET read[n \in 0..Len(call.line)] ==
        IF n = 0 THEN Unread(call.env) ELSE Read(read[n - 1], call.line[n])
  IN  read

Parse(call) ==
  LET o == Reading(call)[Len(call.line)]
  IN  IF o.action = "run" /\ o.check /\ o.init THEN [o EXCEPT !.action = "error"] ELSE o

Options(p) == Parse(proc[p].call)

\* What the members of Options can be given, and the paths there are here.
DatabaseNames == {Nothing} \union ((Dirs \union {Here}) \X {Standard, Other})
Word ==
  ({"action"} \X {"help", "version", "error"}) \union
  ({"force", "check", "init"} \X {TRUE}) \union
  ({"limit", "file"} \X (Int \union {Junk})) \union
  ({"db"} \X ((Dirs \union {Here}) \X {Standard, Other})) \union
  ({"upload"} \X (Dirs \union {Here}))

ASSUME InvocationsAssumption ==
  \A call \in Invocations :
    /\ call.line \in Seq(Word)
    /\ call.env.limit \in Int \union {Nothing, Junk}
    /\ call.env.file \in Int \union {Nothing, Junk}
    /\ call.env.db \in DatabaseNames
    /\ call.env.upload \in Dirs \union {Here, Nothing}
    /\ call.home \in (Dirs \ {Var}) \union {Nothing}
    /\ call.cwd \in Workdirs

\* MUTANT ClampLimit: the upper bound is forgotten.
ClampLimitBelow(n) == IF n <= 0 THEN DefaultLimit ELSE n

ClampLimit(n) ==
  IF n <= 0 THEN DefaultLimit ELSE IF n > MaxLimit THEN MaxLimit ELSE n

-----------------------------------------------------------------------------
(* The steps of bootstrap::execute.                                        *)

At(p, pc) == proc[p].pc = pc
Starting(p) == proc[p].pc \notin {"idle", "serving"}

To(p, pc) == proc' = [proc EXCEPT ![p].pc = pc]
Exit(p) == proc' = [proc EXCEPT ![p] = Idle]

\* --help, --version and what parse refuses end here, with the disk as it was.
Launch(p, call) ==
  /\ At(p, "idle")
  /\ starts < MaxStarts
  /\ starts' = starts + 1
  /\ proc' = [proc EXCEPT ![p] =
       IF Parse(call).action = "run"
       THEN [Idle EXCEPT !.pc = "started", !.call = call] ELSE Idle]
  /\ UNCHANGED <<files, links, writable, by, named, homes>>

\* fs::absolute of --db-path, and the two places a database is looked for
\* when there is none.
Explicit(p) ==
  LET db == Options(p).db
  IN  IF db = Nothing THEN Nothing
      ELSE <<IF db[1] = Here THEN proc[p].call.cwd ELSE db[1], db[2]>>
Default == <<Var, Standard>>
FallbackDir(p) == DataDir(proc[p].call, proc[p].call.cwd)
Fallback(p) == <<FallbackDir(p), Standard>>

\* MUTANT Wanted: a missing default is created without a look at the other.
WantedDefault(p) == IF Explicit(p) # Nothing THEN Explicit(p) ELSE Default

\* The name to open, or the first one to try to create.
Wanted(p) ==
  CASE Explicit(p) # Nothing -> Explicit(p)
    [] Explicit(p) = Nothing /\ ~There(Default) /\ There(Fallback(p)) -> Fallback(p)
    [] OTHER -> Default

Move(p, pc, db, seen) ==
  proc' = [proc EXCEPT ![p] = [@ EXCEPT !.pc = pc, !.db = db, !.seen = seen]]

\* A name that leads to a file becomes the path of that file.
Found(p, name) ==
  Move(p, IF Options(p).check THEN "checking" ELSE "opened", Canonical(name), {})

Count(p) ==
  /\ named' = (named \/ Explicit(p) # Nothing)
  /\ homes' = IF Explicit(p) = Nothing THEN homes \union {FallbackDir(p)} ELSE homes

\* MUTANT Look: --check-db goes on to create what it does not find.
LookCreates(p) ==
  /\ At(p, "started")
  /\ IF There(Wanted(p)) THEN Found(p, Wanted(p)) ELSE Move(p, "touching", Wanted(p), {})
  /\ Count(p)
  /\ UNCHANGED <<files, links, writable, starts, by>>

\* resolve_db_path: with --check-db, what is not there is not created.
Look(p) ==
  /\ At(p, "started")
  /\ IF There(Wanted(p)) THEN Found(p, Wanted(p))
     ELSE IF Options(p).check THEN Exit(p)
     ELSE Move(p, "touching", Wanted(p), {})
  /\ Count(p)
  /\ UNCHANGED <<files, links, writable, starts, by>>

\* touch_db_file looks once more, and leaves a file that is there.
Touch(p) ==
  /\ At(p, "touching")
  /\ LET name == proc[p].db
     IN  IF There(name) THEN Found(p, name)
         ELSE Move(p, "creating", name, {n \in Paths : There(n)})
  /\ UNCHANGED <<files, links, writable, starts, by, named, homes>>

\* std::ofstream follows a link that another process has made since, and
\* empties the file it comes to, if there is one by now.
Create(p) ==
  /\ At(p, "creating")
  /\ LET f == Canonical(proc[p].db)
     IN  /\ f[1] \in writable
         /\ files' = [files EXCEPT ![f] = Blank]
         /\ by' = [by EXCEPT ![f] = Nothing]
         /\ Move(p, "opened", f, {})
  /\ UNCHANGED <<links, writable, starts, named, homes>>

\* Without the right to create the default, the fallback is touched; without
\* that one, or with a path of the operator's, the start-up has failed.
CreateFails(p) ==
  /\ At(p, "creating")
  /\ proc[p].db[1] \notin writable
  /\ IF Explicit(p) = Nothing /\ proc[p].db = Default
     THEN Move(p, "touching", Fallback(p), {}) ELSE Exit(p)
  /\ UNCHANGED <<files, links, writable, starts, by, named, homes>>

\* check_schema, read-only: whatever it finds, the process ends.
Check(p) ==
  /\ At(p, "checking")
  /\ Exit(p)
  /\ UNCHANGED <<files, links, writable, starts, by, named, homes>>

\* The process moves into the directory of the database, and gives one of
\* another name a link karing.sqlite if the directory has none.
Enter(p) ==
  /\ At(p, "opened")
  /\ LET dir == proc[p].db[1]
     IN  links' = IF /\ proc[p].db[2] # Standard
                     /\ ~There(<<dir, Standard>>)
                     /\ dir \in writable
                  THEN [links EXCEPT ![dir] = proc[p].db[2]] ELSE links
  /\ To(p, "entered")
  /\ UNCHANGED <<files, writable, starts, by, named, homes>>

\* MUTANT Fits: the records above the new limit are not looked for.
FitsAlways(file, n, force) == file.state # "broken"

\* integrity_check and the refusal of shrink_slots.
Fits(file, n, force) ==
  /\ file.state # "broken"
  /\ file.state = "store" /\ ~force /\ n < file.limit => file.used \subseteq 1..n

\* The committed outcome: --force moves the records to the first slots.
Resized(file, n, force) ==
  LET kept == IF Cardinality(file.used) > n THEN n ELSE Cardinality(file.used)
  IN  IF force /\ n < file.limit THEN Store(n, 1..kept)
      ELSE Store(n, file.used \intersect 1..n)

InitSchema(p) ==
  /\ At(p, "entered")
  /\ LET db == proc[p].db
         n  == ClampLimit(Options(p).limit)
         force == Options(p).force
     IN  /\ db[1] \in writable
         /\ Fits(files[db], n, force)
         /\ files' = [files EXCEPT ![db] = Resized(files[db], n, force)]
         /\ by' = [by EXCEPT ![db] = p]
  /\ To(p, "stored")
  /\ UNCHANGED <<links, writable, starts, named, homes>>

\* The shrink is refused, SQLite is busy, a directory is gone, a disk full;
\* nothing is committed and the process exits.
Fail(p) ==
  /\ proc[p].pc \in {"opened", "entered"}
  /\ Exit(p)
  /\ UNCHANGED <<files, links, writable, starts, by, named, homes>>

\* MUTANT UploadPath: a relative path is taken from the caller's directory.
UploadPathCaller(p) ==
  LET asked == Options(p).upload
      dir   == proc[p].db[1]
  IN  CASE asked = Here    -> proc[p].call.cwd
        [] asked = Nothing -> IF dir = Var THEN DataDir(proc[p].call, dir) ELSE dir
        [] OTHER           -> asked

\* The process is in the directory of the database by now, and a relative
\* --upload-path is taken from there.
UploadPath(p) ==
  LET asked == Options(p).upload
      dir   == proc[p].db[1]
  IN  CASE asked = Here    -> dir
        [] asked = Nothing -> IF dir = Var THEN DataDir(proc[p].call, dir) ELSE dir
        [] OTHER           -> asked

\* The size options are looked at, and the upload directory created, after
\* the database has been resized.
Configure(p) ==
  /\ At(p, "stored")
  /\ IF \/ Options(p).file \notin 1..MaxFile
        \/ UploadPath(p) \notin writable
        \/ Options(p).init
     THEN Exit(p)
     ELSE proc' = [proc EXCEPT ![p] =
            [@ EXCEPT !.pc = "serving", !.seen = {},
                      !.limit = ClampLimit(Options(p).limit),
                      !.upload = UploadPath(p)]]
  /\ UNCHANGED <<files, links, writable, starts, by, named, homes>>

\* A serving process stores or deletes a record.
Serve(p) ==
  /\ At(p, "serving")
  /\ LET db == proc[p].db
     IN  /\ IsStore(db) /\ db[1] \in writable
         /\ \E i \in 1..files[db].limit :
              files' = [files EXCEPT ![db].used =
                          IF i \in @ THEN @ \ {i} ELSE @ \union {i}]
  /\ UNCHANGED <<links, writable, proc, starts, by, named, homes>>

\* Stopped by a signal or a crash, at whatever point.
Stop(p) ==
  /\ ~At(p, "idle")
  /\ Exit(p)
  /\ UNCHANGED <<files, links, writable, starts, by, named, homes>>

\* The operator changes who may write where.
Chmod ==
  /\ \A p \in Procs : ~Starting(p)
  /\ \E dirs \in SUBSET Dirs : dirs # writable /\ writable' = dirs
  /\ UNCHANGED <<files, links, proc, starts, by, named, homes>>

SInit ==
  /\ \E there \in {Missing, Broken} :
       files = [f \in Paths |-> IF f = Default THEN there ELSE Missing]
  /\ links = [d \in Dirs |-> Nothing]
  /\ writable \in SUBSET Dirs
  /\ proc = [p \in Procs |-> Idle]
  /\ starts = 0
  /\ by = [f \in Paths |-> Nothing]
  /\ named = FALSE /\ homes = {}

Step(p) == \/ Look(p) \/ Touch(p) \/ Create(p) \/ CreateFails(p) \/ Check(p) \/ Enter(p)
           \/ InitSchema(p) \/ Fail(p) \/ Configure(p)

SNext ==
  \/ \E p \in Procs :
       \/ \E call \in Invocations : Launch(p, call)
       \/ Step(p) \/ Serve(p) \/ Stop(p)
  \/ Chmod

SSpec == SInit /\ [][SNext]_svars

-----------------------------------------------------------------------------
(* GET /health: the options of the process beside the database's own state. *)

Health(p) ==
  LET file == files[proc[p].db]
  IN  [limit  |-> proc[p].limit, upload |-> proc[p].upload, db |-> proc[p].db,
       stored |-> IF file.state = "store"
                  THEN <<file.limit, Cardinality(file.used)>> ELSE Nothing]

-----------------------------------------------------------------------------
(* What start-ups must keep true.                                          *)

StartTypeOK ==
  /\ \A f \in Paths :
       /\ files[f].state \in {"missing", "blank", "broken", "store"}
       /\ files[f].limit \in (IF IsStore(f) THEN 1..MaxLimit ELSE {0})
       /\ files[f].used \subseteq 1..files[f].limit
  /\ links \in [Dirs -> {Nothing, Other}]
  /\ writable \subseteq Dirs /\ homes \subseteq Dirs /\ named \in BOOLEAN
  /\ by \in [Paths -> Procs \union {Nothing}]
  /\ \A p \in Procs :
       /\ proc[p].pc \in {"idle", "started", "touching", "creating", "checking", "opened",
                          "entered", "stored", "serving"}
       /\ proc[p].db \in Paths \union {Nothing}

\* Records go one at a time, by a request to a server of their database, with
\* two exceptions: a smaller limit with --force takes as many as it has no
\* room for; and a start-up that creates a database another one has put there
\* since this one looked takes all of them.
LossWasForced ==
  [][\A f \in Paths :
       Cardinality(files'[f].used) < Cardinality(files[f].used) =>
         \E p \in Procs :
           \/ /\ At(p, "serving") /\ UNCHANGED proc /\ proc[p].db = f
              /\ \E i \in files[f].used :
                   files' = [files EXCEPT ![f].used = files[f].used \ {i}]
           \/ /\ At(p, "entered") /\ At(p, "stored")' /\ proc[p].db = f
              /\ Options(p).force
              /\ Cardinality(files'[f].used) = ClampLimit(Options(p).limit)
           \/ /\ At(p, "creating") /\ At(p, "opened")' /\ f = Canonical(proc[p].db)
              /\ proc[p].db \notin proc[p].seen]_svars

\* The database a start-up without --db-path opens, or would create first, if
\* its fallback directory is s.
PlainStart(s) ==
  Canonical(IF There(Default) \/ ~There(<<s, Standard>>) THEN Default ELSE <<s, Standard>>)
Fallbacks == {DataDir(call, call.cwd) : call \in Invocations}

\* Once such a start-up has found a database, every later one with the same
\* fallback directory finds the same: no other is created beside it and no
\* link hides it.  The one way it moves is from the fallback to
\* /var/lib/karing, after an operator has named a file or a start-up has had
\* another fallback directory.
DefaultStays ==
  [][\A s \in Fallbacks :
       (Exists(PlainStart(s)) /\ PlainStart(s)' # PlainStart(s)) =>
         /\ PlainStart(s) = Canonical(<<s, Standard>>) /\ PlainStart(s)'[1] = Var
         /\ named \/ homes \ {s} # {}]_svars

\* --check-db leaves every file as it was, in whatever state the disk is.
CheckOnlyLooks ==
  [][\A p \in Procs :
       (proc'[p] # proc[p] /\ Options(p).check) => UNCHANGED <<files, links>>]_svars

\* Servers of one database, started with the same options and environment,
\* keep their files in one directory, from wherever they were started.
UploadsFollowDatabase ==
  \A p, q \in Procs :
    /\ At(p, "serving") /\ At(q, "serving")
    /\ proc[p].db = proc[q].db
    /\ Options(p).upload = Options(q).upload
    /\ proc[p].call.home = proc[q].call.home
    => Health(p).upload = Health(q).upload

\* The limit a line and an environment ask for: the last one on the line,
\* else that of the environment, else the default.
LimitAsked(call) ==
  LET line  == call.line
      env   == call.env
      given == {i \in DOMAIN line : line[i][1] = "limit"}
      last  == CHOOSE i \in given : \A j \in given : j <= i
  IN  CASE given # {} -> ClampLimit(line[last][2])
        [] given = {} /\ env.limit \notin {Nothing, Junk} -> ClampLimit(env.limit)
        [] OTHER -> DefaultLimit

\* GET /health tells the operator's limit twice, as the option and as
\* max_items of the store: until another process initialises the database
\* both are the limit that was asked for.
LimitTold ==
  \A p \in Procs :
    (At(p, "serving") /\ by[proc[p].db] = p) =>
      /\ Health(p).limit = LimitAsked(proc[p].call)
      /\ Health(p).stored # Nothing
      /\ Health(p).stored[1] = Health(p).limit
=============================================================================
