---------------------------- MODULE Startup_proofs ----------------------------
(***************************************************************************)
(* Theorems of Startup, for any number of processes, any invocations and   *)
(* any limits.  What a command line says is proved by induction over its   *)
(* words, for every line that InvocationsAssumption admits.                *)
(***************************************************************************)
EXTENDS Startup, FiniteSetTheorems, WellFoundedInduction, TLAPS

Points == {"idle", "started", "touching", "creating", "checking", "opened", "entered",
           "stored", "serving"}

\* What a process knows, and what is at a path.
Process == [pc : Points, call : Invocations \union {Bare}, db : Paths \union {Nothing},
            seen : SUBSET Paths, limit : Int, upload : Dirs \union {Nothing}]
Content == [state : {"missing", "blank", "broken", "store"}, limit : Nat, used : SUBSET Nat]

\* Where a process has a database that is there.
Opened == {"checking", "opened", "entered", "stored", "serving"}

Histories == homes \subseteq Dirs /\ named \in BOOLEAN

StartTypes ==
  /\ files \in [Paths -> Content]
  /\ \A f \in Paths :
       /\ files[f].limit \in (IF IsStore(f) THEN 1..MaxLimit ELSE {0})
       /\ files[f].used \subseteq 1..files[f].limit
  /\ links \in [Dirs -> {Nothing, Other}]
  /\ writable \subseteq Dirs /\ Histories
  /\ by \in [Paths -> Procs \union {Nothing}]
  /\ proc \in [Procs -> Process]

\* A process on its way has been called, and has a path; it creates what it
\* has not seen.
Way(p) ==
  /\ ~At(p, "idle") => proc[p].call \in Invocations
  /\ proc[p].pc \in Opened => proc[p].db \in Paths /\ Exists(proc[p].db)
  /\ At(p, "touching") \/ At(p, "creating") => proc[p].db \in Paths
  /\ At(p, "creating") => proc[p].db \notin proc[p].seen
  /\ proc[p].pc \in {"touching", "creating"} \union (Opened \ {"checking"}) =>
       ~Options(p).check
  /\ At(p, "serving") => proc[p].upload = UploadPath(p)

OnTheWay == \A p \in Procs : Way(p)

\* A link leads to a file that is there.
LinksLead == \A d \in Dirs : links[d] # Nothing => Exists(<<d, Other>>)

StartInv == StartTypes /\ OnTheWay /\ LinksLead

-----------------------------------------------------------------------------
(* Options.  The library's induction takes an operator, so that induction  *)
(* is by the least number a statement fails of.                            *)

LEMMA Least ==
  ASSUME NEW T, T \subseteq Nat, T # {}
  PROVE  \E n \in T : \A m \in T : n <= m
<1>1. IsWellFoundedOn(OpToRel(<, Nat), Nat)
  BY NatLessThanWellFounded
<1>2. PICK n \in T : \A m \in T : ~(<<m, n>> \in OpToRel(<, Nat))
  BY <1>1, WFMin
<1>3. OpToRel(<, Nat) = {ss \in Nat \X Nat : ss[1] < ss[2]}
  BY Zenon DEF OpToRel
<1>4. ASSUME NEW m \in T
      PROVE  n <= m
  <2>1. <<m, n>> \notin {ss \in Nat \X Nat : ss[1] < ss[2]}
    BY <1>2, <1>3, Zenon
  <2> QED
    BY <2>1
<1> QED
  BY <1>4

\* Read as far as the nth word.
Follows(call, g, n) ==
  /\ g[0] = Unread(call.env)
  /\ \A k \in 1..n : g[k] = Read(g[k - 1], call.line[k])

LEMMA FoldExists ==
  ASSUME NEW call, NEW n \in Nat
  PROVE  \E g : Follows(call, g, n)
<1> DEFINE T == {k \in Nat : ~\E g : Follows(call, g, k)}
<1>1. ASSUME T # {} PROVE FALSE
  <2>1. PICK m \in T : \A k \in T : m <= k
    <3> HIDE DEF T
    <3> QED BY <1>1, Least DEF T
  <2>2. m # 0
    <3>1. Follows(call, [k \in {0} |-> Unread(call.env)], 0)
      BY DEF Follows
    <3> QED BY <3>1
  <2>3. PICK g : Follows(call, g, m - 1)
    BY <2>1, <2>2
  <2> DEFINE last == Read(g[m - 1], call.line[m])
             h == [k \in 0..m |-> IF k = m THEN last ELSE g[k]]
  <2>4. Follows(call, h, m)
    <3>1. m \in Nat \ {0} /\ h[m] = last /\ \A k \in 0..(m - 1) : h[k] = g[k]
      BY <2>1, <2>2
    <3> HIDE DEF h
    <3>2. h[0] = Unread(call.env)
      BY <2>3, <3>1 DEF Follows
    <3>3. ASSUME NEW k \in 1..m PROVE h[k] = Read(h[k - 1], call.line[k])
      <4>1. CASE k = m
        BY <3>1, <4>1
      <4>2. CASE k < m
        <5>1. k \in 1..(m - 1) /\ k - 1 \in 0..(m - 1) /\ k \in 0..(m - 1)
          BY <3>1, <4>2
        <5> QED BY <2>3, <3>1, <5>1 DEF Follows
      <4> QED BY <3>1, <4>1, <4>2
    <3> QED BY <3>2, <3>3 DEF Follows
  <2> QED BY <2>1, <2>4
<1> QED BY <1>1

LEMMA ReadingFollows ==
  ASSUME NEW call, Len(call.line) \in Nat
  PROVE  Follows(call, Reading(call), Len(call.line))
<1> DEFINE len == Len(call.line)
           Unfolded(g) == [n \in 0..len |->
                             IF n = 0 THEN Unread(call.env) ELSE Read(g[n - 1], call.line[n])]
<1>1. Reading(call) = CHOOSE g : g = Unfolded(g)
  BY DEF Reading
<1>2. PICK g : Follows(call, g, len)
  BY FoldExists
<1> DEFINE h == [n \in 0..len |-> g[n]]
<1>3. h = Unfolded(h)
  <2>1. \A n \in 0..len : h[n] = Unfolded(h)[n]
    BY <1>2 DEF Follows
  <2> QED BY <2>1
<1>4. Reading(call) = Unfolded(Reading(call))
  <2> HIDE DEF Unfolded, h
  <2> QED BY <1>1, <1>3
<1> QED
  BY <1>4 DEF Follows

Given == [action : {"run", "help", "version", "error", "abort"}, db : DatabaseNames,
          force : BOOLEAN, check : BOOLEAN, init : BOOLEAN, limit : Int, file : Int,
          upload : Dirs \union {Here, Nothing}]

\* What one word does to the options.
Changed(o, word) == [o EXCEPT ![word[1]] = word[2]]

LEMMA ReadCases ==
  ASSUME NEW o, NEW word
  PROVE  \/ o.action # "run" /\ Read(o, word) = o
         \/ o.action = "run" /\ word = <<"limit", Junk>>
            /\ Read(o, word) = [o EXCEPT !.action = "abort"]
         \/ word = <<"file", Junk>> /\ Read(o, word) = o
         \/ o.action = "run" /\ word \notin {<<"limit", Junk>>, <<"file", Junk>>}
            /\ Read(o, word) = Changed(o, word)
BY Zenon DEF Read, Changed

LEMMA ChangedFacts ==
  ASSUME NEW o \in Given, NEW word \in Word,
         word \notin {<<"limit", Junk>>, <<"file", Junk>>}
  PROVE  /\ Changed(o, word) \in Given
         /\ Changed(o, word).limit = IF word[1] = "limit" THEN word[2] ELSE o.limit
<1>1. CASE word \in {"action"} \X {"help", "version", "error"}
  <2>1. word[1] = "action" /\ word[2] \in {"help", "version", "error"}
    BY <1>1
  <2> QED
    BY <2>1 DEF Changed, Given
<1>2. CASE word \in {"force", "check", "init"} \X {TRUE}
  <2>1. word[1] \in {"force", "check", "init"} /\ word[2] = TRUE
    BY <1>2
  <2> QED
    BY <2>1 DEF Changed, Given
<1>3. CASE word \in {"limit", "file"} \X (Int \union {Junk})
  <2>1. word[1] \in {"limit", "file"} /\ word[2] \in Int
    BY <1>3
  <2> QED
    BY <2>1 DEF Changed, Given
<1>4. CASE word \in {"db"} \X ((Dirs \union {Here}) \X {Standard, Other})
  <2>1. word[1] = "db" /\ word[2] \in DatabaseNames
    BY <1>4 DEF DatabaseNames
  <2> QED
    BY <2>1 DEF Changed, Given
<1>5. CASE word \in {"upload"} \X (Dirs \union {Here})
  <2>1. word[1] = "upload" /\ word[2] \in Dirs \union {Here, Nothing}
    BY <1>5
  <2> QED
    BY <2>1 DEF Changed, Given
<1> QED
  BY <1>1, <1>2, <1>3, <1>4, <1>5 DEF Word

LEMMA ReadTyped ==
  ASSUME NEW o \in Given, NEW word \in Word
  PROVE  Read(o, word) \in Given
<1>1. [o EXCEPT !.action = "abort"] \in Given
  BY DEF Given
<1>3. CASE Read(o, word) = o
  BY <1>3
<1>4. CASE Read(o, word) = [o EXCEPT !.action = "abort"]
  BY <1>1, <1>4
<1>5. CASE /\ word \notin {<<"limit", Junk>>, <<"file", Junk>>}
           /\ Read(o, word) = Changed(o, word)
  BY <1>5, ChangedFacts
<1> QED
  BY <1>3, <1>4, <1>5, ReadCases

\* The limit after the first n words is that of the last of them that gives
\* one, or the one there was before.
LimitAfter(call, n) ==
  LET o     == Reading(call)[n]
      given == {i \in 1..n : call.line[i][1] = "limit"}
  IN  o.action = "run" =>
        \/ given = {} /\ o.limit = Unread(call.env).limit
        \/ \E i \in given : /\ \A j \in given : j <= i
                             /\ o.limit = call.line[i][2]

LEMMA LimitRead ==
  ASSUME NEW o \in Given, NEW word \in Word, Read(o, word).action = "run"
  PROVE  /\ o.action = "run"
         /\ Read(o, word).limit = IF word[1] = "limit" THEN word[2] ELSE o.limit
<1>1. [o EXCEPT !.action = "abort"].action = "abort"
  BY DEF Given
<1>2. CASE word = <<"file", Junk>> /\ Read(o, word) = o
  <2>1. word[1] # "limit"
    BY <1>2
  <2> QED
    BY <1>2, <2>1
<1>3. CASE /\ o.action = "run" /\ word \notin {<<"limit", Junk>>, <<"file", Junk>>}
           /\ Read(o, word) = Changed(o, word)
  BY <1>3, ChangedFacts
<1> QED
  BY <1>1, <1>2, <1>3, ReadCases

LEMMA ReadingFacts ==
  ASSUME NEW call \in Invocations, NEW n \in 0..Len(call.line)
  PROVE  Reading(call)[n] \in Given /\ LimitAfter(call, n)
<1> DEFINE Right(k) == Reading(call)[k] \in Given /\ LimitAfter(call, k)
           T == {k \in Nat : k <= Len(call.line) /\ ~Right(k)}
<1>1. /\ Len(call.line) \in Nat
      /\ \A k \in 1..Len(call.line) : call.line[k] \in Word
  BY InvocationsAssumption
<1>2. Follows(call, Reading(call), Len(call.line))
  BY <1>1, ReadingFollows
<1>3. Right(0)
  <2>1. Reading(call)[0] = Unread(call.env)
    BY <1>2 DEF Follows
  <2>2. Unread(call.env) \in Given
    <3>1. /\ (IF call.env.limit \in {Nothing, Junk} THEN DefaultLimit ELSE call.env.limit) \in Int
          /\ (IF call.env.file \in {Nothing, Junk} THEN 1 ELSE call.env.file) \in Int
      BY InvocationsAssumption, LimitAssumption
    <3>2. call.env.db \in DatabaseNames /\ call.env.upload \in Dirs \union {Here, Nothing}
      BY InvocationsAssumption
    <3>3. PICK limit \in Int, file \in Int, db \in DatabaseNames,
               upload \in Dirs \union {Here, Nothing} :
            /\ limit = IF call.env.limit \in {Nothing, Junk} THEN DefaultLimit ELSE call.env.limit
            /\ file = IF call.env.file \in {Nothing, Junk} THEN 1 ELSE call.env.file
            /\ db = call.env.db /\ upload = call.env.upload
      BY <3>1, <3>2
    <3>4. Unread(call.env) =
            [action |-> "run", db |-> db, force |-> FALSE, check |-> FALSE, init |-> FALSE,
             limit |-> limit, file |-> file, upload |-> upload]
      BY <3>3 DEF Unread
    <3> QED
      BY <3>4 DEF Given
  <2>3. LimitAfter(call, 0)
    BY <2>1 DEF LimitAfter
  <2> QED
    BY <2>1, <2>2, <2>3
<1>4. ASSUME NEW k \in 1..Len(call.line), Right(k - 1)
      PROVE  Right(k)
  <2>1. PICK o \in Given, word \in Word :
          o = Reading(call)[k - 1] /\ word = call.line[k] /\ Reading(call)[k] = Read(o, word)
    BY <1>1, <1>2, <1>4 DEF Follows
  <2>2. Read(o, word) \in Given
    BY ReadTyped
  <2>3. ASSUME Read(o, word).action = "run"
        PROVE  LET given == {i \in 1..k : call.line[i][1] = "limit"}
               IN  \/ given = {} /\ Read(o, word).limit = Unread(call.env).limit
                   \/ \E i \in given : /\ \A j \in given : j <= i
                                        /\ Read(o, word).limit = call.line[i][2]
    <3> DEFINE before == {i \in 1..(k - 1) : call.line[i][1] = "limit"}
               given == {i \in 1..k : call.line[i][1] = "limit"}
    <3>1. /\ o.action = "run"
          /\ Read(o, word).limit = IF word[1] = "limit" THEN word[2] ELSE o.limit
      BY <2>3, LimitRead
    <3>2. \/ before = {} /\ o.limit = Unread(call.env).limit
          \/ \E i \in before : /\ \A j \in before : j <= i
                                /\ o.limit = call.line[i][2]
      BY <1>4, <2>1, <3>1 DEF LimitAfter
    <3>3. CASE word[1] = "limit"
      <4>1. k \in given /\ \A j \in given : j <= k
        BY <1>1, <2>1, <3>3
      <4> QED
        BY <2>1, <3>1, <3>3, <4>1
    <3>4. CASE word[1] # "limit"
      <4>1. given = before
        BY <1>1, <2>1, <3>4
      <4> QED
        BY <3>1, <3>2, <3>4, <4>1
    <3> QED
      BY <3>3, <3>4
  <2> QED
    BY <2>1, <2>2, <2>3 DEF LimitAfter
<1>5. ASSUME T # {}
      PROVE  FALSE
  <2>1. PICK k \in T : \A m \in T : k <= m
    <3> HIDE DEF T
    <3> QED BY <1>5, Least DEF T
  <2> HIDE DEF Right
  <2>2. k \in Nat /\ k <= Len(call.line) /\ ~Right(k)
    BY <2>1
  <2>3. k # 0
    BY <1>3, <2>2
  <2>4. Right(k - 1)
    BY <1>1, <2>1, <2>2, <2>3
  <2> QED
    BY <1>1, <1>4, <2>2, <2>3, <2>4
<1>6. n \in Nat /\ n <= Len(call.line)
  BY <1>1
<1> HIDE DEF Right
<1>7. Right(n)
  BY <1>5, <1>6
<1> QED
  BY <1>7 DEF Right

LEMMA OptionsTyped ==
  ASSUME NEW call \in Invocations
  PROVE  /\ Parse(call).limit \in Int /\ Parse(call).db \in DatabaseNames
         /\ Parse(call) \in Given
<1>1. PICK o \in Given : o = Reading(call)[Len(call.line)]
  <2>1. Len(call.line) \in 0..Len(call.line)
    BY InvocationsAssumption
  <2> QED
    BY <2>1, ReadingFacts
<1>2. Parse(call) = o \/ Parse(call) = [o EXCEPT !.action = "error"]
  BY <1>1 DEF Parse
<1>3. Parse(call) \in Given
  BY <1>2 DEF Given
<1> QED
  BY <1>3 DEF Given

\* A start-up that runs has the limit that was asked for.
LEMMA LimitIsRead ==
  ASSUME NEW call \in Invocations, Parse(call).action = "run"
  PROVE  ClampLimit(Parse(call).limit) = LimitAsked(call)
<1> DEFINE len == Len(call.line)
           o == Reading(call)[len]
           given == {i \in DOMAIN call.line : call.line[i][1] = "limit"}
<1>1. len \in Nat /\ DOMAIN call.line = 1..len
  BY InvocationsAssumption
<1>2. o \in Given /\ LimitAfter(call, len)
  BY <1>1, ReadingFacts
<1>3. o.action = "run" /\ Parse(call) = o
  BY <1>2 DEF Parse, Given
<1>4. CASE given = {}
  <2>1. o.limit = Unread(call.env).limit
    BY <1>1, <1>2, <1>3, <1>4 DEF LimitAfter
  <2>2. ClampLimit(DefaultLimit) = DefaultLimit
    BY LimitAssumption DEF ClampLimit
  <2> QED
    BY <1>3, <1>4, <2>1, <2>2 DEF LimitAsked, Unread
<1>5. CASE given # {}
  <2>1. PICK i \in given : (\A j \in given : j <= i) /\ o.limit = call.line[i][2]
    BY <1>1, <1>2, <1>3, <1>5 DEF LimitAfter
  <2>2. \A k \in given : (\A j \in given : j <= k) => k = i
    BY <1>1, <2>1
  <2>3. (CHOOSE k \in given : \A j \in given : j <= k) = i
    BY <2>1, <2>2
  <2> QED
    BY <1>3, <1>5, <2>1, <2>3 DEF LimitAsked
<1> QED
  BY <1>4, <1>5

-----------------------------------------------------------------------------
(* Paths.                                                                  *)

LEMMA PathFacts ==
  /\ \A d \in Dirs : <<d, Standard>> \in Paths /\ <<d, Other>> \in Paths
  /\ \A f \in Paths : f[1] \in Dirs /\ f[2] \in {Standard, Other} /\ f = <<f[1], f[2]>>
  /\ Nothing \notin Paths
  /\ Var \in Dirs /\ Default \in Paths
BY NamesAssumption DEF Paths, Default

LEMMA CanonicalFacts ==
  ASSUME StartTypes, NEW f \in Paths
  PROVE  Canonical(f) \in Paths /\ Canonical(f)[1] = f[1]
<1>1. f[1] \in Dirs /\ links[f[1]] \in {Nothing, Other}
  BY PathFacts DEF StartTypes
<1> QED
  BY <1>1, PathFacts DEF Canonical

\* A fallback directory is not the default's.
LEMMA FallbackFacts ==
  ASSUME NEW call \in Invocations
  PROVE  /\ DataDir(call, call.cwd) \in Dirs \ {Var}
         /\ DataDir(call, call.cwd) \in Fallbacks
         /\ call.cwd \in Dirs
<1>1. call.home \in (Dirs \ {Var}) \union {Nothing} /\ call.cwd \in Workdirs
  BY InvocationsAssumption
<1>2. DataDir(call, call.cwd) \in Dirs \ {Var}
  BY <1>1, NamesAssumption DEF DataDir
<1> QED
  BY <1>1, <1>2, NamesAssumption DEF Fallbacks

\* Where a start-up looks is a path.
LEMMA WantedFacts ==
  ASSUME NEW p \in Procs, proc[p].call \in Invocations
  PROVE  /\ FallbackDir(p) \in Dirs \ {Var} /\ FallbackDir(p) \in Fallbacks
         /\ Fallback(p) \in Paths
         /\ Explicit(p) = Nothing \/ Explicit(p) \in Paths
         /\ Wanted(p) \in Paths
         /\ Options(p).limit \in Int
<1>1. /\ FallbackDir(p) \in Dirs \ {Var} /\ FallbackDir(p) \in Fallbacks
      /\ Fallback(p) \in Paths
  BY PathFacts, FallbackFacts DEF Fallback, FallbackDir
<1>2. Options(p).limit \in Int
  BY OptionsTyped DEF Options
<1>3. Explicit(p) = Nothing \/ Explicit(p) \in Paths
  <2>1. CASE Options(p).db = Nothing
    BY <2>1 DEF Explicit
  <2>2. CASE Options(p).db # Nothing
    <3>1. PICK d \in Dirs \union {Here}, name \in {Standard, Other} :
            Options(p).db = <<d, name>>
      BY <2>2, OptionsTyped DEF Options, DatabaseNames
    <3>2. (IF d = Here THEN proc[p].call.cwd ELSE d) \in Dirs
      BY FallbackFacts
    <3>3. <<IF d = Here THEN proc[p].call.cwd ELSE d, name>> \in Paths
      BY <3>2, PathFacts
    <3>4. Explicit(p) = <<IF d = Here THEN proc[p].call.cwd ELSE d, name>>
      BY <2>2, <3>1 DEF Explicit
    <3> QED
      BY <3>3, <3>4
  <2> QED
    BY <2>1, <2>2
<1>4. Wanted(p) \in Paths
  BY <1>1, <1>3, PathFacts DEF Wanted
<1> QED
  BY <1>1, <1>2, <1>3, <1>4

LEMMA ClampFacts ==
  ASSUME NEW n \in Int
  PROVE  ClampLimit(n) \in 1..MaxLimit
BY LimitAssumption DEF ClampLimit

\* A process that is not running, and one that has been called.
LEMMA IdleIsProcess == Idle \in Process /\ Idle.pc = "idle" /\ Idle.seen = {}
BY DEF Idle, Process, Points

LEMMA CalledFacts ==
  ASSUME NEW call \in Invocations
  PROVE  LET called == [Idle EXCEPT !.pc = "started", !.call = call]
         IN  /\ called \in Process /\ called.pc = "started"
             /\ called.call = call /\ called.seen = {}
<1> DEFINE first == [Idle EXCEPT !.pc = "started"]
           second == [first EXCEPT !.call = call]
<1>1. first \in Process /\ first.pc = "started" /\ first.seen = {}
  BY DEF Idle, Process, Points
<1>2. second = [Idle EXCEPT !.pc = "started", !.call = call]
  BY DEF Idle
<1> HIDE DEF first
<1>3. /\ second \in Process /\ second.pc = "started"
      /\ second.call = call /\ second.seen = {}
  BY <1>1 DEF Process
<1> HIDE DEF second
<1> QED
  BY <1>2, <1>3

LEMMA PcChanged ==
  ASSUME NEW r \in Process, NEW pc \in Points
  PROVE  /\ [r EXCEPT !.pc = pc] \in Process
         /\ [r EXCEPT !.pc = pc].pc = pc
         /\ [r EXCEPT !.pc = pc].call = r.call
         /\ [r EXCEPT !.pc = pc].db = r.db
         /\ [r EXCEPT !.pc = pc].seen = r.seen
         /\ [r EXCEPT !.pc = pc].upload = r.upload
BY DEF Process

LEMMA DbChanged ==
  ASSUME NEW r \in Process, NEW db \in Paths
  PROVE  /\ [r EXCEPT !.db = db] \in Process
         /\ [r EXCEPT !.db = db].pc = r.pc
         /\ [r EXCEPT !.db = db].call = r.call
         /\ [r EXCEPT !.db = db].db = db
         /\ [r EXCEPT !.db = db].seen = r.seen
         /\ [r EXCEPT !.db = db].upload = r.upload
BY DEF Process

LEMMA SeenChanged ==
  ASSUME NEW r \in Process, NEW seen \in SUBSET Paths
  PROVE  /\ [r EXCEPT !.seen = seen] \in Process
         /\ [r EXCEPT !.seen = seen].pc = r.pc
         /\ [r EXCEPT !.seen = seen].call = r.call
         /\ [r EXCEPT !.seen = seen].db = r.db
         /\ [r EXCEPT !.seen = seen].seen = seen
         /\ [r EXCEPT !.seen = seen].upload = r.upload
BY DEF Process

LEMMA LimitChanged ==
  ASSUME NEW r \in Process, NEW limit \in Int
  PROVE  /\ [r EXCEPT !.limit = limit] \in Process
         /\ [r EXCEPT !.limit = limit].pc = r.pc
         /\ [r EXCEPT !.limit = limit].call = r.call
         /\ [r EXCEPT !.limit = limit].db = r.db
         /\ [r EXCEPT !.limit = limit].seen = r.seen
BY DEF Process

LEMMA UploadChanged ==
  ASSUME NEW r \in Process, NEW upload \in Dirs
  PROVE  /\ [r EXCEPT !.upload = upload] \in Process
         /\ [r EXCEPT !.upload = upload].pc = r.pc
         /\ [r EXCEPT !.upload = upload].call = r.call
         /\ [r EXCEPT !.upload = upload].db = r.db
         /\ [r EXCEPT !.upload = upload].seen = r.seen
         /\ [r EXCEPT !.upload = upload].upload = upload
BY DEF Process

\* One process moves, the others stay where they are.
LEMMA OneMoves ==
  ASSUME proc \in [Procs -> Process], NEW p \in Procs, NEW r \in Process,
         proc' = [proc EXCEPT ![p] = r]
  PROVE  /\ proc' \in [Procs -> Process]
         /\ proc'[p] = r
         /\ \A q \in Procs \ {p} : proc'[q] = proc[q]
OBVIOUS

\* A process that stays on its way, while no file goes away.
LEMMA WayKept ==
  ASSUME StartTypes, NEW p \in Procs, Way(p), proc'[p] = proc[p],
         \A f \in Paths : Exists(f) => Exists(f)'
  PROVE  Way(p)'
<1>1. proc[p].seen \subseteq Paths
  BY DEF StartTypes, Process
<1>2. Options(p)' = Options(p) /\ UploadPath(p)' = UploadPath(p)
  BY DEF Options, UploadPath
<1> QED
  BY <1>1, <1>2 DEF Way, At

LEMMA OnTheWayKept ==
  ASSUME StartTypes, OnTheWay, NEW p \in Procs, Way(p)',
         \A q \in Procs \ {p} : proc'[q] = proc[q],
         \A f \in Paths : Exists(f) => Exists(f)'
  PROVE  OnTheWay'
BY WayKept DEF OnTheWay

\* One file is written, the others stay as they are.
LEMMA OneWritten ==
  ASSUME StartTypes, LinksLead, NEW db \in Paths, NEW c \in Content,
         files' = [files EXCEPT ![db] = c],
         c.state # "missing",
         c.limit \in (IF c.state = "store" THEN 1..MaxLimit ELSE {0}),
         c.used \subseteq 1..c.limit,
         links' = links
  PROVE  /\ files' \in [Paths -> Content]
         /\ \A f \in Paths :
              /\ files'[f].limit \in (IF IsStore(f)' THEN 1..MaxLimit ELSE {0})
              /\ files'[f].used \subseteq 1..files'[f].limit
         /\ \A f \in Paths : Exists(f) => Exists(f)'
         /\ Exists(db)'
         /\ \A f \in Paths \ {db} : files'[f] = files[f]
         /\ files'[db] = c
         /\ LinksLead'
<1>1. /\ files' \in [Paths -> Content]
      /\ \A f \in Paths \ {db} : files'[f] = files[f]
      /\ files'[db] = c
  BY DEF StartTypes
<1>2. \A f \in Paths :
        /\ files'[f].limit \in (IF IsStore(f)' THEN 1..MaxLimit ELSE {0})
        /\ files'[f].used \subseteq 1..files'[f].limit
  BY <1>1 DEF StartTypes, IsStore
<1>3. (\A f \in Paths : Exists(f) => Exists(f)') /\ Exists(db)'
  BY <1>1 DEF Exists
<1> QED
  BY <1>1, <1>2, <1>3, PathFacts DEF LinksLead

LEMMA ResizedFacts ==
  ASSUME NEW file \in Content, NEW n \in 1..MaxLimit, NEW force,
         file.used \subseteq 1..file.limit
  PROVE  /\ Resized(file, n, force) \in Content
         /\ Resized(file, n, force).state = "store"
         /\ Resized(file, n, force).limit = n
         /\ Resized(file, n, force).used \subseteq 1..n
<1> DEFINE kept == IF Cardinality(file.used) > n THEN n ELSE Cardinality(file.used)
<1>1. IsFiniteSet(file.used)
  <2>1. IsFiniteSet(1..file.limit)
    BY FS_Interval DEF Content
  <2> QED
    BY <2>1, FS_Subset
<1>2. Cardinality(file.used) \in Nat
  BY <1>1, FS_CardinalityType
<1>3. n \in Nat /\ kept \in Nat /\ kept <= n
  BY <1>2, LimitAssumption
<1>4. 1..kept \subseteq 1..n /\ file.used \intersect 1..n \subseteq 1..n
  BY <1>3
<1>5. \A used \in SUBSET 1..n : /\ Store(n, used) \in Content
                              /\ Store(n, used).state = "store"
                              /\ Store(n, used).limit = n
                              /\ Store(n, used).used = used
  BY <1>3 DEF Store, File, Content
<1>6. Resized(file, n, force) = IF force /\ n < file.limit
                              THEN Store(n, 1..kept) ELSE Store(n, file.used \intersect 1..n)
  BY DEF Resized
<1> HIDE DEF kept
<1> QED
  BY <1>4, <1>5, <1>6

\* The invariant through a step that leaves the disk alone.
LEMMA DiskAlone ==
  ASSUME StartInv, NEW p \in Procs, NEW r \in Process,
         proc' = [proc EXCEPT ![p] = r], Way(p)',
         UNCHANGED <<files, links, by>>, writable' = writable, Histories'
  PROVE  StartInv'
<1>1. /\ proc' \in [Procs -> Process]
      /\ proc'[p] = r
      /\ \A q \in Procs \ {p} : proc'[q] = proc[q]
  BY OneMoves DEF StartInv, StartTypes
<1>2. StartTypes'
  BY <1>1 DEF StartInv, StartTypes, IsStore
<1>3. \A f \in Paths : Exists(f)' <=> Exists(f)
  BY DEF Exists
<1>4. OnTheWay'
  BY <1>1, <1>3, OnTheWayKept DEF StartInv
<1>5. LinksLead'
  BY <1>3, PathFacts DEF StartInv, LinksLead
<1> QED
  BY <1>2, <1>4, <1>5 DEF StartInv

\* A process that ends knows nothing and asks for nothing.
LEMMA ExitKeeps ==
  ASSUME StartInv, NEW p \in Procs, Exit(p), UNCHANGED <<files, links, writable, by>>,
         Histories'
  PROVE  StartInv'
<1>1. proc'[p] = Idle
  BY DEF Exit, StartInv, StartTypes
<1>2. Way(p)'
  BY <1>1, IdleIsProcess DEF Way, At, Opened
<1> QED
  BY <1>2, IdleIsProcess, DiskAlone DEF Exit

LEMMA LaunchKeeps ==
  ASSUME StartInv, NEW p \in Procs, NEW call \in Invocations, Launch(p, call)
  PROVE  StartInv'
<1> DEFINE called == [Idle EXCEPT !.pc = "started", !.call = call]
<1>0. UNCHANGED <<files, links, writable, by>> /\ Histories'
  BY DEF Launch, StartInv, StartTypes, Histories
<1>1. CASE Parse(call).action # "run"
  BY <1>0, <1>1, ExitKeeps DEF Launch, Exit
<1>2. CASE Parse(call).action = "run"
  <2>1. proc' = [proc EXCEPT ![p] = called]
    BY <1>2 DEF Launch
  <2>2. called \in Process /\ called.pc = "started" /\ called.call = call /\ called.seen = {}
    BY CalledFacts
  <2> HIDE DEF called
  <2>3. proc'[p] = called
    BY <2>1 DEF StartInv, StartTypes
  <2>4. Way(p)'
    BY <2>2, <2>3 DEF Way, At, Opened
  <2> QED
    BY <1>0, <2>1, <2>2, <2>4, DiskAlone
<1> QED
  BY <1>1, <1>2

\* A process that goes to another point with another path.
LEMMA Moved ==
  ASSUME StartInv, NEW p \in Procs, NEW pc \in Points, NEW db \in Paths,
         NEW seen \in SUBSET Paths, Move(p, pc, db, seen)
  PROVE  \E r \in Process :
           /\ proc' = [proc EXCEPT ![p] = r] /\ proc'[p] = r
           /\ r.pc = pc /\ r.call = proc[p].call /\ r.db = db /\ r.seen = seen
           /\ Options(p)' = Options(p)
           /\ \A q \in Procs \ {p} : proc'[q] = proc[q]
<1> DEFINE one == [proc[p] EXCEPT !.pc = pc]
           two == [one EXCEPT !.db = db]
           r == [two EXCEPT !.seen = seen]
<1>1. proc[p] \in Process /\ proc \in [Procs -> Process]
  BY DEF StartInv, StartTypes
<1>2. proc' = [proc EXCEPT ![p] = r]
  <2>1. [proc[p] EXCEPT !.pc = pc, !.db = db, !.seen = seen] = r
    BY <1>1 DEF Process
  <2> QED
    BY <2>1, <1>1 DEF Move
<1>3. one \in Process /\ one.pc = pc /\ one.call = proc[p].call
  BY <1>1, PcChanged
<1> HIDE DEF one
<1>4. two \in Process /\ two.pc = pc /\ two.call = proc[p].call /\ two.db = db
  BY <1>3, DbChanged
<1> HIDE DEF two
<1>5. /\ r \in Process /\ r.pc = pc /\ r.call = proc[p].call /\ r.db = db
      /\ r.seen = seen
  BY <1>4, SeenChanged
<1> HIDE DEF r
<1>6. proc'[p] = r /\ \A q \in Procs \ {p} : proc'[q] = proc[q]
  BY <1>1, <1>2, <1>5, OneMoves
<1>7. Options(p)' = Options(p)
  BY <1>5, <1>6 DEF Options
<1> QED
  BY <1>2, <1>5, <1>6, <1>7

\* The invariant when a process moves on and the disk stays as it is.
LEMMA MoveKeeps ==
  ASSUME StartInv, NEW p \in Procs, NEW pc \in Points, NEW db \in Paths,
         NEW seen \in SUBSET Paths, Move(p, pc, db, seen), ~At(p, "idle"),
         UNCHANGED <<files, links, writable, by>>, Histories',
         pc \in {"touching", "creating", "checking", "opened"},
         pc \in {"checking", "opened"} => Exists(db),
         pc = "creating" => db \notin seen,
         pc # "checking" => ~Options(p).check
  PROVE  StartInv'
<1>1. PICK r \in Process :
        /\ proc' = [proc EXCEPT ![p] = r] /\ proc'[p] = r
        /\ r.pc = pc /\ r.call = proc[p].call /\ r.db = db /\ r.seen = seen
        /\ Options(p)' = Options(p)
  BY Moved
<1>2. proc[p].call \in Invocations
  BY DEF StartInv, OnTheWay, Way
<1>3. Exists(db)' <=> Exists(db)
  BY DEF Exists
<1>4. Way(p)'
  BY <1>1, <1>2, <1>3 DEF Way, At, Opened
<1> QED
  BY <1>1, <1>4, DiskAlone

\* The same, to the file a name leads to.
LEMMA FoundKeeps ==
  ASSUME StartInv, NEW p \in Procs, ~At(p, "idle"), NEW name \in Paths, There(name),
         Found(p, name), UNCHANGED <<files, links, writable, by>>, Histories'
  PROVE  StartInv'
<1> DEFINE pc == IF Options(p).check THEN "checking" ELSE "opened"
           db == Canonical(name)
<1>1. db \in Paths /\ Exists(db) /\ Move(p, pc, db, {})
  BY CanonicalFacts DEF StartInv, There, Found
<1>2. pc \in {"checking", "opened"} /\ pc \in Points /\ (pc = "opened" => ~Options(p).check)
  BY DEF Points
<1> HIDE DEF pc, db
<1> QED
  BY <1>1, <1>2, MoveKeeps

LEMMA LookKeeps ==
  ASSUME StartInv, NEW p \in Procs, Look(p)
  PROVE  StartInv'
<1>1. proc[p].call \in Invocations /\ ~At(p, "idle")
  BY DEF Look, At, StartInv, OnTheWay, Way
<1>2. Wanted(p) \in Paths /\ FallbackDir(p) \in Dirs
  BY <1>1, WantedFacts
<1>3. UNCHANGED <<files, links, writable, by>> /\ Histories'
  BY <1>2 DEF Look, Count, StartInv, StartTypes, Histories
<1>4. CASE There(Wanted(p))
  BY <1>1, <1>2, <1>3, <1>4, FoundKeeps DEF Look
<1>5. CASE ~There(Wanted(p)) /\ Options(p).check
  BY <1>3, <1>5, ExitKeeps DEF Look
<1>6. CASE ~There(Wanted(p)) /\ ~Options(p).check
  <2>1. Move(p, "touching", Wanted(p), {}) /\ "touching" \in Points /\ {} \in SUBSET Paths
    BY <1>6 DEF Look, Points
  <2> QED
    BY <1>1, <1>2, <1>3, <1>6, <2>1, MoveKeeps
<1> QED
  BY <1>4, <1>5, <1>6

LEMMA TouchKeeps ==
  ASSUME StartInv, NEW p \in Procs, Touch(p)
  PROVE  StartInv'
<1>1. proc[p].db \in Paths /\ ~At(p, "idle") /\ ~Options(p).check
  BY DEF Touch, At, StartInv, OnTheWay, Way
<1>2. UNCHANGED <<files, links, writable, by>> /\ Histories'
  BY DEF Touch, StartInv, StartTypes, Histories
<1>3. CASE There(proc[p].db)
  BY <1>1, <1>2, <1>3, FoundKeeps DEF Touch
<1>4. CASE ~There(proc[p].db)
  <2> DEFINE seen == {n \in Paths : There(n)}
  <2>1. /\ Move(p, "creating", proc[p].db, seen) /\ "creating" \in Points
        /\ seen \in SUBSET Paths /\ proc[p].db \notin seen
    BY <1>4 DEF Touch, Points
  <2> HIDE DEF seen
  <2> QED
    BY <1>1, <1>2, <2>1, MoveKeeps
<1> QED
  BY <1>3, <1>4

\* The invariant through a step that writes one file.
LEMMA FileWritten ==
  ASSUME StartInv, NEW p \in Procs, NEW r \in Process, proc' = [proc EXCEPT ![p] = r],
         NEW db \in Paths, NEW c \in Content, files' = [files EXCEPT ![db] = c],
         c.state # "missing",
         c.limit \in (IF c.state = "store" THEN 1..MaxLimit ELSE {0}),
         c.used \subseteq 1..c.limit,
         UNCHANGED <<links, writable, named, homes>>, by' \in [Paths -> Procs \union {Nothing}],
         Exists(db)' => Way(p)'
  PROVE  StartInv'
<1>1. /\ proc' \in [Procs -> Process]
      /\ \A q \in Procs \ {p} : proc'[q] = proc[q]
  BY OneMoves DEF StartInv, StartTypes
<1>2. /\ files' \in [Paths -> Content]
      /\ \A f \in Paths :
           /\ files'[f].limit \in (IF IsStore(f)' THEN 1..MaxLimit ELSE {0})
           /\ files'[f].used \subseteq 1..files'[f].limit
      /\ \A f \in Paths : Exists(f) => Exists(f)'
      /\ Exists(db)'
      /\ LinksLead'
  BY OneWritten DEF StartInv
<1>3. StartTypes'
  BY <1>1, <1>2 DEF StartInv, StartTypes, Histories
<1>4. OnTheWay'
  BY <1>1, <1>2, OnTheWayKept DEF StartInv
<1> QED
  BY <1>2, <1>3, <1>4 DEF StartInv

\* A process that only moves on.
LEMMA PcMoved ==
  ASSUME StartInv, NEW p \in Procs, NEW pc \in Points, To(p, pc)
  PROVE  LET r == [proc[p] EXCEPT !.pc = pc]
         IN  /\ r \in Process /\ proc' = [proc EXCEPT ![p] = r] /\ proc'[p] = r
             /\ proc'[p].pc = pc /\ proc'[p].call = proc[p].call
             /\ proc'[p].db = proc[p].db /\ proc'[p].seen = proc[p].seen
             /\ proc'[p].upload = proc[p].upload
             /\ Options(p)' = Options(p)
<1> DEFINE r == [proc[p] EXCEPT !.pc = pc]
<1>1. proc[p] \in Process /\ proc \in [Procs -> Process]
  BY DEF StartInv, StartTypes
<1>2. proc' = [proc EXCEPT ![p] = r]
  BY DEF To
<1>3. /\ r \in Process /\ r.pc = pc /\ r.call = proc[p].call /\ r.db = proc[p].db
      /\ r.seen = proc[p].seen /\ r.upload = proc[p].upload
  BY <1>1, PcChanged
<1> HIDE DEF r
<1>4. proc'[p] = r
  BY <1>1, <1>2
<1>5. Options(p)' = Options(p)
  BY <1>3, <1>4 DEF Options
<1> QED
  BY <1>2, <1>3, <1>4, <1>5 DEF r

\* What a start-up empties or creates.
LEMMA CreateFacts ==
  ASSUME StartInv, NEW p \in Procs, Create(p)
  PROVE  \E r \in Process, f \in Paths :
           /\ f = Canonical(proc[p].db)
           /\ proc' = [proc EXCEPT ![p] = r] /\ proc'[p] = r
           /\ r.pc = "opened" /\ r.call = proc[p].call /\ r.db = f
           /\ Options(p)' = Options(p)
           /\ \A q \in Procs \ {p} : proc'[q] = proc[q]
           /\ files' = [files EXCEPT ![f] = Blank] /\ by' = [by EXCEPT ![f] = Nothing]
           /\ f[1] = proc[p].db[1] /\ f[1] \in writable
<1>1. proc[p].db \in Paths
  BY DEF Create, At, StartInv, OnTheWay, Way
<1>2. PICK f \in Paths : f = Canonical(proc[p].db) /\ f[1] = proc[p].db[1]
  BY <1>1, CanonicalFacts DEF StartInv
<1>3. "opened" \in Points /\ {} \in SUBSET Paths
  BY DEF Points
<1>4. /\ f[1] \in writable /\ files' = [files EXCEPT ![f] = Blank]
      /\ by' = [by EXCEPT ![f] = Nothing] /\ Move(p, "opened", f, {})
  BY <1>2 DEF Create
<1>5. PICK r \in Process :
        /\ proc' = [proc EXCEPT ![p] = r] /\ proc'[p] = r
        /\ r.pc = "opened" /\ r.call = proc[p].call /\ r.db = f
        /\ Options(p)' = Options(p)
        /\ \A q \in Procs \ {p} : proc'[q] = proc[q]
  BY <1>3, <1>4, Moved
<1> QED
  BY <1>2, <1>4, <1>5

LEMMA CreateKeeps ==
  ASSUME StartInv, NEW p \in Procs, Create(p)
  PROVE  StartInv'
<1>1. PICK r \in Process, f \in Paths :
        /\ proc' = [proc EXCEPT ![p] = r] /\ proc'[p] = r
        /\ r.pc = "opened" /\ r.call = proc[p].call /\ r.db = f
        /\ Options(p)' = Options(p)
        /\ files' = [files EXCEPT ![f] = Blank] /\ by' = [by EXCEPT ![f] = Nothing]
  BY CreateFacts
<1>2. /\ Blank \in Content /\ Blank.state = "blank" /\ Blank.limit = 0 /\ Blank.used = {}
  BY DEF Blank, File, Content
<1>3. by' \in [Paths -> Procs \union {Nothing}] /\ UNCHANGED <<links, writable, named, homes>>
  BY <1>1 DEF Create, StartInv, StartTypes
<1>4. Exists(f)' => Way(p)'
  <2>1. proc[p].call \in Invocations /\ ~Options(p).check
    BY DEF Create, At, StartInv, OnTheWay, Way
  <2> QED
    BY <1>1, <2>1 DEF Way, At, Opened
<1>5. Blank.limit \in (IF Blank.state = "store" THEN 1..MaxLimit ELSE {0})
      /\ Blank.used \subseteq 1..Blank.limit
  BY <1>2
<1> QED
  BY <1>1, <1>2, <1>3, <1>4, <1>5, FileWritten

LEMMA CreateFailsKeeps ==
  ASSUME StartInv, NEW p \in Procs, CreateFails(p)
  PROVE  StartInv'
<1>1. proc[p].call \in Invocations /\ ~Options(p).check /\ ~At(p, "idle")
  BY DEF CreateFails, At, StartInv, OnTheWay, Way
<1>2. UNCHANGED <<files, links, writable, by>> /\ Histories'
  BY DEF CreateFails, StartInv, StartTypes, Histories
<1>3. CASE ~(Explicit(p) = Nothing /\ proc[p].db = Default)
  BY <1>2, <1>3, ExitKeeps DEF CreateFails
<1>4. CASE Explicit(p) = Nothing /\ proc[p].db = Default
  <2>1. /\ Move(p, "touching", Fallback(p), {}) /\ Fallback(p) \in Paths
        /\ "touching" \in Points /\ {} \in SUBSET Paths
    BY <1>1, <1>4, WantedFacts DEF CreateFails, Points
  <2> QED
    BY <1>1, <1>2, <2>1, MoveKeeps
<1> QED
  BY <1>3, <1>4

LEMMA EnterKeeps ==
  ASSUME StartInv, NEW p \in Procs, Enter(p)
  PROVE  StartInv'
<1>1. /\ proc[p].call \in Invocations /\ ~Options(p).check
      /\ proc[p].db \in Paths /\ Exists(proc[p].db)
  BY DEF Enter, At, StartInv, StartTypes, OnTheWay, Way, Opened, Process
<1>2. /\ proc'[p].pc = "entered" /\ proc'[p].call = proc[p].call
      /\ proc'[p].db = proc[p].db /\ proc'[p].seen = proc[p].seen
      /\ Options(p)' = Options(p)
      /\ proc' \in [Procs -> Process] /\ \A q \in Procs \ {p} : proc'[q] = proc[q]
  <2>1. "entered" \in Points
    BY DEF Points
  <2> DEFINE r == [proc[p] EXCEPT !.pc = "entered"]
  <2>2. /\ r \in Process /\ proc' = [proc EXCEPT ![p] = r]
        /\ proc'[p].pc = "entered" /\ proc'[p].call = proc[p].call
        /\ proc'[p].db = proc[p].db /\ proc'[p].seen = proc[p].seen
        /\ Options(p)' = Options(p)
    BY <2>1, PcMoved DEF Enter
  <2>3. proc \in [Procs -> Process]
    BY DEF StartInv, StartTypes
  <2> HIDE DEF r
  <2> QED
    BY <2>2, <2>3, OneMoves
<1>3. \A f \in Paths : Exists(f)' <=> Exists(f)
  BY DEF Enter, Exists
<1>4. links' \in [Dirs -> {Nothing, Other}] /\ LinksLead'
  <2>1. proc[p].db[1] \in Dirs /\ proc[p].db[2] \in {Standard, Other}
        /\ proc[p].db = <<proc[p].db[1], proc[p].db[2]>>
    BY <1>1, PathFacts
  <2>2. CASE links' = links
    BY <2>2, <1>3, PathFacts DEF StartInv, StartTypes, LinksLead
  <2>3. CASE links' = [links EXCEPT ![proc[p].db[1]] = proc[p].db[2]] /\ proc[p].db[2] # Standard
    <3>1. proc[p].db = <<proc[p].db[1], Other>> /\ proc[p].db[2] = Other
      BY <2>1, <2>3
    <3>2. links \in [Dirs -> {Nothing, Other}] /\ LinksLead
      BY DEF StartInv, StartTypes
    <3>3. PICK e \in Dirs : e = proc[p].db[1]
      BY <2>1
    <3>4. links' = [links EXCEPT ![e] = Other] /\ proc[p].db = <<e, Other>>
      BY <2>3, <3>1, <3>3
    <3>5. links' \in [Dirs -> {Nothing, Other}]
      BY <3>2, <3>4
    <3>6. ASSUME NEW d \in Dirs, links'[d] # Nothing
          PROVE  Exists(<<d, Other>>)
      <4>1. CASE d = e
        BY <1>1, <3>4, <4>1
      <4>2. CASE d # e
        BY <3>2, <3>4, <3>6, <4>2 DEF LinksLead
      <4> QED
        BY <4>1, <4>2
    <3>7. ASSUME NEW d \in Dirs, links'[d] # Nothing
          PROVE  Exists(<<d, Other>>)'
      BY <1>3, <3>6, <3>7, PathFacts
    <3> QED
      BY <3>5, <3>7, Zenon DEF LinksLead
  <2> QED
    BY <2>2, <2>3 DEF Enter
<1>5. StartTypes'
  BY <1>2, <1>4 DEF Enter, StartInv, StartTypes, IsStore, Histories
<1>6. Way(p)'
  BY <1>1, <1>2, <1>3 DEF Way, At, Opened
<1>7. OnTheWay'
  BY <1>2, <1>3, <1>6, OnTheWayKept DEF StartInv
<1> QED
  BY <1>4, <1>5, <1>7 DEF StartInv

\* What a start-up makes of the database it has entered.
LEMMA InitSchemaFacts ==
  ASSUME StartInv, NEW p \in Procs, InitSchema(p)
  PROVE  LET db == proc[p].db
             n  == ClampLimit(Options(p).limit)
             c  == Resized(files[db], n, Options(p).force)
         IN  /\ db \in Paths /\ n \in 1..MaxLimit
             /\ c \in Content /\ c.state = "store" /\ c.limit = n /\ c.used \subseteq 1..n
             /\ files' = [files EXCEPT ![db] = c]
             /\ by' \in [Paths -> Procs \union {Nothing}]
<1>1. proc[p].call \in Invocations /\ proc[p].db \in Paths
  BY DEF InitSchema, At, StartInv, StartTypes, OnTheWay, Way, Opened
<1>2. ClampLimit(Options(p).limit) \in 1..MaxLimit
  BY <1>1, WantedFacts, ClampFacts DEF StartInv
<1>3. files[proc[p].db] \in Content
      /\ files[proc[p].db].used \subseteq 1..files[proc[p].db].limit
  BY <1>1 DEF StartInv, StartTypes
<1>4. by' \in [Paths -> Procs \union {Nothing}]
  BY DEF InitSchema, StartInv, StartTypes
<1> QED
  BY <1>1, <1>2, <1>3, <1>4, ResizedFacts DEF InitSchema

LEMMA InitSchemaKeeps ==
  ASSUME StartInv, NEW p \in Procs, InitSchema(p)
  PROVE  StartInv'
<1> DEFINE r == [proc[p] EXCEPT !.pc = "stored"]
<1>1. /\ proc[p].call \in Invocations /\ ~Options(p).check
  BY DEF InitSchema, At, StartInv, StartTypes, OnTheWay, Way, Opened, Process
<1>2. PICK db \in Paths, n \in 1..MaxLimit, c \in Content :
        /\ db = proc[p].db /\ files' = [files EXCEPT ![db] = c]
        /\ c.state = "store" /\ c.limit = n /\ c.used \subseteq 1..n
  BY InitSchemaFacts
<1>3. /\ r \in Process /\ proc' = [proc EXCEPT ![p] = r] /\ proc'[p] = r
      /\ proc'[p].pc = "stored" /\ proc'[p].call = proc[p].call
      /\ proc'[p].db = proc[p].db /\ proc'[p].seen = proc[p].seen
      /\ Options(p)' = Options(p)
  <2>1. "stored" \in Points
    BY DEF Points
  <2> QED
    BY <2>1, PcMoved DEF InitSchema
<1>4. \A f \in Paths : Exists(f) => Exists(f)'
  BY <1>2 DEF Exists, StartInv, StartTypes
<1>5. UNCHANGED <<links, writable, named, homes>> /\ by' \in [Paths -> Procs \union {Nothing}]
  BY InitSchemaFacts DEF InitSchema
<1>6. Exists(db)' => Way(p)'
  <2>1. Exists(db)' => Exists(proc[p].db)'
    BY <1>2, <1>3
  <2> HIDE DEF r
  <2> QED
    BY <1>1, <1>2, <1>3, <1>4, <2>1 DEF Way, At, Opened
<1>7. /\ c.state # "missing"
      /\ c.limit \in (IF c.state = "store" THEN 1..MaxLimit ELSE {0})
      /\ c.used \subseteq 1..c.limit
  BY <1>2
<1> HIDE DEF r
<1> QED
  BY <1>2, <1>3, <1>5, <1>6, <1>7, FileWritten

LEMMA ConfigureKeeps ==
  ASSUME StartInv, NEW p \in Procs, Configure(p)
  PROVE  StartInv'
<1>1. /\ proc[p].call \in Invocations /\ ~Options(p).check /\ proc[p] \in Process
      /\ proc[p].db \in Paths /\ Exists(proc[p].db) /\ proc \in [Procs -> Process]
      /\ writable \subseteq Dirs
  BY DEF Configure, At, StartInv, StartTypes, OnTheWay, Way, Opened
<1>2. UNCHANGED <<files, links, writable, by>> /\ Histories'
  BY DEF Configure, StartInv, StartTypes, Histories
<1>3. CASE Options(p).file \notin 1..MaxFile \/ UploadPath(p) \notin writable \/ Options(p).init
  BY <1>2, <1>3, ExitKeeps DEF Configure
<1>4. CASE ~(Options(p).file \notin 1..MaxFile \/ UploadPath(p) \notin writable \/ Options(p).init)
  <2> DEFINE limit == ClampLimit(Options(p).limit)
             upload == UploadPath(p)
             one == [proc[p] EXCEPT !.pc = "serving"]
             two == [one EXCEPT !.seen = {}]
             three == [two EXCEPT !.limit = limit]
             moved == [three EXCEPT !.upload = upload]
  <2>1. limit \in Int /\ upload \in Dirs
    BY <1>1, <1>4, WantedFacts, ClampFacts DEF StartInv
  <2>2. proc' = [proc EXCEPT ![p] = moved]
    <3>1. proc' = [proc EXCEPT ![p] = [@ EXCEPT !.pc = "serving", !.seen = {},
                                          !.limit = limit, !.upload = upload]]
      BY <1>4 DEF Configure
    <3> HIDE DEF limit, upload
    <3>2. [proc[p] EXCEPT !.pc = "serving", !.seen = {}, !.limit = limit,
                          !.upload = upload] = moved
      BY <1>1 DEF Process
    <3> QED
      BY <3>1, <3>2, <1>1
  <2>3. "serving" \in Points /\ {} \in SUBSET Paths
    BY DEF Points
  <2> HIDE DEF limit, upload
  <2>4. /\ one \in Process /\ one.pc = "serving" /\ one.call = proc[p].call
        /\ one.db = proc[p].db
    BY <1>1, <2>3, PcChanged
  <2> HIDE DEF one
  <2>5. /\ two \in Process /\ two.pc = "serving" /\ two.call = proc[p].call
        /\ two.db = proc[p].db /\ two.seen = {}
    BY <2>4, <2>3, SeenChanged
  <2> HIDE DEF two
  <2>6. /\ three \in Process /\ three.pc = "serving" /\ three.call = proc[p].call
         /\ three.db = proc[p].db /\ three.seen = {}
    BY <2>5, <2>1, LimitChanged
  <2> HIDE DEF three
  <2>7. /\ moved \in Process /\ moved.pc = "serving" /\ moved.call = proc[p].call
        /\ moved.db = proc[p].db /\ moved.seen = {} /\ moved.upload = upload
    BY <2>6, <2>1, UploadChanged
  <2> HIDE DEF moved
  <2>8. proc'[p] = moved
    BY <1>1, <2>2
  <2>9. Options(p)' = Options(p) /\ UploadPath(p)' = upload
    BY <2>7, <2>8 DEF Options, UploadPath, upload
  <2>10. \A f \in Paths : Exists(f)' <=> Exists(f)
    BY <1>2 DEF Exists
  <2>11. Way(p)'
    BY <1>1, <2>7, <2>8, <2>9, <2>10 DEF Way, At, Opened
  <2> QED
    BY <1>2, <2>2, <2>7, <2>11, DiskAlone
<1> QED
  BY <1>3, <1>4

LEMMA ServeKeeps ==
  ASSUME StartInv, NEW p \in Procs, Serve(p)
  PROVE  StartInv'
<1>1. PICK db \in Paths : db = proc[p].db
  BY DEF Serve, At, StartInv, OnTheWay, Way, Opened
<1>2. PICK i \in 1..files[db].limit :
        files' = [files EXCEPT ![db].used = IF i \in @ THEN @ \ {i} ELSE @ \union {i}]
  BY <1>1 DEF Serve
<1> DEFINE used == IF i \in files[db].used THEN files[db].used \ {i}
                   ELSE files[db].used \union {i}
           c == [files[db] EXCEPT !.used = used]
<1>3. files[db] \in Content /\ IsStore(db) /\ files[db].limit \in 1..MaxLimit
      /\ files[db].used \subseteq 1..files[db].limit
  BY <1>1 DEF Serve, StartInv, StartTypes
<1>4. files' = [files EXCEPT ![db] = c]
  BY <1>2
<1>5. used \subseteq 1..files[db].limit /\ used \in SUBSET Nat
  <2>1. 1..files[db].limit \subseteq Nat
    BY <1>3 DEF Content
  <2> QED
    BY <1>3, <2>1
<1> HIDE DEF used
<1>6. c \in Content /\ c.state = "store" /\ c.limit = files[db].limit /\ c.used = used
  BY <1>3, <1>5 DEF Content, IsStore
<1> HIDE DEF c
<1>7. /\ c.state # "missing"
      /\ c.limit \in (IF c.state = "store" THEN 1..MaxLimit ELSE {0})
      /\ c.used \subseteq 1..c.limit
  BY <1>3, <1>5, <1>6
<1>8. UNCHANGED <<links, writable, proc, by, named, homes>>
  BY DEF Serve
<1>9. /\ files' \in [Paths -> Content]
      /\ \A f \in Paths :
           /\ files'[f].limit \in (IF IsStore(f)' THEN 1..MaxLimit ELSE {0})
           /\ files'[f].used \subseteq 1..files'[f].limit
      /\ \A f \in Paths : Exists(f) => Exists(f)'
      /\ LinksLead'
  BY <1>4, <1>6, <1>7, <1>8, OneWritten DEF StartInv
<1>10. StartTypes'
  BY <1>8, <1>9 DEF StartInv, StartTypes, Histories
<1>11. OnTheWay'
  BY <1>8, <1>9, WayKept DEF StartInv, OnTheWay
<1> QED
  BY <1>9, <1>10, <1>11 DEF StartInv

LEMMA ChmodKeeps ==
  ASSUME StartInv, Chmod
  PROVE  StartInv'
<1>1. writable' \subseteq Dirs /\ UNCHANGED <<files, links, proc, by, named, homes>>
  BY DEF Chmod
<1>2. StartTypes'
  BY <1>1 DEF StartInv, StartTypes, IsStore, Histories
<1>3. \A f \in Paths : Exists(f)' <=> Exists(f)
  BY <1>1 DEF Exists
<1>4. OnTheWay'
  BY <1>1, <1>3, WayKept DEF StartInv, OnTheWay
<1>5. LinksLead'
  BY <1>1, <1>3, PathFacts DEF StartInv, LinksLead
<1> QED
  BY <1>2, <1>4, <1>5 DEF StartInv

LEMMA InitKeeps ==
  ASSUME SInit
  PROVE  StartInv
<1>1. /\ Missing \in Content /\ Missing.state = "missing" /\ Missing.limit = 0
      /\ Missing.used = {}
      /\ Broken \in Content /\ Broken.state = "broken" /\ Broken.limit = 0
      /\ Broken.used = {}
  BY DEF Missing, Broken, File, Content
<1>2. files \in [Paths -> Content]
      /\ \A f \in Paths : files[f] \in {Missing, Broken}
  BY <1>1 DEF SInit
<1>3. \A f \in Paths :
        /\ files[f].limit \in (IF IsStore(f) THEN 1..MaxLimit ELSE {0})
        /\ files[f].used \subseteq 1..files[f].limit
  BY <1>1, <1>2 DEF IsStore
<1>4. StartTypes
  BY <1>2, <1>3, IdleIsProcess DEF SInit, StartTypes, Histories
<1>5. OnTheWay
  BY IdleIsProcess DEF SInit, OnTheWay, Way, At, Opened
<1>6. LinksLead
  BY DEF SInit, LinksLead
<1> QED
  BY <1>4, <1>5, <1>6 DEF StartInv

\* Every step keeps the invariant.
LEMMA StepKeeps ==
  ASSUME StartInv, [SNext]_svars
  PROVE  StartInv'
<1>1. ASSUME NEW p \in Procs, NEW call \in Invocations, Launch(p, call)
      PROVE  StartInv'
  BY <1>1, LaunchKeeps
<1>2. ASSUME NEW p \in Procs, Look(p)
      PROVE  StartInv'
  BY <1>2, LookKeeps
<1>3. ASSUME NEW p \in Procs, Create(p)
      PROVE  StartInv'
  BY <1>3, CreateKeeps
<1>4. ASSUME NEW p \in Procs, CreateFails(p)
      PROVE  StartInv'
  BY <1>4, CreateFailsKeeps
<1>5. ASSUME NEW p \in Procs, Check(p) \/ Fail(p) \/ Stop(p)
      PROVE  StartInv'
  <2>1. Exit(p) /\ UNCHANGED <<files, links, writable, by>> /\ Histories'
    BY <1>5 DEF Check, Fail, Stop, StartInv, StartTypes, Histories
  <2> QED
    BY <2>1, ExitKeeps
<1>6. ASSUME NEW p \in Procs, Enter(p)
      PROVE  StartInv'
  BY <1>6, EnterKeeps
<1>7. ASSUME NEW p \in Procs, InitSchema(p)
      PROVE  StartInv'
  BY <1>7, InitSchemaKeeps
<1>8. ASSUME NEW p \in Procs, Configure(p)
      PROVE  StartInv'
  BY <1>8, ConfigureKeeps
<1>9. ASSUME NEW p \in Procs, Serve(p)
      PROVE  StartInv'
  BY <1>9, ServeKeeps
<1>10. CASE Chmod
  BY <1>10, ChmodKeeps
<1>11. CASE UNCHANGED svars
  <2>1. UNCHANGED <<files, links, writable, proc, by, named, homes>>
    BY <1>11 DEF svars
  <2>2. \A f \in Paths : Exists(f)' <=> Exists(f)
    BY <2>1 DEF Exists
  <2>3. StartTypes'
    BY <2>1 DEF StartInv, StartTypes, IsStore, Histories
  <2>4. OnTheWay'
    BY <2>1, <2>2, WayKept DEF StartInv, OnTheWay
  <2>5. LinksLead'
    BY <2>1, <2>2, PathFacts DEF StartInv, LinksLead
  <2> QED
    BY <2>3, <2>4, <2>5 DEF StartInv
<1>12. ASSUME NEW p \in Procs, Touch(p)
       PROVE  StartInv'
  BY <1>12, TouchKeeps
<1> QED
  BY <1>1, <1>2, <1>3, <1>4, <1>5, <1>6, <1>7, <1>8, <1>9, <1>10, <1>11, <1>12
  DEF SNext, Step

LEMMA StartInvariant == SSpec => []StartInv
BY InitKeeps, StepKeeps, PTL DEF SSpec

\* The disk and the processes keep their shape whatever the invocations: a
\* limit is one that may be configured, slots lie below it, and a link leads
\* to a name (bootstrap.cpp, db_init.cpp).
THEOREM StartTypeCorrect == SSpec => []StartTypeOK
<1>1. ASSUME StartInv
      PROVE  StartTypeOK
  BY <1>1 DEF StartInv, StartTypes, Histories, StartTypeOK, Content, Process, Points
<1> QED
  BY <1>1, StartInvariant, PTL

\* Servers of one database that were given the same option have one directory
\* for uploads, wherever they were started from (bootstrap.cpp).
THEOREM UploadsShared == SSpec => []UploadsFollowDatabase
<1>1. ASSUME StartInv
      PROVE  UploadsFollowDatabase
  BY <1>1 DEF StartInv, OnTheWay, Way, UploadsFollowDatabase, UploadPath, DataDir, Health
<1> QED
  BY <1>1, StartInvariant, PTL

\* No process that was started with --check-db writes a file or a link, at
\* whatever moment other processes change the disk (bootstrap.cpp).
THEOREM CheckLooksOnly == SSpec => CheckOnlyLooks
<1>1. ASSUME StartInv, [SNext]_svars
      PROVE  [\A p \in Procs : (proc'[p] # proc[p] /\ Options(p).check) =>
                                 UNCHANGED <<files, links>>]_svars
  <2> SUFFICES ASSUME NEW p \in Procs, proc'[p] # proc[p], Options(p).check, SNext
               PROVE  UNCHANGED <<files, links>>
    BY <1>1 DEF svars
  <2>1. proc \in [Procs -> Process]
    BY <1>1 DEF StartInv, StartTypes
  <2>2. ~Create(p) /\ ~Enter(p) /\ ~InitSchema(p)
    BY <1>1 DEF StartInv, OnTheWay, Way, Create, Enter, InitSchema, At, Opened
  <2>3. ASSUME NEW q \in Procs \ {p}, Create(q) \/ Enter(q) \/ InitSchema(q)
        PROVE  FALSE
    BY <2>1, <2>3 DEF Create, Enter, InitSchema, To, Move
  <2>4. ASSUME NEW q \in Procs, Serve(q)
        PROVE  FALSE
    BY <2>4 DEF Serve
  <2>5. ASSUME NEW q \in Procs, NEW call \in Invocations,
               Launch(q, call)
        PROVE  UNCHANGED <<files, links>>
    BY <2>5 DEF Launch
  <2>6. ASSUME NEW q \in Procs,
               Look(q) \/ Touch(q) \/ CreateFails(q) \/ Check(q) \/ Fail(q) \/ Configure(q)
               \/ Stop(q)
        PROVE  UNCHANGED <<files, links>>
    BY <2>6 DEF Look, Touch, CreateFails, Check, Fail, Configure, Stop
  <2>7. Chmod => UNCHANGED <<files, links>>
    BY DEF Chmod
  <2> QED
    BY <2>2, <2>3, <2>4, <2>5, <2>6, <2>7 DEF SNext, Step
<1> QED
  BY <1>1, StartInvariant, PTL DEF SSpec, CheckOnlyLooks

LEMMA UsedFinite ==
  ASSUME StartTypes, NEW f \in Paths
  PROVE  IsFiniteSet(files[f].used) /\ Cardinality(files[f].used) \in Nat
<1>1. files[f].used \subseteq 1..files[f].limit /\ files[f].limit \in Nat
  BY DEF StartTypes, Content
<1>2. IsFiniteSet(1..files[f].limit)
  BY <1>1, FS_Interval
<1>3. IsFiniteSet(files[f].used)
  BY <1>1, <1>2, FS_Subset
<1> QED
  BY <1>3, FS_CardinalityType

\* A resize takes records only when it is forced below the limit there was,
\* and then it fills the new limit.
LEMMA ResizeLoses ==
  ASSUME StartInv, NEW p \in Procs, InitSchema(p), NEW f \in Paths,
         Cardinality(files'[f].used) < Cardinality(files[f].used)
  PROVE  /\ Options(p).force /\ proc[p].db = f
         /\ Cardinality(files'[f].used) = ClampLimit(Options(p).limit)
<1>1. PICK db \in Paths, n \in 1..MaxLimit :
        /\ db = proc[p].db /\ n = ClampLimit(Options(p).limit)
        /\ files' = [files EXCEPT ![db] = Resized(files[db], n, Options(p).force)]
        /\ Fits(files[db], n, Options(p).force)
  BY InitSchemaFacts DEF InitSchema
<1> DEFINE file == files[db]
           force == Options(p).force
           count == Cardinality(file.used)
           kept == IF count > n THEN n ELSE count
<1>2. /\ file \in Content /\ IsFiniteSet(file.used) /\ count \in Nat /\ n \in Nat
      /\ file.used \subseteq 1..file.limit
      /\ ~IsStore(db) => file.limit = 0
  BY LimitAssumption, UsedFinite DEF StartInv, StartTypes
<1>3. f = db
  <2>1. CASE f # db
    <3>1. files'[f] = files[f]
      BY <1>1, <2>1 DEF StartInv, StartTypes
    <3> QED
      BY <3>1, UsedFinite DEF StartInv
  <2> QED
    BY <2>1
<1>4. files'[db] = Resized(file, n, force)
  BY <1>1 DEF StartInv, StartTypes
<1>5. force /\ n < file.limit
  <2>1. ASSUME ~(force /\ n < file.limit)
        PROVE  FALSE
    <3>1. Resized(file, n, force).used = file.used \intersect 1..n
      BY <2>1 DEF Resized, Store, File
    <3>2. file.used \subseteq 1..n
      <4>1. CASE file.limit <= n
        BY <1>2, <4>1 DEF Content
      <4>2. CASE ~(file.limit <= n)
        <5>1. file.state = "store" /\ ~force /\ n < file.limit
          BY <1>2, <2>1, <4>2 DEF IsStore, Content
        <5> QED
          BY <1>1, <5>1 DEF Fits
      <4> QED
        BY <4>1, <4>2
    <3>3. files'[f].used = files[f].used
      BY <1>3, <1>4, <3>1, <3>2
    <3> QED
      BY <1>2, <1>3, <3>3
  <2> QED
    BY <2>1
<1>6. Resized(file, n, force).used = 1..kept
  BY <1>5 DEF Resized, Store, File
<1>7. kept \in Nat
  BY <1>2
<1>8. Cardinality(1..kept) = kept
  BY <1>7, FS_Interval
<1>9. Cardinality(files'[f].used) = kept
  BY <1>3, <1>4, <1>6, <1>8
<1>10. kept = n
  BY <1>2, <1>3, <1>9
<1> QED
  BY <1>1, <1>3, <1>5, <1>9, <1>10

\* A server that has fewer records after a step has lost one.
LEMMA ServeLoses ==
  ASSUME StartInv, NEW p \in Procs, Serve(p), NEW f \in Paths,
         Cardinality(files'[f].used) < Cardinality(files[f].used)
  PROVE  /\ proc[p].db = f
         /\ \E i \in files[f].used : files' = [files EXCEPT ![f].used = files[f].used \ {i}]
<1>1. PICK db \in Paths : db = proc[p].db
  BY DEF Serve, At, StartInv, OnTheWay, Way, Opened
<1>2. PICK i : files' = [files EXCEPT ![db].used = IF i \in @ THEN @ \ {i} ELSE @ \union {i}]
  BY <1>1, Zenon DEF Serve
<1>3. /\ IsFiniteSet(files[f].used) /\ Cardinality(files[f].used) \in Nat
      /\ files \in [Paths -> Content]
  BY UsedFinite DEF StartInv, StartTypes
<1>4. f = db
  <2>1. CASE f # db
    <3>1. files'[f] = files[f]
      BY <1>2, <1>3, <2>1
    <3> QED
      BY <1>3, <3>1
  <2> QED
    BY <2>1
<1>5. CASE i \in files[f].used
  BY <1>1, <1>2, <1>4, <1>5
<1>6. CASE i \notin files[f].used
  <2>1. files'[f].used = files[f].used \union {i}
    BY <1>2, <1>3, <1>4, <1>6 DEF Content
  <2>2. Cardinality(files[f].used \union {i}) = Cardinality(files[f].used) + 1
    BY <1>3, <1>6, FS_AddElement
  <2> QED
    BY <1>3, <2>1, <2>2
<1> QED
  BY <1>5, <1>6

\* The three steps that write a file.
LEMMA FileWriters ==
  ASSUME [SNext]_svars, files' # files
  PROVE  \E p \in Procs : Create(p) \/ InitSchema(p) \/ Serve(p)
<1>1. ASSUME NEW q \in Procs, NEW call \in Invocations, Launch(q, call)
      PROVE  files' = files
  BY <1>1 DEF Launch
<1>2. ASSUME NEW q \in Procs,
             Look(q) \/ Touch(q) \/ CreateFails(q) \/ Check(q) \/ Enter(q) \/ Fail(q)
             \/ Configure(q) \/ Stop(q)
      PROVE  files' = files
  BY <1>2 DEF Look, Touch, CreateFails, Check, Enter, Fail, Configure, Stop
<1>3. Chmod \/ UNCHANGED svars => files' = files
  BY DEF Chmod, svars
<1> QED
  BY <1>1, <1>2, <1>3 DEF SNext, Step

\* How the records of f become fewer by a step of p.
Costs(p, f) ==
  \/ /\ At(p, "serving") /\ UNCHANGED proc /\ proc[p].db = f
     /\ \E i \in files[f].used :
          files' = [files EXCEPT ![f].used = files[f].used \ {i}]
  \/ /\ At(p, "entered") /\ At(p, "stored")' /\ proc[p].db = f
     /\ Options(p).force
     /\ Cardinality(files'[f].used) = ClampLimit(Options(p).limit)
  \/ /\ At(p, "creating") /\ At(p, "opened")' /\ f = Canonical(proc[p].db)
     /\ proc[p].db \notin proc[p].seen

\* Records go one at a time by a server of their database, or at once by a
\* smaller limit with --force, and then only as many as it has no room for, or
\* by a start-up that creates a database another has put there since it looked
\* (db_init.cpp, db_path.cpp, bootstrap.cpp).
THEOREM LossIsForced == SSpec => LossWasForced
<1>1. ASSUME StartInv, [SNext]_svars
      PROVE  [\A f \in Paths :
                Cardinality(files'[f].used) < Cardinality(files[f].used) =>
                  \E p \in Procs : Costs(p, f)]_svars
  <2> SUFFICES ASSUME NEW f \in Paths, SNext,
                      Cardinality(files'[f].used) < Cardinality(files[f].used)
               PROVE  \E p \in Procs : Costs(p, f)
    BY <1>1 DEF svars
  <2>1. files'[f] # files[f]
    BY <1>1, UsedFinite DEF StartInv
  <2>2. PICK p \in Procs : Create(p) \/ InitSchema(p) \/ Serve(p)
    BY <2>1, FileWriters
  <2>3. CASE Create(p)
    <3>1. PICK db \in Paths : /\ db = Canonical(proc[p].db) /\ proc'[p].pc = "opened"
                              /\ files' = [files EXCEPT ![db] = Blank]
      BY <1>1, <2>3, CreateFacts
    <3>2. f = db
      BY <1>1, <2>1, <3>1 DEF StartInv, StartTypes
    <3>3. At(p, "creating") /\ proc[p].db \notin proc[p].seen
      BY <1>1, <2>3 DEF Create, StartInv, OnTheWay, Way
    <3> QED
      BY <3>1, <3>2, <3>3 DEF Costs, At
  <2>4. CASE InitSchema(p)
    <3>1. /\ Options(p).force /\ proc[p].db = f
          /\ Cardinality(files'[f].used) = ClampLimit(Options(p).limit)
      BY <1>1, <2>4, ResizeLoses
    <3>2. At(p, "entered") /\ At(p, "stored")'
      BY <1>1, <2>4 DEF InitSchema, At, To, StartInv, StartTypes, Process
    <3> QED
      BY <3>1, <3>2 DEF Costs
  <2>5. CASE Serve(p)
    <3>1. /\ proc[p].db = f
          /\ \E i \in files[f].used : files' = [files EXCEPT ![f].used = files[f].used \ {i}]
      BY <1>1, <2>5, ServeLoses
    <3>2. At(p, "serving") /\ UNCHANGED proc
      BY <2>5 DEF Serve
    <3> QED
      BY <3>1, <3>2 DEF Costs
  <2> QED
    BY <2>2, <2>3, <2>4, <2>5
<1> QED
  BY <1>1, StartInvariant, PTL DEF SSpec, LossWasForced, Costs

-----------------------------------------------------------------------------
(* Starts without a name.                                                  *)

\* No operator has named a database, and s is the fallback directory of every
\* start-up so far.
Plain(s) == ~named /\ homes \subseteq {s}

\* As long as that is so, there are two places for a database; and who comes
\* to create the fallback, or finds it there when the default was its to
\* create, may not write the default.
Placed(p, s) ==
  /\ ~At(p, "idle") /\ ~At(p, "started") =>
       /\ Explicit(p) = Nothing /\ FallbackDir(p) = s
       /\ proc[p].db \in {Default, <<s, Standard>>}
  /\ (At(p, "touching") \/ At(p, "creating")) /\
     (proc[p].db = <<s, Standard>> \/ Exists(<<s, Standard>>)) =>
       Var \notin writable

Unnamed(s) ==
  Plain(s) => (\A d \in Dirs : links[d] = Nothing) /\ (\A p \in Procs : Placed(p, s))

LEMMA CallKept ==
  ASSUME NEW p \in Procs, proc'[p].call = proc[p].call
  PROVE  Explicit(p)' = Explicit(p) /\ FallbackDir(p)' = FallbackDir(p)
BY DEF Explicit, Options, FallbackDir

LEMMA PlacedKept ==
  ASSUME NEW s \in Dirs, NEW p \in Procs, Placed(p, s), proc'[p] = proc[p],
         writable' = writable,
         Exists(<<s, Standard>>)' => Exists(<<s, Standard>>) \/ Var \notin writable
  PROVE  Placed(p, s)'
BY CallKept DEF Placed, At

\* A process that goes on with its database.
LEMMA PlacedOn ==
  ASSUME NEW s \in Dirs, NEW p \in Procs, Placed(p, s), ~At(p, "idle"), ~At(p, "started"),
         proc'[p].call = proc[p].call, proc'[p].db = proc[p].db,
         proc'[p].pc \notin {"idle", "started", "touching", "creating"}
  PROVE  Placed(p, s)'
BY CallKept DEF Placed, At

\* While there is no link, a name is the path of its file.
LEMMA NoLinks ==
  ASSUME \A d \in Dirs : links[d] = Nothing, NEW f \in Paths
  PROVE  Canonical(f) = f /\ (There(f) <=> Exists(f))
BY PathFacts DEF Canonical, There

LEMMA TwoPlaces ==
  ASSUME NEW s \in Dirs \ {Var}
  PROVE  /\ s \in Dirs /\ <<s, Standard>> \in Paths /\ Default \in Paths
         /\ Default # <<s, Standard>> /\ Default[1] = Var /\ Default[2] = Standard
BY PathFacts DEF Default

\* The histories only grow.
LEMMA HistoriesGrow ==
  ASSUME NEW s, [SNext]_svars, Plain(s)'
  PROVE  Plain(s)
<1>1. ASSUME NEW p \in Procs, Look(p)
      PROVE  Plain(s)
  BY <1>1 DEF Look, Count, Plain
<1>2. ASSUME NEW p \in Procs, NEW call \in Invocations, Launch(p, call)
      PROVE  Plain(s)
  BY <1>2 DEF Launch, Plain
<1>3. ASSUME NEW p \in Procs,
             Touch(p) \/ Create(p) \/ CreateFails(p) \/ Check(p) \/ Enter(p) \/ InitSchema(p)
             \/ Fail(p) \/ Configure(p) \/ Serve(p) \/ Stop(p)
      PROVE  Plain(s)
  BY <1>3 DEF Touch, Create, CreateFails, Check, Enter, InitSchema, Fail, Configure, Serve,
              Stop, Plain
<1>4. CASE Chmod \/ UNCHANGED svars
  BY <1>4 DEF Chmod, svars, Plain
<1> QED
  BY <1>1, <1>2, <1>3, <1>4 DEF SNext, Step

\* A step that moves one process and leaves the disk alone.
LEMMA UnnamedMoves ==
  ASSUME StartInv, NEW s \in Dirs, Unnamed(s), NEW p \in Procs, NEW r \in Process,
         proc' = [proc EXCEPT ![p] = r],
         UNCHANGED <<files, links, writable>>, Plain(s)' => Plain(s) /\ Placed(p, s)'
  PROVE  Unnamed(s)'
<1> SUFFICES ASSUME Plain(s)'
             PROVE  (\A d \in Dirs : links'[d] = Nothing) /\ (\A q \in Procs : Placed(q, s)')
  BY DEF Unnamed
<1>1. (\A d \in Dirs : links[d] = Nothing) /\ (\A q \in Procs : Placed(q, s))
  BY DEF Unnamed
<1>2. \A q \in Procs \ {p} : proc'[q] = proc[q]
  BY OneMoves DEF StartInv, StartTypes
<1>3. Exists(<<s, Standard>>)' => Exists(<<s, Standard>>)
  BY DEF Exists
<1>4. \A q \in Procs \ {p} : Placed(q, s)'
  BY <1>1, <1>2, <1>3, PlacedKept
<1> QED
  BY <1>1, <1>4

LEMMA UnnamedExits ==
  ASSUME StartInv, NEW s \in Dirs, Unnamed(s), NEW p \in Procs, Exit(p),
         UNCHANGED <<files, links, writable>>, Plain(s)' => Plain(s)
  PROVE  Unnamed(s)'
<1>1. proc'[p] = Idle
  BY DEF Exit, StartInv, StartTypes
<1>2. Placed(p, s)'
  BY <1>1, IdleIsProcess DEF Placed, At
<1> QED
  BY <1>2, IdleIsProcess, UnnamedMoves DEF Exit

\* A step that writes a file: no process finds a fallback it may not find.
LEMMA UnnamedWrites ==
  ASSUME StartInv, NEW s \in Dirs, Unnamed(s), NEW p \in Procs,
         \A q \in Procs \ {p} : proc'[q] = proc[q],
         UNCHANGED <<links, writable>>,
         Plain(s)' => /\ Plain(s) /\ Placed(p, s)'
                      /\ Exists(<<s, Standard>>)' =>
                           Exists(<<s, Standard>>) \/ Var \notin writable
  PROVE  Unnamed(s)'
<1> SUFFICES ASSUME Plain(s)'
             PROVE  (\A d \in Dirs : links'[d] = Nothing) /\ (\A q \in Procs : Placed(q, s)')
  BY DEF Unnamed
<1>1. (\A d \in Dirs : links[d] = Nothing) /\ (\A q \in Procs : Placed(q, s))
  BY DEF Unnamed
<1>2. \A q \in Procs \ {p} : Placed(q, s)'
  BY <1>1, PlacedKept
<1> QED
  BY <1>1, <1>2

\* No file appears in the fallback that was not there, but by who comes to
\* create it.
LEMMA FallbackAppears ==
  ASSUME StartInv, NEW s \in Dirs, NEW p \in Procs, InitSchema(p) \/ Serve(p)
  PROVE  Exists(<<s, Standard>>)' => Exists(<<s, Standard>>)
<1>1. PICK db \in Paths : db = proc[p].db /\ Exists(db)
  BY DEF InitSchema, Serve, At, StartInv, OnTheWay, Way, Opened
<1>2. \A f \in Paths \ {db} : files'[f] = files[f]
  BY <1>1 DEF InitSchema, Serve, StartInv, StartTypes
<1> QED
  BY <1>1, <1>2, PathFacts DEF Exists

\* A process that has looked is in one of the two places.
LEMMA LookPlaces ==
  ASSUME StartInv, NEW s \in Dirs \ {Var}, Unnamed(s), NEW p \in Procs, Look(p),
         Plain(s), Plain(s)'
  PROVE  Placed(p, s)'
<1>1. /\ proc[p].call \in Invocations
      /\ UNCHANGED <<files, links, writable>>
      /\ \A d \in Dirs : links[d] = Nothing
  BY DEF Look, At, StartInv, OnTheWay, Way, Unnamed
<1>2. Explicit(p) = Nothing /\ FallbackDir(p) = s
  BY DEF Look, Count, Plain
<1>3. Fallback(p) = <<s, Standard>> /\ Wanted(p) \in Paths
  BY <1>1, <1>2, WantedFacts DEF Fallback
<1>4. /\ Canonical(Wanted(p)) = Wanted(p)
      /\ There(Wanted(p)) <=> Exists(Wanted(p))
      /\ There(<<s, Standard>>) <=> Exists(<<s, Standard>>)
  BY <1>1, <1>3, NoLinks, TwoPlaces
<1>5. /\ Wanted(p) \in {Default, <<s, Standard>>}
      /\ ~There(Wanted(p)) => Wanted(p) = Default /\ ~There(<<s, Standard>>)
  BY <1>2, <1>3 DEF Wanted
<1>6. CASE There(Wanted(p))
  <2> DEFINE pc == IF Options(p).check THEN "checking" ELSE "opened"
  <2>1. Move(p, pc, Wanted(p), {}) /\ {} \in SUBSET Paths
    BY <1>4, <1>6 DEF Look, Found
  <2>2. pc \in Points /\ pc \notin {"touching", "creating"}
    BY DEF Points
  <2> HIDE DEF pc
  <2>3. proc'[p].pc = pc /\ proc'[p].call = proc[p].call /\ proc'[p].db = Wanted(p)
    BY <1>3, <2>1, <2>2, Moved
  <2> QED
    BY <1>2, <1>5, <2>2, <2>3, CallKept DEF Placed, At
<1>7. CASE ~There(Wanted(p)) /\ Options(p).check
  <2>1. proc'[p] = Idle
    BY <1>7 DEF Look, Exit, StartInv, StartTypes
  <2> QED
    BY <2>1, IdleIsProcess DEF Placed, At
<1>8. CASE ~There(Wanted(p)) /\ ~Options(p).check
  <2>1. Move(p, "touching", Wanted(p), {}) /\ "touching" \in Points /\ {} \in SUBSET Paths
    BY <1>8 DEF Look, Points
  <2>2. proc'[p].pc = "touching" /\ proc'[p].call = proc[p].call /\ proc'[p].db = Wanted(p)
    BY <1>3, <2>1, Moved
  <2>3. Wanted(p) = Default /\ ~Exists(<<s, Standard>>) /\ Default # <<s, Standard>>
    BY <1>4, <1>5, <1>8, TwoPlaces
  <2>4. ~Exists(<<s, Standard>>)'
    BY <1>1, <2>3 DEF Exists
  <2> QED
    BY <1>2, <2>2, <2>3, <2>4, CallKept DEF Placed, At
<1> QED
  BY <1>6, <1>7, <1>8

\* One that has looked again is where it was.
LEMMA TouchPlaces ==
  ASSUME StartInv, NEW s \in Dirs \ {Var}, Unnamed(s), NEW p \in Procs, Touch(p), Plain(s)
  PROVE  Placed(p, s)'
<1>1. /\ proc[p].db \in Paths /\ UNCHANGED <<files, links, writable>>
      /\ At(p, "touching") /\ Placed(p, s)
      /\ \A d \in Dirs : links[d] = Nothing
  BY DEF Touch, StartInv, OnTheWay, Way, Unnamed
<1>2. Canonical(proc[p].db) = proc[p].db
  BY <1>1, NoLinks
<1>3. CASE There(proc[p].db)
  <2> DEFINE pc == IF Options(p).check THEN "checking" ELSE "opened"
  <2>1. Move(p, pc, proc[p].db, {}) /\ {} \in SUBSET Paths
    BY <1>2, <1>3 DEF Touch, Found
  <2>2. pc \in Points /\ pc \notin {"idle", "started", "touching", "creating"}
    BY DEF Points
  <2> HIDE DEF pc
  <2>3. proc'[p].pc = pc /\ proc'[p].call = proc[p].call /\ proc'[p].db = proc[p].db
    BY <1>1, <2>1, <2>2, Moved
  <2> QED
    BY <1>1, <2>2, <2>3, PlacedOn DEF At
<1>4. CASE ~There(proc[p].db)
  <2> DEFINE seen == {n \in Paths : There(n)}
  <2>1. /\ Move(p, "creating", proc[p].db, seen) /\ "creating" \in Points
        /\ seen \in SUBSET Paths
    BY <1>4 DEF Touch, Points
  <2> HIDE DEF seen
  <2>2. proc'[p].pc = "creating" /\ proc'[p].call = proc[p].call
        /\ proc'[p].db = proc[p].db
    BY <1>1, <2>1, Moved
  <2>3. Exists(<<s, Standard>>)' <=> Exists(<<s, Standard>>)
    BY <1>1 DEF Exists
  <2> QED
    BY <1>1, <2>2, <2>3, CallKept DEF Placed, At
<1> QED
  BY <1>3, <1>4

\* One that may not create the default comes to the fallback.
LEMMA CreateFailsPlaces ==
  ASSUME StartInv, NEW s \in Dirs \ {Var}, Unnamed(s), NEW p \in Procs, CreateFails(p),
         Plain(s)
  PROVE  Placed(p, s)'
<1>1. /\ UNCHANGED <<files, links, writable>> /\ At(p, "creating") /\ Placed(p, s)
      /\ proc[p].call \in Invocations
  BY DEF CreateFails, At, StartInv, OnTheWay, Way, Unnamed
<1>2. CASE Explicit(p) = Nothing /\ proc[p].db = Default
  <2>1. Var \notin writable
    BY <1>2, TwoPlaces DEF CreateFails
  <2>2. Fallback(p) = <<s, Standard>> /\ Fallback(p) \in Paths
    BY <1>1, WantedFacts DEF Fallback, Placed, At
  <2>3. /\ Move(p, "touching", Fallback(p), {}) /\ "touching" \in Points
        /\ {} \in SUBSET Paths
    BY <1>2 DEF CreateFails, Points
  <2>4. proc'[p].pc = "touching" /\ proc'[p].call = proc[p].call
        /\ proc'[p].db = Fallback(p)
    BY <2>2, <2>3, Moved
  <2> QED
    BY <1>1, <2>1, <2>2, <2>4, CallKept DEF Placed, At
<1>3. CASE ~(Explicit(p) = Nothing /\ proc[p].db = Default)
  <2>1. proc'[p] = Idle
    BY <1>3 DEF CreateFails, Exit, StartInv, StartTypes
  <2> QED
    BY <2>1, IdleIsProcess DEF Placed, At
<1> QED
  BY <1>2, <1>3

LEMMA UnnamedStep ==
  ASSUME StartInv, StartInv', NEW s \in Dirs \ {Var}, Unnamed(s), [SNext]_svars
  PROVE  Unnamed(s)'
<1>0. /\ proc \in [Procs -> Process] /\ proc' \in [Procs -> Process]
      /\ s \in Dirs /\ (Plain(s)' => Plain(s))
  BY HistoriesGrow DEF StartInv, StartTypes
<1>1. ASSUME NEW p \in Procs, NEW call \in Invocations, Launch(p, call)
      PROVE  Unnamed(s)'
  <2>1. PICK r \in Process : /\ r.pc \in {"idle", "started"}
                             /\ proc' = [proc EXCEPT ![p] = r]
    BY <1>1, IdleIsProcess, CalledFacts DEF Launch
  <2>2. Placed(p, s)'
    BY <2>1, <1>0 DEF Placed, At
  <2>3. UNCHANGED <<files, links, writable>>
    BY <1>1 DEF Launch
  <2> QED
    BY <1>0, <2>1, <2>2, <2>3, UnnamedMoves
\* A step of one process on the way, with the disk as it was.
<1>2. ASSUME NEW p \in Procs, proc' = [proc EXCEPT ![p] = proc'[p]],
             UNCHANGED <<files, links, writable>>, Plain(s)' => Placed(p, s)'
      PROVE  Unnamed(s)'
  BY <1>0, <1>2, UnnamedMoves
<1>3. ASSUME NEW p \in Procs, Look(p)
      PROVE  Unnamed(s)'
  <2>1. /\ UNCHANGED <<files, links, writable>>
        /\ proc' = [proc EXCEPT ![p] = proc'[p]]
    BY <1>0, <1>3 DEF Look, Found, Move, Exit
  <2> QED
    BY <1>0, <1>2, <1>3, <2>1, LookPlaces
<1>4. ASSUME NEW p \in Procs, Touch(p)
      PROVE  Unnamed(s)'
  <2>1. /\ UNCHANGED <<files, links, writable>>
        /\ proc' = [proc EXCEPT ![p] = proc'[p]]
    BY <1>0, <1>4 DEF Touch, Found, Move
  <2> QED
    BY <1>0, <1>2, <1>4, <2>1, TouchPlaces
<1>5. ASSUME NEW p \in Procs, Create(p)
      PROVE  Unnamed(s)'
  <2>1. PICK f \in Paths :
          /\ f = Canonical(proc[p].db)
          /\ proc'[p].pc = "opened" /\ proc'[p].call = proc[p].call /\ proc'[p].db = f
          /\ \A q \in Procs \ {p} : proc'[q] = proc[q]
          /\ files' = [files EXCEPT ![f] = Blank]
    BY <1>5, CreateFacts
  <2>2. UNCHANGED <<links, writable>> /\ At(p, "creating") /\ proc[p].db \in Paths
    BY <1>5 DEF Create, At, StartInv, OnTheWay, Way
  <2>3. ASSUME Plain(s)'
        PROVE  /\ Plain(s) /\ Placed(p, s)'
               /\ Exists(<<s, Standard>>)' => Exists(<<s, Standard>>) \/ Var \notin writable
    <3>1. Plain(s) /\ Placed(p, s) /\ \A d \in Dirs : links[d] = Nothing
      BY <1>0, <2>3 DEF Unnamed
    <3>2. f = proc[p].db
      BY <2>1, <2>2, <3>1, NoLinks
    <3>3. Placed(p, s)'
      BY <1>0, <2>1, <2>2, <3>1, <3>2, PlacedOn DEF At
    <3>4. CASE proc[p].db = <<s, Standard>>
      BY <2>2, <3>1, <3>3, <3>4 DEF Placed, At
    <3>5. CASE proc[p].db # <<s, Standard>>
      <4>1. files'[<<s, Standard>>] = files[<<s, Standard>>]
        BY <2>1, <3>2, <3>5, TwoPlaces DEF StartInv, StartTypes
      <4> QED
        BY <3>1, <3>3, <4>1 DEF Exists
    <3> QED
      BY <3>4, <3>5
  <2> QED
    BY <1>0, <2>1, <2>2, <2>3, UnnamedWrites
<1>6. ASSUME NEW p \in Procs, CreateFails(p)
      PROVE  Unnamed(s)'
  <2>1. /\ UNCHANGED <<files, links, writable>>
        /\ proc' = [proc EXCEPT ![p] = proc'[p]]
    BY <1>0, <1>6 DEF CreateFails, Move, Exit
  <2> QED
    BY <1>0, <1>2, <1>6, <2>1, CreateFailsPlaces
<1>7. ASSUME NEW p \in Procs, Check(p) \/ Fail(p) \/ Stop(p)
      PROVE  Unnamed(s)'
  <2>1. Exit(p) /\ UNCHANGED <<files, links, writable>>
    BY <1>7 DEF Check, Fail, Stop
  <2> QED
    BY <1>0, <2>1, UnnamedExits
<1>8. ASSUME NEW p \in Procs, Enter(p)
      PROVE  Unnamed(s)'
  <2> SUFFICES ASSUME Plain(s)'
               PROVE  Unnamed(s)'
    BY DEF Unnamed
  <2>1. UNCHANGED <<files, writable>> /\ At(p, "opened")
    BY <1>8 DEF Enter
  <2>2. Placed(p, s)
    BY <1>0 DEF Unnamed
  <2>3. proc[p].db[2] = Standard
    <3>1. proc[p].db = Default \/ proc[p].db = <<s, Standard>>
      BY <2>1, <2>2 DEF Placed, At
    <3> QED
      BY <3>1 DEF Default
  <2>4. links' = links
    BY <1>8, <2>3 DEF Enter
  <2>5. /\ proc'[p].pc = "entered" /\ proc'[p].db = proc[p].db
        /\ proc'[p].call = proc[p].call
    BY <1>0, <1>8 DEF Enter, To, Process
  <2>6. Placed(p, s)'
    BY <1>0, <2>1, <2>2, <2>5, PlacedOn DEF At
  <2>7. proc' = [proc EXCEPT ![p] = proc'[p]]
    BY <1>0, <1>8 DEF Enter, To
  <2> QED
    BY <1>2, <2>1, <2>4, <2>6, <2>7
<1>9. ASSUME NEW p \in Procs, InitSchema(p)
      PROVE  Unnamed(s)'
  <2>1. /\ proc'[p].pc = "stored" /\ proc'[p].db = proc[p].db
        /\ proc'[p].call = proc[p].call /\ At(p, "entered")
        /\ \A q \in Procs \ {p} : proc'[q] = proc[q]
    BY <1>0, <1>9 DEF InitSchema, To, Process
  <2>2. UNCHANGED <<links, writable>> /\ (Exists(<<s, Standard>>)' => Exists(<<s, Standard>>))
    BY <1>0, <1>9, FallbackAppears DEF InitSchema
  <2>3. Plain(s)' => Plain(s) /\ Placed(p, s)'
    BY <1>0, <2>1, PlacedOn DEF Unnamed, At
  <2> QED
    BY <1>0, <2>1, <2>2, <2>3, UnnamedWrites
<1>10. ASSUME NEW p \in Procs, Configure(p)
       PROVE  Unnamed(s)'
  <2>1. UNCHANGED <<files, links, writable>> /\ At(p, "stored")
    BY <1>10 DEF Configure
  <2>2. proc' = [proc EXCEPT ![p] = proc'[p]]
    BY <1>0, <1>10 DEF Configure, Exit
  <2>3. ASSUME Plain(s)'
        PROVE  Placed(p, s)'
    <3>1. Placed(p, s)
      BY <1>0, <2>3 DEF Unnamed
    <3>2. \/ proc'[p] = Idle
          \/ /\ proc'[p].pc = "serving" /\ proc'[p].db = proc[p].db
             /\ proc'[p].call = proc[p].call
      <4> DEFINE Serving(r) == [r EXCEPT !.pc = "serving", !.seen = {},
                                  !.limit = ClampLimit(Options(p).limit), !.upload = UploadPath(p)]
      <4>1. proc[p] \in Process /\ DOMAIN proc = Procs
        BY <1>0
      <4>2. proc'[p] = Idle \/ proc'[p] = Serving(proc[p])
        BY <1>10, <4>1 DEF Configure, Exit
      <4>3. /\ Serving(proc[p]).pc = "serving" /\ Serving(proc[p]).db = proc[p].db
            /\ Serving(proc[p]).call = proc[p].call
        BY <4>1 DEF Process
      <4> QED
        BY <4>2, <4>3
    <3>3. CASE proc'[p] = Idle
      BY <3>3, IdleIsProcess DEF Placed, At
    <3>4. CASE /\ proc'[p].pc = "serving" /\ proc'[p].db = proc[p].db
               /\ proc'[p].call = proc[p].call
      BY <1>0, <2>1, <3>1, <3>4, PlacedOn DEF At
    <3> QED
      BY <3>2, <3>3, <3>4
  <2> QED
    BY <1>2, <2>1, <2>2, <2>3
<1>11. ASSUME NEW p \in Procs, Serve(p)
       PROVE  Unnamed(s)'
  <2>1. UNCHANGED <<links, writable, proc>> /\ At(p, "serving")
    BY <1>11 DEF Serve
  <2>2. Exists(<<s, Standard>>)' => Exists(<<s, Standard>>)
    BY <1>0, <1>11, FallbackAppears
  <2>3. Plain(s)' => Plain(s) /\ Placed(p, s)'
    BY <1>0, <2>1, PlacedOn DEF Unnamed, At
  <2> QED
    BY <1>0, <2>1, <2>2, <2>3, UnnamedWrites
<1>12. CASE Chmod
  <2>1. UNCHANGED <<links, proc>> /\ \A p \in Procs : ~Starting(p)
    BY <1>12 DEF Chmod
  <2>2. ASSUME NEW p \in Procs, Placed(p, s)
        PROVE  Placed(p, s)'
    <3>1. ~At(p, "touching") /\ ~At(p, "creating")
      BY <2>1 DEF Starting, At
    <3> QED
      BY <2>1, <2>2, <3>1, CallKept DEF Placed, At
  <2> QED
    BY <1>0, <2>1, <2>2 DEF Unnamed
<1>13. CASE UNCHANGED svars
  <2>1. UNCHANGED <<links, proc, writable, files>>
    BY <1>13 DEF svars
  <2>2. Exists(<<s, Standard>>)' => Exists(<<s, Standard>>)
    BY <2>1 DEF Exists
  <2> QED
    BY <1>0, <2>1, <2>2, PlacedKept DEF Unnamed
<1> QED
  BY <1>1, <1>3, <1>4, <1>5, <1>6, <1>7, <1>8, <1>9, <1>10, <1>11, <1>12, <1>13
     DEF SNext, Step

EachUnnamed == \A s \in Dirs \ {Var} : Unnamed(s)

LEMMA UnnamedInvariant == SSpec => []EachUnnamed
<1>1. SInit => EachUnnamed
  BY IdleIsProcess DEF SInit, EachUnnamed, Unnamed, Placed, At
<1>2. StartInv /\ StartInv' /\ EachUnnamed /\ [SNext]_svars => EachUnnamed'
  BY UnnamedStep DEF EachUnnamed
<1> QED
  BY <1>1, <1>2, StartInvariant, PTL DEF SSpec

\* No step takes a file away.
LEMMA FilesStay ==
  ASSUME StartInv, StartInv', [SNext]_svars
  PROVE  \A f \in Paths : Exists(f) => Exists(f)'
<1> SUFFICES ASSUME NEW f \in Paths, Exists(f), files'[f] # files[f]
             PROVE  Exists(f)'
  BY DEF Exists
<1>1. PICK p \in Procs : Create(p) \/ InitSchema(p) \/ Serve(p)
  BY FileWriters
<1>2. CASE Create(p)
  <2>1. PICK db \in Paths : files' = [files EXCEPT ![db] = Blank]
    BY <1>2, CreateFacts
  <2> QED
    BY <2>1 DEF Exists, Blank, File, StartInv, StartTypes
<1>3. CASE InitSchema(p)
  <2>1. PICK db \in Paths, c \in Content : c.state = "store" /\ files' = [files EXCEPT ![db] = c]
    BY <1>3, InitSchemaFacts
  <2> QED
    BY <2>1 DEF Exists, StartInv, StartTypes
<1>4. CASE Serve(p)
  <2>1. files \in [Paths -> Content]
    BY DEF StartInv, StartTypes
  <2>2. PICK db, i : files' = [files EXCEPT ![db].used = IF i \in @ THEN @ \ {i} ELSE @ \union {i}]
    BY <1>4, Zenon DEF Serve
  <2>3. files'[f].state = files[f].state
    BY <2>1, <2>2 DEF Content
  <2> QED
    BY <2>3 DEF Exists
<1> QED
  BY <1>1, <1>2, <1>3, <1>4

\* Only a process that enters a directory makes a link.
LEMMA LinksMade ==
  ASSUME [SNext]_svars, links' # links
  PROVE  \E p \in Procs : Enter(p)
<1>1. ASSUME NEW p \in Procs, NEW call \in Invocations, Launch(p, call)
      PROVE  links' = links
  BY <1>1 DEF Launch
<1>2. ASSUME NEW p \in Procs,
             Look(p) \/ Touch(p) \/ Create(p) \/ CreateFails(p) \/ Check(p) \/ InitSchema(p)
             \/ Fail(p) \/ Configure(p) \/ Serve(p) \/ Stop(p)
      PROVE  links' = links
  BY <1>2 DEF Look, Touch, Create, CreateFails, Check, InitSchema, Fail, Configure, Serve, Stop
<1>3. Chmod \/ UNCHANGED svars => links' = links
  BY DEF Chmod, svars
<1> QED
  BY <1>1, <1>2, <1>3 DEF SNext, Step

\* A place where there is a database keeps it, and no link is put in its way.
LEMMA PlaceStays ==
  ASSUME StartInv, StartInv', [SNext]_svars, NEW d \in Dirs, There(<<d, Standard>>)
  PROVE  /\ Canonical(<<d, Standard>>)' = Canonical(<<d, Standard>>)
         /\ There(<<d, Standard>>)'
<1>1. Canonical(<<d, Standard>>) \in Paths
  BY CanonicalFacts, PathFacts DEF StartInv
<1>2. links'[d] = links[d]
  <2>1. ASSUME NEW p \in Procs, Enter(p)
        PROVE  links'[d] = links[d]
    BY <2>1 DEF Enter, StartInv, StartTypes
  <2> QED
    BY <2>1, LinksMade
<1>3. Canonical(<<d, Standard>>)' = Canonical(<<d, Standard>>)
  BY <1>2 DEF Canonical
<1>4. \A f \in Paths : Exists(f) => Exists(f)'
  BY FilesStay
<1> QED
  BY <1>1, <1>3, <1>4 DEF There, Exists

\* Until an operator has named a path, and with one fallback directory, no
\* default appears beside a fallback.
LEMMA NoSecondDefault ==
  ASSUME StartInv, StartInv', NEW s \in Dirs \ {Var}, Unnamed(s), [SNext]_svars, Plain(s),
         ~There(Default), There(<<s, Standard>>)
  PROVE  ~There(Default)'
<1>1. /\ \A p \in Procs : Placed(p, s)
      /\ \A d \in Dirs : links[d] = Nothing
      /\ Default \in Paths /\ <<s, Standard>> \in Paths
  BY TwoPlaces DEF Unnamed
<1>2. ~Exists(Default) /\ Exists(<<s, Standard>>)
  BY <1>1, NoLinks
<1>3. links' = links
  <2>1. ASSUME NEW p \in Procs, Enter(p)
        PROVE  links' = links
    <3>1. proc[p].db[2] = Standard
      BY <1>1, <2>1, TwoPlaces DEF Placed, Enter, At
    <3> QED
      BY <2>1, <3>1 DEF Enter
  <2> QED
    BY <2>1, LinksMade
<1>4. There(Default)' <=> Exists(Default)'
  BY <1>1, <1>3, PathFacts DEF There, Canonical
<1>5. SUFFICES ASSUME files'[Default] # files[Default]
               PROVE  FALSE
  BY <1>2, <1>4 DEF Exists
<1>6. PICK p \in Procs : Create(p) \/ InitSchema(p) \/ Serve(p)
  BY <1>5, FileWriters
<1>7. CASE Create(p)
  <2>1. PICK f \in Paths : /\ f = Canonical(proc[p].db) /\ f[1] \in writable
                           /\ files' = [files EXCEPT ![f] = Blank]
    BY <1>7, CreateFacts
  <2>2. f = Default
    BY <1>1, <1>5, <2>1 DEF StartInv, StartTypes
  <2> QED
    BY <1>1, <1>2, <1>7, <2>1, <2>2, TwoPlaces DEF Create, Placed, At
<1>8. CASE InitSchema(p) \/ Serve(p)
  <2>1. Default = proc[p].db
    BY <1>1, <1>5, <1>8 DEF InitSchema, Serve, StartInv, StartTypes
  <2>2. Exists(proc[p].db)
    BY <1>8 DEF InitSchema, Serve, At, StartInv, OnTheWay, Way, Opened
  <2> QED
    BY <1>2, <2>1, <2>2
<1> QED
  BY <1>6, <1>7, <1>8

\* Once a start-up without --db-path has found a database, every later one
\* with the same fallback directory finds it too, whatever was created, linked
\* or made unwritable in between; it only ever moves from the fallback to the
\* default, after a path has been named or a start-up has had another fallback
\* (db_path.cpp, bootstrap.cpp).
THEOREM PlainStartStays == SSpec => DefaultStays
<1>1. ASSUME StartInv, StartInv', EachUnnamed, [SNext]_svars
      PROVE  [\A s \in Fallbacks :
                (Exists(PlainStart(s)) /\ PlainStart(s)' # PlainStart(s)) =>
                  /\ PlainStart(s) = Canonical(<<s, Standard>>) /\ PlainStart(s)'[1] = Var
                  /\ named \/ homes \ {s} # {}]_svars
  <2> SUFFICES ASSUME NEW s \in Fallbacks,
                      Exists(PlainStart(s)), PlainStart(s)' # PlainStart(s)
               PROVE  /\ PlainStart(s) = Canonical(<<s, Standard>>) /\ PlainStart(s)'[1] = Var
                      /\ named \/ homes \ {s} # {}
    OBVIOUS
  <2>1. s \in Dirs \ {Var} /\ Var \in Dirs /\ Unnamed(s)
    BY <1>1, FallbackFacts, PathFacts DEF Fallbacks, EachUnnamed
  <2>2. There(Default) => Canonical(Default)' = Canonical(Default) /\ There(Default)'
    BY <1>1, <2>1, PlaceStays DEF Default
  <2>3. There(<<s, Standard>>) => /\ Canonical(<<s, Standard>>)' = Canonical(<<s, Standard>>)
                                  /\ There(<<s, Standard>>)'
    BY <1>1, <2>1, PlaceStays
  <2>4. ~There(Default)
    BY <2>2 DEF PlainStart
  <2>5. PlainStart(s) = Canonical(<<s, Standard>>) /\ There(<<s, Standard>>)
    BY <2>4 DEF PlainStart, There
  <2>6. There(Default)' /\ PlainStart(s)' = Canonical(Default)'
    BY <2>3, <2>5 DEF PlainStart
  <2>7. PlainStart(s)'[1] = Var
    BY <2>6 DEF Default, Canonical
  <2>8. ~Plain(s)
    BY <1>1, <2>1, <2>4, <2>5, <2>6, NoSecondDefault
  <2> QED
    BY <2>5, <2>7, <2>8 DEF Plain
<1> QED
  BY <1>1, StartInvariant, UnnamedInvariant, PTL DEF SSpec, DefaultStays

-----------------------------------------------------------------------------
(* The limit.                                                              *)

\* A process that has initialised its database and was the last to do so finds
\* its own limit there.
Told(p) ==
  /\ ~At(p, "idle") => Parse(proc[p].call).action = "run"
  /\ At(p, "serving") => proc[p].limit = ClampLimit(Options(p).limit)
  /\ proc[p].pc \in {"stored", "serving"} /\ by[proc[p].db] = p =>
       IsStore(proc[p].db) /\ files[proc[p].db].limit = ClampLimit(Options(p).limit)

\* A process that stays where it is, while the steps of others leave the
\* limit of its database as it is or take over as the last to initialise it.
LEMMA ToldKept ==
  ASSUME StartInv, NEW p \in Procs, Told(p), proc'[p] = proc[p],
         proc[p].pc \in {"stored", "serving"} =>
           \/ by'[proc[p].db] # p
           \/ /\ by'[proc[p].db] = by[proc[p].db]
              /\ files'[proc[p].db].state = files[proc[p].db].state
              /\ files'[proc[p].db].limit = files[proc[p].db].limit
  PROVE  Told(p)'
<1>1. Options(p)' = Options(p)
  BY DEF Options
<1> QED
  BY <1>1 DEF Told, At, IsStore

LEMMA ToldStep ==
  ASSUME StartInv, StartInv', \A p \in Procs : Told(p), [SNext]_svars
  PROVE  \A p \in Procs : Told(p)'
<1>0. proc \in [Procs -> Process] /\ proc' \in [Procs -> Process]
  BY DEF StartInv, StartTypes
<1>1. ASSUME NEW q \in Procs, NEW call \in Invocations, Launch(q, call)
      PROVE  \A p \in Procs : Told(p)'
  <2>1. UNCHANGED <<files, by>>
    BY <1>1 DEF Launch
  <2>2. ASSUME NEW p \in Procs \ {q}
        PROVE  Told(p)'
    BY <1>0, <1>1, <2>1, ToldKept DEF Launch
  <2>3. Told(q)'
    <3>1. CASE Parse(call).action = "run"
      <4>1. proc'[q].pc = "started" /\ proc'[q].call = call
        BY <1>0, <1>1, <3>1, CalledFacts DEF Launch
      <4> QED
        BY <3>1, <4>1 DEF Told, At
    <3>2. CASE Parse(call).action # "run"
      BY <1>0, <1>1, <3>2, IdleIsProcess DEF Launch, Told, At
    <3> QED
      BY <3>1, <3>2
  <2> QED
    BY <2>2, <2>3
<1>2. ASSUME NEW q \in Procs, Exit(q), UNCHANGED <<files, by>>
      PROVE  \A p \in Procs : Told(p)'
  <2>1. ASSUME NEW p \in Procs \ {q}
        PROVE  Told(p)'
    BY <1>0, <1>2, <2>1, ToldKept DEF Exit
  <2>2. Told(q)'
    BY <1>0, <1>2, IdleIsProcess DEF Exit, Told, At
  <2> QED
    BY <2>1, <2>2
\* A step to a point before the database is initialised.
<1>3. ASSUME NEW q \in Procs, ~At(q, "idle"), UNCHANGED <<files, by>>,
             \A p \in Procs \ {q} : proc'[p] = proc[p],
             proc'[q].pc \notin {"stored", "serving"}, proc'[q].call = proc[q].call
      PROVE  \A p \in Procs : Told(p)'
  <2>1. ASSUME NEW p \in Procs \ {q}
        PROVE  Told(p)'
    BY <1>3, <2>1, ToldKept
  <2>2. Told(q)'
    BY <1>3 DEF Told, At
  <2> QED
    BY <2>1, <2>2
\* A move to such a point.
<1>4. ASSUME NEW q \in Procs, NEW pc \in Points \ {"stored", "serving"}, NEW db \in Paths,
             NEW seen \in SUBSET Paths, Move(q, pc, db, seen), ~At(q, "idle"),
             UNCHANGED <<files, by>>
      PROVE  \A p \in Procs : Told(p)'
  <2>1. /\ proc'[q].pc = pc /\ proc'[q].call = proc[q].call
        /\ \A p \in Procs \ {q} : proc'[p] = proc[p]
    BY <1>4, Moved
  <2> QED
    BY <1>3, <1>4, <2>1
<1>5. ASSUME NEW q \in Procs, NEW name \in Paths, Found(q, name), ~At(q, "idle"),
             UNCHANGED <<files, by>>
      PROVE  \A p \in Procs : Told(p)'
  <2> DEFINE pc == IF Options(q).check THEN "checking" ELSE "opened"
  <2>1. pc \in Points \ {"stored", "serving"} /\ {} \in SUBSET Paths
    BY DEF Points
  <2>2. Canonical(name) \in Paths /\ Move(q, pc, Canonical(name), {})
    BY <1>5, CanonicalFacts DEF StartInv, Found
  <2> HIDE DEF pc
  <2> QED
    BY <1>4, <1>5, <2>1, <2>2
<1>6. ASSUME NEW q \in Procs, Look(q) \/ Touch(q) \/ CreateFails(q)
      PROVE  \A p \in Procs : Told(p)'
  <2>1. /\ UNCHANGED <<files, by>> /\ ~At(q, "idle") /\ proc[q].call \in Invocations
        /\ Touch(q) => proc[q].db \in Paths
    BY <1>6 DEF Look, Touch, CreateFails, At, StartInv, OnTheWay, Way
  <2>2. Wanted(q) \in Paths /\ Fallback(q) \in Paths
    BY <2>1, WantedFacts
  <2>3. /\ {"touching", "creating"} \subseteq Points \ {"stored", "serving"}
        /\ {} \in SUBSET Paths
    BY DEF Points
  <2>4. CASE Look(q)
    BY <1>2, <1>4, <1>5, <2>1, <2>2, <2>3, <2>4 DEF Look
  <2>5. CASE Touch(q)
    <3>1. {n \in Paths : There(n)} \in SUBSET Paths
      OBVIOUS
    <3> QED
      BY <1>4, <1>5, <2>1, <2>3, <2>5, <3>1 DEF Touch
  <2>6. CASE CreateFails(q)
    BY <1>2, <1>4, <2>1, <2>2, <2>3, <2>6 DEF CreateFails
  <2> QED
    BY <1>6, <2>4, <2>5, <2>6
<1>13. ASSUME NEW q \in Procs, Create(q)
      PROVE  \A p \in Procs : Told(p)'
  <2>1. PICK f \in Paths :
          /\ proc'[q].pc = "opened" /\ proc'[q].call = proc[q].call
          /\ \A p \in Procs \ {q} : proc'[p] = proc[p]
          /\ files' = [files EXCEPT ![f] = Blank] /\ by' = [by EXCEPT ![f] = Nothing]
    BY <1>13, CreateFacts
  <2>2. Told(q)'
    BY <1>13, <2>1 DEF Create, Told, At
  <2>3. ASSUME NEW p \in Procs \ {q}
        PROVE  Told(p)'
    <3>1. proc[p].pc \in {"stored", "serving"} => proc[p].db \in Paths
      BY DEF StartInv, OnTheWay, Way, Opened
    <3>2. proc[p].pc \in {"stored", "serving"} =>
            \/ by'[proc[p].db] = Nothing
            \/ by'[proc[p].db] = by[proc[p].db] /\ files'[proc[p].db] = files[proc[p].db]
      BY <2>1, <3>1 DEF StartInv, StartTypes
    <3> QED
      BY <2>1, <3>2, ToldKept, NamesAssumption
  <2> QED
    BY <2>2, <2>3
<1>7. ASSUME NEW q \in Procs, Check(q) \/ Fail(q) \/ Stop(q)
      PROVE  \A p \in Procs : Told(p)'
  BY <1>2, <1>7 DEF Check, Fail, Stop
<1>8. ASSUME NEW q \in Procs, Enter(q)
      PROVE  \A p \in Procs : Told(p)'
  <2>1. proc'[q].pc = "entered" /\ proc'[q].call = proc[q].call /\ ~At(q, "idle")
        /\ \A p \in Procs \ {q} : proc'[p] = proc[p]
    BY <1>0, <1>8 DEF Enter, To, At, Process
  <2> QED
    BY <1>3, <1>8, <2>1 DEF Enter
<1>9. ASSUME NEW q \in Procs, InitSchema(q)
      PROVE  \A p \in Procs : Told(p)'
  <2>1. PICK db \in Paths, n \in 1..MaxLimit, c \in Content :
          /\ db = proc[q].db /\ n = ClampLimit(Options(q).limit)
          /\ c.state = "store" /\ c.limit = n
          /\ files' = [files EXCEPT ![db] = c] /\ by' = [by EXCEPT ![db] = q]
    BY <1>9, InitSchemaFacts DEF InitSchema
  <2>2. /\ proc'[q].pc = "stored" /\ proc'[q].call = proc[q].call /\ At(q, "entered")
        /\ proc'[q].db = proc[q].db
        /\ \A p \in Procs \ {q} : proc'[p] = proc[p]
    BY <1>0, <1>9 DEF InitSchema, To, Process
  <2>3. Told(q)'
    <3>1. Options(q)' = Options(q)
      BY <2>2 DEF Options
    <3>2. files'[db] = c
      BY <2>1 DEF StartInv, StartTypes
    <3> QED
      BY <2>1, <2>2, <3>1, <3>2 DEF Told, At, IsStore
  <2>4. ASSUME NEW p \in Procs \ {q}
        PROVE  Told(p)'
    <3>1. proc[p].pc \in {"stored", "serving"} => proc[p].db \in Paths
      BY DEF StartInv, OnTheWay, Way, Opened
    <3>2. proc[p].pc \in {"stored", "serving"} =>
            \/ by'[proc[p].db] = q
            \/ by'[proc[p].db] = by[proc[p].db] /\ files'[proc[p].db] = files[proc[p].db]
      BY <2>1, <3>1 DEF StartInv, StartTypes
    <3> QED
      BY <2>2, <3>2, ToldKept
  <2> QED
    BY <2>3, <2>4
<1>10. ASSUME NEW q \in Procs, Configure(q)
       PROVE  \A p \in Procs : Told(p)'
  <2>1. UNCHANGED <<files, by>> /\ At(q, "stored")
    BY <1>10 DEF Configure
  <2>2. CASE Options(q).file \notin 1..MaxFile \/ UploadPath(q) \notin writable \/ Options(q).init
    BY <1>2, <1>10, <2>1, <2>2 DEF Configure
  <2>3. CASE ~(Options(q).file \notin 1..MaxFile \/ UploadPath(q) \notin writable \/ Options(q).init)
    <3> DEFINE limit == ClampLimit(Options(q).limit)
               upload == UploadPath(q)
    <3>1. proc' = [proc EXCEPT ![q] = [@ EXCEPT !.pc = "serving", !.seen = {},
                                          !.limit = limit, !.upload = upload]]
      BY <1>10, <2>3 DEF Configure
    <3> HIDE DEF limit, upload
    <3>2. /\ proc'[q].pc = "serving" /\ proc'[q].call = proc[q].call
          /\ proc'[q].db = proc[q].db /\ proc'[q].limit = limit
          /\ \A p \in Procs \ {q} : proc'[p] = proc[p]
      BY <1>0, <3>1 DEF Process
    <3>3. Options(q)' = Options(q)
      BY <3>2 DEF Options
    <3>4. Told(q)'
      BY <2>1, <3>2, <3>3 DEF Told, At, IsStore, limit
    <3>5. ASSUME NEW p \in Procs \ {q}
          PROVE  Told(p)'
      BY <2>1, <3>2, ToldKept
    <3> QED
      BY <3>4, <3>5
  <2> QED
    BY <2>2, <2>3
<1>11. ASSUME NEW q \in Procs, Serve(q)
       PROVE  \A p \in Procs : Told(p)'
  <2>1. PICK db \in Paths : db = proc[q].db
    BY <1>11 DEF Serve, At, StartInv, OnTheWay, Way, Opened
  <2>2. \A f \in Paths : files'[f].state = files[f].state /\ files'[f].limit = files[f].limit
    <3>1. files \in [Paths -> Content]
      BY DEF StartInv, StartTypes
    <3>2. PICK i : files' = [files EXCEPT ![db].used = IF i \in @ THEN @ \ {i} ELSE @ \union {i}]
      BY <1>11, <2>1, Zenon DEF Serve
    <3> QED
      BY <2>1, <3>1, <3>2 DEF Content
  <2>3. UNCHANGED <<proc, by>>
    BY <1>11 DEF Serve
  <2>4. \A p \in Procs : proc[p].pc \in {"stored", "serving"} => proc[p].db \in Paths
    BY DEF StartInv, OnTheWay, Way, Opened
  <2> QED
    BY <2>2, <2>3, <2>4, ToldKept
<1>12. CASE Chmod \/ UNCHANGED svars
  <2>1. UNCHANGED <<files, proc, by>>
    BY <1>12 DEF Chmod, svars
  <2> QED
    BY <2>1, ToldKept
<1> QED
  BY <1>1, <1>6, <1>7, <1>8, <1>9, <1>10, <1>11, <1>12, <1>13 DEF SNext, Step

\* GET /health tells the limit that was asked for, twice, until another
\* process initialises the database (health_controller.cpp, bootstrap.cpp).
THEOREM LimitIsTold == SSpec => []LimitTold
<1>1. SInit => \A p \in Procs : Told(p)
  BY IdleIsProcess DEF SInit, Told, At
<1>2. ASSUME StartInv, \A p \in Procs : Told(p)
      PROVE  LimitTold
  <2> SUFFICES ASSUME NEW p \in Procs, At(p, "serving"), by[proc[p].db] = p
               PROVE  /\ Health(p).limit = LimitAsked(proc[p].call)
                      /\ Health(p).stored # Nothing
                      /\ Health(p).stored[1] = Health(p).limit
    BY DEF LimitTold
  <2>1. /\ proc[p].call \in Invocations /\ Parse(proc[p].call).action = "run"
        /\ proc[p].limit = ClampLimit(Options(p).limit)
        /\ IsStore(proc[p].db) /\ files[proc[p].db].limit = ClampLimit(Options(p).limit)
        /\ proc[p].db \in Paths
    BY <1>2 DEF StartInv, OnTheWay, Way, Told, At, Opened
  <2>2. Health(p).limit = LimitAsked(proc[p].call)
    BY <2>1, LimitIsRead DEF Health, Options
  <2>3. files[proc[p].db].limit \in Nat /\ Cardinality(files[proc[p].db].used) \in Nat
    BY <1>2, <2>1, UsedFinite DEF StartInv, StartTypes, Content
  <2>4. Health(p).stored = <<files[proc[p].db].limit, Cardinality(files[proc[p].db].used)>>
    BY <2>1 DEF Health, IsStore
  <2>5. Health(p).limit = proc[p].limit
    BY DEF Health
  <2>6. Health(p).stored \in Nat \X Nat /\ Health(p).stored[1] = files[proc[p].db].limit
    BY <2>3, <2>4
  <2>7. Health(p).stored # Nothing
    BY <2>6, NamesAssumption
  <2>8. Health(p).stored[1] = Health(p).limit
    BY <2>1, <2>5, <2>6
  <2> QED
    BY <2>2, <2>7, <2>8
<1> DEFINE EachTold == \A p \in Procs : Told(p)
<1>3. SInit => EachTold
  BY <1>1
<1>4. StartInv /\ StartInv' /\ EachTold /\ [SNext]_svars => EachTold'
  BY ToldStep
<1>5. StartInv /\ EachTold => LimitTold
  BY <1>2
<1> HIDE DEF EachTold
<1> QED
  BY <1>3, <1>4, <1>5, StartInvariant, PTL DEF SSpec
=============================================================================
